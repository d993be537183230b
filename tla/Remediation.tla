---------------------------- MODULE Remediation ----------------------------
(***************************************************************************)
(* The approved-remediation loop of the control plane: a signal opens an   *)
(* incident with a plan (IncidentApplicationService), a person approves    *)
(* the plan and its steps are executed, verified or compensated            *)
(* (RemediationApplicationService), and evidence is attached to the        *)
(* incident meanwhile (EvidenceCollectionService).  Every save is one      *)
(* upsert of a whole aggregate in PostgreSQL and a transaction of its own. *)
(* A process runs signals and approvals one at a time on its event loop    *)
(* and collects evidence in threads; several processes share the database. *)
(***************************************************************************)
EXTENDS Naturals, Sequences, FiniteSets

CONSTANTS
    Procs,       \* control-plane processes
    Reqs,        \* approval requests; a client's retry is one more request
    Signals,     \* anomalous signals; the incident and plan a signal opens bear its name
    Collectors,  \* requests that attach evidence
    Stored,      \* incidents that wait for approval at the start, plans included
    StoredSteps, \* the steps of the plan of each
    Asset,       \* the asset of each signal and stored incident
    Keys,        \* idempotency keys of approval requests
    Requests,    \* what an approval request may say, see RequestType
    Mode,        \* "observe_only" or "approval_only": the real-asset mode
    MaxTime,     \* bound of the clock, which ticks once in five minutes
    MaxFaults,   \* bound of crashes and failed calls
    Nil          \* no row in a table

Ids == Signals \cup Stored
Actors == Reqs \cup Signals \cup Collectors
Assets == {"lab-api", "lab-redis", "docker/devops-lab/web"}
RealAssets == {"docker/devops-lab/web"}

(* A step; undo is rollback_action, "none" where the plan declares none.    *)
Actions == {"restart_container", "health_check", "stop_container"}
Arguments == {"", "grace_seconds=10"}
StepType == [action: Actions, target: Assets, args: Arguments,
             undo: Actions \cup {"none"}, undoArgs: Arguments]
ReadOnly == {"health_check", "collect_logs", "inspect_container"}

(* intact: approved_hash is the hash of the plan; admin: signed in as one   *)
RequestType == [plan: Ids, key: Keys, intact: BOOLEAN, admin: BOOLEAN]

ASSUME RemediationAssumption ==
    /\ Asset \in [Ids -> Assets]
    /\ StoredSteps \in [Stored -> Seq(StepType)]
    /\ \A i \in Stored : Len(StoredSteps[i]) > 0
    /\ Requests \subseteq RequestType
    /\ Mode \in {"observe_only", "approval_only"}
    /\ MaxTime \in Nat
    /\ MaxFaults \in Nat

IncidentStatus == {"OPEN", "WAITING_APPROVAL", "REMEDIATING", "RESOLVED", "FAILED"}
PlanStatus == {"PENDING_APPROVAL", "APPROVED", "EXECUTING", "SUCCEEDED", "FAILED", "EXPIRED"}
Final == {"SUCCEEDED", "ROLLED_BACK", "FAILED"}
RunStatus == Final \cup {"RUNNING"}

(* A piece of evidence bears the name of the signal or request it came from. *)
Evidence == SUBSET (Actors \cup Stored)

Incident == [status: IncidentStatus, updated: 0..MaxTime, evidence: Evidence]
Plan == [status: PlanStatus, expires: Nat]
Run == [plan: Ids, owner: Reqs, status: RunStatus]

(* What is absent is none of what there is, an actor is of one sort, and a  *)
(* new incident is none of those stored.                                    *)
ASSUME NilAssumption ==
    /\ Nil \notin Incident \cup Plan \cup Run \cup [plan: Ids, key: Keys] \cup RequestType
    /\ Nil \notin Ids
    /\ Reqs \cap (Signals \cup Collectors) = {}
    /\ Signals \cap (Collectors \cup Stored) = {}
    /\ Collectors \cap Stored = {}

VARIABLES
    now,        \* the clock
    faults,     \* crashes and failed calls so far
    incidents,  \* table incidents
    plans,      \* table remediation_plans
    approvals,  \* table approvals
    runs,       \* table action_runs, by its UNIQUE column idempotency_key
    agent,      \* what the agent has decided, by the key of the step
    pc,         \* where each actor stands
    at,         \* the process each actor runs in
    ask,        \* what each approval request says
    copy,       \* the Incident object each actor holds: its id and its fields
    draft,      \* the RemediationPlan object each approval holds
    log,        \* the steps each approval has dispatched and their results
    healthy,    \* verification["healthy"] of each approval
    reply       \* what each actor's caller was told

tables == <<incidents, plans, approvals, runs>>
locals == <<at, ask, copy, draft, log, healthy>>
vars == <<now, faults, tables, agent, pc, locals, reply>>

NoCopy == [id |-> Nil]
Copy == {NoCopy} \cup [id: Ids, status: IncidentStatus, updated: 0..MaxTime,
                       evidence: Evidence]

Init ==
    /\ now = 0
    /\ faults = 0
    /\ incidents = [i \in Ids |-> IF i \in Stored
                      THEN [status |-> "WAITING_APPROVAL", updated |-> 0, evidence |-> {i}]
                      ELSE Nil]
    /\ plans = [i \in Ids |-> IF i \in Stored
                  THEN [status |-> "PENDING_APPROVAL", expires |-> 2] ELSE Nil]
    /\ approvals = {}
    /\ runs = [k \in Keys |-> Nil]
    /\ agent = {}
    /\ pc = [x \in Actors |-> "idle"]
    /\ at = [x \in Actors |-> Nil]
    /\ ask = [r \in Reqs |-> Nil]
    /\ copy = [x \in Actors |-> NoCopy]
    /\ draft = [r \in Reqs |-> Nil]
    /\ log = [r \in Reqs |-> <<>>]
    /\ healthy = [r \in Reqs |-> TRUE]
    /\ reply = [x \in Actors |-> "none"]

-----------------------------------------------------------------------------
(* Both kinds of plan.  evaluate_signal restarts the asset, which has no    *)
(* inverse, and checks its health.                                          *)
DefaultSteps(a) == <<
    [action |-> "restart_container", target |-> a, args |-> "grace_seconds=10",
     undo |-> "none", undoArgs |-> ""],
    [action |-> "health_check", target |-> a, args |-> "", undo |-> "none", undoArgs |-> ""] >>

Steps(p) == IF p \in Stored THEN StoredSteps[p] ELSE DefaultSteps(Asset[p])

Targets(p) == {Steps(p)[i].target : i \in DOMAIN Steps(p)}

(* RealActionPolicy.validate                                                *)
Permitted(p) ==
    \A i \in DOMAIN Steps(p) :
        Steps(p)[i].target \in RealAssets =>
            Mode # "observe_only" /\ Steps(p)[i].action \in ReadOnly

InFlight(x) == pc[x] \notin {"idle", "done"}

(* The event loop of a process is free: signals and approvals do not await. *)
Free(h) == \A x \in Reqs \cup Signals : InFlight(x) => at[x] # h

Goto(x, stage) == pc' = [pc EXCEPT ![x] = stage]

Finish(x, answer) ==
    /\ Goto(x, "done")
    /\ reply' = [reply EXCEPT ![x] = answer]

Fields(c) == [status |-> c.status, updated |-> c.updated, evidence |-> c.evidence]

(* save_incident: the whole aggregate, as this actor holds it               *)
SaveIncident(c) == incidents' = [incidents EXCEPT ![c.id] = Fields(c)]

Read(x, i) == copy' = [copy EXCEPT ![x] =
    [id |-> i, status |-> incidents[i].status, updated |-> incidents[i].updated,
     evidence |-> incidents[i].evidence]]

-----------------------------------------------------------------------------
(* evaluate_signal: join an active incident of the last five minutes or     *)
(* open one.  With no topology edges, only the same asset correlates.       *)
Active == {"OPEN", "INVESTIGATING", "WAITING_APPROVAL"}

Matches(s) == {i \in Ids :
    /\ incidents[i] # Nil
    /\ incidents[i].status \in Active
    /\ now - incidents[i].updated <= 1
    /\ Asset[i] = Asset[s]}

Latest(S) == {i \in S : \A j \in S : incidents[j].updated <= incidents[i].updated}

Detect(s, h) ==
    /\ pc[s] = "idle"
    /\ Free(h)
    /\ at' = [at EXCEPT ![s] = h]
    /\ \/ \E i \in Latest(Matches(s)) : Read(s, i) /\ Goto(s, "merge")
       \/ Matches(s) = {} /\ Goto(s, "open") /\ UNCHANGED copy
    /\ UNCHANGED <<now, faults, tables, agent, ask, draft, log, healthy, reply>>

(* Mutant: the evidence of the signal replaces what the incident had.       *)
Replace(s) ==
    /\ pc[s] = "merge"
    /\ SaveIncident([copy[s] EXCEPT !.evidence = {s}, !.updated = now])
    /\ Finish(s, "merged")
    /\ UNCHANGED <<now, faults, plans, approvals, runs, agent, locals>>

Merge(s) ==
    /\ pc[s] = "merge"
    /\ SaveIncident([copy[s] EXCEPT !.evidence = @ \cup {s}, !.updated = now])
    /\ Finish(s, "merged")
    /\ UNCHANGED <<now, faults, plans, approvals, runs, agent, locals>>

Open(s) ==
    LET observed == Asset[s] \in RealAssets /\ Mode = "observe_only"
        status == IF observed THEN "OPEN" ELSE "WAITING_APPROVAL" IN
    /\ pc[s] = "open"
    /\ copy' = [copy EXCEPT ![s] =
                  [id |-> s, status |-> status, updated |-> now, evidence |-> {s}]]
    /\ SaveIncident(copy'[s])
    /\ IF observed THEN Finish(s, "opened") ELSE Goto(s, "propose") /\ UNCHANGED reply
    /\ UNCHANGED <<now, faults, plans, approvals, runs, agent, at, ask, draft, log, healthy>>

Propose(s) ==
    /\ pc[s] = "propose"
    /\ plans' = [plans EXCEPT ![s] =
                   [status |-> "PENDING_APPROVAL", expires |-> copy[s].updated + 2]]
    /\ Finish(s, "opened")
    /\ UNCHANGED <<now, faults, incidents, approvals, runs, agent, locals>>

-----------------------------------------------------------------------------
(* attach_metric_evidence and attach_log_evidence: the incident is read,    *)
(* the external query runs, the incident is saved.                          *)
Collect(c, h, i) ==
    /\ pc[c] = "idle"
    /\ incidents[i] # Nil
    /\ at' = [at EXCEPT ![c] = h]
    /\ Read(c, i)
    /\ Goto(c, "query")
    /\ UNCHANGED <<now, faults, tables, agent, ask, draft, log, healthy, reply>>

Attach(c) ==
    /\ pc[c] = "query"
    /\ SaveIncident([copy[c] EXCEPT !.evidence = @ \cup {c}])
    /\ Finish(c, "attached")
    /\ UNCHANGED <<now, faults, plans, approvals, runs, agent, locals>>

-----------------------------------------------------------------------------
(* approve_plan and approve_and_execute, from the request to the approval.  *)
Route(r, h, q) ==
    /\ pc[r] = "idle"
    /\ Free(h)
    /\ at' = [at EXCEPT ![r] = h]
    /\ ask' = [ask EXCEPT ![r] = q]
    /\ IF plans[q.plan] = Nil THEN Finish(r, "not_found")
       ELSE IF \/ Targets(q.plan) \cap RealAssets # {} /\ Mode = "observe_only"
               \/ Targets(q.plan) \cap RealAssets # {} /\ ~q.admin
            THEN Finish(r, "forbidden")
       ELSE Goto(r, "lookup") /\ UNCHANGED reply
    /\ UNCHANGED <<now, faults, tables, agent, copy, draft, log, healthy>>

LookUp(r) ==
    LET run == runs[ask[r].key] IN
    /\ pc[r] = "lookup"
    /\ IF run # Nil THEN Finish(r, run.status)
       ELSE Goto(r, "load_plan") /\ UNCHANGED reply
    /\ UNCHANGED <<now, faults, tables, agent, locals>>

LoadPlan(r) ==
    /\ pc[r] = "load_plan"
    /\ draft' = [draft EXCEPT ![r] = plans[ask[r].plan]]
    /\ Goto(r, "load_incident")
    /\ UNCHANGED <<now, faults, tables, agent, at, ask, copy, log, healthy, reply>>

(* Mutant: the approved hash is not compared with the plan's.               *)
UncheckedHash(r) ==
    IF ~Permitted(ask[r].plan) THEN "rejected"
    ELSE IF draft[r].status # "PENDING_APPROVAL" THEN "conflict"
    ELSE IF now > draft[r].expires THEN "expired"
    ELSE "none"

(* Mutant: the plan's status is not looked at.                              *)
UncheckedStatus(r) ==
    IF ~Permitted(ask[r].plan) THEN "rejected"
    ELSE IF now > draft[r].expires THEN "expired"
    ELSE IF ~ask[r].intact THEN "rejected"
    ELSE "none"

Refusal(r) ==
    IF ~Permitted(ask[r].plan) THEN "rejected"
    ELSE IF draft[r].status # "PENDING_APPROVAL" THEN "conflict"
    ELSE IF now > draft[r].expires THEN "expired"
    ELSE IF ~ask[r].intact THEN "rejected"
    ELSE "none"

LoadIncident(r) ==
    /\ pc[r] = "load_incident"
    /\ IF incidents[ask[r].plan] = Nil
       THEN Finish(r, "not_found") /\ UNCHANGED copy
       ELSE /\ Read(r, ask[r].plan)
            /\ CASE Refusal(r) = "none" -> Goto(r, "approve") /\ UNCHANGED reply
                 [] Refusal(r) = "expired" -> Goto(r, "expire") /\ UNCHANGED reply
                 [] OTHER -> Finish(r, Refusal(r))
    /\ UNCHANGED <<now, faults, tables, agent, at, ask, draft, log, healthy>>

SavePlan(r, status) ==
    /\ draft' = [draft EXCEPT ![r].status = status]
    /\ plans' = [plans EXCEPT ![ask[r].plan] = draft'[r]]

Expire(r) ==
    /\ pc[r] = "expire"
    /\ SavePlan(r, "EXPIRED")
    /\ Finish(r, "expired")
    /\ UNCHANGED <<now, faults, incidents, approvals, runs, agent, at, ask, copy, log, healthy>>

(* save_approval, then start_remediation on the object in memory            *)
Approve(r) ==
    /\ pc[r] = "approve"
    /\ approvals' = approvals \cup {[plan |-> ask[r].plan, req |-> r]}
    /\ IF copy[r].status = "WAITING_APPROVAL"
       THEN /\ copy' = [copy EXCEPT ![r].status = "REMEDIATING", ![r].updated = now]
            /\ Goto(r, "mark_plan")
            /\ UNCHANGED reply
       ELSE Finish(r, "conflict") /\ UNCHANGED copy
    /\ UNCHANGED <<now, faults, incidents, plans, runs, agent, at, ask, draft, log, healthy>>

MarkPlan(r) ==
    /\ pc[r] = "mark_plan"
    /\ SavePlan(r, "APPROVED")
    /\ Goto(r, "mark_incident")
    /\ UNCHANGED <<now, faults, incidents, approvals, runs, agent, at, ask, copy, log, healthy, reply>>

MarkIncident(r) ==
    /\ pc[r] = "mark_incident"
    /\ SaveIncident(copy[r])
    /\ Goto(r, "insert_run")
    /\ UNCHANGED <<now, faults, plans, approvals, runs, agent, locals, reply>>

(* Mutant: ON CONFLICT (idempotency_key) DO UPDATE.                         *)
OverwriteRun(r) ==
    /\ pc[r] = "insert_run"
    /\ runs' = [runs EXCEPT ![ask[r].key] =
                  [plan |-> ask[r].plan, owner |-> r, status |-> "RUNNING"]]
    /\ Goto(r, "mark_executing")
    /\ UNCHANGED <<now, faults, incidents, plans, approvals, agent, locals, reply>>

(* save_action_run with a fresh id: a taken key violates UNIQUE             *)
InsertRun(r) ==
    /\ pc[r] = "insert_run"
    /\ IF runs[ask[r].key] # Nil
       THEN Finish(r, "error") /\ UNCHANGED runs
       ELSE /\ runs' = [runs EXCEPT ![ask[r].key] =
                          [plan |-> ask[r].plan, owner |-> r, status |-> "RUNNING"]]
            /\ Goto(r, "mark_executing")
            /\ UNCHANGED reply
    /\ UNCHANGED <<now, faults, incidents, plans, approvals, agent, locals>>

MarkExecuting(r) ==
    /\ pc[r] = "mark_executing"
    /\ SavePlan(r, "EXECUTING")
    /\ Goto(r, "steps")
    /\ UNCHANGED <<now, faults, incidents, approvals, runs, agent, at, ask, copy, log, healthy, reply>>

-----------------------------------------------------------------------------
(* HttpAgentDispatcher.execute.  The agent decides once per key, the key is *)
(* the plan's hash, the action and the target; other arguments under a      *)
(* decided key are refused.  A result that cannot be fetched is a failure.  *)
Dispatch(p, action, target, args, ok, performed) ==
    LET key == <<p, action, target>> IN
    \/ /\ ~ok /\ ~performed
       /\ UNCHANGED agent
    \/ /\ performed
       /\ \A d \in agent : d.key # key
       /\ \E res \in BOOLEAN :
            /\ ok => res
            /\ agent' = agent \cup {[key |-> key, args |-> args, ok |-> res]}
    \/ /\ ok /\ ~performed
       /\ [key |-> key, args |-> args, ok |-> TRUE] \in agent
       /\ UNCHANGED agent

Record(r, dir, i, ok, performed) ==
    log' = [log EXCEPT ![r] =
              Append(@, [dir |-> dir, step |-> i, ok |-> ok, performed |-> performed])]

Logged(r, dir) == {log[r][n] : n \in {m \in DOMAIN log[r] : log[r][m].dir = dir}}
Completed(r) == {e.step : e \in {d \in Logged(r, "do") : d.ok}}
Undone(r) == {e.step : e \in Logged(r, "undo")}

Compensable(r) == {i \in Completed(r) : Steps(ask[r].plan)[i].undo # "none"}
ToUndo(r) == Compensable(r) \ Undone(r)

Perform(r, ok, performed) ==
    LET i == Len(log[r]) + 1
        s == Steps(ask[r].plan)[i] IN
    /\ pc[r] = "steps"
    /\ Dispatch(ask[r].plan, s.action, s.target, s.args, ok, performed)
    /\ Record(r, "do", i, ok, performed)
    /\ Goto(r, IF ~ok THEN "undo"
               ELSE IF i = Len(Steps(ask[r].plan)) THEN "verify" ELSE "steps")
    /\ UNCHANGED <<now, faults, tables, at, ask, copy, draft, healthy, reply>>

(* Only assets of the laboratory have a recovery verifier.                  *)
Verify(r, ok) ==
    /\ pc[r] = "verify"
    /\ Asset[ask[r].plan] \in RealAssets => ok
    /\ healthy' = [healthy EXCEPT ![r] = ok]
    /\ Goto(r, IF ok THEN "save_run" ELSE "undo")
    /\ UNCHANGED <<now, faults, tables, agent, at, ask, copy, draft, log, reply>>

(* Mutant: completed_steps is not reversed.                                 *)
NextForward(r) == {i \in ToUndo(r) : \A j \in ToUndo(r) : i <= j}

NextToUndo(r) == {i \in ToUndo(r) : \A j \in ToUndo(r) : j <= i}

(* _rollback: what was done is undone, last step first, to the end          *)
Undo(r, ok, performed) ==
    /\ pc[r] = "undo"
    /\ \E i \in NextToUndo(r) :
         LET s == Steps(ask[r].plan)[i] IN
         /\ Dispatch(ask[r].plan, s.undo, s.target, s.undoArgs, ok, performed)
         /\ Record(r, "undo", i, ok, performed)
    /\ UNCHANGED <<now, faults, tables, pc, at, ask, copy, draft, healthy, reply>>

(* Mutant: the answer of the verifier is recorded and not looked at.        *)
Unverified(r) == \A e \in Logged(r, "do") : e.ok

Succeeded(r) == (\A e \in Logged(r, "do") : e.ok) /\ healthy[r]

Outcome(r) ==
    IF Succeeded(r) THEN "SUCCEEDED"
    ELSE IF Compensable(r) # {} /\ \A e \in Logged(r, "undo") : e.ok THEN "ROLLED_BACK"
    ELSE "FAILED"

(* Mutant: the outcome of the run is computed and not saved.                *)
ForgetRun(r) ==
    /\ pc[r] \in {"save_run", "undo"}
    /\ pc[r] = "undo" => ToUndo(r) = {}
    /\ Goto(r, "save_plan")
    /\ UNCHANGED <<now, faults, tables, agent, locals, reply>>

SaveRun(r) ==
    /\ pc[r] \in {"save_run", "undo"}
    /\ pc[r] = "undo" => ToUndo(r) = {}
    /\ runs' = [runs EXCEPT ![ask[r].key].status = Outcome(r)]
    /\ Goto(r, "save_plan")
    /\ UNCHANGED <<now, faults, incidents, plans, approvals, agent, locals, reply>>

SavePlanEnd(r) ==
    /\ pc[r] = "save_plan"
    /\ SavePlan(r, IF Succeeded(r) THEN "SUCCEEDED" ELSE "FAILED")
    /\ Goto(r, "save_incident")
    /\ UNCHANGED <<now, faults, incidents, approvals, runs, agent, at, ask, copy, log, healthy, reply>>

(* Mutant: the incident is finished in memory and not saved.                *)
ForgetIncident(r) ==
    /\ pc[r] = "save_incident"
    /\ Finish(r, Outcome(r))
    /\ UNCHANGED <<now, faults, tables, agent, locals>>

SaveIncidentEnd(r) ==
    /\ pc[r] = "save_incident"
    /\ SaveIncident([copy[r] EXCEPT !.status = IF Succeeded(r) THEN "RESOLVED" ELSE "FAILED",
                                    !.updated = now])
    /\ Finish(r, Outcome(r))
    /\ UNCHANGED <<now, faults, plans, approvals, runs, agent, locals>>

-----------------------------------------------------------------------------
Tick ==
    /\ now < MaxTime
    /\ now' = now + 1
    /\ UNCHANGED <<faults, tables, agent, pc, locals, reply>>

(* A call of the database or of the agent raises an error nobody catches    *)
(* (the dispatcher catches only HTTPError, URLError and TimeoutError).      *)
Raise(x) ==
    /\ faults < MaxFaults
    /\ InFlight(x)
    /\ faults' = faults + 1
    /\ Finish(x, "error")
    /\ UNCHANGED <<now, tables, agent, locals>>

(* A process dies with everything it was doing, and is started again.       *)
Crash(h) ==
    /\ faults < MaxFaults
    /\ \E x \in Actors : InFlight(x) /\ at[x] = h
    /\ faults' = faults + 1
    /\ pc' = [x \in Actors |-> IF InFlight(x) /\ at[x] = h THEN "done" ELSE pc[x]]
    /\ reply' = [x \in Actors |-> IF InFlight(x) /\ at[x] = h THEN "lost" ELSE reply[x]]
    /\ UNCHANGED <<now, tables, agent, locals>>

(* The agent restarts and has forgotten what it decided.                    *)
Forget ==
    /\ faults < MaxFaults
    /\ agent # {}
    /\ faults' = faults + 1
    /\ agent' = {}
    /\ UNCHANGED <<now, tables, pc, locals, reply>>

ApprovalStep(r) ==
    \/ LookUp(r) \/ LoadPlan(r) \/ LoadIncident(r)
    \/ Expire(r) \/ Approve(r) \/ MarkPlan(r) \/ MarkIncident(r) \/ InsertRun(r)
    \/ MarkExecuting(r)
    \/ \E ok, performed \in BOOLEAN : Perform(r, ok, performed) \/ Undo(r, ok, performed)
    \/ \E ok \in BOOLEAN : Verify(r, ok)
    \/ SaveRun(r) \/ SavePlanEnd(r) \/ SaveIncidentEnd(r)

SignalStep(s) == Merge(s) \/ Open(s) \/ Propose(s)

Next ==
    \/ Tick
    \/ Forget
    \/ \E x \in Actors : Raise(x)
    \/ \E h \in Procs : Crash(h)
    \/ \E r \in Reqs : ApprovalStep(r) \/ \E h \in Procs, q \in Requests : Route(r, h, q)
    \/ \E s \in Signals : SignalStep(s) \/ \E h \in Procs : Detect(s, h)
    \/ \E c \in Collectors : Attach(c) \/ \E h \in Procs, i \in Ids : Collect(c, h, i)

Spec == Init /\ [][Next]_vars

-----------------------------------------------------------------------------
Stages == {"idle", "merge", "open", "propose", "query", "lookup", "load_plan",
           "load_incident", "expire", "approve", "mark_plan", "mark_incident",
           "insert_run", "mark_executing", "steps", "verify", "undo", "save_run",
           "save_plan", "save_incident", "done"}
Replies == RunStatus \cup {"none", "merged", "opened", "attached", "not_found", "forbidden",
                           "rejected", "conflict", "expired", "error", "lost"}
Entry == [dir: {"do", "undo"}, step: Nat, ok: BOOLEAN, performed: BOOLEAN]

(* Types. *)
TypeOK ==
    /\ now \in 0..MaxTime
    /\ faults \in 0..MaxFaults
    /\ incidents \in [Ids -> Incident \cup {Nil}]
    /\ plans \in [Ids -> Plan \cup {Nil}]
    /\ approvals \subseteq [plan: Ids, req: Reqs]
    /\ runs \in [Keys -> Run \cup {Nil}]
    /\ \A d \in agent : d.key \in Ids \X Actions \X Assets /\ d.ok \in BOOLEAN
    /\ pc \in [Actors -> Stages]
    /\ at \in [Actors -> Procs \cup {Nil}]
    /\ ask \in [Reqs -> Requests \cup {Nil}]
    /\ copy \in [Actors -> Copy]
    /\ draft \in [Reqs -> Plan \cup {Nil}]
    /\ log \in [Reqs -> Seq(Entry)]
    /\ healthy \in [Reqs -> BOOLEAN]
    /\ reply \in [Actors -> Replies]

(* No step reaches the agent before the approval of exactly this content and  *)
(* a run under the request's own key are in the database, whatever else runs  *)
(* or dies (remediation_service.py:87 and :101).                              *)
NothingUnapproved ==
    \A r \in Reqs : log[r] # <<>> =>
        /\ [plan |-> ask[r].plan, req |-> r] \in approvals
        /\ ask[r].intact
        /\ runs[ask[r].key] # Nil
        /\ runs[ask[r].key].owner = r
        /\ runs[ask[r].key].plan = ask[r].plan

(* However often a request is repeated under an idempotency key, in however   *)
(* many processes and after whatever crash, one of the copies dispatches.     *)
OneExecutionPerKey ==
    \A r, s \in Reqs :
        log[r] # <<>> /\ log[s] # <<>> /\ ask[r].key = ask[s].key => r = s

(* Whoever was told how a run ended was told what the database says of the    *)
(* key, then and ever after: a repeated request returns the first result.     *)
RepliesStand ==
    \A r \in Reqs : reply[r] \in Final =>
        runs[ask[r].key] # Nil /\ runs[ask[r].key].status = reply[r]

(* A run is SUCCEEDED only if every step of its plan was answered as a        *)
(* success, each was really performed for this plan, by this request or by    *)
(* the one whose answer the agent repeated, and recovery was verified.        *)
SuccessIsEarned ==
    \A k \in Keys : runs[k] # Nil /\ runs[k].status = "SUCCEEDED" =>
        LET r == runs[k].owner IN
        /\ healthy[r]
        /\ Completed(r) = DOMAIN Steps(runs[k].plan)
        /\ Undone(r) = {}
        /\ \A i \in DOMAIN Steps(runs[k].plan) : \E s \in Reqs :
             /\ ask[s] # Nil /\ ask[s].plan = runs[k].plan
             /\ \E e \in Logged(s, "do") : e.step = i /\ e.performed

(* When a run has ended without success, the undo of every completed step     *)
(* that has one was tried, once, after the last forward step and in reverse   *)
(* order, the ones after a failed undo included; it is ROLLED_BACK only if    *)
(* there was something to undo and all of it succeeded (_rollback,            *)
(* remediation_service.py:181).                                               *)
RollbackIsComplete ==
    \A k \in Keys : runs[k] # Nil /\ runs[k].status \in {"ROLLED_BACK", "FAILED"} =>
        LET r == runs[k].owner IN
        /\ Undone(r) = Compensable(r)
        /\ \A m, n \in DOMAIN log[r] : m < n /\ log[r][m].dir = "undo" =>
               log[r][n].dir = "undo" /\ log[r][n].step < log[r][m].step
        /\ runs[k].status = "ROLLED_BACK" <=>
               Undone(r) # {} /\ \A e \in Logged(r, "undo") : e.ok

-----------------------------------------------------------------------------
(* What one process keeps, and what several or a second thread do not.        *)

Working(p) == \E r \in Reqs : InFlight(r) /\ ask[r].plan = p

Broken(p) ==
    \/ \E r \in Reqs : ask[r] # Nil /\ ask[r].plan = p /\ reply[r] \in {"error", "lost"}
    \/ p \in Signals /\ reply[p] \in {"error", "lost"}

(* What the runs of a plan say of it, and when plan, incident and runs tell   *)
(* the same story.                                                            *)
Outcomes(p) == {runs[k].status : k \in {j \in Keys : runs[j] # Nil /\ runs[j].plan = p}}

InStep == {
    <<"PENDING_APPROVAL", "WAITING_APPROVAL", {}>>,
    <<"EXPIRED", "WAITING_APPROVAL", {}>>,
    <<"SUCCEEDED", "RESOLVED", {"SUCCEEDED"}>>,
    <<"FAILED", "FAILED", {"FAILED"}>>,
    <<"FAILED", "FAILED", {"ROLLED_BACK"}>> }

Settled(p) == plans[p] # Nil /\ ~Working(p) /\ ~Broken(p)

(* The statuses of an incident that fit what its plan and runs say.           *)
Fitting(p) ==
    {status \in IncidentStatus : <<plans[p].status, status, Outcomes(p)>> \in InStep}

(* "Approval, execution and incident status are always in step"               *)
(* (remediation_service.py:27): once nobody works on a plan and no call about *)
(* it failed, plan, incident and run tell the same story.                     *)
AlwaysInSync == \A p \in Ids : Settled(p) => incidents[p].status \in Fitting(p)

(* The statuses that evidence threads have read and saved again.              *)
PutBack(p) ==
    {copy[c].status : c \in {d \in Collectors : reply[d] = "attached" /\ copy[d].id = p}}

(* What one process keeps of it, whatever its evidence threads do: plan and   *)
(* run agree, and the incident agrees with them unless its status is one that *)
(* an evidence thread had read before and put back.                           *)
InSync ==
    \A p \in Ids : Settled(p) =>
        Fitting(p) # {} /\ incidents[p].status \in Fitting(p) \cup PutBack(p)

(* A plan is executed under one key only: different requests cannot execute   *)
(* it again (remediation_service.py:72), not even after a crash.              *)
OneRunPerPlan ==
    \A j, k \in Keys :
        runs[j] # Nil /\ runs[k] # Nil /\ runs[j].plan = runs[k].plan => j = k

(* The signals and approvals of one process, which save whole incidents, do   *)
(* not overwrite each other's evidence.  Whenever an incident loses some, an  *)
(* evidence thread is part of it: it saves the copy it took before its query, *)
(* or what it saved in the middle of an approval is among what is lost.       *)
EvidenceKept ==
    [][\A i \in Ids : incidents[i] # Nil /\ (\A c \in Collectors : pc'[c] = pc[c]) =>
          LET lost == incidents[i].evidence \ incidents'[i].evidence
          IN  lost = {} \/ lost \cap Collectors # {}]_vars

-----------------------------------------------------------------------------
(* What the service promises, as Ledger states it: who came has asked, who    *)
(* has a log has acted, and told is who was given the outcome of a run.       *)
Asked == [r \in Reqs |-> IF pc[r] = "idle" THEN Nil
                         ELSE [plan |-> ask[r].plan, key |-> ask[r].key]]
Acted == {r \in Reqs : log[r] # <<>>}
Told == [r \in Reqs |-> IF reply[r] \in Final THEN reply[r] ELSE "none"]

Promise == INSTANCE Ledger WITH Plans <- Ids, asks <- Asked, approved <- approvals,
                                rows <- runs, acted <- Acted, told <- Told

(* Per idempotency key one row is written, by an approved request; only its   *)
(* owner acts, while the row is RUNNING; it ends once and stays; who is told  *)
(* a result is told the row's (approve_and_execute, save_action_run).         *)
LedgerKept == Promise!Spec
=============================================================================
