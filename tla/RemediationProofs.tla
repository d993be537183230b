-------------------------- MODULE RemediationProofs --------------------------
(***************************************************************************)
(* Theorems about Remediation, for any number of processes, requests,      *)
(* signals, evidence threads and faults: nothing is executed unapproved or *)
(* twice under one key, results stand, a success was earned and a rollback *)
(* that is reported was complete; and what holds of one process: a plan is *)
(* executed once and no story or evidence gets lost.                       *)
(*                                                                         *)
(* A row of action_runs and the request that inserted it know each other:  *)
(* the row names its owner, and the owner, once past the insert, finds its *)
(* own row under its key (RunInv, OwnInv).  The rest is about the log of   *)
(* one request, which nobody else writes (LogInv, StageInv).               *)
(***************************************************************************)
EXTENDS Remediation, SequenceTheorems, TLAPS

(* Stages of an approval: from the insert of the run on, from the record of *)
(* the approval on, from the plan's loading on.                             *)
Late == {"mark_executing", "steps", "verify", "undo", "save_run", "save_plan", "save_incident"}
Approving == {"mark_plan", "mark_incident", "insert_run"} \cup Late
Loaded == {"load_incident", "expire", "approve"} \cup Approving

(* Stages in which nothing was dispatched yet, and in which all was.        *)
Before == {"idle", "lookup", "load_plan", "load_incident", "expire", "approve",
           "mark_plan", "mark_incident", "insert_run", "mark_executing"}
Ending == {"save_plan", "save_incident", "done"}

(* Stages in which an actor holds an incident.                              *)
Holding == {"merge", "propose", "query", "expire", "approve"} \cup Approving
Held == [id: Ids, status: IncidentStatus, updated: 0..MaxTime, evidence: Evidence]

(* What a request knows, and what an actor holds.                           *)
Knows(r) ==
    /\ pc[r] # "idle" => ask[r] \in RequestType
    /\ pc[r] \in {"lookup", "load_plan"} => plans[ask[r].plan] # Nil
    /\ pc[r] \in Loaded => draft[r] \in Plan

Holds(x) == pc[x] \in Holding => copy[x] \in Held

KnowInv == (\A r \in Reqs : Knows(r)) /\ (\A x \in Actors : Holds(x))

Forward(r) == \A n \in DOMAIN log[r] : log[r][n].dir = "do" /\ log[r][n].ok

(* Forward steps in order up to one that failed at most, then compensations *)
(* in reverse order.                                                        *)
LogInv(r) ==
    \A n \in DOMAIN log[r] :
        /\ log[r][n].step \in DOMAIN Steps(ask[r].plan)
        /\ log[r][n].dir = "do" =>
             /\ log[r][n].step = n
             /\ \A m \in DOMAIN log[r] : m < n => log[r][m].dir = "do" /\ log[r][m].ok
        /\ log[r][n].dir = "undo" =>
             /\ log[r][n].step \in Compensable(r)
             /\ \A m \in DOMAIN log[r] :
                  m > n => log[r][m].dir = "undo" /\ log[r][m].step < log[r][n].step

StageInv(r) ==
    /\ pc[r] \in Before => log[r] = <<>>
    /\ pc[r] = "steps" => Forward(r) /\ Len(log[r]) < Len(Steps(ask[r].plan))
    /\ pc[r] \in {"verify", "save_run"} => Forward(r) /\ Len(log[r]) = Len(Steps(ask[r].plan))
    /\ pc[r] = "save_run" => healthy[r]
    /\ pc[r] = "undo" => ~Succeeded(r) /\ \A u \in Undone(r), j \in ToUndo(r) : j < u

OwnInv(r) ==
    pc[r] \in Late \/ log[r] # <<>> =>
        runs[ask[r].key] # Nil /\ runs[ask[r].key].owner = r

ApprovalInv(r) ==
    /\ pc[r] = "approve" \/ pc[r] \in Approving \/ log[r] # <<>> => ask[r].intact
    /\ pc[r] \in Approving \/ log[r] # <<>> =>
         [plan |-> ask[r].plan, req |-> r] \in approvals

ReplyInv(r) ==
    reply[r] \in Final =>
        /\ pc[r] = "done"
        /\ runs[ask[r].key] # Nil
        /\ runs[ask[r].key].status = reply[r]

(* How a request whose run has ended got there.                             *)
Earned(r) ==
    /\ Succeeded(r) => Completed(r) = DOMAIN Steps(ask[r].plan) /\ Undone(r) = {}
    /\ ~Succeeded(r) => ToUndo(r) = {}

RunInv(k) ==
    runs[k] # Nil =>
        LET r == runs[k].owner IN
        /\ pc[r] \in Late \cup {"done"}
        /\ ask[r].key = k
        /\ ask[r].plan = runs[k].plan
        /\ runs[k].status \in Final =>
             pc[r] \in Ending /\ runs[k].status = Outcome(r) /\ Earned(r)
        /\ pc[r] \in {"save_plan", "save_incident"} => runs[k].status \in Final

ReqInv(r) == LogInv(r) /\ StageInv(r) /\ OwnInv(r) /\ ApprovalInv(r) /\ ReplyInv(r)

IInv ==
    /\ TypeOK
    /\ KnowInv
    /\ \A r \in Reqs : ReqInv(r)
    /\ \A k \in Keys : RunInv(k)


-----------------------------------------------------------------------------
(* Values                                                                   *)

LEMMA StepsType ==
    ASSUME NEW p \in Ids
    PROVE  /\ Steps(p) \in Seq(StepType) /\ Len(Steps(p)) > 0
           /\ \A i \in DOMAIN Steps(p) :
                Steps(p)[i].action \in Actions /\ Steps(p)[i].target \in Assets
                /\ (Steps(p)[i].undo # "none" => Steps(p)[i].undo \in Actions)
<1>1. Asset[p] \in Assets
  BY RemediationAssumption
<1>2. DefaultSteps(Asset[p]) \in Seq(StepType) /\ Len(DefaultSteps(Asset[p])) > 0
  <2> DEFINE one == [action |-> "restart_container", target |-> Asset[p],
                     args |-> "grace_seconds=10", undo |-> "none", undoArgs |-> ""]
             two == [action |-> "health_check", target |-> Asset[p], args |-> "",
                     undo |-> "none", undoArgs |-> ""]
  <2>1. one \in StepType
    BY <1>1 DEF StepType, Actions, Arguments
  <2>2. two \in StepType
    BY <1>1 DEF StepType, Actions, Arguments
  <2>3. DefaultSteps(Asset[p]) = <<one, two>>
    BY DEF DefaultSteps
  <2> HIDE DEF one, two
  <2> QED
    BY <2>1, <2>2, <2>3
<1>3. Steps(p) \in Seq(StepType) /\ Len(Steps(p)) > 0
  BY <1>2, RemediationAssumption DEF Steps
<1>4. \A i \in DOMAIN Steps(p) : Steps(p)[i] \in StepType
  BY <1>3
<1> QED
  BY <1>3, <1>4 DEF StepType

(* An agent's answer has the type of a decision.                            *)
LEMMA DispatchType ==
    ASSUME NEW p \in Ids, NEW a \in Actions, NEW t \in Assets, NEW g,
           NEW ok \in BOOLEAN, NEW performed \in BOOLEAN,
           Dispatch(p, a, t, g, ok, performed),
           \A d \in agent : d.key \in Ids \X Actions \X Assets /\ d.ok \in BOOLEAN
    PROVE  \A d \in agent' : d.key \in Ids \X Actions \X Assets /\ d.ok \in BOOLEAN
<1>1. \/ agent' = agent
      \/ \E res \in BOOLEAN : agent' = agent \cup {[key |-> <<p, a, t>>, args |-> g, ok |-> res]}
  BY DEF Dispatch
<1> QED
  BY <1>1

(* What is said about the log of a request depends on this log only.        *)
LEMMA SameLog ==
    ASSUME NEW r, log'[r] = log[r], ask'[r] = ask[r]
    PROVE  /\ Completed(r)' = Completed(r) /\ Undone(r)' = Undone(r)
           /\ Compensable(r)' = Compensable(r) /\ ToUndo(r)' = ToUndo(r)
           /\ Forward(r)' = Forward(r) /\ LogInv(r)' = LogInv(r)
           /\ healthy'[r] = healthy[r] =>
                /\ Succeeded(r)' = Succeeded(r) /\ Outcome(r)' = Outcome(r)
                /\ Earned(r)' = Earned(r)
<1>1. Logged(r, "do")' = Logged(r, "do") /\ Logged(r, "undo")' = Logged(r, "undo")
  BY DEF Logged
<1>2. Completed(r)' = Completed(r) /\ Undone(r)' = Undone(r)
  BY <1>1 DEF Completed, Undone
<1>3. Compensable(r)' = Compensable(r)
  BY <1>2 DEF Compensable
<1>4. ToUndo(r)' = ToUndo(r)
  BY <1>2, <1>3 DEF ToUndo
<1>5. Forward(r)' = Forward(r)
  BY DEF Forward
<1>6. LogInv(r)' = LogInv(r)
  BY <1>3 DEF LogInv
<1>7. ASSUME healthy'[r] = healthy[r]
      PROVE  Succeeded(r)' = Succeeded(r) /\ Outcome(r)' = Outcome(r) /\ Earned(r)' = Earned(r)
  <2>1. Succeeded(r)' = Succeeded(r)
    BY <1>1, <1>7 DEF Succeeded
  <2>2. Outcome(r)' = Outcome(r)
    BY <1>1, <1>3, <2>1 DEF Outcome
  <2>3. Earned(r)' = Earned(r)
    BY <1>2, <1>4, <2>1 DEF Earned
  <2> QED
    BY <2>1, <2>2, <2>3
<1> QED
  BY <1>2, <1>3, <1>4, <1>5, <1>6, <1>7

-----------------------------------------------------------------------------
(* What a step leaves alone                                                 *)

(* A request that does not move, or ends without a result.                  *)
LEMMA ReqKept ==
    ASSUME NEW r \in Reqs, ReqInv(r),
           log'[r] = log[r], ask'[r] = ask[r], healthy'[r] = healthy[r],
           approvals \subseteq approvals',
           runs[ask[r].key] # Nil /\ (runs[ask[r].key].owner = r \/ runs[ask[r].key].status \in Final)
               => runs'[ask[r].key] = runs[ask[r].key],
           \/ pc'[r] = pc[r] /\ reply'[r] = reply[r]
           \/ pc'[r] = "done" /\ reply'[r] \notin Final
    PROVE  ReqInv(r)'
<1>1. LogInv(r)'
  BY SameLog DEF ReqInv
<1>2. StageInv(r)'
  <2>1. CASE pc'[r] = pc[r]
    BY <2>1, SameLog DEF ReqInv, StageInv
  <2>2. CASE pc'[r] = "done"
    BY <2>2 DEF StageInv, Before
  <2> QED
    BY <2>1, <2>2
<1>3. OwnInv(r)'
  BY DEF ReqInv, OwnInv, Late
<1>4. ApprovalInv(r)'
  BY DEF ReqInv, ApprovalInv, Approving, Late
<1>5. ReplyInv(r)'
  BY DEF ReqInv, ReplyInv
<1> QED
  BY <1>1, <1>2, <1>3, <1>4, <1>5 DEF ReqInv

(* A row whose owner does not move, or ends.                                *)
LEMMA RunKept ==
    ASSUME NEW k \in Keys, RunInv(k), NEW r \in Reqs,
           runs'[k] = runs[k], runs[k] # Nil, runs[k].owner = r,
           log'[r] = log[r], ask'[r] = ask[r], healthy'[r] = healthy[r],
           pc'[r] = pc[r] \/ pc'[r] = "done"
    PROVE  RunInv(k)'
<1>1. /\ pc[r] \in Late \cup {"done"} /\ ask[r].key = k /\ ask[r].plan = runs[k].plan
      /\ runs[k].status \in Final => pc[r] \in Ending /\ runs[k].status = Outcome(r) /\ Earned(r)
      /\ pc[r] \in {"save_plan", "save_incident"} => runs[k].status \in Final
  BY DEF RunInv
<1>2. Outcome(r)' = Outcome(r) /\ Earned(r)' = Earned(r)
  BY SameLog
<1>3. /\ pc'[r] \in Late \cup {"done"} /\ ask'[r].key = k /\ ask'[r].plan = runs'[k].plan
      /\ runs'[k].status \in Final =>
           pc'[r] \in Ending /\ runs'[k].status = Outcome(r)' /\ Earned(r)'
      /\ pc'[r] \in {"save_plan", "save_incident"} => runs'[k].status \in Final
  BY <1>1, <1>2 DEF Ending
<1> QED
  BY <1>3 DEF RunInv

(* Nobody moves, or only to the end and without a result, and no row of the *)
(* runs changes.                                                            *)
LEMMA Quiet ==
    ASSUME IInv, log' = log, ask' = ask, healthy' = healthy, runs' = runs,
           approvals \subseteq approvals',
           \A r \in Reqs : \/ pc'[r] = pc[r] /\ reply'[r] = reply[r]
                           \/ pc'[r] = "done" /\ reply'[r] \notin Final
    PROVE  (\A r \in Reqs : ReqInv(r)') /\ (\A k \in Keys : RunInv(k)')
<1>1. ASSUME NEW r \in Reqs PROVE ReqInv(r)'
  <2>1. ReqInv(r)
    BY DEF IInv
  <2> QED
    BY <2>1, ReqKept
<1>2. ASSUME NEW k \in Keys PROVE RunInv(k)'
  <2>1. CASE runs[k] = Nil
    BY <2>1 DEF RunInv
  <2>2. CASE runs[k] # Nil
    <3>1. runs[k].owner \in Reqs
      BY <2>2 DEF IInv, TypeOK, Run
    <3>2. RunInv(k)
      BY DEF IInv
    <3> QED
      BY <2>2, <3>1, <3>2, RunKept
  <2> QED
    BY <2>1, <2>2
<1> QED
  BY <1>1, <1>2

(* At most request r moves, and of the rows only those change that are or   *)
(* become r's.                                                              *)
LEMMA OthersKept ==
    ASSUME IInv, NEW r \in Reqs,
           approvals \subseteq approvals',
           \A q \in Reqs : q # r => /\ log'[q] = log[q] /\ ask'[q] = ask[q]
                                    /\ healthy'[q] = healthy[q]
                                    /\ pc'[q] = pc[q] /\ reply'[q] = reply[q],
           \A k \in Keys : \/ runs'[k] = runs[k]
                           \/ /\ runs[k] = Nil \/ (runs[k].owner = r /\ runs[k].status \notin Final)
                              /\ runs'[k] # Nil /\ runs'[k].owner = r,
           ReqInv(r)',
           \A k \in Keys : runs'[k] # Nil /\ runs'[k].owner = r => RunInv(k)'
    PROVE  (\A q \in Reqs : ReqInv(q)') /\ (\A k \in Keys : RunInv(k)')
<1>1. ASSUME NEW q \in Reqs, q # r PROVE ReqInv(q)'
  <2>1. ReqInv(q)
    BY DEF IInv
  <2>2. CASE pc[q] = "idle"
    <3>1. log[q] = <<>> /\ reply[q] \notin Final
      BY <2>1, <2>2 DEF ReqInv, StageInv, Before, ReplyInv
    <3>2. log'[q] = <<>> /\ reply'[q] \notin Final /\ pc'[q] = "idle"
      BY <1>1, <2>2, <3>1
    <3> QED
      BY <3>2 DEF ReqInv, LogInv, StageInv, OwnInv, ApprovalInv, ReplyInv, Late, Approving
  <2>3. CASE pc[q] # "idle"
    <3>1. ask[q].key \in Keys
      BY <2>3 DEF IInv, KnowInv, Knows, RequestType
    <3>2. runs[ask[q].key] # Nil /\ (runs[ask[q].key].owner = q \/ runs[ask[q].key].status \in Final)
            => runs'[ask[q].key] = runs[ask[q].key]
      BY <1>1, <3>1
    <3> QED
      BY <1>1, <2>1, <3>2, ReqKept
  <2> QED
    BY <2>2, <2>3
<1>2. ASSUME NEW k \in Keys PROVE RunInv(k)'
  <2>1. CASE runs'[k] = Nil
    BY <2>1 DEF RunInv
  <2>2. CASE runs'[k] # Nil /\ runs'[k].owner = r
    BY <2>2
  <2>3. CASE runs'[k] # Nil /\ runs'[k].owner # r
    <3>1. runs'[k] = runs[k]
      BY <2>3
    <3>2. runs[k].owner \in Reqs
      BY <2>3, <3>1 DEF IInv, TypeOK, Run
    <3>3. RunInv(k)
      BY DEF IInv
    <3> QED
      BY <2>3, <3>1, <3>2, <3>3, RunKept
  <2> QED
    BY <2>1, <2>2, <2>3
<1> QED
  BY <1>1, <1>2

-----------------------------------------------------------------------------
(* Steps of one approval                                                    *)

(* The other actors, and the rows and fields of nobody.                     *)
Alone(r) ==
    \A q \in Reqs : q # r =>
        /\ log'[q] = log[q] /\ ask'[q] = ask[q] /\ healthy'[q] = healthy[q]
        /\ pc'[q] = pc[q] /\ reply'[q] = reply[q]

(* Before its row is inserted a request has dispatched nothing and owns no  *)
(* row, so that it may even take in another request.                        *)
LEMMA EarlyMove ==
    ASSUME IInv, NEW r \in Reqs, Alone(r), approvals \subseteq approvals', runs' = runs,
           pc[r] \in Before \ {"mark_executing"}, log'[r] = log[r],
           pc'[r] \in (Before \ {"mark_executing"}) \cup {"done"},
           pc'[r] \in {"approve"} \cup Approving => ask'[r].intact,
           pc'[r] \in Approving => [plan |-> ask'[r].plan, req |-> r] \in approvals',
           reply'[r] \in Final => /\ pc'[r] = "done" /\ runs[ask'[r].key] # Nil
                                  /\ runs[ask'[r].key].status = reply'[r]
    PROVE  (\A q \in Reqs : ReqInv(q)') /\ (\A k \in Keys : RunInv(k)')
<1>1. log'[r] = <<>>
  BY DEF IInv, ReqInv, StageInv
<1>2. ReqInv(r)'
  BY <1>1 DEF ReqInv, LogInv, StageInv, OwnInv, ApprovalInv, ReplyInv, Before, Late
<1>3. \A k \in Keys : runs[k] # Nil => runs[k].owner # r
  BY DEF IInv, RunInv, Late, Before
<1> QED
  BY <1>1, <1>2, <1>3, OthersKept DEF Alone

(* After it a request goes on without a dispatch: what it has logged, and   *)
(* the row, stay.                                                           *)
LEMMA LateMove ==
    ASSUME IInv, NEW r \in Reqs, Alone(r), approvals' = approvals, runs' = runs,
           log'[r] = log[r], ask'[r] = ask[r], healthy'[r] = healthy[r],
           \/ pc[r] = "mark_executing" /\ pc'[r] = "steps" /\ reply'[r] = reply[r]
           \/ pc[r] = "save_plan" /\ pc'[r] = "save_incident" /\ reply'[r] = reply[r]
           \/ pc[r] = "save_incident" /\ pc'[r] = "done" /\ reply'[r] = Outcome(r)
    PROVE  (\A q \in Reqs : ReqInv(q)') /\ (\A k \in Keys : RunInv(k)')
<1>1. ReqInv(r) /\ pc[r] \in Late
  BY DEF IInv, Late
<1>2. ask[r] \in RequestType
  BY DEF IInv, KnowInv, Knows
<1>3. /\ ask[r].key \in Keys /\ ask[r].plan \in Ids
      /\ runs[ask[r].key] # Nil /\ runs[ask[r].key].owner = r
  BY <1>1, <1>2 DEF ReqInv, OwnInv, RequestType
<1>4. RunInv(ask[r].key)
  BY <1>3 DEF IInv
<1>5. LogInv(r)'
  BY <1>1, SameLog DEF ReqInv
<1>6. StageInv(r)'
  <2>1. CASE pc[r] = "mark_executing"
    <3>1. log'[r] = <<>> /\ pc'[r] = "steps"
      BY <1>1, <2>1 DEF ReqInv, StageInv, Before
    <3>2. Forward(r)'
      BY <3>1 DEF Forward
    <3>3. Len(log'[r]) < Len(Steps(ask'[r].plan))
      BY <1>3, <3>1, StepsType
    <3> QED
      BY <3>1, <3>2, <3>3 DEF StageInv, Before
  <2>2. CASE pc[r] # "mark_executing"
    BY <2>2 DEF StageInv, Before
  <2> QED
    BY <2>1, <2>2
<1>7. OwnInv(r)' /\ ApprovalInv(r)'
  BY <1>1, <1>3 DEF ReqInv, OwnInv, ApprovalInv, Approving
<1>8. ReplyInv(r)'
  <2>1. CASE pc[r] = "save_incident"
    BY <1>3, <1>4, <2>1 DEF RunInv, ReplyInv
  <2>2. CASE pc[r] # "save_incident"
    BY <1>1, <2>2 DEF ReqInv, ReplyInv
  <2> QED
    BY <2>1, <2>2
<1>9. ReqInv(r)'
  BY <1>5, <1>6, <1>7, <1>8 DEF ReqInv
<1>10. ASSUME NEW k \in Keys, runs'[k] # Nil, runs'[k].owner = r PROVE RunInv(k)'
  <2>1. /\ ask[r].key = k /\ ask[r].plan = runs[k].plan
        /\ runs[k].status \in Final =>
             pc[r] \in Ending /\ runs[k].status = Outcome(r) /\ Earned(r)
        /\ pc[r] \in {"save_plan", "save_incident"} => runs[k].status \in Final
    BY <1>10 DEF IInv, RunInv
  <2>2. Outcome(r)' = Outcome(r) /\ Earned(r)' = Earned(r)
    BY SameLog
  <2>3. /\ pc'[r] \in Late \cup {"done"}
        /\ runs'[k].status \in Final =>
             pc'[r] \in Ending /\ runs'[k].status = Outcome(r)' /\ Earned(r)'
        /\ pc'[r] \in {"save_plan", "save_incident"} => runs'[k].status \in Final
    BY <2>1, <2>2 DEF Late, Ending
  <2> QED
    BY <1>10, <2>1, <2>3 DEF RunInv
<1> QED
  BY <1>9, <1>10, OthersKept DEF Alone

(* One more entry in a log.                                                 *)
LEMMA LogGrows ==
    ASSUME NEW r \in Reqs, log \in [Reqs -> Seq(Entry)], NEW e \in Entry,
           log' = [log EXCEPT ![r] = Append(@, e)]
    PROVE  /\ log'[r] \in Seq(Entry) /\ Len(log'[r]) = Len(log[r]) + 1
           /\ Len(log[r]) \in Nat
           /\ DOMAIN log[r] = 1..Len(log[r]) /\ DOMAIN log'[r] = 1..(Len(log[r]) + 1)
           /\ \A n \in DOMAIN log[r] : log'[r][n] = log[r][n]
           /\ log'[r][Len(log[r]) + 1] = e
           /\ \A q \in Reqs : q # r => log'[q] = log[q]
<1>1. log[r] \in Seq(Entry) /\ log'[r] = Append(log[r], e)
  OBVIOUS
<1> DEFINE L == log[r]
<1>2. L \in Seq(Entry)
  BY <1>1
<1> HIDE DEF L
<1>3. /\ Append(L, e) \in Seq(Entry) /\ Len(Append(L, e)) = Len(L) + 1 /\ Len(L) \in Nat
      /\ DOMAIN L = 1..Len(L) /\ DOMAIN Append(L, e) = 1..(Len(L) + 1)
      /\ \A n \in DOMAIN L : Append(L, e)[n] = L[n]
      /\ Append(L, e)[Len(L) + 1] = e
  BY <1>2
<1> QED
  BY <1>1, <1>3 DEF L

LEMMA LoggedGrows ==
    ASSUME NEW r \in Reqs, log \in [Reqs -> Seq(Entry)], NEW e \in Entry,
           log' = [log EXCEPT ![r] = Append(@, e)], NEW dir \in {"do", "undo"}
    PROVE  Logged(r, dir)' = IF e.dir = dir THEN Logged(r, dir) \cup {e} ELSE Logged(r, dir)
<1> DEFINE L == log[r]
           M == log'[r]
           N == Len(log[r])
<1>1. /\ N \in Nat /\ DOMAIN L = 1..N /\ DOMAIN M = 1..(N + 1)
      /\ \A n \in 1..N : M[n] = L[n]
      /\ M[N + 1] = e
  BY LogGrows
<1>2. Logged(r, dir) = {L[n] : n \in {m \in DOMAIN L : L[m].dir = dir}}
  BY DEF Logged
<1>3. Logged(r, dir)' = {M[n] : n \in {m \in DOMAIN M : M[m].dir = dir}}
  BY DEF Logged
<1>4. DOMAIN M = DOMAIN L \cup {N + 1} /\ N + 1 \notin DOMAIN L
  BY <1>1
<1>5. \A n \in DOMAIN L : M[n] = L[n]
  BY <1>1
<1> HIDE DEF L, M, N
<1>6. ASSUME NEW x PROVE x \in Logged(r, dir)' <=> x \in Logged(r, dir) \/ (x = e /\ e.dir = dir)
  <2>1. ASSUME x \in Logged(r, dir)' PROVE x \in Logged(r, dir) \/ (x = e /\ e.dir = dir)
    <3>1. PICK n \in DOMAIN M : M[n].dir = dir /\ x = M[n]
      BY <1>3, <2>1
    <3> QED
      BY <1>1, <1>2, <1>4, <1>5, <3>1
  <2>2. ASSUME x \in Logged(r, dir) PROVE x \in Logged(r, dir)'
    <3>1. PICK n \in DOMAIN L : L[n].dir = dir /\ x = L[n]
      BY <1>2, <2>2
    <3>2. n \in DOMAIN M /\ M[n].dir = dir /\ x = M[n]
      BY <1>4, <1>5, <3>1
    <3> QED
      BY <1>3, <3>2
  <2>3. ASSUME x = e, e.dir = dir PROVE x \in Logged(r, dir)'
    <3>1. N + 1 \in DOMAIN M /\ M[N + 1] = x
      BY <1>1, <1>4, <2>3
    <3> QED
      BY <1>3, <2>3, <3>1
  <2> QED
    BY <2>1, <2>2, <2>3
<1> QED
  BY <1>6

(* Where only forward steps are in the log and all went well, the completed *)
(* steps are the first ones and nothing was undone.                         *)
LEMMA ForwardLog ==
    ASSUME NEW r \in Reqs, Forward(r), LogInv(r), log[r] \in Seq(Entry)
    PROVE  /\ Undone(r) = {} /\ Logged(r, "undo") = {}
           /\ Completed(r) = DOMAIN log[r]
           /\ \A d \in Logged(r, "do") : d.ok
<1>1. Logged(r, "undo") = {}
  BY DEF Logged, Forward
<1>2. Undone(r) = {}
  BY <1>1 DEF Undone
<1>3. \A d \in Logged(r, "do") : d.ok
  BY DEF Logged, Forward
<1>4. Logged(r, "do") = {log[r][n] : n \in DOMAIN log[r]}
  BY DEF Logged, Forward
<1>5. \A n \in DOMAIN log[r] : log[r][n].step = n /\ log[r][n].ok
  BY DEF Forward, LogInv
<1>6. ASSUME NEW i PROVE i \in Completed(r) <=> i \in DOMAIN log[r]
  <2>1. ASSUME i \in Completed(r) PROVE i \in DOMAIN log[r]
    <3>1. PICK d \in Logged(r, "do") : d.ok /\ i = d.step
      BY <2>1 DEF Completed
    <3>2. PICK n \in DOMAIN log[r] : d = log[r][n]
      BY <1>4
    <3> QED
      BY <1>5, <3>1, <3>2
  <2>2. ASSUME i \in DOMAIN log[r] PROVE i \in Completed(r)
    <3>1. log[r][i] \in Logged(r, "do") /\ log[r][i].ok /\ log[r][i].step = i
      BY <1>4, <1>5, <2>2
    <3> QED
      BY <3>1 DEF Completed
  <2> QED
    BY <2>1, <2>2
<1> QED
  BY <1>1, <1>2, <1>3, <1>6

(* What a late request has: its request, its row, which has not ended.      *)
LEMMA LateRow ==
    ASSUME IInv, NEW r \in Reqs, pc[r] \in Late
    PROVE  /\ ask[r] \in RequestType /\ ask[r].key \in Keys /\ ask[r].plan \in Ids
           /\ runs[ask[r].key] # Nil /\ runs[ask[r].key] \in Run
           /\ runs[ask[r].key].owner = r /\ runs[ask[r].key].plan = ask[r].plan
           /\ \A k \in Keys : runs[k] # Nil /\ runs[k].owner = r =>
                k = ask[r].key /\ (pc[r] \notin Ending => runs[k].status \notin Final)
           /\ reply[r] \notin Final
           /\ ask[r].intact /\ [plan |-> ask[r].plan, req |-> r] \in approvals
<1>1. ask[r] \in RequestType
  BY DEF IInv, KnowInv, Knows, Late
<1>2. ask[r].key \in Keys /\ ask[r].plan \in Ids
  BY <1>1 DEF RequestType
<1>3. runs[ask[r].key] # Nil /\ runs[ask[r].key].owner = r
  BY DEF IInv, ReqInv, OwnInv
<1>4. runs[ask[r].key] \in Run
  BY <1>2, <1>3 DEF IInv, TypeOK
<1>5. \A k \in Keys : runs[k] # Nil /\ runs[k].owner = r =>
        /\ k = ask[r].key /\ runs[k].plan = ask[r].plan
        /\ pc[r] \notin Ending => runs[k].status \notin Final
  BY DEF IInv, RunInv
<1>6. reply[r] \notin Final
  BY DEF IInv, ReqInv, ReplyInv, Late
<1>7. ask[r].intact /\ [plan |-> ask[r].plan, req |-> r] \in approvals
  BY DEF IInv, ReqInv, ApprovalInv, Approving
<1> QED
  BY <1>1, <1>2, <1>3, <1>4, <1>5, <1>6, <1>7

(* A dispatch or a verification: the row and the approval stay, the log and *)
(* the stage are the request's own affair.                                  *)
LEMMA StepMove ==
    ASSUME IInv, NEW r \in Reqs, Alone(r), approvals' = approvals, runs' = runs,
           pc[r] \in {"steps", "verify", "undo"},
           ask'[r] = ask[r], reply'[r] = reply[r],
           pc'[r] \in {"steps", "verify", "undo", "save_run"},
           LogInv(r)', StageInv(r)'
    PROVE  (\A q \in Reqs : ReqInv(q)') /\ (\A k \in Keys : RunInv(k)')
<1>1. /\ pc[r] \in Late /\ pc'[r] \in Late /\ pc[r] \notin Ending
      /\ pc'[r] \notin {"save_plan", "save_incident"}
  BY DEF Late, Ending
<1>2. OwnInv(r)' /\ ApprovalInv(r)' /\ ReplyInv(r)'
  BY <1>1, LateRow DEF OwnInv, ApprovalInv, ReplyInv
<1>3. ASSUME NEW k \in Keys, runs'[k] # Nil, runs'[k].owner = r PROVE RunInv(k)'
  <2> runs[k] # Nil /\ runs[k].owner = r
    BY <1>3
  <2>1. k = ask[r].key /\ runs[ask[r].key].plan = ask[r].plan /\ runs[k].status \notin Final
    BY <1>1, LateRow
  <2>2. /\ pc'[r] \in Late \cup {"done"} /\ ask'[r].key = k /\ ask'[r].plan = runs'[k].plan
        /\ runs'[k].status \notin Final
        /\ pc'[r] \notin {"save_plan", "save_incident"}
    BY <1>1, <2>1
  <2> QED
    BY <1>3, <2>2 DEF RunInv
<1> QED
  BY <1>2, <1>3, OthersKept DEF ReqInv, Alone

LEMMA PerformMove ==
    ASSUME IInv, NEW r \in Reqs, NEW ok \in BOOLEAN, NEW performed \in BOOLEAN,
           Perform(r, ok, performed)
    PROVE  (\A q \in Reqs : ReqInv(q)') /\ (\A k \in Keys : RunInv(k)')
<1> DEFINE L == log[r]
           M == log'[r]
           N == Len(log[r])
           S == Steps(ask[r].plan)
           e == [dir |-> "do", step |-> N + 1, ok |-> ok, performed |-> performed]
<1>1. /\ pc[r] = "steps" /\ log' = [log EXCEPT ![r] = Append(@, e)]
      /\ pc' = [pc EXCEPT ![r] = IF ~ok THEN "undo" ELSE IF N + 1 = Len(S) THEN "verify" ELSE "steps"]
      /\ UNCHANGED <<approvals, runs, ask, healthy, reply>>
  BY DEF Perform, Record, Goto, tables
<1>2. /\ log \in [Reqs -> Seq(Entry)] /\ pc \in [Actors -> Stages] /\ r \in Actors
      /\ LogInv(r) /\ StageInv(r)
  BY DEF IInv, TypeOK, ReqInv, Actors
<1>3. Forward(r) /\ N < Len(S)
  BY <1>1, <1>2 DEF StageInv
<1>4. ask[r].plan \in Ids
  BY <1>1, LateRow DEF Late
<1>5. S \in Seq(StepType) /\ DOMAIN S = 1..Len(S) /\ Len(S) \in Nat
  BY <1>4, StepsType
<1>6. L \in Seq(Entry) /\ N \in Nat
  BY <1>2
<1>7. e \in Entry
  BY <1>6 DEF Entry
<1> HIDE DEF e
<1>8. /\ M \in Seq(Entry) /\ Len(M) = N + 1 /\ DOMAIN L = 1..N /\ DOMAIN M = 1..(N + 1)
      /\ \A n \in DOMAIN L : M[n] = L[n]
      /\ M[N + 1] = e
      /\ \A q \in Reqs : q # r => log'[q] = log[q]
  BY <1>1, <1>2, <1>7, LogGrows
<1>9. \A n \in DOMAIN L : L[n].dir = "do" /\ L[n].ok /\ L[n].step = n
  BY <1>2, <1>3 DEF LogInv, Forward
<1>10. \A n \in DOMAIN M : M[n].dir = "do" /\ M[n].step = n /\ (n # N + 1 => M[n].ok)
  <2> TAKE n \in DOMAIN M
  <2>1. CASE n = N + 1
    BY <1>8, <2>1 DEF e
  <2>2. CASE n # N + 1
    <3>1. n \in DOMAIN L
      BY <1>6, <1>8, <2>2
    <3> QED
      BY <1>8, <1>9, <2>2, <3>1
  <2> QED
    BY <2>1, <2>2
<1>11. DOMAIN M \subseteq DOMAIN S
  BY <1>3, <1>5, <1>6, <1>8
<1>12. \A m, n \in DOMAIN M : m < n => m # N + 1
  BY <1>6, <1>8
<1> HIDE DEF L, M, N, S
<1>13. LogInv(r)'
  <2>1. S = Steps(ask'[r].plan)
    BY <1>1 DEF S
  <2>2. \A n \in DOMAIN M :
          /\ M[n].step \in DOMAIN Steps(ask'[r].plan)
          /\ M[n].dir = "do" =>
               /\ M[n].step = n
               /\ \A m \in DOMAIN M : m < n => M[m].dir = "do" /\ M[m].ok
          /\ M[n].dir # "undo"
    BY <1>10, <1>11, <1>12, <2>1
  <2> QED
    BY <2>2 DEF LogInv, M
<1>14. pc'[r] \in {"steps", "verify", "undo"} /\ (pc'[r] = "undo" <=> ~ok)
       /\ (pc'[r] = "verify" => N + 1 = Len(S)) /\ (pc'[r] = "steps" => N + 1 # Len(S))
  BY <1>1, <1>2
<1>15. StageInv(r)'
  <2>1. CASE ok
    <3>1. M[N + 1].ok
      BY <1>8, <2>1 DEF e
    <3>2. Forward(r)'
      BY <1>10, <3>1 DEF Forward, M
    <3>3. /\ pc'[r] = "steps" => Len(M) < Len(S)
          /\ pc'[r] = "verify" => Len(M) = Len(S)
      BY <1>3, <1>5, <1>6, <1>8, <1>14 DEF N, S
    <3>4. Len(log'[r]) = Len(M) /\ Len(Steps(ask'[r].plan)) = Len(S)
      BY <1>1 DEF M, S
    <3> QED
      BY <1>14, <2>1, <3>2, <3>3, <3>4 DEF StageInv, Before
  <2>2. CASE ~ok
    <3>1. Logged(r, "do")' = Logged(r, "do") \cup {e}
      BY <1>1, <1>2, <1>7, LoggedGrows DEF e
    <3>2. e \in Logged(r, "do")' /\ ~e.ok
      BY <2>2, <3>1 DEF e
    <3> HIDE DEF e
    <3>3. ~Succeeded(r)'
      BY <3>2, Zenon DEF Succeeded
    <3>4. Undone(r)' = {}
      BY <1>10 DEF Undone, Logged, M
    <3> QED
      BY <1>14, <2>2, <3>3, <3>4 DEF StageInv, Before
  <2> QED
    BY <2>1, <2>2
<1>16. Alone(r)
  BY <1>1, <1>2, <1>8 DEF Alone, Actors
<1> QED
  BY <1>1, <1>13, <1>14, <1>15, <1>16, StepMove

LEMMA VerifyMove ==
    ASSUME IInv, NEW r \in Reqs, NEW ok \in BOOLEAN, Verify(r, ok)
    PROVE  (\A q \in Reqs : ReqInv(q)') /\ (\A k \in Keys : RunInv(k)')
<1>1. /\ pc[r] = "verify" /\ healthy' = [healthy EXCEPT ![r] = ok]
      /\ pc' = [pc EXCEPT ![r] = IF ok THEN "save_run" ELSE "undo"]
      /\ UNCHANGED <<approvals, runs, ask, log, reply>>
  BY DEF Verify, Goto, tables
<1>2. /\ healthy \in [Reqs -> BOOLEAN] /\ pc \in [Actors -> Stages] /\ r \in Actors
      /\ log[r] \in Seq(Entry) /\ LogInv(r) /\ StageInv(r)
  BY DEF IInv, TypeOK, ReqInv, Actors
<1>3. Forward(r) /\ Len(log[r]) = Len(Steps(ask[r].plan))
  BY <1>1, <1>2 DEF StageInv
<1>4. LogInv(r)' /\ Forward(r)' /\ Undone(r)' = {}
  BY <1>1, <1>2, <1>3, SameLog, ForwardLog
<1>5. healthy'[r] = ok /\ pc'[r] = (IF ok THEN "save_run" ELSE "undo")
  BY <1>1, <1>2
<1>6. StageInv(r)'
  <2>1. CASE ok
    <3>1. pc'[r] = "save_run" /\ healthy'[r]
      BY <1>5, <2>1
    <3> QED
      BY <1>1, <1>3, <1>4, <3>1 DEF StageInv, Before
  <2>2. CASE ~ok
    <3>1. ~Succeeded(r)'
      BY <1>5, <2>2 DEF Succeeded
    <3> QED
      BY <1>4, <1>5, <2>2, <3>1 DEF StageInv, Before
  <2> QED
    BY <2>1, <2>2
<1>7. Alone(r)
  BY <1>1, <1>2 DEF Alone, Actors
<1> QED
  BY <1>1, <1>4, <1>5, <1>6, <1>7, StepMove

(* What was completed, or undone, is a step of the plan.                    *)
LEMMA LoggedSteps ==
    ASSUME NEW r \in Reqs, LogInv(r), ask[r].plan \in Ids
    PROVE  /\ Completed(r) \subseteq DOMAIN Steps(ask[r].plan)
           /\ Undone(r) \subseteq Compensable(r)
           /\ Compensable(r) \subseteq Nat
<1>1. ASSUME NEW d \in Logged(r, "do") PROVE d.step \in DOMAIN Steps(ask[r].plan)
  <2>1. PICK n \in DOMAIN log[r] : d = log[r][n]
    BY DEF Logged
  <2> QED
    BY <2>1 DEF LogInv
<1>2. ASSUME NEW d \in Logged(r, "undo") PROVE d.step \in Compensable(r)
  <2>1. PICK n \in DOMAIN log[r] : d = log[r][n] /\ log[r][n].dir = "undo"
    BY DEF Logged
  <2> QED
    BY <2>1 DEF LogInv
<1>3. Completed(r) \subseteq DOMAIN Steps(ask[r].plan)
  BY <1>1 DEF Completed
<1>4. Undone(r) \subseteq Compensable(r)
  BY <1>2 DEF Undone
<1>5. Compensable(r) \subseteq Completed(r)
  BY DEF Compensable
<1>6. DOMAIN Steps(ask[r].plan) \subseteq Nat
  BY StepsType
<1> QED
  BY <1>3, <1>4, <1>5, <1>6

LEMMA UndoMove ==
    ASSUME IInv, NEW r \in Reqs, NEW ok \in BOOLEAN, NEW performed \in BOOLEAN,
           Undo(r, ok, performed)
    PROVE  (\A q \in Reqs : ReqInv(q)') /\ (\A k \in Keys : RunInv(k)')
<1>1. PICK i \in ToUndo(r) :
        /\ \A j \in ToUndo(r) : j <= i
        /\ Record(r, "undo", i, ok, performed)
  BY DEF Undo, NextToUndo
<1> DEFINE L == log[r]
           M == log'[r]
           N == Len(log[r])
           e == [dir |-> "undo", step |-> i, ok |-> ok, performed |-> performed]
<1>2. /\ pc[r] = "undo" /\ log' = [log EXCEPT ![r] = Append(@, e)]
      /\ UNCHANGED <<pc, approvals, runs, ask, healthy, reply>>
  BY <1>1 DEF Undo, Record, tables
<1>3. /\ log \in [Reqs -> Seq(Entry)] /\ LogInv(r) /\ StageInv(r)
  BY DEF IInv, TypeOK, ReqInv
<1>4. ~Succeeded(r) /\ \A u \in Undone(r), j \in ToUndo(r) : j < u
  BY <1>2, <1>3 DEF StageInv
<1>5. ask[r].plan \in Ids
  BY <1>2, LateRow DEF Late
<1>6. /\ i \in Compensable(r) /\ i \in Completed(r) /\ i \in DOMAIN Steps(ask[r].plan)
      /\ i \in Nat /\ i \notin Undone(r)
      /\ Undone(r) \subseteq Nat /\ ToUndo(r) \subseteq Nat
  BY <1>1, <1>3, <1>5, LoggedSteps DEF ToUndo, Compensable
<1>7. e \in Entry
  BY <1>6 DEF Entry
<1>8. e.dir = "undo" /\ e.step = i
  OBVIOUS
<1> HIDE DEF e
<1>9. /\ N \in Nat /\ DOMAIN L = 1..N /\ DOMAIN M = 1..(N + 1)
      /\ \A n \in DOMAIN L : M[n] = L[n]
      /\ M[N + 1] = e
      /\ \A q \in Reqs : q # r => log'[q] = log[q]
  BY <1>2, <1>3, <1>7, LogGrows
<1>10. Logged(r, "do")' = Logged(r, "do") /\ Logged(r, "undo")' = Logged(r, "undo") \cup {e}
  BY <1>2, <1>3, <1>7, <1>8, LoggedGrows
<1>11. Completed(r)' = Completed(r)
  BY <1>10 DEF Completed
<1>12. Compensable(r)' = Compensable(r)
  BY <1>2, <1>11 DEF Compensable
<1>13. Undone(r)' = Undone(r) \cup {i}
  BY <1>8, <1>10 DEF Undone
<1>14. ToUndo(r)' = ToUndo(r) \ {i}
  BY <1>12, <1>13 DEF ToUndo
<1>15. Succeeded(r)' = Succeeded(r)
  BY <1>2, <1>10 DEF Succeeded
<1>16. \A n \in DOMAIN L : L[n].dir = "undo" => i < L[n].step
  <2> TAKE n \in DOMAIN L
  <2> HAVE L[n].dir = "undo"
  <2>1. L[n] \in Logged(r, "undo")
    BY DEF Logged
  <2>2. L[n].step \in Undone(r)
    BY <2>1 DEF Undone
  <2> QED
    BY <1>1, <1>4, <2>2
<1>17. /\ DOMAIN M = DOMAIN L \cup {N + 1} /\ N + 1 \notin DOMAIN L
       /\ \A n \in DOMAIN L : n < N + 1 /\ ~(N + 1 < n)
       /\ ~(N + 1 < N + 1)
  BY <1>9
<1>18. \A n \in DOMAIN L :
         /\ L[n].step \in DOMAIN Steps(ask[r].plan)
         /\ L[n].dir = "do" =>
              /\ L[n].step = n
              /\ \A m \in DOMAIN L : m < n => L[m].dir = "do" /\ L[m].ok
         /\ L[n].dir = "undo" =>
              /\ L[n].step \in Compensable(r)
              /\ \A m \in DOMAIN L : m > n => L[m].dir = "undo" /\ L[m].step < L[n].step
  BY <1>3 DEF LogInv
<1> HIDE DEF L, M, N
<1>19. LogInv(r)'
  <2>1. \A n \in DOMAIN M :
          /\ M[n].step \in DOMAIN Steps(ask[r].plan)
          /\ M[n].dir = "do" =>
               /\ M[n].step = n
               /\ \A m \in DOMAIN M : m < n => M[m].dir = "do" /\ M[m].ok
          /\ M[n].dir = "undo" =>
               /\ M[n].step \in Compensable(r)
               /\ \A m \in DOMAIN M : m > n => M[m].dir = "undo" /\ M[m].step < M[n].step
    <3> TAKE n \in DOMAIN M
    <3>1. CASE n = N + 1
      <4>1. M[n] = e
        BY <1>9, <3>1
      <4>2. \A m \in DOMAIN M : ~(m > n)
        BY <1>17, <3>1
      <4> QED
        BY <1>6, <1>8, <4>1, <4>2
    <3>2. CASE n \in DOMAIN L
      <4>1. M[n] = L[n]
        BY <1>9, <3>2
      <4>2. \A m \in DOMAIN M : m < n => m \in DOMAIN L /\ M[m] = L[m]
        BY <1>9, <1>17, <3>2
      <4>3. \A m \in DOMAIN M : m > n => \/ m \in DOMAIN L /\ M[m] = L[m]
                                        \/ M[m] = e
        BY <1>9, <1>17, <3>2
      <4>4. M[n].dir = "undo" => \A m \in DOMAIN M : m > n => M[m].dir = "undo" /\ M[m].step < M[n].step
        BY <1>8, <1>16, <1>18, <3>2, <4>1, <4>3
      <4>5. M[n].dir = "do" => \A m \in DOMAIN M : m < n => M[m].dir = "do" /\ M[m].ok
        BY <1>18, <3>2, <4>1, <4>2
      <4> QED
        BY <1>18, <3>2, <4>1, <4>4, <4>5
    <3> QED
      BY <1>17, <3>1, <3>2
  <2>2. ask'[r] = ask[r]
    BY <1>2
  <2> QED
    BY <1>12, <2>1, <2>2 DEF LogInv, M
<1>20. StageInv(r)'
  <2>1. \A u \in Undone(r)', j \in ToUndo(r)' : j < u
    BY <1>1, <1>4, <1>6, <1>13, <1>14
  <2> QED
    BY <1>2, <1>4, <1>15, <2>1 DEF StageInv, Before
<1>21. Alone(r)
  BY <1>2, <1>9 DEF Alone
<1> QED
  BY <1>2, <1>19, <1>20, <1>21, StepMove

(* A request without a row takes its key, or ends in an error.              *)
LEMMA InsertMove ==
    ASSUME IInv, NEW r \in Reqs, InsertRun(r)
    PROVE  (\A q \in Reqs : ReqInv(q)') /\ (\A k \in Keys : RunInv(k)')
<1> DEFINE key == ask[r].key
           row == [plan |-> ask[r].plan, owner |-> r, status |-> "RUNNING"]
<1>1. pc[r] = "insert_run" /\ UNCHANGED <<approvals, ask, log, healthy>>
  BY DEF InsertRun, locals
<1>2. /\ pc \in [Actors -> Stages] /\ reply \in [Actors -> Replies]
      /\ runs \in [Keys -> Run \cup {Nil}] /\ r \in Actors
      /\ LogInv(r) /\ StageInv(r) /\ ApprovalInv(r) /\ ReplyInv(r)
  BY DEF IInv, TypeOK, ReqInv, Actors
<1>3. key \in Keys /\ ask[r].plan \in Ids
  BY <1>1 DEF IInv, KnowInv, Knows, RequestType
<1>4. log[r] = <<>> /\ reply[r] \notin Final
  BY <1>1, <1>2 DEF StageInv, Before, ReplyInv
<1>5. ask[r].intact /\ [plan |-> ask[r].plan, req |-> r] \in approvals
  BY <1>1, <1>2 DEF ApprovalInv, Approving
<1>6. CASE runs[key] # Nil
  <2>1. /\ pc' = [pc EXCEPT ![r] = "done"] /\ reply' = [reply EXCEPT ![r] = "error"]
        /\ runs' = runs
    BY <1>6 DEF InsertRun, Finish, Goto
  <2>2. Alone(r) /\ pc'[r] = "done" /\ reply'[r] \notin Final
    BY <1>1, <1>2, <2>1 DEF Alone, Actors, Final
  <2> QED
    BY <1>1, <2>1, <2>2, EarlyMove DEF Before, Approving, Late
<1>7. CASE runs[key] = Nil
  <2>1. /\ pc' = [pc EXCEPT ![r] = "mark_executing"] /\ reply' = reply
        /\ runs' = [runs EXCEPT ![key] = row]
    BY <1>7 DEF InsertRun, Goto
  <2>2. Alone(r) /\ pc'[r] = "mark_executing"
    BY <1>1, <1>2, <2>1 DEF Alone, Actors
  <2>3. runs'[key] = row /\ row # Nil /\ \A k \in Keys : k # key => runs'[k] = runs[k]
    BY <1>2, <1>3, <2>1, NilAssumption DEF Run, RunStatus
  <2>4. ReqInv(r)'
    BY <1>1, <1>4, <1>5, <2>1, <2>2, <2>3
       DEF ReqInv, LogInv, StageInv, OwnInv, ApprovalInv, ReplyInv
  <2>5. \A k \in Keys : runs[k] # Nil => runs[k].owner # r
    BY <1>1 DEF IInv, RunInv, Late
  <2>6. \A k \in Keys : k = key => RunInv(k)'
    BY <1>1, <2>2, <2>3 DEF RunInv, Late, Final
  <2>7. \A k \in Keys : runs'[k] # Nil /\ runs'[k].owner = r => RunInv(k)'
    BY <2>3, <2>5, <2>6
  <2>8. \A k \in Keys : \/ runs'[k] = runs[k]
                        \/ runs[k] = Nil /\ runs'[k] # Nil /\ runs'[k].owner = r
    BY <1>7, <2>3
  <2> QED
    BY <1>1, <2>2, <2>4, <2>7, <2>8, OthersKept DEF Alone
<1> QED
  BY <1>6, <1>7

(* The end of a run is written once, by its owner.                          *)
LEMMA SaveRunMove ==
    ASSUME IInv, NEW r \in Reqs, SaveRun(r)
    PROVE  (\A q \in Reqs : ReqInv(q)') /\ (\A k \in Keys : RunInv(k)')
<1> DEFINE key == ask[r].key
<1>1. /\ pc[r] \in {"save_run", "undo"} /\ (pc[r] = "undo" => ToUndo(r) = {})
      /\ runs' = [runs EXCEPT ![key].status = Outcome(r)]
      /\ pc' = [pc EXCEPT ![r] = "save_plan"]
      /\ UNCHANGED <<approvals, ask, log, healthy, reply>>
  BY DEF SaveRun, Goto, locals
<1>2. /\ pc \in [Actors -> Stages] /\ r \in Actors /\ log[r] \in Seq(Entry)
      /\ runs \in [Keys -> Run \cup {Nil}]
      /\ LogInv(r) /\ StageInv(r)
  BY DEF IInv, TypeOK, ReqInv, Actors
<1>3. pc[r] \in Late /\ pc[r] \notin Ending
  BY <1>1 DEF Late, Ending
<1>4. /\ key \in Keys /\ ask[r].plan \in Ids
      /\ runs[key] # Nil /\ runs[key] \in Run /\ runs[key].owner = r
      /\ runs[key].plan = ask[r].plan /\ runs[key].status \notin Final
      /\ reply[r] \notin Final
      /\ ask[r].intact /\ [plan |-> ask[r].plan, req |-> r] \in approvals
      /\ \A k \in Keys : runs[k] # Nil /\ runs[k].owner = r => k = key
  BY <1>3, LateRow
<1>5. /\ runs'[key] = [runs[key] EXCEPT !.status = Outcome(r)]
      /\ \A k \in Keys : k # key => runs'[k] = runs[k]
  BY <1>1, <1>2, <1>4
<1>6. Outcome(r) \in Final
  BY DEF Outcome, Final
<1>7. /\ runs'[key] = [plan |-> ask[r].plan, owner |-> r, status |-> Outcome(r)]
      /\ runs'[key] \in Run
  BY <1>4, <1>5, <1>6 DEF Run, RunStatus
<1>8. runs'[key] # Nil
  BY <1>7, NilAssumption
<1>9. Alone(r) /\ pc'[r] = "save_plan"
  BY <1>1, <1>2 DEF Alone, Actors
<1>10. Earned(r)
  <2>1. CASE pc[r] = "save_run"
    <3>1. Forward(r) /\ Len(log[r]) = Len(Steps(ask[r].plan)) /\ healthy[r]
      BY <1>2, <2>1 DEF StageInv
    <3>2. Undone(r) = {} /\ Completed(r) = DOMAIN log[r] /\ \A d \in Logged(r, "do") : d.ok
      BY <1>2, <3>1, ForwardLog
    <3>3. DOMAIN log[r] = DOMAIN Steps(ask[r].plan)
      BY <1>2, <1>4, <3>1, StepsType
    <3>4. Succeeded(r)
      BY <3>1, <3>2 DEF Succeeded
    <3> QED
      BY <3>2, <3>3, <3>4 DEF Earned
  <2>2. CASE pc[r] = "undo"
    BY <1>1, <1>2, <2>2 DEF StageInv, Earned
  <2> QED
    BY <1>1, <2>1, <2>2
<1>11. Outcome(r)' = Outcome(r) /\ Earned(r)' /\ LogInv(r)'
  BY <1>1, <1>2, <1>10, SameLog
<1>12. \A k \in Keys : k = key => RunInv(k)'
  BY <1>1, <1>6, <1>7, <1>8, <1>9, <1>11 DEF RunInv, Late, Ending
<1>13. ReqInv(r)'
  BY <1>1, <1>4, <1>7, <1>8, <1>9, <1>11
     DEF ReqInv, StageInv, OwnInv, ApprovalInv, ReplyInv, Before
<1>14. \A k \in Keys : runs'[k] # Nil /\ runs'[k].owner = r => RunInv(k)'
  BY <1>4, <1>5, <1>12
<1>15. \A k \in Keys : \/ runs'[k] = runs[k]
                       \/ /\ runs[k].owner = r /\ runs[k].status \notin Final
                          /\ runs'[k] # Nil /\ runs'[k].owner = r
  BY <1>4, <1>5, <1>7, <1>8
<1> QED
  BY <1>1, <1>9, <1>13, <1>14, <1>15, OthersKept DEF Alone

-----------------------------------------------------------------------------
(* Types                                                                    *)

LEMMA GotoType ==
    ASSUME TypeOK, NEW x \in Actors, NEW stage \in Stages, Goto(x, stage)
    PROVE  /\ pc' \in [Actors -> Stages] /\ pc'[x] = stage
           /\ \A y \in Actors : y # x => pc'[y] = pc[y]
  BY DEF TypeOK, Goto

LEMMA FinishType ==
    ASSUME TypeOK, NEW x \in Actors, NEW answer \in Replies, Finish(x, answer)
    PROVE  /\ pc' \in [Actors -> Stages] /\ pc'[x] = "done"
           /\ reply' \in [Actors -> Replies] /\ reply'[x] = answer
           /\ \A y \in Actors : y # x => pc'[y] = pc[y] /\ reply'[y] = reply[y]
  BY DEF TypeOK, Finish, Goto, Stages

LEMMA SaveType ==
    ASSUME TypeOK, NEW c \in Held, SaveIncident(c)
    PROVE  incidents' \in [Ids -> Incident \cup {Nil}]
<1>1. Fields(c) \in Incident /\ c.id \in Ids
  BY DEF Held, Fields, Incident
<1> QED
  BY <1>1 DEF TypeOK, SaveIncident

LEMMA ReadType ==
    ASSUME TypeOK, NEW x \in Actors, NEW i \in Ids, incidents[i] # Nil, Read(x, i)
    PROVE  /\ copy' \in [Actors -> Copy] /\ copy'[x] \in Held
           /\ \A y \in Actors : y # x => copy'[y] = copy[y]
<1>1. incidents[i] \in Incident
  BY DEF TypeOK
<1> DEFINE c == [id |-> i, status |-> incidents[i].status, updated |-> incidents[i].updated,
                 evidence |-> incidents[i].evidence]
<1>2. c \in Held /\ c \in Copy
  BY <1>1 DEF Held, Copy, Incident
<1>3. copy' = [copy EXCEPT ![x] = c]
  BY DEF Read
<1> HIDE DEF c
<1> QED
  BY <1>2, <1>3 DEF TypeOK

LEMMA SavePlanType ==
    ASSUME IInv, NEW r \in Reqs, pc[r] \in Loaded, NEW status \in PlanStatus, SavePlan(r, status)
    PROVE  /\ draft' \in [Reqs -> Plan \cup {Nil}] /\ draft'[r] \in Plan
           /\ plans' \in [Ids -> Plan \cup {Nil}]
           /\ \A q \in Reqs : q # r => draft'[q] = draft[q]
           /\ \A p \in Ids : plans[p] # Nil => plans'[p] # Nil
<1>1. draft[r] \in Plan /\ ask[r] \in RequestType
  BY DEF IInv, KnowInv, Knows, Loaded, Approving, Late
<1>2. ask[r].plan \in Ids
  BY <1>1 DEF RequestType
<1>3. draft \in [Reqs -> Plan \cup {Nil}] /\ plans \in [Ids -> Plan \cup {Nil}]
  BY DEF IInv, TypeOK
<1>4. draft' = [draft EXCEPT ![r] = [draft[r] EXCEPT !.status = status]]
  BY <1>3 DEF SavePlan
<1>5. [draft[r] EXCEPT !.status = status] \in Plan
  BY <1>1 DEF Plan
<1>6. draft' \in [Reqs -> Plan \cup {Nil}] /\ draft'[r] \in Plan
      /\ \A q \in Reqs : q # r => draft'[q] = draft[q]
  BY <1>3, <1>4, <1>5
<1>7. plans' = [plans EXCEPT ![ask[r].plan] = draft'[r]]
  BY DEF SavePlan
<1>8. draft'[r] # Nil
  BY <1>6, NilAssumption
<1> QED
  BY <1>2, <1>3, <1>6, <1>7, <1>8

(* What the others know and hold stays.                                     *)
LEMMA KnowKept ==
    ASSUME IInv, NEW x \in Actors,
           \A y \in Actors : y # x => pc'[y] = pc[y] /\ copy'[y] = copy[y],
           \A q \in Reqs : q # x => ask'[q] = ask[q] /\ draft'[q] = draft[q],
           \A p \in Ids : plans[p] # Nil => plans'[p] # Nil,
           x \in Reqs => Knows(x)',
           Holds(x)'
    PROVE  KnowInv'
<1>1. ASSUME NEW q \in Reqs, q # x PROVE Knows(q)'
  <2>1. Knows(q) /\ q \in Actors
    BY DEF IInv, KnowInv, Actors
  <2>2. pc[q] \in {"lookup", "load_plan"} => ask[q].plan \in Ids
    BY <2>1 DEF Knows, RequestType
  <2> QED
    BY <1>1, <2>1, <2>2 DEF Knows
<1>2. ASSUME NEW y \in Actors, y # x PROVE Holds(y)'
  BY <1>2 DEF IInv, KnowInv, Holds
<1> QED
  BY <1>1, <1>2 DEF KnowInv

(* Nobody learns or takes anything, and no plan goes.                       *)
LEMMA KnowQuiet ==
    ASSUME IInv, ask' = ask, draft' = draft, copy' = copy,
           \A p \in Ids : plans[p] # Nil => plans'[p] # Nil,
           \A y \in Actors : pc'[y] = pc[y] \/ (pc'[y] = "done" /\ pc[y] # "idle")
    PROVE  KnowInv'
<1>1. ASSUME NEW q \in Reqs PROVE Knows(q)'
  <2>1. Knows(q) /\ q \in Actors
    BY DEF IInv, KnowInv, Actors
  <2>2. pc[q] \in {"lookup", "load_plan"} => ask[q].plan \in Ids
    BY <2>1 DEF Knows, RequestType
  <2>3. CASE pc'[q] = pc[q]
    BY <2>1, <2>2, <2>3 DEF Knows
  <2>4. CASE pc'[q] = "done" /\ pc[q] # "idle"
    BY <2>1, <2>4 DEF Knows, Loaded, Approving, Late
  <2> QED
    BY <2>1, <2>3, <2>4
<1>2. ASSUME NEW y \in Actors PROVE Holds(y)'
  BY DEF IInv, KnowInv, Holds, Holding, Approving, Late
<1> QED
  BY <1>1, <1>2 DEF KnowInv

-----------------------------------------------------------------------------
(* Steps of the environment, of signals and of evidence                     *)

LEMMA FaultSteps ==
    ASSUME IInv, Tick \/ Forget \/ (\E x \in Actors : Raise(x)) \/ \E h \in Procs : Crash(h)
    PROVE  IInv'
<1> USE DEF tables, locals
<1>1. CASE Tick
  <2>1. TypeOK'
    BY <1>1, RemediationAssumption DEF Tick, IInv, TypeOK
  <2>2. KnowInv'
    BY <1>1, KnowQuiet DEF Tick
  <2> QED
    BY <1>1, <2>1, <2>2, Quiet DEF Tick, IInv
<1>2. CASE Forget
  <2>1. TypeOK'
    BY <1>2, RemediationAssumption DEF Forget, IInv, TypeOK
  <2>2. KnowInv'
    BY <1>2, KnowQuiet DEF Forget
  <2> QED
    BY <1>2, <2>1, <2>2, Quiet DEF Forget, IInv
<1>3. ASSUME NEW x \in Actors, Raise(x) PROVE IInv'
  <2>1. /\ pc' \in [Actors -> Stages] /\ pc'[x] = "done" /\ pc[x] # "idle"
        /\ reply' \in [Actors -> Replies] /\ reply'[x] = "error"
        /\ \A y \in Actors : y # x => pc'[y] = pc[y] /\ reply'[y] = reply[y]
    BY <1>3, FinishType DEF Raise, IInv, Replies, InFlight
  <2>2. TypeOK'
    BY <1>3, <2>1, RemediationAssumption DEF Raise, IInv, TypeOK
  <2>3. KnowInv'
    BY <1>3, <2>1, KnowQuiet DEF Raise
  <2>4. \A r \in Reqs : \/ pc'[r] = pc[r] /\ reply'[r] = reply[r]
                        \/ pc'[r] = "done" /\ reply'[r] \notin Final
    BY <2>1 DEF Final, Actors
  <2> QED
    BY <1>3, <2>2, <2>3, <2>4, Quiet DEF Raise, IInv
<1>4. ASSUME NEW h \in Procs, Crash(h) PROVE IInv'
  <2>1. \A y \in Actors : \/ pc'[y] = pc[y] /\ reply'[y] = reply[y]
                          \/ pc'[y] = "done" /\ pc[y] # "idle" /\ reply'[y] = "lost"
    BY <1>4 DEF Crash, InFlight
  <2>2. pc' \in [Actors -> Stages] /\ reply' \in [Actors -> Replies]
    BY <1>4 DEF Crash, IInv, TypeOK, Stages, Replies
  <2>3. TypeOK'
    BY <1>4, <2>2, RemediationAssumption DEF Crash, IInv, TypeOK
  <2>4. KnowInv'
    BY <1>4, <2>1, KnowQuiet DEF Crash
  <2>5. \A r \in Reqs : \/ pc'[r] = pc[r] /\ reply'[r] = reply[r]
                        \/ pc'[r] = "done" /\ reply'[r] \notin Final
    BY <2>1 DEF Final, Actors
  <2> QED
    BY <1>4, <2>3, <2>4, <2>5, Quiet DEF Crash, IInv
<1> QED
  BY <1>1, <1>2, <1>3, <1>4

(* A step of somebody who is no request, touching no approval and no run.   *)
LEMMA OutsideStep ==
    ASSUME IInv, NEW x \in Signals \cup Collectors,
           TypeOK', Holds(x)',
           UNCHANGED <<approvals, runs, ask, draft, log, healthy>>,
           \A p \in Ids : plans[p] # Nil => plans'[p] # Nil,
           \A y \in Actors : y # x => pc'[y] = pc[y] /\ copy'[y] = copy[y] /\ reply'[y] = reply[y]
    PROVE  IInv'
<1>1. x \in Actors /\ x \notin Reqs
  BY NilAssumption DEF Actors
<1>2. KnowInv'
  BY <1>1, KnowKept
<1>3. \A r \in Reqs : pc'[r] = pc[r] /\ reply'[r] = reply[r]
  BY <1>1 DEF Actors
<1> QED
  BY <1>2, <1>3, Quiet DEF IInv

LEMMA SignalSteps ==
    ASSUME IInv, NEW s \in Signals, SignalStep(s) \/ \E h \in Procs : Detect(s, h)
    PROVE  IInv'
<1> USE DEF tables, locals
<1>1. s \in Actors /\ s \in Ids /\ TypeOK
  BY DEF Actors, Ids, IInv
<1>2. CASE Merge(s)
  <2> DEFINE c == [copy[s] EXCEPT !.evidence = @ \cup {s}, !.updated = now]
  <2>1. SaveIncident(c) /\ Finish(s, "merged")
    BY <1>2 DEF Merge
  <2>2. c \in Held
    <3>1. copy[s] \in Held
      BY <1>1, <1>2 DEF Merge, IInv, KnowInv, Holds, Holding
    <3> QED
      BY <1>1, <3>1 DEF Held, TypeOK, Evidence, Actors
  <2> HIDE DEF c
  <2>3. incidents' \in [Ids -> Incident \cup {Nil}]
    BY <1>1, <2>1, <2>2, SaveType
  <2>4. /\ pc' \in [Actors -> Stages] /\ pc'[s] = "done" /\ reply' \in [Actors -> Replies]
        /\ \A y \in Actors : y # s => pc'[y] = pc[y] /\ reply'[y] = reply[y]
    BY <1>1, <2>1, FinishType DEF Replies
  <2>5. TypeOK'
    BY <1>1, <1>2, <2>3, <2>4 DEF Merge, TypeOK
  <2>6. Holds(s)'
    BY <2>4 DEF Holds, Holding, Approving, Late
  <2> QED
    BY <1>2, <2>4, <2>5, <2>6, OutsideStep DEF Merge
<1>3. CASE Open(s)
  <2> DEFINE status == IF Asset[s] \in RealAssets /\ Mode = "observe_only" THEN "OPEN" ELSE "WAITING_APPROVAL"
             c == [id |-> s, status |-> status, updated |-> now, evidence |-> {s}]
  <2>1. /\ copy' = [copy EXCEPT ![s] = c] /\ SaveIncident(copy'[s])
        /\ (Finish(s, "opened") \/ (Goto(s, "propose") /\ UNCHANGED reply))
        /\ UNCHANGED <<now, faults, plans, approvals, runs, agent, at, ask, draft, log, healthy>>
    BY <1>3 DEF Open
  <2>2. status \in IncidentStatus
    BY DEF IncidentStatus
  <2> HIDE DEF status
  <2>3. c \in Held /\ c \in Copy
    BY <1>1, <2>2 DEF Held, Copy, TypeOK, Evidence, Actors
  <2> HIDE DEF c
  <2>4. /\ copy' \in [Actors -> Copy] /\ copy'[s] = c
        /\ \A y \in Actors : y # s => copy'[y] = copy[y]
    BY <1>1, <2>1, <2>3 DEF TypeOK
  <2>5. incidents' \in [Ids -> Incident \cup {Nil}]
    <3>1. SaveIncident(c)
      BY <2>1, <2>4 DEF SaveIncident
    <3> QED
      BY <1>1, <2>3, <3>1, SaveType
  <2>6. /\ pc' \in [Actors -> Stages] /\ reply' \in [Actors -> Replies]
        /\ \A y \in Actors : y # s => pc'[y] = pc[y] /\ reply'[y] = reply[y]
    <3>1. CASE Finish(s, "opened")
      BY <1>1, <3>1, FinishType DEF Replies
    <3>2. CASE Goto(s, "propose") /\ UNCHANGED reply
      BY <1>1, <3>2, GotoType DEF Stages, TypeOK
    <3> QED
      BY <2>1, <3>1, <3>2
  <2>7. TypeOK'
    BY <1>1, <2>1, <2>4, <2>5, <2>6 DEF TypeOK
  <2>8. Holds(s)'
    BY <2>3, <2>4 DEF Holds
  <2> QED
    BY <2>1, <2>4, <2>6, <2>7, <2>8, OutsideStep
<1>4. CASE Propose(s)
  <2> DEFINE p == [status |-> "PENDING_APPROVAL", expires |-> copy[s].updated + 2]
  <2>1. plans' = [plans EXCEPT ![s] = p] /\ Finish(s, "opened")
    BY <1>4 DEF Propose
  <2>2. p \in Plan /\ p # Nil
    <3>1. copy[s] \in Held
      BY <1>1, <1>4 DEF Propose, IInv, KnowInv, Holds, Holding
    <3>2. copy[s].updated \in Nat
      BY <3>1, RemediationAssumption DEF Held
    <3>3. p \in Plan
      BY <3>2 DEF Plan, PlanStatus
    <3> QED
      BY <3>3, NilAssumption
  <2> HIDE DEF p
  <2>3. plans' \in [Ids -> Plan \cup {Nil}] /\ \A q \in Ids : plans[q] # Nil => plans'[q] # Nil
    BY <1>1, <2>1, <2>2 DEF TypeOK
  <2>4. /\ pc' \in [Actors -> Stages] /\ pc'[s] = "done" /\ reply' \in [Actors -> Replies]
        /\ \A y \in Actors : y # s => pc'[y] = pc[y] /\ reply'[y] = reply[y]
    BY <1>1, <2>1, FinishType DEF Replies
  <2>5. TypeOK'
    BY <1>1, <1>4, <2>3, <2>4 DEF Propose, TypeOK
  <2>6. Holds(s)'
    BY <2>4 DEF Holds, Holding, Approving, Late
  <2> QED
    BY <1>4, <2>3, <2>4, <2>5, <2>6, OutsideStep DEF Propose
<1>5. ASSUME NEW h \in Procs, Detect(s, h) PROVE IInv'
  <2>1. /\ at' = [at EXCEPT ![s] = h]
        /\ UNCHANGED <<now, faults, tables, agent, ask, draft, log, healthy, reply>>
    BY <1>5 DEF Detect
  <2>2. at' \in [Actors -> Procs \cup {Nil}]
    BY <1>1, <2>1 DEF TypeOK
  <2>3. CASE \E i \in Latest(Matches(s)) : Read(s, i) /\ Goto(s, "merge")
    <3>1. PICK i \in Latest(Matches(s)) : Read(s, i) /\ Goto(s, "merge")
      BY <2>3
    <3>2. i \in Ids /\ incidents[i] # Nil
      BY DEF Latest, Matches
    <3>3. /\ copy' \in [Actors -> Copy] /\ copy'[s] \in Held
          /\ \A y \in Actors : y # s => copy'[y] = copy[y]
      BY <1>1, <3>1, <3>2, ReadType
    <3>4. /\ pc' \in [Actors -> Stages] /\ \A y \in Actors : y # s => pc'[y] = pc[y]
      BY <1>1, <3>1, GotoType DEF Stages
    <3>5. TypeOK'
      BY <1>1, <2>1, <2>2, <3>3, <3>4 DEF TypeOK
    <3>6. Holds(s)'
      BY <3>3 DEF Holds
    <3> QED
      BY <2>1, <3>3, <3>4, <3>5, <3>6, OutsideStep
  <2>4. CASE Goto(s, "open") /\ UNCHANGED copy
    <3>1. /\ pc' \in [Actors -> Stages] /\ pc'[s] = "open"
          /\ \A y \in Actors : y # s => pc'[y] = pc[y]
      BY <1>1, <2>4, GotoType DEF Stages
    <3>2. TypeOK'
      BY <1>1, <2>1, <2>2, <2>4, <3>1 DEF TypeOK
    <3>3. Holds(s)'
      BY <3>1 DEF Holds, Holding, Approving, Late
    <3> QED
      BY <2>1, <2>4, <3>1, <3>2, <3>3, OutsideStep
  <2> QED
    BY <1>5, <2>3, <2>4 DEF Detect
<1> QED
  BY <1>2, <1>3, <1>4, <1>5 DEF SignalStep

LEMMA EvidenceSteps ==
    ASSUME IInv, NEW c \in Collectors, Attach(c) \/ \E h \in Procs, i \in Ids : Collect(c, h, i)
    PROVE  IInv'
<1> USE DEF tables, locals
<1>1. c \in Actors /\ TypeOK
  BY DEF Actors, IInv
<1>2. CASE Attach(c)
  <2> DEFINE d == [copy[c] EXCEPT !.evidence = @ \cup {c}]
  <2>1. SaveIncident(d) /\ Finish(c, "attached")
    BY <1>2 DEF Attach
  <2>2. d \in Held
    <3>1. copy[c] \in Held
      BY <1>1, <1>2 DEF Attach, IInv, KnowInv, Holds, Holding
    <3> QED
      BY <1>1, <3>1 DEF Held, Evidence, Actors
  <2> HIDE DEF d
  <2>3. incidents' \in [Ids -> Incident \cup {Nil}]
    BY <1>1, <2>1, <2>2, SaveType
  <2>4. /\ pc' \in [Actors -> Stages] /\ pc'[c] = "done" /\ reply' \in [Actors -> Replies]
        /\ \A y \in Actors : y # c => pc'[y] = pc[y] /\ reply'[y] = reply[y]
    BY <1>1, <2>1, FinishType DEF Replies
  <2>5. TypeOK'
    BY <1>1, <1>2, <2>3, <2>4 DEF Attach, TypeOK
  <2>6. Holds(c)'
    BY <2>4 DEF Holds, Holding, Approving, Late
  <2> QED
    BY <1>2, <2>4, <2>5, <2>6, OutsideStep DEF Attach
<1>3. ASSUME NEW h \in Procs, NEW i \in Ids, Collect(c, h, i) PROVE IInv'
  <2>1. /\ at' = [at EXCEPT ![c] = h] /\ incidents[i] # Nil /\ Read(c, i) /\ Goto(c, "query")
        /\ UNCHANGED <<now, faults, tables, agent, ask, draft, log, healthy, reply>>
    BY <1>3 DEF Collect
  <2>2. at' \in [Actors -> Procs \cup {Nil}]
    BY <1>1, <2>1 DEF TypeOK
  <2>3. /\ copy' \in [Actors -> Copy] /\ copy'[c] \in Held
        /\ \A y \in Actors : y # c => copy'[y] = copy[y]
    BY <1>1, <2>1, ReadType
  <2>4. /\ pc' \in [Actors -> Stages] /\ \A y \in Actors : y # c => pc'[y] = pc[y]
    BY <1>1, <2>1, GotoType DEF Stages
  <2>5. TypeOK'
    BY <1>1, <2>1, <2>2, <2>3, <2>4 DEF TypeOK
  <2>6. Holds(c)'
    BY <2>3 DEF Holds
  <2> QED
    BY <2>1, <2>3, <2>4, <2>5, <2>6, OutsideStep
<1> QED
  BY <1>2, <1>3

-----------------------------------------------------------------------------
(* Steps of an approval: what it knows and holds when it goes on            *)

(* Somebody who has what the next stage needs, and no plan goes.            *)
LEMMA GoesOn ==
    ASSUME IInv, NEW r \in Reqs, ask' = ask, copy' = copy, pc[r] # "idle",
           \A y \in Actors : y # r => pc'[y] = pc[y],
           \A q \in Reqs : q # r => draft'[q] = draft[q],
           \A p \in Ids : plans[p] # Nil => plans'[p] # Nil,
           pc'[r] \in {"lookup", "load_plan"} => pc[r] \in {"lookup", "load_plan"},
           pc'[r] \in Loaded => draft'[r] \in Plan,
           pc'[r] \in Holding => pc[r] \in Holding
    PROVE  KnowInv'
<1>1. r \in Actors /\ Knows(r) /\ Holds(r)
  BY DEF Actors, IInv, KnowInv
<1>2. ask[r] \in RequestType /\ ask[r].plan \in Ids
  BY <1>1 DEF Knows, RequestType
<1>3. Knows(r)'
  BY <1>1, <1>2 DEF Knows
<1>4. Holds(r)'
  BY <1>1 DEF Holds
<1> QED
  BY <1>1, <1>3, <1>4, KnowKept

LEMMA AskSteps ==
    ASSUME IInv, NEW r \in Reqs,
           \/ \E h \in Procs, q \in Requests : Route(r, h, q)
           \/ LookUp(r) \/ LoadPlan(r) \/ LoadIncident(r)
    PROVE  IInv'
<1> USE DEF tables, locals
<1>1. r \in Actors /\ TypeOK /\ Knows(r) /\ ReqInv(r) /\ StageInv(r) /\ ReplyInv(r)
  BY DEF Actors, IInv, KnowInv, ReqInv
<1>2. ASSUME NEW h \in Procs, NEW q \in Requests, Route(r, h, q) PROVE IInv'
  <2>1. /\ pc[r] = "idle" /\ at' = [at EXCEPT ![r] = h] /\ ask' = [ask EXCEPT ![r] = q]
        /\ \/ Finish(r, "not_found") \/ Finish(r, "forbidden")
           \/ plans[q.plan] # Nil /\ Goto(r, "lookup") /\ UNCHANGED reply
        /\ UNCHANGED <<now, faults, tables, agent, copy, draft, log, healthy>>
    BY <1>2 DEF Route
  <2>2. at' \in [Actors -> Procs \cup {Nil}] /\ ask' \in [Reqs -> Requests \cup {Nil}]
        /\ ask'[r] = q /\ \A p \in Reqs : p # r => ask'[p] = ask[p]
    BY <1>1, <2>1 DEF TypeOK
  <2>3. reply[r] \notin Final
    BY <1>1, <2>1 DEF ReplyInv
  <2>4. /\ pc' \in [Actors -> Stages] /\ reply' \in [Actors -> Replies]
        /\ \A y \in Actors : y # r => pc'[y] = pc[y] /\ reply'[y] = reply[y]
        /\ pc'[r] \in {"done", "lookup"} /\ reply'[r] \notin Final
        /\ pc'[r] = "lookup" => plans[q.plan] # Nil
    <3>1. CASE Finish(r, "not_found")
      BY <1>1, <3>1, FinishType DEF Replies, Final
    <3>2. CASE Finish(r, "forbidden")
      BY <1>1, <3>2, FinishType DEF Replies, Final
    <3>3. CASE plans[q.plan] # Nil /\ Goto(r, "lookup") /\ UNCHANGED reply
      BY <1>1, <2>3, <3>3, GotoType DEF Stages, TypeOK
    <3> QED
      BY <2>1, <3>1, <3>2, <3>3
  <2>5. TypeOK'
    BY <1>1, <2>1, <2>2, <2>4 DEF TypeOK
  <2>6. Knows(r)' /\ Holds(r)'
    BY <2>1, <2>2, <2>4, RemediationAssumption DEF Knows, Holds, Loaded, Holding, Approving, Late
  <2>7. KnowInv'
    BY <1>1, <2>1, <2>2, <2>4, <2>6, KnowKept
  <2>8. Alone(r)
    BY <2>1, <2>2, <2>4 DEF Alone, Actors
  <2>9. (\A p \in Reqs : ReqInv(p)') /\ (\A k \in Keys : RunInv(k)')
    BY <2>1, <2>4, <2>8, EarlyMove DEF Before, Approving, Late
  <2> QED
    BY <2>5, <2>7, <2>9 DEF IInv
<1>3. CASE LookUp(r)
  <2>1. /\ pc[r] = "lookup"
        /\ \/ runs[ask[r].key] # Nil /\ Finish(r, runs[ask[r].key].status)
           \/ Goto(r, "load_plan") /\ UNCHANGED reply
        /\ UNCHANGED <<now, faults, tables, agent, locals>>
    BY <1>3 DEF LookUp
  <2>2. reply[r] \notin Final
    BY <1>1, <2>1 DEF ReplyInv
  <2>3. /\ pc' \in [Actors -> Stages] /\ reply' \in [Actors -> Replies]
        /\ \A y \in Actors : y # r => pc'[y] = pc[y] /\ reply'[y] = reply[y]
        /\ pc'[r] \in {"done", "load_plan"}
        /\ reply'[r] \in Final => /\ pc'[r] = "done" /\ runs[ask[r].key] # Nil
                                  /\ runs[ask[r].key].status = reply'[r]
    <3>1. CASE runs[ask[r].key] # Nil /\ Finish(r, runs[ask[r].key].status)
      <4>1. ask[r].key \in Keys
        BY <1>1, <2>1 DEF Knows, RequestType
      <4>2. runs[ask[r].key].status \in Replies
        BY <1>1, <3>1, <4>1 DEF TypeOK, Run, Replies
      <4> QED
        BY <1>1, <3>1, <4>2, FinishType
    <3>2. CASE Goto(r, "load_plan") /\ UNCHANGED reply
      BY <1>1, <2>2, <3>2, GotoType DEF Stages, TypeOK
    <3> QED
      BY <2>1, <3>1, <3>2
  <2>4. TypeOK'
    BY <1>1, <2>1, <2>3 DEF TypeOK
  <2>5. KnowInv'
    BY <2>1, <2>3, GoesOn DEF Loaded, Holding, Approving, Late
  <2>6. Alone(r)
    BY <2>1, <2>3 DEF Alone, Actors
  <2>7. (\A p \in Reqs : ReqInv(p)') /\ (\A k \in Keys : RunInv(k)')
    BY <2>1, <2>3, <2>6, EarlyMove DEF Before, Approving, Late
  <2> QED
    BY <2>4, <2>5, <2>7 DEF IInv
<1>4. CASE LoadPlan(r)
  <2>1. /\ pc[r] = "load_plan" /\ draft' = [draft EXCEPT ![r] = plans[ask[r].plan]]
        /\ Goto(r, "load_incident")
        /\ UNCHANGED <<now, faults, tables, agent, at, ask, copy, log, healthy, reply>>
    BY <1>4 DEF LoadPlan
  <2>2. reply[r] \notin Final
    BY <1>1, <2>1 DEF ReplyInv
  <2>3. plans[ask[r].plan] \in Plan
    BY <1>1, <2>1 DEF Knows, RequestType, TypeOK
  <2>4. /\ draft' \in [Reqs -> Plan \cup {Nil}] /\ draft'[r] \in Plan
        /\ \A q \in Reqs : q # r => draft'[q] = draft[q]
    BY <1>1, <2>1, <2>3 DEF TypeOK
  <2>5. /\ pc' \in [Actors -> Stages] /\ pc'[r] = "load_incident"
        /\ \A y \in Actors : y # r => pc'[y] = pc[y]
    BY <1>1, <2>1, GotoType DEF Stages
  <2>6. TypeOK'
    BY <1>1, <2>1, <2>4, <2>5 DEF TypeOK
  <2>7. KnowInv'
    BY <2>1, <2>4, <2>5, GoesOn DEF Holding, Approving, Late
  <2>8. Alone(r)
    BY <2>1, <2>5 DEF Alone, Actors
  <2>9. (\A p \in Reqs : ReqInv(p)') /\ (\A k \in Keys : RunInv(k)')
    BY <2>1, <2>2, <2>5, <2>8, EarlyMove DEF Before, Approving, Late
  <2> QED
    BY <2>6, <2>7, <2>9 DEF IInv
<1>5. CASE LoadIncident(r)
  <2>1. /\ pc[r] = "load_incident"
        /\ \/ Finish(r, "not_found") /\ UNCHANGED copy
           \/ /\ incidents[ask[r].plan] # Nil
              /\ Read(r, ask[r].plan)
              /\ \/ Refusal(r) = "none" /\ Goto(r, "approve") /\ UNCHANGED reply
                 \/ Goto(r, "expire") /\ UNCHANGED reply
                 \/ Refusal(r) # "none" /\ Finish(r, Refusal(r))
        /\ UNCHANGED <<now, faults, tables, agent, at, ask, draft, log, healthy>>
    BY <1>5 DEF LoadIncident
  <2>2. reply[r] \notin Final
    BY <1>1, <2>1 DEF ReplyInv
  <2>3. draft[r] \in Plan /\ ask[r] \in RequestType /\ ask[r].plan \in Ids
    BY <1>1, <2>1 DEF Knows, Loaded, RequestType
  <2>4. Refusal(r) \in {"none", "rejected", "conflict", "expired"}
        /\ (Refusal(r) = "none" => ask[r].intact)
    BY <2>3 DEF Refusal, RequestType
  <2>5. /\ pc' \in [Actors -> Stages] /\ reply' \in [Actors -> Replies]
        /\ \A y \in Actors : y # r => pc'[y] = pc[y] /\ reply'[y] = reply[y]
        /\ pc'[r] \in {"done", "approve", "expire"} /\ reply'[r] \notin Final
        /\ pc'[r] = "approve" => ask[r].intact
    <3>1. CASE Finish(r, "not_found")
      BY <1>1, <3>1, FinishType DEF Replies, Final
    <3>2. CASE Refusal(r) = "none" /\ Goto(r, "approve") /\ UNCHANGED reply
      BY <1>1, <2>2, <2>4, <3>2, GotoType DEF Stages, TypeOK
    <3>3. CASE Goto(r, "expire") /\ UNCHANGED reply
      BY <1>1, <2>2, <3>3, GotoType DEF Stages, TypeOK
    <3>4. CASE Refusal(r) # "none" /\ Finish(r, Refusal(r))
      <4>1. Refusal(r) \in Replies /\ Refusal(r) \notin Final
        BY <2>4, <3>4 DEF Replies, Final
      <4> QED
        BY <1>1, <3>4, <4>1, FinishType
    <3> QED
      BY <2>1, <3>1, <3>2, <3>3, <3>4
  <2>6. /\ copy' \in [Actors -> Copy] /\ \A y \in Actors : y # r => copy'[y] = copy[y]
        /\ pc'[r] \in {"approve", "expire"} => copy'[r] \in Held
    <3>1. CASE Finish(r, "not_found") /\ UNCHANGED copy
      BY <1>1, <3>1, FinishType DEF Replies, TypeOK
    <3>2. CASE incidents[ask[r].plan] # Nil /\ Read(r, ask[r].plan)
      BY <1>1, <2>3, <3>2, ReadType
    <3> QED
      BY <2>1, <3>1, <3>2
  <2>7. TypeOK'
    BY <1>1, <2>1, <2>5, <2>6 DEF TypeOK
  <2>8. Knows(r)'
    BY <2>1, <2>3, <2>5 DEF Knows
  <2>9. Holds(r)'
    BY <2>5, <2>6 DEF Holds, Holding, Approving, Late
  <2>10. KnowInv'
    BY <1>1, <2>1, <2>5, <2>6, <2>8, <2>9, KnowKept
  <2>11. Alone(r)
    BY <2>1, <2>5 DEF Alone, Actors
  <2>12. (\A p \in Reqs : ReqInv(p)') /\ (\A k \in Keys : RunInv(k)')
    BY <2>1, <2>5, <2>11, EarlyMove DEF Before, Approving, Late
  <2> QED
    BY <2>7, <2>10, <2>12 DEF IInv
<1> QED
  BY <1>2, <1>3, <1>4, <1>5

LEMMA ApproveSteps ==
    ASSUME IInv, NEW r \in Reqs,
           Expire(r) \/ Approve(r) \/ MarkPlan(r) \/ MarkIncident(r)
    PROVE  IInv'
<1> USE DEF tables, locals
<1>1. r \in Actors /\ TypeOK /\ Knows(r) /\ Holds(r) /\ ReplyInv(r) /\ ApprovalInv(r)
  BY DEF Actors, IInv, KnowInv, ReqInv
<1>2. CASE Expire(r)
  <2>1. /\ pc[r] = "expire" /\ SavePlan(r, "EXPIRED") /\ Finish(r, "expired")
        /\ UNCHANGED <<now, faults, incidents, approvals, runs, agent, at, ask, copy, log, healthy>>
    BY <1>2 DEF Expire
  <2>2. /\ draft' \in [Reqs -> Plan \cup {Nil}] /\ plans' \in [Ids -> Plan \cup {Nil}]
        /\ \A q \in Reqs : q # r => draft'[q] = draft[q]
        /\ \A p \in Ids : plans[p] # Nil => plans'[p] # Nil
    BY <2>1, SavePlanType DEF Loaded, PlanStatus
  <2>3. /\ pc' \in [Actors -> Stages] /\ reply' \in [Actors -> Replies]
        /\ pc'[r] = "done" /\ reply'[r] = "expired"
        /\ \A y \in Actors : y # r => pc'[y] = pc[y] /\ reply'[y] = reply[y]
    BY <1>1, <2>1, FinishType DEF Replies
  <2>4. TypeOK'
    BY <1>1, <2>1, <2>2, <2>3 DEF TypeOK
  <2>5. KnowInv'
    BY <2>1, <2>2, <2>3, GoesOn DEF Loaded, Holding, Approving, Late
  <2>6. Alone(r)
    BY <2>1, <2>3 DEF Alone, Actors
  <2>7. (\A p \in Reqs : ReqInv(p)') /\ (\A k \in Keys : RunInv(k)')
    BY <2>1, <2>3, <2>6, EarlyMove DEF Before, Approving, Late, Final
  <2> QED
    BY <2>4, <2>5, <2>7 DEF IInv
<1>3. CASE Approve(r)
  <2>1. /\ pc[r] = "approve"
        /\ approvals' = approvals \cup {[plan |-> ask[r].plan, req |-> r]}
        /\ \/ /\ copy' = [copy EXCEPT ![r].status = "REMEDIATING", ![r].updated = now]
              /\ Goto(r, "mark_plan") /\ UNCHANGED reply
           \/ Finish(r, "conflict") /\ UNCHANGED copy
        /\ UNCHANGED <<now, faults, incidents, plans, runs, agent, at, ask, draft, log, healthy>>
    BY <1>3 DEF Approve
  <2>2. reply[r] \notin Final /\ ask[r].intact
    BY <1>1, <2>1 DEF ReplyInv, ApprovalInv
  <2>3. draft[r] \in Plan /\ ask[r] \in RequestType /\ ask[r].plan \in Ids /\ copy[r] \in Held
    BY <1>1, <2>1 DEF Knows, Holds, Holding, Loaded, RequestType
  <2>4. approvals' \subseteq [plan: Ids, req: Reqs]
    BY <1>1, <2>1, <2>3 DEF TypeOK
  <2>5. /\ pc' \in [Actors -> Stages] /\ reply' \in [Actors -> Replies]
        /\ \A y \in Actors : y # r => pc'[y] = pc[y] /\ reply'[y] = reply[y]
        /\ pc'[r] \in {"done", "mark_plan"} /\ reply'[r] \notin Final
    <3>1. CASE Goto(r, "mark_plan") /\ UNCHANGED reply
      BY <1>1, <2>2, <3>1, GotoType DEF Stages, TypeOK
    <3>2. CASE Finish(r, "conflict")
      BY <1>1, <3>2, FinishType DEF Replies, Final
    <3> QED
      BY <2>1, <3>1, <3>2
  <2>6. /\ copy' \in [Actors -> Copy] /\ \A y \in Actors : y # r => copy'[y] = copy[y]
        /\ copy'[r] \in Held
    <3>1. CASE copy' = [copy EXCEPT ![r].status = "REMEDIATING", ![r].updated = now]
      <4> DEFINE c == [copy[r] EXCEPT !.status = "REMEDIATING", !.updated = now]
      <4>1. c \in Held /\ c \in Copy
        BY <1>1, <2>3 DEF Held, Copy, IncidentStatus, TypeOK
      <4>2. copy' = [copy EXCEPT ![r] = c]
        BY <1>1, <3>1 DEF TypeOK
      <4> HIDE DEF c
      <4> QED
        BY <1>1, <4>1, <4>2 DEF TypeOK
    <3>2. CASE UNCHANGED copy
      BY <1>1, <2>3, <3>2 DEF TypeOK
    <3> QED
      BY <2>1, <3>1, <3>2
  <2>7. TypeOK'
    BY <1>1, <2>1, <2>4, <2>5, <2>6 DEF TypeOK
  <2>8. Knows(r)' /\ Holds(r)'
    BY <2>1, <2>3, <2>5, <2>6 DEF Knows, Holds
  <2>9. KnowInv'
    BY <1>1, <2>1, <2>5, <2>6, <2>8, KnowKept
  <2>10. Alone(r)
    BY <2>1, <2>5 DEF Alone, Actors
  <2>11. (\A p \in Reqs : ReqInv(p)') /\ (\A k \in Keys : RunInv(k)')
    BY <2>1, <2>2, <2>5, <2>10, EarlyMove DEF Before, Approving, Late
  <2> QED
    BY <2>7, <2>9, <2>11 DEF IInv
<1>4. CASE MarkPlan(r)
  <2>1. /\ pc[r] = "mark_plan" /\ SavePlan(r, "APPROVED") /\ Goto(r, "mark_incident")
        /\ UNCHANGED <<now, faults, incidents, approvals, runs, agent, at, ask, copy, log, healthy, reply>>
    BY <1>4 DEF MarkPlan
  <2>2. /\ draft' \in [Reqs -> Plan \cup {Nil}] /\ plans' \in [Ids -> Plan \cup {Nil}]
        /\ \A q \in Reqs : q # r => draft'[q] = draft[q]
        /\ draft'[r] \in Plan
        /\ \A p \in Ids : plans[p] # Nil => plans'[p] # Nil
    BY <2>1, SavePlanType DEF Loaded, Approving, PlanStatus
  <2>3. /\ pc' \in [Actors -> Stages] /\ pc'[r] = "mark_incident"
        /\ \A y \in Actors : y # r => pc'[y] = pc[y]
    BY <1>1, <2>1, GotoType DEF Stages
  <2>4. TypeOK'
    BY <1>1, <2>1, <2>2, <2>3 DEF TypeOK
  <2>5. KnowInv'
    BY <2>1, <2>2, <2>3, GoesOn DEF Holding, Approving
  <2>6. Alone(r)
    BY <2>1, <2>3 DEF Alone, Actors
  <2>7. /\ reply[r] \notin Final /\ ask[r].intact
        /\ [plan |-> ask[r].plan, req |-> r] \in approvals
    BY <1>1, <2>1 DEF ReplyInv, ApprovalInv, Approving
  <2>8. (\A p \in Reqs : ReqInv(p)') /\ (\A k \in Keys : RunInv(k)')
    BY <2>1, <2>3, <2>6, <2>7, EarlyMove DEF Before
  <2> QED
    BY <2>4, <2>5, <2>8 DEF IInv
<1>5. CASE MarkIncident(r)
  <2>1. /\ pc[r] = "mark_incident" /\ SaveIncident(copy[r]) /\ Goto(r, "insert_run")
        /\ UNCHANGED <<now, faults, plans, approvals, runs, agent, locals, reply>>
    BY <1>5 DEF MarkIncident
  <2>2. copy[r] \in Held /\ draft[r] \in Plan
    BY <1>1, <2>1 DEF Knows, Holds, Holding, Loaded, Approving
  <2>3. incidents' \in [Ids -> Incident \cup {Nil}]
    BY <1>1, <2>1, <2>2, SaveType
  <2>4. /\ pc' \in [Actors -> Stages] /\ pc'[r] = "insert_run"
        /\ \A y \in Actors : y # r => pc'[y] = pc[y]
    BY <1>1, <2>1, GotoType DEF Stages
  <2>5. TypeOK'
    BY <1>1, <2>1, <2>3, <2>4 DEF TypeOK
  <2>6. KnowInv'
    BY <2>1, <2>2, <2>4, GoesOn DEF Holding, Approving
  <2>7. Alone(r)
    BY <2>1, <2>4 DEF Alone, Actors
  <2>8. /\ reply[r] \notin Final /\ ask[r].intact
        /\ [plan |-> ask[r].plan, req |-> r] \in approvals
    BY <1>1, <2>1 DEF ReplyInv, ApprovalInv, Approving
  <2>9. (\A p \in Reqs : ReqInv(p)') /\ (\A k \in Keys : RunInv(k)')
    BY <2>1, <2>4, <2>7, <2>8, EarlyMove DEF Before
  <2> QED
    BY <2>5, <2>6, <2>9 DEF IInv
<1> QED
  BY <1>2, <1>3, <1>4, <1>5

LEMMA ExecuteSteps ==
    ASSUME IInv, NEW r \in Reqs,
           \/ InsertRun(r) \/ MarkExecuting(r)
           \/ \E ok, performed \in BOOLEAN : Perform(r, ok, performed) \/ Undo(r, ok, performed)
           \/ \E ok \in BOOLEAN : Verify(r, ok)
    PROVE  IInv'
<1> USE DEF tables, locals
<1>1. r \in Actors /\ TypeOK /\ Knows(r) /\ Holds(r) /\ StageInv(r)
  BY DEF Actors, IInv, KnowInv, ReqInv
<1>2. pc[r] \in Approving => draft[r] \in Plan /\ copy[r] \in Held /\ ask[r].plan \in Ids
                             /\ ask[r].key \in Keys
  BY <1>1 DEF Knows, Holds, Holding, Loaded, RequestType, Approving, Late
<1>3. CASE InsertRun(r)
  <2>1. /\ pc[r] = "insert_run"
        /\ \/ Finish(r, "error") /\ UNCHANGED runs
           \/ /\ runs' = [runs EXCEPT ![ask[r].key] =
                            [plan |-> ask[r].plan, owner |-> r, status |-> "RUNNING"]]
              /\ Goto(r, "mark_executing") /\ UNCHANGED reply
        /\ UNCHANGED <<now, faults, incidents, plans, approvals, agent, locals>>
    BY <1>3 DEF InsertRun
  <2>2. draft[r] \in Plan /\ ask[r].plan \in Ids /\ ask[r].key \in Keys
    BY <1>2, <2>1 DEF Approving
  <2>3. /\ pc' \in [Actors -> Stages] /\ reply' \in [Actors -> Replies]
        /\ \A y \in Actors : y # r => pc'[y] = pc[y]
        /\ pc'[r] \in {"done", "mark_executing"}
        /\ runs' \in [Keys -> Run \cup {Nil}]
    <3>1. CASE Finish(r, "error") /\ UNCHANGED runs
      BY <1>1, <3>1, FinishType DEF Replies, TypeOK
    <3>2. CASE /\ runs' = [runs EXCEPT ![ask[r].key] =
                             [plan |-> ask[r].plan, owner |-> r, status |-> "RUNNING"]]
               /\ Goto(r, "mark_executing") /\ UNCHANGED reply
      <4>1. [plan |-> ask[r].plan, owner |-> r, status |-> "RUNNING"] \in Run
        BY <2>2 DEF Run, RunStatus
      <4> QED
        BY <1>1, <3>2, <4>1, GotoType DEF Stages, TypeOK
    <3> QED
      BY <2>1, <3>1, <3>2
  <2>4. TypeOK'
    BY <1>1, <2>1, <2>3 DEF TypeOK
  <2>5. KnowInv'
    BY <2>1, <2>2, <2>3, GoesOn DEF Holding, Approving
  <2> QED
    BY <1>3, <2>4, <2>5, InsertMove DEF IInv
<1>4. CASE MarkExecuting(r)
  <2>1. /\ pc[r] = "mark_executing" /\ SavePlan(r, "EXECUTING") /\ Goto(r, "steps")
        /\ UNCHANGED <<now, faults, incidents, approvals, runs, agent, at, ask, copy, log, healthy, reply>>
    BY <1>4 DEF MarkExecuting
  <2>2. /\ draft' \in [Reqs -> Plan \cup {Nil}] /\ plans' \in [Ids -> Plan \cup {Nil}]
        /\ \A q \in Reqs : q # r => draft'[q] = draft[q]
        /\ draft'[r] \in Plan
        /\ \A p \in Ids : plans[p] # Nil => plans'[p] # Nil
    BY <2>1, SavePlanType DEF Loaded, Approving, Late, PlanStatus
  <2>3. /\ pc' \in [Actors -> Stages] /\ pc'[r] = "steps"
        /\ \A y \in Actors : y # r => pc'[y] = pc[y]
    BY <1>1, <2>1, GotoType DEF Stages
  <2>4. TypeOK'
    BY <1>1, <2>1, <2>2, <2>3 DEF TypeOK
  <2>5. KnowInv'
    BY <2>1, <2>2, <2>3, GoesOn DEF Holding, Approving, Late
  <2>6. Alone(r)
    BY <2>1, <2>3 DEF Alone, Actors
  <2>7. (\A p \in Reqs : ReqInv(p)') /\ (\A k \in Keys : RunInv(k)')
    BY <2>1, <2>3, <2>6, LateMove
  <2> QED
    BY <2>4, <2>5, <2>7 DEF IInv
<1>5. ASSUME NEW ok \in BOOLEAN, NEW performed \in BOOLEAN, Perform(r, ok, performed) PROVE IInv'
  <2> DEFINE S == Steps(ask[r].plan)
             i == Len(log[r]) + 1
             e == [dir |-> "do", step |-> i, ok |-> ok, performed |-> performed]
  <2>1. /\ pc[r] = "steps"
        /\ Dispatch(ask[r].plan, S[i].action, S[i].target, S[i].args, ok, performed)
        /\ log' = [log EXCEPT ![r] = Append(@, e)]
        /\ pc' = [pc EXCEPT ![r] = IF ~ok THEN "undo" ELSE IF i = Len(S) THEN "verify" ELSE "steps"]
        /\ UNCHANGED <<now, faults, tables, at, ask, copy, draft, healthy, reply>>
    BY <1>5 DEF Perform, Record, Goto
  <2>2. draft[r] \in Plan /\ ask[r].plan \in Ids
    BY <1>2, <2>1 DEF Approving, Late
  <2>3. log[r] \in Seq(Entry) /\ Len(log[r]) \in Nat /\ Len(log[r]) < Len(S)
    BY <1>1, <2>1 DEF StageInv, TypeOK
  <2>4. i \in DOMAIN S
    BY <2>2, <2>3, StepsType
  <2>5. S[i].action \in Actions /\ S[i].target \in Assets
    BY <2>2, <2>4, StepsType
  <2>6. e \in Entry
    BY <2>3 DEF Entry
  <2> HIDE DEF e, i, S
  <2>7. \A d \in agent' : d.key \in Ids \X Actions \X Assets /\ d.ok \in BOOLEAN
    BY <1>1, <2>1, <2>2, <2>5, DispatchType DEF TypeOK
  <2>8. log' \in [Reqs -> Seq(Entry)]
    BY <1>1, <2>1, <2>6 DEF TypeOK
  <2>9. /\ pc' \in [Actors -> Stages] /\ pc'[r] \in {"undo", "verify", "steps"}
        /\ \A y \in Actors : y # r => pc'[y] = pc[y]
    BY <1>1, <2>1 DEF TypeOK, Stages
  <2>10. TypeOK'
    BY <1>1, <2>1, <2>7, <2>8, <2>9 DEF TypeOK
  <2>11. KnowInv'
    BY <2>1, <2>2, <2>9, GoesOn DEF Holding, Approving, Late
  <2> QED
    BY <1>5, <2>10, <2>11, PerformMove DEF IInv
<1>6. ASSUME NEW ok \in BOOLEAN, NEW performed \in BOOLEAN, Undo(r, ok, performed) PROVE IInv'
  <2> DEFINE S == Steps(ask[r].plan)
  <2>1. PICK i \in ToUndo(r) :
          /\ Dispatch(ask[r].plan, S[i].undo, S[i].target, S[i].undoArgs, ok, performed)
          /\ Record(r, "undo", i, ok, performed)
    BY <1>6 DEF Undo, NextToUndo
  <2> DEFINE e == [dir |-> "undo", step |-> i, ok |-> ok, performed |-> performed]
  <2>2. /\ pc[r] = "undo" /\ log' = [log EXCEPT ![r] = Append(@, e)]
        /\ UNCHANGED <<now, faults, tables, pc, at, ask, copy, draft, healthy, reply>>
    BY <1>6, <2>1 DEF Undo, Record
  <2>3. draft[r] \in Plan /\ ask[r].plan \in Ids
    BY <1>2, <2>2 DEF Approving, Late
  <2>4. i \in Compensable(r) /\ i \in Nat /\ i \in DOMAIN S /\ S[i].undo # "none"
    BY <2>3, LoggedSteps DEF ToUndo, Compensable, IInv, ReqInv
  <2>5. S[i].undo \in Actions /\ S[i].target \in Assets
    BY <2>3, <2>4, StepsType
  <2>6. e \in Entry
    BY <2>4 DEF Entry
  <2> HIDE DEF e, S
  <2>7. \A d \in agent' : d.key \in Ids \X Actions \X Assets /\ d.ok \in BOOLEAN
    BY <1>1, <2>1, <2>3, <2>5, DispatchType DEF TypeOK
  <2>8. log' \in [Reqs -> Seq(Entry)]
    BY <1>1, <2>2, <2>6 DEF TypeOK
  <2>9. TypeOK'
    BY <1>1, <2>2, <2>7, <2>8 DEF TypeOK
  <2>10. KnowInv'
    BY <2>2, KnowQuiet
  <2> QED
    BY <1>6, <2>9, <2>10, UndoMove DEF IInv
<1>7. ASSUME NEW ok \in BOOLEAN, Verify(r, ok) PROVE IInv'
  <2>1. /\ pc[r] = "verify" /\ healthy' = [healthy EXCEPT ![r] = ok]
        /\ pc' = [pc EXCEPT ![r] = IF ok THEN "save_run" ELSE "undo"]
        /\ UNCHANGED <<now, faults, tables, agent, at, ask, copy, draft, log, reply>>
    BY <1>7 DEF Verify, Goto
  <2>2. draft[r] \in Plan
    BY <1>2, <2>1 DEF Approving, Late
  <2>3. /\ pc' \in [Actors -> Stages] /\ pc'[r] \in {"undo", "save_run"}
        /\ \A y \in Actors : y # r => pc'[y] = pc[y]
    BY <1>1, <2>1 DEF TypeOK, Stages
  <2>4. healthy' \in [Reqs -> BOOLEAN]
    BY <1>1, <2>1 DEF TypeOK
  <2>5. TypeOK'
    BY <1>1, <2>1, <2>3, <2>4 DEF TypeOK
  <2>6. KnowInv'
    BY <2>1, <2>2, <2>3, GoesOn DEF Holding, Approving, Late
  <2> QED
    BY <1>7, <2>5, <2>6, VerifyMove DEF IInv
<1> QED
  BY <1>3, <1>4, <1>5, <1>6, <1>7

LEMMA EndSteps ==
    ASSUME IInv, NEW r \in Reqs, SaveRun(r) \/ SavePlanEnd(r) \/ SaveIncidentEnd(r)
    PROVE  IInv'
<1> USE DEF tables, locals
<1>1. r \in Actors /\ TypeOK /\ Knows(r) /\ Holds(r)
  BY DEF Actors, IInv, KnowInv
<1>2. pc[r] \in Late => draft[r] \in Plan /\ copy[r] \in Held /\ ask[r].key \in Keys
  BY <1>1 DEF Knows, Holds, Holding, Loaded, RequestType, Approving, Late
<1>3. CASE SaveRun(r)
  <2>1. /\ pc[r] \in {"save_run", "undo"} /\ Goto(r, "save_plan")
        /\ runs' = [runs EXCEPT ![ask[r].key].status = Outcome(r)]
        /\ UNCHANGED <<now, faults, incidents, plans, approvals, agent, locals, reply>>
    BY <1>3 DEF SaveRun
  <2>2. pc[r] \in Late /\ draft[r] \in Plan
    BY <1>2, <2>1 DEF Late
  <2>3. ask[r].key \in Keys /\ runs[ask[r].key] \in Run
    BY <2>2, LateRow
  <2>4. Outcome(r) \in RunStatus
    BY DEF Outcome, RunStatus, Final
  <2>5. runs' \in [Keys -> Run \cup {Nil}]
    <3>1. [runs[ask[r].key] EXCEPT !.status = Outcome(r)] \in Run
      BY <2>3, <2>4 DEF Run
    <3>2. runs' = [runs EXCEPT ![ask[r].key] = [runs[ask[r].key] EXCEPT !.status = Outcome(r)]]
      BY <1>1, <2>1 DEF TypeOK
    <3> QED
      BY <1>1, <3>1, <3>2 DEF TypeOK
  <2>6. /\ pc' \in [Actors -> Stages] /\ pc'[r] = "save_plan"
        /\ \A y \in Actors : y # r => pc'[y] = pc[y]
    BY <1>1, <2>1, GotoType DEF Stages
  <2>7. TypeOK'
    BY <1>1, <2>1, <2>5, <2>6 DEF TypeOK
  <2>8. KnowInv'
    BY <2>1, <2>2, <2>6, GoesOn DEF Holding, Approving, Late
  <2> QED
    BY <1>3, <2>7, <2>8, SaveRunMove DEF IInv
<1>4. CASE SavePlanEnd(r)
  <2>1. /\ pc[r] = "save_plan" /\ Goto(r, "save_incident")
        /\ SavePlan(r, IF Succeeded(r) THEN "SUCCEEDED" ELSE "FAILED")
        /\ UNCHANGED <<now, faults, incidents, approvals, runs, agent, at, ask, copy, log, healthy, reply>>
    BY <1>4 DEF SavePlanEnd
  <2>2. /\ draft' \in [Reqs -> Plan \cup {Nil}] /\ plans' \in [Ids -> Plan \cup {Nil}]
        /\ \A q \in Reqs : q # r => draft'[q] = draft[q]
        /\ draft'[r] \in Plan
        /\ \A p \in Ids : plans[p] # Nil => plans'[p] # Nil
    <3>1. (IF Succeeded(r) THEN "SUCCEEDED" ELSE "FAILED") \in PlanStatus
      BY DEF PlanStatus
    <3> QED
      BY <2>1, <3>1, SavePlanType DEF Loaded, Approving, Late
  <2>3. /\ pc' \in [Actors -> Stages] /\ pc'[r] = "save_incident"
        /\ \A y \in Actors : y # r => pc'[y] = pc[y]
    BY <1>1, <2>1, GotoType DEF Stages
  <2>4. TypeOK'
    BY <1>1, <2>1, <2>2, <2>3 DEF TypeOK
  <2>5. KnowInv'
    BY <2>1, <2>2, <2>3, GoesOn DEF Holding, Approving, Late
  <2>6. Alone(r)
    BY <2>1, <2>3 DEF Alone, Actors
  <2>7. (\A p \in Reqs : ReqInv(p)') /\ (\A k \in Keys : RunInv(k)')
    BY <2>1, <2>3, <2>6, LateMove
  <2> QED
    BY <2>4, <2>5, <2>7 DEF IInv
<1>5. CASE SaveIncidentEnd(r)
  <2> DEFINE c == [copy[r] EXCEPT !.status = IF Succeeded(r) THEN "RESOLVED" ELSE "FAILED",
                                  !.updated = now]
  <2>1. /\ pc[r] = "save_incident" /\ SaveIncident(c) /\ Finish(r, Outcome(r))
        /\ UNCHANGED <<now, faults, plans, approvals, runs, agent, locals>>
    BY <1>5 DEF SaveIncidentEnd
  <2>2. c \in Held
    <3>1. copy[r] \in Held
      BY <1>2, <2>1 DEF Late
    <3>2. (IF Succeeded(r) THEN "RESOLVED" ELSE "FAILED") \in IncidentStatus
      BY DEF IncidentStatus
    <3> QED
      BY <1>1, <3>1, <3>2 DEF Held, TypeOK
  <2> HIDE DEF c
  <2>3. incidents' \in [Ids -> Incident \cup {Nil}]
    BY <1>1, <2>1, <2>2, SaveType
  <2>4. Outcome(r) \in Replies
    BY DEF Outcome, Replies, RunStatus, Final
  <2>5. /\ pc' \in [Actors -> Stages] /\ pc'[r] = "done"
        /\ reply' \in [Actors -> Replies] /\ reply'[r] = Outcome(r)
        /\ \A y \in Actors : y # r => pc'[y] = pc[y] /\ reply'[y] = reply[y]
    BY <1>1, <2>1, <2>4, FinishType
  <2>6. TypeOK'
    BY <1>1, <2>1, <2>3, <2>5 DEF TypeOK
  <2>7. KnowInv'
    BY <2>1, <2>5, GoesOn DEF Loaded, Holding, Approving, Late
  <2>8. Alone(r)
    BY <2>1, <2>5 DEF Alone, Actors
  <2>9. (\A p \in Reqs : ReqInv(p)') /\ (\A k \in Keys : RunInv(k)')
    BY <2>1, <2>5, <2>8, LateMove
  <2> QED
    BY <2>6, <2>7, <2>9 DEF IInv
<1> QED
  BY <1>3, <1>4, <1>5

-----------------------------------------------------------------------------
(* The inductive invariant                                                  *)

LEMMA InitInv == Init => IInv
<1> SUFFICES ASSUME Init PROVE IInv
  OBVIOUS
<1> USE DEF Init
<1>1. TypeOK
  <2>1. Stored \subseteq Ids /\ Reqs \subseteq Actors
    BY DEF Ids, Actors
  <2>2. incidents \in [Ids -> Incident \cup {Nil}]
    <3>1. \A i \in Stored :
            [status |-> "WAITING_APPROVAL", updated |-> 0, evidence |-> {i}] \in Incident
      BY RemediationAssumption DEF Incident, IncidentStatus, Evidence
    <3> QED
      BY <3>1
  <2>3. plans \in [Ids -> Plan \cup {Nil}]
    BY DEF Plan, PlanStatus
  <2>4. log \in [Reqs -> Seq(Entry)]
    <3>1. <<>> \in Seq(Entry)
      OBVIOUS
    <3> QED
      BY <3>1
  <2> QED
    BY <2>2, <2>3, <2>4, RemediationAssumption DEF TypeOK, Stages, Replies, Copy
<1>2. Reqs \subseteq Actors
  BY DEF Actors
<1>3. KnowInv
  BY <1>2 DEF KnowInv, Knows, Holds, Loaded, Holding, Approving, Late
<1>4. \A r \in Reqs : ReqInv(r)
  BY <1>2 DEF ReqInv, LogInv, StageInv, OwnInv, ApprovalInv, ReplyInv, Final, Approving, Late
<1>5. \A k \in Keys : RunInv(k)
  BY DEF RunInv
<1> QED
  BY <1>1, <1>3, <1>4, <1>5 DEF IInv

LEMMA StepInv == IInv /\ [Next]_vars => IInv'
<1> SUFFICES ASSUME IInv, [Next]_vars PROVE IInv'
  OBVIOUS
<1>1. CASE Tick \/ Forget \/ (\E x \in Actors : Raise(x)) \/ \E h \in Procs : Crash(h)
  BY <1>1, FaultSteps
<1>2. ASSUME NEW r \in Reqs, ApprovalStep(r) \/ \E h \in Procs, q \in Requests : Route(r, h, q)
      PROVE  IInv'
  BY <1>2, AskSteps, ApproveSteps, ExecuteSteps, EndSteps DEF ApprovalStep
<1>3. ASSUME NEW s \in Signals, SignalStep(s) \/ \E h \in Procs : Detect(s, h) PROVE IInv'
  BY <1>3, SignalSteps
<1>4. ASSUME NEW c \in Collectors, Attach(c) \/ \E h \in Procs, i \in Ids : Collect(c, h, i)
      PROVE  IInv'
  BY <1>4, EvidenceSteps
<1>5. CASE UNCHANGED vars
  <2> USE <1>5 DEF vars, tables, locals
  <2>1. TypeOK'
    BY DEF IInv, TypeOK
  <2>2. KnowInv'
    BY KnowQuiet
  <2> QED
    BY <2>1, <2>2, Quiet DEF IInv
<1> QED
  BY <1>1, <1>2, <1>3, <1>4, <1>5 DEF Next

(* What the stages, logs and rows say of each other holds in every          *)
(* reachable state: RemediationApplicationService and the UNIQUE key.       *)
THEOREM Invariance == Spec => []IInv
  BY InitInv, StepInv, PTL DEF Spec

-----------------------------------------------------------------------------
(* What follows                                                             *)

(* Every reachable state is well typed.                                     *)
THEOREM RemediationTyped == Spec => []TypeOK
<1>1. IInv => TypeOK
  BY DEF IInv
<1> QED
  BY <1>1, Invariance, PTL

LEMMA ApprovedState == IInv => NothingUnapproved
<1> SUFFICES ASSUME IInv, NEW r \in Reqs, log[r] # <<>>
             PROVE  /\ [plan |-> ask[r].plan, req |-> r] \in approvals
                    /\ ask[r].intact
                    /\ runs[ask[r].key] # Nil
                    /\ runs[ask[r].key].owner = r
                    /\ runs[ask[r].key].plan = ask[r].plan
  BY DEF NothingUnapproved
<1>1. ReqInv(r) /\ Knows(r) /\ pc[r] # "idle"
  BY DEF IInv, KnowInv, ReqInv, StageInv, Before
<1>2. runs[ask[r].key] # Nil /\ runs[ask[r].key].owner = r /\ ask[r].key \in Keys
  BY <1>1 DEF ReqInv, OwnInv, Knows, RequestType
<1>3. ask[r].plan = runs[ask[r].key].plan
  BY <1>2 DEF IInv, RunInv
<1> QED
  BY <1>1, <1>2, <1>3 DEF ReqInv, ApprovalInv

(* No step reaches the agent before the approval of exactly this content    *)
(* and the request's own run are in the database (approve_and_execute).     *)
THEOREM Approved == Spec => []NothingUnapproved
  BY Invariance, ApprovedState, PTL

LEMMA OnceState == IInv => OneExecutionPerKey
  BY DEF IInv, ReqInv, OwnInv, OneExecutionPerKey

(* Of all the requests under one idempotency key, in whatever processes and *)
(* after whatever crashes, one dispatches (UNIQUE idempotency_key).         *)
THEOREM OncePerKey == Spec => []OneExecutionPerKey
  BY Invariance, OnceState, PTL

LEMMA StandState == IInv => RepliesStand
  BY DEF IInv, ReqInv, ReplyInv, RepliesStand

(* Who was told how a run ended was told what the table says, for good.     *)
THEOREM AnswersStand == Spec => []RepliesStand
  BY Invariance, StandState, PTL

LEMMA RollbackState == IInv => RollbackIsComplete
<1> SUFFICES ASSUME IInv, NEW k \in Keys, runs[k] # Nil,
                    runs[k].status \in {"ROLLED_BACK", "FAILED"}, NEW r, r = runs[k].owner
             PROVE  /\ Undone(r) = Compensable(r)
                    /\ \A m, n \in DOMAIN log[r] : m < n /\ log[r][m].dir = "undo" =>
                           log[r][n].dir = "undo" /\ log[r][n].step < log[r][m].step
                    /\ runs[k].status = "ROLLED_BACK" <=>
                           Undone(r) # {} /\ \A e \in Logged(r, "undo") : e.ok
  BY DEF RollbackIsComplete
<1>1. r \in Reqs /\ LogInv(r) /\ Knows(r)
  BY DEF IInv, TypeOK, Run, ReqInv, KnowInv
<1>2. /\ pc[r] \in Late \cup {"done"} /\ ask[r].plan = runs[k].plan
      /\ Outcome(r) = runs[k].status /\ Earned(r)
  BY DEF IInv, RunInv, Final
<1>3. ask[r].plan \in Ids
  BY <1>1, <1>2 DEF Knows, RequestType, Late
<1>4. ~Succeeded(r)
  BY <1>2 DEF Outcome
<1>5. ToUndo(r) = {} /\ Undone(r) \subseteq Compensable(r)
  BY <1>1, <1>2, <1>3, <1>4, LoggedSteps DEF Earned
<1>6. Undone(r) = Compensable(r)
  BY <1>5 DEF ToUndo
<1>7. runs[k].status = "ROLLED_BACK" <=> Undone(r) # {} /\ \A e \in Logged(r, "undo") : e.ok
  BY <1>2, <1>4, <1>6 DEF Outcome
<1>8. \A m, n \in DOMAIN log[r] : m < n /\ log[r][m].dir = "undo" =>
        log[r][n].dir = "undo" /\ log[r][n].step < log[r][m].step
  <2>1. log[r] \in Seq(Entry)
    BY <1>1 DEF IInv, TypeOK
  <2>2. \A m, n \in DOMAIN log[r] : m < n => n > m
    BY <2>1
  <2> QED
    BY <1>1, <2>2 DEF LogInv
<1> QED
  BY <1>6, <1>7, <1>8

(* A run that ended without success has tried every undo there was, once    *)
(* and in reverse order, and is ROLLED_BACK just if there was one and all   *)
(* succeeded (_rollback).                                                   *)
THEOREM RollbacksComplete == Spec => []RollbackIsComplete
  BY Invariance, RollbackState, PTL

(* A run is SUCCEEDED only if the recovery of its plan was verified and     *)
(* every step was answered as a success and none undone.  That each step    *)
(* was really performed, the last clause of SuccessIsEarned, holds only of  *)
(* plans that do not repeat themselves, see SuccessesEarned.                *)
SuccessIsVerified ==
    \A k \in Keys : runs[k] # Nil /\ runs[k].status = "SUCCEEDED" =>
        LET r == runs[k].owner IN
        /\ healthy[r]
        /\ Completed(r) = DOMAIN Steps(runs[k].plan)
        /\ Undone(r) = {}

LEMMA SuccessState == IInv => SuccessIsVerified
<1> SUFFICES ASSUME IInv, NEW k \in Keys, runs[k] # Nil, runs[k].status = "SUCCEEDED",
                    NEW r, r = runs[k].owner
             PROVE  healthy[r] /\ Completed(r) = DOMAIN Steps(runs[k].plan) /\ Undone(r) = {}
  BY DEF SuccessIsVerified
<1>1. ask[r].plan = runs[k].plan /\ Outcome(r) = "SUCCEEDED" /\ Earned(r)
  BY DEF IInv, RunInv, Final
<1>2. Succeeded(r)
  BY <1>1 DEF Outcome
<1> QED
  BY <1>1, <1>2 DEF Earned, Succeeded

(* The outcome SUCCEEDED is the verified success of the whole plan.         *)
THEOREM SuccessesVerified == Spec => []SuccessIsVerified
  BY Invariance, SuccessState, PTL

-----------------------------------------------------------------------------
(* A success was earned step by step                                        *)
(*                                                                          *)
(* The agent knows a step by the hash of the plan, the action and the       *)
(* target, and refuses other arguments: it answers the second of two equal  *)
(* steps, or a step that an undo has already taken, from memory.  Where no  *)
(* plan repeats itself, the answer it repeats is one about the same step.   *)

(* No step of a stored plan repeats another one, nor an undo.               *)
StepsDiffer ==
    \A p \in Stored : \A i, j \in DOMAIN StoredSteps[p] :
        LET s == StoredSteps[p][i]
            t == StoredSteps[p][j] IN
        /\ s.action = t.action /\ s.target = t.target /\ s.args = t.args => i = j
        /\ t.undo # "none" =>
             ~(s.action = t.undo /\ s.target = t.target /\ s.args = t.undoArgs)

(* Step i of plan p was performed by a request for p.                       *)
Did(p, i) ==
    \E s \in Reqs : /\ ask[s] # Nil /\ ask[s].plan = p
                    /\ \E e \in Logged(s, "do") : e.step = i /\ e.performed

(* What was answered as a success was performed by somebody, and the agent  *)
(* has decided on steps and undos of plans, on steps that were performed.   *)
AnswerInv == \A r \in Reqs : \A e \in Logged(r, "do") : e.ok => Did(ask[r].plan, e.step)
DecidedInv ==
    \A d \in agent : \E p \in Ids : \E i \in DOMAIN Steps(p) :
        \/ /\ d.key = <<p, Steps(p)[i].action, Steps(p)[i].target>>
           /\ d.args = Steps(p)[i].args
           /\ Did(p, i)
        \/ /\ d.key = <<p, Steps(p)[i].undo, Steps(p)[i].target>>
           /\ d.args = Steps(p)[i].undoArgs
           /\ Steps(p)[i].undo # "none"
EarnInv == StepsDiffer /\ AnswerInv /\ DecidedInv

(* The plan that evaluate_signal makes does not repeat itself either.       *)
LEMMA NoStepTwice ==
    ASSUME StepsDiffer, NEW p \in Ids, NEW i \in DOMAIN Steps(p), NEW j \in DOMAIN Steps(p),
           Steps(p)[i].target = Steps(p)[j].target
    PROVE  /\ Steps(p)[i].action = Steps(p)[j].action /\ Steps(p)[i].args = Steps(p)[j].args
                => i = j
           /\ Steps(p)[j].undo # "none" =>
                ~(Steps(p)[i].action = Steps(p)[j].undo /\ Steps(p)[i].args = Steps(p)[j].undoArgs)
<1>1. CASE p \in Stored
  BY <1>1 DEF StepsDiffer, Steps
<1>2. CASE p \notin Stored
  <2>1. Steps(p) = DefaultSteps(Asset[p])
    BY <1>2 DEF Steps
  <2> DEFINE one == [action |-> "restart_container", target |-> Asset[p],
                     args |-> "grace_seconds=10", undo |-> "none", undoArgs |-> ""]
             two == [action |-> "health_check", target |-> Asset[p], args |-> "",
                     undo |-> "none", undoArgs |-> ""]
  <2>2. /\ DefaultSteps(Asset[p]) = <<one, two>>
        /\ one.action = "restart_container" /\ one.undo = "none"
        /\ two.action = "health_check" /\ two.undo = "none"
    BY DEF DefaultSteps
  <2> HIDE DEF one, two
  <2>3. i \in {1, 2} /\ j \in {1, 2} /\ Steps(p)[1] = one /\ Steps(p)[2] = two
    BY <2>1, <2>2
  <2> QED
    BY <2>2, <2>3
<1> QED
  BY <1>1, <1>2

(* What was performed stays so while requests keep what they ask and logs   *)
(* only grow.                                                               *)
LEMMA DidStays ==
    ASSUME NEW p, NEW i, Did(p, i),
           \A s \in Reqs : log[s] # <<>> => ask'[s] = ask[s],
           \A s \in Reqs : Logged(s, "do") \subseteq Logged(s, "do")'
    PROVE  Did(p, i)'
<1>1. PICK s \in Reqs : /\ ask[s] # Nil /\ ask[s].plan = p
                        /\ \E e \in Logged(s, "do") : e.step = i /\ e.performed
  BY DEF Did
<1>2. log[s] # <<>>
  BY <1>1 DEF Logged
<1>3. ask'[s] = ask[s]
  BY <1>2
<1>4. \E e \in Logged(s, "do")' : e.step = i /\ e.performed
  BY <1>1
<1> QED
  BY <1>1, <1>3, <1>4 DEF Did

(* A step in which nothing is dispatched.                                   *)
LEMMA EarnKept ==
    ASSUME EarnInv, log' = log, agent' \subseteq agent,
           \A s \in Reqs : log[s] # <<>> => ask'[s] = ask[s]
    PROVE  EarnInv'
<1>1. \A s \in Reqs : Logged(s, "do")' = Logged(s, "do")
  BY DEF Logged
<1>2. \A p, i : Did(p, i) => Did(p, i)'
  BY <1>1, DidStays
<1>3. AnswerInv'
  <2> SUFFICES ASSUME NEW r \in Reqs, NEW e \in Logged(r, "do"), e.ok
               PROVE  Did(ask[r].plan, e.step)'
    BY <1>1 DEF AnswerInv
  <2>1. Did(ask[r].plan, e.step)
    BY DEF EarnInv, AnswerInv
  <2>2. ask'[r] = ask[r]
    BY DEF Logged
  <2> QED
    BY <1>2, <2>1, <2>2
<1>4. DecidedInv'
  <2> SUFFICES ASSUME NEW d \in agent'
               PROVE  (\E p \in Ids : \E i \in DOMAIN Steps(p) :
                         \/ /\ d.key = <<p, Steps(p)[i].action, Steps(p)[i].target>>
                            /\ d.args = Steps(p)[i].args
                            /\ Did(p, i)
                         \/ /\ d.key = <<p, Steps(p)[i].undo, Steps(p)[i].target>>
                            /\ d.args = Steps(p)[i].undoArgs
                            /\ Steps(p)[i].undo # "none")'
    BY DEF DecidedInv
  <2>1. d \in agent
    OBVIOUS
  <2> QED
    BY <1>2, <2>1 DEF EarnInv, DecidedInv
<1> QED
  BY <1>3, <1>4 DEF EarnInv

(* A forward step is dispatched: it is performed, or was, by the request    *)
(* whose answer the agent repeats.                                          *)
LEMMA PerformEarns ==
    ASSUME IInv, EarnInv, NEW r \in Reqs, NEW ok \in BOOLEAN, NEW performed \in BOOLEAN,
           Perform(r, ok, performed)
    PROVE  EarnInv'
<1>1. PICK p, i, s : p = ask[r].plan /\ i = Len(log[r]) + 1 /\ s = Steps(p)[i]
  OBVIOUS
<1>2. PICK e : e = [dir |-> "do", step |-> i, ok |-> ok, performed |-> performed]
  OBVIOUS
<1>3. /\ pc[r] = "steps" /\ ask' = ask /\ log' = [log EXCEPT ![r] = Append(@, e)]
      /\ Dispatch(p, s.action, s.target, s.args, ok, performed)
  BY <1>1, <1>2 DEF Perform, Record
<1>4. log \in [Reqs -> Seq(Entry)] /\ Len(log[r]) \in Nat
  BY DEF IInv, TypeOK
<1>5. p \in Ids /\ ask[r] # Nil
  <2>1. ask[r] \in RequestType /\ p \in Ids
    BY <1>1, <1>3, LateRow DEF Late, IInv, KnowInv, Knows
  <2> QED
    BY <2>1, NilAssumption
<1>6. i \in DOMAIN Steps(p)
  BY <1>1, <1>3, <1>4, <1>5, StepsType DEF IInv, ReqInv, StageInv
<1>7. e \in Entry
  BY <1>1, <1>2, <1>4 DEF Entry
<1>8. e.dir = "do" /\ e.step = i /\ e.ok = ok /\ e.performed = performed
  BY <1>2
<1>9. Logged(r, "do")' = Logged(r, "do") \cup {e}
  BY <1>3, <1>4, <1>7, <1>8, LoggedGrows
<1>10. \A q \in Reqs : q # r => Logged(q, "do")' = Logged(q, "do")
  BY <1>3, <1>4 DEF Logged
<1>11. \A a, b : Did(a, b) => Did(a, b)'
  <2>1. \A q \in Reqs : Logged(q, "do") \subseteq Logged(q, "do")'
    BY <1>9, <1>10
  <2> QED
    BY <1>3, <2>1, DidStays
<1>12. performed => Did(p, i)'
  BY <1>1, <1>3, <1>5, <1>8, <1>9 DEF Did
<1>13. ok => Did(p, i)'
  <2> SUFFICES ASSUME ok, ~performed PROVE Did(p, i)'
    BY <1>12
  <2>1. [key |-> <<p, s.action, s.target>>, args |-> s.args, ok |-> TRUE] \in agent
    BY <1>3 DEF Dispatch
  <2>2. PICK a \in Ids : \E j \in DOMAIN Steps(a) :
          \/ /\ <<p, s.action, s.target>> = <<a, Steps(a)[j].action, Steps(a)[j].target>>
             /\ s.args = Steps(a)[j].args
             /\ Did(a, j)
          \/ /\ <<p, s.action, s.target>> = <<a, Steps(a)[j].undo, Steps(a)[j].target>>
             /\ s.args = Steps(a)[j].undoArgs
             /\ Steps(a)[j].undo # "none"
    BY <2>1 DEF EarnInv, DecidedInv
  <2>3. PICK j \in DOMAIN Steps(a) :
          \/ /\ <<p, s.action, s.target>> = <<a, Steps(a)[j].action, Steps(a)[j].target>>
             /\ s.args = Steps(a)[j].args
             /\ Did(a, j)
          \/ /\ <<p, s.action, s.target>> = <<a, Steps(a)[j].undo, Steps(a)[j].target>>
             /\ s.args = Steps(a)[j].undoArgs
             /\ Steps(a)[j].undo # "none"
    BY <2>2
  <2>4. a = p /\ s.target = Steps(p)[j].target
    BY <2>3
  <2>5. /\ s.action = Steps(p)[j].action /\ s.args = Steps(p)[j].args => i = j
        /\ Steps(p)[j].undo # "none" =>
             ~(s.action = Steps(p)[j].undo /\ s.args = Steps(p)[j].undoArgs)
    BY <1>1, <1>5, <1>6, <2>3, <2>4, NoStepTwice DEF EarnInv
  <2>6. Did(p, i)
    BY <2>3, <2>4, <2>5
  <2> QED
    BY <1>11, <2>6
<1>14. AnswerInv'
  <2> SUFFICES ASSUME NEW q \in Reqs, NEW d \in Logged(q, "do")', d.ok
               PROVE  Did(ask[q].plan, d.step)'
    BY DEF AnswerInv
  <2>1. CASE d \in Logged(q, "do")
    BY <1>3, <1>11, <2>1 DEF EarnInv, AnswerInv
  <2>2. CASE q = r /\ d = e
    BY <1>1, <1>3, <1>8, <1>13, <2>2
  <2> QED
    BY <1>9, <1>10, <2>1, <2>2
<1>15. DecidedInv'
  <2> SUFFICES ASSUME NEW d \in agent'
               PROVE  (\E a \in Ids : \E j \in DOMAIN Steps(a) :
                         \/ /\ d.key = <<a, Steps(a)[j].action, Steps(a)[j].target>>
                            /\ d.args = Steps(a)[j].args
                            /\ Did(a, j)
                         \/ /\ d.key = <<a, Steps(a)[j].undo, Steps(a)[j].target>>
                            /\ d.args = Steps(a)[j].undoArgs
                            /\ Steps(a)[j].undo # "none")'
    BY DEF DecidedInv
  <2>1. CASE d \in agent
    BY <1>11, <2>1 DEF EarnInv, DecidedInv
  <2>2. CASE d \notin agent
    <3>1. performed /\ d.key = <<p, s.action, s.target>> /\ d.args = s.args
      BY <1>3, <2>2 DEF Dispatch
    <3> QED
      BY <1>1, <1>5, <1>6, <1>12, <3>1
  <2> QED
    BY <2>1, <2>2
<1> QED
  BY <1>14, <1>15 DEF EarnInv

(* A step is taken back: the agent has decided on an undo of the plan.      *)
LEMMA UndoEarns ==
    ASSUME IInv, EarnInv, NEW r \in Reqs, NEW ok \in BOOLEAN, NEW performed \in BOOLEAN,
           Undo(r, ok, performed)
    PROVE  EarnInv'
<1>1. PICK i \in ToUndo(r) :
        /\ Dispatch(ask[r].plan, Steps(ask[r].plan)[i].undo, Steps(ask[r].plan)[i].target,
                    Steps(ask[r].plan)[i].undoArgs, ok, performed)
        /\ Record(r, "undo", i, ok, performed)
  BY DEF Undo, NextToUndo
<1>2. PICK p, s, e : p = ask[r].plan /\ s = Steps(p)[i]
                     /\ e = [dir |-> "undo", step |-> i, ok |-> ok, performed |-> performed]
  OBVIOUS
<1>3. pc[r] = "undo" /\ ask' = ask /\ log' = [log EXCEPT ![r] = Append(@, e)]
  BY <1>1, <1>2 DEF Undo, Record
<1>4. log \in [Reqs -> Seq(Entry)] /\ LogInv(r)
  BY DEF IInv, TypeOK, ReqInv
<1>5. p \in Ids
  BY <1>2, <1>3, LateRow DEF Late
<1>6. i \in DOMAIN Steps(p) /\ i \in Nat /\ s.undo # "none"
  BY <1>1, <1>2, <1>4, <1>5, LoggedSteps DEF ToUndo, Compensable
<1>7. e \in Entry /\ e.dir = "undo"
  BY <1>2, <1>6 DEF Entry
<1>8. \A q \in Reqs : Logged(q, "do")' = Logged(q, "do")
  <2>1. Logged(r, "do")' = Logged(r, "do")
    BY <1>3, <1>4, <1>7, LoggedGrows
  <2>2. \A q \in Reqs : q # r => Logged(q, "do")' = Logged(q, "do")
    BY <1>3, <1>4 DEF Logged
  <2> QED
    BY <2>1, <2>2
<1>9. \A a, b : Did(a, b) => Did(a, b)'
  BY <1>3, <1>8, DidStays
<1>10. AnswerInv'
  BY <1>3, <1>8, <1>9 DEF EarnInv, AnswerInv
<1>11. DecidedInv'
  <2> SUFFICES ASSUME NEW d \in agent'
               PROVE  (\E a \in Ids : \E j \in DOMAIN Steps(a) :
                         \/ /\ d.key = <<a, Steps(a)[j].action, Steps(a)[j].target>>
                            /\ d.args = Steps(a)[j].args
                            /\ Did(a, j)
                         \/ /\ d.key = <<a, Steps(a)[j].undo, Steps(a)[j].target>>
                            /\ d.args = Steps(a)[j].undoArgs
                            /\ Steps(a)[j].undo # "none")'
    BY DEF DecidedInv
  <2>1. CASE d \in agent
    BY <1>9, <2>1 DEF EarnInv, DecidedInv
  <2>2. CASE d \notin agent
    <3>1. d.key = <<p, s.undo, s.target>> /\ d.args = s.undoArgs
      BY <1>1, <1>2, <2>2 DEF Dispatch
    <3> QED
      BY <1>2, <1>5, <1>6, <3>1
  <2> QED
    BY <2>1, <2>2
<1> QED
  BY <1>10, <1>11 DEF EarnInv

(* Every step.                                                              *)
LEMMA EarnStep == IInv /\ EarnInv /\ [Next]_vars => EarnInv'
<1> SUFFICES ASSUME IInv, EarnInv, [Next]_vars PROVE EarnInv'
  OBVIOUS
<1> USE DEF tables, locals
<1>1. CASE Tick \/ Forget \/ (\E x \in Actors : Raise(x)) \/ \E h \in Procs : Crash(h)
  <2>1. log' = log /\ ask' = ask /\ agent' \subseteq agent
    BY <1>1 DEF Tick, Forget, Raise, Crash
  <2> QED
    BY <2>1, EarnKept
<1>2. ASSUME NEW r \in Reqs, NEW h \in Procs, NEW q \in Requests, Route(r, h, q) PROVE EarnInv'
  <2>1. log[r] = <<>>
    BY <1>2 DEF Route, IInv, ReqInv, StageInv, Before
  <2>2. ask' = [ask EXCEPT ![r] = q] /\ log' = log /\ agent' = agent
    BY <1>2 DEF Route
  <2>3. \A s \in Reqs : log[s] # <<>> => ask'[s] = ask[s]
    BY <2>1, <2>2 DEF IInv, TypeOK
  <2> QED
    BY <2>2, <2>3, EarnKept
<1>3. ASSUME NEW r \in Reqs, ApprovalStep(r) PROVE EarnInv'
  <2>1. ASSUME NEW ok \in BOOLEAN, NEW performed \in BOOLEAN,
               Perform(r, ok, performed) \/ Undo(r, ok, performed)
        PROVE  EarnInv'
    BY <2>1, PerformEarns, UndoEarns
  <2>2. CASE \/ LookUp(r) \/ LoadPlan(r) \/ LoadIncident(r) \/ Expire(r) \/ Approve(r)
             \/ MarkPlan(r) \/ MarkIncident(r) \/ InsertRun(r) \/ MarkExecuting(r)
             \/ (\E ok \in BOOLEAN : Verify(r, ok))
             \/ SaveRun(r) \/ SavePlanEnd(r) \/ SaveIncidentEnd(r)
    <3>1. log' = log /\ ask' = ask /\ agent' = agent
      BY <2>2 DEF LookUp, LoadPlan, LoadIncident, Expire, Approve, MarkPlan, MarkIncident,
             InsertRun, MarkExecuting, Verify, SaveRun, SavePlanEnd, SaveIncidentEnd
    <3> QED
      BY <3>1, EarnKept
  <2> QED
    BY <1>3, <2>1, <2>2 DEF ApprovalStep
<1>4. CASE \/ \E s \in Signals : SignalStep(s) \/ \E h \in Procs : Detect(s, h)
           \/ \E c \in Collectors : Attach(c) \/ \E h \in Procs, i \in Ids : Collect(c, h, i)
  <2>1. log' = log /\ ask' = ask /\ agent' = agent
    BY <1>4 DEF SignalStep, Merge, Open, Propose, Detect, Attach, Collect
  <2> QED
    BY <2>1, EarnKept
<1>5. CASE UNCHANGED vars
  <2>1. log' = log /\ ask' = ask /\ agent' = agent
    BY <1>5 DEF vars
  <2> QED
    BY <2>1, EarnKept
<1> QED
  BY <1>1, <1>2, <1>3, <1>4, <1>5 DEF Next

(* Of plans that do not repeat themselves a run is SUCCEEDED only if every  *)
(* step was performed, by this request or by the one whose answer the agent *)
(* repeated, and recovery was verified (approve_and_execute).               *)
THEOREM SuccessesEarned == StepsDiffer => (Spec => []SuccessIsEarned)
<1>1. Init /\ StepsDiffer => EarnInv
  BY DEF Init, EarnInv, AnswerInv, DecidedInv, Logged
<1>2. IInv /\ EarnInv => SuccessIsEarned
  <2> SUFFICES ASSUME IInv, EarnInv, NEW k \in Keys, runs[k] # Nil,
                      runs[k].status = "SUCCEEDED", NEW r, r = runs[k].owner
               PROVE  /\ healthy[r]
                      /\ Completed(r) = DOMAIN Steps(runs[k].plan)
                      /\ Undone(r) = {}
                      /\ \A i \in DOMAIN Steps(runs[k].plan) : Did(runs[k].plan, i)
    BY DEF SuccessIsEarned, Did
  <2>1. healthy[r] /\ Completed(r) = DOMAIN Steps(runs[k].plan) /\ Undone(r) = {}
    BY SuccessState DEF SuccessIsVerified
  <2>2. r \in Reqs /\ ask[r].plan = runs[k].plan
    BY DEF IInv, TypeOK, Run, RunInv
  <2>3. \A i \in Completed(r) : Did(ask[r].plan, i)
    BY <2>2 DEF Completed, EarnInv, AnswerInv
  <2> QED
    BY <2>1, <2>2, <2>3
<1> QED
  BY <1>1, <1>2, EarnStep, Invariance, PTL DEF Spec

-----------------------------------------------------------------------------
(* One process                                                              *)
(*                                                                          *)
(* Signals and approvals of one process take turns: whoever is in flight    *)
(* has the event loop, and the copy it holds is what the database says but  *)
(* for what it is about to save and what evidence threads save meanwhile.   *)
(* Such a thread leaves a mark: its evidence, which nobody can have seen    *)
(* before, and the status it puts back.                                     *)

OneProcess == \A g, h \in Procs : g = h

Loop == Reqs \cup Signals

(* One at a time; who was told of a failure is done.                        *)
TurnInv ==
    /\ \A x \in Loop : InFlight(x) => at[x] \in Procs
    /\ \A x, y \in Loop : InFlight(x) /\ InFlight(y) => x = y
    /\ \A x \in Loop : reply[x] \in {"error", "lost"} => pc[x] = "done"

(* Rows come in order: incident, plan, run.                                 *)
RowsInv ==
    /\ \A s \in Signals :
         /\ pc[s] \in {"idle", "merge", "open"} => incidents[s] = Nil
         /\ pc[s] \in {"idle", "merge", "open", "propose"} => plans[s] = Nil
         /\ pc[s] = "propose" => copy[s].id = s /\ copy[s].status = "WAITING_APPROVAL"
    /\ \A x \in Actors : pc[x] \in Holding => incidents[copy[x].id] # Nil
    /\ \A c \in Collectors :
         (pc[c] = "idle" => copy[c] = NoCopy) /\ (reply[c] = "attached" => pc[c] = "done")
    /\ \A k \in Keys : runs[k] # Nil =>
         plans[runs[k].plan] # Nil /\ plans[runs[k].plan].status # "PENDING_APPROVAL"

NoRun(p) == \A k \in Keys : runs[k] # Nil => runs[k].plan # p

(* The plan an approval holds is the row, with the status of its stage.     *)
PlanInv(r) ==
    /\ pc[r] \in Loaded => draft[r] = plans[ask[r].plan]
    /\ pc[r] \in Holding => copy[r].id = ask[r].plan
    /\ pc[r] \in {"expire", "approve", "mark_plan"} => draft[r].status = "PENDING_APPROVAL"
    /\ pc[r] \in {"mark_incident", "insert_run"} =>
         draft[r].status = "APPROVED" /\ NoRun(ask[r].plan)
    /\ pc[r] = "save_incident" =>
         draft[r].status = IF Succeeded(r) THEN "SUCCEEDED" ELSE "FAILED"

(* What is lost of the evidence is nothing, or some of a thread is.         *)
Excused(before, after) ==
    before \ after = {} \/ (before \ after) \cap Collectors # {}

(* So is the incident, but for what evidence threads saved meanwhile.       *)
HeldInv(x) ==
    \A p \in Ids : pc[x] \in Holding /\ copy[x].id = p =>
        /\ Excused(incidents[p].evidence, copy[x].evidence)
        /\ pc[x] = "propose" => incidents[p].status \in {"WAITING_APPROVAL"} \cup PutBack(p)
        /\ pc[x] = "merge" /\ plans[p] # Nil /\ ~Broken(p) =>
             copy[x].status \in Fitting(p) \cup PutBack(p)

Changing == {"mark_incident", "insert_run"} \cup Late

(* Plan, incident and run tell the same story but between the second save   *)
(* of an approval and the last.                                             *)
StoryInv(p) ==
    /\ plans[p] # Nil /\ ~Broken(p)
    /\ \A r \in Reqs : pc[r] \in Changing => ask[r].plan # p
    => Fitting(p) # {} /\ incidents[p].status \in Fitting(p) \cup PutBack(p)

SyncInv ==
    /\ OneProcess
    /\ TurnInv
    /\ RowsInv
    /\ OneRunPerPlan
    /\ \A r \in Reqs : PlanInv(r)
    /\ \A x \in Loop : HeldInv(x)
    /\ \A p \in Ids : StoryInv(p)

(* A step of x, which has the event loop.                                   *)
Turn(x) ==
    /\ pc[x] # "done"
    /\ \A y \in Loop : y # x => pc[y] \in {"idle", "done"}
    /\ \A y \in Actors : y # x => pc'[y] = pc[y] /\ reply'[y] = reply[y] /\ copy'[y] = copy[y]
    /\ \A q \in Reqs : q # x \/ pc[x] # "idle" => ask'[q] = ask[q]
    /\ \A q \in Reqs : q # x => draft'[q] = draft[q]
    /\ TurnInv'

LEMMA TurnGoes ==
    ASSUME IInv, SyncInv, NEW x \in Loop, InFlight(x),
           \/ \E stage : Goto(x, stage) /\ reply' = reply
           \/ \E answer : Finish(x, answer),
           \A y \in Actors : y # x => copy'[y] = copy[y],
           at' = at, ask' = ask,
           \A q \in Reqs : q # x => draft'[q] = draft[q]
    PROVE  Turn(x)
<1>1. x \in Actors /\ pc \in [Actors -> Stages] /\ reply \in [Actors -> Replies]
      /\ Loop \subseteq Actors
  BY DEF Loop, Actors, IInv, TypeOK
<1>2. TurnInv
  BY DEF SyncInv
<1>3. \A y \in Loop : y # x => pc[y] \in {"idle", "done"}
  BY <1>2 DEF TurnInv, InFlight
<1>4. \A y \in Actors : y # x => pc'[y] = pc[y] /\ reply'[y] = reply[y]
  BY <1>1 DEF Goto, Finish
<1>5. reply'[x] \in {"error", "lost"} => pc'[x] = "done"
  <2>1. pc[x] # "done"
    BY DEF InFlight
  <2>2. reply[x] \notin {"error", "lost"}
    BY <1>2, <2>1 DEF TurnInv
  <2> QED
    BY <1>1, <2>2 DEF Goto, Finish
<1>6. TurnInv'
  <2>1. \A y \in Loop : InFlight(y)' => y = x
    BY <1>1, <1>3, <1>4 DEF InFlight
  <2> QED
    BY <1>1, <1>2, <1>4, <1>5, <2>1 DEF TurnInv, InFlight
<1> QED
  BY <1>3, <1>4, <1>6 DEF Turn, InFlight

(* Whoever comes finds the loop free, and takes it.                         *)
LEMMA TurnStarts ==
    ASSUME IInv, SyncInv, NEW x \in Loop, pc[x] = "idle", NEW h \in Procs, Free(h),
           \/ \E stage : Goto(x, stage) /\ reply' = reply
           \/ \E answer : Finish(x, answer),
           \A y \in Actors : y # x => copy'[y] = copy[y],
           at' = [at EXCEPT ![x] = h],
           \A q \in Reqs : q # x => ask'[q] = ask[q],
           draft' = draft
    PROVE  Turn(x)
<1>1. x \in Actors /\ pc \in [Actors -> Stages] /\ reply \in [Actors -> Replies]
      /\ Loop \subseteq Actors /\ at \in [Actors -> Procs \cup {Nil}]
  BY DEF Loop, Actors, IInv, TypeOK
<1>2. TurnInv /\ OneProcess
  BY DEF SyncInv
<1>3. \A y \in Loop : ~InFlight(y)
  BY <1>2 DEF TurnInv, Free, OneProcess, Loop
<1>4. \A y \in Actors : y # x => pc'[y] = pc[y] /\ reply'[y] = reply[y]
  BY <1>1 DEF Goto, Finish
<1>5. reply'[x] \in {"error", "lost"} => pc'[x] = "done"
  BY <1>1, <1>2 DEF Goto, Finish, TurnInv
<1>6. TurnInv'
  <2>1. \A y \in Loop : InFlight(y)' => y = x
    BY <1>1, <1>3, <1>4 DEF InFlight
  <2>2. at'[x] = h
    BY <1>1
  <2> QED
    BY <1>1, <1>2, <1>4, <1>5, <2>1, <2>2 DEF TurnInv, InFlight
<1> QED
  BY <1>3, <1>4, <1>6 DEF Turn, InFlight

(* What a turn leaves alone.                                                *)
LEMMA TurnFrame ==
    ASSUME IInv, SyncInv, NEW x \in Loop, Turn(x)
    PROVE  /\ \A p \in Ids : PutBack(p)' = PutBack(p) /\ (Broken(p) => Broken(p)')
           /\ \A r \in Reqs : r # x => PlanInv(r)'
           /\ \A y \in Loop : y # x => HeldInv(y)'
           /\ \A c \in Collectors :
                (pc'[c] = "idle" => copy'[c] = NoCopy) /\ (reply'[c] = "attached" => pc'[c] = "done")
           /\ \A r \in Reqs : r # x => pc'[r] \notin Changing /\ pc[r] \notin Changing
<1>1. Loop \subseteq Actors /\ x \notin Collectors /\ Collectors \subseteq Actors
      /\ Reqs \subseteq Loop /\ Signals \subseteq Loop
  BY NilAssumption DEF Loop, Actors
<1>2. \A y \in Loop : y # x => pc'[y] \in {"idle", "done"}
  BY <1>1 DEF Turn
<1>3. \A p \in Ids : PutBack(p)' = PutBack(p)
  <2>1. \A c \in Collectors : copy'[c] = copy[c] /\ reply'[c] = reply[c]
    BY <1>1 DEF Turn
  <2> QED
    BY <2>1 DEF PutBack
<1>4. \A y \in Loop : reply[y] \in {"error", "lost"} => y # x /\ reply'[y] = reply[y]
  BY <1>1 DEF Turn, SyncInv, TurnInv
<1>5. ASSUME NEW p \in Ids, Broken(p) PROVE Broken(p)'
  <2>1. \A r \in Reqs : reply[r] \in {"error", "lost"} => ask'[r] = ask[r] /\ reply'[r] = reply[r]
    BY <1>1, <1>4 DEF Turn
  <2>2. p \in Signals /\ reply[p] \in {"error", "lost"} => reply'[p] = reply[p]
    BY <1>1, <1>4
  <2> QED
    BY <1>5, <2>1, <2>2 DEF Broken
<1>6. \A r \in Reqs : r # x => PlanInv(r)'
  BY <1>1, <1>2 DEF PlanInv, Loaded, Holding, Approving, Late
<1>7. \A y \in Loop : y # x => HeldInv(y)'
  BY <1>2 DEF HeldInv, Holding, Approving, Late
<1>8. \A c \in Collectors :
        (pc'[c] = "idle" => copy'[c] = NoCopy) /\ (reply'[c] = "attached" => pc'[c] = "done")
  BY <1>1 DEF Turn, SyncInv, RowsInv
<1>9. \A r \in Reqs : r # x => pc'[r] \notin Changing /\ pc[r] \notin Changing
  BY <1>1, <1>2 DEF Turn, Changing, Late
<1> QED
  BY <1>3, <1>5, <1>6, <1>7, <1>8, <1>9

(* What is to be shown of a turn of x besides.                              *)
LEMMA TurnEnds ==
    ASSUME IInv, SyncInv, NEW x \in Loop, Turn(x),
           \A i \in Ids : incidents[i] # Nil => incidents'[i] # Nil,
           \A s \in Signals : s # x =>
             /\ incidents[s] = Nil => incidents'[s] = Nil
             /\ plans[s] = Nil => plans'[s] = Nil,
           x \in Signals =>
             /\ pc'[x] \in {"idle", "merge", "open"} => incidents'[x] = Nil
             /\ pc'[x] \in {"idle", "merge", "open", "propose"} => plans'[x] = Nil
             /\ pc'[x] = "propose" => copy'[x].id = x /\ copy'[x].status = "WAITING_APPROVAL",
           pc'[x] \in Holding => incidents'[copy'[x].id] # Nil,
           \A k \in Keys : runs'[k] # Nil =>
             plans'[runs'[k].plan] # Nil /\ plans'[runs'[k].plan].status # "PENDING_APPROVAL",
           OneRunPerPlan',
           x \in Reqs => PlanInv(x)',
           HeldInv(x)',
           \A p \in Ids : StoryInv(p)'
    PROVE  SyncInv'
<1>1. Loop \subseteq Actors /\ Signals \subseteq Loop /\ Collectors \subseteq Actors
  BY DEF Loop, Actors
<1>2. RowsInv
  BY DEF SyncInv
<1>3. \A s \in Signals : s # x => pc'[s] = pc[s] /\ copy'[s] = copy[s]
  BY <1>1 DEF Turn
<1>4. \A s \in Signals : s # x =>
         /\ pc'[s] \in {"idle", "merge", "open"} => incidents'[s] = Nil
         /\ pc'[s] \in {"idle", "merge", "open", "propose"} => plans'[s] = Nil
         /\ pc'[s] = "propose" => copy'[s].id = s /\ copy'[s].status = "WAITING_APPROVAL"
  BY <1>2, <1>3 DEF RowsInv
<1>5. ASSUME NEW y \in Actors, y # x, pc'[y] \in Holding PROVE incidents'[copy'[y].id] # Nil
  <2>1. pc'[y] = pc[y] /\ copy'[y] = copy[y]
    BY <1>5 DEF Turn
  <2>2. copy[y].id \in Ids
    BY <1>5, <2>1 DEF IInv, KnowInv, Holds, Held
  <2>3. incidents[copy[y].id] # Nil
    BY <1>2, <1>5, <2>1 DEF RowsInv
  <2> QED
    BY <2>1, <2>2, <2>3
<1>6. \A c \in Collectors :
        (pc'[c] = "idle" => copy'[c] = NoCopy) /\ (reply'[c] = "attached" => pc'[c] = "done")
  BY TurnFrame
<1>7. RowsInv'
  BY <1>4, <1>5, <1>6 DEF RowsInv
<1>8. (\A r \in Reqs : PlanInv(r)') /\ (\A y \in Loop : HeldInv(y)')
  BY TurnFrame
<1>9. OneProcess' /\ TurnInv'
  BY DEF SyncInv, OneProcess, Turn
<1> QED
  BY <1>7, <1>8, <1>9 DEF SyncInv

(* What fits a plan fits it as long as the plan and its runs stay.          *)
LEMMA FittingKept ==
    ASSUME NEW p \in Ids, plans'[p] = plans[p],
           \A k \in Keys : \/ runs'[k] = runs[k]
                           \/ /\ runs[k] = Nil \/ runs[k].plan # p
                              /\ runs'[k] = Nil \/ runs'[k].plan # p
    PROVE  Fitting(p)' = Fitting(p)
<1>1. {k \in Keys : runs'[k] # Nil /\ runs'[k].plan = p}
        = {k \in Keys : runs[k] # Nil /\ runs[k].plan = p}
  OBVIOUS
<1>2. \A k \in {k \in Keys : runs[k] # Nil /\ runs[k].plan = p} : runs'[k] = runs[k]
  OBVIOUS
<1>3. Outcomes(p)' = Outcomes(p)
  BY <1>1, <1>2 DEF Outcomes
<1> QED
  BY <1>3 DEF Fitting, InStep

(* A story that goes on.                                                    *)
LEMMA StoryKept ==
    ASSUME NEW p \in Ids, StoryInv(p), plans'[p] = plans[p],
           \A k \in Keys : \/ runs'[k] = runs[k]
                           \/ /\ runs[k] = Nil \/ runs[k].plan # p
                              /\ runs'[k] = Nil \/ runs'[k].plan # p,
           plans[p] # Nil /\ ~Broken(p) =>
             incidents'[p].status \in {incidents[p].status} \cup Fitting(p) \cup PutBack(p)',
           Broken(p) => Broken(p)', PutBack(p) \subseteq PutBack(p)',
           \A r \in Reqs : pc[r] \in Changing /\ ask[r].plan = p =>
             (pc'[r] \in Changing /\ ask'[r].plan = p) \/ Broken(p)'
    PROVE  StoryInv(p)'
<1>1. Fitting(p)' = Fitting(p)
  BY FittingKept
<1>2. CASE ~Broken(p)' /\ plans'[p] # Nil
           /\ \A r \in Reqs : pc'[r] \in Changing => ask'[r].plan # p
  <2>1. \A r \in Reqs : pc[r] \in Changing => ask[r].plan # p
    BY <1>2
  <2>2. Fitting(p) # {} /\ incidents[p].status \in Fitting(p) \cup PutBack(p)
    BY <1>2, <2>1 DEF StoryInv
  <2> QED
    BY <1>1, <1>2, <2>2 DEF StoryInv
<1> QED
  BY <1>2 DEF StoryInv

(* A turn of which no table takes notice.                                   *)
LEMMA SilentTurn ==
    ASSUME IInv, SyncInv, NEW x \in Loop, Turn(x),
           incidents' = incidents, plans' = plans, runs' = runs,
           x \in Signals => pc[x] = "idle" /\ pc'[x] # "propose",
           pc'[x] \in Holding => incidents[copy'[x].id] # Nil,
           x \in Reqs => PlanInv(x)',
           HeldInv(x)',
           x \in Reqs /\ pc[x] \in Changing => pc'[x] \in Changing \/ reply'[x] = "error"
    PROVE  SyncInv'
<1>1. RowsInv /\ OneRunPerPlan
  BY DEF SyncInv
<1>2. OneRunPerPlan'
  BY <1>1 DEF OneRunPerPlan
<1>3. ASSUME NEW p \in Ids PROVE StoryInv(p)'
  <2>1. /\ PutBack(p)' = PutBack(p) /\ (Broken(p) => Broken(p)')
        /\ \A r \in Reqs : r # x => pc[r] \notin Changing
    BY TurnFrame
  <2>2. ASSUME NEW r \in Reqs, pc[r] \in Changing, ask[r].plan = p
        PROVE  (pc'[r] \in Changing /\ ask'[r].plan = p) \/ Broken(p)'
    <3>1. r = x
      BY <2>1, <2>2
    <3>2. ask'[r] = ask[r] /\ ask[r] # Nil
      <4>1. r \in Actors /\ pc[r] # "idle"
        BY <2>2 DEF Changing, Late, Actors
      <4>2. ask[r] \in RequestType
        BY <4>1 DEF IInv, KnowInv, Knows
      <4> QED
        BY <3>1, <4>1, <4>2, NilAssumption DEF Turn
    <3> QED
      BY <2>2, <3>1, <3>2 DEF Broken
  <2> QED
    BY <2>1, <2>2, StoryKept DEF SyncInv
<1>4. x \in Signals => incidents[x] = Nil /\ plans[x] = Nil
  BY <1>1 DEF RowsInv
<1> QED
  BY <1>1, <1>2, <1>3, <1>4, TurnEnds DEF RowsInv

-----------------------------------------------------------------------------
(* Signals take their turn                                                  *)

LEMMA SaveIs ==
    ASSUME TypeOK, NEW c \in Held, SaveIncident(c)
    PROVE  /\ incidents'[c.id] # Nil
           /\ incidents'[c.id].status = c.status /\ incidents'[c.id].evidence = c.evidence
           /\ \A i \in Ids : i # c.id => incidents'[i] = incidents[i]
<1>1. c.id \in Ids /\ Fields(c) \in Incident
  BY DEF Held, Fields, Incident
<1>2. incidents'[c.id] = Fields(c) /\ \A i \in Ids : i # c.id => incidents'[i] = incidents[i]
  BY <1>1 DEF SaveIncident, TypeOK
<1> QED
  BY <1>1, <1>2, NilAssumption DEF Fields

(* The copy that Read takes says what the row says.                         *)
LEMMA ReadIs ==
    ASSUME TypeOK, NEW x \in Actors, NEW i \in Ids, Read(x, i)
    PROVE  copy'[x].id = i /\ copy'[x].status = incidents[i].status
           /\ copy'[x].evidence = incidents[i].evidence
<1> DEFINE c == [id |-> i, status |-> incidents[i].status, updated |-> incidents[i].updated,
                 evidence |-> incidents[i].evidence]
<1>1. c.id = i /\ c.status = incidents[i].status /\ c.evidence = incidents[i].evidence
  OBVIOUS
<1>2. copy' = [copy EXCEPT ![x] = c]
  BY DEF Read
<1> HIDE DEF c
<1> QED
  BY <1>1, <1>2 DEF TypeOK

LEMMA DetectSync ==
    ASSUME IInv, SyncInv, NEW s \in Signals, NEW h \in Procs, Detect(s, h)
    PROVE  SyncInv'
<1> USE DEF tables
<1>1. s \in Loop /\ s \in Actors /\ TypeOK /\ s \notin Reqs
  BY NilAssumption DEF Loop, Actors, IInv
<1>2. /\ pc[s] = "idle" /\ Free(h) /\ at' = [at EXCEPT ![s] = h]
      /\ UNCHANGED <<incidents, plans, runs, ask, draft, reply>>
  BY DEF Detect
<1>3. CASE \E i \in Latest(Matches(s)) : Read(s, i) /\ Goto(s, "merge")
  <2>1. PICK i \in Latest(Matches(s)) : Read(s, i) /\ Goto(s, "merge")
    BY <1>3
  <2>2. i \in Ids /\ incidents[i] # Nil
    BY DEF Latest, Matches
  <2>3. /\ copy'[s].id = i /\ copy'[s].status = incidents[i].status
        /\ copy'[s].evidence = incidents[i].evidence
        /\ \A y \in Actors : y # s => copy'[y] = copy[y]
    BY <1>1, <2>1, <2>2, ReadIs, ReadType
  <2>4. Turn(s)
    BY <1>1, <1>2, <2>1, <2>3, TurnStarts
  <2>5. pc'[s] = "merge"
    BY <1>1, <2>1 DEF Goto, TypeOK
  <2>6. /\ PutBack(i)' = PutBack(i) /\ (Broken(i) => Broken(i)') /\ Fitting(i)' = Fitting(i)
        /\ \A r \in Reqs : pc[r] \notin Changing
    BY <1>1, <1>2, <2>2, <2>4, TurnFrame, FittingKept
  <2>7. plans'[i] # Nil /\ ~Broken(i)' => copy'[s].status \in Fitting(i)' \cup PutBack(i)'
    BY <1>2, <2>2, <2>3, <2>6 DEF SyncInv, StoryInv
  <2>8. HeldInv(s)'
    BY <1>2, <2>3, <2>5, <2>7 DEF HeldInv, Excused
  <2> QED
    BY <1>1, <1>2, <2>2, <2>3, <2>4, <2>5, <2>8, SilentTurn
<1>4. CASE Goto(s, "open") /\ UNCHANGED copy
  <2>1. Turn(s)
    BY <1>1, <1>2, <1>4, TurnStarts
  <2>2. pc'[s] = "open"
    BY <1>1, <1>4 DEF Goto, TypeOK
  <2>3. HeldInv(s)'
    BY <2>2 DEF HeldInv, Holding, Approving, Late
  <2> QED
    BY <1>1, <1>2, <2>1, <2>2, <2>3, SilentTurn DEF Holding, Approving, Late
<1> QED
  BY <1>3, <1>4 DEF Detect

LEMMA MergeSync ==
    ASSUME IInv, SyncInv, NEW s \in Signals, Merge(s)
    PROVE  SyncInv'
<1> USE DEF locals
<1>1. s \in Loop /\ s \in Actors /\ TypeOK /\ s \notin Reqs
  BY NilAssumption DEF Loop, Actors, IInv
<1>2. /\ pc[s] = "merge" /\ Finish(s, "merged")
      /\ UNCHANGED <<plans, runs, at, ask, copy, draft>>
  BY DEF Merge
<1> DEFINE c == [copy[s] EXCEPT !.evidence = @ \cup {s}, !.updated = now]
<1>3. copy[s] \in Held
  BY <1>1, <1>2 DEF IInv, KnowInv, Holds, Holding
<1>4. c \in Held /\ c.id = copy[s].id /\ c.status = copy[s].status /\ SaveIncident(c)
  BY <1>1, <1>3 DEF Merge, Held, TypeOK, Evidence, Actors
<1> HIDE DEF c
<1>5. /\ incidents'[copy[s].id] # Nil /\ incidents'[copy[s].id].status = copy[s].status
      /\ \A i \in Ids : i # copy[s].id => incidents'[i] = incidents[i]
  BY <1>1, <1>4, SaveIs
<1>6. Turn(s)
  BY <1>1, <1>2, TurnGoes DEF InFlight
<1>7. pc'[s] = "done"
  BY <1>1, <1>2 DEF Finish, Goto, TypeOK
<1>8. copy[s].id \in Ids /\ incidents[copy[s].id] # Nil
  BY <1>1, <1>2, <1>3 DEF SyncInv, RowsInv, Holding, Held
<1>9. PICK row \in Ids : row = copy[s].id
  BY <1>8
<1>10. ASSUME NEW p \in Ids PROVE StoryInv(p)'
  <2>1. /\ PutBack(p)' = PutBack(p) /\ (Broken(p) => Broken(p)')
        /\ \A r \in Reqs : pc[r] \notin Changing
    BY <1>1, <1>6, TurnFrame
  <2>2. HeldInv(s) /\ StoryInv(p)
    BY <1>1 DEF SyncInv
  <2>3. plans[p] # Nil /\ ~Broken(p) =>
          incidents'[p].status \in {incidents[p].status} \cup Fitting(p) \cup PutBack(p)'
    <3>1. CASE p = row
      BY <1>2, <1>5, <1>9, <2>1, <2>2, <3>1 DEF HeldInv, Holding
    <3>2. CASE p # row
      BY <1>5, <1>9, <3>2
    <3> QED
      BY <3>1, <3>2
  <2> QED
    BY <1>2, <2>1, <2>2, <2>3, StoryKept
<1>11. OneRunPerPlan' /\ HeldInv(s)'
  BY <1>2, <1>7 DEF SyncInv, OneRunPerPlan, HeldInv, Holding, Approving, Late
<1>12. \A k \in Keys : runs'[k] # Nil =>
         plans'[runs'[k].plan] # Nil /\ plans'[runs'[k].plan].status # "PENDING_APPROVAL"
  BY <1>2 DEF SyncInv, RowsInv
<1>13. \A t \in Signals : t # s =>
         (incidents[t] = Nil => incidents'[t] = Nil) /\ (plans[t] = Nil => plans'[t] = Nil)
  BY <1>2, <1>5, <1>8 DEF Ids
<1>14. \A i \in Ids : incidents[i] # Nil => incidents'[i] # Nil
  BY <1>5
<1> QED
  BY <1>1, <1>6, <1>7, <1>10, <1>11, <1>12, <1>13, <1>14, TurnEnds
     DEF Holding, Approving, Late

LEMMA OpenSync ==
    ASSUME IInv, SyncInv, NEW s \in Signals, Open(s)
    PROVE  SyncInv'
<1>1. s \in Loop /\ s \in Actors /\ TypeOK /\ s \notin Reqs /\ s \in Ids
  BY NilAssumption DEF Loop, Actors, IInv, Ids
<1> DEFINE status == IF Asset[s] \in RealAssets /\ Mode = "observe_only" THEN "OPEN" ELSE "WAITING_APPROVAL"
           c == [id |-> s, status |-> status, updated |-> now, evidence |-> {s}]
<1>2. /\ pc[s] = "open" /\ copy' = [copy EXCEPT ![s] = c] /\ SaveIncident(copy'[s])
      /\ \/ Finish(s, "opened")
         \/ Goto(s, "propose") /\ UNCHANGED reply /\ status = "WAITING_APPROVAL"
      /\ UNCHANGED <<plans, runs, at, ask, draft>>
  BY DEF Open
<1>3. status \in IncidentStatus
  BY DEF IncidentStatus
<1> HIDE DEF status
<1>4. c \in Held /\ c.id = s /\ c.status = status /\ c.evidence = {s}
  BY <1>1, <1>3 DEF Held, TypeOK, Evidence, Actors
<1> HIDE DEF c
<1>5. copy'[s] = c /\ \A y \in Actors : y # s => copy'[y] = copy[y]
  BY <1>1, <1>2 DEF TypeOK
<1>6. /\ incidents'[s] # Nil /\ incidents'[s].status = status /\ incidents'[s].evidence = {s}
      /\ \A i \in Ids : i # s => incidents'[i] = incidents[i]
  <2>1. SaveIncident(c)
    BY <1>2, <1>5 DEF SaveIncident
  <2> QED
    BY <1>1, <1>4, <2>1, SaveIs
<1>7. Turn(s)
  BY <1>1, <1>2, <1>5, TurnGoes DEF InFlight
<1>8. pc'[s] = "done" \/ (pc'[s] = "propose" /\ status = "WAITING_APPROVAL")
  BY <1>1, <1>2 DEF Finish, Goto, TypeOK
<1>9. incidents[s] = Nil /\ plans[s] = Nil
  BY <1>2 DEF SyncInv, RowsInv
<1>10. ASSUME NEW p \in Ids PROVE StoryInv(p)'
  <2>1. /\ PutBack(p)' = PutBack(p) /\ (Broken(p) => Broken(p)')
        /\ \A r \in Reqs : pc[r] \notin Changing
    BY <1>1, <1>7, TurnFrame
  <2>2. CASE p = s
    BY <1>2, <1>9, <2>2 DEF StoryInv
  <2>3. CASE p # s
    BY <1>2, <1>6, <2>1, <2>3, StoryKept DEF SyncInv
  <2> QED
    BY <2>2, <2>3
<1>11. OneRunPerPlan'
  BY <1>2 DEF SyncInv, OneRunPerPlan
<1>12. HeldInv(s)'
  BY <1>4, <1>5, <1>6, <1>8 DEF HeldInv, Excused
<1>13. \A k \in Keys : runs'[k] # Nil =>
         plans'[runs'[k].plan] # Nil /\ plans'[runs'[k].plan].status # "PENDING_APPROVAL"
  BY <1>2 DEF SyncInv, RowsInv
<1>14. \A t \in Signals : t # s =>
         (incidents[t] = Nil => incidents'[t] = Nil) /\ (plans[t] = Nil => plans'[t] = Nil)
  BY <1>2, <1>6 DEF Ids
<1>15. \A i \in Ids : incidents[i] # Nil => incidents'[i] # Nil
  BY <1>6
<1> QED
  BY <1>1, <1>2, <1>4, <1>5, <1>6, <1>7, <1>8, <1>9, <1>10, <1>11, <1>12, <1>13, <1>14, <1>15, TurnEnds

LEMMA ProposeSync ==
    ASSUME IInv, SyncInv, NEW s \in Signals, Propose(s)
    PROVE  SyncInv'
<1> USE DEF locals
<1>1. s \in Loop /\ s \in Actors /\ TypeOK /\ s \notin Reqs /\ s \in Ids
  BY NilAssumption DEF Loop, Actors, IInv, Ids
<1> DEFINE q == [status |-> "PENDING_APPROVAL", expires |-> copy[s].updated + 2]
<1>2. /\ pc[s] = "propose" /\ plans' = [plans EXCEPT ![s] = q] /\ Finish(s, "opened")
      /\ UNCHANGED <<incidents, runs, at, ask, copy, draft>>
  BY DEF Propose
<1>3. q.status = "PENDING_APPROVAL"
  OBVIOUS
<1> HIDE DEF q
<1>4. plans'[s].status = "PENDING_APPROVAL" /\ \A p \in Ids : p # s => plans'[p] = plans[p]
  BY <1>1, <1>2, <1>3 DEF TypeOK
<1>5. Turn(s)
  BY <1>1, <1>2, TurnGoes DEF InFlight
<1>6. pc'[s] = "done"
  BY <1>1, <1>2 DEF Finish, Goto, TypeOK
<1>7. RowsInv /\ plans[s] = Nil /\ copy[s].id = s /\ copy[s].status = "WAITING_APPROVAL"
  BY <1>2 DEF SyncInv, RowsInv
<1>8. \A k \in Keys : runs[k] # Nil => runs[k].plan # s /\ runs[k].plan \in Ids
  BY <1>1, <1>7 DEF RowsInv, TypeOK, Run
<1>9. ASSUME NEW p \in Ids PROVE StoryInv(p)'
  <2>1. /\ PutBack(p)' = PutBack(p) /\ (Broken(p) => Broken(p)')
        /\ \A r \in Reqs : pc[r] \notin Changing
    BY <1>1, <1>5, TurnFrame
  <2>2. CASE p = s
    <3>1. incidents'[s].status \in {"WAITING_APPROVAL"} \cup PutBack(s)
      BY <1>1, <1>2, <1>7 DEF SyncInv, HeldInv, Holding
    <3>2. Outcomes(s)' = {}
      BY <1>2, <1>8 DEF Outcomes
    <3>3. Fitting(s)' = {"WAITING_APPROVAL"}
      BY <1>4, <3>2 DEF Fitting, InStep, IncidentStatus
    <3> QED
      BY <2>1, <2>2, <3>1, <3>3 DEF StoryInv
  <2>3. CASE p # s
    BY <1>2, <1>4, <2>1, <2>3, StoryKept DEF SyncInv
  <2> QED
    BY <2>2, <2>3
<1>10. OneRunPerPlan' /\ HeldInv(s)'
  BY <1>2, <1>6 DEF SyncInv, OneRunPerPlan, HeldInv, Holding, Approving, Late
<1>11. \A k \in Keys : runs'[k] # Nil =>
         plans'[runs'[k].plan] # Nil /\ plans'[runs'[k].plan].status # "PENDING_APPROVAL"
  BY <1>2, <1>4, <1>7, <1>8 DEF RowsInv
<1>12. \A t \in Signals : t # s =>
         (incidents[t] = Nil => incidents'[t] = Nil) /\ (plans[t] = Nil => plans'[t] = Nil)
  BY <1>2, <1>4 DEF Ids
<1> QED
  BY <1>1, <1>2, <1>5, <1>6, <1>9, <1>10, <1>11, <1>12, TurnEnds
     DEF Holding, Approving, Late

-----------------------------------------------------------------------------
(* Approvals take their turn                                                *)

LEMMA RouteSync ==
    ASSUME IInv, SyncInv, NEW r \in Reqs, NEW h \in Procs, NEW q \in Requests, Route(r, h, q)
    PROVE  SyncInv'
<1> USE DEF tables
<1>1. r \in Loop /\ r \in Actors /\ TypeOK /\ r \notin Signals
  BY NilAssumption DEF Loop, Actors, IInv
<1>2. /\ pc[r] = "idle" /\ Free(h) /\ at' = [at EXCEPT ![r] = h]
      /\ ask' = [ask EXCEPT ![r] = q]
      /\ UNCHANGED <<incidents, plans, runs, copy, draft>>
      /\ Finish(r, "not_found") \/ Finish(r, "forbidden") \/ (Goto(r, "lookup") /\ UNCHANGED reply)
  BY DEF Route
<1>3. \A p \in Reqs : p # r => ask'[p] = ask[p]
  BY <1>1, <1>2 DEF TypeOK
<1>4. Turn(r)
  BY <1>1, <1>2, <1>3, TurnStarts
<1>5. pc'[r] \in {"done", "lookup"}
  BY <1>1, <1>2 DEF Finish, Goto, TypeOK
<1>6. PlanInv(r)' /\ HeldInv(r)' /\ pc'[r] \notin Holding
  BY <1>5 DEF PlanInv, HeldInv, Loaded, Holding, Approving, Late
<1> QED
  BY <1>1, <1>2, <1>4, <1>6, SilentTurn DEF Changing, Late

LEMMA LoadSync ==
    ASSUME IInv, SyncInv, NEW r \in Reqs, LookUp(r) \/ LoadPlan(r) \/ LoadIncident(r)
    PROVE  SyncInv'
<1> USE DEF tables, locals
<1>1. r \in Loop /\ r \in Actors /\ TypeOK /\ r \notin Signals
  BY NilAssumption DEF Loop, Actors, IInv
<1>2. CASE LookUp(r)
  <2>1. /\ pc[r] = "lookup" /\ UNCHANGED <<incidents, plans, runs, at, ask, copy, draft>>
        /\ (\E a : Finish(r, a)) \/ (Goto(r, "load_plan") /\ UNCHANGED reply)
    BY <1>2 DEF LookUp
  <2>2. Turn(r)
    BY <1>1, <2>1, TurnGoes DEF InFlight
  <2>3. pc'[r] \in {"done", "load_plan"}
    BY <1>1, <2>1 DEF Finish, Goto, TypeOK
  <2>4. PlanInv(r)' /\ HeldInv(r)' /\ pc'[r] \notin Holding
    BY <2>3 DEF PlanInv, HeldInv, Loaded, Holding, Approving, Late
  <2> QED
    BY <1>1, <2>1, <2>2, <2>4, SilentTurn DEF Changing, Late
<1>3. CASE LoadPlan(r)
  <2>1. /\ pc[r] = "load_plan" /\ UNCHANGED <<incidents, plans, runs, at, ask, copy, reply>>
        /\ draft' = [draft EXCEPT ![r] = plans[ask[r].plan]] /\ Goto(r, "load_incident")
    BY <1>3 DEF LoadPlan
  <2>2. draft'[r] = plans[ask[r].plan] /\ \A q \in Reqs : q # r => draft'[q] = draft[q]
    BY <1>1, <2>1 DEF TypeOK
  <2>3. Turn(r)
    BY <1>1, <2>1, <2>2, TurnGoes DEF InFlight
  <2>4. pc'[r] = "load_incident"
    BY <1>1, <2>1 DEF Goto, TypeOK
  <2>5. PlanInv(r)' /\ HeldInv(r)' /\ pc'[r] \notin Holding
    BY <2>1, <2>2, <2>4 DEF PlanInv, HeldInv, Holding, Approving, Late
  <2> QED
    BY <1>1, <2>1, <2>3, <2>5, SilentTurn DEF Changing, Late
<1>4. CASE LoadIncident(r)
  <2>1. pc[r] = "load_incident" /\ UNCHANGED <<incidents, plans, runs, at, ask, draft>>
    BY <1>4 DEF LoadIncident
  <2>2. ask[r].plan \in Ids /\ draft[r] = plans[ask[r].plan]
    BY <1>1, <2>1 DEF IInv, KnowInv, Knows, RequestType, SyncInv, PlanInv, Loaded
  <2>3. CASE Finish(r, "not_found") /\ UNCHANGED copy
    <3>1. Turn(r)
      BY <1>1, <2>1, <2>3, TurnGoes DEF InFlight
    <3>2. pc'[r] = "done"
      BY <1>1, <2>3 DEF Finish, Goto, TypeOK
    <3>3. PlanInv(r)' /\ HeldInv(r)' /\ pc'[r] \notin Holding
      BY <3>2 DEF PlanInv, HeldInv, Loaded, Holding, Approving, Late
    <3> QED
      BY <1>1, <2>1, <3>1, <3>3, SilentTurn DEF Changing, Late
  <2>4. CASE /\ incidents[ask[r].plan] # Nil /\ Read(r, ask[r].plan)
             /\ \/ Goto(r, "approve") /\ UNCHANGED reply /\ Refusal(r) = "none"
                \/ Goto(r, "expire") /\ UNCHANGED reply /\ Refusal(r) = "expired"
                \/ Finish(r, Refusal(r))
    <3>1. /\ copy'[r].id = ask[r].plan /\ copy'[r].status = incidents[ask[r].plan].status
          /\ copy'[r].evidence = incidents[ask[r].plan].evidence
          /\ \A y \in Actors : y # r => copy'[y] = copy[y]
      BY <1>1, <2>2, <2>4, ReadIs, ReadType
    <3>2. Turn(r)
      BY <1>1, <2>1, <2>4, <3>1, TurnGoes DEF InFlight
    <3>3. pc'[r] = "done" \/ (pc'[r] \in {"approve", "expire"} /\ draft[r].status = "PENDING_APPROVAL")
      BY <1>1, <2>4 DEF Finish, Goto, TypeOK, Refusal
    <3>4. PlanInv(r)'
      BY <2>1, <2>2, <3>1, <3>3 DEF PlanInv, Loaded, Holding, Approving, Late
    <3>5. HeldInv(r)' /\ incidents[copy'[r].id] # Nil
      BY <2>1, <2>4, <3>1, <3>3 DEF HeldInv, Excused, Holding, Approving, Late
    <3> QED
      BY <1>1, <2>1, <3>2, <3>4, <3>5, SilentTurn DEF Changing, Late
  <2> QED
    BY <1>4, <2>3, <2>4 DEF LoadIncident
<1> QED
  BY <1>2, <1>3, <1>4

LEMMA ApproveSync ==
    ASSUME IInv, SyncInv, NEW r \in Reqs, Approve(r)
    PROVE  SyncInv'
<1>1. r \in Loop /\ r \in Actors /\ TypeOK /\ r \notin Signals
  BY NilAssumption DEF Loop, Actors, IInv
<1>2. pc[r] = "approve" /\ UNCHANGED <<incidents, plans, runs, at, ask, draft>>
  BY DEF Approve
<1>3. PlanInv(r) /\ HeldInv(r) /\ copy[r] \in Held
  BY <1>1, <1>2 DEF SyncInv, IInv, KnowInv, Holds, Holding
<1>4. incidents[copy[r].id] # Nil
  BY <1>1, <1>2 DEF SyncInv, RowsInv, Holding
<1>5. CASE Finish(r, "conflict") /\ UNCHANGED copy
  <2>1. Turn(r)
    BY <1>1, <1>2, <1>5, TurnGoes DEF InFlight
  <2>2. pc'[r] = "done"
    BY <1>1, <1>5 DEF Finish, Goto, TypeOK
  <2>3. PlanInv(r)' /\ HeldInv(r)' /\ pc'[r] \notin Holding
    BY <2>2 DEF PlanInv, HeldInv, Loaded, Holding, Approving, Late
  <2> QED
    BY <1>1, <1>2, <2>1, <2>3, SilentTurn DEF Changing, Late
<1>6. CASE /\ copy' = [copy EXCEPT ![r].status = "REMEDIATING", ![r].updated = now]
           /\ Goto(r, "mark_plan") /\ UNCHANGED reply
  <2> DEFINE c == [copy[r] EXCEPT !.status = "REMEDIATING", !.updated = now]
  <2>1. copy' = [copy EXCEPT ![r] = c]
    BY <1>1, <1>6 DEF TypeOK
  <2>2. c.id = copy[r].id /\ c.evidence = copy[r].evidence
    BY <1>3 DEF Held
  <2> HIDE DEF c
  <2>3. copy'[r] = c /\ \A y \in Actors : y # r => copy'[y] = copy[y]
    BY <1>1, <2>1 DEF TypeOK
  <2>4. Turn(r)
    BY <1>1, <1>2, <1>6, <2>3, TurnGoes DEF InFlight
  <2>5. pc'[r] = "mark_plan"
    BY <1>1, <1>6 DEF Goto, TypeOK
  <2>6. PlanInv(r)'
    BY <1>2, <1>3, <2>2, <2>3, <2>5 DEF PlanInv, Loaded, Holding
  <2>7. HeldInv(r)'
    BY <1>2, <1>3, <2>2, <2>3, <2>5 DEF HeldInv, Holding
  <2> QED
    BY <1>1, <1>2, <1>4, <2>2, <2>3, <2>4, <2>6, <2>7, SilentTurn DEF Changing, Late
<1> QED
  BY <1>5, <1>6 DEF Approve

(* The plan that is saved is the one that was loaded, with a new status.    *)
LEMMA SavePlanIs ==
    ASSUME IInv, SyncInv, NEW r \in Reqs, pc[r] \in Loaded,
           NEW status \in PlanStatus, SavePlan(r, status)
    PROVE  /\ ask[r].plan \in Ids /\ plans[ask[r].plan] = draft[r] /\ draft[r] # Nil
           /\ plans'[ask[r].plan] = draft'[r] /\ draft'[r].status = status /\ draft'[r] # Nil
           /\ \A p \in Ids : p # ask[r].plan => plans'[p] = plans[p]
           /\ \A q \in Reqs : q # r => draft'[q] = draft[q]
<1>1. draft[r] \in Plan /\ ask[r] \in RequestType
  BY DEF IInv, KnowInv, Knows, Loaded, Approving, Late
<1>2. ask[r].plan \in Ids
  BY <1>1 DEF RequestType
<1>3. draft \in [Reqs -> Plan \cup {Nil}] /\ plans \in [Ids -> Plan \cup {Nil}]
  BY DEF IInv, TypeOK
<1>4. draft' = [draft EXCEPT ![r] = [draft[r] EXCEPT !.status = status]]
  BY <1>3 DEF SavePlan
<1>5. [draft[r] EXCEPT !.status = status] \in Plan /\ [draft[r] EXCEPT !.status = status].status = status
  BY <1>1 DEF Plan
<1>6. plans' = [plans EXCEPT ![ask[r].plan] = draft'[r]]
  BY DEF SavePlan
<1>7. draft'[r] \in Plan /\ draft'[r].status = status /\ \A q \in Reqs : q # r => draft'[q] = draft[q]
  BY <1>3, <1>4, <1>5
<1>8. plans[ask[r].plan] = draft[r]
  BY DEF SyncInv, PlanInv
<1> QED
  BY <1>1, <1>2, <1>3, <1>6, <1>7, <1>8, NilAssumption

(* A turn that saves a plan.                                                *)
LEMMA PlanTurn ==
    ASSUME IInv, SyncInv, NEW r \in Reqs, pc[r] \in Loaded, Turn(r),
           NEW status \in PlanStatus \ {"PENDING_APPROVAL"}, SavePlan(r, status),
           incidents' = incidents, runs' = runs, copy' = copy, ask' = ask,
           pc'[r] \in Holding => pc[r] \in Holding,
           PlanInv(r)', HeldInv(r)', StoryInv(ask[r].plan)'
    PROVE  SyncInv'
<1>1. r \in Loop /\ r \in Actors /\ r \notin Signals
  BY NilAssumption DEF Loop, Actors
<1>2. PICK p \in Ids : p = ask[r].plan
  BY SavePlanIs
<1>3. /\ plans[p] = draft[r] /\ draft[r] # Nil
      /\ plans'[p] = draft'[r] /\ draft'[r].status = status /\ draft'[r] # Nil
      /\ \A i \in Ids : i # p => plans'[i] = plans[i]
  BY <1>2, SavePlanIs
<1>4. StoryInv(p)'
  BY <1>2
<1>5. ASSUME NEW i \in Ids PROVE StoryInv(i)'
  <2>1. CASE i # p
    <3>1. /\ PutBack(i)' = PutBack(i) /\ (Broken(i) => Broken(i)')
          /\ \A q \in Reqs : q # r => pc[q] \notin Changing
      BY <1>1, TurnFrame
    <3>2. \A q \in Reqs : pc[q] \in Changing => ask[q].plan # i
      BY <1>2, <2>1, <3>1
    <3> QED
      BY <1>3, <2>1, <3>1, <3>2, StoryKept DEF SyncInv
  <2>2. CASE i = p
    BY <1>4, <2>2
  <2> QED
    BY <2>1, <2>2
<1>6. RowsInv /\ OneRunPerPlan
  BY DEF SyncInv
<1>7. OneRunPerPlan'
  BY <1>6 DEF OneRunPerPlan
<1>8. \A k \in Keys : runs'[k] # Nil =>
         plans'[runs'[k].plan] # Nil /\ plans'[runs'[k].plan].status # "PENDING_APPROVAL"
  <2>1. \A k \in Keys : runs[k] # Nil => runs[k].plan \in Ids
    BY DEF IInv, TypeOK, Run
  <2> QED
    BY <1>3, <1>6, <2>1 DEF RowsInv
<1>9. \A s \in Signals : plans[s] = Nil => plans'[s] = Nil
  BY <1>3 DEF Ids
<1>10. pc'[r] \in Holding => incidents'[copy'[r].id] # Nil
  BY <1>1, <1>6 DEF RowsInv
<1> QED
  BY <1>1, <1>5, <1>6, <1>7, <1>8, <1>9, <1>10, TurnEnds

(* While somebody is changing the plan no story is told of it.              *)
LEMMA NoStory ==
    ASSUME NEW r \in Reqs, pc'[r] \in Changing, ask'[r] = ask[r]
    PROVE  StoryInv(ask[r].plan)'
<1>1. PICK p : p = ask[r].plan
  OBVIOUS
<1>2. StoryInv(p)'
  BY <1>1 DEF StoryInv
<1> QED
  BY <1>1, <1>2

LEMMA PlanSync ==
    ASSUME IInv, SyncInv, NEW r \in Reqs,
           Expire(r) \/ MarkPlan(r) \/ MarkExecuting(r) \/ SavePlanEnd(r)
    PROVE  SyncInv'
<1> USE DEF tables, locals
<1>1. r \in Loop /\ r \in Actors /\ TypeOK
  BY DEF Loop, Actors, IInv
<1>2. /\ UNCHANGED <<incidents, runs, at, ask, copy, log, healthy>>
      /\ pc[r] \in {"expire", "mark_plan", "mark_executing", "save_plan"}
      /\ (\E stage : Goto(r, stage) /\ reply' = reply) \/ (\E answer : Finish(r, answer))
      /\ \E status \in PlanStatus : SavePlan(r, status)
  BY DEF Expire, MarkPlan, MarkExecuting, SavePlanEnd, PlanStatus
<1>3. pc[r] \in Loaded /\ pc[r] \in Holding /\ InFlight(r)
  BY <1>2 DEF Loaded, Holding, Approving, Late, InFlight
<1>4. /\ ask[r].plan \in Ids /\ plans[ask[r].plan] = draft[r]
      /\ plans'[ask[r].plan] = draft'[r]
      /\ \A q \in Reqs : q # r => draft'[q] = draft[q]
  BY <1>2, <1>3, SavePlanIs
<1>5. Turn(r)
  BY <1>1, <1>2, <1>3, <1>4, TurnGoes
<1>6. PlanInv(r) /\ HeldInv(r) /\ copy[r].id = ask[r].plan
  BY <1>1, <1>3 DEF SyncInv, PlanInv
<1>7. pc'[r] \notin {"merge", "propose"} => HeldInv(r)'
  BY <1>2, <1>3, <1>6 DEF HeldInv
<1>8. CASE Expire(r)
  <2>1. /\ pc[r] = "expire" /\ SavePlan(r, "EXPIRED") /\ Finish(r, "expired")
        /\ "EXPIRED" \in PlanStatus \ {"PENDING_APPROVAL"}
    BY <1>8 DEF Expire, PlanStatus
  <2>2. draft'[r].status = "EXPIRED" /\ draft[r].status = "PENDING_APPROVAL"
    BY <1>3, <1>6, <2>1, SavePlanIs DEF PlanInv
  <2>3. pc'[r] = "done"
    BY <1>1, <2>1 DEF Finish, Goto, TypeOK
  <2>4. PlanInv(r)' /\ HeldInv(r)' /\ pc'[r] \notin Holding
    BY <2>3 DEF PlanInv, HeldInv, Loaded, Holding, Approving, Late
  <2>5. StoryInv(ask[r].plan)'
    <3>1. PICK p \in Ids : p = ask[r].plan
      BY <1>4
    <3>2. /\ PutBack(p)' = PutBack(p) /\ (Broken(p) => Broken(p)')
          /\ \A q \in Reqs : q # r => pc[q] \notin Changing
      BY <1>1, <1>5, TurnFrame
    <3>3. \A q \in Reqs : pc[q] \notin Changing
      BY <2>1, <3>2 DEF Changing, Late
    <3>4. ~Broken(p)' =>
            Fitting(p) # {} /\ incidents[p].status \in Fitting(p) \cup PutBack(p)
      BY <1>3, <2>1, <3>1, <3>2, <3>3, SavePlanIs DEF SyncInv, StoryInv
    <3>5. plans[p].status = "PENDING_APPROVAL" /\ plans'[p].status = "EXPIRED"
      BY <1>4, <2>2, <3>1
    <3>6. Outcomes(p)' = Outcomes(p)
      BY <1>2 DEF Outcomes
    <3>7. Fitting(p)' = Fitting(p)
      BY <3>5, <3>6 DEF Fitting, InStep
    <3>8. StoryInv(p)'
      BY <1>2, <3>2, <3>4, <3>7 DEF StoryInv
    <3> QED
      BY <1>2, <3>1, <3>8
  <2> QED
    BY <1>2, <1>3, <1>5, <2>1, <2>4, <2>5, PlanTurn
<1>9. CASE MarkPlan(r)
  <2>1. /\ pc[r] = "mark_plan" /\ SavePlan(r, "APPROVED") /\ Goto(r, "mark_incident")
        /\ "APPROVED" \in PlanStatus \ {"PENDING_APPROVAL"}
    BY <1>9 DEF MarkPlan, PlanStatus
  <2>2. pc'[r] = "mark_incident"
    BY <1>1, <2>1 DEF Goto, TypeOK
  <2>3. NoRun(ask[r].plan)
    <3>1. plans[ask[r].plan].status = "PENDING_APPROVAL"
      BY <1>4, <1>6, <2>1 DEF PlanInv
    <3> QED
      BY <3>1 DEF SyncInv, RowsInv, NoRun
  <2>4. PlanInv(r)'
    <3>1. draft'[r].status = "APPROVED"
      BY <1>3, <2>1, SavePlanIs
    <3> QED
      BY <1>2, <1>4, <1>6, <2>2, <2>3, <3>1 DEF PlanInv, NoRun
  <2>5. HeldInv(r)'
    BY <1>7, <2>2
  <2> QED
    BY <1>2, <1>3, <1>5, <2>1, <2>2, <2>4, <2>5, NoStory, PlanTurn DEF Changing
<1>10. CASE MarkExecuting(r)
  <2>1. /\ pc[r] = "mark_executing" /\ SavePlan(r, "EXECUTING") /\ Goto(r, "steps")
        /\ "EXECUTING" \in PlanStatus \ {"PENDING_APPROVAL"}
    BY <1>10 DEF MarkExecuting, PlanStatus
  <2>2. pc'[r] = "steps"
    BY <1>1, <2>1 DEF Goto, TypeOK
  <2>3. PlanInv(r)'
    BY <1>2, <1>4, <1>6, <2>2 DEF PlanInv
  <2>4. HeldInv(r)'
    BY <1>7, <2>2
  <2> QED
    BY <1>2, <1>3, <1>5, <2>1, <2>2, <2>3, <2>4, NoStory, PlanTurn DEF Changing, Late
<1>11. CASE SavePlanEnd(r)
  <2> DEFINE status == IF Succeeded(r) THEN "SUCCEEDED" ELSE "FAILED"
  <2>1. pc[r] = "save_plan" /\ SavePlan(r, status) /\ Goto(r, "save_incident")
    BY <1>11 DEF SavePlanEnd
  <2>2. status \in PlanStatus \ {"PENDING_APPROVAL"} /\ status \in PlanStatus
    BY DEF PlanStatus
  <2>3. Succeeded(r)' = Succeeded(r)
    BY <1>2, SameLog
  <2>4. pc'[r] = "save_incident"
    BY <1>1, <2>1 DEF Goto, TypeOK
  <2>5. draft'[r].status = status
    BY <1>3, <2>1, <2>2, SavePlanIs
  <2>6. PlanInv(r)'
    BY <1>2, <1>4, <1>6, <2>3, <2>4, <2>5 DEF PlanInv
  <2>7. HeldInv(r)'
    BY <1>7, <2>4
  <2>8. StoryInv(ask[r].plan)'
    BY <1>2, <2>4, NoStory DEF Changing, Late
  <2> HIDE DEF status
  <2> QED
    BY <1>2, <1>3, <1>5, <2>1, <2>2, <2>6, <2>7, <2>8, PlanTurn
<1> QED
  BY <1>8, <1>9, <1>10, <1>11

(* The stories of the other plans go on.                                    *)
LEMMA OtherStories ==
    ASSUME IInv, SyncInv, NEW r \in Reqs, Turn(r), NEW p \in Ids, p = ask[r].plan,
           \A i \in Ids : i # p => plans'[i] = plans[i] /\ incidents'[i].status = incidents[i].status,
           \A k \in Keys : \/ runs'[k] = runs[k]
                           \/ /\ runs[k] = Nil \/ runs[k].plan = p
                              /\ runs'[k] = Nil \/ runs'[k].plan = p
    PROVE  \A i \in Ids : i # p => StoryInv(i)'
<1>1. r \in Loop
  BY DEF Loop
<1> SUFFICES ASSUME NEW i \in Ids, i # p PROVE StoryInv(i)'
  OBVIOUS
<1>2. /\ PutBack(i)' = PutBack(i) /\ (Broken(i) => Broken(i)')
      /\ \A q \in Reqs : q # r => pc[q] \notin Changing
  BY <1>1, TurnFrame
<1>3. \A q \in Reqs : pc[q] \in Changing => ask[q].plan # i
  BY <1>2
<1> QED
  BY <1>2, <1>3, StoryKept DEF SyncInv

(* The dispatches and the verification.                                     *)
LEMMA StepsSync ==
    ASSUME IInv, SyncInv, NEW r \in Reqs,
           \/ \E ok, performed \in BOOLEAN : Perform(r, ok, performed) \/ Undo(r, ok, performed)
           \/ \E ok \in BOOLEAN : Verify(r, ok)
    PROVE  SyncInv'
<1> USE DEF tables, locals
<1>1. r \in Loop /\ r \in Actors /\ TypeOK /\ r \notin Signals
  BY NilAssumption DEF Loop, Actors, IInv
<1>2. /\ pc[r] \in {"steps", "verify", "undo"} /\ pc'[r] \in {"steps", "verify", "undo", "save_run"}
      /\ UNCHANGED <<incidents, plans, runs, at, ask, copy, draft, reply>>
      /\ \E stage : Goto(r, stage)
  <2>1. ASSUME NEW ok \in BOOLEAN, NEW performed \in BOOLEAN, Perform(r, ok, performed)
        PROVE  <1>2!:
    BY <1>1, <2>1 DEF Perform, Goto, TypeOK
  <2>2. ASSUME NEW ok \in BOOLEAN, NEW performed \in BOOLEAN, Undo(r, ok, performed)
        PROVE  <1>2!:
    <3>1. /\ pc[r] = "undo" /\ pc' = pc
          /\ UNCHANGED <<incidents, plans, runs, at, ask, copy, draft, reply>>
      BY <2>2 DEF Undo
    <3>2. Goto(r, "undo")
      BY <1>1, <3>1 DEF Goto, TypeOK
    <3> QED
      BY <3>1, <3>2
  <2>3. ASSUME NEW ok \in BOOLEAN, Verify(r, ok) PROVE <1>2!:
    BY <1>1, <2>3 DEF Verify, Goto, TypeOK
  <2> QED
    BY <2>1, <2>2, <2>3
<1>3. Turn(r)
  BY <1>1, <1>2, TurnGoes DEF InFlight
<1>4. /\ pc[r] \in Loaded /\ pc[r] \in Holding /\ pc[r] \in Changing
      /\ pc'[r] \in Changing
  BY <1>2 DEF Loaded, Holding, Approving, Late, Changing
<1>5. PlanInv(r)'
  BY <1>2, <1>4 DEF SyncInv, PlanInv
<1>6. HeldInv(r)' /\ incidents[copy[r].id] # Nil
  BY <1>1, <1>2, <1>4 DEF SyncInv, HeldInv, RowsInv
<1> QED
  BY <1>1, <1>2, <1>3, <1>4, <1>5, <1>6, SilentTurn

LEMMA MarkIncidentSync ==
    ASSUME IInv, SyncInv, NEW r \in Reqs, MarkIncident(r)
    PROVE  SyncInv'
<1> USE DEF locals
<1>1. r \in Loop /\ r \in Actors /\ TypeOK /\ r \notin Signals
  BY NilAssumption DEF Loop, Actors, IInv
<1>2. /\ pc[r] = "mark_incident" /\ SaveIncident(copy[r]) /\ Goto(r, "insert_run")
      /\ UNCHANGED <<plans, runs, at, ask, copy, draft, reply>>
  BY DEF MarkIncident
<1>3. copy[r] \in Held /\ copy[r].id = ask[r].plan /\ PlanInv(r)
  BY <1>1, <1>2 DEF IInv, KnowInv, Holds, Holding, Approving, SyncInv, PlanInv
<1>4. PICK p \in Ids : p = copy[r].id
  BY <1>3 DEF Held
<1>5. /\ incidents'[p] # Nil /\ incidents'[p].status = copy[r].status
      /\ incidents'[p].evidence = copy[r].evidence
      /\ \A i \in Ids : i # p => incidents'[i] = incidents[i]
  BY <1>1, <1>2, <1>3, <1>4, SaveIs
<1>6. Turn(r)
  BY <1>1, <1>2, TurnGoes DEF InFlight
<1>7. pc'[r] = "insert_run"
  BY <1>1, <1>2 DEF Goto, TypeOK
<1>8. PlanInv(r)'
  BY <1>2, <1>3, <1>7 DEF PlanInv, NoRun, Loaded, Approving
<1>9. HeldInv(r)'
  BY <1>2, <1>4, <1>5, <1>7 DEF HeldInv, Excused
<1>10. \A i \in Ids : StoryInv(i)'
  <2>1. \A i \in Ids : i # p => StoryInv(i)'
    BY <1>2, <1>3, <1>4, <1>5, <1>6, OtherStories
  <2>2. StoryInv(p)'
    BY <1>2, <1>3, <1>4, <1>7 DEF StoryInv, Changing
  <2> QED
    BY <2>1, <2>2
<1>11. RowsInv /\ OneRunPerPlan /\ incidents[p] # Nil
  BY <1>1, <1>2, <1>4 DEF SyncInv, RowsInv, Holding, Approving
<1>12. OneRunPerPlan'
  BY <1>2, <1>11 DEF OneRunPerPlan
<1>13. \A s \in Signals : incidents[s] = Nil => incidents'[s] = Nil
  BY <1>5, <1>11 DEF Ids
<1>14. \A i \in Ids : incidents[i] # Nil => incidents'[i] # Nil
  BY <1>5
<1> QED
  BY <1>1, <1>2, <1>4, <1>5, <1>6, <1>8, <1>9, <1>10, <1>11, <1>12, <1>13, <1>14, TurnEnds
     DEF RowsInv

LEMMA InsertSync ==
    ASSUME IInv, SyncInv, NEW r \in Reqs, InsertRun(r)
    PROVE  SyncInv'
<1> USE DEF locals
<1>1. r \in Loop /\ r \in Actors /\ TypeOK /\ r \notin Signals
  BY NilAssumption DEF Loop, Actors, IInv
<1>2. pc[r] = "insert_run" /\ UNCHANGED <<incidents, plans, at, ask, copy, draft>>
  BY DEF InsertRun
<1>3. PICK p \in Ids : p = ask[r].plan
  BY <1>1, <1>2 DEF IInv, KnowInv, Knows, RequestType
<1>4. /\ ask[r].key \in Keys /\ draft[r] \in Plan /\ plans[p] = draft[r]
      /\ draft[r].status = "APPROVED" /\ NoRun(p) /\ PlanInv(r) /\ HeldInv(r)
  <2>1. ask[r] \in RequestType /\ draft[r] \in Plan
    BY <1>1, <1>2 DEF IInv, KnowInv, Knows, Loaded, Approving
  <2> QED
    BY <1>1, <1>2, <1>3, <2>1 DEF RequestType, SyncInv, PlanInv, Loaded, Approving
<1>5. CASE runs[ask[r].key] # Nil
  <2>1. Finish(r, "error") /\ runs' = runs
    BY <1>5 DEF InsertRun
  <2>2. Turn(r)
    BY <1>1, <1>2, <2>1, TurnGoes DEF InFlight
  <2>3. pc'[r] = "done" /\ reply'[r] = "error"
    BY <1>1, <2>1 DEF Finish, Goto, TypeOK
  <2>4. PlanInv(r)' /\ HeldInv(r)' /\ pc'[r] \notin Holding
    BY <2>3 DEF PlanInv, HeldInv, Loaded, Holding, Approving, Late
  <2> QED
    BY <1>1, <1>2, <2>1, <2>2, <2>3, <2>4, SilentTurn
<1>6. CASE runs[ask[r].key] = Nil
  <2> DEFINE row == [plan |-> ask[r].plan, owner |-> r, status |-> "RUNNING"]
  <2>1. runs' = [runs EXCEPT ![ask[r].key] = row] /\ Goto(r, "mark_executing") /\ reply' = reply
    BY <1>6 DEF InsertRun
  <2>2. row.plan = p
    BY <1>3
  <2> HIDE DEF row
  <2>3. runs'[ask[r].key].plan = p /\ \A k \in Keys : k # ask[r].key => runs'[k] = runs[k]
    BY <1>1, <1>4, <2>1, <2>2 DEF TypeOK
  <2>4. Turn(r)
    BY <1>1, <1>2, <2>1, TurnGoes DEF InFlight
  <2>5. pc'[r] = "mark_executing"
    BY <1>1, <2>1 DEF Goto, TypeOK
  <2>6. PlanInv(r)'
    BY <1>2, <1>4, <2>5 DEF PlanInv, Loaded, Holding, Approving
  <2>7. RowsInv /\ OneRunPerPlan /\ plans[p] # Nil
    BY <1>4, NilAssumption DEF SyncInv
  <2>8. HeldInv(r)' /\ incidents[copy[r].id] # Nil
    BY <1>1, <1>2, <1>4, <2>5, <2>7 DEF HeldInv, RowsInv, Holding, Approving
  <2>9. \A i \in Ids : StoryInv(i)'
    <3>1. \A i \in Ids : i # p => StoryInv(i)'
      BY <1>2, <1>3, <1>6, <2>3, <2>4, OtherStories
    <3>2. StoryInv(p)'
      BY <1>2, <1>3, <2>5 DEF StoryInv, Changing, Late
    <3> QED
      BY <3>1, <3>2
  <2>10. OneRunPerPlan'
    BY <1>4, <2>3, <2>7 DEF OneRunPerPlan, NoRun
  <2>11. \A k \in Keys : runs'[k] # Nil =>
           plans'[runs'[k].plan] # Nil /\ plans'[runs'[k].plan].status # "PENDING_APPROVAL"
    BY <1>2, <1>4, <2>3, <2>7 DEF RowsInv
  <2> QED
    BY <1>1, <1>2, <2>4, <2>6, <2>8, <2>9, <2>10, <2>11, TurnEnds
<1> QED
  BY <1>5, <1>6

LEMMA SaveRunSync ==
    ASSUME IInv, SyncInv, NEW r \in Reqs, SaveRun(r)
    PROVE  SyncInv'
<1> USE DEF locals
<1>1. r \in Loop /\ r \in Actors /\ TypeOK /\ r \notin Signals
  BY NilAssumption DEF Loop, Actors, IInv
<1>2. /\ pc[r] \in {"save_run", "undo"} /\ Goto(r, "save_plan")
      /\ runs' = [runs EXCEPT ![ask[r].key].status = Outcome(r)]
      /\ UNCHANGED <<incidents, plans, at, ask, copy, draft, reply>>
  BY DEF SaveRun
<1>3. /\ pc[r] \in Late /\ pc[r] \in Loaded /\ pc[r] \in Holding
      /\ ask[r].key \in Keys /\ runs[ask[r].key] # Nil
      /\ runs[ask[r].key] \in Run /\ runs[ask[r].key].plan = ask[r].plan
  BY <1>2, LateRow DEF Late, Loaded, Holding, Approving
<1>4. PICK p \in Ids : p = ask[r].plan
  BY <1>2, LateRow DEF Late
<1>5. runs'[ask[r].key].plan = p /\ \A k \in Keys : k # ask[r].key => runs'[k] = runs[k]
  BY <1>1, <1>2, <1>3, <1>4 DEF TypeOK, Run
<1>6. Turn(r)
  BY <1>1, <1>2, TurnGoes DEF InFlight
<1>7. pc'[r] = "save_plan"
  BY <1>1, <1>2 DEF Goto, TypeOK
<1>8. RowsInv /\ OneRunPerPlan /\ PlanInv(r) /\ HeldInv(r)
  BY <1>1 DEF SyncInv
<1>9. PlanInv(r)'
  BY <1>2, <1>3, <1>7, <1>8 DEF PlanInv
<1>10. HeldInv(r)' /\ incidents[copy[r].id] # Nil
  BY <1>1, <1>2, <1>3, <1>7, <1>8 DEF HeldInv, RowsInv
<1>11. \A i \in Ids : StoryInv(i)'
  <2>1. \A i \in Ids : i # p => StoryInv(i)'
    BY <1>2, <1>3, <1>4, <1>5, <1>6, OtherStories
  <2>2. StoryInv(p)'
    BY <1>2, <1>4, <1>7 DEF StoryInv, Changing, Late
  <2> QED
    BY <2>1, <2>2
<1>12. \A k \in Keys : runs'[k] # Nil => runs[k] # Nil /\ runs'[k].plan = runs[k].plan
  BY <1>3, <1>4, <1>5
<1>13. OneRunPerPlan'
  BY <1>8, <1>12 DEF OneRunPerPlan
<1>14. \A k \in Keys : runs'[k] # Nil =>
         plans'[runs'[k].plan] # Nil /\ plans'[runs'[k].plan].status # "PENDING_APPROVAL"
  BY <1>2, <1>8, <1>12 DEF RowsInv
<1> QED
  BY <1>1, <1>2, <1>6, <1>9, <1>10, <1>11, <1>13, <1>14, TurnEnds

LEMMA LastSaveSync ==
    ASSUME IInv, SyncInv, NEW r \in Reqs, SaveIncidentEnd(r)
    PROVE  SyncInv'
<1> USE DEF locals
<1>1. r \in Loop /\ r \in Actors /\ TypeOK /\ r \notin Signals
  BY NilAssumption DEF Loop, Actors, IInv
<1> DEFINE status == IF Succeeded(r) THEN "RESOLVED" ELSE "FAILED"
           c == [copy[r] EXCEPT !.status = status, !.updated = now]
<1>2. /\ pc[r] = "save_incident" /\ SaveIncident(c) /\ Finish(r, Outcome(r))
      /\ UNCHANGED <<plans, runs, at, ask, copy, draft>>
  BY DEF SaveIncidentEnd
<1>3. /\ pc[r] \in Late /\ pc[r] \in Loaded /\ pc[r] \in Holding
      /\ copy[r] \in Held /\ copy[r].id = ask[r].plan
      /\ PlanInv(r) /\ RowsInv /\ OneRunPerPlan
  BY <1>1, <1>2 DEF IInv, KnowInv, Holds, Late, Loaded, Holding, Approving, SyncInv, PlanInv
<1>4. c \in Held /\ c.id = copy[r].id /\ c.status = status
  <2>1. status \in IncidentStatus /\ now \in 0..MaxTime
    BY <1>1 DEF IncidentStatus, TypeOK
  <2> HIDE DEF status
  <2> QED
    BY <1>3, <2>1 DEF Held
<1>5. status = IF Succeeded(r) THEN "RESOLVED" ELSE "FAILED"
  OBVIOUS
<1> HIDE DEF c, status
<1>6. PICK p \in Ids : p = ask[r].plan /\ p = copy[r].id
  BY <1>3 DEF Held
<1>7. /\ incidents'[p] # Nil /\ incidents'[p].status = status
      /\ \A i \in Ids : i # p => incidents'[i] = incidents[i]
  BY <1>1, <1>2, <1>4, <1>6, SaveIs
<1>8. Turn(r)
  BY <1>1, <1>2, TurnGoes DEF InFlight
<1>9. pc'[r] = "done"
  BY <1>1, <1>2 DEF Finish, Goto, TypeOK
<1>10. PlanInv(r)' /\ HeldInv(r)' /\ pc'[r] \notin Holding
  BY <1>9 DEF PlanInv, HeldInv, Loaded, Holding, Approving, Late
<1>11. StoryInv(p)'
  <2>1. PICK key \in Keys : key = ask[r].key
    BY <1>3, LateRow
  <2>2. runs[key] # Nil /\ runs[key].plan = p /\ runs[key].status = Outcome(r)
    <3>1. runs[key] # Nil /\ runs[key].plan = p /\ runs[key].owner = r
      BY <1>3, <1>6, <2>1, LateRow
    <3> QED
      BY <1>2, <3>1 DEF IInv, RunInv
  <2>3. {k \in Keys : runs[k] # Nil /\ runs[k].plan = p} = {key}
    BY <1>3, <2>2 DEF OneRunPerPlan
  <2>4. Outcomes(p) = {Outcome(r)}
    BY <2>2, <2>3 DEF Outcomes
  <2>5. plans[p].status = IF Succeeded(r) THEN "SUCCEEDED" ELSE "FAILED"
    BY <1>2, <1>3, <1>6 DEF PlanInv
  <2>6. Outcomes(p)' = {Outcome(r)}
    BY <1>2, <2>4 DEF Outcomes
  <2>7. Outcome(r) = "SUCCEEDED" <=> Succeeded(r)
    BY DEF Outcome
  <2>8. Outcome(r) \in {"SUCCEEDED", "ROLLED_BACK", "FAILED"}
    BY DEF Outcome
  <2>9. <<plans'[p].status, status, Outcomes(p)'>> \in InStep /\ status \in IncidentStatus
    BY <1>2, <1>5, <2>5, <2>6, <2>7, <2>8 DEF InStep, IncidentStatus
  <2>10. incidents'[p].status \in Fitting(p)'
    BY <1>7, <2>9 DEF Fitting
  <2> QED
    BY <2>10 DEF StoryInv
<1>12. \A i \in Ids : StoryInv(i)'
  <2>1. \A i \in Ids : i # p => StoryInv(i)'
    BY <1>2, <1>6, <1>7, <1>8, OtherStories
  <2> QED
    BY <1>11, <2>1
<1>13. incidents[p] # Nil
  BY <1>1, <1>3, <1>6 DEF RowsInv
<1>14. \A s \in Signals : incidents[s] = Nil => incidents'[s] = Nil
  BY <1>7, <1>13 DEF Ids
<1>15. (\A i \in Ids : incidents[i] # Nil => incidents'[i] # Nil) /\ OneRunPerPlan'
  BY <1>2, <1>3, <1>7 DEF OneRunPerPlan
<1> QED
  BY <1>1, <1>2, <1>3, <1>8, <1>10, <1>12, <1>14, <1>15, TurnEnds DEF RowsInv

-----------------------------------------------------------------------------
(* Failures and evidence threads                                            *)

(* A failed call or a crash ends the turn and breaks the plan.              *)
LEMMA FaultSync ==
    ASSUME IInv, SyncInv, Tick \/ Forget \/ (\E x \in Actors : Raise(x)) \/ \E h \in Procs : Crash(h)
    PROVE  SyncInv'
<1> USE DEF tables, locals
<1>1. UNCHANGED <<incidents, plans, runs, at, ask, copy, draft, log, healthy>>
  BY DEF Tick, Forget, Raise, Crash
<1>2. \A y \in Actors :
         \/ pc'[y] = pc[y] /\ reply'[y] = reply[y]
         \/ InFlight(y) /\ pc'[y] = "done" /\ reply'[y] \in {"error", "lost"}
  BY DEF Tick, Forget, Raise, Crash, Finish, Goto, IInv, TypeOK
<1>3. Loop \subseteq Actors /\ Reqs \subseteq Loop /\ Signals \subseteq Loop
      /\ Collectors \subseteq Actors
  BY DEF Loop, Actors
<1>4. TurnInv'
  <2>1. \A y \in Loop : InFlight(y)' => InFlight(y)
    BY <1>2, <1>3 DEF InFlight
  <2> QED
    BY <1>1, <1>2, <1>3, <2>1 DEF SyncInv, TurnInv
<1>5. RowsInv'
  BY <1>1, <1>2, <1>3 DEF SyncInv, RowsInv, InFlight, Holding, Approving, Late
<1>6. \A r \in Reqs : Succeeded(r)' = Succeeded(r)
  BY <1>1, SameLog
<1>7. ASSUME NEW r \in Reqs PROVE PlanInv(r)'
  <2>1. PlanInv(r)
    BY DEF SyncInv
  <2>2. CASE pc'[r] = pc[r]
    BY <1>1, <1>6, <2>1, <2>2 DEF PlanInv, NoRun
  <2>3. CASE pc'[r] = "done"
    BY <2>3 DEF PlanInv, Loaded, Holding, Approving, Late
  <2> QED
    BY <1>2, <1>3, <2>2, <2>3
<1>8. ASSUME NEW p \in Ids
      PROVE  /\ Fitting(p)' = Fitting(p) /\ PutBack(p) \subseteq PutBack(p)'
             /\ Broken(p) => Broken(p)'
  <2>1. Fitting(p)' = Fitting(p)
    BY <1>1, FittingKept
  <2>2. \A c \in Collectors : reply[c] = "attached" => reply'[c] = "attached" /\ copy'[c] = copy[c]
    BY <1>1, <1>2, <1>3 DEF SyncInv, RowsInv, InFlight
  <2>3. PutBack(p) \subseteq PutBack(p)'
    BY <2>2 DEF PutBack
  <2>4. \A y \in Loop : reply[y] \in {"error", "lost"} => reply'[y] \in {"error", "lost"}
    BY <1>2, <1>3
  <2>5. Broken(p) => Broken(p)'
    BY <1>1, <1>3, <2>4 DEF Broken
  <2> QED
    BY <2>1, <2>3, <2>5
<1>9. ASSUME NEW y \in Loop PROVE HeldInv(y)'
  <2>1. CASE pc'[y] = pc[y]
    BY <1>1, <1>8, <2>1 DEF SyncInv, HeldInv
  <2>2. CASE pc'[y] = "done"
    BY <2>2 DEF HeldInv, Holding, Approving, Late
  <2> QED
    BY <1>2, <1>3, <2>1, <2>2
<1>10. ASSUME NEW p \in Ids PROVE StoryInv(p)'
  <2>1. PutBack(p) \subseteq PutBack(p)' /\ (Broken(p) => Broken(p)')
    BY <1>8
  <2>3. ASSUME NEW r \in Reqs, pc[r] \in Changing, ask[r].plan = p
        PROVE  (pc'[r] \in Changing /\ ask'[r].plan = p) \/ Broken(p)'
    <3>1. ask[r] # Nil
      BY <1>3, <2>3, NilAssumption DEF IInv, KnowInv, Knows, Changing, Late
    <3> QED
      BY <1>1, <1>2, <1>3, <2>3, <3>1 DEF Broken
  <2> QED
    BY <1>1, <2>1, <2>3, StoryKept DEF SyncInv
<1>11. OneRunPerPlan' /\ OneProcess'
  BY <1>1 DEF SyncInv, OneRunPerPlan, OneProcess
<1> QED
  BY <1>4, <1>5, <1>7, <1>9, <1>10, <1>11 DEF SyncInv

(* The evidence there is, in rows and copies; a thread that has not saved   *)
(* has none of its own there.                                               *)
Seen == (UNION {incidents[i].evidence : i \in {j \in Ids : incidents[j] # Nil}})
        \cup (UNION {copy[x].evidence : x \in {y \in Actors : copy[y] \in Held}})
FreshInv == \A c \in Collectors : pc[c] \in {"idle", "query"} => c \notin Seen

(* What a step adds to it bears the name of who saves it.                   *)
LEMMA FreshKept ==
    ASSUME FreshInv, NEW new,
           \A c \in Collectors : pc'[c] \in {"idle", "query"} =>
             pc[c] \in {"idle", "query"} /\ c \notin new,
           \A i \in Ids : incidents'[i] # Nil => incidents'[i].evidence \subseteq Seen \cup new,
           \A x \in Actors : copy'[x] \in Held => copy'[x].evidence \subseteq Seen \cup new
    PROVE  FreshInv'
<1>1. Seen' \subseteq Seen \cup new
  BY DEF Seen
<1> QED
  BY <1>1 DEF FreshInv

LEMMA SeenIs ==
    /\ \A i \in Ids : incidents[i] # Nil => incidents[i].evidence \subseteq Seen
    /\ \A x \in Actors : copy[x] \in Held => copy[x].evidence \subseteq Seen
  BY DEF Seen

LEMMA FreshStays ==
    ASSUME FreshInv,
           \A c \in Collectors : pc'[c] \in {"idle", "query"} => pc[c] \in {"idle", "query"},
           \A i \in Ids : incidents'[i] # Nil => incidents'[i].evidence \subseteq Seen,
           \A x \in Actors : copy'[x] \in Held => copy'[x].evidence \subseteq Seen
    PROVE  FreshInv'
<1>1. Seen' \subseteq Seen
  BY DEF Seen
<1> QED
  BY <1>1 DEF FreshInv

LEMMA FreshStep == IInv /\ FreshInv /\ [Next]_vars => FreshInv'
<1> SUFFICES ASSUME IInv, FreshInv, [Next]_vars PROVE FreshInv'
  OBVIOUS
<1> USE DEF tables, locals
<1>1. TypeOK /\ Reqs \subseteq Actors /\ Signals \subseteq Actors /\ Collectors \subseteq Actors
      /\ Signals \subseteq Ids
      /\ \A c \in Collectors : c \notin Reqs /\ c \notin Signals
  BY NilAssumption DEF IInv, Actors, Ids
<1>2. ASSUME incidents' = incidents, copy' = copy,
             \A c \in Collectors : pc'[c] \in {"idle", "query"} => pc[c] \in {"idle", "query"}
      PROVE  FreshInv'
  <2>1. Seen' = Seen
    BY <1>2 DEF Seen
  <2> QED
    BY <1>2, <2>1 DEF FreshInv
(* A copy is taken.                                                         *)
<1>3. ASSUME NEW x \in Actors, NEW i \in Ids, Read(x, i), incidents[i] # Nil,
             incidents' = incidents,
             \A c \in Collectors : pc'[c] \in {"idle", "query"} => pc[c] \in {"idle", "query"}
      PROVE  FreshInv'
  <2>1. copy'[x].evidence = incidents[i].evidence /\ \A y \in Actors : y # x => copy'[y] = copy[y]
    BY <1>1, <1>3, ReadIs, ReadType
  <2>2. \A y \in Actors : copy'[y] \in Held => copy'[y].evidence \subseteq Seen
    BY <1>3, <2>1, SeenIs
  <2>3. \A j \in Ids : incidents'[j] # Nil => incidents'[j].evidence \subseteq Seen
    BY <1>3, SeenIs
  <2> QED
    BY <1>3, <2>2, <2>3, FreshStays
(* A copy is saved, with the evidence of who saves it.                      *)
<1>4. ASSUME NEW x \in Actors, NEW c \in Held, SaveIncident(c), copy[x] \in Held,
             c.evidence \subseteq copy[x].evidence \cup {x}, copy' = copy, pc'[x] = "done" \/ x \notin Collectors,
             \A d \in Collectors : pc'[d] \in {"idle", "query"} => pc[d] \in {"idle", "query"}
      PROVE  FreshInv'
  <2>1. incidents'[c.id].evidence = c.evidence
        /\ \A j \in Ids : j # c.id => incidents'[j] = incidents[j]
    BY <1>1, <1>4, SaveIs
  <2>2. \A j \in Ids : incidents'[j] # Nil => incidents'[j].evidence \subseteq Seen \cup {x}
    BY <1>4, <2>1, SeenIs
  <2>3. \A y \in Actors : copy'[y] \in Held => copy'[y].evidence \subseteq Seen \cup {x}
    BY <1>4, SeenIs
  <2>4. \A d \in Collectors : pc'[d] \in {"idle", "query"} =>
          pc[d] \in {"idle", "query"} /\ d \notin {x}
    BY <1>4
  <2> QED
    BY <2>2, <2>3, <2>4, FreshKept
<1>5. ASSUME NEW s \in Signals, SignalStep(s) \/ \E h \in Procs : Detect(s, h) PROVE FreshInv'
  <2>1. \A c \in Collectors : pc'[c] = pc[c]
    BY <1>1, <1>5 DEF SignalStep, Merge, Open, Propose, Detect, Finish, Goto, TypeOK
  <2>2. CASE Merge(s)
    <3> DEFINE d == [copy[s] EXCEPT !.evidence = @ \cup {s}, !.updated = now]
    <3>1. copy[s] \in Held
      BY <1>1, <2>2 DEF Merge, IInv, KnowInv, Holds, Holding
    <3>2. d \in Held /\ d.evidence = copy[s].evidence \cup {s} /\ SaveIncident(d) /\ copy' = copy
      BY <1>1, <2>2, <3>1 DEF Merge, Held, TypeOK, Evidence, Actors
    <3> HIDE DEF d
    <3> QED
      BY <1>1, <1>4, <2>1, <3>1, <3>2
  <2>3. CASE Open(s)
    <3>1. PICK d \in Held : /\ copy' = [copy EXCEPT ![s] = d] /\ SaveIncident(copy'[s])
                            /\ d.evidence = {s}
      <4> DEFINE status == IF Asset[s] \in RealAssets /\ Mode = "observe_only"
                             THEN "OPEN" ELSE "WAITING_APPROVAL"
                 d == [id |-> s, status |-> status, updated |-> now, evidence |-> {s}]
      <4>1. status \in IncidentStatus
        BY DEF IncidentStatus
      <4>2. copy' = [copy EXCEPT ![s] = d] /\ SaveIncident(copy'[s])
        BY <2>3 DEF Open
      <4> HIDE DEF status
      <4>3. d \in Held /\ d.evidence = {s}
        BY <1>1, <4>1 DEF Held, TypeOK, Evidence
      <4> QED
        BY <4>2, <4>3
    <3>2. copy'[s] = d /\ \A y \in Actors : y # s => copy'[y] = copy[y]
      BY <1>1, <3>1 DEF TypeOK
    <3>3. incidents'[d.id].evidence = {s} /\ \A j \in Ids : j # d.id => incidents'[j] = incidents[j]
      BY <1>1, <3>1, <3>2, SaveIs
    <3>4. \A j \in Ids : incidents'[j] # Nil => incidents'[j].evidence \subseteq Seen \cup {s}
      BY <3>3, SeenIs
    <3>5. \A y \in Actors : copy'[y] \in Held => copy'[y].evidence \subseteq Seen \cup {s}
      BY <3>1, <3>2, SeenIs
    <3> QED
      BY <1>1, <2>1, <3>4, <3>5, FreshKept
  <2>4. CASE Propose(s)
    BY <1>2, <2>1, <2>4 DEF Propose
  <2>5. ASSUME NEW h \in Procs, Detect(s, h) PROVE FreshInv'
    <3>1. CASE \E i \in Latest(Matches(s)) : Read(s, i)
      BY <1>1, <1>3, <2>1, <2>5, <3>1 DEF Detect, Latest, Matches
    <3>2. CASE UNCHANGED copy
      BY <1>2, <2>1, <2>5, <3>2 DEF Detect
    <3> QED
      BY <2>5, <3>1, <3>2 DEF Detect
  <2> QED
    BY <1>5, <2>2, <2>3, <2>4, <2>5 DEF SignalStep
<1>6. ASSUME NEW r \in Reqs, ApprovalStep(r) \/ \E h \in Procs, q \in Requests : Route(r, h, q)
      PROVE  FreshInv'
  <2>1. \A c \in Collectors : pc'[c] = pc[c]
    BY <1>1, <1>6 DEF ApprovalStep, Route, LookUp, LoadPlan, LoadIncident, Expire, Approve, MarkPlan,
       MarkIncident, InsertRun, MarkExecuting, Perform, Verify, Undo, SaveRun, SavePlanEnd,
       SaveIncidentEnd, Finish, Goto, TypeOK
  <2>2. CASE LoadIncident(r)
    <3>1. /\ incidents' = incidents
          /\ \/ copy' = copy
             \/ incidents[ask[r].plan] # Nil /\ Read(r, ask[r].plan)
      BY <2>2 DEF LoadIncident
    <3>2. ask[r].plan \in Ids
      BY <1>1, <2>2 DEF LoadIncident, IInv, KnowInv, Knows, RequestType
    <3> QED
      BY <1>1, <1>2, <1>3, <2>1, <3>1, <3>2
  <2>3. CASE Approve(r)
    <3>1. copy[r] \in Held
      BY <1>1, <2>3 DEF Approve, IInv, KnowInv, Holds, Holding
    <3>2. /\ incidents' = incidents
          /\ \/ copy' = copy
             \/ copy' = [copy EXCEPT ![r].status = "REMEDIATING", ![r].updated = now]
      BY <2>3 DEF Approve
    <3>3. copy'[r].evidence = copy[r].evidence /\ \A y \in Actors : y # r => copy'[y] = copy[y]
      BY <1>1, <3>1, <3>2 DEF TypeOK, Held
    <3>4. \A y \in Actors : copy'[y] \in Held => copy'[y].evidence \subseteq Seen
      BY <1>1, <3>1, <3>3, SeenIs
    <3>5. \A j \in Ids : incidents'[j] # Nil => incidents'[j].evidence \subseteq Seen
      BY <3>2, SeenIs
    <3> QED
      BY <2>1, <3>4, <3>5, FreshStays
  <2>4. CASE MarkIncident(r)
    <3>1. copy[r] \in Held /\ SaveIncident(copy[r]) /\ copy' = copy
      BY <1>1, <2>4 DEF MarkIncident, IInv, KnowInv, Holds, Holding, Approving
    <3> QED
      BY <1>1, <1>4, <2>1, <3>1
  <2>5. CASE SaveIncidentEnd(r)
    <3> DEFINE status == IF Succeeded(r) THEN "RESOLVED" ELSE "FAILED"
               d == [copy[r] EXCEPT !.status = status, !.updated = now]
    <3>1. copy[r] \in Held /\ SaveIncident(d) /\ copy' = copy
      BY <1>1, <2>5 DEF SaveIncidentEnd, IInv, KnowInv, Holds, Holding, Approving, Late
    <3>2. status \in IncidentStatus
      BY DEF IncidentStatus
    <3> HIDE DEF status
    <3>3. d \in Held /\ d.evidence = copy[r].evidence
      BY <1>1, <3>1, <3>2 DEF Held, TypeOK
    <3> HIDE DEF d
    <3> QED
      BY <1>1, <1>4, <2>1, <3>1, <3>3
  <2>6. \/ incidents' = incidents /\ copy' = copy
        \/ LoadIncident(r) \/ Approve(r) \/ MarkIncident(r) \/ SaveIncidentEnd(r)
    BY <1>6 DEF ApprovalStep, Route, LookUp, LoadPlan, Expire, MarkPlan, InsertRun, MarkExecuting,
       Perform, Verify, Undo, SaveRun, SavePlanEnd
  <2> QED
    BY <1>2, <2>1, <2>2, <2>3, <2>4, <2>5, <2>6
<1>7. ASSUME NEW c \in Collectors, Attach(c) \/ \E h \in Procs, i \in Ids : Collect(c, h, i)
      PROVE  FreshInv'
  <2>1. \A d \in Collectors : pc'[d] \in {"idle", "query"} => pc[d] \in {"idle", "query"}
    BY <1>1, <1>7 DEF Attach, Collect, Finish, Goto, TypeOK
  <2>2. CASE Attach(c)
    <3> DEFINE d == [copy[c] EXCEPT !.evidence = @ \cup {c}]
    <3>1. copy[c] \in Held /\ pc'[c] = "done"
      BY <1>1, <2>2 DEF Attach, IInv, KnowInv, Holds, Holding, Finish, Goto, TypeOK
    <3>2. d \in Held /\ d.evidence = copy[c].evidence \cup {c} /\ SaveIncident(d) /\ copy' = copy
      BY <1>1, <2>2, <3>1 DEF Attach, Held, Evidence, Actors
    <3> HIDE DEF d
    <3> QED
      BY <1>1, <1>4, <2>1, <3>1, <3>2
  <2>3. ASSUME NEW h \in Procs, NEW i \in Ids, Collect(c, h, i) PROVE FreshInv'
    BY <1>1, <1>3, <2>1, <2>3 DEF Collect
  <2> QED
    BY <1>7, <2>2, <2>3
<1>8. CASE Tick \/ Forget \/ (\E x \in Actors : Raise(x)) \/ (\E h \in Procs : Crash(h))
  <2>1. incidents' = incidents /\ copy' = copy
    BY <1>8 DEF Tick, Forget, Raise, Crash
  <2>2. \A c \in Collectors : pc'[c] = pc[c] \/ pc'[c] = "done"
    BY <1>1, <1>8 DEF Tick, Forget, Raise, Crash, Finish, Goto, TypeOK
  <2> QED
    BY <1>2, <2>1, <2>2
<1>9. CASE UNCHANGED vars
  BY <1>2, <1>9 DEF vars
<1> QED
  BY <1>5, <1>6, <1>7, <1>8, <1>9 DEF Next

(* An evidence thread puts back a status it had read, and its evidence is   *)
(* in no other copy.                                                        *)
LEMMA EvidenceSync ==
    ASSUME IInv, FreshInv, SyncInv, NEW c \in Collectors,
           Attach(c) \/ \E h \in Procs, i \in Ids : Collect(c, h, i)
    PROVE  SyncInv'
<1> USE DEF tables, locals
<1>1. /\ c \in Actors /\ TypeOK /\ c \notin Loop /\ Loop \subseteq Actors
      /\ Reqs \subseteq Loop /\ Signals \subseteq Loop /\ Collectors \subseteq Actors
  BY NilAssumption DEF Actors, IInv, Loop
<1>2. UNCHANGED <<plans, runs, ask, draft, log, healthy>>
  BY DEF Attach, Collect
<1>3. \A y \in Actors : y # c =>
        pc'[y] = pc[y] /\ reply'[y] = reply[y] /\ copy'[y] = copy[y] /\ at'[y] = at[y]
  BY <1>1 DEF Attach, Collect, Finish, Goto, Read, TypeOK
<1>4. /\ reply[c] = "attached" => reply'[c] = "attached" /\ copy'[c] = copy[c]
      /\ pc'[c] \in {"query", "done"}
      /\ pc'[c] = "query" => incidents'[copy'[c].id] # Nil
      /\ reply'[c] = "attached" => pc'[c] = "done"
      /\ \A i \in Ids : incidents[i] # Nil => incidents'[i] # Nil
      /\ \A i \in Ids : incidents[i] = Nil => incidents'[i] = Nil
      /\ \A i \in Ids :
           \/ incidents'[i] = incidents[i]
           \/ /\ incidents'[i].status \in PutBack(i)'
              /\ c \in incidents'[i].evidence /\ pc[c] = "query"
  <2>1. CASE Attach(c)
    <3> DEFINE d == [copy[c] EXCEPT !.evidence = @ \cup {c}]
    <3>1. pc[c] = "query" /\ SaveIncident(d) /\ Finish(c, "attached") /\ copy' = copy
      BY <2>1 DEF Attach
    <3>2. copy[c] \in Held
      BY <1>1, <3>1 DEF IInv, KnowInv, Holds, Holding
    <3>3. d \in Held /\ d.id = copy[c].id /\ d.status = copy[c].status /\ c \in d.evidence
      BY <1>1, <3>2 DEF Held, Evidence, Actors
    <3> HIDE DEF d
    <3>4. PICK p \in Ids : p = copy[c].id
      BY <3>2 DEF Held
    <3>5. /\ incidents'[p] # Nil /\ incidents'[p].status = copy[c].status
          /\ c \in incidents'[p].evidence
          /\ \A i \in Ids : i # p => incidents'[i] = incidents[i]
      BY <1>1, <3>1, <3>3, <3>4, SaveIs
    <3>6. incidents[p] # Nil
      BY <1>1, <3>1, <3>4 DEF SyncInv, RowsInv, Holding
    <3>7. pc'[c] = "done" /\ reply'[c] = "attached"
      BY <1>1, <3>1 DEF Finish, Goto, TypeOK
    <3>8. copy[c].status \in PutBack(p)'
      BY <3>1, <3>4, <3>7 DEF PutBack
    <3> QED
      BY <3>1, <3>5, <3>6, <3>7, <3>8
  <2>2. ASSUME NEW h \in Procs, NEW i \in Ids, Collect(c, h, i) PROVE <1>4!:
    <3>1. /\ pc[c] = "idle" /\ incidents[i] # Nil /\ Read(c, i) /\ Goto(c, "query")
          /\ incidents' = incidents /\ reply' = reply
      BY <2>2 DEF Collect
    <3>2. reply[c] # "attached"
      BY <3>1 DEF SyncInv, RowsInv
    <3>3. copy'[c].id = i /\ pc'[c] = "query"
      BY <1>1, <3>1, ReadIs DEF Goto, TypeOK
    <3> QED
      BY <3>1, <3>2, <3>3
  <2> QED
    BY <2>1, <2>2
<1>5. ASSUME NEW p \in Ids
      PROVE  /\ Fitting(p)' = Fitting(p) /\ PutBack(p) \subseteq PutBack(p)'
             /\ Broken(p)' = Broken(p)
  <2>1. Fitting(p)' = Fitting(p)
    BY <1>2, FittingKept
  <2>2. \A d \in Collectors : reply[d] = "attached" => reply'[d] = "attached" /\ copy'[d] = copy[d]
    BY <1>1, <1>3, <1>4
  <2>3. PutBack(p) \subseteq PutBack(p)'
    BY <2>2 DEF PutBack
  <2>4. Broken(p)' = Broken(p)
    BY <1>1, <1>2, <1>3 DEF Broken
  <2> QED
    BY <2>1, <2>3, <2>4
<1>6. TurnInv'
  BY <1>1, <1>3 DEF SyncInv, TurnInv, InFlight
<1>7. RowsInv'
  <2>1. RowsInv
    BY DEF SyncInv
  <2>2. \A s \in Signals : /\ pc'[s] = pc[s] /\ copy'[s] = copy[s] /\ s \in Ids
    BY <1>1, <1>3 DEF Ids
  <2>3. ASSUME NEW y \in Actors, pc'[y] \in Holding PROVE incidents'[copy'[y].id] # Nil
    <3>1. CASE y = c
      BY <1>4, <2>3, <3>1 DEF Holding, Approving, Late
    <3>2. CASE y # c
      <4>1. pc[y] \in Holding /\ copy'[y] = copy[y]
        BY <1>3, <2>3, <3>2
      <4>2. copy[y].id \in Ids /\ incidents[copy[y].id] # Nil
        BY <2>1, <4>1 DEF RowsInv, IInv, KnowInv, Holds, Held
      <4> QED
        BY <1>4, <4>1, <4>2
    <3> QED
      BY <3>1, <3>2
  <2>4. \A d \in Collectors :
          (pc'[d] = "idle" => copy'[d] = NoCopy) /\ (reply'[d] = "attached" => pc'[d] = "done")
    BY <1>1, <1>3, <1>4, <2>1 DEF RowsInv
  <2> QED
    BY <1>2, <1>4, <2>1, <2>2, <2>3, <2>4 DEF RowsInv
<1>8. \A r \in Reqs : Succeeded(r)' = Succeeded(r)
  BY <1>2, SameLog
<1>9. \A r \in Reqs : PlanInv(r)'
  BY <1>1, <1>2, <1>3, <1>8 DEF SyncInv, PlanInv, NoRun
<1>10. ASSUME NEW y \in Loop PROVE HeldInv(y)'
  <2>1. CASE pc[y] \in Holding
    <3>1. copy'[y] = copy[y] /\ pc'[y] = pc[y]
      BY <1>1, <1>3
    <3>2. c \notin copy[y].evidence \/ pc[c] # "query"
      <4>1. y \in Actors /\ copy[y] \in Held
        BY <1>1, <2>1 DEF IInv, KnowInv, Holds
      <4> QED
        BY <4>1, SeenIs DEF FreshInv
    <3>3. ASSUME NEW p \in Ids, copy[y].id = p, pc[y] \in Holding
          PROVE  /\ Excused(incidents'[p].evidence, copy[y].evidence)
                 /\ pc[y] = "propose" => incidents'[p].status \in {"WAITING_APPROVAL"} \cup PutBack(p)'
                 /\ pc[y] = "merge" /\ plans'[p] # Nil /\ ~Broken(p)' =>
                      copy[y].status \in Fitting(p)' \cup PutBack(p)'
      <4>1. /\ Fitting(p)' = Fitting(p) /\ PutBack(p) \subseteq PutBack(p)'
            /\ Broken(p)' = Broken(p)
        BY <1>5
      <4>2. /\ Excused(incidents[p].evidence, copy[y].evidence)
            /\ pc[y] = "propose" => incidents[p].status \in {"WAITING_APPROVAL"} \cup PutBack(p)
            /\ pc[y] = "merge" /\ plans[p] # Nil /\ ~Broken(p) =>
                 copy[y].status \in Fitting(p) \cup PutBack(p)
        BY <3>3 DEF SyncInv, HeldInv
      <4>3. Excused(incidents'[p].evidence, copy[y].evidence)
        BY <1>4, <3>2, <4>2 DEF Excused
      <4> QED
        BY <1>2, <1>4, <4>1, <4>2, <4>3
    <3> QED
      BY <3>1, <3>3 DEF HeldInv, Excused
  <2>2. CASE pc[y] \notin Holding
    BY <1>1, <1>3, <2>2 DEF HeldInv
  <2> QED
    BY <2>1, <2>2
<1>11. ASSUME NEW p \in Ids PROVE StoryInv(p)'
  <2>1. PutBack(p) \subseteq PutBack(p)' /\ Broken(p)' = Broken(p)
    BY <1>5
  <2>2. \A r \in Reqs : pc'[r] = pc[r] /\ ask'[r] = ask[r]
    BY <1>1, <1>2, <1>3
  <2>3. incidents'[p].status \in {incidents[p].status} \cup Fitting(p) \cup PutBack(p)'
    BY <1>4
  <2> QED
    BY <1>2, <2>1, <2>2, <2>3, StoryKept DEF SyncInv
<1>12. OneRunPerPlan' /\ OneProcess'
  BY <1>2 DEF SyncInv, OneRunPerPlan, OneProcess
<1> QED
  BY <1>6, <1>7, <1>9, <1>10, <1>11, <1>12 DEF SyncInv

-----------------------------------------------------------------------------
(* What one process keeps                                                   *)

LEMMA SyncStep == IInv /\ FreshInv /\ SyncInv /\ [Next]_vars => SyncInv'
<1> SUFFICES ASSUME IInv, FreshInv, SyncInv, [Next]_vars PROVE SyncInv'
  OBVIOUS
<1>1. CASE Tick \/ Forget \/ (\E x \in Actors : Raise(x)) \/ \E h \in Procs : Crash(h)
  BY <1>1, FaultSync
<1>2. ASSUME NEW r \in Reqs, ApprovalStep(r) \/ \E h \in Procs, q \in Requests : Route(r, h, q)
      PROVE  SyncInv'
  BY <1>2, RouteSync, LoadSync, ApproveSync, PlanSync, MarkIncidentSync, InsertSync, StepsSync,
     SaveRunSync, LastSaveSync DEF ApprovalStep
<1>3. ASSUME NEW s \in Signals, SignalStep(s) \/ \E h \in Procs : Detect(s, h) PROVE SyncInv'
  BY <1>3, DetectSync, MergeSync, OpenSync, ProposeSync DEF SignalStep
<1>4. ASSUME NEW c \in Collectors, Attach(c) \/ \E h \in Procs, i \in Ids : Collect(c, h, i)
      PROVE  SyncInv'
  BY <1>4, EvidenceSync
<1>5. CASE UNCHANGED vars
  <2> USE <1>5 DEF vars, tables, locals
  <2>1. TurnInv' /\ RowsInv' /\ OneRunPerPlan' /\ OneProcess'
    BY DEF SyncInv, TurnInv, InFlight, RowsInv, OneRunPerPlan, OneProcess
  <2>2. \A r \in Reqs : Succeeded(r)' = Succeeded(r)
    BY SameLog
  <2>3. \A r \in Reqs : PlanInv(r)'
    BY <2>2 DEF SyncInv, PlanInv, NoRun
  <2>4. \A p \in Ids : Fitting(p)' = Fitting(p) /\ PutBack(p)' = PutBack(p) /\ Broken(p)' = Broken(p)
    BY FittingKept DEF PutBack, Broken
  <2>5. \A x \in Loop : HeldInv(x)'
    BY <2>4 DEF SyncInv, HeldInv
  <2>6. \A p \in Ids : StoryInv(p)'
    BY <2>4 DEF SyncInv, StoryInv
  <2> QED
    BY <2>1, <2>3, <2>5, <2>6 DEF SyncInv
<1> QED
  BY <1>1, <1>2, <1>3, <1>4, <1>5 DEF Next

LEMMA InitFresh == Init => FreshInv
<1> SUFFICES ASSUME Init PROVE FreshInv
  OBVIOUS
<1>1. \A i \in Ids : incidents[i] # Nil => i \in Stored /\ incidents[i].evidence = {i}
  BY DEF Init
<1>2. \A x \in Actors : copy[x] \notin Held
  BY NilAssumption DEF Init, NoCopy, Held
<1>3. Seen \subseteq Stored
  BY <1>1, <1>2 DEF Seen
<1> QED
  BY <1>3, NilAssumption DEF FreshInv

LEMMA InitSync == Init /\ OneProcess => SyncInv
<1> SUFFICES ASSUME Init, OneProcess PROVE SyncInv
  OBVIOUS
<1>1. Loop \subseteq Actors /\ Reqs \subseteq Actors /\ Collectors \subseteq Actors
  BY DEF Loop, Actors
<1>2. /\ \A x \in Actors : pc[x] = "idle" /\ reply[x] = "none" /\ copy[x] = NoCopy
      /\ \A k \in Keys : runs[k] = Nil
  BY DEF Init
<1>3. TurnInv
  BY <1>1, <1>2 DEF TurnInv, InFlight
<1>4. \A s \in Signals : incidents[s] = Nil /\ plans[s] = Nil
  BY NilAssumption DEF Init, Ids
<1>5. RowsInv
  BY <1>1, <1>2, <1>4 DEF RowsInv, Actors, Holding, Approving, Late
<1>6. OneRunPerPlan
  BY <1>2 DEF OneRunPerPlan
<1>7. \A r \in Reqs : PlanInv(r)
  BY <1>1, <1>2 DEF PlanInv, Loaded, Holding, Approving, Late
<1>8. \A x \in Loop : HeldInv(x)
  BY <1>1, <1>2 DEF HeldInv, Holding, Approving, Late
<1>9. ASSUME NEW p \in Ids PROVE StoryInv(p)
  <2>1. CASE p \in Stored
    <3>1. plans[p].status = "PENDING_APPROVAL" /\ incidents[p].status = "WAITING_APPROVAL"
      BY <2>1 DEF Init
    <3>2. Outcomes(p) = {}
      BY <1>2 DEF Outcomes
    <3>3. incidents[p].status \in Fitting(p)
      BY <3>1, <3>2 DEF Fitting, InStep, IncidentStatus
    <3> QED
      BY <3>3 DEF StoryInv
  <2>2. CASE p \notin Stored
    BY <2>2 DEF Init, StoryInv
  <2> QED
    BY <2>1, <2>2
<1> QED
  BY <1>3, <1>5, <1>6, <1>7, <1>8, <1>9 DEF SyncInv

LEMMA OneProcessInv == OneProcess => (Spec => [](IInv /\ FreshInv /\ SyncInv))
  BY InitFresh, FreshStep, InitSync, SyncStep, Invariance, PTL DEF Spec

(* With one process, whatever fails or dies in between, a plan is executed  *)
(* under one idempotency key only: remediation_service.py:72 looks at the   *)
(* status of the plan, and only within a turn can it change unseen.         *)
THEOREM OneProcessRunsOnce == OneProcess => (Spec => []OneRunPerPlan)
<1>1. SyncInv => OneRunPerPlan
  BY DEF SyncInv
<1> QED
  BY <1>1, OneProcessInv, PTL

(* With one process, once nobody works on a plan and no call about it has   *)
(* failed, plan and run tell the same story, and so does the incident       *)
(* unless its status is one an evidence thread had read and put back        *)
(* (remediation_service.py:27).                                             *)
THEOREM OneProcessInSync == OneProcess => (Spec => []InSync)
<1>1. SyncInv => InSync
  <2> SUFFICES ASSUME SyncInv, NEW p \in Ids, Settled(p)
               PROVE  Fitting(p) # {} /\ incidents[p].status \in Fitting(p) \cup PutBack(p)
    BY DEF InSync
  <2>1. \A r \in Reqs : pc[r] \in Changing => ask[r].plan # p
    BY DEF Settled, Working, InFlight, Changing, Late
  <2> QED
    BY <2>1 DEF SyncInv, StoryInv, Settled
<1> QED
  BY <1>1, OneProcessInv, PTL

(* With one process an incident loses evidence only by the save of an       *)
(* evidence thread, or together with what such a thread has attached to it  *)
(* since the one that saves has read it.                                    *)
THEOREM OneProcessKeepsEvidence == OneProcess => (Spec => EvidenceKept)
<1>1. IInv /\ SyncInv /\ [Next]_vars =>
        [\A i \in Ids : incidents[i] # Nil /\ (\A c \in Collectors : pc'[c] = pc[c]) =>
            LET lost == incidents[i].evidence \ incidents'[i].evidence
            IN  lost = {} \/ lost \cap Collectors # {}]_vars
  <2> SUFFICES ASSUME IInv, SyncInv, [Next]_vars, NEW i \in Ids, incidents[i] # Nil,
                      \A c \in Collectors : pc'[c] = pc[c]
               PROVE  Excused(incidents[i].evidence, incidents'[i].evidence)
    BY DEF Excused
  <2> USE DEF tables, locals
  <2>1. TypeOK /\ Reqs \subseteq Loop /\ Signals \subseteq Loop /\ Loop \subseteq Actors
        /\ Collectors \subseteq Actors /\ \A x \in Loop : x \notin Collectors
    BY NilAssumption DEF IInv, Loop, Actors
  <2>2. ASSUME NEW x \in Loop, NEW c \in Held, SaveIncident(c), c.id = copy[x].id,
               pc[x] \in Holding, c.evidence \subseteq copy[x].evidence \cup {x},
               copy[x].evidence \subseteq c.evidence
        PROVE  Excused(incidents[i].evidence, incidents'[i].evidence)
    <3>1. incidents'[c.id].evidence = c.evidence
          /\ \A j \in Ids : j # c.id => incidents'[j] = incidents[j]
      BY <2>1, <2>2, SaveIs
    <3>2. CASE i = c.id
      <4>1. Excused(incidents[i].evidence, copy[x].evidence)
        BY <2>2, <3>2 DEF SyncInv, HeldInv
      <4> QED
        BY <2>1, <2>2, <3>1, <3>2, <4>1 DEF Excused
    <3>3. CASE i # c.id
      BY <3>1, <3>3 DEF Excused
    <3> QED
      BY <3>2, <3>3
  <2>3. ASSUME NEW s \in Signals, Merge(s)
        PROVE  Excused(incidents[i].evidence, incidents'[i].evidence)
    <3> DEFINE c == [copy[s] EXCEPT !.evidence = @ \cup {s}, !.updated = now]
    <3>1. pc[s] \in Holding /\ copy[s] \in Held
      BY <2>1, <2>3 DEF Merge, IInv, KnowInv, Holds, Holding
    <3>2. /\ c \in Held /\ c.id = copy[s].id /\ c.evidence = copy[s].evidence \cup {s}
          /\ SaveIncident(c)
      BY <2>1, <2>3, <3>1 DEF Merge, Held, TypeOK, Evidence, Actors
    <3> HIDE DEF c
    <3> QED
      BY <2>1, <2>2, <3>1, <3>2
  <2>4. ASSUME NEW s \in Signals, Open(s)
        PROVE  Excused(incidents[i].evidence, incidents'[i].evidence)
    <3>1. copy'[s].id = s
      BY <2>1, <2>4 DEF Open, TypeOK
    <3>2. incidents[s] = Nil
      BY <2>4 DEF Open, SyncInv, RowsInv
    <3>3. incidents' = [incidents EXCEPT ![s] = Fields(copy'[s])]
      BY <2>4, <3>1 DEF Open, SaveIncident
    <3> QED
      BY <2>1, <3>2, <3>3 DEF TypeOK, Excused
  <2>5. ASSUME NEW r \in Reqs, MarkIncident(r)
        PROVE  Excused(incidents[i].evidence, incidents'[i].evidence)
    <3>1. pc[r] \in Holding /\ copy[r] \in Held /\ SaveIncident(copy[r])
      BY <2>1, <2>5 DEF MarkIncident, IInv, KnowInv, Holds, Holding, Approving
    <3> QED
      BY <2>1, <2>2, <3>1
  <2>6. ASSUME NEW r \in Reqs, SaveIncidentEnd(r)
        PROVE  Excused(incidents[i].evidence, incidents'[i].evidence)
    <3> DEFINE status == IF Succeeded(r) THEN "RESOLVED" ELSE "FAILED"
               c == [copy[r] EXCEPT !.status = status, !.updated = now]
    <3>1. pc[r] \in Holding /\ copy[r] \in Held /\ SaveIncident(c)
      BY <2>1, <2>6 DEF SaveIncidentEnd, IInv, KnowInv, Holds, Holding, Approving, Late
    <3>2. status \in IncidentStatus
      BY DEF IncidentStatus
    <3> HIDE DEF status
    <3>3. c \in Held /\ c.id = copy[r].id /\ c.evidence = copy[r].evidence
      BY <2>1, <3>1, <3>2 DEF Held, TypeOK
    <3> HIDE DEF c
    <3> QED
      BY <2>1, <2>2, <3>1, <3>3
  <2>7. ASSUME NEW d \in Collectors, Attach(d)
        PROVE  Excused(incidents[i].evidence, incidents'[i].evidence)
    BY <2>1, <2>7 DEF Attach, Finish, Goto, TypeOK
  <2>8. CASE incidents' = incidents
    BY <2>8 DEF Excused
  <2>9. \/ incidents' = incidents
        \/ \E s \in Signals : Merge(s) \/ Open(s)
        \/ \E r \in Reqs : MarkIncident(r) \/ SaveIncidentEnd(r)
        \/ \E d \in Collectors : Attach(d)
    <3>1. ASSUME NEW r \in Reqs, ApprovalStep(r) \/ \E h \in Procs, q \in Requests : Route(r, h, q)
          PROVE  incidents' = incidents \/ MarkIncident(r) \/ SaveIncidentEnd(r)
      BY <3>1 DEF ApprovalStep, Route, LookUp, LoadPlan, LoadIncident, Expire, Approve, MarkPlan,
         InsertRun, MarkExecuting, Perform, Verify, Undo, SaveRun, SavePlanEnd
    <3>2. ASSUME NEW s \in Signals, SignalStep(s) \/ \E h \in Procs : Detect(s, h)
          PROVE  incidents' = incidents \/ Merge(s) \/ Open(s)
      BY <3>2 DEF SignalStep, Propose, Detect
    <3>3. ASSUME NEW d \in Collectors, Attach(d) \/ \E h \in Procs, j \in Ids : Collect(d, h, j)
          PROVE  incidents' = incidents \/ Attach(d)
      BY <3>3 DEF Collect
    <3>4. ASSUME Tick \/ Forget \/ (\E x \in Actors : Raise(x)) \/ (\E h \in Procs : Crash(h))
                 \/ UNCHANGED vars
          PROVE  incidents' = incidents
      BY <3>4 DEF Tick, Forget, Raise, Crash, vars
    <3> QED
      BY <3>1, <3>2, <3>3, <3>4 DEF Next
  <2> QED
    BY <2>3, <2>4, <2>5, <2>6, <2>7, <2>8, <2>9
<1> QED
  BY <1>1, OneProcessInv, PTL DEF Spec, EvidenceKept

-----------------------------------------------------------------------------
(* Remediation keeps the promise of Ledger                                  *)

(* Whoever takes back steps has done one.                                   *)
UndoInv == \A r \in Reqs : pc[r] = "undo" => log[r] # <<>>

Both == IInv /\ UndoInv

(* A request that came has asked for its plan under its key.                *)
LEMMA AskedIs ==
    ASSUME IInv, NEW r \in Reqs, pc[r] # "idle"
    PROVE  /\ ask[r] \in RequestType /\ ask[r].key \in Keys /\ ask[r].plan \in Ids
           /\ Asked[r] = [plan |-> ask[r].plan, key |-> ask[r].key] /\ Asked[r] # Nil
<1>1. ask[r] \in RequestType
  BY DEF IInv, KnowInv, Knows
<1>2. ask[r].key \in Keys /\ ask[r].plan \in Ids
  BY <1>1 DEF RequestType
<1>3. Asked[r] = [plan |-> ask[r].plan, key |-> ask[r].key]
  BY DEF Asked
<1> QED
  BY <1>1, <1>2, <1>3, NilAssumption

(* What a step leaves alone of what Ledger sees.                            *)
LEMMA AskedSame ==
    ASSUME ask' = ask, \A r \in Reqs : pc'[r] = "idle" <=> pc[r] = "idle"
    PROVE  Asked' = Asked
  BY DEF Asked

LEMMA ToldSame ==
    ASSUME \A r \in Reqs : reply'[r] = reply[r] \/ (reply'[r] \notin Final /\ reply[r] \notin Final)
    PROVE  Told' = Told
  BY DEF Told

LEMMA ActedSame ==
    ASSUME log' = log
    PROVE  Acted' = Acted
  BY DEF Acted

(* Nobody who is under way was told a result.                               *)
LEMMA NotTold ==
    ASSUME IInv, NEW r \in Reqs, pc[r] # "done"
    PROVE  reply[r] \notin Final /\ Told[r] = "none"
  BY DEF IInv, ReqInv, ReplyInv, Told

(* A step that only moves on is a stutter.                                  *)
LEMMA Stutter ==
    ASSUME IInv, ask' = ask, approvals' = approvals, runs' = runs, log' = log,
           \A r \in Reqs : pc'[r] = "idle" <=> pc[r] = "idle",
           \A r \in Reqs : \/ reply'[r] = reply[r]
                           \/ reply'[r] \notin Final /\ pc[r] # "done"
    PROVE  UNCHANGED Promise!vars
<1>1. Told' = Told
  BY NotTold, ToldSame
<1> QED
  BY <1>1, AskedSame, ActedSame DEF Promise!vars

(* One actor that came before moves on, without a result.                   *)
LEMMA MovesOn ==
    ASSUME IInv, NEW x \in Actors, x \in Reqs => pc[x] # "idle" /\ pc[x] # "done",
           ask' = ask, approvals' = approvals, runs' = runs, log' = log,
           \/ \E stage \in Stages \ {"idle"} : Goto(x, stage) /\ reply' = reply
           \/ \E a \in Replies \ Final : Finish(x, a)
    PROVE  UNCHANGED Promise!vars
<1>1. pc \in [Actors -> Stages] /\ reply \in [Actors -> Replies] /\ Reqs \subseteq Actors
  BY DEF IInv, TypeOK, Actors
<1>2. \A r \in Reqs : r # x => pc'[r] = pc[r] /\ reply'[r] = reply[r]
  BY <1>1 DEF Goto, Finish
<1>3. /\ pc'[x] # "idle"
      /\ reply'[x] = reply[x] \/ reply'[x] \notin Final
  BY <1>1 DEF Goto, Finish
<1> QED
  BY <1>2, <1>3, Stutter

(* Whoever is told a result is told that of the row of its key.             *)
LEMMA Tells ==
    ASSUME IInv, NEW r \in Reqs, pc[r] # "idle", pc[r] # "done",
           NEW k, k = ask[r].key, runs[k] # Nil,
           NEW a \in Final, a = runs[k].status, Finish(r, a),
           ask' = ask, approvals' = approvals, runs' = runs, log' = log
    PROVE  Promise!Next
<1>1. pc \in [Actors -> Stages] /\ reply \in [Actors -> Replies] /\ Reqs \subseteq Actors
  BY DEF IInv, TypeOK, Actors
<1>2. /\ \A q \in Reqs : q # r => pc'[q] = pc[q] /\ reply'[q] = reply[q]
      /\ pc'[r] = "done" /\ reply'[r] = a
  BY <1>1 DEF Finish, Goto
<1>3. Asked' = Asked
  BY <1>2, AskedSame
<1>4. Told' = [Told EXCEPT ![r] = a]
  BY <1>2 DEF Told
<1>5. Told[r] = "none" /\ Asked[r] # Nil /\ Asked[r].key = k
  <2>1. Told[r] = "none"
    BY NotTold
  <2>2. Asked[r] = [plan |-> ask[r].plan, key |-> ask[r].key] /\ Asked[r] # Nil
    BY AskedIs
  <2> QED
    BY <2>1, <2>2
<1>6. Promise!Tell(r)
  BY <1>3, <1>4, <1>5, ActedSame DEF Promise!Tell, Promise!Results, Final
<1> QED
  BY <1>6 DEF Promise!Next

(* A faultless step of someone whose log Ledger does not see.               *)
LEMMA OutsideMaps ==
    ASSUME IInv,
           \/ \E s \in Signals : SignalStep(s) \/ \E h \in Procs : Detect(s, h)
           \/ \E c \in Collectors : Attach(c) \/ \E h \in Procs, i \in Ids : Collect(c, h, i)
    PROVE  UNCHANGED Promise!vars
<1> USE DEF tables, locals
<1>1. ASSUME NEW s \in Signals, SignalStep(s) \/ \E h \in Procs : Detect(s, h)
      PROVE  UNCHANGED Promise!vars
  <2>1. s \in Actors /\ s \notin Reqs
    BY NilAssumption DEF Actors
  <2>2. ask' = ask /\ approvals' = approvals /\ runs' = runs /\ log' = log
    BY <1>1 DEF SignalStep, Merge, Open, Propose, Detect
  <2>3. \/ \E stage \in Stages \ {"idle"} : Goto(s, stage) /\ reply' = reply
        \/ \E a \in Replies \ Final : Finish(s, a)
    <3>1. CASE Merge(s)
      BY <3>1 DEF Merge, Replies, Final
    <3>2. CASE Open(s)
      BY <3>2 DEF Open, Replies, Final, Stages
    <3>3. CASE Propose(s)
      BY <3>3 DEF Propose, Replies, Final
    <3>4. CASE \E h \in Procs : Detect(s, h)
      BY <3>4 DEF Detect, Stages
    <3> QED
      BY <1>1, <3>1, <3>2, <3>3, <3>4 DEF SignalStep
  <2> QED
    BY <2>1, <2>2, <2>3, MovesOn
<1>2. ASSUME NEW c \in Collectors, Attach(c) \/ \E h \in Procs, i \in Ids : Collect(c, h, i)
      PROVE  UNCHANGED Promise!vars
  <2>1. c \in Actors /\ c \notin Reqs
    BY NilAssumption DEF Actors
  <2>2. ask' = ask /\ approvals' = approvals /\ runs' = runs /\ log' = log
    BY <1>2 DEF Attach, Collect
  <2>3. \/ \E stage \in Stages \ {"idle"} : Goto(c, stage) /\ reply' = reply
        \/ \E a \in Replies \ Final : Finish(c, a)
    BY <1>2 DEF Attach, Collect, Replies, Final, Stages
  <2> QED
    BY <2>1, <2>2, <2>3, MovesOn
<1> QED
  BY <1>1, <1>2

LEMMA FaultMaps ==
    ASSUME IInv, Tick \/ Forget \/ (\E x \in Actors : Raise(x)) \/ \E h \in Procs : Crash(h)
    PROVE  UNCHANGED Promise!vars
<1> USE DEF tables, locals
<1>1. pc \in [Actors -> Stages] /\ reply \in [Actors -> Replies] /\ Reqs \subseteq Actors
  BY DEF IInv, TypeOK, Actors
<1>2. ask' = ask /\ approvals' = approvals /\ runs' = runs /\ log' = log
  BY DEF Tick, Forget, Raise, Crash
<1>3. ASSUME NEW r \in Reqs
      PROVE  /\ pc'[r] = "idle" <=> pc[r] = "idle"
             /\ \/ reply'[r] = reply[r]
                \/ reply'[r] \notin Final /\ pc[r] # "done"
  <2>1. CASE Tick \/ Forget
    BY <2>1 DEF Tick, Forget
  <2>2. CASE \E x \in Actors : Raise(x)
    <3>1. PICK x \in Actors : Raise(x)
      BY <2>2
    <3>2. /\ pc' = [pc EXCEPT ![x] = "done"] /\ reply' = [reply EXCEPT ![x] = "error"]
          /\ pc[x] # "idle" /\ pc[x] # "done"
      BY <3>1 DEF Raise, Finish, Goto, InFlight
    <3> QED
      BY <1>1, <1>3, <3>2 DEF Final
  <2>3. CASE \E h \in Procs : Crash(h)
    <3>1. PICK h \in Procs : Crash(h)
      BY <2>3
    <3>2. /\ pc'[r] = IF InFlight(r) /\ at[r] = h THEN "done" ELSE pc[r]
          /\ reply'[r] = IF InFlight(r) /\ at[r] = h THEN "lost" ELSE reply[r]
      BY <1>1, <1>3, <3>1 DEF Crash
    <3> QED
      BY <3>2 DEF InFlight, Final
  <2> QED
    BY <2>1, <2>2, <2>3
<1> QED
  BY <1>2, <1>3, Stutter

(* A request moves on or is answered without a result.                      *)
LEMMA SilentMaps ==
    ASSUME IInv, NEW r \in Reqs,
           \/ LoadPlan(r) \/ LoadIncident(r) \/ Expire(r) \/ MarkPlan(r) \/ MarkIncident(r)
           \/ MarkExecuting(r) \/ SavePlanEnd(r) \/ \E ok \in BOOLEAN : Verify(r, ok)
    PROVE  UNCHANGED Promise!vars
<1> USE DEF tables, locals
<1>1. r \in Actors /\ pc[r] # "idle" /\ pc[r] # "done"
  BY DEF Actors, LoadPlan, LoadIncident, Expire, MarkPlan, MarkIncident, MarkExecuting,
         SavePlanEnd, Verify
<1>2. ask' = ask /\ approvals' = approvals /\ runs' = runs /\ log' = log
  BY DEF LoadPlan, LoadIncident, Expire, MarkPlan, MarkIncident, MarkExecuting,
         SavePlanEnd, SavePlan, Verify
<1>3. \/ \E stage \in Stages \ {"idle"} : Goto(r, stage) /\ reply' = reply
      \/ \E a \in Replies \ Final : Finish(r, a)
  <2>1. CASE LoadIncident(r)
    <3>1. Refusal(r) \in Replies \ Final
      BY DEF Refusal, Replies, Final
    <3>2. "not_found" \in Replies \ Final /\ "approve" \in Stages \ {"idle"}
          /\ "expire" \in Stages \ {"idle"}
      BY DEF Replies, Final, Stages
    <3>3. CASE incidents[ask[r].plan] = Nil
      BY <2>1, <3>2, <3>3 DEF LoadIncident
    <3>4. CASE incidents[ask[r].plan] # Nil
      <4>1. CASE Refusal(r) = "none"
        BY <2>1, <3>2, <3>4, <4>1 DEF LoadIncident
      <4>2. CASE Refusal(r) = "expired"
        BY <2>1, <3>2, <3>4, <4>2 DEF LoadIncident
      <4>3. CASE Refusal(r) # "none" /\ Refusal(r) # "expired"
        BY <2>1, <3>1, <3>4, <4>3 DEF LoadIncident
      <4> QED
        BY <4>1, <4>2, <4>3
    <3> QED
      BY <3>3, <3>4
  <2>2. CASE Expire(r)
    BY <2>2 DEF Expire, Replies, Final
  <2>3. CASE LoadPlan(r) \/ MarkPlan(r) \/ MarkIncident(r) \/ MarkExecuting(r) \/ SavePlanEnd(r)
    BY <2>3 DEF LoadPlan, MarkPlan, MarkIncident, MarkExecuting, SavePlanEnd, Stages
  <2>4. CASE \E ok \in BOOLEAN : Verify(r, ok)
    BY <2>4 DEF Verify, Stages
  <2> QED
    BY <2>1, <2>2, <2>3, <2>4
<1> QED
  BY <1>1, <1>2, <1>3, MovesOn

LEMMA RouteMaps ==
    ASSUME IInv, NEW r \in Reqs, NEW h \in Procs, NEW q \in Requests, Route(r, h, q)
    PROVE  Promise!Next
<1> USE DEF tables, locals
<1>1. /\ pc \in [Actors -> Stages] /\ reply \in [Actors -> Replies] /\ r \in Actors
      /\ Reqs \subseteq Actors /\ ask \in [Reqs -> Requests \cup {Nil}]
  BY DEF IInv, TypeOK, Actors
<1>2. /\ pc[r] = "idle" /\ ask' = [ask EXCEPT ![r] = q]
      /\ UNCHANGED <<approvals, runs, log>>
  BY DEF Route
<1>3. /\ \A x \in Reqs : x # r => pc'[x] = pc[x] /\ reply'[x] = reply[x]
      /\ pc'[r] # "idle"
      /\ reply'[r] = reply[r] \/ reply'[r] \notin Final
  BY <1>1 DEF Route, Finish, Goto, Final
<1>4. q.plan \in Ids /\ q.key \in Keys
  BY RemediationAssumption DEF RequestType
<1>5. Asked' = [Asked EXCEPT ![r] = [plan |-> q.plan, key |-> q.key]] /\ Asked[r] = Nil
  BY <1>1, <1>2, <1>3 DEF Asked
<1>6. Told' = Told
  BY <1>2, <1>3, NotTold, ToldSame
<1>7. Promise!Ask(r, q.plan, q.key)
  BY <1>2, <1>5, <1>6, ActedSame DEF Promise!Ask
<1> QED
  BY <1>4, <1>7 DEF Promise!Next

LEMMA LookUpMaps ==
    ASSUME IInv, NEW r \in Reqs, LookUp(r)
    PROVE  Promise!Next \/ UNCHANGED Promise!vars
<1> USE DEF tables, locals
<1>1. r \in Actors /\ pc[r] = "lookup"
  BY DEF Actors, LookUp
<1>2. ask' = ask /\ approvals' = approvals /\ runs' = runs /\ log' = log
  BY DEF LookUp
<1>3. PICK k \in Keys : k = ask[r].key
  BY <1>1, AskedIs
<1>4. CASE runs[k] = Nil
  <2>1. Goto(r, "load_plan") /\ reply' = reply
    BY <1>3, <1>4 DEF LookUp
  <2>2. "load_plan" \in Stages \ {"idle"}
    BY DEF Stages
  <2> QED
    BY <1>1, <1>2, <2>1, <2>2, MovesOn
<1>5. CASE runs[k] # Nil
  <2>1. PICK a \in RunStatus : a = runs[k].status
    BY <1>5 DEF IInv, TypeOK, Run
  <2>2. Finish(r, a)
    BY <1>3, <1>5, <2>1 DEF LookUp
  <2>3. CASE a \in Final
    BY <1>1, <1>2, <1>3, <1>5, <2>1, <2>2, <2>3, Tells
  <2>4. CASE a \notin Final
    <3>1. a \in Replies \ Final
      BY <2>4 DEF Replies
    <3> QED
      BY <1>1, <1>2, <2>2, <3>1, MovesOn
  <2> QED
    BY <2>3, <2>4
<1> QED
  BY <1>4, <1>5

LEMMA ApproveMaps ==
    ASSUME IInv, NEW r \in Reqs, Approve(r)
    PROVE  Promise!Next
<1> USE DEF tables, locals
<1>1. /\ pc \in [Actors -> Stages] /\ reply \in [Actors -> Replies] /\ r \in Actors
      /\ Reqs \subseteq Actors
  BY DEF IInv, TypeOK, Actors
<1>2. /\ pc[r] = "approve" /\ UNCHANGED <<ask, runs, log>>
      /\ approvals' = approvals \cup {[plan |-> ask[r].plan, req |-> r]}
  BY DEF Approve
<1>3. /\ \A x \in Reqs : x # r => pc'[x] = pc[x] /\ reply'[x] = reply[x]
      /\ pc'[r] # "idle"
      /\ reply'[r] = reply[r] \/ reply'[r] \notin Final
  BY <1>1 DEF Approve, Finish, Goto, Final
<1>4. Told' = Told /\ Asked' = Asked
  BY <1>2, <1>3, NotTold, ToldSame, AskedSame
<1>5. Asked[r] = [plan |-> ask[r].plan, key |-> ask[r].key] /\ Asked[r] # Nil
  BY <1>2, AskedIs
<1>6. Promise!Approve(r)
  BY <1>2, <1>4, <1>5, ActedSame DEF Promise!Approve, Promise!Approval
<1> QED
  BY <1>6 DEF Promise!Next

LEMMA InsertMaps ==
    ASSUME IInv, NEW r \in Reqs, InsertRun(r)
    PROVE  Promise!Next \/ UNCHANGED Promise!vars
<1> USE DEF tables, locals
<1>1. /\ pc[r] = "insert_run" /\ r \in Actors
      /\ UNCHANGED <<ask, approvals, log>>
  BY DEF Actors, InsertRun
<1>2. PICK k \in Keys : k = ask[r].key
  BY <1>1, AskedIs
<1>3. CASE runs[k] # Nil
  <2>1. Finish(r, "error") /\ runs' = runs /\ "error" \in Replies \ Final
    BY <1>2, <1>3 DEF InsertRun, Replies, Final
  <2> QED
    BY <1>1, <2>1, MovesOn
<1>4. CASE runs[k] = Nil
  <2>1. /\ runs' = [runs EXCEPT ![k] =
                      [plan |-> ask[r].plan, owner |-> r, status |-> "RUNNING"]]
        /\ pc' = [pc EXCEPT ![r] = "mark_executing"] /\ reply' = reply
    BY <1>2, <1>4 DEF InsertRun, Goto
  <2>2. \A x \in Reqs : pc'[x] = "idle" <=> pc[x] = "idle"
    BY <1>1, <2>1 DEF IInv, TypeOK, Actors
  <2>3. Told' = Told /\ Asked' = Asked
    BY <1>1, <2>1, <2>2, ToldSame, AskedSame
  <2>4. Asked[r] = [plan |-> ask[r].plan, key |-> ask[r].key] /\ Asked[r] # Nil
    BY <1>1, AskedIs
  <2>5. [plan |-> ask[r].plan, req |-> r] \in approvals
    BY <1>1 DEF IInv, ReqInv, ApprovalInv, Approving
  <2>6. Promise!Begin(r)
    BY <1>1, <1>2, <1>4, <2>1, <2>3, <2>4, <2>5, ActedSame DEF Promise!Begin, Promise!Approval
  <2> QED
    BY <2>6 DEF Promise!Next
<1> QED
  BY <1>3, <1>4

(* The owner of an open row stays the owner as long as it works.            *)
LEMMA OpenRow ==
    ASSUME IInv, NEW r \in Reqs, pc[r] \in Late \ Ending
    PROVE  Promise!Owns(r) /\ runs[Asked[r].key].status = "RUNNING"
<1>1. /\ ask[r].key \in Keys /\ runs[ask[r].key] # Nil /\ runs[ask[r].key] \in Run
      /\ runs[ask[r].key].owner = r
      /\ \A j \in Keys : runs[j] # Nil /\ runs[j].owner = r => runs[j].status \notin Final
  BY LateRow DEF Late, Ending
<1>2. Asked[r] = [plan |-> ask[r].plan, key |-> ask[r].key] /\ Asked[r] # Nil
  BY AskedIs DEF Late
<1>3. runs[ask[r].key].status \in RunStatus \ Final
  BY <1>1 DEF Run
<1> QED
  BY <1>1, <1>2, <1>3 DEF Promise!Owns, RunStatus

LEMMA DispatchMaps ==
    ASSUME IInv, NEW r \in Reqs, NEW ok \in BOOLEAN, NEW performed \in BOOLEAN,
           Perform(r, ok, performed) \/ Undo(r, ok, performed)
    PROVE  Promise!Next /\ (UndoInv => UndoInv')
<1> USE DEF tables, locals
<1>1. /\ pc[r] \in {"steps", "undo"} /\ reply' = reply
      /\ UNCHANGED <<ask, approvals, runs>>
      /\ pc' = pc \/ \E stage \in Stages \ {"idle"} : Goto(r, stage)
  BY DEF Perform, Undo, Stages
<1>2. pc \in [Actors -> Stages] /\ log \in [Reqs -> Seq(Entry)] /\ r \in Actors
      /\ Reqs \subseteq Actors
  BY DEF IInv, TypeOK, Actors
<1>3. PICK e : log' = [log EXCEPT ![r] = Append(@, e)]
  BY DEF Perform, Undo, Record
<1>4. /\ log'[r] # <<>>
      /\ \A x \in Reqs : x # r => log'[x] = log[x]
  <2>1. log'[r] = Append(log[r], e) /\ log[r] \in Seq(Entry)
    BY <1>2, <1>3
  <2>2. Append(log[r], e) # <<>>
    <3>1. Len(Append(log[r], e)) = Len(log[r]) + 1 /\ Len(log[r]) \in Nat
      BY <2>1
    <3>2. Len(<<>>) = 0
      OBVIOUS
    <3> QED
      BY <3>1, <3>2
  <2> QED
    BY <1>2, <1>3, <2>1, <2>2
<1>5. /\ \A x \in Reqs : x # r => pc'[x] = pc[x]
      /\ pc'[r] # "idle"
  BY <1>1, <1>2 DEF Goto
<1>6. Acted' = Acted \cup {r}
  BY <1>4 DEF Acted
<1>7. Told' = Told /\ Asked' = Asked
  BY <1>1, <1>5, ToldSame, AskedSame
<1>8. Promise!Act(r)
  <2>1. pc[r] \in Late \ Ending
    BY <1>1 DEF Late, Ending
  <2> QED
    BY <1>1, <1>6, <1>7, <2>1, OpenRow DEF Promise!Act
<1>9. UndoInv => UndoInv'
  BY <1>4, <1>5 DEF UndoInv
<1> QED
  BY <1>8, <1>9 DEF Promise!Next

LEMMA SaveRunMaps ==
    ASSUME IInv, UndoInv, NEW r \in Reqs, SaveRun(r)
    PROVE  Promise!Next
<1> USE DEF tables, locals
<1>1. /\ pc[r] \in {"save_run", "undo"} /\ r \in Actors
      /\ UNCHANGED <<ask, approvals, log, reply>>
      /\ runs' = [runs EXCEPT ![ask[r].key].status = Outcome(r)]
      /\ pc' = [pc EXCEPT ![r] = "save_plan"]
  BY DEF Actors, SaveRun, Goto
<1>2. \A x \in Reqs : pc'[x] = "idle" <=> pc[x] = "idle"
  BY <1>1 DEF IInv, TypeOK, Actors
<1>3. Told' = Told /\ Asked' = Asked /\ Acted' = Acted
  BY <1>1, <1>2, ToldSame, AskedSame, ActedSame
<1>4. log[r] # <<>>
  <2>1. CASE pc[r] = "save_run"
    <3>1. Len(log[r]) = Len(Steps(ask[r].plan))
      BY <2>1 DEF IInv, ReqInv, StageInv
    <3>2. ask[r].plan \in Ids
      BY <2>1, AskedIs
    <3>3. Len(log[r]) > 0
      BY <3>1, <3>2, StepsType
    <3> QED
      BY <3>3
  <2>2. CASE pc[r] = "undo"
    BY <2>2 DEF UndoInv
  <2> QED
    BY <1>1, <2>1, <2>2
<1>5. PICK result \in Promise!Results : result = Outcome(r)
  BY DEF Outcome, Promise!Results
<1>6. Asked[r].key = ask[r].key
  <2>1. Asked[r] = [plan |-> ask[r].plan, key |-> ask[r].key]
    BY <1>1, AskedIs
  <2> QED
    BY <2>1
<1>7. Promise!Owns(r) /\ runs[Asked[r].key].status = "RUNNING"
  BY <1>1, OpenRow DEF Late, Ending
<1>8. r \in Acted
  BY <1>4 DEF Acted
<1>9. runs' = [runs EXCEPT ![Asked[r].key].status = result]
  BY <1>1, <1>5, <1>6
<1>10. Promise!End(r, result)
  BY <1>1, <1>3, <1>7, <1>8, <1>9 DEF Promise!End
<1> QED
  BY <1>5, <1>10 DEF Promise!Next

LEMMA LastSaveMaps ==
    ASSUME IInv, NEW r \in Reqs, SaveIncidentEnd(r)
    PROVE  Promise!Next
<1> USE DEF tables, locals
<1>1. /\ pc[r] = "save_incident" /\ UNCHANGED <<ask, approvals, runs, log>>
      /\ Finish(r, Outcome(r))
  BY DEF SaveIncidentEnd
<1>2. pc[r] \in Late
  BY <1>1 DEF Late
<1>3. PICK k \in Keys : k = ask[r].key
  BY <1>2, LateRow
<1>4. runs[k] # Nil /\ runs[k].owner = r
  BY <1>2, <1>3, LateRow
<1>5. runs[k].status \in Final /\ runs[k].status = Outcome(r)
  BY <1>1, <1>4 DEF IInv, RunInv
<1>6. PICK a \in Final : a = runs[k].status
  BY <1>5
<1>7. Finish(r, a)
  BY <1>1, <1>5, <1>6
<1> QED
  BY <1>1, <1>3, <1>4, <1>6, <1>7, Tells

(* Only a dispatch or a verification sends a request to the rollback.       *)
LEMMA UndoKept ==
    ASSUME UndoInv, log' = log, \A r \in Reqs : pc'[r] = "undo" => pc[r] = "undo"
    PROVE  UndoInv'
  BY DEF UndoInv

LEMMA UndoStep ==
    ASSUME IInv, UndoInv, Next
    PROVE  UndoInv'
<1> USE DEF tables, locals
<1>1. pc \in [Actors -> Stages] /\ Reqs \subseteq Actors
  BY DEF IInv, TypeOK, Actors
<1>2. CASE \/ Tick \/ Forget \/ (\E x \in Actors : Raise(x)) \/ \E h \in Procs : Crash(h)
  <2>1. log' = log
    BY <1>2 DEF Tick, Forget, Raise, Crash
  <2>2. \A r \in Reqs : pc'[r] = pc[r] \/ pc'[r] = "done"
    BY <1>1, <1>2 DEF Tick, Forget, Raise, Crash, Finish, Goto
  <2> QED
    BY <2>1, <2>2, UndoKept
<1>3. CASE \/ \E s \in Signals : SignalStep(s) \/ \E h \in Procs : Detect(s, h)
           \/ \E c \in Collectors : Attach(c) \/ \E h \in Procs, i \in Ids : Collect(c, h, i)
  <2>1. log' = log
    BY <1>3 DEF SignalStep, Merge, Open, Propose, Detect, Attach, Collect
  <2>2. \A r \in Reqs : pc'[r] = pc[r]
    <3>1. \E x \in Signals \cup Collectors : \E stage : pc' = [pc EXCEPT ![x] = stage]
      BY <1>3 DEF SignalStep, Merge, Open, Propose, Detect, Attach, Collect, Finish, Goto
    <3> QED
      BY <1>1, <3>1, NilAssumption
  <2> QED
    BY <2>1, <2>2, UndoKept
<1>4. ASSUME NEW r \in Reqs, ApprovalStep(r) \/ \E h \in Procs, q \in Requests : Route(r, h, q)
      PROVE  UndoInv'
  <2>1. CASE \E ok, performed \in BOOLEAN : Perform(r, ok, performed) \/ Undo(r, ok, performed)
    BY <2>1, DispatchMaps
  <2>2. CASE \E ok \in BOOLEAN : Verify(r, ok)
    <3>1. /\ pc[r] = "verify" /\ log' = log
          /\ \A x \in Reqs : x # r => pc'[x] = pc[x]
      BY <1>1, <2>2 DEF Verify, Goto
    <3>2. Len(log[r]) > 0
      BY <3>1, AskedIs, StepsType DEF IInv, ReqInv, StageInv
    <3>3. log[r] # <<>>
      BY <3>2
    <3> QED
      BY <3>1, <3>3 DEF UndoInv
  <2>3. CASE \/ \E h \in Procs, q \in Requests : Route(r, h, q)
             \/ LookUp(r) \/ LoadPlan(r) \/ LoadIncident(r) \/ Expire(r) \/ Approve(r)
             \/ MarkPlan(r) \/ MarkIncident(r) \/ InsertRun(r) \/ MarkExecuting(r)
             \/ SaveRun(r) \/ SavePlanEnd(r) \/ SaveIncidentEnd(r)
    <3>1. log' = log
      BY <2>3 DEF Route, LookUp, LoadPlan, LoadIncident, Expire, Approve, MarkPlan, MarkIncident,
                  InsertRun, MarkExecuting, SaveRun, SavePlanEnd, SavePlan, SaveIncidentEnd
    <3>2. \E stage : stage # "undo" /\ pc' = [pc EXCEPT ![r] = stage]
      BY <2>3 DEF Route, LookUp, LoadPlan, LoadIncident, Expire, Approve, MarkPlan, MarkIncident,
                  InsertRun, MarkExecuting, SaveRun, SavePlanEnd, SaveIncidentEnd, Finish, Goto
    <3> QED
      BY <1>1, <3>1, <3>2, UndoKept
  <2> QED
    BY <1>4, <2>1, <2>2, <2>3 DEF ApprovalStep
<1> QED
  BY <1>2, <1>3, <1>4 DEF Next

LEMMA StepMaps == Both /\ [Next]_vars => [Promise!Next]_Promise!vars
<1> SUFFICES ASSUME IInv, UndoInv, [Next]_vars PROVE Promise!Next \/ UNCHANGED Promise!vars
  BY DEF Both
<1>1. CASE UNCHANGED vars
  BY <1>1, Stutter DEF vars, tables, locals
<1>2. CASE \/ Tick \/ Forget \/ (\E x \in Actors : Raise(x)) \/ \E h \in Procs : Crash(h)
  BY <1>2, FaultMaps
<1>3. CASE \/ \E s \in Signals : SignalStep(s) \/ \E h \in Procs : Detect(s, h)
           \/ \E c \in Collectors : Attach(c) \/ \E h \in Procs, i \in Ids : Collect(c, h, i)
  BY <1>3, OutsideMaps
<1>4. ASSUME NEW r \in Reqs, ApprovalStep(r) \/ \E h \in Procs, q \in Requests : Route(r, h, q)
      PROVE  Promise!Next \/ UNCHANGED Promise!vars
  BY <1>4, SilentMaps, RouteMaps, LookUpMaps, ApproveMaps, InsertMaps, DispatchMaps, SaveRunMaps,
     LastSaveMaps DEF ApprovalStep
<1> QED
  BY <1>1, <1>2, <1>3, <1>4 DEF Next

LEMMA InitMaps == Init => Promise!Init /\ UndoInv
<1> SUFFICES ASSUME Init PROVE Promise!Init /\ UndoInv
  OBVIOUS
<1>1. \A r \in Reqs : pc[r] = "idle" /\ log[r] = <<>> /\ reply[r] = "none"
  BY DEF Init, Actors
<1>2. /\ Asked = [r \in Reqs |-> Nil] /\ Told = [r \in Reqs |-> "none"] /\ Acted = {}
  BY <1>1 DEF Asked, Told, Acted, Final
<1> QED
  BY <1>1, <1>2 DEF Promise!Init, Init, UndoInv

(* Per idempotency key one row is written, by an approved request; only its *)
(* owner acts, while the row is RUNNING; it ends once and stays; who is     *)
(* told a result is told the row's (approve_and_execute, save_action_run).  *)
THEOREM LedgerIsKept == Spec => LedgerKept
<1>1. Init => Both
  BY InitInv, InitMaps DEF Both
<1>2. Both /\ [Next]_vars => Both'
  <2>1. CASE UNCHANGED vars
    BY <2>1, StepInv DEF Both, UndoInv, vars, locals
  <2> QED
    BY <2>1, StepInv, UndoStep DEF Both
<1> QED
  BY <1>1, <1>2, InitMaps, StepMaps, PTL DEF Spec, LedgerKept, Promise!Spec

=============================================================================
