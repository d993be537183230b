------------------------------- MODULE Console -------------------------------
(***************************************************************************)
(* The web console against the control plane: the demo, incident, approval *)
(* and laboratory pages (web/src), the requests they have under way, and   *)
(* the routes that serve them (labs.inject, plans, approve,                *)
(* incident-contexts).                                                     *)
(*                                                                         *)
(* Every route runs on one event loop.  approve and incident-contexts have *)
(* no await and are one step; inject passes the rate limiter and then      *)
(* waits for the fault injector.  Answers come in any order or not at all, *)
(* and leaving a page forgets its state, not its requests.                 *)
(***************************************************************************)
EXTENDS RateLimiter, FiniteSets

CONSTANTS
    Browsers,     \* open consoles
    Peer,         \* Peer[b]: the address a browser's requests come from
    RealIP,       \* RealIP[b]: the address their X-Real-IP names, or Nil
    TrustProxy,   \* trust_proxy_client_ip
    Requests,     \* requests that may be under way at a time
    Plans,        \* remediation plans that may come to exist, each with an
                  \* incident of its own
    Nil,          \* none
    MaxClicks,    \* bound on what users click
    MaxNow        \* bound on the limiter's clock

(* Addresses are visitors, and what is absent is none of the others.       *)
ASSUME ConsoleAssumption == /\ Peer \in [Browsers -> Keys]
                            /\ RealIP \in [Browsers -> Keys \cup {Nil}]
                            /\ Nil \notin Keys \cup Requests \cup Plans
                            /\ TrustProxy \in BOOLEAN
                            /\ MaxClicks \in Nat

VARIABLES
    plan,         \* plan[p]: the stored plan's status
    runs,         \* the stored runs: their key, plan and status
    page,         \* page[b]: the state of the page a browser shows
    req,          \* req[r]: a request under way
    serving,      \* the inject request the limiter is asked about
    clicks        \* clicks so far

server == <<plan, runs, serving>>
vars == <<limiter, server, page, req, clicks>>

------------------------------------------------------------------------------
(* Pages and requests                                                      *)

(* A page as it is mounted.  The plan of the demo is the one it shows, of  *)
(* the approvals the one it executes; the two lists hold what they read.   *)
Mounted(name) == [name |-> name, phase |-> IF name = "demo" THEN "ready" ELSE "idle",
                  plan |-> Nil, run |-> Nil, list |-> Nil]
Lists == {"incidents", "approvals"}

(* The key approvePlan sends with every approval of a plan.                *)
KeyPerClick(p) == <<"web", p, clicks>>     \* mutant: every click has a key of its own
Key(p) == <<"web", p>>

None == [at |-> "none"]
(* A request as it is sent; settles: the refresh after an approval.        *)
Sent(b, kind, p, settles) ==
    [at |-> "sent", browser |-> b, heard |-> TRUE, kind |-> kind, plan |-> p,
     key |-> IF kind = "approve" THEN Key(p) ELSE Nil, settles |-> settles,
     ok |-> FALSE, answer |-> Nil]
Under(b) == {r \in Requests : req[r].at # "none" /\ req[r].browser = b}
Awaited(b) == {r \in Under(b) : req[r].heard}

Init == /\ LimiterInit
        /\ plan = [p \in Plans |-> "none"]
        /\ runs = {}
        /\ page = [b \in Browsers |-> Mounted("demo")]
        /\ req = [r \in Requests |-> None]
        /\ serving = Nil
        /\ clicks = 0

------------------------------------------------------------------------------
(* The control plane                                                       *)

RunsOf(p) == {u \in runs : u.plan = p}
(* What the incident of a plan is in.                                      *)
Incident(p) == CASE plan[p] = "none" -> "none"
                 [] plan[p] \in {"pending", "expired", "approved"} -> "waiting_approval"
                 [] plan[p] = "marked" -> "remediating"
                 [] plan[p] = "ended" -> "over"
Active == {p \in Plans : Incident(p) \in {"waiting_approval", "remediating"}}

(* An answer waits to be heard, or there is nobody to hear it.             *)
Answered(r, ok, what) ==
    req' = [req EXCEPT ![r] =
              IF @.heard THEN [@ EXCEPT !.at = "answered", !.ok = ok, !.answer = what]
                         ELSE None]
OnLoop(r, kind) == serving = Nil /\ req[r].at = "sent" /\ req[r].kind = kind

(* visitor_identity                                                        *)
Visitor(b) == IF TrustProxy /\ RealIP[b] # Nil THEN RealIP[b] ELSE Peer[b]

(* inject_lab_fault: the limiter is asked first, and may refuse: 429.      *)
AskLimiter(r) ==
    /\ OnLoop(r, "inject") /\ Allow(Visitor(req[r].browser))
    /\ serving' = r
    /\ UNCHANGED <<plan, runs, page, req, clicks>>
LimiterPops == Pop /\ UNCHANGED <<server, page, req, clicks>>
LimiterAdmits ==
    /\ Admit
    /\ req' = [req EXCEPT ![serving].at = "admitted"]
    /\ serving' = Nil
    /\ UNCHANGED <<plan, runs, page, clicks>>
LimiterRejects ==
    /\ Reject
    /\ Answered(serving, FALSE, Nil)
    /\ serving' = Nil
    /\ UNCHANGED <<plan, runs, page, clicks>>

(* The rest of it: the signal joins an active incident and its plan, or    *)
(* opens an incident with a new one, or is no anomaly; or the injector or  *)
(* the probe fails.                                                        *)
Inject(r) ==
    /\ serving = Nil /\ req[r].at = "admitted"
    /\ \/ \E p \in Active : Answered(r, TRUE, p) /\ UNCHANGED plan
       \/ \E p \in Plans : /\ plan[p] = "none"
                           /\ plan' = [plan EXCEPT ![p] = "pending"]
                           /\ Answered(r, TRUE, p)
       \/ \E ok \in BOOLEAN : Answered(r, ok, Nil) /\ UNCHANGED plan
    /\ UNCHANGED <<limiter, runs, serving, page, clicks>>

(* get_plan, with the diagnosis the demo asks for at the same time.        *)
GetPlan(r) ==
    /\ OnLoop(r, "plan")
    /\ \E ok \in BOOLEAN : Answered(r, ok, req[r].plan)
    /\ UNCHANGED <<limiter, server, page, clicks>>

(* approve_plan: a known key is answered with its run.  Otherwise the plan *)
(* must be pending: it is found expired, or it is executed to an end, or   *)
(* an error leaves plan, incident and run the way they were last saved.    *)
Approve(r) ==
    LET p == req[r].plan
        known == {u \in runs : u.key = req[r].key}
        Run(status) == [key |-> req[r].key, plan |-> p, status |-> status]
    IN  /\ OnLoop(r, "approve")
        /\ \/ /\ known # {}
              /\ \E u \in known : Answered(r, TRUE, u)
              /\ UNCHANGED <<plan, runs>>
           \/ /\ known = {} /\ plan[p] # "pending"
              /\ Answered(r, FALSE, "conflict")
              /\ UNCHANGED <<plan, runs>>
           \/ /\ known = {} /\ plan[p] = "pending"
              /\ \E left \in {"pending", "expired", "approved", "marked"} :
                    plan' = [plan EXCEPT ![p] = left] /\ UNCHANGED runs
              /\ Answered(r, FALSE, "error")
           \/ /\ known = {} /\ plan[p] = "pending"
              /\ \E status \in {"running", "recovered", "failed"} : runs' = runs \cup {Run(status)}
              /\ plan' = [plan EXCEPT ![p] = "marked"]
              /\ Answered(r, FALSE, "error")
           \/ /\ known = {} /\ plan[p] = "pending"
              /\ plan' = [plan EXCEPT ![p] = "ended"]
              /\ \E status \in {"recovered", "failed"} :
                    runs' = runs \cup {Run(status)} /\ Answered(r, TRUE, Run(status))
        /\ UNCHANGED <<limiter, serving, page, clicks>>

(* incident_contexts: incidents with their plans, read in one step.        *)
Contexts == [p \in Plans |-> [incident |-> Incident(p), plan |-> plan[p]]]
IncidentContexts(r) ==
    /\ OnLoop(r, "contexts")
    /\ Answered(r, TRUE, Contexts)
    /\ UNCHANGED <<limiter, server, page, clicks>>

Pass == now < MaxNow /\ Tick /\ UNCHANGED <<server, page, req, clicks>>

Server == \/ \E r \in Requests : \/ AskLimiter(r) \/ Inject(r) \/ GetPlan(r)
                                 \/ Approve(r) \/ IncidentContexts(r)
          \/ LimiterPops \/ LimiterAdmits \/ LimiterRejects
          \/ Pass

------------------------------------------------------------------------------
(* The pages                                                               *)

Click == clicks < MaxClicks /\ clicks' = clicks + 1 /\ UNCHANGED <<limiter, server>>
Send(b, kind, p) == \E r \in Requests : /\ req[r].at = "none"
                                        /\ req' = [req EXCEPT ![r] = Sent(b, kind, p, FALSE)]

(* The hash changes: the page is unmounted, what it asked for goes on      *)
(* unheard, and a page with a list asks for it.                            *)
Open(b, name) ==
    LET left == [r \in Requests |->
                    IF r \notin Awaited(b) THEN req[r]
                    ELSE IF req[r].at = "answered" THEN None
                    ELSE [req[r] EXCEPT !.heard = FALSE]]
    IN  /\ Click /\ page[b].name # name
        /\ page' = [page EXCEPT ![b] = Mounted(name)]
        /\ IF name \notin Lists THEN req' = left
           ELSE \E r \in Requests : /\ left[r].at = "none"
                                    /\ req' = [left EXCEPT ![r] = Sent(b, "contexts", Nil, FALSE)]

RunDemo(b) ==
    /\ Click /\ page[b].name = "demo" /\ page[b].phase \notin {"injecting", "approving"}
    /\ page' = [page EXCEPT ![b].phase = "injecting", ![b].run = Nil]
    /\ Send(b, "inject", Nil)
ApproveDemo(b) ==
    /\ Click /\ page[b].name = "demo" /\ page[b].phase = "diagnosed"
    /\ page[b].plan # Nil /\ page[b].run = Nil
    /\ page' = [page EXCEPT ![b].phase = "approving"]
    /\ Send(b, "approve", page[b].plan)
InjectInLab(b) ==
    /\ Click /\ page[b].name = "lab" /\ page[b].phase = "idle"
    /\ page' = [page EXCEPT ![b].phase = "busy"]
    /\ Send(b, "inject", Nil)
Refresh(b) ==
    /\ Click /\ page[b].name = "incidents" /\ page[b].list # Nil
    /\ Send(b, "contexts", Nil) /\ UNCHANGED page

(* Both lists offer what they last read, however old that is.              *)
Listed(b, p) == page[b].list # Nil /\ page[b].list[p].incident = "waiting_approval"
ApproveIncident(b, p) ==
    /\ Click /\ page[b].name = "incidents" /\ page[b].phase = "idle" /\ Listed(b, p)
    /\ page' = [page EXCEPT ![b].phase = "busy"]
    /\ Send(b, "approve", p)
ApprovePending(b, p) ==
    /\ Click /\ page[b].name = "approvals" /\ page[b].plan # p
    /\ Listed(b, p) /\ page[b].list[p].plan = "pending"
    /\ page' = [page EXCEPT ![b].plan = p]
    /\ Send(b, "approve", p)

(* The end of a handler: the demo's catch, the other pages' finally.       *)
SettledOnSuccess(pg) == pg     \* mutant: no finally
Settled(pg) == IF pg.name = "demo" THEN [pg EXCEPT !.phase = "failed"]
                                   ELSE [pg EXCEPT !.phase = "idle", !.plan = Nil]

(* What a page makes of an answer, and what it asks next.                  *)
HearInjected(r, b) ==
    /\ req[r].kind = "inject"
    /\ IF page[b].name = "demo"
       THEN /\ req' = [req EXCEPT ![r] = Sent(b, "plan", @.answer, FALSE)] /\ UNCHANGED page
       ELSE /\ page' = [page EXCEPT ![b] = Settled(@)]
            /\ req' = [req EXCEPT ![r] = None]
HearPlan(r, b) ==
    /\ req[r].kind = "plan"
    /\ page' = [page EXCEPT ![b].phase = "diagnosed", ![b].plan = req[r].answer]
    /\ req' = [req EXCEPT ![r] = None]
HearRun(r, b) ==
    /\ req[r].kind = "approve"
    /\ IF page[b].name = "demo"
       THEN /\ page' = [page EXCEPT ![b].run = req[r].answer,
                        ![b].phase = IF req[r].answer.status = "recovered" THEN "resolved" ELSE "failed"]
            /\ req' = [req EXCEPT ![r] = None]
       ELSE /\ req' = [req EXCEPT ![r] = Sent(b, "contexts", Nil, TRUE)] /\ UNCHANGED page
HearContexts(r, b) ==
    /\ req[r].kind = "contexts"
    /\ page' = [page EXCEPT ![b] = [(IF req[r].settles THEN Settled(@) ELSE @)
                                        EXCEPT !.list = req[r].answer]]
    /\ req' = [req EXCEPT ![r] = None]

(* requestJson throws; refresh keeps its error to itself.                  *)
Fails(r) == LET b == req[r].browser
                quiet == req[r].kind = "contexts" /\ ~req[r].settles
            IN  page' = [page EXCEPT ![b] = IF quiet THEN @ ELSE Settled(@)]

Hear(r) ==
    /\ req[r].at = "answered"
    /\ LET b == req[r].browser
       IN  \/ /\ req[r].ok
              /\ HearInjected(r, b) \/ HearPlan(r, b) \/ HearRun(r, b) \/ HearContexts(r, b)
           \/ ~req[r].ok /\ Fails(r) /\ req' = [req EXCEPT ![r] = None]
    /\ UNCHANGED <<limiter, server, clicks>>

(* The connection breaks: the request, or only its answer, is lost.        *)
Lose(r) ==
    /\ req[r].at # "none" /\ req[r].heard
    /\ Fails(r)
    /\ \/ req[r].at \in {"sent", "answered"} /\ serving # r /\ req' = [req EXCEPT ![r] = None]
       \/ req[r].at \in {"sent", "admitted"} /\ req' = [req EXCEPT ![r].heard = FALSE]
    /\ UNCHANGED <<limiter, server, clicks>>

User(b) == \/ \E name \in Lists \cup {"demo", "lab"} : Open(b, name)
           \/ RunDemo(b) \/ ApproveDemo(b) \/ InjectInLab(b) \/ Refresh(b)
           \/ \E p \in Plans : ApproveIncident(b, p) \/ ApprovePending(b, p)

Next == \/ Server
        \/ \E b \in Browsers : User(b)
        \/ \E r \in Requests : Hear(r) \/ Lose(r)

Spec == Init /\ [][Next]_vars
------------------------------------------------------------------------------
(* An approval may be repeated from any page and any browser, with lost    *)
(* answers, old lists and a page left in between: the plan is run at most  *)
(* once, and whoever approves a plan that was run is told its run and not  *)
(* that the plan is in a conflicting state (approvePlan's idempotency      *)
(* key, approve_and_execute).                                              *)
SafeToRepeat ==
    /\ \A p \in Plans : Cardinality(RunsOf(p)) <= 1
    /\ \A r \in Requests :
          req[r].at = "answered" /\ req[r].kind = "approve" =>
             IF req[r].ok THEN req[r].answer \in RunsOf(req[r].plan)
                          ELSE req[r].answer = "conflict" => RunsOf(req[r].plan) = {}

(* No page waits for nothing: while its buttons are disabled, a request of *)
(* its own that it will hear of is under way (the handlers of DemoPage,    *)
(* IncidentsPage, ApprovalsPage and LabPage).                              *)
NoStuckPage ==
    \A b \in Browsers :
        \/ page[b].phase \in {"injecting", "approving", "busy"}
        \/ page[b].name = "approvals" /\ page[b].plan # Nil
        => \E r \in Awaited(b) : req[r].kind # "contexts" \/ req[r].settles
==============================================================================
