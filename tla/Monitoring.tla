----------------------------- MODULE Monitoring -----------------------------
(***************************************************************************)
(* MonitoringService under MonitoringScheduler: every process writes the   *)
(* default rules on its first start and then evaluates them once a minute, *)
(* under an advisory lock of the database session.  A rule that is         *)
(* breached for Consecutive cycles opens an incident, Recovery normal      *)
(* cycles resolve it.  The streaks live in the memory of the process, the  *)
(* incidents in the database, where evidence threads and signals save the  *)
(* copies of incidents they hold.                                          *)
(***************************************************************************)
EXTENDS Naturals, Sequences

CONSTANTS
    Procs,        \* control-plane processes
    Rules,        \* a sequence: the default rules, each with the asset it watches
    Consecutive,  \* consecutive_cycles
    Recovery,     \* recovery_cycles
    Savers,       \* threads and requests that save incidents they read before
    Incidents,    \* incident ids
    MaxReports,   \* bound of changes of the metric store
    MaxSaves,     \* bound of the copies savers take
    MaxFaults,    \* bound of failed database calls and of processes that die
    Nil

Keys == {Rules[n] : n \in DOMAIN Rules}

(* The scheduler sleeps a minute; the clock ticks every half of one, so that  *)
(* processes may run in or out of step.                                       *)
Interval == 2

ASSUME MonitoringAssumption ==
    /\ Rules \in Seq(Keys)
    /\ Rules # <<>>
    /\ \A m, n \in DOMAIN Rules : Rules[m] = Rules[n] => m = n
    /\ Consecutive \in Nat \ {0}
    /\ Recovery \in Nat \ {0}
    /\ {MaxReports, MaxSaves, MaxFaults} \subseteq Nat

VARIABLES
    rules,      \* table monitor_rules
    incidents,  \* table incidents: those with evidence of a monitoring rule
    lock,       \* the process whose session holds the advisory lock
    pc,         \* where each scheduler stands
    wait,       \* ticks until its next cycle
    turn,       \* the rule it is at
    sample,     \* what the metric store of each process says of a rule
    streak,     \* MonitoringService._states
    verdict,    \* the evaluation the cycle is at
    found,      \* the active incident the cycle has read
    held,       \* the copy of an incident each saver holds
    reports, saves, faults,  \* counters of the bounds
    window,     \* history: the last evaluations of each process, newest first
    armed       \* history: has alerted and not recovered since, by window

tables == <<rules, incidents>>
cycle == <<pc, wait, turn, verdict, found>>
memory == <<sample, streak, window, armed>>
bounds == <<reports, saves, faults>>
vars == <<tables, lock, cycle, memory, held, bounds>>

NoStreak == [breach |-> 0, recovery |-> 0, alerting |-> FALSE]

Init ==
    /\ rules = {}
    /\ incidents = [i \in Incidents |-> Nil]
    /\ lock = Nil
    /\ pc = [h \in Procs |-> "setup"]
    /\ wait = [h \in Procs |-> 0]
    /\ turn = [h \in Procs |-> 1]
    /\ sample = [h \in Procs |-> [k \in Keys |-> "none"]]
    /\ streak = [h \in Procs |-> [k \in Keys |-> NoStreak]]
    /\ verdict = [h \in Procs |-> Nil]
    /\ found = [h \in Procs |-> Nil]
    /\ held = [x \in Savers |-> Nil]
    /\ reports = 0 /\ saves = 0 /\ faults = 0
    /\ window = [h \in Procs |-> [k \in Keys |-> <<>>]]
    /\ armed = [h \in Procs |-> [k \in Keys |-> FALSE]]

-----------------------------------------------------------------------------
(* The hysteresis of _evaluate_one.  The breach streak is only compared with  *)
(* Consecutive and counts no further here.                                    *)
Least(a, b) == IF a <= b THEN a ELSE b

(* Mutant: a normal cycle does not end the breach streak.                     *)
CountEveryBreach(s, breached) ==
    LET b == Least(s.breach + (IF breached THEN 1 ELSE 0), Consecutive)
        r == Least(s.recovery + 1, Recovery) IN
    IF breached
    THEN [breach |-> b, recovery |-> 0, alerting |-> s.alerting \/ b >= Consecutive]
    ELSE [breach |-> b, recovery |-> r, alerting |-> s.alerting /\ r < Recovery]

(* Mutant: a breach does not end the recovery streak.                         *)
CountEveryRecovery(s, breached) ==
    LET b == Least(s.breach + 1, Consecutive)
        r == Least(s.recovery + 1, Recovery) IN
    IF breached
    THEN [breach |-> b, recovery |-> s.recovery, alerting |-> s.alerting \/ b >= Consecutive]
    ELSE [breach |-> 0, recovery |-> r, alerting |-> s.alerting /\ r < Recovery]

(* Mutant: recovery is counted of an alert only.                              *)
CountOfAlerts(s, breached) ==
    LET b == Least(s.breach + 1, Consecutive) IN
    IF breached
    THEN [breach |-> b, recovery |-> 0, alerting |-> s.alerting \/ b >= Consecutive]
    ELSE [breach |-> 0, recovery |-> IF s.alerting THEN s.recovery + 1 ELSE 0,
          alerting |-> s.alerting /\ s.recovery + 1 < Recovery]

Count(s, breached) ==
    LET b == Least(s.breach + 1, Consecutive)
        r == Least(s.recovery + 1, Recovery) IN
    IF breached
    THEN [breach |-> b, recovery |-> 0, alerting |-> s.alerting \/ b >= Consecutive]
    ELSE [breach |-> 0, recovery |-> r, alerting |-> s.alerting /\ r < Recovery]

State(s, breached) ==
    IF s.alerting THEN "alerting" ELSE IF breached THEN "pending" ELSE "healthy"

(* The same by the evaluations themselves, newest first: what the docs say.   *)
LastAre(w, n, value) == Len(w) >= n /\ \A m \in 1..n : w[m] = value

Remember(w, breached) ==
    SubSeq(<<breached>> \o w, 1, Least(Len(w) + 1, IF Consecutive > Recovery
                                                   THEN Consecutive ELSE Recovery))

Arm(was, w) ==
    IF LastAre(w, Consecutive, TRUE) THEN TRUE
    ELSE IF LastAre(w, Recovery, FALSE) THEN FALSE ELSE was

-----------------------------------------------------------------------------
(* ensure_default_rules, a rule at a time                                    *)
ListRules(h) ==
    /\ pc[h] = "setup"
    /\ pc' = [pc EXCEPT ![h] = IF rules = {} THEN "write" ELSE "asleep"]
    /\ UNCHANGED <<tables, lock, wait, turn, verdict, found, memory, held, bounds>>

WriteRule(h) ==
    /\ pc[h] = "write"
    /\ rules' = rules \cup {Rules[turn[h]]}
    /\ IF turn[h] = Len(Rules)
       THEN pc' = [pc EXCEPT ![h] = "asleep"] /\ turn' = [turn EXCEPT ![h] = 1]
       ELSE turn' = [turn EXCEPT ![h] = @ + 1] /\ UNCHANGED pc
    /\ UNCHANGED <<incidents, lock, wait, verdict, found, memory, held, bounds>>

(* The minute is over: a cycle, unless another process is at one.            *)
Due(h) == pc[h] = "asleep" /\ wait[h] = 0

Sleep(h) ==
    /\ pc' = [pc EXCEPT ![h] = "asleep"]
    /\ wait' = [wait EXCEPT ![h] = Interval]
    /\ turn' = [turn EXCEPT ![h] = 1]

Enter(h) ==
    /\ lock' = h
    /\ pc' = [pc EXCEPT ![h] = "evaluate"]
    /\ UNCHANGED <<wait, turn>>

(* Mutant: the lock is taken without looking who holds it.                   *)
EnterAnyway(h) ==
    /\ Due(h)
    /\ Enter(h)
    /\ UNCHANGED <<tables, verdict, found, memory, held, bounds>>

Begin(h) ==
    /\ Due(h)
    /\ IF lock = Nil THEN Enter(h) ELSE Sleep(h) /\ UNCHANGED lock
    /\ UNCHANGED <<tables, verdict, found, memory, held, bounds>>

(* The rules of the table that have a metric, in their order.                *)
Remaining(h) ==
    {n \in DOMAIN Rules : n >= turn[h] /\ Rules[n] \in rules /\ sample[h][Rules[n]] # "none"}

(* _rule_value, _evaluate_one and the save of the evaluation, which nothing  *)
(* reads; Fail may come before or after it.                                  *)
Evaluate(h, n) ==
    LET k == Rules[n]
        breached == sample[h][k] = "bad"
        s == Count(streak[h][k], breached)
        w == Remember(window[h][k], breached) IN
    /\ pc[h] = "evaluate"
    /\ n \in Remaining(h)
    /\ \A m \in Remaining(h) : n <= m
    /\ turn' = [turn EXCEPT ![h] = n]
    /\ streak' = [streak EXCEPT ![h][k] = s]
    /\ window' = [window EXCEPT ![h][k] = w]
    /\ armed' = [armed EXCEPT ![h][k] = Arm(@, w)]
    /\ verdict' = [verdict EXCEPT ![h] =
                     [state |-> State(s, breached), recovered |-> s.recovery >= Recovery]]
    /\ pc' = [pc EXCEPT ![h] = "look"]
    /\ UNCHANGED <<tables, lock, wait, found, sample, held, bounds>>

(* _update_incident: the first active incident of the rule and asset         *)
Open(i) == incidents[i] # Nil /\ incidents[i].status = "OPEN"

Active(k) == {i \in Incidents : Open(i) /\ incidents[i].key = k}

Look(h) ==
    /\ pc[h] = "look"
    /\ \/ \E i \in Active(Rules[turn[h]]) : found' = [found EXCEPT ![h] = i]
       \/ Active(Rules[turn[h]]) = {} /\ found' = [found EXCEPT ![h] = Nil]
    /\ pc' = [pc EXCEPT ![h] = "update"]
    /\ UNCHANGED <<tables, lock, wait, turn, verdict, memory, held, bounds>>

(* Ids stand for incidents that matter: a resolved one of which nobody holds *)
(* a copy gives its id back.                                                 *)
Unused(i) ==
    /\ ~Open(i)
    /\ \A x \in Savers : held[x] # Nil => held[x].id # i

NextRule(h) ==
    /\ pc' = [pc EXCEPT ![h] = "evaluate"]
    /\ turn' = [turn EXCEPT ![h] = @ + 1]
    /\ verdict' = [verdict EXCEPT ![h] = Nil]
    /\ found' = [found EXCEPT ![h] = Nil]

OpenIncident(h, i) ==
    /\ found[h] = Nil
    /\ verdict[h].state = "alerting"
    /\ Unused(i)
    /\ incidents' = [incidents EXCEPT ![i] = [key |-> Rules[turn[h]], status |-> "OPEN"]]

Recovered(h) ==
    found[h] # Nil /\ verdict[h].state = "healthy" /\ verdict[h].recovered

Update(h) ==
    /\ pc[h] = "update"
    /\ IF Recovered(h)
       THEN incidents' = [incidents EXCEPT ![found[h]].status = "RESOLVED"]
       ELSE IF found[h] = Nil /\ verdict[h].state = "alerting"
       THEN \E i \in Incidents : OpenIncident(h, i)
       ELSE UNCHANGED incidents
    /\ NextRule(h)
    /\ UNCHANGED <<rules, lock, wait, memory, held, bounds>>

EndCycle(h) ==
    /\ pc[h] = "evaluate"
    /\ Remaining(h) = {}
    /\ lock' = Nil
    /\ Sleep(h)
    /\ UNCHANGED <<tables, verdict, found, memory, held, bounds>>

-----------------------------------------------------------------------------
(* A call of the database raises.  The scheduler catches what a cycle raises  *)
(* and goes on in the next minute; what ensure_default_rules raises ends it.  *)
Spend == faults < MaxFaults /\ faults' = faults + 1

InCycle(h) == pc[h] \in {"evaluate", "look", "update"}

(* Mutant: the lock is not released when the callback raises.                 *)
FailLocked(h) ==
    /\ InCycle(h)
    /\ Spend
    /\ Sleep(h)
    /\ verdict' = [verdict EXCEPT ![h] = Nil]
    /\ found' = [found EXCEPT ![h] = Nil]
    /\ UNCHANGED <<tables, lock, memory, held, reports, saves>>

Fail(h) ==
    /\ InCycle(h)
    /\ Spend
    /\ lock' = Nil
    /\ Sleep(h)
    /\ verdict' = [verdict EXCEPT ![h] = Nil]
    /\ found' = [found EXCEPT ![h] = Nil]
    /\ UNCHANGED <<tables, memory, held, reports, saves>>

FailSetup(h) ==
    /\ pc[h] \in {"setup", "write"}
    /\ Spend
    /\ pc' = [pc EXCEPT ![h] = "stopped"]
    /\ UNCHANGED <<tables, lock, wait, turn, verdict, found, memory, held, reports, saves>>

(* A process dies and is started again: its session, streaks and metrics end. *)
Crash(h) ==
    /\ Spend
    /\ lock' = IF lock = h THEN Nil ELSE lock
    /\ pc' = [pc EXCEPT ![h] = "setup"]
    /\ wait' = [wait EXCEPT ![h] = 0]
    /\ turn' = [turn EXCEPT ![h] = 1]
    /\ verdict' = [verdict EXCEPT ![h] = Nil]
    /\ found' = [found EXCEPT ![h] = Nil]
    /\ sample' = [sample EXCEPT ![h] = [k \in Keys |-> "none"]]
    /\ streak' = [streak EXCEPT ![h] = [k \in Keys |-> NoStreak]]
    /\ window' = [window EXCEPT ![h] = [k \in Keys |-> <<>>]]
    /\ armed' = [armed EXCEPT ![h] = [k \in Keys |-> FALSE]]
    /\ UNCHANGED <<tables, held, reports, saves>>

(* The metric store of a process changes; a sample never expires there.       *)
Report(h, k, value) ==
    /\ reports < MaxReports
    /\ sample[h][k] # value
    /\ reports' = reports + 1
    /\ sample' = [sample EXCEPT ![h][k] = value]
    /\ UNCHANGED <<tables, lock, cycle, streak, window, armed, held, saves, faults>>

(* attach_metric_evidence, attach_log_evidence or evaluate_signal read an     *)
(* incident and save the whole of it later, or fail in between.               *)
Take(x, i) ==
    /\ saves < MaxSaves
    /\ held[x] = Nil
    /\ incidents[i] # Nil
    /\ saves' = saves + 1
    /\ held' = [held EXCEPT ![x] = [id |-> i, copy |-> incidents[i]]]
    /\ UNCHANGED <<tables, lock, cycle, memory, reports, faults>>

Put(x) ==
    /\ held[x] # Nil
    /\ incidents' = [incidents EXCEPT ![held[x].id] = held[x].copy]
    /\ held' = [held EXCEPT ![x] = Nil]
    /\ UNCHANGED <<rules, lock, cycle, memory, bounds>>

Drop(x) ==
    /\ held[x] # Nil
    /\ held' = [held EXCEPT ![x] = Nil]
    /\ UNCHANGED <<tables, lock, cycle, memory, bounds>>

(* Half a minute passes.  Cycles and queries (whose timeout is 8 s) are        *)
(* shorter than that.                                                         *)
Tick ==
    /\ \A h \in Procs : pc[h] = "stopped" \/ (pc[h] = "asleep" /\ wait[h] > 0)
    /\ \A x \in Savers : held[x] = Nil
    /\ wait' = [h \in Procs |-> IF pc[h] = "asleep" THEN wait[h] - 1 ELSE wait[h]]
    /\ UNCHANGED <<tables, lock, pc, turn, verdict, found, memory, held, bounds>>

Scheduler(h) ==
    \/ ListRules(h) \/ WriteRule(h)
    \/ Begin(h)
    \/ \E n \in DOMAIN Rules : Evaluate(h, n)
    \/ Look(h) \/ Update(h) \/ EndCycle(h)

Next ==
    \/ Tick
    \/ \E h \in Procs : Scheduler(h) \/ Fail(h) \/ FailSetup(h) \/ Crash(h)
    \/ \E h \in Procs, k \in Keys, value \in {"ok", "bad"} : Report(h, k, value)
    \/ \E x \in Savers : Put(x) \/ Drop(x) \/ \E i \in Incidents : Take(x, i)

Spec == Init /\ [][Next]_vars

(* Time passes, a scheduler that was not stopped goes on, a query returns or  *)
(* times out.                                                                 *)
Fairness ==
    /\ WF_vars(Tick)
    /\ \A h \in Procs : WF_vars(Scheduler(h))
    /\ \A x \in Savers : WF_vars(Put(x) \/ Drop(x))

FairSpec == Spec /\ Fairness

-----------------------------------------------------------------------------
Stages == {"setup", "write", "asleep", "evaluate", "look", "update", "stopped"}
Incident == [key: Keys, status: {"OPEN", "RESOLVED"}]
Holding == [id: Incidents, copy: Incident]

(* What is absent is nothing that is there.                                   *)
ASSUME NilAssumption == Nil \notin Procs \cup Incidents \cup Incident \cup Holding

(* Types; the streaks of the code stay within what the rules compare.         *)
TypeOK ==
    /\ rules \subseteq Keys
    /\ incidents \in [Incidents -> Incident \cup {Nil}]
    /\ lock \in Procs \cup {Nil}
    /\ pc \in [Procs -> Stages]
    /\ wait \in [Procs -> 0..Interval]
    /\ turn \in [Procs -> 1..(Len(Rules) + 1)]
    /\ sample \in [Procs -> [Keys -> {"none", "ok", "bad"}]]
    /\ streak \in [Procs -> [Keys -> [breach: 0..Consecutive, recovery: 0..Recovery,
                                      alerting: BOOLEAN]]]
    /\ verdict \in [Procs -> {Nil} \cup [state: {"alerting", "pending", "healthy"},
                                         recovered: BOOLEAN]]
    /\ found \in [Procs -> Incidents \cup {Nil}]
    /\ held \in [Savers -> {Nil} \cup Holding]
    /\ reports \in 0..MaxReports /\ saves \in 0..MaxSaves /\ faults \in 0..MaxFaults
    /\ window \in [Procs -> [Keys -> Seq(BOOLEAN)]]
    /\ armed \in [Procs -> [Keys -> BOOLEAN]]

(* However many processes evaluate and whichever dies or fails, a rule has    *)
(* one active incident (monitoring_service.py:118, under the lock of          *)
(* postgres_monitoring_repository.py:111), as long as no copy is written back.*)
OneActive ==
    saves = 0 => \A k \in Keys : \A i, j \in Active(k) : i = j

(* A cycle opens an incident only for a rule that was breached in Consecutive *)
(* successive evaluations of this process and has not been normal in Recovery *)
(* successive ones since (monitoring_service.py:3).                           *)
AlertIsEarned ==
    [][\A i \in Incidents : ~Open(i) /\ Open(i)' /\ held' = held =>
          armed[lock][incidents'[i].key]]_vars

(* A cycle resolves an incident only after Recovery successive normal         *)
(* evaluations of its rule by this process, since its start.                  *)
RecoveryIsEarned ==
    [][\A i \in Incidents : Open(i) /\ ~Open(i)' /\ held' = held =>
          LastAre(window[lock][incidents[i].key], Recovery, FALSE)]_vars

(* The scheduler of every process runs and the rule is in the table.          *)
Watched(k) == k \in rules /\ \A h \in Procs : pc[h] # "stopped"

Steadily(k, value) == Watched(k) /\ \A h \in Procs : sample[h][k] = value

(* A rule breached for good has an active incident in the end, whatever call  *)
(* failed or process died on the way.                                         *)
AlarmRaised ==
    \A k \in Keys : <>[]Steadily(k, "bad") => <>[](Active(k) # {})

(* A rule that is normal for good has none, even if an old copy of a resolved *)
(* incident was written back or the process that opened it died.              *)
CalmRestored ==
    \A k \in Keys : <>[]Steadily(k, "ok") => <>[](Active(k) = {})
=============================================================================
