---------------------------- MODULE ConsoleProofs ---------------------------
(***************************************************************************)
(* The limiter's promises for every number of visitors, limit and window,  *)
(* and the console's for every set of browsers, plans and requests, however *)
(* much is clicked and whatever is lost.                                   *)
(***************************************************************************)
EXTENDS Console, FiniteSetTheorems, TLAPS

(***************************************************************************)
(* The limiter.                                                            *)
(*                                                                         *)
(* WindowHolds is not inductive: that an admitted request is a window away *)
(* from the one Limit before it follows because that one was popped, and   *)
(* what was popped was a window old.  Bound is the time both are measured  *)
(* against: the call's own reading of the clock while one is under way.    *)
(***************************************************************************)

Bound == IF Waiting THEN now ELSE current

(* The times of a visitor are in order and none is ahead of the clock.     *)
Ordered == \A k \in Keys : \A i, j \in 1..Len(times[k]) :
               i <= j => times[k][i] <= times[k][j] /\ times[k][j] <= Bound
(* What is gone was a window old.                                          *)
GoneIsOld == \A k \in Keys : \A i \in 1..popped[k] : times[k][i] <= Bound - Window
(* What is left is at most Limit.                                          *)
FewHeld == \A k \in Keys : Held(k) <= Limit
Clock == Bound \in Nat /\ Bound <= now

LimiterIInv == LimiterTypeOK /\ Clock /\ Ordered /\ GoneIsOld /\ FewHeld /\ WindowHolds

(* The first state.                                                        *)
LEMMA LimiterStarts == LimiterInit => LimiterIInv
BY LimiterAssumption DEF LimiterInit, LimiterIInv, LimiterTypeOK, Clock, Ordered, GoneIsOld,
   FewHeld, WindowHolds, Held, Bound, Waiting

(* While a call is under way it has a key, and the bound is its time.      *)
LEMMA CallBound ==
    ASSUME LimiterTypeOK, ~Waiting
    PROVE  /\ visitor \in Keys
           /\ current \in Nat
           /\ Bound = current
BY DEF LimiterTypeOK, Waiting, Bound

(* Time passes: the bound does not fall, and nothing else changes.         *)
LEMMA TickIInv == LimiterIInv /\ Tick => LimiterIInv'
<1> SUFFICES ASSUME LimiterIInv, Tick PROVE LimiterIInv'
  OBVIOUS
<1> USE DEF LimiterIInv
<1>1. Waiting' = Waiting /\ visitor' = visitor /\ current' = current /\ times' = times /\ popped' = popped
  BY DEF Tick, Waiting
<1>2. now' \in Nat /\ now <= now'
  BY DEF Tick, LimiterTypeOK
<1>3. LimiterTypeOK'
  BY <1>1, <1>2 DEF LimiterTypeOK
<1>4. Bound' \in Nat /\ Bound <= Bound' /\ Bound' <= now'
  BY <1>1, <1>2 DEF Bound, Clock, LimiterTypeOK
<1>5. Ordered'
  <2>1. \A k \in Keys : \A i \in 1..Len(times[k]) : times[k][i] \in Nat
    BY DEF LimiterTypeOK
  <2> QED BY <1>1, <1>4, <2>1 DEF Ordered, Clock
<1>6. GoneIsOld'
  <2>1. \A k \in Keys : \A i \in 1..popped[k] : times[k][i] \in Nat
    BY DEF LimiterTypeOK
  <2> QED BY <1>1, <1>4, <2>1, LimiterAssumption DEF GoneIsOld, Clock
<1>7. FewHeld' /\ WindowHolds'
  BY <1>1 DEF FewHeld, Held, WindowHolds
<1> QED BY <1>3, <1>4, <1>5, <1>6, <1>7 DEF Clock

(* A call begins: the bound is the clock, as before.                       *)
LEMMA AllowIInv == ASSUME NEW k \in Keys PROVE LimiterIInv /\ Allow(k) => LimiterIInv'
<1> SUFFICES ASSUME LimiterIInv, Allow(k) PROVE LimiterIInv'
  OBVIOUS
<1> USE DEF LimiterIInv
<1>1. now' = now /\ times' = times /\ popped' = popped
  BY DEF Allow
<1>2. visitor' \in Keys /\ ~Waiting' /\ current' = now /\ current' \in Nat
  BY LimiterAssumption DEF Allow, Waiting, LimiterTypeOK
<1>3. LimiterTypeOK'
  BY <1>1, <1>2 DEF LimiterTypeOK
<1>4. Bound' = Bound
  BY <1>1, <1>2 DEF Bound, Waiting, Allow
<1> QED BY <1>1, <1>3, <1>4 DEF Clock, Ordered, GoneIsOld, FewHeld, Held, WindowHolds

(* The oldest time held is popped: it is a window older than the call.     *)
LEMMA PopIInv == LimiterIInv /\ Pop => LimiterIInv'
<1> SUFFICES ASSUME LimiterIInv, Pop PROVE LimiterIInv'
  OBVIOUS
<1> USE DEF LimiterIInv
<1> DEFINE k == visitor
<1>1. k \in Keys /\ current \in Nat /\ Bound = current
  BY CallBound DEF Pop
<1>2. now' = now /\ times' = times /\ visitor' = visitor /\ current' = current /\ Bound' = Bound
  BY DEF Pop, Bound, Waiting
<1>3. /\ popped[k] \in Nat /\ popped[k] < Len(times[k])
      /\ times[k][popped[k] + 1] <= Bound - Window
  BY <1>1 DEF Pop, Expired, Held, LimiterTypeOK
<1>4. popped' = [popped EXCEPT ![k] = @ + 1]
  BY DEF Pop
<1>5. LimiterTypeOK'
  BY <1>1, <1>2, <1>3, <1>4 DEF LimiterTypeOK
<1>6. GoneIsOld'
  BY <1>1, <1>2, <1>3, <1>4 DEF GoneIsOld, LimiterTypeOK
<1>7. FewHeld'
  BY <1>1, <1>2, <1>3, <1>4, LimiterAssumption DEF FewHeld, Held, LimiterTypeOK
<1> QED BY <1>2, <1>5, <1>6, <1>7 DEF Clock, Ordered, WindowHolds

(* A request is admitted: there was room, so the request Limit before it   *)
(* is among those that are gone.                                           *)
LEMMA AdmitIInv == LimiterIInv /\ Admit => LimiterIInv'
<1> SUFFICES ASSUME LimiterIInv, Admit PROVE LimiterIInv'
  OBVIOUS
<1> USE DEF LimiterIInv
<1> DEFINE k == visitor
           n == Len(times[k])
           t == current
<1>1. k \in Keys /\ t \in Nat /\ Bound = t /\ t <= now
  BY CallBound DEF Admit, Clock
<1>2. now' = now /\ popped' = popped /\ Waiting' /\ Bound' = now
  BY DEF Admit, Over, Bound, Waiting
<1>3. times[k] \in Seq(Nat) /\ n \in Nat /\ popped[k] \in Nat /\ popped[k] <= n
  BY <1>1 DEF LimiterTypeOK
<1>4. times' = [times EXCEPT ![k] = Append(@, t)]
  BY DEF Admit
<1>5. /\ times'[k] = Append(times[k], t) /\ Len(times'[k]) = n + 1
      /\ \A i \in 1..n : times'[k][i] = times[k][i]
      /\ times'[k][n + 1] = t
  BY <1>1, <1>3, <1>4 DEF LimiterTypeOK
<1>6. \A h \in Keys : h # k => times'[h] = times[h]
  BY <1>4 DEF LimiterTypeOK
<1>7. LimiterTypeOK'
  <2>1. times' \in [Keys -> Seq(Nat)]
    BY <1>1, <1>3, <1>4 DEF LimiterTypeOK
  <2>2. ASSUME NEW h \in Keys PROVE popped'[h] <= Len(times'[h])
    <3>1. CASE h = k
      BY <1>2, <1>3, <1>5, <3>1
    <3>2. CASE h # k
      BY <1>2, <1>6, <3>2 DEF LimiterTypeOK
    <3> QED BY <3>1, <3>2
  <2> QED BY <1>2, <2>1, <2>2 DEF LimiterTypeOK, Admit, Over
<1>8. Clock'
  BY <1>1, <1>2 DEF Clock, LimiterTypeOK
<1>9. \A h \in Keys : \A i \in 1..Len(times[h]) : times[h][i] \in Nat /\ times[h][i] <= t
  BY <1>1 DEF Ordered, LimiterTypeOK
<1>10. Ordered'
  <2> SUFFICES ASSUME NEW h \in Keys, NEW i \in 1..Len(times'[h]),
                      NEW j \in 1..Len(times'[h]), i <= j
               PROVE  times'[h][i] <= times'[h][j] /\ times'[h][j] <= now
    BY <1>2 DEF Ordered
  <2>1. CASE h # k
    <3>1. times'[h] = times[h]
      BY <1>6, <2>1
    <3>2. times[h][i] <= times[h][j] /\ times[h][j] \in Nat /\ times[h][j] <= t
      BY <1>9, <3>1 DEF Ordered
    <3> QED BY <1>1, <3>1, <3>2 DEF LimiterTypeOK
  <2>2. CASE h = k /\ j <= n
    <3>1. i \in 1..n /\ j \in 1..n
      BY <1>3, <1>5, <2>2
    <3>2. times[k][i] <= times[k][j] /\ times[k][j] \in Nat /\ times[k][j] <= t
      BY <1>1, <1>9, <3>1 DEF Ordered
    <3>3. times'[h][i] = times[k][i] /\ times'[h][j] = times[k][j]
      BY <1>5, <2>2, <3>1
    <3>4. times[k][i] \in Nat /\ now \in Nat
      BY <1>1, <1>9, <3>1 DEF LimiterTypeOK
    <3> HIDE DEF k, n, t
    <3> QED BY <1>1, <3>2, <3>3, <3>4
  <2>3. CASE h = k /\ j = n + 1
    <3>1. times'[h][j] = t /\ now \in Nat
      BY <1>5, <2>3 DEF LimiterTypeOK
    <3>2. i \in 1..n => times'[h][i] <= t
      BY <1>1, <1>5, <1>9, <2>3
    <3>3. i \in 1..n \/ i = n + 1
      BY <1>3, <1>5, <2>3
    <3> HIDE DEF k, n, t
    <3> QED BY <1>1, <2>3, <3>1, <3>2, <3>3
  <2> QED BY <1>3, <1>5, <2>1, <2>2, <2>3
<1>11. GoneIsOld'
  <2> SUFFICES ASSUME NEW h \in Keys, NEW i \in 1..popped[h]
               PROVE  times'[h][i] <= now - Window
    BY <1>2 DEF GoneIsOld
  <2>1. i \in 1..Len(times[h])
    BY DEF LimiterTypeOK
  <2>2. times[h][i] <= t - Window /\ times[h][i] \in Nat
    BY <1>1, <1>9, <2>1 DEF GoneIsOld
  <2>3. times'[h][i] = times[h][i]
    BY <1>5, <1>6, <2>1
  <2> QED BY <1>1, <2>2, <2>3, LimiterAssumption DEF LimiterTypeOK
<1>12. n - popped[k] < Limit
  BY <1>1, <1>3, LimiterAssumption DEF Admit, Full, Held
<1>13. FewHeld'
  BY <1>2, <1>3, <1>5, <1>6, <1>12, LimiterAssumption DEF FewHeld, Held
<1>14. WindowHolds'
  <2> SUFFICES ASSUME NEW h \in Keys, NEW i \in 1..(Len(times'[h]) - Limit)
               PROVE  times'[h][i + Limit] - times'[h][i] >= Window
    BY DEF WindowHolds
  <2>1. CASE h # k
    BY <1>6, <2>1 DEF WindowHolds
  <2>2. CASE h = k /\ i + Limit <= n
    <3>1. i \in 1..(n - Limit) /\ i \in 1..n /\ i + Limit \in 1..n
      BY <1>3, <2>2, LimiterAssumption
    <3>2. times[k][i + Limit] - times[k][i] >= Window
      BY <1>1, <3>1 DEF WindowHolds
    <3>3. times'[h][i] = times[k][i] /\ times'[h][i + Limit] = times[k][i + Limit]
      BY <1>5, <2>2, <3>1
    <3> QED BY <3>2, <3>3
  <2>3. CASE h = k /\ i + Limit = n + 1
    <3>1. i \in 1..popped[k] /\ i \in 1..n
      BY <1>3, <1>12, <2>3, LimiterAssumption
    <3>2. times[k][i] <= t - Window /\ times[k][i] \in Nat
      BY <1>1, <1>9, <3>1 DEF GoneIsOld
    <3>3. times'[h][i] = times[k][i] /\ times'[h][i + Limit] = t
      BY <1>5, <2>3, <3>1
    <3> HIDE DEF k, n, t
    <3> QED BY <1>1, <3>2, <3>3, LimiterAssumption
  <2>4. h = k => i + Limit <= n \/ i + Limit = n + 1
    BY <1>3, <1>5, LimiterAssumption
  <2> QED BY <2>1, <2>2, <2>3, <2>4
<1> QED BY <1>7, <1>8, <1>10, <1>11, <1>13, <1>14

(* A request is turned away: only the call ends.                           *)
LEMMA RejectIInv == LimiterIInv /\ Reject => LimiterIInv'
<1> SUFFICES ASSUME LimiterIInv, Reject PROVE LimiterIInv'
  OBVIOUS
<1> USE DEF LimiterIInv
<1>1. now' = now /\ times' = times /\ popped' = popped /\ Bound' = now /\ Bound <= Bound'
  BY DEF Reject, Over, Bound, Waiting, Clock
<1>2. LimiterTypeOK'
  BY <1>1 DEF LimiterTypeOK, Reject, Over
<1>3. Clock'
  BY <1>1 DEF Clock, LimiterTypeOK
<1>4. Ordered'
  <2>1. \A k \in Keys : \A i \in 1..Len(times[k]) : times[k][i] \in Nat
    BY DEF LimiterTypeOK
  <2> QED BY <1>1, <1>3, <2>1 DEF Ordered, Clock
<1>5. GoneIsOld'
  <2>1. \A k \in Keys : \A i \in 1..popped[k] : times[k][i] \in Nat
    BY DEF LimiterTypeOK
  <2> QED BY <1>1, <1>3, <2>1, LimiterAssumption DEF GoneIsOld, Clock
<1> QED BY <1>1, <1>2, <1>3, <1>4, <1>5 DEF FewHeld, Held, WindowHolds

(* Every step keeps the invariant.                                         *)
LEMMA LimiterStep == LimiterIInv /\ [LimiterNext]_limiter => LimiterIInv'
<1> SUFFICES ASSUME LimiterIInv, [LimiterNext]_limiter PROVE LimiterIInv'
  OBVIOUS
<1>1. CASE Tick
  BY <1>1, TickIInv
<1>2. ASSUME NEW k \in Keys, Allow(k) PROVE LimiterIInv'
  BY <1>2, AllowIInv
<1>3. CASE Pop
  BY <1>3, PopIInv
<1>4. CASE Admit
  BY <1>4, AdmitIInv
<1>5. CASE Reject
  BY <1>5, RejectIInv
<1>6. CASE UNCHANGED limiter
  BY <1>6 DEF limiter, LimiterIInv, LimiterTypeOK, Clock, Ordered, GoneIsOld, FewHeld, Held,
     WindowHolds, Bound, Waiting
<1> QED BY <1>1, <1>2, <1>3, <1>4, <1>5, <1>6 DEF LimiterNext

(* The limiter's state keeps its shape (allow).                            *)
THEOREM LimiterTyped == LimiterSpec => []LimiterTypeOK
<1>1. LimiterIInv => LimiterTypeOK
  BY DEF LimiterIInv
<1> QED BY <1>1, LimiterStarts, LimiterStep, PTL DEF LimiterSpec

(* No window of time holds more than Limit admitted requests of a visitor  *)
(* (SlidingWindowRateLimiter.allow).                                       *)
THEOREM LimitIsKept == LimiterSpec => []WindowHolds
<1>1. LimiterIInv => WindowHolds
  BY DEF LimiterIInv
<1> QED BY <1>1, LimiterStarts, LimiterStep, PTL DEF LimiterSpec

(* A refusal is due to requests that are all less than a window old.       *)
THEOREM RefusalsAreDue == LimiterSpec => RefusalIsDue
<1> DEFINE Due == Reject => LET k == visitor
                                n == Len(times[k])
                            IN  \A i \in 1..n : i > n - Limit
                                    => times[k][i] > current - Window
<1>1. LimiterIInv /\ [LimiterNext]_limiter => [Due]_limiter
  <2> SUFFICES ASSUME LimiterIInv, Reject
               PROVE  LET k == visitor
                          n == Len(times[k])
                      IN  \A i \in 1..n : i > n - Limit
                              => times[k][i] > current - Window
    OBVIOUS
  <2> USE DEF LimiterIInv
  <2> DEFINE k == visitor
             n == Len(times[k])
  <2> SUFFICES ASSUME NEW i \in 1..n, i > n - Limit
               PROVE  times[k][i] > current - Window
    OBVIOUS
  <2>1. k \in Keys /\ current \in Nat
    BY CallBound DEF Reject
  <2>2. n \in Nat /\ popped[k] \in Nat /\ popped[k] <= n /\ times[k] \in Seq(Nat)
    BY <2>1 DEF LimiterTypeOK
  <2>3. n - popped[k] >= Limit /\ n > popped[k]
    BY <2>1, <2>2, LimiterAssumption DEF Reject, Full, Held
  <2>4. ~(times[k][popped[k] + 1] <= current - Window)
    BY <2>1, <2>2, <2>3 DEF Reject, Expired, Held
  <2>5. n - popped[k] = Limit
    <3>1. n - popped[k] <= Limit
      BY <2>1 DEF FewHeld, Held
    <3> HIDE DEF k, n
    <3> QED BY <2>2, <2>3, <3>1, LimiterAssumption
  <2>6. popped[k] + 1 \in 1..n /\ popped[k] + 1 <= i
    BY <2>2, <2>3, <2>5, LimiterAssumption
  <2>7. times[k][popped[k] + 1] <= times[k][i]
    BY <2>1, <2>6 DEF Ordered
  <2>8. times[k][popped[k] + 1] \in Nat /\ times[k][i] \in Nat
    BY <2>2, <2>6
  <2>9. current - Window \in Int
    BY <2>1, LimiterAssumption
  <2> HIDE DEF k, n
  <2> QED BY <2>4, <2>7, <2>8, <2>9
<1> QED BY <1>1, LimiterStarts, LimiterStep, PTL DEF LimiterSpec, RefusalIsDue

-----------------------------------------------------------------------------
(***************************************************************************)
(* The console.                                                            *)
(*                                                                         *)
(* A run is told only of plans that exist, and a plan that is over is over *)
(* for good: what a request was told stays true however late it is heard.  *)
(* What the pages show must therefore come from the control plane: a plan  *)
(* to approve is one it has, a list is one it was.                         *)
(***************************************************************************)
Status == {"none", "pending", "expired", "approved", "marked", "ended"}
Kinds == {"inject", "plan", "approve", "contexts"}
Names == Lists \cup {"demo", "lab"}
Phases == {"ready", "injecting", "diagnosed", "approving", "resolved", "failed", "idle", "busy"}

(* Of plans pl and runs rs: the plans that exist, those that are over and  *)
(* were never run, and what one of the lists may hold.  All three only     *)
(* grow.                                                                   *)
Existing(pl) == {p \in Plans : pl[p] # "none"}
Closed(pl, rs) == {p \in Existing(pl) : pl[p] # "pending" /\ \A u \in rs : u.plan # p}
WasRead(list, pl) ==
    \A p \in Plans : list[p].incident = "waiting_approval" => p \in Existing(pl)
Grows(pl, rs, ql, ss) == /\ Existing(pl) \subseteq Existing(ql)
                         /\ rs \subseteq ss
                         /\ Closed(pl, rs) \subseteq Closed(ql, ss)

(* What the answer to a request may say.                                   *)
Told(q, ok, what, pl, rs) ==
    /\ q.kind = "inject" => what \in Existing(pl) \cup {Nil}
    /\ q.kind = "plan" => what = q.plan
    /\ q.kind = "approve" => IF ok THEN what \in rs /\ what.plan = q.plan
                                   ELSE what = "conflict" => q.plan \in Closed(pl, rs)
    /\ q.kind = "contexts" => ok /\ WasRead(what, pl)

IsRequest(q) == q \in [at : {"sent", "admitted", "answered"}, browser : Browsers,
                       heard : BOOLEAN, kind : Kinds, plan : Plans \cup {Nil},
                       key : {q.key}, settles : BOOLEAN, ok : BOOLEAN, answer : {q.answer}]
GoodRequest(q, pl, rs) ==
    q = None \/ /\ IsRequest(q)
                /\ q.kind = "approve" => q.plan \in Existing(pl) /\ q.key = Key(q.plan)
                /\ q.kind = "plan" => q.plan \in Existing(pl) \cup {Nil}
                /\ q.at = "admitted" => q.kind = "inject"
                /\ q.at = "answered" => q.heard /\ Told(q, q.ok, q.answer, pl, rs)
Requested == /\ req = [r \in Requests |-> req[r]]
             /\ \A r \in Requests : GoodRequest(req[r], plan, runs)

GoodPage(g, pl) ==
    /\ g \in [name : Names, phase : Phases, plan : Plans \cup {Nil}, run : {g.run}, list : {g.list}]
    /\ g.plan # Nil => g.plan \in Existing(pl)
    /\ g.list # Nil => WasRead(g.list, pl)
Shown == /\ page = [b \in Browsers |-> page[b]]
         /\ \A b \in Browsers : GoodPage(page[b], plan)

(* A run belongs to the one plan its key is of, which is no longer pending. *)
Stored == /\ plan \in [Plans -> Status]
          /\ \A u \in runs : /\ u.plan \in Plans /\ u.key = Key(u.plan)
                             /\ plan[u.plan] \in {"marked", "ended"}
          /\ \A u, v \in runs : u.plan = v.plan => u = v

(* The limiter is asked about the injection that is being served.          *)
Served == /\ visitor = Nobody <=> serving = Nil
          /\ serving # Nil => /\ serving \in Requests
                              /\ req[serving].at = "sent" /\ req[serving].kind = "inject"

(* Only the demo asks for a plan.                                          *)
DemoAsks == \A r \in Requests :
                req[r].at # "none" /\ req[r].heard /\ req[r].kind = "plan"
                    => page[req[r].browser].name = "demo"

(* NoStuckPage, one request at a time.                                     *)
Busy(g) == \/ g.phase \in {"injecting", "approving", "busy"}
           \/ g.name = "approvals" /\ g.plan # Nil
Waits(q, b) == /\ q.at # "none" /\ q.browser = b /\ q.heard
               /\ q.kind # "contexts" \/ q.settles
Attended == \A b \in Browsers : Busy(page[b]) => \E r \in Requests : Waits(req[r], b)

ConsoleIInv == Stored /\ Served /\ Requested /\ Shown /\ DemoAsks /\ Attended

(* Attended is NoStuckPage.                                                *)
LEMMA NoneIsStuck == Attended => NoStuckPage
BY DEF Attended, NoStuckPage, Busy, Waits, Awaited, Under

(* What was true of a request stays true of it.                            *)
LEMMA RequestStays ==
    ASSUME NEW q, NEW pl, NEW rs, NEW ql, NEW ss,
           Grows(pl, rs, ql, ss), GoodRequest(q, pl, rs)
    PROVE  GoodRequest(q, ql, ss)
<1>1. CASE q = None
  BY <1>1 DEF GoodRequest
<1>2. CASE q # None
  <2>1. \A list : WasRead(list, pl) => WasRead(list, ql)
    BY DEF WasRead, Grows
  <2>2. Told(q, q.ok, q.answer, pl, rs) => Told(q, q.ok, q.answer, ql, ss)
    BY <2>1 DEF Told, Grows
  <2> QED BY <1>2, <2>2 DEF GoodRequest, Grows
<1> QED BY <1>1, <1>2

LEMMA PageStays ==
    ASSUME NEW g, NEW pl, NEW ql, Existing(pl) \subseteq Existing(ql), GoodPage(g, pl)
    PROVE  GoodPage(g, ql)
BY DEF GoodPage, WasRead

LEMMA Unchanging == Grows(plan, runs, plan, runs)
BY DEF Grows

(* One request is replaced.                                                *)
LEMMA OneRequest ==
    ASSUME Requested, NEW r \in Requests, NEW q, req' = [req EXCEPT ![r] = q],
           Grows(plan, runs, plan', runs'), GoodRequest(q, plan', runs')
    PROVE  /\ Requested'
           /\ req'[r] = q
           /\ \A s \in Requests : s # r => req'[s] = req[s]
<1>1. /\ req' = [s \in Requests |-> req'[s]]
      /\ req'[r] = q
      /\ \A s \in Requests : s # r => req'[s] = req[s]
  BY DEF Requested
<1>2. ASSUME NEW s \in Requests PROVE GoodRequest(req'[s], plan', runs')
  <2>1. CASE s = r
    BY <1>1, <2>1
  <2>2. CASE s # r
    BY <1>1, <2>2, RequestStays DEF Requested
  <2> QED BY <2>1, <2>2
<1> QED BY <1>1, <1>2 DEF Requested

(* One page is replaced.                                                   *)
LEMMA OnePage ==
    ASSUME Shown, NEW b \in Browsers, NEW g, page' = [page EXCEPT ![b] = g],
           plan' = plan, GoodPage(g, plan)
    PROVE  /\ Shown'
           /\ page'[b] = g
           /\ \A c \in Browsers : c # b => page'[c] = page[c]
BY DEF Shown

(* A request that is under way has its fields.                             *)
LEMMA Fields ==
    ASSUME Requested, NEW r \in Requests, req[r].at # "none"
    PROVE  IsRequest(req[r]) /\ req[r] # None
BY DEF Requested, GoodRequest, None

(* A request is answered: whoever waits for it still does, and is told what *)
(* is true.                                                                *)
LEMMA Answering ==
    ASSUME Requested, DemoAsks, Attended, NEW r \in Requests, NEW ok \in BOOLEAN, NEW what,
           Answered(r, ok, what), req[r].at # "none",
           Grows(plan, runs, plan', runs'), page' = page,
           req[r].at = "admitted" => req[r].kind = "inject",
           Told(req[r], ok, what, plan', runs')
    PROVE  Requested' /\ DemoAsks' /\ Attended' /\ \A s \in Requests : s # r => req'[s] = req[s]
<1> DEFINE old == req[r]
           new == IF old.heard
                  THEN [old EXCEPT !.at = "answered", !.ok = ok, !.answer = what]
                  ELSE None
<1>1. IsRequest(old) /\ old # None /\ GoodRequest(old, plan, runs)
  BY Fields DEF Requested
<1>2. req' = [req EXCEPT ![r] = new]
  BY DEF Answered
<1>3. CASE old.heard
  <2>1. new = [old EXCEPT !.at = "answered", !.ok = ok, !.answer = what]
    BY <1>3
  <2>2. /\ new.at = "answered" /\ new.ok = ok /\ new.answer = what
        /\ new.heard /\ new.kind = old.kind /\ new.plan = old.plan /\ new.key = old.key
        /\ new.browser = old.browser /\ new.settles = old.settles
    BY <1>1, <1>3, <2>1 DEF IsRequest
  <2>3. IsRequest(new)
    BY <1>1, <2>1 DEF IsRequest
  <2>4. Told(new, new.ok, new.answer, plan', runs')
    BY <2>2 DEF Told
  <2>5. GoodRequest(old, plan', runs')
    BY <1>1, RequestStays
  <2> HIDE DEF new, old
  <2>6. GoodRequest(new, plan', runs')
    BY <1>1, <2>2, <2>3, <2>4, <2>5 DEF GoodRequest
  <2>7. /\ Requested' /\ req'[r] = new
        /\ \A s \in Requests : s # r => req'[s] = req[s]
    BY <1>2, <2>6, OneRequest
  <2>8. DemoAsks'
    <3> USE DEF old
    <3> QED BY <1>3, <2>2, <2>7 DEF DemoAsks
  <2>9. Attended'
    <3> USE DEF old
    <3>1. \A s \in Requests, b \in Browsers : Waits(req[s], b) => Waits(req'[s], b)
      BY <2>2, <2>7 DEF Waits
    <3> QED BY <3>1 DEF Attended
  <2> QED BY <2>7, <2>8, <2>9
<1>4. CASE ~old.heard
  <2>1. new = None
    BY <1>4
  <2> HIDE DEF new
  <2>2. GoodRequest(new, plan', runs') /\ new.at = "none"
    BY <2>1 DEF GoodRequest, None
  <2>3. /\ Requested' /\ req'[r] = new
        /\ \A s \in Requests : s # r => req'[s] = req[s]
    BY <1>2, <2>2, OneRequest
  <2>4. DemoAsks'
    BY <2>2, <2>3 DEF DemoAsks
  <2>5. Attended'
    <3>1. \A s \in Requests, b \in Browsers : Waits(req[s], b) => Waits(req'[s], b)
      BY <1>4, <2>3 DEF Waits
    <3> QED BY <3>1 DEF Attended
  <2> QED BY <2>3, <2>4, <2>5
<1> QED BY <1>3, <1>4

(* The pages are left as they are while the control plane works.           *)
LEMMA PagesStay ==
    ASSUME Shown, page' = page, Existing(plan) \subseteq Existing(plan')
    PROVE  Shown'
BY PageStays DEF Shown

(* While nothing is being served, an answer leaves it so.                  *)
LEMMA NothingServed ==
    ASSUME Served, serving = Nil, serving' = serving, UNCHANGED limiter
    PROVE  Served'
BY DEF Served, limiter

(* The limiter is asked.                                                   *)
LEMMA VisitorIsKey == ASSUME NEW b \in Browsers PROVE Visitor(b) \in Keys
BY ConsoleAssumption DEF Visitor

LEMMA AskLimiterStep ==
    ASSUME ConsoleIInv, NEW r \in Requests, AskLimiter(r)
    PROVE  ConsoleIInv'
<1>1. UNCHANGED <<plan, runs, page, req>> /\ serving' = r /\ OnLoop(r, "inject")
  BY DEF AskLimiter
<1>2. req[r].browser \in Browsers
  BY <1>1, Fields DEF ConsoleIInv, OnLoop, IsRequest
<1>3. visitor' # Nobody
  BY <1>2, VisitorIsKey, LimiterAssumption DEF AskLimiter, Allow
<1>4. Served'
  BY <1>1, <1>3, ConsoleAssumption DEF Served, OnLoop
<1> QED BY <1>1, <1>4 DEF ConsoleIInv, Stored, Requested, Shown, DemoAsks, Attended

LEMMA LimiterPopsStep == ConsoleIInv /\ LimiterPops => ConsoleIInv'
BY DEF LimiterPops, Pop, server, ConsoleIInv, Stored, Served, Requested, Shown, DemoAsks, Attended

LEMMA PassStep == ConsoleIInv /\ Pass => ConsoleIInv'
BY DEF Pass, Tick, server, ConsoleIInv, Stored, Served, Requested, Shown, DemoAsks, Attended

(* The limiter answers, while it is asked.                                 *)
LEMMA BeingServed ==
    ASSUME ConsoleIInv, ~Waiting
    PROVE  /\ serving \in Requests /\ req[serving].at = "sent" /\ req[serving].kind = "inject"
           /\ IsRequest(req[serving])
<1>1. serving \in Requests /\ req[serving].at = "sent" /\ req[serving].kind = "inject"
  BY DEF ConsoleIInv, Served, Waiting
<1> QED BY <1>1, Fields DEF ConsoleIInv

LEMMA LimiterAdmitsStep ==
    ASSUME ConsoleIInv, LimiterAdmits
    PROVE  ConsoleIInv'
<1> DEFINE r == serving
           new == [req[r] EXCEPT !.at = "admitted"]
<1>1. /\ r \in Requests /\ req[r].at = "sent" /\ req[r].kind = "inject" /\ IsRequest(req[r])
  BY BeingServed DEF LimiterAdmits, Admit
<1>2. /\ req' = [req EXCEPT ![r] = new]
      /\ UNCHANGED <<plan, runs, page>> /\ serving' = Nil /\ visitor' = Nobody
  BY DEF LimiterAdmits, Admit, Over
<1>3. /\ IsRequest(new) /\ new.at = "admitted" /\ new.kind = "inject"
      /\ new.heard = req[r].heard /\ new.browser = req[r].browser
      /\ new.settles = req[r].settles
  BY <1>1 DEF IsRequest
<1> HIDE DEF new
<1>4. GoodRequest(new, plan, runs)
  BY <1>3 DEF GoodRequest
<1>5. /\ Requested' /\ req'[r] = new
      /\ \A s \in Requests : s # r => req'[s] = req[s]
  BY <1>1, <1>2, <1>4, OneRequest, Unchanging DEF ConsoleIInv
<1>6. DemoAsks'
  BY <1>1, <1>2, <1>3, <1>5 DEF DemoAsks, ConsoleIInv
<1>7. Attended'
  <2>1. \A s \in Requests, b \in Browsers : Waits(req[s], b) => Waits(req'[s], b)
    BY <1>1, <1>3, <1>5 DEF Waits
  <2> QED BY <1>2, <2>1 DEF Attended, ConsoleIInv
<1>8. Served' /\ Stored' /\ Shown'
  BY <1>2 DEF ConsoleIInv, Served, Stored, Shown
<1> QED BY <1>5, <1>6, <1>7, <1>8 DEF ConsoleIInv

LEMMA LimiterRejectsStep ==
    ASSUME ConsoleIInv, LimiterRejects
    PROVE  ConsoleIInv'
<1>1. serving \in Requests /\ req[serving].at = "sent" /\ req[serving].kind = "inject"
  BY BeingServed DEF LimiterRejects, Reject
<1>2. /\ Answered(serving, FALSE, Nil) /\ UNCHANGED <<plan, runs, page>>
      /\ serving' = Nil /\ visitor' = Nobody
  BY DEF LimiterRejects, Reject, Over
<1>3. Told(req[serving], FALSE, Nil, plan', runs')
  BY <1>1 DEF Told
<1>4. Grows(plan, runs, plan', runs')
  BY <1>2, Unchanging
<1>5. Requested' /\ DemoAsks' /\ Attended'
  BY <1>1, <1>2, <1>3, <1>4, Answering DEF ConsoleIInv
<1>6. Served' /\ Stored' /\ Shown'
  BY <1>2 DEF ConsoleIInv, Served, Stored, Shown
<1> QED BY <1>5, <1>6 DEF ConsoleIInv

(* The injection creates a plan, or finds one that exists, or none.        *)
LEMMA InjectStep ==
    ASSUME ConsoleIInv, NEW r \in Requests, Inject(r)
    PROVE  ConsoleIInv'
<1>1. /\ serving = Nil /\ serving' = serving /\ UNCHANGED limiter
      /\ req[r].at = "admitted" /\ runs' = runs /\ page' = page
  BY DEF Inject
<1>2. IsRequest(req[r]) /\ req[r].kind = "inject"
  BY <1>1, Fields DEF ConsoleIInv, Requested, GoodRequest
<1>3. \E ok \in BOOLEAN, what \in Existing(plan') \cup {Nil} : Answered(r, ok, what)
  BY DEF Inject, Existing, Active, Incident, ConsoleIInv, Stored
<1>4. plan' = plan \/ \E p \in Plans : plan[p] = "none" /\ plan' = [plan EXCEPT ![p] = "pending"]
  BY DEF Inject
<1>5. Stored'
  BY <1>1, <1>4 DEF ConsoleIInv, Stored, Status
<1>6. Existing(plan) \subseteq Existing(plan')
  BY <1>4 DEF Existing, ConsoleIInv, Stored
<1>7. Grows(plan, runs, plan', runs')
  <2>1. Closed(plan, runs) \subseteq Closed(plan', runs)
    BY <1>4, <1>6 DEF Closed, Existing, ConsoleIInv, Stored
  <2> QED BY <1>1, <1>6, <2>1 DEF Grows
<1>8. PICK ok \in BOOLEAN, what \in Existing(plan') \cup {Nil} : Answered(r, ok, what)
  BY <1>3
<1>9. Told(req[r], ok, what, plan', runs')
  BY <1>2 DEF Told
<1>10. Requested' /\ DemoAsks' /\ Attended'
  BY <1>1, <1>2, <1>7, <1>8, <1>9, Answering DEF ConsoleIInv
<1>11. Served' /\ Shown'
  BY <1>1, <1>6, NothingServed, PagesStay DEF ConsoleIInv
<1> QED BY <1>5, <1>10, <1>11 DEF ConsoleIInv

(* A plan is read: the demo shows the plan it asked for.                   *)
LEMMA GetPlanStep ==
    ASSUME ConsoleIInv, NEW r \in Requests, GetPlan(r)
    PROVE  ConsoleIInv'
<1>1. /\ serving = Nil /\ UNCHANGED limiter /\ UNCHANGED <<plan, runs, serving, page>>
      /\ req[r].at = "sent" /\ req[r].kind = "plan"
  BY DEF GetPlan, server, OnLoop
<1>2. PICK ok \in BOOLEAN : Answered(r, ok, req[r].plan)
  BY DEF GetPlan
<1>3. Told(req[r], ok, req[r].plan, plan', runs')
  BY <1>1 DEF Told
<1>4. Requested' /\ DemoAsks' /\ Attended'
  BY <1>1, <1>2, <1>3, Unchanging, Answering DEF ConsoleIInv
<1>5. Stored' /\ Served' /\ Shown'
  BY <1>1, NothingServed DEF ConsoleIInv, Stored, Shown
<1> QED BY <1>4, <1>5 DEF ConsoleIInv

(* The lists read what there is.                                           *)
LEMMA IncidentContextsStep ==
    ASSUME ConsoleIInv, NEW r \in Requests, IncidentContexts(r)
    PROVE  ConsoleIInv'
<1>1. /\ serving = Nil /\ UNCHANGED limiter /\ UNCHANGED <<plan, runs, serving, page>>
      /\ req[r].at = "sent" /\ req[r].kind = "contexts" /\ Answered(r, TRUE, Contexts)
  BY DEF IncidentContexts, server, OnLoop
<1>2. WasRead(Contexts, plan)
  BY DEF WasRead, Contexts, Incident, Existing
<1>3. Told(req[r], TRUE, Contexts, plan', runs')
  BY <1>1, <1>2 DEF Told
<1>4. Requested' /\ DemoAsks' /\ Attended'
  BY <1>1, <1>3, Unchanging, Answering DEF ConsoleIInv
<1>5. Stored' /\ Served' /\ Shown'
  BY <1>1, NothingServed DEF ConsoleIInv, Stored, Shown
<1> QED BY <1>4, <1>5 DEF ConsoleIInv

(* A plan is approved: its run is told, or the plan had none and gets one, *)
(* or it stays without.                                                    *)
LEMMA KeysAreOfPlans == ASSUME NEW p, NEW q, Key(p) = Key(q) PROVE p = q
BY DEF Key

LEMMA ApproveStep ==
    ASSUME ConsoleIInv, NEW r \in Requests, Approve(r)
    PROVE  ConsoleIInv'
<1> DEFINE p == req[r].plan
           known == {u \in runs : u.key = req[r].key}
           Run(status) == [key |-> req[r].key, plan |-> p, status |-> status]
<1>1. /\ serving = Nil /\ UNCHANGED limiter /\ UNCHANGED <<serving, page>>
      /\ req[r].at = "sent" /\ req[r].kind = "approve"
  BY DEF Approve, OnLoop
<1>2. GoodRequest(req[r], plan, runs) /\ IsRequest(req[r]) /\ req[r] # None
  BY <1>1, Fields DEF ConsoleIInv, Requested
<1>3. p \in Existing(plan) /\ p \in Plans /\ req[r].key = Key(p)
  BY <1>1, <1>2 DEF GoodRequest, Existing
<1>4. known = RunsOf(p)
  BY <1>3, KeysAreOfPlans DEF RunsOf, ConsoleIInv, Stored
<1>5. ASSUME NEW ok \in BOOLEAN, NEW what, Answered(r, ok, what), Stored',
             Grows(plan, runs, plan', runs'), Told(req[r], ok, what, plan', runs')
      PROVE  ConsoleIInv'
  <2>1. Requested' /\ DemoAsks' /\ Attended'
    BY <1>1, <1>5, Answering DEF ConsoleIInv
  <2>2. Served' /\ Shown'
    BY <1>1, <1>5, NothingServed, PagesStay DEF ConsoleIInv, Grows
  <2> QED BY <1>5, <2>1, <2>2 DEF ConsoleIInv
<1>6. CASE \E u \in known : Answered(r, TRUE, u) /\ UNCHANGED <<plan, runs>>
  <2>1. PICK u \in known : Answered(r, TRUE, u)
    BY <1>6
  <2>2. u \in runs /\ u.plan = p
    BY <1>4 DEF RunsOf
  <2>3. Told(req[r], TRUE, u, plan', runs')
    BY <1>1, <1>6, <2>2 DEF Told
  <2>4. Stored' /\ Grows(plan, runs, plan', runs')
    BY <1>6, Unchanging DEF ConsoleIInv, Stored
  <2> QED BY <1>5, <2>1, <2>3, <2>4
<1>7. CASE /\ known = {} /\ plan[p] # "pending"
           /\ Answered(r, FALSE, "conflict") /\ UNCHANGED <<plan, runs>>
  <2>1. p \in Closed(plan, runs)
    BY <1>3, <1>4, <1>7 DEF Closed, RunsOf
  <2>2. Told(req[r], FALSE, "conflict", plan', runs')
    BY <1>1, <1>7, <2>1 DEF Told
  <2>3. Stored' /\ Grows(plan, runs, plan', runs')
    BY <1>7, Unchanging DEF ConsoleIInv, Stored
  <2> QED BY <1>5, <1>7, <2>2, <2>3
<1>8. CASE /\ known = {} /\ plan[p] = "pending" /\ runs' = runs
           /\ \E left \in {"pending", "expired", "approved", "marked"} :
                 plan' = [plan EXCEPT ![p] = left]
           /\ Answered(r, FALSE, "error")
  <2>1. PICK left \in {"pending", "expired", "approved", "marked"} :
            plan' = [plan EXCEPT ![p] = left]
    BY <1>8
  <2>2. plan' \in [Plans -> Status]
    BY <1>3, <2>1 DEF ConsoleIInv, Stored, Status
  <2>3. Stored'
    BY <1>3, <1>8, <2>1, <2>2 DEF ConsoleIInv, Stored
  <2>4. Grows(plan, runs, plan', runs')
    BY <1>3, <1>8, <2>1 DEF Grows, Existing, Closed, ConsoleIInv, Stored
  <2>5. Told(req[r], FALSE, "error", plan', runs')
    BY <1>1 DEF Told
  <2> QED BY <1>5, <1>8, <2>3, <2>4, <2>5
<1>9. ASSUME known = {}, plan[p] = "pending", NEW left \in {"marked", "ended"},
             plan' = [plan EXCEPT ![p] = left],
             NEW status \in {"running", "recovered", "failed"}, runs' = runs \cup {Run(status)}
      PROVE  Stored' /\ Grows(plan, runs, plan', runs')
  <2> DEFINE new == Run(status)
  <2>1. new.plan = p /\ new.key = Key(p)
    BY <1>3
  <2>2. \A u \in runs : u.plan # p
    BY <1>4, <1>9 DEF RunsOf
  <2>3. plan' \in [Plans -> Status] /\ plan'[p] = left
    BY <1>3, <1>9 DEF ConsoleIInv, Stored, Status
  <2> HIDE DEF new
  <2>4. runs' = runs \cup {new}
    BY <1>9 DEF new
  <2>5. Stored'
    <3>1. ASSUME NEW u \in runs'
          PROVE  u.plan \in Plans /\ u.key = Key(u.plan) /\ plan'[u.plan] \in {"marked", "ended"}
      <4>1. CASE u = new
        BY <1>3, <2>1, <2>3, <4>1
      <4>2. CASE u \in runs
        BY <1>9, <2>2, <4>2 DEF ConsoleIInv, Stored
      <4> QED BY <2>4, <4>1, <4>2
    <3>2. \A u, v \in runs' : u.plan = v.plan => u = v
      BY <2>1, <2>2, <2>4 DEF ConsoleIInv, Stored
    <3> QED BY <2>3, <3>1, <3>2 DEF Stored
  <2>6. Grows(plan, runs, plan', runs')
    BY <1>3, <1>9, <2>1, <2>4 DEF Grows, Existing, Closed, ConsoleIInv, Stored
  <2> QED BY <2>5, <2>6
<1>10. CASE /\ known = {} /\ plan[p] = "pending" /\ Answered(r, FALSE, "error")
            /\ plan' = [plan EXCEPT ![p] = "marked"]
            /\ \E status \in {"running", "recovered", "failed"} : runs' = runs \cup {Run(status)}
  <2>1. Stored' /\ Grows(plan, runs, plan', runs')
    BY <1>9, <1>10
  <2>2. Told(req[r], FALSE, "error", plan', runs')
    BY <1>1 DEF Told
  <2> QED BY <1>5, <1>10, <2>1, <2>2
<1>11. CASE /\ known = {} /\ plan[p] = "pending"
            /\ plan' = [plan EXCEPT ![p] = "ended"]
            /\ \E status \in {"recovered", "failed"} :
                  runs' = runs \cup {Run(status)} /\ Answered(r, TRUE, Run(status))
  <2>1. PICK status \in {"recovered", "failed"} :
            runs' = runs \cup {Run(status)} /\ Answered(r, TRUE, Run(status))
    BY <1>11
  <2>2. Stored' /\ Grows(plan, runs, plan', runs')
    BY <1>9, <1>11, <2>1
  <2>3. Run(status) \in runs' /\ Run(status).plan = p
    BY <2>1
  <2>4. Told(req[r], TRUE, Run(status), plan', runs')
    BY <1>1, <2>3 DEF Told
  <2> QED BY <1>5, <2>1, <2>2, <2>4
<1> QED BY <1>6, <1>7, <1>8, <1>10, <1>11 DEF Approve

(* A click that sends a request which the page then waits for.             *)
LEMMA Asking ==
    ASSUME ConsoleIInv, Click, NEW b \in Browsers, NEW kind \in {"inject", "approve"},
           NEW p \in Plans \cup {Nil}, kind = "approve" => p \in Existing(plan),
           Send(b, kind, p),
           NEW g, page' = [page EXCEPT ![b] = g], GoodPage(g, plan), g.name = page[b].name
    PROVE  ConsoleIInv'
<1>1. PICK r \in Requests : req[r].at = "none" /\ req' = [req EXCEPT ![r] = Sent(b, kind, p, FALSE)]
  BY DEF Send
<1> DEFINE q == Sent(b, kind, p, FALSE)
<1>2. /\ GoodRequest(q, plan, runs) /\ q.at = "sent" /\ q.browser = b /\ q.heard
      /\ q.kind = kind /\ q.settles = FALSE
  BY DEF Sent, GoodRequest, IsRequest, Kinds
<1> HIDE DEF q
<1>3. UNCHANGED limiter /\ UNCHANGED <<plan, runs, serving>>
  BY DEF Click, server
<1>4. /\ Requested' /\ req'[r] = q
      /\ \A s \in Requests : s # r => req'[s] = req[s]
  BY <1>1, <1>2, <1>3, OneRequest, Unchanging DEF ConsoleIInv, q
<1>5. /\ Shown' /\ page'[b] = g
      /\ \A c \in Browsers : c # b => page'[c] = page[c]
  BY <1>3, OnePage DEF ConsoleIInv
<1>6. \A c \in Browsers : page'[c].name = page[c].name
  BY <1>5
<1>7. DemoAsks'
  <2> SUFFICES ASSUME NEW s \in Requests, req'[s].at # "none", req'[s].heard, req'[s].kind = "plan"
               PROVE  page'[req'[s].browser].name = "demo"
    BY DEF DemoAsks
  <2>1. s # r /\ req'[s] = req[s]
    BY <1>2, <1>4
  <2>2. req[s].browser \in Browsers
    BY <2>1, Fields DEF ConsoleIInv, IsRequest
  <2> QED BY <1>6, <2>1, <2>2 DEF ConsoleIInv, DemoAsks
<1>8. Attended'
  <2>1. Waits(req'[r], b)
    BY <1>2, <1>4 DEF Waits
  <2>2. \A s \in Requests, c \in Browsers : Waits(req[s], c) => Waits(req'[s], c)
    BY <1>1, <1>4 DEF Waits
  <2> QED BY <1>5, <2>1, <2>2 DEF Attended, ConsoleIInv
<1>9. Stored' /\ Served'
  <2>1. Served'
    BY <1>1, <1>3, <1>4 DEF ConsoleIInv, Served, limiter
  <2> QED BY <1>3, <2>1 DEF ConsoleIInv, Stored
<1> QED BY <1>4, <1>5, <1>7, <1>8, <1>9 DEF ConsoleIInv

(* The handlers that send an injection or an approval.                     *)
LEMMA RunDemoStep ==
    ASSUME ConsoleIInv, NEW b \in Browsers, RunDemo(b) PROVE ConsoleIInv'
<1> DEFINE g == [page[b] EXCEPT !.phase = "injecting", !.run = Nil]
<1>1. GoodPage(page[b], plan)
  BY DEF ConsoleIInv, Shown
<1>2. page' = [page EXCEPT ![b] = g]
  BY DEF RunDemo
<1>3. /\ g.name = page[b].name /\ g.plan = page[b].plan /\ g.list = page[b].list
      /\ g \in [name : Names, phase : Phases, plan : Plans \cup {Nil}, run : {g.run}, list : {g.list}]
  BY <1>1 DEF GoodPage, Phases
<1> HIDE DEF g
<1>4. GoodPage(g, plan)
  BY <1>1, <1>3 DEF GoodPage
<1>5. Click /\ Send(b, "inject", Nil)
  BY DEF RunDemo
<1> QED BY <1>2, <1>3, <1>4, <1>5, Asking

LEMMA ApproveDemoStep ==
    ASSUME ConsoleIInv, NEW b \in Browsers, ApproveDemo(b) PROVE ConsoleIInv'
<1> DEFINE g == [page[b] EXCEPT !.phase = "approving"]
<1>1. GoodPage(page[b], plan)
  BY DEF ConsoleIInv, Shown
<1>2. page' = [page EXCEPT ![b] = g]
  BY DEF ApproveDemo
<1>3. /\ g.name = page[b].name /\ g.plan = page[b].plan /\ g.list = page[b].list
      /\ g \in [name : Names, phase : Phases, plan : Plans \cup {Nil}, run : {g.run}, list : {g.list}]
  BY <1>1 DEF GoodPage, Phases
<1> HIDE DEF g
<1>4. GoodPage(g, plan)
  BY <1>1, <1>3 DEF GoodPage
<1>5. Click /\ Send(b, "approve", page[b].plan)
  BY DEF ApproveDemo
<1>6. page[b].plan \in Plans /\ page[b].plan \in Existing(plan)
  BY <1>1 DEF ApproveDemo, GoodPage, Existing
<1> QED BY <1>2, <1>3, <1>4, <1>5, <1>6, Asking

LEMMA InjectInLabStep ==
    ASSUME ConsoleIInv, NEW b \in Browsers, InjectInLab(b) PROVE ConsoleIInv'
<1> DEFINE g == [page[b] EXCEPT !.phase = "busy"]
<1>1. GoodPage(page[b], plan)
  BY DEF ConsoleIInv, Shown
<1>2. page' = [page EXCEPT ![b] = g]
  BY DEF InjectInLab
<1>3. /\ g.name = page[b].name /\ g.plan = page[b].plan /\ g.list = page[b].list
      /\ g \in [name : Names, phase : Phases, plan : Plans \cup {Nil}, run : {g.run}, list : {g.list}]
  BY <1>1 DEF GoodPage, Phases
<1> HIDE DEF g
<1>4. GoodPage(g, plan)
  BY <1>1, <1>3 DEF GoodPage
<1>5. Click /\ Send(b, "inject", Nil)
  BY DEF InjectInLab
<1> QED BY <1>2, <1>3, <1>4, <1>5, Asking

(* A plan that a list offers exists, however old the list is.              *)
LEMMA OfferedExists ==
    ASSUME ConsoleIInv, NEW b \in Browsers, NEW p \in Plans, Listed(b, p)
    PROVE  p \in Existing(plan)
BY DEF Listed, ConsoleIInv, Shown, GoodPage, WasRead

LEMMA ApproveIncidentStep ==
    ASSUME ConsoleIInv, NEW b \in Browsers, NEW p \in Plans, ApproveIncident(b, p)
    PROVE  ConsoleIInv'
<1> DEFINE g == [page[b] EXCEPT !.phase = "busy"]
<1>1. GoodPage(page[b], plan)
  BY DEF ConsoleIInv, Shown
<1>2. page' = [page EXCEPT ![b] = g]
  BY DEF ApproveIncident
<1>3. /\ g.name = page[b].name /\ g.plan = page[b].plan /\ g.list = page[b].list
      /\ g \in [name : Names, phase : Phases, plan : Plans \cup {Nil}, run : {g.run}, list : {g.list}]
  BY <1>1 DEF GoodPage, Phases
<1> HIDE DEF g
<1>4. GoodPage(g, plan)
  BY <1>1, <1>3 DEF GoodPage
<1>5. Click /\ Send(b, "approve", p) /\ p \in Existing(plan)
  BY OfferedExists DEF ApproveIncident
<1> QED BY <1>2, <1>3, <1>4, <1>5, Asking

LEMMA ApprovePendingStep ==
    ASSUME ConsoleIInv, NEW b \in Browsers, NEW p \in Plans, ApprovePending(b, p)
    PROVE  ConsoleIInv'
<1> DEFINE g == [page[b] EXCEPT !.plan = p]
<1>1. GoodPage(page[b], plan)
  BY DEF ConsoleIInv, Shown
<1>2. page' = [page EXCEPT ![b] = g]
  BY DEF ApprovePending
<1>3. /\ g.name = page[b].name /\ g.plan = p /\ g.list = page[b].list
      /\ g \in [name : Names, phase : Phases, plan : Plans \cup {Nil}, run : {g.run}, list : {g.list}]
  BY <1>1 DEF GoodPage
<1>4. Click /\ Send(b, "approve", p) /\ p \in Existing(plan)
  BY OfferedExists DEF ApprovePending
<1> HIDE DEF g
<1>5. GoodPage(g, plan)
  BY <1>1, <1>3, <1>4 DEF GoodPage
<1> QED BY <1>2, <1>3, <1>4, <1>5, Asking

(* The list is read again: whoever waits still waits.                      *)
LEMMA RefreshStep ==
    ASSUME ConsoleIInv, NEW b \in Browsers, Refresh(b) PROVE ConsoleIInv'
<1>1. PICK r \in Requests : req[r].at = "none" /\ req' = [req EXCEPT ![r] = Sent(b, "contexts", Nil, FALSE)]
  BY DEF Refresh, Send
<1> DEFINE q == Sent(b, "contexts", Nil, FALSE)
<1>2. GoodRequest(q, plan, runs) /\ q.kind = "contexts"
  BY DEF Sent, GoodRequest, IsRequest, Kinds
<1> HIDE DEF q
<1>3. UNCHANGED limiter /\ UNCHANGED <<plan, runs, serving, page>>
  BY DEF Refresh, Click, server
<1>4. /\ Requested' /\ req'[r] = q
      /\ \A s \in Requests : s # r => req'[s] = req[s]
  BY <1>1, <1>2, <1>3, OneRequest, Unchanging DEF ConsoleIInv, q
<1>5. DemoAsks'
  BY <1>2, <1>3, <1>4 DEF ConsoleIInv, DemoAsks
<1>6. Attended'
  <2>1. \A s \in Requests, c \in Browsers : Waits(req[s], c) => Waits(req'[s], c)
    BY <1>1, <1>4 DEF Waits
  <2> QED BY <1>3, <2>1 DEF Attended, ConsoleIInv
<1>7. Served'
  BY <1>1, <1>3, <1>4 DEF ConsoleIInv, Served, limiter
<1> QED BY <1>3, <1>4, <1>5, <1>6, <1>7 DEF ConsoleIInv, Stored, Shown

(* A page is left: what it asked for goes on unheard.                      *)
LEMMA OpenStep ==
    ASSUME ConsoleIInv, NEW b \in Browsers, NEW name \in Names, Open(b, name)
    PROVE  ConsoleIInv'
<1> DEFINE left == [s \in Requests |->
                       IF s \notin Awaited(b) THEN req[s]
                       ELSE IF req[s].at = "answered" THEN None
                       ELSE [req[s] EXCEPT !.heard = FALSE]]
<1>1. UNCHANGED limiter /\ UNCHANGED <<plan, runs, serving>>
  BY DEF Open, Click, server
<1>2. page' = [page EXCEPT ![b] = Mounted(name)]
  BY DEF Open
<1>3. \/ req' = left
      \/ \E r \in Requests : /\ left[r].at = "none"
                             /\ req' = [left EXCEPT ![r] = Sent(b, "contexts", Nil, FALSE)]
  BY DEF Open
<1>4. /\ left = [s \in Requests |-> left[s]]
      /\ \A s \in Requests : s \notin Awaited(b) => left[s] = req[s]
  OBVIOUS
<1>5. ASSUME NEW s \in Requests, s \in Awaited(b)
      PROVE  /\ left[s].at = "none" \/ ~left[s].heard
             /\ GoodRequest(left[s], plan, runs)
             /\ req[s].at = "sent" => left[s].at = "sent" /\ left[s].kind = req[s].kind
  <2>1. IsRequest(req[s]) /\ GoodRequest(req[s], plan, runs) /\ req[s] # None
    BY <1>5, Fields DEF ConsoleIInv, Requested, Awaited, Under
  <2>2. CASE req[s].at = "answered"
    <3>1. left[s] = None
      BY <1>5, <2>2
    <3> HIDE DEF left
    <3> QED BY <2>2, <3>1 DEF GoodRequest, None
  <2>3. CASE req[s].at # "answered"
    <3>1. left[s] = [req[s] EXCEPT !.heard = FALSE]
      BY <1>5, <2>3
    <3>2. PICK q : q = left[s]
      OBVIOUS
    <3> HIDE DEF left
    <3>3. /\ IsRequest(q) /\ q.heard = FALSE /\ q.at = req[s].at /\ q.kind = req[s].kind
          /\ q.plan = req[s].plan /\ q.key = req[s].key
      BY <2>1, <3>1, <3>2 DEF IsRequest
    <3>4. GoodRequest(q, plan, runs)
      BY <2>1, <2>3, <3>3 DEF GoodRequest
    <3> QED BY <3>2, <3>3, <3>4
  <2> QED BY <2>2, <2>3
<1> HIDE DEF left
<1>6. \A s \in Requests : GoodRequest(left[s], plan, runs)
  BY <1>4, <1>5 DEF ConsoleIInv, Requested
<1>7. PICK r \in Requests \cup {Nil} :
          /\ r # Nil => left[r].at = "none" /\ req'[r].kind = "contexts"
          /\ req' = [s \in Requests |-> req'[s]]
          /\ \A s \in Requests : /\ GoodRequest(req'[s], plan, runs)
                                 /\ s # r => req'[s] = left[s]
  <2>1. CASE req' = left
    BY <1>4, <1>6, <2>1
  <2>2. CASE \E r \in Requests : /\ left[r].at = "none"
                                 /\ req' = [left EXCEPT ![r] = Sent(b, "contexts", Nil, FALSE)]
    <3>1. PICK r \in Requests : /\ left[r].at = "none"
                                /\ req' = [left EXCEPT ![r] = Sent(b, "contexts", Nil, FALSE)]
      BY <2>2
    <3>2. PICK q : q = Sent(b, "contexts", Nil, FALSE)
      OBVIOUS
    <3>3. GoodRequest(q, plan, runs) /\ q.kind = "contexts"
      BY <3>2 DEF Sent, GoodRequest, IsRequest, Kinds
    <3>4. /\ req'[r] = q /\ req' = [s \in Requests |-> req'[s]]
          /\ \A s \in Requests : s # r => req'[s] = left[s]
      BY <1>4, <3>1, <3>2
    <3>5. \A s \in Requests : GoodRequest(req'[s], plan, runs)
      BY <1>6, <3>3, <3>4
    <3> WITNESS r \in Requests \cup {Nil}
    <3> QED BY <3>1, <3>3, <3>4, <3>5
  <2> QED BY <1>3, <2>1, <2>2
<1>8. Requested'
  BY <1>1, <1>7 DEF Requested
<1>9. Shown'
  <2>1. GoodPage(Mounted(name), plan)
    BY DEF GoodPage, Mounted, Phases
  <2> QED BY <1>1, <1>2, <2>1, OnePage DEF ConsoleIInv
<1>10. \A c \in Browsers : c # b => page'[c] = page[c]
  BY <1>2 DEF ConsoleIInv, Shown
<1>11. \A s \in Requests :
          req'[s].at # "none" /\ req'[s].heard /\ s # r
              => req'[s] = req[s] /\ s \notin Awaited(b)
  BY <1>4, <1>5, <1>7
<1>12. DemoAsks'
  <2> SUFFICES ASSUME NEW s \in Requests, req'[s].at # "none", req'[s].heard, req'[s].kind = "plan"
               PROVE  page'[req'[s].browser].name = "demo"
    BY DEF DemoAsks
  <2>1. s # r
    BY <1>7, ConsoleAssumption
  <2>2. req'[s] = req[s] /\ s \notin Awaited(b)
    BY <1>11, <2>1
  <2>3. req[s].browser \in Browsers /\ req[s].browser # b
    BY <2>2, Fields DEF ConsoleIInv, IsRequest, Awaited, Under
  <2> QED BY <1>10, <2>2, <2>3 DEF ConsoleIInv, DemoAsks
<1>13. Attended'
  <2> SUFFICES ASSUME NEW c \in Browsers, Busy(page'[c])
               PROVE  \E s \in Requests : Waits(req'[s], c)
    BY DEF Attended
  <2>1. c # b
    BY <1>2 DEF ConsoleIInv, Shown, Busy, Mounted
  <2>2. PICK s \in Requests : Waits(req[s], c)
    BY <1>10, <2>1 DEF ConsoleIInv, Attended
  <2>3. s \notin Awaited(b) /\ req[s].at # "none"
    BY <2>1, <2>2 DEF Waits, Awaited, Under
  <2>4. s # r
    BY <1>4, <1>7, <2>3, ConsoleAssumption
  <2> QED BY <1>4, <1>7, <2>2, <2>3, <2>4
<1>14. Served'
  <2>1. ASSUME serving # Nil
        PROVE  req'[serving].at = "sent" /\ req'[serving].kind = "inject"
    <3>1. serving \in Requests /\ req[serving].at = "sent" /\ req[serving].kind = "inject"
      BY <2>1 DEF ConsoleIInv, Served
    <3>2. left[serving].at = "sent" /\ left[serving].kind = "inject"
      BY <1>4, <1>5, <3>1
    <3> QED BY <1>7, <2>1, <3>1, <3>2
  <2> QED BY <1>1, <2>1 DEF ConsoleIInv, Served, limiter
<1> QED BY <1>1, <1>8, <1>9, <1>12, <1>13, <1>14 DEF ConsoleIInv, Stored

(* A request ends or another takes its place, and its page hears of it.  A *)
(* page that still waits waits for the new one, or not for the old one.    *)
LEMMA Hearing ==
    ASSUME ConsoleIInv, NEW r \in Requests, req[r].at # "none",
           UNCHANGED <<limiter, plan, runs, serving>>,
           NEW g, NEW q,
           page' = [page EXCEPT ![req[r].browser] = g], req' = [req EXCEPT ![r] = q],
           GoodPage(g, plan), g.name = page[req[r].browser].name,
           GoodRequest(q, plan, runs),
           serving = r => q.at = "sent" /\ q.kind = "inject",
           q.at # "none" /\ q.heard =>
               q.browser = req[r].browser /\ (q.kind = "plan" => g.name = "demo"),
           Busy(g) => \/ Waits(q, req[r].browser)
                      \/ Busy(page[req[r].browser]) /\ ~Waits(req[r], req[r].browser)
    PROVE  ConsoleIInv'
<1>1. PICK b : b = req[r].browser
  OBVIOUS
<1>2. b \in Browsers
  BY <1>1, Fields DEF ConsoleIInv, IsRequest
<1>3. /\ Requested' /\ req'[r] = q
      /\ \A s \in Requests : s # r => req'[s] = req[s]
  BY OneRequest, Unchanging DEF ConsoleIInv
<1>4. /\ Shown' /\ page'[b] = g
      /\ \A c \in Browsers : c # b => page'[c] = page[c]
  BY <1>1, <1>2, OnePage DEF ConsoleIInv
<1>5. \A c \in Browsers : page'[c].name = page[c].name
  BY <1>1, <1>4
<1>6. DemoAsks'
  <2> SUFFICES ASSUME NEW s \in Requests, req'[s].at # "none", req'[s].heard, req'[s].kind = "plan"
               PROVE  page'[req'[s].browser].name = "demo"
    BY DEF DemoAsks
  <2>1. CASE s = r
    BY <1>1, <1>3, <1>4, <2>1
  <2>2. CASE s # r
    <3>1. req'[s] = req[s]
      BY <1>3, <2>2
    <3>2. req[s].browser \in Browsers
      BY <3>1, Fields DEF ConsoleIInv, IsRequest
    <3> QED BY <1>5, <3>1, <3>2 DEF ConsoleIInv, DemoAsks
  <2> QED BY <2>1, <2>2
<1>7. Attended'
  <2> SUFFICES ASSUME NEW c \in Browsers, Busy(page'[c])
               PROVE  \E s \in Requests : Waits(req'[s], c)
    BY DEF Attended
  <2>1. CASE c # b
    <3>1. PICK s \in Requests : Waits(req[s], c)
      BY <1>4, <2>1 DEF ConsoleIInv, Attended
    <3>2. s # r
      BY <1>1, <2>1, <3>1 DEF Waits
    <3> QED BY <1>3, <3>1, <3>2
  <2>2. CASE c = b /\ Waits(q, b)
    BY <1>3, <2>2
  <2>3. CASE c = b /\ Busy(page[b]) /\ ~Waits(req[r], b)
    <3>1. PICK s \in Requests : Waits(req[s], b)
      BY <1>2, <2>3 DEF ConsoleIInv, Attended
    <3> QED BY <1>3, <2>3, <3>1
  <2> QED BY <1>1, <1>4, <2>1, <2>2, <2>3
<1>8. Served'
  BY <1>3 DEF ConsoleIInv, Served, limiter
<1> QED BY <1>3, <1>4, <1>6, <1>7, <1>8 DEF ConsoleIInv, Stored

(* A handler that has ended leaves a page that waits for nothing.          *)
LEMMA SettledIsIdle ==
    ASSUME NEW g, NEW pl, GoodPage(g, pl)
    PROVE  GoodPage(Settled(g), pl) /\ Settled(g).name = g.name /\ ~Busy(Settled(g))
<1>1. PICK h : h = Settled(g)
  OBVIOUS
<1>2. /\ h \in [name : Names, phase : Phases, plan : Plans \cup {Nil}, run : {h.run}, list : {h.list}]
      /\ h.name = g.name /\ h.list = g.list /\ h.plan \in {g.plan, Nil}
      /\ h.phase \in {"failed", "idle"}
      /\ h.name = "demo" \/ h.plan = Nil
  BY <1>1 DEF GoodPage, Settled, Phases
<1>3. GoodPage(h, pl) /\ ~Busy(h)
  BY <1>2 DEF GoodPage, Busy
<1> QED BY <1>1, <1>2, <1>3

(* What is answered is heard, and said something true.                     *)
LEMMA AnswerIsTrue ==
    ASSUME ConsoleIInv, NEW r \in Requests, req[r].at = "answered"
    PROVE  /\ req[r].browser \in Browsers /\ req[r].heard /\ serving # r
           /\ Told(req[r], req[r].ok, req[r].answer, plan, runs)
           /\ req[r].kind = "plan" => req[r].plan \in Existing(plan) \cup {Nil}
           /\ GoodPage(page[req[r].browser], plan)
           /\ page = [page EXCEPT ![req[r].browser] = page[req[r].browser]]
<1>1. IsRequest(req[r]) /\ GoodRequest(req[r], plan, runs) /\ req[r] # None
  BY Fields DEF ConsoleIInv, Requested
<1>2. req[r].browser \in Browsers
  BY <1>1 DEF IsRequest
<1>3. serving # r
  BY ConsoleAssumption DEF ConsoleIInv, Served
<1>4. page = [page EXCEPT ![req[r].browser] = page[req[r].browser]]
  BY <1>2 DEF ConsoleIInv, Shown
<1> QED BY <1>1, <1>2, <1>3, <1>4 DEF GoodRequest, ConsoleIInv, Shown

LEMMA HearInjectedStep ==
    ASSUME ConsoleIInv, NEW r \in Requests, req[r].at = "answered", req[r].ok,
           UNCHANGED <<limiter, plan, runs, serving>>, HearInjected(r, req[r].browser)
    PROVE  ConsoleIInv'
<1>1. PICK b \in Browsers : b = req[r].browser
  BY AnswerIsTrue
<1>2. /\ serving # r /\ GoodPage(page[b], plan) /\ page = [page EXCEPT ![b] = page[b]]
      /\ req[r].answer \in Existing(plan) \cup {Nil}
  BY <1>1, AnswerIsTrue DEF Told, HearInjected
<1>3. CASE page[b].name = "demo"
  <2>1. PICK q : q = Sent(b, "plan", req[r].answer, FALSE)
    OBVIOUS
  <2>2. req' = [req EXCEPT ![r] = q] /\ page' = page
    BY <1>1, <1>3, <2>1 DEF HearInjected, ConsoleIInv, Requested
  <2>3. /\ GoodRequest(q, plan, runs) /\ Waits(q, b)
    BY <1>2, <2>1 DEF Sent, GoodRequest, IsRequest, Kinds, Existing, Waits
  <2>4. q.browser = b
    BY <2>1 DEF Sent
  <2> QED BY <1>1, <1>2, <1>3, <2>2, <2>3, <2>4, Hearing
<1>4. CASE page[b].name # "demo"
  <2>1. page' = [page EXCEPT ![b] = Settled(page[b])] /\ req' = [req EXCEPT ![r] = None]
    BY <1>1, <1>4 DEF HearInjected, ConsoleIInv, Shown
  <2>2. GoodRequest(None, plan, runs) /\ None.at = "none"
    BY DEF GoodRequest, None
  <2> QED BY <1>1, <1>2, <2>1, <2>2, SettledIsIdle, Hearing
<1> QED BY <1>3, <1>4

LEMMA HearPlanStep ==
    ASSUME ConsoleIInv, NEW r \in Requests, req[r].at = "answered", req[r].ok,
           UNCHANGED <<limiter, plan, runs, serving>>, HearPlan(r, req[r].browser)
    PROVE  ConsoleIInv'
<1>1. PICK b \in Browsers : b = req[r].browser
  BY AnswerIsTrue
<1>2. /\ serving # r /\ GoodPage(page[b], plan) /\ page[b].name = "demo"
      /\ req[r].answer \in Existing(plan) \cup {Nil}
  BY <1>1, AnswerIsTrue DEF Told, HearPlan, ConsoleIInv, DemoAsks
<1>3. PICK g : g = [page[b] EXCEPT !.phase = "diagnosed", !.plan = req[r].answer]
  OBVIOUS
<1>4. page' = [page EXCEPT ![b] = g] /\ req' = [req EXCEPT ![r] = None]
  BY <1>1, <1>3 DEF HearPlan, ConsoleIInv, Shown
<1>5. /\ g.name = "demo" /\ g.phase = "diagnosed" /\ g.plan = req[r].answer /\ g.list = page[b].list
      /\ g \in [name : Names, phase : Phases, plan : Plans \cup {Nil}, run : {g.run}, list : {g.list}]
  BY <1>2, <1>3 DEF GoodPage, Phases, Existing
<1>6. GoodPage(g, plan) /\ ~Busy(g)
  BY <1>2, <1>5 DEF GoodPage, Busy
<1>7. GoodRequest(None, plan, runs) /\ None.at = "none"
  BY DEF GoodRequest, None
<1> QED BY <1>1, <1>2, <1>4, <1>5, <1>6, <1>7, Hearing

LEMMA HearRunStep ==
    ASSUME ConsoleIInv, NEW r \in Requests, req[r].at = "answered", req[r].ok,
           UNCHANGED <<limiter, plan, runs, serving>>, HearRun(r, req[r].browser)
    PROVE  ConsoleIInv'
<1>1. PICK b \in Browsers : b = req[r].browser
  BY AnswerIsTrue
<1>2. serving # r /\ GoodPage(page[b], plan) /\ page = [page EXCEPT ![b] = page[b]]
  BY <1>1, AnswerIsTrue
<1>3. CASE page[b].name = "demo"
  <2>1. PICK phase \in {"resolved", "failed"} :
            page' = [page EXCEPT ![b].run = req[r].answer, ![b].phase = phase]
    BY <1>1, <1>3 DEF HearRun
  <2>2. PICK g : g = [page[b] EXCEPT !.run = req[r].answer, !.phase = phase]
    OBVIOUS
  <2>3. page' = [page EXCEPT ![b] = g] /\ req' = [req EXCEPT ![r] = None]
    BY <1>1, <1>3, <2>1, <2>2 DEF HearRun, ConsoleIInv, Shown
  <2>4. /\ g.name = "demo" /\ g.phase = phase /\ g.plan = page[b].plan /\ g.list = page[b].list
        /\ g \in [name : Names, phase : Phases, plan : Plans \cup {Nil}, run : {g.run}, list : {g.list}]
    BY <1>2, <1>3, <2>2 DEF GoodPage, Phases
  <2>5. GoodPage(g, plan) /\ ~Busy(g)
    BY <1>2, <2>4 DEF GoodPage, Busy
  <2>6. GoodRequest(None, plan, runs) /\ None.at = "none"
    BY DEF GoodRequest, None
  <2> QED BY <1>1, <1>2, <1>3, <2>3, <2>4, <2>5, <2>6, Hearing
<1>4. CASE page[b].name # "demo"
  <2>1. PICK q : q = Sent(b, "contexts", Nil, TRUE)
    OBVIOUS
  <2>2. req' = [req EXCEPT ![r] = q] /\ page' = page
    BY <1>1, <1>4, <2>1 DEF HearRun
  <2>3. /\ GoodRequest(q, plan, runs) /\ Waits(q, b) /\ q.kind = "contexts" /\ q.browser = b
    BY <2>1 DEF Sent, GoodRequest, IsRequest, Kinds, Waits
  <2> QED BY <1>1, <1>2, <2>2, <2>3, Hearing
<1> QED BY <1>3, <1>4

LEMMA HearContextsStep ==
    ASSUME ConsoleIInv, NEW r \in Requests, req[r].at = "answered", req[r].ok,
           UNCHANGED <<limiter, plan, runs, serving>>, HearContexts(r, req[r].browser)
    PROVE  ConsoleIInv'
<1>1. PICK b \in Browsers : b = req[r].browser
  BY AnswerIsTrue
<1>2. /\ serving # r /\ GoodPage(page[b], plan) /\ WasRead(req[r].answer, plan)
      /\ req[r].kind = "contexts"
  BY <1>1, AnswerIsTrue DEF Told, HearContexts
<1>3. PICK h : h = IF req[r].settles THEN Settled(page[b]) ELSE page[b]
  OBVIOUS
<1>4. PICK g : g = [h EXCEPT !.list = req[r].answer]
  OBVIOUS
<1>5. page' = [page EXCEPT ![b] = g] /\ req' = [req EXCEPT ![r] = None]
  BY <1>1, <1>3, <1>4 DEF HearContexts, ConsoleIInv, Shown
<1>6. GoodPage(h, plan) /\ h.name = page[b].name
  BY <1>2, <1>3, SettledIsIdle
<1>7. /\ g.name = h.name /\ g.phase = h.phase /\ g.plan = h.plan /\ g.list = req[r].answer
      /\ g \in [name : Names, phase : Phases, plan : Plans \cup {Nil}, run : {g.run}, list : {g.list}]
  BY <1>4, <1>6 DEF GoodPage
<1>8. GoodPage(g, plan)
  BY <1>2, <1>6, <1>7 DEF GoodPage
<1>9. Busy(g) => Busy(page[b]) /\ ~Waits(req[r], b)
  <2>1. Busy(g) <=> Busy(h)
    BY <1>7 DEF Busy
  <2>2. req[r].settles => ~Busy(h)
    BY <1>2, <1>3, SettledIsIdle
  <2> QED BY <1>2, <1>3, <2>1, <2>2 DEF Waits
<1>10. GoodRequest(None, plan, runs) /\ None.at = "none"
  BY DEF GoodRequest, None
<1> QED BY <1>1, <1>2, <1>5, <1>6, <1>7, <1>8, <1>9, <1>10, Hearing

(* A page is told of a failure, and takes it or keeps it to itself.        *)
LEMMA Failing ==
    ASSUME ConsoleIInv, NEW r \in Requests, req[r].at # "none", Fails(r),
           UNCHANGED <<limiter, plan, runs, serving>>,
           NEW q, req' = [req EXCEPT ![r] = q], GoodRequest(q, plan, runs),
           q.at = "none" \/ ~q.heard,
           serving = r => q.at = "sent" /\ q.kind = "inject"
    PROVE  ConsoleIInv'
<1>1. PICK b \in Browsers : b = req[r].browser
  BY Fields DEF ConsoleIInv, IsRequest
<1>2. GoodPage(page[b], plan) /\ page = [page EXCEPT ![b] = page[b]]
  BY DEF ConsoleIInv, Shown
<1>3. CASE req[r].kind = "contexts" /\ ~req[r].settles
  <2>1. page' = [page EXCEPT ![b] = page[b]]
    BY <1>1, <1>2, <1>3 DEF Fails
  <2>2. ~Waits(req[r], b)
    BY <1>3 DEF Waits
  <2> QED BY <1>1, <1>2, <2>1, <2>2, Hearing
<1>4. CASE ~(req[r].kind = "contexts" /\ ~req[r].settles)
  <2>1. page' = [page EXCEPT ![b] = Settled(page[b])]
    BY <1>1, <1>4 DEF Fails, ConsoleIInv, Shown
  <2> QED BY <1>1, <1>2, <2>1, SettledIsIdle, Hearing
<1> QED BY <1>3, <1>4

LEMMA HearStep ==
    ASSUME ConsoleIInv, NEW r \in Requests, Hear(r)
    PROVE  ConsoleIInv'
<1>1. req[r].at = "answered" /\ UNCHANGED <<limiter, plan, runs, serving>>
  BY DEF Hear, server
<1>2. CASE req[r].ok
  <2>1. \/ HearInjected(r, req[r].browser) \/ HearPlan(r, req[r].browser)
        \/ HearRun(r, req[r].browser) \/ HearContexts(r, req[r].browser)
    BY <1>2 DEF Hear
  <2> QED BY <1>1, <1>2, <2>1, HearInjectedStep, HearPlanStep, HearRunStep, HearContextsStep
<1>3. CASE ~req[r].ok
  <2>1. Fails(r) /\ req' = [req EXCEPT ![r] = None]
    BY <1>3 DEF Hear
  <2>2. GoodRequest(None, plan, runs) /\ None.at = "none"
    BY DEF GoodRequest, None
  <2>3. serving # r
    BY <1>1, AnswerIsTrue
  <2> QED BY <1>1, <2>1, <2>2, <2>3, Failing
<1> QED BY <1>2, <1>3

LEMMA LoseStep ==
    ASSUME ConsoleIInv, NEW r \in Requests, Lose(r)
    PROVE  ConsoleIInv'
<1>1. req[r].at # "none" /\ Fails(r) /\ UNCHANGED <<limiter, plan, runs, serving>>
  BY DEF Lose, server
<1>2. CASE serving # r /\ req' = [req EXCEPT ![r] = None]
  <2>1. GoodRequest(None, plan, runs) /\ None.at = "none"
    BY DEF GoodRequest, None
  <2> QED BY <1>1, <1>2, <2>1, Failing
<1>3. CASE req[r].at \in {"sent", "admitted"} /\ req' = [req EXCEPT ![r].heard = FALSE]
  <2>1. PICK q : q = [req[r] EXCEPT !.heard = FALSE]
    OBVIOUS
  <2>2. req' = [req EXCEPT ![r] = q]
    BY <1>3, <2>1 DEF ConsoleIInv, Requested
  <2>3. IsRequest(req[r]) /\ GoodRequest(req[r], plan, runs) /\ req[r] # None
    BY <1>1, Fields DEF ConsoleIInv, Requested
  <2>4. /\ IsRequest(q) /\ q.heard = FALSE /\ q.at = req[r].at /\ q.kind = req[r].kind
        /\ q.plan = req[r].plan /\ q.key = req[r].key
    BY <2>1, <2>3 DEF IsRequest
  <2>5. GoodRequest(q, plan, runs)
    BY <1>3, <2>3, <2>4 DEF GoodRequest
  <2>6. serving = r => q.at = "sent" /\ q.kind = "inject"
    BY <2>4, ConsoleAssumption DEF ConsoleIInv, Served
  <2> QED BY <1>1, <2>2, <2>4, <2>5, <2>6, Failing
<1> QED BY <1>2, <1>3 DEF Lose

(* The first state.                                                        *)
LEMMA ConsoleStarts == Init => ConsoleIInv
<1> SUFFICES ASSUME Init PROVE ConsoleIInv
  OBVIOUS
<1> USE DEF Init
<1>1. Stored /\ Served
  BY DEF Stored, Status, Served, LimiterInit
<1>2. Requested /\ DemoAsks
  BY DEF Requested, GoodRequest, None, DemoAsks
<1>3. Shown
  <2>1. GoodPage(Mounted("demo"), plan)
    BY DEF GoodPage, Mounted, Names, Phases
  <2> QED BY <2>1 DEF Shown
<1>4. Attended
  BY DEF Attended, Busy, Mounted
<1> QED BY <1>1, <1>2, <1>3, <1>4 DEF ConsoleIInv

(* Every step keeps the invariant.                                         *)
LEMMA ConsoleStep == ConsoleIInv /\ [Next]_vars => ConsoleIInv'
<1> SUFFICES ASSUME ConsoleIInv, [Next]_vars PROVE ConsoleIInv'
  OBVIOUS
<1>1. CASE Server
  BY <1>1, AskLimiterStep, InjectStep, GetPlanStep, ApproveStep, IncidentContextsStep,
     LimiterPopsStep, LimiterAdmitsStep, LimiterRejectsStep, PassStep DEF Server
<1>2. ASSUME NEW b \in Browsers, User(b) PROVE ConsoleIInv'
  BY <1>2, OpenStep, RunDemoStep, ApproveDemoStep, InjectInLabStep, RefreshStep,
     ApproveIncidentStep, ApprovePendingStep DEF User, Names
<1>3. ASSUME NEW r \in Requests, Hear(r) \/ Lose(r) PROVE ConsoleIInv'
  BY <1>3, HearStep, LoseStep
<1>4. CASE UNCHANGED vars
  BY <1>4 DEF vars, limiter, server, ConsoleIInv, Stored, Served, Requested, Shown, DemoAsks, Attended
<1> QED BY <1>1, <1>2, <1>3, <1>4 DEF Next

(* An approval may be repeated from any page and any browser: a plan is    *)
(* run at most once, and who approves a plan that was run is told its run  *)
(* (approvePlan, approve_and_execute).                                     *)
THEOREM ApprovalsMayBeRepeated == Spec => []SafeToRepeat
<1>1. ConsoleIInv => SafeToRepeat
  <2> SUFFICES ASSUME ConsoleIInv PROVE SafeToRepeat
    OBVIOUS
  <2>1. ASSUME NEW p \in Plans PROVE Cardinality(RunsOf(p)) <= 1
    <3>1. CASE RunsOf(p) = {}
      BY <3>1, FS_EmptySet
    <3>2. CASE RunsOf(p) # {}
      <4>1. PICK u : u \in RunsOf(p)
        BY <3>2
      <4>2. \A v \in RunsOf(p) : v = u
        BY <4>1 DEF RunsOf, ConsoleIInv, Stored
      <4>3. RunsOf(p) = {u}
        BY <4>1, <4>2
      <4>4. Cardinality({u}) = 1
        BY FS_Singleton
      <4> QED BY <4>3, <4>4
    <3> QED BY <3>1, <3>2
  <2>2. ASSUME NEW r \in Requests, req[r].at = "answered", req[r].kind = "approve"
        PROVE  IF req[r].ok THEN req[r].answer \in RunsOf(req[r].plan)
                            ELSE req[r].answer = "conflict" => RunsOf(req[r].plan) = {}
    <3>1. IF req[r].ok THEN req[r].answer \in runs /\ req[r].answer.plan = req[r].plan
          ELSE req[r].answer = "conflict" => req[r].plan \in Closed(plan, runs)
      BY <2>2, AnswerIsTrue DEF Told
    <3> QED BY <3>1 DEF RunsOf, Closed
  <2> QED BY <2>1, <2>2 DEF SafeToRepeat
<1> QED BY <1>1, ConsoleStarts, ConsoleStep, PTL DEF Spec

(* While a page's buttons are disabled, a request it will hear of is under *)
(* way (the handlers of the four pages).                                   *)
THEOREM NoPageIsStuck == Spec => []NoStuckPage
<1>1. ConsoleIInv => NoStuckPage
  BY NoneIsStuck DEF ConsoleIInv
<1> QED BY <1>1, ConsoleStarts, ConsoleStep, PTL DEF Spec

(* The console drives the limiter as the limiter is specified: it asks for *)
(* visitors only, one at a time, and otherwise leaves it alone             *)
(* (inject_lab_fault).                                                     *)
THEOREM ConsoleUsesLimiter == Spec => LimiterSpec
<1>1. Init => LimiterInit
  BY DEF Init
<1>2. ConsoleIInv /\ [Next]_vars => [LimiterNext]_limiter
  <2> SUFFICES ASSUME ConsoleIInv, [Next]_vars PROVE LimiterNext \/ UNCHANGED limiter
    OBVIOUS
  <2>1. ASSUME NEW r \in Requests, AskLimiter(r) PROVE \E k \in Keys : Allow(k)
    <3>1. req[r].browser \in Browsers
      BY <2>1, Fields DEF ConsoleIInv, AskLimiter, OnLoop, IsRequest
    <3> QED BY <2>1, <3>1, VisitorIsKey DEF AskLimiter
  <2>2. ASSUME NEW r \in Requests, Inject(r) \/ GetPlan(r) \/ Approve(r) \/ IncidentContexts(r)
        PROVE  UNCHANGED limiter
    BY <2>2 DEF Inject, GetPlan, Approve, IncidentContexts
  <2>3. CASE LimiterPops \/ LimiterAdmits \/ LimiterRejects \/ Pass
    BY <2>3 DEF LimiterPops, LimiterAdmits, LimiterRejects, Pass, LimiterNext
  <2>4. ASSUME NEW b \in Browsers, User(b) PROVE UNCHANGED limiter
    BY <2>4 DEF User, Open, RunDemo, ApproveDemo, InjectInLab, Refresh, ApproveIncident,
       ApprovePending, Click
  <2>5. ASSUME NEW r \in Requests, Hear(r) \/ Lose(r) PROVE UNCHANGED limiter
    BY <2>5 DEF Hear, Lose
  <2>6. CASE UNCHANGED vars
    BY <2>6 DEF vars
  <2>7. CASE Server
    BY <2>1, <2>2, <2>3, <2>7 DEF Server, LimiterNext
  <2> QED BY <2>4, <2>5, <2>6, <2>7 DEF Next
<1> QED BY <1>1, <1>2, ConsoleStarts, ConsoleStep, PTL DEF Spec, LimiterSpec

(* Whatever the consoles do, no window of time holds more than Limit       *)
(* injections of a visitor.                                                *)
THEOREM ConsoleIsLimited == Spec => []WindowHolds
BY ConsoleUsesLimiter, LimitIsKept, PTL
=============================================================================
