-------------------------- MODULE MonitoringProofs --------------------------
(***************************************************************************)
(* Theorems about Monitoring, for any number of processes, rules, savers   *)
(* and incidents and any two numbers of cycles: no cycle opens a second    *)
(* incident of a rule, opens one that was not earned or resolves one too   *)
(* early.                                                                  *)
(*                                                                         *)
(* Whoever is in a cycle holds the lock (StageInv), so that nobody else    *)
(* opens or resolves what it has looked up.  An incident somebody holds a  *)
(* copy of stays an incident of the same rule (HeldInv).  The counters of  *)
(* a streak say the same as the evaluations they count (StreakInv).        *)
(***************************************************************************)
EXTENDS Monitoring, SequenceTheorems, TLAPS

Verdict == [state: {"alerting", "pending", "healthy"}, recovered: BOOLEAN]

(* The rule a process is at.                                                *)
At(h) == Rules[turn[h]]

(* What is looked up and judged is true until the cycle acts on it; that an *)
(* incident is still open is known only where no copy was ever taken.       *)
StageInv(h) ==
    /\ pc[h] = "setup" => turn[h] = 1
    /\ pc[h] \in {"write", "look", "update"} => turn[h] \in DOMAIN Rules
    /\ lock = h <=> InCycle(h)
    /\ pc[h] \in {"look", "update"} =>
         /\ verdict[h] \in Verdict
         /\ verdict[h].state = "alerting" => armed[h][At(h)]
         /\ verdict[h].recovered => LastAre(window[h][At(h)], Recovery, FALSE)
    /\ pc[h] = "update" /\ found[h] # Nil =>
         incidents[found[h]] # Nil /\ incidents[found[h]].key = At(h)
    /\ pc[h] = "update" /\ found[h] = Nil /\ saves = 0 => Active(At(h)) = {}

(* The counter c, which stops at limit, has reached n just if the last n    *)
(* evaluations were v.                                                      *)
Says(c, w, limit, v) == \A n \in 1..limit : c >= n <=> LastAre(w, n, v)

StreakInv(h, k) ==
    /\ streak[h][k].alerting = armed[h][k]
    /\ Says(streak[h][k].breach, window[h][k], Consecutive, TRUE)
    /\ Says(streak[h][k].recovery, window[h][k], Recovery, FALSE)

HeldInv(x) ==
    held[x] # Nil =>
        /\ saves > 0
        /\ incidents[held[x].id] # Nil
        /\ incidents[held[x].id].key = held[x].copy.key

IInv ==
    /\ TypeOK
    /\ OneActive
    /\ \A h \in Procs : StageInv(h)
    /\ \A h \in Procs, k \in Keys : StreakInv(h, k)
    /\ \A x \in Savers : HeldInv(x)

-----------------------------------------------------------------------------
(* The window and the counters                                              *)

Longest == IF Consecutive > Recovery THEN Consecutive ELSE Recovery

LEMMA Lengths ==
    /\ Longest \in Nat \ {0} /\ Consecutive <= Longest /\ Recovery <= Longest
    /\ Consecutive \in Nat \ {0} /\ Recovery \in Nat \ {0}
    /\ MaxReports \in Nat /\ MaxSaves \in Nat /\ MaxFaults \in Nat
  BY MonitoringAssumption DEF Longest

(* The newest evaluation in front, what does not fit forgotten.             *)
LEMMA RememberValue ==
    ASSUME NEW w \in Seq(BOOLEAN), NEW b \in BOOLEAN
    PROVE  /\ Remember(w, b) \in Seq(BOOLEAN)
           /\ Len(Remember(w, b)) = Least(Len(w) + 1, Longest)
           /\ Remember(w, b)[1] = b
           /\ \A m \in Nat \ {0} : m + 1 <= Least(Len(w) + 1, Longest) =>
                Remember(w, b)[m + 1] = w[m]
<1> DEFINE z == <<b>> \o w
           L == Least(Len(w) + 1, Longest)
<1>1. z \in Seq(BOOLEAN) /\ Len(z) = Len(w) + 1 /\ Len(w) \in Nat
  OBVIOUS
<1>2. z[1] = b /\ \A m \in 1..Len(w) : z[m + 1] = w[m]
  OBVIOUS
<1>3. L \in Nat /\ 1 <= L /\ L <= Len(z) /\ L <= Len(w) + 1
  BY <1>1, Lengths DEF Least
<1>4. Remember(w, b) = SubSeq(z, 1, L)
  BY DEF Remember, Longest
<1> HIDE DEF z, L
<1>5. /\ SubSeq(z, 1, L) \in Seq(BOOLEAN) /\ Len(SubSeq(z, 1, L)) = L
      /\ \A i \in 1..L : SubSeq(z, 1, L)[i] = z[i]
  BY <1>1, <1>3
<1>6. \A m \in Nat \ {0} : m + 1 <= L => SubSeq(z, 1, L)[m + 1] = w[m]
  <2> TAKE m \in Nat \ {0}
  <2> HAVE m + 1 <= L
  <2>1. m + 1 \in 1..L /\ m \in 1..Len(w)
    BY <1>1, <1>3
  <2> QED
    BY <1>2, <1>5, <2>1
<1> QED
  BY <1>2, <1>3, <1>4, <1>5, <1>6 DEF L

LEMMA LastOne ==
    ASSUME NEW w \in Seq(BOOLEAN), NEW b \in BOOLEAN, NEW v \in BOOLEAN, NEW n \in Nat \ {0},
           LastAre(Remember(w, b), n, v)
    PROVE  b = v
<1>1. 1 \in 1..n
  OBVIOUS
<1>2. Remember(w, b)[1] = v
  BY <1>1 DEF LastAre
<1> QED
  BY <1>2, RememberValue

(* Of n + 1 evaluations the older n are the ones that were the last n.      *)
LEMMA LastNext ==
    ASSUME NEW w \in Seq(BOOLEAN), NEW b \in BOOLEAN, NEW n \in Nat, n + 1 <= Longest
    PROVE  LastAre(Remember(w, b), n + 1, b) <=> LastAre(w, n, b)
<1> DEFINE u == Remember(w, b)
<1>1. /\ Len(u) = Least(Len(w) + 1, Longest) /\ u[1] = b /\ Len(w) \in Nat
      /\ \A m \in Nat \ {0} : m + 1 <= Least(Len(w) + 1, Longest) => u[m + 1] = w[m]
  BY RememberValue
<1> HIDE DEF u
<1>2. Len(u) >= n + 1 <=> Len(w) >= n
  BY <1>1, Lengths DEF Least
<1>3. ASSUME Len(w) >= n PROVE \A m \in 1..n : u[m + 1] = w[m]
  BY <1>1, <1>3, Lengths DEF Least
<1>4. ASSUME LastAre(u, n + 1, b) PROVE LastAre(w, n, b)
  <2>1. Len(w) >= n
    BY <1>2, <1>4 DEF LastAre
  <2>2. ASSUME NEW m \in 1..n PROVE w[m] = b
    <3>1. m + 1 \in 1..(n + 1)
      OBVIOUS
    <3>2. u[m + 1] = b
      BY <1>4, <3>1 DEF LastAre
    <3> QED
      BY <1>3, <2>1, <3>2
  <2> QED
    BY <2>1, <2>2 DEF LastAre
<1>5. ASSUME LastAre(w, n, b) PROVE LastAre(u, n + 1, b)
  <2>1. Len(u) >= n + 1 /\ Len(w) >= n
    BY <1>2, <1>5 DEF LastAre
  <2>2. ASSUME NEW m \in 1..(n + 1) PROVE u[m] = b
    <3>1. CASE m = 1
      BY <1>1, <3>1
    <3>2. CASE m # 1
      <4>1. m - 1 \in 1..n /\ m = (m - 1) + 1
        BY <3>2
      <4>2. w[m - 1] = b
        BY <1>5, <4>1 DEF LastAre
      <4>3. u[(m - 1) + 1] = w[m - 1]
        BY <1>3, <2>1, <4>1
      <4> QED
        BY <4>1, <4>2, <4>3
    <3> QED
      BY <3>1, <3>2
  <2> QED
    BY <2>1, <2>2 DEF LastAre
<1> QED
  BY <1>4, <1>5 DEF u

Streak == [breach: 0..Consecutive, recovery: 0..Recovery, alerting: BOOLEAN]

LEMMA SaysLimit ==
    ASSUME NEW w, NEW v, NEW c, NEW limit \in Nat \ {0}, Says(c, w, limit, v)
    PROVE  c >= limit <=> LastAre(w, limit, v)
<1>1. limit \in 1..limit
  OBVIOUS
<1> QED
  BY <1>1 DEF Says

LEMMA SaysMore ==
    ASSUME NEW w \in Seq(BOOLEAN), NEW b \in BOOLEAN, NEW limit \in Nat \ {0}, limit <= Longest,
           NEW c \in 0..limit, Says(c, w, limit, b)
    PROVE  Says(Least(c + 1, limit), Remember(w, b), limit, b)
<1> SUFFICES ASSUME NEW n \in 1..limit
             PROVE  Least(c + 1, limit) >= n <=> LastAre(Remember(w, b), n, b)
  BY DEF Says
<1>1. n - 1 \in Nat /\ (n - 1) + 1 <= Longest /\ (n - 1) + 1 = n
  BY Lengths
<1>2. LastAre(Remember(w, b), n, b) <=> LastAre(w, n - 1, b)
  <2>1. LastAre(Remember(w, b), (n - 1) + 1, b) <=> LastAre(w, n - 1, b)
    BY <1>1, LastNext
  <2> QED
    BY <1>1, <2>1
<1>3. LastAre(w, n - 1, b) <=> c >= n - 1
  <2>1. CASE n = 1
    <3>1. LastAre(w, 0, b)
      BY DEF LastAre
    <3> QED
      BY <2>1, <3>1
  <2>2. CASE n # 1
    <3>1. n - 1 \in 1..limit
      BY <2>2
    <3> QED
      BY <3>1 DEF Says
  <2> QED
    BY <2>1, <2>2
<1>4. Least(c + 1, limit) >= n <=> c >= n - 1
  BY DEF Least
<1> QED
  BY <1>2, <1>3, <1>4

LEMMA SaysNone ==
    ASSUME NEW w \in Seq(BOOLEAN), NEW b \in BOOLEAN, NEW v \in BOOLEAN, b # v,
           NEW limit \in Nat \ {0}
    PROVE  Says(0, Remember(w, b), limit, v)
<1> SUFFICES ASSUME NEW n \in 1..limit PROVE ~LastAre(Remember(w, b), n, v)
  BY DEF Says
<1>1. n \in Nat \ {0}
  OBVIOUS
<1> QED
  BY <1>1, LastOne

(* One evaluation: the counters go on saying what the window says, the      *)
(* alert is what the window arms.                                           *)
LEMMA CountValue ==
    ASSUME NEW w \in Seq(BOOLEAN), NEW b \in BOOLEAN, NEW s \in Streak, NEW was \in BOOLEAN,
           s.alerting = was,
           Says(s.breach, w, Consecutive, TRUE), Says(s.recovery, w, Recovery, FALSE)
    PROVE  /\ Count(s, b) \in Streak
           /\ Count(s, b).alerting = Arm(was, Remember(w, b))
           /\ Arm(was, Remember(w, b)) \in BOOLEAN
           /\ Says(Count(s, b).breach, Remember(w, b), Consecutive, TRUE)
           /\ Says(Count(s, b).recovery, Remember(w, b), Recovery, FALSE)
           /\ Count(s, b).recovery >= Recovery => LastAre(Remember(w, b), Recovery, FALSE)
<1> DEFINE u == Remember(w, b)
           c == Least(s.breach + 1, Consecutive)
           r == Least(s.recovery + 1, Recovery)
<1>1. s.breach \in 0..Consecutive /\ s.recovery \in 0..Recovery
  BY DEF Streak
<1>2. c \in 0..Consecutive /\ r \in 0..Recovery /\ 0 \in 0..Consecutive /\ 0 \in 0..Recovery
  BY <1>1, Lengths DEF Least
<1>3. CASE b = TRUE
  <2>1. Count(s, b) = [breach |-> c, recovery |-> 0, alerting |-> s.alerting \/ c >= Consecutive]
    BY <1>3 DEF Count
  <2>2. Says(c, u, Consecutive, TRUE)
    BY <1>1, <1>3, Lengths, SaysMore
  <2>3. Says(0, u, Recovery, FALSE)
    BY <1>3, Lengths, SaysNone
  <2>4. c >= Consecutive <=> LastAre(u, Consecutive, TRUE)
    BY <2>2, Lengths, SaysLimit
  <2>5. ~LastAre(u, Recovery, FALSE)
    <3>1. 0 >= Recovery <=> LastAre(u, Recovery, FALSE)
      BY <2>3, Lengths, SaysLimit
    <3>2. ~(0 >= Recovery)
      BY Lengths
    <3> QED
      BY <3>1, <3>2, Zenon
  <2> HIDE DEF u, c, r
  <2>6. Arm(was, u) = (was \/ c >= Consecutive)
    BY <2>4, <2>5 DEF Arm
  <2>7. (s.alerting \/ c >= Consecutive) \in BOOLEAN
    OBVIOUS
  <2>8. Count(s, b) \in Streak
    BY <1>2, <2>1, <2>7 DEF Streak
  <2>9. Count(s, b).breach = c /\ Count(s, b).recovery = 0
        /\ Count(s, b).alerting = (s.alerting \/ c >= Consecutive)
    BY <2>1
  <2>10. ~(0 >= Recovery)
    BY Lengths
  <2> QED
    BY <2>2, <2>3, <2>6, <2>7, <2>8, <2>9, <2>10 DEF u
<1>4. CASE b = FALSE
  <2>1. Count(s, b) = [breach |-> 0, recovery |-> r, alerting |-> s.alerting /\ r < Recovery]
    BY <1>4 DEF Count
  <2>2. Says(0, u, Consecutive, TRUE)
    BY <1>4, Lengths, SaysNone
  <2>3. Says(r, u, Recovery, FALSE)
    BY <1>1, <1>4, Lengths, SaysMore
  <2>4. ~LastAre(u, Consecutive, TRUE)
    <3>1. 0 >= Consecutive <=> LastAre(u, Consecutive, TRUE)
      BY <2>2, Lengths, SaysLimit
    <3>2. ~(0 >= Consecutive)
      BY Lengths
    <3> QED
      BY <3>1, <3>2, Zenon
  <2>5. r >= Recovery <=> LastAre(u, Recovery, FALSE)
    BY <2>3, Lengths, SaysLimit
  <2>6. r < Recovery <=> ~LastAre(u, Recovery, FALSE)
    <3>1. r < Recovery <=> ~(r >= Recovery)
      BY <1>2, Lengths
    <3> QED
      BY <2>5, <3>1, Zenon
  <2> HIDE DEF u, c, r
  <2>7. Arm(was, u) = (was /\ r < Recovery)
    BY <2>4, <2>6 DEF Arm
  <2>8. (s.alerting /\ r < Recovery) \in BOOLEAN
    OBVIOUS
  <2>9. Count(s, b) \in Streak
    BY <1>2, <2>1, <2>8 DEF Streak
  <2>10. Count(s, b).breach = 0 /\ Count(s, b).recovery = r
        /\ Count(s, b).alerting = (s.alerting /\ r < Recovery)
    BY <2>1
  <2> QED
    BY <2>2, <2>3, <2>5, <2>7, <2>8, <2>9, <2>10 DEF u
<1> QED
  BY <1>3, <1>4

-----------------------------------------------------------------------------
(* What a step leaves alone                                                 *)

LEMMA StageKept ==
    ASSUME IInv, NEW h \in Procs,
           pc'[h] = pc[h], turn'[h] = turn[h], verdict'[h] = verdict[h], found'[h] = found[h],
           armed'[h] = armed[h], window'[h] = window[h],
           lock' = h <=> lock = h,
           saves' = 0 => saves = 0,
           InCycle(h) => \A i \in Incidents : incidents[i] # Nil =>
                           incidents'[i] # Nil /\ incidents'[i].key = incidents[i].key,
           InCycle(h) /\ saves' = 0 => incidents' = incidents
    PROVE  StageInv(h)'
<1>1. StageInv(h) /\ found[h] \in Incidents \cup {Nil}
  BY DEF IInv, TypeOK
<1>2. At(h)' = At(h) /\ InCycle(h)' = InCycle(h)
  BY DEF At, InCycle
<1>3. lock' = h <=> InCycle(h)'
  BY <1>1, <1>2 DEF StageInv
<1>4. /\ pc'[h] = "setup" => turn'[h] = 1
      /\ pc'[h] \in {"write", "look", "update"} => turn'[h] \in DOMAIN Rules
      /\ pc'[h] \in {"look", "update"} =>
           /\ verdict'[h] \in Verdict
           /\ verdict'[h].state = "alerting" => armed'[h][At(h)]
           /\ verdict'[h].recovered => LastAre(window'[h][At(h)], Recovery, FALSE)
  BY <1>1 DEF StageInv
<1>5. pc'[h] = "update" /\ found'[h] # Nil =>
        incidents'[found'[h]] # Nil /\ incidents'[found'[h]].key = At(h)
  BY <1>1 DEF StageInv, InCycle
<1>6. pc'[h] = "update" /\ found'[h] = Nil /\ saves' = 0 => Active(At(h))' = {}
  <2> SUFFICES ASSUME pc[h] = "update", found[h] = Nil, saves' = 0 PROVE Active(At(h))' = {}
    OBVIOUS
  <2>1. incidents' = incidents /\ Active(At(h)) = {}
    BY <1>1 DEF StageInv, InCycle
  <2> QED
    BY <1>2, <2>1 DEF Active, Open
<1> QED
  BY <1>2, <1>3, <1>4, <1>5, <1>6 DEF StageInv

(* One process moves, and no incident does.                                 *)
LEMMA MoverStep ==
    ASSUME IInv, NEW h \in Procs, TypeOK', UNCHANGED <<incidents, held, saves>>,
           \A q \in Procs : q # h =>
               /\ pc'[q] = pc[q] /\ turn'[q] = turn[q]
               /\ verdict'[q] = verdict[q] /\ found'[q] = found[q]
               /\ streak'[q] = streak[q] /\ window'[q] = window[q] /\ armed'[q] = armed[q]
               /\ lock' = q <=> lock = q,
           StageInv(h)',
           \A k \in Keys : StreakInv(h, k)'
    PROVE  IInv'
<1>1. OneActive'
  BY DEF IInv, OneActive, Active, Open
<1>2. ASSUME NEW q \in Procs PROVE StageInv(q)'
  <2>1. CASE q = h
    BY <2>1
  <2>2. CASE q # h
    BY <2>2, StageKept
  <2> QED
    BY <2>1, <2>2
<1>3. ASSUME NEW q \in Procs, NEW k \in Keys PROVE StreakInv(q, k)'
  <2>1. CASE q = h
    BY <2>1
  <2>2. CASE q # h
    BY <2>2 DEF IInv, StreakInv
  <2> QED
    BY <2>1, <2>2
<1>4. \A x \in Savers : HeldInv(x)'
  BY DEF IInv, HeldInv
<1> QED
  BY <1>1, <1>2, <1>3, <1>4 DEF IInv

(* No process moves, and incidents stay incidents of their rule.            *)
LEMMA StandStill ==
    ASSUME IInv, TypeOK', UNCHANGED <<pc, turn, verdict, found, streak, window, armed, lock>>,
           saves' = 0 => saves = 0,
           \A i \in Incidents : incidents[i] # Nil =>
               incidents'[i] # Nil /\ incidents'[i].key = incidents[i].key,
           saves' = 0 => incidents' = incidents,
           \A x \in Savers : HeldInv(x)'
    PROVE  IInv'
<1>1. OneActive'
  BY DEF IInv, OneActive, Active, Open
<1>2. ASSUME NEW h \in Procs PROVE StageInv(h)'
  BY StageKept
<1>3. \A h \in Procs, k \in Keys : StreakInv(h, k)'
  BY DEF IInv, StreakInv
<1> QED
  BY <1>1, <1>2, <1>3 DEF IInv

-----------------------------------------------------------------------------
(* Steps of the environment                                                 *)

LEMMA WorldSteps ==
    ASSUME IInv,
           \/ Tick
           \/ \E h \in Procs, k \in Keys, value \in {"ok", "bad"} : Report(h, k, value)
           \/ \E x \in Savers : Put(x) \/ Drop(x) \/ \E i \in Incidents : Take(x, i)
    PROVE  IInv'
<1> USE DEF tables, cycle, memory, bounds
<1>1. TypeOK
  BY DEF IInv
<1>2. CASE Tick
  <2>1. wait' \in [Procs -> 0..Interval]
    <3>1. wait' = [h \in Procs |-> IF pc[h] = "asleep" THEN wait[h] - 1 ELSE wait[h]]
      BY <1>2 DEF Tick
    <3>2. ASSUME NEW h \in Procs
          PROVE  (IF pc[h] = "asleep" THEN wait[h] - 1 ELSE wait[h]) \in 0..Interval
      <4>1. wait[h] \in 0..Interval /\ (pc[h] = "asleep" => wait[h] > 0)
        BY <1>1, <1>2 DEF Tick, TypeOK
      <4> QED
        BY <4>1 DEF Interval
    <3> QED
      BY <3>1, <3>2
  <2>2. TypeOK'
    BY <1>1, <1>2, <2>1 DEF Tick, TypeOK
  <2>3. \A x \in Savers : HeldInv(x)'
    BY <1>2 DEF Tick, IInv, HeldInv
  <2> QED
    BY <1>2, <2>2, <2>3, StandStill DEF Tick
<1>3. ASSUME NEW h \in Procs, NEW k \in Keys, NEW value \in {"ok", "bad"}, Report(h, k, value)
      PROVE  IInv'
  <2>1. /\ reports' = reports + 1 /\ reports < MaxReports
        /\ sample' = [sample EXCEPT ![h][k] = value]
        /\ UNCHANGED <<tables, lock, cycle, streak, window, armed, held, saves, faults>>
    BY <1>3 DEF Report
  <2>2. reports' \in 0..MaxReports
    BY <1>1, <2>1, Lengths DEF TypeOK
  <2>3. sample' \in [Procs -> [Keys -> {"none", "ok", "bad"}]]
    BY <1>1, <2>1 DEF TypeOK
  <2>4. TypeOK'
    BY <1>1, <2>1, <2>2, <2>3 DEF TypeOK
  <2>5. \A x \in Savers : HeldInv(x)'
    BY <2>1 DEF IInv, HeldInv
  <2> QED
    BY <2>1, <2>4, <2>5, StandStill
<1>4. ASSUME NEW x \in Savers, Put(x) PROVE IInv'
  <2> DEFINE i == held[x].id
             c == held[x].copy
  <2>1. /\ held[x] # Nil /\ incidents' = [incidents EXCEPT ![i] = c]
        /\ held' = [held EXCEPT ![x] = Nil]
        /\ UNCHANGED <<rules, lock, cycle, memory, bounds>>
    BY <1>4 DEF Put
  <2>2. held[x] \in Holding
    BY <1>1, <2>1 DEF TypeOK
  <2>3. i \in Incidents /\ c \in Incident /\ c # Nil
    BY <2>2, NilAssumption DEF Holding
  <2>4. saves > 0 /\ incidents[i] # Nil /\ incidents[i].key = c.key
    BY <2>1 DEF IInv, HeldInv
  <2> HIDE DEF i, c
  <2>5. /\ incidents' \in [Incidents -> Incident \cup {Nil}]
        /\ incidents'[i] = c
        /\ \A j \in Incidents : j # i => incidents'[j] = incidents[j]
    BY <1>1, <2>1, <2>3 DEF TypeOK
  <2>6. /\ held' \in [Savers -> {Nil} \cup Holding] /\ held'[x] = Nil
        /\ \A y \in Savers : y # x => held'[y] = held[y]
    BY <1>1, <2>1 DEF TypeOK
  <2>7. TypeOK'
    BY <1>1, <2>1, <2>5, <2>6 DEF TypeOK
  <2>8. \A j \in Incidents : incidents[j] # Nil =>
          incidents'[j] # Nil /\ incidents'[j].key = incidents[j].key
    BY <2>3, <2>4, <2>5
  <2>9. ASSUME NEW y \in Savers PROVE HeldInv(y)'
    <3>1. CASE held'[y] = Nil
      BY <3>1 DEF HeldInv
    <3>2. CASE held'[y] # Nil
      <4>1. held'[y] = held[y] /\ held[y] \in Holding
        BY <1>1, <2>6, <3>2 DEF TypeOK
      <4>2. held[y].id \in Incidents
        BY <4>1 DEF Holding
      <4>3. HeldInv(y)
        BY DEF IInv
      <4> QED
        BY <2>1, <2>8, <3>2, <4>1, <4>2, <4>3 DEF HeldInv
    <3> QED
      BY <3>1, <3>2
  <2>10. saves' # 0
    BY <1>1, <2>1, <2>4, Lengths DEF TypeOK
  <2> QED
    BY <2>1, <2>7, <2>8, <2>9, <2>10, StandStill
<1>5. ASSUME NEW x \in Savers, Drop(x) PROVE IInv'
  <2>1. held' = [held EXCEPT ![x] = Nil] /\ UNCHANGED <<tables, lock, cycle, memory, bounds>>
    BY <1>5 DEF Drop
  <2>2. held' \in [Savers -> {Nil} \cup Holding]
        /\ \A y \in Savers : held'[y] = Nil \/ held'[y] = held[y]
    BY <1>1, <2>1 DEF TypeOK
  <2>3. TypeOK'
    BY <1>1, <2>1, <2>2 DEF TypeOK
  <2>4. \A y \in Savers : HeldInv(y)'
    BY <2>1, <2>2 DEF IInv, HeldInv
  <2> QED
    BY <2>1, <2>3, <2>4, StandStill
<1>6. ASSUME NEW x \in Savers, NEW i \in Incidents, Take(x, i) PROVE IInv'
  <2>1. /\ saves < MaxSaves /\ saves' = saves + 1 /\ incidents[i] # Nil
        /\ held' = [held EXCEPT ![x] = [id |-> i, copy |-> incidents[i]]]
        /\ UNCHANGED <<tables, lock, cycle, memory, reports, faults>>
    BY <1>6 DEF Take
  <2>2. saves' \in 0..MaxSaves /\ saves' > 0 /\ saves' # 0
    BY <1>1, <2>1, Lengths DEF TypeOK
  <2>3. [id |-> i, copy |-> incidents[i]] \in Holding
    BY <1>1, <2>1 DEF TypeOK, Holding
  <2>4. /\ held' \in [Savers -> {Nil} \cup Holding]
        /\ held'[x] = [id |-> i, copy |-> incidents[i]]
        /\ \A y \in Savers : y # x => held'[y] = held[y]
    BY <1>1, <2>1, <2>3 DEF TypeOK
  <2>5. TypeOK'
    BY <1>1, <2>1, <2>2, <2>4 DEF TypeOK
  <2>6. ASSUME NEW y \in Savers PROVE HeldInv(y)'
    <3>1. HeldInv(y) /\ incidents' = incidents
      BY <2>1 DEF IInv
    <3>2. CASE y = x
      BY <2>1, <2>2, <2>4, <3>1, <3>2 DEF HeldInv
    <3>3. CASE y # x
      BY <2>2, <2>4, <3>1, <3>3 DEF HeldInv
    <3> QED
      BY <3>2, <3>3
  <2> QED
    BY <2>1, <2>2, <2>5, <2>6, StandStill
<1> QED
  BY <1>2, <1>3, <1>4, <1>5, <1>6

-----------------------------------------------------------------------------
(* Steps of a scheduler                                                     *)

LEMMA RulesType ==
    /\ DOMAIN Rules = 1..Len(Rules) /\ Len(Rules) \in Nat \ {0} /\ 1 \in DOMAIN Rules
    /\ \A n \in DOMAIN Rules : Rules[n] \in Keys
  BY MonitoringAssumption DEF Keys

LEMMA StreakKept ==
    ASSUME NEW h \in Procs, NEW k \in Keys, IInv,
           streak'[h] = streak[h], window'[h] = window[h], armed'[h] = armed[h]
    PROVE  StreakInv(h, k)'
  BY DEF IInv, StreakInv

(* Out of a cycle and without the lock nothing is owed.                     *)
LEMMA IdleStage ==
    ASSUME NEW h \in Procs, pc'[h] \in {"asleep", "stopped", "setup"}, lock' # h,
           pc'[h] = "setup" => turn'[h] = 1
    PROVE  StageInv(h)'
  BY DEF StageInv, InCycle

LEMMA SetupSteps ==
    ASSUME IInv, NEW h \in Procs, ListRules(h) \/ WriteRule(h) \/ FailSetup(h)
    PROVE  IInv'
<1> USE DEF tables, memory, bounds
<1>1. TypeOK /\ StageInv(h)
  BY DEF IInv
<1>2. pc[h] \in {"setup", "write"} /\ lock # h /\ pc' \in [Procs -> Stages]
      /\ UNCHANGED <<incidents, lock, verdict, found, memory, held, saves>>
  BY <1>1 DEF ListRules, WriteRule, FailSetup, StageInv, InCycle, TypeOK, Stages
<1>3. \A k \in Keys : StreakInv(h, k)'
  BY <1>2, StreakKept
<1>4. CASE ListRules(h)
  <2>1. /\ pc' = [pc EXCEPT ![h] = IF rules = {} THEN "write" ELSE "asleep"] /\ pc[h] = "setup"
        /\ UNCHANGED <<tables, lock, wait, turn, verdict, found, memory, held, bounds>>
    BY <1>4 DEF ListRules
  <2>2. TypeOK'
    BY <1>1, <1>2, <2>1 DEF TypeOK
  <2>3. pc'[h] \in {"write", "asleep"} /\ turn'[h] = 1
        /\ \A q \in Procs : q # h => pc'[q] = pc[q]
    BY <1>1, <2>1 DEF TypeOK, StageInv
  <2>4. StageInv(h)'
    BY <1>2, <2>3, RulesType DEF StageInv, InCycle
  <2> QED
    BY <1>3, <2>1, <2>2, <2>3, <2>4, MoverStep
<1>5. CASE WriteRule(h)
  <2>1. /\ rules' = rules \cup {Rules[turn[h]]} /\ pc[h] = "write"
        /\ \/ pc' = [pc EXCEPT ![h] = "asleep"] /\ turn' = [turn EXCEPT ![h] = 1]
           \/ /\ turn[h] # Len(Rules)
              /\ turn' = [turn EXCEPT ![h] = turn[h] + 1] /\ UNCHANGED pc
        /\ UNCHANGED <<incidents, lock, wait, verdict, found, memory, held, bounds>>
    BY <1>1, <1>5 DEF WriteRule, TypeOK
  <2>2. turn[h] \in DOMAIN Rules /\ Rules[turn[h]] \in Keys
    BY <1>1, <2>1, RulesType DEF StageInv
  <2>3. /\ pc'[h] \in {"write", "asleep"}
        /\ pc'[h] = "write" => turn'[h] \in DOMAIN Rules
        /\ turn' \in [Procs -> 1..(Len(Rules) + 1)]
        /\ \A q \in Procs : q # h => pc'[q] = pc[q] /\ turn'[q] = turn[q]
    <3>1. 1 \in 1..(Len(Rules) + 1)
          /\ (turn[h] # Len(Rules) => turn[h] + 1 \in DOMAIN Rules /\ turn[h] + 1 \in 1..(Len(Rules) + 1))
      BY <2>2, RulesType
    <3>2. pc \in [Procs -> Stages] /\ turn \in [Procs -> 1..(Len(Rules) + 1)]
      BY <1>1 DEF TypeOK
    <3> QED
      BY <2>1, <3>1, <3>2
  <2>4. TypeOK'
    BY <1>1, <1>2, <2>1, <2>2, <2>3 DEF TypeOK
  <2>5. StageInv(h)'
    BY <1>2, <2>3 DEF StageInv, InCycle
  <2> QED
    BY <1>3, <2>1, <2>3, <2>4, <2>5, MoverStep
<1>6. CASE FailSetup(h)
  <2>1. /\ pc' = [pc EXCEPT ![h] = "stopped"] /\ faults < MaxFaults /\ faults' = faults + 1
        /\ UNCHANGED <<tables, lock, wait, turn, verdict, found, memory, held, reports, saves>>
    BY <1>6 DEF FailSetup, Spend
  <2>2. TypeOK'
    BY <1>1, <1>2, <2>1, Lengths DEF TypeOK
  <2>3. pc'[h] = "stopped" /\ \A q \in Procs : q # h => pc'[q] = pc[q]
    BY <1>1, <2>1 DEF TypeOK
  <2>4. StageInv(h)'
    BY <1>2, <2>3, IdleStage
  <2> QED
    BY <1>3, <2>1, <2>2, <2>3, <2>4, MoverStep
<1> QED
  BY <1>4, <1>5, <1>6

LEMMA CycleSteps ==
    ASSUME IInv, NEW h \in Procs, Begin(h) \/ Look(h) \/ EndCycle(h) \/ Fail(h)
    PROVE  IInv'
<1> USE DEF tables, memory, bounds
<1>1. TypeOK /\ StageInv(h)
  BY DEF IInv
<1>2. UNCHANGED <<incidents, memory, held, saves>>
  BY DEF Begin, Look, EndCycle, Fail
<1>3. \A k \in Keys : StreakInv(h, k)'
  BY <1>2, StreakKept
<1>4. Interval \in 0..Interval
  BY DEF Interval
<1>5. ASSUME Sleep(h)
      PROVE  /\ pc' \in [Procs -> Stages] /\ wait' \in [Procs -> 0..Interval]
             /\ turn' \in [Procs -> 1..(Len(Rules) + 1)]
             /\ pc'[h] = "asleep" /\ turn'[h] = 1
             /\ \A q \in Procs : q # h => pc'[q] = pc[q] /\ turn'[q] = turn[q]
  BY <1>1, <1>4, <1>5, RulesType DEF Sleep, TypeOK, Stages
<1>6. CASE Begin(h)
  <2>1. /\ pc[h] = "asleep" /\ lock # h
        /\ UNCHANGED <<tables, verdict, found, memory, held, bounds>>
    BY <1>1, <1>6 DEF Begin, Due, StageInv, InCycle
  <2>2. CASE Sleep(h) /\ UNCHANGED lock
    <3>1. TypeOK'
      BY <1>1, <1>5, <2>1, <2>2 DEF TypeOK
    <3>2. StageInv(h)'
      BY <1>5, <2>1, <2>2, IdleStage
    <3> QED
      BY <1>2, <1>3, <1>5, <2>1, <2>2, <3>1, <3>2, MoverStep
  <2>3. CASE lock = Nil /\ Enter(h)
    <3>1. /\ lock' = h /\ pc' \in [Procs -> Stages] /\ pc'[h] = "evaluate"
          /\ UNCHANGED <<wait, turn>>
          /\ \A q \in Procs : q # h => pc'[q] = pc[q]
      BY <1>1, <2>3 DEF Enter, TypeOK, Stages
    <3>2. TypeOK'
      BY <1>1, <2>1, <3>1 DEF TypeOK
    <3>3. StageInv(h)'
      BY <3>1 DEF StageInv, InCycle
    <3>4. \A q \in Procs : q # h => (lock' = q <=> lock = q)
      BY <2>3, <3>1, NilAssumption
    <3> QED
      BY <1>2, <1>3, <2>1, <3>1, <3>2, <3>3, <3>4, MoverStep
  <2> QED
    BY <1>6, <2>2, <2>3 DEF Begin
<1>7. CASE Look(h)
  <2>1. /\ pc[h] = "look" /\ pc' = [pc EXCEPT ![h] = "update"]
        /\ UNCHANGED <<tables, lock, wait, turn, verdict, memory, held, bounds>>
    BY <1>7 DEF Look
  <2>2. PICK i \in Incidents \cup {Nil} :
          /\ found' = [found EXCEPT ![h] = i]
          /\ i \in Active(At(h)) \/ (i = Nil /\ Active(At(h)) = {})
    BY <1>7 DEF Look, At, Active
  <2>3. /\ pc' \in [Procs -> Stages] /\ pc'[h] = "update"
        /\ found' \in [Procs -> Incidents \cup {Nil}] /\ found'[h] = i
        /\ \A q \in Procs : q # h => pc'[q] = pc[q] /\ found'[q] = found[q]
    BY <1>1, <2>1, <2>2 DEF TypeOK, Stages
  <2>4. TypeOK'
    BY <1>1, <2>1, <2>3 DEF TypeOK
  <2>5. At(h)' = At(h) /\ Active(At(h))' = Active(At(h))
    BY <2>1 DEF At, Active, Open
  <2>6. i # Nil => incidents[i] # Nil /\ incidents[i].key = At(h)
    BY <2>2 DEF Active, Open
  <2>7. i = Nil => Active(At(h)) = {}
    BY <2>2, NilAssumption DEF Active
  <2>8. lock' = h /\ InCycle(h)'
    BY <1>1, <2>1, <2>3 DEF StageInv, InCycle
  <2>9. /\ turn'[h] \in DOMAIN Rules /\ verdict'[h] \in Verdict
        /\ verdict'[h].state = "alerting" => armed'[h][At(h)]
        /\ verdict'[h].recovered => LastAre(window'[h][At(h)], Recovery, FALSE)
    BY <1>1, <2>1 DEF StageInv
  <2>10. /\ found'[h] # Nil => incidents'[found'[h]] # Nil /\ incidents'[found'[h]].key = At(h)
         /\ found'[h] = Nil => Active(At(h)) = {}
    BY <2>1, <2>3, <2>6, <2>7
  <2>11. StageInv(h)'
    BY <2>3, <2>5, <2>8, <2>9, <2>10 DEF StageInv
  <2> QED
    BY <1>3, <2>1, <2>3, <2>4, <2>11, MoverStep
<1>8. CASE EndCycle(h)
  <2>1. /\ pc[h] = "evaluate" /\ lock' = Nil /\ Sleep(h)
        /\ UNCHANGED <<tables, verdict, found, memory, held, bounds>>
    BY <1>8 DEF EndCycle
  <2>2. lock = h
    BY <1>1, <2>1 DEF StageInv, InCycle
  <2>3. TypeOK'
    BY <1>1, <1>5, <2>1 DEF TypeOK
  <2>4. StageInv(h)'
    BY <1>5, <2>1, NilAssumption, IdleStage
  <2>5. \A q \in Procs : q # h => (lock' = q <=> lock = q)
    BY <2>1, <2>2, NilAssumption
  <2> QED
    BY <1>3, <1>5, <2>1, <2>3, <2>4, <2>5, MoverStep
<1>9. CASE Fail(h)
  <2>1. /\ InCycle(h) /\ lock' = Nil /\ Sleep(h) /\ faults < MaxFaults /\ faults' = faults + 1
        /\ verdict' = [verdict EXCEPT ![h] = Nil] /\ found' = [found EXCEPT ![h] = Nil]
        /\ UNCHANGED <<tables, memory, held, reports, saves>>
    BY <1>9 DEF Fail, Spend
  <2>2. lock = h
    BY <1>1, <2>1 DEF StageInv
  <2>3. TypeOK'
    BY <1>1, <1>5, <2>1, Lengths DEF TypeOK
  <2>4. StageInv(h)'
    BY <1>5, <2>1, NilAssumption, IdleStage
  <2>5. /\ \A q \in Procs : q # h => (lock' = q <=> lock = q)
        /\ \A q \in Procs : q # h => verdict'[q] = verdict[q] /\ found'[q] = found[q]
    BY <1>1, <2>1, <2>2, NilAssumption DEF TypeOK
  <2> QED
    BY <1>3, <1>5, <2>1, <2>3, <2>4, <2>5, MoverStep
<1> QED
  BY <1>6, <1>7, <1>8, <1>9

LEMMA CrashStep ==
    ASSUME IInv, NEW h \in Procs, Crash(h)
    PROVE  IInv'
<1> USE DEF tables
<1>1. TypeOK
  BY DEF IInv
<1>2. /\ lock' = IF lock = h THEN Nil ELSE lock
      /\ pc' = [pc EXCEPT ![h] = "setup"] /\ wait' = [wait EXCEPT ![h] = 0]
      /\ turn' = [turn EXCEPT ![h] = 1]
      /\ verdict' = [verdict EXCEPT ![h] = Nil] /\ found' = [found EXCEPT ![h] = Nil]
      /\ sample' = [sample EXCEPT ![h] = [k \in Keys |-> "none"]]
      /\ streak' = [streak EXCEPT ![h] = [k \in Keys |-> NoStreak]]
      /\ window' = [window EXCEPT ![h] = [k \in Keys |-> <<>>]]
      /\ armed' = [armed EXCEPT ![h] = [k \in Keys |-> FALSE]]
      /\ UNCHANGED <<tables, held, reports, saves>>
      /\ faults < MaxFaults /\ faults' = faults + 1
  BY DEF Crash, Spend
<1>3. /\ pc' \in [Procs -> Stages] /\ wait' \in [Procs -> 0..Interval]
      /\ turn' \in [Procs -> 1..(Len(Rules) + 1)]
      /\ pc'[h] = "setup" /\ turn'[h] = 1
  BY <1>1, <1>2, RulesType DEF TypeOK, Stages, Interval
<1>4. NoStreak \in Streak
  BY Lengths DEF NoStreak, Streak
<1>5. /\ streak' \in [Procs -> [Keys -> Streak]] /\ window' \in [Procs -> [Keys -> Seq(BOOLEAN)]]
      /\ \A k \in Keys : streak'[h][k] = NoStreak /\ window'[h][k] = <<>> /\ ~armed'[h][k]
  <2>1. <<>> \in Seq(BOOLEAN)
    OBVIOUS
  <2> QED
    BY <1>1, <1>2, <1>4, <2>1 DEF TypeOK, Streak
<1>6. TypeOK'
  BY <1>1, <1>2, <1>3, <1>5, Lengths DEF TypeOK, Streak
<1>7. lock' # h /\ \A q \in Procs : q # h => (lock' = q <=> lock = q)
  BY <1>2, NilAssumption
<1>8. StageInv(h)'
  BY <1>3, <1>7, IdleStage
<1>9. ASSUME NEW k \in Keys PROVE StreakInv(h, k)'
  <2>1. \A limit \in Nat \ {0}, v \in BOOLEAN : Says(0, <<>>, limit, v)
    BY DEF Says, LastAre
  <2>2. streak'[h][k].breach = 0 /\ streak'[h][k].recovery = 0
        /\ streak'[h][k].alerting = FALSE
    BY <1>5 DEF NoStreak
  <2>3. armed'[h][k] = FALSE
    BY <1>1, <1>2 DEF TypeOK
  <2> QED
    BY <1>5, <2>1, <2>2, <2>3, Lengths DEF StreakInv
<1>10. \A q \in Procs : q # h =>
         /\ pc'[q] = pc[q] /\ turn'[q] = turn[q]
         /\ verdict'[q] = verdict[q] /\ found'[q] = found[q]
         /\ streak'[q] = streak[q] /\ window'[q] = window[q] /\ armed'[q] = armed[q]
  BY <1>1, <1>2 DEF TypeOK
<1> QED
  BY <1>2, <1>6, <1>7, <1>8, <1>9, <1>10, MoverStep

LEMMA EvaluateStep ==
    ASSUME IInv, NEW h \in Procs, NEW n \in DOMAIN Rules, Evaluate(h, n)
    PROVE  IInv'
<1> USE DEF tables, bounds
<1>1. TypeOK /\ StageInv(h)
  BY DEF IInv
<1>2. PICK k \in Keys : k = Rules[n]
  BY RulesType
<1>3. PICK b \in BOOLEAN : b = (sample[h][k] = "bad")
  OBVIOUS
<1> DEFINE s == Count(streak[h][k], b)
           w == Remember(window[h][k], b)
           a == Arm(armed[h][k], w)
           v == [state |-> State(s, b), recovered |-> s.recovery >= Recovery]
<1>4. /\ pc[h] = "evaluate" /\ turn' = [turn EXCEPT ![h] = n]
      /\ streak' = [streak EXCEPT ![h][k] = s]
      /\ window' = [window EXCEPT ![h][k] = w]
      /\ armed' = [armed EXCEPT ![h][k] = a]
      /\ verdict' = [verdict EXCEPT ![h] = v]
      /\ pc' = [pc EXCEPT ![h] = "look"]
      /\ UNCHANGED <<tables, lock, wait, found, sample, held, bounds>>
  <2>1. armed[h][k] = armed[h][k] /\ [armed EXCEPT ![h][k] = Arm(@, w)] = [armed EXCEPT ![h][k] = a]
    OBVIOUS
  <2> QED
    BY <1>2, <1>3, <2>1 DEF Evaluate
<1>5. /\ streak[h][k] \in Streak /\ window[h][k] \in Seq(BOOLEAN) /\ armed[h][k] \in BOOLEAN
      /\ StreakInv(h, k)
  BY <1>1 DEF IInv, TypeOK, Streak
<1>6. /\ s \in Streak /\ s.alerting = a /\ a \in BOOLEAN
      /\ Says(s.breach, w, Consecutive, TRUE) /\ Says(s.recovery, w, Recovery, FALSE)
      /\ s.recovery >= Recovery => LastAre(w, Recovery, FALSE)
  <2>1. /\ streak[h][k].alerting = armed[h][k]
        /\ Says(streak[h][k].breach, window[h][k], Consecutive, TRUE)
        /\ Says(streak[h][k].recovery, window[h][k], Recovery, FALSE)
    BY <1>5 DEF StreakInv
  <2> HIDE DEF s, w, a, v
  <2>2. PICK old \in Streak : old = streak[h][k]
    BY <1>5
  <2>3. PICK past \in Seq(BOOLEAN) : past = window[h][k]
    BY <1>5
  <2>4. PICK was \in BOOLEAN : was = armed[h][k]
    BY <1>5
  <2>5. /\ old.alerting = was
        /\ Says(old.breach, past, Consecutive, TRUE)
        /\ Says(old.recovery, past, Recovery, FALSE)
    BY <2>1, <2>2, <2>3, <2>4
  <2>6. /\ Count(old, b) \in Streak
        /\ Count(old, b).alerting = Arm(was, Remember(past, b))
        /\ Arm(was, Remember(past, b)) \in BOOLEAN
        /\ Says(Count(old, b).breach, Remember(past, b), Consecutive, TRUE)
        /\ Says(Count(old, b).recovery, Remember(past, b), Recovery, FALSE)
        /\ Count(old, b).recovery >= Recovery => LastAre(Remember(past, b), Recovery, FALSE)
    <3>1. Count(old, b) \in Streak
      BY <2>5, CountValue
    <3>2. Count(old, b).alerting = Arm(was, Remember(past, b))
      BY <2>5, CountValue, ZenonT(120)
    <3>3. Arm(was, Remember(past, b)) \in BOOLEAN
      BY <2>5, CountValue
    <3>4. Says(Count(old, b).breach, Remember(past, b), Consecutive, TRUE)
      BY <2>5, CountValue
    <3>5. Says(Count(old, b).recovery, Remember(past, b), Recovery, FALSE)
      BY <2>5, CountValue
    <3>6. Count(old, b).recovery >= Recovery => LastAre(Remember(past, b), Recovery, FALSE)
      BY <2>5, CountValue
    <3> QED
      BY <3>1, <3>2, <3>3, <3>4, <3>5, <3>6
  <2>7. /\ s = Count(old, b) /\ w = Remember(past, b) /\ a = Arm(was, Remember(past, b))
    BY <2>2, <2>3, <2>4 DEF s, w, a
  <2> QED
    BY <2>6, <2>7
<1>7. w \in Seq(BOOLEAN)
  BY <1>5, RememberValue
<1> HIDE DEF s, w, a
<1>8. v \in Verdict /\ (v.state = "alerting" => a) /\ (v.recovered => LastAre(w, Recovery, FALSE))
  <2>1. State(s, b) \in {"alerting", "pending", "healthy"}
        /\ (State(s, b) = "alerting" => s.alerting)
    BY DEF State
  <2>2. (s.recovery >= Recovery) \in BOOLEAN
    OBVIOUS
  <2>3. v.state = State(s, b) /\ v.recovered = (s.recovery >= Recovery)
    OBVIOUS
  <2>4. v \in Verdict
    BY <2>1, <2>2 DEF Verdict
  <2>5. v.state = "alerting" => a
    BY <1>6, <2>1, <2>3
  <2> QED
    BY <1>6, <2>3, <2>4, <2>5
<1> HIDE DEF v
<1>9. /\ streak' \in [Procs -> [Keys -> Streak]] /\ streak'[h][k] = s
      /\ \A j \in Keys : j # k => streak'[h][j] = streak[h][j]
      /\ \A q \in Procs : q # h => streak'[q] = streak[q]
  BY <1>1, <1>4, <1>6 DEF TypeOK, Streak
<1>10. /\ window' \in [Procs -> [Keys -> Seq(BOOLEAN)]] /\ window'[h][k] = w
       /\ \A j \in Keys : j # k => window'[h][j] = window[h][j]
       /\ \A q \in Procs : q # h => window'[q] = window[q]
  BY <1>1, <1>4, <1>7 DEF TypeOK
<1>11. /\ armed' \in [Procs -> [Keys -> BOOLEAN]] /\ armed'[h][k] = a
       /\ \A j \in Keys : j # k => armed'[h][j] = armed[h][j]
       /\ \A q \in Procs : q # h => armed'[q] = armed[q]
  BY <1>1, <1>4, <1>6 DEF TypeOK
<1>12. /\ pc' \in [Procs -> Stages] /\ pc'[h] = "look"
       /\ turn' \in [Procs -> 1..(Len(Rules) + 1)] /\ turn'[h] = n
       /\ verdict'[h] = v
       /\ verdict' \in [Procs -> {Nil} \cup Verdict]
       /\ \A q \in Procs : q # h =>
            pc'[q] = pc[q] /\ turn'[q] = turn[q] /\ verdict'[q] = verdict[q]
  <2>1. n \in 1..(Len(Rules) + 1)
    BY RulesType
  <2>2. verdict \in [Procs -> {Nil} \cup Verdict]
    BY <1>1 DEF TypeOK, Verdict
  <2>3. /\ verdict' \in [Procs -> {Nil} \cup Verdict] /\ verdict'[h] = v
        /\ \A q \in Procs : q # h => verdict'[q] = verdict[q]
    BY <1>4, <1>8, <2>2
  <2>4. pc \in [Procs -> Stages] /\ turn \in [Procs -> 1..(Len(Rules) + 1)]
    BY <1>1 DEF TypeOK
  <2>5. /\ pc' \in [Procs -> Stages] /\ pc'[h] = "look"
        /\ \A q \in Procs : q # h => pc'[q] = pc[q]
    BY <1>4, <2>4 DEF Stages
  <2>6. /\ turn' \in [Procs -> 1..(Len(Rules) + 1)] /\ turn'[h] = n
        /\ \A q \in Procs : q # h => turn'[q] = turn[q]
    BY <1>4, <2>1, <2>4
  <2> QED
    BY <2>3, <2>5, <2>6
<1>13. TypeOK'
  BY <1>1, <1>4, <1>9, <1>10, <1>11, <1>12 DEF TypeOK, Streak, Verdict
<1>14. At(h)' = k
  BY <1>2, <1>12 DEF At
<1>15. lock' = h
  BY <1>1, <1>4 DEF StageInv, InCycle
<1>16. StageInv(h)'
  BY <1>8, <1>10, <1>11, <1>12, <1>14, <1>15 DEF StageInv, InCycle
<1>17. ASSUME NEW j \in Keys PROVE StreakInv(h, j)'
  <2>1. CASE j = k
    BY <1>6, <1>9, <1>10, <1>11, <2>1 DEF StreakInv
  <2>2. CASE j # k
    BY <1>9, <1>10, <1>11, <2>2 DEF IInv, StreakInv
  <2> QED
    BY <2>1, <2>2
<1> QED
  BY <1>4, <1>9, <1>10, <1>11, <1>12, <1>13, <1>16, <1>17, MoverStep

(* What an update does to the incidents: nothing, or one is opened, or one  *)
(* resolved, as the verdict says.                                           *)
LEMMA UpdateValue ==
    ASSUME IInv, NEW h \in Procs, Update(h)
    PROVE  \/ incidents' = incidents
           \/ \E i \in Incidents :
                /\ Unused(i) /\ found[h] = Nil /\ armed[h][At(h)]
                /\ incidents' = [incidents EXCEPT ![i] = [key |-> At(h), status |-> "OPEN"]]
           \/ \E i \in Incidents :
                /\ found[h] = i /\ incidents[i] # Nil /\ incidents[i].key = At(h)
                /\ LastAre(window[h][At(h)], Recovery, FALSE)
                /\ incidents' = [incidents EXCEPT ![i] = [key |-> At(h), status |-> "RESOLVED"]]
<1>1. TypeOK /\ StageInv(h) /\ pc[h] = "update"
  BY DEF IInv, Update
<1>2. /\ verdict[h].state = "alerting" => armed[h][At(h)]
      /\ verdict[h].recovered => LastAre(window[h][At(h)], Recovery, FALSE)
      /\ found[h] # Nil => incidents[found[h]] # Nil /\ incidents[found[h]].key = At(h)
  BY <1>1 DEF StageInv
<1>3. CASE Recovered(h)
  <2>1. found[h] \in Incidents /\ found[h] # Nil /\ verdict[h].recovered
    BY <1>1, <1>3 DEF Recovered, TypeOK
  <2>2. PICK i \in Incidents : i = found[h]
    BY <2>1
  <2>3. incidents' = [incidents EXCEPT ![i].status = "RESOLVED"]
    BY <1>3, <2>2 DEF Update
  <2>4. incidents[i] \in Incident /\ incidents[i].key = At(h) /\ incidents[i] # Nil
    BY <1>1, <1>2, <2>1, <2>2 DEF TypeOK
  <2>5. [incidents[i] EXCEPT !.status = "RESOLVED"] = [key |-> At(h), status |-> "RESOLVED"]
    BY <2>4 DEF Incident
  <2>6. incidents' = [incidents EXCEPT ![i] = [key |-> At(h), status |-> "RESOLVED"]]
    BY <2>3, <2>5
  <2> QED
    BY <1>2, <2>1, <2>2, <2>4, <2>6
<1>4. CASE ~Recovered(h) /\ found[h] = Nil /\ verdict[h].state = "alerting"
  <2>1. PICK i \in Incidents : OpenIncident(h, i)
    BY <1>4 DEF Update
  <2> QED
    BY <1>2, <1>4, <2>1 DEF OpenIncident, At
<1>5. CASE ~Recovered(h) /\ ~(found[h] = Nil /\ verdict[h].state = "alerting")
  BY <1>5 DEF Update
<1> QED
  BY <1>3, <1>4, <1>5

LEMMA UpdateStep ==
    ASSUME IInv, NEW h \in Procs, Update(h)
    PROVE  IInv'
<1> USE DEF memory, bounds
<1>1. TypeOK /\ StageInv(h) /\ OneActive
  BY DEF IInv
<1>2. /\ pc[h] = "update" /\ pc' = [pc EXCEPT ![h] = "evaluate"]
      /\ turn' = [turn EXCEPT ![h] = turn[h] + 1]
      /\ verdict' = [verdict EXCEPT ![h] = Nil] /\ found' = [found EXCEPT ![h] = Nil]
      /\ UNCHANGED <<rules, lock, wait, memory, held, bounds>>
  BY <1>1 DEF Update, NextRule, TypeOK
<1>3. turn[h] \in DOMAIN Rules /\ At(h) \in Keys /\ lock = h
  BY <1>1, <1>2, RulesType DEF StageInv, InCycle, At
<1>4. turn[h] + 1 \in 1..(Len(Rules) + 1)
  BY <1>3, RulesType
<1>5. /\ pc' \in [Procs -> Stages] /\ pc'[h] = "evaluate"
      /\ turn' \in [Procs -> 1..(Len(Rules) + 1)]
      /\ \A q \in Procs : q # h =>
           /\ pc'[q] = pc[q] /\ turn'[q] = turn[q]
           /\ verdict'[q] = verdict[q] /\ found'[q] = found[q]
  BY <1>1, <1>2, <1>4 DEF TypeOK, Stages
<1>6. \A i \in Incidents, state \in {"OPEN", "RESOLVED"} :
        [key |-> At(h), status |-> state] \in Incident
  BY <1>3 DEF Incident
<1>7. incidents' \in [Incidents -> Incident \cup {Nil}]
  <2>1. incidents \in [Incidents -> Incident \cup {Nil}]
    BY <1>1 DEF TypeOK
  <2>2. \/ incidents' = incidents
        \/ \E i \in Incidents, c \in Incident : incidents' = [incidents EXCEPT ![i] = c]
    <3>1. [key |-> At(h), status |-> "OPEN"] \in Incident
          /\ [key |-> At(h), status |-> "RESOLVED"] \in Incident
      BY <1>3 DEF Incident
    <3> QED
      BY <3>1, UpdateValue
  <2> QED
    BY <2>1, <2>2
<1>8. TypeOK'
  BY <1>1, <1>2, <1>5, <1>7 DEF TypeOK
<1>9. ASSUME NEW q \in Procs PROVE StageInv(q)'
  <2>1. CASE q = h
    BY <1>2, <1>3, <1>5, <2>1 DEF StageInv, InCycle
  <2>2. CASE q # h
    <3>1. ~InCycle(q)
      BY <1>3, <2>2 DEF IInv, StageInv
    <3> QED
      BY <1>2, <1>5, <2>2, <3>1, StageKept
  <2> QED
    BY <2>1, <2>2
<1>10. ASSUME NEW q \in Procs, NEW k \in Keys PROVE StreakInv(q, k)'
  BY <1>2, StreakKept
<1>11. ASSUME NEW x \in Savers, held[x] # Nil
       PROVE  /\ saves > 0 /\ held[x].id \in Incidents
              /\ incidents[held[x].id] # Nil /\ incidents[held[x].id].key = held[x].copy.key
  BY <1>1, <1>11 DEF IInv, HeldInv, TypeOK, Holding
<1>12. ASSUME NEW x \in Savers PROVE HeldInv(x)'
  <2> SUFFICES ASSUME held[x] # Nil
               PROVE  incidents'[held[x].id] # Nil /\ incidents'[held[x].id].key = held[x].copy.key
    BY <1>2, <1>11 DEF HeldInv
  <2>1. CASE incidents' = incidents
    BY <1>11, <2>1
  <2>2. ASSUME NEW i \in Incidents, Unused(i),
               incidents' = [incidents EXCEPT ![i] = [key |-> At(h), status |-> "OPEN"]]
        PROVE  incidents'[held[x].id] = incidents[held[x].id]
    BY <1>11, <2>2 DEF Unused
  <2>3. ASSUME NEW i \in Incidents, incidents[i].key = At(h),
               incidents' = [incidents EXCEPT ![i] = [key |-> At(h), status |-> "RESOLVED"]]
        PROVE  incidents'[held[x].id] # Nil /\ incidents'[held[x].id].key = held[x].copy.key
    <3>1. [key |-> At(h), status |-> "RESOLVED"] # Nil
      BY <1>6, NilAssumption
    <3> QED
      BY <1>1, <1>11, <2>3, <3>1 DEF TypeOK
  <2> QED
    BY <1>11, <2>1, <2>2, <2>3, UpdateValue
<1>13. OneActive'
  <2> SUFFICES ASSUME saves' = 0, NEW k \in Keys, NEW i \in Active(k)', NEW j \in Active(k)'
               PROVE  i = j
    BY DEF OneActive
  <2>1. \A l, m \in Active(k) : l = m
    BY <1>1, <1>2 DEF OneActive
  <2>2. i \in Incidents /\ j \in Incidents
        /\ incidents'[i] # Nil /\ incidents'[i].status = "OPEN" /\ incidents'[i].key = k
        /\ incidents'[j] # Nil /\ incidents'[j].status = "OPEN" /\ incidents'[j].key = k
    BY DEF Active, Open
  <2>3. CASE incidents' = incidents
    BY <2>1, <2>2, <2>3 DEF Active, Open
  <2>4. ASSUME NEW n \in Incidents, found[h] = Nil,
               incidents' = [incidents EXCEPT ![n] = [key |-> At(h), status |-> "OPEN"]]
        PROVE  i = j
    <3>1. Active(At(h)) = {}
      BY <1>1, <1>2, <2>4 DEF StageInv
    <3>2. CASE k = At(h)
      BY <1>1, <2>2, <2>4, <3>1, <3>2 DEF Active, Open, TypeOK
    <3>3. CASE k # At(h)
      BY <1>1, <2>1, <2>2, <2>4, <3>3 DEF Active, Open, TypeOK
    <3> QED
      BY <3>2, <3>3
  <2>5. ASSUME NEW n \in Incidents,
               incidents' = [incidents EXCEPT ![n] = [key |-> At(h), status |-> "RESOLVED"]]
        PROVE  i = j
    BY <1>1, <2>1, <2>2, <2>5 DEF Active, Open, TypeOK
  <2> QED
    BY <2>3, <2>4, <2>5, UpdateValue
<1> QED
  BY <1>8, <1>9, <1>10, <1>12, <1>13 DEF IInv

-----------------------------------------------------------------------------
(* The inductive invariant                                                  *)

LEMMA InitInv == Init => IInv
<1> SUFFICES ASSUME Init PROVE IInv
  OBVIOUS
<1> USE DEF Init
<1>1. NoStreak \in Streak
  BY Lengths DEF NoStreak, Streak
<1>2. streak \in [Procs -> [Keys -> Streak]]
  BY <1>1
<1>3. window \in [Procs -> [Keys -> Seq(BOOLEAN)]]
  <2>1. <<>> \in Seq(BOOLEAN)
    OBVIOUS
  <2> QED
    BY <2>1
<1>4. turn \in [Procs -> 1..(Len(Rules) + 1)]
  BY RulesType
<1>5. TypeOK
  BY <1>2, <1>3, <1>4, Lengths DEF TypeOK, Stages, Streak, Interval
<1>6. OneActive
  BY DEF OneActive, Active, Open
<1>7. \A h \in Procs : StageInv(h)
  BY NilAssumption DEF StageInv, InCycle
<1>8. ASSUME NEW h \in Procs, NEW k \in Keys PROVE StreakInv(h, k)
  <2>1. \A limit \in Nat \ {0}, v \in BOOLEAN : Says(0, <<>>, limit, v)
    BY DEF Says, LastAre
  <2> QED
    BY <2>1, Lengths DEF StreakInv, NoStreak
<1>9. \A x \in Savers : HeldInv(x)
  BY DEF HeldInv
<1> QED
  BY <1>5, <1>6, <1>7, <1>8, <1>9 DEF IInv

LEMMA StepInv == IInv /\ [Next]_vars => IInv'
<1> SUFFICES ASSUME IInv, [Next]_vars PROVE IInv'
  OBVIOUS
<1>1. CASE \/ Tick
           \/ \E h \in Procs, k \in Keys, value \in {"ok", "bad"} : Report(h, k, value)
           \/ \E x \in Savers : Put(x) \/ Drop(x) \/ \E i \in Incidents : Take(x, i)
  BY <1>1, WorldSteps
<1>2. ASSUME NEW h \in Procs, Scheduler(h) \/ Fail(h) \/ FailSetup(h) \/ Crash(h)
      PROVE  IInv'
  BY <1>2, SetupSteps, CycleSteps, EvaluateStep, UpdateStep, CrashStep DEF Scheduler
<1>3. CASE UNCHANGED vars
  <2> USE <1>3 DEF vars, tables, cycle, memory, bounds
  <2>1. TypeOK'
    BY DEF IInv, TypeOK
  <2>2. \A x \in Savers : HeldInv(x)'
    BY DEF IInv, HeldInv
  <2> QED
    BY <2>1, <2>2, StandStill
<1> QED
  BY <1>1, <1>2, <1>3 DEF Next

(* What schedulers, savers and streaks say of each other holds in every     *)
(* reachable state.                                                         *)
THEOREM Invariance == Spec => []IInv
  BY InitInv, StepInv, PTL DEF Spec

-----------------------------------------------------------------------------
(* What follows                                                             *)

(* Every reachable state is well typed.                                     *)
THEOREM MonitoringTyped == Spec => []TypeOK
<1>1. IInv => TypeOK
  BY DEF IInv
<1> QED
  BY <1>1, Invariance, PTL

(* However many processes evaluate, and whichever dies or fails, a rule has *)
(* one active incident until a copy of one is saved (_update_incident).     *)
THEOREM OneIncidentPerRule == Spec => []OneActive
<1>1. IInv => OneActive
  BY DEF IInv
<1> QED
  BY <1>1, Invariance, PTL

(* An incident changes by an update of who holds the lock, or by a saver.   *)
LEMMA WhoChanges ==
    ASSUME IInv, [Next]_vars, incidents' # incidents, held' = held
    PROVE  lock \in Procs /\ Update(lock)
<1> USE DEF tables, cycle, memory, bounds
<1>1. ASSUME NEW x \in Savers, Put(x) PROVE FALSE
  <2>1. held'[x] = Nil /\ held[x] # Nil
    BY <1>1 DEF Put, IInv, TypeOK
  <2> QED
    BY <2>1
<1>2. PICK h \in Procs : Update(h)
  BY <1>1 DEF Next, vars, Tick, Scheduler, ListRules, WriteRule, Begin, Evaluate, Look, EndCycle,
              Fail, FailSetup, Crash, Report, Drop, Take
<1>3. lock = h
  BY <1>2 DEF Update, IInv, StageInv, InCycle
<1> QED
  BY <1>2, <1>3

LEMMA AlertStep ==
    IInv /\ [Next]_vars =>
        \A i \in Incidents : ~Open(i) /\ Open(i)' /\ held' = held =>
          armed[lock][incidents'[i].key]
<1> SUFFICES ASSUME IInv, [Next]_vars, NEW i \in Incidents, ~Open(i), Open(i)', held' = held
             PROVE  armed[lock][incidents'[i].key]
  OBVIOUS
<1>1. incidents'[i] # incidents[i]
  BY DEF Open
<1>2. PICK h \in Procs : h = lock /\ Update(h)
  BY <1>1, WhoChanges
<1>3. incidents \in [Incidents -> Incident \cup {Nil}]
  BY DEF IInv, TypeOK
<1>4. PICK j \in Incidents :
        \/ /\ armed[h][At(h)]
           /\ incidents' = [incidents EXCEPT ![j] = [key |-> At(h), status |-> "OPEN"]]
        \/ incidents' = [incidents EXCEPT ![j] = [key |-> At(h), status |-> "RESOLVED"]]
  BY <1>1, <1>2, UpdateValue
<1>5. i = j
  BY <1>1, <1>3, <1>4
<1>6. incidents'[i].status = "OPEN"
  BY DEF Open
<1> QED
  BY <1>2, <1>3, <1>4, <1>5, <1>6

(* A cycle opens an incident only of a rule breached in as many successive  *)
(* evaluations as it asks for, and not recovered since (_evaluate_one).     *)
THEOREM AlertEarned == Spec => AlertIsEarned
<1>1. IInv /\ [Next]_vars =>
        [\A i \in Incidents : ~Open(i) /\ Open(i)' /\ held' = held =>
           armed[lock][incidents'[i].key]]_vars
  BY AlertStep
<1> QED
  BY <1>1, Invariance, PTL DEF Spec, AlertIsEarned

LEMMA RecoveryStep ==
    IInv /\ [Next]_vars =>
        \A i \in Incidents : Open(i) /\ ~Open(i)' /\ held' = held =>
          LastAre(window[lock][incidents[i].key], Recovery, FALSE)
<1> SUFFICES ASSUME IInv, [Next]_vars, NEW i \in Incidents, Open(i), ~Open(i)', held' = held
             PROVE  LastAre(window[lock][incidents[i].key], Recovery, FALSE)
  OBVIOUS
<1>1. incidents'[i] # incidents[i] /\ incidents[i] # Nil /\ incidents[i].status = "OPEN"
  BY DEF Open
<1>2. PICK h \in Procs : h = lock /\ Update(h)
  BY <1>1, WhoChanges
<1>3. incidents \in [Incidents -> Incident \cup {Nil}]
  BY DEF IInv, TypeOK
<1>4. PICK j \in Incidents :
        \/ incidents' = [incidents EXCEPT ![j] = [key |-> At(h), status |-> "OPEN"]]
        \/ /\ incidents[j].key = At(h)
           /\ LastAre(window[h][At(h)], Recovery, FALSE)
           /\ incidents' = [incidents EXCEPT ![j] = [key |-> At(h), status |-> "RESOLVED"]]
  BY <1>1, <1>2, UpdateValue
<1>5. i = j
  BY <1>1, <1>3, <1>4
<1>6. CASE incidents' = [incidents EXCEPT ![j] = [key |-> At(h), status |-> "OPEN"]]
  <2>1. incidents'[i] = [key |-> At(h), status |-> "OPEN"]
    BY <1>3, <1>5, <1>6
  <2>2. At(h) \in Keys
    BY <1>2, RulesType DEF Update, IInv, StageInv, At
  <2>3. incidents'[i] # Nil
    BY <2>1, <2>2, NilAssumption DEF Incident
  <2> QED
    BY <2>1, <2>3 DEF Open
<1> QED
  BY <1>2, <1>4, <1>5, <1>6

(* A cycle resolves an incident only when the last evaluations of its rule  *)
(* by this process, as many as it asks for, were normal (_update_incident). *)
THEOREM RecoveryEarned == Spec => RecoveryIsEarned
<1>1. IInv /\ [Next]_vars =>
        [\A i \in Incidents : Open(i) /\ ~Open(i)' /\ held' = held =>
           LastAre(window[lock][incidents[i].key], Recovery, FALSE)]_vars
  BY RecoveryStep
<1> QED
  BY <1>1, Invariance, PTL DEF Spec, RecoveryIsEarned

=============================================================================
