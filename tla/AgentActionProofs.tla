------------------------- MODULE AgentActionProofs -------------------------
(***************************************************************************)
(* Proofs about the agent's action service, for every set of goroutines,   *)
(* tasks, keys and nonces and every bound of the clock and of restarts.    *)
(***************************************************************************)
EXTENDS AgentAction, TLAPS

(* The goroutine that created the record of its key and is not yet done.    *)
Owns(r) == pc[r] \in {"running", "called", "finished", "returning"}

(* Who was admitted, and when: once each, and the admitted of earlier lives *)
(* are done.                                                                *)
AdmissionInv ==
    /\ \A a \in admitted :
        /\ pc[a.req] \notin {"idle", "admitting"}
        /\ a.life <= life
        /\ a.life # life => pc[a.req] = "done"
    /\ \A a, b \in admitted : a.req = b.req => a = b
    /\ \A r \in Reqs : Owns(r) \/ pc[r] = "waiting" =>
        \E a \in admitted : a.req = r /\ a.life = life
    /\ \A r \in Reqs : reply[r] # "none" => pc[r] = "done"

(* Whoever owns or waits for a record finds it, with its own fingerprint;   *)
(* one goroutine owns a key.                                                *)
RecordInv ==
    /\ \A r \in Reqs : Owns(r) \/ pc[r] = "waiting" =>
        /\ records[task[r].key] # Nil
        /\ records[task[r].key].fingerprint = Fingerprint(task[r])
    /\ \A r, s \in Reqs :
        Owns(r) /\ Owns(s) /\ task[r].key = task[s].key => r = s
    /\ \A r \in Reqs :
        pc[r] \in {"running", "called", "finished"} => ~records[task[r].key].done
    /\ \A r \in Reqs : pc[r] \in {"finished", "returning"} => outcome[r] \in Results
    /\ \A r \in Reqs : pc[r] = "returning" =>
        records[task[r].key].done /\ records[task[r].key].result = outcome[r]

(* A run of this life left a record behind, whose owner is past the call.   *)
RunInv ==
    /\ \A x \in runs :
        /\ \E a \in admitted : a.req = x.req /\ a.life = x.life
        /\ x.life = life =>
            /\ records[task[x.req].key] # Nil
            /\ records[task[x.req].key].fingerprint = Fingerprint(task[x.req])
            /\ \A r \in Reqs : pc[r] = "running" => task[r].key # task[x.req].key
    /\ \A r \in Reqs :
        pc[r] = "called" \/ (pc[r] \in {"finished", "returning"} /\ outcome[r] = "ok") =>
            [req |-> r, life |-> life] \in runs
    /\ \A k \in Keys :
        records[k] # Nil /\ records[k].done /\ records[k].result = "ok" =>
            \E x \in runs : x.life = life /\ Fingerprint(task[x.req]) = records[k].fingerprint

(* Every result told in this life is the one in the record.                 *)
ReplyInv ==
    \A a \in admitted : a.life = life /\ reply[a.req] \in Results =>
        /\ records[task[a.req].key] # Nil
        /\ records[task[a.req].key].done
        /\ records[task[a.req].key].result = reply[a.req]
        /\ records[task[a.req].key].fingerprint = Fingerprint(task[a.req])

(* The nonce of everybody admitted in this life is still bound while valid. *)
NonceInv ==
    \A a \in admitted : a.life = life /\ now < task[a.req].expires =>
        nonces[task[a.req].nonce] = [key |-> task[a.req].key, expires |-> task[a.req].expires]

IInv ==
    /\ TypeOK
    /\ AdmissionInv
    /\ RecordInv
    /\ RunInv
    /\ ReplyInv
    /\ NonceInv
    /\ AtMostOneRun
    /\ SameAnswer
    /\ SuccessIsReal
    /\ NonceServesOneKey

-----------------------------------------------------------------------------
LEMMA Fields ==
    ASSUME TypeOK
    PROVE  /\ now \in Nat /\ life \in Nat
           /\ \A r \in Reqs :
                /\ task[r] \in TaskType
                /\ task[r].key \in Keys
                /\ task[r].nonce \in Nonces
                /\ task[r].expires \in Nat
                /\ Fingerprint(task[r]) \in Fingerprints
           /\ \A a \in admitted : a.req \in Reqs /\ a.life \in Nat /\ a.at \in Nat
           /\ \A x \in runs : x.req \in Reqs /\ x.life \in Nat
<1>1. now \in Nat /\ life \in Nat
  BY TaskAssumption DEF TypeOK
<1>2. ASSUME NEW r \in Reqs
      PROVE  /\ task[r] \in TaskType
             /\ task[r].key \in Keys
             /\ task[r].nonce \in Nonces
             /\ task[r].expires \in Nat
             /\ Fingerprint(task[r]) \in Fingerprints
  <2>1. task[r] \in TaskType
    BY TaskAssumption DEF TypeOK
  <2> QED BY <2>1 DEF TaskType, Fingerprint, Fingerprints
<1>3. \A a \in admitted : a.req \in Reqs /\ a.life \in Nat /\ a.at \in Nat
  BY TaskAssumption DEF TypeOK
<1>4. \A x \in runs : x.req \in Reqs /\ x.life \in Nat
  BY TaskAssumption DEF TypeOK
<1> QED BY <1>1, <1>2, <1>3, <1>4

(* Steps that leave the records, the tasks and the history alone and tell    *)
(* nobody a result keep everything that is said about results.               *)
LEMMA Untold ==
    ASSUME IInv, life' = life, task' = task, runs' = runs, records' = records,
           admitted' = admitted,
           \A r \in Reqs : reply'[r] \in Results => reply'[r] = reply[r]
    PROVE  ReplyInv' /\ AtMostOneRun' /\ SameAnswer' /\ SuccessIsReal'
<1> USE Fields DEF IInv
<1>1. ReplyInv'
  BY DEF ReplyInv, Fingerprint
<1>2. AtMostOneRun'
  BY DEF AtMostOneRun
<1>3. SameAnswer'
  BY DEF SameAnswer
<1>4. SuccessIsReal'
  BY DEF SuccessIsReal, Results
<1> QED BY <1>1, <1>2, <1>3, <1>4

(* A step after which fewer goroutines, or the same, own or await records     *)
(* keeps everything that is said about records and runs.                      *)
LEMMA Kept ==
    ASSUME IInv, life' = life, task' = task, runs' = runs, records' = records,
           admitted' = admitted, outcome' = outcome,
           \A q \in Reqs : Owns(q)' \/ pc'[q] = "waiting" => pc'[q] = pc[q]
    PROVE  RecordInv' /\ RunInv'
<1> USE Fields DEF IInv, Owns
<1>1. RecordInv'
  BY DEF RecordInv, Fingerprint
<1>2. RunInv'
  BY DEF RunInv, Fingerprint
<1> QED BY <1>1, <1>2

(* A step that tells goroutine r the result in the record of its key.         *)
LEMMA Told ==
    ASSUME IInv, NEW r \in Reqs, Owns(r) \/ pc[r] = "waiting",
           records[task[r].key].done,
           records[task[r].key].result \in Results,
           reply' = [reply EXCEPT ![r] = records[task[r].key].result],
           life' = life, task' = task, runs' = runs, records' = records,
           admitted' = admitted
    PROVE  ReplyInv' /\ AtMostOneRun' /\ SameAnswer' /\ SuccessIsReal'
<1> DEFINE rec == records[task[r].key]
<1> USE Fields DEF IInv
<1>1. rec # Nil /\ rec.fingerprint = Fingerprint(task[r])
  BY DEF RecordInv
<1>2. \A a \in admitted : a.req = r => a.life = life
  BY DEF AdmissionInv
<1>3. \A q \in Reqs : q # r => reply'[q] = reply[q]
  BY DEF TypeOK
<1>4. reply'[r] = rec.result
  BY DEF TypeOK
<1>5. ReplyInv'
  BY <1>1, <1>3, <1>4 DEF ReplyInv, Fingerprint
<1>6. AtMostOneRun'
  BY DEF AtMostOneRun
<1>7. SameAnswer'
  <2> SUFFICES ASSUME NEW a \in admitted, NEW b \in admitted,
                      a.life = b.life, task[a.req].key = task[b.req].key,
                      reply'[a.req] \in Results, reply'[b.req] \in Results
               PROVE  reply'[a.req] = reply'[b.req]
    BY DEF SameAnswer
  <2>1. CASE a.req # r /\ b.req # r
    BY <2>1, <1>3 DEF SameAnswer
  <2>2. CASE a.req = r
    BY <2>2, <1>2, <1>3, <1>4, <1>5 DEF ReplyInv
  <2>3. CASE b.req = r
    BY <2>3, <1>2, <1>3, <1>4, <1>5 DEF ReplyInv
  <2> QED BY <2>1, <2>2, <2>3
<1>8. SuccessIsReal'
  <2> SUFFICES ASSUME NEW a \in admitted, reply'[a.req] = "ok"
               PROVE  \E x \in runs : /\ x.life = a.life
                                      /\ task[x.req].key = task[a.req].key
                                      /\ task[x.req].body = task[a.req].body
                                      /\ task[x.req].action = task[a.req].action
                                      /\ task[x.req].target = task[a.req].target
    BY DEF SuccessIsReal
  <2>1. CASE a.req # r
    BY <2>1, <1>3 DEF SuccessIsReal
  <2>2. CASE a.req = r
    <3>1. PICK x \in runs : x.life = life /\ Fingerprint(task[x.req]) = rec.fingerprint
      BY <2>2, <1>1, <1>4 DEF RunInv
    <3> QED BY <2>2, <3>1, <1>1, <1>2 DEF Fingerprint
  <2> QED BY <2>1, <2>2
<1> QED BY <1>5, <1>6, <1>7, <1>8

-----------------------------------------------------------------------------
LEMMA ReceiveStep ==
    ASSUME IInv, NEW r \in Reqs, Receive(r)
    PROVE  IInv'
<1> USE Fields DEF IInv, Receive, Refusal, Answer, Owns, store
<1>1. TypeOK'
  <2>1. pc' \in [Reqs -> Stages]
    BY DEF TypeOK, Stages
  <2>2. reply' \in [Reqs -> Results \cup Refusals \cup {"none"}]
    BY DEF TypeOK, Refusals
  <2> QED BY <2>1, <2>2 DEF TypeOK
<1>2. AdmissionInv'
  BY DEF TypeOK, AdmissionInv
<1>3. \A q \in Reqs : Owns(q)' \/ pc'[q] = "waiting" => pc'[q] = pc[q]
  BY DEF TypeOK
<1>4. RecordInv' /\ RunInv'
  BY <1>3, Kept
<1>5. \A q \in Reqs : reply'[q] \in Results => reply'[q] = reply[q]
  BY DEF TypeOK, Results
<1>6. NonceInv'
  BY DEF NonceInv
<1>7. NonceServesOneKey'
  BY DEF NonceServesOneKey
<1> QED BY <1>1, <1>2, <1>4, <1>5, <1>6, <1>7, Untold

LEMMA CallDockerStep ==
    ASSUME IInv, NEW r \in Reqs, CallDocker(r)
    PROVE  IInv'
<1> USE Fields DEF IInv, CallDocker, Owns, store
<1>1. TypeOK'
  BY DEF TypeOK, Stages
<1>2. AdmissionInv'
  BY DEF TypeOK, AdmissionInv
<1>3. RecordInv'
  BY DEF TypeOK, RecordInv, Fingerprint
<1>4. \A q \in Reqs : pc'[q] = "running" => pc[q] = "running" /\ q # r
  BY DEF TypeOK
<1>5. RunInv'
  <2>1. ASSUME NEW x \in runs'
        PROVE  /\ \E a \in admitted : a.req = x.req /\ a.life = x.life
               /\ x.life = life =>
                   /\ records[task[x.req].key] # Nil
                   /\ records[task[x.req].key].fingerprint = Fingerprint(task[x.req])
                   /\ \A q \in Reqs : pc'[q] = "running" => task[q].key # task[x.req].key
    <3>1. CASE x \in runs
      BY <3>1, <1>4 DEF RunInv
    <3>2. CASE x = [req |-> r, life |-> life]
      BY <3>2, <1>4 DEF RecordInv, AdmissionInv
    <3> QED BY <3>1, <3>2
  <2>2. \A q \in Reqs :
          pc'[q] = "called" \/ (pc'[q] \in {"finished", "returning"} /\ outcome[q] = "ok") =>
              [req |-> q, life |-> life] \in runs'
    BY DEF RunInv, TypeOK
  <2>3. \A k \in Keys :
          records[k] # Nil /\ records[k].done /\ records[k].result = "ok" =>
              \E x \in runs' : x.life = life /\ Fingerprint(task[x.req]) = records[k].fingerprint
    BY DEF RunInv
  <2> QED BY <2>1, <2>2, <2>3 DEF RunInv, Fingerprint
<1>6. ReplyInv'
  BY DEF ReplyInv, Fingerprint
<1>7. NonceInv'
  BY DEF NonceInv
<1>8. AtMostOneRun'
  <2> SUFFICES ASSUME NEW x \in runs', NEW y \in runs',
                      x.life = y.life, task[x.req].key = task[y.req].key
               PROVE  x = y
    BY DEF AtMostOneRun
  <2>1. \A z \in runs : z.life = life => task[z.req].key # task[r].key
    BY DEF RunInv
  <2>2. runs' = runs \cup {[req |-> r, life |-> life]}
    OBVIOUS
  <2> QED BY <2>1, <2>2 DEF AtMostOneRun
<1>9. SameAnswer'
  BY DEF SameAnswer
<1>10. SuccessIsReal'
  BY DEF SuccessIsReal
<1>11. NonceServesOneKey'
  BY DEF NonceServesOneKey
<1> QED BY <1>1, <1>2, <1>3, <1>5, <1>6, <1>7, <1>8, <1>9, <1>10, <1>11

LEMMA ExecutorReturnsStep ==
    ASSUME IInv, NEW r \in Reqs, NEW res \in Results, ExecutorReturns(r, res)
    PROVE  IInv'
<1> USE Fields DEF IInv, ExecutorReturns, Owns, store
<1>1. TypeOK'
  BY DEF TypeOK, Stages
<1>2. AdmissionInv'
  BY DEF TypeOK, AdmissionInv
<1>3. RecordInv'
  BY DEF TypeOK, RecordInv, Fingerprint
<1>4. RunInv'
  BY DEF TypeOK, RunInv, Fingerprint
<1>5. NonceInv'
  BY DEF NonceInv
<1>6. NonceServesOneKey'
  BY DEF NonceServesOneKey
<1> QED BY <1>1, <1>2, <1>3, <1>4, <1>5, <1>6, Untold

LEMMA PublishStep ==
    ASSUME IInv, NEW r \in Reqs, Publish(r)
    PROVE  IInv'
<1> DEFINE k == task[r].key
<1>a. /\ pc[r] = "finished"
      /\ pc' = [pc EXCEPT ![r] = "returning"]
      /\ records' = [records EXCEPT ![k].result = outcome[r], ![k].done = TRUE]
      /\ UNCHANGED <<now, life, nonces, task, outcome, reply, runs, admitted>>
  BY DEF Publish
<1>b. /\ TypeOK /\ AdmissionInv /\ RecordInv /\ RunInv /\ ReplyInv /\ NonceInv
      /\ AtMostOneRun /\ SameAnswer /\ SuccessIsReal /\ NonceServesOneKey
  BY DEF IInv
<1> USE Fields, <1>b DEF Owns
<1>1. k \in Keys /\ records[k] # Nil /\ ~records[k].done
  BY <1>a DEF RecordInv
<1>2. outcome[r] \in Results
  BY <1>a DEF RecordInv
<1>3. records[k] \in Record
  BY <1>1 DEF TypeOK
<1>4. records'[k] = [fingerprint |-> records[k].fingerprint, result |-> outcome[r], done |-> TRUE]
  BY <1>a, <1>1, <1>3 DEF TypeOK, Record
<1>5. \A j \in Keys : j # k => records'[j] = records[j]
  BY <1>a DEF TypeOK
<1>6. records'[k] \in Record
  BY <1>2, <1>3, <1>4 DEF Record
<1>7. records'[k] # Nil
  BY <1>6, TaskAssumption
<1>8. TypeOK'
  <2>1. records' \in [Keys -> Record \cup {Nil}]
    BY <1>a, <1>6 DEF TypeOK
  <2>2. \A j \in Keys : records'[j] # Nil /\ records'[j].done => records'[j].result \in Results
    BY <1>2, <1>4, <1>5 DEF TypeOK
  <2> QED BY <1>a, <2>1, <2>2 DEF TypeOK, Stages
<1>10. \A q \in Reqs : q # r => pc'[q] = pc[q]
  BY <1>a DEF TypeOK
<1>11. pc'[r] = "returning"
  BY <1>a DEF TypeOK
<1>c. UNCHANGED <<now, life, nonces, task, outcome, reply, runs, admitted>>
  BY <1>a
<1>9. AdmissionInv'
  BY <1>a, <1>c, <1>10, <1>11 DEF AdmissionInv
<1>12. \A q \in Reqs : q # r /\ Owns(q) => task[q].key # k
  BY <1>a DEF RecordInv
<1>d. k = task[r].key
  OBVIOUS
<1> HIDE DEF k
<1> USE <1>c
<1>13. RecordInv'
  <2>1. \A q \in Reqs : (Owns(q)' <=> Owns(q)) /\ (pc'[q] = "waiting" <=> pc[q] = "waiting")
    BY <1>a, <1>10, <1>11
  <2>2. \A q \in Reqs : Owns(q) \/ pc[q] = "waiting" =>
          /\ records'[task[q].key] # Nil
          /\ records'[task[q].key].fingerprint = Fingerprint(task[q])
    BY <1>4, <1>5, <1>7, <1>d DEF RecordInv
  <2>3. \A q, s \in Reqs : Owns(q) /\ Owns(s) /\ task[q].key = task[s].key => q = s
    BY DEF RecordInv
  <2>4. \A q \in Reqs :
          pc'[q] \in {"running", "called", "finished"} => ~records'[task[q].key].done
    BY <1>5, <1>10, <1>11, <1>12 DEF RecordInv
  <2>5. \A q \in Reqs : pc'[q] \in {"finished", "returning"} => outcome[q] \in Results
    BY <1>2, <1>10 DEF RecordInv
  <2>6. \A q \in Reqs : pc'[q] = "returning" =>
          records'[task[q].key].done /\ records'[task[q].key].result = outcome[q]
    BY <1>4, <1>5, <1>10, <1>12, <1>d DEF RecordInv
  <2> QED BY <2>1, <2>2, <2>3, <2>4, <2>5, <2>6 DEF RecordInv, Fingerprint
<1>14. RunInv'
  <2>1. ASSUME NEW x \in runs
        PROVE  /\ \E a \in admitted : a.req = x.req /\ a.life = x.life
               /\ x.life = life =>
                   /\ records'[task[x.req].key] # Nil
                   /\ records'[task[x.req].key].fingerprint = Fingerprint(task[x.req])
                   /\ \A q \in Reqs : pc'[q] = "running" => task[q].key # task[x.req].key
    BY <1>4, <1>5, <1>7, <1>10, <1>11 DEF RunInv
  <2>2. \A q \in Reqs :
          pc'[q] = "called" \/ (pc'[q] \in {"finished", "returning"} /\ outcome[q] = "ok") =>
              [req |-> q, life |-> life] \in runs
    BY <1>a, <1>10, <1>11 DEF RunInv
  <2>3. ASSUME NEW j \in Keys,
               records'[j] # Nil, records'[j].done, records'[j].result = "ok"
        PROVE  \E x \in runs : /\ x.life = life
                               /\ Fingerprint(task[x.req]) = records'[j].fingerprint
    <3>1. CASE j # k
      BY <2>3, <3>1, <1>5 DEF RunInv
    <3>2. CASE j = k
      <4>1. [req |-> r, life |-> life] \in runs
        BY <1>a, <2>3, <3>2, <1>4 DEF RunInv
      <4>2. records[k].fingerprint = Fingerprint(task[r])
        BY <1>a, <1>d DEF RecordInv
      <4> QED BY <3>2, <4>1, <4>2, <1>4
    <3> QED BY <3>1, <3>2
  <2> QED BY <2>1, <2>2, <2>3 DEF RunInv, Fingerprint
<1>15. ReplyInv'
  BY <1>1, <1>5 DEF ReplyInv, Fingerprint
<1>16. NonceInv'
  BY DEF NonceInv
<1>17. AtMostOneRun'
  BY DEF AtMostOneRun
<1>18. SameAnswer'
  BY DEF SameAnswer
<1>19. SuccessIsReal'
  BY DEF SuccessIsReal
<1>20. NonceServesOneKey'
  BY DEF NonceServesOneKey
<1> QED BY <1>8, <1>9, <1>13, <1>14, <1>15, <1>16, <1>17, <1>18, <1>19, <1>20 DEF IInv

LEMMA ReturnStep ==
    ASSUME IInv, NEW r \in Reqs, Return(r)
    PROVE  IInv'
<1> USE Fields DEF IInv, Return, Answer, Owns, store
<1>1. /\ records[task[r].key].done
      /\ records[task[r].key].result = outcome[r]
      /\ outcome[r] \in Results
  BY DEF RecordInv
<1>2. TypeOK'
  BY <1>1 DEF TypeOK, Stages
<1>3. AdmissionInv'
  BY DEF TypeOK, AdmissionInv
<1>4. \A q \in Reqs : Owns(q)' \/ pc'[q] = "waiting" => pc'[q] = pc[q]
  BY DEF TypeOK
<1>5. RecordInv' /\ RunInv'
  BY <1>4, Kept
<1>6. NonceInv'
  BY DEF NonceInv
<1>7. NonceServesOneKey'
  BY DEF NonceServesOneKey
<1> QED BY <1>1, <1>2, <1>3, <1>5, <1>6, <1>7, Told

LEMMA WakeStep ==
    ASSUME IInv, NEW r \in Reqs, Wake(r)
    PROVE  IInv'
<1> USE Fields DEF IInv, Wake, Answer, Owns, store
<1>1. records[task[r].key].result \in Results
  BY DEF TypeOK, RecordInv
<1>2. TypeOK'
  BY <1>1 DEF TypeOK, Stages
<1>3. AdmissionInv'
  BY DEF TypeOK, AdmissionInv
<1>4. \A q \in Reqs : Owns(q)' \/ pc'[q] = "waiting" => pc'[q] = pc[q]
  BY DEF TypeOK
<1>5. RecordInv' /\ RunInv'
  BY <1>4, Kept
<1>6. NonceInv'
  BY DEF NonceInv
<1>7. NonceServesOneKey'
  BY DEF NonceServesOneKey
<1> QED BY <1>1, <1>2, <1>3, <1>5, <1>6, <1>7, Told

LEMMA CancelWaitStep ==
    ASSUME IInv, NEW r \in Reqs, CancelWait(r)
    PROVE  IInv'
<1> USE Fields DEF IInv, CancelWait, Answer, Owns, store
<1>1. \A q \in Reqs : reply'[q] \in Results => reply'[q] = reply[q]
  BY DEF TypeOK, Results
<1>2. TypeOK'
  BY DEF TypeOK, Stages, Refusals
<1>3. AdmissionInv'
  BY DEF TypeOK, AdmissionInv
<1>4. \A q \in Reqs : Owns(q)' \/ pc'[q] = "waiting" => pc'[q] = pc[q]
  BY DEF TypeOK
<1>5. RecordInv' /\ RunInv'
  BY <1>4, Kept
<1>6. NonceInv'
  BY DEF NonceInv
<1>7. NonceServesOneKey'
  BY DEF NonceServesOneKey
<1> QED BY <1>1, <1>2, <1>3, <1>4, <1>5, <1>6, <1>7, Untold

-----------------------------------------------------------------------------
LEMMA TickStep ==
    ASSUME IInv, Tick
    PROVE  IInv'
<1> USE Fields DEF IInv, Tick, store
<1>1. TypeOK'
  BY TaskAssumption DEF TypeOK
<1>2. AdmissionInv'
  BY DEF AdmissionInv, Owns
<1>3. RecordInv' /\ RunInv'
  BY Kept DEF Owns
<1>4. NonceInv'
  <2>1. \A a \in admitted : now' < task[a.req].expires => now < task[a.req].expires
    OBVIOUS
  <2> QED BY <2>1 DEF NonceInv
<1>5. NonceServesOneKey'
  BY DEF NonceServesOneKey
<1> QED BY <1>1, <1>2, <1>3, <1>4, <1>5, Untold

LEMMA RestartStep ==
    ASSUME IInv, Restart
    PROVE  IInv'
<1> USE Fields DEF IInv
<1>1. /\ life' = life + 1
      /\ \A r \in Reqs : pc'[r] \in {"idle", "done"}
      /\ \A r \in Reqs : pc[r] # "idle" => pc'[r] = "done"
      /\ \A r \in Reqs : reply'[r] \in Results => reply'[r] = reply[r]
      /\ \A r \in Reqs : reply'[r] # "none" /\ pc[r] = "idle" => reply[r] # "none"
      /\ \A k \in Keys : records'[k] = Nil
      /\ UNCHANGED <<now, task, runs, admitted>>
  BY DEF Restart, Results
<1>2. TypeOK'
  BY TaskAssumption DEF TypeOK, Restart, Stages, Refusals
<1>3. AdmissionInv'
  BY <1>1 DEF AdmissionInv, Owns
<1>4. RecordInv'
  BY <1>1 DEF RecordInv, Owns
<1>5. \A a \in admitted : a.life # life'
  BY <1>1 DEF AdmissionInv
<1>6. \A x \in runs : x.life # life'
  BY <1>1, <1>5 DEF RunInv
<1>7. RunInv'
  BY <1>1, <1>6 DEF RunInv
<1>8. ReplyInv'
  BY <1>1, <1>5 DEF ReplyInv
<1>9. NonceInv'
  BY <1>1, <1>5 DEF NonceInv
<1>10. AtMostOneRun'
  BY <1>1 DEF AtMostOneRun
<1>11. SameAnswer'
  BY <1>1 DEF SameAnswer
<1>12. SuccessIsReal'
  BY <1>1 DEF SuccessIsReal, Results
<1>13. NonceServesOneKey'
  BY <1>1 DEF NonceServesOneKey
<1> QED BY <1>2, <1>3, <1>4, <1>7, <1>8, <1>9, <1>10, <1>11, <1>12, <1>13

-----------------------------------------------------------------------------
(* What the prune and the binding do to the nonces.                           *)
LEMMA PrunedNonces ==
    ASSUME TypeOK
    PROVE  /\ Pruned \in [Nonces -> Nonce \cup {Nil}]
           /\ \A n \in Nonces : nonces[n] # Nil /\ now < nonces[n].expires => Pruned[n] = nonces[n]
           /\ \A n \in Nonces : Pruned[n] # Nil => Pruned[n] = nonces[n]
<1>1. \A n \in Nonces : nonces[n] # Nil => nonces[n].expires \in Nat
  BY DEF TypeOK, Nonce
<1> QED BY <1>1, Fields DEF TypeOK, Pruned

(* The entry of a valid nonce that somebody of this life was admitted with    *)
(* survives the prune.                                                        *)
LEMMA Survives ==
    ASSUME IInv, NEW a \in admitted, a.life = life, now < task[a.req].expires
    PROVE  Pruned[task[a.req].nonce] =
               [key |-> task[a.req].key, expires |-> task[a.req].expires]
<1>1. nonces[task[a.req].nonce] = [key |-> task[a.req].key, expires |-> task[a.req].expires]
  BY DEF IInv, NonceInv
<1>2. nonces[task[a.req].nonce] \in Nonce
  BY <1>1, Fields DEF IInv, Nonce
<1>3. nonces[task[a.req].nonce] # Nil
  BY <1>2, TaskAssumption
<1> QED BY <1>1, <1>3, Fields, PrunedNonces DEF IInv

LEMMA RefuseNonceStep ==
    ASSUME IInv, NEW r \in Reqs, Admit(r), RefuseNonce(r)
    PROVE  IInv'
<1> USE Fields DEF IInv
<1>1. /\ pc[r] = "admitting"
      /\ pc' = [pc EXCEPT ![r] = "done"]
      /\ reply' = [reply EXCEPT ![r] = "unauthenticated"]
      /\ nonces' = Pruned
      /\ UNCHANGED <<now, life, task, outcome, runs, records, admitted>>
  BY DEF Admit, RefuseNonce, Answer
<1>2. TypeOK'
  BY <1>1, PrunedNonces DEF TypeOK, Stages, Refusals
<1>3. AdmissionInv'
  BY <1>1 DEF TypeOK, AdmissionInv, Owns
<1>4. \A q \in Reqs : Owns(q)' \/ pc'[q] = "waiting" => pc'[q] = pc[q]
  BY <1>1 DEF TypeOK, Owns
<1>5. RecordInv' /\ RunInv'
  BY <1>1, <1>4, Kept
<1>6. \A q \in Reqs : reply'[q] \in Results => reply'[q] = reply[q]
  BY <1>1 DEF TypeOK, Results
<1>7. NonceInv'
  BY <1>1, Survives DEF NonceInv
<1>8. NonceServesOneKey'
  BY <1>1 DEF NonceServesOneKey
<1> QED BY <1>1, <1>2, <1>3, <1>5, <1>6, <1>7, <1>8, Untold

(* Accepting a nonce keeps the nonces, whatever the record then says.         *)
LEMMA AcceptNonce ==
    ASSUME IInv, NEW r \in Reqs, Accept(r), now' = now, life' = life, task' = task
    PROVE  /\ nonces' \in [Nonces -> Nonce \cup {Nil}]
           /\ NonceInv'
           /\ NonceServesOneKey'
<1> DEFINE n == task[r].nonce
           new == [key |-> task[r].key, expires |-> task[r].expires]
           entry == [req |-> r, life |-> life, at |-> now]
<1> USE Fields DEF IInv
<1>1. /\ ~NonceSpent(task[r])
      /\ nonces' = [Pruned EXCEPT ![n] = new]
      /\ admitted' = admitted \cup {entry}
  BY DEF Accept, Bound
<1>2. new \in Nonce
  BY DEF Nonce
<1>3. nonces' \in [Nonces -> Nonce \cup {Nil}]
  BY <1>1, <1>2, PrunedNonces
<1>4. nonces'[n] = new /\ \A m \in Nonces : m # n => nonces'[m] = Pruned[m]
  BY <1>1, PrunedNonces
<1>5. \A a \in admitted :
        a.life = life /\ now < task[a.req].expires /\ task[a.req].nonce = n =>
            task[a.req].key = task[r].key /\ task[a.req].expires = task[r].expires
  <2> SUFFICES ASSUME NEW a \in admitted, a.life = life, now < task[a.req].expires,
                      task[a.req].nonce = n
               PROVE  task[a.req].key = task[r].key /\ task[a.req].expires = task[r].expires
    OBVIOUS
  <2>1. Pruned[n] = [key |-> task[a.req].key, expires |-> task[a.req].expires]
    BY Survives
  <2>2. Pruned[n] \in Nonce
    BY <2>1 DEF Nonce
  <2>3. Pruned[n] # Nil
    BY <2>2, TaskAssumption
  <2>4. Pruned[n].key = task[r].key
    BY <1>1, <2>3 DEF NonceSpent
  <2>5. task[a.req] \in Tasks /\ task[r] \in Tasks
    BY DEF TypeOK
  <2> QED BY <2>1, <2>4, <2>5, NonceAssumption
<1>6. NonceInv'
  <2> SUFFICES ASSUME NEW a \in admitted', a.life = life, now < task[a.req].expires
               PROVE  nonces'[task[a.req].nonce] =
                          [key |-> task[a.req].key, expires |-> task[a.req].expires]
    BY DEF NonceInv
  <2>1. CASE a = entry
    BY <2>1, <1>4
  <2>2. CASE a \in admitted /\ task[a.req].nonce = n
    BY <2>2, <1>4, <1>5
  <2>3. CASE a \in admitted /\ task[a.req].nonce # n
    BY <2>3, <1>4, Survives
  <2> QED BY <2>1, <2>2, <2>3, <1>1
<1>7. NonceServesOneKey'
  <2> SUFFICES ASSUME NEW a \in admitted', NEW b \in admitted',
                      a.life = b.life,
                      task[a.req].nonce = task[b.req].nonce,
                      a.at < task[a.req].expires,
                      b.at < task[b.req].expires
               PROVE  task[a.req].key = task[b.req].key
    BY DEF NonceServesOneKey
  <2>1. task[r] \in Tasks /\ \A c \in admitted : task[c.req] \in Tasks
    BY DEF TypeOK
  <2>2. ASSUME NEW c \in admitted, c.life = life, task[c.req].nonce = n,
               now < task[r].expires
        PROVE  task[c.req].key = task[r].key
    <3>1. task[c.req].expires = task[r].expires
      BY <2>1, <2>2, NonceAssumption
    <3> QED BY <2>2, <3>1, <1>5
  <2>3. CASE a \in admitted /\ b \in admitted
    BY <2>3 DEF NonceServesOneKey
  <2>4. CASE a = entry /\ b \in admitted
    BY <2>2, <2>4
  <2>5. CASE a \in admitted /\ b = entry
    BY <2>2, <2>5
  <2> QED BY <2>3, <2>4, <2>5, <1>1
<1> QED BY <1>3, <1>6, <1>7

(* Admitting a goroutine once, from where it waits to be admitted.            *)
LEMMA AdmitOnce ==
    ASSUME IInv, NEW r \in Reqs, pc[r] = "admitting",
           life' = life, task' = task,
           admitted' = admitted \cup {[req |-> r, life |-> life, at |-> now]},
           pc'[r] \notin {"idle", "admitting"},
           reply'[r] # "none" => pc'[r] = "done",
           \A q \in Reqs : q # r => pc'[q] = pc[q] /\ reply'[q] = reply[q]
    PROVE  AdmissionInv'
<1> DEFINE entry == [req |-> r, life |-> life, at |-> now]
<1> USE Fields DEF IInv, Owns
<1>1. \A a \in admitted : a.req # r
  BY DEF AdmissionInv
<1>2. \A a \in admitted' :
        /\ pc'[a.req] \notin {"idle", "admitting"}
        /\ a.life <= life
        /\ a.life # life => pc'[a.req] = "done"
  BY <1>1 DEF AdmissionInv
<1>3. \A a, b \in admitted' : a.req = b.req => a = b
  BY <1>1 DEF AdmissionInv
<1>4. ASSUME NEW q \in Reqs, Owns(q)' \/ pc'[q] = "waiting"
      PROVE  \E a \in admitted' : a.req = q /\ a.life = life
  <2>1. CASE q = r
    <3>1. entry \in admitted' /\ entry.req = q /\ entry.life = life
      BY <2>1
    <3> QED BY <3>1
  <2>2. CASE q # r
    BY <1>4, <2>2 DEF AdmissionInv
  <2> QED BY <2>1, <2>2
<1>5. \A q \in Reqs : reply'[q] # "none" => pc'[q] = "done"
  BY DEF AdmissionInv
<1> QED BY <1>2, <1>3, <1>4, <1>5 DEF AdmissionInv

LEMMA ClaimStep ==
    ASSUME IInv, NEW r \in Reqs, Admit(r), Claim(r)
    PROVE  IInv'
<1> DEFINE k == task[r].key
           new == [fingerprint |-> Fingerprint(task[r]), result |-> "none", done |-> FALSE]
           entry == [req |-> r, life |-> life, at |-> now]
<1> USE Fields DEF IInv
<1>1. /\ pc[r] = "admitting"
      /\ records[k] = Nil
      /\ pc' = [pc EXCEPT ![r] = "running"]
      /\ records' = [records EXCEPT ![k] = new]
      /\ admitted' = admitted \cup {entry}
      /\ UNCHANGED <<now, life, task, outcome, reply, runs>>
  BY DEF Admit, Claim, Accept
<1>2. nonces' \in [Nonces -> Nonce \cup {Nil}] /\ NonceInv' /\ NonceServesOneKey'
  BY <1>1, AcceptNonce DEF Claim
<1>3. new \in Record
  BY DEF Record
<1>4. new # Nil
  BY <1>3, TaskAssumption
<1>5. records'[k] = new /\ \A j \in Keys : j # k => records'[j] = records[j]
  BY <1>1 DEF TypeOK
<1>6. pc'[r] = "running" /\ \A q \in Reqs : q # r => pc'[q] = pc[q]
  BY <1>1 DEF TypeOK
<1>8. \A q \in Reqs : Owns(q) \/ pc[q] = "waiting" => task[q].key # k
  BY <1>1 DEF RecordInv
<1>9. entry \in [req: Reqs, life: 0..MaxRestarts, at: 0..MaxTime]
  BY DEF TypeOK
<1>10. TypeOK'
  <2>1. pc' \in [Reqs -> Stages]
    BY <1>1 DEF TypeOK, Stages
  <2>2. records' \in [Keys -> Record \cup {Nil}]
    BY <1>1, <1>3 DEF TypeOK
  <2>3. \A j \in Keys : records'[j] # Nil /\ records'[j].done => records'[j].result \in Results
    BY <1>5 DEF TypeOK
  <2> QED BY <1>1, <1>2, <1>9, <2>1, <2>2, <2>3 DEF TypeOK
<1>15. reply[r] = "none"
  BY <1>1 DEF AdmissionInv
<1>11. AdmissionInv'
  BY <1>1, <1>6, <1>15, AdmitOnce
<1>12. RecordInv'
  BY <1>1, <1>4, <1>5, <1>6, <1>8 DEF RecordInv, Owns, Fingerprint
<1>13. RunInv'
  <2>1. \A x \in runs : x.life = life => task[x.req].key # k
    BY <1>1 DEF RunInv
  <2>2. ASSUME NEW x \in runs
        PROVE  /\ \E a \in admitted' : a.req = x.req /\ a.life = x.life
               /\ x.life = life =>
                   /\ records'[task[x.req].key] # Nil
                   /\ records'[task[x.req].key].fingerprint = Fingerprint(task[x.req])
                   /\ \A q \in Reqs : pc'[q] = "running" => task[q].key # task[x.req].key
    BY <1>1, <1>5, <1>6, <2>1 DEF RunInv
  <2>3. \A q \in Reqs :
          pc'[q] = "called" \/ (pc'[q] \in {"finished", "returning"} /\ outcome[q] = "ok") =>
              [req |-> q, life |-> life] \in runs
    BY <1>6 DEF RunInv
  <2>4. \A j \in Keys :
          records'[j] # Nil /\ records'[j].done /\ records'[j].result = "ok" =>
              \E x \in runs : /\ x.life = life
                              /\ Fingerprint(task[x.req]) = records'[j].fingerprint
    BY <1>5 DEF RunInv
  <2> QED BY <1>1, <2>2, <2>3, <2>4 DEF RunInv, Fingerprint
<1>14. ReplyInv'
  BY <1>1, <1>5 DEF ReplyInv, AdmissionInv, Fingerprint, Results
<1>16. AtMostOneRun' /\ SameAnswer' /\ SuccessIsReal'
  BY <1>1, <1>15 DEF AtMostOneRun, SameAnswer, SuccessIsReal, Results
<1> QED BY <1>2, <1>10, <1>11, <1>12, <1>13, <1>14, <1>16

LEMMA JoinStep ==
    ASSUME IInv, NEW r \in Reqs, Admit(r), Join(r)
    PROVE  IInv'
<1> DEFINE rec == records[task[r].key]
           entry == [req |-> r, life |-> life, at |-> now]
<1> USE Fields DEF IInv
<1>1. /\ pc[r] = "admitting"
      /\ rec # Nil
      /\ \/ /\ rec.fingerprint = Fingerprint(task[r])
            /\ pc' = [pc EXCEPT ![r] = "waiting"]
            /\ reply' = reply
         \/ /\ pc' = [pc EXCEPT ![r] = "done"]
            /\ reply' = [reply EXCEPT ![r] = "rejected"]
      /\ admitted' = admitted \cup {entry}
      /\ UNCHANGED <<now, life, task, outcome, records, runs>>
  BY DEF Admit, Join, Accept, Answer
<1>2. nonces' \in [Nonces -> Nonce \cup {Nil}] /\ NonceInv' /\ NonceServesOneKey'
  BY <1>1, AcceptNonce DEF Join
<1>3. /\ pc'[r] \in {"waiting", "done"}
      /\ reply'[r] \notin Results
      /\ reply'[r] # "none" => pc'[r] = "done"
      /\ \A q \in Reqs : q # r => pc'[q] = pc[q] /\ reply'[q] = reply[q]
  BY <1>1 DEF TypeOK, AdmissionInv, Results
<1>5. entry \in [req: Reqs, life: 0..MaxRestarts, at: 0..MaxTime]
  BY DEF TypeOK
<1>6. TypeOK'
  <2>1. pc' \in [Reqs -> Stages]
    BY <1>1 DEF TypeOK, Stages
  <2>2. reply' \in [Reqs -> Results \cup Refusals \cup {"none"}]
    BY <1>1 DEF TypeOK, Refusals
  <2> QED BY <1>1, <1>2, <1>5, <2>1, <2>2 DEF TypeOK
<1>7. AdmissionInv'
  BY <1>1, <1>3, AdmitOnce
<1>8. pc'[r] = "waiting" => rec.fingerprint = Fingerprint(task[r])
  BY <1>1 DEF TypeOK
<1>9. RecordInv'
  BY <1>1, <1>3, <1>8 DEF RecordInv, Owns, Fingerprint
<1>10. RunInv'
  BY <1>1, <1>3 DEF RunInv, Fingerprint
<1>11. ReplyInv'
  BY <1>1, <1>3 DEF ReplyInv, Fingerprint
<1>12. AtMostOneRun'
  BY <1>1 DEF AtMostOneRun
<1>13. SameAnswer'
  BY <1>1, <1>3 DEF SameAnswer
<1>14. SuccessIsReal'
  BY <1>1, <1>3 DEF SuccessIsReal, Results
<1> QED BY <1>2, <1>6, <1>7, <1>9, <1>10, <1>11, <1>12, <1>13, <1>14

-----------------------------------------------------------------------------
LEMMA Initially ==
    Init => IInv
<1> SUFFICES ASSUME Init PROVE IInv
  OBVIOUS
<1> USE DEF Init
<1>1. TypeOK
  BY TaskAssumption DEF TypeOK, Stages
<1>2. AdmissionInv /\ RecordInv /\ RunInv /\ ReplyInv /\ NonceInv
  BY DEF AdmissionInv, RecordInv, RunInv, ReplyInv, NonceInv, Owns
<1>3. AtMostOneRun /\ SameAnswer /\ SuccessIsReal /\ NonceServesOneKey
  BY DEF AtMostOneRun, SameAnswer, SuccessIsReal, NonceServesOneKey
<1> QED BY <1>1, <1>2, <1>3 DEF IInv

LEMMA Inductive ==
    IInv /\ [Next]_vars => IInv'
<1> SUFFICES ASSUME IInv, [Next]_vars PROVE IInv'
  OBVIOUS
<1>1. CASE Tick
  BY <1>1, TickStep
<1>2. CASE Restart
  BY <1>2, RestartStep
<1>3. ASSUME NEW r \in Reqs, Execute(r)
      PROVE  IInv'
  <2>1. CASE Receive(r)
    BY <2>1, ReceiveStep
  <2>2. CASE Admit(r)
    BY <2>2, RefuseNonceStep, ClaimStep, JoinStep DEF Admit
  <2>3. CASE CallDocker(r)
    BY <2>3, CallDockerStep
  <2>4. CASE \E res \in Results : ExecutorReturns(r, res)
    BY <2>4, ExecutorReturnsStep
  <2>5. CASE Publish(r)
    BY <2>5, PublishStep
  <2>6. CASE Return(r)
    BY <2>6, ReturnStep
  <2>7. CASE Wake(r)
    BY <2>7, WakeStep
  <2>8. CASE CancelWait(r)
    BY <2>8, CancelWaitStep
  <2> QED BY <1>3, <2>1, <2>2, <2>3, <2>4, <2>5, <2>6, <2>7, <2>8 DEF Execute
<1>4. CASE UNCHANGED vars
  <2> USE <1>4 DEF vars, IInv, Owns
  <2>1. TypeOK' /\ AdmissionInv' /\ NonceInv' /\ NonceServesOneKey'
    BY DEF TypeOK, AdmissionInv, NonceInv, NonceServesOneKey
  <2>2. RecordInv' /\ RunInv'
    BY Kept
  <2> QED BY <2>1, <2>2, Untold
<1> QED BY <1>1, <1>2, <1>3, <1>4 DEF Next

LEMMA Invariance == Spec => []IInv
  BY Initially, Inductive, PTL DEF Spec

(* The types of the service's state and of what its callers have been told.   *)
THEOREM TypeCorrect == Spec => []TypeOK
<1>1. IInv => TypeOK
  BY DEF IInv
<1> QED BY <1>1, Invariance, PTL

(* However many copies of a task are delivered, in whatever order and to      *)
(* however many goroutines, Docker sees its key at most once per life of the  *)
(* agent (action_service.go:80-108).                                          *)
THEOREM OneRunPerLife == Spec => []AtMostOneRun
<1>1. IInv => AtMostOneRun
  BY DEF IInv
<1> QED BY <1>1, Invariance, PTL

(* All results given for a key in one life of the agent agree                 *)
(* (action_service.go:98-104 and 122-128).                                    *)
THEOREM AnswersAgree == Spec => []SameAnswer
<1>1. IInv => SameAnswer
  BY DEF IInv
<1> QED BY <1>1, Invariance, PTL

(* An "ok" stands for a call to Docker with the caller's own content          *)
(* (action_service.go:92-96).                                                 *)
THEOREM OkMeansRun == Spec => []SuccessIsReal
<1>1. IInv => SuccessIsReal
  BY DEF IInv
<1> QED BY <1>1, Invariance, PTL

(* While it is valid, a nonce admits one key only (action_service.go:82-88).  *)
THEOREM NonceBinding == Spec => []NonceServesOneKey
<1>1. IInv => NonceServesOneKey
  BY DEF IInv
<1> QED BY <1>1, Invariance, PTL

-----------------------------------------------------------------------------
(* The action service keeps the promise of OneAnswer: the admitted of a key *)
(* wait for the one decision its owner publishes, and are told that.        *)

(* Who is done was told something.                                          *)
AnsweredInv == \A r \in Reqs : pc[r] = "done" => reply[r] # "none"

Both == IInv /\ AnsweredInv

-----------------------------------------------------------------------------
(* Everyone done was answered                                               *)

LEMMA AnswerAnswers ==
    ASSUME TypeOK, AnsweredInv, NEW r \in Reqs, NEW a, a # "none", Answer(r, a)
    PROVE  AnsweredInv'
  BY DEF TypeOK, AnsweredInv, Answer

LEMMA MoveAnswers ==
    ASSUME TypeOK, AnsweredInv, NEW r \in Reqs, NEW s, s # "done",
           pc' = [pc EXCEPT ![r] = s], reply' = reply
    PROVE  AnsweredInv'
  BY DEF TypeOK, AnsweredInv

LEMMA ExecuteAnswers ==
    ASSUME IInv, AnsweredInv, NEW r \in Reqs, Execute(r)
    PROVE  AnsweredInv'
<1>1. TypeOK /\ RecordInv
  BY DEF IInv
<1>2. CASE Receive(r)
  <2>1. CASE Refusal(task[r]) # "none"
    BY <1>1, <1>2, <2>1, AnswerAnswers DEF Receive
  <2>2. CASE Refusal(task[r]) = "none"
    BY <1>1, <1>2, <2>2, MoveAnswers DEF Receive
  <2> QED
    BY <2>1, <2>2
<1>3. CASE Admit(r)
  <2>1. CASE RefuseNonce(r)
    BY <1>1, <2>1, AnswerAnswers DEF RefuseNonce
  <2>2. CASE Claim(r)
    BY <1>1, <2>2, MoveAnswers DEF Claim
  <2>3. CASE Join(r)
    <3>1. CASE records[task[r].key].fingerprint = Fingerprint(task[r])
      BY <1>1, <2>3, <3>1, MoveAnswers DEF Join
    <3>2. CASE records[task[r].key].fingerprint # Fingerprint(task[r])
      BY <1>1, <2>3, <3>2, AnswerAnswers DEF Join
    <3> QED
      BY <3>1, <3>2
  <2> QED
    BY <1>3, <2>1, <2>2, <2>3 DEF Admit
<1>4. CASE CallDocker(r)
  BY <1>1, <1>4, MoveAnswers DEF CallDocker
<1>5. CASE \E res \in Results : ExecutorReturns(r, res)
  BY <1>1, <1>5, MoveAnswers DEF ExecutorReturns
<1>6. CASE Publish(r)
  BY <1>1, <1>6, MoveAnswers DEF Publish
<1>7. CASE Return(r)
  <2>1. outcome[r] # "none" /\ Answer(r, outcome[r])
    BY <1>1, <1>7 DEF Return, RecordInv, Results
  <2> QED
    BY <1>1, <2>1, AnswerAnswers
<1>8. CASE Wake(r)
  <2>1. task[r].key \in Keys
    BY <1>1, TaskAssumption DEF TypeOK, TaskType
  <2>2. records[task[r].key] # Nil
    BY <1>1, <1>8 DEF RecordInv, Wake
  <2>3. records[task[r].key].result \in Results
    BY <1>1, <1>8, <2>1, <2>2 DEF TypeOK, Wake
  <2>4. records[task[r].key].result # "none" /\ Answer(r, records[task[r].key].result)
    BY <1>8, <2>3 DEF Wake, Results
  <2> QED
    BY <1>1, <2>4, AnswerAnswers
<1>9. CASE CancelWait(r)
  BY <1>1, <1>9, AnswerAnswers DEF CancelWait
<1> QED
  BY <1>2, <1>3, <1>4, <1>5, <1>6, <1>7, <1>8, <1>9 DEF Execute

LEMMA BothInit == Init => Both
<1> SUFFICES ASSUME Init PROVE Both
  OBVIOUS
<1>1. AnsweredInv
  BY DEF Init, AnsweredInv
<1> QED
  BY <1>1, Initially DEF Both

LEMMA BothStep == Both /\ [Next]_vars => Both'
<1> SUFFICES ASSUME Both, [Next]_vars PROVE Both'
  OBVIOUS
<1>1. IInv /\ AnsweredInv /\ TypeOK
  BY DEF Both, IInv
<1>2. IInv'
  BY <1>1, Inductive
<1>3. CASE UNCHANGED vars
  BY <1>1, <1>2, <1>3 DEF Both, AnsweredInv, vars
<1>4. CASE Tick
  BY <1>1, <1>2, <1>4 DEF Both, AnsweredInv, Tick
<1>5. CASE Restart
  BY <1>1, <1>2, <1>5 DEF Both, AnsweredInv, Restart, TypeOK
<1>6. CASE \E r \in Reqs : Execute(r)
  BY <1>1, <1>2, <1>6, ExecuteAnswers DEF Both
<1> QED
  BY <1>3, <1>4, <1>5, <1>6 DEF Next

-----------------------------------------------------------------------------
(* Each step as one of the promise's, or as none                            *)

LEMMA Facts ==
    ASSUME TypeOK, NEW r \in Reqs
    PROVE  /\ task[r].key \in Keys /\ task[r].key # Nil
           /\ Asked[r] = IF pc[r] = "idle" THEN Nil ELSE task[r].key
<1>1. task[r] \in TaskType
  BY TaskAssumption DEF TypeOK
<1> QED
  BY <1>1, TaskAssumption DEF TaskType, Asked

(* What happens between a caller's arrival and its answer, and away from    *)
(* the records, the promise does not see.                                   *)
LEMMA Unseen ==
    ASSUME TypeOK, reply' = reply, task' = task, Decided' = Decided,
           \A q \in Reqs : pc[q] = "idle" <=> pc'[q] = "idle"
    PROVE  UNCHANGED Promise!vars
<1>1. Asked' = Asked
  BY DEF Asked
<1> QED
  BY <1>1 DEF Promise!vars

LEMMA SameRecords == records' = records => Decided' = Decided
  BY DEF Decided

(* Someone who had asked is told something.                                 *)
LEMMA Telling ==
    ASSUME TypeOK, AdmissionInv, NEW r \in Reqs, pc[r] \notin {"idle", "done"},
           NEW a, Answer(r, a), task' = task
    PROVE  Promise!Tell(r, a) /\ Asked' = Asked /\ Asked[r] = task[r].key /\ Asked[r] # Nil
<1>1. reply[r] = "none"
  BY DEF AdmissionInv
<1>2. \A q \in Reqs : pc[q] = "idle" <=> pc'[q] = "idle"
  BY DEF Answer, TypeOK
<1>3. Asked' = Asked
  BY <1>2 DEF Asked
<1> QED
  BY <1>1, <1>3, Facts DEF Promise!Tell, Answer

LEMMA Refusing ==
    ASSUME TypeOK, AdmissionInv, NEW r \in Reqs, pc[r] \notin {"idle", "done"},
           NEW a \in {"unauthenticated", "rejected", "cancelled"}, Answer(r, a),
           task' = task, Decided' = Decided
    PROVE  Promise!Next
<1>1. Promise!Refuse(r)
  BY Telling DEF Promise!Refuse
<1> QED
  BY <1>1 DEF Promise!Next

LEMMA Reporting ==
    ASSUME TypeOK, AdmissionInv, NEW r \in Reqs, pc[r] \notin {"idle", "done"},
           records[task[r].key] # Nil, records[task[r].key].done,
           Answer(r, records[task[r].key].result), task' = task, records' = records
    PROVE  Promise!Next
<1>1. PICK a : a = records[task[r].key].result
  OBVIOUS
<1>2. Decided' = Decided
  BY SameRecords
<1>3. Decided[task[r].key] = a
  BY <1>1, Facts DEF Decided
<1>4. a # "open"
  BY <1>1, Facts DEF TypeOK, Results
<1>5. Promise!Tell(r, a) /\ Asked' = Asked /\ Asked[r] = task[r].key /\ Asked[r] # Nil
  BY <1>1, Telling
<1>6. Promise!Report(r)
  BY <1>2, <1>3, <1>4, <1>5 DEF Promise!Report
<1> QED
  BY <1>6 DEF Promise!Next

LEMMA ReceiveMaps ==
    ASSUME TypeOK, AdmissionInv, NEW r \in Reqs, Receive(r)
    PROVE  Promise!Next
<1>1. PICK k \in Keys : k = task[r].key /\ k # Nil
  BY Facts
<1>2. pc[r] = "idle" /\ reply[r] = "none" /\ task' = task /\ Decided' = Decided
  BY SameRecords DEF Receive, AdmissionInv, store
<1>3. Asked[r] = Nil
  BY <1>2, Facts
<1>4. pc'[r] # "idle" /\ \A q \in Reqs : q # r => pc'[q] = pc[q]
  BY <1>2 DEF TypeOK, Receive, Answer
<1>5. Asked' = [Asked EXCEPT ![r] = k]
  BY <1>1, <1>2, <1>4 DEF Asked
<1>6. UNCHANGED reply \/ \E a \in {"unauthenticated", "rejected"} : Promise!Tell(r, a)
  BY <1>2 DEF Receive, Refusal, Answer, Promise!Tell
<1>7. Promise!Ask(r, k)
  BY <1>2, <1>3, <1>5, <1>6 DEF Promise!Ask
<1> QED
  BY <1>1, <1>7 DEF Promise!Next

LEMMA AdmitMaps ==
    ASSUME TypeOK, AdmissionInv, NEW r \in Reqs, Admit(r)
    PROVE  Promise!Next \/ UNCHANGED Promise!vars
<1>1. pc[r] = "admitting" /\ task' = task
  BY DEF Admit
<1>2. CASE RefuseNonce(r)
  BY <1>1, <1>2, SameRecords, Refusing DEF RefuseNonce
<1>3. CASE Claim(r)
  <2>1. task[r].key \in Keys
    BY Facts
  <2>2. \A k \in Keys : Decided'[k] = Decided[k]
    <3>1. SUFFICES ASSUME NEW k \in Keys PROVE Decided'[k] = Decided[k]
      OBVIOUS
    <3>2. CASE k = task[r].key
      <4>1. records[k] = Nil /\ (records'[k] # Nil => ~records'[k].done)
        BY <1>3, <2>1, <3>2 DEF Claim, TypeOK
      <4> QED
        BY <4>1 DEF Decided
    <3>3. CASE k # task[r].key
      BY <1>3, <2>1, <3>3 DEF Claim, TypeOK, Decided
    <3> QED
      BY <3>2, <3>3
  <2>3. Decided' = Decided
    BY <2>2 DEF Decided
  <2>4. reply' = reply /\ \A q \in Reqs : pc[q] = "idle" <=> pc'[q] = "idle"
    BY <1>1, <1>3 DEF Claim, TypeOK
  <2> QED
    BY <1>1, <2>3, <2>4, Unseen
<1>4. CASE Join(r)
  <2>1. Decided' = Decided
    BY <1>4, SameRecords DEF Join
  <2>2. CASE records[task[r].key].fingerprint = Fingerprint(task[r])
    <3>1. reply' = reply /\ \A q \in Reqs : pc[q] = "idle" <=> pc'[q] = "idle"
      BY <1>1, <1>4, <2>2 DEF Join, TypeOK
    <3> QED
      BY <1>1, <2>1, <3>1, Unseen
  <2>3. CASE records[task[r].key].fingerprint # Fingerprint(task[r])
    BY <1>1, <1>4, <2>1, <2>3, Refusing DEF Join
  <2> QED
    BY <2>2, <2>3
<1> QED
  BY <1>2, <1>3, <1>4 DEF Admit

LEMMA PublishMaps ==
    ASSUME TypeOK, RecordInv, NEW r \in Reqs, Publish(r)
    PROVE  Promise!Next
<1>1. PICK k \in Keys : k = task[r].key /\ k # Nil
  BY Facts
<1>2. /\ records[k] # Nil /\ ~records[k].done /\ outcome[r] \in Results
      /\ Asked[r] = k
  BY <1>1, Facts DEF RecordInv, Owns, Publish
<1>3. PICK res \in {"ok", "failed"} : res = outcome[r]
  BY <1>2 DEF Results
<1>4. records[k] \in Record
  BY <1>2 DEF TypeOK
<1>5. /\ records' = [records EXCEPT ![k] = [@ EXCEPT !.result = res, !.done = TRUE]]
      /\ reply' = reply /\ task' = task
      /\ \A q \in Reqs : pc[q] = "idle" <=> pc'[q] = "idle"
  BY <1>1, <1>3 DEF Publish, TypeOK
<1>6. records'[k].done /\ records'[k].result = res /\ records'[k] # Nil
  <2>1. records'[k] = [records[k] EXCEPT !.result = res, !.done = TRUE]
    BY <1>5 DEF TypeOK
  <2>2. records'[k] \in Record
    BY <1>3, <1>4, <2>1 DEF Record, Results
  <2> QED
    BY <1>4, <2>1, <2>2, TaskAssumption DEF Record
<1>7. \A j \in Keys : j # k => records'[j] = records[j]
  BY <1>5 DEF TypeOK
<1>8. Decided[k] = "open"
  BY <1>2 DEF Decided
<1>9. Decided' = [Decided EXCEPT ![k] = res]
  BY <1>6, <1>7 DEF Decided
<1>10. Asked' = Asked
  BY <1>5 DEF Asked
<1>11. Promise!Decide(k, res)
  BY <1>2, <1>5, <1>8, <1>9, <1>10 DEF Promise!Decide
<1> QED
  BY <1>11 DEF Promise!Next

LEMMA RestartMaps ==
    ASSUME TypeOK, AdmissionInv, AnsweredInv, Restart
    PROVE  Promise!Next
<1>1. Decided' = [k \in Keys |-> "open"]
  BY DEF Restart, Decided
<1>2. Asked' = Asked
  BY DEF Restart, Asked
<1>3. ASSUME NEW r \in Reqs
      PROVE  reply'[r] = IF Asked[r] # Nil /\ reply[r] = "none" THEN "lost" ELSE reply[r]
  <2>1. reply'[r] = IF pc[r] \in {"idle", "done"} THEN reply[r] ELSE "lost"
    BY DEF Restart
  <2>2. (Asked[r] # Nil) <=> (pc[r] # "idle")
    BY Facts
  <2>3. /\ pc[r] = "done" => reply[r] # "none"
        /\ pc[r] # "done" => reply[r] = "none"
    BY DEF AdmissionInv, AnsweredInv
  <2> QED
    BY <2>1, <2>2, <2>3
<1>4. reply' = [r \in Reqs |-> IF Asked[r] # Nil /\ reply[r] = "none"
                               THEN "lost" ELSE reply[r]]
  BY <1>3 DEF Restart
<1>5. Promise!Forget
  BY <1>1, <1>2, <1>4 DEF Promise!Forget
<1> QED
  BY <1>5 DEF Promise!Next

LEMMA StepMaps == Both /\ [Next]_vars => [Promise!Next]_Promise!vars
<1> SUFFICES ASSUME Both, [Next]_vars PROVE Promise!Next \/ UNCHANGED Promise!vars
  OBVIOUS
<1>1. TypeOK /\ AdmissionInv /\ RecordInv /\ AnsweredInv
  BY DEF Both, IInv
<1>2. CASE UNCHANGED vars
  BY <1>1, <1>2, SameRecords, Unseen DEF vars
<1>3. CASE Tick
  BY <1>1, <1>3, SameRecords, Unseen DEF Tick, store
<1>4. CASE Restart
  BY <1>1, <1>4, RestartMaps
<1>5. ASSUME NEW r \in Reqs, Execute(r)
      PROVE  Promise!Next \/ UNCHANGED Promise!vars
  <2>1. CASE Receive(r)
    BY <1>1, <2>1, ReceiveMaps
  <2>2. CASE Admit(r)
    BY <1>1, <2>2, AdmitMaps
  <2>3. CASE CallDocker(r) \/ \E res \in Results : ExecutorReturns(r, res)
    <3>1. records' = records /\ reply' = reply /\ task' = task
          /\ \A q \in Reqs : pc[q] = "idle" <=> pc'[q] = "idle"
      BY <1>1, <2>3 DEF CallDocker, ExecutorReturns, store, TypeOK
    <3> QED
      BY <1>1, <3>1, SameRecords, Unseen
  <2>4. CASE Publish(r)
    BY <1>1, <2>4, PublishMaps
  <2>5. CASE Return(r) \/ Wake(r)
    <3>1. /\ pc[r] \in {"returning", "waiting"} /\ records[task[r].key] # Nil
          /\ records[task[r].key].done /\ Answer(r, records[task[r].key].result)
          /\ task' = task /\ records' = records
      BY <1>1, <2>5 DEF Return, Wake, RecordInv, Owns, store
    <3> QED
      BY <1>1, <3>1, Reporting
  <2>6. CASE CancelWait(r)
    BY <1>1, <2>6, SameRecords, Refusing DEF CancelWait, store
  <2> QED
    BY <1>5, <2>1, <2>2, <2>3, <2>4, <2>5, <2>6 DEF Execute
<1> QED
  BY <1>2, <1>3, <1>4, <1>5 DEF Next

LEMMA InitMaps == Init => Promise!Init
<1> SUFFICES ASSUME Init PROVE Promise!Init
  OBVIOUS
<1>1. Asked = [r \in Reqs |-> Nil]
  BY DEF Init, Asked
<1>2. Decided = [k \in Keys |-> "open"]
  BY DEF Init, Decided
<1> QED
  BY <1>1, <1>2 DEF Promise!Init, Init

(* The service implements OneAnswer: whatever copies arrive, are cancelled  *)
(* or outlive a restart, each key gets one decision and its callers that    *)
(* one (ActionService.Execute).                                             *)
THEOREM PromiseIsKept == Spec => PromiseKept
<1>1. Spec => []Both
  BY BothInit, BothStep, PTL DEF Spec
<1> QED
  BY <1>1, InitMaps, StepMaps, PTL DEF Spec, PromiseKept, Promise!Spec
=============================================================================
