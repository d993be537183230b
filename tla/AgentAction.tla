---------------------------- MODULE AgentAction ----------------------------
(***************************************************************************)
(* The agent's action service (agent/internal/application).  A signed task *)
(* arrives over HTTP or over the gRPC stream, every arrival is a goroutine *)
(* of its own, and ActionService.Execute decides whether the task reaches  *)
(* Docker, waits for an identical task that already does, or is refused.   *)
(* Everything the service remembers is in memory: a restart of the agent   *)
(* forgets it, the effects on Docker stay.                                 *)
(***************************************************************************)
EXTENDS Naturals, FiniteSets

CONSTANTS
    Reqs,        \* goroutines: one per delivery of a task
    Tasks,       \* the tasks that may be delivered, see TaskType
    Deliveries,  \* which goroutine may carry which task: functions of Reqs to Tasks
    Keys,        \* idempotency keys
    Nonces,      \* nonces
    Bodies,      \* hash, arguments: what a fingerprint covers beside action and target
    Mode,        \* "observe_only" or "approval_only": the agent's real-asset mode
    MaxTime,     \* bound of the clock
    MaxRestarts, \* bound of the agent's restarts
    Nil          \* no entry in a map

Actions == {"health_check", "restart_container"}
Targets == {"lab", "devops-lab", "elsewhere"}

(* A task as it comes off the wire.  signed: the HMAC covers exactly these *)
(* fields; hashed: the approved hash is 64 lower-case hex digits.          *)
TaskType == [key: Keys, nonce: Nonces, expires: Nat, body: Bodies,
             action: Actions, target: Targets, signed: BOOLEAN, hashed: BOOLEAN]

(* Mutant: the approved hash and the arguments are left out.                *)
LooseFingerprint(t) == [key |-> t.key, action |-> t.action, target |-> t.target]

(* taskFingerprint: the id, the expiry, the nonce and the signature are     *)
(* replaced by constants, everything else counts.                           *)
Fingerprint(t) == [key |-> t.key, body |-> t.body, action |-> t.action, target |-> t.target]
Fingerprints == [key: Keys, body: Bodies, action: Actions, target: Targets]

Results == {"ok", "failed"}
Refusals == {"unauthenticated", "rejected", "cancelled", "lost"}
Stages == {"idle", "admitting", "waiting", "running", "called", "finished",
           "returning", "done"}

(* nonceRecord and executionRecord; a record without `done` has no result.  *)
Nonce == [key: Keys, expires: Nat]
Record == [fingerprint: Fingerprints, result: Results \cup {"none"}, done: BOOLEAN]

ASSUME TaskAssumption ==
    /\ Tasks \subseteq TaskType
    /\ Deliveries \subseteq [Reqs -> Tasks]
    /\ Mode \in {"observe_only", "approval_only"}
    /\ MaxTime \in Nat
    /\ MaxRestarts \in Nat
    /\ Nil \notin Keys \cup Nonce \cup Record

(* A signer draws a fresh nonce and the expiry in one go, so two deliveries *)
(* of one nonce carry one expiry.                                           *)
ASSUME NonceAssumption ==
    \A s, t \in Tasks : s.nonce = t.nonce => s.expires = t.expires

VARIABLES
    now,       \* the agent's clock
    life,      \* how often the agent has restarted
    nonces,    \* ActionService.nonces
    records,   \* ActionService.records
    pc,        \* where each goroutine stands in Execute
    task,      \* the task each goroutine carries, fixed when it is sent
    outcome,   \* the goroutine's local `result`
    reply,     \* what its caller was told
    runs,      \* history: <<life, goroutine>> of every call that reached Docker
    admitted   \* history: goroutine, life and time of every nonce accepted

vars == <<now, life, nonces, records, pc, task, outcome, reply, runs, admitted>>
store == <<nonces, records>>

Init ==
    /\ now = 0
    /\ life = 0
    /\ nonces = [n \in Nonces |-> Nil]
    /\ records = [k \in Keys |-> Nil]
    /\ pc = [r \in Reqs |-> "idle"]
    /\ task \in Deliveries
    /\ outcome = [r \in Reqs |-> "none"]
    /\ reply = [r \in Reqs |-> "none"]
    /\ runs = {}
    /\ admitted = {}

-----------------------------------------------------------------------------
(* The checks of Execute before the lock is taken.                          *)

(* realReadOnlyActionAllowed and isLabTarget                                *)
InScope(t) ==
    \/ t.target = "lab"
    \/ /\ Mode = "approval_only"
       /\ t.target = "devops-lab"
       /\ t.action = "health_check"

Expired(t) == t.expires <= now

Answer(r, a) ==
    /\ pc' = [pc EXCEPT ![r] = "done"]
    /\ reply' = [reply EXCEPT ![r] = a]

Refusal(t) ==
    IF ~t.signed THEN "unauthenticated"
    ELSE IF ~t.hashed \/ Expired(t) \/ ~InScope(t) THEN "rejected"
    ELSE "none"

Receive(r) ==
    /\ pc[r] = "idle"
    /\ IF Refusal(task[r]) # "none"
       THEN Answer(r, Refusal(task[r]))
       ELSE pc' = [pc EXCEPT ![r] = "admitting"] /\ UNCHANGED reply
    /\ UNCHANGED <<now, life, store, task, outcome, runs, admitted>>

-----------------------------------------------------------------------------
(* The critical section: prune, bind the nonce, find or create the record.  *)

(* Mutant: nonces are pruned one tick before they expire.                   *)
PrunedEarly ==
    [n \in Nonces |->
        IF nonces[n] # Nil /\ nonces[n].expires <= now + 1 THEN Nil ELSE nonces[n]]

(* pruneExpiredNoncesLocked: the clock is read again, under the lock        *)
Pruned ==
    [n \in Nonces |->
        IF nonces[n] # Nil /\ nonces[n].expires <= now THEN Nil ELSE nonces[n]]

NonceSpent(t) == Pruned[t.nonce] # Nil /\ Pruned[t.nonce].key # t.key

Bound(t) == [Pruned EXCEPT ![t.nonce] = [key |-> t.key, expires |-> t.expires]]

RefuseNonce(r) ==
    /\ NonceSpent(task[r])
    /\ nonces' = Pruned
    /\ Answer(r, "unauthenticated")
    /\ UNCHANGED <<records, admitted>>

Accept(r) ==
    /\ ~NonceSpent(task[r])
    /\ nonces' = Bound(task[r])
    /\ admitted' = admitted \cup {[req |-> r, life |-> life, at |-> now]}

(* Mutant: only a finished record counts as existing.                       *)
ClaimUnfinished(r) ==
    LET k == task[r].key IN
    /\ Accept(r)
    /\ records[k] # Nil => ~records[k].done
    /\ records' = [records EXCEPT ![k] =
                     [fingerprint |-> Fingerprint(task[r]), result |-> "none", done |-> FALSE]]
    /\ pc' = [pc EXCEPT ![r] = "running"]
    /\ UNCHANGED reply

(* Mutant: a failed record does not count, so that a retry executes again.  *)
ClaimFailed(r) ==
    LET k == task[r].key IN
    /\ Accept(r)
    /\ records[k] # Nil => records[k].result = "failed"
    /\ records' = [records EXCEPT ![k] =
                     [fingerprint |-> Fingerprint(task[r]), result |-> "none", done |-> FALSE]]
    /\ pc' = [pc EXCEPT ![r] = "running"]
    /\ UNCHANGED reply

Claim(r) ==
    LET k == task[r].key IN
    /\ Accept(r)
    /\ records[k] = Nil
    /\ records' = [records EXCEPT ![k] =
                     [fingerprint |-> Fingerprint(task[r]), result |-> "none", done |-> FALSE]]
    /\ pc' = [pc EXCEPT ![r] = "running"]
    /\ UNCHANGED reply

Join(r) ==
    LET rec == records[task[r].key] IN
    /\ Accept(r)
    /\ rec # Nil
    /\ IF rec.fingerprint = Fingerprint(task[r])
       THEN pc' = [pc EXCEPT ![r] = "waiting"] /\ UNCHANGED reply
       ELSE Answer(r, "rejected")
    /\ UNCHANGED records

Admit(r) ==
    /\ pc[r] = "admitting"
    /\ RefuseNonce(r) \/ Claim(r) \/ Join(r)
    /\ UNCHANGED <<now, life, task, outcome, runs>>

-----------------------------------------------------------------------------
(* The executor, outside the lock.  The call may fail before it reaches the *)
(* daemon (unregistered target, bad argument, dial error, cancelled         *)
(* context) and it may fail after the daemon has acted on it (30 s client   *)
(* timeout, cancelled context, status, unreadable answer).                  *)

CallDocker(r) ==
    /\ pc[r] = "running"
    /\ pc' = [pc EXCEPT ![r] = "called"]
    /\ runs' = runs \cup {[req |-> r, life |-> life]}
    /\ UNCHANGED <<now, life, store, task, outcome, reply, admitted>>

ExecutorReturns(r, res) ==
    /\ pc[r] \in {"running", "called"}
    /\ res = "ok" => pc[r] = "called"
    /\ pc' = [pc EXCEPT ![r] = "finished"]
    /\ outcome' = [outcome EXCEPT ![r] = res]
    /\ UNCHANGED <<now, life, store, task, reply, runs, admitted>>

(* Mutant: the result is written and done is never closed.                  *)
PublishSilently(r) ==
    /\ pc[r] = "finished"
    /\ records' = [records EXCEPT ![task[r].key].result = outcome[r]]
    /\ pc' = [pc EXCEPT ![r] = "returning"]
    /\ UNCHANGED <<now, life, nonces, task, outcome, reply, runs, admitted>>

(* Lock, write the result, close(done), unlock.                             *)
Publish(r) ==
    LET k == task[r].key IN
    /\ pc[r] = "finished"
    /\ records' = [records EXCEPT ![k].result = outcome[r], ![k].done = TRUE]
    /\ pc' = [pc EXCEPT ![r] = "returning"]
    /\ UNCHANGED <<now, life, nonces, task, outcome, reply, runs, admitted>>

Return(r) ==
    /\ pc[r] = "returning"
    /\ Answer(r, outcome[r])
    /\ UNCHANGED <<now, life, store, task, outcome, runs, admitted>>

(* Mutant: a duplicate does not wait and reads the zero result.             *)
WakeEarly(r) ==
    /\ pc[r] = "waiting"
    /\ Answer(r, IF records[task[r].key].done
                 THEN records[task[r].key].result ELSE "failed")
    /\ UNCHANGED <<now, life, store, task, outcome, runs, admitted>>

(* The two branches of the select of a duplicate.                           *)
Wake(r) ==
    /\ pc[r] = "waiting"
    /\ records[task[r].key].done
    /\ Answer(r, records[task[r].key].result)
    /\ UNCHANGED <<now, life, store, task, outcome, runs, admitted>>

CancelWait(r) ==
    /\ pc[r] = "waiting"
    /\ Answer(r, "cancelled")
    /\ UNCHANGED <<now, life, store, task, outcome, runs, admitted>>

-----------------------------------------------------------------------------
Tick ==
    /\ now < MaxTime
    /\ now' = now + 1
    /\ UNCHANGED <<life, store, pc, task, outcome, reply, runs, admitted>>

(* The process dies and starts again: both maps are empty, and whoever was  *)
(* inside Execute loses the connection.                                     *)
Restart ==
    /\ life < MaxRestarts
    /\ life' = life + 1
    /\ nonces' = [n \in Nonces |-> Nil]
    /\ records' = [k \in Keys |-> Nil]
    /\ pc' = [r \in Reqs |-> IF pc[r] = "idle" THEN "idle" ELSE "done"]
    /\ reply' = [r \in Reqs |-> IF pc[r] \in {"idle", "done"} THEN reply[r] ELSE "lost"]
    /\ outcome' = [r \in Reqs |-> "none"]
    /\ UNCHANGED <<now, task, runs, admitted>>

Execute(r) ==
    \/ Receive(r)
    \/ Admit(r)
    \/ CallDocker(r)
    \/ \E res \in Results : ExecutorReturns(r, res)
    \/ Publish(r)
    \/ Return(r)
    \/ Wake(r)
    \/ CancelWait(r)

Next == Tick \/ Restart \/ \E r \in Reqs : Execute(r)

Spec == Init /\ [][Next]_vars

(* A goroutine that can run is run; the executor returns because the Docker *)
(* client's timeout is 30 s.  Nothing obliges a task to arrive, a caller to *)
(* give up, or the agent to restart.                                        *)
Progress(r) ==
    \/ Admit(r)
    \/ \E res \in Results : ExecutorReturns(r, res)
    \/ Publish(r)
    \/ Return(r)
    \/ Wake(r)

FairSpec == Spec /\ \A r \in Reqs : WF_vars(Progress(r))

-----------------------------------------------------------------------------
(* Types. *)
TypeOK ==
    /\ now \in 0..MaxTime
    /\ life \in 0..MaxRestarts
    /\ nonces \in [Nonces -> Nonce \cup {Nil}]
    /\ records \in [Keys -> Record \cup {Nil}]
    /\ \A k \in Keys : records[k] # Nil /\ records[k].done => records[k].result \in Results
    /\ pc \in [Reqs -> Stages]
    /\ task \in [Reqs -> Tasks]
    /\ outcome \in [Reqs -> Results \cup {"none"}]
    /\ reply \in [Reqs -> Results \cup Refusals \cup {"none"}]
    /\ runs \subseteq [req: Reqs, life: 0..MaxRestarts]
    /\ admitted \subseteq [req: Reqs, life: 0..MaxRestarts, at: 0..MaxTime]

(* Between two restarts of the agent, at most one delivery of an idempotency  *)
(* key reaches Docker, however many copies run concurrently (the promise of   *)
(* the lock comment at action_service.go:80).                                 *)
AtMostOneRun ==
    \A x, y \in runs :
        x.life = y.life /\ task[x.req].key = task[y.req].key => x = y

(* All the deliveries of a key that are answered with a result between two    *)
(* restarts are answered with the same one: a duplicate never sees a result   *)
(* that is not yet final (action_service.go:98).                              *)
SameAnswer ==
    \A a, b \in admitted :
        /\ a.life = b.life
        /\ task[a.req].key = task[b.req].key
        /\ {reply[a.req], reply[b.req]} \subseteq Results
        => reply[a.req] = reply[b.req]

(* Whoever is told "ok" asked for exactly an action that Docker was asked to  *)
(* perform in the same life of the agent: joining another goroutine's record  *)
(* never answers for a different action, target or approved content.          *)
SuccessIsReal ==
    \A a \in admitted :
        reply[a.req] = "ok" =>
            \E x \in runs :
                /\ x.life = a.life
                /\ task[x.req].key = task[a.req].key
                /\ task[x.req].body = task[a.req].body
                /\ task[x.req].action = task[a.req].action
                /\ task[x.req].target = task[a.req].target

(* A nonce serves one idempotency key for as long as it is valid.  Execute    *)
(* looks at the expiry before it takes the lock and prunes by a later reading *)
(* of the clock, so a task that expires between the two may take a nonce that *)
(* another key had; only then.                                                *)
NonceServesOneKey ==
    \A a, b \in admitted :
        /\ a.life = b.life
        /\ task[a.req].nonce = task[b.req].nonce
        /\ a.at < task[a.req].expires
        /\ b.at < task[b.req].expires
        => task[a.req].key = task[b.req].key

(* Once past the checks, every delivery ends: the goroutine that executes,    *)
(* the duplicates that wait for it and those that are refused.                *)
EveryoneAnswered == \A r \in Reqs : pc[r] = "admitting" ~> pc[r] = "done"

-----------------------------------------------------------------------------
(* What the service promises, as OneAnswer states it: whoever came has asked, *)
(* and a key is decided when its record is done.                              *)
Asked == [r \in Reqs |-> IF pc[r] = "idle" THEN Nil ELSE task[r].key]
Decided == [k \in Keys |-> IF records[k] # Nil /\ records[k].done
                           THEN records[k].result ELSE "open"]

Promise == INSTANCE OneAnswer WITH asks <- Asked, decided <- Decided, told <- reply

PromiseKept == Promise!Spec
=============================================================================
