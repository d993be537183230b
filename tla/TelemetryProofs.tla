--------------------------- MODULE TelemetryProofs ---------------------------
(***************************************************************************)
(* Theorems about what the agent sends (Telemetry) and, at the end, about  *)
(* what it measures (Collectors), each of its own specification.           *)
(*                                                                         *)
(* Of Telemetry, for any number of batches, streams, restarts and          *)
(* failures: batches are accepted in order, the agent moves on only past   *)
(* what was accepted, and metrics do not go back.                          *)
(*                                                                         *)
(* The argument looks at what may still be accepted or was: the batches in *)
(* front of a handler that runs, and the accepted ones, each with the      *)
(* instance it is counted for (Sent).  No step but Send adds to them, and  *)
(* Send adds one that was collected after all of them under the highest    *)
(* number of its instance.                                                 *)
(***************************************************************************)
EXTENDS Telemetry, Collectors, SequenceTheorems, TLAPS

(* The instance a stream is counted for: the handler knows it after the     *)
(* hello, which is the first frame of a stream until then.                  *)
InstOf(s) == IF node[s] # 0 THEN node[s] ELSE up[s][1].inst

IsBatch(s, n) == n \in DOMAIN up[s] /\ up[s][n].kind = "telemetry"

Item == [inst: Instances, seq: Shots, shot: Shots]

(* Batch n of stream s, as it will be counted.                              *)
ItemOf(s, n) == [inst |-> InstOf(s), seq |-> up[s][n].seq, shot |-> up[s][n].shot]

Sent == {b \in Item :
    \/ \E s \in serving : \E n \in DOMAIN up[s] : IsBatch(s, n) /\ b = ItemOf(s, n)
    \/ \E a \in accepted : a.inst = b.inst /\ a.seq = b.seq /\ a.shot = b.shot}

Accepted(i, n) == \E a \in accepted : a.inst = i /\ a.seq = n

(* A hello comes first and once; the current stream is the current          *)
(* instance's; streams not made yet are empty.                              *)
StreamInv ==
    /\ \A s \in serving :
         /\ node[s] = 0 => up[s] # <<>> /\ up[s][1].kind = "hello"
         /\ \A n \in DOMAIN up[s] : n > 1 \/ node[s] # 0 => up[s][n].kind = "telemetry"
         /\ s <= streams
         /\ InstOf(s) <= inst
    /\ stream <= streams
    /\ phase # "offline" => stream \in Streams
    /\ phase # "offline" /\ stream \in serving => InstOf(stream) = inst
    /\ \A s \in Streams : s > streams => down[s] = <<>> /\ node[s] = 0

(* A batch was collected, its number is one the agent has reached, and the  *)
(* agent reached it because all smaller ones were accepted.                 *)
SentInv ==
    \A b \in Sent :
        /\ b.seq <= b.shot
        /\ b.shot <= shots
        /\ b.inst <= inst
        /\ b.inst = inst => b.seq <= seq
        /\ \A n \in 1..(b.seq - 1) : Accepted(b.inst, n)

(* Of one instance, a higher number is a later snapshot.                    *)
OrderInv == \A b, c \in Sent : b.inst = c.inst /\ b.seq < c.seq => b.shot < c.shot

(* The control plane's last number is the highest it accepted in this life. *)
LastInv ==
    /\ \A a \in accepted : a.life <= life
    /\ \A a \in accepted : a.life = life => a.seq <= sequences[a.inst]
    /\ \A i \in Instances : sequences[i] # 0 => Accepted(i, sequences[i])

(* What the agent may read as an acknowledgement was accepted.              *)
AckInv ==
    phase # "offline" =>
        \A n \in DOMAIN down[stream] : Accepted(inst, down[stream][n])

MetricsInv ==
    metrics.inst # 0 =>
        \E a \in accepted : a.life = life /\ a.inst = metrics.inst /\ a.shot = metrics.shot

IInv ==
    /\ TypeOK
    /\ seq <= shots + 1
    /\ StreamInv
    /\ SentInv
    /\ OrderInv
    /\ LastInv
    /\ AckInv
    /\ MetricsInv
    /\ AcceptedInOrder
    /\ AdvanceIsEarned

-----------------------------------------------------------------------------
(* Sequences                                                                *)

LEMMA TailFacts ==
    ASSUME NEW S, NEW q \in Seq(S), q # <<>>
    PROVE  /\ 1 \in DOMAIN q /\ Head(q) = q[1] /\ Head(q) \in S
           /\ Tail(q) \in Seq(S)
           /\ \A n \in DOMAIN Tail(q) : n + 1 \in DOMAIN q /\ n + 1 > 1 /\ Tail(q)[n] = q[n + 1]
  OBVIOUS

LEMMA AppendFacts ==
    ASSUME NEW S, NEW q \in Seq(S), NEW e \in S
    PROVE  /\ Append(q, e) \in Seq(S)
           /\ Append(q, e) # <<>>
           /\ DOMAIN q \subseteq DOMAIN Append(q, e)
           /\ \A n \in DOMAIN Append(q, e) :
                n > 0 /\ (n \in DOMAIN q \/ n = Len(q) + 1)
           /\ \A n \in DOMAIN q : Append(q, e)[n] = q[n]
           /\ Append(q, e)[Len(q) + 1] = e
           /\ Len(q) + 1 > 0
  OBVIOUS

-----------------------------------------------------------------------------
(* What becomes of the batches sent                                         *)

(* A step that moves no frame and accepts none adds nothing.                *)
LEMMA Unmoved ==
    ASSUME up' = up, node' = node, accepted' = accepted, serving' \subseteq serving
    PROVE  Sent' \subseteq Sent
  BY DEF Sent, IsBatch, ItemOf, InstOf

(* A handler that takes a batch leaves the others as they were.             *)
LEMMA BatchTaken ==
    ASSUME TypeOK, StreamInv, NEW s \in Streams, Take(s, "telemetry"),
           serving' \subseteq serving, node' = node,
           NEW t \in serving', NEW n \in DOMAIN up'[t], IsBatch(t, n)'
    PROVE  \E m \in DOMAIN up[t] : IsBatch(t, m) /\ ItemOf(t, n)' = ItemOf(t, m)
<1>1. t \in Streams /\ t \in serving
  BY DEF TypeOK
<1>2. up \in [Streams -> Seq(Hello \cup Batch)]
  BY DEF TypeOK
<1>3. CASE t # s
  <2>1. up'[t] = up[t]
    BY <1>1, <1>2, <1>3 DEF Take
  <2> QED
    BY <2>1 DEF IsBatch, ItemOf, InstOf
<1>4. CASE t = s
  <2>1. up[s] # <<>> /\ up'[s] = Tail(up[s]) /\ Head(up[s]).kind = "telemetry"
    BY <1>2 DEF Take, Frame
  <2>2. node[s] # 0
    BY <1>1, <1>2, <1>4, <2>1, TailFacts DEF StreamInv
  <2>3. n + 1 \in DOMAIN up[s] /\ up'[s][n] = up[s][n + 1]
    BY <1>2, <1>4, <2>1, TailFacts
  <2> QED
    BY <1>4, <2>2, <2>3 DEF IsBatch, ItemOf, InstOf
<1> QED
  BY <1>3, <1>4

(* The batch a handler takes is counted for the node it serves.             *)
LEMMA TakenFrame ==
    ASSUME TypeOK, StreamInv, NEW s \in Streams, Take(s, "telemetry")
    PROVE  /\ node[s] \in Instances
           /\ Frame(s) \in Batch
           /\ [inst |-> node[s], seq |-> Frame(s).seq, shot |-> Frame(s).shot] \in Sent
<1>1. up[s] \in Seq(Hello \cup Batch) /\ up[s] # <<>> /\ Frame(s).kind = "telemetry" /\ s \in serving
  BY DEF TypeOK, Take
<1>2. 1 \in DOMAIN up[s] /\ Frame(s) = up[s][1] /\ Frame(s) \in Hello \cup Batch
  BY <1>1, TailFacts DEF Frame
<1>3. Frame(s) \in Batch
  BY <1>1, <1>2 DEF Hello
<1>4. node[s] # 0 /\ node[s] \in 0..MaxAgents
  BY <1>1, <1>2 DEF StreamInv, TypeOK
<1>5. node[s] \in Instances
  BY <1>4, TelemetryAssumption DEF Instances
<1>6. [inst |-> node[s], seq |-> Frame(s).seq, shot |-> Frame(s).shot] \in Item
  BY <1>3, <1>5 DEF Item, Batch
<1>7. IsBatch(s, 1) /\ ItemOf(s, 1) = [inst |-> node[s], seq |-> Frame(s).seq, shot |-> Frame(s).shot]
  BY <1>1, <1>2, <1>4 DEF IsBatch, ItemOf, InstOf
<1> QED
  BY <1>1, <1>2, <1>3, <1>5, <1>6, <1>7 DEF Sent

(* Whatever is sent and accepted more, the facts about the batches sent     *)
(* before stay: the agent's instance and numbers only grow.                 *)
LEMMA SentKept ==
    ASSUME IInv, Sent' \subseteq Sent, accepted \subseteq accepted',
           shots' = shots, inst' \in Instances, seq' \in 1..(MaxShots + 1),
           inst' > inst \/ (inst' = inst /\ seq' >= seq)
    PROVE  SentInv' /\ OrderInv'
<1>1. inst \in Nat /\ inst' \in Nat /\ seq \in Nat /\ seq' \in Nat /\ shots \in Nat
  BY DEF IInv, TypeOK, Instances
<1>2. OrderInv'
  BY DEF IInv, OrderInv
<1>3. SUFFICES ASSUME NEW b \in Sent'
               PROVE  /\ b.seq <= b.shot
                      /\ b.shot <= shots'
                      /\ b.inst <= inst'
                      /\ b.inst = inst' => b.seq <= seq'
                      /\ \A n \in 1..(b.seq - 1) : Accepted(b.inst, n)'
  BY <1>2 DEF SentInv
<1>4. b \in Sent /\ b.inst \in Nat /\ b.seq \in Nat /\ b.shot \in Nat
  BY DEF Sent, Item, Instances, Shots
<1>5. /\ b.seq <= b.shot /\ b.shot <= shots /\ b.inst <= inst
      /\ b.inst = inst => b.seq <= seq
      /\ \A n \in 1..(b.seq - 1) : Accepted(b.inst, n)
  BY <1>4 DEF IInv, SentInv
<1>6. \A n \in 1..(b.seq - 1) : Accepted(b.inst, n)'
  BY <1>5 DEF Accepted
<1> QED
  BY <1>1, <1>4, <1>5, <1>6

LEMMA AcceptedType ==
    ASSUME TypeOK, NEW a \in accepted
    PROVE  /\ a.life \in Lives /\ a.life \in Nat /\ a.inst \in Instances
           /\ a.seq \in Shots /\ a.shot \in Shots /\ a.seq \in Nat /\ a.shot \in Nat
<1>1. a \in [life: Lives, inst: Instances, seq: Shots, shot: Shots]
  BY DEF TypeOK
<1>2. a.life \in Lives /\ a.inst \in Instances /\ a.seq \in Shots /\ a.shot \in Shots
  BY <1>1
<1> QED
  BY <1>2 DEF Lives, Shots

(* An accepted batch was sent.                                              *)
LEMMA AcceptedSent ==
    ASSUME TypeOK, NEW a \in accepted
    PROVE  [inst |-> a.inst, seq |-> a.seq, shot |-> a.shot] \in Sent
<1>1. a.inst \in Instances /\ a.seq \in Shots /\ a.shot \in Shots
  BY DEF TypeOK
<1>2. [inst |-> a.inst, seq |-> a.seq, shot |-> a.shot] \in Item
  BY <1>1 DEF Item
<1> QED
  BY <1>2 DEF Sent

(* What is accepted under a number had all smaller ones accepted before.    *)
LEMMA Below ==
    ASSUME IInv, NEW i, NEW m, Accepted(i, m)
    PROVE  /\ m \in Shots /\ m <= shots
           /\ \A n \in 1..m : Accepted(i, n)
<1>1. PICK a \in accepted : a.inst = i /\ a.seq = m
  BY DEF Accepted
<1>2. a.seq \in Shots /\ a.inst \in Instances /\ a.shot \in Shots
  BY DEF IInv, TypeOK
<1> DEFINE b == [inst |-> i, seq |-> m, shot |-> a.shot]
<1>3. b \in Sent
  BY <1>1, AcceptedSent DEF IInv
<1>4. /\ b.seq <= b.shot /\ b.shot <= shots
      /\ \A n \in 1..(b.seq - 1) : Accepted(b.inst, n)
  BY <1>3 DEF IInv, SentInv
<1>5. shots \in Nat /\ m \in Nat
  BY <1>1, <1>2 DEF IInv, TypeOK, Shots
<1>6. \A n \in 1..m : n = m \/ n \in 1..(m - 1)
  BY <1>5
<1> QED
  BY <1>1, <1>2, <1>4, <1>5, <1>6 DEF Shots

-----------------------------------------------------------------------------
(* The invariant holds at first, and every action keeps it                  *)

LEMMA Initial == Init => IInv
<1> SUFFICES ASSUME Init PROVE IInv
  OBVIOUS
<1> USE TelemetryAssumption
<1>1. TypeOK
  BY DEF Init, TypeOK, Instances, Lives, Shots, Streams
<1>2. Sent = {}
  BY DEF Init, Sent
<1>3. StreamInv
  BY DEF Init, StreamInv, Streams
<1>4. LastInv
  BY DEF Init, LastInv
<1>5. SentInv /\ OrderInv /\ AckInv /\ MetricsInv /\ AcceptedInOrder /\ AdvanceIsEarned
  BY <1>2 DEF Init, SentInv, OrderInv, AckInv, MetricsInv, AcceptedInOrder, AdvanceIsEarned
<1> QED
  BY <1>1, <1>3, <1>4, <1>5 DEF Init, IInv

(* The control plane's memory and history did not change.                   *)
LEMMA ServerKept ==
    ASSUME IInv, UNCHANGED <<life, memory, accepted>>
    PROVE  LastInv' /\ MetricsInv' /\ AcceptedInOrder'
  BY DEF IInv, LastInv, MetricsInv, AcceptedInOrder, memory, Accepted

(* The agent neither moved on nor restarted.                                *)
LEMMA AdvanceKept ==
    ASSUME IInv, inst' = inst, seq' = seq, accepted \subseteq accepted'
    PROVE  AdvanceIsEarned'
  BY DEF IInv, AdvanceIsEarned

(* A stream that is served belongs to an instance.                          *)
LEMMA InstType ==
    ASSUME TypeOK, StreamInv, NEW s \in serving
    PROVE  InstOf(s) \in Instances
<1>1. s \in Streams /\ node[s] \in 0..MaxAgents /\ up[s] \in Seq(Hello \cup Batch)
  BY DEF TypeOK
<1>2. CASE node[s] # 0
  BY <1>1, <1>2, TelemetryAssumption DEF InstOf, Instances
<1>3. CASE node[s] = 0
  <2>1. up[s] # <<>> /\ up[s][1].kind = "hello"
    BY <1>3 DEF StreamInv
  <2>2. up[s][1] \in Hello \cup Batch
    BY <1>1, <2>1, TailFacts
  <2>3. up[s][1] \in Hello
    BY <2>1, <2>2 DEF Batch
  <2> QED
    BY <1>3, <2>3 DEF InstOf, Hello
<1> QED
  BY <1>2, <1>3

LEMMA ConnectKeeps == IInv /\ Connect => IInv'
<1> SUFFICES ASSUME IInv, Connect PROVE IInv'
  OBVIOUS
<1> DEFINE hello == [kind |-> "hello", inst |-> inst]
<1>1. TypeOK
  BY DEF IInv
<1> PICK new \in Streams : new = streams + 1
  BY <1>1, TelemetryAssumption DEF Connect, TypeOK, Streams
<1>2. streams \in 0..MaxStreams /\ streams' = new /\ stream' = new /\ new > streams
  BY <1>1, TelemetryAssumption DEF Connect, TypeOK, Streams
<1>3. hello \in Hello
  BY <1>1 DEF TypeOK, Hello
<1>4. /\ up' = [up EXCEPT ![new] = <<hello>>]
      /\ up'[new] = <<hello>>
      /\ \A s \in Streams : s # new => up'[s] = up[s]
  BY <1>1, <1>2 DEF Connect, TypeOK
<1>5. <<hello>> \in Seq(Hello \cup Batch) /\ DOMAIN <<hello>> = {1} /\ <<hello>>[1] = hello
  BY <1>3
<1>6. TypeOK'
  <2>1. up' \in [Streams -> Seq(Hello \cup Batch)]
    BY <1>1, <1>2, <1>4, <1>5 DEF TypeOK
  <2>2. serving' \subseteq Streams /\ stream' \in 0..MaxStreams /\ streams' \in 0..MaxStreams
    BY <1>1, <1>2, TelemetryAssumption DEF Connect, TypeOK, Streams
  <2> QED
    BY <1>1, <2>1, <2>2 DEF Connect, TypeOK, memory, tables
<1>7. node[new] = 0 /\ down[new] = <<>> /\ node' = node /\ down' = down
  BY <1>1, <1>2 DEF IInv, StreamInv, Connect, TypeOK, Streams
<1>8. InstOf(new)' = inst /\ \A s \in serving : s # new => InstOf(s)' = InstOf(s)
  BY <1>1, <1>4, <1>5, <1>7 DEF InstOf, TypeOK
<1>9. StreamInv'
  <2>1. \A s \in serving' :
           /\ node'[s] = 0 => up'[s] # <<>> /\ up'[s][1].kind = "hello"
           /\ \A n \in DOMAIN up'[s] : n > 1 \/ node'[s] # 0 => up'[s][n].kind = "telemetry"
           /\ s <= streams'
           /\ InstOf(s)' <= inst'
    <3> SUFFICES ASSUME NEW s \in serving'
                 PROVE  /\ node'[s] = 0 => up'[s] # <<>> /\ up'[s][1].kind = "hello"
                        /\ \A n \in DOMAIN up'[s] :
                              n > 1 \/ node'[s] # 0 => up'[s][n].kind = "telemetry"
                        /\ s <= streams'
                        /\ InstOf(s)' <= inst'
      OBVIOUS
    <3>1. CASE s = new
      BY <3>1, <1>1, <1>2, <1>4, <1>5, <1>7, <1>8 DEF Connect, TypeOK, Instances
    <3>2. CASE s # new
      <4>1. s \in serving /\ s \in Streams
        BY <3>2, <1>1, <1>2 DEF Connect, TypeOK
      <4>2. s <= streams /\ s <= streams'
        BY <4>1, <1>1, <1>2 DEF IInv, StreamInv, TypeOK, Streams
      <4> QED
        BY <3>2, <4>1, <4>2, <1>4, <1>7, <1>8 DEF IInv, StreamInv, Connect
    <3> QED
      BY <3>1, <3>2
  <2>2. \A s \in Streams : s > streams' => down'[s] = <<>> /\ node'[s] = 0
    BY <1>1, <1>2, <1>7 DEF IInv, StreamInv, Streams
  <2>3. stream' <= streams' /\ stream' \in Streams /\ InstOf(stream)' = inst'
    <3>1. InstOf(stream)' = InstOf(new)'
      BY <1>2, <1>7, <1>4 DEF InstOf
    <3> QED
      BY <3>1, <1>1, <1>2, <1>8 DEF Connect, TypeOK
  <2> QED
    BY <2>1, <2>2, <2>3 DEF StreamInv
<1>10. Sent' \subseteq Sent
  <2> SUFFICES ASSUME NEW b \in Item, NEW s \in serving', NEW n \in DOMAIN up'[s],
                      IsBatch(s, n)', b = ItemOf(s, n)'
               PROVE  b \in Sent
    BY DEF Sent, Connect
  <2>1. s # new
    BY <1>4, <1>5 DEF IsBatch
  <2>2. s \in serving /\ s \in Streams
    BY <2>1, <1>1, <1>2 DEF Connect, TypeOK
  <2>3. up'[s] = up[s] /\ InstOf(s)' = InstOf(s)
    BY <2>1, <2>2, <1>4, <1>8
  <2>4. IsBatch(s, n) /\ b = ItemOf(s, n)
    BY <2>3 DEF IsBatch, ItemOf
  <2> QED
    BY <2>2, <2>4 DEF Sent, IsBatch
<1>11. SentInv' /\ OrderInv'
  BY <1>1, <1>6, <1>10, SentKept DEF Connect, TypeOK
<1>12. LastInv' /\ MetricsInv' /\ AcceptedInOrder'
  BY ServerKept DEF Connect
<1>13. AdvanceIsEarned'
  BY AdvanceKept DEF Connect
<1>14. AckInv'
  <2>1. DOMAIN down'[stream'] = {}
    BY <1>2, <1>7
  <2> QED
    BY <2>1 DEF AckInv
<1> QED
  BY <1>6, <1>9, <1>11, <1>12, <1>13, <1>14 DEF IInv, Connect

(* The new batch is the latest of its instance, under its highest number.   *)
LEMMA SendKeeps == IInv /\ Send => IInv'
<1> SUFFICES ASSUME IInv, Send PROVE IInv'
  OBVIOUS
<1> DEFINE f == [kind |-> "telemetry", seq |-> seq, shot |-> shots + 1]
           e == [inst |-> inst, seq |-> seq, shot |-> shots + 1]
<1>1. TypeOK
  BY DEF IInv
<1>2. /\ stream \in Streams
      /\ inst \in Instances /\ inst \in Nat
      /\ seq \in Nat \ {0} /\ shots \in Nat /\ seq <= shots + 1
      /\ shots + 1 \in Shots /\ seq \in Shots
      /\ shots' = shots + 1
  BY <1>1, TelemetryAssumption DEF Send, IInv, StreamInv, TypeOK, Shots, Instances
<1>3. f \in Hello \cup Batch
  BY <1>2 DEF Batch
<1>4. /\ up' \in [Streams -> Seq(Hello \cup Batch)]
      /\ up'[stream] = Append(up[stream], f)
      /\ \A s \in Streams : s # stream => up'[s] = up[s]
  <2>1. up[stream] \in Seq(Hello \cup Batch) /\ Append(up[stream], f) \in Seq(Hello \cup Batch)
    BY <1>1, <1>2, <1>3, AppendFacts DEF TypeOK
  <2>2. up' = [up EXCEPT ![stream] = Append(up[stream], f)]
    BY <1>2 DEF Send
  <2> QED
    BY <2>1, <2>2, <1>1, <1>2 DEF TypeOK
<1> HIDE DEF f
<1>5. TypeOK'
  <2>1. shots' \in 0..MaxShots
    BY <1>2, TelemetryAssumption DEF Shots
  <2> QED
    BY <1>1, <1>4, <2>1 DEF Send, TypeOK, memory, tables
(* A frame of the stream is an old one or the new one.                      *)
<1>6. /\ up'[stream] # <<>>
      /\ \A n \in DOMAIN up'[stream] : n > 0 /\ (n \in DOMAIN up[stream] \/ n = Len(up[stream]) + 1)
      /\ \A n \in DOMAIN up[stream] : n \in DOMAIN up'[stream] /\ up'[stream][n] = up[stream][n]
      /\ up'[stream][Len(up[stream]) + 1] = f
  <2>1. up[stream] \in Seq(Hello \cup Batch)
    BY <1>1, <1>2 DEF TypeOK
  <2> QED
    BY <2>1, <1>3, <1>4, AppendFacts
<1>7. stream \in serving /\ node[stream] = 0 => up'[stream][1] = up[stream][1]
  <2>1. SUFFICES ASSUME stream \in serving, node[stream] = 0 PROVE 1 \in DOMAIN up[stream]
    BY <1>6
  <2>2. up[stream] # <<>> /\ up[stream] \in Seq(Hello \cup Batch)
    BY <2>1, <1>1, <1>2 DEF IInv, StreamInv, TypeOK
  <2> QED
    BY <2>2
<1>8. \A s \in serving : InstOf(s)' = InstOf(s)
  BY <1>1, <1>4, <1>7 DEF InstOf, Send, TypeOK
<1>9. stream \in serving => InstOf(stream) = inst
  BY DEF IInv, StreamInv, Send
<1>10. StreamInv'
  <2>1. \A s \in serving :
           /\ node[s] = 0 => up'[s] # <<>> /\ up'[s][1].kind = "hello"
           /\ \A n \in DOMAIN up'[s] : n > 1 \/ node[s] # 0 => up'[s][n].kind = "telemetry"
    <3> SUFFICES ASSUME NEW s \in serving
                 PROVE  /\ node[s] = 0 => up'[s] # <<>> /\ up'[s][1].kind = "hello"
                        /\ \A n \in DOMAIN up'[s] :
                              n > 1 \/ node[s] # 0 => up'[s][n].kind = "telemetry"
      OBVIOUS
    <3>1. CASE s # stream
      <4>1. up'[s] = up[s]
        BY <3>1, <1>1, <1>4 DEF TypeOK
      <4> QED
        BY <4>1 DEF IInv, StreamInv
    <3>2. CASE s = stream
      <4>1. f.kind = "telemetry"
        BY DEF f
      <4>2. node[s] = 0 => up'[s] # <<>> /\ up'[s][1].kind = "hello"
        BY <3>2, <1>6, <1>7 DEF IInv, StreamInv
      <4>3. ASSUME NEW n \in DOMAIN up'[s], n > 1 \/ node[s] # 0
            PROVE  up'[s][n].kind = "telemetry"
        <5>1. CASE n \in DOMAIN up[s]
          BY <5>1, <4>3, <3>2, <1>6 DEF IInv, StreamInv
        <5>2. CASE n = Len(up[s]) + 1
          BY <5>2, <3>2, <1>6, <4>1
        <5> QED
          BY <5>1, <5>2, <3>2, <1>6
      <4> QED
        BY <4>2, <4>3
    <3> QED
      BY <3>1, <3>2
  <2>2. \A s \in serving : s <= streams /\ InstOf(s)' <= inst
    BY <1>8 DEF IInv, StreamInv
  <2>3. /\ stream <= streams /\ stream \in Streams
        /\ stream \in serving => InstOf(stream)' = inst
    <3>1. stream' = stream
      BY DEF Send
    <3> QED
      BY <1>2, <1>8, <1>9, <3>1 DEF IInv, StreamInv, InstOf
  <2>4. \A s \in Streams : s > streams => down[s] = <<>> /\ node[s] = 0
    BY DEF IInv, StreamInv
  <2> QED
    BY <2>1, <2>2, <2>3, <2>4 DEF StreamInv, Send, InstOf
<1>11. Sent' \subseteq Sent \cup {e}
  <2> SUFFICES ASSUME NEW b \in Item, NEW s \in serving, NEW n \in DOMAIN up'[s],
                      IsBatch(s, n)', b = ItemOf(s, n)'
               PROVE  b \in Sent \cup {e}
    BY DEF Sent, Send
  <2>1. CASE s = stream /\ n = Len(up[stream]) + 1
    <3>1. ItemOf(s, n)' = [inst |-> InstOf(s)', seq |-> up'[s][n].seq, shot |-> up'[s][n].shot]
      BY DEF ItemOf
    <3>2. up'[s][n].seq = seq /\ up'[s][n].shot = shots + 1
      BY <2>1, <1>6 DEF f
    <3> QED
      BY <2>1, <3>1, <3>2, <1>8, <1>9
  <2>2. CASE ~(s = stream /\ n = Len(up[stream]) + 1)
    <3>1. n \in DOMAIN up[s] /\ up'[s][n] = up[s][n]
      BY <2>2, <1>1, <1>4, <1>6 DEF TypeOK
    <3>2. IsBatch(s, n) /\ b = ItemOf(s, n)
      BY <3>1, <1>8 DEF IsBatch, ItemOf
    <3> QED
      BY <3>2 DEF Sent, IsBatch
  <2> QED
    BY <2>1, <2>2
<1>12. \A b \in Sent : /\ b.seq \in Nat /\ b.shot \in Nat /\ b.inst \in Nat
                       /\ b.seq <= b.shot /\ b.shot <= shots /\ b.inst <= inst
                       /\ b.inst = inst => b.seq <= seq
  BY DEF IInv, SentInv, Sent, Item, Instances, Shots
<1>13. OrderInv'
  <2> SUFFICES ASSUME NEW b \in Sent \cup {e}, NEW c \in Sent \cup {e},
                      b.inst = c.inst, b.seq < c.seq
               PROVE  b.shot < c.shot
    BY <1>11 DEF OrderInv
  <2>1. CASE b \in Sent /\ c \in Sent
    BY <2>1 DEF IInv, OrderInv
  <2>2. CASE b \in Sent /\ c = e
    BY <2>2, <1>2, <1>12
  <2>3. CASE b = e /\ c \in Sent
    BY <2>3, <1>2, <1>12
  <2>4. CASE b = e /\ c = e
    BY <2>4, <1>2
  <2> QED
    BY <2>1, <2>2, <2>3, <2>4
<1>14. SentInv'
  <2> SUFFICES ASSUME NEW b \in Sent \cup {e}
               PROVE  /\ b.seq <= b.shot /\ b.shot <= shots' /\ b.inst <= inst
                      /\ b.inst = inst => b.seq <= seq
                      /\ \A n \in 1..(b.seq - 1) : Accepted(b.inst, n)
    BY <1>11 DEF SentInv, Send, Accepted
  <2>1. CASE b \in Sent
    BY <2>1, <1>2, <1>12 DEF IInv, SentInv
  <2>2. CASE b = e
    <3>1. \A n \in 1..(seq - 1) : Accepted(inst, n)
      BY DEF IInv, AdvanceIsEarned, Accepted
    <3> QED
      BY <2>2, <3>1, <1>2
  <2> QED
    BY <2>1, <2>2
<1>15. LastInv' /\ MetricsInv' /\ AcceptedInOrder'
  BY ServerKept DEF Send
<1>16. AdvanceIsEarned'
  BY AdvanceKept DEF Send
<1>17. AckInv'
  BY DEF IInv, AckInv, Send, Accepted
<1>18. (seq <= shots + 1)'
  BY <1>2 DEF Send
<1> QED
  BY <1>5, <1>10, <1>13, <1>14, <1>15, <1>16, <1>17, <1>18 DEF IInv

(* An acknowledgement read was of an accepted batch, and with it all        *)
(* smaller numbers were accepted.                                           *)
LEMMA ReceiveAckKeeps == IInv /\ ReceiveAck => IInv'
<1> SUFFICES ASSUME IInv, ReceiveAck PROVE IInv'
  OBVIOUS
<1>1. TypeOK
  BY DEF IInv
<1>2. stream \in Streams /\ down[stream] \in Seq(Shots) /\ down[stream] # <<>>
  BY <1>1 DEF ReceiveAck, IInv, StreamInv, TypeOK
<1>3. /\ 1 \in DOMAIN down[stream] /\ Head(down[stream]) = down[stream][1]
      /\ Tail(down[stream]) \in Seq(Shots)
      /\ \A n \in DOMAIN Tail(down[stream]) :
            n + 1 \in DOMAIN down[stream] /\ Tail(down[stream])[n] = down[stream][n + 1]
  BY <1>2, TailFacts
<1> PICK m \in Shots : m = Head(down[stream])
  BY <1>2, TailFacts
<1>4. Accepted(inst, m)
  BY <1>3 DEF IInv, AckInv, ReceiveAck
<1>5. m <= shots /\ \A n \in 1..m : Accepted(inst, n)
  BY <1>4, Below
<1>6. seq' = IF m >= seq THEN m + 1 ELSE seq
  BY DEF ReceiveAck
<1>7. seq' \in 1..(MaxShots + 1) /\ seq' >= seq /\ seq' <= shots + 1
  <2>1. /\ m \in 1..MaxShots /\ MaxShots \in Nat /\ shots \in 0..MaxShots
        /\ seq \in 1..(MaxShots + 1) /\ seq <= shots + 1
    BY <1>1, TelemetryAssumption DEF TypeOK, Shots, IInv
  <2> QED
    BY <2>1, <1>5, <1>6
<1>8. down' = [down EXCEPT ![stream] = Tail(down[stream])] /\ down'[stream] = Tail(down[stream])
  BY <1>1, <1>2 DEF ReceiveAck, TypeOK
<1>9. TypeOK'
  BY <1>1, <1>3, <1>7, <1>8 DEF ReceiveAck, TypeOK, memory, tables
<1>10. StreamInv'
  <2>1. \A s \in Streams : s > streams => down'[s] = <<>> /\ node[s] = 0
    BY <1>1, <1>2, <1>8, TelemetryAssumption DEF IInv, StreamInv, TypeOK, Streams
  <2>2. UNCHANGED <<up, node, serving, stream, streams, inst>> /\ phase # "offline"
    BY DEF ReceiveAck
  <2>3. InstOf(stream)' = InstOf(stream) /\ \A s \in serving : InstOf(s)' = InstOf(s)
    BY <2>2 DEF InstOf
  <2> QED
    BY <2>1, <2>2, <2>3, <1>2 DEF IInv, StreamInv
<1>11. Sent' \subseteq Sent
  BY Unmoved DEF ReceiveAck
<1>12. SentInv' /\ OrderInv'
  BY <1>1, <1>7, <1>11, SentKept DEF ReceiveAck, TypeOK
<1>13. LastInv' /\ MetricsInv' /\ AcceptedInOrder'
  BY ServerKept DEF ReceiveAck
<1>14. AdvanceIsEarned'
  <2>1. \A n \in 1..(seq' - 1) : Accepted(inst, n)
    <3>1. CASE m >= seq
      BY <3>1, <1>5, <1>6 DEF Shots
    <3>2. CASE ~(m >= seq)
      BY <3>2, <1>6 DEF IInv, AdvanceIsEarned, Accepted
    <3> QED
      BY <3>1, <3>2
  <2> QED
    BY <2>1 DEF AdvanceIsEarned, Accepted, ReceiveAck
<1>15. AckInv'
  BY <1>3, <1>8 DEF IInv, AckInv, ReceiveAck, Accepted
<1> QED
  BY <1>7, <1>9, <1>10, <1>12, <1>13, <1>14, <1>15 DEF IInv, ReceiveAck

(* The agent goes offline, the control plane notices nothing.               *)
LEMMA OfflineKeeps ==
    ASSUME IInv, phase' = "offline", inst' = inst, seq' = seq, faults' \in 0..MaxFaults,
           UNCHANGED <<shots, stream, streams, network, serving, node, life, memory, tables,
                       accepted>>
    PROVE  IInv'
<1>1. TypeOK /\ TypeOK'
  BY DEF IInv, TypeOK, network, memory, tables
<1>2. StreamInv'
  BY DEF IInv, StreamInv, network, InstOf
<1>3. Sent' \subseteq Sent
  BY Unmoved DEF network
<1>4. SentInv' /\ OrderInv'
  BY <1>1, <1>3, SentKept DEF TypeOK
<1>5. LastInv' /\ MetricsInv' /\ AcceptedInOrder'
  BY ServerKept
<1>6. AdvanceIsEarned' /\ AckInv'
  BY AdvanceKept DEF AckInv
<1> QED
  BY <1>1, <1>2, <1>4, <1>5, <1>6 DEF IInv

LEMMA AgentRestartKeeps == IInv /\ AgentRestart => IInv'
<1> SUFFICES ASSUME IInv, AgentRestart PROVE IInv'
  OBVIOUS
<1>1. TypeOK /\ inst \in Nat /\ inst' = inst + 1 /\ inst' \in Instances /\ seq' = 1
  BY TelemetryAssumption DEF IInv, TypeOK, AgentRestart, Instances
<1>2. TypeOK'
  BY <1>1, TelemetryAssumption DEF TypeOK, AgentRestart, network, memory, tables
<1>3. StreamInv'
  <2>1. \A s \in serving : InstOf(s) \in Nat
    BY <1>1, InstType DEF IInv, Instances
  <2>2. UNCHANGED <<up, down, node, serving, stream, streams>> /\ phase' = "offline"
    BY DEF AgentRestart, network
  <2>3. \A s \in serving : InstOf(s)' = InstOf(s)
    BY <2>2 DEF InstOf
  <2>4. \A s \in serving : InstOf(s)' <= inst'
    BY <1>1, <2>1, <2>3 DEF IInv, StreamInv
  <2> QED
    BY <2>2, <2>4 DEF IInv, StreamInv
<1>4. Sent' \subseteq Sent
  BY Unmoved DEF network, AgentRestart
<1>5. SentInv' /\ OrderInv'
  <2>1. /\ inst' > inst \/ (inst' = inst /\ seq' >= seq)
        /\ seq' \in 1..(MaxShots + 1) /\ shots' = shots /\ accepted \subseteq accepted'
        /\ inst' \in Instances
    BY <1>1, <1>2 DEF AgentRestart, TypeOK
  <2> QED
    BY <1>4, <2>1, SentKept
<1>6. LastInv' /\ MetricsInv' /\ AcceptedInOrder'
  BY ServerKept DEF AgentRestart
<1>7. AdvanceIsEarned' /\ AckInv'
  BY <1>1 DEF AdvanceIsEarned, AckInv, AgentRestart
<1>8. (seq <= shots + 1)'
  BY <1>1 DEF AgentRestart, TypeOK
<1> QED
  BY <1>2, <1>3, <1>5, <1>6, <1>7, <1>8 DEF IInv

(* Handlers end; the control plane may have restarted.                      *)
LEMMA HandlersEnd ==
    ASSUME IInv, serving' \subseteq serving, faults' = faults,
           UNCHANGED <<agent, network, node, tables, accepted>>,
           TypeOK', LastInv', MetricsInv', AcceptedInOrder'
    PROVE  IInv'
<1>1. StreamInv'
  BY DEF IInv, StreamInv, agent, network, InstOf
<1>2. Sent' \subseteq Sent
  BY Unmoved DEF network
<1>3. SentInv' /\ OrderInv'
  <2>1. inst' = inst /\ seq' = seq /\ shots' = shots /\ accepted' = accepted
    BY DEF agent
  <2>2. inst \in Instances /\ seq \in 1..(MaxShots + 1) /\ seq >= seq
    BY DEF IInv, TypeOK
  <2> QED
    BY <1>2, <2>1, <2>2, SentKept
<1>4. AdvanceIsEarned' /\ AckInv' /\ (seq <= shots + 1)'
  BY AdvanceKept DEF AckInv, agent, network, IInv, Accepted
<1> QED
  BY <1>1, <1>3, <1>4 DEF IInv

LEMMA CancelKeeps == IInv /\ (\E s \in Streams : Cancel(s)) => IInv'
<1> SUFFICES ASSUME IInv, NEW s \in Streams, Cancel(s) PROVE IInv'
  OBVIOUS
<1>1. TypeOK'
  BY DEF IInv, TypeOK, Cancel, agent, network, memory, tables
<1>2. LastInv' /\ MetricsInv' /\ AcceptedInOrder'
  BY ServerKept DEF Cancel
<1> QED
  BY <1>1, <1>2, HandlersEnd DEF Cancel

LEMMA ServerRestartKeeps == IInv /\ ServerRestart => IInv'
<1> SUFFICES ASSUME IInv, ServerRestart PROVE IInv'
  OBVIOUS
<1>1. TypeOK /\ life \in Nat /\ life' = life + 1 /\ life' \in Lives
  BY TelemetryAssumption DEF IInv, TypeOK, ServerRestart, Lives
<1>2. TypeOK'
  BY <1>1, TelemetryAssumption DEF TypeOK, ServerRestart, agent, network, tables
<1>3. LastInv'
  BY <1>1 DEF IInv, LastInv, ServerRestart, TypeOK, Lives
<1>4. MetricsInv' /\ AcceptedInOrder'
  BY DEF IInv, MetricsInv, AcceptedInOrder, ServerRestart
<1> QED
  BY <1>2, <1>3, <1>4, HandlersEnd DEF ServerRestart

(* The hello of a stream is taken: the stream is counted for the same       *)
(* instance as before.                                                      *)
LEMMA GreetKeeps == IInv /\ (\E s \in Streams, saved \in BOOLEAN : Greet(s, saved)) => IInv'
<1> SUFFICES ASSUME IInv, NEW s \in Streams, NEW saved \in BOOLEAN, Greet(s, saved)
             PROVE  IInv'
  OBVIOUS
<1>1. TypeOK
  BY DEF IInv
<1>2. /\ s \in serving /\ up[s] # <<>> /\ up[s] \in Seq(Hello \cup Batch)
      /\ Frame(s).kind = "hello" /\ up' = [up EXCEPT ![s] = Tail(up[s])]
  BY <1>1 DEF Greet, Take, TypeOK
<1>3. /\ 1 \in DOMAIN up[s] /\ Frame(s) = up[s][1] /\ Frame(s) \in Hello \cup Batch
      /\ Tail(up[s]) \in Seq(Hello \cup Batch)
      /\ \A n \in DOMAIN Tail(up[s]) :
            n + 1 \in DOMAIN up[s] /\ n + 1 > 1 /\ Tail(up[s])[n] = up[s][n + 1]
  BY <1>2, TailFacts DEF Frame
<1>4. Frame(s).inst \in Instances
  BY <1>2, <1>3 DEF Hello, Batch
<1>5. node[s] = 0
  BY <1>2, <1>3 DEF IInv, StreamInv
<1>0. \/ /\ node' = [node EXCEPT ![s] = Frame(s).inst] /\ heartbeat' = Frame(s).inst
         /\ faults' = faults /\ serving' = serving
      \/ /\ node' = node /\ heartbeat' = heartbeat
         /\ faults < MaxFaults /\ faults' = faults + 1 /\ serving' = serving \ {s}
  BY DEF Greet
<1>6. /\ up'[s] = Tail(up[s])
      /\ \A t \in Streams : t # s => up'[t] = up[t] /\ node'[t] = node[t]
      /\ s \in serving' => node'[s] = Frame(s).inst /\ node'[s] # 0
      /\ serving' \subseteq serving
      /\ faults' \in 0..MaxFaults
  <2>1. up'[s] = Tail(up[s]) /\ \A t \in Streams : t # s => up'[t] = up[t]
    BY <1>1, <1>2 DEF TypeOK
  <2>2. node \in [Streams -> 0..MaxAgents] /\ faults \in 0..MaxFaults /\ Frame(s).inst # 0
    BY <1>1, <1>4, TelemetryAssumption DEF TypeOK, Instances
  <2>3. \A t \in Streams : t # s => node'[t] = node[t]
    BY <1>0, <2>2
  <2>4. s \in serving' => node'[s] = Frame(s).inst /\ node'[s] # 0
    BY <1>0, <2>2
  <2>5. serving' \subseteq serving /\ faults' \in 0..MaxFaults
    BY <1>0, <2>2, TelemetryAssumption
  <2> QED
    BY <2>1, <2>3, <2>4, <2>5
<1>7. TypeOK'
  <2>1. up' \in [Streams -> Seq(Hello \cup Batch)]
    BY <1>1, <1>2, <1>3 DEF TypeOK
  <2>2. node' \in [Streams -> 0..MaxAgents] /\ heartbeat' \in 0..MaxAgents
    <3>1. /\ node \in [Streams -> 0..MaxAgents] /\ heartbeat \in 0..MaxAgents
          /\ Frame(s).inst \in 0..MaxAgents
      BY <1>1, <1>4, TelemetryAssumption DEF TypeOK, Instances
    <3> QED
      BY <1>0, <3>1
  <2> QED
    BY <1>1, <1>6, <2>1, <2>2 DEF Greet, TypeOK, agent, memory
<1>8. \A t \in serving' : InstOf(t)' = InstOf(t)
  <2> SUFFICES ASSUME NEW t \in serving' PROVE InstOf(t)' = InstOf(t)
    OBVIOUS
  <2>1. CASE t = s
    BY <2>1, <1>3, <1>5, <1>6 DEF InstOf
  <2>2. CASE t # s
    BY <2>2, <1>1, <1>6 DEF InstOf, TypeOK
  <2> QED
    BY <2>1, <2>2
<1>9. \A t \in serving' : \A n \in DOMAIN up'[t] :
         \E m \in DOMAIN up[t] : up'[t][n] = up[t][m] /\ (t # s => m = n) /\ (t = s => m > 1)
  <2> SUFFICES ASSUME NEW t \in serving', NEW n \in DOMAIN up'[t]
               PROVE  \E m \in DOMAIN up[t] :
                         up'[t][n] = up[t][m] /\ (t # s => m = n) /\ (t = s => m > 1)
    OBVIOUS
  <2>1. CASE t = s
    BY <2>1, <1>3, <1>6
  <2>2. CASE t # s
    BY <2>2, <1>1, <1>6 DEF TypeOK
  <2> QED
    BY <2>1, <2>2
<1>10. StreamInv'
  <2>1. ASSUME NEW t \in serving'
        PROVE  /\ node'[t] = 0 => up'[t] # <<>> /\ up'[t][1].kind = "hello"
               /\ \A n \in DOMAIN up'[t] : n > 1 \/ node'[t] # 0 => up'[t][n].kind = "telemetry"
               /\ t <= streams
               /\ InstOf(t)' <= inst
    <3>1. t \in serving /\ t \in Streams
      BY <1>1, <1>6 DEF TypeOK
    <3>2. t <= streams /\ InstOf(t)' <= inst
      BY <3>1, <1>8 DEF IInv, StreamInv
    <3>3. CASE t = s
      BY <3>3, <3>2, <1>3, <1>6, <3>1 DEF IInv, StreamInv
    <3>4. CASE t # s
      <4>1. up'[t] = up[t] /\ node'[t] = node[t]
        BY <3>1, <3>4, <1>6
      <4> QED
        BY <3>1, <3>2, <4>1 DEF IInv, StreamInv
    <3> QED
      BY <3>3, <3>4
  <2>2. \A t \in Streams : t > streams => down[t] = <<>> /\ node'[t] = 0
    <3>1. s <= streams /\ streams \in Nat /\ s \in Nat
      BY <1>1, <1>2 DEF IInv, StreamInv, TypeOK, Streams
    <3>2. \A t \in Streams : t > streams => t # s
      BY <3>1
    <3> QED
      BY <3>2, <1>6 DEF IInv, StreamInv
  <2>3. UNCHANGED <<inst, phase, stream, streams, down>>
    BY DEF Greet, agent
  <2>4. phase # "offline" /\ stream \in serving' => InstOf(stream)' = inst
    BY <2>3, <1>6, <1>8 DEF IInv, StreamInv, InstOf
  <2>5. stream <= streams /\ (phase # "offline" => stream \in Streams)
    BY DEF IInv, StreamInv
  <2> QED
    BY <2>1, <2>2, <2>3, <2>4, <2>5 DEF StreamInv
<1>11. Sent' \subseteq Sent
  <2> SUFFICES ASSUME NEW b \in Item, NEW t \in serving', NEW n \in DOMAIN up'[t],
                      IsBatch(t, n)', b = ItemOf(t, n)'
               PROVE  b \in Sent
    BY DEF Sent, Greet
  <2>1. PICK m \in DOMAIN up[t] : up'[t][n] = up[t][m]
    BY <1>9
  <2>2. IsBatch(t, m) /\ b = ItemOf(t, m)
    BY <2>1, <1>8 DEF IsBatch, ItemOf
  <2> QED
    BY <2>2, <1>6 DEF Sent
<1>12. inst' = inst /\ seq' = seq /\ shots' = shots /\ accepted' = accepted
  BY DEF Greet, agent
<1>13. SentInv' /\ OrderInv'
  <2>1. inst \in Instances /\ seq \in 1..(MaxShots + 1) /\ seq >= seq
    BY <1>1 DEF TypeOK
  <2> QED
    BY <1>11, <1>12, <2>1, SentKept
<1>14. LastInv' /\ MetricsInv' /\ AcceptedInOrder'
  BY ServerKept DEF Greet
<1>15. AdvanceIsEarned' /\ AckInv' /\ (seq <= shots + 1)'
  BY <1>12, AdvanceKept DEF Greet, agent, AckInv, IInv, Accepted
<1> QED
  BY <1>7, <1>10, <1>13, <1>14, <1>15 DEF IInv

-----------------------------------------------------------------------------
(* What Repeat and Ingest have in common: a batch is taken from a stream,   *)
(* and an accepted one may be acknowledged.                                 *)
LEMMA TakenStreams ==
    ASSUME IInv, NEW s \in Streams, Take(s, "telemetry"), UNCHANGED agent, node' = node,
           serving' \subseteq serving,
           \/ down' = down
           \/ /\ Acknowledge(s, Frame(s).seq)
              /\ \E a \in accepted' : a.inst = node[s] /\ a.seq = Frame(s).seq,
           accepted \subseteq accepted'
    PROVE  /\ up' \in [Streams -> Seq(Hello \cup Batch)]
           /\ down' \in [Streams -> Seq(Shots)]
           /\ StreamInv' /\ AckInv' /\ AdvanceIsEarned'
           /\ \A t \in serving' : \A n \in DOMAIN up'[t] : IsBatch(t, n)' =>
                 \E m \in DOMAIN up[t] : IsBatch(t, m) /\ ItemOf(t, n)' = ItemOf(t, m)
<1> DEFINE m == Frame(s).seq
<1>1. TypeOK /\ StreamInv
  BY DEF IInv
<1>2. /\ s \in serving /\ up[s] # <<>> /\ up[s] \in Seq(Hello \cup Batch)
      /\ up' = [up EXCEPT ![s] = Tail(up[s])]
  BY <1>1 DEF Take, TypeOK
<1>3. /\ Tail(up[s]) \in Seq(Hello \cup Batch)
      /\ \A n \in DOMAIN Tail(up[s]) :
            n + 1 \in DOMAIN up[s] /\ n + 1 > 1 /\ Tail(up[s])[n] = up[s][n + 1]
  BY <1>2, TailFacts
<1>4. node[s] \in Instances /\ node[s] # 0 /\ Frame(s) \in Batch
  <2>1. node[s] \in Instances /\ Frame(s) \in Batch
    BY <1>1, TakenFrame
  <2> QED
    BY <2>1, TelemetryAssumption DEF Instances
<1>5. up' \in [Streams -> Seq(Hello \cup Batch)] /\ up'[s] = Tail(up[s])
      /\ \A t \in Streams : t # s => up'[t] = up[t]
  BY <1>1, <1>2, <1>3 DEF TypeOK
<1>6. /\ down' \in [Streams -> Seq(Shots)]
      /\ \A t \in Streams : t # s => down'[t] = down[t]
      /\ \A n \in DOMAIN down'[s] :
            \/ n \in DOMAIN down[s] /\ down'[s][n] = down[s][n]
            \/ down'[s][n] = m /\ \E a \in accepted' : a.inst = node[s] /\ a.seq = m
  <2>1. CASE down' = down
    BY <2>1, <1>1 DEF TypeOK
  <2>2. CASE /\ Acknowledge(s, m)
            /\ \E a \in accepted' : a.inst = node[s] /\ a.seq = m
    <3>1. down[s] \in Seq(Shots) /\ m \in Shots
      BY <1>1, <1>4 DEF TypeOK, Batch
    <3>2. down' = [down EXCEPT ![s] = Append(down[s], m)]
      BY <2>2 DEF Acknowledge
    <3>3. /\ Append(down[s], m) \in Seq(Shots)
          /\ \A n \in DOMAIN Append(down[s], m) :
                n \in DOMAIN down[s] \/ n = Len(down[s]) + 1
          /\ \A n \in DOMAIN down[s] : Append(down[s], m)[n] = down[s][n]
          /\ Append(down[s], m)[Len(down[s]) + 1] = m
      BY <3>1, AppendFacts
    <3>4. down'[s] = Append(down[s], m)
      BY <3>2, <1>1 DEF TypeOK
    <3>5. down' \in [Streams -> Seq(Shots)] /\ \A t \in Streams : t # s => down'[t] = down[t]
      BY <3>2, <3>3, <1>1 DEF TypeOK
    <3> QED
      BY <3>3, <3>4, <3>5, <2>2
  <2> QED
    BY <2>1, <2>2
<1>7. \A t \in serving' : InstOf(t)' = InstOf(t)
  <2> SUFFICES ASSUME NEW t \in serving' PROVE InstOf(t)' = InstOf(t)
    OBVIOUS
  <2>1. CASE t = s
    BY <2>1, <1>4 DEF InstOf
  <2>2. CASE t # s
    BY <2>2, <1>1, <1>5 DEF InstOf, TypeOK
  <2> QED
    BY <2>1, <2>2
<1>8. UNCHANGED <<shots, inst, seq, phase, stream, streams>>
  BY DEF agent
<1>9. StreamInv'
  <2>1. ASSUME NEW t \in serving'
        PROVE  /\ node[t] = 0 => up'[t] # <<>> /\ up'[t][1].kind = "hello"
               /\ \A n \in DOMAIN up'[t] : n > 1 \/ node[t] # 0 => up'[t][n].kind = "telemetry"
               /\ t <= streams
               /\ InstOf(t)' <= inst
    <3>1. t \in serving /\ t \in Streams
      BY <1>1 DEF TypeOK
    <3>2. t <= streams /\ InstOf(t)' <= inst
      BY <3>1, <1>7 DEF IInv, StreamInv
    <3>3. CASE t = s
      BY <3>3, <3>2, <1>3, <1>4, <1>5, <3>1 DEF IInv, StreamInv
    <3>4. CASE t # s
      <4>1. up'[t] = up[t]
        BY <3>1, <3>4, <1>5
      <4> QED
        BY <3>1, <3>2, <4>1 DEF IInv, StreamInv
    <3> QED
      BY <3>3, <3>4
  <2>2. \A t \in Streams : t > streams => down'[t] = <<>> /\ node[t] = 0
    <3>1. s <= streams /\ streams \in Nat /\ s \in Nat
      BY <1>1, <1>2 DEF IInv, StreamInv, TypeOK, Streams
    <3>2. \A t \in Streams : t > streams => t # s
      BY <3>1
    <3> QED
      BY <3>2, <1>6 DEF IInv, StreamInv
  <2>3. phase # "offline" /\ stream \in serving' => InstOf(stream)' = inst
    BY <1>8, <1>7 DEF IInv, StreamInv, InstOf
  <2>4. stream <= streams /\ (phase # "offline" => stream \in Streams)
    BY DEF IInv, StreamInv
  <2> QED
    BY <2>1, <2>2, <2>3, <2>4, <1>8 DEF StreamInv
<1>10. AckInv'
  <2> SUFFICES ASSUME phase # "offline", NEW n \in DOMAIN down'[stream]
               PROVE  \E a \in accepted' : a.inst = inst /\ a.seq = down'[stream][n]
    BY <1>8 DEF AckInv, Accepted
  <2>1. stream \in Streams
    BY DEF IInv, StreamInv
  <2>2. \A k \in DOMAIN down[stream] :
           \E a \in accepted' : a.inst = inst /\ a.seq = down[stream][k]
    BY DEF IInv, AckInv, Accepted
  <2>3. CASE stream # s
    <3>1. down'[stream] = down[stream]
      BY <2>1, <2>3, <1>6
    <3> QED
      BY <3>1, <2>2
  <2>4. CASE stream = s
    <3>1. node[s] = inst
      BY <2>4, <1>2, <1>4 DEF IInv, StreamInv, InstOf
    <3>2. CASE n \in DOMAIN down[s] /\ down'[s][n] = down[s][n]
      BY <2>2, <2>4, <3>2
    <3>3. CASE down'[s][n] = m /\ \E a \in accepted' : a.inst = node[s] /\ a.seq = m
      BY <2>4, <3>1, <3>3
    <3> QED
      BY <2>4, <3>2, <3>3, <1>6
  <2> QED
    BY <2>3, <2>4
<1>11. AdvanceIsEarned'
  BY <1>8, AdvanceKept
<1> QED
  BY <1>1, <1>5, <1>6, <1>9, <1>10, <1>11, BatchTaken

(* A number that is known was accepted, so it may be acknowledged.          *)
LEMMA RepeatKeeps == IInv /\ (\E s \in Streams : Repeat(s)) => IInv'
<1> SUFFICES ASSUME IInv, NEW s \in Streams, Repeat(s) PROVE IInv'
  OBVIOUS
<1> DEFINE m == Frame(s).seq
<1>1. TypeOK /\ StreamInv /\ Take(s, "telemetry")
  BY DEF IInv, Repeat
<1>2. node[s] \in Instances /\ Frame(s) \in Batch
  BY <1>1, TakenFrame
<1>3. \E a \in accepted : a.inst = node[s] /\ a.seq = m
  <2>1. m \in Shots /\ m <= sequences[node[s]] /\ sequences[node[s]] \in 0..MaxShots
    BY <1>1, <1>2 DEF Repeat, Known, TypeOK, Batch
  <2>2. m \in 1..sequences[node[s]] /\ sequences[node[s]] # 0
    BY <2>1, TelemetryAssumption DEF Shots
  <2>3. Accepted(node[s], sequences[node[s]])
    BY <1>2, <2>2 DEF IInv, LastInv
  <2> QED
    BY <2>2, <2>3, Below DEF Accepted
<1>4. /\ UNCHANGED <<faults, shots, inst, seq, phase, stream, streams, node, life, serving,
                     sequences, metrics, heartbeat, assets, topology, accepted>>
      /\ UNCHANGED agent /\ Acknowledge(s, m)
  BY DEF Repeat, agent, memory, tables
<1>5. /\ up' \in [Streams -> Seq(Hello \cup Batch)]
      /\ down' \in [Streams -> Seq(Shots)]
      /\ StreamInv' /\ AckInv' /\ AdvanceIsEarned'
      /\ \A t \in serving' : \A n \in DOMAIN up'[t] : IsBatch(t, n)' =>
            \E k \in DOMAIN up[t] : IsBatch(t, k) /\ ItemOf(t, n)' = ItemOf(t, k)
  BY <1>1, <1>3, <1>4, TakenStreams
<1>6. TypeOK'
  BY <1>1, <1>4, <1>5 DEF TypeOK
<1>7. Sent' \subseteq Sent
  BY <1>4, <1>5 DEF Sent
<1>8. SentInv' /\ OrderInv'
  <2>1. inst \in Instances /\ seq \in 1..(MaxShots + 1) /\ seq >= seq
    BY <1>1 DEF TypeOK
  <2> QED
    BY <1>4, <1>7, <2>1, SentKept
<1>9. LastInv' /\ MetricsInv' /\ AcceptedInOrder'
  BY <1>4, ServerKept DEF memory
<1>10. (seq <= shots + 1)'
  BY <1>4 DEF IInv
<1> QED
  BY <1>5, <1>6, <1>8, <1>9, <1>10 DEF IInv

(* What a life accepted before a batch has a smaller number and is older.   *)
LEMMA AcceptIsLater ==
    ASSUME IInv, NEW s \in Streams, AcceptBatch(s),
           NEW a \in accepted, a.life = life, a.inst = node[s]
    PROVE  a.seq < Frame(s).seq /\ a.shot < Frame(s).shot
<1> DEFINE e == [inst |-> node[s], seq |-> Frame(s).seq, shot |-> Frame(s).shot]
           b == [inst |-> a.inst, seq |-> a.seq, shot |-> a.shot]
<1>1. node[s] \in Instances /\ Frame(s) \in Batch /\ e \in Sent
  BY TakenFrame DEF IInv, AcceptBatch
<1>2. b \in Sent
  BY AcceptedSent DEF IInv
<1>3. a.seq <= sequences[node[s]] /\ ~(Frame(s).seq <= sequences[node[s]])
  BY DEF IInv, LastInv, AcceptBatch, Known
<1>4. a.seq \in Nat /\ sequences[node[s]] \in Nat /\ Frame(s).seq \in Nat
  <2>1. sequences[node[s]] \in 0..MaxShots
    BY <1>1 DEF IInv, TypeOK
  <2>2. Frame(s).seq \in Shots
    BY <1>1 DEF Batch
  <2> QED
    BY <2>1, <2>2, AcceptedType DEF IInv, Shots
<1>5. b.inst = e.inst /\ b.seq < e.seq
  BY <1>3, <1>4
<1> QED
  BY <1>1, <1>2, <1>5 DEF IInv, OrderInv

LEMMA IngestKeeps == IInv /\ (\E s \in Streams, saves \in 0..3 : Ingest(s, saves)) => IInv'
<1> SUFFICES ASSUME IInv, NEW s \in Streams, NEW saves \in 0..3, Ingest(s, saves) PROVE IInv'
  OBVIOUS
<1> DEFINE m == Frame(s).seq
           h == Frame(s).shot
           new == [life |-> life, inst |-> node[s], seq |-> m, shot |-> h]
           e == [inst |-> node[s], seq |-> m, shot |-> h]
<1>1. TypeOK /\ StreamInv /\ Take(s, "telemetry") /\ AcceptBatch(s)
  BY DEF IInv, Ingest, AcceptBatch
<1>2. node[s] \in Instances /\ Frame(s) \in Batch /\ e \in Sent
  BY <1>1, TakenFrame
<1>3. m \in Shots /\ h \in Shots /\ new \in [life: Lives, inst: Instances, seq: Shots, shot: Shots]
  BY <1>1, <1>2 DEF Batch, TypeOK
<1>4. /\ accepted' = accepted \cup {new}
      /\ sequences' = [sequences EXCEPT ![node[s]] = m]
      /\ metrics' = [inst |-> node[s], shot |-> h]
      /\ ~(m <= sequences[node[s]])
      /\ UNCHANGED <<shots, inst, seq, phase, stream, streams, node, life>> /\ UNCHANGED agent
  BY <1>1 DEF AcceptBatch, Ingest, Known, agent
<1>5. \/ serving' = serving /\ faults' = faults /\ Acknowledge(s, m)
      \/ /\ serving' = serving \ {s} /\ faults < MaxFaults /\ faults' = faults + 1
         /\ down' = down
  BY DEF Ingest
<1>6. serving' \subseteq serving /\ faults' \in 0..MaxFaults
  <2>1. faults \in 0..MaxFaults
    BY <1>1 DEF TypeOK
  <2> QED
    BY <1>5, <2>1, TelemetryAssumption
<1>7. \E a \in accepted' : a.inst = node[s] /\ a.seq = m
  <2>1. new \in accepted' /\ new.inst = node[s] /\ new.seq = m
    BY <1>4
  <2> QED
    BY <2>1
<1>8. /\ up' \in [Streams -> Seq(Hello \cup Batch)]
      /\ down' \in [Streams -> Seq(Shots)]
      /\ StreamInv' /\ AckInv' /\ AdvanceIsEarned'
      /\ \A t \in serving' : \A n \in DOMAIN up'[t] : IsBatch(t, n)' =>
            \E k \in DOMAIN up[t] : IsBatch(t, k) /\ ItemOf(t, n)' = ItemOf(t, k)
  <2>1. \/ down' = down
        \/ Acknowledge(s, m) /\ \E a \in accepted' : a.inst = node[s] /\ a.seq = m
    BY <1>5, <1>7
  <2>2. accepted \subseteq accepted'
    BY <1>4
  <2> QED
    BY <1>1, <1>4, <1>6, <2>1, <2>2, TakenStreams
<1>9. TypeOK'
  <2>1. /\ heartbeat' \in 0..MaxAgents /\ assets' \in 0..MaxShots /\ topology' \in 0..MaxShots
    <3>1. /\ heartbeat' \in {heartbeat, node[s]} /\ assets' \in {assets, h}
          /\ topology' \in {topology, h}
      BY DEF Ingest
    <3>2. node[s] \in 0..MaxAgents /\ h \in 0..MaxShots
      BY <1>2, <1>3, TelemetryAssumption DEF Instances, Shots
    <3> QED
      BY <1>1, <3>1, <3>2 DEF TypeOK
  <2>2. /\ sequences' \in [Instances -> 0..MaxShots]
        /\ metrics' \in [inst: 0..MaxAgents, shot: 0..MaxShots]
    <3>1. node[s] \in 0..MaxAgents /\ m \in 0..MaxShots /\ h \in 0..MaxShots
      BY <1>2, <1>3, TelemetryAssumption DEF Instances, Shots
    <3> QED
      BY <1>1, <1>4, <3>1 DEF TypeOK
  <2>3. accepted' \subseteq [life: Lives, inst: Instances, seq: Shots, shot: Shots]
    BY <1>1, <1>3, <1>4 DEF TypeOK
  <2>4. serving' \subseteq Streams
    BY <1>1, <1>6 DEF TypeOK
  <2> QED
    BY <1>1, <1>4, <1>6, <1>8, <2>1, <2>2, <2>3, <2>4 DEF TypeOK
<1> HIDE DEF m, h
<1>10. Sent' \subseteq Sent
  <2> SUFFICES ASSUME NEW b \in Item, b \in Sent' PROVE b \in Sent
    BY DEF Sent
  <2>1. CASE \E t \in serving' : \E n \in DOMAIN up'[t] : IsBatch(t, n)' /\ b = ItemOf(t, n)'
    BY <2>1, <1>6, <1>8 DEF Sent
  <2>2. CASE \E a \in accepted : a.inst = b.inst /\ a.seq = b.seq /\ a.shot = b.shot
    BY <2>2 DEF Sent
  <2>3. CASE new.inst = b.inst /\ new.seq = b.seq /\ new.shot = b.shot
    <3>1. b = e
      BY <2>3 DEF Item
    <3> QED
      BY <3>1, <1>2
  <2> QED
    BY <2>1, <2>2, <2>3, <1>4 DEF Sent
<1>11. SentInv' /\ OrderInv'
  <2>1. inst \in Instances /\ seq \in 1..(MaxShots + 1) /\ seq >= seq
    BY <1>1 DEF TypeOK
  <2> QED
    BY <1>4, <1>10, <2>1, SentKept
<1>12. \A a \in accepted : a.life = life /\ a.inst = node[s] => a.seq < m /\ a.shot < h
  BY <1>1, AcceptIsLater DEF m, h
<1>13. m \in Nat /\ h \in Nat /\ \A a \in accepted : a.seq \in Nat /\ a.shot \in Nat
  BY <1>1, <1>3, AcceptedType DEF Shots
<1>14. LastInv'
  <2>1. ASSUME NEW a \in accepted', a.life = life PROVE a.seq <= sequences'[a.inst]
    <3>1. CASE a = new
      BY <3>1, <1>1, <1>2, <1>4, <1>13 DEF TypeOK
    <3>2. CASE a \in accepted /\ a.inst = node[s]
      <4>1. a.seq < m /\ a.seq \in Nat /\ m \in Nat
        BY <3>2, <2>1, <1>12, <1>13
      <4>2. sequences'[a.inst] = m
        BY <3>2, <1>1, <1>2, <1>4 DEF TypeOK
      <4> QED
        BY <4>1, <4>2
    <3>3. CASE a \in accepted /\ a.inst # node[s]
      <4>1. a.seq <= sequences[a.inst] /\ a.inst \in Instances
        BY <3>3, <2>1, <1>1 DEF IInv, LastInv, TypeOK
      <4> QED
        BY <4>1, <3>3, <1>1, <1>4 DEF TypeOK
    <3> QED
      BY <3>1, <3>2, <3>3, <1>4
  <2>2. \A a \in accepted' : a.life <= life
    BY <1>1, <1>4 DEF IInv, LastInv, TypeOK, Lives
  <2>3. ASSUME NEW i \in Instances, sequences'[i] # 0
        PROVE  \E a \in accepted' : a.inst = i /\ a.seq = sequences'[i]
    <3>1. CASE i = node[s]
      BY <3>1, <1>1, <1>4, <1>7 DEF TypeOK
    <3>2. CASE i # node[s]
      <4>1. sequences'[i] = sequences[i]
        BY <3>2, <1>1, <1>4 DEF TypeOK
      <4> QED
        BY <4>1, <2>3, <1>4 DEF IInv, LastInv, Accepted
    <3> QED
      BY <3>1, <3>2
  <2> QED
    BY <2>1, <2>2, <2>3, <1>4 DEF LastInv, Accepted
<1>15. MetricsInv'
  <2>1. /\ new \in accepted' /\ new.life = life' /\ new.inst = metrics'.inst
        /\ new.shot = metrics'.shot
    BY <1>4
  <2> QED
    BY <2>1 DEF MetricsInv
<1>16. AcceptedInOrder'
  <2> SUFFICES ASSUME NEW a \in accepted', NEW b \in accepted', a.life = b.life, a.inst = b.inst
               PROVE  (a.seq = b.seq => a = b) /\ (a.seq < b.seq => a.shot < b.shot)
    BY DEF AcceptedInOrder
  <2>1. CASE a \in accepted /\ b \in accepted
    BY <2>1 DEF IInv, AcceptedInOrder
  <2>2. CASE a = new /\ b = new
    BY <2>2, <1>13
  <2>3. CASE a = new /\ b \in accepted
    BY <2>3, <1>12, <1>13
  <2>4. CASE a \in accepted /\ b = new
    BY <2>4, <1>12, <1>13
  <2> QED
    BY <2>1, <2>2, <2>3, <2>4, <1>4
<1>17. (seq <= shots + 1)'
  BY <1>4 DEF IInv
<1> QED
  BY <1>8, <1>9, <1>11, <1>14, <1>15, <1>16, <1>17 DEF IInv

-----------------------------------------------------------------------------
(* The theorems                                                             *)

LEMMA Stutter == IInv /\ UNCHANGED vars => IInv'
<1> SUFFICES ASSUME IInv, UNCHANGED vars PROVE IInv'
  OBVIOUS
<1>1. TypeOK'
  BY DEF IInv, TypeOK, vars, agent, network, memory, tables
<1>2. LastInv' /\ MetricsInv' /\ AcceptedInOrder'
  BY ServerKept DEF vars
<1> QED
  BY <1>1, <1>2, HandlersEnd DEF vars

LEMMA Inductive == IInv /\ [Next]_vars => IInv'
<1> SUFFICES ASSUME IInv, [Next]_vars PROVE IInv'
  OBVIOUS
<1>1. CASE Connect
  BY <1>1, ConnectKeeps
<1>2. CASE Send
  BY <1>2, SendKeeps
<1>3. CASE ReceiveAck
  BY <1>3, ReceiveAckKeeps
<1>4. CASE Notice
  <2>1. faults' \in 0..MaxFaults
    BY <1>4 DEF Notice, IInv, TypeOK
  <2> QED
    BY <1>4, <2>1, OfflineKeeps DEF Notice
<1>5. CASE Break
  <2>1. faults' \in 0..MaxFaults
    BY <1>5, TelemetryAssumption DEF Break, IInv, TypeOK
  <2> QED
    BY <1>5, <2>1, OfflineKeeps DEF Break
<1>6. CASE AgentRestart
  BY <1>6, AgentRestartKeeps
<1>7. CASE ServerRestart
  BY <1>7, ServerRestartKeeps
<1>8. CASE \E s \in Streams : Handle(s)
  BY <1>8, GreetKeeps, RepeatKeeps, IngestKeeps DEF Handle
<1>9. CASE \E s \in Streams : Cancel(s)
  BY <1>9, CancelKeeps
<1>10. CASE UNCHANGED vars
  BY <1>10, Stutter
<1> QED
  BY <1>1, <1>2, <1>3, <1>4, <1>5, <1>6, <1>7, <1>8, <1>9, <1>10 DEF Next

(* Every reachable state satisfies the invariant, whatever breaks or        *)
(* restarts.                                                                *)
THEOREM Invariance == Spec => []IInv
  BY Initial, Inductive, PTL DEF Spec

(* Queues, numbers and metrics keep their types, and no bound is passed.     *)
THEOREM TelemetryTyped == Spec => []TypeOK
<1>1. IInv => TypeOK
  BY DEF IInv
<1> QED
  BY <1>1, Invariance, PTL

(* One life of the control plane accepts every number of an instance at most *)
(* once, and later snapshots under higher numbers (accept_batch).            *)
THEOREM OrderKept == Spec => []AcceptedInOrder
<1>1. IInv => AcceptedInOrder
  BY DEF IInv
<1> QED
  BY <1>1, Invariance, PTL

(* The agent passes a number only when a batch under it was accepted: no     *)
(* acknowledgement is of another stream, instance or number (sendTelemetry). *)
THEOREM AdvanceEarned == Spec => []AdvanceIsEarned
<1>1. IInv => AdvanceIsEarned
  BY DEF IInv
<1> QED
  BY <1>1, Invariance, PTL

(* The metrics the rules are evaluated on never go back within a life, for   *)
(* what is accepted later is a later snapshot (AgentMetricStore).            *)
THEOREM MetricsForward == Spec => MetricsMoveForward
<1>1. ASSUME IInv, [Next]_vars, life' = life, metrics'.inst = metrics.inst
      PROVE  metrics'.shot >= metrics.shot
  <2>1. metrics.shot \in Nat
    BY <1>1 DEF IInv, TypeOK
  <2>2. CASE metrics' = metrics
    BY <2>1, <2>2
  <2>3. CASE \E s \in Streams, saves \in 0..3 : Ingest(s, saves)
    <3>1. PICK s \in Streams, saves \in 0..3 : Ingest(s, saves)
      BY <2>3
    <3>2. AcceptBatch(s) /\ metrics' = [inst |-> node[s], shot |-> Frame(s).shot]
      BY <3>1 DEF Ingest, AcceptBatch
    <3>3. node[s] \in Instances /\ Frame(s) \in Batch
      BY <1>1, <3>2, TakenFrame DEF IInv, AcceptBatch
    <3>4. metrics.inst = node[s] /\ metrics.inst # 0
      BY <1>1, <3>2, <3>3, TelemetryAssumption DEF Instances
    <3>5. PICK a \in accepted : /\ a.life = life /\ a.inst = node[s]
                                /\ a.shot = metrics.shot
      BY <1>1, <3>4 DEF IInv, MetricsInv
    <3>6. a.shot < Frame(s).shot
      BY <1>1, <3>2, <3>5, AcceptIsLater
    <3>7. Frame(s).shot \in Nat
      BY <3>3 DEF Batch, Shots
    <3> QED
      BY <3>2, <3>5, <3>6, <3>7, <2>1
  <2>4. CASE ServerRestart
    BY <1>1, <2>4 DEF ServerRestart, IInv, TypeOK, Lives
  <2>5. ASSUME ~(\E s \in Streams, saves \in 0..3 : Ingest(s, saves)), ~ServerRestart
        PROVE  metrics' = metrics
    BY <1>1, <2>5 DEF Next, vars, memory, Connect, Send, ReceiveAck, Notice, Break,
                      AgentRestart, Handle, Greet, Repeat, Cancel
  <2> QED
    BY <2>2, <2>3, <2>4, <2>5
<1>2. IInv /\ [Next]_vars =>
        [life' = life /\ metrics'.inst = metrics.inst => metrics'.shot >= metrics.shot]_vars
  BY <1>1
<1> QED
  BY <1>2, Invariance, PTL DEF Spec, MetricsMoveForward

(***************************************************************************)
(* Collectors: a host percentage is the busy share of the time between two *)
(* readings in whatever order they are exchanged, and a batch is all       *)
(* measured, for any number of callers and containers.                     *)
(*                                                                         *)
(* Readings are taken of counters that only grow (until the kernel takes   *)
(* iowait back), so of any two one is nowhere below the other: the later   *)
(* in total is the later in both parts, and no difference wraps.  The same *)
(* holds of two samples of a container that was not started in between.    *)
(***************************************************************************)

-----------------------------------------------------------------------------
(* Unsigned differences                                                     *)

(* The difference of two counters that are in order does not wrap.          *)
LEMMA MinusIs ==
    ASSUME NEW a \in Nat, NEW b \in Nat, b <= a, a - b < Width
    PROVE  Minus(a, b) = a - b
<1>1. Width \in Nat
  BY CollectorsAssumption
<1>2. \A x \in Nat : x < Width => x % Width = x
  BY <1>1
<1> QED
  BY <1>2 DEF Minus

-----------------------------------------------------------------------------
(* The host                                                                 *)

Counters == [busy: 0..on.ticks, idle: 0..on.ticks]

AtMost(a, b) == a.busy <= b.busy /\ a.idle <= b.idle

(* What was read was read of these counters, one after the other.           *)
HostTyped ==
    /\ on \in Hosts
    /\ cpu \in Counters
    /\ fell \in BOOLEAN
    /\ previous \in Counters
    /\ reading \in [on.callers -> [busy: 0..on.ticks, idle: 0..on.ticks, read: BOOLEAN]]

InOrder(a, b) == AtMost(a, b) \/ AtMost(b, a)

ReadInv ==
    ~fell =>
        /\ AtMost(previous, cpu)
        /\ \A c \in on.callers : AtMost(reading[c], cpu) /\ InOrder(previous, reading[c])
        /\ \A c, d \in on.callers : InOrder(reading[c], reading[d])

HostInv == HostTyped /\ ReadInv /\ PercentIsTrue

(* Of two readings in order the formula gives the busy share.               *)
LEMMA PercentIs ==
    ASSUME on \in Hosts, NEW from \in Counters, NEW to \in Counters, InOrder(from, to)
    PROVE  LET p == CpuPercent(from, to) IN p.num = p.spent /\ p.num <= p.den
<1>1. /\ on.ticks \in Nat /\ 2 * on.ticks < Width
      /\ from.busy \in 0..on.ticks /\ from.idle \in 0..on.ticks
      /\ to.busy \in 0..on.ticks /\ to.idle \in 0..on.ticks
  BY CollectorsAssumption DEF Counters
<1>2. CASE Usable(from, to)
  <2>1. AtMost(from, to)
    BY <1>1, <1>2 DEF Usable, InOrder, AtMost, Total
  <2>2. Minus(Total(to), Total(from)) = Total(to) - Total(from)
    <3>1. /\ Total(to) \in Nat /\ Total(from) \in Nat /\ Total(from) <= Total(to)
          /\ Total(to) - Total(from) < Width
      BY <1>1, <2>1, CollectorsAssumption DEF Total, AtMost
    <3> QED
      BY <3>1, MinusIs
  <2>3. Minus(to.idle, from.idle) = to.idle - from.idle
    <3>1. to.idle \in Nat /\ from.idle \in Nat /\ from.idle <= to.idle /\ to.idle - from.idle < Width
      BY <1>1, <2>1, CollectorsAssumption DEF AtMost
    <3> QED
      BY <3>1, MinusIs
  <2>4. Minus(Total(to) - Total(from), to.idle - from.idle) = to.busy - from.busy
    <3>1. /\ Total(to) - Total(from) \in Nat /\ to.idle - from.idle \in Nat
          /\ to.idle - from.idle <= Total(to) - Total(from)
          /\ (Total(to) - Total(from)) - (to.idle - from.idle) = to.busy - from.busy
          /\ to.busy - from.busy < Width
      BY <1>1, <2>1, CollectorsAssumption DEF Total, AtMost
    <3> QED
      BY <3>1, MinusIs
  <2>5. CpuPercent(from, to) = [num |-> to.busy - from.busy, den |-> Total(to) - Total(from),
                                spent |-> to.busy - from.busy]
    BY <1>2, <2>2, <2>3, <2>4 DEF CpuPercent
  <2>6. to.busy - from.busy <= Total(to) - Total(from)
    BY <1>1, <2>1 DEF Total, AtMost
  <2> QED
    BY <2>5, <2>6
<1>3. CASE ~Usable(from, to)
  BY <1>3 DEF CpuPercent
<1> QED
  BY <1>2, <1>3

LEMMA TickStep ==
    ASSUME HostInv, Tick
    PROVE  HostInv'
<1> USE DEF HostInv, boxVars
<1>1. on.ticks \in Nat
  BY CollectorsAssumption DEF HostTyped
<1>2. UNCHANGED <<on, previous, reading, host>>
  BY DEF Tick
<1>3. /\ cpu' \in Counters /\ fell' \in BOOLEAN
      /\ fell => fell'
      /\ ~fell' => AtMost(cpu, cpu')
  <2>1. cpu.busy \in 0..on.ticks /\ cpu.idle \in 0..on.ticks
    BY DEF HostTyped, Counters
  <2>2. CASE cpu.busy < on.ticks /\ cpu' = [cpu EXCEPT !.busy = @ + 1] /\ UNCHANGED fell
    BY <1>1, <2>1, <2>2 DEF HostTyped, Counters, AtMost
  <2>3. CASE cpu.idle < on.ticks /\ cpu' = [cpu EXCEPT !.idle = @ + 1] /\ UNCHANGED fell
    BY <1>1, <2>1, <2>3 DEF HostTyped, Counters, AtMost
  <2>4. CASE cpu.idle > 1 /\ cpu' = [cpu EXCEPT !.idle = @ - 1] /\ fell' = TRUE
    BY <1>1, <2>1, <2>4 DEF HostTyped, Counters
  <2> QED
    BY <2>2, <2>3, <2>4 DEF Tick
<1>4. HostTyped'
  BY <1>2, <1>3 DEF HostTyped, Counters
<1>5. ReadInv'
  <2> SUFFICES ASSUME ~fell' PROVE ReadInv'
    BY DEF ReadInv
  <2>1. AtMost(cpu, cpu') /\ ReadInv /\ ~fell
    BY <1>3
  <2>2. /\ previous.busy \in Nat /\ previous.idle \in Nat
        /\ \A c \in on.callers : reading[c].busy \in Nat /\ reading[c].idle \in Nat
        /\ cpu.busy \in Nat /\ cpu.idle \in Nat /\ cpu'.busy \in Nat /\ cpu'.idle \in Nat
    BY <1>1, <1>2, <1>3 DEF HostTyped, Counters
  <2>3. AtMost(previous, cpu') /\ \A c \in on.callers : AtMost(reading[c], cpu')
    BY <2>1, <2>2 DEF ReadInv, AtMost
  <2> QED
    BY <1>2, <2>1, <2>3 DEF ReadInv, AtMost, InOrder
<1>6. PercentIsTrue'
  BY <1>2, <1>3 DEF PercentIsTrue
<1> QED
  BY <1>4, <1>5, <1>6

LEMMA ReadStep ==
    ASSUME HostInv, NEW c \in on.callers, ReadStat(c)
    PROVE  HostInv'
<1> USE DEF HostInv
<1>1. on.ticks \in Nat
  BY CollectorsAssumption DEF HostTyped
<1> DEFINE k == [busy |-> cpu.busy, idle |-> cpu.idle, read |-> TRUE]
<1>2. reading' = [reading EXCEPT ![c] = k] /\ UNCHANGED <<on, cpu, fell, previous, host>>
  BY DEF ReadStat
<1>3. /\ k \in [busy: 0..on.ticks, idle: 0..on.ticks, read: BOOLEAN]
      /\ k.busy = cpu.busy /\ k.idle = cpu.idle
  BY DEF HostTyped, Counters
<1> HIDE DEF k
<1>4. HostTyped'
  BY <1>2, <1>3 DEF HostTyped, Counters
<1>5. reading'[c] = k /\ \A d \in on.callers : d # c => reading'[d] = reading[d]
  BY <1>2 DEF HostTyped
<1>6. cpu.busy \in Nat /\ cpu.idle \in Nat
  BY <1>1 DEF HostTyped, Counters
<1>7. AtMost(k, cpu)
  BY <1>3, <1>6 DEF AtMost
<1>8. \A d \in on.callers : ~fell => AtMost(reading'[d], cpu)
  BY <1>5, <1>7 DEF ReadInv
<1>9. \A x : AtMost(x, cpu) => InOrder(x, k) /\ InOrder(k, x)
  BY <1>3 DEF AtMost, InOrder
<1>10. ReadInv'
  <2> SUFFICES ASSUME ~fell PROVE ReadInv'
    BY <1>2 DEF ReadInv
  <2>1. AtMost(previous, cpu) /\ \A d \in on.callers : InOrder(previous, reading'[d])
    BY <1>5, <1>9 DEF ReadInv
  <2>2. \A d, e \in on.callers : InOrder(reading'[d], reading'[e])
    BY <1>5, <1>7, <1>8, <1>9 DEF ReadInv
  <2> QED
    BY <1>2, <1>8, <2>1, <2>2 DEF ReadInv, AtMost, InOrder
<1>11. PercentIsTrue'
  BY <1>2 DEF PercentIsTrue
<1> QED
  BY <1>4, <1>10, <1>11

LEMMA ExchangeStep ==
    ASSUME HostInv, NEW c \in on.callers, NEW diskRead \in BOOLEAN, Exchange(c, diskRead)
    PROVE  HostInv'
<1> USE DEF HostInv
<1>1. on.ticks \in Nat
  BY CollectorsAssumption DEF HostTyped
<1> DEFINE to == [busy |-> reading[c].busy, idle |-> reading[c].idle]
<1>2. /\ previous' = to /\ reading' = [reading EXCEPT ![c] = NoReading]
      /\ host' = IF diskRead THEN CpuPercent(previous, to) ELSE host
      /\ UNCHANGED <<on, cpu, fell>>
  BY DEF Exchange
<1>3. to \in Counters /\ to.busy = reading[c].busy /\ to.idle = reading[c].idle
  BY DEF HostTyped, Counters
<1> HIDE DEF to
<1>4. NoReading \in [busy: 0..on.ticks, idle: 0..on.ticks, read: BOOLEAN]
      /\ NoReading.busy = 0 /\ NoReading.idle = 0
  BY <1>1 DEF NoReading
<1>5. HostTyped'
  BY <1>2, <1>3, <1>4 DEF HostTyped, Counters
<1>6. reading'[c] = NoReading /\ \A d \in on.callers : d # c => reading'[d] = reading[d]
  BY <1>2 DEF HostTyped
<1>7. ~fell => InOrder(previous, to)
  BY <1>3 DEF ReadInv, InOrder, AtMost
<1>8. PercentIsTrue'
  <2>1. on \in Hosts /\ previous \in Counters
    BY DEF HostTyped
  <2>2. ~fell => LET p == CpuPercent(previous, to) IN p.num = p.spent /\ p.num <= p.den
    BY <1>3, <1>7, <2>1, PercentIs
  <2> QED
    BY <1>2, <2>2 DEF PercentIsTrue
<1>9. ReadInv'
  <2> SUFFICES ASSUME ~fell PROVE ReadInv'
    BY <1>2 DEF ReadInv
  <2>1. /\ cpu.busy \in Nat /\ cpu.idle \in Nat /\ to.busy \in Nat /\ to.idle \in Nat
        /\ \A d \in on.callers : reading'[d].busy \in Nat /\ reading'[d].idle \in Nat
    BY <1>1, <1>2, <1>3, <1>5 DEF HostTyped, Counters
  <2>2. AtMost(to, cpu) /\ \A d \in on.callers : AtMost(reading'[d], cpu)
    BY <1>3, <1>4, <1>6, <2>1 DEF ReadInv, AtMost
  <2>3. \A d \in on.callers : InOrder(to, reading'[d])
    BY <1>3, <1>4, <1>6, <2>1 DEF ReadInv, AtMost, InOrder
  <2>4. \A d, e \in on.callers : InOrder(reading'[d], reading'[e])
    BY <1>4, <1>6, <2>1 DEF ReadInv, AtMost, InOrder
  <2> QED
    BY <1>2, <2>2, <2>3, <2>4 DEF ReadInv, AtMost, InOrder
<1> QED
  BY <1>5, <1>8, <1>9

LEMMA HostStep == HostInv /\ [CollectorsNext]_collectors => HostInv'
<1> SUFFICES ASSUME HostInv, [CollectorsNext]_collectors PROVE HostInv'
  OBVIOUS
<1>1. CASE Tick
  BY <1>1, TickStep
<1>2. ASSUME NEW c \in on.callers, ReadStat(c) PROVE HostInv'
  BY <1>2, ReadStep
<1>3. ASSUME NEW c \in on.callers, NEW diskRead \in BOOLEAN, Exchange(c, diskRead) PROVE HostInv'
  BY <1>3, ExchangeStep
<1>4. ASSUME \/ \E s \in on.containers : Life(s) \/ Sample(s)
             \/ List \/ Measure \/ Deliver \/ UNCHANGED collectors
      PROVE  HostInv'
  <2>1. UNCHANGED <<on, hostVars>>
    BY <1>4 DEF Life, Sample, List, Measure, Snapshot, Deliver, collectors, boxVars
  <2> QED
    BY <2>1 DEF hostVars, HostInv, HostTyped, Counters, ReadInv, AtMost, InOrder, PercentIsTrue
<1> QED
  BY <1>1, <1>2, <1>3, <1>4 DEF CollectorsNext

LEMMA HostStarts == CollectorsInit => HostInv
<1> SUFFICES ASSUME CollectorsInit PROVE HostInv
  OBVIOUS
<1>1. on \in Hosts /\ on.ticks \in Nat \ {0}
  BY CollectorsAssumption DEF CollectorsInit
<1>2. /\ cpu.busy = 1 /\ cpu.idle = 1 /\ cpu \in Counters
      /\ previous.busy = 0 /\ previous.idle = 0 /\ previous \in Counters
  BY <1>1 DEF CollectorsInit, Counters, Zero
<1>3. /\ reading \in [on.callers -> [busy: 0..on.ticks, idle: 0..on.ticks, read: BOOLEAN]]
      /\ \A c \in on.callers : reading[c].busy = 0 /\ reading[c].idle = 0
  BY <1>1 DEF CollectorsInit, NoReading
<1>4. HostTyped
  BY <1>1, <1>2, <1>3 DEF CollectorsInit, HostTyped
<1>5. ReadInv
  BY <1>2, <1>3 DEF ReadInv, AtMost, InOrder
<1>6. PercentIsTrue
  BY DEF CollectorsInit, PercentIsTrue
<1> QED
  BY <1>4, <1>5, <1>6 DEF HostInv

(* In whatever order scrapes and the stream read the counters and exchange  *)
(* the baseline, the host percentage is the busy share of the time between  *)
(* two readings, at most 100, and nothing wraps (readCPUPercent).           *)
THEOREM PercentsAreTrue == CollectorsSpec => []PercentIsTrue
<1>1. HostInv => PercentIsTrue
  BY DEF HostInv
<1> QED
  BY <1>1, HostStarts, HostStep, PTL DEF CollectorsSpec

-----------------------------------------------------------------------------
(* The containers                                                           *)

Box == [state: {"running", "exited", "gone"}, usage: 0..MaxUsage, restarts: Nat]

Measured(e) == (e.up => e.read) /\ (e.whole /\ e.read => e.cpu = e.spent)

(* A first sample is what the container used when it was seen, and usage    *)
(* only grows until the container is started again.                         *)
SampleInv(f) ==
    /\ f.box \in DOMAIN pass.states
    /\ f.seen \in Box
    /\ f.usage = IF f.seen.state = "running" THEN f.seen.usage ELSE 0
    /\ f.seen.restarts <= box[f.box].restarts
    /\ f.seen.restarts = box[f.box].restarts => f.seen.usage <= box[f.box].usage

StatsInv ==
    pass.at = "stats" =>
        /\ pass = [at |-> "stats", states |-> pass.states, first |-> pass.first,
                   entries |-> pass.entries]
        /\ DOMAIN pass.states \subseteq on.containers
        /\ \A f \in pass.first : SampleInv(f)
        /\ \A e \in pass.entries : Measured(e)

BatchInv ==
    /\ box \in [on.containers -> Box]
    /\ StatsInv
    /\ \A e \in batch : Measured(e)

(* A container works, stops, starts again or goes.                          *)
LEMMA LifeStep ==
    ASSUME BatchInv, NEW s \in on.containers, Life(s)
    PROVE  BatchInv'
<1> USE DEF BatchInv
<1>1. UNCHANGED <<on, pass, batch>>
  BY DEF Life
<1>2. box[s] \in Box /\ MaxUsage \in Nat /\ MaxUsage > 0
  BY CollectorsAssumption
<1>3. /\ box' \in [on.containers -> Box]
      /\ \A d \in on.containers : d # s => box'[d] = box[d]
      /\ box[s].restarts <= box'[s].restarts
      /\ box'[s].restarts = box[s].restarts => box[s].usage <= box'[s].usage
  <2>1. CASE box[s].usage < MaxUsage /\ box' = [box EXCEPT ![s].usage = @ + 1]
    <3> DEFINE b == [box[s] EXCEPT !.usage = @ + 1]
    <3>1. box' = [box EXCEPT ![s] = b]
      BY <2>1
    <3>2. b \in Box /\ b.restarts = box[s].restarts /\ b.usage = box[s].usage + 1
      BY <1>2, <2>1 DEF Box
    <3> HIDE DEF b
    <3>3. box'[s] = b /\ \A d \in on.containers : d # s => box'[d] = box[d]
      BY <3>1
    <3> QED
      BY <1>2, <3>1, <3>2, <3>3 DEF Box
  <2>2. ASSUME NEW state \in {"exited", "gone"}, box' = [box EXCEPT ![s].state = state]
        PROVE  <1>3!:
    <3> DEFINE b == [box[s] EXCEPT !.state = state]
    <3>1. box' = [box EXCEPT ![s] = b]
      BY <2>2
    <3>2. b \in Box /\ b.restarts = box[s].restarts /\ b.usage = box[s].usage
      BY <1>2, <2>2 DEF Box
    <3> HIDE DEF b
    <3>3. box'[s] = b /\ \A d \in on.containers : d # s => box'[d] = box[d]
      BY <3>1
    <3> QED
      BY <1>2, <3>1, <3>2, <3>3 DEF Box
  <2>3. CASE box' = [box EXCEPT ![s] = [state |-> "running", usage |-> 0,
                                        restarts |-> box[s].restarts + 1]]
    <3> DEFINE b == [state |-> "running", usage |-> 0, restarts |-> box[s].restarts + 1]
    <3>1. box' = [box EXCEPT ![s] = b]
      BY <2>3
    <3>2. b \in Box /\ b.restarts = box[s].restarts + 1
      BY <1>2 DEF Box
    <3> HIDE DEF b
    <3>3. box'[s] = b /\ \A d \in on.containers : d # s => box'[d] = box[d]
      BY <3>1
    <3> QED
      BY <1>2, <3>1, <3>2, <3>3 DEF Box
  <2> QED
    BY <2>1, <2>2, <2>3 DEF Life
<1>4. PICK b : b = box'[s]
  OBVIOUS
<1>5. b \in Box
  BY <1>3, <1>4
<1>6. ASSUME pass.at = "stats", NEW f \in pass.first PROVE SampleInv(f)'
  <2>1. SampleInv(f) /\ f.box \in on.containers /\ box[f.box] \in Box
    BY <1>6 DEF StatsInv, SampleInv
  <2>2. /\ f.seen.restarts \in Nat /\ f.seen.usage \in Nat
        /\ box[f.box].restarts \in Nat /\ box[f.box].usage \in Nat
        /\ b.restarts \in Nat /\ b.usage \in Nat
    BY <1>2, <1>5, <2>1 DEF SampleInv, Box
  <2>3. CASE f.box = s
    <3>1. box'[f.box] = b
      BY <1>4, <2>3
    <3>2. /\ f.seen.restarts <= b.restarts
          /\ f.seen.restarts = b.restarts => f.seen.usage <= b.usage
      BY <1>3, <1>4, <2>1, <2>2, <2>3 DEF SampleInv
    <3> QED
      BY <1>1, <2>1, <3>1, <3>2 DEF SampleInv
  <2>4. CASE f.box # s
    <3>1. box'[f.box] = box[f.box]
      BY <1>3, <2>1, <2>4
    <3> QED
      BY <1>1, <2>1, <3>1 DEF SampleInv
  <2> QED
    BY <2>3, <2>4
<1>7. StatsInv'
  BY <1>1, <1>6 DEF StatsInv
<1> QED
  BY <1>1, <1>3, <1>7

(* The two samples of a container and what is made of them.                 *)
LEMMA SampleStep ==
    ASSUME BatchInv, NEW s \in on.containers, Sample(s)
    PROVE  BatchInv'
<1> USE DEF BatchInv
<1> DEFINE first == [box |-> s, usage |-> Usage(s), seen |-> box[s]]
<1>1. PICK f : f = first
  OBVIOUS
<1>2. /\ pass.at = "stats" /\ s \in DOMAIN pass.states
      /\ pass' = [pass EXCEPT !.first = {f}] /\ UNCHANGED <<on, box, batch>>
  BY <1>1 DEF Sample
<1>3. f.box = s /\ f.seen = box[s] /\ f.usage = Usage(s)
  BY <1>1
<1> HIDE DEF first
<1>4. pass = [at |-> "stats", states |-> pass.states, first |-> pass.first, entries |-> pass.entries]
  BY <1>2 DEF StatsInv
<1>5. pass' = [at |-> "stats", states |-> pass.states, first |-> {f}, entries |-> pass.entries]
  BY <1>2, <1>4
<1>6. box[s] \in Box /\ box[s].restarts \in Nat /\ box[s].usage \in Nat
  BY CollectorsAssumption DEF Box
<1>7. SampleInv(f)'
  BY <1>2, <1>3, <1>5, <1>6 DEF SampleInv, Usage
<1>8. StatsInv'
  BY <1>2, <1>5, <1>7 DEF StatsInv
<1> QED
  BY <1>2, <1>8

LEMMA MeasureStep ==
    ASSUME BatchInv, Measure
    PROVE  BatchInv'
<1> USE DEF BatchInv
<1>1. PICK f \in pass.first, read \in BOOLEAN :
         \E restarts \in {0, box[f.box].restarts} : Snapshot(f, read, restarts)
  BY DEF Measure
<1>2. PICK restarts \in {0, box[f.box].restarts} : Snapshot(f, read, restarts)
  BY <1>1
<1>3. pass.at = "stats" /\ UNCHANGED <<on, box, batch>>
  BY <1>2 DEF Measure, Snapshot, Fail
<1>4. CASE Refused(f, read)
  <2>1. pass' = [at |-> "host"]
    BY <1>2, <1>4 DEF Snapshot, Fail
  <2> QED
    BY <1>3, <2>1 DEF StatsInv
<1>5. CASE ~Refused(f, read)
  <2>1. PICK e : e = Entry(f, read, restarts)
    OBVIOUS
  <2>2. pass' = [pass EXCEPT !.first = {}, !.entries = @ \cup {e}]
    BY <1>2, <1>5, <2>1 DEF Snapshot
  <2>3. /\ e.up = (pass.states[f.box] = "running") /\ e.read = read
        /\ e.cpu = IF read THEN Minus(Usage(f.box), f.usage) ELSE 0
        /\ e.spent = Usage(f.box) - f.usage
        /\ e.whole = (/\ f.seen.state = "running" /\ box[f.box].state = "running"
                      /\ f.seen.restarts = box[f.box].restarts)
    BY <2>1 DEF Entry
  <2>4. SampleInv(f) /\ f.box \in on.containers /\ box[f.box] \in Box
    BY <1>3 DEF StatsInv, SampleInv
  <2>5. e.up => e.read
    BY <1>5, <2>3 DEF Refused
  <2>6. ASSUME e.whole, e.read PROVE e.cpu = e.spent
    <3>1. f.usage = f.seen.usage /\ Usage(f.box) = box[f.box].usage /\ f.usage <= Usage(f.box)
      BY <2>3, <2>4, <2>6 DEF SampleInv, Usage
    <3>2. /\ Usage(f.box) \in Nat /\ f.usage \in Nat /\ Usage(f.box) - f.usage < Width
      BY <2>4, <3>1, CollectorsAssumption DEF SampleInv, Box
    <3>3. Minus(Usage(f.box), f.usage) = Usage(f.box) - f.usage
      BY <3>1, <3>2, MinusIs
    <3> QED
      BY <2>3, <2>6, <3>3
  <2>7. Measured(e)
    BY <2>5, <2>6 DEF Measured
  <2>8. pass \in [at: {"stats"}, states: {pass.states}, first: {pass.first}, entries: {pass.entries}]
    BY <1>3 DEF StatsInv
  <2>9. pass' = [at |-> "stats", states |-> pass.states, first |-> {},
                 entries |-> pass.entries \cup {e}]
    BY <2>2, <2>8
  <2>10. StatsInv'
    BY <1>3, <2>7, <2>9 DEF StatsInv, Measured
  <2> QED
    BY <1>3, <2>10
<1> QED
  BY <1>4, <1>5

LEMMA BatchStep == BatchInv /\ [CollectorsNext]_collectors => BatchInv'
<1> SUFFICES ASSUME BatchInv, [CollectorsNext]_collectors PROVE BatchInv'
  OBVIOUS
<1>1. ASSUME NEW s \in on.containers, Life(s) \/ Sample(s) PROVE BatchInv'
  BY <1>1, LifeStep, SampleStep
<1>2. CASE Measure
  BY <1>2, MeasureStep
<1>3. CASE List
  <2>1. UNCHANGED <<on, box, batch>>
    BY <1>3 DEF List, Fail
  <2>2. CASE pass' = [at |-> "host"]
    BY <2>1, <2>2 DEF BatchInv, StatsInv
  <2>3. CASE pass' # [at |-> "host"]
    <3> DEFINE listed == {s \in on.containers \cap Monitored : box[s].state # "gone"}
               states == [s \in listed |-> box[s].state]
    <3>1. pass' = [at |-> "stats", states |-> states, first |-> {}, entries |-> {}]
      BY <1>3, <2>3 DEF List, Fail
    <3>2. DOMAIN states \subseteq on.containers
      OBVIOUS
    <3> HIDE DEF states, listed
    <3> QED
      BY <2>1, <3>1, <3>2 DEF BatchInv, StatsInv
  <2> QED
    BY <2>2, <2>3
<1>4. CASE Deliver
  <2>1. pass.at = "stats" /\ batch' = pass.entries /\ pass' = [at |-> "host"] /\ UNCHANGED <<on, box>>
    BY <1>4 DEF Deliver
  <2> QED
    BY <2>1 DEF BatchInv, StatsInv, Measured
<1>5. ASSUME \/ Tick
             \/ \E c \in on.callers : ReadStat(c) \/ \E diskRead \in BOOLEAN : Exchange(c, diskRead)
             \/ UNCHANGED collectors
      PROVE  BatchInv'
  <2>1. UNCHANGED <<on, box>> /\ (batch' = batch \/ batch' = {})
        /\ (pass' = pass \/ pass' = [at |-> "list"])
    BY <1>5 DEF Tick, ReadStat, Exchange, collectors, boxVars
  <2>2. CASE pass' = pass
    BY <2>1, <2>2 DEF BatchInv, StatsInv, SampleInv, Measured
  <2>3. CASE pass' = [at |-> "list"]
    BY <2>1, <2>3 DEF BatchInv, StatsInv, Measured
  <2> QED
    BY <2>1, <2>2, <2>3
<1> QED
  BY <1>1, <1>2, <1>3, <1>4, <1>5 DEF CollectorsNext

LEMMA BatchStarts == CollectorsInit => BatchInv
<1> SUFFICES ASSUME CollectorsInit PROVE BatchInv
  OBVIOUS
<1> DEFINE b == [state |-> "running", usage |-> 1, restarts |-> 0]
<1>1. b \in Box
  BY CollectorsAssumption DEF Box
<1>2. box = [s \in on.containers |-> b]
  BY DEF CollectorsInit
<1> HIDE DEF b
<1>3. box \in [on.containers -> Box]
  BY <1>1, <1>2
<1> QED
  BY <1>3 DEF CollectorsInit, BatchInv, StatsInv

(* Whatever the containers do between and during the samples, a batch       *)
(* reports no container as up without having read it, and the CPU time of   *)
(* one that ran through both samples is the time it spent (Collect,         *)
(* snapshot).                                                               *)
THEOREM BatchesAreMeasured == CollectorsSpec => []BatchIsMeasured
<1>1. BatchInv => BatchIsMeasured
  BY DEF BatchInv, BatchIsMeasured, Measured
<1> QED
  BY <1>1, BatchStarts, BatchStep, PTL DEF CollectorsSpec
=============================================================================
