------------------------- MODULE RepositoriesProofs -------------------------
(***************************************************************************)
(* Theorems about Repositories, for any number of callers and entities of  *)
(* any kind: what the two implementations give back is the same wherever   *)
(* callers did not race, and every lookup and every list of the one is an  *)
(* answer the other may give.                                              *)
(*                                                                         *)
(* SameEntity is about entities that everybody saved.  It follows from     *)
(* what is true of the others: without a race, a caller with an unsaved    *)
(* change has the object as it is, so its save makes the row equal to it,  *)
(* and it is the only one, so no other save can take that back.            *)
(*                                                                         *)
(* The lists need no such condition: what they select and sort by is the   *)
(* same in every copy.  That memory's order exists is shown by counting    *)
(* what comes before each entity, and what the first of it leave out is    *)
(* never newer, whichever of its rows a query takes at the limit.          *)
(***************************************************************************)
EXTENDS Repositories, FiniteSetTheorems, SequenceTheorems, TLAPS

Holds(c, i) == held[c] # Nil /\ held[c].copy.id = i

RepositoryTyped ==
    /\ kind \in Kinds
    /\ object \in [Ids -> EntityType \cup {Nil}]
    /\ order \in Seq(Ids)
    /\ actionKeys \in [Groups -> Ids \cup {Nil}]
    /\ table \in [Ids -> RowType(IF kind = "rule" THEN Time ELSE [iso: Time]) \cup {Nil}]
    /\ held \in [Callers -> HeldType \cup {Nil}]
    /\ made \in 0..MaxChanges

(* An identity has one object, which is stored by both or by neither; what  *)
(* is held or stored has only changes that were made.                       *)
Seen(e, i) == e \in EntityType /\ e.id = i /\ e.changes \subseteq 1..made
ObjectInv == \A i \in Ids :
    /\ object[i] # Nil => Seen(object[i], i)
    /\ table[i] # Nil <=> i \in Stored
    /\ table[i] # Nil => object[i] # Nil /\ Seen(PgGet(i), i)
HolderInv == \A c \in Callers : held[c] # Nil =>
    /\ kind \in Aggregates
    /\ object[held[c].copy.id] # Nil
    /\ Seen(held[c].copy, held[c].copy.id)

(* Of an entity nobody raced for, whoever has not saved it has the object   *)
(* as it is, and nobody else has, PostgreSQL least of all.                  *)
UnsavedInv == \A i \in Ids : i \notin contended =>
    \A c \in Callers : Holds(c, i) /\ held[c].dirty =>
        /\ held[c].copy = object[i]
        /\ PgGet(i) # object[i]
        /\ \A d \in Callers : Holds(d, i) /\ held[d].copy = object[i] => d = c

(* A key leads both to the one run that was saved under it.                 *)
KeyInv == kind = "run" =>
    /\ \A i \in Ids, k \in Groups :
         table[i] # Nil /\ table[i].key = k <=> actionKeys[k] = i
    /\ \A c \in Callers : held[c] # Nil =>
         actionKeys[held[c].copy.group] = held[c].copy.id

(* What an entity is selected and sorted by never changes: the object, the  *)
(* row with its column, and every copy have the same group and time.        *)
SameKeys(e, i) == e.group = object[i].group /\ e.time = object[i].time
KeptInv ==
    /\ \A i \in Ids : table[i] # Nil =>
         /\ SameKeys(PgGet(i), i)
         /\ kind # "rule" => table[i].at = object[i].time
    /\ \A c \in Callers : held[c] # Nil => SameKeys(held[c].copy, held[c].copy.id)

RepositoryInv ==
    /\ RepositoryTyped
    /\ ObjectInv
    /\ HolderInv
    /\ UnsavedInv
    /\ SameEntity
    /\ KeyInv

-----------------------------------------------------------------------------
(* What is written is read back                                             *)

Written(e) == IF kind = "rule" THEN e ELSE Payload(e)
Restored(p) ==
    IF kind \in Aggregates \cup {"change", "approval"} THEN FromPayload(p) ELSE RestoreDates(p)

(* The dates of every kind that has one are among those that are restored.  *)
LEMMA ReadBack ==
    ASSUME kind \in Kinds, NEW e \in EntityType
    PROVE  Restored(Written(e)) = e
<1>1. Payload(e) \in [id: Ids, group: Groups, time: [iso: Time], changes: Changes]
      /\ Payload(e).time.iso = e.time
      /\ Payload(e).id = e.id /\ Payload(e).group = e.group /\ Payload(e).changes = e.changes
  BY DEF Payload, EntityType
<1>2. PICK p : p = Payload(e)
  OBVIOUS
<1>3. [p EXCEPT !.time = @.iso] \in EntityType
  BY <1>1, <1>2 DEF EntityType
<1>4. [p EXCEPT !.time = @.iso] = e
  BY <1>1, <1>2, <1>3 DEF EntityType
<1>5. CASE kind = "rule"
  BY <1>5 DEF Written, Restored, Aggregates, RestoreDates, TimeField, DateFields
<1>6. CASE kind \in Aggregates \cup {"change", "approval"}
  BY <1>2, <1>4, <1>6 DEF Written, Restored, Aggregates, FromPayload
<1>7. CASE kind \in {"node", "asset", "edge", "evaluation"}
  <2>1. TimeField[kind] \in DateFields
    BY <1>7 DEF TimeField, DateFields
  <2> QED
    BY <1>2, <1>4, <1>7, <2>1 DEF Written, Restored, Aggregates, RestoreDates
<1> QED
  BY <1>5, <1>6, <1>7 DEF Kinds, Aggregates, Latest, Facts

LEMMA AssignedIs ==
    ASSUME order \in Seq(Ids), NEW i \in Ids
    PROVE  Assigned(i) \in Seq(Ids) /\ ToSet(Assigned(i)) = Stored \cup {i}
<1>1. CASE i \in Stored
  BY <1>1 DEF Assigned, Stored
<1>2. CASE i \notin Stored
  <2>1. /\ Append(order, i) \in Seq(Ids)
        /\ DOMAIN Append(order, i) = 1..(Len(order) + 1)
        /\ \A n \in 1..Len(order) : Append(order, i)[n] = order[n]
        /\ Append(order, i)[Len(order) + 1] = i
        /\ DOMAIN order = 1..Len(order) /\ Len(order) \in Nat
    OBVIOUS
  <2> QED
    BY <1>2, <2>1 DEF Assigned, Stored, ToSet
<1> QED
  BY <1>1, <1>2

(* A save stores the entity in both, and nothing else.                      *)
LEMMA SaveStores ==
    ASSUME RepositoryTyped, NEW e \in EntityType, NEW at \in Time, kind' = kind,
           order' = Assigned(e.id),
           \/ table' = Upsert(e, at) /\ kind # "rule"
           \/ table' = MonitorUpsert(e, at)
    PROVE  /\ order' \in Seq(Ids)
           /\ Stored' = Stored \cup {e.id}
           /\ table' \in [Ids -> RowType(IF kind = "rule" THEN Time ELSE [iso: Time]) \cup {Nil}]
           /\ \A i \in Ids \ {e.id} : table'[i] = table[i]
           /\ table'[e.id] # Nil
           /\ table' = Upsert(e, at) =>
                table'[e.id].key = IF table[e.id] = Nil THEN e.group ELSE table[e.id].key
           /\ \A i \in Ids : PgGet(i)' = IF i = e.id THEN e ELSE PgGet(i)
<1>1. PICK times : times = IF kind = "rule" THEN Time ELSE [iso: Time]
  OBVIOUS
<1>2. table \in [Ids -> RowType(times) \cup {Nil}] /\ order \in Seq(Ids) /\ kind \in Kinds
      /\ e.id \in Ids /\ e.group \in Groups
  BY <1>1 DEF RepositoryTyped, EntityType
<1>3. Nil \notin RowType(times)
  BY <1>1, RepositoriesAssumption
<1>4. Written(e) \in [id: Ids, group: Groups, time: times, changes: Changes]
  BY <1>1 DEF Written, Payload, EntityType
<1>5. PICK w : w = Written(e)
  OBVIOUS
<1>6. [at |-> at, key |-> e.group, payload |-> w] \in RowType(times)
  BY <1>2, <1>4, <1>5 DEF RowType
<1>7. \A row \in RowType(times) :
        /\ [row EXCEPT !.payload = w] \in RowType(times)
        /\ [row EXCEPT !.payload = w].payload = w
        /\ [row EXCEPT !.payload = w].key = row.key
  BY <1>4, <1>5 DEF RowType
<1>8. PICK row \in RowType(times) :
        /\ table' = [table EXCEPT ![e.id] = row]
        /\ row.payload = w
        /\ table' = Upsert(e, at) =>
             row.key = IF table[e.id] = Nil THEN e.group ELSE table[e.id].key
  <2>1. CASE table' = Upsert(e, at) /\ kind # "rule"
    <3>1. table' = [table EXCEPT ![e.id] =
                      IF table[e.id] = Nil THEN [at |-> at, key |-> e.group, payload |-> w]
                      ELSE [table[e.id] EXCEPT !.payload = w]]
      BY <1>2, <1>5, <2>1 DEF Upsert, Written
    <3>2. CASE table[e.id] = Nil
      BY <1>6, <3>1, <3>2
    <3>3. CASE table[e.id] # Nil
      BY <1>2, <1>7, <3>1, <3>3
    <3> QED
      BY <3>2, <3>3
  <2>2. CASE table' = MonitorUpsert(e, at)
    <3>1. table' = [table EXCEPT ![e.id] = [at |-> at, key |-> e.group, payload |-> w]]
      BY <1>5, <2>2 DEF MonitorUpsert, Written
    <3>2. table' = Upsert(e, at) /\ table[e.id] # Nil => e.group = table[e.id].key
      <4> SUFFICES ASSUME table' = Upsert(e, at), table[e.id] # Nil
                   PROVE  e.group = table[e.id].key
        OBVIOUS
      <4>1. table'[e.id] = [table[e.id] EXCEPT !.payload = Payload(e)]
        BY <1>2 DEF Upsert
      <4>2. table[e.id] \in RowType(times)
        BY <1>2
      <4>3. table'[e.id].key = table[e.id].key
        BY <4>1, <4>2 DEF RowType
      <4> QED
        BY <1>2, <3>1, <4>3
    <3> QED
      BY <1>6, <3>1, <3>2
  <2> QED
    BY <2>1, <2>2
<1>9. Restored(w) = e
  BY <1>2, <1>5, ReadBack
<1>10. \A i \in Ids : PgGet(i) = IF table[i] = Nil THEN Nil ELSE Restored(table[i].payload)
  BY DEF PgGet, Restored
<1>11. \A i \in Ids : PgGet(i)' = IF table'[i] = Nil THEN Nil ELSE Restored(table'[i].payload)
  BY DEF PgGet, Restored, RestoreDates
<1>12. table'[e.id] = row /\ row # Nil /\ \A i \in Ids \ {e.id} : table'[i] = table[i]
  BY <1>2, <1>3, <1>8
<1>13. table' \in [Ids -> RowType(times) \cup {Nil}]
  BY <1>2, <1>8
<1>14. \A i \in Ids : PgGet(i)' = IF i = e.id THEN e ELSE PgGet(i)
  BY <1>8, <1>9, <1>10, <1>11, <1>12
<1>15. order' \in Seq(Ids) /\ Stored' = Stored \cup {e.id}
  BY <1>2, AssignedIs DEF Stored
<1> QED
  BY <1>1, <1>8, <1>12, <1>13, <1>14, <1>15

(* None is no entity, no row and no object.                                 *)
LEMMA NilIsNone == Nil \notin EntityType /\ Nil \notin HeldType /\ Nil \notin Ids
BY RepositoriesAssumption

-----------------------------------------------------------------------------
(* The steps                                                                *)

LEMMA MakeStep ==
    ASSUME RepositoryInv, NEW c \in Callers, NEW i \in Ids, NEW g \in Groups, NEW t \in Time,
           Make(c, i, g, t)
    PROVE  RepositoryInv'
<1>1. PICK e : e = Entity(i, g, t)
  OBVIOUS
<1>2. e \in EntityType /\ e.id = i /\ e.changes = {}
  BY <1>1, RepositoriesAssumption DEF Entity, EntityType, Time, Changes
<1>3. PICK h : h = [copy |-> e, dirty |-> TRUE]
  OBVIOUS
<1>4. h \in HeldType /\ h # Nil /\ h.copy = e /\ h.dirty /\ e # Nil
  <2>1. h \in HeldType /\ h.copy = e
    BY <1>2, <1>3 DEF HeldType
  <2>2. h.dirty
    BY <1>3
  <2> QED
    BY <1>2, <2>1, <2>2, NilIsNone
<1>5. /\ kind \in {"incident", "plan"} /\ held[c] = Nil /\ object[i] = Nil
      /\ object' = [object EXCEPT ![i] = e]
      /\ held' = [held EXCEPT ![c] = h]
      /\ UNCHANGED <<kind, order, actionKeys, table, made, contended>>
  BY <1>1, <1>3 DEF Make
<1>6. object'[i] = e /\ \A j \in Ids : j # i => object'[j] = object[j]
  BY <1>5 DEF RepositoryInv, RepositoryTyped
<1>7. held'[c] = h /\ \A d \in Callers : d # c => held'[d] = held[d]
  BY <1>5 DEF RepositoryInv, RepositoryTyped
<1>8. RepositoryTyped'
  BY <1>2, <1>4, <1>5 DEF RepositoryInv, RepositoryTyped
<1>9. \A j \in Ids : PgGet(j)' = PgGet(j)
  BY <1>5 DEF PgGet, RestoreDates
<1>10. Stored' = Stored
  BY <1>5 DEF Stored
<1>11. table[i] = Nil /\ i \notin Stored /\ PgGet(i) = Nil
  BY <1>5 DEF RepositoryInv, ObjectInv, PgGet
<1>12. ObjectInv'
  BY <1>2, <1>5, <1>6, <1>9, <1>10, <1>11 DEF RepositoryInv, ObjectInv, Seen
<1>13. HolderInv'
  BY <1>2, <1>4, <1>5, <1>6, <1>7 DEF RepositoryInv, HolderInv, Seen, Aggregates
<1>14. \A d \in Callers : d # c => ~Holds(d, i)'
  BY <1>5, <1>7 DEF Holds, RepositoryInv, HolderInv
<1>15. \A j \in Ids : j # i => ~Holds(c, j)'
  BY <1>2, <1>4, <1>7 DEF Holds
<1>16. \A j \in Ids : j # i => \A d \in Callers :
         Holds(d, j)' => Holds(d, j) /\ held'[d] = held[d]
  BY <1>7, <1>15 DEF Holds
<1>17. UnsavedInv'
  <2> SUFFICES ASSUME NEW j \in Ids, j \notin contended', NEW d \in Callers, Holds(d, j)',
                      held'[d].dirty
               PROVE  /\ held'[d].copy = object'[j]
                      /\ PgGet(j)' # object'[j]
                      /\ \A b \in Callers : Holds(b, j)' /\ held'[b].copy = object'[j] => b = d
    BY DEF UnsavedInv
  <2>1. CASE j = i
    BY <1>4, <1>6, <1>7, <1>9, <1>11, <1>14, <2>1
  <2>2. CASE j # i
    BY <1>5, <1>6, <1>9, <1>16, <2>2 DEF RepositoryInv, UnsavedInv
  <2> QED
    BY <2>1, <2>2
<1>18. SameEntity'
  <2> SUFFICES ASSUME NEW j \in Ids, Settled(j)' PROVE MemGet(j)' = PgGet(j)'
    BY DEF SameEntity
  <2>1. j # i
    BY <1>2, <1>4, <1>7 DEF Settled
  <2>2. Settled(j)
    BY <1>5, <1>7 DEF Settled
  <2> QED
    BY <1>6, <1>9, <1>10, <2>1, <2>2 DEF MemGet, RepositoryInv, SameEntity
<1>19. KeyInv'
  BY <1>5 DEF KeyInv
<1> QED
  BY <1>8, <1>12, <1>13, <1>17, <1>18, <1>19 DEF RepositoryInv

LEMMA SubmitStep ==
    ASSUME RepositoryInv, NEW c \in Callers, NEW i \in Ids, NEW k \in Groups, NEW t \in Time,
           Submit(c, i, k, t)
    PROVE  RepositoryInv'
<1>1. PICK e : e = Entity(i, k, t)
  OBVIOUS
<1>2. e \in EntityType /\ e.id = i /\ e.changes = {} /\ e.group = k
  BY <1>1, RepositoriesAssumption DEF Entity, EntityType, Time, Changes
<1>3. PICK h : h = [copy |-> e, dirty |-> FALSE]
  OBVIOUS
<1>4. h \in HeldType /\ h # Nil /\ h.copy = e /\ ~h.dirty /\ e # Nil
  <2>1. h \in HeldType /\ h.copy = e
    BY <1>2, <1>3 DEF HeldType
  <2>2. ~h.dirty
    BY <1>3
  <2> QED
    BY <1>2, <2>1, <2>2, NilIsNone
<1>5. /\ kind = "run" /\ held[c] = Nil /\ object[i] = Nil /\ MemByKey(k) = Nil
      /\ object' = [object EXCEPT ![i] = e]
      /\ held' = [held EXCEPT ![c] = h]
      /\ order' = Assigned(e.id)
      /\ actionKeys' = [actionKeys EXCEPT ![k] = i]
      /\ table' = Upsert(e, e.time)
      /\ UNCHANGED <<kind, made, contended>>
  BY <1>1, <1>2, <1>3 DEF Submit, SaveActionRun
<1>6. object'[i] = e /\ \A j \in Ids : j # i => object'[j] = object[j]
  BY <1>5 DEF RepositoryInv, RepositoryTyped
<1>7. held'[c] = h /\ \A d \in Callers : d # c => held'[d] = held[d]
  BY <1>5 DEF RepositoryInv, RepositoryTyped
<1>8. /\ order' \in Seq(Ids)
      /\ Stored' = Stored \cup {i}
      /\ table' \in [Ids -> RowType(IF kind = "rule" THEN Time ELSE [iso: Time]) \cup {Nil}]
      /\ \A j \in Ids \ {i} : table'[j] = table[j]
      /\ table'[i] # Nil
      /\ table'[i].key = IF table[i] = Nil THEN k ELSE table[i].key
      /\ \A j \in Ids : PgGet(j)' = IF j = i THEN e ELSE PgGet(j)
  <2>1. e.time \in Time
    BY <1>2 DEF EntityType
  <2> QED
    BY <1>2, <1>5, <2>1, SaveStores DEF RepositoryInv
<1>9. RepositoryTyped'
  BY <1>2, <1>4, <1>5, <1>8 DEF RepositoryInv, RepositoryTyped
<1>10. table[i] = Nil /\ i \notin Stored
  BY <1>5 DEF RepositoryInv, ObjectInv
<1>11. ObjectInv'
  <2>1. object'[i] # Nil /\ Seen(e, i)' /\ i \in Stored' /\ PgGet(i)' = e
    BY <1>2, <1>4, <1>6, <1>8 DEF Seen
  <2>2. ASSUME NEW j \in Ids, j # i
        PROVE  /\ object'[j] # Nil => Seen(object[j], j)'
               /\ table'[j] # Nil <=> j \in Stored'
               /\ table'[j] # Nil => object'[j] # Nil /\ Seen(PgGet(j), j)'
    BY <1>5, <1>6, <1>8, <2>2 DEF RepositoryInv, ObjectInv, Seen
  <2> QED
    BY <1>6, <1>8, <2>1, <2>2 DEF ObjectInv
<1>12. HolderInv'
  BY <1>2, <1>4, <1>5, <1>6, <1>7 DEF RepositoryInv, HolderInv, Seen, Aggregates
<1>13. \A d \in Callers : d # c => ~Holds(d, i)'
  BY <1>5, <1>7 DEF Holds, RepositoryInv, HolderInv
<1>14. \A j \in Ids : j # i => \A d \in Callers :
         Holds(d, j)' => Holds(d, j) /\ held'[d] = held[d]
  BY <1>2, <1>4, <1>7 DEF Holds
<1>15. UnsavedInv'
  <2> SUFFICES ASSUME NEW j \in Ids, j \notin contended', NEW d \in Callers, Holds(d, j)',
                      held'[d].dirty
               PROVE  /\ held'[d].copy = object'[j]
                      /\ PgGet(j)' # object'[j]
                      /\ \A b \in Callers : Holds(b, j)' /\ held'[b].copy = object'[j] => b = d
    BY DEF UnsavedInv
  <2>1. j # i
    BY <1>4, <1>7, <1>13
  <2> QED
    BY <1>5, <1>6, <1>8, <1>14, <2>1 DEF RepositoryInv, UnsavedInv
<1>16. SameEntity'
  <2> SUFFICES ASSUME NEW j \in Ids, Settled(j)' PROVE MemGet(j)' = PgGet(j)'
    BY DEF SameEntity
  <2>1. CASE j = i
    BY <1>6, <1>8, <2>1 DEF MemGet
  <2>2. CASE j # i
    <3>1. Settled(j)
      BY <1>5, <1>7 DEF Settled
    <3> QED
      BY <1>6, <1>8, <2>2, <3>1 DEF MemGet, RepositoryInv, SameEntity
  <2> QED
    BY <2>1, <2>2
<1>17. actionKeys[k] = Nil
  BY <1>5 DEF MemByKey, MemGet, RepositoryInv, RepositoryTyped, KeyInv, ObjectInv
<1>18. KeyInv'
  <2>1. ASSUME NEW j \in Ids, NEW m \in Groups
        PROVE  table'[j] # Nil /\ table'[j].key = m <=> actionKeys'[m] = j
    BY <1>5, <1>8, <1>10, <1>17, RepositoriesAssumption DEF RepositoryInv, RepositoryTyped, KeyInv
  <2>2. ASSUME NEW d \in Callers, held'[d] # Nil
        PROVE  actionKeys'[held'[d].copy.group] = held'[d].copy.id
    <3>1. CASE d = c
      BY <1>2, <1>4, <1>5, <1>7, <3>1 DEF RepositoryInv, RepositoryTyped
    <3>2. CASE d # c
      <4>1. actionKeys[held[d].copy.group] = held[d].copy.id /\ held[d] # Nil
            /\ held[d] \in HeldType
        BY <1>5, <1>7, <2>2, <3>2 DEF RepositoryInv, RepositoryTyped, KeyInv
      <4>2. held[d].copy.group # k /\ held[d].copy.group \in Groups
        BY <1>17, <4>1, RepositoriesAssumption DEF HeldType, EntityType
      <4> QED
        BY <1>5, <1>7, <3>2, <4>1, <4>2 DEF RepositoryInv, RepositoryTyped
    <3> QED
      BY <3>1, <3>2
  <2> QED
    BY <2>1, <2>2 DEF KeyInv
<1> QED
  BY <1>9, <1>11, <1>12, <1>15, <1>16, <1>18 DEF RepositoryInv

LEMMA GetStep ==
    ASSUME RepositoryInv, NEW c \in Callers, NEW i \in Ids, Get(c, i)
    PROVE  RepositoryInv'
<1>1. PICK e : e = PgGet(i)
  OBVIOUS
<1>2. PICK h : h = [copy |-> e, dirty |-> FALSE]
  OBVIOUS
<1>3. /\ kind \in {"incident", "plan"} /\ held[c] = Nil /\ e # Nil
      /\ held' = [held EXCEPT ![c] = h]
      /\ UNCHANGED <<kind, object, order, actionKeys, table, made, contended>>
  BY <1>1, <1>2 DEF Get
<1>4. table[i] # Nil
  BY <1>1, <1>3 DEF PgGet
<1>5. Seen(e, i) /\ object[i] # Nil
  BY <1>1, <1>4 DEF RepositoryInv, ObjectInv
<1>6. h \in HeldType /\ h # Nil /\ h.copy = e /\ ~h.dirty
  <2>1. h \in HeldType /\ h.copy = e
    BY <1>2, <1>5 DEF HeldType, Seen
  <2>2. ~h.dirty
    BY <1>2
  <2> QED
    BY <2>1, <2>2, NilIsNone
<1>7. held'[c] = h /\ \A d \in Callers : d # c => held'[d] = held[d]
  BY <1>3 DEF RepositoryInv, RepositoryTyped
<1>8. RepositoryTyped'
  BY <1>3, <1>6 DEF RepositoryInv, RepositoryTyped
<1>9. \A j \in Ids : PgGet(j)' = PgGet(j) /\ MemGet(j)' = MemGet(j)
  BY <1>3 DEF PgGet, RestoreDates, MemGet, Stored
<1>10. ObjectInv'
  BY <1>3, <1>9 DEF RepositoryInv, ObjectInv, Seen, Stored
<1>11. HolderInv'
  BY <1>3, <1>5, <1>6, <1>7 DEF RepositoryInv, HolderInv, Seen, Aggregates
<1>12. UnsavedInv'
  <2> SUFFICES ASSUME NEW j \in Ids, j \notin contended', NEW d \in Callers, Holds(d, j)',
                      held'[d].dirty
               PROVE  /\ held'[d].copy = object'[j]
                      /\ PgGet(j)' # object'[j]
                      /\ \A b \in Callers : Holds(b, j)' /\ held'[b].copy = object'[j] => b = d
    BY DEF UnsavedInv
  <2>1. d # c /\ Holds(d, j) /\ held[d].dirty
    BY <1>6, <1>7 DEF Holds
  <2>2. /\ held[d].copy = object[j]
        /\ PgGet(j) # object[j]
        /\ \A b \in Callers : Holds(b, j) /\ held[b].copy = object[j] => b = d
    BY <1>3, <2>1 DEF RepositoryInv, UnsavedInv
  <2>3. ASSUME NEW b \in Callers, Holds(b, j)', held'[b].copy = object'[j]
        PROVE  b = d
    <3>1. CASE b = c
      <4>1. j = i /\ object[j] = PgGet(j)
        BY <1>1, <1>3, <1>5, <1>6, <1>7, <2>3, <3>1 DEF Holds, Seen
      <4> QED
        BY <2>2, <4>1
    <3>2. CASE b # c
      BY <1>3, <1>7, <2>2, <2>3, <3>2 DEF Holds
    <3> QED
      BY <3>1, <3>2
  <2> QED
    BY <1>3, <1>7, <1>9, <2>1, <2>2, <2>3
<1>13. SameEntity'
  <2> SUFFICES ASSUME NEW j \in Ids, Settled(j)' PROVE MemGet(j)' = PgGet(j)'
    BY DEF SameEntity
  <2>1. Settled(j)
    BY <1>3, <1>7 DEF Settled
  <2> QED
    BY <1>9, <2>1 DEF RepositoryInv, SameEntity
<1>14. KeyInv'
  BY <1>3 DEF KeyInv
<1> QED
  BY <1>8, <1>10, <1>11, <1>12, <1>13, <1>14 DEF RepositoryInv

LEMMA ChangeStep ==
    ASSUME RepositoryInv, NEW c \in Callers, Change(c)
    PROVE  RepositoryInv'
<1>1. PICK i, n, old : i = held[c].copy.id /\ n = made + 1 /\ old = held[c].copy
  OBVIOUS
<1>2. /\ held[c] # Nil /\ made < MaxChanges
      /\ object' = [object EXCEPT ![i].changes = @ \cup {n}]
      /\ held' = [held EXCEPT ![c].copy.changes = @ \cup {n}, ![c].dirty = TRUE]
      /\ contended' = contended \cup (IF old = object[i] THEN {} ELSE {i})
      /\ made' = n
      /\ UNCHANGED <<kind, order, actionKeys, table>>
  BY <1>1 DEF Change
<1>3. /\ held[c] \in HeldType /\ old \in EntityType /\ old.id = i /\ i \in Ids
      /\ object[i] # Nil /\ object[i] \in EntityType /\ object[i].id = i
      /\ Seen(old, i) /\ Seen(object[i], i) /\ kind \in Aggregates
  BY <1>1, <1>2 DEF RepositoryInv, RepositoryTyped, HolderInv, ObjectInv, HeldType, EntityType, Seen
<1>4. made \in Nat /\ n \in 1..MaxChanges /\ n \notin 1..made /\ 1..made \subseteq 1..n
      /\ n \in 1..n
  BY <1>1, <1>2, RepositoriesAssumption DEF RepositoryInv, RepositoryTyped
<1>5. PICK o, f : o = [object[i] EXCEPT !.changes = @ \cup {n}]
                  /\ f = [old EXCEPT !.changes = @ \cup {n}]
  OBVIOUS
<1>6. \A q \in EntityType : LET r == [q EXCEPT !.changes = @ \cup {n}] IN
        /\ r \in EntityType /\ r.id = q.id /\ r.group = q.group
        /\ r.changes = q.changes \cup {n}
  BY <1>4 DEF EntityType, Changes
<1>7. /\ o \in EntityType /\ o.id = i /\ o.changes = object[i].changes \cup {n}
      /\ f \in EntityType /\ f.id = i /\ f.changes = old.changes \cup {n} /\ f.group = old.group
      /\ old = object[i] => f = o
  BY <1>3, <1>5, <1>6
<1>8. PICK h : h = [copy |-> f, dirty |-> TRUE]
  OBVIOUS
<1>9. h \in HeldType /\ h # Nil /\ h.copy = f /\ h.dirty
  <2>1. h \in HeldType /\ h.copy = f
    BY <1>7, <1>8 DEF HeldType
  <2>2. h.dirty
    BY <1>8
  <2> QED
    BY <2>1, <2>2, NilIsNone
<1>10. object' = [object EXCEPT ![i] = o] /\ held' = [held EXCEPT ![c] = h]
  <2>1. object' = [object EXCEPT ![i] = o]
    BY <1>2, <1>5
  <2>2. [[held[c] EXCEPT !.copy = f] EXCEPT !.dirty = TRUE] = h
    <3>1. PICK k, m : k = held[c] /\ m = [k EXCEPT !.copy = f]
      OBVIOUS
    <3>2. m \in HeldType /\ m.copy = f
      BY <1>3, <1>7, <3>1 DEF HeldType
    <3>3. \A d : [m EXCEPT !.dirty = d] = [copy |-> m.copy, dirty |-> d]
      BY <3>2 DEF HeldType
    <3> QED
      BY <1>8, <3>1, <3>2, <3>3
  <2>3. held' = [held EXCEPT ![c] = h]
    BY <1>1, <1>2, <1>3, <1>5, <2>2 DEF RepositoryInv, RepositoryTyped
  <2> QED
    BY <2>1, <2>3
<1>11. object'[i] = o /\ \A j \in Ids : j # i => object'[j] = object[j]
  BY <1>3, <1>10 DEF RepositoryInv, RepositoryTyped
<1>12. held'[c] = h /\ \A d \in Callers : d # c => held'[d] = held[d]
  BY <1>10 DEF RepositoryInv, RepositoryTyped
<1>13. RepositoryTyped'
  <2>1. object' \in [Ids -> EntityType \cup {Nil}]
    BY <1>7, <1>10 DEF RepositoryInv, RepositoryTyped
  <2>2. held' \in [Callers -> HeldType \cup {Nil}]
    BY <1>9, <1>10 DEF RepositoryInv, RepositoryTyped
  <2>3. made' \in 0..MaxChanges
    BY <1>2, <1>4, RepositoriesAssumption
  <2> QED
    BY <1>2, <2>1, <2>2, <2>3 DEF RepositoryInv, RepositoryTyped
<1>14. \A j \in Ids : PgGet(j)' = PgGet(j)
  BY <1>2 DEF PgGet, RestoreDates
<1>15. Stored' = Stored
  BY <1>2 DEF Stored
<1>16. \A e, j : Seen(e, j) => Seen(e, j)'
  BY <1>2, <1>4 DEF Seen
<1>17. o # Nil /\ Seen(o, i)' /\ Seen(f, i)'
  BY <1>2, <1>3, <1>4, <1>7, NilIsNone DEF Seen
<1>18. ObjectInv'
  <2> SUFFICES ASSUME NEW j \in Ids
               PROVE  /\ object'[j] # Nil => Seen(object[j], j)'
                      /\ table'[j] # Nil <=> j \in Stored'
                      /\ table'[j] # Nil => object'[j] # Nil /\ Seen(PgGet(j), j)'
    BY DEF ObjectInv
  <2>1. /\ object[j] # Nil => Seen(object[j], j)
        /\ table[j] # Nil <=> j \in Stored
        /\ table[j] # Nil => object[j] # Nil /\ Seen(PgGet(j), j)
    BY DEF RepositoryInv, ObjectInv
  <2>2. PICK was, g : was = object[j] /\ g = PgGet(j)
    OBVIOUS
  <2>3. (was # Nil => Seen(was, j)') /\ (table[j] # Nil => Seen(g, j)')
    BY <1>16, <2>1, <2>2
  <2>4. CASE j = i
    BY <1>2, <1>11, <1>14, <1>15, <1>17, <2>1, <2>2, <2>3, <2>4 DEF Seen
  <2>5. CASE j # i
    BY <1>2, <1>11, <1>14, <1>15, <2>1, <2>2, <2>3, <2>5 DEF Seen
  <2> QED
    BY <2>4, <2>5
<1>19. HolderInv'
  <2> SUFFICES ASSUME NEW d \in Callers, held'[d] # Nil
               PROVE  /\ kind' \in Aggregates
                      /\ object'[held'[d].copy.id] # Nil
                      /\ Seen(held[d].copy, held[d].copy.id)'
    BY DEF HolderInv
  <2>1. CASE d = c
    BY <1>2, <1>3, <1>7, <1>9, <1>11, <1>12, <1>17, <2>1 DEF Seen
  <2>2. CASE d # c
    <3>1. /\ held[d] # Nil /\ held'[d] = held[d]
          /\ object[held[d].copy.id] # Nil /\ held[d].copy.id \in Ids
          /\ Seen(held[d].copy, held[d].copy.id)
      BY <1>12, <2>2 DEF RepositoryInv, RepositoryTyped, HolderInv, HeldType, EntityType
    <3>2. PICK was : was = held[d].copy
      OBVIOUS
    <3>3. Seen(was, was.id)'
      BY <1>16, <3>1, <3>2
    <3> QED
      BY <1>2, <1>3, <1>11, <1>17, <3>1, <3>2, <3>3 DEF Seen
  <2> QED
    BY <2>1, <2>2
<1>20. \A d \in Callers : d # c => (Holds(d, i)' <=> Holds(d, i))
  BY <1>12 DEF Holds
<1>21. UnsavedInv'
  <2> SUFFICES ASSUME NEW j \in Ids, j \notin contended', NEW d \in Callers, Holds(d, j)',
                      held'[d].dirty
               PROVE  /\ held'[d].copy = object'[j]
                      /\ PgGet(j)' # object'[j]
                      /\ \A b \in Callers : Holds(b, j)' /\ held'[b].copy = object'[j] => b = d
    BY DEF UnsavedInv
  <2>1. CASE j = i
    <3>1. i \notin contended /\ old = object[i]
      BY <1>2, <2>1
    <3>2. d = c
      <4> SUFFICES ASSUME d # c PROVE FALSE
        OBVIOUS
      <4>1. Holds(d, i) /\ held[d].dirty /\ Holds(c, i) /\ held[c].copy = object[i]
        BY <1>1, <1>2, <1>12, <1>20, <2>1, <3>1 DEF Holds
      <4> QED
        BY <1>3, <3>1, <4>1 DEF RepositoryInv, UnsavedInv
    <3>3. PgGet(i) # o
      <4>1. PgGet(i) # Nil => Seen(PgGet(i), i)
        BY <1>3 DEF RepositoryInv, ObjectInv, PgGet
      <4> QED
        BY <1>4, <1>7, <1>17, <4>1 DEF Seen
    <3>4. ASSUME NEW b \in Callers, Holds(b, i)', held'[b].copy = o PROVE b = c
      <4>1. b # c => n \notin held[b].copy.changes /\ held'[b] = held[b]
        BY <1>4, <1>12, <1>20, <3>4 DEF Holds, RepositoryInv, HolderInv, Seen
      <4> QED
        BY <1>7, <3>4, <4>1
    <3> QED
      BY <1>3, <1>7, <1>9, <1>11, <1>12, <1>14, <2>1, <3>1, <3>2, <3>3, <3>4
  <2>2. CASE j # i
    <3>1. \A b \in Callers : Holds(b, j)' => b # c /\ held'[b] = held[b] /\ Holds(b, j)
      BY <1>7, <1>9, <1>12, <2>2 DEF Holds
    <3>2. j \notin contended /\ Holds(d, j) /\ held[d].dirty /\ held'[d] = held[d]
      BY <1>2, <3>1
    <3>3. /\ held[d].copy = object[j]
          /\ PgGet(j) # object[j]
          /\ \A b \in Callers : Holds(b, j) /\ held[b].copy = object[j] => b = d
      BY <3>2 DEF RepositoryInv, UnsavedInv
    <3> QED
      BY <1>11, <1>14, <2>2, <3>1, <3>2, <3>3
  <2> QED
    BY <2>1, <2>2
<1>22. SameEntity'
  <2> SUFFICES ASSUME NEW j \in Ids, Settled(j)' PROVE MemGet(j)' = PgGet(j)'
    BY DEF SameEntity
  <2>1. j # i
    BY <1>7, <1>9, <1>12 DEF Settled
  <2>2. Settled(j)
    BY <1>1, <1>2, <1>12, <2>1 DEF Settled
  <2> QED
    BY <1>11, <1>14, <1>15, <2>1, <2>2 DEF MemGet, RepositoryInv, SameEntity
<1>23. KeyInv'
  <2> SUFFICES ASSUME kind = "run", NEW d \in Callers, held'[d] # Nil
               PROVE  actionKeys'[held'[d].copy.group] = held'[d].copy.id
    BY <1>2 DEF RepositoryInv, KeyInv
  <2>1. actionKeys[old.group] = i
    BY <1>1, <1>2 DEF RepositoryInv, KeyInv
  <2> QED
    BY <1>2, <1>7, <1>9, <1>12, <2>1 DEF RepositoryInv, KeyInv
<1> QED
  BY <1>13, <1>18, <1>19, <1>21, <1>22, <1>23 DEF RepositoryInv

LEMMA SaveStep ==
    ASSUME RepositoryInv, NEW c \in Callers, Save(c)
    PROVE  RepositoryInv'
<1>1. PICK e, i : e = held[c].copy /\ i = e.id
  OBVIOUS
<1>2. /\ held[c] # Nil /\ held[c].dirty
      /\ held' = [held EXCEPT ![c].dirty = FALSE]
      /\ order' = Assigned(e.id)
      /\ table' = Upsert(e, e.time)
      /\ actionKeys' = IF kind = "run" THEN [actionKeys EXCEPT ![e.group] = e.id] ELSE actionKeys
      /\ UNCHANGED <<kind, object, made, contended>>
  BY <1>1 DEF Save, SaveActionRun
<1>3. /\ held[c] \in HeldType /\ Seen(e, i) /\ i \in Ids /\ object[i] # Nil
      /\ kind \in Aggregates /\ kind # "rule" /\ e \in EntityType /\ e.time \in Time
      /\ e.group \in Groups
  <2>1. held[c] \in HeldType /\ Seen(e, i) /\ object[i] # Nil /\ kind \in Aggregates
    BY <1>1, <1>2 DEF RepositoryInv, RepositoryTyped, HolderInv
  <2> QED
    BY <1>1, <2>1 DEF Seen, EntityType, Aggregates
<1>4. PICK h : h = [held[c] EXCEPT !.dirty = FALSE]
  OBVIOUS
<1>5. h \in HeldType /\ h # Nil /\ h.copy = e /\ ~h.dirty
  <2>1. h \in HeldType /\ h.copy = e
    BY <1>1, <1>3, <1>4 DEF HeldType
  <2>2. ~h.dirty
    BY <1>3, <1>4 DEF HeldType
  <2> QED
    BY <2>1, <2>2, NilIsNone
<1>6. held' = [held EXCEPT ![c] = h]
  BY <1>2, <1>4
<1>7. held'[c] = h /\ \A d \in Callers : d # c => held'[d] = held[d]
  BY <1>6 DEF RepositoryInv, RepositoryTyped
<1>8. /\ order' \in Seq(Ids)
      /\ Stored' = Stored \cup {i}
      /\ table' \in [Ids -> RowType(IF kind = "rule" THEN Time ELSE [iso: Time]) \cup {Nil}]
      /\ \A j \in Ids \ {i} : table'[j] = table[j]
      /\ table'[i] # Nil
      /\ table'[i].key = IF table[i] = Nil THEN e.group ELSE table[i].key
      /\ \A j \in Ids : PgGet(j)' = IF j = i THEN e ELSE PgGet(j)
  BY <1>1, <1>2, <1>3, SaveStores DEF RepositoryInv
<1>9. actionKeys' = actionKeys
  <2>1. kind = "run" => actionKeys[e.group] = e.id
    BY <1>1, <1>2 DEF RepositoryInv, KeyInv
  <2> QED
    BY <1>2, <1>3, <2>1 DEF RepositoryInv, RepositoryTyped
<1>10. RepositoryTyped'
  BY <1>2, <1>5, <1>6, <1>8, <1>9 DEF RepositoryInv, RepositoryTyped
<1>11. ObjectInv'
  <2>1. Seen(e, i)' /\ object'[i] # Nil /\ i \in Stored' /\ PgGet(i)' = e
    BY <1>2, <1>3, <1>8 DEF Seen
  <2>2. \A j \in Ids : object'[j] # Nil => Seen(object[j], j)'
    BY <1>2 DEF RepositoryInv, ObjectInv, Seen
  <2>3. ASSUME NEW j \in Ids, j # i
        PROVE  /\ table'[j] # Nil <=> j \in Stored'
               /\ table'[j] # Nil => object'[j] # Nil /\ Seen(PgGet(j), j)'
    BY <1>2, <1>8, <2>3 DEF RepositoryInv, ObjectInv, Seen
  <2>4. Seen(PgGet(i), i)'
    BY <2>1 DEF Seen
  <2> QED
    BY <1>8, <2>1, <2>2, <2>3, <2>4 DEF ObjectInv
<1>12. \A d \in Callers : held'[d] # Nil => held[d] # Nil /\ held'[d].copy = held[d].copy
  BY <1>1, <1>2, <1>5, <1>7
<1>13. HolderInv'
  BY <1>2, <1>12 DEF RepositoryInv, HolderInv, Seen
<1>14. UnsavedInv'
  <2> SUFFICES ASSUME NEW j \in Ids, j \notin contended', NEW d \in Callers, Holds(d, j)',
                      held'[d].dirty
               PROVE  /\ held'[d].copy = object'[j]
                      /\ PgGet(j)' # object'[j]
                      /\ \A b \in Callers : Holds(b, j)' /\ held'[b].copy = object'[j] => b = d
    BY DEF UnsavedInv
  <2>1. d # c /\ held[d].dirty
    BY <1>5, <1>7
  <2>2. Holds(d, j) /\ \A b \in Callers : Holds(b, j)' => Holds(b, j) /\ held'[b].copy = held[b].copy
    BY <1>12 DEF Holds
  <2>3. /\ held[d].copy = object[j]
        /\ PgGet(j) # object[j]
        /\ \A b \in Callers : Holds(b, j) /\ held[b].copy = object[j] => b = d
    BY <1>2, <2>1, <2>2 DEF RepositoryInv, UnsavedInv
  <2>4. j # i
    <3> SUFFICES ASSUME j = i PROVE FALSE
      OBVIOUS
    <3>1. held[c].copy = object[i]
      BY <1>1, <1>2 DEF RepositoryInv, UnsavedInv, Holds
    <3> QED
      BY <1>1, <1>2, <2>1, <2>3, <3>1 DEF Holds
  <2> QED
    BY <1>2, <1>8, <2>1, <2>2, <2>3, <2>4
<1>15. SameEntity'
  <2> SUFFICES ASSUME NEW j \in Ids, Settled(j)' PROVE MemGet(j)' = PgGet(j)'
    BY DEF SameEntity
  <2>1. CASE j = i
    <3>1. e = object[i]
      BY <1>1, <1>2, <2>1 DEF RepositoryInv, UnsavedInv, Holds, Settled
    <3> QED
      BY <1>2, <1>8, <2>1, <3>1 DEF MemGet
  <2>2. CASE j # i
    <3>1. Settled(j)
      BY <1>1, <1>2, <1>7, <2>2 DEF Settled
    <3> QED
      BY <1>2, <1>8, <2>2, <3>1 DEF MemGet, RepositoryInv, SameEntity
  <2> QED
    BY <2>1, <2>2
<1>16. KeyInv'
  <2> SUFFICES ASSUME kind = "run" PROVE KeyInv'
    BY <1>2 DEF KeyInv
  <2>1. actionKeys[e.group] = i
    BY <1>1, <1>2 DEF RepositoryInv, KeyInv
  <2>2. table[i] # Nil /\ table[i].key = e.group
    BY <1>3, <2>1 DEF RepositoryInv, KeyInv
  <2>3. \A j \in Ids : \/ table'[j] # Nil /\ table[j] # Nil /\ table'[j].key = table[j].key
                       \/ table'[j] = table[j]
    BY <1>8, <2>2
  <2>4. \A j \in Ids, k \in Groups : table'[j] # Nil /\ table'[j].key = k <=> actionKeys'[k] = j
    BY <1>9, <2>3 DEF RepositoryInv, KeyInv
  <2>5. \A d \in Callers : held'[d] # Nil => actionKeys'[held'[d].copy.group] = held'[d].copy.id
    BY <1>9, <1>12 DEF RepositoryInv, KeyInv
  <2> QED
    BY <2>4, <2>5 DEF KeyInv
<1> QED
  BY <1>10, <1>11, <1>13, <1>14, <1>15, <1>16 DEF RepositoryInv

LEMMA ReleaseStep ==
    ASSUME RepositoryInv, NEW c \in Callers, Release(c)
    PROVE  RepositoryInv'
<1>1. /\ held[c] # Nil /\ ~held[c].dirty
      /\ held' = [held EXCEPT ![c] = Nil]
      /\ UNCHANGED <<kind, object, order, actionKeys, table, made, contended>>
  BY DEF Release
<1>2. \A d \in Callers : held'[d] # Nil => held[d] # Nil /\ held'[d] = held[d] /\ d # c
  BY <1>1 DEF RepositoryInv, RepositoryTyped
<1>3. \A d \in Callers : d # c => held'[d] = held[d]
  BY <1>1 DEF RepositoryInv, RepositoryTyped
<1>4. RepositoryTyped'
  BY <1>1 DEF RepositoryInv, RepositoryTyped
<1>5. \A j \in Ids : PgGet(j)' = PgGet(j) /\ MemGet(j)' = MemGet(j)
  BY <1>1 DEF PgGet, RestoreDates, MemGet, Stored
<1>6. ObjectInv'
  BY <1>1, <1>5 DEF RepositoryInv, ObjectInv, Seen, Stored
<1>7. HolderInv'
  BY <1>1, <1>2 DEF RepositoryInv, HolderInv, Seen
<1>8. \A j \in Ids, d \in Callers : Holds(d, j)' => Holds(d, j) /\ held'[d] = held[d]
  BY <1>2 DEF Holds
<1>9. UnsavedInv'
  BY <1>1, <1>5, <1>8 DEF RepositoryInv, UnsavedInv
<1>10. SameEntity'
  <2> SUFFICES ASSUME NEW j \in Ids, Settled(j)' PROVE MemGet(j)' = PgGet(j)'
    BY DEF SameEntity
  <2>1. Settled(j)
    BY <1>1, <1>3 DEF Settled
  <2> QED
    BY <1>5, <2>1 DEF RepositoryInv, SameEntity
<1>11. KeyInv'
  BY <1>1, <1>2 DEF RepositoryInv, KeyInv
<1> QED
  BY <1>4, <1>6, <1>7, <1>9, <1>10, <1>11 DEF RepositoryInv

(* Of a frozen entity nobody holds a copy to change.                        *)
LEMMA PutStep ==
    ASSUME RepositoryInv, NEW i \in Ids, NEW g \in Groups, NEW t \in Time, Put(i, g, t)
    PROVE  RepositoryInv'
<1>1. PICK e : e = Entity(i, g, t)
  OBVIOUS
<1>2. e \in EntityType /\ e.id = i /\ e.changes = {}
  BY <1>1, RepositoriesAssumption DEF Entity, EntityType, Time, Changes
<1>3. /\ kind \in Latest \cup Facts
      /\ object' = [object EXCEPT ![i] = e]
      /\ order' = Assigned(e.id)
      /\ table' = IF kind \in {"change", "approval"} THEN Upsert(e, t) ELSE MonitorUpsert(e, t)
      /\ UNCHANGED <<kind, actionKeys, held, made, contended>>
  BY <1>1, <1>2 DEF Put
<1>4. kind \notin Aggregates /\ kind # "run"
  BY <1>3 DEF Latest, Facts, Aggregates
<1>5. \A d \in Callers : held[d] = Nil
  BY <1>4 DEF RepositoryInv, HolderInv
<1>6. object'[i] = e /\ e # Nil /\ \A j \in Ids : j # i => object'[j] = object[j]
  BY <1>2, <1>3, NilIsNone DEF RepositoryInv, RepositoryTyped
<1>7. /\ order' \in Seq(Ids)
      /\ Stored' = Stored \cup {i}
      /\ table' \in [Ids -> RowType(IF kind = "rule" THEN Time ELSE [iso: Time]) \cup {Nil}]
      /\ \A j \in Ids \ {i} : table'[j] = table[j]
      /\ table'[i] # Nil
      /\ \A j \in Ids : PgGet(j)' = IF j = i THEN e ELSE PgGet(j)
  BY <1>2, <1>3, SaveStores DEF RepositoryInv
<1>8. RepositoryTyped'
  BY <1>2, <1>3, <1>7 DEF RepositoryInv, RepositoryTyped
<1>9. ObjectInv'
  <2>1. object'[i] # Nil /\ Seen(object[i], i)' /\ i \in Stored' /\ Seen(PgGet(i), i)'
    BY <1>2, <1>6, <1>7 DEF Seen
  <2>2. ASSUME NEW j \in Ids, j # i
        PROVE  /\ object'[j] # Nil => Seen(object[j], j)'
               /\ table'[j] # Nil <=> j \in Stored'
               /\ table'[j] # Nil => object'[j] # Nil /\ Seen(PgGet(j), j)'
    BY <1>3, <1>6, <1>7, <2>2 DEF RepositoryInv, ObjectInv, Seen
  <2> QED
    BY <1>7, <2>1, <2>2 DEF ObjectInv
<1>10. HolderInv' /\ UnsavedInv' /\ KeyInv'
  BY <1>3, <1>4, <1>5 DEF HolderInv, UnsavedInv, Holds, KeyInv
<1>11. SameEntity'
  <2> SUFFICES ASSUME NEW j \in Ids, Settled(j)' PROVE MemGet(j)' = PgGet(j)'
    BY DEF SameEntity
  <2>1. CASE j = i
    BY <1>6, <1>7, <2>1 DEF MemGet
  <2>2. CASE j # i
    <3>1. Settled(j)
      BY <1>3 DEF Settled
    <3> QED
      BY <1>6, <1>7, <2>2, <3>1 DEF MemGet, RepositoryInv, SameEntity
  <2> QED
    BY <2>1, <2>2
<1> QED
  BY <1>8, <1>9, <1>10, <1>11 DEF RepositoryInv

LEMMA RepositoryStep == RepositoryInv /\ [Next]_vars => RepositoryInv'
<1> SUFFICES ASSUME RepositoryInv, [Next]_vars PROVE RepositoryInv'
  OBVIOUS
<1>1. CASE \E c \in Callers, i \in Ids, g \in Groups, t \in 0..MaxTime :
             Make(c, i, g, t) \/ Submit(c, i, g, t)
  BY <1>1, MakeStep, SubmitStep DEF Time
<1>2. CASE \E c \in Callers, i \in Ids : Get(c, i)
  BY <1>2, GetStep
<1>3. CASE \E c \in Callers : Change(c) \/ Save(c) \/ Release(c)
  BY <1>3, ChangeStep, SaveStep, ReleaseStep
<1>4. CASE \E i \in Ids, g \in Groups, t \in 0..MaxTime : Put(i, g, t)
  BY <1>4, PutStep DEF Time
<1>5. CASE UNCHANGED vars
  <2>1. UNCHANGED <<kind, object, order, actionKeys, table, held, made, contended>>
    BY <1>5 DEF vars
  <2>2. \A j \in Ids : PgGet(j)' = PgGet(j) /\ MemGet(j)' = MemGet(j)
    BY <2>1 DEF PgGet, RestoreDates, MemGet, Stored
  <2>3. RepositoryTyped' /\ HolderInv' /\ KeyInv'
    BY <2>1 DEF RepositoryInv, RepositoryTyped, HolderInv, Seen, KeyInv
  <2>4. ObjectInv'
    BY <2>1, <2>2 DEF RepositoryInv, ObjectInv, Seen, Stored
  <2>5. UnsavedInv'
    BY <2>1, <2>2 DEF RepositoryInv, UnsavedInv, Holds
  <2>6. SameEntity'
    BY <2>1, <2>2 DEF RepositoryInv, SameEntity, Settled
  <2> QED
    BY <2>3, <2>4, <2>5, <2>6 DEF RepositoryInv
<1> QED
  BY <1>1, <1>2, <1>3, <1>4, <1>5 DEF Next

LEMMA RepositoryStarts == Init => RepositoryInv
<1> SUFFICES ASSUME Init PROVE RepositoryInv
  OBVIOUS
<1>1. Stored = {}
  BY DEF Init, Stored, ToSet
<1>2. \A i \in Ids : MemGet(i) = Nil /\ PgGet(i) = Nil
  BY <1>1 DEF Init, MemGet, PgGet
<1>3. RepositoryTyped
  BY RepositoriesAssumption DEF Init, RepositoryTyped
<1>4. ObjectInv /\ HolderInv /\ UnsavedInv /\ SameEntity
  BY <1>1, <1>2 DEF Init, ObjectInv, HolderInv, UnsavedInv, SameEntity, Holds
<1>5. KeyInv
  BY NilIsNone DEF Init, KeyInv
<1> QED
  BY <1>3, <1>4, <1>5 DEF RepositoryInv

(* Whatever callers take out, change and save, an entity that nobody raced  *)
(* for and everybody saved reads the same from memory and from PostgreSQL   *)
(* (InMemoryRepository, PostgresRepository).                                *)
THEOREM RepositoriesAgree == Spec => []SameEntity
<1>1. RepositoryInv => SameEntity
  BY DEF RepositoryInv
<1> QED
  BY <1>1, RepositoryStarts, RepositoryStep, PTL DEF Spec

(* An idempotency key leads to the same run in both, and to one             *)
(* (get_action_run_by_key).                                                 *)
LEMMA RunsAreFound ==
    Spec => [](kind = "run" => \A k \in Groups :
                 {e.id : e \in PgByKey(k)} = IF MemByKey(k) = Nil THEN {} ELSE {MemByKey(k).id})
<1> DEFINE Found == kind = "run" => \A k \in Groups :
             {e.id : e \in PgByKey(k)} = IF MemByKey(k) = Nil THEN {} ELSE {MemByKey(k).id}
<1>1. RepositoryInv => Found
  <2> SUFFICES ASSUME RepositoryInv, kind = "run", NEW k \in Groups
               PROVE  {e.id : e \in PgByKey(k)}
                        = IF MemByKey(k) = Nil THEN {} ELSE {MemByKey(k).id}
    OBVIOUS
  <2>1. \A j \in Ids : table[j] # Nil /\ table[j].key = k <=> actionKeys[k] = j
    BY DEF RepositoryInv, KeyInv
  <2>2. CASE actionKeys[k] = Nil
    <3>1. PgByKey(k) = {}
      BY <2>1, <2>2, NilIsNone DEF PgByKey
    <3> QED
      BY <2>2, <3>1 DEF MemByKey
  <2>3. CASE actionKeys[k] # Nil
    <3>1. PICK i \in Ids : i = actionKeys[k]
      BY <2>3 DEF RepositoryInv, RepositoryTyped
    <3>2. PgByKey(k) = {PgGet(i)}
      BY <2>1, <3>1 DEF PgByKey
    <3>3. /\ table[i] # Nil /\ i \in Stored /\ PgGet(i).id = i
          /\ object[i] # Nil /\ object[i].id = i
      BY <2>1, <3>1 DEF RepositoryInv, ObjectInv, Seen
    <3> QED
      BY <2>3, <3>1, <3>2, <3>3 DEF MemByKey, MemGet
  <2> QED
    BY <2>2, <2>3
<1> QED
  BY <1>1, RepositoryStarts, RepositoryStep, PTL DEF Spec

-----------------------------------------------------------------------------
(* Lists.  Any of the stored entities have an order in which the newer come *)
(* first, and of one time those that were inserted earlier.                 *)

LEMMA StoredBounds ==
    ASSUME order \in Seq(Ids)
    PROVE  IsFiniteSet(Stored) /\ Cardinality(Stored) <= Len(order) /\ Stored \subseteq Ids
<1>1. PICK n \in Nat : n = Len(order) /\ order \in [1..n -> Ids]
  OBVIOUS
<1>2. order \in Surjection(1..n, Stored)
  BY <1>1 DEF Surjection, Stored, ToSet
<1>3. IsFiniteSet(1..n) /\ Cardinality(1..n) = n
  BY FS_Interval
<1>4. IsFiniteSet(Stored) /\ Cardinality(Stored) <= Len(order)
  BY <1>1, <1>2, <1>3, FS_Surjection
<1> QED
  BY <1>1, <1>4 DEF Stored, ToSet

LEMMA PositionIs ==
    ASSUME order \in Seq(Ids), NEW i \in Stored
    PROVE  Position(i) \in Nat /\ order[Position(i)] = i
<1>1. \E n \in DOMAIN order : order[n] = i
  BY DEF Stored, ToSet
<1>2. Position(i) \in DOMAIN order /\ order[Position(i)] = i
  BY <1>1 DEF Position
<1>3. DOMAIN order = 1..Len(order) /\ Len(order) \in Nat
  OBVIOUS
<1> QED
  BY <1>2, <1>3

LEMMA BeforeOrders ==
    ASSUME RepositoryInv, NEW i \in Stored, NEW j \in Stored, NEW k \in Stored
    PROVE  /\ ~Before(i, i)
           /\ Before(i, j) /\ Before(j, k) => Before(i, k)
           /\ i # j => Before(i, j) \/ Before(j, i)
           /\ Before(i, j) => object[i].time >= object[j].time
           /\ object[i].time \in Nat
<1>1. order \in Seq(Ids)
  BY DEF RepositoryInv, RepositoryTyped
<1>2. Stored \subseteq Ids
  BY <1>1, StoredBounds
<1>3. \A n \in Stored : object[n].time \in Nat
  BY <1>2, RepositoriesAssumption
     DEF RepositoryInv, ObjectInv, Seen, EntityType, Time
<1>4. \A n \in Stored : Position(n) \in Nat /\ order[Position(n)] = n
  BY <1>1, PositionIs
<1> QED
  BY <1>3, <1>4 DEF Before

(* The place of an entity is given by how many of the others come before    *)
(* it: no two have as many, so that every place is taken.                   *)
LEMMA OrderExists ==
    ASSUME RepositoryInv, NEW chosen \in SUBSET Stored
    PROVE  /\ IsFiniteSet(chosen)
           /\ \E s \in [1..Cardinality(chosen) -> chosen] :
                \A a, b \in DOMAIN s : a < b => Before(s[a], s[b])
<1>1. IsFiniteSet(chosen) /\ Cardinality(chosen) \in Nat
  BY StoredBounds, FS_Subset, FS_CardinalityType DEF RepositoryInv, RepositoryTyped
<1> DEFINE Earlier(i) == {j \in chosen : Before(j, i)}
           rank == [i \in chosen |-> Cardinality(Earlier(i)) + 1]
           places == 1..Cardinality(chosen)
<1>2. \A i \in chosen : rank[i] \in places
  <2> SUFFICES ASSUME NEW i \in chosen PROVE rank[i] \in places
    OBVIOUS
  <2>1. Earlier(i) \in SUBSET (chosen \ {i})
    BY BeforeOrders
  <2>2. IsFiniteSet(chosen \ {i}) /\ Cardinality(chosen \ {i}) = Cardinality(chosen) - 1
    BY <1>1, FS_RemoveElement
  <2>3. IsFiniteSet(Earlier(i)) /\ Cardinality(Earlier(i)) <= Cardinality(chosen) - 1
    BY <2>1, <2>2, FS_Subset
  <2>4. Cardinality(Earlier(i)) \in Nat
    BY <2>3, FS_CardinalityType
  <2> QED
    BY <1>1, <2>3, <2>4
<1>3. \A i, j \in chosen : Before(i, j) => rank[i] < rank[j]
  <2> SUFFICES ASSUME NEW i \in chosen, NEW j \in chosen, Before(i, j) PROVE rank[i] < rank[j]
    OBVIOUS
  <2>1. Earlier(i) \in SUBSET Earlier(j)
    BY BeforeOrders
  <2>2. i \in Earlier(j) /\ i \notin Earlier(i)
    BY BeforeOrders
  <2>3. IsFiniteSet(Earlier(j))
    BY <1>1, FS_Subset
  <2>4. IsFiniteSet(Earlier(i)) /\ Cardinality(Earlier(i)) <= Cardinality(Earlier(j))
        /\ Cardinality(Earlier(i)) # Cardinality(Earlier(j))
    BY <2>1, <2>2, <2>3, FS_Subset
  <2>5. Cardinality(Earlier(i)) \in Nat /\ Cardinality(Earlier(j)) \in Nat
    BY <2>3, <2>4, FS_CardinalityType
  <2> QED
    BY <2>4, <2>5
<1>4. rank \in Injection(chosen, places)
  <2>1. \A i, j \in chosen : rank[i] = rank[j] => i = j
    <3> SUFFICES ASSUME NEW i \in chosen, NEW j \in chosen, i # j PROVE rank[i] # rank[j]
      OBVIOUS
    <3>1. Before(i, j) \/ Before(j, i)
      BY BeforeOrders
    <3>2. rank[i] < rank[j] \/ rank[j] < rank[i]
      BY <1>3, <3>1
    <3>3. rank[i] \in Nat /\ rank[j] \in Nat
      BY <1>1, <1>2
    <3> HIDE DEF rank
    <3> QED
      BY <3>2, <3>3
  <2>2. rank \in [chosen -> places]
    BY <1>2
  <2>3. IsInjective(rank)
    BY <2>1 DEF IsInjective
  <2> QED
    BY <2>2, <2>3 DEF Injection
<1>5. IsFiniteSet(places) /\ Cardinality(places) = Cardinality(chosen)
  BY <1>1, FS_Interval
<1>6. rank \in Surjection(chosen, places)
  BY <1>4, <1>5, FS_Injection
<1>7. \A a \in places : \E i \in chosen : rank[i] = a
  BY <1>6 DEF Surjection
<1> DEFINE s == [a \in places |-> CHOOSE i \in chosen : rank[i] = a]
<1>8. s \in [places -> chosen] /\ \A a \in places : rank[s[a]] = a
  <2> HIDE DEF rank
  <2> QED
    BY <1>7
<1>9. \A a, b \in places : a < b => Before(s[a], s[b])
  <2> SUFFICES ASSUME NEW a \in places, NEW b \in places, a < b PROVE Before(s[a], s[b])
    OBVIOUS
  <2>1. PICK i, j \in chosen : i = s[a] /\ j = s[b]
    BY <1>8
  <2>2. rank[i] = a /\ rank[j] = b
    BY <1>8, <2>1
  <2>3. a \in Nat /\ b \in Nat
    BY <1>1
  <2> HIDE DEF rank, s, places
  <2>4. i # j /\ ~Before(j, i)
    BY <1>3, <2>2, <2>3
  <2>5. Before(i, j)
    BY <2>4, BeforeOrders
  <2> QED
    BY <2>1, <2>5
<1> HIDE DEF s
<1> QED
  BY <1>1, <1>8, <1>9

LEMMA NewestFirstIs ==
    ASSUME RepositoryInv, NEW chosen \in SUBSET Stored
    PROVE  /\ IsFiniteSet(chosen) /\ Cardinality(chosen) \in Nat
           /\ NewestFirst(chosen) \in Seq(chosen)
           /\ Len(NewestFirst(chosen)) = Cardinality(chosen)
           /\ IsInjective(NewestFirst(chosen))
           /\ ToSet(NewestFirst(chosen)) = chosen
           /\ \A a, b \in 1..Cardinality(chosen) :
                a < b => object[NewestFirst(chosen)[a]].time >= object[NewestFirst(chosen)[b]].time
<1>1. IsFiniteSet(chosen) /\ Cardinality(chosen) \in Nat
  BY OrderExists, FS_CardinalityType
<1>2. PICK s : s = NewestFirst(chosen)
  OBVIOUS
<1>3. s \in [1..Cardinality(chosen) -> chosen] /\ \A a, b \in DOMAIN s : a < b => Before(s[a], s[b])
  BY <1>2, OrderExists DEF NewestFirst
<1>4. \A a, b \in 1..Cardinality(chosen) : a < b => s[a] # s[b]
  <2> SUFFICES ASSUME NEW a \in 1..Cardinality(chosen), NEW b \in 1..Cardinality(chosen), a < b
               PROVE  s[a] # s[b]
    OBVIOUS
  <2>1. Before(s[a], s[b]) /\ s[a] \in Stored
    BY <1>3
  <2> QED
    BY <2>1, BeforeOrders
<1>5. IsInjective(s)
  <2> SUFFICES ASSUME NEW a \in 1..Cardinality(chosen), NEW b \in 1..Cardinality(chosen),
                      s[a] = s[b]
               PROVE  a = b
    BY <1>3 DEF IsInjective
  <2> QED
    BY <1>1, <1>4
<1>6. s \in Injection(1..Cardinality(chosen), chosen)
  BY <1>3, <1>5 DEF Injection
<1>7. Cardinality(1..Cardinality(chosen)) = Cardinality(chosen)
  BY <1>1, FS_Interval
<1>8. s \in Surjection(1..Cardinality(chosen), chosen)
  BY <1>1, <1>6, <1>7, FS_Injection
<1>9. ToSet(s) = chosen
  BY <1>3, <1>8 DEF Surjection, ToSet
<1>10. s \in Seq(chosen) /\ Len(s) = Cardinality(chosen)
  BY <1>1, <1>3
<1>11. \A a, b \in 1..Cardinality(chosen) : a < b => object[s[a]].time >= object[s[b]].time
  <2> SUFFICES ASSUME NEW a \in 1..Cardinality(chosen), NEW b \in 1..Cardinality(chosen), a < b
               PROVE  object[s[a]].time >= object[s[b]].time
    OBVIOUS
  <2>1. Before(s[a], s[b]) /\ s[a] \in Stored /\ s[b] \in Stored
    BY <1>3
  <2> QED
    BY <2>1, BeforeOrders
<1> QED
  BY <1>1, <1>2, <1>5, <1>9, <1>10, <1>11

(* The first of them are what a query of those rows may answer: where it    *)
(* cuts, nothing that is left out is newer than what is given.              *)
LEMMA FirstAnswers ==
    ASSUME RepositoryInv, NEW chosen \in SUBSET Stored, NEW n \in Nat,
           \A i \in chosen : table[i].at = object[i].time
    PROVE  /\ MayAnswer(First(NewestFirst(chosen), n), chosen, n)
           /\ Cardinality(chosen) <= n => ToSet(First(NewestFirst(chosen), n)) = chosen
<1>1. PICK all, size, m : all = NewestFirst(chosen) /\ size = Cardinality(chosen)
                          /\ m = IF n < size THEN n ELSE size
  OBVIOUS
<1>2. /\ size \in Nat /\ all \in Seq(chosen) /\ Len(all) = size
      /\ IsInjective(all) /\ ToSet(all) = chosen
      /\ \A a, b \in 1..size : a < b => object[all[a]].time >= object[all[b]].time
  BY <1>1, NewestFirstIs
<1>3. m \in 0..size /\ m \in Nat /\ size \in Nat
  BY <1>1, <1>2
<1>4. PICK s : s = First(all, n)
  OBVIOUS
<1>5. s = SubSeq(all, 1, m)
  BY <1>1, <1>2, <1>4 DEF First
<1>6. \A a \in 1..size : all[a] \in chosen
  BY <1>2
<1>7. s \in Seq(chosen) /\ Len(s) = m /\ \A a \in 1..m : s[a] = all[a]
  <2>1. \A a \in 1..m : all[a] \in chosen
    BY <1>3, <1>6
  <2> QED
    BY <1>3, <1>5, <2>1, SubSeqProperties
<1>8. DOMAIN s = 1..m /\ DOMAIN all = 1..size
  BY <1>2, <1>7
<1>9. \A a \in 1..m : a \in 1..size /\ s[a] = all[a] /\ s[a] \in chosen
  BY <1>3, <1>6, <1>7
<1>10. ToSet(s) \subseteq chosen
  BY <1>8, <1>9 DEF ToSet
<1>11. IsInjective(s)
  BY <1>2, <1>8, <1>9 DEF IsInjective
<1>12. \A a, b \in DOMAIN s : a < b => table[s[a]].at >= table[s[b]].at
  BY <1>2, <1>8, <1>9
<1>13. \A i \in chosen \ ToSet(s) : \A a \in DOMAIN s : table[s[a]].at >= table[i].at
  <2> SUFFICES ASSUME NEW i \in chosen, i \notin ToSet(s), NEW a \in 1..m
               PROVE  table[s[a]].at >= table[i].at
    BY <1>8
  <2>1. PICK b \in 1..size : all[b] = i
    BY <1>2, <1>8 DEF ToSet
  <2>2. b \notin 1..m
    BY <1>8, <1>9, <2>1 DEF ToSet
  <2>3. a < b
    BY <1>2, <1>3, <2>2
  <2> QED
    BY <1>2, <1>9, <2>1, <2>3
<1>14. MayAnswer(s, chosen, n)
  BY <1>1, <1>7, <1>10, <1>11, <1>12, <1>13 DEF MayAnswer
<1>15. size <= n => ToSet(s) = chosen
  <2> SUFFICES ASSUME size <= n PROVE chosen \subseteq ToSet(s)
    BY <1>10
  <2>1. m = size
    BY <1>1, <1>2
  <2> QED
    BY <1>2, <1>8, <1>9, <2>1 DEF ToSet
<1> QED
  BY <1>1, <1>4, <1>14, <1>15

-----------------------------------------------------------------------------
(* What lists select and sort by                                            *)

(* The column is that of the first save, or of the last where it is set     *)
(* again.                                                                   *)
LEMMA ColumnIs ==
    ASSUME RepositoryTyped, NEW e \in EntityType, NEW at \in Time
    PROVE  /\ table' = Upsert(e, at) =>
                table'[e.id].at = IF table[e.id] = Nil THEN at ELSE table[e.id].at
           /\ table' = MonitorUpsert(e, at) => table'[e.id].at = at
<1>1. PICK times : times = IF kind = "rule" THEN Time ELSE [iso: Time]
  OBVIOUS
<1>2. table \in [Ids -> RowType(times) \cup {Nil}] /\ e.id \in Ids
  BY <1>1 DEF RepositoryTyped, EntityType
<1>3. ASSUME table' = Upsert(e, at)
      PROVE  table'[e.id].at = IF table[e.id] = Nil THEN at ELSE table[e.id].at
  <2>1. CASE table[e.id] = Nil
    BY <1>2, <1>3, <2>1 DEF Upsert
  <2>2. CASE table[e.id] # Nil
    <3>1. table'[e.id] = [table[e.id] EXCEPT !.payload = Payload(e)]
      BY <1>2, <1>3, <2>2 DEF Upsert
    <3>2. table[e.id] \in RowType(times)
      BY <1>2, <2>2
    <3> QED
      BY <2>2, <3>1, <3>2 DEF RowType
  <2> QED
    BY <2>1, <2>2
<1>4. ASSUME table' = MonitorUpsert(e, at) PROVE table'[e.id].at = at
  BY <1>2, <1>4 DEF MonitorUpsert
<1> QED
  BY <1>3, <1>4

LEMMA KeptByMake ==
    ASSUME RepositoryInv, KeptInv, NEW c \in Callers, NEW i \in Ids, NEW g \in Groups,
           NEW t \in Time, Make(c, i, g, t)
    PROVE  KeptInv'
<1>1. PICK e : e = Entity(i, g, t)
  OBVIOUS
<1>2. e.id = i
  BY <1>1 DEF Entity
<1>3. PICK h : h = [copy |-> e, dirty |-> TRUE]
  OBVIOUS
<1>4. /\ object[i] = Nil /\ h.copy = e
      /\ object' = [object EXCEPT ![i] = e]
      /\ held' = [held EXCEPT ![c] = h]
      /\ UNCHANGED <<kind, table>>
  BY <1>1, <1>3 DEF Make
<1>5. object'[i] = e /\ \A j \in Ids : j # i => object'[j] = object[j]
  BY <1>4 DEF RepositoryInv, RepositoryTyped
<1>6. held'[c] = h /\ \A d \in Callers : d # c => held'[d] = held[d]
  BY <1>4 DEF RepositoryInv, RepositoryTyped
<1>7. \A j \in Ids : PgGet(j)' = PgGet(j)
  BY <1>4 DEF PgGet, RestoreDates
<1>8. ASSUME NEW j \in Ids, table'[j] # Nil
      PROVE  SameKeys(PgGet(j), j)' /\ (kind' # "rule" => table'[j].at = object'[j].time)
  <2>1. j # i
    BY <1>4, <1>8 DEF RepositoryInv, ObjectInv
  <2> QED
    BY <1>4, <1>5, <1>7, <1>8, <2>1 DEF KeptInv, SameKeys
<1>9. ASSUME NEW d \in Callers, held'[d] # Nil
      PROVE  SameKeys(held[d].copy, held[d].copy.id)'
  <2>1. CASE d = c
    BY <1>2, <1>4, <1>5, <1>6, <2>1 DEF SameKeys
  <2>2. CASE d # c
    <3>1. /\ held'[d] = held[d] /\ object[held[d].copy.id] # Nil /\ held[d].copy.id \in Ids
          /\ SameKeys(held[d].copy, held[d].copy.id)
      BY <1>6, <1>9, <2>2
         DEF RepositoryInv, RepositoryTyped, HolderInv, HeldType, EntityType, KeptInv
    <3> QED
      BY <1>4, <1>5, <3>1 DEF SameKeys
  <2> QED
    BY <2>1, <2>2
<1> QED
  BY <1>8, <1>9 DEF KeptInv

LEMMA KeptBySubmit ==
    ASSUME RepositoryInv, KeptInv, NEW c \in Callers, NEW i \in Ids, NEW k \in Groups,
           NEW t \in Time, Submit(c, i, k, t)
    PROVE  KeptInv'
<1>1. PICK e : e = Entity(i, k, t)
  OBVIOUS
<1>2. e \in EntityType /\ e.id = i /\ e.time \in Time
  BY <1>1, RepositoriesAssumption DEF Entity, EntityType, Time, Changes
<1>3. PICK h : h = [copy |-> e, dirty |-> FALSE]
  OBVIOUS
<1>4. /\ object[i] = Nil /\ h.copy = e /\ kind = "run" /\ kind' = kind
      /\ object' = [object EXCEPT ![i] = e]
      /\ held' = [held EXCEPT ![c] = h]
      /\ order' = Assigned(e.id)
      /\ table' = Upsert(e, e.time)
  BY <1>1, <1>3 DEF Submit, SaveActionRun
<1>5. object'[i] = e /\ \A j \in Ids : j # i => object'[j] = object[j]
  BY <1>4 DEF RepositoryInv, RepositoryTyped
<1>6. held'[c] = h /\ \A d \in Callers : d # c => held'[d] = held[d]
  BY <1>4 DEF RepositoryInv, RepositoryTyped
<1>7. /\ \A j \in Ids \ {i} : table'[j] = table[j]
      /\ \A j \in Ids : PgGet(j)' = IF j = i THEN e ELSE PgGet(j)
  BY <1>2, <1>4, SaveStores DEF RepositoryInv
<1>8. table[i] = Nil /\ table'[i].at = e.time
  BY <1>2, <1>4, ColumnIs DEF RepositoryInv, ObjectInv
<1>9. ASSUME NEW j \in Ids, table'[j] # Nil
      PROVE  SameKeys(PgGet(j), j)' /\ (kind' # "rule" => table'[j].at = object'[j].time)
  <2>1. CASE j = i
    BY <1>5, <1>7, <1>8, <2>1 DEF SameKeys
  <2>2. CASE j # i
    BY <1>4, <1>5, <1>7, <1>9, <2>2 DEF KeptInv, SameKeys
  <2> QED
    BY <2>1, <2>2
<1>10. ASSUME NEW d \in Callers, held'[d] # Nil
       PROVE  SameKeys(held[d].copy, held[d].copy.id)'
  <2>1. CASE d = c
    BY <1>2, <1>4, <1>5, <1>6, <2>1 DEF SameKeys
  <2>2. CASE d # c
    <3>1. /\ held'[d] = held[d] /\ object[held[d].copy.id] # Nil /\ held[d].copy.id \in Ids
          /\ SameKeys(held[d].copy, held[d].copy.id)
      BY <1>6, <1>10, <2>2
         DEF RepositoryInv, RepositoryTyped, HolderInv, HeldType, EntityType, KeptInv
    <3> QED
      BY <1>4, <1>5, <3>1 DEF SameKeys
  <2> QED
    BY <2>1, <2>2
<1> QED
  BY <1>9, <1>10 DEF KeptInv

LEMMA KeptByGet ==
    ASSUME RepositoryInv, KeptInv, NEW c \in Callers, NEW i \in Ids, Get(c, i)
    PROVE  KeptInv'
<1>1. PICK h : h = [copy |-> PgGet(i), dirty |-> FALSE]
  OBVIOUS
<1>2. /\ h.copy = PgGet(i) /\ PgGet(i) # Nil
      /\ held' = [held EXCEPT ![c] = h]
      /\ UNCHANGED <<kind, object, table>>
  BY <1>1 DEF Get
<1>3. held'[c] = h /\ \A d \in Callers : d # c => held'[d] = held[d]
  BY <1>2 DEF RepositoryInv, RepositoryTyped
<1>4. table[i] # Nil
  BY <1>2 DEF PgGet
<1>5. SameKeys(PgGet(i), i) /\ PgGet(i).id = i
  BY <1>4 DEF KeptInv, RepositoryInv, ObjectInv, Seen
<1>6. \A j \in Ids : PgGet(j)' = PgGet(j)
  BY <1>2 DEF PgGet, RestoreDates
<1>7. \A j \in Ids : table'[j] # Nil =>
        SameKeys(PgGet(j), j)' /\ (kind' # "rule" => table'[j].at = object'[j].time)
  BY <1>2, <1>6 DEF KeptInv, SameKeys
<1>8. \A d \in Callers : held'[d] # Nil => SameKeys(held[d].copy, held[d].copy.id)'
  BY <1>2, <1>3, <1>5 DEF KeptInv, SameKeys
<1> QED
  BY <1>7, <1>8 DEF KeptInv

LEMMA KeptByChange ==
    ASSUME RepositoryInv, KeptInv, NEW c \in Callers, Change(c)
    PROVE  KeptInv'
<1>1. PICK i, all, h : /\ i = held[c].copy.id
                       /\ all = object[i].changes \cup {made + 1}
                       /\ h = [held[c] EXCEPT !.copy.changes = @ \cup {made + 1}, !.dirty = TRUE]
  OBVIOUS
<1>2. /\ held[c] # Nil
      /\ object' = [object EXCEPT ![i] = [object[i] EXCEPT !.changes = all]]
      /\ held' = [held EXCEPT ![c] = h]
      /\ UNCHANGED <<kind, table>>
  BY <1>1 DEF Change
<1>3. held[c] \in HeldType /\ i \in Ids /\ object[i] \in EntityType
  BY <1>1, <1>2 DEF RepositoryInv, RepositoryTyped, HolderInv, ObjectInv, HeldType, EntityType, Seen
<1>4. \A o \in EntityType : \A x : LET n == [o EXCEPT !.changes = x] IN
        n.id = o.id /\ n.group = o.group /\ n.time = o.time
  BY DEF EntityType
<1>5. /\ h.copy.id = i /\ h.copy.group = held[c].copy.group /\ h.copy.time = held[c].copy.time
  <2>1. PICK o, r, x : /\ o = held[c].copy /\ r = held[c]
                       /\ x = [o EXCEPT !.changes = @ \cup {made + 1}]
    OBVIOUS
  <2>2. r \in HeldType /\ o \in EntityType /\ r.copy = o
    BY <1>3, <2>1 DEF HeldType
  <2>3. h = [[r EXCEPT !.copy = x] EXCEPT !.dirty = TRUE]
    BY <1>1, <2>1
  <2>4. h.copy = x
    BY <2>2, <2>3 DEF HeldType
  <2>5. x.id = o.id /\ x.group = o.group /\ x.time = o.time
    BY <1>4, <2>1, <2>2
  <2> QED
    BY <1>1, <2>1, <2>4, <2>5
<1>6. /\ object'[i].group = object[i].group /\ object'[i].time = object[i].time
      /\ \A j \in Ids : j # i => object'[j] = object[j]
  BY <1>2, <1>3, <1>4 DEF RepositoryInv, RepositoryTyped
<1>7. held'[c] = h /\ \A d \in Callers : d # c => held'[d] = held[d]
  BY <1>2 DEF RepositoryInv, RepositoryTyped
<1>8. \A j \in Ids : object'[j].group = object[j].group /\ object'[j].time = object[j].time
  BY <1>6
<1>9. \A j \in Ids : PgGet(j)' = PgGet(j)
  BY <1>2 DEF PgGet, RestoreDates
<1>10. \A j \in Ids : table'[j] # Nil =>
         SameKeys(PgGet(j), j)' /\ (kind' # "rule" => table'[j].at = object'[j].time)
  BY <1>2, <1>8, <1>9 DEF KeptInv, SameKeys
<1>11. ASSUME NEW d \in Callers, held'[d] # Nil
       PROVE  SameKeys(held[d].copy, held[d].copy.id)'
  <2>1. CASE d = c
    BY <1>1, <1>2, <1>3, <1>5, <1>7, <1>8, <2>1 DEF KeptInv, SameKeys
  <2>2. CASE d # c
    <3>1. /\ held'[d] = held[d] /\ held[d].copy.id \in Ids
          /\ SameKeys(held[d].copy, held[d].copy.id)
      BY <1>7, <1>11, <2>2 DEF RepositoryInv, RepositoryTyped, HeldType, EntityType, KeptInv
    <3> QED
      BY <1>8, <3>1 DEF SameKeys
  <2> QED
    BY <2>1, <2>2
<1> QED
  BY <1>10, <1>11 DEF KeptInv

LEMMA KeptBySave ==
    ASSUME RepositoryInv, KeptInv, NEW c \in Callers, Save(c)
    PROVE  KeptInv'
<1>1. PICK e, i, h : e = held[c].copy /\ i = e.id /\ h = [held[c] EXCEPT !.dirty = FALSE]
  OBVIOUS
<1>2. /\ held[c] # Nil /\ kind' = kind /\ object' = object
      /\ held' = [held EXCEPT ![c] = h]
      /\ order' = Assigned(e.id)
      /\ table' = Upsert(e, e.time)
  BY <1>1 DEF Save, SaveActionRun
<1>3. /\ held[c] \in HeldType /\ e \in EntityType /\ e.time \in Time /\ kind # "rule"
      /\ SameKeys(e, i)
  BY <1>1, <1>2
     DEF RepositoryInv, RepositoryTyped, HolderInv, HeldType, EntityType, Aggregates, KeptInv
<1>4. h.copy = e
  BY <1>1, <1>3 DEF HeldType
<1>5. held'[c] = h /\ \A d \in Callers : d # c => held'[d] = held[d]
  BY <1>2 DEF RepositoryInv, RepositoryTyped
<1>6. \A d \in Callers : held'[d] # Nil => held[d] # Nil /\ held'[d].copy = held[d].copy
  BY <1>1, <1>2, <1>4, <1>5
<1>7. i \in Ids
  BY <1>1, <1>3 DEF EntityType
<1>8. /\ \A j \in Ids \ {i} : table'[j] = table[j]
      /\ \A j \in Ids : PgGet(j)' = IF j = i THEN e ELSE PgGet(j)
  BY <1>1, <1>2, <1>3, SaveStores DEF RepositoryInv
<1>9. table'[i].at = object[i].time
  <2>1. table'[i].at = IF table[i] = Nil THEN e.time ELSE table[i].at
    BY <1>1, <1>2, <1>3, ColumnIs DEF RepositoryInv
  <2> QED
    BY <1>3, <1>7, <2>1 DEF KeptInv, SameKeys
<1>10. ASSUME NEW j \in Ids, table'[j] # Nil
       PROVE  SameKeys(PgGet(j), j)' /\ (kind' # "rule" => table'[j].at = object'[j].time)
  <2>1. CASE j = i
    BY <1>2, <1>3, <1>8, <1>9, <2>1 DEF SameKeys
  <2>2. CASE j # i
    BY <1>2, <1>8, <1>10, <2>2 DEF KeptInv, SameKeys
  <2> QED
    BY <2>1, <2>2
<1>11. \A d \in Callers : held'[d] # Nil => SameKeys(held[d].copy, held[d].copy.id)'
  BY <1>2, <1>6 DEF KeptInv, SameKeys
<1> QED
  BY <1>10, <1>11 DEF KeptInv

LEMMA KeptByRelease ==
    ASSUME RepositoryInv, KeptInv, NEW c \in Callers, Release(c)
    PROVE  KeptInv'
<1>1. held' = [held EXCEPT ![c] = Nil] /\ UNCHANGED <<kind, object, table>>
  BY DEF Release
<1>2. \A d \in Callers : held'[d] # Nil => held'[d] = held[d]
  BY <1>1 DEF RepositoryInv, RepositoryTyped
<1>3. \A j \in Ids : PgGet(j)' = PgGet(j)
  BY <1>1 DEF PgGet, RestoreDates
<1> QED
  BY <1>1, <1>2, <1>3 DEF KeptInv, SameKeys

(* A newer object of the same identity brings its own time, and the column  *)
(* is set with it.                                                          *)
LEMMA KeptByPut ==
    ASSUME RepositoryInv, KeptInv, NEW i \in Ids, NEW g \in Groups, NEW t \in Time, Put(i, g, t)
    PROVE  KeptInv'
<1>1. PICK e : e = Entity(i, g, t)
  OBVIOUS
<1>2. e \in EntityType /\ e.id = i /\ (kind # "rule" => e.time = t)
  BY <1>1, RepositoriesAssumption DEF Entity, EntityType, Time, Changes
<1>3. /\ kind \in Latest \cup Facts /\ (kind \in Facts => i \notin Stored)
      /\ object' = [object EXCEPT ![i] = e]
      /\ order' = Assigned(e.id)
      /\ table' = IF kind \in {"change", "approval"} THEN Upsert(e, t) ELSE MonitorUpsert(e, t)
      /\ UNCHANGED <<kind, held>>
  BY <1>1, <1>2 DEF Put
<1>4. \A d \in Callers : held'[d] = Nil
  BY <1>3 DEF RepositoryInv, HolderInv, Aggregates, Latest, Facts
<1>5. object'[i] = e /\ \A j \in Ids : j # i => object'[j] = object[j]
  BY <1>3 DEF RepositoryInv, RepositoryTyped
<1>6. /\ \A j \in Ids \ {i} : table'[j] = table[j]
      /\ \A j \in Ids : PgGet(j)' = IF j = i THEN e ELSE PgGet(j)
  BY <1>2, <1>3, SaveStores DEF RepositoryInv
<1>7. table'[i].at = t
  <2>1. kind \in {"change", "approval"} => table[i] = Nil
    BY <1>3 DEF Facts, RepositoryInv, ObjectInv
  <2> QED
    BY <1>2, <1>3, <2>1, ColumnIs DEF RepositoryInv
<1>8. ASSUME NEW j \in Ids, table'[j] # Nil
      PROVE  SameKeys(PgGet(j), j)' /\ (kind' # "rule" => table'[j].at = object'[j].time)
  <2>1. CASE j = i
    BY <1>2, <1>3, <1>5, <1>6, <1>7, <2>1 DEF SameKeys
  <2>2. CASE j # i
    BY <1>3, <1>5, <1>6, <1>8, <2>2 DEF KeptInv, SameKeys
  <2> QED
    BY <2>1, <2>2
<1> QED
  BY <1>4, <1>8 DEF KeptInv

LEMMA KeptStep == RepositoryInv /\ KeptInv /\ [Next]_vars => KeptInv'
<1> SUFFICES ASSUME RepositoryInv, KeptInv, [Next]_vars PROVE KeptInv'
  OBVIOUS
<1>1. CASE \E c \in Callers, i \in Ids, g \in Groups, t \in 0..MaxTime :
             Make(c, i, g, t) \/ Submit(c, i, g, t)
  BY <1>1, KeptByMake, KeptBySubmit DEF Time
<1>2. CASE \E c \in Callers, i \in Ids : Get(c, i)
  BY <1>2, KeptByGet
<1>3. CASE \E c \in Callers : Change(c) \/ Save(c) \/ Release(c)
  BY <1>3, KeptByChange, KeptBySave, KeptByRelease
<1>4. CASE \E i \in Ids, g \in Groups, t \in 0..MaxTime : Put(i, g, t)
  BY <1>4, KeptByPut DEF Time
<1>5. CASE UNCHANGED vars
  <2>1. UNCHANGED <<kind, object, table, held>>
    BY <1>5 DEF vars
  <2>2. \A j \in Ids : PgGet(j)' = PgGet(j)
    BY <2>1 DEF PgGet, RestoreDates
  <2> QED
    BY <2>1, <2>2 DEF KeptInv, SameKeys
<1> QED
  BY <1>1, <1>2, <1>3, <1>4, <1>5 DEF Next

LEMMA KeptStarts == Init => KeptInv
BY DEF Init, KeptInv

LEMMA EverKept == Spec => [](RepositoryInv /\ KeptInv)
BY RepositoryStarts, RepositoryStep, KeptStarts, KeptStep, PTL DEF Spec

(* The filter of a query reads the group in the row, which is the object's. *)
LEMMA RowsAre ==
    ASSUME RepositoryInv, KeptInv, NEW g
    PROVE  Rows(g) = {i \in Stored : Selects(g, object[i])}
<1>1. PICK times : times = IF kind = "rule" THEN Time ELSE [iso: Time]
  OBVIOUS
<1>2. ASSUME NEW i \in Ids, table[i] # Nil
      PROVE  table[i].payload.group = object[i].group
  <2>1. PICK p \in [id: Ids, group: Groups, time: times, changes: Changes] : p = table[i].payload
    BY <1>1, <1>2 DEF RepositoryInv, RepositoryTyped, RowType
  <2>2. \A x : [p EXCEPT !.time = x].group = p.group
    OBVIOUS
  <2>3. PgGet(i).group = p.group
    BY <1>2, <2>1, <2>2 DEF PgGet, FromPayload, RestoreDates
  <2> QED
    BY <1>2, <2>1, <2>3 DEF KeptInv, SameKeys
<1>3. Stored \subseteq Ids
  BY StoredBounds DEF RepositoryInv, RepositoryTyped
<1>4. \A i \in Ids : table[i] # Nil <=> i \in Stored
  BY DEF RepositoryInv, ObjectInv
<1> QED
  BY <1>2, <1>3, <1>4 DEF Rows, Selects

LEMMA ListsAnswer ==
    ASSUME RepositoryInv, KeptInv, kind # "rule", NEW g, NEW n \in Nat
    PROVE  /\ PgMayList(MemList(g, n), g, n)
           /\ Len(order) <= n => ToSet(MemList(g, n)) = Rows(g)
<1>1. PICK chosen : chosen = {i \in Stored : Selects(g, object[i])}
  OBVIOUS
<1>2. chosen = Rows(g) /\ chosen \in SUBSET Stored /\ Stored \subseteq Ids
  BY <1>1, RowsAre, StoredBounds DEF RepositoryInv, RepositoryTyped
<1>3. \A i \in chosen : table[i].at = object[i].time
  BY <1>2 DEF KeptInv, RepositoryInv, ObjectInv
<1>4. Cardinality(chosen) <= Len(order)
  <2>1. order \in Seq(Ids)
    BY DEF RepositoryInv, RepositoryTyped
  <2>2. IsFiniteSet(Stored) /\ Cardinality(Stored) <= Len(order)
    BY <2>1, StoredBounds
  <2>3. IsFiniteSet(chosen) /\ Cardinality(chosen) <= Cardinality(Stored)
    BY <1>2, <2>2, FS_Subset
  <2>4. Cardinality(chosen) \in Nat /\ Cardinality(Stored) \in Nat /\ Len(order) \in Nat
    BY <2>1, <2>2, <2>3, FS_CardinalityType
  <2> QED
    BY <2>2, <2>3, <2>4
<1>5. /\ Cardinality(chosen) \in Nat /\ Len(order) \in Nat
      /\ Len(order) <= n => Cardinality(chosen) <= n
  <2>1. Cardinality(chosen) \in Nat
    BY <1>2, NewestFirstIs
  <2>2. Len(order) \in Nat
    BY DEF RepositoryInv, RepositoryTyped
  <2> QED
    BY <1>4, <2>1, <2>2
<1>6. /\ MayAnswer(First(NewestFirst(chosen), n), chosen, n)
      /\ Cardinality(chosen) <= n => ToSet(First(NewestFirst(chosen), n)) = chosen
  BY <1>2, <1>3, FirstAnswers
<1>7. MemList(g, n) = First(NewestFirst(chosen), n)
  BY <1>1 DEF MemList
<1> QED
  BY <1>2, <1>5, <1>6, <1>7 DEF PgMayList

(* What memory lists, in its order and cut at its limit, is a list that the *)
(* query of PostgreSQL may return (list_incidents to                        *)
(* list_monitor_evaluations of both repositories).                          *)
THEOREM ListsAgree == Spec => []SameLists
<1>1. RepositoryInv /\ KeptInv => SameLists
  <2> SUFFICES ASSUME RepositoryInv, KeptInv PROVE SameLists
    OBVIOUS
  <2>1. Rows(Nil) = Stored
    BY RowsAre DEF Selects
  <2>2. Len(order) \in Nat /\ PageSizes \subseteq Nat
    BY RepositoriesAssumption DEF RepositoryInv, RepositoryTyped
  <2>3. kind # "rule" => \A g \in Filters, n \in Nat : PgMayList(MemList(g, n), g, n)
    BY ListsAnswer
  <2> QED
    BY <2>1, <2>2, <2>3 DEF SameLists
<1> QED
  BY <1>1, EverKept, PTL

(* A key leads to the one run, an incident to a plan than which none is     *)
(* newer, and a signal to the changes of its window, from either repository *)
(* (get_action_run_by_key, get_plan_by_incident, add_change_evidence).      *)
THEOREM LookupsAgree == Spec => []SameLookup
<1> DEFINE Found == kind = "run" => \A k \in Groups :
             {e.id : e \in PgByKey(k)} = IF MemByKey(k) = Nil THEN {} ELSE {MemByKey(k).id}
<1>1. RepositoryInv /\ KeptInv /\ Found => SameLookup
  <2> SUFFICES ASSUME RepositoryInv, KeptInv, Found PROVE SameLookup
    OBVIOUS
  <2>1. ASSUME kind = "plan", NEW g \in Groups
        PROVE  PgMayList(IF MemLatestPlan(g) = Nil THEN <<>> ELSE <<MemLatestPlan(g)>>, g, 1)
    <3>1. PICK plans, s : /\ plans = {i \in Stored : object[i].group = g}
                          /\ s = NewestFirst(plans)
      OBVIOUS
    <3>2. plans \in SUBSET Stored /\ Stored \subseteq Ids /\ g # Nil
      BY <3>1, StoredBounds, RepositoriesAssumption DEF RepositoryInv, RepositoryTyped
    <3>3. plans = Rows(g)
      BY <3>1, <3>2, RowsAre DEF Selects
    <3>4. MayAnswer(First(s, 1), plans, 1)
      <4>1. \A i \in plans : table[i].at = object[i].time
        BY <2>1, <3>2 DEF KeptInv, RepositoryInv, ObjectInv
      <4> QED
        BY <3>1, <3>2, <4>1, FirstAnswers
    <3>5. /\ IsFiniteSet(plans) /\ s \in Seq(plans) /\ Len(s) = Cardinality(plans)
          /\ Cardinality(plans) \in Nat
      BY <3>1, <3>2, NewestFirstIs
    <3>6. First(s, 1) = IF MemLatestPlan(g) = Nil THEN <<>> ELSE <<MemLatestPlan(g)>>
      <4>1. CASE plans = {}
        <5>1. s = <<>> /\ Len(s) = 0
          BY <3>5, <4>1, FS_EmptySet
        <5>2. First(s, 1) = <<>>
          BY <5>1, SubSeqEmpty DEF First
        <5> QED
          BY <3>1, <4>1, <5>2 DEF MemLatestPlan
      <4>2. CASE plans # {}
        <5>1. Cardinality(plans) # 0
          BY <3>5, <4>2, FS_EmptySet
        <5>2. Len(s) >= 1 /\ s[1] \in plans
          BY <3>5, <5>1
        <5>3. MemLatestPlan(g) = s[1] /\ s[1] # Nil
          BY <3>1, <3>2, <4>2, <5>2, NilIsNone DEF MemLatestPlan
        <5>4. First(s, 1) = SubSeq(s, 1, 1)
          BY <3>5, <5>2 DEF First
        <5>5. /\ SubSeq(s, 1, 1) \in Seq(plans) /\ Len(SubSeq(s, 1, 1)) = 1
              /\ SubSeq(s, 1, 1)[1] = s[1]
          BY <5>2, SubSeqProperties
        <5>6. SubSeq(s, 1, 1) = <<s[1]>>
          <6>1. PICK one : one = SubSeq(s, 1, 1)
            OBVIOUS
          <6>2. one \in Seq(plans) /\ Len(one) = 1 /\ one[1] = s[1]
            BY <5>5, <6>1
          <6>3. one = <<s[1]>>
            BY <6>2
          <6> QED
            BY <6>1, <6>3
        <5> QED
          BY <5>3, <5>4, <5>6
      <4> QED
        BY <4>1, <4>2
    <3> QED
      BY <3>3, <3>4, <3>6 DEF PgMayList
  <2>2. ASSUME kind = "change", NEW g \in Groups, NEW t \in 0..MaxTime
        PROVE  MayAnswer(ChangeEvidence(MemList(g, Len(order)), t),
                         {i \in Rows(g) : table[i].at <= t /\ t - table[i].at <= ChangeWindow},
                         MaxEvidence)
    <3>1. order \in Seq(Ids) /\ Len(order) \in Nat /\ MaxEvidence \in Nat
      BY RepositoriesAssumption DEF RepositoryInv, RepositoryTyped
    <3>2. ToSet(MemList(g, Len(order))) = Rows(g)
      BY <2>2, <3>1, ListsAnswer
    <3>3. Rows(g) \subseteq Stored /\ Stored \subseteq Ids
      BY <3>1, RowsAre, StoredBounds
    <3>4. \A i \in Rows(g) : table[i].at = object[i].time
      BY <2>2, <3>3 DEF KeptInv, RepositoryInv, ObjectInv
    <3>5. PICK window : window = {i \in Rows(g) : /\ object[i].time <= t
                                                  /\ t - object[i].time <= ChangeWindow}
      OBVIOUS
    <3>6. window = {i \in Rows(g) : table[i].at <= t /\ t - table[i].at <= ChangeWindow}
      BY <3>4, <3>5
    <3>7. window \in SUBSET Stored /\ \A i \in window : table[i].at = object[i].time
      BY <3>3, <3>4, <3>5
    <3>8. MayAnswer(First(NewestFirst(window), MaxEvidence), window, MaxEvidence)
      BY <3>1, <3>7, FirstAnswers
    <3>9. ChangeEvidence(MemList(g, Len(order)), t) = First(NewestFirst(window), MaxEvidence)
      BY <3>2, <3>5 DEF ChangeEvidence
    <3> QED
      BY <3>6, <3>8, <3>9
  <2> QED
    BY <2>1, <2>2 DEF SameLookup
<1>2. Spec => []Found
  BY RunsAreFound
<1> QED
  BY <1>1, <1>2, EverKept, PTL
===========================================================================
