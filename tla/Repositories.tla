--------------------------- MODULE Repositories ---------------------------
(***************************************************************************)
(* The two implementations of the repository ports, driven by the same     *)
(* calls: InMemoryRepository, which the tests use and which serves when    *)
(* DATABASE_URL is not set, and PostgresRepository.  Memory keeps the very *)
(* objects its callers hold; PostgreSQL keeps a copy of each, as JSON, and *)
(* gives out fresh ones.  Every kind of entity has its dictionary and its  *)
(* table, so a behaviour is about one kind.  Every method of memory runs   *)
(* under its lock and every method of PostgreSQL is one transaction, so    *)
(* each is a step; a connection that fails is left out, as memory has none.*)
(***************************************************************************)
EXTENDS Naturals, Sequences, SequencesExt

CONSTANTS
    Callers,     \* requests and threads of the control plane
    Ids,         \* identities: new_id's, or an asset's, a node's, an edge's
    Groups,      \* what lookups and filters select by, see Entity
    MaxTime,     \* bound of the times entities bear
    MaxChanges,  \* bound of the changes made to entities
    PageSizes,   \* what list_monitor_evaluations is called with as limit
    ChangeWindow, MaxEvidence,  \* CHANGE_WINDOW, and how many changes a signal cites
    Nil          \* None

(* Entities, the rows that hold them as JSON, and the objects callers hold. *)
Time == 0..MaxTime
Changes == SUBSET (1..MaxChanges)
EntityType == [id: Ids, group: Groups, time: Time, changes: Changes]
RowType(times) == [at: Time, key: Groups,
                   payload: [id: Ids, group: Groups, time: times, changes: Changes]]
HeldType == [copy: EntityType, dirty: BOOLEAN]

ASSUME RepositoriesAssumption ==
    /\ MaxTime \in Nat
    /\ MaxChanges \in Nat
    /\ PageSizes \subseteq Nat
    /\ ChangeWindow \in Nat
    /\ MaxEvidence \in Nat
    /\ Nil \notin Ids \cup Groups \cup EntityType \cup HeldType
    /\ Nil \notin RowType(Time) \cup RowType([iso: Time])

Aggregates == {"incident", "plan", "run"}       \* mutable, saved again when changed
Latest == {"node", "asset", "edge"}             \* frozen, replaced by a newer object
Facts == {"change", "approval", "evaluation", "rule"}  \* frozen, saved once
Kinds == Aggregates \cup Latest \cup Facts

VARIABLES
    kind,       \* the kind of entity this behaviour is about
    object,     \* the object that bears each identity in a process with memory
    order,      \* the keys of memory's dictionary, in order of insertion
    actionKeys, \* memory's _action_keys
    table,      \* the row of each identity
    held,       \* the object each caller works on; copy is what PostgreSQL gave it
    made,       \* changes made so far
    contended   \* entities changed by a caller that had not seen the last change

(* group is the incident of a plan, the idempotency key of a run, the       *)
(* service of a change, the asset of an evaluation; time is created_at,     *)
(* occurred_at, last_heartbeat_at, last_seen_at or evaluated_at: a rule has *)
(* none, and the evaluations of one cycle share theirs.  A change adds to   *)
(* the entity: evidence, a status, a result.                                *)
Entity(i, g, t) ==
    [id |-> i, group |-> g, time |-> IF kind = "rule" THEN 0 ELSE t, changes |-> {}]

vars == <<kind, object, order, actionKeys, table, held, made, contended>>

Init ==
    /\ kind \in Kinds
    /\ object = [i \in Ids |-> Nil]
    /\ order = <<>>
    /\ actionKeys = [g \in Groups |-> Nil]
    /\ table = [i \in Ids |-> Nil]
    /\ held = [c \in Callers |-> Nil]
    /\ made = 0
    /\ contended = {}

-----------------------------------------------------------------------------
(* JSON has no dates: a time is written as ISO text and read back from it.  *)
Payload(e) == [e EXCEPT !.time = [iso |-> e.time]]

(* _restore_dates turns back the fields it lists, the others stay text; the *)
(* functions of the aggregates and of changes name each field.              *)
TimeField == [node |-> "last_heartbeat_at", asset |-> "last_seen_at", edge |-> "last_seen_at",
              evaluation |-> "evaluated_at", rule |-> "none"]
DateFields == {"connected_at", "last_heartbeat_at", "last_seen_at", "evaluated_at"}
RestoreDates(p) == IF TimeField[kind] \in DateFields THEN [p EXCEPT !.time = @.iso] ELSE p
FromPayload(p) == [p EXCEPT !.time = @.iso]

(* _upsert leaves the column as the first save set it, _monitor_upsert sets *)
(* it again.  The key of an edge is its three names joined by bars, none of *)
(* which a name contains.                                                   *)
UpsertNothing(e, at) ==
    IF table[e.id] # Nil THEN table
    ELSE [table EXCEPT ![e.id] = [at |-> at, key |-> e.group, payload |-> Payload(e)]]
Upsert(e, at) ==
    [table EXCEPT ![e.id] =
        IF @ = Nil THEN [at |-> at, key |-> e.group, payload |-> Payload(e)]
        ELSE [@ EXCEPT !.payload = Payload(e)]]
MonitorUpsert(e, at) ==
    [table EXCEPT ![e.id] = [at |-> at, key |-> e.group,
        payload |-> IF kind = "rule" THEN e ELSE Payload(e)]]

(* Memory's dictionary after key i is assigned.                             *)
Stored == ToSet(order)
Assigned(i) == IF i \in Stored THEN order ELSE Append(order, i)

-----------------------------------------------------------------------------
(* What the methods return.                                                 *)
MemGet(i) == IF i \in Stored THEN object[i] ELSE Nil
PgGet(i) ==
    IF table[i] = Nil THEN Nil
    ELSE IF kind \in Aggregates \cup {"change", "approval"} THEN FromPayload(table[i].payload)
    ELSE RestoreDates(table[i].payload)

(* get_action_run_by_key                                                    *)
MemByKey(k) == IF actionKeys[k] = Nil THEN Nil ELSE MemGet(actionKeys[k])
PgByKey(k) == {PgGet(i) : i \in {j \in Ids : table[j] # Nil /\ table[j].key = k}}

(* list_change_events and list_monitor_evaluations select by group g, or    *)
(* everything where it is None; the other lists take no filter.             *)
Filters == IF kind \in {"change", "evaluation"} THEN Groups \cup {Nil} ELSE {Nil}
Selects(g, e) == g = Nil \/ e.group = g

(* sorted(..., reverse=True) leaves entities of one time in the order of    *)
(* the dictionary; [:limit] cuts the list.                                  *)
Position(i) == CHOOSE n \in DOMAIN order : order[n] = i
Before(i, j) ==
    \/ object[i].time > object[j].time
    \/ object[i].time = object[j].time /\ Position(i) < Position(j)
NewestFirst(chosen) ==
    CHOOSE s \in [1..Cardinality(chosen) -> chosen] :
        \A a, b \in DOMAIN s : a < b => Before(s[a], s[b])
First(s, n) == SubSeq(s, 1, IF n < Len(s) THEN n ELSE Len(s))
MemListLimitFirst(g, n) ==
    SelectSeq(First(NewestFirst(Stored), n), LAMBDA i : Selects(g, object[i]))
MemList(g, n) == First(NewestFirst({i \in Stored : Selects(g, object[i])}), n)

(* max returns the first of several of the same time                        *)
MemLatestPlan(g) ==
    LET plans == {i \in Stored : object[i].group = g}
    IN  IF plans = {} THEN Nil ELSE NewestFirst(plans)[1]

(* ORDER BY the column DESC LIMIT n may answer with the sequence s: rows of *)
(* one time come in any order, and the limit may fall between them.         *)
Rows(g) == {i \in Ids : table[i] # Nil /\ Selects(g, table[i].payload)}
MayAnswer(s, rows, n) ==
    /\ ToSet(s) \subseteq rows
    /\ IsInjective(s)
    /\ Len(s) = IF n < Cardinality(rows) THEN n ELSE Cardinality(rows)
    /\ \A a, b \in DOMAIN s : a < b => table[s[a]].at >= table[s[b]].at
    /\ \A i \in rows \ ToSet(s) : \A a \in DOMAIN s : table[s[a]].at >= table[i].at
PgMayList(s, g, n) == MayAnswer(s, Rows(g), n)

(* change_evidence: of the listed changes of the signal's asset those in    *)
(* the window before the signal at time t, the newest few.                  *)
ChangeEvidence(listed, t) ==
    First(NewestFirst({i \in ToSet(listed) : /\ object[i].time <= t
                                             /\ t - object[i].time <= ChangeWindow}),
          MaxEvidence)

-----------------------------------------------------------------------------
(* A caller makes an incident or a plan; its first save comes later.        *)
Make(c, i, g, t) ==
    /\ kind \in {"incident", "plan"}
    /\ held[c] = Nil
    /\ object[i] = Nil
    /\ LET e == Entity(i, g, t) IN
        /\ object' = [object EXCEPT ![i] = e]
        /\ held' = [held EXCEPT ![c] = [copy |-> e, dirty |-> TRUE]]
    /\ UNCHANGED <<kind, order, actionKeys, table, made, contended>>

(* approve_and_execute looks the key up, makes the run and saves it without *)
(* giving up the event loop; where the key has a run that run is returned.  *)
SaveActionRunNoKey(e) ==
    /\ order' = Assigned(e.id)
    /\ table' = Upsert(e, e.time)
    /\ UNCHANGED actionKeys
SaveActionRun(e) ==
    /\ order' = Assigned(e.id)
    /\ actionKeys' = [actionKeys EXCEPT ![e.group] = e.id]
    /\ table' = Upsert(e, e.time)

Submit(c, i, k, t) ==
    /\ kind = "run"
    /\ held[c] = Nil
    /\ object[i] = Nil
    /\ MemByKey(k) = Nil
    /\ PgByKey(k) = {}
    /\ LET e == Entity(i, k, t) IN
        /\ object' = [object EXCEPT ![i] = e]
        /\ held' = [held EXCEPT ![c] = [copy |-> e, dirty |-> FALSE]]
        /\ SaveActionRun(e)
    /\ UNCHANGED <<kind, made, contended>>

(* get_incident, list_incidents, get_plan, get_plan_by_incident: memory     *)
(* gives out its object, PostgreSQL a new one restored from the row.        *)
Get(c, i) ==
    /\ kind \in {"incident", "plan"}
    /\ held[c] = Nil
    /\ PgGet(i) # Nil
    /\ held' = [held EXCEPT ![c] = [copy |-> PgGet(i), dirty |-> FALSE]]
    /\ UNCHANGED <<kind, object, order, actionKeys, table, made, contended>>

(* The caller changes the object it holds.  With memory that is the object  *)
(* in the dictionary, with all that others did to it.                       *)
Change(c) ==
    /\ held[c] # Nil
    /\ made < MaxChanges
    /\ LET i == held[c].copy.id IN
        /\ object' = [object EXCEPT ![i].changes = @ \cup {made + 1}]
        /\ held' = [held EXCEPT ![c].copy.changes = @ \cup {made + 1}, ![c].dirty = TRUE]
        /\ contended' = contended \cup (IF held[c].copy = object[i] THEN {} ELSE {i})
    /\ made' = made + 1
    /\ UNCHANGED <<kind, order, actionKeys, table>>

(* save_incident, save_plan, save_action_run                                *)
Save(c) ==
    /\ held[c] # Nil
    /\ held[c].dirty
    /\ held' = [held EXCEPT ![c].dirty = FALSE]
    /\ IF kind = "run" THEN SaveActionRun(held[c].copy)
       ELSE /\ order' = Assigned(held[c].copy.id)
            /\ table' = Upsert(held[c].copy, held[c].copy.time)
            /\ UNCHANGED actionKeys
    /\ UNCHANGED <<kind, object, made, contended>>

(* The request ends: no service leaves a change unsaved.                    *)
Release(c) ==
    /\ held[c] # Nil
    /\ ~held[c].dirty
    /\ held' = [held EXCEPT ![c] = Nil]
    /\ UNCHANGED <<kind, object, order, actionKeys, table, made, contended>>

(* save_* of a frozen entity.  The column of a rule is the time of the save.*)
Put(i, g, t) ==
    /\ kind \in Latest \cup Facts
    /\ kind \in Facts => i \notin Stored
    /\ LET e == Entity(i, g, t) IN
        /\ object' = [object EXCEPT ![i] = e]
        /\ order' = Assigned(i)
        /\ table' = IF kind \in {"change", "approval"} THEN Upsert(e, t) ELSE MonitorUpsert(e, t)
    /\ UNCHANGED <<kind, actionKeys, held, made, contended>>

Next ==
    \/ \E c \in Callers, i \in Ids, g \in Groups, t \in 0..MaxTime :
        Make(c, i, g, t) \/ Submit(c, i, g, t)
    \/ \E c \in Callers, i \in Ids : Get(c, i)
    \/ \E c \in Callers : Change(c) \/ Save(c) \/ Release(c)
    \/ \E i \in Ids, g \in Groups, t \in 0..MaxTime : Put(i, g, t)

Spec == Init /\ [][Next]_vars

-----------------------------------------------------------------------------
(* Outside a race of callers PostgreSQL gives back what memory gives: an    *)
(* entity that nobody changed without having seen the last change, and that *)
(* nobody has changed without saving it, reads the same from both.  What is *)
(* tested with the one then holds with the other; the race is what memory   *)
(* hides (see the lost update the run remediation_sync finds).              *)
Settled(i) ==
    /\ i \notin contended
    /\ \A c \in Callers : held[c] # Nil /\ held[c].copy.id = i => ~held[c].dirty
SameEntity == \A i \in Ids : Settled(i) => MemGet(i) = PgGet(i)

(* The lookups by another column than the identity find the same entity: an *)
(* idempotency key its one run, an incident a plan than which none is newer,*)
(* and a signal the changes it cites, as many and the newest of the window. *)
SameLookup ==
    /\ kind = "run" => \A k \in Groups :
        {e.id : e \in PgByKey(k)} = IF MemByKey(k) = Nil THEN {} ELSE {MemByKey(k).id}
    /\ kind = "plan" => \A g \in Groups :
        PgMayList(IF MemLatestPlan(g) = Nil THEN <<>> ELSE <<MemLatestPlan(g)>>, g, 1)
    /\ kind = "change" => \A g \in Groups, t \in 0..MaxTime :
        MayAnswer(ChangeEvidence(MemList(g, Len(order)), t),
                  {i \in Rows(g) : table[i].at <= t /\ t - table[i].at <= ChangeWindow},
                  MaxEvidence)

(* What memory lists is a list PostgreSQL may return: as many entities, the *)
(* newest first, those the filter selects, cut where the limit says.  The   *)
(* lists of assets, edges and rules have no common order and are compared   *)
(* as sets.                                                                 *)
SameLists ==
    IF kind \in {"asset", "edge", "rule", "approval"} THEN Stored = Rows(Nil)
    ELSE kind # "plan" => \A g \in Filters :
        \A n \in IF kind = "evaluation" THEN PageSizes ELSE {Len(order)} :
            PgMayList(MemList(g, n), g, n)
=============================================================================
