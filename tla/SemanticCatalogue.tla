------------------------- MODULE SemanticCatalogue -------------------------
(***************************************************************************)
(* Administration of the semantic catalogue (app/semantic/service.py,       *)
(* repository.py; the endpoints under /admin/semantic of app/api.py).       *)
(*                                                                          *)
(* Rows refer to each other by key and no foreign key backs the reference.  *)
(* A request reads what it must compare with, one statement at a time,      *)
(* decides, and writes its one row in its commit: another request may       *)
(* commit between any two of these statements.                              *)
(***************************************************************************)
EXTENDS GovernedPlans, FiniteSets

CONSTANTS
    Terms, Examples, Templates,     \* the keys rows may have, with Metrics and Dims
    Offers,     \* what a client may send: sets of rows by key
    Seeds,      \* catalogues that bootstrap and earlier requests have left
    Requests,
    NoRow

Keys == Metrics \cup Dims \cup Terms \cup Examples \cup Templates
Patterns == Examples \cup Templates

EntityTypes == {"metric", "dimension", "filter"}

\* What a term names: validated without the blanks around it, stored with them
Mapped == [key : Metrics \cup Dims, exact : BOOLEAN]

\* The columns of a row that others depend on
MetricRow == [dims : SUBSET Dims, filters : SUBSET Dims, composes : BOOLEAN, active : BOOLEAN]
DimRow == [onGrain : BOOLEAN, path : SUBSET Tables, type : {"string", "date"},
           composes : BOOLEAN, active : BOOLEAN]
TermRow == [type : EntityTypes, entity : Mapped, active : BOOLEAN]
PatternRow == [metric : Metrics, dims : SUBSET Dims, filters : SUBSET Dims, active : BOOLEAN]

RowsOf(k) ==
    CASE k \in Metrics  -> MetricRow
      [] k \in Dims     -> DimRow
      [] k \in Terms    -> TermRow
      [] k \in Patterns -> PatternRow

AnyRow == UNION {RowsOf(k) : k \in Keys}

NamedBy(k, row) ==
    CASE k \in Metrics  -> row.dims \cup row.filters
      [] k \in Terms    -> {row.entity.key}
      [] k \in Patterns -> {row.metric} \cup row.dims \cup row.filters
      [] OTHER          -> {}

\* A term of type "filter" does not keep its dimension from being deleted, nor does a
\* term that was entered with blanks around the key: as it is stored, it names nothing.
Excused(k, row) == k \in Terms /\ (row.type = "filter" \/ ~row.entity.exact)

\* No row names what is not there, a term for a metric names a metric, and any other
\* term a dimension.
Whole(catalogue) ==
    \A k \in Keys : catalogue[k] # NoRow =>
        /\ ~Excused(k, catalogue[k]) => \A n \in NamedBy(k, catalogue[k]) : catalogue[n] # NoRow
        /\ k \in Terms => catalogue[k].entity.key \in IF catalogue[k].type = "metric" THEN Metrics ELSE Dims

ASSUME KeysAssumption ==
    /\ Metrics \cap Dims = {}
    /\ Terms \cap (Metrics \cup Dims) = {}
    /\ Patterns \cap (Metrics \cup Dims \cup Terms) = {}

\* Drafts of rows are whole rows; the catalogue a deployment starts from is whole.
ASSUME RowsAssumption ==
    /\ \A k \in Keys : NoRow \notin RowsOf(k) /\ Offers[k] \subseteq RowsOf(k)
    /\ \A c \in Seeds : /\ c \in [Keys -> AnyRow \cup {NoRow}]
                        /\ \A k \in Keys : c[k] \in RowsOf(k) \cup {NoRow}
                        /\ Whole(c)

VARIABLES
    rows,       \* the catalogue on record
    pc,         \* where each request is
    task,       \* what it was sent for
    seen,       \* the row it has loaded
    metricPool, \* active metrics it has read
    checks,     \* the tables its deletion has still to look at
    response,
    crossed,    \* did another request commit since it began?
    raced       \* has a request committed that was crossed?

request == <<pc, task, seen, metricPool, checks, response, crossed>>
vars == <<rows, request, raced>>

NoTask == [op |-> "none", key |-> NoRow, row |-> NoRow]

Init ==
    /\ rows \in Seeds
    /\ pc = [r \in Requests |-> "idle"]
    /\ task = [r \in Requests |-> NoTask]
    /\ seen = [r \in Requests |-> NoRow]
    /\ metricPool = [r \in Requests |-> {}]
    /\ checks = [r \in Requests |-> <<>>]
    /\ response = [r \in Requests |-> "none"]
    /\ crossed = [r \in Requests |-> FALSE]
    /\ raced = FALSE

-----------------------------------------------------------------------------
(* Rows and what they name *)

OnRecord(k) == rows[k] # NoRow

Active(ks) == {k \in ks : OnRecord(k) /\ rows[k].active}

Named(k) == IF OnRecord(k) THEN NamedBy(k, rows[k]) ELSE {}

\* [bug] terms are not looked at
Refers_NoTerms(k, target) == k \notin Terms /\ target \in Named(k)

\* What a deletion takes for a reference: the stored key of a term is compared as it
\* is, and a term of type "filter" is none.
Refers(k, target) ==
    /\ target \in Named(k)
    /\ k \in Terms =>
          /\ rows[k].entity.exact
          /\ rows[k].type = IF target \in Metrics THEN "metric" ELSE "dimension"

\* The keys a definition may name: what was active when it was read
Accepted(k, row, metrics, dims) ==
    CASE k \in Metrics  -> row.dims \cup row.filters \subseteq dims
      [] k \in Terms    -> row.entity.key \in IF row.type = "metric" THEN metrics ELSE dims
      [] k \in Patterns -> row.metric \in metrics /\ row.dims \cup row.filters \subseteq dims
      [] OTHER          -> TRUE

-----------------------------------------------------------------------------
(* A request *)

Goto(r, stage) == pc' = [pc EXCEPT ![r] = stage]

Respond(r, code) == Goto(r, "done") /\ response' = [response EXCEPT ![r] = code]

\* A creation looks its key up after the validation; an example has no key.
FirstStage(op, k) ==
    IF op = "delete" THEN "check"
    ELSE IF k \in Terms \cup Patterns THEN "metrics" ELSE "dims"

DeletionChecks(k) ==
    CASE k \in Metrics -> <<Examples, Templates, Terms>>
      [] k \in Dims    -> <<Metrics, Terms, Examples, Templates>>
      [] OTHER         -> <<>>

Receive(r, op, k, row) ==
    /\ pc[r] = "idle"
    /\ task' = [task EXCEPT ![r] = [op |-> op, key |-> k, row |-> row]]
    /\ UNCHANGED <<rows, metricPool, crossed, raced>>

\* An example is created under an id of its own.
Free(k) == k \in Examples => ~OnRecord(k) /\ \A r \in Requests : task[r].key # k

Create(r, k, row) ==
    /\ Receive(r, "create", k, row)
    /\ Free(k)
    /\ Goto(r, FirstStage("create", k))
    /\ UNCHANGED <<seen, checks, response>>

\* Updates and deletions load their row first.
Load(r, k, stage) ==
    /\ seen' = [seen EXCEPT ![r] = rows[k]]
    /\ IF OnRecord(k) THEN Goto(r, stage) /\ UNCHANGED response ELSE Respond(r, "404")

Update(r, k, row) ==
    /\ Receive(r, "update", k, row)
    /\ Load(r, k, FirstStage("update", k))
    /\ UNCHANGED checks

Delete(r, k) ==
    /\ Receive(r, "delete", k, NoRow)
    /\ Load(r, k, FirstStage("delete", k))
    /\ checks' = [checks EXCEPT ![r] = DeletionChecks(k)]

ReadMetrics(r) ==
    /\ pc[r] = "metrics"
    /\ metricPool' = [metricPool EXCEPT ![r] = Active(Metrics)]
    /\ Goto(r, "dims")
    /\ UNCHANGED <<rows, task, seen, checks, response, crossed, raced>>

\* The dimensions are read and the definition is validated; it may be refused for
\* itself as well: its key, expression, join path, table or type.
Validate(r) ==
    /\ pc[r] = "dims"
    /\ \/ /\ Accepted(task[r].key, task[r].row, metricPool[r], Active(Dims))
          /\ Goto(r, IF task[r].op = "create" /\ task[r].key \notin Examples
                     THEN "lookup" ELSE "commit")
          /\ UNCHANGED response
       \/ Respond(r, "422")
    /\ UNCHANGED <<rows, task, seen, metricPool, checks, crossed, raced>>

LookUp(r) ==
    /\ pc[r] = "lookup"
    /\ IF OnRecord(task[r].key) THEN Respond(r, "409")
                                ELSE Goto(r, "commit") /\ UNCHANGED response
    /\ UNCHANGED <<rows, task, seen, metricPool, checks, crossed, raced>>

\* _ensure_metric_can_be_deleted, _ensure_dimension_can_be_deleted, table by table
Check(r) ==
    /\ pc[r] = "check"
    /\ IF checks[r] = <<>> THEN Goto(r, "commit") /\ UNCHANGED <<checks, response>>
       ELSE /\ checks' = [checks EXCEPT ![r] = Tail(checks[r])]
            /\ IF \E k \in Head(checks[r]) : Refers(k, task[r].key)
               THEN Respond(r, "409")
               ELSE UNCHANGED <<pc, response>>
    /\ UNCHANGED <<rows, task, seen, metricPool, crossed, raced>>

\* The commit that writes the row; the others that are open have now been crossed.
Write(r, row) ==
    /\ rows' = [rows EXCEPT ![task[r].key] = row]
    /\ crossed' = [s \in Requests |-> crossed[s] \/ (s # r /\ pc[s] \notin {"idle", "done"})]
    /\ raced' = (raced \/ crossed[r])

Commits(r, op) ==
    /\ pc[r] = "commit"
    /\ task[r].op = op
    /\ UNCHANGED <<task, seen, metricPool, checks>>

Rollback(r) == Respond(r, "500") /\ UNCHANGED <<rows, crossed, raced>>

\* Another request may have taken the key: it is unique.
Insert(r) ==
    /\ Commits(r, "create")
    /\ IF OnRecord(task[r].key) THEN Rollback(r)
       ELSE Write(r, task[r].row) /\ Goto(r, "refresh") /\ UNCHANGED response

\* Only the columns that differ from the loaded row are written.
Merged(r) ==
    [f \in DOMAIN task[r].row |->
        IF task[r].row[f] # seen[r][f] THEN task[r].row[f] ELSE rows[task[r].key][f]]

\* The row may be gone.
Change(r) ==
    /\ Commits(r, "update")
    /\ IF ~OnRecord(task[r].key) THEN Rollback(r)
       ELSE Write(r, Merged(r)) /\ Goto(r, "refresh") /\ UNCHANGED response

\* A second deletion of a row goes unnoticed.
Remove(r) == Commits(r, "delete") /\ Write(r, NoRow) /\ Respond(r, "204")

\* db.refresh after the commit, in a transaction of its own
Refresh(r) ==
    /\ pc[r] = "refresh"
    /\ Respond(r, IF OnRecord(task[r].key) THEN "200" ELSE "500")
    /\ UNCHANGED <<rows, task, seen, metricPool, checks, crossed, raced>>

Administration ==
    \E r \in Requests :
        \/ \E k \in Keys : \/ Delete(r, k)
                           \/ \E row \in Offers[k] : Create(r, k, row) \/ Update(r, k, row)
        \/ ReadMetrics(r) \/ Validate(r) \/ LookUp(r) \/ Check(r)
        \/ Insert(r) \/ Change(r) \/ Remove(r) \/ Refresh(r)

Spec == Init /\ [][Administration]_vars

-----------------------------------------------------------------------------
(* Properties *)

\* No row names what is not on record, unless requests have crossed: one read what
\* another one was about to change.
DanglingHasACause ==
    ~raced => \A k \in Keys :
        OnRecord(k) /\ ~Excused(k, rows[k]) => \A n \in Named(k) : OnRecord(n)

=============================================================================
