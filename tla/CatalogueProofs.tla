-------------------------- MODULE CatalogueProofs --------------------------
(***************************************************************************)
(* The semantic catalogue and the questions planned with it, for any keys,  *)
(* any administrators and any drafts: what keeps references whole, and what *)
(* a compiled answer can be relied on for.                                  *)
(***************************************************************************)
EXTENDS CatalogueQuestions, WellFoundedInduction, FiniteSetTheorems, TLAPS

-----------------------------------------------------------------------------
(* Administration *)

Stages == {"idle", "metrics", "dims", "lookup", "check", "commit", "refresh", "done"}

Tasks == [op : {"create", "update", "delete"}, key : Keys, row : AnyRow \cup {NoRow}]

TypeOK ==
    /\ rows \in [Keys -> AnyRow \cup {NoRow}]
    /\ \A k \in Keys : rows[k] \in RowsOf(k) \cup {NoRow}
    /\ pc \in [Requests -> Stages]
    /\ task \in [Requests -> Tasks \cup {NoTask}]
    /\ seen \in [Requests -> AnyRow \cup {NoRow}]
    /\ metricPool \in [Requests -> SUBSET Metrics]
    /\ checks \in [Requests -> Seq(SUBSET Keys)]
    /\ response \in [Requests -> {"none", "200", "204", "404", "409", "422", "500"}]
    /\ crossed \in [Requests -> BOOLEAN]
    /\ raced \in BOOLEAN

\* What a stage says of the task
Fits(r) ==
    /\ pc[r] # "idle" => task[r] \in Tasks
    /\ task[r].op \in {"create", "update"} => task[r].row \in RowsOf(task[r].key)
    /\ pc[r] \in {"metrics", "dims", "refresh"} => task[r].op \in {"create", "update"}
    /\ pc[r] = "lookup" => task[r].op = "create"
    /\ pc[r] = "check" => task[r].op = "delete"
    /\ pc[r] \in {"metrics", "dims", "commit"} /\ task[r].op = "update" =>
           seen[r] \in RowsOf(task[r].key)

OnTask == \A r \in Requests : Fits(r)

Unchecked(r, k) == \E i \in DOMAIN checks[r] : k \in checks[r][i]

\* What a request has read still holds while no other one has committed: its row, the
\* metrics, that the definition may name what it names, that nothing which it has looked
\* at refers to what it deletes.
Informed(r) ==
    LET k == task[r].key IN
    /\ pc[r] \in {"metrics", "dims", "commit"} /\ task[r].op = "update" => seen[r] = rows[k]
    /\ pc[r] = "dims" /\ k \in Terms \cup Patterns => metricPool[r] = Active(Metrics)
    /\ pc[r] \in {"lookup", "commit"} /\ task[r].op # "delete" =>
           Accepted(k, task[r].row, Active(Metrics), Active(Dims))
    /\ pc[r] = "check" => \A m \in Keys : Refers(m, k) => Unchecked(r, m)
    /\ pc[r] = "commit" /\ task[r].op = "delete" => \A m \in Keys : ~Refers(m, k)

UpToDate == \A r \in Requests : ~crossed[r] => Informed(r)

CatalogueInv == TypeOK /\ OnTask /\ UpToDate /\ (~raced => Whole(rows))

\* Rows by the kind of their key
LEMMA MetricRows ==
    ASSUME NEW k \in Metrics
    PROVE  /\ RowsOf(k) = MetricRow
           /\ \A row : NamedBy(k, row) = row.dims \cup row.filters
           /\ \A row, ms, ds : Accepted(k, row, ms, ds) <=> row.dims \cup row.filters \subseteq ds
  BY KeysAssumption, Zenon DEF RowsOf, NamedBy, Accepted

LEMMA DimRows ==
    ASSUME NEW k \in Dims
    PROVE  /\ RowsOf(k) = DimRow
           /\ \A row : NamedBy(k, row) = {}
           /\ k \notin Metrics
<1>1. k \notin Metrics /\ k \notin Terms /\ k \notin Patterns
  BY KeysAssumption
<1> QED
  BY <1>1, Zenon DEF RowsOf, NamedBy

LEMMA TermRows ==
    ASSUME NEW k \in Terms
    PROVE  /\ RowsOf(k) = TermRow
           /\ \A row : NamedBy(k, row) = {row.entity.key}
           /\ \A row, ms, ds : Accepted(k, row, ms, ds) <=>
                  (row.entity.key \in IF row.type = "metric" THEN ms ELSE ds)
           /\ k \notin Metrics \cup Dims \cup Patterns
<1>1. k \notin Metrics /\ k \notin Dims /\ k \notin Patterns
  BY KeysAssumption
<1> QED
  BY <1>1, Zenon DEF RowsOf, NamedBy, Accepted

LEMMA PatternRows ==
    ASSUME NEW k \in Patterns
    PROVE  /\ RowsOf(k) = PatternRow
           /\ \A row : NamedBy(k, row) = {row.metric} \cup row.dims \cup row.filters
           /\ \A row, ms, ds : Accepted(k, row, ms, ds) <=>
                  (row.metric \in ms /\ row.dims \cup row.filters \subseteq ds)
           /\ k \notin Metrics \cup Dims \cup Terms
<1>1. k \notin Metrics /\ k \notin Dims /\ k \notin Terms
  BY KeysAssumption
<1> QED
  BY <1>1, Zenon DEF RowsOf, NamedBy, Accepted

\* What a row names is a metric or a dimension.
LEMMA NamesAreKeys ==
    ASSUME NEW k \in Keys, NEW row \in RowsOf(k)
    PROVE  NamedBy(k, row) \subseteq Metrics \cup Dims
<1>1. CASE k \in Metrics
  <2>1. row \in MetricRow
    BY <1>1, MetricRows
  <2>2. row.dims \subseteq Dims /\ row.filters \subseteq Dims
    BY <2>1 DEF MetricRow
  <2> QED
    BY <1>1, <2>2, MetricRows
<1>2. CASE k \in Dims
  BY <1>2, DimRows
<1>3. CASE k \in Terms
  <2>1. row \in TermRow
    BY <1>3, TermRows
  <2>2. row.entity.key \in Metrics \cup Dims
    BY <2>1 DEF TermRow, Mapped
  <2> QED
    BY <1>3, <2>2, TermRows
<1>4. CASE k \in Patterns
  <2>1. row \in PatternRow
    BY <1>4, PatternRows
  <2>2. row.metric \in Metrics /\ row.dims \subseteq Dims /\ row.filters \subseteq Dims
    BY <2>1 DEF PatternRow
  <2> QED
    BY <1>4, <2>2, PatternRows
<1> QED
  BY <1>1, <1>2, <1>3, <1>4 DEF Keys, Patterns

\* The columns written over a row that has not changed since it was loaded make the
\* row that was asked for.
LEMMA MergedRow ==
    ASSUME NEW k \in Keys, NEW row \in RowsOf(k), NEW old \in RowsOf(k), NEW now \in RowsOf(k)
    PROVE  LET merged == [f \in DOMAIN row |-> IF row[f] # old[f] THEN row[f] ELSE now[f]] IN
           merged \in RowsOf(k) /\ (old = now => merged = row)
<1> DEFINE merged == [f \in DOMAIN row |-> IF row[f] # old[f] THEN row[f] ELSE now[f]]
<1>1. CASE k \in Metrics
  <2>1. row \in MetricRow /\ old \in MetricRow /\ now \in MetricRow
    BY <1>1, MetricRows
  <2>2. merged \in MetricRow /\ (old = now => merged = row)
    BY <2>1 DEF MetricRow
  <2> QED
    BY <1>1, <2>2, MetricRows
<1>2. CASE k \in Dims
  <2>1. row \in DimRow /\ old \in DimRow /\ now \in DimRow
    BY <1>2, DimRows
  <2>2. merged \in DimRow /\ (old = now => merged = row)
    BY <2>1 DEF DimRow
  <2> QED
    BY <1>2, <2>2, DimRows
<1>3. CASE k \in Terms
  <2>1. row \in TermRow /\ old \in TermRow /\ now \in TermRow
    BY <1>3, TermRows
  <2>2. merged \in TermRow /\ (old = now => merged = row)
    BY <2>1 DEF TermRow
  <2> QED
    BY <1>3, <2>2, TermRows
<1>4. CASE k \in Patterns
  <2>1. row \in PatternRow /\ old \in PatternRow /\ now \in PatternRow
    BY <1>4, PatternRows
  <2>2. merged \in PatternRow /\ (old = now => merged = row)
    BY <2>1 DEF PatternRow
  <2> QED
    BY <1>4, <2>2, PatternRows
<1> QED
  BY <1>1, <1>2, <1>3, <1>4 DEF Keys, Patterns

\* A definition that is accepted names what is on record.
LEMMA AcceptedNames ==
    ASSUME TypeOK, NEW k \in Keys, NEW row \in RowsOf(k),
           Accepted(k, row, Active(Metrics), Active(Dims))
    PROVE  /\ \A n \in NamedBy(k, row) : n \in Keys /\ OnRecord(n)
           /\ k \in Terms => row.entity.key \in IF row.type = "metric" THEN Metrics ELSE Dims
<1>1. \A n \in Active(Metrics) \cup Active(Dims) : n \in Keys /\ OnRecord(n)
  BY DEF Active, Keys
<1>2. CASE k \in Metrics
  BY <1>1, <1>2, MetricRows, KeysAssumption
<1>3. CASE k \in Dims
  BY <1>3, DimRows, KeysAssumption
<1>4. CASE k \in Terms
  <2>1. row.entity.key \in IF row.type = "metric" THEN Active(Metrics) ELSE Active(Dims)
    BY <1>4, TermRows
  <2>2. NamedBy(k, row) = {row.entity.key}
    BY <1>4, TermRows
  <2>3. Active(Metrics) \subseteq Metrics /\ Active(Dims) \subseteq Dims
    BY DEF Active
  <2> QED
    BY <1>1, <2>1, <2>2, <2>3
<1>5. CASE k \in Patterns
  <2>1. row.metric \in Active(Metrics) /\ row.dims \cup row.filters \subseteq Active(Dims)
    BY <1>5, PatternRows
  <2>2. NamedBy(k, row) = {row.metric} \cup row.dims \cup row.filters
    BY <1>5, PatternRows
  <2> QED
    BY <1>1, <1>5, <2>1, <2>2, PatternRows
<1> QED
  BY <1>2, <1>3, <1>4, <1>5 DEF Keys, Patterns

\* Writing such a row leaves the catalogue whole.
LEMMA WritingKeepsWhole ==
    ASSUME TypeOK, Whole(rows), NEW k \in Keys, NEW row \in RowsOf(k),
           Accepted(k, row, Active(Metrics), Active(Dims))
    PROVE  Whole([rows EXCEPT ![k] = row])
<1> DEFINE after == [rows EXCEPT ![k] = row]
<1>1. after[k] = row /\ \A m \in Keys \ {k} : after[m] = rows[m]
  BY DEF TypeOK
<1>2. row # NoRow
  BY RowsAssumption
<1>3. \A n \in Keys : OnRecord(n) => after[n] # NoRow
  BY <1>1, <1>2 DEF OnRecord
<1> HIDE DEF after
<1>4. ASSUME NEW m \in Keys, after[m] # NoRow
      PROVE  /\ ~Excused(m, after[m]) => \A n \in NamedBy(m, after[m]) : after[n] # NoRow
             /\ m \in Terms => after[m].entity.key \in IF after[m].type = "metric" THEN Metrics ELSE Dims
  <2>1. CASE m = k
    BY <1>1, <1>3, <2>1, AcceptedNames
  <2>2. CASE m # k
    <3>1. after[m] = rows[m] /\ rows[m] \in RowsOf(m)
      BY <1>1, <1>4, <2>2 DEF TypeOK
    <3>2. NamedBy(m, rows[m]) \subseteq Keys
      BY <3>1, NamesAreKeys DEF Keys
    <3> QED
      BY <1>3, <1>4, <3>1, <3>2 DEF Whole, OnRecord
  <2> QED
    BY <2>1, <2>2
<1> QED
  BY <1>4 DEF Whole, after

\* So does removing a row that nothing refers to.
LEMMA RemovingKeepsWhole ==
    ASSUME TypeOK, Whole(rows), NEW k \in Keys, \A m \in Keys : ~Refers(m, k)
    PROVE  Whole([rows EXCEPT ![k] = NoRow])
<1> DEFINE after == [rows EXCEPT ![k] = NoRow]
<1>1. after[k] = NoRow /\ \A m \in Keys \ {k} : after[m] = rows[m]
  BY DEF TypeOK
<1> HIDE DEF after
<1>2. ASSUME NEW m \in Keys, after[m] # NoRow
      PROVE  /\ ~Excused(m, after[m]) => \A n \in NamedBy(m, after[m]) : after[n] # NoRow
             /\ m \in Terms => after[m].entity.key \in IF after[m].type = "metric" THEN Metrics ELSE Dims
  <2>1. after[m] = rows[m] /\ rows[m] \in RowsOf(m) /\ rows[m] # NoRow
    BY <1>1, <1>2 DEF TypeOK
  <2>2. ASSUME ~Excused(m, rows[m]) PROVE k \notin NamedBy(m, rows[m])
    <3>1. SUFFICES ASSUME k \in NamedBy(m, rows[m]) PROVE FALSE
      OBVIOUS
    <3>2. k \in Named(m)
      BY <2>1, <3>1 DEF Named, OnRecord
    <3>3. m \in Terms
      BY <3>2 DEF Refers
    <3>4. rows[m] \in TermRow /\ k = rows[m].entity.key
      BY <2>1, <3>1, <3>3, TermRows
    <3>5. rows[m].type \in {"metric", "dimension"} /\ rows[m].entity.exact
      BY <2>2, <3>3, <3>4 DEF TermRow, EntityTypes, Excused
    <3>6. rows[m].entity.key \in IF rows[m].type = "metric" THEN Metrics ELSE Dims
      BY <2>1, <3>3 DEF Whole
    <3> QED
      BY <3>2, <3>3, <3>4, <3>5, <3>6, KeysAssumption DEF Refers
  <2>3. NamedBy(m, rows[m]) \subseteq Keys
    BY <2>1, NamesAreKeys DEF Keys
  <2> QED
    BY <1>1, <2>1, <2>2, <2>3 DEF Whole
<1> QED
  BY <1>2 DEF Whole, after

\* The tables a deletion looks at hold whoever may refer to the row.
LEMMA DeletionTables ==
    ASSUME NEW k \in Keys
    PROVE  /\ DeletionChecks(k) \in Seq(SUBSET Keys)
           /\ k \in Metrics => DeletionChecks(k) = <<Examples, Templates, Terms>>
           /\ k \in Dims => DeletionChecks(k) = <<Metrics, Terms, Examples, Templates>>
<1>1. /\ k \in Metrics => DeletionChecks(k) = <<Examples, Templates, Terms>>
      /\ k \in Dims => DeletionChecks(k) = <<Metrics, Terms, Examples, Templates>>
      /\ k \notin Metrics \cup Dims => DeletionChecks(k) = <<>>
  BY KeysAssumption, Zenon DEF DeletionChecks
<1>2. /\ <<Examples, Templates, Terms>> \in Seq(SUBSET Keys)
      /\ <<Metrics, Terms, Examples, Templates>> \in Seq(SUBSET Keys)
      /\ <<>> \in Seq(SUBSET Keys)
  BY DEF Keys
<1> QED
  BY <1>1, <1>2

LEMMA InitCatalogue == Init => CatalogueInv
<1> SUFFICES ASSUME Init PROVE CatalogueInv
  OBVIOUS
<1>1. TypeOK
  <2>1. rows \in [Keys -> AnyRow \cup {NoRow}]
    BY RowsAssumption DEF Init
  <2>2. checks \in [Requests -> Seq(SUBSET Keys)]
    BY DEF Init
  <2> QED
    BY <2>1, <2>2, RowsAssumption DEF Init, TypeOK, Stages
<1>2. OnTask /\ UpToDate
  BY DEF Init, OnTask, Fits, UpToDate, Informed, NoTask
<1>3. Whole(rows)
  BY RowsAssumption DEF Init
<1> QED
  BY <1>1, <1>2, <1>3 DEF CatalogueInv

LEMMA Admin ==
    Administration <=>
      \E r \in Requests :
        \/ \E k \in Keys : Delete(r, k)
        \/ \E k \in Keys : \E row \in Offers[k] : Create(r, k, row)
        \/ \E k \in Keys : \E row \in Offers[k] : Update(r, k, row)
        \/ ReadMetrics(r) \/ Validate(r) \/ LookUp(r) \/ Check(r)
        \/ Insert(r) \/ Change(r) \/ Remove(r) \/ Refresh(r)
  BY DEF Administration

\* The row of an open task, merged with what is on record
LEMMA MergedType ==
    ASSUME TypeOK, OnTask, NEW r \in Requests, pc[r] = "commit", task[r].op = "update",
           OnRecord(task[r].key)
    PROVE  /\ Merged(r) \in RowsOf(task[r].key)
           /\ seen[r] = rows[task[r].key] => Merged(r) = task[r].row
<1> DEFINE k == task[r].key
<1>1. k \in Keys /\ task[r].row \in RowsOf(k) /\ seen[r] \in RowsOf(k)
  BY DEF OnTask, Fits, Tasks
<1>2. rows[k] \in RowsOf(k)
  BY <1>1 DEF TypeOK, OnRecord
<1> QED
  BY <1>1, <1>2, MergedRow DEF Merged

LEMMA CatalogueType == TypeOK /\ OnTask /\ [Administration]_vars => TypeOK'
<1> SUFFICES ASSUME TypeOK, OnTask, [Administration]_vars PROVE TypeOK'
  OBVIOUS
<1>1. ASSUME NEW k \in Keys, NEW row \in RowsOf(k) \cup {NoRow} PROVE row \in AnyRow \cup {NoRow}
  BY <1>1 DEF AnyRow
<1>2. ASSUME NEW r \in Requests, NEW op \in {"create", "update", "delete"}, NEW k \in Keys,
             NEW row \in RowsOf(k) \cup {NoRow}, Receive(r, op, k, row)
      PROVE  /\ task' \in [Requests -> Tasks \cup {NoTask}]
             /\ UNCHANGED <<rows, metricPool, crossed, raced>>
  BY <1>1, <1>2 DEF Receive, TypeOK, Tasks
<1>3. ASSUME NEW op \in {"create", "update", "delete"}, NEW k \in Keys
      PROVE  FirstStage(op, k) \in Stages
  BY DEF FirstStage, Stages
<1>4. ASSUME NEW r \in Requests, NEW k \in Keys, Delete(r, k) PROVE TypeOK'
  <2>1. DeletionChecks(k) \in Seq(SUBSET Keys)
    BY Zenon, DeletionTables
  <2> QED
    BY <1>2, <1>3, <1>4, <2>1 DEF Delete, Load, Goto, Respond, TypeOK, Stages
<1>5. ASSUME NEW r \in Requests, NEW k \in Keys, NEW row \in Offers[k], Create(r, k, row)
      PROVE  TypeOK'
  BY <1>2, <1>3, <1>5, RowsAssumption DEF Create, Goto, TypeOK
<1>6. ASSUME NEW r \in Requests, NEW k \in Keys, NEW row \in Offers[k], Update(r, k, row)
      PROVE  TypeOK'
  BY <1>2, <1>3, <1>6, RowsAssumption DEF Update, Load, Goto, Respond, TypeOK, Stages
<1>7. ASSUME NEW r \in Requests, ReadMetrics(r) \/ Validate(r) \/ LookUp(r) \/ Refresh(r)
      PROVE  TypeOK'
  BY <1>7 DEF ReadMetrics, Validate, LookUp, Refresh, Goto, Respond, TypeOK, Stages, Active
<1>8. ASSUME NEW r \in Requests, Check(r) PROVE TypeOK'
  <2>1. checks[r] # <<>> => Tail(checks[r]) \in Seq(SUBSET Keys)
    BY DEF TypeOK
  <2> QED
    BY <1>8, <2>1 DEF Check, Goto, Respond, TypeOK, Stages
<1>9. ASSUME NEW r \in Requests, task[r] \in Tasks, NEW row \in RowsOf(task[r].key) \cup {NoRow},
             Write(r, row)
      PROVE  /\ rows' \in [Keys -> AnyRow \cup {NoRow}]
             /\ \A k \in Keys : rows'[k] \in RowsOf(k) \cup {NoRow}
             /\ crossed' \in [Requests -> BOOLEAN] /\ raced' \in BOOLEAN
  BY <1>1, <1>9 DEF Write, TypeOK, Tasks
<1>10. ASSUME NEW r \in Requests, Insert(r) \/ Change(r) \/ Remove(r) PROVE TypeOK'
  <2>1. task[r] \in Tasks
    BY <1>10 DEF Insert, Change, Remove, Commits, OnTask, Fits
  <2>2. CASE Rollback(r) /\ UNCHANGED <<task, seen, metricPool, checks>>
    BY <2>2 DEF Rollback, Respond, Goto, TypeOK, Stages
  <2>3. ASSUME NEW row \in RowsOf(task[r].key) \cup {NoRow}, Write(r, row),
               UNCHANGED <<task, seen, metricPool, checks>>,
               \/ Goto(r, "refresh") /\ UNCHANGED response
               \/ Respond(r, "204")
        PROVE  TypeOK'
    BY <1>9, <2>1, <2>3 DEF Respond, Goto, TypeOK, Stages
  <2>4. CASE Insert(r)
    <3>1. task[r].row \in RowsOf(task[r].key)
      BY <2>4 DEF Insert, Commits, OnTask, Fits
    <3> QED
      BY <2>2, <2>3, <2>4, <3>1 DEF Insert, Commits
  <2>5. CASE Change(r)
    BY <2>2, <2>3, <2>5, MergedType DEF Change, Commits
  <2>6. CASE Remove(r)
    BY <2>3, <2>6 DEF Remove, Commits
  <2> QED
    BY <1>10, <2>4, <2>5, <2>6
<1>11. CASE UNCHANGED vars
  BY <1>11 DEF vars, request, TypeOK, OnRecord
<1> QED
  BY <1>4, <1>5, <1>6, <1>7, <1>8, <1>10, <1>11, Admin

LEMMA OnTaskStep == TypeOK /\ OnTask /\ [Administration]_vars => OnTask'
<1> SUFFICES ASSUME TypeOK, OnTask, [Administration]_vars PROVE OnTask'
  OBVIOUS
<1>1. ASSUME NEW r \in Requests, Fits(r)',
             \A s \in Requests \ {r} :
                 pc'[s] = pc[s] /\ task'[s] = task[s] /\ seen'[s] = seen[s]
      PROVE  OnTask'
  BY <1>1 DEF OnTask, Fits
<1>2. ASSUME NEW r \in Requests, NEW k \in Keys, Delete(r, k) PROVE OnTask'
  <2>1. /\ task'[r] = [op |-> "delete", key |-> k, row |-> NoRow]
        /\ pc'[r] \in {"check", "done"}
    BY <1>2 DEF Delete, Receive, Load, Goto, Respond, FirstStage, TypeOK
  <2>2. Fits(r)'
    BY <2>1 DEF Tasks, Fits
  <2>3. \A s \in Requests \ {r} : pc'[s] = pc[s] /\ task'[s] = task[s] /\ seen'[s] = seen[s]
    BY <1>2 DEF Delete, Receive, Load, Goto, Respond, TypeOK
  <2> QED
    BY <1>1, <2>2, <2>3
<1>3. ASSUME NEW r \in Requests, NEW k \in Keys, NEW row \in Offers[k], Create(r, k, row)
      PROVE  OnTask'
  <2>1. task'[r] = [op |-> "create", key |-> k, row |-> row] /\ pc'[r] \in {"metrics", "dims"}
    BY <1>3 DEF Create, Receive, Goto, FirstStage, TypeOK
  <2>2. row \in RowsOf(k) /\ row \in AnyRow
    BY RowsAssumption DEF AnyRow
  <2>3. task'[r] \in Tasks
    BY <2>1, <2>2 DEF Tasks
  <2>4. Fits(r)'
    BY <2>1, <2>2, <2>3 DEF Fits
  <2>5. \A s \in Requests \ {r} : pc'[s] = pc[s] /\ task'[s] = task[s] /\ seen'[s] = seen[s]
    BY <1>3 DEF Create, Receive, Goto, TypeOK
  <2> QED
    BY <1>1, <2>4, <2>5
<1>4. ASSUME NEW r \in Requests, NEW k \in Keys, NEW row \in Offers[k], Update(r, k, row)
      PROVE  OnTask'
  <2>1. /\ task'[r] = [op |-> "update", key |-> k, row |-> row] /\ seen'[r] = rows[k]
        /\ pc'[r] = "done" \/ (pc'[r] \in {"metrics", "dims"} /\ OnRecord(k))
    <3>1. task'[r] = [op |-> "update", key |-> k, row |-> row] /\ seen'[r] = rows[k]
      BY <1>4 DEF Update, Receive, Load, TypeOK
    <3>2. FirstStage("update", k) \in {"metrics", "dims"}
      BY DEF FirstStage
    <3> QED
      BY <1>4, <3>1, <3>2 DEF Update, Receive, Load, Goto, Respond, TypeOK
  <2>2. row \in RowsOf(k) /\ row \in AnyRow
    BY RowsAssumption DEF AnyRow
  <2>3. OnRecord(k) => rows[k] \in RowsOf(k)
    BY DEF OnRecord, TypeOK
  <2>4. task'[r] \in Tasks
    BY <2>1, <2>2 DEF Tasks
  <2>5. Fits(r)'
    BY <2>1, <2>2, <2>3, <2>4 DEF Fits
  <2>6. \A s \in Requests \ {r} : pc'[s] = pc[s] /\ task'[s] = task[s] /\ seen'[s] = seen[s]
    BY <1>4 DEF Update, Receive, Load, Goto, Respond, TypeOK
  <2> QED
    BY <1>1, <2>5, <2>6
<1>5. ASSUME NEW r \in Requests,
             \/ ReadMetrics(r) \/ Validate(r) \/ LookUp(r) \/ Check(r)
             \/ Insert(r) \/ Change(r) \/ Remove(r) \/ Refresh(r)
      PROVE  OnTask'
  <2>1. UNCHANGED <<task, seen>>
    BY <1>5 DEF ReadMetrics, Validate, LookUp, Check, Insert, Change, Remove, Refresh, Commits
  <2>2. \A s \in Requests \ {r} : pc'[s] = pc[s]
    BY <1>5 DEF ReadMetrics, Validate, LookUp, Check, Insert, Change, Remove, Refresh, Commits,
                Rollback, Goto, Respond, TypeOK
  <2>3. CASE ReadMetrics(r) \/ LookUp(r) \/ Check(r) \/ Refresh(r)
    BY <1>1, <2>1, <2>2, <2>3 DEF ReadMetrics, LookUp, Check, Refresh, Goto, Respond, OnTask, Fits, TypeOK
  <2>4. CASE Validate(r)
    BY <1>1, <2>1, <2>2, <2>4 DEF Validate, Goto, Respond, OnTask, Fits, TypeOK
  <2>5. CASE Insert(r) \/ Change(r) \/ Remove(r)
    <3>1. pc'[r] = "done" \/ (pc'[r] = "refresh" /\ task[r].op \in {"create", "update"})
      <4>1. CASE Insert(r)
        BY <4>1 DEF Insert, Commits, Rollback, Goto, Respond, TypeOK
      <4>2. CASE Change(r)
        BY <4>2 DEF Change, Commits, Rollback, Goto, Respond, TypeOK
      <4>3. CASE Remove(r)
        BY <4>3 DEF Remove, Commits, Write, Goto, Respond, TypeOK
      <4> QED
        BY <2>5, <4>1, <4>2, <4>3
    <3> QED
      BY <1>1, <2>1, <2>2, <2>5, <3>1 DEF OnTask, Fits, Insert, Change, Remove, Commits
  <2> QED
    BY <1>5, <2>3, <2>4, <2>5
<1>6. CASE UNCHANGED vars
  BY <1>6 DEF vars, request, OnTask, Fits
<1> QED
  BY <1>2, <1>3, <1>4, <1>5, <1>6, Admin

\* What a request has read is about the rows: nothing changes while they do not.
LEMMA Undisturbed ==
    ASSUME NEW s \in Requests, UNCHANGED rows, Informed(s),
           pc'[s] = pc[s], task'[s] = task[s], seen'[s] = seen[s],
           metricPool'[s] = metricPool[s], checks'[s] = checks[s]
    PROVE  Informed(s)'
<1>1. \A ks : Active(ks)' = Active(ks)
  BY DEF Active, OnRecord
<1>2. \A m, k : Refers(m, k)' <=> Refers(m, k)
  BY DEF Refers, Named, OnRecord
<1>3. \A m : Unchecked(s, m)' <=> Unchecked(s, m)
  BY DEF Unchecked
<1> QED
  BY <1>1, <1>2, <1>3 DEF Informed

\* Whoever refers to a row is in a table its deletion looks at.
LEMMA ReferrersAreLookedAt ==
    ASSUME TypeOK, NEW k \in Keys, NEW m \in Keys, Refers(m, k)
    PROVE  \E i \in DOMAIN DeletionChecks(k) : m \in DeletionChecks(k)[i]
<1>1. OnRecord(m) /\ rows[m] \in RowsOf(m) /\ k \in NamedBy(m, rows[m])
  BY DEF Refers, Named, TypeOK, OnRecord
<1>2. k \in Metrics \cup Dims
  BY <1>1, NamesAreKeys
<1>3. CASE k \in Metrics
  <2>1. m \in Terms \cup Patterns
    <3>1. m \notin Dims
      BY <1>1, DimRows
    <3>2. ASSUME m \in Metrics PROVE FALSE
      <4>1. rows[m] \in MetricRow
        BY <1>1, <3>2, MetricRows
      <4>2. k \in Dims
        BY <1>1, <3>2, <4>1, MetricRows DEF MetricRow
      <4> QED
        BY <1>3, <4>2, KeysAssumption
    <3> QED
      BY <3>1, <3>2 DEF Keys, Patterns
  <2>2. DeletionChecks(k) = <<Examples, Templates, Terms>>
    BY <1>3, DeletionTables
  <2>3. \E i \in {1, 2, 3} : m \in <<Examples, Templates, Terms>>[i]
    BY <2>1 DEF Patterns
  <2> QED
    BY <2>2, <2>3
<1>4. CASE k \in Dims
  <2>1. m \in Metrics \cup Terms \cup Patterns
    BY <1>1, DimRows DEF Keys, Patterns
  <2>2. DeletionChecks(k) = <<Metrics, Terms, Examples, Templates>>
    BY <1>4, DeletionTables
  <2>3. \E i \in {1, 2, 3, 4} : m \in <<Metrics, Terms, Examples, Templates>>[i]
    BY <2>1 DEF Patterns
  <2> QED
    BY <2>2, <2>3
<1> QED
  BY <1>2, <1>3, <1>4

\* Without the metrics it read, the definition of a metric or a dimension is judged alike.
LEMMA JudgedAlike ==
    ASSUME NEW k \in Keys, k \notin Terms \cup Patterns, NEW row, NEW ms, NEW others, NEW ds,
           Accepted(k, row, ms, ds)
    PROVE  Accepted(k, row, others, ds)
<1>1. CASE k \in Metrics
  BY <1>1, MetricRows
<1>2. CASE k \notin Metrics
  <2>1. k \notin Terms /\ k \notin Patterns
    OBVIOUS
  <2> QED
    BY <1>2, <2>1, Zenon DEF Accepted
<1> QED
  BY <1>1, <1>2

LEMMA FirstReads ==
    ASSUME NEW op \in {"create", "update"}, NEW k \in Keys
    PROVE  \/ FirstStage(op, k) = "metrics"
           \/ FirstStage(op, k) = "dims" /\ k \notin Terms \cup Patterns
  BY DEF FirstStage

\* One more table has been looked at.
LEMMA LookedAt ==
    ASSUME NEW r \in Requests, TypeOK, Fits(r), Informed(r), Check(r)
    PROVE  Informed(r)'
<1> DEFINE k == task[r].key
<1>1. /\ pc[r] = "check" /\ UNCHANGED <<rows, task>>
      /\ \A m \in Keys : Refers(m, k) => Unchecked(r, m)
  BY DEF Check, Informed
<1>2. \A m, n : Refers(m, n)' <=> Refers(m, n)
  BY <1>1 DEF Refers, Named, OnRecord
<1>3. CASE checks[r] = <<>>
  <2>1. pc'[r] = "commit" /\ \A m \in Keys : ~Refers(m, k)
    BY <1>1, <1>3 DEF Check, Goto, TypeOK, Unchecked
  <2>2. task[r].op = "delete"
    BY <1>1 DEF Fits
  <2> QED
    BY <1>1, <1>2, <2>1, <2>2 DEF Informed
<1>4. CASE checks[r] # <<>> /\ \E m \in Head(checks[r]) : Refers(m, k)
  <2>1. pc'[r] = "done"
    BY <1>4 DEF Check, Goto, Respond, TypeOK
  <2> QED
    BY <2>1 DEF Informed
<1>5. CASE checks[r] # <<>> /\ \A m \in Head(checks[r]) : ~Refers(m, k)
  <2>1. pc'[r] = "check" /\ checks'[r] = Tail(checks[r])
    BY <1>1, <1>5 DEF Check, TypeOK
  <2>2. ASSUME NEW m \in Keys, Refers(m, k) PROVE Unchecked(r, m)'
    <3>1. PICK i \in DOMAIN checks[r] : m \in checks[r][i]
      BY <1>1, <2>2 DEF Unchecked
    <3>2. checks[r] \in Seq(SUBSET Keys) /\ i # 1
      BY <1>5, <2>2, <3>1 DEF TypeOK
    <3>3. i - 1 \in DOMAIN Tail(checks[r]) /\ Tail(checks[r])[i - 1] = checks[r][i]
      BY <1>5, <3>1, <3>2
    <3> QED
      BY <2>1, <3>1, <3>3 DEF Unchecked
  <2> QED
    BY <1>1, <1>2, <2>1, <2>2 DEF Informed
<1> QED
  BY <1>3, <1>4, <1>5

LEMMA UpToDateStep == TypeOK /\ OnTask /\ UpToDate /\ [Administration]_vars => UpToDate'
<1> SUFFICES ASSUME TypeOK, OnTask, UpToDate, [Administration]_vars PROVE UpToDate'
  OBVIOUS
<1>1. ASSUME NEW r \in Requests, UNCHANGED <<rows, crossed>>, ~crossed[r] => Informed(r)',
             \A s \in Requests \ {r} :
                 /\ pc'[s] = pc[s] /\ task'[s] = task[s] /\ seen'[s] = seen[s]
                 /\ metricPool'[s] = metricPool[s] /\ checks'[s] = checks[s]
      PROVE  UpToDate'
  BY <1>1, Undisturbed DEF UpToDate
<1>2. ASSUME NEW r \in Requests, NEW k \in Keys, Delete(r, k) PROVE UpToDate'
  <2>1. /\ task'[r].op = "delete" /\ task'[r].key = k /\ UNCHANGED rows
        /\ pc'[r] \in {"check", "done"} /\ checks'[r] = DeletionChecks(k)
    BY <1>2 DEF Delete, Receive, Load, Goto, Respond, FirstStage, TypeOK
  <2>2. \A m, n : Refers(m, n)' <=> Refers(m, n)
    BY <2>1 DEF Refers, Named, OnRecord
  <2>3. \A m \in Keys : Refers(m, k) => Unchecked(r, m)'
    BY <2>1, ReferrersAreLookedAt DEF Unchecked
  <2>4. Informed(r)'
    BY <2>1, <2>2, <2>3 DEF Informed
  <2> QED
    BY <1>1, <1>2, <2>4 DEF Delete, Receive, Load, Goto, Respond, TypeOK
<1>3. ASSUME NEW r \in Requests, NEW k \in Keys, NEW row \in Offers[k], Create(r, k, row)
      PROVE  UpToDate'
  <2>1. task'[r].op = "create" /\ task'[r].key = k /\ pc'[r] = FirstStage("create", k)
    BY <1>3 DEF Create, Receive, Goto, TypeOK
  <2>2. Informed(r)'
    BY <2>1, FirstReads DEF Informed
  <2> QED
    BY <1>1, <1>3, <2>2 DEF Create, Receive, Goto, TypeOK
<1>4. ASSUME NEW r \in Requests, NEW k \in Keys, NEW row \in Offers[k], Update(r, k, row)
      PROVE  UpToDate'
  <2>1. /\ task'[r].op = "update" /\ task'[r].key = k /\ seen'[r] = rows[k] /\ rows' = rows
        /\ pc'[r] \in {FirstStage("update", k), "done"}
    BY <1>4 DEF Update, Receive, Load, Goto, Respond, TypeOK
  <2>2. Informed(r)'
    BY <2>1, FirstReads DEF Informed
  <2> QED
    BY <1>1, <1>4, <2>2 DEF Update, Receive, Load, Goto, Respond, TypeOK
<1>5. ASSUME NEW r \in Requests, ReadMetrics(r) PROVE UpToDate'
  <2>1. /\ pc[r] = "metrics" /\ pc'[r] = "dims" /\ UNCHANGED <<rows, task, seen, crossed>>
        /\ metricPool'[r] = Active(Metrics)
    BY <1>5 DEF ReadMetrics, Goto, TypeOK
  <2>2. Active(Metrics)' = Active(Metrics)
    BY <2>1 DEF Active, OnRecord
  <2>3. ~crossed[r] => Informed(r)'
    BY <2>1, <2>2 DEF UpToDate, Informed
  <2> QED
    BY <1>1, <1>5, <2>3 DEF ReadMetrics, Goto, TypeOK
<1>6. ASSUME NEW r \in Requests, Validate(r) PROVE UpToDate'
  <2> DEFINE k == task[r].key
  <2>1. /\ pc[r] = "dims" /\ UNCHANGED <<rows, task, seen, metricPool, checks, crossed>>
        /\ task[r].op # "delete" /\ k \in Keys
    BY <1>6 DEF Validate, OnTask, Fits, Tasks
  <2>2. \A ks : Active(ks)' = Active(ks)
    BY <2>1 DEF Active, OnRecord
  <2>3. CASE pc'[r] = "done"
    BY <1>1, <1>6, <2>1, <2>3 DEF Validate, Goto, Respond, TypeOK, Informed
  <2>4. CASE Accepted(k, task[r].row, metricPool[r], Active(Dims)) /\ pc'[r] \in {"lookup", "commit"}
    <3>1. ~crossed[r] => Accepted(k, task[r].row, Active(Metrics), Active(Dims))
      BY <2>1, <2>4, JudgedAlike DEF UpToDate, Informed
    <3>2. ~crossed[r] => Informed(r)'
      BY <2>1, <2>2, <2>4, <3>1 DEF UpToDate, Informed
    <3> QED
      BY <1>1, <1>6, <2>1, <3>2 DEF Validate, Goto, Respond, TypeOK
  <2> QED
    BY <1>6, <2>3, <2>4 DEF Validate, Goto, Respond, TypeOK
<1>7. ASSUME NEW r \in Requests, LookUp(r) PROVE UpToDate'
  <2>1. /\ pc[r] = "lookup" /\ pc'[r] \in {"commit", "done"}
        /\ UNCHANGED <<rows, task, seen, metricPool, checks, crossed>>
        /\ task[r].op = "create"
    BY <1>7 DEF LookUp, Goto, Respond, TypeOK, OnTask, Fits
  <2>2. \A ks : Active(ks)' = Active(ks)
    BY <2>1 DEF Active, OnRecord
  <2>3. ~crossed[r] => Informed(r)'
    BY <2>1, <2>2 DEF UpToDate, Informed
  <2> QED
    BY <1>1, <1>7, <2>1, <2>3 DEF LookUp, Goto, Respond, TypeOK
<1>8. ASSUME NEW r \in Requests, Check(r) PROVE UpToDate'
  <2>1. UNCHANGED <<rows, task, seen, metricPool, crossed>>
    BY <1>8 DEF Check
  <2>2. ~crossed[r] => Informed(r)'
    BY <1>8, LookedAt DEF UpToDate, OnTask
  <2> QED
    BY <1>1, <1>8, <2>1, <2>2 DEF Check, Goto, Respond, TypeOK
<1>9. ASSUME NEW r \in Requests, Refresh(r) PROVE UpToDate'
  <2>1. Informed(r)'
    BY <1>9 DEF Refresh, Goto, Respond, TypeOK, Informed
  <2> QED
    BY <1>1, <1>9, <2>1 DEF Refresh, Goto, Respond, TypeOK
<1>10. ASSUME NEW r \in Requests, Insert(r) \/ Change(r) \/ Remove(r) PROVE UpToDate'
  <2>1. /\ UNCHANGED <<task, seen, metricPool, checks>>
        /\ pc'[r] \in {"refresh", "done"}
        /\ \A s \in Requests \ {r} : pc'[s] = pc[s]
    BY <1>10 DEF Insert, Change, Remove, Commits, Rollback, Goto, Respond, TypeOK
  <2>2. Informed(r)'
    BY <2>1 DEF Informed
  <2>3. CASE UNCHANGED <<rows, crossed>>
    BY <1>1, <2>1, <2>2, <2>3
  <2>4. CASE crossed' = [s \in Requests |->
                            crossed[s] \/ (s # r /\ pc[s] \notin {"idle", "done"})]
    BY <2>1, <2>2, <2>4 DEF UpToDate, Informed
  <2> QED
    BY <1>10, <2>3, <2>4 DEF Insert, Change, Remove, Rollback, Write
<1>11. CASE UNCHANGED vars
  BY <1>11, Undisturbed DEF vars, request, UpToDate
<1> QED
  BY <1>2, <1>3, <1>4, <1>5, <1>6, <1>7, <1>8, <1>9, <1>10, <1>11, Admin

\* The catalogue stays whole as long as none commits that was crossed.
LEMMA WholeStep ==
    CatalogueInv /\ [Administration]_vars => (~raced' => Whole(rows)')
<1> SUFFICES ASSUME CatalogueInv, [Administration]_vars, ~raced' PROVE Whole(rows')
  BY DEF Whole, Excused, NamedBy
<1>1. CASE UNCHANGED <<rows, raced>>
  BY <1>1 DEF CatalogueInv
<1>2. ASSUME NEW r \in Requests, NEW row, Write(r, row), pc[r] = "commit"
      PROVE  /\ Whole(rows) /\ Informed(r) /\ Fits(r) /\ task[r].key \in Keys
             /\ rows' = [rows EXCEPT ![task[r].key] = row]
  <2>1. ~raced /\ ~crossed[r]
    BY <1>2 DEF Write, CatalogueInv, TypeOK
  <2> QED
    BY <1>2, <2>1 DEF Write, CatalogueInv, UpToDate, OnTask, Fits, Tasks
<1>3. ASSUME NEW r \in Requests, Insert(r) PROVE Whole(rows')
  <2>1. CASE Write(r, task[r].row)
    BY <1>2, <1>3, <2>1, WritingKeepsWhole DEF Insert, Commits, Informed, Fits, CatalogueInv
  <2> QED
    BY <1>1, <1>3, <2>1 DEF Insert, Rollback
<1>4. ASSUME NEW r \in Requests, Change(r) PROVE Whole(rows')
  <2>1. CASE OnRecord(task[r].key)
    <3>1. Write(r, Merged(r)) /\ pc[r] = "commit" /\ task[r].op = "update"
      BY <1>4, <2>1 DEF Change, Commits
    <3>2. Merged(r) = task[r].row
      BY <1>2, <2>1, <3>1, MergedType DEF CatalogueInv, Informed
    <3> QED
      BY <1>2, <3>1, <3>2, WritingKeepsWhole DEF Informed, Fits, CatalogueInv
  <2>2. CASE ~OnRecord(task[r].key)
    BY <1>1, <1>4, <2>2 DEF Change, Rollback
  <2> QED
    BY <2>1, <2>2
<1>5. ASSUME NEW r \in Requests, Remove(r) PROVE Whole(rows')
  BY <1>2, <1>5, RemovingKeepsWhole DEF Remove, Commits, Informed, CatalogueInv
<1>6. ASSUME NEW r \in Requests,
             \/ \E k \in Keys : Delete(r, k)
             \/ \E k \in Keys : \E row \in Offers[k] : Create(r, k, row)
             \/ \E k \in Keys : \E row \in Offers[k] : Update(r, k, row)
             \/ ReadMetrics(r) \/ Validate(r) \/ LookUp(r) \/ Check(r) \/ Refresh(r)
      PROVE  UNCHANGED <<rows, raced>>
  BY <1>6 DEF Delete, Create, Update, Receive, ReadMetrics, Validate, LookUp, Check, Refresh
<1>7. CASE UNCHANGED vars
  BY <1>1, <1>7 DEF vars
<1> QED
  BY <1>1, <1>3, <1>4, <1>5, <1>6, <1>7, Admin

LEMMA CatalogueStep == CatalogueInv /\ [Administration]_vars => CatalogueInv'
  BY CatalogueType, OnTaskStep, UpToDateStep, WholeStep DEF CatalogueInv

LEMMA WholeIsNotDangling == CatalogueInv => DanglingHasACause
<1> SUFFICES ASSUME CatalogueInv, ~raced, NEW k \in Keys, OnRecord(k), ~Excused(k, rows[k]),
                    NEW n \in Named(k)
             PROVE  OnRecord(n)
  BY DEF DanglingHasACause
<1> QED
  BY DEF CatalogueInv, Whole, Named, OnRecord

\* The columns of every row, and where every request is, keep their types.
THEOREM TypeCorrect == Spec => []TypeOK
<1>1. CatalogueInv => TypeOK
  BY DEF CatalogueInv
<1> QED
  BY <1>1, InitCatalogue, CatalogueStep, PTL DEF Spec

\* No foreign key backs the references between rows; yet whatever administrators do, a
\* row only names what is gone once one of them has committed on what another one had
\* changed since it was read (service.py, from validate_..._definition to commit).
THEOREM DanglingIsCaused == Spec => []DanglingHasACause
  BY InitCatalogue, CatalogueStep, WholeIsNotDangling, PTL DEF Spec

-----------------------------------------------------------------------------
(* Questions *)

QStages == {"metrics", "dims", "loaded", "compiled", "blocked", "failed", "answered"}

Catalogues ==
    [metrics : UNION {[S -> MetricDefs] : S \in SUBSET Metrics},
     dims : UNION {[S -> DimDefs] : S \in SUBSET Dims}]

Blocks ==
    [block : BlockNames, optional : BOOLEAN, tables : SUBSET Tables, joins : SUBSET Dims,
     filters : SUBSET Dims, period : Periods \cup {"previous"}, limit : Nat \ {0}]

\* Blocks that have run
Results ==
    [block : BlockNames, tables : SUBSET Tables, filters : SUBSET Dims,
     period : Periods \cup {"previous"}, limits : Seq(Nat), shown : Nat]

ParseErrors == {"parse_error", "sql_parse_error"}

Reasons ==
    ParseErrors \cup
    {"strategy", "metric_required", "disallowed_dimension", "unknown_dimension", "join_path",
     "disallowed_filter", "unknown_filter", "filter_operator", "filter_values", "filter_value"}

QTypeOK ==
    /\ qpc \in [Questions -> QStages]
    /\ loaded \in [Questions -> Catalogues]
    /\ tidy \in [Questions -> BOOLEAN]
    /\ split \in [Questions -> BOOLEAN]
    /\ asked \in [Questions -> [metric : Metrics \cup {NoMetric}, faulty : BOOLEAN]]
    /\ refusals \in [Questions -> SUBSET Reasons]
    /\ blocks \in [Questions -> Seq(Blocks)]
    /\ ran \in [Questions -> SUBSET Results]

Joinable(d, cat) == d \in DOMAIN cat.dims /\ ~Unjoined(d, cat) /\ cat.dims[d].composes

\* What has been read of a tidy catalogue stays usable while none commits between the
\* two reads, and can be joined once both have been made; its metrics compose.
ReadTidily ==
    \A q \in Questions : tidy[q] /\ ~split[q] =>
        LET named == UNION {loaded[q].metrics[m].dims : m \in DOMAIN loaded[q].metrics} IN
        /\ qpc[q] = "dims" => \A d \in named : Usable(d)
        /\ qpc[q] = "loaded" => \A d \in named : Joinable(d, loaded[q])
        /\ qpc[q] \in {"dims", "loaded"} =>
              \A m \in DOMAIN loaded[q].metrics : loaded[q].metrics[m].composes

NotPlanned ==
    \A q \in Questions : qpc[q] \in {"metrics", "dims", "loaded"} =>
        refusals[q] = {} /\ blocks[q] = <<>> /\ ran[q] = {}

\* Some blocks restrict the same rows, baselines apart.
SameRows(some) ==
    \E f \in SUBSET Dims, p \in Periods :
        \A b \in some : b.period = "previous" \/ (b.filters = f /\ b.period = p)

\* The blocks that have run, and those that will, restrict the same rows.
Alike ==
    \A q \in Questions : qpc[q] = "compiled" \/ ran[q] # {} =>
        \/ loaded[q].metrics[asked[q].metric].filters = {}
        \/ SameRows(ran[q] \cup {blocks[q][i] : i \in DOMAIN blocks[q]})

QuestionInv ==
    QTypeOK /\ ReadTidily /\ NotPlanned /\ RefusedForACause /\ Alike /\ RunsWithinPolicy

\* The least of a set of natural numbers
LEMMA LeastOfNaturals ==
    ASSUME NEW S \in SUBSET Nat, S # {}
    PROVE  Min(S) \in S /\ \A n \in S : Min(S) <= n
<1>1. PICK m \in S : \A n \in S : ~(<<n, m>> \in OpToRel(<, Nat))
  BY NatLessThanWellFounded, WFMin
<1>2. ASSUME NEW n \in S PROVE m <= n
  <2>1. n < m => <<n, m>> \in OpToRel(<, Nat)
    BY DEF OpToRel
  <2>2. ~(n < m)
    BY <1>1, <2>1, Zenon
  <2> QED
    BY <2>2
<1> QED
  BY <1>1, <1>2 DEF Min

\* No limit that the policies set on the tables is passed.
LEMMA LimitOfPolicies ==
    ASSUME NEW tables \in SUBSET DOMAIN RowLimits
    PROVE  /\ PolicyLimit(tables) \in Nat \ {0}
           /\ PolicyLimit(tables) <= MaxRows
           /\ \A t \in tables : PolicyLimit(tables) <= RowLimits[t]
<1> DEFINE limits == {RowLimits[t] : t \in tables} \cup {MaxRows}
<1>1. limits \in SUBSET (Nat \ {0}) /\ limits # {}
  BY PlansAssumption
<1>2. Min(limits) \in limits /\ \A n \in limits : Min(limits) <= n
  BY <1>1, LeastOfNaturals
<1> QED
  BY <1>1, <1>2 DEF PolicyLimit

\* What is relied on in a draft that has been read against a catalogue
ReadAgainst(reading, cat) ==
    /\ reading.metric \in DOMAIN cat.metrics \cup {NoMetric}
    /\ reading.dims \subseteq DOMAIN cat.dims
    /\ DOMAIN reading.filters \subseteq DOMAIN cat.dims
    /\ reading.period \in Periods
    /\ reading.limit \in Nat \ {0}
    /\ reading.top \in Nat

LEMMA ReadingType ==
    ASSUME NEW cat \in Catalogues, NEW draft \in Drafts
    PROVE  ReadAgainst(Reading(draft, cat), cat)
<1>1. draft.limit \in Int /\ draft.period \in Periods
  BY DraftsAssumption
<1>2. NormalizedPeriod(draft.period) \in Periods
  BY <1>1 DEF NormalizedPeriod, Periods
<1>3. \A n \in Int : Clamp(n, 1, MaxRows) \in Nat \ {0}
  BY PlansAssumption DEF Clamp, Least
<1> QED
  BY <1>1, <1>2, <1>3 DEF Reading, ReadAgainst, NormalizedFilters, Governed

\* The dimension a block is broken down by is one the metric allows.
LEMMA ChosenFromMetric ==
    ASSUME NEW reading, NEW hints, NEW metric, NEW cat
    PROVE  /\ TimeDimensions(reading, hints, metric, cat) \subseteq metric.dims
           /\ CategoryDimensions(reading, hints, metric, cat) \subseteq metric.dims
  BY DEF TimeDimensions, CategoryDimensions, FirstMatches

\* The blocks a plan is made of: figures are broken down by what the metric allows, and
\* all are about the period of the reading, or the one before it.
Specs(reading, metric) ==
    {s \in [block : BlockNames, mode : {"aggregate", "record"}, dims : SUBSET Dims,
            period : {reading.period, "previous"}, limit : Nat \ {0}, optional : BOOLEAN] :
        s.mode = "aggregate" => s.dims \subseteq metric.dims}

LEMMA AggregateSpec ==
    ASSUME NEW reading, NEW metric, metric.dims \subseteq Dims,
           NEW block \in BlockNames, NEW dims \in SUBSET metric.dims,
           NEW period \in {reading.period, "previous"}, NEW limit \in Nat \ {0},
           NEW optional \in BOOLEAN
    PROVE  Aggregate(block, dims, period, limit, optional) \in Specs(reading, metric)
  BY DEF Aggregate, Specs

LEMMA RecordSpec ==
    ASSUME NEW reading, NEW metric, reading.dims \subseteq Dims,
           NEW block \in BlockNames, NEW limit \in Nat \ {0}, NEW optional \in BOOLEAN
    PROVE  Records(block, reading, limit, optional) \in Specs(reading, metric)
  BY DEF Records, Specs

\* Every plan of every type of answer is made of such blocks.
LEMMA PlansAreSpecs ==
    ASSUME NEW cat \in Catalogues, NEW reading, ReadAgainst(reading, cat),
           NEW hints, NEW type, NEW plan \in Plans(type, reading, hints, cat)
    PROVE  plan \in Seq(Specs(reading, cat.metrics[MetricOf(reading, hints)]))
<1> DEFINE metric == cat.metrics[MetricOf(reading, hints)]
           times == TimeDimensions(reading, hints, metric, cat)
           categories == CategoryDimensions(reading, hints, metric, cat)
           Made == Seq(Specs(reading, metric))
<1>1. MetricOf(reading, hints) \in DOMAIN cat.metrics
  BY DEF Plans
<1>2. metric.dims \subseteq Dims
  BY <1>1 DEF Catalogues, MetricDefs
<1>3. times \subseteq metric.dims /\ categories \subseteq metric.dims
  BY ChosenFromMetric
<1>4. reading.dims \subseteq Dims /\ reading.limit \in Nat \ {0} /\ reading.top \in Nat
  BY DEF ReadAgainst, Catalogues
<1>5. Ranked(reading) \in Nat
  BY <1>4 DEF Ranked
<1> HIDE DEF metric, times, categories
<1>6. /\ <<>> \in Made
      /\ \A s \in Specs(reading, metric) : <<s>> \in Made
      /\ \A s, t \in Made : s \o t \in Made
  OBVIOUS
<1> HIDE DEF Made
<1>7. ASSUME NEW block \in BlockNames, NEW dims \in SUBSET metric.dims,
             NEW period \in {reading.period, "previous"}, NEW limit \in Nat \ {0},
             NEW optional \in BOOLEAN
      PROVE  <<Aggregate(block, dims, period, limit, optional)>> \in Made
  BY <1>2, <1>6, AggregateSpec, Zenon
<1>8. ASSUME NEW block \in BlockNames, NEW d \in metric.dims, NEW limit \in Nat \ {0},
             NEW optional \in BOOLEAN
      PROVE  <<Aggregate(block, {d}, reading.period, limit, optional)>> \in Made
  BY <1>7, Zenon
<1>9. ASSUME NEW block \in BlockNames, NEW limit \in Nat \ {0}, NEW optional \in BOOLEAN
      PROVE  <<Records(block, reading, limit, optional)>> \in Made
  BY <1>4, <1>6, RecordSpec, Zenon
<1>10. ASSUME NEW some \in SUBSET Made, NEW others \in SUBSET Made
       PROVE  Then(some, others) \subseteq Made
  <2>1. ASSUME NEW first \in some, NEW second \in others
        PROVE  first \o second \in Made
    BY <1>6
  <2>2. ASSUME NEW both \in Then(some, others)
        PROVE  both \in Made
    <3>1. PICK first \in some : both \in {first \o second : second \in others}
      BY DEF Then
    <3> QED
      BY <2>1, <3>1
  <2> QED
    BY <2>2
<1>11. /\ 1 \in Nat \ {0} /\ 9 \in Nat \ {0} /\ 26 \in Nat \ {0}
       /\ Clamp(reading.limit, 14, 90) \in Nat \ {0}
       /\ Clamp(reading.limit, 14, 120) \in Nat \ {0}
       /\ Clamp(reading.limit, 10, 50) \in Nat \ {0}
       /\ Clamp(Ranked(reading), 5, 12) \in Nat \ {0}
       /\ Clamp(Ranked(reading), 5, 15) \in Nat \ {0}
  BY <1>4, <1>5 DEF Clamp, Least
<1>12. ASSUME NEW block \in BlockNames
       PROVE  Headline(block, reading) \subseteq Made
  <2>1. Kpi(block, reading) \in Made
    BY <1>7, <1>11, Zenon DEF BlockNames, Kpi
  <2>2. <<Aggregate("previous_period", {}, "previous", 1, TRUE)>> \in Made
    BY <1>7, <1>11, Zenon DEF BlockNames
  <2>3. Baseline(reading) \subseteq Made
    BY <1>6, <2>2 DEF Baseline
  <2> QED
    BY <1>10, <2>1, <2>3, Zenon DEF Headline
<1>13. Comparison(reading, categories) \subseteq Made
  <2>1. ASSUME NEW d \in metric.dims
        PROVE  <<Aggregate("comparison", {d}, reading.period,
                           Clamp(Ranked(reading), 5, 15), FALSE)>> \in Made
    BY <1>8, <1>11, Zenon DEF BlockNames
  <2> QED
    BY <1>3, <1>6, <2>1 DEF Comparison
<1>14. Trend(reading, times) \subseteq Made
  <2>1. ASSUME NEW d \in metric.dims
        PROVE  <<Aggregate("trend", {d}, reading.period,
                           Clamp(reading.limit, 14, 120), FALSE)>> \in Made
    BY <1>8, <1>11, Zenon DEF BlockNames
  <2> QED
    BY <1>3, <1>6, <2>1 DEF Trend
<1>15. Distribution(reading, categories) \subseteq Made
  <2>1. ASSUME NEW d \in metric.dims
        PROVE  <<Aggregate("distribution", {d}, reading.period,
                           Clamp(reading.limit, 10, 50), FALSE)>> \in Made
    BY <1>8, <1>11, Zenon DEF BlockNames
  <2> QED
    BY <1>3, <1>6, <2>1 DEF Distribution
<1>16. Table(reading) \subseteq Made
  BY <1>9, <1>11, Zenon DEF BlockNames, Table
<1>17. FullReport(reading, times, categories) \subseteq Made
  <2>1. TrendSection(reading, times) \subseteq Made
    <3>1. ASSUME NEW d \in metric.dims
          PROVE  <<Aggregate("report_trend", {d}, reading.period,
                            Clamp(reading.limit, 14, 90), TRUE)>> \in Made
      BY <1>8, <1>11, Zenon DEF BlockNames
    <3> QED
      BY <1>3, <1>6, <3>1 DEF TrendSection
  <2>2. ComparisonSection(reading, categories) \subseteq Made
    <3>1. ASSUME NEW d \in metric.dims
          PROVE  <<Aggregate("report_comparison", {d}, reading.period,
                            Clamp(Ranked(reading), 5, 12), TRUE)>> \in Made
      BY <1>8, <1>11, Zenon DEF BlockNames
    <3> QED
      BY <1>3, <1>6, <3>1 DEF ComparisonSection
  <2>3. <<Records("report_records", reading, 9, TRUE)>> \in Made
    BY <1>9, <1>11, Zenon DEF BlockNames
  <2>4. Headline("headline_kpi", reading) \subseteq Made
    BY <1>12, Zenon DEF BlockNames
  <2> QED
    BY <1>10, <2>1, <2>2, <2>3, <2>4, Zenon DEF FullReport
<1>18. Headline("primary_kpi", reading) \subseteq Made
  BY <1>12, Zenon DEF BlockNames
<1>19. plan \in Headline("primary_kpi", reading) \cup Comparison(reading, categories)
                 \cup Trend(reading, times) \cup Distribution(reading, categories)
                 \cup Table(reading) \cup FullReport(reading, times, categories)
  BY <1>1, SMT DEF Plans, metric, times, categories
<1>20. plan \in Made
  BY <1>13, <1>14, <1>15, <1>16, <1>17, <1>18, <1>19
<1> QED
  BY <1>20 DEF metric, Made

\* A plan is refused for what refuses one of its blocks, or because the statement of one
\* does not parse.
LEMMA RefusedByABlock ==
    ASSUME NEW S, NEW plan \in Seq(S), NEW unparsed, NEW reading, NEW cat
    PROVE  /\ \/ PlanRefusals(plan, unparsed, reading, cat) = {}
              \/ \E i \in DOMAIN plan :
                   PlanRefusals(plan, unparsed, reading, cat) = Refusals(plan[i], reading, cat)
              \/ /\ unparsed \in DOMAIN plan
                 /\ PlanRefusals(plan, unparsed, reading, cat) = {ParseError(plan[unparsed])}
           /\ PlanRefusals(plan, unparsed, reading, cat) = {} =>
                \A i \in DOMAIN plan : Refusals(plan[i], reading, cat) = {}
<1> DEFINE refused == {i \in DOMAIN plan : i = unparsed \/ Refusals(plan[i], reading, cat) # {}}
<1>1. refused \in SUBSET Nat
  OBVIOUS
<1>2. refused # {} => Min(refused) \in refused
  BY <1>1, LeastOfNaturals
<1>3. PlanRefusals(plan, unparsed, reading, cat) =
        IF refused = {} THEN {}
        ELSE IF Min(refused) = unparsed THEN {ParseError(plan[unparsed])}
        ELSE Refusals(plan[Min(refused)], reading, cat)
  BY DEF PlanRefusals
<1> HIDE DEF refused
<1>4. CASE refused = {}
  BY <1>3, <1>4 DEF refused
<1>5. CASE refused # {} /\ Min(refused) = unparsed
  BY <1>2, <1>3, <1>5 DEF refused
<1>6. CASE refused # {} /\ Min(refused) # unparsed
  <2> DEFINE m == Min(refused)
  <2>1. m \in refused /\ m # unparsed
    BY <1>2, <1>6
  <2>2. PlanRefusals(plan, unparsed, reading, cat) = Refusals(plan[m], reading, cat)
    BY <1>3, <1>6
  <2>3. m \in DOMAIN plan /\ Refusals(plan[m], reading, cat) # {}
    BY <2>1 DEF refused
  <2> HIDE DEF m
  <2>4. \E i \in DOMAIN plan :
          PlanRefusals(plan, unparsed, reading, cat) = Refusals(plan[i], reading, cat)
    BY <2>2, <2>3, Zenon
  <2>5. PlanRefusals(plan, unparsed, reading, cat) # {}
    BY <2>2, <2>3, Zenon
  <2> QED
    BY <2>4, <2>5, Zenon
<1> QED
  BY <1>4, <1>5, <1>6

LEMMA RefusalsType ==
    ASSUME NEW spec, NEW reading, NEW cat
    PROVE  Refusals(spec, reading, cat) \subseteq Reasons
<1>1. \A d, filter : FilterRefusal(d, filter, cat) \in Reasons \cup {"none"}
  BY DEF FilterRefusal, Reasons
<1>2. \A d, metric : DimensionRefusal(d, metric, cat) \in Reasons \cup {"none"}
  BY DEF DimensionRefusal, Reasons
<1>3. \A d, filter, metric :
        AggregateFilterRefusal(d, filter, metric, cat) \in Reasons \cup {"none"}
  BY <1>1 DEF AggregateFilterRefusal, Reasons
<1>4. \A d : (IF Unjoined(d, cat) THEN "join_path" ELSE "none") \in Reasons \cup {"none"}
  BY DEF Reasons
<1>5. "metric_required" \in Reasons
  BY DEF Reasons
<1>6. AggregateRefusals(spec, reading, cat) \subseteq Reasons
  BY <1>2, <1>3, <1>5 DEF AggregateRefusals, OneOf
<1>7. RecordRefusals(spec, reading, cat) \subseteq Reasons
  BY <1>1, <1>4, <1>5 DEF RecordRefusals, OneOf
<1> QED
  BY <1>6, <1>7 DEF Refusals

\* What is known of a block that is compiled: its metric has been read, figures are
\* broken down by dimensions that have been read, and heed every filter of the reading,
\* all of them allowed.
LEMMA UnrefusedBlock ==
    ASSUME NEW spec, NEW reading, NEW cat, Refusals(spec, reading, cat) = {}
    PROVE  LET metric == cat.metrics[reading.metric] IN
           /\ reading.metric # NoMetric
           /\ spec.mode # "record" =>
                 /\ spec.dims \subseteq DOMAIN cat.dims
                 /\ metric.filters # {} => DOMAIN reading.filters \subseteq metric.filters
<1>1. reading.metric # NoMetric
  BY DEF Refusals, AggregateRefusals, RecordRefusals
<1> DEFINE metric == cat.metrics[reading.metric]
<1>2. ASSUME spec.mode # "record"
      PROVE  /\ \A d \in spec.dims : DimensionRefusal(d, metric, cat) = "none"
             /\ \A d \in DOMAIN reading.filters :
                   AggregateFilterRefusal(d, reading.filters[d], metric, cat) = "none"
  BY <1>1, <1>2 DEF Refusals, AggregateRefusals, OneOf
<1>3. \A d : DimensionRefusal(d, metric, cat) = "none" => d \in DOMAIN cat.dims
  BY DEF DimensionRefusal
<1>4. \A d, filter : AggregateFilterRefusal(d, filter, metric, cat) = "none"
                        => metric.filters = {} \/ d \in metric.filters
  BY DEF AggregateFilterRefusal
<1> QED
  BY <1>1, <1>2, <1>3, <1>4

LEMMA CompiledType ==
    ASSUME NEW cat \in Catalogues, NEW reading, ReadAgainst(reading, cat),
           NEW metric, NEW spec \in Specs(reading, metric), Refusals(spec, reading, cat) = {}
    PROVE  Compiled(spec, reading, cat) \in Blocks
<1> DEFINE joined == {d \in UsedDims(spec, reading, cat) : ~cat.dims[d].onGrain}
<1>1. reading.metric \in DOMAIN cat.metrics /\ DOMAIN cat.dims \subseteq Dims
  BY UnrefusedBlock DEF ReadAgainst, Catalogues
<1>2. UsedFilters(spec, reading, cat) \subseteq DOMAIN cat.dims
  BY DEF UsedFilters, RowFilters, ReadAgainst
<1>3. UsedDims(spec, reading, cat) \subseteq DOMAIN cat.dims
  BY <1>2, UnrefusedBlock DEF UsedDims, RowDims
<1>4. \A d \in DOMAIN cat.dims : cat.dims[d].path \subseteq Tables
  BY DEF Catalogues, DimDefs
<1>5. {Base} \cup UNION {cat.dims[d].path : d \in joined} \subseteq Tables
  BY <1>3, <1>4, PlansAssumption
<1>6. Least(spec.limit, MaxRows) \in Nat \ {0}
  BY PlansAssumption DEF Specs, Least
<1>7. spec.block \in BlockNames /\ spec.optional \in BOOLEAN
      /\ spec.period \in Periods \cup {"previous"}
  BY DEF Specs, ReadAgainst
<1> QED
  BY <1>1, <1>2, <1>3, <1>5, <1>6, <1>7 DEF Compiled, Blocks

\* The blocks of a plan that is compiled restrict the same rows.
LEMMA CompiledAlike ==
    ASSUME NEW cat \in Catalogues, NEW reading, ReadAgainst(reading, cat), NEW metric,
           cat.metrics[reading.metric].filters # {}
    PROVE  LET f == RowFilters(reading, cat.metrics[reading.metric], cat) IN
           \A spec \in Specs(reading, metric) : Refusals(spec, reading, cat) = {} =>
              LET b == Compiled(spec, reading, cat) IN
              b.period = "previous" \/ (b.filters = f /\ b.period = reading.period)
<1> SUFFICES ASSUME NEW spec \in Specs(reading, metric), Refusals(spec, reading, cat) = {}
             PROVE  LET b == Compiled(spec, reading, cat) IN
                    /\ b.period \in {reading.period, "previous"}
                    /\ b.filters = RowFilters(reading, cat.metrics[reading.metric], cat)
  BY Zenon
<1>1. spec.mode # "record" => DOMAIN reading.filters \subseteq cat.metrics[reading.metric].filters
  BY UnrefusedBlock
<1>2. UsedFilters(spec, reading, cat) = RowFilters(reading, cat.metrics[reading.metric], cat)
  BY <1>1 DEF UsedFilters, RowFilters, ReadAgainst
<1>3. spec.period \in {reading.period, "previous"}
  BY DEF Specs
<1> QED
  BY <1>2, <1>3 DEF Compiled

\* Nothing is refused of a reading without a fault, if its metric composes and all that it
\* names can be joined, and every statement parses.
LEMMA NoFaultNoRefusal ==
    ASSUME NEW cat \in Catalogues, NEW reading, ReadAgainst(reading, cat),
           ~Faulty(reading, cat),
           cat.metrics[reading.metric].composes,
           \A d \in cat.metrics[reading.metric].dims : Joinable(d, cat),
           NEW spec \in Specs(reading, cat.metrics[reading.metric])
    PROVE  /\ Refusals(spec, reading, cat) = {}
           /\ \A d \in UsedDims(spec, reading, cat) : cat.dims[d].composes
<1> DEFINE metric == cat.metrics[reading.metric]
<1>1. reading.metric # NoMetric
  BY DEF Faulty
<1>2. \A d \in metric.dims : d \in DOMAIN cat.dims /\ ~Unjoined(d, cat)
  BY DEF Joinable
<1>3. \A d \in DOMAIN reading.filters :
        AggregateFilterRefusal(d, reading.filters[d], metric, cat) = "none"
  BY <1>1 DEF Faulty, AggregateRefusals, OneOf
<1>6. \A d \in metric.dims \cup DOMAIN reading.filters : cat.dims[d].composes
  BY DEF Faulty, Joinable
<1>4. CASE spec.mode = "record"
  <2>1. \A d \in RowDims(spec, metric, cat) : ~Unjoined(d, cat)
    BY <1>2 DEF RowDims
  <2>2. \A d \in RowFilters(reading, metric, cat) :
          FilterRefusal(d, reading.filters[d], cat) = "none"
    BY <1>3 DEF RowFilters, AggregateFilterRefusal
  <2>3. Refusals(spec, reading, cat) = {}
    BY <1>1, <1>4, <2>1, <2>2 DEF Refusals, RecordRefusals, OneOf
  <2>4. \A d \in UsedDims(spec, reading, cat) : d \in metric.dims \cup DOMAIN reading.filters
    BY <1>4 DEF UsedDims, UsedFilters, RowDims, RowFilters
  <2> QED
    BY <1>6, <2>3, <2>4
<1>5. CASE spec.mode # "record"
  <2>1. \A d \in spec.dims : DimensionRefusal(d, metric, cat) = "none"
    BY <1>2, <1>5 DEF DimensionRefusal, Specs
  <2>2. Refusals(spec, reading, cat) = {}
    BY <1>1, <1>3, <1>5, <2>1 DEF Refusals, AggregateRefusals, OneOf
  <2>3. \A d \in UsedDims(spec, reading, cat) : d \in metric.dims \cup DOMAIN reading.filters
    BY <1>5 DEF UsedDims, UsedFilters, Specs
  <2> QED
    BY <1>6, <2>2, <2>3
<1> QED
  BY <1>4, <1>5

-----------------------------------------------------------------------------
(* The steps of questions *)

LEMMA InitQuestions == QInit => QuestionInv
<1> SUFFICES ASSUME QInit PROVE QuestionInv
  OBVIOUS
<1>1. Nothing \in [{} -> MetricDefs] /\ Nothing \in [{} -> DimDefs]
  BY DEF Nothing
<1>2. [metrics |-> Nothing, dims |-> Nothing] \in Catalogues
  BY <1>1 DEF Catalogues
<1>3. QTypeOK
  BY <1>2 DEF QInit, QTypeOK, QStages, NoQuestion
<1>4. ReadTidily /\ NotPlanned /\ RefusedForACause /\ Alike /\ RunsWithinPolicy
  BY DEF QInit, ReadTidily, NotPlanned, RefusedForACause, Alike, RunsWithinPolicy
<1> QED
  BY <1>3, <1>4 DEF QuestionInv

\* Administration touches no question; a commit between the reads of one is noted.
LEMMA AdministerStep == QuestionInv /\ Administer => QuestionInv'
<1> SUFFICES ASSUME QuestionInv, Administer PROVE QuestionInv'
  OBVIOUS
<1>1. UNCHANGED <<qpc, loaded, tidy, asked, refusals, blocks, ran>>
  BY DEF Administer
<1>2. split' = [q \in Questions |-> split[q] \/ (qpc[q] = "dims" /\ rows' # rows)]
  BY DEF Administer
<1>3. QTypeOK'
  BY <1>1, <1>2 DEF QuestionInv, QTypeOK
<1>4. ReadTidily'
  <2> SUFFICES ASSUME NEW q \in Questions, tidy[q], ~split'[q]
               PROVE  LET named == UNION {loaded[q].metrics[m].dims : m \in DOMAIN loaded[q].metrics} IN
                      /\ qpc[q] = "dims" => \A d \in named : Usable(d)'
                      /\ qpc[q] = "loaded" => \A d \in named : Joinable(d, loaded[q])
                      /\ qpc[q] \in {"dims", "loaded"} =>
                            \A m \in DOMAIN loaded[q].metrics : loaded[q].metrics[m].composes
    BY <1>1 DEF ReadTidily, Joinable, Unjoined
  <2>1. ~split[q] /\ (qpc[q] = "dims" => rows' = rows)
    BY <1>2
  <2>2. rows' = rows => \A d : Usable(d)' <=> Usable(d)
    BY DEF Usable, Active, OnRecord
  <2> QED
    BY <2>1, <2>2 DEF QuestionInv, ReadTidily
<1>5. NotPlanned' /\ Alike' /\ RunsWithinPolicy'
  BY <1>1 DEF QuestionInv, NotPlanned, Alike, RunsWithinPolicy
<1>6. RefusedForACause'
  BY <1>1, <1>2 DEF QuestionInv, RefusedForACause
<1> QED
  BY <1>3, <1>4, <1>5, <1>6 DEF QuestionInv

\* The first read: what it finds is tidy if the catalogue is.
LEMMA LoadMetricsStep ==
    ASSUME TypeOK, QuestionInv, NEW q \in Questions, LoadMetrics(q)
    PROVE  QuestionInv'
<1> DEFINE read == [m \in Active(Metrics) |-> [dims |-> rows[m].dims, filters |-> rows[m].filters,
                                               composes |-> rows[m].composes]]
<1>1. /\ qpc[q] = "metrics"
      /\ loaded' = [loaded EXCEPT ![q].metrics = read]
      /\ tidy' = [tidy EXCEPT ![q] = Tidy]
      /\ qpc' = [qpc EXCEPT ![q] = "dims"]
      /\ UNCHANGED <<vars, split, asked, refusals, blocks, ran>>
  BY DEF LoadMetrics
<1>2. ASSUME NEW m \in Active(Metrics)
      PROVE  /\ m \in Metrics
             /\ rows[m] \in MetricRow
             /\ Named(m) = rows[m].dims \cup rows[m].filters
  <2>1. m \in Metrics /\ OnRecord(m)
    BY DEF Active
  <2>2. rows[m] \in RowsOf(m)
    BY <2>1 DEF TypeOK, OnRecord, Keys
  <2> QED
    BY <2>1, <2>2, MetricRows DEF Named
<1>3. read \in UNION {[S -> MetricDefs] : S \in SUBSET Metrics}
  <2>1. \A m \in Active(Metrics) : /\ rows[m].dims \subseteq Dims /\ rows[m].filters \subseteq Dims
                                   /\ rows[m].composes \in BOOLEAN
    BY <1>2 DEF MetricRow
  <2>2. read \in [Active(Metrics) -> MetricDefs]
    BY <2>1 DEF MetricDefs
  <2>3. Active(Metrics) \in SUBSET Metrics
    BY <1>2
  <2> QED
    BY <2>2, <2>3
<1>4. loaded[q] \in Catalogues
  BY DEF QuestionInv, QTypeOK
<1>5. loaded' = [loaded EXCEPT ![q] = [loaded[q] EXCEPT !.metrics = read]]
  BY <1>1
<1> HIDE DEF read
<1>6. [loaded[q] EXCEPT !.metrics = read] \in Catalogues
  BY <1>3, <1>4 DEF Catalogues
<1>7. QTypeOK'
  BY <1>1, <1>5, <1>6 DEF QuestionInv, QTypeOK, QStages, Tidy
<1>8. ReadTidily'
  <2> SUFFICES ASSUME NEW p \in Questions, tidy'[p], ~split[p]
               PROVE  LET named == UNION {loaded'[p].metrics[m].dims : m \in DOMAIN loaded'[p].metrics} IN
                      /\ qpc'[p] = "dims" => \A d \in named : Usable(d)
                      /\ qpc'[p] = "loaded" => \A d \in named : Joinable(d, loaded'[p])
                      /\ qpc'[p] \in {"dims", "loaded"} =>
                            \A m \in DOMAIN loaded'[p].metrics : loaded'[p].metrics[m].composes
    BY <1>1 DEF ReadTidily, Joinable, Unjoined, Usable, Active, OnRecord, vars
  <2>1. CASE p # q
    BY <1>1, <2>1 DEF QuestionInv, QTypeOK, ReadTidily
  <2>2. CASE p = q
    <3>1. Tidy /\ qpc'[p] = "dims"
      BY <1>1, <2>2 DEF QuestionInv, QTypeOK
    <3>2. loaded'[p].metrics = read
      BY <1>4, <1>5, <2>2 DEF QuestionInv, QTypeOK, Catalogues
    <3>3. ASSUME NEW m \in DOMAIN read, NEW d \in read[m].dims
          PROVE  Usable(d)
      BY <1>2, <3>1 DEF read, Tidy
    <3>4. \A m \in DOMAIN read : read[m].composes
      BY <3>1 DEF read, Tidy
    <3> QED
      BY <3>1, <3>2, <3>3, <3>4
  <2> QED
    BY <2>1, <2>2
<1>9. NotPlanned'
  BY <1>1 DEF QuestionInv, QTypeOK, NotPlanned
<1>10. RefusedForACause'
  BY <1>1 DEF QuestionInv, QTypeOK, NotPlanned, RefusedForACause
<1>11. Alike'
  <2>1. qpc'[q] = "dims" /\ ran[q] = {}
    BY <1>1 DEF QuestionInv, QTypeOK, NotPlanned
  <2>2. \A p \in Questions \ {q} : qpc'[p] = qpc[p] /\ loaded'[p] = loaded[p]
    BY <1>1, <1>5 DEF QuestionInv, QTypeOK
  <2> QED
    BY <1>1, <2>1, <2>2 DEF QuestionInv, Alike
<1>12. RunsWithinPolicy'
  BY <1>1 DEF QuestionInv, RunsWithinPolicy
<1> QED
  BY <1>7, <1>8, <1>9, <1>10, <1>11, <1>12 DEF QuestionInv

\* The second read, by which what was usable can be joined
LEMMA LoadDimsStep ==
    ASSUME TypeOK, QuestionInv, NEW q \in Questions, LoadDims(q)
    PROVE  QuestionInv'
<1> DEFINE read == [d \in Active(Dims) |-> [onGrain |-> rows[d].onGrain, path |-> rows[d].path,
                                            type |-> rows[d].type,
                                            composes |-> rows[d].composes]]
<1>1. /\ qpc[q] = "dims"
      /\ loaded' = [loaded EXCEPT ![q].dims = read]
      /\ qpc' = [qpc EXCEPT ![q] = "loaded"]
      /\ UNCHANGED <<vars, tidy, split, asked, refusals, blocks, ran>>
  BY DEF LoadDims
<1>2. ASSUME NEW d \in Active(Dims)
      PROVE  d \in Dims /\ rows[d] \in DimRow
  <2>1. d \in Dims /\ OnRecord(d)
    BY DEF Active
  <2>2. rows[d] \in RowsOf(d)
    BY <2>1 DEF TypeOK, OnRecord, Keys
  <2> QED
    BY <2>1, <2>2, DimRows
<1>3. read \in UNION {[S -> DimDefs] : S \in SUBSET Dims}
  <2>1. \A d \in Active(Dims) : /\ rows[d].onGrain \in BOOLEAN
                                /\ rows[d].path \subseteq Tables
                                /\ rows[d].type \in {"string", "date"}
                                /\ rows[d].composes \in BOOLEAN
    BY <1>2 DEF DimRow
  <2>2. read \in [Active(Dims) -> DimDefs]
    BY <2>1 DEF DimDefs
  <2>3. Active(Dims) \in SUBSET Dims
    BY <1>2
  <2> QED
    BY <2>2, <2>3
<1>4. loaded[q] \in Catalogues
  BY DEF QuestionInv, QTypeOK
<1>5. loaded' = [loaded EXCEPT ![q] = [loaded[q] EXCEPT !.dims = read]]
  BY <1>1
<1> HIDE DEF read
<1>6. [loaded[q] EXCEPT !.dims = read] \in Catalogues
  BY <1>3, <1>4 DEF Catalogues
<1>7. QTypeOK'
  BY <1>1, <1>5, <1>6 DEF QuestionInv, QTypeOK, QStages
<1>8. /\ qpc'[q] = "loaded" /\ ran[q] = {}
      /\ loaded'[q].metrics = loaded[q].metrics /\ loaded'[q].dims = read
  BY <1>1, <1>4, <1>5 DEF QuestionInv, QTypeOK, NotPlanned, Catalogues
<1>9. \A p \in Questions \ {q} : qpc'[p] = qpc[p] /\ loaded'[p] = loaded[p]
  BY <1>1, <1>5 DEF QuestionInv, QTypeOK
<1>10. ReadTidily'
  <2> SUFFICES ASSUME NEW p \in Questions, tidy[p], ~split[p]
               PROVE  LET named == UNION {loaded'[p].metrics[m].dims : m \in DOMAIN loaded'[p].metrics} IN
                      /\ qpc'[p] = "dims" => \A d \in named : Usable(d)
                      /\ qpc'[p] = "loaded" => \A d \in named : Joinable(d, loaded'[p])
                      /\ qpc'[p] \in {"dims", "loaded"} =>
                            \A m \in DOMAIN loaded'[p].metrics : loaded'[p].metrics[m].composes
    BY <1>1 DEF ReadTidily, Joinable, Unjoined, Usable, Active, OnRecord, vars
  <2>1. CASE p # q
    BY <1>9, <2>1 DEF QuestionInv, ReadTidily
  <2>2. CASE p = q
    <3>1. \A d : Usable(d) => Joinable(d, loaded'[q])
      BY <1>8 DEF Usable, Joinable, Unjoined, read
    <3>2. /\ \A d \in UNION {loaded[q].metrics[m].dims : m \in DOMAIN loaded[q].metrics} : Usable(d)
          /\ \A m \in DOMAIN loaded[q].metrics : loaded[q].metrics[m].composes
      BY <1>1, <2>2 DEF QuestionInv, ReadTidily
    <3> QED
      BY <1>8, <2>2, <3>1, <3>2
  <2> QED
    BY <2>1, <2>2
<1>11. NotPlanned'
  BY <1>1, <1>8, <1>9 DEF QuestionInv, NotPlanned
<1>12. RefusedForACause'
  BY <1>1 DEF QuestionInv, RefusedForACause
<1>13. Alike'
  BY <1>1, <1>8, <1>9 DEF QuestionInv, Alike
<1>14. RunsWithinPolicy'
  BY <1>1 DEF QuestionInv, RunsWithinPolicy
<1> QED
  BY <1>7, <1>10, <1>11, <1>12, <1>13, <1>14 DEF QuestionInv

\* What has been read stays read.
LEMMA NothingIsRead ==
    ASSUME QuestionInv, UNCHANGED <<vars, loaded, tidy, split>>,
           \A q \in Questions : qpc'[q] \in {"dims", "loaded"} => qpc'[q] = qpc[q]
    PROVE  ReadTidily'
<1> SUFFICES ASSUME NEW q \in Questions, tidy[q], ~split[q]
             PROVE  LET named == UNION {loaded[q].metrics[m].dims : m \in DOMAIN loaded[q].metrics} IN
                    /\ qpc'[q] = "dims" => \A d \in named : Usable(d)
                    /\ qpc'[q] = "loaded" => \A d \in named : Joinable(d, loaded[q])
                    /\ qpc'[q] \in {"dims", "loaded"} =>
                          \A m \in DOMAIN loaded[q].metrics : loaded[q].metrics[m].composes
  BY DEF ReadTidily, Joinable, Unjoined, Usable, Active, OnRecord, vars
<1> QED
  BY DEF QuestionInv, ReadTidily

\* A draft is read, planned and compiled with what has been read, or refused.
LEMMA PlanStep ==
    ASSUME QuestionInv, NEW q \in Questions, NEW type, NEW draft \in Drafts, NEW hints,
           Plan(q, type, draft, hints)
    PROVE  QuestionInv'
<1> DEFINE cat == loaded[q]
           reading == Reading(draft, cat)
           plans == Plans(type, reading, hints, cat)
           metric == cat.metrics[MetricOf(reading, hints)]
<1>1. /\ qpc[q] = "loaded"
      /\ asked' = [asked EXCEPT ![q] = [metric |-> reading.metric, faulty |-> Faulty(reading, cat)]]
      /\ \/ plans = {} /\ Refuse(q, {"strategy"})
         \/ \E plan \in plans : \E unparsed \in Fragile(plan, reading, cat) \cup {0} :
              IF PlanRefusals(plan, unparsed, reading, cat) # {}
              THEN Refuse(q, PlanRefusals(plan, unparsed, reading, cat))
              ELSE /\ blocks' = [blocks EXCEPT ![q] =
                         [i \in DOMAIN plan |-> Compiled(plan[i], reading, cat)]]
                   /\ qpc' = [qpc EXCEPT ![q] = "compiled"]
                   /\ UNCHANGED refusals
      /\ UNCHANGED <<vars, loaded, tidy, split, ran>>
  BY Zenon DEF Plan
<1>2. cat \in Catalogues /\ refusals[q] = {} /\ blocks[q] = <<>> /\ ran[q] = {}
  BY <1>1 DEF QuestionInv, QTypeOK, NotPlanned
<1>3. ReadAgainst(reading, cat)
  BY <1>2, ReadingType
<1> HIDE DEF cat, reading, plans, metric
<1>4. \A plan \in plans : plan \in Seq(Specs(reading, metric))
  BY <1>2, <1>3, PlansAreSpecs DEF plans, metric
<1>5. Faulty(reading, cat) \in BOOLEAN
  BY DEF Faulty
<1>6. reading.metric \in Metrics \cup {NoMetric}
  BY <1>2, <1>3 DEF ReadAgainst, Catalogues
<1>7. /\ asked'[q] = [metric |-> reading.metric, faulty |-> Faulty(reading, cat)]
      /\ \A p \in Questions \ {q} : asked'[p] = asked[p]
      /\ asked' \in [Questions -> [metric : Metrics \cup {NoMetric}, faulty : BOOLEAN]]
  BY <1>1, <1>5, <1>6 DEF QuestionInv, QTypeOK
<1>8. CASE \E reasons \in SUBSET Reasons :
              /\ Refuse(q, reasons)
              /\ reasons \ {"strategy"} # {} => Faulty(reading, cat) \/ ~tidy[q] \/ split[q]
  <2>1. PICK reasons \in SUBSET Reasons :
              /\ refusals' = [refusals EXCEPT ![q] = reasons]
              /\ qpc' = [qpc EXCEPT ![q] = IF reasons = {"parse_error"} THEN "failed" ELSE "blocked"]
              /\ UNCHANGED blocks
              /\ reasons \ {"strategy"} # {} => Faulty(reading, cat) \/ ~tidy[q] \/ split[q]
    BY <1>8 DEF Refuse
  <2>2. QTypeOK'
    BY <1>1, <1>7, <2>1 DEF QuestionInv, QTypeOK, QStages
  <2>3. ReadTidily'
    BY <1>1, <2>1, NothingIsRead DEF QuestionInv, QTypeOK
  <2>4. NotPlanned'
    BY <1>1, <2>1 DEF QuestionInv, QTypeOK, NotPlanned
  <2>5. RefusedForACause'
    BY <1>1, <1>7, <2>1 DEF QuestionInv, QTypeOK, RefusedForACause
  <2>6. Alike'
    <3>1. qpc'[q] \in {"blocked", "failed"} /\ \A p \in Questions \ {q} : qpc'[p] = qpc[p]
      BY <2>1 DEF QuestionInv, QTypeOK
    <3> SUFFICES ASSUME NEW p \in Questions, qpc'[p] = "compiled" \/ ran[p] # {}
                 PROVE  \/ loaded[p].metrics[asked'[p].metric].filters = {}
                        \/ SameRows(ran[p] \cup {blocks[p][i] : i \in DOMAIN blocks[p]})
      BY <1>1, <2>1 DEF Alike
    <3>2. qpc'[p] = qpc[p] /\ asked'[p] = asked[p]
      BY <1>2, <1>7, <3>1
    <3> QED
      BY <3>2 DEF QuestionInv, Alike
  <2>7. RunsWithinPolicy'
    BY <1>1 DEF QuestionInv, RunsWithinPolicy
  <2> QED
    BY <2>2, <2>3, <2>4, <2>5, <2>6, <2>7 DEF QuestionInv
<1>9. CASE \E plan \in plans : \E unparsed :
              /\ PlanRefusals(plan, unparsed, reading, cat) = {}
              /\ blocks' = [blocks EXCEPT ![q] =
                     [i \in DOMAIN plan |-> Compiled(plan[i], reading, cat)]]
              /\ qpc' = [qpc EXCEPT ![q] = "compiled"]
              /\ UNCHANGED refusals
  <2>1. PICK plan \in plans : \E unparsed :
              /\ PlanRefusals(plan, unparsed, reading, cat) = {}
              /\ blocks' = [blocks EXCEPT ![q] =
                     [i \in DOMAIN plan |-> Compiled(plan[i], reading, cat)]]
              /\ qpc' = [qpc EXCEPT ![q] = "compiled"]
              /\ UNCHANGED refusals
    BY <1>9
  <2> DEFINE compiled == [i \in DOMAIN plan |-> Compiled(plan[i], reading, cat)]
  <2>2. \A i \in DOMAIN plan : /\ plan[i] \in Specs(reading, metric)
                               /\ Refusals(plan[i], reading, cat) = {}
    BY <1>4, <2>1, RefusedByABlock
  <2>3. compiled \in Seq(Blocks)
    BY <1>2, <1>3, <1>4, <2>2, CompiledType
  <2>4. \/ cat.metrics[reading.metric].filters = {}
        \/ SameRows({compiled[i] : i \in DOMAIN compiled})
    <3> SUFFICES ASSUME cat.metrics[reading.metric].filters # {}
                 PROVE  SameRows({compiled[i] : i \in DOMAIN compiled})
      OBVIOUS
    <3> DEFINE f == RowFilters(reading, cat.metrics[reading.metric], cat)
    <3>1. f \in SUBSET Dims /\ reading.period \in Periods
      BY <1>2, <1>3 DEF RowFilters, ReadAgainst, Catalogues
    <3>2. \A i \in DOMAIN plan : LET b == Compiled(plan[i], reading, cat) IN
             b.period = "previous" \/ (b.filters = f /\ b.period = reading.period)
      BY <1>2, <1>3, <2>2, CompiledAlike
    <3> HIDE DEF f
    <3> QED
      BY <3>1, <3>2 DEF SameRows
  <2> HIDE DEF compiled
  <2>5. blocks'[q] = compiled /\ \A p \in Questions \ {q} : blocks'[p] = blocks[p]
    BY <2>1 DEF QuestionInv, QTypeOK, compiled
  <2>6. QTypeOK'
    BY <1>1, <1>7, <2>1, <2>3 DEF QuestionInv, QTypeOK, QStages, compiled
  <2>7. ReadTidily'
    BY <1>1, <2>1, NothingIsRead DEF QuestionInv, QTypeOK
  <2>8. NotPlanned'
    BY <1>1, <2>1, <2>5 DEF QuestionInv, QTypeOK, NotPlanned
  <2>9. RefusedForACause'
    BY <1>1, <1>2, <1>7, <2>1 DEF QuestionInv, RefusedForACause
  <2>10. Alike'
    <3> SUFFICES ASSUME NEW p \in Questions, qpc'[p] = "compiled" \/ ran[p] # {}
                 PROVE  \/ loaded[p].metrics[asked'[p].metric].filters = {}
                        \/ SameRows(ran[p] \cup {blocks'[p][i] : i \in DOMAIN blocks'[p]})
      BY <1>1 DEF Alike
    <3>1. CASE p = q
      <4>1. ran[p] \cup {blocks'[p][i] : i \in DOMAIN blocks'[p]} = {compiled[i] : i \in DOMAIN compiled}
        BY <1>2, <2>5, <3>1
      <4>2. loaded[p].metrics[asked'[p].metric] = cat.metrics[reading.metric]
        BY <1>7, <3>1 DEF cat
      <4> QED
        BY <2>4, <4>1, <4>2, Zenon
    <3>2. CASE p # q
      <4>1. qpc'[p] = qpc[p] /\ asked'[p] = asked[p] /\ blocks'[p] = blocks[p]
        BY <1>7, <2>1, <2>5, <3>2 DEF QuestionInv, QTypeOK
      <4> QED
        BY <4>1 DEF QuestionInv, Alike
    <3> QED
      BY <3>1, <3>2
  <2>11. RunsWithinPolicy'
    BY <1>1 DEF QuestionInv, RunsWithinPolicy
  <2> QED
    BY <2>6, <2>7, <2>8, <2>9, <2>10, <2>11 DEF QuestionInv
<1>10. ASSUME NEW plan \in plans, NEW unparsed \in Fragile(plan, reading, cat) \cup {0},
              ~Faulty(reading, cat), tidy[q], ~split[q]
       PROVE  PlanRefusals(plan, unparsed, reading, cat) = {}
  <2>1. reading.metric \in DOMAIN cat.metrics /\ metric = cat.metrics[reading.metric]
    BY <1>3, <1>10 DEF Faulty, ReadAgainst, MetricOf, metric
  <2>2. /\ \A d \in cat.metrics[reading.metric].dims : Joinable(d, cat)
        /\ cat.metrics[reading.metric].composes
    BY <1>1, <1>10, <2>1 DEF QuestionInv, ReadTidily, cat
  <2>3. \A i \in DOMAIN plan : plan[i] \in Specs(reading, cat.metrics[reading.metric])
    BY <1>4, <2>1
  <2>4. \A i \in DOMAIN plan : /\ Refusals(plan[i], reading, cat) = {}
                               /\ \A d \in UsedDims(plan[i], reading, cat) : cat.dims[d].composes
    BY <1>2, <1>3, <1>10, <2>2, <2>3, NoFaultNoRefusal
  <2>5. unparsed = 0
    BY <1>10, <2>2, <2>4 DEF Fragile
  <2>6. 0 \notin DOMAIN plan
    BY <1>4
  <2> QED
    BY <1>4, <2>4, <2>5, <2>6, RefusedByABlock
<1>11. \A plan \in plans : \A unparsed : PlanRefusals(plan, unparsed, reading, cat) \in SUBSET Reasons
  <2>1. \A spec : {ParseError(spec)} \subseteq Reasons
    BY DEF ParseError, Reasons, ParseErrors
  <2>2. ASSUME NEW plan \in plans, NEW unparsed
        PROVE  PlanRefusals(plan, unparsed, reading, cat) \in SUBSET Reasons
    BY <1>4, <2>1, RefusedByABlock, RefusalsType
  <2> QED
    BY <2>2
<1>12. {"strategy"} \in SUBSET Reasons
  BY DEF Reasons
<1> QED
  BY <1>1, <1>8, <1>9, <1>10, <1>11, <1>12

\* The limits a statement runs under: no more rows are kept than the policies allow, and
\* its own LIMIT only passes them if one ahead of it does not.
LEMMA LimitOfARun ==
    ASSUME NEW text, text.shape \in Shapes, text.limits \in Seq(Nat), text.limits # <<>>,
           StaticVerdict(text) = "passed"
    PROVE  LET limits == Limited(text) IN
           /\ text.tables \subseteq Whitelist /\ text.tables \subseteq DOMAIN RowLimits
           /\ limits \in Seq(Nat) /\ Own(limits) \in Nat
           /\ RowLimit(text) \in Nat
           /\ \A limit \in {RowLimits[t] : t \in text.tables} \cup {MaxRows} :
                 /\ limit \in Nat /\ RowLimit(text) <= limit
                 /\ Own(limits) <= limit \/ (Len(limits) > 1 /\ Head(limits) <= limit)
<1> DEFINE limits == Limited(text)
           allowed == {RowLimits[t] : t \in text.tables} \cup {MaxRows}
<1>1. text.tables \subseteq Whitelist /\ text.tables \subseteq DOMAIN RowLimits
  <2>1. text.shape = "sound"
    BY DEF StaticVerdict, Shapes
  <2> QED
    BY <2>1 DEF StaticVerdict
<1>2. /\ PolicyLimit(text.tables) \in Nat \ {0}
      /\ \A limit \in allowed : limit \in Nat /\ PolicyLimit(text.tables) <= limit
  BY <1>1, LimitOfPolicies, PlansAssumption
<1> HIDE DEF allowed
<1>3. /\ Head(text.limits) \in Nat /\ Len(text.limits) \in Nat \ {0}
      /\ Head(text.limits) = text.limits[1]
  OBVIOUS
<1>4. RowLimit(text) \in Nat /\ RowLimit(text) <= PolicyLimit(text.tables)
  BY <1>2, <1>3 DEF RowLimit, Least
<1>5. \A limit \in allowed : limit \in Nat /\ RowLimit(text) <= limit
  BY <1>2, <1>4
<1>6. CASE Head(text.limits) = RowLimit(text)
  <2>1. limits = text.limits
    BY <1>6 DEF Limited
  <2>2. Head(limits) = RowLimit(text) /\ (Len(limits) > 1 \/ Own(limits) = RowLimit(text))
    BY <1>3, <1>6, <2>1 DEF Own
  <2>3. Own(limits) \in Nat
    BY <1>3, <2>1 DEF Own
  <2> HIDE DEF limits
  <2>4. \A limit \in allowed : Own(limits) <= limit \/ (Len(limits) > 1 /\ Head(limits) <= limit)
    BY <1>5, <2>2
  <2> QED
    BY <1>1, <1>4, <1>5, <2>1, <2>3, <2>4 DEF limits, allowed
<1>7. CASE Head(text.limits) # RowLimit(text)
  <2>1. limits = [i \in DOMAIN text.limits |-> RowLimit(text)]
    BY <1>7 DEF Limited
  <2>2. limits \in Seq(Nat) /\ Len(limits) = Len(text.limits)
    BY <1>4, <2>1
  <2>3. Own(limits) = RowLimit(text)
    BY <1>3, <2>1, <2>2 DEF Own
  <2> QED
    BY <1>1, <1>4, <1>5, <2>2, <2>3 DEF allowed
<1> QED
  BY <1>6, <1>7

\* A block runs once its statement has passed, under the limit of the policies.
LEMMA RunStep ==
    ASSUME QuestionInv, NEW q \in Questions, NEW columns, NEW embedded \in Seq(Nat),
           NEW verdict, NEW fails, Run(q, columns, embedded, verdict, fails)
    PROVE  QuestionInv'
<1> DEFINE block == Head(blocks[q])
           text == TextOf(block, columns, embedded)
           done == Done(block, text)
<1>1. /\ qpc[q] = "compiled" /\ blocks[q] # <<>>
      /\ verdict \in Verdicts(text)
      /\ \/ /\ verdict = "passed"
            /\ ran' = [ran EXCEPT ![q] = @ \cup {done}]
            /\ blocks' = [blocks EXCEPT ![q] = Tail(@)]
         \/ /\ blocks' = [blocks EXCEPT ![q] = IF block.optional THEN Tail(@) ELSE <<>>]
            /\ UNCHANGED ran
      /\ UNCHANGED <<vars, qpc, loaded, tidy, split, asked, refusals>>
  BY DEF Run
<1>2. blocks[q] \in Seq(Blocks) /\ ran[q] \subseteq Results
  BY DEF QuestionInv, QTypeOK
<1>3. block \in Blocks
  BY <1>1, <1>2
<1> DEFINE todo == {blocks[q][i] : i \in DOMAIN blocks[q]}
<1>4. block \in todo
  BY <1>1, <1>2
<1>5. /\ Tail(blocks[q]) \in Seq(Blocks)
      /\ {Tail(blocks[q])[i] : i \in DOMAIN Tail(blocks[q])} \subseteq todo
  BY <1>1, <1>2
<1> HIDE DEF block
<1>6. /\ text.shape \in Shapes
      /\ text.limits \in Seq(Nat) /\ text.limits # <<>> /\ text.tables = block.tables
  BY <1>3 DEF TextOf, Blocks, Shapes
<1>7. verdict = "passed" => StaticVerdict(text) = "passed"
  BY <1>1, Zenon DEF Verdicts
<1> HIDE DEF text
<1>8. verdict = "passed" =>
        /\ done \in Results
        /\ done.tables \subseteq Whitelist /\ done.tables \subseteq DOMAIN RowLimits
        /\ \A limit \in {RowLimits[t] : t \in done.tables} \cup {MaxRows} :
              /\ done.shown <= limit
              /\ Own(done.limits) <= limit \/ (Len(done.limits) > 1 /\ Head(done.limits) <= limit)
  <2> SUFFICES ASSUME verdict = "passed"
               PROVE  /\ done \in Results
                      /\ done.tables \subseteq Whitelist /\ done.tables \subseteq DOMAIN RowLimits
                      /\ \A limit \in {RowLimits[t] : t \in done.tables} \cup {MaxRows} :
                            /\ done.shown <= limit
                            /\ \/ Own(done.limits) <= limit
                               \/ Len(done.limits) > 1 /\ Head(done.limits) <= limit
    OBVIOUS
  <2>1. /\ done.tables = text.tables /\ done.limits = Limited(text)
        /\ done.shown = Least(Own(Limited(text)), RowLimit(text))
    BY <1>6 DEF Done
  <2>2. /\ text.tables \subseteq Whitelist /\ text.tables \subseteq DOMAIN RowLimits
        /\ Limited(text) \in Seq(Nat) /\ Own(Limited(text)) \in Nat /\ RowLimit(text) \in Nat
        /\ \A limit \in {RowLimits[t] : t \in text.tables} \cup {MaxRows} :
              /\ limit \in Nat /\ RowLimit(text) <= limit
              /\ \/ Own(Limited(text)) <= limit
                 \/ Len(Limited(text)) > 1 /\ Head(Limited(text)) <= limit
    BY <1>6, <1>7, LimitOfARun
  <2>3. done.shown \in Nat /\ done.shown <= RowLimit(text)
    BY <2>1, <2>2 DEF Least
  <2>4. done \in Results
    BY <1>3, <2>1, <2>2, <2>3 DEF Done, Results, Blocks
  <2> HIDE DEF done
  <2>5. ASSUME NEW limit \in {RowLimits[t] : t \in text.tables} \cup {MaxRows}
        PROVE  done.shown <= limit
    <3>1. limit \in Nat /\ RowLimit(text) \in Nat /\ RowLimit(text) <= limit
      BY <2>2
    <3> QED
      BY <2>3, <3>1
  <2> QED
    BY <2>1, <2>2, <2>4, <2>5
<1>9. done.filters = block.filters /\ done.period = block.period
  BY DEF Done
<1> HIDE DEF done
<1>10. \A p \in Questions \ {q} : ran'[p] = ran[p] /\ blocks'[p] = blocks[p]
  BY <1>1 DEF QuestionInv, QTypeOK
<1>11. /\ ran'[q] \in {ran[q], ran[q] \cup {done}}
       /\ ran'[q] = ran[q] \/ verdict = "passed"
       /\ blocks'[q] \in {Tail(blocks[q]), <<>>}
  BY <1>1 DEF QuestionInv, QTypeOK
<1>12. QTypeOK'
  <2>1. ran'[q] \subseteq Results
    BY <1>2, <1>8, <1>11
  <2>2. blocks'[q] \in Seq(Blocks)
    <3>1. <<>> \in Seq(Blocks)
      OBVIOUS
    <3> QED
      BY <1>5, <1>11, <3>1, Zenon
  <2>3. ran' = [ran EXCEPT ![q] = ran'[q]] /\ blocks' = [blocks EXCEPT ![q] = blocks'[q]]
    BY <1>1 DEF QuestionInv, QTypeOK
  <2> QED
    BY <1>1, <2>1, <2>2, <2>3 DEF QuestionInv, QTypeOK
<1>13. ReadTidily'
  BY <1>1, NothingIsRead DEF vars
<1>14. NotPlanned'
  BY <1>1, <1>10 DEF QuestionInv, NotPlanned
<1>15. RefusedForACause'
  BY <1>1 DEF QuestionInv, RefusedForACause
<1>16. Alike'
  <2> SUFFICES ASSUME NEW p \in Questions, qpc[p] = "compiled" \/ ran'[p] # {},
                      loaded[p].metrics[asked[p].metric].filters # {}
               PROVE  SameRows(ran'[p] \cup {blocks'[p][i] : i \in DOMAIN blocks'[p]})
    BY <1>1 DEF Alike
  <2>1. CASE p # q
    <3>1. ran'[p] = ran[p] /\ blocks'[p] = blocks[p]
      BY <1>10, <2>1
    <3>2. SameRows(ran[p] \cup {blocks[p][i] : i \in DOMAIN blocks[p]})
      BY <1>1, <3>1 DEF QuestionInv, Alike
    <3> QED
      BY <3>1, <3>2, Zenon
  <2>2. CASE p = q
    <3>1. SameRows(ran[q] \cup todo)
      BY <1>1, <2>2 DEF QuestionInv, Alike
    <3>2. PICK f \in SUBSET Dims, period \in Periods :
            \A b \in ran[q] \cup todo :
                b.period = "previous" \/ (b.filters = f /\ b.period = period)
      BY <3>1 DEF SameRows
    <3>3. {blocks'[q][i] : i \in DOMAIN blocks'[q]} \subseteq todo
      <4>1. CASE blocks'[q] = Tail(blocks[q])
        BY <1>5, <4>1, Zenon
      <4>2. CASE blocks'[q] = <<>>
        BY <4>2
      <4> QED
        BY <1>11, <4>1, <4>2
    <3>4. ran'[q] \subseteq ran[q] \cup {done}
      BY <1>11
    <3>5. \A b \in ran'[q] \cup {blocks'[q][i] : i \in DOMAIN blocks'[q]} :
            b.period = "previous" \/ (b.filters = f /\ b.period = period)
      BY <1>4, <1>9, <3>2, <3>3, <3>4
    <3> QED
      BY <2>2, <3>5 DEF SameRows
  <2> QED
    BY <2>1, <2>2
<1>17. RunsWithinPolicy'
  BY <1>8, <1>10, <1>11 DEF QuestionInv, RunsWithinPolicy
<1> QED
  BY <1>12, <1>13, <1>14, <1>15, <1>16, <1>17 DEF QuestionInv

LEMMA AnswerStep ==
    ASSUME QuestionInv, NEW q \in Questions, Answer(q)
    PROVE  QuestionInv'
<1>1. /\ qpc[q] = "compiled"
      /\ qpc' = [qpc EXCEPT ![q] = IF ran[q] = {} THEN "blocked" ELSE "answered"]
      /\ UNCHANGED <<vars, loaded, tidy, split, asked, refusals, blocks, ran>>
  BY DEF Answer
<1>2. /\ qpc'[q] \in {"blocked", "answered"}
      /\ \A p \in Questions \ {q} : qpc'[p] = qpc[p]
      /\ qpc' \in [Questions -> QStages]
  BY <1>1 DEF QuestionInv, QTypeOK, QStages
<1>3. QTypeOK'
  BY <1>1, <1>2 DEF QuestionInv, QTypeOK
<1>4. ReadTidily'
  BY <1>1, <1>2, NothingIsRead
<1>5. NotPlanned'
  BY <1>1, <1>2 DEF QuestionInv, NotPlanned
<1>6. RefusedForACause'
  BY <1>1 DEF QuestionInv, RefusedForACause
<1>7. Alike'
  BY <1>1, <1>2 DEF QuestionInv, Alike
<1>8. RunsWithinPolicy'
  BY <1>1 DEF QuestionInv, RunsWithinPolicy
<1> QED
  BY <1>3, <1>4, <1>5, <1>6, <1>7, <1>8 DEF QuestionInv

LEMMA StutterStep ==
    ASSUME QuestionInv, UNCHANGED allVars
    PROVE  QuestionInv'
<1>1. UNCHANGED <<vars, qpc, loaded, tidy, split, asked, refusals, blocks, ran>>
  BY DEF allVars, question
<1>2. QTypeOK' /\ NotPlanned'
  BY <1>1 DEF QuestionInv, QTypeOK, NotPlanned
<1>3. RefusedForACause' /\ RunsWithinPolicy'
  BY <1>1 DEF QuestionInv, RefusedForACause, RunsWithinPolicy
<1>4. ReadTidily'
  BY <1>1, NothingIsRead
<1>5. Alike'
  BY <1>1 DEF QuestionInv, Alike
<1> QED
  BY <1>2, <1>3, <1>4, <1>5 DEF QuestionInv

LEMMA QuestionStep == TypeOK /\ QuestionInv /\ [QNext]_allVars => QuestionInv'
<1> SUFFICES ASSUME TypeOK, QuestionInv, [QNext]_allVars PROVE QuestionInv'
  OBVIOUS
<1>1. CASE Administer
  BY <1>1, AdministerStep
<1>2. ASSUME NEW q \in Questions, LoadMetrics(q) PROVE QuestionInv'
  BY <1>2, LoadMetricsStep
<1>3. ASSUME NEW q \in Questions, LoadDims(q) PROVE QuestionInv'
  BY <1>3, LoadDimsStep
<1>4. ASSUME NEW q \in Questions, NEW type \in AnswerTypes, NEW draft \in Drafts,
             NEW hints \in Hints, Plan(q, type, draft, hints)
      PROVE  QuestionInv'
  BY <1>4, PlanStep
<1>5. ASSUME NEW q \in Questions, NEW columns, NEW embedded \in Embedded[Head(blocks[q]).block],
             NEW verdict, NEW fails, Run(q, columns, embedded, verdict, fails)
      PROVE  QuestionInv'
  <2>1. blocks[q] \in Seq(Blocks) /\ blocks[q] # <<>>
    BY <1>5 DEF QuestionInv, QTypeOK, Run
  <2>2. Head(blocks[q]) \in Blocks
    BY <2>1
  <2>3. Head(blocks[q]).block \in BlockNames
    BY <2>2, Zenon DEF Blocks
  <2>4. embedded \in Seq(Nat)
    BY <2>3, DraftsAssumption
  <2> QED
    BY <1>5, <2>4, RunStep
<1>6. ASSUME NEW q \in Questions, Answer(q) PROVE QuestionInv'
  BY <1>6, AnswerStep
<1>7. CASE UNCHANGED allVars
  BY <1>7, StutterStep
<1> QED
  BY <1>1, <1>2, <1>3, <1>4, <1>5, <1>6, <1>7, Zenon DEF QNext

\* Whatever questions do, what they do to the catalogue is nothing.
LEMMA CatalogueStutters == [QNext]_allVars => [Administration]_vars
<1>1. ASSUME NEW q \in Questions,
             \/ LoadMetrics(q) \/ LoadDims(q) \/ Answer(q)
             \/ \E type \in AnswerTypes, draft \in Drafts, hints \in Hints : Plan(q, type, draft, hints)
             \/ \E columns, embedded, fails, verdict : Run(q, columns, embedded, verdict, fails)
      PROVE  UNCHANGED vars
  BY <1>1, Zenon DEF LoadMetrics, LoadDims, Answer, Plan, Run
<1> QED
  BY <1>1, Zenon DEF QNext, Administer, allVars

LEMMA AllSteps == QSpec => [](CatalogueInv /\ QuestionInv)
<1>1. QInit => CatalogueInv /\ QuestionInv
  BY InitCatalogue, InitQuestions DEF QInit
<1>2. CatalogueInv /\ QuestionInv /\ [QNext]_allVars => (CatalogueInv /\ QuestionInv)'
  BY CatalogueStep, CatalogueStutters, QuestionStep DEF CatalogueInv
<1> QED
  BY <1>1, <1>2, PTL DEF QSpec

\* Questions do to the catalogue only what its own specification allows: reading,
\* planning and running them leave it to its administrators.
THEOREM QuestionsOnlyRead == QSpec => Spec
<1>1. QInit => Init
  BY DEF QInit
<1> QED
  BY <1>1, CatalogueStutters, PTL DEF QSpec, Spec

\* The columns of every question keep their types.
THEOREM QTypeCorrect == QSpec => []QTypeOK
<1>1. QuestionInv => QTypeOK
  BY DEF QuestionInv
<1> QED
  BY <1>1, AllSteps, PTL

\* With questions and administrators at work together, a row only names what is gone
\* once requests have crossed (service.py, from the validation to the commit).
THEOREM DanglingIsCausedAmongQuestions == QSpec => []DanglingHasACause
  BY QuestionsOnlyRead, DanglingIsCaused, PTL

\* A draft without a fault is only refused because of the administration: an untidy
\* catalogue, or a commit between the two reads (orchestrator.py, planner.py).
THEOREM RefusalsAreCaused == QSpec => []RefusedForACause
<1>1. QuestionInv => RefusedForACause
  BY DEF QuestionInv
<1> QED
  BY <1>1, AllSteps, PTL

\* The blocks that have run restrict the same rows, or the metric names no filters
\* (answer_strategy.py, compiler.py).
LEMMA AlikeAgree == QuestionInv => BlocksAgree
<1> SUFFICES ASSUME QuestionInv, NEW q \in Questions,
                    loaded[q].metrics[asked[q].metric].filters # {}
             PROVE  Cardinality(Restrictions(q)) <= 1
  BY DEF BlocksAgree
<1>1. CASE ran[q] = {}
  <2>1. Restrictions(q) = {}
    BY <1>1 DEF Restrictions
  <2> QED
    BY <2>1, FS_EmptySet
<1>2. CASE ran[q] # {}
  <2> DEFINE all == ran[q] \cup {blocks[q][i] : i \in DOMAIN blocks[q]}
  <2>1. SameRows(all)
    BY <1>2 DEF QuestionInv, Alike
  <2> HIDE DEF all
  <2>2. PICK f \in SUBSET Dims, p \in Periods :
          \A b \in all : b.period = "previous" \/ (b.filters = f /\ b.period = p)
    BY <2>1 DEF SameRows
  <2>3. \A b \in ran[q] : b.period = "previous" \/ (b.filters = f /\ b.period = p)
    BY <2>2 DEF all
  <2>4. Restrictions(q) \subseteq {[filters |-> f, period |-> p]}
    BY <2>3 DEF Restrictions
  <2>5. Restrictions(q) = {} \/ Restrictions(q) = {[filters |-> f, period |-> p]}
    BY <2>4
  <2>6. Cardinality({[filters |-> f, period |-> p]}) = 1 /\ Cardinality({}) = 0
    BY FS_EmptySet, FS_Singleton
  <2> QED
    BY <2>5, <2>6
<1> QED
  BY <1>1, <1>2

THEOREM BlocksAreAlike == QSpec => []BlocksAgree
  BY AlikeAgree, AllSteps, PTL

\* Nothing runs off the whitelist or without a policy (sql_validator.py), and of what runs
\* no more rows are shown than every policy allows (query_execution/service.py), though
\* join paths, expressions and filter values are free text and the first `limit N` of a
\* statement is taken for its own.
THEOREM RunsKeepToPolicies == QSpec => []RunsWithinPolicy
<1>1. QuestionInv => RunsWithinPolicy
  BY DEF QuestionInv
<1> QED
  BY <1>1, AllSteps, PTL

=============================================================================
