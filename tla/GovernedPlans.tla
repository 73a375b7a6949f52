--------------------------- MODULE GovernedPlans ---------------------------
(***************************************************************************)
(* From a model's draft to SQL that may run: the reading of the draft       *)
(* against the catalogue (app/ai/gateway/service.py), the blocks of an      *)
(* answer (app/ai/answer_strategy.py), the planner and compiler             *)
(* (app/semantic/planner.py, compiler.py) and the validator                 *)
(* (app/semantic/sql_validator.py).  All of it is a function of a catalogue *)
(* that was loaded once:                                                    *)
(*    cat.metrics   active metrics, each with the dimensions and filters it *)
(*                  allows                                                  *)
(*    cat.dims      active dimensions, each on the base table or with the   *)
(*                  tables its join path brings in; {} is a blank path      *)
(* Expressions, columns and join paths are free text that was parsed by     *)
(* itself when it was entered.  `composes` says that statements made with   *)
(* it parse as well: a column that is a CASE does not, behind the alias it  *)
(* is given.                                                                *)
(* Lists whose order nobody prescribes are sets here: where the code takes  *)
(* the first of a list, any of the set may be it.                           *)
(***************************************************************************)
EXTENDS Integers, Sequences, FiniteSetsExt

CONSTANTS
    Metrics, Dims,
    NoMetric, NoDim,
    Day,            \* a dimension whose key is one of the built-in times
    Base,           \* the table of the grain
    Tables,
    Whitelist,      \* allowed_analytics_tables
    RowLimits,      \* active access policies of the role: table -> row limit
    MaxRows         \* max_result_rows

ASSUME PlansAssumption ==
    /\ NoMetric \notin Metrics /\ NoDim \notin Dims /\ Day \in Dims
    /\ Base \in Tables /\ Whitelist \subseteq Tables
    /\ MaxRows \in Nat \ {0}
    /\ DOMAIN RowLimits \subseteq Tables
    /\ \A t \in DOMAIN RowLimits : RowLimits[t] \in Nat \ {0}

MetricDefs == [dims : SUBSET Dims, filters : SUBSET Dims, composes : BOOLEAN]
DimDefs == [onGrain : BOOLEAN, path : SUBSET Tables, type : {"string", "date"},
            composes : BOOLEAN]

Least(a, b) == IF a < b THEN a ELSE b
Clamp(n, low, high) == IF n < low THEN low ELSE Least(n, high)

-----------------------------------------------------------------------------
(* Reading a draft *)

Operators == {"eq", "in", "between"}

\* A filter names an operator and has some values, which fit the dimension or not.
Filters == [operator : Operators, values : 0..2, fits : BOOLEAN]

Periods == {"missing", "rolling", "since", "until", "exact", "between", "malformed"}

NormalizedPeriod(period) == IF period = "malformed" THEN "missing" ELSE period

\* Names that the catalogue does not hold are dropped.
Governed(named, cat) == named \cap DOMAIN cat.dims

NormalizedFilters(filters, cat) ==
    [d \in Governed(DOMAIN filters, cat) |-> filters[d]]

\* intent_result_to_interpretation; a limit of 0 is none
Reading(draft, cat) ==
    LET dims == Governed(draft.dims, cat)
        limit == IF draft.limit = 0 THEN IF dims = {} THEN 1 ELSE 20 ELSE draft.limit IN
    [metric  |-> IF draft.metric \in DOMAIN cat.metrics THEN draft.metric ELSE NoMetric,
     dims    |-> dims,
     filters |-> NormalizedFilters(draft.filters, cat),
     period  |-> NormalizedPeriod(draft.period),
     limit   |-> Clamp(limit, 1, MaxRows),
     top     |-> IF draft.limit \in 1..20 THEN draft.limit ELSE 0]

-----------------------------------------------------------------------------
(* The blocks of an answer *)

AnswerTypes == {"single_value", "comparison_top", "trend", "distribution", "table",
                "full_report"}

BlockNames ==
    {"primary_kpi", "previous_period", "comparison", "trend", "distribution", "records",
     "headline_kpi", "report_trend", "report_comparison", "report_records"}

IsTime(d, cat) == d = Day \/ (d \in DOMAIN cat.dims /\ cat.dims[d].type = "date")

\* The first of three lists that has a match: the question's dimensions, the
\* classifier's, the metric's
FirstMatches(lists, P(_)) ==
    LET hits == {i \in DOMAIN lists : \E d \in lists[i] : P(d)} IN
    IF hits = {} THEN {} ELSE {d \in lists[Min(hits)] : P(d)}

Candidates(reading, hints, metric) == <<reading.dims, hints.dims, metric.dims>>

\* [bug] the classifier's word is taken for it
TimeDimensions_Hinted(reading, hints, metric, cat) ==
    IF hints.time # NoDim THEN {hints.time}
    ELSE LET Fits(d) == d \in metric.dims /\ IsTime(d, cat)
         IN FirstMatches(Candidates(reading, hints, metric), Fits)

TimeDimensions(reading, hints, metric, cat) ==
    IF hints.time \in metric.dims THEN {hints.time}
    ELSE LET Fits(d) == d \in metric.dims /\ IsTime(d, cat)
         IN FirstMatches(Candidates(reading, hints, metric), Fits)

CategoryDimensions(reading, hints, metric, cat) ==
    LET Fits(d) == d \in metric.dims /\ ~IsTime(d, cat)
    IN FirstMatches(Candidates(reading, hints, metric), Fits)

Aggregate(block, dims, period, limit, optional) ==
    [block |-> block, mode |-> "aggregate", dims |-> dims, period |-> period,
     limit |-> limit, optional |-> optional]

Records(block, reading, limit, optional) ==
    [block |-> block, mode |-> "record", dims |-> reading.dims, period |-> reading.period,
     limit |-> limit, optional |-> optional]

\* _previous_period: an open or missing period has none, nor have dates that are no
\* dates or that end before they begin.
Baseline(reading) ==
    LET previous == <<Aggregate("previous_period", {}, "previous", 1, TRUE)>> IN
    CASE reading.period = "rolling" -> {previous}
      [] reading.period \in {"exact", "between"} -> {previous, <<>>}
      [] OTHER -> {<<>>}

Kpi(block, reading) == <<Aggregate(block, {}, reading.period, 1, FALSE)>>

Ranked(reading) == IF reading.top # 0 THEN reading.top ELSE reading.limit

\* One of some lists of blocks, then one of others
Then(some, others) == UNION {{s \o o : o \in others} : s \in some}

Headline(block, reading) == Then({Kpi(block, reading)}, Baseline(reading))

TrendSection(reading, times) ==
    IF times = {} THEN {<<>>}
    ELSE {<<Aggregate("report_trend", {d}, reading.period,
                      Clamp(reading.limit, 14, 90), TRUE)>> : d \in times}

ComparisonSection(reading, categories) ==
    IF categories = {} THEN {<<>>}
    ELSE {<<Aggregate("report_comparison", {d}, reading.period,
                      Clamp(Ranked(reading), 5, 12), TRUE)>> : d \in categories}

FullReport(reading, times, categories) ==
    LET figures == Then(Headline("headline_kpi", reading), TrendSection(reading, times)) IN
    Then(Then(figures, ComparisonSection(reading, categories)),
         {<<Records("report_records", reading, 9, TRUE)>>})

Comparison(reading, categories) ==
    {<<Aggregate("comparison", {d}, reading.period, Clamp(Ranked(reading), 5, 15), FALSE)>> :
        d \in categories}

Trend(reading, times) ==
    {<<Aggregate("trend", {d}, reading.period, Clamp(reading.limit, 14, 120), FALSE)>> :
        d \in times}

Distribution(reading, categories) ==
    {<<Aggregate("distribution", {d}, reading.period, Clamp(reading.limit, 10, 50), FALSE)>> :
        d \in categories}

Table(reading) == {<<Records("records", reading, 26, FALSE)>>}

\* _metric_definition: the classifier may know a metric that the draft does not name.
MetricOf(reading, hints) == IF reading.metric # NoMetric THEN reading.metric ELSE hints.metric

\* build_answer_plan: what it may return; {} when it refuses, for want of a metric or
\* of the breakdown that the type of answer needs
Plans(type, reading, hints, cat) ==
    IF MetricOf(reading, hints) \notin DOMAIN cat.metrics THEN {}
    ELSE LET metric == cat.metrics[MetricOf(reading, hints)]
             times == TimeDimensions(reading, hints, metric, cat)
             categories == CategoryDimensions(reading, hints, metric, cat) IN
         CASE type = "single_value"   -> Headline("primary_kpi", reading)
           [] type = "comparison_top" -> Comparison(reading, categories)
           [] type = "trend"          -> Trend(reading, times)
           [] type = "distribution"   -> Distribution(reading, categories)
           [] type = "table"          -> Table(reading)
           [] type = "full_report"    -> FullReport(reading, times, categories)
           [] OTHER                   -> {}

-----------------------------------------------------------------------------
(* Planning and compiling a block *)

\* _resolve_dimension_sql: a dimension off the grain needs its join
Unjoined(d, cat) == ~cat.dims[d].onGrain /\ cat.dims[d].path = {}

AllowedOperators(type) == IF type = "date" THEN {"eq", "in", "between"} ELSE {"eq", "in"}

\* _compile_filter_clause, in the order of its checks
FilterRefusal(d, filter, cat) ==
    IF filter.operator \notin AllowedOperators(cat.dims[d].type) THEN "filter_operator"
    ELSE IF filter.values = 0 THEN "filter_values"
    ELSE IF Unjoined(d, cat) THEN "join_path"
    ELSE IF filter.operator = "between" /\ filter.values < 2 THEN "filter_operator"
    ELSE IF ~filter.fits THEN "filter_value"
    ELSE "none"

DimensionRefusal(d, metric, cat) ==
    IF metric.dims # {} /\ d \notin metric.dims THEN "disallowed_dimension"
    ELSE IF d \notin DOMAIN cat.dims THEN "unknown_dimension"
    ELSE IF Unjoined(d, cat) THEN "join_path"
    ELSE "none"

AggregateFilterRefusal(d, filter, metric, cat) ==
    IF metric.filters # {} /\ d \notin metric.filters THEN "disallowed_filter"
    ELSE IF d \notin DOMAIN cat.dims THEN "unknown_filter"
    ELSE FilterRefusal(d, filter, cat)

\* The dimensions come first; within a loop any refusal may be the first one.
OneOf(dimRefusals, filterRefusals) ==
    IF dimRefusals \ {"none"} # {} THEN dimRefusals \ {"none"}
    ELSE filterRefusals \ {"none"}

\* plan_sql_query; periods and limits of a reading are never refused
AggregateRefusals(spec, reading, cat) ==
    IF reading.metric = NoMetric THEN {"metric_required"}
    ELSE LET metric == cat.metrics[reading.metric] IN
         OneOf({DimensionRefusal(d, metric, cat) : d \in spec.dims},
               {AggregateFilterRefusal(d, reading.filters[d], metric, cat) :
                    d \in DOMAIN reading.filters})

\* Rows show the dimensions and heed the filters that the metric names; others are
\* passed over.
RowDims(spec, metric, cat) == spec.dims \cap metric.dims \cap DOMAIN cat.dims

\* [bug] a preview is only a preview
RowFilters_None(reading, metric, cat) == {}

RowFilters(reading, metric, cat) ==
    DOMAIN reading.filters \cap metric.filters \cap DOMAIN cat.dims

\* _compile_record_query
RecordRefusals(spec, reading, cat) ==
    IF reading.metric = NoMetric THEN {"metric_required"}
    ELSE LET metric == cat.metrics[reading.metric] IN
         OneOf({IF Unjoined(d, cat) THEN "join_path" ELSE "none" :
                    d \in RowDims(spec, metric, cat)},
               {FilterRefusal(d, reading.filters[d], cat) :
                    d \in RowFilters(reading, metric, cat)})

Refusals(spec, reading, cat) ==
    IF spec.mode = "record" THEN RecordRefusals(spec, reading, cat)
                            ELSE AggregateRefusals(spec, reading, cat)

UsedFilters(spec, reading, cat) ==
    IF spec.mode = "record" THEN RowFilters(reading, cat.metrics[reading.metric], cat)
                            ELSE DOMAIN reading.filters

UsedDims(spec, reading, cat) ==
    (IF spec.mode = "record" THEN RowDims(spec, cat.metrics[reading.metric], cat)
                             ELSE spec.dims)
    \cup UsedFilters(spec, reading, cat)

\* The statements of a plan that may not parse: one of their fragments does not compose.
Fragile(plan, reading, cat) ==
    {i \in DOMAIN plan :
        /\ Refusals(plan[i], reading, cat) = {}
        /\ \/ plan[i].mode = "aggregate" /\ ~cat.metrics[reading.metric].composes
           \/ \E d \in UsedDims(plan[i], reading, cat) : ~cat.dims[d].composes}

\* compile_planned_query turns it into a refusal, _compile_record_query lets it through.
ParseError(spec) == IF spec.mode = "record" THEN "parse_error" ELSE "sql_parse_error"

\* Blocks are compiled in order, optional ones too, and the first refusal ends it, or
\* the first statement that does not parse; 0 when all do.
PlanRefusals(plan, unparsed, reading, cat) ==
    LET refused == {i \in DOMAIN plan : i = unparsed \/ Refusals(plan[i], reading, cat) # {}} IN
    IF refused = {} THEN {}
    ELSE IF Min(refused) = unparsed THEN {ParseError(plan[unparsed])}
    ELSE Refusals(plan[Min(refused)], reading, cat)

\* compile_planned_query: a dimension that selects and filters is joined once.
Compiled(spec, reading, cat) ==
    LET joined == {d \in UsedDims(spec, reading, cat) : ~cat.dims[d].onGrain} IN
    [block    |-> spec.block,
     optional |-> spec.optional,
     tables   |-> {Base} \cup UNION {cat.dims[d].path : d \in joined},
     joins    |-> joined,
     filters  |-> UsedFilters(spec, reading, cat),
     period   |-> spec.period,
     limit    |-> Least(spec.limit, MaxRows)]

-----------------------------------------------------------------------------
(* Validation *)

\* The first of the checks on the text itself that fails
Shapes == {"sound", "non_empty_sql", "keyword_denylist", "readonly_statement", "parse_tree",
           "single_statement", "select_star"}

Columns == {"approved", "forbidden_columns", "column_whitelist"}

\* A text to validate: what it reads, the worst of its columns, and the numbers of every
\* `limit N` in it, be it in a literal or in a subquery; its own LIMIT is the last.
Texts == [shape : Shapes, tables : SUBSET Tables, columns : Columns, limits : Seq(Nat)]

Own(limits) == limits[Len(limits)]

\* validate_sql up to the limit: the first check that fails
StaticVerdict(text) ==
    IF text.shape # "sound" THEN text.shape
    ELSE IF text.tables = {} THEN "table_presence"
    ELSE IF ~(text.tables \subseteq Whitelist) THEN "table_whitelist"
    ELSE IF ~(text.tables \subseteq DOMAIN RowLimits) THEN "access_policy"
    ELSE IF text.columns # "approved" THEN text.columns
    ELSE "passed"

PolicyLimit(tables) == Min({RowLimits[t] : t \in tables} \cup {MaxRows})

\* [bug] a LIMIT in the text stands
RowLimit_AsWritten(text) ==
    IF text.limits = <<>> THEN PolicyLimit(text.tables) ELSE Head(text.limits)

\* _extract_limit takes the first `limit N` of the text for its LIMIT.
RowLimit(text) ==
    IF text.limits = <<>> THEN PolicyLimit(text.tables)
    ELSE Least(Head(text.limits), PolicyLimit(text.tables))

\* _apply_limit: a missing LIMIT is injected; when the first one is too high, every one
\* is replaced, and otherwise all of them stand.
Limited(text) ==
    IF text.limits = <<>> THEN <<RowLimit(text)>>
    ELSE IF Head(text.limits) = RowLimit(text) THEN text.limits
    ELSE [i \in DOMAIN text.limits |-> RowLimit(text)]

\* The end of validate_sql: the plan's cost decides.
Verdicts(text) ==
    IF StaticVerdict(text) # "passed" THEN {StaticVerdict(text)}
    ELSE {"passed", "post_limit_parse_tree", "explain_plan", "explain_cost"}

=============================================================================
