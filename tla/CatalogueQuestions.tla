------------------------- MODULE CatalogueQuestions -------------------------
(***************************************************************************)
(* Questions that are planned and run while the catalogue is administered   *)
(* (app/ai/orchestrator.py from the load of the catalogue on).  A question  *)
(* loads the catalogue in two statements, plans all its blocks with what it *)
(* has loaded, and then validates and executes them one by one.             *)
(*                                                                          *)
(* What the models contribute is arbitrary: any draft, any answer type, any *)
(* hint.                                                                    *)
(***************************************************************************)
EXTENDS SemanticCatalogue

CONSTANTS
    Questions,
    Drafts,     \* what models may draft
    Hints,      \* what the classifier may prefer
    Embedded,   \* block -> what its statement may hold ahead of its own LIMIT: the
                \* numbers of each `limit N` in its free text
    Meanwhile   \* bound on the requests that administer the catalogue meanwhile

ASSUME DraftsAssumption ==
    /\ \A draft \in Drafts : draft.limit \in Int /\ draft.period \in Periods
    /\ Embedded \in [BlockNames -> SUBSET Seq(Nat)]

VARIABLES
    qpc,        \* where each question is
    loaded,     \* the active metrics and dimensions it has read
    tidy,       \* could all that active metrics consist of be used when it began to read?
    split,      \* has an administrator committed between its two reads?
    asked,      \* the metric it is about, and whether its draft had a fault
    refusals,   \* why compilation may refuse it
    blocks,     \* its compiled blocks that have not run
    ran         \* those that have, with every `limit N` of the statement as it ran, and
                \* how many rows may be shown of it

question == <<qpc, loaded, tidy, split, asked, refusals, blocks, ran>>
allVars == <<vars, question>>

Nothing == [d \in {} |-> {}]
NoQuestion == [metric |-> NoMetric, faulty |-> FALSE]

QInit ==
    /\ Init
    /\ qpc = [q \in Questions |-> "metrics"]
    /\ loaded = [q \in Questions |-> [metrics |-> Nothing, dims |-> Nothing]]
    /\ tidy = [q \in Questions |-> FALSE]
    /\ split = [q \in Questions |-> FALSE]
    /\ asked = [q \in Questions |-> NoQuestion]
    /\ refusals = [q \in Questions |-> {}]
    /\ blocks = [q \in Questions |-> <<>>]
    /\ ran = [q \in Questions |-> {}]

-----------------------------------------------------------------------------
(* Loading *)

Busy == Cardinality({r \in Requests : pc[r] # "idle"})

\* Does every active metric compose, and do all dimensions that it names exist, active,
\* joined and composing?
Usable(d) == d \in Active(Dims) /\ (rows[d].onGrain \/ rows[d].path # {}) /\ rows[d].composes
Tidy == \A m \in Active(Metrics) : rows[m].composes /\ \A d \in Named(m) : Usable(d)

LoadMetrics(q) ==
    /\ qpc[q] = "metrics"
    /\ Busy <= Meanwhile
    /\ loaded' = [loaded EXCEPT ![q].metrics =
         [m \in Active(Metrics) |-> [dims |-> rows[m].dims, filters |-> rows[m].filters,
                                     composes |-> rows[m].composes]]]
    /\ tidy' = [tidy EXCEPT ![q] = Tidy]
    /\ qpc' = [qpc EXCEPT ![q] = "dims"]
    /\ UNCHANGED <<vars, split, asked, refusals, blocks, ran>>

LoadDims(q) ==
    /\ qpc[q] = "dims"
    /\ loaded' = [loaded EXCEPT ![q].dims =
         [d \in Active(Dims) |-> [onGrain |-> rows[d].onGrain, path |-> rows[d].path,
                                  type |-> rows[d].type, composes |-> rows[d].composes]]]
    /\ qpc' = [qpc EXCEPT ![q] = "loaded"]
    /\ UNCHANGED <<vars, tidy, split, asked, refusals, blocks, ran>>

-----------------------------------------------------------------------------
(* Planning *)

\* A draft is at fault itself when it names no metric on record, a filter that the
\* metric does not allow, or a filter that does not fit its dimension or has a dimension
\* that no statement can be made with.
Faulty(reading, cat) ==
    \/ reading.metric = NoMetric
    \/ AggregateRefusals([dims |-> {}], reading, cat) # {}
    \/ \E d \in DOMAIN reading.filters : ~cat.dims[d].composes

\* The parse error of a record query is no SemanticCompilationError: the request fails.
Refuse(q, why) ==
    /\ refusals' = [refusals EXCEPT ![q] = why]
    /\ qpc' = [qpc EXCEPT ![q] = IF why = {"parse_error"} THEN "failed" ELSE "blocked"]
    /\ UNCHANGED blocks

\* All blocks are compiled before any runs; one that is refused ends the question.
Plan(q, type, draft, hints) ==
    /\ qpc[q] = "loaded"
    /\ LET cat == loaded[q]
           reading == Reading(draft, cat)
           plans == Plans(type, reading, hints, cat)
       IN /\ asked' = [asked EXCEPT ![q] =
                 [metric |-> reading.metric, faulty |-> Faulty(reading, cat)]]
          /\ \/ plans = {} /\ Refuse(q, {"strategy"})
             \/ \E plan \in plans : \E unparsed \in Fragile(plan, reading, cat) \cup {0} :
                  IF PlanRefusals(plan, unparsed, reading, cat) # {}
                  THEN Refuse(q, PlanRefusals(plan, unparsed, reading, cat))
                  ELSE /\ blocks' = [blocks EXCEPT ![q] =
                             [i \in DOMAIN plan |-> Compiled(plan[i], reading, cat)]]
                       /\ qpc' = [qpc EXCEPT ![q] = "compiled"]
                       /\ UNCHANGED refusals
    /\ UNCHANGED <<vars, loaded, tidy, split, ran>>

-----------------------------------------------------------------------------
(* Validation and execution *)

\* The statement of a block; the expressions of the catalogue choose its columns.  They,
\* join paths and the values of filters may hold a `limit N` ahead of its own.
TextOf(block, columns, embedded) ==
    [shape |-> "sound", tables |-> block.tables, columns |-> columns,
     limits |-> Append(embedded, block.limit)]

\* As the block has run: the statement with its limits, and how many of its rows are kept
Done(block, text) ==
    [block    |-> block.block,
     tables   |-> block.tables,
     filters  |-> block.filters,
     period   |-> block.period,
     limits   |-> Limited(text),
     shown    |-> Least(Own(Limited(text)), RowLimit(text))]

\* The preflight and, block by block, _execute_spec in the loop of execute_answer_plan
\* (QueryWorkflow tells them apart): a block that is blocked or fails
\* is left out if it is optional, and ends the answer otherwise.
Run(q, columns, embedded, verdict, fails) ==
    /\ qpc[q] = "compiled"
    /\ blocks[q] # <<>>
    /\ LET block == Head(blocks[q])
           text == TextOf(block, columns, embedded) IN
         /\ verdict \in Verdicts(text)
         /\ IF verdict = "passed" /\ ~fails
            THEN /\ ran' = [ran EXCEPT ![q] = @ \cup {Done(block, text)}]
                 /\ blocks' = [blocks EXCEPT ![q] = Tail(@)]
            ELSE /\ blocks' = [blocks EXCEPT ![q] = IF block.optional THEN Tail(@) ELSE <<>>]
                 /\ UNCHANGED ran
    /\ UNCHANGED <<vars, qpc, loaded, tidy, split, asked, refusals>>

Answer(q) ==
    /\ qpc[q] = "compiled"
    /\ blocks[q] = <<>>
    /\ qpc' = [qpc EXCEPT ![q] = IF ran[q] = {} THEN "blocked" ELSE "answered"]
    /\ UNCHANGED <<vars, loaded, tidy, split, asked, refusals, blocks, ran>>

-----------------------------------------------------------------------------
(* Both at once *)

Administer ==
    /\ Administration
    /\ (\E q \in Questions : qpc[q] # "metrics") => Busy' <= Meanwhile
    /\ split' = [q \in Questions |-> split[q] \/ (qpc[q] = "dims" /\ rows' # rows)]
    /\ UNCHANGED <<qpc, loaded, tidy, asked, refusals, blocks, ran>>

QNext ==
    \/ Administer
    \/ \E q \in Questions :
          \/ LoadMetrics(q) \/ LoadDims(q) \/ Answer(q)
          \/ \E type \in AnswerTypes, draft \in Drafts, hints \in Hints : Plan(q, type, draft, hints)
          \/ /\ blocks[q] # <<>>
             /\ \E columns \in Columns, fails \in BOOLEAN,
                   embedded \in Embedded[Head(blocks[q]).block],
                   verdict \in {"passed", "explain_cost", "table_whitelist", "access_policy",
                               "forbidden_columns", "column_whitelist"} :
                      Run(q, columns, embedded, verdict, fails)

QSpec == QInit /\ [][QNext]_allVars

-----------------------------------------------------------------------------
(* Properties *)

\* A question whose draft has no fault is refused by the catalogue only because of
\* the administration: a metric lists a dimension that has been deactivated or has no
\* join, an expression, column or join path was accepted that parses by itself alone, or
\* the catalogue changed between the two reads.  A plan without the breakdown that its
\* type needs is refused by the strategy.
RefusedForACause ==
    \A q \in Questions :
        refusals[q] \ {"strategy"} # {} =>
            asked[q].faulty \/ ~tidy[q] \/ split[q]

Restrictions(q) ==
    {[filters |-> b.filters, period |-> b.period] : b \in {c \in ran[q] : c.period # "previous"}}

\* The blocks of one answer are about the same rows: they restrict them by the same
\* filters and the same period, the baseline apart.  A metric that names no filters
\* allows all of them in figures and none in rows.
BlocksAgree ==
    \A q \in Questions :
        \/ Cardinality(Restrictions(q)) <= 1
        \/ loaded[q].metrics[asked[q].metric].filters = {}

\* Join paths, expressions and filter values are free text; still nothing runs that reads
\* a table off the whitelist or without a policy, and no more rows of it are shown than
\* every policy allows.  The statement itself may be run for more only if a `limit N`
\* ahead of its own, within the policies, was taken for it.
RunsWithinPolicy ==
    \A q \in Questions : \A b \in ran[q] :
        /\ b.tables \subseteq Whitelist /\ b.tables \subseteq DOMAIN RowLimits
        /\ \A limit \in {RowLimits[t] : t \in b.tables} \cup {MaxRows} :
              /\ b.shown <= limit
              /\ Own(b.limits) <= limit \/ (Len(b.limits) > 1 /\ Head(b.limits) <= limit)

=============================================================================
