------------------------ MODULE MCCatalogueQuestions ------------------------
(* CatalogueQuestions on a small instance: one metric, a day on the grain and  *)
(* a city behind a join                                                        *)
EXTENDS CatalogueQuestions, TLC

CONSTANTS revenue, day, city, word, example, template

Metric(dims, filters, active) ==
    [dims |-> dims, filters |-> filters, composes |-> TRUE, active |-> active]
Dim(onGrain, path, type, active) ==
    [onGrain |-> onGrain, path |-> path, type |-> type, composes |-> TRUE, active |-> active]

Loose(row) == [row EXCEPT !.composes = FALSE]

Joined(active) == Dim(FALSE, {"cities"}, "string", active)
Pattern == [metric |-> revenue, dims |-> {city}, filters |-> {}, active |-> TRUE]
Word(type, key, exact) ==
    [type |-> type, entity |-> [key |-> key, exact |-> exact], active |-> TRUE]

MCOffers ==
    (revenue :> {Loose(Metric({day, city}, {city}, TRUE)), Metric({city}, {}, TRUE)})
    @@ (day :> {Dim(TRUE, {}, "date", a) : a \in BOOLEAN})
    @@ (city :> {Loose(Joined(TRUE)), Joined(FALSE), Dim(FALSE, {}, "string", TRUE),
                 Dim(FALSE, {"users"}, "string", TRUE)})
    @@ (word :> {Word("metric", revenue, TRUE), Word("metric", revenue, FALSE),
                 Word("filter", city, TRUE)})
    @@ (example :> {Pattern})
    @@ (template :> {Pattern})

Seed(metric, place, rest) ==
    (revenue :> metric) @@ (day :> Dim(TRUE, {}, "date", TRUE)) @@ (city :> place)
    @@ (word :> rest) @@ (example :> NoRow) @@ (template :> NoRow)

MCSeeds ==
    {[k \in Keys |-> NoRow],
     Seed(Metric({day, city}, {city}, TRUE), Joined(TRUE), NoRow),
     Seed(Metric({day, city}, {}, TRUE), Joined(TRUE), Word("dimension", city, TRUE)),
     Seed(NoRow, Joined(FALSE), NoRow)}

Filter(operator, values) == [operator |-> operator, values |-> values, fits |-> TRUE]

NoFilter == [d \in {} |-> {}]
InCity == city :> Filter("eq", 1)

MCDrafts ==
    [metric : {revenue}, dims : {{}, {day, city}}, period : {"rolling"}, limit : {6},
     filters : {NoFilter, InCity, city :> Filter("between", 2), day :> Filter("between", 2)}]
    \cup [metric : {revenue, NoMetric}, dims : {{}, {day, city}}, period : {"malformed"},
          limit : {0}, filters : {NoFilter, InCity}]

MCHints ==
    [time : {NoDim, day}, dims : {{}, {city}}, metric : {revenue}]

MCRowLimits == ("orders" :> 50) @@ ("cities" :> 8)

\* Free text with a `limit 5`, which every policy allows, or with one that none does
MCEmbedded ==
    [b \in {"headline_kpi", "previous_period", "distribution", "report_trend",
            "report_records"} |-> {<<>>}]
    @@ [b \in {"primary_kpi", "comparison", "trend", "records", "report_comparison"} |->
           {<<>>, <<5>>, <<60>>}]

RequestSymmetry == Permutations(Requests)

=============================================================================
