------------------------------ MODULE ModelCalls ------------------------------
(***************************************************************************)
(* Who may answer a stage that asks a language model: the configuration    *)
(* (app/config.py), the providers (app/ai/gateway) and the rules that      *)
(* stand in for a model, in the gateway and in the classifier.             *)
(***************************************************************************)
EXTENDS Integers, Sequences

CONSTANT MaxRetries     \* bound on the setting LLM_MAX_RETRIES

ASSUME RetriesAssumption == MaxRetries \in Nat

Http == {"production", "ollama"}

\* "fallback_rule" is the same as "fallback"; "other" is any other name.
Providers == Http \cup {"fallback", "other"}

AllSettings == [env : {"development", "demo"}, strict : BOOLEAN, rules : BOOLEAN,
                provider : Providers, keyed : BOOLEAN, retries : 0..MaxRetries]

\* llm_fallback_allowed; production differs from demo in nothing that matters here
FallbackAllowed(s) == ~s.strict /\ s.rules /\ s.env # "demo" /\ s.provider # "production"

\* The process does not start with other settings; keyed is the URL and the key of
\* the production provider, and only the models behind HTTP are asked repeatedly.
Settings == {s \in AllSettings : /\ s.provider = "fallback" => FallbackAllowed(s)
                                 /\ s.provider # "production" => s.keyed
                                 /\ s.provider \notin Http => s.retries = 0}

\* _primary_provider raises before there is a gateway
Unconfigured(s) == s.provider = "other" \/ (s.provider = "production" /\ ~s.keyed)

Attempts(s) == IF s.provider \in Http /\ ~Unconfigured(s)
               THEN IF s.retries > 1 THEN s.retries ELSE 1
               ELSE 0

\* [bug] the classifier has no rules of its own
RulesFor_Gateway(stage, s) ==
    FallbackAllowed(s) /\ stage # "classification" /\ ~Unconfigured(s)

\* Without its rule provider the classifier's gateway lets every error through, that
\* of its construction too, and the classifier goes by its own rules; for the other
\* stages there are no rules without a gateway.
RulesFor(stage, s) == FallbackAllowed(s) /\ (stage = "classification" \/ ~Unconfigured(s))

-----------------------------------------------------------------------------
(* The rules of the classifier *)

AnswerTypes == {"chat_help", "full_report", "table", "distribution", "trend",
                "comparison_top", "single_value"}

\* Words of the question that speak for a type, what the semantic layer found for
\* it, and the chart of the best template
Hints == {"time hint", "category hint", "line template", "bar template"}

Cues == AnswerTypes \cup Hints

\* The first row one of whose cues is there decides.
ByItself == << <<"chat_help", {"chat_help"}>>, <<"full_report", {"full_report"}>>,
               <<"table", {"table"}>>, <<"distribution", {"distribution"}>>,
               <<"trend", {"trend", "time hint"}>>,
               <<"comparison_top", {"comparison_top", "category hint"}>>,
               <<"single_value", {"single_value"}>> >>

ByTemplate == << <<"trend", {"line template"}>>, <<"comparison_top", {"bar template"}>> >>

Deciding(rows, cues) == SelectSeq(rows, LAMBDA row : row[2] \cap cues # {})

\* A query of the chat among the latest, the one that is being asked included
Turns == [status : {"running", "success", "clarification_required"},
          type : {"chat_help", "trend"}]

\* The latest success, or else the latest that waits for a clarification, comes
\* first: it is what a question that looks like a follow-up refers to.
Anchors(turns) ==
    LET With(status) == SelectSeq(turns, LAMBDA t : t.status = status)
    IN With("success") \o With("clarification_required")

RuleType(cues, turns, followUp) ==
    LET own == Deciding(ByItself, cues)
        template == Deciding(ByTemplate, cues)
    IN IF own # <<>> THEN own[1][1]
       ELSE IF followUp /\ Anchors(turns) # <<>> THEN Anchors(turns)[1].type
       ELSE IF template # <<>> THEN template[1][1]
       ELSE "single_value"

\* What the rules can say of one cue and two turns at most: all they ever say
RuleTypes == {RuleType(cues, turns, followUp) :
                 cues \in {{}} \cup {{c} : c \in Cues},
                 turns \in {<<>>} \cup (Turns \X Turns), followUp \in BOOLEAN}

-----------------------------------------------------------------------------
(* The rules for an intent and for what to ask back *)

\* Words of the question and of what it takes along from its anchor: of a filter's
\* value, "write" may be one.
Words == {"revenue", "kpi", "cancellations", "driver", "client", "active", "trips",
          "date", "month", "net", "top", "write"}

\* The first row all of whose words are there names the metric.
MetricRows == << <<"blocked_operation", {"write"}>>, <<"revenue", {"revenue"}>>,
                 <<"kpi", {"kpi"}>>, <<"driver_cancellations", {"cancellations", "driver"}>>,
                 <<"client_cancellations", {"cancellations"}>>,
                 <<"active_drivers", {"driver", "active"}>>, <<"trips", {"trips"}>> >>

RuleMetric(words) ==
    LET rows == SelectSeq(MetricRows, LAMBDA row : row[2] \subseteq words)
    IN IF rows = <<>> THEN "none" ELSE rows[1][1]

\* interpret_query: ambiguity_flags
LeftOpen(words) ==
    LET metric == RuleMetric(words)
    IN /\ metric # "blocked_operation"
       /\ \/ metric = "none"
          \/ {"date", "month"} \cap words = {} /\ metric # "active_drivers"
          \/ metric = "client_cancellations" /\ "client" \notin words
          \/ metric = "revenue" /\ "month" \in words /\ {"net", "top"} \cap words = {}

\* An intent as far as it matters: a metric is named, something is ambiguous
Intents == [named : BOOLEAN, ambiguous : BOOLEAN]

RuleIntents == {[named |-> RuleMetric(w) # "none", ambiguous |-> LeftOpen(w)] : w \in SUBSET Words}

\* _clarification_payload
RulesAskBack(intent) == intent.ambiguous \/ ~intent.named

=============================================================================
