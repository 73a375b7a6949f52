---------------------------- MODULE QuestionCalls ----------------------------
(***************************************************************************)
(* A question and the calls of its stages: QueryWorkflow, in which every   *)
(* stage that asks a model goes on with what a model or the rules have     *)
(* answered, and what the response then says about who it was.             *)
(***************************************************************************)
EXTENDS QueryWorkflow, ModelCalls

VARIABLES
    settings,   \* the configuration of the process
    attempt,    \* requests sent for the present stage
    reply,      \* who answered it: "none" yet, a "model" or the "rules"
    intent,     \* IntentExtractionResult, as its author gave it
    telemetry,  \* who answered, as answer_type_decision and interpretation_json have it
    read,       \* interpretation.fallback_used, and before there is one the decision's
    heard       \* history: who answered the stages that the request went on from

gateway == <<settings, attempt, reply>>
told == <<intent, telemetry, read, heard>>
callVars == <<vars, gateway, told>>

\* The stages whose answer _query_ai_telemetry looks for
Callers == ModelStages \cup {"summary"}
Authors == {"none", "model", "rules"}

CallTypeOK ==
    /\ settings \in Settings
    /\ attempt \in 0..Attempts(settings)
    /\ reply \in Authors
    /\ intent \in Intents
    /\ telemetry \in [Callers -> Authors]
    /\ read \in BOOLEAN
    /\ heard \in [Callers -> Authors]

CallInit ==
    /\ Init
    /\ settings \in Settings
    /\ attempt = 0
    /\ reply = "none"
    /\ intent = [named |-> FALSE, ambiguous |-> FALSE]
    /\ telemetry = [c \in Callers |-> "none"]
    /\ read = FALSE
    /\ heard = telemetry

-----------------------------------------------------------------------------
(* The calls *)

\* The request is at a stage that asks, and has no answer yet.
Asking ==
    /\ reply = "none"
    /\ \/ pc \in ModelStages /\ ~(pc = "intent" /\ dangerous)
       \/ pc = "summary" /\ type = "summarised"

\* generate_structured: a request that fails, or whose answer is no JSON of the
\* schema, is repeated; one that succeeds is not.
Call ==
    /\ Asking
    /\ attempt < Attempts(settings)
    /\ attempt' = attempt + 1
    /\ reply' \in {"none", "model"}
    /\ UNCHANGED <<vars, settings, told>>

\* The rule provider as primary provider, which knows no classification
AskRules ==
    /\ Asking
    /\ settings.provider = "fallback"
    /\ pc # "classification"
    /\ reply' = "rules"
    /\ UNCHANGED <<vars, settings, attempt, told>>

\* LLMProviderError: of the last attempt, of the rule provider or of no provider
Failed ==
    /\ Asking
    /\ attempt = Attempts(settings)
    /\ settings.provider = "fallback" => pc = "classification"

FallBack ==
    /\ Failed
    /\ RulesFor(pc, settings)
    /\ reply' = "rules"
    /\ UNCHANGED <<vars, settings, attempt, told>>

GiveUp ==
    /\ Failed
    /\ ~RulesFor(pc, settings)
    /\ ModelUnavailable
    /\ UNCHANGED <<gateway, told>>

-----------------------------------------------------------------------------
(* The stages that go on from an answer *)

Heard(stage) ==
    /\ reply # "none"
    /\ reply' = "none"
    /\ attempt' = 0
    /\ heard' = [heard EXCEPT ![stage] = reply]
    /\ UNCHANGED settings

\* [bug] interpretation_json is written afresh
Noted_Afresh(stage) ==
    telemetry' = [c \in Callers |-> IF c = stage THEN reply
                                    ELSE IF c = "classification" THEN telemetry[c] ELSE "none"]

Noted(stage) == telemetry' = [telemetry EXCEPT ![stage] = reply]

KindOf(answerType) ==
    CASE answerType = "chat_help" -> "chat_help"
      [] answerType \in {"full_report", "table"} -> "plain"
      [] OTHER -> "summarised"

ClassifyHeard ==
    /\ Classify
    /\ type' \in {KindOf(t) : t \in IF reply = "rules" THEN RuleTypes ELSE AnswerTypes}
    /\ Heard("classification") /\ Noted("classification")
    /\ read' = (reply = "rules")
    /\ UNCHANGED intent

\* A dangerous question has an interpretation that nobody was asked for.
SkipHeard ==
    /\ SkipIntent
    /\ read' = FALSE
    /\ UNCHANGED <<gateway, intent, telemetry, heard>>

\* What is not in the catalogue is ambiguous whoever named it.
ExtractHeard ==
    /\ intent' \in IF reply = "rules" THEN RuleIntents ELSE Intents
    /\ ExtractIntent
    /\ intent'.ambiguous \/ ~intent'.named => ambiguous'
    /\ Heard("intent") /\ Noted("intent")
    /\ read' = (reply = "rules")

\* The clarification is noted when it is needed, and not used when it is not.
Kept(stage) == IF needed' THEN [telemetry EXCEPT ![stage] = reply] ELSE telemetry

ClarifyHeard ==
    /\ PlanClarification
    /\ reply = "rules" => needed' = RulesAskBack(intent)
    /\ reply # "none" /\ reply' = "none" /\ attempt' = 0
    /\ telemetry' = Kept("clarification planning")
    /\ heard' = IF needed' THEN [heard EXCEPT !["clarification planning"] = reply] ELSE heard
    /\ UNCHANGED <<settings, intent, read>>

DraftHeard ==
    /\ Draft
    /\ Heard("plan draft") /\ Noted("plan draft")
    /\ read' = (reply = "rules")
    /\ UNCHANGED intent

SummariseHeard ==
    /\ Summarise
    /\ IF type = "summarised" THEN Heard("summary") /\ Noted("summary")
       ELSE UNCHANGED <<gateway, telemetry, heard>>
    /\ UNCHANGED <<intent, read>>

\* Any other exception, an answer over HTTP that is no JSON at all included
FailHeard == Fail /\ UNCHANGED <<gateway, told>>

Rest ==
    \/ Begin \/ Retrieve \/ Help \/ Score \/ BlockDangerous \/ Ask \/ Proceed
    \/ Compile \/ (pc = "compilation" /\ Uncompilable) \/ Preflight
    \/ \E b \in Blocks : RefuseBlock(b) \/ ExecuteBlock(b)
    \/ ExecutionBlocked \/ Collect \/ BuildAnswer \/ ContractBroken \/ Return
    \/ Answer \/ Respond

CallNext ==
    \/ Call \/ AskRules \/ FallBack \/ GiveUp
    \/ ClassifyHeard \/ SkipHeard \/ ExtractHeard \/ ClarifyHeard
    \/ DraftHeard \/ SummariseHeard \/ FailHeard
    \/ Rest /\ UNCHANGED <<gateway, told>>

CallSpec == CallInit /\ [][CallNext]_callVars

-----------------------------------------------------------------------------
(* What the response says: _query_ai_telemetry and the answer's explainability *)

FallbackShown == \E c \in Callers : telemetry[c] = "rules"

ModelShown == \E c \in Callers : telemetry[c] = "model"

\* provider: of the last stage a model answered, or else of the rules
ProviderShown == IF ModelShown THEN settings.provider ELSE "fallback"

-----------------------------------------------------------------------------
(* Properties *)

\* An answer, in the response or in the chat, shows that rules stood in for a model
\* exactly when they did at some stage it came by, which takes a configuration that
\* allows it, and a model exactly when one was heard; the answer itself claims no
\* fallback that its query does not show.
RulesShow ==
    response = "200" \/ db.message =>
        /\ FallbackShown <=> \E c \in Callers : heard[c] = "rules"
        /\ ModelShown <=> \E c \in Callers : heard[c] = "model"
        /\ ModelShown => ProviderShown \in Http
        /\ read => FallbackShown
        /\ FallbackShown => ~settings.strict /\ settings.rules /\ settings.env # "demo"

\* 503 comes after every attempt has failed, and only where the configuration has
\* no rules to go by, or no provider of the name it asks for.
UnavailableHasACause ==
    response = "503" =>
        /\ attempt = Attempts(settings)
        /\ ~FallbackAllowed(settings) \/ settings.provider = "other"

=============================================================================
