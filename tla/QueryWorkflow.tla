---------------------------- MODULE QueryWorkflow ----------------------------
(***************************************************************************)
(* One question on its way through run_query_workflow                      *)
(* (app/ai/orchestrator.py) and the endpoint around it: the stages, what   *)
(* each of them may answer, and what is committed when.                    *)
(*                                                                         *)
(* The request works in one database session: db is what is committed of   *)
(* it, session what it sees itself.  Only the commits of the workflow and  *)
(* the one of the endpoint move the first to the second; an exception      *)
(* moves it back.  The analytics database is another one: a statement that *)
(* was executed there stays executed.                                      *)
(***************************************************************************)
EXTENDS FiniteSets

CONSTANTS
    Primary,        \* the block of the answer without which there is none
    Secondary       \* optional blocks, of a full report say

Blocks == {Primary} \cup Secondary

ASSUME PrimaryAssumption == Primary \notin Secondary

VARIABLES
    pc,         \* the stage the request is at
    session,    \* its query, trace events and messages as the session has them
    db,         \* the same as committed
    type,       \* what kind of answer is wanted, as far as the stages differ
    dangerous,  \* the question asks for a write or for DDL
    ambiguous,  \* interpretation.ambiguity_flags
    needed,     \* clarification_result.needs_clarification
    band,       \* confidence.band
    checked,    \* preflight_validations
    executed,   \* blocks handed to execute_validated_query, the cache included
    rows,       \* executed_plan.blocks
    pending,    \* specs execute_answer_plan has not come to
    broken,     \* the database refused the SQL of the primary block
    response    \* what the client gets

facts == <<type, dangerous, ambiguous, needed, band>>
sqlVars == <<checked, executed, rows, pending, broken>>

vars == <<pc, session, db, facts, sqlVars, response>>

\* PIPELINE_STEPS, the ones that are traced
Steps == {"retrieval", "classification", "intent", "clarification planning",
          "scoring", "asking", "plan draft", "compilation", "guardrails",
          "execution", "contract", "summary"}

\* Stages whose answer comes from a language model
ModelStages == {"classification", "intent", "clarification planning", "plan draft"}

Stages == Steps \cup {"new", "help", "decision", "return", "answer", "reply", "done"}

Final == {"success", "blocked", "clarification_required"}

\* trace_step: the event of a step, "open" until its finally clause
Outcomes == {"none", "running", "ok", "error", "blocked", "needs_input"}

Records == [status : {"absent", "running"} \cup Final,
            events : [Steps -> Outcomes], finished : SUBSET Steps, message : BOOLEAN]

Nothing == [status |-> "absent", events |-> [s \in Steps |-> "none"],
            finished |-> {}, message |-> FALSE]

TypeOK ==
    /\ pc \in Stages
    /\ session \in Records
    /\ db \in Records
    /\ type \in {"unknown", "chat_help", "summarised", "plain"}
    /\ dangerous \in BOOLEAN
    /\ ambiguous \in BOOLEAN
    /\ needed \in BOOLEAN
    /\ band \in {"unknown", "high", "medium", "low"}
    /\ checked \subseteq Blocks
    /\ executed \subseteq Blocks
    /\ rows \subseteq Blocks
    /\ pending \subseteq Blocks
    /\ broken \in BOOLEAN
    /\ response \in {"none", "200", "500", "503"}

Init ==
    /\ pc = "new"
    /\ session = Nothing
    /\ db = Nothing
    /\ type = "unknown"
    /\ dangerous \in BOOLEAN
    /\ ambiguous = FALSE
    /\ needed = FALSE
    /\ band = "unknown"
    /\ checked = {}
    /\ executed = {}
    /\ rows = {}
    /\ pending = {}
    /\ broken = FALSE
    /\ response = "none"

-----------------------------------------------------------------------------
(* Trace and transactions *)

\* [bug] the finally clause is not flushed with what follows
Traced_Late(step, outcome) == [session EXCEPT !.events[step] = outcome]

\* A step that has been left: its event has an outcome and an end.
Traced(step, outcome) ==
    [session EXCEPT !.events[step] = outcome, !.finished = @ \cup {step}]

\* [bug] the event's outcome is left to trace_step, which comes after the commit
Inside_Running(step) == [session EXCEPT !.status = "blocked", !.events[step] = "running"]

\* What a commit in the middle of a step finds: the outcome is set, the end is not.
Inside(step) == [session EXCEPT !.status = "blocked", !.events[step] = "blocked"]

Pass(step, next) ==
    /\ pc = step
    /\ session' = Traced(step, "ok")
    /\ pc' = next
    /\ UNCHANGED <<db, response>>

\* db.commit(), and the way out of the workflow
Commit(record) ==
    /\ session' = record
    /\ db' = record
    /\ pc' = "return"
    /\ UNCHANGED response

-----------------------------------------------------------------------------
(* From the question to its interpretation *)

Begin ==
    /\ pc = "new"
    /\ session' = [session EXCEPT !.status = "running"]
    /\ pc' = "retrieval"
    /\ UNCHANGED <<db, facts, sqlVars, response>>

Retrieve ==
    /\ Pass("retrieval", "classification")
    /\ UNCHANGED <<facts, sqlVars>>

Classify ==
    /\ \E t \in {"chat_help", "summarised", "plain"} :
          /\ type' = t
          /\ Pass("classification", IF t = "chat_help" THEN "help" ELSE "intent")
    /\ UNCHANGED <<dangerous, ambiguous, needed, band, sqlVars>>

Help ==
    /\ pc = "help"
    /\ Commit([session EXCEPT !.status = "success"])
    /\ UNCHANGED <<facts, sqlVars>>

\* DANGEROUS_RE matches: no model is asked
SkipIntent ==
    /\ pc = "intent"
    /\ dangerous
    /\ pc' = "scoring"
    /\ UNCHANGED <<session, db, facts, sqlVars, response>>

\* The clarification is planned when something is ambiguous or no metric was found.
ExtractIntent ==
    /\ ~dangerous
    /\ \E metric \in BOOLEAN :
          /\ ambiguous' \in BOOLEAN
          /\ Pass("intent",
                  IF ambiguous' \/ ~metric THEN "clarification planning" ELSE "scoring")
    /\ UNCHANGED <<type, dangerous, needed, band, sqlVars>>

\* Only a clarification that is needed adds its ambiguities to those of the intent.
PlanClarification ==
    /\ needed' \in BOOLEAN
    /\ ambiguous' \in {ambiguous, ambiguous \/ needed'}
    /\ Pass("clarification planning", "scoring")
    /\ UNCHANGED <<type, dangerous, band, sqlVars>>

\* A dangerous question scores 0, and ambiguities are never "high".
Bands == {b \in {"high", "medium", "low"} : /\ dangerous => b = "low"
                                            /\ ambiguous => b # "high"}

Score ==
    /\ band' \in Bands
    /\ Pass("scoring", "decision")
    /\ UNCHANGED <<type, dangerous, ambiguous, needed, sqlVars>>

\* [bug] a medium confidence is good enough
MustAsk_Low == needed \/ band = "low"

MustAsk == needed \/ band # "high"

BlockDangerous ==
    /\ pc = "decision"
    /\ dangerous
    /\ Commit([Traced("guardrails", "blocked") EXCEPT !.status = "blocked"])
    /\ UNCHANGED <<facts, sqlVars>>

Ask ==
    /\ pc = "decision"
    /\ ~dangerous
    /\ MustAsk
    /\ Commit([Traced("asking", "needs_input") EXCEPT !.status = "clarification_required"])
    /\ UNCHANGED <<facts, sqlVars>>

Proceed ==
    /\ pc = "decision"
    /\ ~dangerous
    /\ ~MustAsk
    /\ pc' = "plan draft"
    /\ UNCHANGED <<session, db, facts, sqlVars, response>>

-----------------------------------------------------------------------------
(* From the interpretation to the rows *)

Draft == Pass("plan draft", "compilation") /\ UNCHANGED <<facts, sqlVars>>

Compile == Pass("compilation", "guardrails") /\ UNCHANGED <<facts, sqlVars>>

\* SemanticCompilationError: trace_step marks the event and lets it through
Uncompilable ==
    /\ pc \in {"plan draft", "compilation"}
    /\ Commit([Traced(pc, "error") EXCEPT !.status = "blocked"])
    /\ UNCHANGED <<facts, sqlVars>>

Approved(ok) == Primary \in ok

\* Every block is validated; only the primary one decides.
Preflight ==
    /\ pc = "guardrails"
    /\ \E ok \in SUBSET Blocks :
          /\ checked' = ok
          /\ \/ /\ Approved(ok)
                /\ Pass("guardrails", "execution")
                /\ pending' = Blocks
             \/ /\ ~Approved(ok)
                /\ Commit(Inside("guardrails"))
                /\ UNCHANGED pending
    /\ UNCHANGED <<facts, executed, rows, broken>>

\* [bug] every spec is taken for optional
AfterFailure_GoOn(b) == pending \ {b}

\* A failed primary block ends execute_answer_plan, a failed optional one does not.
AfterFailure(b) == IF b = Primary THEN {} ELSE pending \ {b}

NextBlock(b) ==
    /\ pc = "execution"
    /\ b \in pending
    /\ Primary \in pending => b = Primary

\* _execute_spec validates again, and this time the guardrails refuse
RefuseBlock(b) ==
    /\ NextBlock(b)
    /\ pending' = AfterFailure(b)
    /\ UNCHANGED <<pc, session, db, facts, checked, executed, rows, broken, response>>

ExecuteBlock(b) ==
    /\ NextBlock(b)
    /\ executed' = executed \cup {b}
    /\ \/ /\ rows' = rows \cup {b}
          /\ pending' = pending \ {b}
          /\ UNCHANGED broken
       \/ /\ pending' = AfterFailure(b)
          /\ broken' = (broken \/ b = Primary)
          /\ UNCHANGED rows
    /\ UNCHANGED <<pc, session, db, facts, checked, response>>

\* [bug] only the failures are looked at, not what is missing
Executed_Some == rows # {} \/ ~broken

Executed == Primary \in rows

ExecutionBlocked ==
    /\ pc = "execution"
    /\ pending = {}
    /\ ~Executed
    /\ Commit(Inside("execution"))
    /\ UNCHANGED <<facts, sqlVars>>

\* [bug] the rows are committed before the answer is there
OnRecord_Early == session'

\* The transaction stays open until the answer has been written.
OnRecord == db

Collect ==
    /\ pc = "execution"
    /\ pending = {}
    /\ Executed
    /\ session' = [Traced("execution", "ok") EXCEPT !.status = "success"]
    /\ db' = OnRecord
    /\ pc' = "contract"
    /\ UNCHANGED <<facts, sqlVars, response>>

-----------------------------------------------------------------------------
(* From the rows to the response *)

BuildAnswer == Pass("contract", "summary") /\ UNCHANGED <<facts, sqlVars>>

\* AnswerContractError: the rows do not make the answer that was promised
ContractBroken ==
    /\ pc = "contract"
    /\ Commit(Inside("contract"))
    /\ UNCHANGED <<facts, sqlVars>>

Summarise ==
    /\ pc = "summary"
    /\ Commit(Traced("summary", "ok"))
    /\ UNCHANGED <<facts, sqlVars>>

\* The finally clause of the step that was open at the commit: a new transaction
Return ==
    /\ pc = "return"
    /\ session' = [session EXCEPT
                     !.finished = @ \cup {s \in Steps : session.events[s] = "blocked"}]
    /\ pc' = "answer"
    /\ UNCHANGED <<db, facts, sqlVars, response>>

\* run_query: the assistant's message, and the commit that takes the trace along
Answer ==
    /\ pc = "answer"
    /\ session' = [session EXCEPT !.message = TRUE]
    /\ db' = session'
    /\ pc' = "reply"
    /\ UNCHANGED <<facts, sqlVars, response>>

\* The rows are refreshed and the response is made of them, after the commit: what
\* fails from here on (Fail) leaves the answer in the chat and its client with a 500.
Respond ==
    /\ pc = "reply"
    /\ pc' = "done"
    /\ response' = "200"
    /\ UNCHANGED <<session, db, facts, sqlVars>>

Rollback(code) ==
    /\ session' = db
    /\ pc' = "done"
    /\ response' = code
    /\ UNCHANGED <<db, facts, sqlVars>>

\* LLMProviderError: every retry failed, and no fallback is allowed
ModelUnavailable ==
    /\ \/ pc \in ModelStages /\ ~(pc = "intent" /\ dangerous)
       \/ pc = "summary" /\ type = "summarised"
    /\ Rollback("503")

\* Any other exception: the platform database, a bug, the process
Fail ==
    /\ pc # "done"
    /\ Rollback("500")

Next ==
    \/ Begin \/ Retrieve \/ Classify \/ Help
    \/ SkipIntent \/ ExtractIntent \/ PlanClarification \/ Score
    \/ BlockDangerous \/ Ask \/ Proceed
    \/ Draft \/ Compile \/ Uncompilable \/ Preflight
    \/ \E b \in Blocks : RefuseBlock(b) \/ ExecuteBlock(b)
    \/ ExecutionBlocked \/ Collect
    \/ BuildAnswer \/ ContractBroken \/ Summarise \/ Return
    \/ Answer \/ Respond
    \/ ModelUnavailable \/ Fail

Spec == Init /\ [][Next]_vars

-----------------------------------------------------------------------------
(* Properties *)

\* Whatever stage commits, and wherever the request ends afterwards, nobody reads
\* a query that still says "running" or a step without an outcome.
FinalOnRecord ==
    /\ db.status # "running"
    /\ \A s \in Steps : db.events[s] # "running"

\* No SQL is executed for a question that is dangerous, that has an ambiguity nobody
\* resolved, that scored below "high" or whose primary block the preflight refused.
OnlyClearQuestionsRun ==
    executed # {} =>
        /\ ~dangerous /\ ~ambiguous /\ ~needed
        /\ band = "high"
        /\ Primary \in checked

\* The primary block comes first, and when it fails nothing more is executed.
NothingAfterPrimaryFailed == executed \subseteq {Primary} \/ Primary \in rows

\* A query on record as successful has the rows of its primary block, unless it
\* was a request for help, which executes nothing.
SuccessHasRows ==
    db.status = "success" =>
        IF type = "chat_help" THEN executed = {} ELSE Primary \in rows

\* 503 promises that the question may simply be asked again: nothing is left of
\* the request, no matter which of its models gave up.
UnavailableLeavesNothing == response = "503" => db = Nothing

\* A client that got its answer finds it in the chat. An answer in the chat has every
\* step of its trace with its end, the step that returned included, even when its
\* client was told of an error; and nobody was told that it could not be had.
AnsweredIsTraced ==
    /\ response = "200" => db.message
    /\ db.message => /\ \A s \in Steps : db.events[s] # "none" <=> s \in db.finished
                     /\ response # "503"

\* The statuses of the documented state diagram that "running" leads to when a
\* database error, not the dangerous intent or the guardrails, ends the execution.
DatabaseErrorsShow ==
    broken /\ db.status # "absent" =>
        db.status \in {"sql_error", "autofix_running", "autofix_failed"}

Life == INSTANCE QueryLife WITH status <- db.status, answered <- db.message

\* To everybody else the query shows up once, with a status that the request does
\* not change again, and the answer comes after it if it comes at all.
ImplementsLife == Life!Spec

=============================================================================
