------------------------- MODULE QueryWorkflowProofs -------------------------
(***************************************************************************)
(* The query workflow, for any set of optional blocks and any bound on the *)
(* retries: first by itself (QueryWorkflow), in three invariants that      *)
(* build on each other: types, the course of a request through its stages, *)
(* and what of it is on record at each of them.  Then with the calls of    *)
(* its models (QuestionCalls), which implement it: all that was proved     *)
(* holds for them, and the response tells the truth about who answered.    *)
(***************************************************************************)
EXTENDS QuestionCalls, TLAPS

Decided == {"plan draft", "compilation", "guardrails", "execution", "contract", "summary"}

Begun == {"execution", "contract", "summary"}

Left == {"return", "answer", "reply", "done"}

-----------------------------------------------------------------------------
(* Types *)

LEMMA TracedType ==
    ASSUME session \in Records, NEW step \in Steps,
           NEW outcome \in {"ok", "error", "blocked", "needs_input"}
    PROVE  Traced(step, outcome) \in Records
BY DEF Traced, Records, Outcomes

LEMMA InsideType ==
    ASSUME session \in Records, NEW step \in Steps
    PROVE  Inside(step) \in Records
BY DEF Inside, Records, Outcomes, Final

LEMMA StatusType ==
    ASSUME NEW record \in Records, NEW st \in Final \cup {"running"}
    PROVE  [record EXCEPT !.status = st] \in Records
BY DEF Records

LEMMA TypeStep == TypeOK /\ [Next]_vars => TypeOK'
<1> SUFFICES ASSUME TypeOK, [Next]_vars PROVE TypeOK'
  OBVIOUS
<1> USE DEF TypeOK
<1>0. \A s \in {"retrieval", "classification", "intent", "clarification planning",
                "scoring", "asking", "plan draft", "compilation", "guardrails",
                "execution", "contract", "summary"} : s \in Steps /\ s \in Stages
  BY DEF Steps, Stages
<1>1. CASE Begin
  BY <1>1, StatusType DEF Begin, facts, sqlVars, Stages, Steps
<1>2. CASE Retrieve
  BY <1>0, <1>2, TracedType DEF Retrieve, Pass, facts, sqlVars
<1>3. CASE Classify
  BY <1>0, <1>3, TracedType DEF Classify, Pass, sqlVars, Stages
<1>4. CASE Help
  BY <1>4, StatusType DEF Help, Commit, facts, sqlVars, Stages, Final
<1>5. CASE SkipIntent
  BY <1>0, <1>5 DEF SkipIntent, facts, sqlVars
<1>6. CASE ExtractIntent
  BY <1>0, <1>6, TracedType DEF ExtractIntent, Pass, sqlVars
<1>7. CASE PlanClarification
  BY <1>0, <1>7, TracedType DEF PlanClarification, Pass, sqlVars
<1>8. CASE Score
  BY <1>0, <1>8, TracedType DEF Score, Bands, Pass, sqlVars, Stages
<1>9. CASE BlockDangerous
  <2>1. Traced("guardrails", "blocked") \in Records
    BY <1>0, TracedType
  <2>2. "blocked" \in Final /\ "return" \in Stages
    BY DEF Final, Stages
  <2> QED BY <1>9, <2>1, <2>2, StatusType DEF BlockDangerous, Commit, facts, sqlVars
<1>10. CASE Ask
  <2>1. Traced("asking", "needs_input") \in Records
    BY <1>0, TracedType
  <2>2. "clarification_required" \in Final /\ "return" \in Stages
    BY DEF Final, Stages
  <2> QED BY <1>10, <2>1, <2>2, StatusType DEF Ask, Commit, facts, sqlVars
<1>11. CASE Proceed
  BY <1>0, <1>11 DEF Proceed, facts, sqlVars
<1>12. CASE Draft
  BY <1>0, <1>12, TracedType DEF Draft, Pass, facts, sqlVars
<1>13. CASE Compile
  BY <1>0, <1>13, TracedType DEF Compile, Pass, facts, sqlVars
<1>14. CASE Uncompilable
  <2>1. Traced(pc, "error") \in Records
    BY <1>0, <1>14, TracedType DEF Uncompilable
  <2>2. "blocked" \in Final /\ "return" \in Stages
    BY DEF Final, Stages
  <2> QED BY <1>14, <2>1, <2>2, StatusType DEF Uncompilable, Commit, facts, sqlVars
<1>15. CASE Preflight
  <2>1. Inside("guardrails") \in Records /\ Traced("guardrails", "ok") \in Records
    BY <1>0, InsideType, TracedType
  <2>2. "return" \in Stages
    BY DEF Stages
  <2> QED BY <1>0, <1>15, <2>1, <2>2 DEF Preflight, Commit, Pass, facts
<1>16. ASSUME NEW b \in Blocks, RefuseBlock(b) PROVE TypeOK'
  BY <1>16 DEF RefuseBlock, NextBlock, AfterFailure, facts
<1>17. ASSUME NEW b \in Blocks, ExecuteBlock(b) PROVE TypeOK'
  BY <1>17 DEF ExecuteBlock, NextBlock, AfterFailure, facts
<1>18. CASE ExecutionBlocked
  <2>1. Inside("execution") \in Records /\ "return" \in Stages
    BY <1>0, InsideType DEF Stages
  <2> QED BY <1>18, <2>1 DEF ExecutionBlocked, Commit, facts, sqlVars
<1>19. CASE Collect
  <2>1. Traced("execution", "ok") \in Records /\ "success" \in Final
    BY <1>0, TracedType DEF Final
  <2> QED BY <1>0, <1>19, <2>1, StatusType DEF Collect, OnRecord, facts, sqlVars
<1>20. CASE BuildAnswer
  BY <1>0, <1>20, TracedType DEF BuildAnswer, Pass, facts, sqlVars
<1>21. CASE ContractBroken
  <2>1. Inside("contract") \in Records /\ "return" \in Stages
    BY <1>0, InsideType DEF Stages
  <2> QED BY <1>21, <2>1 DEF ContractBroken, Commit, facts, sqlVars
<1>22. CASE Summarise
  <2>1. "return" \in Stages
    BY DEF Stages
  <2> QED BY <1>0, <1>22, <2>1, TracedType DEF Summarise, Commit, facts, sqlVars
<1>23. CASE Return
  <2>1. session' \in Records
    BY <1>23 DEF Return, Records
  <2> QED BY <1>23, <2>1 DEF Return, facts, sqlVars, Stages
<1>24. CASE Answer \/ Respond
  <2>1. session' \in Records
    BY <1>24 DEF Answer, Respond, Records
  <2> QED BY <1>24, <2>1 DEF Answer, Respond, facts, sqlVars, Stages
<1>25. CASE ModelUnavailable
  BY <1>25 DEF ModelUnavailable, Rollback, facts, sqlVars, Stages
<1>26. CASE Fail
  BY <1>26 DEF Fail, Rollback, facts, sqlVars, Stages
<1>27. CASE UNCHANGED vars
  BY <1>27 DEF vars, facts, sqlVars
<1> QED BY <1>1, <1>2, <1>3, <1>4, <1>5, <1>6, <1>7, <1>8, <1>9, <1>10, <1>11,
           <1>12, <1>13, <1>14, <1>15, <1>16, <1>17, <1>18, <1>19, <1>20, <1>21,
           <1>22, <1>23, <1>24, <1>25, <1>26, <1>27 DEF Next

\* Every variable keeps its type.
THEOREM TypeCorrect == Spec => []TypeOK
<1>1. Init => TypeOK
  <2>1. Nothing \in Records
    BY DEF Nothing, Records, Outcomes
  <2>2. "new" \in Stages
    BY DEF Stages
  <2> QED BY <2>1, <2>2 DEF Init, TypeOK
<1> QED BY <1>1, TypeStep, PTL DEF Spec

-----------------------------------------------------------------------------
(* The course of a request: what its stage says of the question and the SQL *)

Clear == ~dangerous /\ ~ambiguous /\ ~needed /\ band = "high"

\* At the decision a high confidence excludes what score_confidence excludes.
ScoredRight == pc = "decision" /\ band = "high" => ~dangerous /\ ~ambiguous

\* Only help is without rows, and it never comes to a decision.
HelpApart == type = "chat_help" => pc \in {"help"} \cup Left

\* Nothing is executed before its stage; the primary block is the first.
PrimaryFirst ==
    /\ pc \notin Begun \cup Left => executed = {} /\ rows = {}
    /\ type = "chat_help" => executed = {}
    /\ pc = "execution" => \/ Primary \in rows
                           \/ executed = {} /\ Primary \in pending
                           \/ executed \subseteq {Primary} /\ pending = {}
    /\ pc \in {"contract", "summary"} => Primary \in rows

Course ==
    /\ ScoredRight
    /\ pc \in Decided \/ executed # {} => Clear
    /\ pc \in Begun \/ executed # {} => Primary \in checked
    /\ HelpApart
    /\ PrimaryFirst
    /\ NothingAfterPrimaryFailed

LEMMA CourseStep == TypeOK /\ Course /\ [Next]_vars => Course'
<1> SUFFICES ASSUME TypeOK, Course, [Next]_vars PROVE Course'
  OBVIOUS
<1> USE DEF Course, ScoredRight, HelpApart, PrimaryFirst, NothingAfterPrimaryFailed,
            Clear, Decided, Begun, Left
<1>1. CASE Begin \/ Retrieve \/ Help \/ SkipIntent \/ BlockDangerous \/ Ask
  BY <1>1 DEF Begin, Retrieve, Help, SkipIntent, BlockDangerous, Ask, Pass, Commit,
              facts, sqlVars
<1>2. CASE Classify \/ ExtractIntent \/ PlanClarification
  BY <1>2 DEF Classify, ExtractIntent, PlanClarification, Pass, sqlVars
<1>3. CASE Score
  BY <1>3 DEF Score, Bands, Pass, sqlVars
<1>4. CASE Proceed
  BY <1>4 DEF Proceed, MustAsk, facts, sqlVars
<1>5. CASE Draft \/ Compile \/ Uncompilable
  <2>1. UNCHANGED facts /\ UNCHANGED sqlVars /\ pc \in {"plan draft", "compilation"}
        /\ pc' \in {"compilation", "guardrails", "return"}
    BY <1>5 DEF Draft, Compile, Uncompilable, Pass, Commit
  <2>2. executed = {} /\ rows = {} /\ type # "chat_help" /\ Clear
    BY <2>1
  <2> QED BY <2>1, <2>2 DEF facts, sqlVars
<1>6. CASE Preflight
  <2>1. Primary \in Blocks
    BY DEF Blocks
  <2> QED BY <1>6, <2>1 DEF Preflight, Approved, Pass, Commit, facts
<1>7. ASSUME NEW b \in Blocks, RefuseBlock(b) PROVE Course'
  BY <1>7 DEF RefuseBlock, NextBlock, AfterFailure, facts
<1>8. ASSUME NEW b \in Blocks, ExecuteBlock(b) PROVE Course'
  <2>1. pc = "execution" /\ pc' = pc /\ UNCHANGED facts /\ checked' = checked
        /\ executed' = executed \cup {b}
    BY <1>8 DEF ExecuteBlock, NextBlock
  <2>2. type # "chat_help" /\ Clear /\ Primary \in checked
    BY <2>1
  <2>3. \/ Primary \in rows'
        \/ executed' \subseteq {Primary} /\ pending' = {}
    <3>1. CASE Primary \in rows
      BY <1>8, <3>1 DEF ExecuteBlock
    <3>2. CASE Primary \notin rows
      <4>1. b = Primary /\ executed = {}
        BY <1>8, <2>1, <3>2 DEF ExecuteBlock, NextBlock
      <4> QED BY <1>8, <4>1 DEF ExecuteBlock, AfterFailure
    <3> QED BY <3>1, <3>2
  <2> QED BY <2>1, <2>2, <2>3 DEF facts
<1>9. CASE ExecutionBlocked \/ Collect
  <2>1. UNCHANGED facts /\ UNCHANGED sqlVars /\ pc = "execution" /\ pending = {}
        /\ (pc' = "return" \/ (pc' = "contract" /\ Primary \in rows))
    BY <1>9 DEF ExecutionBlocked, Collect, Executed, Commit
  <2>2. type # "chat_help" /\ Clear /\ Primary \in checked
    BY <2>1
  <2> QED BY <2>1, <2>2 DEF facts, sqlVars
<1>10. CASE BuildAnswer \/ ContractBroken \/ Summarise
  <2>1. UNCHANGED facts /\ UNCHANGED sqlVars /\ pc \in {"contract", "summary"}
        /\ pc' \in {"summary", "return"}
    BY <1>10 DEF BuildAnswer, ContractBroken, Summarise, Pass, Commit
  <2>2. type # "chat_help" /\ Clear /\ Primary \in checked /\ Primary \in rows
    BY <2>1
  <2> QED BY <2>1, <2>2 DEF facts, sqlVars
<1>11. CASE Return \/ Answer \/ Respond \/ ModelUnavailable \/ Fail
  <2>1. UNCHANGED facts /\ UNCHANGED sqlVars /\ pc' \in {"answer", "reply", "done"}
    BY <1>11 DEF Return, Answer, Respond, ModelUnavailable, Fail, Rollback
  <2>2. executed = {} \/ (Clear /\ Primary \in checked)
    OBVIOUS
  <2> QED BY <2>1, <2>2 DEF facts, sqlVars
<1>12. CASE UNCHANGED vars
  BY <1>12 DEF vars, facts, sqlVars
<1> QED BY <1>1, <1>2, <1>3, <1>4, <1>5, <1>6, <1>7, <1>8, <1>9, <1>10, <1>11, <1>12
        DEF Next

\* The stages keep their gates: what lies behind the decision is clear, what lies
\* behind the preflight is checked, and the rows are there where they are used.
THEOREM CourseHolds == Spec => []Course
<1>1. Init => Course
  BY DEF Init, Course, ScoredRight, HelpApart, PrimaryFirst, NothingAfterPrimaryFailed,
         Clear, Decided, Begun, Left
<1> QED BY <1>1, CourseStep, TypeCorrect, PTL DEF Spec

\* SQL is executed only for a question that is harmless, clear, scored "high" and
\* whose primary block passed the preflight: run_query_workflow's gates.
THEOREM OnlyClearQuestionsAreRun == Spec => []OnlyClearQuestionsRun
<1>1. Course => OnlyClearQuestionsRun
  BY DEF Course, Clear, OnlyClearQuestionsRun
<1> QED BY <1>1, CourseHolds, PTL

\* execute_answer_plan executes nothing after its primary block has failed.
THEOREM PrimaryFailureStops == Spec => []NothingAfterPrimaryFailed
<1>1. Course => NothingAfterPrimaryFailed
  BY DEF Course
<1> QED BY <1>1, CourseHolds, PTL

-----------------------------------------------------------------------------
(* What is on record: every step goes on, settles the query, ends its trace, *)
(* answers or gives up                                                       *)

Quiet(record) == \A s \in Steps : record.events[s] # "running"

Complete(record) == \A s \in Steps : record.events[s] # "none" <=> s \in record.finished

Ready(record) == ~record.message /\ Quiet(record) /\ Complete(record)

\* Committed from within a step: only a blocked event may still lack its end.
Settled(record) ==
    /\ record.status \in Final
    /\ ~record.message
    /\ Quiet(record)
    /\ \A s \in Steps :
          /\ s \in record.finished => record.events[s] # "none"
          /\ record.events[s] # "none" /\ s \notin record.finished
                => record.events[s] = "blocked"

OnRecordAt ==
    /\ pc \notin Left => /\ db = Nothing
                         /\ response = "none"
                         /\ Ready(session)
    /\ pc \in {"contract", "summary"} => session.status = "success"
    /\ pc = "help" => type = "chat_help"
    /\ pc = "return" => response = "none" /\ session = db /\ Settled(db)
    /\ pc = "answer" => /\ response = "none"
                        /\ Settled(db)
                        /\ Ready(session)
                        /\ session.status = db.status
    /\ pc = "reply" => /\ response = "none"
                       /\ db.message
                       /\ Complete(db)
                       /\ Quiet(db)
                       /\ db.status \in Final
    /\ pc = "done" => /\ response = "503" => db = Nothing
                      /\ response = "200" => db.message
                      /\ db.message => Complete(db)
                      /\ Quiet(db)
                      /\ db.status \in Final \cup {"absent"}
    /\ SuccessHasRows

GoesOn ==
    /\ pc \notin Left
    /\ pc' \notin Left
    /\ db' = db
    /\ response' = response
    /\ Ready(session')
    /\ pc' \in {"contract", "summary"} => session'.status = "success"
    /\ pc' = "help" => type' = "chat_help"

Settles ==
    /\ pc \notin Left
    /\ pc' = "return"
    /\ response' = response
    /\ session' = db'
    /\ Settled(db')
    /\ SuccessHasRows'

GivesUp ==
    /\ pc # "done"
    /\ pc' = "done"
    /\ db' = db
    /\ \/ response' = "500"
       \/ response' = "503" /\ pc \notin Left
    /\ UNCHANGED <<type, executed, rows>>

LEMMA TracedReady ==
    ASSUME session \in Records, Ready(session), NEW step \in Steps,
           NEW outcome \in {"ok", "error", "blocked", "needs_input"}
    PROVE  /\ Ready(Traced(step, outcome))
           /\ Traced(step, outcome) \in Records
           /\ Traced(step, outcome).status = session.status
<1>1. Traced(step, outcome) \in Records
  BY TracedType
<1>2. /\ Traced(step, outcome).message = session.message
      /\ Traced(step, outcome).status = session.status
      /\ Traced(step, outcome).finished = session.finished \cup {step}
      /\ Traced(step, outcome).events = [session.events EXCEPT ![step] = outcome]
  BY DEF Traced, Records
<1>3. \A s \in Steps : Traced(step, outcome).events[s] =
                          IF s = step THEN outcome ELSE session.events[s]
  BY <1>2 DEF Records
<1> QED BY <1>1, <1>2, <1>3 DEF Ready, Quiet, Complete

LEMMA ReadySettled ==
    ASSUME NEW record \in Records, Ready(record), NEW st \in Final
    PROVE  Settled([record EXCEPT !.status = st])
BY DEF Ready, Settled, Quiet, Complete, Records

LEMMA InsideSettled ==
    ASSUME session \in Records, Ready(session), NEW step \in Steps
    PROVE  Settled(Inside(step)) /\ Inside(step).status = "blocked"
<1>1. /\ Inside(step).message = session.message
      /\ Inside(step).status = "blocked"
      /\ Inside(step).finished = session.finished
      /\ Inside(step).events = [session.events EXCEPT ![step] = "blocked"]
  BY DEF Inside, Records
<1>2. \A s \in Steps : Inside(step).events[s] =
                          IF s = step THEN "blocked" ELSE session.events[s]
  BY <1>1 DEF Records
<1> QED BY <1>1, <1>2 DEF Ready, Settled, Quiet, Complete, Final

LEMMA StepsAreSteps ==
    \A s \in {"retrieval", "classification", "intent", "clarification planning",
              "scoring", "asking", "plan draft", "compilation", "guardrails",
              "execution", "contract", "summary"} : s \in Steps
BY DEF Steps

LEMMA PassGoesOn ==
    ASSUME TypeOK, OnRecordAt, NEW step \in Steps, NEW next, Pass(step, next),
           step \notin Left, next \notin Left,
           next \in {"contract", "summary"} => step = "contract",
           next = "help" => type' = "chat_help"
    PROVE  GoesOn
<1>1. Ready(session) /\ session \in Records /\ pc = step /\ pc' = next
  BY DEF TypeOK, OnRecordAt, Pass
<1>2. Ready(session') /\ session'.status = session.status
  BY <1>1, TracedReady DEF Pass
<1> QED BY <1>1, <1>2 DEF GoesOn, Pass, OnRecordAt

\* A commit that does not report success needs no rows to show.
LEMMA CommitSettles ==
    ASSUME NEW record, Commit(record), pc \notin Left, Settled(record),
           record.status = "success" =>
               IF type' = "chat_help" THEN executed' = {} ELSE Primary \in rows'
    PROVE  Settles
BY DEF Commit, Settles, SuccessHasRows

LEMMA Kinds ==
    ASSUME TypeOK, Course, OnRecordAt, Next
    PROVE  GoesOn \/ Settles \/ Return \/ Answer \/ Respond \/ GivesUp
<1> USE StepsAreSteps DEF Left
<1>1. CASE Begin
  <2>1. Ready(session) /\ session \in Records /\ session' = [session EXCEPT !.status = "running"]
    BY <1>1 DEF Begin, TypeOK, OnRecordAt
  <2>2. Ready(session')
    BY <2>1 DEF Ready, Quiet, Complete, Records
  <2> QED BY <1>1, <2>2 DEF Begin, GoesOn
<1>2. CASE Retrieve
  BY <1>2, PassGoesOn DEF Retrieve
<1>3. CASE Classify
  <2>1. PICK t \in {"chat_help", "summarised", "plain"} :
           /\ type' = t
           /\ Pass("classification", IF t = "chat_help" THEN "help" ELSE "intent")
    BY <1>3 DEF Classify
  <2> QED BY <2>1, PassGoesOn
<1>4. CASE Help
  <2>1. Settled([session EXCEPT !.status = "success"])
    BY <1>4, ReadySettled DEF Help, TypeOK, OnRecordAt, Final
  <2>2. type' = "chat_help" /\ executed' = {}
    BY <1>4 DEF Help, OnRecordAt, Course, PrimaryFirst, facts, sqlVars
  <2> QED BY <1>4, <2>1, <2>2, CommitSettles DEF Help
<1>5. CASE SkipIntent
  BY <1>5 DEF SkipIntent, GoesOn, OnRecordAt
<1>6. CASE ExtractIntent
  BY <1>6, PassGoesOn DEF ExtractIntent
<1>7. CASE PlanClarification
  BY <1>7, PassGoesOn DEF PlanClarification
<1>8. CASE Score
  BY <1>8, PassGoesOn DEF Score
<1>9. CASE BlockDangerous
  <2>1. /\ Ready(Traced("guardrails", "blocked"))
        /\ Traced("guardrails", "blocked") \in Records
    BY <1>9, TracedReady DEF BlockDangerous, TypeOK, OnRecordAt
  <2>2. Settled([Traced("guardrails", "blocked") EXCEPT !.status = "blocked"])
    BY <2>1, ReadySettled DEF Final
  <2>3. [Traced("guardrails", "blocked") EXCEPT !.status = "blocked"].status = "blocked"
    BY <2>1 DEF Records
  <2> QED BY <1>9, <2>2, <2>3, CommitSettles DEF BlockDangerous
<1>10. CASE Ask
  <2>1. /\ Ready(Traced("asking", "needs_input"))
        /\ Traced("asking", "needs_input") \in Records
    BY <1>10, TracedReady DEF Ask, TypeOK, OnRecordAt
  <2>2. Settled([Traced("asking", "needs_input") EXCEPT !.status = "clarification_required"])
    BY <2>1, ReadySettled DEF Final
  <2>3. [Traced("asking", "needs_input") EXCEPT !.status = "clarification_required"].status
            = "clarification_required"
    BY <2>1 DEF Records
  <2> QED BY <1>10, <2>2, <2>3, CommitSettles DEF Ask
<1>11. CASE Proceed
  BY <1>11 DEF Proceed, GoesOn, OnRecordAt
<1>12. CASE Draft
  BY <1>12, PassGoesOn DEF Draft
<1>13. CASE Compile
  BY <1>13, PassGoesOn DEF Compile
<1>14. CASE Uncompilable
  <2>1. Ready(Traced(pc, "error")) /\ Traced(pc, "error") \in Records
    BY <1>14, TracedReady DEF Uncompilable, TypeOK, OnRecordAt
  <2>2. Settled([Traced(pc, "error") EXCEPT !.status = "blocked"])
    BY <2>1, ReadySettled DEF Final
  <2>3. [Traced(pc, "error") EXCEPT !.status = "blocked"].status = "blocked"
    BY <2>1 DEF Records
  <2> QED BY <1>14, <2>2, <2>3, CommitSettles DEF Uncompilable
<1>15. CASE Preflight
  <2>1. CASE Pass("guardrails", "execution")
    BY <2>1, PassGoesOn
  <2>2. CASE Commit(Inside("guardrails"))
    <3>1. Settled(Inside("guardrails")) /\ Inside("guardrails").status = "blocked"
      BY <1>15, InsideSettled DEF Preflight, TypeOK, OnRecordAt
    <3> QED BY <1>15, <2>2, <3>1, CommitSettles DEF Preflight
  <2> QED BY <1>15, <2>1, <2>2 DEF Preflight
<1>16. ASSUME NEW b \in Blocks, RefuseBlock(b) PROVE GoesOn
  BY <1>16 DEF RefuseBlock, NextBlock, GoesOn, OnRecordAt
<1>17. ASSUME NEW b \in Blocks, ExecuteBlock(b) PROVE GoesOn
  BY <1>17 DEF ExecuteBlock, NextBlock, GoesOn, OnRecordAt
<1>18. CASE ExecutionBlocked
  <2>1. Settled(Inside("execution")) /\ Inside("execution").status = "blocked"
    BY <1>18, InsideSettled DEF ExecutionBlocked, TypeOK, OnRecordAt
  <2> QED BY <1>18, <2>1, CommitSettles DEF ExecutionBlocked
<1>19. CASE Collect
  <2>1. Ready(Traced("execution", "ok")) /\ Traced("execution", "ok") \in Records
    BY <1>19, TracedReady DEF Collect, TypeOK, OnRecordAt
  <2>2. Ready(session') /\ session'.status = "success"
    BY <1>19, <2>1 DEF Collect, Ready, Quiet, Complete, Records
  <2> QED BY <1>19, <2>2 DEF Collect, OnRecord, GoesOn
<1>20. CASE BuildAnswer
  BY <1>20, PassGoesOn DEF BuildAnswer
<1>21. CASE ContractBroken
  <2>1. Settled(Inside("contract")) /\ Inside("contract").status = "blocked"
    BY <1>21, InsideSettled DEF ContractBroken, TypeOK, OnRecordAt
  <2> QED BY <1>21, <2>1, CommitSettles DEF ContractBroken
<1>22. CASE Summarise
  <2>1. /\ Ready(Traced("summary", "ok"))
        /\ Traced("summary", "ok").status = "success"
        /\ Traced("summary", "ok") \in Records
    BY <1>22, TracedReady DEF Summarise, TypeOK, OnRecordAt
  <2>2. Settled(Traced("summary", "ok"))
    BY <2>1 DEF Ready, Settled, Final, Complete
  <2>3. Primary \in rows' /\ type' # "chat_help"
    BY <1>22 DEF Summarise, Course, HelpApart, PrimaryFirst, facts, sqlVars
  <2> QED BY <1>22, <2>2, <2>3, CommitSettles DEF Summarise
<1>23. CASE ModelUnavailable
  BY <1>23 DEF ModelUnavailable, Rollback, ModelStages, GivesUp, facts, sqlVars
<1>24. CASE Fail
  BY <1>24 DEF Fail, Rollback, GivesUp, facts, sqlVars
<1> QED BY <1>1, <1>2, <1>3, <1>4, <1>5, <1>6, <1>7, <1>8, <1>9, <1>10, <1>11, <1>12,
           <1>13, <1>14, <1>15, <1>16, <1>17, <1>18, <1>19, <1>20, <1>21, <1>22,
           <1>23, <1>24 DEF Next

LEMMA OnRecordStep == TypeOK /\ Course /\ OnRecordAt /\ [Next]_vars => OnRecordAt'
<1> SUFFICES ASSUME TypeOK, Course, OnRecordAt, [Next]_vars PROVE OnRecordAt'
  OBVIOUS
<1>1. CASE GoesOn
  <2>1. db' = Nothing /\ response' = "none"
    BY <1>1 DEF GoesOn, OnRecordAt
  <2>2. SuccessHasRows'
    BY <2>1 DEF SuccessHasRows, Nothing
  <2> QED BY <1>1, <2>1, <2>2 DEF GoesOn, OnRecordAt, Left
<1>2. CASE Settles
  BY <1>2 DEF Settles, OnRecordAt, Left
<1>3. CASE Return
  <2>1. session = db /\ Settled(db) /\ session \in Records /\ response' = "none"
    BY <1>3 DEF Return, OnRecordAt, TypeOK
  <2>2. /\ session'.status = session.status
        /\ session'.message = session.message
        /\ session'.events = session.events
        /\ session'.finished = session.finished
                                 \cup {s \in Steps : session.events[s] = "blocked"}
    BY <1>3, <2>1 DEF Return, Records
  <2>3. Ready(session')
    BY <2>1, <2>2 DEF Settled, Ready, Quiet, Complete
  <2>4. db' = db /\ pc' = "answer" /\ SuccessHasRows'
    BY <1>3 DEF Return, OnRecordAt, SuccessHasRows, facts, sqlVars
  <2> QED BY <2>1, <2>2, <2>3, <2>4 DEF OnRecordAt, Left
<1>4. CASE Answer
  <2>1. Settled(db) /\ Ready(session) /\ session.status = db.status /\ session \in Records
    BY <1>4 DEF Answer, OnRecordAt, TypeOK
  <2>2. /\ db'.message /\ db'.status = db.status
        /\ db'.events = session.events /\ db'.finished = session.finished
    BY <1>4, <2>1 DEF Answer, Records
  <2>3. Complete(db') /\ Quiet(db')
    BY <2>1, <2>2 DEF Ready, Complete, Quiet
  <2>4. SuccessHasRows'
    BY <1>4, <2>2 DEF Answer, OnRecordAt, SuccessHasRows, facts, sqlVars
  <2> QED BY <1>4, <2>1, <2>2, <2>3, <2>4 DEF Answer, OnRecordAt, Left, Settled
<1>5. CASE GivesUp
  <2>1. /\ db.message => Complete(db)
        /\ Quiet(db)
        /\ db.status \in Final \cup {"absent"}
    BY <1>5 DEF GivesUp, OnRecordAt, Left, Settled, Nothing, Quiet, TypeOK, Stages
  <2>2. SuccessHasRows'
    BY <1>5 DEF GivesUp, OnRecordAt, SuccessHasRows
  <2>3. response' = "503" => db' = Nothing
    BY <1>5 DEF GivesUp, OnRecordAt
  <2> QED BY <1>5, <2>1, <2>2, <2>3 DEF GivesUp, OnRecordAt, Left, Quiet
<1>6. CASE Respond \/ UNCHANGED vars
  BY <1>6 DEF Respond, vars, facts, sqlVars, OnRecordAt, SuccessHasRows, Left
<1> QED BY <1>1, <1>2, <1>3, <1>4, <1>5, <1>6, Kinds

\* At each stage the session and the committed rows are as far apart as the two
\* commits allow: nothing before the first, the trace's last event between them.
THEOREM OnRecordHolds == Spec => []OnRecordAt
<1>1. Init => OnRecordAt
  BY DEF Init, OnRecordAt, Left, Ready, Quiet, Complete, Nothing, SuccessHasRows
<1> QED BY <1>1, OnRecordStep, TypeCorrect, CourseHolds, PTL DEF Spec

\* What others read is final: no commit of the workflow or of the endpoint, and no
\* failure between the two, leaves a running query or a running step.
THEOREM OnlyFinalOnRecord == Spec => []FinalOnRecord
<1>1. TypeOK /\ OnRecordAt => FinalOnRecord
  BY DEF OnRecordAt, FinalOnRecord, Left, Nothing, Settled, Quiet, Final, TypeOK, Stages
<1> QED BY <1>1, TypeCorrect, OnRecordHolds, PTL

\* "success" on record means that the primary block has its rows, or that the user
\* asked for help.
THEOREM SuccessesHaveRows == Spec => []SuccessHasRows
<1>1. OnRecordAt => SuccessHasRows
  BY DEF OnRecordAt
<1> QED BY <1>1, OnRecordHolds, PTL

\* A 503 leaves nothing behind: models are asked only before the first commit.
THEOREM UnavailabilityIsClean == Spec => []UnavailableLeavesNothing
<1>1. TypeOK /\ OnRecordAt => UnavailableLeavesNothing
  BY DEF OnRecordAt, UnavailableLeavesNothing, Left, TypeOK, Stages
<1> QED BY <1>1, TypeCorrect, OnRecordHolds, PTL

\* Whoever was told 200 finds the answer, and an answer in the chat is a whole one: a
\* request may fail after its commit (send_message in app/api.py), but not by half.
THEOREM AnswersAreTraced == Spec => []AnsweredIsTraced
<1>1. TypeOK /\ OnRecordAt => AnsweredIsTraced
  BY DEF OnRecordAt, AnsweredIsTraced, Left, Nothing, Settled, Complete, TypeOK, Stages
<1> QED BY <1>1, TypeCorrect, OnRecordHolds, PTL

\* The workflow and its endpoint implement the life of a query: one settlement,
\* never revised by the request, and then perhaps the answer.
THEOREM WorkflowImplementsLife == Spec => ImplementsLife
<1>1. Init => Life!Init
  BY DEF Init, Life!Init, Nothing
<1>2. TypeOK /\ Course /\ OnRecordAt /\ [Next]_vars => [Life!Next]_Life!vars
  <2> SUFFICES ASSUME TypeOK, Course, OnRecordAt, [Next]_vars
               PROVE  [Life!Next]_Life!vars
    OBVIOUS
  <2> USE DEF Life!Next, Life!vars
  <2>1. CASE GoesOn \/ Return \/ Respond \/ GivesUp \/ UNCHANGED vars
    BY <2>1 DEF GoesOn, Return, Respond, GivesUp, vars
  <2>2. CASE Settles
    <3>1. db.status = "absent" /\ db.message = FALSE
      BY <2>2 DEF Settles, OnRecordAt, Nothing
    <3>2. db'.status \in Final /\ db'.message = FALSE
      <4>1. db' \in Records
        BY TypeStep DEF TypeOK
      <4> QED BY <2>2, <4>1 DEF Settles, Settled, Records
    <3> QED BY <3>1, <3>2 DEF Life!Settle, Life!Final, Final
  <2>3. CASE Answer
    <3>1. Settled(db) /\ session.status = db.status /\ session \in Records
      BY <2>3 DEF Answer, OnRecordAt, TypeOK
    <3>2. db'.message = TRUE /\ db'.status = db.status
      BY <2>3, <3>1 DEF Answer, Records
    <3> QED BY <3>1, <3>2 DEF Settled, Life!Reply, Life!Final, Final
  <2> QED BY <2>1, <2>2, <2>3, Kinds
<1> QED BY <1>1, <1>2, TypeCorrect, CourseHolds, OnRecordHolds, PTL
        DEF Spec, ImplementsLife, Life!Spec

-----------------------------------------------------------------------------
(* The calls only decide when a stage goes on, and with what *)

LEMMA CallStep == [CallNext]_callVars => [Next]_vars
<1> SUFFICES ASSUME [CallNext]_callVars PROVE [Next]_vars
  OBVIOUS
<1>1. CASE Call \/ AskRules \/ FallBack
  BY <1>1 DEF Call, AskRules, FallBack
<1>2. CASE GiveUp
  BY <1>2 DEF GiveUp, Next
<1>3. CASE ClassifyHeard
  BY <1>3 DEF ClassifyHeard, Next
<1>4. CASE SkipHeard
  BY <1>4 DEF SkipHeard, Next
<1>5. CASE ExtractHeard
  BY <1>5 DEF ExtractHeard, Next
<1>6. CASE ClarifyHeard
  BY <1>6 DEF ClarifyHeard, Next
<1>7. CASE DraftHeard
  BY <1>7 DEF DraftHeard, Next
<1>8. CASE SummariseHeard
  BY <1>8 DEF SummariseHeard, Next
<1>9. CASE FailHeard
  BY <1>9 DEF FailHeard, Next
<1>10. CASE Rest
  BY <1>10 DEF Rest, Next
<1>11. CASE UNCHANGED callVars
  BY <1>11 DEF callVars
<1> QED
  BY <1>1, <1>2, <1>3, <1>4, <1>5, <1>6, <1>7, <1>8, <1>9, <1>10, <1>11 DEF CallNext

\* The workflow with its calls is a workflow: whatever the configuration and the
\* models do, a request takes the stages, the commits and the ways out of
\* run_query_workflow (app/ai/orchestrator.py) and no others.
THEOREM CallsImplementWorkflow == CallSpec => Spec
<1>1. CallInit => Init
  BY DEF CallInit
<1> QED
  BY <1>1, CallStep, PTL DEF CallSpec, Spec

\* No matter who answers its stages, a question runs SQL only when it is harmless,
\* clear and of high confidence.
THEOREM CallsRunClearQuestionsOnly == CallSpec => []OnlyClearQuestionsRun
BY CallsImplementWorkflow, OnlyClearQuestionsAreRun, PTL

\* Nor does a model that gives up leave a running query or step on record.
THEOREM CallsLeaveFinal == CallSpec => []FinalOnRecord
BY CallsImplementWorkflow, OnlyFinalOnRecord, PTL

\* And to everybody else a question keeps the abstract life of a query.
THEOREM CallsImplementLife == CallSpec => ImplementsLife
BY CallsImplementWorkflow, WorkflowImplementsLife, PTL

-----------------------------------------------------------------------------
(* Types *)

LEMMA SettingsType ==
    ASSUME NEW s \in Settings
    PROVE  /\ Attempts(s) \in Nat
           /\ Attempts(s) > 0 => s.provider \in Http
           /\ s.retries \in Nat
BY RetriesAssumption DEF Settings, AllSettings, Attempts

LEMMA HeardType ==
    ASSUME CallTypeOK, NEW stage \in Callers, Heard(stage), Noted(stage)
    PROVE  /\ settings' \in Settings /\ attempt' \in 0..Attempts(settings')
           /\ reply' \in Authors
           /\ telemetry' \in [Callers -> Authors] /\ heard' \in [Callers -> Authors]
BY SettingsType DEF CallTypeOK, Heard, Noted, Authors

LEMMA RuleIntentsType == RuleIntents \subseteq Intents
<1> SUFFICES ASSUME NEW w \in SUBSET Words
             PROVE  [named |-> RuleMetric(w) # "none", ambiguous |-> LeftOpen(w)] \in Intents
  BY DEF RuleIntents
<1>1. LeftOpen(w) \in BOOLEAN
  BY DEF LeftOpen
<1>2. (RuleMetric(w) # "none") \in BOOLEAN
  OBVIOUS
<1> QED
  BY <1>1, <1>2 DEF Intents

LEMMA CallTypeStep == CallTypeOK /\ [CallNext]_callVars => CallTypeOK'
<1> SUFFICES ASSUME CallTypeOK, [CallNext]_callVars PROVE CallTypeOK'
  OBVIOUS
<1> USE DEF CallTypeOK
<1>0. Attempts(settings) \in Nat
  BY SettingsType
<1>1. CASE Call
  BY <1>0, <1>1 DEF Call, told, Authors
<1>2. CASE AskRules \/ FallBack
  BY <1>2 DEF AskRules, FallBack, told, Authors
<1>3. CASE GiveUp \/ FailHeard \/ (Rest /\ UNCHANGED <<gateway, told>>)
  BY <1>3 DEF GiveUp, FailHeard, gateway, told
<1>4. CASE ClassifyHeard
  <2>1. Heard("classification") /\ Noted("classification") /\ read' \in BOOLEAN /\ intent' = intent
    BY <1>4 DEF ClassifyHeard
  <2>2. "classification" \in Callers
    BY DEF Callers, ModelStages
  <2> QED
    BY <2>1, <2>2, HeardType
<1>5. CASE SkipHeard
  BY <1>5 DEF SkipHeard, gateway
<1>6. CASE ExtractHeard
  <2>1. intent' \in Intents
    BY <1>6, RuleIntentsType DEF ExtractHeard
  <2>2. Heard("intent") /\ Noted("intent") /\ read' \in BOOLEAN
    BY <1>6 DEF ExtractHeard
  <2>3. "intent" \in Callers
    BY DEF Callers, ModelStages
  <2>4. /\ settings' \in Settings /\ attempt' \in 0..Attempts(settings')
        /\ reply' \in Authors
        /\ telemetry' \in [Callers -> Authors] /\ heard' \in [Callers -> Authors]
    BY <2>2, <2>3, HeardType
  <2> QED
    BY <2>1, <2>2, <2>4
<1>7. CASE ClarifyHeard
  <2>1. "clarification planning" \in Callers
    BY DEF Callers, ModelStages
  <2>2. reply \in Authors /\ telemetry \in [Callers -> Authors] /\ heard \in [Callers -> Authors]
    OBVIOUS
  <2>3. telemetry' \in [Callers -> Authors] /\ heard' \in [Callers -> Authors]
    BY ONLY <1>7, <2>1, <2>2 DEF ClarifyHeard, Kept, Authors
  <2>4. settings' = settings /\ attempt' = 0 /\ reply' = "none"
    BY <1>7 DEF ClarifyHeard
  <2>5. intent' = intent /\ read' = read
    BY <1>7 DEF ClarifyHeard
  <2>6. attempt' \in 0..Attempts(settings')
    BY <1>0, <2>4
  <2>7. reply' \in Authors
    BY <2>4 DEF Authors
  <2> QED
    BY <2>3, <2>4, <2>5, <2>6, <2>7
<1>8. CASE DraftHeard
  <2>1. Heard("plan draft") /\ Noted("plan draft") /\ read' \in BOOLEAN /\ intent' = intent
    BY <1>8 DEF DraftHeard
  <2>2. "plan draft" \in Callers
    BY DEF Callers, ModelStages
  <2> QED
    BY <2>1, <2>2, HeardType
<1>9. CASE SummariseHeard
  <2>1. "summary" \in Callers
    BY DEF Callers
  <2>2. CASE type = "summarised"
    <3>1. Heard("summary") /\ Noted("summary") /\ read' = read /\ intent' = intent
      BY <1>9, <2>2 DEF SummariseHeard
    <3> QED
      BY <2>1, <3>1, HeardType
  <2>3. CASE type # "summarised"
    BY <1>9, <2>3 DEF SummariseHeard, gateway
  <2> QED
    BY <2>2, <2>3
<1>10. CASE UNCHANGED callVars
  BY <1>10 DEF callVars, gateway, told
<1> QED
  BY <1>1, <1>2, <1>3, <1>4, <1>5, <1>6, <1>7, <1>8, <1>9, <1>10 DEF CallNext

\* Every variable of the calls keeps its type, for any bound on the retries.
THEOREM CallTypeCorrect == CallSpec => []CallTypeOK
<1>1. CallInit => CallTypeOK
  <2> SUFFICES ASSUME CallInit PROVE CallTypeOK
    OBVIOUS
  <2>1. settings \in Settings /\ attempt \in 0..Attempts(settings) /\ reply \in Authors
    BY SettingsType DEF CallInit, Authors
  <2>2. intent \in Intents /\ read \in BOOLEAN
    BY DEF CallInit, Intents
  <2>3. telemetry \in [Callers -> Authors] /\ heard \in [Callers -> Authors]
    BY DEF CallInit, Authors
  <2> QED
    BY <2>1, <2>2, <2>3 DEF CallTypeOK
<1> QED
  BY <1>1, CallTypeStep, PTL DEF CallSpec

-----------------------------------------------------------------------------
(* Who answered *)

ReadBy == {"classification", "intent", "plan draft"}

\* What is noted is what was heard, what was heard may be, and the interpretation's
\* author is among those that stay noted.
Told ==
    /\ heard = telemetry
    /\ reply = "rules" => FallbackAllowed(settings)
    /\ reply = "model" => settings.provider \in Http
    /\ \A c \in Callers : telemetry[c] = "rules" => FallbackAllowed(settings)
    /\ \A c \in Callers : telemetry[c] = "model" => settings.provider \in Http
    /\ read => \E c \in ReadBy : telemetry[c] = "rules"

LEMMA StagesCall == ReadBy \subseteq Callers /\ "clarification planning" \in Callers
                    /\ "summary" \in Callers
BY DEF ReadBy, Callers, ModelStages

\* A stage that notes whom it heard, and reads the interpretation anew if it does
LEMMA NotedTold ==
    ASSUME CallTypeOK, Told, NEW stage \in Callers, Heard(stage), Noted(stage),
           \/ stage \in ReadBy /\ (read' => reply = "rules")
           \/ stage \notin ReadBy /\ read' = read
    PROVE  Told'
<1>1. settings' = settings /\ reply' = "none"
  BY DEF Heard
<1>2. heard' = telemetry' /\ telemetry' = [telemetry EXCEPT ![stage] = reply]
  BY DEF Heard, Noted, Told
<1>3. telemetry \in [Callers -> Authors]
  BY DEF CallTypeOK
<1>4. \A c \in Callers : telemetry'[c] = IF c = stage THEN reply ELSE telemetry[c]
  BY <1>2, <1>3
<1>5. /\ \A c \in Callers : telemetry'[c] = "rules" => FallbackAllowed(settings)
      /\ \A c \in Callers : telemetry'[c] = "model" => settings.provider \in Http
  BY <1>4 DEF Told
<1>6. read' => \E c \in ReadBy : telemetry'[c] = "rules"
  <2>1. CASE stage \in ReadBy /\ (read' => reply = "rules")
    BY <1>4, <2>1
  <2>2. CASE stage \notin ReadBy /\ read' = read
    BY <1>4, <2>2, StagesCall DEF Told
  <2> QED
    BY <2>1, <2>2
<1> QED
  BY <1>1, <1>2, <1>5, <1>6 DEF Told, FallbackAllowed

LEMMA ToldStep == CallTypeOK /\ Told /\ [CallNext]_callVars => Told'
<1> SUFFICES ASSUME CallTypeOK, Told, [CallNext]_callVars PROVE Told'
  OBVIOUS
<1>0. settings \in Settings
  BY DEF CallTypeOK
<1>1. CASE Call
  <2>1. settings.provider \in Http
    BY <1>0, <1>1, SettingsType DEF Call, CallTypeOK
  <2> QED
    BY <1>1, <2>1 DEF Call, told, Told
<1>2. CASE AskRules
  <2>1. FallbackAllowed(settings)
    BY <1>0, <1>2 DEF AskRules, Settings
  <2> QED
    BY <1>2, <2>1 DEF AskRules, told, Told
<1>3. CASE FallBack
  <2>1. FallbackAllowed(settings)
    BY <1>3 DEF FallBack, RulesFor
  <2> QED
    BY <1>3, <2>1 DEF FallBack, told, Told
<1>4. CASE GiveUp \/ FailHeard \/ (Rest /\ UNCHANGED <<gateway, told>>)
  BY <1>4 DEF GiveUp, FailHeard, gateway, told, Told
<1>5. CASE ClassifyHeard
  <2>1. "classification" \in ReadBy /\ Heard("classification") /\ Noted("classification")
        /\ (read' => reply = "rules")
    BY <1>5 DEF ClassifyHeard, ReadBy
  <2> QED
    BY <2>1, NotedTold, StagesCall
<1>6. CASE SkipHeard
  BY <1>6 DEF SkipHeard, gateway, Told
<1>7. CASE ExtractHeard
  <2>1. "intent" \in ReadBy /\ Heard("intent") /\ Noted("intent") /\ (read' => reply = "rules")
    BY <1>7 DEF ExtractHeard, ReadBy
  <2> QED
    BY <2>1, NotedTold, StagesCall
<1>8. CASE ClarifyHeard
  <2> DEFINE stage == "clarification planning"
  <2>1. stage \in Callers /\ stage \notin ReadBy
    BY StagesCall DEF ReadBy
  <2>2. /\ heard' = IF needed' THEN [heard EXCEPT ![stage] = reply] ELSE heard
        /\ telemetry' = IF needed' THEN [telemetry EXCEPT ![stage] = reply] ELSE telemetry
        /\ settings' = settings /\ reply' = "none" /\ read' = read
    BY <1>8 DEF ClarifyHeard, Kept
  <2>3. CASE needed'
    <3>1. Noted(stage) /\ heard' = [heard EXCEPT ![stage] = reply]
      BY <2>2, <2>3 DEF Noted
    <3>2. Heard(stage)
      BY <1>8, <3>1 DEF ClarifyHeard, Heard
    <3> QED
      BY <2>1, <2>2, <3>1, <3>2, NotedTold
  <2>4. CASE ~needed'
    BY <2>2, <2>4 DEF Told
  <2> QED
    BY <2>3, <2>4
<1>9. CASE DraftHeard
  <2>1. "plan draft" \in ReadBy /\ Heard("plan draft") /\ Noted("plan draft")
        /\ (read' => reply = "rules")
    BY <1>9 DEF DraftHeard, ReadBy
  <2> QED
    BY <2>1, NotedTold, StagesCall
<1>10. CASE SummariseHeard
  <2>1. CASE type = "summarised"
    <3>1. "summary" \notin ReadBy /\ Heard("summary") /\ Noted("summary") /\ read' = read
      BY <1>10, <2>1 DEF SummariseHeard, ReadBy
    <3> QED
      BY <3>1, NotedTold, StagesCall
  <2>2. CASE type # "summarised"
    BY <1>10, <2>2 DEF SummariseHeard, gateway, Told
  <2> QED
    BY <2>1, <2>2
<1>11. CASE UNCHANGED callVars
  BY <1>11 DEF callVars, gateway, told, Told
<1> QED
  BY <1>1, <1>2, <1>3, <1>4, <1>5, <1>6, <1>7, <1>8, <1>9, <1>10, <1>11 DEF CallNext

LEMMA ToldHolds == CallSpec => [](CallTypeOK /\ Told)
<1>1. CallInit => Told
  BY DEF CallInit, Told
<1>2. CallTypeOK /\ Told /\ [CallNext]_callVars => Told'
  BY ToldStep
<1> QED
  BY <1>1, <1>2, CallTypeCorrect, PTL DEF CallSpec

\* Under every configuration, and however its calls go, an answered question shows
\* exactly who it was answered by (_query_ai_telemetry in app/api.py).
THEOREM RulesAreShown == CallSpec => []RulesShow
<1>1. CallTypeOK /\ Told => RulesShow
  <2> SUFFICES ASSUME CallTypeOK, Told PROVE RulesShow
    OBVIOUS
  <2>1. FallbackShown <=> \E c \in Callers : heard[c] = "rules"
    BY DEF FallbackShown, Told
  <2>2. ModelShown <=> \E c \in Callers : heard[c] = "model"
    BY DEF ModelShown, Told
  <2>3. ModelShown => ProviderShown \in Http
    BY DEF ModelShown, ProviderShown, Told
  <2>4. read => FallbackShown
    BY StagesCall DEF FallbackShown, Told
  <2>5. FallbackShown => ~settings.strict /\ settings.rules /\ settings.env # "demo"
    BY DEF FallbackShown, Told, FallbackAllowed
  <2> QED
    BY <2>1, <2>2, <2>3, <2>4, <2>5 DEF RulesShow
<1> QED
  BY <1>1, ToldHolds, PTL

-----------------------------------------------------------------------------
(* Unavailability *)

\* A 503 ends the request where the calls of its last stage left it.
Unavailable ==
    response = "503" =>
        /\ pc = "done"
        /\ attempt = Attempts(settings)
        /\ ~FallbackAllowed(settings) \/ settings.provider = "other"

\* Nothing happens to a request that is done.
LEMMA DoneIsDone == CallNext => pc # "done"
<1>1. ASSUME NEW step, NEW next, Pass(step, next), step # "done" PROVE pc # "done"
  BY <1>1 DEF Pass
<1>2. Asking => pc # "done"
  BY DEF Asking, ModelStages
<1>3. Call \/ AskRules \/ FallBack \/ GiveUp => pc # "done"
  BY <1>2 DEF Call, AskRules, FallBack, GiveUp, Failed
<1>4. ClassifyHeard \/ SkipHeard \/ ExtractHeard \/ ClarifyHeard => pc # "done"
  BY <1>1 DEF ClassifyHeard, SkipHeard, ExtractHeard, ClarifyHeard, Classify, SkipIntent,
              ExtractIntent, PlanClarification
<1>5. DraftHeard \/ SummariseHeard \/ FailHeard => pc # "done"
  BY <1>1 DEF DraftHeard, SummariseHeard, FailHeard, Draft, Summarise, Fail
<1>6. Rest => pc # "done"
  BY <1>1 DEF Rest, Begin, Retrieve, Help, Score, BlockDangerous, Ask, Proceed, Compile,
              Preflight, RefuseBlock, ExecuteBlock, NextBlock, ExecutionBlocked, Collect,
              BuildAnswer, ContractBroken, Return, Answer, Respond
<1> QED
  BY <1>3, <1>4, <1>5, <1>6 DEF CallNext


\* Only a stage that gave up answers 503.
LEMMA OnlyGivingUp ==
    ASSUME CallNext, response' = "503", response # "503" PROVE GiveUp
<1>1. ASSUME NEW step, NEW next, Pass(step, next) PROVE response' = response
  BY <1>1 DEF Pass
<1>2. ASSUME NEW record, Commit(record) PROVE response' = response
  BY <1>2 DEF Commit
<1>3. CASE Call \/ AskRules \/ FallBack
  BY <1>3 DEF Call, AskRules, FallBack, vars
<1>4. CASE ClassifyHeard \/ SkipHeard \/ ExtractHeard \/ ClarifyHeard
  BY <1>1, <1>4 DEF ClassifyHeard, SkipHeard, ExtractHeard, ClarifyHeard, Classify,
                    SkipIntent, ExtractIntent, PlanClarification
<1>5. CASE DraftHeard \/ SummariseHeard
  BY <1>1, <1>2, <1>5 DEF DraftHeard, SummariseHeard, Draft, Summarise
<1>6. CASE FailHeard
  BY <1>6 DEF FailHeard, Fail, Rollback
<1>7. CASE Rest
  <2>1. CASE Begin \/ Retrieve \/ Help \/ Score \/ BlockDangerous \/ Ask \/ Proceed
    BY <1>1, <1>2, <2>1 DEF Begin, Retrieve, Help, Score, BlockDangerous, Ask, Proceed
  <2>2. CASE Compile \/ (pc = "compilation" /\ Uncompilable) \/ Preflight
    BY <1>1, <1>2, <2>2 DEF Compile, Uncompilable, Preflight
  <2>3. CASE \E b \in Blocks : RefuseBlock(b) \/ ExecuteBlock(b)
    BY <2>3 DEF RefuseBlock, ExecuteBlock
  <2>4. CASE ExecutionBlocked \/ Collect \/ BuildAnswer \/ ContractBroken
    BY <1>1, <1>2, <2>4 DEF ExecutionBlocked, Collect, BuildAnswer, ContractBroken
  <2>5. CASE Return \/ Answer \/ Respond
    BY <2>5 DEF Return, Answer, Respond
  <2> QED
    BY <1>7, <2>1, <2>2, <2>3, <2>4, <2>5 DEF Rest
<1> QED
  BY <1>3, <1>4, <1>5, <1>6, <1>7 DEF CallNext

LEMMA UnavailableStep == CallTypeOK /\ Unavailable /\ [CallNext]_callVars => Unavailable'
<1> SUFFICES ASSUME CallTypeOK, Unavailable, [CallNext]_callVars, response' = "503"
             PROVE  /\ pc' = "done"
                    /\ attempt' = Attempts(settings')
                    /\ ~FallbackAllowed(settings') \/ settings'.provider = "other"
  BY DEF Unavailable
<1>1. CASE UNCHANGED callVars
  BY <1>1 DEF Unavailable, callVars, vars, gateway
<1>2. CASE CallNext
  <2>1. response # "503"
    BY <1>2, DoneIsDone DEF Unavailable
  <2>2. GiveUp
    BY <1>2, <2>1, OnlyGivingUp
  <2>3. pc' = "done" /\ settings' = settings /\ attempt' = attempt
    BY <2>2 DEF GiveUp, ModelUnavailable, Rollback, gateway
  <2>4. attempt = Attempts(settings)
    BY <2>2 DEF GiveUp, Failed
  <2>5. ~FallbackAllowed(settings) \/ settings.provider = "other"
    BY <2>2 DEF GiveUp, RulesFor, Unconfigured, FallbackAllowed
  <2> QED
    BY <2>3, <2>4, <2>5
<1> QED
  BY <1>1, <1>2

\* No configuration that has rules to go by, and no number of attempts, lets a request
\* end with 503 (_run_query_workflow_or_503 in app/api.py) unless nobody could be
\* asked: the provider is of a name _primary_provider does not know.
THEOREM UnavailabilityHasACause == CallSpec => []UnavailableHasACause
<1>1. CallInit => Unavailable
  BY DEF CallInit, Init, Unavailable
<1>2. CallTypeOK /\ Unavailable /\ [CallNext]_callVars => Unavailable'
  BY UnavailableStep
<1>3. Unavailable => UnavailableHasACause
  BY DEF Unavailable, UnavailableHasACause
<1> QED
  BY <1>1, <1>2, <1>3, CallTypeCorrect, PTL DEF CallSpec

=============================================================================
