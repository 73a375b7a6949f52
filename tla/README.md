# Verification of the Tolmach backend

TLA+ models of the Tolmach analytics service (`src/backend`, FastAPI with two
PostgreSQL databases; `src/frontend`, React), the TLC runs that check them and
the theorems that the TLA+ proof system checks. References such as
`reports/scheduler.py:341` are to `src/backend/app/`.

Sections: 1 the system, 2 the modules and how they correspond to the code,
3 the properties, 4 the runs, 5 the theorems, 6 what the code turned out to do,
7 what is not modelled, 8 what is left.

## 1. The system

Every API request and every step of the scheduler is a transaction of its own on
the platform database. There is no message bus and no in-process sharing;
components meet in rows. The browser meets the server in answers that may
overtake each other.

| Component | State it keeps | Operations | Model |
|---|---|---|---|
| **Report scheduler** `reports/scheduler.py`, `reports/service.py`, `reports/delivery.py`, `scheduler_worker.py`, endpoints of `api.py` | rows of `schedules`, `schedule_runs`, `report_recipients`, `report_deliveries`, `reports`, `report_versions` | poll, enqueue due schedules, claim runs, execute, retry, deliver; run now, toggle, patch, share | `ReportScheduler`, `ReportEdits`, `NextRunAt` |
| **Worker heartbeat** `reports/worker_runtime.py`, `worker_health_cli.py`, `wait_for_db.py` | one row per worker name | wait, record, probe | `Heartbeat` |
| **Query workflow** `ai/orchestrator.py`, `ai/answer_strategy.py` | `queries`, `query_events`, `query_clarifications` | interpret, score, plan, validate, execute, answer | `QueryWorkflow`, `QuestionCalls` |
| **LLM gateway** `ai/gateway/`, `config.py`, `ai/answer_classifier.py` | settings | ask with retries, fall back on rules | `ModelCalls`, `QuestionCalls` |
| **Query execution and cache** `query_execution/` | `query_result_cache`, `query_execution_audit` | prune, look up, touch, read, upsert | `ResultCache` |
| **Chats and queries API** `api.py` | `chats`, `messages`, `queries` | run, send, clarify, delete | `ChatThreads` |
| **Analytics page** `useAnalyticsFlow.ts`, `App.tsx` | selected chat, messages, list, flags, `localStorage` | hydrate, open, ask, create, delete | `ChatFlow` |
| **Sessions** `auth.py` | `refresh_tokens`, cookies | register, login, resolve, logout | `Sessions` |
| **Planner, compiler, SQL validation** `semantic/planner.py`, `compiler.py`, `sql_validator.py`, `ai/answer_strategy.py` | none | functions of a catalogue loaded once | `GovernedPlans` |
| **Semantic catalogue** `semantic/service.py`, `repository.py` | catalogue rows, no foreign keys between them | create, update, delete | `SemanticCatalogue`, `CatalogueQuestions` |
| Report artifacts, retrieval, answer composition, bootstrap, pages | files, caches, seeds, views | | not modelled, section 7 |

What is hard about each, and what makes it correct:

* **Scheduler.** Several workers poll without coordination other than row locks;
  API requests insert runs and edit schedules meanwhile; a claim is committed
  before the run is executed; mail is sent before the transaction that records
  it commits. *Correct*: a run is held by one process at a time; scheduled runs
  do not overlap; no recipient row gets two mails of one run; the rows tell the truth
  about the mails; retries are counted and bounded; an active schedule keeps a
  due time; runs end and due schedules get their turn.
* **Report edits.** Read, decide, commit, with no constraint behind it: what one
  request decides on may have changed. *Correct*: only requests that overlap
  duplicate a destination or a version number; a run executes other content than
  the report shows only when an edit slipped in beside it.
* **Heartbeat.** Written between cycles only, and nothing bounds a cycle.
  *Correct*: a worker with recorded heartbeats looks stale in nothing but an
  overlong cycle, and nothing but its death ends its loop.
* **Workflow and its models.** Two commits per request, a failure possible anywhere,
  behind the last commit too, and at each stage a model or rules that stand in for
  one. *Correct*: SQL is executed behind all of the gates only; what is on record is
  final; success has rows; a 503 leaves nothing behind and has a cause; the response
  says who answered.
* **Query cache.** Statements of one transaction lock rows in an order that another
  may not share. *Correct*: what was served had not expired when it was found; a
  request that is alone never fails on the cache; every request ends.
* **Chats.** Questions, clarifications and deletions of one chat overlap.
  *Correct*: threads are whole, clients were told the truth, requests end.
* **Analytics page.** Answers arrive in any order, the list of chats may fail to
  load. *Correct*: it finds back to the chat that is selected.
* **Sessions.** Logout races requests, cookies precede commits. *Correct*: a
  confirmed logout holds; a cookie has a record.
* **Catalogue and planner.** Rows name each other without foreign keys, by keys that
  one of them stores otherwise than it checks them; their expressions are free text;
  a question loads them in two statements. *Correct*: references dangle, and faultless
  drafts are refused, for a known cause only; the blocks of an answer are about
  the same rows; nothing runs beyond the policies.

`PROJECT.json` lists the components, what covers them, and the hazards at their
lines.

## 2. Modules

| Module | What it is |
|---|---|
| `ReportScheduler` | workers, requests and the tables they share |
| `RunLifecycle` | abstract: what a reader of `schedule_runs` may see of a run |
| `NextRunAt` | the calendar of schedules, and what `next_run_at` is to return |
| `ReportEdits` | sharing, recipients, versions, and what a run takes from them |
| `Heartbeat` | start, heartbeats and loop of workers, and the health probe |
| `QueryWorkflow` | one question: the stages, the commits, the endpoint around them |
| `QueryLife` | abstract: what others may see of a query that is being worked on |
| `ModelCalls` | who may answer a stage: configuration, providers, rules |
| `QuestionCalls` | `QueryWorkflow` composed with the calls of its stages |
| `ResultCache` | transactions over `query_result_cache` |
| `ChatThreads` | requests on chats, messages and queries |
| `ChatFlow` | the page, its effect and its requests under way |
| `Sessions` | accounts, tokens and the cookie jar of one browser |
| `GovernedPlans` | from a draft to blocks, their SQL and its validation, as operators |
| `SemanticCatalogue` | administration, statement by statement |
| `CatalogueQuestions` | both: questions while the catalogue is administered |
| `MCReportScheduler`, `MCReportEdits`, `MCCatalogueQuestions` | small instances for TLC |
| `ReportSchedulerProofs` | one holder per run, scheduled runs start alone, due times, mails, attempts, refinement of `RunLifecycle`, orphans |
| `ReportProofs` | `NextRunAt` and `ReportEdits` |
| `HeartbeatProofs`, `ResultCacheProofs`, `ChatThreadsProofs` | the modules they are named after |
| `BrowserProofs` | `Sessions` and `ChatFlow` |
| `QueryWorkflowProofs` | `QueryWorkflow` and `QuestionCalls` |
| `CatalogueProofs` | `SemanticCatalogue` and `CatalogueQuestions`, with `GovernedPlans` |

How they fit together: `CatalogueQuestions` extends `SemanticCatalogue`, which
extends `GovernedPlans`. `QuestionCalls` extends `QueryWorkflow` and
`ModelCalls`. `ReportScheduler` instantiates `RunLifecycle`, `QueryWorkflow`
instantiates `QueryLife`. Where a module leaves something to another one, the
other one's result is a choice in it: `ReportScheduler` takes any moment within
a period for the next due time (`Upcoming`; `NextRunAt` shows what it is) and
any error of the database for a failed flush of the cache (`ResultCache` shows
when there is one); `ChatThreads` takes any final status for what a workflow commits
(`QueryWorkflow` shows that it is final).

In all of them a step is a statement, or a run of statements that no other
process can see apart. Variants marked `[bug]` are plausible mistakes in the
definition that follows; each shows that some property notices it.

### `ReportScheduler`: state

| Variables | In the code |
|---|---|
| `is_active`, `next_run_at` | `schedules`; the time counts down, 0 or less is due, `Null` is NULL |
| `status`, `info`, `retry_count`, `next_retry_at`, `attempts` | `schedule_runs`; `info` is what never changes (schedule, trigger, max_retries); `attempts` is the length of `attempts_json` |
| `tx`, `created` | which open transaction inserted a run, so who can see it; runs are numbered in `queued_at` order |
| `edition` | the set of recipient rows; replacing them gives all of them new ids |
| `recorded` | committed `report_deliveries` rows with status `sent` |
| `batch`, `todo`, `fired` | `enqueue_due_schedules`: rows locked, not looked at yet, fired |
| `claimed` | `claimed_ids` of `run_scheduler_cycle` |
| `run`, `snapshot`, `left`, `delivered`, `any_failure` | locals of `execute_report_run` and `_deliver_to_targets` |
| `form` | the schedule row a request has loaded |
| `sent` | messages an adapter has handed over: the outside world, no rollback reaches it |

### `ReportScheduler`: actions

| Action | Code |
|---|---|
| `CycleSelect` | `scheduler.py:341-357`, `SELECT ... FOR UPDATE SKIP LOCKED LIMIT` |
| `SkipSchedule`, `FireSchedule` | the loop of `enqueue_due_schedules`, `create_run_record` |
| `ClaimAndCommit` | `claim_runnable_runs` and the commit of `run_scheduler_cycle` |
| `ExecuteClaimed` | `for run_id in claimed_ids`, `execute_report_run` up to the query |
| `RunNow` | `run_report`, `run_report_now`, `run_schedule_now` |
| `RequeueRun`, `FailRun` | the `except` branch and the commit |
| `BeginDelivery`, `DeliverTo`, `FinishRun` | the success path, one action per turn of the delivery loop |
| `StaleRecipient`, `DbError` | errors of the platform database: rollback in the caller |
| `Crash`, `Restart` | the worker process; `docker-compose.yml` gives it no restart policy |
| `ReadSchedule`, `ToggleSchedule`, `PatchSchedule` | a request loads a row, then writes it back; `PatchSchedule` may replace the recipients |
| `Tick` | time |

A step is a statement, or a run of statements that no other process can see
apart. What PostgreSQL contributes is modelled as the code uses it:

* READ COMMITTED: `Visible` hides the runs of other open transactions.
* `FOR UPDATE SKIP LOCKED` skips a row that is locked by another enqueue, by an
  execution that has begun to write its schedule row, or by the key-share lock
  that an uncommitted `schedule_runs` insert takes on the schedule through its
  foreign key. The last one matters: `active_count` cannot see that run.
* An insert of a run waits while an enqueue holds the schedule row.
* `UPDATE` carries only the columns that changed. A due time computed by
  `next_run_at` is naive and the loaded one is aware, so it always counts as
  changed; NULL over NULL does not.
* A delivery row whose recipient was deleted meanwhile breaks its foreign key.
  The failed flush leaves the session unusable, so the `except` branch of
  `execute_report_run` raises too and the caller rolls back: the run stays
  `running` as the claim committed it.

Simplifications: one report (its row lock serialises deliveries; runs of other
reports do not interact with it except through the batch sizes); schedules exist
from the start; a destination is one active recipient row of the report, and a
replacement gives the same destinations new rows; an error
of the query, of its validation or of the artifacts is one nondeterministic
choice, retryable or not. A retryable adapter error is a failed delivery,
never a retry of the run, exactly as in `_deliver_to_targets`. An adapter that
raises may have had its message taken all the same.

### `QueryWorkflow`

One request, in one database session. `session` is what the request sees of its
query, trace and message; `db` is what is committed of it. `Commit` copies the first
to the second and leaves the workflow, as every `db.commit()` of `orchestrator.py`
does; `Answer` is the endpoint's commit with the assistant's message (`run_query`,
`api.py:670-680`), `Respond` what comes after it: the refreshes of `send_message`
(`api.py:1401-1403`) and the 200; `Rollback` copies back. What lies between is the
point of the model: some returns leave a `trace_step` after its commit (`Inside`),
so that the end of that step is written by its `finally` clause in the next
transaction (`Return`), and is lost when that one fails.

| Variables | In the code |
|---|---|
| `pc` | the stage, by the step name it traces |
| `type` | the answer type, as far as the stages differ: help; summarised by a model or not |
| `dangerous`, `ambiguous`, `needed`, `band` | `dangerous_match`, `ambiguity_flags`, `needs_clarification`, `confidence.band` |
| `checked` | `preflight_validations` |
| `pending`, `executed`, `rows`, `broken` | `execute_answer_plan`: specs to come, specs handed to `execute_validated_query`, `blocks`, the primary block failed in the database |
| `response` | the status code the client gets |

`Preflight` validates every block, `RefuseBlock` and `ExecuteBlock` are the two
ends of `_execute_spec`, which validates each block a second time and may decide
otherwise. The primary block comes first; the optional ones, in any order.
`ModelUnavailable` is an `LLMProviderError` of a stage that asks a model, when no
fallback is allowed; `Fail` is any other exception, or the death of the process,
at any point. What the models answer, which blocks are planned and whether SQL
compiles, passes and runs are choices here; `QuestionCalls` says what calls and chat
context make of them. Payloads of events are left out. `Fail` strikes between
`Answer` and `Respond` as well: a 500 with the answer on record.

### `Heartbeat`

Workers started under one name share the row (`row`). `Connect` and
`CannotConnect` are the attempts of `wait_for_db.py`, the last failure of which
ends the process. A heartbeat is a look-up and a write (`LookUp`, `Record`), two
statements of one session, so that two workers may both find no row; what
`_best_effort_worker_heartbeat` swallows is `Lose`, after which `scheduler_loop`
goes on exactly as after a success (`Go`). `EndCycle` and `Wake` are the two ends
of the loop's body, `Outage` the database that comes and goes. A cycle takes any
time, a sleep `Poll`; a heartbeat takes none, which is the one thing assumed of
speed here (its two statements are on one row by primary key). `Fresh` is the
answer of the health probe. What a cycle does is in `ReportScheduler`.

### `ReportEdits`

A request reads (`Read`), decides and commits: `Share` appends the recipients it
did not see, `Replace` deletes the rows it saw and inserts its list, `Patch`
writes the columns that change. A patch reads in two statements, the report and,
when the SQL or the chart is to change, the highest version number (`Count`,
`create_report_version`); what it adds is one above that. A run chooses a version
with the highest number when it is created (`service.py:177`), and is on record
when the request commits (`api.py:1116`), after its execution: `Run` is that
commit, and `asked` what the report shows at that moment.
`seen` is what the request has read, `rivals` a history:
who committed while it was open. `Key` is the destination without case and
blanks. Columns a patch leaves alone keep what is on record, those it writes
take what it saw: `Patch` says which.

### `NextRunAt`

A function: `Candidate` is the day of `now`'s week or month, `Following` the one
after, `NextRun` whichever is still to come. `IsNext` says what it ought to be:
the first moment after `now` that the schedule is for. Day-of-month 29 to 31 means the
28th, as in the code.

### `QuestionCalls` and `ModelCalls`

`ModelCalls` holds the configurations a process starts with (`Settings`), how often a
stage asks (`Attempts`), where rules stand in (`RulesFor`: the classifier has
rules of its own, outside the gateway), and what the rules can say
(`RuleType`, `RuleIntents`: their decision tables over words of the question and
turns of the chat). `QuestionCalls` adds to `QueryWorkflow` the requests of each
stage (`Call`, `AskRules`, `FallBack`, `GiveUp`) and conjoins the stage that goes
on with the answer that was heard (`ClassifyHeard`, `ExtractHeard`, ...).
`telemetry` is what `_query_ai_telemetry` reads from the decision and from
`interpretation_json`; `heard` is a history of the truth. Since every step of
`QuestionCalls` is a step of `QueryWorkflow` or a stutter, nothing that was shown
of the stages is lost.

### `ResultCache`

Rows have an id, the time their data were read (`stamp`) and an expiry. A
transaction sees what is committed and what it wrote itself (`Seen`); `holder`
is the row lock or the lock on the unique fingerprint. `Begin` selects what is
expired, `Prune` deletes it in the order of primary keys, `LookUp` decides,
`Touch`, `Insert` and `Update` are the flushes, each of which looks again after it has
waited: an `UPDATE` that matches no row is a `StaleDataError`, an `INSERT` that
meets the key an `IntegrityError`, and both leave the transaction to be rolled
back. `Victim` is `deadlock_timeout`. A caller may execute several statements
before it commits (`MaxRuns`). What the look-up found is served after the touch,
whose flush waits as long as a rival holds the row: `Tick` goes on meanwhile,
`waited` counts, and `age` is taken when the rows go out. A touch that need not wait
takes no time.

### `ChatThreads`

A question is two transactions, the workflow's (`WorkflowCommits`, with the user's
message and whatever the session has flushed) and the reply's (`Reply`); the client
is told afterwards (`Tells`), by `send_message` once it has read its rows again.
`Breaks` is a database that fails anywhere, between the two as well: then the client
has a 500 and its answer is in the chat. `clarify_query` flushes the answer to the
clarification before its workflow (`Mark`, `AnswerIt`) and so holds two rows while
the models are asked. A deletion lists the queries of its chat, empties their parts,
deletes them and then the chat, each a statement that waits for the locks in its
way; a query that came after the list breaks the foreign key. `Deadlocked` is a
clarification and a deletion that wait for each other. A query is named by the
request that asked it. Status 503 is a workflow that could not reach a model, 500
any other exception.

### `ChatFlow`

The hook keeps no record of which fetch was the last: `Arrive` shows whatever
arrives. `due` stands for the effect of `App.tsx`, which React runs after a render
in which one of its dependencies changed (`Changed`); it calls `hydrateSelection`,
which loads the preferred chat when it is not loaded (`MustLoad`), unless the list
is loading or in error (`usable`), when the effect returns at once. `Refetch` and
`RefetchFails` are the ends of a fetch of the list, as often as React Query tries;
`setQueryData` makes the list usable again (`SetList`), and the sidebar offers chats
of a usable list only (`Offered`). A question under way belongs to one chat
(`asked`), and its callback opens that chat. Callbacks of older deletions have
closed over older selections (`Seen`).

### `Sessions`

A token is named by the request that created it. `Check` looks for the account
and fixes the expiry, `CommitSession` commits account and token; the cookies
were put on the response before and only reach the jar with a 200 (`Receive`).
`Authenticate` is `get_current_user`, at a moment of its own: `Revoke` and
`Serve` act later on what it decided. `ended` and `late` are histories: sessions
whose logout was confirmed, and requests that came to the server with one.

### `GovernedPlans`, `SemanticCatalogue`, `CatalogueQuestions`

`GovernedPlans` follows a draft through `intent_result_to_interpretation`
(`Reading`), `build_answer_plan` (`Plans`), `plan_sql_query` and
`compile_planned_query` (`Refusals`, `Compiled`) and `validate_sql`
(`StaticVerdict`, `RowLimit`, `Verdicts`). A statement is the tables, joins,
filters, period and limits it has. Expressions, columns and join paths are parsed by
themselves when they are entered; `composes` says that they also do inside a
statement. Where one does not, the compiler may refuse (`Fragile`, `ParseError`): as
`SQL_PARSE_ERROR` in `compile_planned_query`, as a raw exception of the parser in
`_compile_record_query`. `limits` are the numbers of every `limit N` of the text,
wherever it stands, its own last (`Own`): `_extract_limit` takes the first for the
limit, and `_apply_limit` replaces all or none (`Limited`). Where the code takes the
first of a list whose order nobody prescribes, any element may be it.

`SemanticCatalogue` has a request per row it writes. A key stands for a table and
the key in it, so that the same text in two tables is two keys. `Create`, `Update`
and `Delete` receive a request; the last two load its row first (`Load`) and answer
404 where there is none. `ReadMetrics`, `Validate` and `LookUp` are the reads of a
creation or a change, `Check` those of a deletion, table by table. `Insert`,
`Change` and `Remove` are the commits: a change writes the columns that differ from
the row that was loaded (`Merged`), a taken key or a missing row rolls back.
`Refresh` reads the row again. `crossed` and `raced` are histories: another request
committed between the first read and the commit. The catalogues to start from are
whole (`Whole`, `RowsAssumption`), as the one of `semantic/defaults.py` is: what its
metrics, terms, examples and templates name is there. A term's `mapped_entity_key`
is checked without the blanks around it, stored with them and compared with them
(`Mapped`, `exact`): a padded one names and protects nothing (`Refers`).

`CatalogueQuestions` lets questions load metrics and dimensions in two statements
(`LoadMetrics`, `LoadDims`), plan with what they loaded (`Plan`) and validate and
run block by block (`Run`). The free text of a statement may hold any `limit N`
ahead of its own (`Embedded`); `Done` has the limits as the statement ran and how
many rows are kept of it (`query_execution/service.py:203`). `tidy` and `split`
record, for the property, whether the catalogue was usable and whether it changed
between the two reads.

## 3. Properties

Type invariants are not repeated here. Those of the proved modules are theorems
or parts of the inductive invariants in section 5.

| Module | Property | Says |
|---|---|---|
| `ReportScheduler` | `SingleHolder` | no run in two processes' hands; a held committed run says `running` |
| | `ScheduledRunStartsAlone` | of two active runs of a schedule the later one was never started by the scheduler |
| | `MailAtMostOnce` | one run, one recipient row, at most one message, over retries, workers and crashes |
| | `MailOnRecord` | no row claims a message that did not leave; a succeeded run's rows are all that left; a queued or failed run has sent nothing |
| | `AttemptsMatchRetries` | attempts on record are the counted retries and the last attempt; the budget holds |
| | `ActiveScheduleIsTimed` | an active schedule has a due time, whatever edits overlap |
| | `OrphansStay` | a run left `running` stays so, and its schedule starts no run |
| | `OrphansHaveACause` | only a death, a database error in its own execution or replaced recipients leave one |
| | `ImplementsLifecycle` | refinement of `RunLifecycle` |
| | `RunsEnd`, `DueSchedulesFire` | a schedule's queued run ends; a due schedule gets its turn, whatever others fire |
| `ReportEdits` | `DuplicatesHaveACause` | a destination is there twice only by requests that overlapped |
| | `VersionsCount` | numbers have no gap; one is given twice only by edits that overlapped |
| | `RunsAsShown` | a run executes other content than is shown at its commit only if an edit was committed while it, or another edit, was open |
| `Heartbeat` | `WorkingIsHealthy` | a worker whose last heartbeat was recorded is stale only in a cycle that has outlasted the probe's bound |
| | `LoopGoesOn` | start-up ends; every cycle is followed by a sleep, whatever is lost |
| `QueryWorkflow` | `FinalOnRecord` | nobody reads a query that is `running` or a step without an outcome |
| | `OnlyClearQuestionsRun` | SQL is executed only for a harmless, unambiguous question of high confidence whose primary block passed the preflight |
| | `NothingAfterPrimaryFailed` | when the primary block fails no other is executed |
| | `SuccessHasRows` | a successful query on record has its primary rows, or was a request for help |
| | `UnavailableLeavesNothing` | after a 503 nothing is on record, although SQL may have been executed |
| | `AnsweredIsTraced` | a 200 has its message in the chat; a message in the chat has a trace whose steps all have their ends, and no 503, though perhaps a 500 |
| | `ImplementsLife` | refinement of `QueryLife`: one settlement, never revised, then perhaps the answer |
| | `DatabaseErrorsShow` | of the documentation, and violated: see section 6 |
| `QuestionCalls` | `RulesShow` | the response shows rules exactly when they were heard, and a model exactly when one was |
| | `UnavailableHasACause` | 503 comes after every attempt, and only without rules or without a known provider |
| `ResultCache` | `StaleNoLonger` | nothing served is older than a time to live, a statement's time and what the request waited for the row |
| | `FailsOnlyWithARival` | a flush fails only when another transaction committed meanwhile |
| | `EveryRequestEnds` | no request waits for ever |
| `ChatThreads` | `ThreadsAreWhole` | a query has its chat and its question, an answer its query |
| | `ClarifiedIsFollowedUp` | a query is clarified together with the query that follows it up |
| | `ToldTheTruth` | a 200 has its answer in the chat or the chat gone, a 404 or 503 has left nothing |
| | `RequestsEnd` | accepted requests end, those that meet on rows included |
| `ChatFlow` | `NeverStuck` | when something else is loaded, the right messages are under way or the effect is due, unless the list is in error |
| | `Settles` | when the user is done, the page shows an existing chat, again and again if not for good, unless the list stays in error |
| `Sessions` | `LogoutHolds` | nothing is served to a session after its logout was confirmed |
| | `CookieIsBacked` | the jar never holds a session without a record |
| `CatalogueQuestions` | `DanglingHasACause` | a row with an exact key names what is not on record only after requests crossed |
| | `RefusedForACause` | the catalogue refuses a faultless draft only because of the administration, free text that does not compose included |
| | `BlocksAgree` | the blocks of an answer have the same filters and period |
| | `RunsWithinPolicy` | no table off the whitelist or without a policy, no row shown above a policy's limit, and no statement limited above it but behind a smaller `limit N` |

`OrphansStay` describes a weakness of the design and not a wish: the code has no
lease, time-out or reaper for `running`. It is stated so that it is noticed when
one is added. `MailAtMostOnce` is about one run and one recipient row. Two rows
may carry the same address (`DuplicatesHaveACause`), and then it is served
twice; a schedule that fires again, or an operator who starts a new run in place
of an orphan, mails again.

## 4. Runs

| Run | Instance | Question | States |
|---|---|---|---|
| `workers` | 2 workers, 2 schedules, 3 runs, batch of 2, crashes, database errors | do workers that may die anywhere keep out of each other's way? | 500 358 |
| `requests` | 1 worker, 2 requests, 1 schedule, 2 destinations, 2 runs, 1 edit, database errors | what do requests and rollbacks do to runs, rows and mails? | 985 880 |
| `progress` | 2 workers, 2 schedules that fire for ever, batch of 1, fairness | do queued runs end, and does a due schedule behind others get its turn? | 55 414 |
| `report` | 3 requests, 2 spellings of a destination, 2 values | what do overlapping edits do to a report? | 1 744 020 |
| `heartbeat` | 2 workers under one name, outages, crashes, 4 ticks | when does a worker look stale, and does its loop go on? | 223 152 |
| `question` | 1 primary and 2 optional blocks, every configuration with up to 2 retries | what may be executed, what is on record, what is the client told? | 264 224 |
| `database_error` | 1 primary block | does a database error show as documented? No. | violation |
| `cache` | 2 transactions, 2 fingerprints, 4 ticks | what is served, who fails, does everybody end? | 379 612 |
| `threads` | 3 requests, 1 chat | are threads whole and clients told the truth? | 383 336 |
| `page` | 3 chats, 2 clicks, late and failing answers, 1 failure of the list | does the page find back to the selected chat? | 531 961 |
| `sessions` | 3 requests of a browser, 2 accounts | does a logout hold? | 2 357 992 |
| `catalogue` | 1 metric, 2 dimensions, 1 term, example and template, 2 administrators, 1 question | what dangles, what is refused, what runs? | 255 794 |

Deadlock is checked in `workers`, `requests` and `progress`. In the others
requests, clocks or clicks simply run out.

Bounds of the scheduler. `MaxRuns` is the number of runs ever created: two are
enough for one run to overlap another of its schedule, three for a retry, a fresh
run and a run of the other schedule at once; when it is reached a due schedule is
skipped. In `progress` it is the size of the table only: an ended run, which no
process ever looks at, is forgotten at once (`Forget`), so that schedules fire
without end and nobody's turn comes for want of runs. Each schedule has one active
run at most, so that the third place is never taken. `MaxEdits` = 1: an execution
can only tell whether the recipients it read are still there. Overdue schedules keep
their order, by which the batch is chosen, but not their distances (`Sinks`, `Lag`):
`Lag` is 1 where two compete. `Period` and `Backoff` = 1 are the shortest distances
that lie in the future; in `progress` a period is one tick or two. The assumption
`UpcomingAssumption` of `MCReportScheduler`, evaluated with each of the three runs,
compares `NextRun` with `IsNext` for all timetables over five months of 28 to 31
days.

Bounds of the others. `report`: two requests overlap, the third runs the report or
overlaps one of them only. `heartbeat`: two attempts to connect, so that one failure
is waited for and retried and the second ends the process; four ticks where the
probe allows three, so that a cycle may outlast it. `cache`: time to live and
statement time of one tick and four ticks in all, so that a row is read, stored,
served, expires and is pruned; two transactions and two rows suffice for every
circle of waiting that two locks allow. `threads`: a question, a clarification of it
and a deletion, in one chat, which is where they meet; the database fails at any of
their statements. `page`: three chats are needed for a late answer, the selected
chat and a deleted one to differ; two clicks to start what a third answer overtakes;
the list fails once (`MaxFailures`), at any time. `sessions`: a login, a logout and
a request. `catalogue`: both administrators may be at work before the question
begins, one of them beside it (`Meanwhile`); drafts and hints are any of a few that
reach every type of answer, every refusal by the catalogue and every limit; free
text may hold a `limit` that every policy allows, or one that none does. The
workflow has no bound but blocks and retries.

Fairness. *Scheduler*: weak for the steps of a worker, since `scheduler_loop` is an
endless loop that catches everything; strong for an execution, which may find the
report or schedule row locked again and again, but waiters for a row lock are
queued; weak for the clock. None for requests, failures or `Restart`. The liveness
run has no crash and no database error, because the orphans of `OrphansStay` are the
counterexample then. *Cache, chats*: weak for each request that has begun, as the
server takes up what it accepted; requests need not begin. *Heartbeat*: weak for the
clock and the workers. *Page*: weak for the effect, for the end of a question or a
deletion and for the end, good or bad, of the refetch of an invalidated list; strong
for the effect of a render with a usable list, which React runs before another fetch
can have failed, and for the answer of a chat that is fetched again and again,
because without it a page whose fetches always fail reloads for ever. That the list
is ever fetched is not assumed but a premise of `Settles`.

## 5. Theorems

All for sets and bounds of any size, infinite sets included, from the named
assumptions of the modules: names do not clash, sizes are natural numbers, delays
are positive. TLC evaluates every assumption in a run. An invariant is seldom
inductive; what is added to it is named here.

### Report scheduler (`ReportSchedulerProofs`)

`DelayAssumption` says that the retry delay is positive: exponentiation is
outside the prover's arithmetic.

* `TypeCorrect`: `Spec => []TypeOK`.
* `OneHolderPerRun`, `ScheduledRunsStartAlone`. `OwnInv` adds `Quiet`, an idle
  or dead process holds no locks and no locals; `Held`, what a process holds is
  a run that says `running`, and is committed or its own; `OneHolder`;
  `Numbered`, runs above `created` do not exist and nobody's transaction
  inserted them; `LocksApart`, two enqueues never lock the same schedule, and a
  schedule that is locked by an enqueue has no run of an open request.
  `LocksApart` is why a scheduled run starts alone: every run that the count of
  active runs cannot see would hold a lock that keeps the schedule out of the
  batch.
* `ActiveSchedulesAreTimed`. Inductive together with `FormsFilled`: a form that
  was loaded as active was loaded with a due time. So the two columns one
  request writes, and the other leaves alone, never combine to an active
  schedule with NULL.
* `MailsAtMostOnce`, `MailsOnRecord`. `MailInv` adds `Pending`: a destination
  still to be served by the process that delivers has got nothing from this run,
  and a run that waits or is not delivering yet has sent nothing; `OnRecord`
  relates the rows a process is about to commit to what it has sent. With
  `OneHolder` a second worker cannot serve the same destination.
* `AttemptsAreCounted`, `SchedulerImplementsLifecycle`. `CountInv` carries the
  number of attempts of a run in progress; the refinement is proved action by
  action, one run at a time: the run in hand makes a step of `RunLifecycle`, all
  others stutter, and the claim and the commit of an enqueue move several.
* `OrphansAreForGood`, `OrphansAreCaused`: action properties, from `OwnInv`,
  `CountInv` and `InHand` (whoever executes holds the run it executes). No step
  takes up a run that nobody holds, and `active_count` sees it for ever; and
  only `Crash`, `DbError` and `StaleRecipient` let go of one.

### Reports (`ReportProofs`)

* `NextRunIsNext`: for all calendars whose months have 28 to 31 days. Weeks are
  arithmetic modulo 7. For months the proof needs that the first of a later month
  is later, which for an arbitrary distance takes an induction: it is an
  assumption of `NextRunAt` (`CalendarAssumption`), which TLC evaluates.
* `OverlapsDuplicate`, `VersionsAreCounted`, `RunsAreAsShown`. `EditInv` rests
  on `UpToDate`: whatever an open request has not seen is the work of a rival.
  From it `VersionsApart`, two versions of one number have overlapping authors,
  and `Shown`: unless edits overlapped the highest version is what the report shows,
  and so is the version that an open run has chosen until an edit commits.

### Query workflow (`QueryWorkflowProofs`)

For any set of optional blocks. Three invariants build on each other.

* `TypeCorrect`: `Spec => []TypeOK`.
* `CourseHolds`: what the stage says of the question and the SQL. The flags of
  `OnlyClearQuestionsRun` are set in five stages and read in one, so the
  invariant carries them along: at the decision a high band excludes danger and
  ambiguity (`score_confidence`), behind it they are excluded altogether, and
  behind the preflight the primary block is checked. `PrimaryFirst` describes
  the loop of `execute_answer_plan`. From it `OnlyClearQuestionsAreRun` and
  `PrimaryFailureStops`.
* `OnRecordHolds`: what is committed at each stage. Before the first commit `db` is
  empty; between the two commits the query is `Settled`, which allows an unfinished
  event only for the blocked step; after the second it is `Complete`. The lemma
  `Kinds` reduces the steps to six: one goes on, settles the query, returns,
  answers, responds or gives up. From it `OnlyFinalOnRecord`, `SuccessesHaveRows`,
  `UnavailabilityIsClean` and `AnswersAreTraced`, and, since a step of each kind is
  a step of `QueryLife` or a stutter, `WorkflowImplementsLife`.
* `CallsImplementWorkflow`: `CallSpec => Spec`, so that all of these hold with
  the calls of the models, too. `RulesAreShown` from `Told`, which relates the
  telemetry of each stage to the calls that were heard; `UnavailabilityHasACause`
  from `Unavailable`, which relates a stage that gives up to the configuration.

### Catalogue and questions (`CatalogueProofs`)

For any keys, rows, administrators and drafts, from `KeysAssumption`,
`RowsAssumption`, `DraftsAssumption` (a draft's limit is an integer and its
period is one of the periods) and `PlansAssumption`.

* `TypeCorrect`, `DanglingIsCaused`. `CatalogueInv` adds `OnTask`, what a stage says
  of the request's task, and `UpToDate`: what a request has read still holds as long
  as no other one has committed. That is its row, the metrics, that its definition
  may name what it names, and that nothing it has looked at refers to what it
  deletes. So an uncrossed commit keeps the catalogue `Whole`, and a crossed one
  sets `raced`. A padded key is excused: it never named anything. A change merges
  columns of two rows; uncrossed, the row on record is the loaded one, and the merge
  is the row that was offered.
* `QuestionsOnlyRead`: `QSpec => Spec`, so that these hold beside
  questions (`DanglingIsCausedAmongQuestions`).
* `QTypeCorrect`, `RefusalsAreCaused`. `ReadTidily` says what a tidy catalogue
  means for a question between its two reads and after them: every dimension an
  active metric names is usable and composes, and later can be joined with what was
  loaded.
  `UnrefusedBlock` and `NoFaultNoRefusal` carry this through the planner: of
  a draft without a fault no block is refused, and none is `Fragile`.
* `BlocksAreAlike`, `RunsKeepToPolicies`. `Alike` also covers the blocks still to
  run. `CompiledAlike` shows it of every plan, by way of `PlansAreSpecs`, whatever
  sections a plan has they are made of specs of one reading; baselines, which move
  the period, are excepted. For the limits, `LimitOfARun` splits by the first `limit
  N`: above the policies it takes all down with it, within them it bounds the rows
  kept. `LimitOfPolicies` needs that a set of natural numbers has a least one
  (`LeastOfNaturals`, from the well-foundedness of `<`).

### The others

* `ServedInTime`, `RivalsFailRequests` (`ResultCacheProofs`). `CacheInv`:
  rows and drafts expire in time (`RowsSound`), so will what is about to be
  written (`Timely`), and what was found ages by no more than the wait for its row
  (`Served`). `Alone`: a request
  that nobody committed beside still finds what it has seen, so that its
  flushes succeed.
* `LogoutsHold`, `CookiesAreBacked` (`BrowserProofs`). `TypeInv` with `Named`
  (a token is its request's) and `Held`; `SessionInv` with `Answers`,
  a served login is on record, `Fresh`, nothing is on record before its commit,
  `Revocations`, a confirmed logout was committed, and `Refused`.
* `PageTypeCorrect`, `PageIsNeverStuck` (`BrowserProofs`): `NeverStuck` is
  inductive with the types. A step that selects another chat starts a fetch of
  it (`LoadFetches`), one that receives a chat's answer makes the effect due when
  that is news, and all others leave the selection and its fetches alone.
* `WorkersAreHealthy` (`HeartbeatProofs`). `Beats`: `Recorded`, an undisturbed
  worker's last beat is in the row or newer, and `InTime`, a sleep lasts no longer than
  `Poll`, which is a third of what the probe allows at most. Nothing is assumed of cycles.
* `ThreadsWhole`, `ClarifiedAreFollowedUp`, `ClientsAreTold`
  (`ChatThreadsProofs`). `ThreadInv` adds where each request stands (`Kinds`,
  `Asked`), what it holds and lists (`Held`, `Lists`), `Asking`: nobody else can
  refer to a chat that its first question has not committed; and `Kept`: what a committed
  request is going to tell its client stays true until it does.

### Only model-checked

Liveness (`RunsEnd`, `DueSchedulesFire`, `EveryRequestEnds`, `RequestsEnd`,
`Settles`, `LoopGoesOn`), which is beyond the proof system: it proves nothing
about `ENABLED` and so nothing from fairness. Every invariant and every action
property of a passing run is a theorem. What stays with TLC besides is that the
models reach their interesting states at all, which the runs show by firing every
action, and `DatabaseErrorsShow`, which the code violates.

## 6. What the code turned out to do

Where a document of the repository disagrees:

* `docs/architecture.md:105-108` draws `sql_error` and auto-fix states behind a
  database error. The code sets `blocked` (`ai/orchestrator.py:667`), as it does for
  refused SQL; `ai/autofix.py` has no caller. `DatabaseErrorsShow` states the
  document's claim, and the run `database_error` refutes it.
* The same diagram ends in `success`. `clarify_query` marks the query it answers as
  `clarified` whatever its status, successful ones included.
* `README.md:96` has the response expose `fallback_used` when a fallback is used.
  `explainability.fallback_used` is taken from the latest interpretation: when rules
  planned a clarification that turned out not to be needed, the trace says so and
  the response does not.
* `answer_strategy.py:399` orders trend points chronologically. The plan has
  `day ASC` only if `day` is a dimension (`semantic/planner.py:522`); by week or month the
  order is that of the metric.

Behaviour no document speaks of, which the models show:

* A worker that dies, or a recipient that is deleted while a report is mailed,
  leaves a run `running` for good, and its schedule never fires again. Compose
  gives the scheduler no restart policy.
* A request can fail after its commit, when `send_message` reads its rows again or
  the response is made: the client has a 500, and the answer is in its chat. Asking
  again asks twice.
* Nothing bounds a cycle of the scheduler, which executes and mails up to
  `scheduler_max_concurrent_runs` reports: a long one looks like a dead worker to the
  probe.
* A run is pinned to a version when it is created: an edit that commits during its
  execution is shown by the report and not by the run.
* Rows from the cache may be served after they have expired, by as long as the touch
  waits for a rival that holds the row.
* Overlapping patches of one report give two versions one number, and can move
  `latest_version_number` back.
* Overlapping `share` or `patch_schedule` requests leave a destination twice.
* The revocation of an expired session is rolled back with its 401.
* A late answer overwrites the chat on the page; the effect heals it. A
  fetch that fails sets the error, which is a dependency of the effect, so
  that it is started again without a pause. While the list of chats is in error the
  effect does nothing: what was selected stays unloaded until the list is fetched again.
* `next_run_at` takes days 29 to 31 for the 28th, and `day_of_week` modulo 7.
* An `LLM_PROVIDER` of an unknown name answers 503 even where a fallback is
  allowed; only the classifier falls back. An HTTP answer that is not JSON is an
  exception of its own: neither retried nor replaced, a 500.
* The intent stage replaces `resolved_request_json` and drops the chat context.
* Names the catalogue does not know are dropped from a draft without a word
  (`orchestrator.py:481`); a filter the metric does not allow is passed over
  by table answers (`answer_strategy.py:614`) where the other types refuse it.
* A dimension can be deactivated while metrics refer to it; terms that stand for
  a filter do not protect their dimension from deletion, nor do terms whose
  `mapped_entity_key` has a blank around it, which validation strips and the table keeps.
* An expression or a column that parses by itself may not parse in a statement, a
  column with a `CASE` for one, which gets an alias in front. It is refused as
  `SQL_PARSE_ERROR`, and in a statement of rows (`answer_strategy.py:652`) it is
  an exception nobody catches: a 500.
* `_extract_limit` takes the first `limit N` of the text, in a filter value, an
  expression or a join path, for the limit. When that one is small the statement's
  own LIMIT stays uncapped and the database returns more rows; the rows that are
  shown are cut to the first one (`query_execution/service.py:203`).

## 7. Not modelled

* Queries outside a chat, and the endpoints that only read.
* A chat as a sequence of questions: the window of four turns includes the running
  row, and rules may read the period of the turn they refer to. `QuestionCalls`
  takes the words and turns the rules look at as a choice.
* On the page: a logout with an answer under way; a chat created without a question.
* Creation of schedules and reports after the start; recipients and runs of several
  reports, which meet only in the sizes of a batch.
* Renaming of a term; templates of a user; audit rows of the cache.
* Report artifacts (files named after a run, which one execution writes and reads);
  retrieval and embeddings (numeric scores); answer composition (wording and
  views); bootstrap, migrations and tools (run once); frontend pages other than the
  analytics hook (presentation); prompts and payloads.
* The SQL parser, a library: statements are the tables, joins, filters and limits
  it would find, and whether a fragment composes is a property of its row. That
  `re.sub` also rewrites a `limit N` inside a filter value, and so changes the value,
  is left out.

## 8. What is left

A chat as a sequence of questions, composed of `QuestionCalls` and `ChatThreads`.
Schedules that are created, with their first recipients, beside the worker.
