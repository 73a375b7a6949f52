--------------------------- MODULE ReportScheduler ---------------------------
(***************************************************************************)
(* The report scheduler of the backend (app/reports/scheduler.py) and the  *)
(* report and schedule endpoints of app/api.py that share its tables.      *)
(*                                                                         *)
(* Workers run scheduler_loop: each cycle is one platform transaction that *)
(* enqueues due schedules and claims queued runs, followed by one          *)
(* transaction per claimed run.  Clients are API requests, each one        *)
(* transaction.  A step of the model is a statement, or a group of         *)
(* statements, between which no other process can tell the difference;     *)
(* what a transaction has written is seen by others only once it commits.  *)
(*                                                                         *)
(* PostgreSQL is modelled by what the code uses of it: READ COMMITTED      *)
(* visibility, FOR UPDATE SKIP LOCKED, the row locks of UPDATE, and the    *)
(* key-share lock and the check of a foreign key on INSERT.                *)
(*                                                                         *)
(* A definition marked [bug] is a variant of the one that follows it, with *)
(* a mistake the code could have had; the specification does not use it.   *)
(* PROJECT.json names the property that notices each of them.              *)
(***************************************************************************)
EXTENDS Integers, FiniteSets

CONSTANTS
    Workers,        \* scheduler processes
    Clients,        \* API requests that may be in progress at one time
    Schedules,      \* rows of app.schedules, all of one report
    Destinations,   \* the report's delivery targets, one recipient row each
    BatchSize,      \* settings.scheduler_batch_size
    MaxConcurrent,  \* settings.scheduler_max_concurrent_runs
    RetryBudgets,   \* values schedules.max_retries takes
    Backoff,        \* max(30, retry_backoff_seconds), in clock ticks
    Period,         \* the longest distance to the next occurrence, in ticks
    Faults,         \* which of "crash" and "db" happen
    None,           \* no schedule, no process
    Null,           \* SQL NULL
    \* bounds
    MaxRuns,        \* runs that are ever created
    MaxEdits,       \* times the recipients are replaced
    Lag             \* schedules are overdue by Lag ticks at most

Procs == Workers \cup Clients
Runs  == 1 .. MaxRuns

\* scheduled seconds until the k-th retry: the base doubles with every retry
RetryDelay(k) == Backoff * 2 ^ (k - 1)

ASSUME ProcsAssumption ==
    /\ Workers \cap Clients = {}
    /\ None \notin Procs \cup Schedules
    /\ Null \notin Int
ASSUME SizesAssumption ==
    /\ BatchSize \in Nat \ {0}
    /\ MaxConcurrent \in Nat \ {0}
    /\ Backoff \in Nat \ {0}
    /\ Period \in Nat \ {0}
    /\ MaxRuns \in Nat
    /\ MaxEdits \in Nat
    /\ Lag \in Nat
    /\ RetryBudgets \subseteq Nat
ASSUME DelayAssumption ==
    \A m \in RetryBudgets : \A k \in 1 .. m : RetryDelay(k) \in Nat \ {0}

VARIABLES
    \* app.schedules: next_run_at counts down to the due time; 0 or less is due
    is_active, next_run_at,
    \* app.schedule_runs: what a run is (info) never changes after its INSERT
    status, info, retry_count, next_retry_at, attempts,
    tx,         \* the process whose open transaction inserted the run, or None
    created,    \* runs inserted so far: run n is the n-th, in queued_at order
    edition,    \* recipients are deleted and re-inserted under new ids
    recorded,   \* app.report_deliveries rows with status "sent", by run
    \* processes
    pc,
    batch,      \* worker: schedule rows its enqueue statement has locked
    todo,       \* worker: those whose active runs are not counted yet
    fired,      \* worker: those it has inserted a run for
    claimed,    \* worker: claimed_ids not executed yet
    run,        \* the run being executed, 0 if none
    snapshot,   \* edition of the recipients that execute_report_run read
    left,       \* recipients still to be served by _deliver_to_targets
    delivered,  \* recipients whose row says "sent", not committed yet
    any_failure,
    form,       \* client: the schedule row it read, until it writes it back
    \* the outside world
    sent        \* messages handed to mail or Slack, by run and destination

schedVars == <<is_active, next_run_at>>
runVars   == <<status, info, retry_count, next_retry_at, attempts, tx, created>>
cycleVars == <<batch, todo, fired>>
execVars  == <<run, snapshot, left, delivered, any_failure>>
vars == <<schedVars, runVars, edition, recorded, pc, cycleVars, claimed,
          execVars, form, sent>>

Active   == {"queued", "running"}                       \* ACTIVE_RUN_STATUSES
Terminal == {"succeeded", "failed", "delivery_failed"}  \* TERMINAL_RUN_STATUSES

Upcoming == 1 .. Period     \* what next_run_at() can return: never now or past
Executing == {"exec", "deliver"}

-----------------------------------------------------------------------------
(* Rows, locks and visibility *)

Visible(r, p) == tx[r] \in {None, p}

\* The row lock another transaction holds on schedule s, against p: FOR UPDATE
\* of an enqueue, or the UPDATE of an execution that has begun to deliver.
RowLocked(s, p) ==
    \E q \in Procs \ {p} :
        \/ s \in batch[q]
        \/ pc[q] = "deliver" /\ info[run[q]].schedule = s

\* [bug] the enqueue takes a lock that the key-share lock does not stop
KeyShared_Ignored(s) == FALSE

\* The weaker lock of the foreign key of a run that an open request inserted:
\* it stops a FOR UPDATE but no UPDATE.
KeyShared(s) == \E r \in Runs : tx[r] \in Clients /\ info[r].schedule = s

\* The report row is written by every execution: one delivers at a time.
ReportLocked(p) == \E q \in Procs \ {p} : pc[q] = "deliver"

\* [bug] LIMIT n without the order
Batches_Unordered(Cand, key, n) ==
    {B \in SUBSET Cand : Cardinality(B) <= n /\ (B # Cand => Cardinality(B) = n)}

\* ORDER BY key LIMIT n over the rows of Cand that are not locked
Batches(Cand, key, n) ==
    {B \in SUBSET Cand :
        /\ Cardinality(B) <= n
        /\ B # Cand => Cardinality(B) = n
        /\ \A x \in B, y \in Cand \ B : key[x] <= key[y]}

Due(s) == is_active[s] /\ next_run_at[s] # Null /\ next_run_at[s] <= 0

NewRun(r, p, s, trigger, retries) ==
    /\ r = created + 1
    /\ r \in Runs
    /\ created' = r
    /\ tx' = [tx EXCEPT ![r] = p]
    /\ info' = [info EXCEPT ![r] =
                  [schedule |-> s, trigger_type |-> trigger, max_retries |-> retries]]

\* The transaction of p ends: nothing of it is left in p.
EndExecution(p) ==
    /\ run' = [run EXCEPT ![p] = 0]
    /\ snapshot' = [snapshot EXCEPT ![p] = 0]
    /\ left' = [left EXCEPT ![p] = {}]
    /\ delivered' = [delivered EXCEPT ![p] = {}]
    /\ any_failure' = [any_failure EXCEPT ![p] = FALSE]

EndCycle(w) ==
    /\ batch' = [batch EXCEPT ![w] = {}]
    /\ todo' = [todo EXCEPT ![w] = {}]
    /\ fired' = [fired EXCEPT ![w] = {}]

\* What p's open transaction inserted is gone, and its row locks with it.
Rollback(p) ==
    /\ status' = [r \in Runs |-> IF tx[r] = p THEN "absent" ELSE status[r]]
    /\ tx' = [r \in Runs |-> IF tx[r] = p THEN None ELSE tx[r]]
    /\ EndCycle(p)
    /\ EndExecution(p)
    /\ UNCHANGED <<schedVars, info, retry_count, next_retry_at, attempts, created,
                   edition, recorded, form, sent>>

-----------------------------------------------------------------------------
TypeOK ==
    /\ is_active \in [Schedules -> BOOLEAN]
    /\ next_run_at \in [Schedules -> Int \cup {Null}]
    /\ status \in [Runs -> {"absent"} \cup Active \cup Terminal]
    /\ info \in [Runs -> [schedule : Schedules \cup {None},
                          trigger_type : {"schedule", "schedule_manual", "manual"},
                          max_retries : RetryBudgets \cup {0}]]
    /\ retry_count \in [Runs -> Nat]
    /\ next_retry_at \in [Runs -> Nat]
    /\ attempts \in [Runs -> Nat]
    /\ tx \in [Runs -> Procs \cup {None}]
    /\ created \in 0 .. MaxRuns
    /\ edition \in 0 .. MaxEdits
    /\ recorded \in [Runs -> SUBSET Destinations]
    /\ pc \in [Procs -> {"idle", "down", "enqueue", "edit"} \cup Executing]
    /\ batch \in [Procs -> SUBSET Schedules]
    /\ todo \in [Procs -> SUBSET Schedules]
    /\ fired \in [Procs -> SUBSET Schedules]
    /\ claimed \in [Procs -> SUBSET Runs]
    /\ run \in [Procs -> Runs \cup {0}]
    /\ \A p \in Procs : pc[p] \in Executing => run[p] \in Runs
    /\ snapshot \in [Procs -> 0 .. MaxEdits]
    /\ left \in [Procs -> SUBSET Destinations]
    /\ delivered \in [Procs -> SUBSET Destinations]
    /\ any_failure \in [Procs -> BOOLEAN]
    /\ form \in [Procs -> {None} \cup
                   [schedule : Schedules, is_active : BOOLEAN, timed : BOOLEAN]]
    /\ sent \in [Runs -> [Destinations -> Nat]]

Init ==
    /\ is_active \in [Schedules -> BOOLEAN]
    /\ next_run_at \in [Schedules -> Upcoming]
    /\ status = [r \in Runs |-> "absent"]
    /\ info = [r \in Runs |-> [schedule |-> None, trigger_type |-> "manual",
                               max_retries |-> 0]]
    /\ retry_count = [r \in Runs |-> 0]
    /\ next_retry_at = [r \in Runs |-> 0]
    /\ attempts = [r \in Runs |-> 0]
    /\ tx = [r \in Runs |-> None]
    /\ created = 0
    /\ edition = 0
    /\ recorded = [r \in Runs |-> {}]
    /\ pc = [p \in Procs |-> "idle"]
    /\ batch = [p \in Procs |-> {}]
    /\ todo = [p \in Procs |-> {}]
    /\ fired = [p \in Procs |-> {}]
    /\ claimed = [p \in Procs |-> {}]
    /\ run = [p \in Procs |-> 0]
    /\ snapshot = [p \in Procs |-> 0]
    /\ left = [p \in Procs |-> {}]
    /\ delivered = [p \in Procs |-> {}]
    /\ any_failure = [p \in Procs |-> FALSE]
    /\ form = [p \in Procs |-> None]
    /\ sent = [r \in Runs |-> [d \in Destinations |-> 0]]

-----------------------------------------------------------------------------
(* run_scheduler_cycle, first transaction: enqueue_due_schedules *)

\* SELECT ... FOR UPDATE SKIP LOCKED LIMIT batch_size
CycleSelect(w) ==
    /\ pc[w] = "idle"
    /\ claimed[w] = {}
    /\ LET Free == {s \in Schedules : Due(s) /\ ~RowLocked(s, w) /\ ~KeyShared(s)}
       IN \E B \in Batches(Free, next_run_at, BatchSize) :
              /\ batch' = [batch EXCEPT ![w] = B]
              /\ todo' = [todo EXCEPT ![w] = B]
    /\ pc' = [pc EXCEPT ![w] = "enqueue"]
    /\ UNCHANGED <<schedVars, runVars, edition, recorded, fired, claimed,
                   execVars, form, sent>>

\* [bug] a run that is being executed is not counted
HasActiveRun_Queued(s, w) ==
    \E r \in Runs : info[r].schedule = s /\ status[r] = "queued" /\ Visible(r, w)

HasActiveRun(s, w) ==
    \E r \in Runs : /\ info[r].schedule = s
                    /\ status[r] \in Active
                    /\ Visible(r, w)

\* active_count is positive: the schedule is left due, next_run_at untouched
SkipSchedule(w, s) ==
    /\ pc[w] = "enqueue"
    /\ s \in todo[w]
    /\ HasActiveRun(s, w) \/ created = MaxRuns     \* MaxRuns: a bound of the model
    /\ todo' = [todo EXCEPT ![w] = @ \ {s}]
    /\ UNCHANGED <<schedVars, runVars, edition, recorded, pc, batch, fired, claimed,
                   execVars, form, sent>>

FireSchedule(w, s) ==
    /\ pc[w] = "enqueue"
    /\ s \in todo[w]
    /\ ~HasActiveRun(s, w)
    /\ \E r \in Runs, m \in RetryBudgets :
          /\ NewRun(r, w, s, "schedule", m)
          /\ status' = [status EXCEPT ![r] = "queued"]
    /\ todo' = [todo EXCEPT ![w] = @ \ {s}]
    /\ fired' = [fired EXCEPT ![w] = @ \cup {s}]
    /\ UNCHANGED <<schedVars, retry_count, next_retry_at, attempts, edition,
                   recorded, pc, batch, claimed, execVars, form, sent>>

\* [bug] the claim looks at every active run
Runnable_Active(r, w) == status[r] \in Active /\ Visible(r, w) /\ next_retry_at[r] = 0

\* [bug] a run that was queued again for a retry is not picked up
Runnable_FirstTime(r, w) ==
    status[r] = "queued" /\ Visible(r, w) /\ next_retry_at[r] = 0 /\ retry_count[r] = 0

Runnable(r, w) == status[r] = "queued" /\ Visible(r, w) /\ next_retry_at[r] = 0

\* claim_runnable_runs, and the commit of the whole transaction: the oldest
\* queued runs whose retry time has come, the ones just enqueued included
ClaimAndCommit(w) ==
    /\ pc[w] = "enqueue"
    /\ todo[w] = {}
    /\ \E C \in Batches({r \in Runs : Runnable(r, w)}, [r \in Runs |-> r], MaxConcurrent) :
          /\ claimed' = [claimed EXCEPT ![w] = C]
          /\ status' = [r \in Runs |-> IF r \in C THEN "running" ELSE status[r]]
    /\ \E next \in [fired[w] -> Upcoming] :
          next_run_at' = [s \in Schedules |-> IF s \in fired[w] THEN next[s]
                                                                ELSE next_run_at[s]]
    /\ tx' = [r \in Runs |-> IF tx[r] = w THEN None ELSE tx[r]]
    /\ EndCycle(w)
    /\ pc' = [pc EXCEPT ![w] = "idle"]
    /\ UNCHANGED <<is_active, info, retry_count, next_retry_at, attempts, created,
                   edition, recorded, execVars, form, sent>>

-----------------------------------------------------------------------------
(* execute_report_run, called by a worker for a claimed run, or by a request
   for the run it has just inserted *)

Begin(p, r) ==
    /\ run' = [run EXCEPT ![p] = r]
    /\ snapshot' = [snapshot EXCEPT ![p] = edition]
    /\ left' = [left EXCEPT ![p] = Destinations]
    /\ pc' = [pc EXCEPT ![p] = "exec"]
    /\ UNCHANGED <<delivered, any_failure>>

\* for run_id in claimed_ids: the claimed runs in queued_at order
ExecuteClaimed(w, r) ==
    /\ pc[w] = "idle"
    /\ r \in claimed[w]
    /\ \A q \in claimed[w] : r <= q
    /\ Begin(w, r)
    /\ UNCHANGED <<schedVars, runVars, edition, recorded, cycleVars, claimed, form, sent>>

\* run_report, run_report_now (s = None) and run_schedule_now.  The INSERT waits
\* while an enqueue holds the schedule row.
RunNow(c, s) ==
    /\ pc[c] = "idle"
    /\ \A w \in Workers : s \notin batch[w]
    /\ \E r \in Runs, m \in IF s = None THEN {0} ELSE RetryBudgets :
          /\ NewRun(r, c, s, IF s = None THEN "manual" ELSE "schedule_manual", m)
          /\ status' = [status EXCEPT ![r] = "running"]
          /\ Begin(c, r)
    /\ UNCHANGED <<schedVars, retry_count, next_retry_at, attempts, edition,
                   recorded, cycleVars, claimed, form, sent>>

\* The execution's own writes to the report and schedule rows do not have to wait.
RowsFree(p) ==
    /\ ~ReportLocked(p)
    /\ info[run[p]].schedule # None => ~RowLocked(info[run[p]].schedule, p)

\* [bug] the rest of the batch is dropped with the run
StillClaimed_None(p) == {}

StillClaimed(p) == claimed[p] \ {run[p]}

\* The transaction of p commits and its run leaves p's hands.
CommitExecution(p, st) ==
    /\ status' = [status EXCEPT ![run[p]] = st]
    /\ attempts' = [attempts EXCEPT ![run[p]] = @ + 1]
    /\ tx' = [tx EXCEPT ![run[p]] = None]
    /\ claimed' = [claimed EXCEPT ![p] = StillClaimed(p)]
    /\ pc' = [pc EXCEPT ![p] = "idle"]
    /\ EndExecution(p)
    /\ UNCHANGED <<schedVars, info, created, edition, cycleVars, form, sent>>

\* [bug] a failed delivery is an error of the run as well
CanFail_Late(p) == pc[p] \in Executing /\ RowsFree(p)

\* Validation, the query and the artifacts come before the first delivery; what
\* an adapter raises later stays in _deliver_to_targets.
CanFail(p) == pc[p] = "exec" /\ RowsFree(p)

\* [bug] off by one
RetryLeft_OneMore(r) == retry_count[r] <= info[r].max_retries

RetryLeft(r) == retry_count[r] < info[r].max_retries

\* [bug] the retry is not counted
RetryCounted_Not(r) == retry_count[r]

RetryCounted(r) == retry_count[r] + 1

\* except branch, should_retry
RequeueRun(p) ==
    /\ CanFail(p)
    /\ RetryLeft(run[p])
    /\ retry_count' = [retry_count EXCEPT ![run[p]] = RetryCounted(run[p])]
    /\ next_retry_at' = [next_retry_at EXCEPT
                            ![run[p]] = RetryDelay(retry_count[run[p]] + 1)]
    /\ CommitExecution(p, "queued")
    /\ UNCHANGED recorded

\* except branch: the error is not retryable or the retries are used up
FailRun(p) ==
    /\ CanFail(p)
    /\ CommitExecution(p, "failed")
    /\ UNCHANGED <<retry_count, next_retry_at, recorded>>

\* SQL validated and executed, artifacts written, run marked succeeded: from the
\* first flush of _deliver_to_targets on p holds the report and schedule rows
BeginDelivery(p) ==
    /\ pc[p] = "exec"
    /\ RowsFree(p)
    /\ pc' = [pc EXCEPT ![p] = "deliver"]
    /\ UNCHANGED <<schedVars, runVars, edition, recorded, cycleVars, claimed,
                   execVars, form, sent>>

Send(p, d) == sent' = [sent EXCEPT ![run[p]][d] = @ + 1]

\* One turn of the loop of _deliver_to_targets: the delivery row is inserted,
\* then the adapter sends or raises.  One that raises, on a timeout say, may have
\* had its message taken all the same.
DeliverTo(p, d) ==
    /\ pc[p] = "deliver"
    /\ d \in left[p]
    /\ snapshot[p] = edition
    /\ left' = [left EXCEPT ![p] = @ \ {d}]
    /\ \/ /\ Send(p, d)
          /\ delivered' = [delivered EXCEPT ![p] = @ \cup {d}]
          /\ UNCHANGED any_failure
       \/ /\ Send(p, d) \/ UNCHANGED sent
          /\ any_failure' = [any_failure EXCEPT ![p] = TRUE]
          /\ UNCHANGED delivered
    /\ UNCHANGED <<schedVars, runVars, edition, recorded, pc, cycleVars, claimed,
                   run, snapshot, form>>

Outcome(p) == IF any_failure[p] THEN "delivery_failed" ELSE "succeeded"

\* [bug] the rows are marked before the adapter is called
DeliveryRows_Marked(p) == Destinations

DeliveryRows(p) == delivered[p]

FinishRun(p) ==
    /\ pc[p] = "deliver"
    /\ left[p] = {}
    /\ CommitExecution(p, Outcome(p))
    /\ recorded' = [recorded EXCEPT ![run[p]] = DeliveryRows(p)]
    /\ UNCHANGED <<retry_count, next_retry_at>>

-----------------------------------------------------------------------------
(* Failures *)

\* Where an exception out of execute_report_run or of the enqueue leaves its caller:
\* rolled back, and free to go on with the next claimed run
AbortTransaction(p) ==
    /\ Rollback(p)
    /\ claimed' = [claimed EXCEPT ![p] = StillClaimed(p)]
    /\ pc' = [pc EXCEPT ![p] = "idle"]

\* A recipient was replaced after the execution read it: its delivery row breaks
\* the foreign key, and the failed flush leaves the session unusable for the
\* except branch, whose own flush raises
StaleRecipient(p) ==
    /\ pc[p] = "deliver"
    /\ left[p] # {}
    /\ snapshot[p] # edition
    /\ AbortTransaction(p)

\* Any other platform database error in an open transaction, at its commit included
DbError(p) ==
    /\ "db" \in Faults
    /\ pc[p] \in {"enqueue"} \cup Executing
    /\ AbortTransaction(p)

\* The worker process dies; nothing restarts it but an operator
Crash(w) ==
    /\ "crash" \in Faults
    /\ pc[w] # "down"
    /\ Rollback(w)
    /\ claimed' = [claimed EXCEPT ![w] = {}]
    /\ pc' = [pc EXCEPT ![w] = "down"]

Restart(w) ==
    /\ pc[w] = "down"
    /\ pc' = [pc EXCEPT ![w] = "idle"]
    /\ UNCHANGED <<schedVars, runVars, edition, recorded, cycleVars, claimed,
                   execVars, form, sent>>

-----------------------------------------------------------------------------
(* Requests that edit a schedule: the row is read without a lock, and the
   UPDATE at the commit carries the columns whose value was changed *)

ReadSchedule(c, s) ==
    /\ pc[c] = "idle"
    /\ pc' = [pc EXCEPT ![c] = "edit"]
    /\ form' = [form EXCEPT ![c] = [schedule |-> s, is_active |-> is_active[s],
                                    timed |-> next_run_at[s] # Null]]
    /\ UNCHANGED <<schedVars, runVars, edition, recorded, cycleVars, claimed,
                   execVars, sent>>

\* [bug] the due time goes into the UPDATE only if none, or NULL, replaces it
CarriesTime_IfNone(c, next) == next = Null \/ ~form[c].timed

\* A computed time (naive) is never equal to the loaded one (aware), so only
\* writing NULL over NULL is left out of the UPDATE
CarriesTime(c, next) == next # Null \/ form[c].timed

WriteSchedule(c, active, next) ==
    LET s == form[c].schedule IN
    /\ pc[c] = "edit"
    /\ ~RowLocked(s, c)
    /\ is_active' = [is_active EXCEPT ![s] = IF active = form[c].is_active THEN @ ELSE active]
    /\ next_run_at' = [next_run_at EXCEPT ![s] = IF CarriesTime(c, next) THEN next ELSE @]
    /\ pc' = [pc EXCEPT ![c] = "idle"]
    /\ form' = [form EXCEPT ![c] = None]
    /\ UNCHANGED <<runVars, recorded, cycleVars, claimed, execVars, sent>>

ToggleSchedule(c) ==
    /\ pc[c] = "edit"
    /\ \E active \in {~form[c].is_active}, t \in Upcoming :
          WriteSchedule(c, active, IF active THEN t ELSE Null)
    /\ UNCHANGED edition

\* replace_report_recipients deletes and re-inserts the rows.  While an open
\* transaction has inserted a delivery to one of them, the DELETE waits.
ReplaceRecipients ==
    /\ \A q \in Procs : pc[q] = "deliver" => left[q] = Destinations
    /\ edition < MaxEdits
    /\ edition' = edition + 1

\* active is the value of is_active in the payload, or the one read; the due time
\* is computed for an inactive schedule as well
PatchSchedule(c) ==
    /\ \E active \in BOOLEAN, t \in Upcoming : WriteSchedule(c, active, t)
    /\ UNCHANGED edition \/ ReplaceRecipients

-----------------------------------------------------------------------------
\* Schedules that are overdue keep their order but not their distance: what is due
\* stays where others fill the ticks between it and -Lag.
Sinks(s) ==
    /\ next_run_at[s] # Null
    /\ next_run_at[s] <= 0 =>
         \E t \in -Lag .. next_run_at[s] - 1 : \A q \in Schedules : next_run_at[q] # t

Tick ==
    /\ \/ \E s \in Schedules : Sinks(s)
       \/ \E r \in Runs : next_retry_at[r] > 0
    /\ next_run_at' = [s \in Schedules |-> IF Sinks(s) THEN next_run_at[s] - 1
                                                      ELSE next_run_at[s]]
    /\ next_retry_at' = [r \in Runs |-> IF next_retry_at[r] > 0
                                        THEN next_retry_at[r] - 1 ELSE 0]
    /\ UNCHANGED <<is_active, status, info, retry_count, attempts, tx, created, edition,
                   recorded, pc, cycleVars, claimed, execVars, form, sent>>

Enqueue(w) == \E s \in Schedules : SkipSchedule(w, s) \/ FireSchedule(w, s)

\* What ends the statement an execution is at
Execute(p) ==
    \/ RequeueRun(p)
    \/ FailRun(p)
    \/ BeginDelivery(p)
    \/ \E d \in Destinations : DeliverTo(p, d)
    \/ FinishRun(p)
    \/ StaleRecipient(p)

Next ==
    \/ \E w \in Workers :
          \/ CycleSelect(w)
          \/ Enqueue(w)
          \/ ClaimAndCommit(w)
          \/ \E r \in Runs : ExecuteClaimed(w, r)
          \/ Crash(w)
          \/ Restart(w)
    \/ \E p \in Procs : Execute(p) \/ DbError(p)
    \/ \E c \in Clients :
          \/ \E s \in Schedules \cup {None} : RunNow(c, s)
          \/ \E s \in Schedules : ReadSchedule(c, s)
          \/ ToggleSchedule(c)
          \/ PatchSchedule(c)
    \/ Tick

Spec == Init /\ [][Next]_vars

-----------------------------------------------------------------------------
(* Safety *)

Holders(r) == {p \in Procs : r \in claimed[p] \/ run[p] = r}

Committed(r) == status[r] # "absent" /\ tx[r] = None

\* A run is in the hands of one process at most, however many workers poll and
\* crash, and while a process holds a committed run the table says "running".
SingleHolder ==
    /\ \A p, q \in Procs : \A r \in Runs :
          (p \in Holders(r) /\ q \in Holders(r)) => p = q
    /\ \A r \in Runs : (Committed(r) /\ Holders(r) # {}) => status[r] = "running"

\* enqueue_due_schedules starts a run only when nothing of the schedule is active:
\* of two active runs of one schedule the later one is never the scheduler's own,
\* whatever other workers, retries and open run-now requests are doing.
ScheduledRunStartsAlone ==
    \A q, r \in Runs :
        ~ /\ q < r
          /\ info[q].schedule = info[r].schedule
          /\ info[r].trigger_type = "schedule"
          /\ status[q] \in Active
          /\ status[r] \in Active

\* One run never serves the same recipient row twice: not by a retry, not by a
\* second worker, not after a crash in the middle of the deliveries.
MailAtMostOnce == \A r \in Runs, d \in Destinations : sent[r][d] <= 1

\* The delivery rows never claim a message that did not go out, those of a run
\* that succeeded tell all that went out, and a run that may still be executed,
\* or failed, has sent nothing.
MailOnRecord ==
    \A r \in Runs :
        LET Left == {d \in Destinations : sent[r][d] > 0} IN
        Committed(r) =>
            /\ recorded[r] \subseteq Left
            /\ status[r] = "succeeded" => recorded[r] = Left
            /\ status[r] \in {"queued", "failed"} => Left = {}

\* attempts_json has one entry per attempt that was committed: the retries, and
\* the last attempt of a run that ended; and nothing is retried past its budget.
AttemptsMatchRetries ==
    \A r \in Runs :
        Committed(r) =>
            /\ attempts[r] = retry_count[r] + (IF status[r] \in Terminal THEN 1 ELSE 0)
            /\ retry_count[r] <= info[r].max_retries

\* An active schedule always has a due time, whatever requests overwrite each
\* other: enqueue_due_schedules would never see it again without one.
ActiveScheduleIsTimed == \A s \in Schedules : is_active[s] => next_run_at[s] # Null

\* A committed run that says "running" but that no process holds.
Orphan(r) == Committed(r) /\ status[r] = "running" /\ Holders(r) = {}

\* Nothing recovers an orphan, and as long as it is there its schedule starts
\* no run: there is no lease, no timeout and no second look at "running".
OrphansStay ==
    [][\A r \in Runs : Orphan(r) =>
          /\ Orphan(r)'
          /\ info[r].schedule # None =>
                \A q \in Runs : (status[q] = "absent" /\ status'[q] # "absent"
                                   /\ info'[q].schedule = info[r].schedule)
                                => info'[q].trigger_type # "schedule"]_vars

\* A run is orphaned only by the death of the worker that claimed it, by a database
\* error in the middle of its own execution, or by recipients that were replaced
\* under it; whatever else a worker meets, it gets round to all it has claimed.
OrphansHaveACause ==
    [][\A r \in Runs : (Orphan(r)' /\ ~Orphan(r)) =>
          \E w \in Workers :
              /\ r \in claimed[w]
              /\ \/ pc'[w] = "down"
                 \/ /\ run[w] = r
                    /\ pc'[w] = "idle"
                    /\ "db" \in Faults \/ snapshot[w] # edition]_vars

-----------------------------------------------------------------------------
(* Liveness *)

\* A worker keeps polling; an execution ends, and PostgreSQL's lock queue lets it
\* through in the end although others take the same rows again and again.
\* Requests once begun end too; nobody has to begin one.
Fairness ==
    /\ WF_vars(Tick)
    /\ \A w \in Workers :
          /\ WF_vars(CycleSelect(w))
          /\ WF_vars(Enqueue(w))
          /\ WF_vars(ClaimAndCommit(w))
          /\ WF_vars(\E r \in Runs : ExecuteClaimed(w, r))
    /\ \A p \in Procs : SF_vars(Execute(p))

\* Without failures every run is executed to the end: a queued run is claimed, by
\* whatever worker, and its retries run out.  (Runs are named by their schedules,
\* which have one active run at a time as long as nobody runs them by hand.)
RunsEnd ==
    \A s \in Schedules :
        LET Has(statuses) == \E r \in Runs : info[r].schedule = s /\ status[r] \in statuses
        IN Has({"queued"}) ~> Has(Terminal)

\* Without failures a due schedule gets its turn, although older ones whose runs
\* are still active stay at the head of the batch in every cycle, and others fire
\* and come due again and again.
DueSchedulesFire == \A s \in Schedules : Due(s) ~> ~Due(s)

-----------------------------------------------------------------------------
(* Refinement: what a reader of app.schedule_runs sees *)

Phase(r) ==
    CASE tx[r] # None \/ status[r] = "absent" -> "unknown"
      [] status[r] = "queued" /\ tx[r] = None -> "waiting"
      [] status[r] = "running" /\ tx[r] = None -> "running"
      [] status[r] \in Terminal /\ tx[r] = None -> "ended"

Lifecycle == INSTANCE RunLifecycle WITH
    Budgets    <- RetryBudgets \cup {0},
    phase      <- [r \in Runs |-> Phase(r)],
    executions <- [r \in Runs |-> attempts[r]],
    budget     <- [r \in Runs |-> info[r].max_retries]

\* The scheduler implements the life of a run: a run that ended never changes, one
\* that runs is executed again only by way of a counted retry, and no run is
\* executed more often than its max_retries allow.
ImplementsLifecycle == Lifecycle!Spec

=============================================================================
