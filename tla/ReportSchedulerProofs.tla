------------------------ MODULE ReportSchedulerProofs ------------------------
(***************************************************************************)
(* What becomes of a run and of its schedule, for every number of workers, *)
(* requests, schedules and recipients: who holds a run, the messages it    *)
(* sends, the attempts it counts, the due time that keeps its schedule     *)
(* alive, that ReportScheduler implements RunLifecycle, and what becomes   *)
(* of runs that nobody holds.                                              *)
(***************************************************************************)
EXTENDS ReportScheduler, TLAPS

-----------------------------------------------------------------------------
(* Type correctness *)

LEMMA InitType == Init => TypeOK
  BY SizesAssumption DEF Init, TypeOK, Upcoming, Runs, Active, Terminal, Executing

LEMMA NewRunType ==
    ASSUME TypeOK, NEW r, NEW p \in Procs, NEW s \in Schedules \cup {None},
           NEW trigger \in {"schedule", "schedule_manual", "manual"},
           NEW m \in RetryBudgets \cup {0}, NewRun(r, p, s, trigger, m)
    PROVE  /\ created' \in 0 .. MaxRuns
           /\ tx' \in [Runs -> Procs \cup {None}]
           /\ info' \in [Runs -> [schedule : Schedules \cup {None},
                                  trigger_type : {"schedule", "schedule_manual", "manual"},
                                  max_retries : RetryBudgets \cup {0}]]
  BY SizesAssumption DEF TypeOK, NewRun, Runs

LEMMA CycleType ==
    ASSUME TypeOK, NEW w \in Workers,
           CycleSelect(w) \/ Enqueue(w) \/ ClaimAndCommit(w)
    PROVE  TypeOK'
<1> USE ProcsAssumption, SizesAssumption
<1> w \in Procs BY DEF Procs
<1>1. CASE CycleSelect(w)
  BY <1>1 DEF TypeOK, CycleSelect, Batches, runVars, schedVars, execVars, Executing
<1>2. ASSUME NEW s \in Schedules, SkipSchedule(w, s)
      PROVE  TypeOK'
  BY <1>2 DEF TypeOK, SkipSchedule, runVars, schedVars, execVars
<1>3. ASSUME NEW s \in Schedules, FireSchedule(w, s)
      PROVE  TypeOK'
  <2>1. PICK r \in Runs, m \in RetryBudgets :
            NewRun(r, w, s, "schedule", m) /\ status' = [status EXCEPT ![r] = "queued"]
    BY <1>3 DEF FireSchedule
  <2>2. /\ created' \in 0 .. MaxRuns
        /\ tx' \in [Runs -> Procs \cup {None}]
        /\ info' \in [Runs -> [schedule : Schedules \cup {None},
                               trigger_type : {"schedule", "schedule_manual", "manual"},
                               max_retries : RetryBudgets \cup {0}]]
    BY <2>1, NewRunType
  <2> QED BY <1>3, <2>1, <2>2 DEF TypeOK, FireSchedule, schedVars, execVars, Active
<1>4. CASE ClaimAndCommit(w)
  BY <1>4 DEF TypeOK, ClaimAndCommit, EndCycle, Batches, Active, execVars, Upcoming,
              Executing
<1> QED BY <1>1, <1>2, <1>3, <1>4 DEF Enqueue

LEMMA CommitType ==
    ASSUME TypeOK, NEW p \in Procs, pc[p] \in Executing,
           NEW st \in Active \cup Terminal, CommitExecution(p, st),
           retry_count' \in [Runs -> Nat], next_retry_at' \in [Runs -> Nat],
           recorded' \in [Runs -> SUBSET Destinations]
    PROVE  TypeOK'
<1>1. run[p] \in Runs
  BY DEF TypeOK
<1>2. /\ status' \in [Runs -> {"absent"} \cup Active \cup Terminal]
      /\ attempts' \in [Runs -> Nat]
      /\ tx' \in [Runs -> Procs \cup {None}]
      /\ claimed' \in [Procs -> SUBSET Runs]
  BY <1>1 DEF TypeOK, CommitExecution, StillClaimed
<1>3. /\ pc' \in [Procs -> {"idle", "down", "enqueue", "edit"} \cup Executing]
      /\ run' \in [Procs -> Runs \cup {0}]
      /\ \A q \in Procs : pc'[q] \in Executing => run'[q] \in Runs
      /\ snapshot' \in [Procs -> 0 .. MaxEdits]
      /\ left' \in [Procs -> SUBSET Destinations]
      /\ delivered' \in [Procs -> SUBSET Destinations]
      /\ any_failure' \in [Procs -> BOOLEAN]
  BY SizesAssumption DEF TypeOK, CommitExecution, EndExecution, Executing
<1> QED BY <1>2, <1>3 DEF TypeOK, CommitExecution, schedVars, cycleVars

LEMMA RollbackType ==
    ASSUME TypeOK, NEW p \in Procs, Rollback(p),
           NEW C \in SUBSET Runs, claimed' = [claimed EXCEPT ![p] = C],
           NEW next \in {"idle", "down"}, pc' = [pc EXCEPT ![p] = next]
    PROVE  TypeOK'
<1>1. /\ status' \in [Runs -> {"absent"} \cup Active \cup Terminal]
      /\ tx' \in [Runs -> Procs \cup {None}]
      /\ claimed' \in [Procs -> SUBSET Runs]
      /\ batch' \in [Procs -> SUBSET Schedules]
      /\ todo' \in [Procs -> SUBSET Schedules]
      /\ fired' \in [Procs -> SUBSET Schedules]
  BY DEF TypeOK, Rollback, EndCycle
<1>2. /\ pc' \in [Procs -> {"idle", "down", "enqueue", "edit"} \cup Executing]
      /\ run' \in [Procs -> Runs \cup {0}]
      /\ \A q \in Procs : pc'[q] \in Executing => run'[q] \in Runs
      /\ snapshot' \in [Procs -> 0 .. MaxEdits]
      /\ left' \in [Procs -> SUBSET Destinations]
      /\ delivered' \in [Procs -> SUBSET Destinations]
      /\ any_failure' \in [Procs -> BOOLEAN]
  BY SizesAssumption DEF TypeOK, Rollback, EndExecution, Executing
<1> QED BY <1>1, <1>2 DEF TypeOK, Rollback, schedVars

LEMMA AbortType ==
    ASSUME TypeOK, NEW p \in Procs, AbortTransaction(p)
    PROVE  TypeOK'
<1>1. StillClaimed(p) \in SUBSET Runs
  BY DEF TypeOK, StillClaimed
<1> QED BY <1>1, RollbackType DEF AbortTransaction

LEMMA ExecuteType ==
    ASSUME TypeOK, NEW p \in Procs, Execute(p)
    PROVE  TypeOK'
<1>1. CASE RequeueRun(p)
  <2> DEFINE r == run[p]
             k == retry_count[r] + 1
  <2>1. /\ r \in Runs
        /\ retry_count[r] \in Nat
        /\ info[r].max_retries \in RetryBudgets \cup {0}
    BY <1>1 DEF TypeOK, RequeueRun, CanFail, Executing
  <2>2. info[r].max_retries \in RetryBudgets /\ k \in 1 .. info[r].max_retries
    <3>1. retry_count[r] < info[r].max_retries
      BY <1>1 DEF RequeueRun, RetryLeft
    <3>2. info[r].max_retries \in Nat
      <4>1. \A m \in RetryBudgets \cup {0} : m \in Nat
        BY SizesAssumption
      <4> HIDE DEF r
      <4> QED BY <2>1, <4>1
    <3>3. info[r].max_retries # 0
      BY <2>1, <3>1, <3>2
    <3> QED BY <2>1, <3>1, <3>2, <3>3
  <2>3. RetryDelay(k) \in Nat
    BY <2>2, DelayAssumption
  <2>4. retry_count' \in [Runs -> Nat]
    BY <1>1, <2>1 DEF TypeOK, RequeueRun, RetryCounted
  <2>5. next_retry_at' \in [Runs -> Nat]
    BY <1>1, <2>1, <2>3 DEF TypeOK, RequeueRun
  <2> QED BY <1>1, <2>4, <2>5, CommitType DEF TypeOK, RequeueRun, CanFail, Active, Executing
<1>2. CASE FailRun(p)
  BY <1>2, CommitType DEF TypeOK, FailRun, CanFail, Terminal, Executing
<1>3. CASE BeginDelivery(p)
  BY <1>3 DEF TypeOK, BeginDelivery, schedVars, runVars, cycleVars, execVars, Executing
<1>4. ASSUME NEW d \in Destinations, DeliverTo(p, d)
      PROVE  TypeOK'
  <2>1. run[p] \in Runs
    BY <1>4 DEF TypeOK, DeliverTo, Executing
  <2>2. sent' \in [Runs -> [Destinations -> Nat]]
    <3>1. CASE Send(p, d)
      BY <2>1, <3>1 DEF TypeOK, Send
    <3> QED BY <1>4, <3>1 DEF TypeOK, DeliverTo
  <2>3. /\ left' \in [Procs -> SUBSET Destinations]
        /\ delivered' \in [Procs -> SUBSET Destinations]
        /\ any_failure' \in [Procs -> BOOLEAN]
    <3>1. left' \in [Procs -> SUBSET Destinations]
      BY <1>4 DEF TypeOK, DeliverTo
    <3>2. delivered' \in [Procs -> SUBSET Destinations]
      <4>1. \/ delivered' = [delivered EXCEPT ![p] = @ \cup {d}]
            \/ UNCHANGED delivered
        BY <1>4 DEF DeliverTo
      <4>2. delivered[p] \cup {d} \in SUBSET Destinations
        BY DEF TypeOK
      <4>3. delivered \in [Procs -> SUBSET Destinations]
        BY DEF TypeOK
      <4> QED BY <4>1, <4>2, <4>3
    <3>3. any_failure' \in [Procs -> BOOLEAN]
      <4>1. any_failure' = [any_failure EXCEPT ![p] = TRUE] \/ UNCHANGED any_failure
        BY <1>4 DEF DeliverTo
      <4> QED BY <4>1 DEF TypeOK
    <3> QED BY <3>1, <3>2, <3>3
  <2>4. UNCHANGED <<schedVars, runVars, edition, recorded, pc, cycleVars, claimed,
                    run, snapshot, form>>
    BY <1>4 DEF DeliverTo
  <2>5. \A q \in Procs : pc'[q] \in Executing => run'[q] \in Runs
    BY <2>4 DEF TypeOK
  <2> QED BY <2>2, <2>3, <2>4, <2>5 DEF TypeOK, schedVars, runVars, cycleVars
<1>5. CASE FinishRun(p)
  <2>1. recorded' \in [Runs -> SUBSET Destinations]
    BY <1>5 DEF TypeOK, FinishRun, DeliveryRows
  <2> QED BY <1>5, <2>1, CommitType DEF TypeOK, FinishRun, Outcome, Terminal, Executing
<1>6. CASE StaleRecipient(p)
  BY <1>6, AbortType DEF StaleRecipient
<1> QED BY <1>1, <1>2, <1>3, <1>4, <1>5, <1>6 DEF Execute

LEMMA FailureType ==
    ASSUME TypeOK, NEW p \in Procs,
           DbError(p) \/ (p \in Workers /\ (Crash(p) \/ Restart(p)))
    PROVE  TypeOK'
<1>1. CASE DbError(p)
  BY <1>1, AbortType DEF DbError
<1>2. CASE Crash(p)
  <2>1. /\ Rollback(p)
        /\ claimed' = [claimed EXCEPT ![p] = {}]
        /\ pc' = [pc EXCEPT ![p] = "down"]
    BY <1>2 DEF Crash
  <2>2. {} \in SUBSET Runs /\ "down" \in {"idle", "down"}
    OBVIOUS
  <2> QED BY <2>1, <2>2, RollbackType
<1>3. CASE Restart(p)
  <2>1. /\ pc' \in [Procs -> {"idle", "down", "enqueue", "edit"} \cup Executing]
        /\ \A q \in Procs : pc'[q] \in Executing => run'[q] \in Runs
    BY <1>3 DEF TypeOK, Restart, execVars, Executing
  <2> QED BY <1>3, <2>1 DEF TypeOK, Restart, schedVars, runVars, cycleVars, execVars
<1> QED BY <1>1, <1>2, <1>3

LEMMA BeginType ==
    ASSUME TypeOK, NEW p \in Procs, NEW r \in Runs, Begin(p, r)
    PROVE  /\ run' \in [Procs -> Runs \cup {0}]
           /\ snapshot' \in [Procs -> 0 .. MaxEdits]
           /\ left' \in [Procs -> SUBSET Destinations]
           /\ pc' \in [Procs -> {"idle", "down", "enqueue", "edit"} \cup Executing]
           /\ \A q \in Procs : pc'[q] \in Executing => run'[q] \in Runs
           /\ UNCHANGED <<delivered, any_failure>>
  BY DEF TypeOK, Begin, Executing

LEMMA ExecuteClaimedType ==
    ASSUME TypeOK, NEW w \in Workers, NEW r \in Runs, ExecuteClaimed(w, r)
    PROVE  TypeOK'
<1>1. w \in Procs /\ Begin(w, r)
  BY DEF Procs, ExecuteClaimed
<1> QED BY <1>1, BeginType DEF TypeOK, ExecuteClaimed, schedVars, runVars, cycleVars

LEMMA WriteType ==
    ASSUME TypeOK, NEW c \in Procs, NEW active \in BOOLEAN, NEW next \in Upcoming \cup {Null},
           WriteSchedule(c, active, next), edition' \in 0 .. MaxEdits
    PROVE  TypeOK'
<1>1. next \in Int \cup {Null}
  BY SizesAssumption DEF Upcoming
<1>2. is_active' \in [Schedules -> BOOLEAN] /\ next_run_at' \in [Schedules -> Int \cup {Null}]
  BY <1>1 DEF TypeOK, WriteSchedule
<1>3. /\ pc' \in [Procs -> {"idle", "down", "enqueue", "edit"} \cup Executing]
      /\ form' \in [Procs -> {None} \cup
                     [schedule : Schedules, is_active : BOOLEAN, timed : BOOLEAN]]
      /\ \A q \in Procs : pc'[q] \in Executing => run'[q] \in Runs
  BY DEF TypeOK, WriteSchedule, execVars, Executing
<1> QED BY <1>2, <1>3 DEF TypeOK, WriteSchedule, runVars, cycleVars, execVars

LEMMA ClientType ==
    ASSUME TypeOK, NEW c \in Clients
    PROVE  /\ \A s \in Schedules \cup {None} : RunNow(c, s) => TypeOK'
           /\ \A s \in Schedules : ReadSchedule(c, s) => TypeOK'
           /\ ToggleSchedule(c) => TypeOK'
           /\ PatchSchedule(c) => TypeOK'
<1> c \in Procs BY DEF Procs
<1>1. ASSUME NEW s \in Schedules \cup {None}, RunNow(c, s)
      PROVE  TypeOK'
  <2> DEFINE trigger == IF s = None THEN "manual" ELSE "schedule_manual"
  <2>1. PICK r \in Runs, m \in RetryBudgets \cup {0} :
            /\ NewRun(r, c, s, trigger, m)
            /\ status' = [status EXCEPT ![r] = "running"]
            /\ Begin(c, r)
    BY <1>1 DEF RunNow
  <2>2. /\ created' \in 0 .. MaxRuns
        /\ tx' \in [Runs -> Procs \cup {None}]
        /\ info' \in [Runs -> [schedule : Schedules \cup {None},
                               trigger_type : {"schedule", "schedule_manual", "manual"},
                               max_retries : RetryBudgets \cup {0}]]
    BY <2>1, NewRunType
  <2>3. status' \in [Runs -> {"absent"} \cup Active \cup Terminal]
    BY <2>1 DEF TypeOK, Active
  <2> QED BY <1>1, <2>1, <2>2, <2>3, BeginType DEF TypeOK, RunNow, schedVars, cycleVars
<1>2. ASSUME NEW s \in Schedules, ReadSchedule(c, s)
      PROVE  TypeOK'
  <2>1. /\ pc' \in [Procs -> {"idle", "down", "enqueue", "edit"} \cup Executing]
        /\ \A q \in Procs : pc'[q] \in Executing => run'[q] \in Runs
        /\ form' \in [Procs -> {None} \cup
                       [schedule : Schedules, is_active : BOOLEAN, timed : BOOLEAN]]
    BY <1>2 DEF TypeOK, ReadSchedule, execVars, Executing
  <2> QED BY <1>2, <2>1 DEF TypeOK, ReadSchedule, schedVars, runVars, cycleVars, execVars
<1>3. CASE ToggleSchedule(c)
  <2>1. PICK active \in {~form[c].is_active}, t \in Upcoming :
            WriteSchedule(c, active, IF active THEN t ELSE Null)
    BY <1>3 DEF ToggleSchedule
  <2>2. active \in BOOLEAN
    BY Zenon
  <2>3. edition' \in 0 .. MaxEdits
    BY <1>3 DEF ToggleSchedule, TypeOK
  <2> QED BY <2>1, <2>2, <2>3, WriteType
<1>4. CASE PatchSchedule(c)
  <2>1. PICK active \in BOOLEAN, t \in Upcoming : WriteSchedule(c, active, t)
    BY <1>4 DEF PatchSchedule
  <2>2. edition' \in 0 .. MaxEdits
    BY <1>4, SizesAssumption DEF PatchSchedule, ReplaceRecipients, TypeOK
  <2> QED BY <2>1, <2>2, WriteType
<1> QED BY <1>1, <1>2, <1>3, <1>4

LEMMA TickType == TypeOK /\ Tick => TypeOK'
<1> SUFFICES ASSUME TypeOK, Tick PROVE TypeOK'
  OBVIOUS
<1>1. next_run_at' \in [Schedules -> Int \cup {Null}]
  BY ProcsAssumption DEF TypeOK, Tick, Sinks
<1>2. next_retry_at' \in [Runs -> Nat]
  BY DEF TypeOK, Tick, Sinks
<1> QED BY <1>1, <1>2 DEF TypeOK, Tick, cycleVars, execVars

LEMMA NextType == TypeOK /\ [Next]_vars => TypeOK'
<1> SUFFICES ASSUME TypeOK, [Next]_vars PROVE TypeOK'
  OBVIOUS
<1>1. ASSUME NEW w \in Workers,
             \/ CycleSelect(w) \/ Enqueue(w) \/ ClaimAndCommit(w)
             \/ \E r \in Runs : ExecuteClaimed(w, r)
             \/ Crash(w) \/ Restart(w)
      PROVE  TypeOK'
  BY <1>1, CycleType, ExecuteClaimedType, FailureType DEF Procs
<1>2. ASSUME NEW p \in Procs, Execute(p) \/ DbError(p)
      PROVE  TypeOK'
  BY <1>2, ExecuteType, FailureType
<1>3. ASSUME NEW c \in Clients,
             \/ \E s \in Schedules \cup {None} : RunNow(c, s)
             \/ \E s \in Schedules : ReadSchedule(c, s)
             \/ ToggleSchedule(c)
             \/ PatchSchedule(c)
      PROVE  TypeOK'
  BY <1>3, ClientType
<1>4. CASE UNCHANGED vars
  BY <1>4 DEF TypeOK, vars, schedVars, runVars, cycleVars, execVars
<1> QED BY <1>1, <1>2, <1>3, <1>4, TickType DEF Next

\* Every variable keeps its type, and a process that executes has a run.
THEOREM TypeCorrect == Spec => []TypeOK
  BY InitType, NextType, PTL DEF Spec

-----------------------------------------------------------------------------
(***************************************************************************)
(* Who holds a run, and which schedule rows are locked.  The counting of   *)
(* active runs sees committed runs only; what makes it conclusive is that  *)
(* every run it cannot see belongs to a transaction whose lock the worker  *)
(* would have met when it locked the schedule row.                         *)
(***************************************************************************)

Holds(p, r) == r \in claimed[p] \/ run[p] = r

Quiet ==
    \A p \in Procs :
        /\ pc[p] \notin Executing => run[p] = 0
        /\ pc[p] # "enqueue" => batch[p] = {}
        /\ todo[p] \subseteq batch[p]
        /\ p \in Clients => batch[p] = {} /\ claimed[p] = {}

Held ==
    \A p \in Procs, r \in Runs :
        Holds(p, r) => /\ status[r] = "running"
                       /\ p \in Clients => tx[r] = p
                       /\ p \in Workers => tx[r] = None

OneHolder ==
    \A p, q \in Procs, r \in Runs : Holds(p, r) /\ Holds(q, r) => p = q

Numbered == \A r \in Runs : status[r] # "absent" => r <= created

LocksApart ==
    /\ \A p, q \in Procs : p # q => batch[p] \cap batch[q] = {}
    /\ \A r \in Runs : tx[r] \in Clients => \A p \in Procs : info[r].schedule \notin batch[p]
    /\ \A r \in Runs : tx[r] \in Workers => info[r].schedule \in batch[tx[r]]

OwnInv == /\ TypeOK /\ Quiet /\ Held /\ OneHolder
          /\ Numbered /\ LocksApart /\ ScheduledRunStartsAlone

LEMMA InitOwn == Init => OwnInv
<1> SUFFICES ASSUME Init PROVE OwnInv
  OBVIOUS
<1>1. TypeOK
  BY InitType
<1>2. Quiet /\ Held /\ OneHolder
  BY DEF Init, Quiet, Held, OneHolder, Holds, Runs, Executing
<1>3. Numbered /\ LocksApart /\ ScheduledRunStartsAlone
  BY ProcsAssumption DEF Init, Numbered, LocksApart, ScheduledRunStartsAlone, Active, Procs
<1> QED BY <1>1, <1>2, <1>3 DEF OwnInv

LEMMA CycleSelectOwn ==
    ASSUME OwnInv, NEW w \in Workers, CycleSelect(w)
    PROVE  OwnInv'
<1> w \in Procs BY DEF Procs
<1> USE ProcsAssumption
<1>1. TypeOK'
  BY CycleType DEF OwnInv
<1>2. Quiet'
  BY DEF OwnInv, TypeOK, Quiet, CycleSelect, execVars, Executing
<1>3. Held' /\ OneHolder' /\ Numbered' /\ ScheduledRunStartsAlone'
  BY DEF OwnInv, Held, OneHolder, Holds, Numbered, ScheduledRunStartsAlone, CycleSelect,
         runVars, execVars
<1>4. LocksApart'
  <2>1. PICK B \in SUBSET Schedules :
            /\ batch' = [batch EXCEPT ![w] = B]
            /\ \A s \in B : ~RowLocked(s, w) /\ ~KeyShared(s)
    BY DEF CycleSelect, Batches
  <2>2. /\ \A q \in Procs \ {w} : batch'[q] = batch[q] /\ B \cap batch[q] = {}
        /\ batch'[w] = B
    BY <2>1 DEF RowLocked, OwnInv, TypeOK
  <2>3. batch[w] = {}
    BY DEF CycleSelect, OwnInv, Quiet
  <2>4. \A r \in Runs : tx[r] \in Clients => info[r].schedule \notin B
    BY <2>1 DEF KeyShared
  <2>5. UNCHANGED <<tx, info>>
    BY DEF CycleSelect, runVars
  <2>6. \A p, q \in Procs : p # q => batch'[p] \cap batch'[q] = {}
    BY <2>2 DEF OwnInv, LocksApart
  <2>7. \A r \in Runs : tx[r] \in Clients => \A p \in Procs : info[r].schedule \notin batch'[p]
    BY <2>2, <2>4 DEF OwnInv, LocksApart
  <2>8. \A r \in Runs : tx[r] \in Workers => tx[r] # w
    BY <2>3 DEF OwnInv, LocksApart
  <2>9. \A r \in Runs : tx[r] \in Workers => info[r].schedule \in batch'[tx[r]]
    BY <2>2, <2>8 DEF OwnInv, LocksApart, Procs
  <2> QED BY <2>5, <2>6, <2>7, <2>9 DEF LocksApart
<1> QED BY <1>1, <1>2, <1>3, <1>4 DEF OwnInv

LEMMA EnqueueOwn ==
    ASSUME OwnInv, NEW w \in Workers, Enqueue(w)
    PROVE  OwnInv'
<1> w \in Procs BY DEF Procs
<1> USE ProcsAssumption
<1>1. TypeOK'
  BY CycleType DEF OwnInv
<1>2. ASSUME NEW s \in Schedules, SkipSchedule(w, s)
      PROVE  OwnInv'
  BY <1>1, <1>2 DEF OwnInv, TypeOK, SkipSchedule, runVars, execVars, Quiet, Held, OneHolder,
                    Holds, Numbered, LocksApart, ScheduledRunStartsAlone
<1>3. ASSUME NEW s \in Schedules, FireSchedule(w, s)
      PROVE  OwnInv'
  <2>1. PICK r \in Runs, m \in RetryBudgets :
            NewRun(r, w, s, "schedule", m) /\ status' = [status EXCEPT ![r] = "queued"]
    BY <1>3 DEF FireSchedule
  <2>2. /\ s \in todo[w] /\ s \in batch[w] /\ ~HasActiveRun(s, w)
        /\ r = created + 1 /\ created' = r /\ created \in Nat
    BY <1>3, <2>1 DEF FireSchedule, NewRun, OwnInv, Quiet, TypeOK
  <2>3. UNCHANGED <<pc, batch, claimed, run>>
    BY <1>3 DEF FireSchedule, execVars
  <2>4. /\ \A q \in Runs : q # r => status'[q] = status[q] /\ tx'[q] = tx[q] /\ info'[q] = info[q]
        /\ status'[r] = "queued"
        /\ tx'[r] = w
        /\ info'[r] = [schedule |-> s, trigger_type |-> "schedule", max_retries |-> m]
    BY <2>1 DEF NewRun, OwnInv, TypeOK
  <2>5. status[r] = "absent"
    BY <2>2 DEF OwnInv, Numbered
  <2>6. Quiet'
    BY <1>3, <2>3 DEF FireSchedule, OwnInv, TypeOK, Quiet
  <2>7. Held' /\ OneHolder'
    BY <2>3, <2>4, <2>5 DEF OwnInv, Held, OneHolder, Holds
  <2>8. Numbered'
    BY <2>2, <2>4 DEF OwnInv, Numbered, Runs
  <2>9. LocksApart'
    BY <2>2, <2>3, <2>4 DEF OwnInv, LocksApart
  <2>10. \A q \in Runs : info[q].schedule = s => status[q] \notin Active
    BY <2>2 DEF HasActiveRun, Visible, OwnInv, LocksApart, TypeOK, Procs
  <2>11. ScheduledRunStartsAlone'
    BY <2>2, <2>4, <2>10 DEF OwnInv, ScheduledRunStartsAlone, Numbered, Runs, Active
  <2> QED BY <1>1, <2>6, <2>7, <2>8, <2>9, <2>11 DEF OwnInv
<1> QED BY <1>2, <1>3 DEF Enqueue

LEMMA ClaimOwn ==
    ASSUME OwnInv, NEW w \in Workers, ClaimAndCommit(w)
    PROVE  OwnInv'
<1> w \in Procs BY DEF Procs
<1> USE ProcsAssumption
<1>1. TypeOK'
  BY CycleType DEF OwnInv
<1>2. PICK C \in SUBSET Runs :
          /\ \A r \in C : status[r] = "queued" /\ tx[r] \in {None, w}
          /\ claimed' = [claimed EXCEPT ![w] = C]
          /\ status' = [r \in Runs |-> IF r \in C THEN "running" ELSE status[r]]
  BY DEF ClaimAndCommit, Batches, Runnable, Visible
<1>3. /\ tx' = [r \in Runs |-> IF tx[r] = w THEN None ELSE tx[r]]
      /\ batch' = [batch EXCEPT ![w] = {}]
      /\ todo' = [todo EXCEPT ![w] = {}]
      /\ pc' = [pc EXCEPT ![w] = "idle"]
      /\ UNCHANGED <<info, created, run>>
  BY DEF ClaimAndCommit, EndCycle, execVars
<1>4. run[w] = 0
  BY DEF ClaimAndCommit, OwnInv, Quiet, Executing
<1>5. Quiet'
  BY <1>2, <1>3, <1>4 DEF OwnInv, Quiet, TypeOK, Executing
<1>6. ASSUME NEW q \in Procs, NEW r \in Runs, Holds(q, r)'
      PROVE  \/ q = w /\ r \in C
             \/ q # w /\ Holds(q, r) /\ r \notin C
  <2>1. CASE q = w
    BY <1>2, <1>3, <1>4, <1>6, <2>1 DEF OwnInv, Holds, TypeOK, Runs
  <2>2. CASE q # w
    <3>1. Holds(q, r)
      BY <1>2, <1>3, <1>6, <2>2 DEF OwnInv, Holds, TypeOK
    <3> QED BY <1>2, <2>2, <3>1 DEF OwnInv, Held
  <2> QED BY <2>1, <2>2
<1>7. Held'
  <2> SUFFICES ASSUME NEW q \in Procs, NEW r \in Runs, Holds(q, r)'
               PROVE  /\ status'[r] = "running"
                      /\ q \in Clients => tx'[r] = q
                      /\ q \in Workers => tx'[r] = None
    BY DEF Held
  <2>1. CASE q = w /\ r \in C
    BY <1>2, <1>3, <2>1
  <2>2. CASE q # w /\ Holds(q, r) /\ r \notin C
    BY <1>2, <1>3, <2>2 DEF OwnInv, Held
  <2> QED BY <1>6, <2>1, <2>2
<1>8. OneHolder'
  BY <1>6 DEF OwnInv, OneHolder
<1>9. Numbered'
  BY <1>2, <1>3 DEF OwnInv, Numbered
<1>10. LocksApart'
  <2>1. \A p \in Procs : batch'[p] = IF p = w THEN {} ELSE batch[p]
    BY <1>3 DEF OwnInv, TypeOK
  <2>2. \A r \in Runs : tx'[r] \in Procs => tx'[r] = tx[r] /\ tx[r] # w
    BY <1>3
  <2> QED BY <1>3, <2>1, <2>2 DEF OwnInv, LocksApart, Procs
<1>11. ScheduledRunStartsAlone'
  BY <1>2, <1>3 DEF OwnInv, ScheduledRunStartsAlone, Active
<1> QED BY <1>1, <1>5, <1>7, <1>8, <1>9, <1>10, <1>11 DEF OwnInv

LEMMA ExecuteClaimedOwn ==
    ASSUME OwnInv, NEW w \in Workers, NEW r \in Runs, ExecuteClaimed(w, r)
    PROVE  OwnInv'
<1> w \in Procs BY DEF Procs
<1>1. TypeOK'
  BY ExecuteClaimedType DEF OwnInv
<1>2. /\ r \in claimed[w]
      /\ pc[w] = "idle"
      /\ pc' = [pc EXCEPT ![w] = "exec"]
      /\ run' = [run EXCEPT ![w] = r]
      /\ UNCHANGED <<status, info, tx, created, batch, todo, claimed>>
  BY DEF ExecuteClaimed, Begin, runVars, cycleVars
<1>3. Quiet'
  BY <1>2, ProcsAssumption DEF OwnInv, Quiet, TypeOK, Executing
<1>4. \A p \in Procs, q \in Runs : Holds(p, q)' => Holds(p, q)
  BY <1>2 DEF OwnInv, TypeOK, Holds
<1>5. Held' /\ OneHolder'
  BY <1>2, <1>4 DEF OwnInv, Held, OneHolder
<1>6. Numbered' /\ LocksApart' /\ ScheduledRunStartsAlone'
  BY <1>2 DEF OwnInv, Numbered, LocksApart, ScheduledRunStartsAlone
<1> QED BY <1>1, <1>3, <1>5, <1>6 DEF OwnInv

LEMMA RunNowOwn ==
    ASSUME OwnInv, NEW c \in Clients, NEW s \in Schedules \cup {None}, RunNow(c, s)
    PROVE  OwnInv'
<1> c \in Procs BY DEF Procs
<1> USE ProcsAssumption
<1> DEFINE trigger == IF s = None THEN "manual" ELSE "schedule_manual"
<1>1. TypeOK'
  BY ClientType DEF OwnInv
<1>2. PICK r \in Runs, m \in RetryBudgets \cup {0} :
          /\ NewRun(r, c, s, trigger, m)
          /\ status' = [status EXCEPT ![r] = "running"]
          /\ Begin(c, r)
  BY DEF RunNow
<1>3. /\ r = created + 1 /\ created' = r /\ created \in Nat
      /\ \A q \in Runs : q # r => status'[q] = status[q] /\ tx'[q] = tx[q] /\ info'[q] = info[q]
      /\ status'[r] = "running"
      /\ tx'[r] = c
      /\ info'[r] = [schedule |-> s, trigger_type |-> trigger, max_retries |-> m]
  BY <1>2 DEF NewRun, OwnInv, TypeOK
<1>4. /\ pc[c] = "idle"
      /\ pc' = [pc EXCEPT ![c] = "exec"]
      /\ run' = [run EXCEPT ![c] = r]
      /\ UNCHANGED <<batch, todo, claimed>>
      /\ \A w \in Workers : s \notin batch[w]
  BY <1>2 DEF RunNow, Begin, cycleVars
<1>5. status[r] = "absent"
  BY <1>3 DEF OwnInv, Numbered
<1>6. Quiet'
  BY <1>4 DEF OwnInv, Quiet, TypeOK, Executing
<1>7. ASSUME NEW p \in Procs, NEW q \in Runs, Holds(p, q)'
      PROVE  \/ Holds(p, q) /\ q # r
             \/ p = c /\ q = r
  <2>1. /\ \A x \in Procs : run'[x] = IF x = c THEN r ELSE run[x]
        /\ claimed' = claimed
    BY <1>4 DEF OwnInv, TypeOK
  <2>2. \A x \in Procs : ~Holds(x, r)
    BY <1>5 DEF OwnInv, Held
  <2> QED BY <1>7, <2>1, <2>2 DEF Holds
<1>8. Held' /\ OneHolder'
  BY <1>3, <1>5, <1>7 DEF OwnInv, Held, OneHolder
<1>9. Numbered'
  BY <1>3 DEF OwnInv, Numbered, Runs
<1>10. LocksApart'
  <2>1. \A p \in Procs : s \notin batch[p]
    BY <1>4 DEF OwnInv, Quiet, Procs
  <2>2. c \notin Workers
    OBVIOUS
  <2> QED BY <1>3, <1>4, <2>1, <2>2 DEF OwnInv, LocksApart
<1>11. ScheduledRunStartsAlone'
  BY <1>3 DEF OwnInv, ScheduledRunStartsAlone, Numbered, Runs, Active
<1> QED BY <1>1, <1>6, <1>8, <1>9, <1>10, <1>11 DEF OwnInv

\* Only a run that is being executed can be committed, so the new status replaces
\* an active one.
LEMMA CommitOwn ==
    ASSUME OwnInv, TypeOK', NEW p \in Procs, pc[p] \in Executing,
           NEW st \in Active \cup Terminal, CommitExecution(p, st)
    PROVE  OwnInv'
<1> USE ProcsAssumption
<1> DEFINE r == run[p]
<1>1. /\ r \in Runs /\ Holds(p, r)
      /\ status[r] = "running"
  BY DEF OwnInv, TypeOK, Held, Holds
<1>2. /\ status' = [status EXCEPT ![r] = st]
      /\ tx' = [tx EXCEPT ![r] = None]
      /\ claimed' = [claimed EXCEPT ![p] = claimed[p] \ {r}]
      /\ pc' = [pc EXCEPT ![p] = "idle"]
      /\ run' = [run EXCEPT ![p] = 0]
      /\ UNCHANGED <<info, created, batch, todo>>
  BY DEF CommitExecution, EndExecution, StillClaimed, cycleVars
<1>3. pc[p] # "enqueue" /\ batch[p] = {}
  BY DEF OwnInv, Quiet, Executing
<1>4. Quiet'
  BY <1>2, <1>3 DEF OwnInv, Quiet, TypeOK, Executing
<1>5. ASSUME NEW q \in Procs, NEW n \in Runs, Holds(q, n)'
      PROVE  Holds(q, n) /\ n # r
  <2>1. CASE q = p
    <3>1. claimed'[p] = claimed[p] \ {r} /\ run'[p] = 0
      BY <1>2 DEF OwnInv, TypeOK
    <3>2. n # 0
      BY DEF Runs
    <3> QED BY <1>5, <2>1, <3>1, <3>2, Zenon DEF Holds
  <2>2. CASE q # p
    <3>1. Holds(q, n)
      BY <1>2, <1>5, <2>2 DEF OwnInv, TypeOK, Holds
    <3> QED BY <1>1, <2>2, <3>1 DEF OwnInv, OneHolder
  <2> QED BY <2>1, <2>2
<1>6. Held'
  BY <1>2, <1>5 DEF OwnInv, Held, TypeOK
<1>7. OneHolder'
  BY <1>5 DEF OwnInv, OneHolder
<1>8. Numbered'
  BY <1>1, <1>2 DEF OwnInv, Numbered, TypeOK
<1>9. \A n \in Runs : tx'[n] \in Procs => tx'[n] = tx[n]
  BY <1>1, <1>2 DEF OwnInv, TypeOK
<1>10. LocksApart'
  BY <1>2, <1>9 DEF OwnInv, LocksApart, Procs
<1>11. \A n \in Runs : status'[n] \in Active => status[n] \in Active
  BY <1>1, <1>2 DEF OwnInv, TypeOK, Active
<1>12. ScheduledRunStartsAlone'
  BY <1>2, <1>11 DEF OwnInv, ScheduledRunStartsAlone
<1> QED BY <1>4, <1>6, <1>7, <1>8, <1>10, <1>12 DEF OwnInv

LEMMA RollbackOwn ==
    ASSUME OwnInv, TypeOK', NEW p \in Procs, Rollback(p),
           NEW C \in SUBSET claimed[p], run[p] \notin C,
           claimed' = [claimed EXCEPT ![p] = C],
           NEW next \in {"idle", "down"}, pc' = [pc EXCEPT ![p] = next]
    PROVE  OwnInv'
<1> USE ProcsAssumption
<1>1. /\ status' = [r \in Runs |-> IF tx[r] = p THEN "absent" ELSE status[r]]
      /\ tx' = [r \in Runs |-> IF tx[r] = p THEN None ELSE tx[r]]
      /\ batch' = [batch EXCEPT ![p] = {}]
      /\ todo' = [todo EXCEPT ![p] = {}]
      /\ run' = [run EXCEPT ![p] = 0]
      /\ UNCHANGED <<info, created>>
  BY DEF Rollback, EndCycle, EndExecution
<1>2. Quiet'
  BY <1>1 DEF OwnInv, Quiet, TypeOK, Executing
<1>3. ASSUME NEW q \in Procs, NEW n \in Runs, Holds(q, n)'
      PROVE  Holds(q, n) /\ tx[n] # p
  <2>1. Holds(q, n)
    BY <1>1, <1>3 DEF OwnInv, TypeOK, Holds, Runs
  <2>2. CASE q = p
    <3>1. n \in C
      BY <1>1, <1>3, <2>2 DEF OwnInv, TypeOK, Holds, Runs
    <3>2. ASSUME p \in Clients PROVE FALSE
      BY <2>1, <3>1, <3>2 DEF OwnInv, Quiet
    <3> QED BY <2>1, <2>2, <3>2 DEF OwnInv, Held, Procs
  <2>3. CASE q # p
    BY <2>1, <2>3 DEF OwnInv, Held, Procs
  <2> QED BY <2>1, <2>2, <2>3
<1>4. Held'
  BY <1>1, <1>3 DEF OwnInv, Held
<1>5. OneHolder'
  BY <1>3 DEF OwnInv, OneHolder
<1>6. Numbered'
  BY <1>1 DEF OwnInv, Numbered
<1>7. \A n \in Runs : tx'[n] \in Procs => tx'[n] = tx[n] /\ tx[n] # p
  BY <1>1
<1>8. \A q \in Procs : batch'[q] = IF q = p THEN {} ELSE batch[q]
  BY <1>1 DEF OwnInv, TypeOK
<1>9. LocksApart'
  BY <1>1, <1>7, <1>8 DEF OwnInv, LocksApart, Procs
<1>10. ScheduledRunStartsAlone'
  BY <1>1 DEF OwnInv, ScheduledRunStartsAlone, Active
<1> QED BY <1>2, <1>4, <1>5, <1>6, <1>9, <1>10 DEF OwnInv

\* Steps that touch neither runs nor locks
LEMMA ElsewhereOwn ==
    ASSUME OwnInv, TypeOK', UNCHANGED <<status, info, tx, created, batch, todo, claimed, run>>,
           \A p \in Procs : /\ pc'[p] \in Executing <=> pc[p] \in Executing
                            /\ pc'[p] = "enqueue" <=> pc[p] = "enqueue"
    PROVE  OwnInv'
<1>1. Quiet'
  BY DEF OwnInv, Quiet
<1>2. Held' /\ OneHolder' /\ Numbered' /\ LocksApart' /\ ScheduledRunStartsAlone'
  BY DEF OwnInv, Held, OneHolder, Holds, Numbered, LocksApart, ScheduledRunStartsAlone
<1> QED BY <1>1, <1>2 DEF OwnInv

LEMMA ExecuteOwn ==
    ASSUME OwnInv, NEW p \in Procs, Execute(p)
    PROVE  OwnInv'
<1>1. TypeOK'
  BY ExecuteType DEF OwnInv
<1>2. CASE RequeueRun(p)
  BY <1>1, <1>2, CommitOwn DEF RequeueRun, CanFail, Active, Executing
<1>3. CASE FailRun(p)
  BY <1>1, <1>3, CommitOwn DEF FailRun, CanFail, Terminal, Executing
<1>4. CASE BeginDelivery(p)
  BY <1>1, <1>4, ElsewhereOwn DEF BeginDelivery, runVars, cycleVars, execVars, Executing,
                                  OwnInv, TypeOK
<1>5. ASSUME NEW d \in Destinations, DeliverTo(p, d)
      PROVE  OwnInv'
  BY <1>1, <1>5, ElsewhereOwn DEF DeliverTo, runVars, cycleVars
<1>6. CASE FinishRun(p)
  BY <1>1, <1>6, CommitOwn DEF FinishRun, Outcome, Terminal, Executing
<1>7. CASE StaleRecipient(p)
  BY <1>1, <1>7, RollbackOwn DEF StaleRecipient, AbortTransaction, StillClaimed
<1> QED BY <1>2, <1>3, <1>4, <1>5, <1>6, <1>7 DEF Execute

LEMMA FailureOwn ==
    ASSUME OwnInv, NEW p \in Procs,
           DbError(p) \/ (p \in Workers /\ (Crash(p) \/ Restart(p)))
    PROVE  OwnInv'
<1>1. TypeOK'
  BY FailureType DEF OwnInv
<1>2. CASE DbError(p)
  BY <1>1, <1>2, RollbackOwn DEF DbError, AbortTransaction, StillClaimed
<1>3. CASE Crash(p)
  <2>1. /\ Rollback(p)
        /\ claimed' = [claimed EXCEPT ![p] = {}]
        /\ pc' = [pc EXCEPT ![p] = "down"]
    BY <1>3 DEF Crash
  <2>2. {} \in SUBSET claimed[p] /\ run[p] \notin {} /\ "down" \in {"idle", "down"}
    OBVIOUS
  <2> QED BY <1>1, <2>1, <2>2, RollbackOwn
<1>4. CASE Restart(p)
  BY <1>1, <1>4, ElsewhereOwn DEF Restart, runVars, cycleVars, execVars, Executing,
                                  OwnInv, TypeOK
<1> QED BY <1>2, <1>3, <1>4

LEMMA EditOwn ==
    ASSUME OwnInv, NEW c \in Clients,
           \/ \E s \in Schedules : ReadSchedule(c, s)
           \/ ToggleSchedule(c)
           \/ PatchSchedule(c)
    PROVE  OwnInv'
<1> c \in Procs BY DEF Procs
<1>1. TypeOK'
  BY ClientType DEF OwnInv
<1>2. ASSUME NEW s \in Schedules, ReadSchedule(c, s)
      PROVE  OwnInv'
  BY <1>1, <1>2, ElsewhereOwn DEF ReadSchedule, runVars, cycleVars, execVars, Executing,
                                  OwnInv, TypeOK
<1>3. ASSUME NEW active, NEW next, WriteSchedule(c, active, next)
      PROVE  OwnInv'
  BY <1>1, <1>3, ElsewhereOwn DEF WriteSchedule, runVars, cycleVars, execVars, Executing,
                                  OwnInv, TypeOK
<1> QED BY <1>2, <1>3 DEF ToggleSchedule, PatchSchedule

LEMMA NextOwn == OwnInv /\ [Next]_vars => OwnInv'
<1> SUFFICES ASSUME OwnInv, [Next]_vars PROVE OwnInv'
  OBVIOUS
<1>1. ASSUME NEW w \in Workers,
             \/ CycleSelect(w) \/ Enqueue(w) \/ ClaimAndCommit(w)
             \/ \E r \in Runs : ExecuteClaimed(w, r)
             \/ Crash(w) \/ Restart(w)
      PROVE  OwnInv'
  BY <1>1, CycleSelectOwn, EnqueueOwn, ClaimOwn, ExecuteClaimedOwn, FailureOwn DEF Procs
<1>2. ASSUME NEW p \in Procs, Execute(p) \/ DbError(p)
      PROVE  OwnInv'
  BY <1>2, ExecuteOwn, FailureOwn
<1>3. ASSUME NEW c \in Clients,
             \/ \E s \in Schedules \cup {None} : RunNow(c, s)
             \/ \E s \in Schedules : ReadSchedule(c, s)
             \/ ToggleSchedule(c)
             \/ PatchSchedule(c)
      PROVE  OwnInv'
  BY <1>3, RunNowOwn, EditOwn
<1>4. CASE Tick
  BY <1>4, TickType, ElsewhereOwn DEF OwnInv, Tick, cycleVars, execVars
<1>5. CASE UNCHANGED vars
  BY <1>5, NextType, ElsewhereOwn DEF OwnInv, vars, runVars, cycleVars, execVars
<1> QED BY <1>1, <1>2, <1>3, <1>4, <1>5 DEF Next

\* Every reachable state satisfies the invariant that the two theorems below need:
\* a run has one holder, and a run the enqueue cannot see has a lock it would meet.
THEOREM OwnInvariant == Spec => []OwnInv
  BY InitOwn, NextOwn, PTL DEF Spec

\* However many workers poll, crash and retry, a run is held by one process.
THEOREM OneHolderPerRun == Spec => []SingleHolder
<1>1. OwnInv => SingleHolder
  BY DEF OwnInv, Held, OneHolder, Holds, SingleHolder, Holders, Committed
<1> QED BY <1>1, OwnInvariant, PTL

\* The scheduler never starts a run of a schedule next to another active one.
THEOREM ScheduledRunsStartAlone == Spec => []ScheduledRunStartsAlone
<1>1. OwnInv => ScheduledRunStartsAlone
  BY DEF OwnInv
<1> QED BY <1>1, OwnInvariant, PTL

-----------------------------------------------------------------------------
(***************************************************************************)
(* Due times.  A request writes NULL only together with is_active = FALSE, *)
(* and a schedule that was inactive when it was read only becomes active   *)
(* together with a time; so the columns never part, whichever of them the  *)
(* UPDATE leaves out.                                                      *)
(***************************************************************************)

FormsFilled ==
    \A p \in Procs :
        pc[p] = "edit" =>
            form[p] \in [schedule : Schedules, is_active : BOOLEAN, timed : BOOLEAN]

LEMMA FormsStep == TypeOK /\ FormsFilled /\ [Next]_vars => FormsFilled'
<1> SUFFICES ASSUME TypeOK, FormsFilled, [Next]_vars PROVE FormsFilled'
  OBVIOUS
<1>1. ASSUME NEW p \in Procs, NEW at \in {"idle", "down", "enqueue", "exec", "deliver"},
             pc' = [pc EXCEPT ![p] = at], form' = form
      PROVE  FormsFilled'
  BY <1>1 DEF TypeOK, FormsFilled
<1>2. ASSUME UNCHANGED <<pc, form>> PROVE FormsFilled'
  BY <1>2 DEF FormsFilled
<1>3. ASSUME NEW w \in Workers,
             \/ CycleSelect(w) \/ Enqueue(w) \/ ClaimAndCommit(w)
             \/ \E r \in Runs : ExecuteClaimed(w, r)
             \/ Crash(w) \/ Restart(w)
      PROVE  FormsFilled'
  BY <1>1, <1>2, <1>3 DEF CycleSelect, Enqueue, SkipSchedule, FireSchedule, ClaimAndCommit,
                          ExecuteClaimed, Begin, Crash, Rollback, Restart, Procs
<1>4. ASSUME NEW p \in Procs, Execute(p) \/ DbError(p)
      PROVE  FormsFilled'
  BY <1>1, <1>2, <1>4 DEF Execute, RequeueRun, FailRun, BeginDelivery, DeliverTo, FinishRun,
                          DbError, StaleRecipient, CommitExecution, AbortTransaction, Rollback
<1>5. ASSUME NEW c \in Clients, NEW s \in Schedules \cup {None}, RunNow(c, s)
      PROVE  FormsFilled'
  BY <1>1, <1>5 DEF RunNow, Begin, Procs
<1>6. ASSUME NEW c \in Clients, NEW s \in Schedules, ReadSchedule(c, s)
      PROVE  FormsFilled'
  <2>1. /\ \A p \in Procs : p # c => pc'[p] = pc[p] /\ form'[p] = form[p]
        /\ form'[c] = [schedule |-> s, is_active |-> is_active[s],
                        timed |-> next_run_at[s] # Null]
    BY <1>6 DEF ReadSchedule, TypeOK, Procs
  <2>2. form'[c] \in [schedule : Schedules, is_active : BOOLEAN, timed : BOOLEAN]
    BY <2>1 DEF TypeOK
  <2> QED BY <2>1, <2>2 DEF FormsFilled
<1>7. ASSUME NEW c \in Clients, NEW active, NEW next, WriteSchedule(c, active, next)
      PROVE  FormsFilled'
  BY <1>7 DEF WriteSchedule, FormsFilled, TypeOK, Procs
<1>8. ASSUME NEW c \in Clients, ToggleSchedule(c) \/ PatchSchedule(c)
      PROVE  FormsFilled'
  BY <1>7, <1>8 DEF ToggleSchedule, PatchSchedule
<1>9. CASE Tick \/ UNCHANGED vars
  BY <1>2, <1>9 DEF Tick, vars
<1> QED BY <1>3, <1>4, <1>5, <1>6, <1>8, <1>9 DEF Next

LEMMA TimedStep ==
    TypeOK /\ FormsFilled /\ ActiveScheduleIsTimed /\ [Next]_vars => ActiveScheduleIsTimed'
<1> SUFFICES ASSUME TypeOK, FormsFilled, ActiveScheduleIsTimed, [Next]_vars
             PROVE  ActiveScheduleIsTimed'
  OBVIOUS
<1> USE ProcsAssumption
<1>1. ASSUME UNCHANGED schedVars
      PROVE  ActiveScheduleIsTimed'
  BY <1>1 DEF ActiveScheduleIsTimed, schedVars
<1>2. ASSUME NEW w \in Workers, ClaimAndCommit(w)
      PROVE  ActiveScheduleIsTimed'
  <2>1. PICK next \in [fired[w] -> Upcoming] :
            next_run_at' = [s \in Schedules |-> IF s \in fired[w] THEN next[s]
                                                                  ELSE next_run_at[s]]
    BY <1>2 DEF ClaimAndCommit
  <2>2. \A s \in fired[w] : next[s] # Null
    BY <2>1 DEF Upcoming
  <2>3. UNCHANGED is_active
    BY <1>2 DEF ClaimAndCommit
  <2> QED BY <2>1, <2>2, <2>3 DEF ActiveScheduleIsTimed
<1>3. ASSUME NEW c \in Clients, NEW active \in BOOLEAN, NEW next \in Upcoming \cup {Null},
             next = Null => active = FALSE /\ form[c].is_active = TRUE,
             WriteSchedule(c, active, next)
      PROVE  ActiveScheduleIsTimed'
  <2> DEFINE s == form[c].schedule
  <2>1. /\ is_active' = [is_active EXCEPT ![s] = IF active = form[c].is_active THEN @ ELSE active]
        /\ next_run_at' = [next_run_at EXCEPT ![s] = IF CarriesTime(c, next) THEN next ELSE @]
    BY <1>3 DEF WriteSchedule
  <2>2. \A x \in Schedules : x # s => is_active'[x] = is_active[x] /\ next_run_at'[x] = next_run_at[x]
    BY <2>1 DEF TypeOK
  <2>3. CASE next = Null
    <3>1. s \in Schedules => is_active'[s] = FALSE
      BY <1>3, <2>1, <2>3 DEF TypeOK
    <3> QED BY <2>2, <3>1 DEF ActiveScheduleIsTimed
  <2>4. CASE next # Null
    <3>1. s \in Schedules => next_run_at'[s] = next
      BY <2>1, <2>4 DEF TypeOK, CarriesTime
    <3> QED BY <2>2, <2>4, <3>1 DEF ActiveScheduleIsTimed
  <2> QED BY <2>3, <2>4
<1>4. ASSUME NEW c \in Clients, ToggleSchedule(c)
      PROVE  ActiveScheduleIsTimed'
  <2>1. form[c].is_active \in BOOLEAN
    BY <1>4 DEF ToggleSchedule, FormsFilled, Procs
  <2>2. PICK t \in Upcoming :
            LET active == ~form[c].is_active
            IN WriteSchedule(c, active, IF active THEN t ELSE Null)
    BY <1>4 DEF ToggleSchedule
  <2>3. t # Null
    BY DEF Upcoming
  <2> QED BY <1>3, <2>1, <2>2, <2>3
<1>5. ASSUME NEW c \in Clients, PatchSchedule(c)
      PROVE  ActiveScheduleIsTimed'
  <2>1. PICK active \in BOOLEAN, t \in Upcoming : WriteSchedule(c, active, t)
    BY <1>5 DEF PatchSchedule
  <2>2. t # Null
    BY DEF Upcoming
  <2> QED BY <1>3, <2>1, <2>2
<1>6. CASE Tick
  BY <1>6 DEF Tick, ActiveScheduleIsTimed, TypeOK
<1>7. ASSUME NEW w \in Workers,
             \/ CycleSelect(w) \/ Enqueue(w)
             \/ \E r \in Runs : ExecuteClaimed(w, r)
             \/ Crash(w) \/ Restart(w)
      PROVE  UNCHANGED schedVars
  BY <1>7 DEF CycleSelect, Enqueue, SkipSchedule, FireSchedule, ExecuteClaimed, Crash,
              Rollback, Restart, schedVars
<1>8. ASSUME NEW p \in Procs, Execute(p) \/ DbError(p)
      PROVE  UNCHANGED schedVars
  BY <1>8 DEF Execute, RequeueRun, FailRun, BeginDelivery, DeliverTo, FinishRun, DbError,
              StaleRecipient, CommitExecution, AbortTransaction, Rollback, schedVars
<1>9. ASSUME NEW c \in Clients,
             \/ \E s \in Schedules \cup {None} : RunNow(c, s)
             \/ \E s \in Schedules : ReadSchedule(c, s)
      PROVE  UNCHANGED schedVars
  BY <1>9 DEF RunNow, ReadSchedule, schedVars
<1>10. CASE UNCHANGED vars
  BY <1>1, <1>10 DEF vars
<1> QED BY <1>1, <1>2, <1>4, <1>5, <1>6, <1>7, <1>8, <1>9, <1>10 DEF Next

\* Whatever requests and workers overwrite, an active schedule has a due time.
THEOREM ActiveSchedulesAreTimed == Spec => []ActiveScheduleIsTimed
<1>1. Init => FormsFilled /\ ActiveScheduleIsTimed
  BY ProcsAssumption DEF Init, FormsFilled, ActiveScheduleIsTimed, Upcoming
<1> QED BY <1>1, FormsStep, TimedStep, TypeCorrect, PTL DEF Spec

-----------------------------------------------------------------------------
(***************************************************************************)
(* Messages.  Until its first delivery a run has sent nothing, and all     *)
(* that sends it back into the queue happens before; from then on it is in *)
(* the hands of one process, which serves each destination once, and       *)
(* afterwards it is never queued again, however that process ends.         *)
(***************************************************************************)

Unsent(r) == recorded[r] = {} /\ \A d \in Destinations : sent[r][d] = 0

\* What p knows of the messages of run r, which it delivers
Delivering(p, r) ==
    /\ recorded[r] = {}
    /\ \A d \in Destinations :
          /\ d \in left[p] => sent[r][d] = 0
          /\ d \in delivered[p] => sent[r][d] > 0
          /\ (~any_failure[p] /\ d \notin delivered[p]) => sent[r][d] = 0

Pending ==
    /\ \A r \in Runs : (r > created \/ status[r] \in {"queued", "failed"}) => Unsent(r)
    /\ \A p \in Procs :
          /\ \A r \in claimed[p] : r # run[p] => Unsent(r)
          /\ pc[p] # "deliver" => delivered[p] = {} /\ any_failure[p] = FALSE
          /\ pc[p] = "exec" => Unsent(run[p])
          /\ pc[p] = "deliver" => Delivering(p, run[p])

OnRecord ==
    \A r \in Runs :
        LET Left == {d \in Destinations : sent[r][d] > 0} IN
        /\ recorded[r] \subseteq Left
        /\ status[r] = "succeeded" => recorded[r] = Left

MailInv == Pending /\ MailAtMostOnce /\ OnRecord

LEMMA InitMail == Init => MailInv
<1> SUFFICES ASSUME Init PROVE MailInv
  OBVIOUS
<1>1. Pending
  BY DEF Init, Pending, Unsent
<1>2. MailAtMostOnce /\ OnRecord
  BY DEF Init, MailAtMostOnce, OnRecord
<1> QED BY <1>1, <1>2 DEF MailInv

\* Steps that send nothing and leave the progress of the executions alone
LEMMA NoMailMail ==
    ASSUME OwnInv, MailInv,
           UNCHANGED <<sent, recorded, created, status, claimed, run, left, delivered,
                       any_failure>>,
           \A p \in Procs : /\ pc'[p] = "exec" => pc[p] = "exec"
                            /\ pc'[p] = "deliver" <=> pc[p] = "deliver"
    PROVE  MailInv'
<1>1. Pending'
  BY DEF MailInv, Pending, Unsent, Delivering
<1>2. MailAtMostOnce' /\ OnRecord'
  BY DEF MailInv, MailAtMostOnce, OnRecord
<1> QED BY <1>1, <1>2 DEF MailInv

LEMMA EnqueueMail ==
    ASSUME OwnInv, MailInv, NEW w \in Workers, Enqueue(w)
    PROVE  MailInv'
<1>1. ASSUME NEW s \in Schedules, SkipSchedule(w, s)
      PROVE  MailInv'
  BY <1>1, NoMailMail DEF SkipSchedule, runVars, execVars
<1>2. ASSUME NEW s \in Schedules, FireSchedule(w, s)
      PROVE  MailInv'
  <2>1. PICK r \in Runs : /\ r = created + 1 /\ created' = r
                          /\ status' = [status EXCEPT ![r] = "queued"]
    BY <1>2 DEF FireSchedule, NewRun
  <2>2. UNCHANGED <<pc, sent, recorded, claimed, run, left, delivered, any_failure>>
    BY <1>2 DEF FireSchedule, execVars
  <2>3. created \in Nat /\ status \in [Runs -> {"absent"} \cup Active \cup Terminal]
    BY DEF OwnInv, TypeOK
  <2>4. \A n \in Runs : (n > created' \/ status'[n] \in {"queued", "failed"}) => Unsent(n)
    BY <2>1, <2>3 DEF MailInv, Pending, Runs
  <2>5. Pending'
    BY <2>2, <2>4 DEF MailInv, Pending, Unsent, Delivering
  <2>6. MailAtMostOnce' /\ OnRecord'
    BY <2>1, <2>2, <2>3 DEF MailInv, MailAtMostOnce, OnRecord
  <2> QED BY <2>5, <2>6 DEF MailInv
<1> QED BY <1>1, <1>2 DEF Enqueue

LEMMA ClaimMail ==
    ASSUME OwnInv, MailInv, NEW w \in Workers, ClaimAndCommit(w)
    PROVE  MailInv'
<1> w \in Procs BY DEF Procs
<1>1. PICK C \in SUBSET Runs :
          /\ \A r \in C : status[r] = "queued"
          /\ claimed' = [claimed EXCEPT ![w] = C]
          /\ status' = [r \in Runs |-> IF r \in C THEN "running" ELSE status[r]]
  BY DEF ClaimAndCommit, Batches, Runnable
<1>2. /\ UNCHANGED <<created, sent, recorded, run, left, delivered, any_failure>>
      /\ pc' = [pc EXCEPT ![w] = "idle"]
      /\ pc[w] = "enqueue"
  BY DEF ClaimAndCommit, execVars
<1>3. \A r \in Runs : (r > created' \/ status'[r] \in {"queued", "failed"}) => Unsent(r)
  BY <1>1, <1>2 DEF MailInv, Pending
<1>4. \A p \in Procs : \A r \in claimed'[p] : r # run[p] => Unsent(r)
  BY <1>1 DEF MailInv, Pending, OwnInv, TypeOK
<1>5. \A p \in Procs : pc'[p] = IF p = w THEN "idle" ELSE pc[p]
  BY <1>2 DEF OwnInv, TypeOK
<1>6. Pending'
  BY <1>2, <1>3, <1>4, <1>5 DEF MailInv, Pending, Unsent, Delivering
<1>7. MailAtMostOnce' /\ OnRecord'
  BY <1>1, <1>2 DEF MailInv, MailAtMostOnce, OnRecord
<1> QED BY <1>6, <1>7 DEF MailInv

\* A run is executed for the first time, or again: nothing of it has been sent.
LEMMA BeginMail ==
    ASSUME OwnInv, MailInv, NEW p \in Procs, NEW r \in Runs, Begin(p, r), Unsent(r),
           pc[p] \notin Executing,
           UNCHANGED <<sent, recorded, claimed>>,
           created' \in Nat, created' >= created,
           \A n \in Runs : n # r => status'[n] = status[n],
           status'[r] = "running"
    PROVE  MailInv'
<1>1. /\ run' = [run EXCEPT ![p] = r]
      /\ left' = [left EXCEPT ![p] = Destinations]
      /\ pc' = [pc EXCEPT ![p] = "exec"]
      /\ UNCHANGED <<delivered, any_failure>>
  BY DEF Begin
<1>2. /\ \A q \in Procs : q # p => /\ run'[q] = run[q] /\ left'[q] = left[q]
                                   /\ pc'[q] = pc[q]
      /\ run'[p] = r /\ pc'[p] = "exec"
  BY <1>1 DEF OwnInv, TypeOK
<1>3. run[p] = 0
  BY DEF OwnInv, Quiet
<1>4. \A n \in Runs : (n > created' \/ status'[n] \in {"queued", "failed"}) => Unsent(n)
  BY DEF MailInv, Pending, OwnInv, TypeOK, Runs
<1>5. \A q \in Procs : \A n \in claimed[q] : n # run'[q] => Unsent(n)
  BY <1>2, <1>3 DEF MailInv, Pending, OwnInv, TypeOK, Runs
<1>6. \A q \in Procs : /\ pc'[q] # "deliver" => delivered[q] = {} /\ any_failure[q] = FALSE
                       /\ pc'[q] = "exec" => Unsent(run'[q])
  BY <1>2 DEF MailInv, Pending, Executing
<1>7. \A q \in Procs : pc'[q] = "deliver" => Delivering(q, run[q]) /\ q # p
  BY <1>2 DEF MailInv, Pending
<1>8. Pending'
  BY <1>1, <1>2, <1>4, <1>5, <1>6, <1>7 DEF Pending, Unsent, Delivering
<1>9. MailAtMostOnce' /\ OnRecord'
  BY DEF MailInv, MailAtMostOnce, OnRecord
<1> QED BY <1>8, <1>9 DEF MailInv

LEMMA ExecuteClaimedMail ==
    ASSUME OwnInv, MailInv, NEW w \in Workers, NEW r \in Runs, ExecuteClaimed(w, r)
    PROVE  MailInv'
<1> w \in Procs BY DEF Procs
<1>1. /\ pc[w] = "idle" /\ r \in claimed[w] /\ Begin(w, r)
      /\ UNCHANGED <<sent, recorded, claimed, created, status>>
  BY DEF ExecuteClaimed, runVars
<1>2. run[w] # r
  BY <1>1 DEF OwnInv, Quiet, Executing, Runs
<1>3. Unsent(r) /\ status[r] = "running" /\ created \in Nat /\ created >= created
  BY <1>1, <1>2 DEF MailInv, Pending, OwnInv, Held, Holds, TypeOK
<1> QED BY <1>1, <1>3, BeginMail DEF Executing

LEMMA RunNowMail ==
    ASSUME OwnInv, MailInv, NEW c \in Clients, NEW s \in Schedules \cup {None}, RunNow(c, s)
    PROVE  MailInv'
<1> c \in Procs BY DEF Procs
<1>1. PICK r \in Runs : /\ r = created + 1 /\ created' = r
                        /\ status' = [status EXCEPT ![r] = "running"]
                        /\ Begin(c, r)
  BY DEF RunNow, NewRun
<1>2. pc[c] = "idle" /\ UNCHANGED <<sent, recorded, claimed>>
  BY DEF RunNow
<1>3. created \in Nat /\ created' \in Nat /\ created' >= created /\ r > created
  BY <1>1 DEF OwnInv, TypeOK, Runs
<1>4. Unsent(r)
  BY <1>3 DEF MailInv, Pending
<1>5. status'[r] = "running" /\ \A n \in Runs : n # r => status'[n] = status[n]
  BY <1>1 DEF OwnInv, TypeOK
<1> QED BY <1>1, <1>2, <1>3, <1>4, <1>5, BeginMail DEF Executing

\* The process that executes a run is the only one that knows it.
LEMMA OthersElsewhere ==
    ASSUME OwnInv, NEW p \in Procs, pc[p] \in Executing
    PROVE  /\ run[p] \in Runs
           /\ status[run[p]] = "running"
           /\ run[p] <= created
           /\ \A q \in Procs \ {p} : run[q] # run[p] /\ run[p] \notin claimed[q]
<1>1. run[p] \in Runs
  BY DEF OwnInv, TypeOK
<1>2. status[run[p]] = "running"
  BY <1>1 DEF OwnInv, Held, Holds
<1> QED BY <1>1, <1>2 DEF OwnInv, OneHolder, Holds, Numbered

LEMMA CommitMail ==
    ASSUME OwnInv, MailInv, NEW p \in Procs, pc[p] \in Executing,
           NEW st \in Active \cup Terminal, CommitExecution(p, st),
           NEW Rows, recorded' = [recorded EXCEPT ![run[p]] = Rows],
           Rows \subseteq {d \in Destinations : sent[run[p]][d] > 0},
           st = "succeeded" => Rows = {d \in Destinations : sent[run[p]][d] > 0},
           st \in {"queued", "failed"} =>
               Rows = {} /\ \A d \in Destinations : sent[run[p]][d] = 0
    PROVE  MailInv'
<1> DEFINE r == run[p]
<1>1. /\ r \in Runs /\ r <= created /\ created \in Nat
      /\ \A q \in Procs \ {p} : run[q] # r /\ r \notin claimed[q]
  BY OthersElsewhere DEF OwnInv, TypeOK
<1>2. /\ UNCHANGED <<created, sent>>
      /\ \A n \in Runs : n # r => status'[n] = status[n] /\ recorded'[n] = recorded[n]
      /\ status'[r] = st
      /\ recorded'[r] = Rows
  BY <1>1 DEF CommitExecution, OwnInv, TypeOK
<1>3. /\ claimed'[p] = claimed[p] \ {r}
      /\ delivered'[p] = {}
      /\ any_failure'[p] = FALSE
      /\ pc'[p] = "idle"
      /\ \A q \in Procs \ {p} :
            /\ claimed'[q] = claimed[q] /\ run'[q] = run[q] /\ left'[q] = left[q]
            /\ delivered'[q] = delivered[q] /\ any_failure'[q] = any_failure[q]
            /\ pc'[q] = pc[q]
  BY DEF CommitExecution, EndExecution, StillClaimed, OwnInv, TypeOK
<1>4. \A n \in Runs : n # r /\ Unsent(n) => Unsent(n)'
  BY <1>2 DEF Unsent
<1>5. \A n \in Runs : (n > created' \/ status'[n] \in {"queued", "failed"}) => Unsent(n)'
  <2> SUFFICES ASSUME NEW n \in Runs, n > created' \/ status'[n] \in {"queued", "failed"}
               PROVE  Unsent(n)'
    OBVIOUS
  <2>1. CASE n = r
    <3>1. n \in Nat /\ ~(n > created)
      BY <1>1, <2>1 DEF Runs
    <3> QED BY <1>2, <2>1, <3>1 DEF Unsent
  <2>2. CASE n # r
    BY <1>2, <1>4, <2>2 DEF MailInv, Pending
  <2> QED BY <2>1, <2>2
<1>6. ASSUME NEW q \in Procs
      PROVE  /\ \A n \in claimed'[q] : n # run'[q] => Unsent(n)'
             /\ pc'[q] # "deliver" => delivered'[q] = {} /\ any_failure'[q] = FALSE
             /\ pc'[q] = "exec" => Unsent(run[q])' /\ q # p
             /\ pc'[q] = "deliver" => Delivering(q, run[q])' /\ q # p
  <2>1. CASE q = p
    BY <1>3, <1>4, <2>1 DEF MailInv, Pending, OwnInv, TypeOK
  <2>2. CASE q # p
    <3>1. \A n \in claimed'[q] : n # run'[q] => Unsent(n)'
      BY <1>1, <1>3, <1>4, <2>2 DEF MailInv, Pending, OwnInv, TypeOK
    <3>2. pc'[q] # "deliver" => delivered'[q] = {} /\ any_failure'[q] = FALSE
      BY <1>3, <2>2 DEF MailInv, Pending
    <3>3. pc'[q] \in Executing => run[q] \in Runs /\ run[q] # r /\ run'[q] = run[q]
      BY <1>1, <1>3, <2>2 DEF OwnInv, TypeOK
    <3>4. ASSUME pc'[q] = "exec" PROVE Unsent(run[q])'
      <4>1. pc[q] = "exec" /\ run'[q] = run[q]
        BY <1>3, <2>2, <3>4
      <4>2. Unsent(run[q])
        BY <4>1 DEF MailInv, Pending
      <4> QED BY <1>2, <3>3, <3>4, <4>1, <4>2 DEF Unsent, Executing
    <3>5. ASSUME pc'[q] = "deliver" PROVE Delivering(q, run[q])'
      <4>1. /\ pc[q] = "deliver" /\ run'[q] = run[q] /\ left'[q] = left[q]
            /\ delivered'[q] = delivered[q] /\ any_failure'[q] = any_failure[q]
        BY <1>3, <2>2, <3>5
      <4>2. Delivering(q, run[q])
        BY <4>1 DEF MailInv, Pending
      <4> QED BY <1>2, <3>3, <3>5, <4>1, <4>2 DEF Delivering, Executing
    <3> QED BY <2>2, <3>1, <3>2, <3>4, <3>5
  <2> QED BY <2>1, <2>2
<1>7. Pending'
  BY <1>5, <1>6 DEF Pending
<1>8. MailAtMostOnce' /\ OnRecord'
  BY <1>1, <1>2 DEF MailInv, MailAtMostOnce, OnRecord
<1> QED BY <1>7, <1>8 DEF MailInv

LEMMA DeliverMail ==
    ASSUME OwnInv, MailInv, NEW p \in Procs, NEW d \in Destinations, DeliverTo(p, d)
    PROVE  MailInv'
<1> DEFINE r == run[p]
<1>1. pc[p] = "deliver" /\ d \in left[p] /\ Delivering(p, r)
  BY DEF DeliverTo, MailInv, Pending
<1>2. /\ r \in Runs /\ r <= created /\ created \in Nat /\ status[r] = "running"
      /\ \A q \in Procs \ {p} : run[q] # r /\ r \notin claimed[q]
  BY <1>1, OthersElsewhere DEF OwnInv, TypeOK, Executing
<1>3. UNCHANGED <<created, status, recorded, pc, claimed, run>>
  BY DEF DeliverTo, runVars
<1>4. /\ left'[p] = left[p] \ {d}
      /\ \A q \in Procs \ {p} : left'[q] = left[q] /\ delivered'[q] = delivered[q]
                                /\ any_failure'[q] = any_failure[q]
  BY DEF DeliverTo, OwnInv, TypeOK
<1>5. /\ \A n \in Runs : n # r => sent'[n] = sent[n]
      /\ \A e \in Destinations : e # d => sent'[r][e] = sent[r][e]
      /\ sent[r][d] = 0 /\ sent'[r][d] \in {0, 1}
  <2>1. CASE Send(p, d)
    BY <1>1, <1>2, <2>1 DEF Send, Delivering, OwnInv, TypeOK
  <2>2. CASE UNCHANGED sent
    BY <1>1, <2>2 DEF Delivering
  <2> QED BY <2>1, <2>2 DEF DeliverTo
<1>6. \/ /\ sent'[r][d] = 1
         /\ delivered'[p] = delivered[p] \cup {d}
         /\ any_failure'[p] = any_failure[p]
      \/ /\ any_failure'[p] = TRUE
         /\ delivered'[p] = delivered[p]
  BY <1>1, <1>2, <1>5 DEF DeliverTo, Send, OwnInv, TypeOK
<1>7. \A n \in Runs : n # r /\ Unsent(n) => Unsent(n)'
  BY <1>3, <1>5 DEF Unsent
<1>8. \A n \in Runs : (n > created' \/ status'[n] \in {"queued", "failed"}) => Unsent(n)'
  <2>1. ~(r > created)
    BY <1>2 DEF Runs
  <2> QED BY <1>2, <1>3, <1>7, <2>1 DEF MailInv, Pending
<1>9. Delivering(p, r)'
  <2>1. recorded'[r] = {}
    BY <1>1, <1>3 DEF Delivering
  <2>2. \A e \in Destinations : e \in left'[p] => sent'[r][e] = 0
    BY <1>1, <1>4, <1>5 DEF Delivering
  <2>3. \A e \in Destinations : e \in delivered'[p] => sent'[r][e] > 0
    <3>1. d \notin delivered[p]
      BY <1>1, <1>5 DEF Delivering
    <3> QED BY <1>1, <1>5, <1>6, <3>1 DEF Delivering
  <2>4. \A e \in Destinations :
            (~any_failure'[p] /\ e \notin delivered'[p]) => sent'[r][e] = 0
    BY <1>1, <1>5, <1>6 DEF Delivering
  <2> QED BY <1>3, <2>1, <2>2, <2>3, <2>4 DEF Delivering
<1>10. ASSUME NEW q \in Procs
       PROVE  /\ \A n \in claimed'[q] : n # run'[q] => Unsent(n)'
              /\ pc'[q] # "deliver" => delivered'[q] = {} /\ any_failure'[q] = FALSE
              /\ pc'[q] = "exec" => Unsent(run[q])'
              /\ pc'[q] = "deliver" => Delivering(q, run[q])'
  <2>1. CASE q = p
    BY <1>1, <1>3, <1>7, <1>9, <2>1 DEF MailInv, Pending, OwnInv, TypeOK
  <2>2. CASE q # p
    <3>1. \A n \in claimed'[q] : n # run'[q] => Unsent(n)'
      BY <1>2, <1>3, <1>7, <2>2 DEF MailInv, Pending, OwnInv, TypeOK
    <3>2. pc'[q] # "deliver" => delivered'[q] = {} /\ any_failure'[q] = FALSE
      BY <1>3, <1>4, <2>2 DEF MailInv, Pending
    <3>3. pc'[q] \in Executing => run[q] \in Runs /\ run[q] # r
      BY <1>2, <1>3, <2>2 DEF OwnInv, TypeOK
    <3>4. pc'[q] = "exec" => Unsent(run[q])'
      BY <1>3, <1>5, <2>2, <3>3 DEF MailInv, Pending, Unsent, Executing
    <3>5. pc'[q] = "deliver" => Delivering(q, run[q])'
      BY <1>3, <1>4, <1>5, <2>2, <3>3 DEF MailInv, Pending, Delivering, Executing
    <3> QED BY <3>1, <3>2, <3>4, <3>5
  <2> QED BY <2>1, <2>2
<1>11. Pending'
  BY <1>3, <1>8, <1>10 DEF Pending
<1>12. MailAtMostOnce'
  BY <1>5 DEF MailInv, MailAtMostOnce
<1>13. OnRecord'
  <2>1. recorded'[r] = {} /\ status'[r] = "running"
    BY <1>1, <1>2, <1>3 DEF Delivering
  <2> QED BY <1>3, <1>5, <2>1 DEF MailInv, OnRecord
<1> QED BY <1>11, <1>12, <1>13 DEF MailInv

\* A rollback takes back rows, never messages; the run it takes back, or leaves
\* behind as "running", is not executed again.
LEMMA RollbackMail ==
    ASSUME OwnInv, MailInv, NEW p \in Procs, Rollback(p),
           NEW C \in SUBSET claimed[p], run[p] \notin C,
           claimed' = [claimed EXCEPT ![p] = C],
           NEW at \in {"idle", "down"}, pc' = [pc EXCEPT ![p] = at]
    PROVE  MailInv'
<1>1. /\ status' = [r \in Runs |-> IF tx[r] = p THEN "absent" ELSE status[r]]
      /\ UNCHANGED <<created, sent, recorded>>
  BY DEF Rollback
<1>2. /\ claimed'[p] = C /\ pc'[p] = at /\ delivered'[p] = {} /\ any_failure'[p] = FALSE
      /\ \A q \in Procs \ {p} :
            /\ claimed'[q] = claimed[q] /\ run'[q] = run[q] /\ left'[q] = left[q]
            /\ delivered'[q] = delivered[q] /\ any_failure'[q] = any_failure[q]
            /\ pc'[q] = pc[q]
  BY DEF Rollback, EndExecution, OwnInv, TypeOK
<1>3. \A n : Unsent(n)' <=> Unsent(n)
  BY <1>1 DEF Unsent
<1>4. \A n \in Runs : (n > created' \/ status'[n] \in {"queued", "failed"}) => Unsent(n)'
  BY <1>1, <1>3 DEF MailInv, Pending
<1>5. ASSUME NEW q \in Procs
      PROVE  /\ \A n \in claimed'[q] : n # run'[q] => Unsent(n)'
             /\ pc'[q] # "deliver" => delivered'[q] = {} /\ any_failure'[q] = FALSE
             /\ pc'[q] = "exec" => Unsent(run[q])'
             /\ pc'[q] = "deliver" => Delivering(q, run[q])'
  <2>1. CASE q = p
    BY <1>2, <1>3, <2>1 DEF MailInv, Pending
  <2>2. CASE q # p
    BY <1>1, <1>2, <1>3, <2>2 DEF MailInv, Pending, Delivering
  <2> QED BY <2>1, <2>2
<1>6. Pending'
  BY <1>4, <1>5 DEF Pending
<1>7. MailAtMostOnce' /\ OnRecord'
  BY <1>1 DEF MailInv, MailAtMostOnce, OnRecord
<1> QED BY <1>6, <1>7 DEF MailInv

LEMMA ExecuteMail ==
    ASSUME OwnInv, MailInv, NEW p \in Procs, Execute(p)
    PROVE  MailInv'
<1> DEFINE r == run[p]
<1> USE DEF Executing
<1>1. ASSUME pc[p] = "exec", NEW st \in {"queued", "failed"}, CommitExecution(p, st),
             UNCHANGED recorded
      PROVE  MailInv'
  <2>1. r \in Runs /\ Unsent(r) /\ recorded \in [Runs -> SUBSET Destinations]
    BY <1>1, OthersElsewhere DEF MailInv, Pending, OwnInv, TypeOK
  <2>2. recorded' = [recorded EXCEPT ![r] = {}]
    BY <1>1, <2>1 DEF Unsent
  <2> QED BY <1>1, <2>1, <2>2, CommitMail DEF Unsent, Active, Terminal
<1>2. CASE RequeueRun(p) \/ FailRun(p)
  BY <1>1, <1>2 DEF RequeueRun, FailRun, CanFail
<1>3. CASE BeginDelivery(p)
  <2>1. pc[p] = "exec" /\ r \in Runs /\ Unsent(r)
    BY <1>3, OthersElsewhere DEF BeginDelivery, MailInv, Pending
  <2>2. delivered[p] = {} /\ any_failure[p] = FALSE
    BY <2>1 DEF MailInv, Pending
  <2>3. /\ \A q \in Procs : pc'[q] = IF q = p THEN "deliver" ELSE pc[q]
        /\ UNCHANGED <<sent, recorded, created, status, claimed, run, left, delivered,
                       any_failure>>
    BY <1>3 DEF BeginDelivery, runVars, execVars, OwnInv, TypeOK
  <2>4. Delivering(p, r)
    BY <2>1, <2>2 DEF Unsent, Delivering
  <2>5. Pending'
    BY <2>2, <2>3, <2>4 DEF MailInv, Pending, Unsent, Delivering
  <2>6. MailAtMostOnce' /\ OnRecord'
    BY <2>3 DEF MailInv, MailAtMostOnce, OnRecord
  <2> QED BY <2>5, <2>6 DEF MailInv
<1>4. CASE \E d \in Destinations : DeliverTo(p, d)
  BY <1>4, DeliverMail
<1>5. CASE FinishRun(p)
  <2>1. pc[p] = "deliver" /\ r \in Runs /\ Delivering(p, r)
    BY <1>5, OthersElsewhere DEF FinishRun, MailInv, Pending
  <2>2. delivered[p] \subseteq Destinations
    BY DEF OwnInv, TypeOK
  <2>3. delivered[p] \subseteq {d \in Destinations : sent[r][d] > 0}
    BY <2>1, <2>2 DEF Delivering
  <2>4. any_failure[p] = FALSE => delivered[p] = {d \in Destinations : sent[r][d] > 0}
    BY <2>1, <2>3 DEF Delivering
  <2>5. Outcome(p) = "succeeded" => any_failure[p] = FALSE
    BY DEF Outcome, OwnInv, TypeOK
  <2>6. Outcome(p) \in {"succeeded", "delivery_failed"}
    BY DEF Outcome
  <2>7. /\ CommitExecution(p, Outcome(p))
        /\ recorded' = [recorded EXCEPT ![r] = delivered[p]]
    BY <1>5 DEF FinishRun, DeliveryRows
  <2>8. Outcome(p) \notin {"queued", "failed"} /\ Outcome(p) \in Active \cup Terminal
    BY <2>6 DEF Active, Terminal
  <2> HIDE DEF r
  <2> QED BY <2>1, <2>3, <2>4, <2>5, <2>7, <2>8, CommitMail DEF r
<1>6. CASE StaleRecipient(p)
  BY <1>6, RollbackMail DEF StaleRecipient, AbortTransaction, StillClaimed
<1> QED BY <1>2, <1>3, <1>4, <1>5, <1>6 DEF Execute

LEMMA NextMail == OwnInv /\ MailInv /\ [Next]_vars => MailInv'
<1> SUFFICES ASSUME OwnInv, MailInv, [Next]_vars PROVE MailInv'
  OBVIOUS
<1>1. ASSUME NEW p \in Procs, NEW from \in {"idle", "edit", "down"},
             NEW to \in {"idle", "edit", "enqueue"},
             pc[p] = from, pc' = [pc EXCEPT ![p] = to],
             UNCHANGED <<sent, recorded, created, status, claimed, execVars>>
      PROVE  MailInv'
  BY <1>1, NoMailMail DEF OwnInv, TypeOK, execVars
<1>2. ASSUME NEW w \in Workers, CycleSelect(w) \/ Restart(w)
      PROVE  MailInv'
  BY <1>1, <1>2 DEF CycleSelect, Restart, runVars, Procs
<1>3. ASSUME NEW w \in Workers, Crash(w)
      PROVE  MailInv'
  <2>1. {} \in SUBSET claimed[w] /\ run[w] \notin {} /\ "down" \in {"idle", "down"}
    OBVIOUS
  <2> QED BY <1>3, <2>1, RollbackMail DEF Crash, Procs
<1>4. ASSUME NEW w \in Workers, \/ Enqueue(w) \/ ClaimAndCommit(w)
                                \/ \E r \in Runs : ExecuteClaimed(w, r)
      PROVE  MailInv'
  BY <1>4, EnqueueMail, ClaimMail, ExecuteClaimedMail
<1>5. ASSUME NEW p \in Procs, DbError(p)
      PROVE  MailInv'
  BY <1>5, RollbackMail DEF DbError, AbortTransaction, StillClaimed
<1>6. ASSUME NEW c \in Clients, NEW s \in Schedules, ReadSchedule(c, s)
      PROVE  MailInv'
  BY <1>1, <1>6 DEF ReadSchedule, runVars, Procs
<1>7. ASSUME NEW c \in Clients, NEW active, NEW next, WriteSchedule(c, active, next)
      PROVE  MailInv'
  BY <1>1, <1>7 DEF WriteSchedule, runVars, Procs
<1>8. ASSUME NEW c \in Clients, ToggleSchedule(c) \/ PatchSchedule(c)
      PROVE  MailInv'
  BY <1>7, <1>8 DEF ToggleSchedule, PatchSchedule
<1>9. CASE Tick \/ UNCHANGED vars
  BY <1>9, NoMailMail DEF Tick, vars, runVars, execVars
<1> QED BY <1>2, <1>3, <1>4, <1>5, <1>6, <1>8, <1>9, RunNowMail, ExecuteMail DEF Next

\* Every reachable state satisfies the invariant about messages: what has not been
\* delivered to is unsent, and what may be executed again is unsent altogether.
THEOREM MailInvariant == Spec => []MailInv
  BY InitMail, NextMail, OwnInvariant, PTL DEF Spec

\* No retry, second worker or crash makes a run send a destination two messages.
THEOREM MailsAtMostOnce == Spec => []MailAtMostOnce
<1>1. MailInv => MailAtMostOnce
  BY DEF MailInv
<1> QED BY <1>1, MailInvariant, PTL

\* What the delivery rows and the status of a run say of its messages is true.
THEOREM MailsOnRecord == Spec => []MailOnRecord
<1>1. MailInv => MailOnRecord
  BY DEF MailInv, Pending, OnRecord, Unsent, MailOnRecord
<1> QED BY <1>1, MailInvariant, PTL

-----------------------------------------------------------------------------
(* The attempts and retries of a run *)

\* A run in an open transaction has no attempt yet; from its commit on it has one
\* attempt per retry, and one more when it has ended.
CountInv ==
    \A r \in Runs :
        /\ r > created \/ status[r] = "absent" \/ tx[r] # None =>
               attempts[r] = 0 /\ retry_count[r] = 0
        /\ status[r] \in Active => attempts[r] = retry_count[r]
        /\ status[r] \in Terminal => attempts[r] = retry_count[r] + 1 /\ tx[r] = None
        /\ status[r] # "absent" => retry_count[r] <= info[r].max_retries
        /\ tx[r] \in Workers => status[r] = "queued"

runRows == <<status, info, retry_count, attempts, tx, created>>

LEMMA BudgetsAreNatural == \A m \in RetryBudgets \cup {0} : m \in Nat
  BY SizesAssumption

LEMMA InitCount == Init => CountInv
  BY ProcsAssumption DEF Init, CountInv, Active, Terminal, Procs

-----------------------------------------------------------------------------
(* Each kind of step, told by what it does to the rows of the runs *)

\* A run is inserted by a transaction that stays open.
LEMMA InsertCount ==
    ASSUME OwnInv, CountInv, NEW p \in Procs, NEW r \in Runs,
           NEW s \in Schedules \cup {None}, NEW trigger, NEW m \in RetryBudgets \cup {0},
           NewRun(r, p, s, trigger, m),
           NEW st \in Active, status' = [status EXCEPT ![r] = st],
           p \in Workers => st = "queued",
           UNCHANGED <<retry_count, attempts>>
    PROVE  CountInv'
<1>1. /\ r = created + 1 /\ created' = r /\ created \in Nat
      /\ \A q \in Runs : q # r => status'[q] = status[q] /\ tx'[q] = tx[q] /\ info'[q] = info[q]
      /\ status'[r] = st /\ tx'[r] = p /\ info'[r].max_retries = m
  BY DEF NewRun, OwnInv, TypeOK
<1>2. /\ attempts[r] = 0 /\ retry_count[r] = 0 /\ m \in Nat /\ r > created
      /\ \A q \in Runs : q > created' => q > created
  BY <1>1, BudgetsAreNatural DEF CountInv, Runs
<1>3. ASSUME NEW q \in Runs
      PROVE  /\ q > created' \/ status'[q] = "absent" \/ tx'[q] # None =>
                    attempts[q] = 0 /\ retry_count[q] = 0
             /\ status'[q] \in Active => attempts[q] = retry_count[q]
             /\ status'[q] \in Terminal => attempts[q] = retry_count[q] + 1 /\ tx'[q] = None
             /\ status'[q] # "absent" => retry_count[q] <= info'[q].max_retries
             /\ tx'[q] \in Workers => status'[q] = "queued"
  <2>1. CASE q = r
    BY <1>1, <1>2, <2>1 DEF Active, Terminal
  <2>2. CASE q # r
    BY <1>1, <1>2, <2>2 DEF CountInv
  <2> QED BY <2>1, <2>2
<1> QED BY <1>3 DEF CountInv

LEMMA ClaimCount ==
    ASSUME OwnInv, CountInv, NEW w \in Workers, ClaimAndCommit(w)
    PROVE  CountInv'
<1>1. PICK C \in SUBSET Runs :
          /\ \A r \in C : status[r] = "queued" /\ tx[r] \in {None, w}
          /\ status' = [r \in Runs |-> IF r \in C THEN "running" ELSE status[r]]
  BY DEF ClaimAndCommit, Batches, Runnable, Visible
<1>2. /\ tx' = [r \in Runs |-> IF tx[r] = w THEN None ELSE tx[r]]
      /\ UNCHANGED <<info, created, retry_count, attempts>>
  BY DEF ClaimAndCommit
<1> QED BY <1>1, <1>2, ProcsAssumption DEF CountInv, Active, Terminal, Procs

\* What a commit of an execution starts from
LEMMA ExecutedRun ==
    ASSUME OwnInv, CountInv, NEW p \in Procs, pc[p] \in Executing
    PROVE  /\ run[p] \in Runs
           /\ status[run[p]] = "running"
           /\ attempts[run[p]] = retry_count[run[p]]
           /\ retry_count[run[p]] \in Nat
           /\ info[run[p]].max_retries \in Nat
           /\ retry_count[run[p]] <= info[run[p]].max_retries
           /\ run[p] <= created
           /\ tx[run[p]] \in {None, p}
<1>1. run[p] \in Runs
  BY DEF OwnInv, TypeOK
<1>2. status[run[p]] = "running" /\ tx[run[p]] \in {None, p}
  BY <1>1 DEF OwnInv, Held, Holds, Procs
<1>3. retry_count[run[p]] \in Nat /\ info[run[p]].max_retries \in RetryBudgets \cup {0}
  BY <1>1 DEF OwnInv, TypeOK
<1> QED BY <1>1, <1>2, <1>3, BudgetsAreNatural DEF CountInv, OwnInv, Numbered, Active

LEMMA RequeueCount ==
    ASSUME OwnInv, CountInv, NEW p \in Procs, RequeueRun(p)
    PROVE  CountInv'
<1> DEFINE r == run[p]
<1>1. pc[p] \in Executing /\ retry_count[r] < info[r].max_retries
  BY DEF RequeueRun, CanFail, RetryLeft, Executing
<1>2. /\ UNCHANGED <<created, info>>
      /\ \A q \in Runs : q # r => /\ status'[q] = status[q] /\ tx'[q] = tx[q]
                                  /\ attempts'[q] = attempts[q]
                                  /\ retry_count'[q] = retry_count[q]
      /\ status'[r] = "queued" /\ tx'[r] = None
      /\ attempts'[r] = attempts[r] + 1 /\ retry_count'[r] = retry_count[r] + 1
  BY <1>1, ExecutedRun DEF RequeueRun, RetryCounted, CommitExecution, OwnInv, TypeOK
<1>3. ~(r > created)
  <2>1. created \in 0..MaxRuns
    BY DEF OwnInv, TypeOK
  <2>2. r \in 1..MaxRuns /\ r <= created
    BY <1>1, ExecutedRun DEF Runs
  <2> HIDE DEF r
  <2> QED BY <2>1, <2>2, SizesAssumption
<1>4. /\ r \in Runs /\ tx[r] \in {None, p} /\ attempts[r] = retry_count[r]
      /\ retry_count[r] \in Nat /\ info[r].max_retries \in Nat
  BY <1>1, ExecutedRun
<1> HIDE DEF r
<1>5. SUFFICES ASSUME NEW q \in Runs PROVE CountInv!(q)'
  BY DEF CountInv
<1>6. CASE q = r
  BY <1>1, <1>2, <1>3, <1>4, <1>6, ProcsAssumption DEF Active, Terminal, Procs
<1>7. CASE q # r
  BY <1>2, <1>7 DEF CountInv
<1> QED BY <1>6, <1>7

LEMMA EndCount ==
    ASSUME OwnInv, CountInv, NEW p \in Procs, pc[p] \in Executing,
           NEW st \in Terminal, CommitExecution(p, st), UNCHANGED retry_count
    PROVE  CountInv'
<1> DEFINE r == run[p]
<1>1. /\ UNCHANGED <<created, info>>
      /\ \A q \in Runs : q # r => /\ status'[q] = status[q] /\ tx'[q] = tx[q]
                                  /\ attempts'[q] = attempts[q]
      /\ status'[r] = st /\ tx'[r] = None /\ attempts'[r] = attempts[r] + 1
  BY ExecutedRun DEF CommitExecution, OwnInv, TypeOK
<1>2. ~(r > created)
  BY ExecutedRun DEF OwnInv, TypeOK, Runs
<1> QED BY <1>1, <1>2, ExecutedRun, ProcsAssumption
        DEF CountInv, Active, Terminal, Procs

LEMMA RollbackCount ==
    ASSUME OwnInv, CountInv, NEW p \in Procs, Rollback(p)
    PROVE  CountInv'
<1>1. /\ status' = [r \in Runs |-> IF tx[r] = p THEN "absent" ELSE status[r]]
      /\ tx' = [r \in Runs |-> IF tx[r] = p THEN None ELSE tx[r]]
      /\ UNCHANGED <<info, created, retry_count, attempts>>
  BY DEF Rollback
<1> QED BY <1>1, ProcsAssumption DEF CountInv, Active, Terminal, Procs

-----------------------------------------------------------------------------
(* All steps: a case analysis that the two step lemmas below share *)

\* RowsKept: no run row changes.  The other disjuncts are the steps that change one.
RowsKept == UNCHANGED runRows

LEMMA StepKinds ==
    ASSUME [Next]_vars
    PROVE  \/ RowsKept
           \/ \E w \in Workers, s \in Schedules : FireSchedule(w, s)
           \/ \E w \in Workers : ClaimAndCommit(w)
           \/ \E c \in Clients, s \in Schedules \cup {None} : RunNow(c, s)
           \/ \E p \in Procs : RequeueRun(p) \/ FailRun(p) \/ FinishRun(p)
           \/ \E p \in Procs : Rollback(p)
<1> USE DEF RowsKept, runRows
<1>1. ASSUME NEW w \in Workers,
             \/ CycleSelect(w) \/ Restart(w)
             \/ \E s \in Schedules : SkipSchedule(w, s)
             \/ \E r \in Runs : ExecuteClaimed(w, r)
      PROVE  RowsKept
  BY <1>1 DEF CycleSelect, Restart, SkipSchedule, ExecuteClaimed, runVars
<1>2. ASSUME NEW w \in Workers, Crash(w) PROVE Rollback(w)
  BY <1>2 DEF Crash
<1>3. ASSUME NEW p \in Procs, StaleRecipient(p) \/ DbError(p) PROVE Rollback(p)
  BY <1>3 DEF StaleRecipient, DbError, AbortTransaction
<1>4. ASSUME NEW p \in Procs, \/ BeginDelivery(p)
                              \/ \E d \in Destinations : DeliverTo(p, d)
      PROVE  RowsKept
  BY <1>4 DEF BeginDelivery, DeliverTo, runVars
<1>5. ASSUME NEW c \in Clients,
             \/ \E s \in Schedules : ReadSchedule(c, s)
             \/ ToggleSchedule(c) \/ PatchSchedule(c)
      PROVE  RowsKept
  BY <1>5 DEF ReadSchedule, ToggleSchedule, PatchSchedule, WriteSchedule, runVars
<1>6. CASE Tick \/ UNCHANGED vars
  BY <1>6 DEF Tick, vars, runVars
<1> QED BY <1>1, <1>2, <1>3, <1>4, <1>5, <1>6 DEF Next, Enqueue, Execute, Procs

LEMMA NextCount == OwnInv /\ CountInv /\ [Next]_vars => CountInv'
<1> SUFFICES ASSUME OwnInv, CountInv, [Next]_vars PROVE CountInv'
  OBVIOUS
<1>1. CASE RowsKept
  BY <1>1 DEF RowsKept, runRows, CountInv
<1>2. ASSUME NEW w \in Workers, NEW s \in Schedules, FireSchedule(w, s)
      PROVE  CountInv'
  <2>1. PICK r \in Runs, m \in RetryBudgets :
            NewRun(r, w, s, "schedule", m) /\ status' = [status EXCEPT ![r] = "queued"]
    BY <1>2 DEF FireSchedule
  <2>2. UNCHANGED <<retry_count, attempts>>
    BY <1>2 DEF FireSchedule
  <2> QED BY <2>1, <2>2, InsertCount DEF Procs, Active
<1>3. ASSUME NEW c \in Clients, NEW s \in Schedules \cup {None}, RunNow(c, s)
      PROVE  CountInv'
  <2>1. PICK r \in Runs, m \in RetryBudgets \cup {0} :
            /\ NewRun(r, c, s, IF s = None THEN "manual" ELSE "schedule_manual", m)
            /\ status' = [status EXCEPT ![r] = "running"]
    BY <1>3 DEF RunNow
  <2>2. UNCHANGED <<retry_count, attempts>>
    BY <1>3 DEF RunNow
  <2>3. c \in Procs /\ c \notin Workers
    BY ProcsAssumption DEF Procs
  <2> QED BY <2>1, <2>2, <2>3, InsertCount DEF Active
<1>4. ASSUME NEW p \in Procs, FailRun(p) \/ FinishRun(p)
      PROVE  CountInv'
  BY <1>4, EndCount DEF FailRun, FinishRun, CanFail, Outcome, Executing, Terminal
<1> QED BY <1>1, <1>2, <1>3, <1>4, ClaimCount, RequeueCount, RollbackCount, StepKinds

\* Every reachable state has the attempts and retries of a run in step.
THEOREM CountInvariant == Spec => []CountInv
  BY InitCount, NextCount, OwnInvariant, PTL DEF Spec

\* The attempts on record are the retries counted, and these stay in the budget.
THEOREM AttemptsAreCounted == Spec => []AttemptsMatchRetries
<1>1. OwnInv /\ CountInv => AttemptsMatchRetries
  BY DEF OwnInv, TypeOK, CountInv, AttemptsMatchRetries, Committed, Active, Terminal
<1> QED BY <1>1, OwnInvariant, CountInvariant, PTL

-----------------------------------------------------------------------------
(***************************************************************************)
(* The refinement.  A commit may move several runs at once, so the step of *)
(* the abstract specification is put together run by run.                  *)
(***************************************************************************)

\* What a step may do to a run, in the terms of the scheduler
Moves(r, from, to) == Phase(r) = from /\ Phase(r)' = to

SameBudget(r) == info'[r].max_retries = info[r].max_retries

Stays(r) == Phase(r)' = Phase(r) /\ attempts'[r] = attempts[r] /\ SameBudget(r)

LifeStep(r) ==
    \/ Stays(r)
    \/ Moves(r, "unknown", "unknown") /\ attempts'[r] = 0
    \/ Moves(r, "unknown", "waiting") /\ attempts'[r] = 0
    \/ Moves(r, "unknown", "running") /\ attempts'[r] = 0
    \/ Moves(r, "unknown", "waiting") /\ attempts'[r] = 1 /\ info'[r].max_retries >= 1
    \/ Moves(r, "unknown", "ended") /\ attempts'[r] = 1
    \/ Moves(r, "waiting", "running") /\ attempts'[r] = attempts[r] /\ SameBudget(r)
    \/ /\ Moves(r, "running", "waiting")
       /\ attempts[r] + 1 <= info[r].max_retries
       /\ attempts'[r] = attempts[r] + 1 /\ SameBudget(r)
    \/ Moves(r, "running", "ended") /\ attempts'[r] = attempts[r] + 1 /\ SameBudget(r)

LEMMA KeptStays ==
    ASSUME NEW r \in Runs, status'[r] = status[r], tx'[r] = tx[r], info'[r] = info[r],
           attempts'[r] = attempts[r]
    PROVE  LifeStep(r)
<1>1. Phase(r)' = Phase(r)
  BY DEF Phase, Terminal
<1> QED BY <1>1 DEF LifeStep, Stays, SameBudget

LEMMA InsertLife ==
    ASSUME OwnInv, CountInv, TypeOK', NEW p \in Procs, NEW r \in Runs, NEW s, NEW trigger,
           NEW m, NewRun(r, p, s, trigger, m),
           NEW st, status' = [status EXCEPT ![r] = st], UNCHANGED attempts
    PROVE  \A q \in Runs : LifeStep(q)
<1>1. /\ r = created + 1 /\ created \in Nat
      /\ \A q \in Runs : q # r => status'[q] = status[q] /\ tx'[q] = tx[q] /\ info'[q] = info[q]
      /\ tx'[r] = p
  BY DEF NewRun, OwnInv, TypeOK
<1>2. r > created /\ attempts[r] = 0 /\ status[r] = "absent"
  BY <1>1 DEF CountInv, OwnInv, Numbered
<1>3. Phase(r) = "unknown" /\ Phase(r)' = "unknown"
  BY <1>1, <1>2, ProcsAssumption DEF Phase, Terminal
<1>4. LifeStep(r)
  BY <1>2, <1>3 DEF LifeStep, Moves
<1> QED BY <1>1, <1>4, KeptStays

LEMMA ClaimLife ==
    ASSUME OwnInv, CountInv, TypeOK', NEW w \in Workers, ClaimAndCommit(w), NEW r \in Runs
    PROVE  LifeStep(r)
<1>1. PICK C \in SUBSET Runs :
          /\ \A q \in C : status[q] = "queued" /\ tx[q] \in {None, w}
          /\ status' = [q \in Runs |-> IF q \in C THEN "running" ELSE status[q]]
  BY DEF ClaimAndCommit, Batches, Runnable, Visible
<1>2. /\ tx' = [q \in Runs |-> IF tx[q] = w THEN None ELSE tx[q]]
      /\ UNCHANGED <<info, attempts>>
  BY DEF ClaimAndCommit
<1>3. w # None
  BY ProcsAssumption DEF Procs
<1>4. CASE tx[r] = w
  <2>1. Phase(r) = "unknown" /\ attempts[r] = 0 /\ status[r] = "queued"
    BY <1>3, <1>4 DEF Phase, Terminal, CountInv
  <2>2. tx'[r] = None /\ status'[r] \in {"queued", "running"}
    BY <1>1, <1>2, <1>4, <2>1
  <2>3. Phase(r)' \in {"waiting", "running"}
    BY <2>2 DEF Phase, Terminal
  <2> QED BY <1>2, <2>1, <2>3 DEF LifeStep, Moves
<1>5. CASE tx[r] # w /\ r \in C
  <2>1. tx[r] = None /\ tx'[r] = None /\ status[r] = "queued" /\ status'[r] = "running"
    BY <1>1, <1>2, <1>5
  <2>2. Phase(r) = "waiting" /\ Phase(r)' = "running"
    BY <2>1 DEF Phase, Terminal
  <2> QED BY <1>2, <2>2 DEF LifeStep, Moves, SameBudget
<1>6. CASE tx[r] # w /\ r \notin C
  BY <1>1, <1>2, <1>6, KeptStays
<1> QED BY <1>4, <1>5, <1>6

LEMMA CommitLife ==
    ASSUME OwnInv, CountInv, TypeOK', NEW p \in Procs, pc[p] \in Executing,
           NEW st \in {"queued"} \cup Terminal, CommitExecution(p, st),
           st = "queued" => retry_count[run[p]] < info[run[p]].max_retries,
           NEW r \in Runs
    PROVE  LifeStep(r)
<1> DEFINE x == run[p]
<1>1. /\ info' = info
      /\ \A q \in Runs : q # x => /\ status'[q] = status[q] /\ tx'[q] = tx[q]
                                  /\ attempts'[q] = attempts[q]
      /\ status'[x] = st /\ tx'[x] = None /\ attempts'[x] = attempts[x] + 1
  BY ExecutedRun DEF CommitExecution, OwnInv, TypeOK
<1>2. CASE r # x
  BY <1>1, <1>2, KeptStays
<1>3. CASE r = x
  <2>1. /\ Phase(r)' = IF st = "queued" THEN "waiting" ELSE "ended"
        /\ SameBudget(r)
    BY <1>1, <1>3 DEF Phase, Terminal, SameBudget
  <2>2. /\ attempts[r] = retry_count[r] /\ retry_count[r] \in Nat
        /\ info[r].max_retries \in Nat
        /\ status[r] = "running"
    BY <1>3, ExecutedRun
  <2>3. CASE tx[r] = None
    <3>1. Phase(r) = "running"
      BY <2>2, <2>3 DEF Phase, Terminal
    <3> QED BY <1>1, <1>3, <2>1, <2>2, <3>1 DEF LifeStep, Moves
  <2>4. CASE tx[r] # None
    <3>1. Phase(r) = "unknown" /\ attempts[r] = 0
      BY <2>4 DEF Phase, Terminal, CountInv
    <3> QED BY <1>1, <1>3, <2>1, <2>2, <3>1 DEF LifeStep, Moves, SameBudget
  <2> QED BY <2>3, <2>4
<1> QED BY <1>2, <1>3

LEMMA RollbackLife ==
    ASSUME OwnInv, CountInv, NEW p \in Procs, Rollback(p), NEW r \in Runs
    PROVE  LifeStep(r)
<1>1. /\ status' = [q \in Runs |-> IF tx[q] = p THEN "absent" ELSE status[q]]
      /\ tx' = [q \in Runs |-> IF tx[q] = p THEN None ELSE tx[q]]
      /\ UNCHANGED <<info, attempts>>
  BY DEF Rollback
<1>2. CASE tx[r] = p
  <2>1. Phase(r) = "unknown" /\ Phase(r)' = "unknown"
    BY <1>1, <1>2, ProcsAssumption DEF Phase, Terminal
  <2> QED BY <1>1, <2>1 DEF LifeStep, Stays, SameBudget
<1>3. CASE tx[r] # p
  BY <1>1, <1>3, KeptStays
<1> QED BY <1>2, <1>3

LEMMA NextLife ==
    ASSUME OwnInv, CountInv, TypeOK', [Next]_vars, NEW r \in Runs
    PROVE  LifeStep(r)
<1>1. CASE RowsKept
  BY <1>1, KeptStays DEF RowsKept, runRows
<1>2. ASSUME NEW w \in Workers, NEW s \in Schedules, FireSchedule(w, s)
      PROVE  LifeStep(r)
  <2>1. PICK n \in Runs, m \in RetryBudgets :
            NewRun(n, w, s, "schedule", m) /\ status' = [status EXCEPT ![n] = "queued"]
    BY <1>2 DEF FireSchedule
  <2>2. UNCHANGED attempts
    BY <1>2 DEF FireSchedule
  <2> QED BY <2>1, <2>2, InsertLife DEF Procs
<1>3. ASSUME NEW c \in Clients, NEW s \in Schedules \cup {None}, RunNow(c, s)
      PROVE  LifeStep(r)
  <2>1. PICK n \in Runs, m \in RetryBudgets \cup {0} :
            /\ NewRun(n, c, s, IF s = None THEN "manual" ELSE "schedule_manual", m)
            /\ status' = [status EXCEPT ![n] = "running"]
    BY <1>3 DEF RunNow
  <2>2. UNCHANGED attempts
    BY <1>3 DEF RunNow
  <2> QED BY <2>1, <2>2, InsertLife DEF Procs
<1>4. ASSUME NEW p \in Procs, RequeueRun(p)
      PROVE  LifeStep(r)
  BY <1>4, CommitLife DEF RequeueRun, RetryLeft, CanFail, Executing
<1>5. ASSUME NEW p \in Procs, FailRun(p) \/ FinishRun(p)
      PROVE  LifeStep(r)
  BY <1>5, CommitLife DEF FailRun, FinishRun, CanFail, Outcome, Executing, Terminal
<1> QED BY <1>1, <1>2, <1>3, <1>4, <1>5, ClaimLife, RollbackLife, StepKinds

LEMMA LifecycleStep ==
    ASSUME OwnInv, CountInv, TypeOK', [Next]_vars
    PROVE  Lifecycle!Next
<1>1. ASSUME NEW r \in Runs
      PROVE  \/ Lifecycle!Appear(r) \/ Lifecycle!Claim(r) \/ Lifecycle!Retry(r)
             \/ Lifecycle!End(r) \/ Lifecycle!Hidden(r) \/ Lifecycle!Same(r)
  <2>1. LifeStep(r)
    BY NextLife
  <2>2. info'[r].max_retries \in RetryBudgets \cup {0}
    BY DEF TypeOK
  <2> QED BY <2>1, <2>2
          DEF LifeStep, Stays, Moves, SameBudget, Lifecycle!Appear, Lifecycle!Claim,
              Lifecycle!Retry, Lifecycle!End, Lifecycle!Hidden, Lifecycle!Same,
              Lifecycle!Becomes
<1>2. \A r \in Runs : Phase(r)' \in Lifecycle!Phases
  BY DEF TypeOK, Phase, Active, Terminal, Lifecycle!Phases
<1>3. \A r \in Runs : /\ attempts'[r] \in Nat
                      /\ info'[r].max_retries \in RetryBudgets \cup {0}
  BY DEF TypeOK
<1> QED BY <1>1, <1>2, <1>3 DEF Lifecycle!Next

LEMMA LifecycleInit == Init => Lifecycle!Init
<1> SUFFICES ASSUME Init PROVE Lifecycle!Init
  OBVIOUS
<1>1. \A r \in Runs : Phase(r) = "unknown"
  BY DEF Init, Phase, Terminal
<1> QED BY <1>1 DEF Init, Lifecycle!Init

\* To a reader of app.schedule_runs every run lives the life of RunLifecycle.
THEOREM SchedulerImplementsLifecycle == Spec => ImplementsLifecycle
<1>1. OwnInv /\ CountInv /\ OwnInv' /\ [Next]_vars => [Lifecycle!Next]_Lifecycle!vars
  BY LifecycleStep DEF OwnInv
<1> QED BY <1>1, LifecycleInit, OwnInvariant, CountInvariant, PTL
        DEF Spec, ImplementsLifecycle, Lifecycle!Spec

-----------------------------------------------------------------------------
(***************************************************************************)
(* Orphans.  Who holds a run changes in a few steps only; in all others a  *)
(* worker keeps what it has claimed.                                       *)
(***************************************************************************)

\* A worker enqueues with empty hands, and executes a run that it has claimed.
InHand ==
    \A w \in Workers :
        /\ pc[w] = "enqueue" => claimed[w] = {}
        /\ pc[w] \in Executing => run[w] \in claimed[w]

HandsKept ==
    /\ UNCHANGED <<claimed, run>>
    /\ \A w \in Workers :
          /\ pc'[w] \in Executing => pc[w] \in Executing
          /\ pc'[w] = "enqueue" => pc[w] = "enqueue" \/ claimed[w] = {}

LEMMA HandKinds ==
    ASSUME OwnInv, [Next]_vars
    PROVE  \/ HandsKept
           \/ \E w \in Workers : ClaimAndCommit(w) \/ Crash(w)
           \/ \E w \in Workers, r \in Runs : ExecuteClaimed(w, r)
           \/ \E c \in Clients, s \in Schedules \cup {None} : RunNow(c, s)
           \/ \E p \in Procs : RequeueRun(p) \/ FailRun(p) \/ FinishRun(p)
           \/ \E p \in Procs : StaleRecipient(p) \/ DbError(p)
<1> USE DEF HandsKept
<1> TypeOK BY DEF OwnInv
<1>1. ASSUME NEW w \in Workers, CycleSelect(w) \/ Restart(w) \/ Enqueue(w)
      PROVE  HandsKept
  BY <1>1 DEF CycleSelect, Restart, Enqueue, SkipSchedule, FireSchedule, execVars, TypeOK,
              Procs, Executing
<1>2. ASSUME NEW p \in Procs, BeginDelivery(p) \/ \E d \in Destinations : DeliverTo(p, d)
      PROVE  HandsKept
  BY <1>2 DEF BeginDelivery, DeliverTo, execVars, TypeOK, Procs, Executing
<1>3. ASSUME NEW c \in Clients,
             \/ \E s \in Schedules : ReadSchedule(c, s)
             \/ ToggleSchedule(c) \/ PatchSchedule(c)
      PROVE  HandsKept
  BY <1>3, ProcsAssumption
     DEF ReadSchedule, ToggleSchedule, PatchSchedule, WriteSchedule, execVars, TypeOK,
         Procs, Executing
<1>4. CASE Tick \/ UNCHANGED vars
  BY <1>4 DEF Tick, vars, execVars
<1> QED BY <1>1, <1>2, <1>3, <1>4 DEF Next, Execute

LEMMA InitInHand == Init => InHand
  BY DEF Init, InHand, Executing, Procs

LEMMA NextInHand == OwnInv /\ InHand /\ [Next]_vars => InHand'
<1> SUFFICES ASSUME OwnInv, InHand, [Next]_vars PROVE InHand'
  OBVIOUS
<1> TypeOK BY DEF OwnInv
<1> USE ProcsAssumption
<1>1. CASE HandsKept
  BY <1>1 DEF HandsKept, InHand
<1>2. ASSUME NEW p \in Procs, NEW at \in {"idle", "down"}, pc' = [pc EXCEPT ![p] = at],
             \A q \in Procs : q # p => claimed'[q] = claimed[q] /\ run'[q] = run[q]
      PROVE  InHand'
  BY <1>2 DEF InHand, TypeOK, Procs, Executing
<1>3. ASSUME NEW w \in Workers, ClaimAndCommit(w) \/ Crash(w)
      PROVE  InHand'
  <2>1. /\ w \in Procs
        /\ pc' = [pc EXCEPT ![w] = "idle"] \/ pc' = [pc EXCEPT ![w] = "down"]
    BY <1>3 DEF ClaimAndCommit, Crash, Procs
  <2>2. \A q \in Procs : q # w => claimed'[q] = claimed[q] /\ run'[q] = run[q]
    BY <1>3 DEF ClaimAndCommit, Crash, Rollback, EndExecution, execVars, TypeOK
  <2> QED BY <1>2, <2>1, <2>2
<1>4. ASSUME NEW w \in Workers, NEW r \in Runs, ExecuteClaimed(w, r)
      PROVE  InHand'
  BY <1>4 DEF ExecuteClaimed, Begin, InHand, TypeOK, Procs, Executing
<1>5. ASSUME NEW c \in Clients, NEW s \in Schedules \cup {None}, RunNow(c, s)
      PROVE  InHand'
  BY <1>5 DEF RunNow, Begin, InHand, TypeOK, Procs, Executing
<1>6. ASSUME NEW p \in Procs, RequeueRun(p) \/ FailRun(p) \/ FinishRun(p)
      PROVE  InHand'
  BY <1>2, <1>6 DEF RequeueRun, FailRun, FinishRun, CommitExecution, EndExecution, TypeOK
<1>7. ASSUME NEW p \in Procs, StaleRecipient(p) \/ DbError(p)
      PROVE  InHand'
  BY <1>2, <1>7 DEF StaleRecipient, DbError, AbortTransaction, Rollback, EndExecution, TypeOK
<1> QED BY <1>1, <1>3, <1>4, <1>5, <1>6, <1>7, HandKinds

\* In every reachable state a worker executes only what it has claimed.
THEOREM InHandInvariant == Spec => []InHand
  BY InitInHand, NextInHand, OwnInvariant, PTL DEF Spec

\* Nobody takes up a run that is running.
LEMMA NobodyTakesUp ==
    ASSUME OwnInv, [Next]_vars, NEW p \in Procs, NEW r \in Runs, status[r] = "running",
           Holds(p, r)'
    PROVE  Holds(p, r)
<1> TypeOK BY DEF OwnInv
<1> USE ProcsAssumption
<1>1. CASE HandsKept
  BY <1>1 DEF HandsKept, Holds
<1>2. ASSUME NEW w \in Workers, ClaimAndCommit(w)
      PROVE  Holds(p, r)
  <2>1. PICK C \in SUBSET Runs : /\ \A q \in C : status[q] = "queued"
                                 /\ claimed' = [claimed EXCEPT ![w] = C]
    BY <1>2 DEF ClaimAndCommit, Batches, Runnable
  <2>2. run' = run /\ r \notin C
    BY <1>2, <2>1 DEF ClaimAndCommit, execVars
  <2> QED BY <2>1, <2>2 DEF Holds, TypeOK, Procs
<1>3. ASSUME NEW w \in Workers, NEW n \in Runs, ExecuteClaimed(w, n)
      PROVE  Holds(p, r)
  BY <1>3 DEF ExecuteClaimed, Begin, Holds, TypeOK, Procs
<1>4. ASSUME NEW c \in Clients, NEW s \in Schedules \cup {None}, RunNow(c, s)
      PROVE  Holds(p, r)
  <2>1. PICK n \in Runs : /\ n = created + 1 /\ run' = [run EXCEPT ![c] = n]
    BY <1>4 DEF RunNow, NewRun, Begin
  <2>2. claimed' = claimed /\ r # n
    BY <1>4, <2>1 DEF RunNow, OwnInv, Numbered, TypeOK, Runs
  <2> QED BY <2>1, <2>2 DEF Holds, TypeOK, Procs
<1>5. ASSUME NEW q \in Procs, NEW C \in SUBSET claimed[q],
             claimed' = [claimed EXCEPT ![q] = C], run' = [run EXCEPT ![q] = 0]
      PROVE  Holds(p, r)
  BY <1>5 DEF Holds, TypeOK, Runs
<1>6. ASSUME NEW q \in Procs,
             \/ RequeueRun(q) \/ FailRun(q) \/ FinishRun(q)
             \/ StaleRecipient(q) \/ DbError(q)
      PROVE  Holds(p, r)
  BY <1>5, <1>6 DEF RequeueRun, FailRun, FinishRun, CommitExecution, StaleRecipient, DbError,
                    AbortTransaction, Rollback, EndExecution, StillClaimed
<1>7. ASSUME NEW w \in Workers, Crash(w)
      PROVE  Holds(p, r)
  <2>1. w \in Procs /\ {} \in SUBSET claimed[w]
    BY DEF Procs
  <2> QED BY <1>5, <1>7, <2>1 DEF Crash, Rollback, EndExecution
<1> QED BY <1>1, <1>2, <1>3, <1>4, <1>6, <1>7, HandKinds

\* What a step does to the rows of a committed run that is running and not in the
\* hands of the process that makes it
LEMMA OthersRunsStay ==
    ASSUME OwnInv, [Next]_vars, NEW r \in Runs, Orphan(r)
    PROVE  status'[r] = "running" /\ tx'[r] = None /\ info'[r] = info[r]
<1> TypeOK BY DEF OwnInv
<1> USE ProcsAssumption
<1>1. status[r] = "running" /\ tx[r] = None /\ r <= created /\ \A p \in Procs : run[p] # r
  BY DEF Orphan, Committed, Holders, OwnInv, Numbered
<1>2. ASSUME NEW n, NEW p, NEW s, NEW trigger, NEW m, NewRun(n, p, s, trigger, m),
             NEW st, status' = [status EXCEPT ![n] = st]
      PROVE  status'[r] = "running" /\ tx'[r] = None /\ info'[r] = info[r]
  <2>1. n # r
    BY <1>1, <1>2 DEF NewRun, TypeOK, Runs
  <2> QED BY <1>1, <1>2, <2>1 DEF NewRun, TypeOK
<1>3. ASSUME NEW w \in Workers, ClaimAndCommit(w)
      PROVE  status'[r] = "running" /\ tx'[r] = None /\ info'[r] = info[r]
  BY <1>1, <1>3 DEF ClaimAndCommit, Batches
<1>4. ASSUME NEW p \in Procs, RequeueRun(p) \/ FailRun(p) \/ FinishRun(p)
      PROVE  status'[r] = "running" /\ tx'[r] = None /\ info'[r] = info[r]
  BY <1>1, <1>4 DEF RequeueRun, FailRun, FinishRun, CommitExecution, TypeOK
<1>5. ASSUME NEW p \in Procs, Rollback(p)
      PROVE  status'[r] = "running" /\ tx'[r] = None /\ info'[r] = info[r]
  <2>1. p # None
    OBVIOUS
  <2> QED BY <1>1, <1>5, <2>1 DEF Rollback
<1>6. CASE RowsKept
  BY <1>1, <1>6 DEF RowsKept, runRows
<1>7. ASSUME NEW w \in Workers, NEW s \in Schedules, FireSchedule(w, s)
      PROVE  status'[r] = "running" /\ tx'[r] = None /\ info'[r] = info[r]
  BY <1>2, <1>7 DEF FireSchedule
<1>8. ASSUME NEW c \in Clients, NEW s \in Schedules \cup {None}, RunNow(c, s)
      PROVE  status'[r] = "running" /\ tx'[r] = None /\ info'[r] = info[r]
  BY <1>2, <1>8 DEF RunNow
<1> QED BY <1>3, <1>4, <1>5, <1>6, <1>7, <1>8, StepKinds

\* A step that starts a scheduled run counted the active runs of its schedule.
LEMMA ScheduledStart ==
    ASSUME OwnInv, [Next]_vars, NEW q \in Runs, status[q] = "absent", status'[q] # "absent",
           info'[q].trigger_type = "schedule"
    PROVE  \E w \in Workers : ~HasActiveRun(info'[q].schedule, w)
<1> TypeOK BY DEF OwnInv
<1> USE ProcsAssumption
<1>1. CASE RowsKept
  BY <1>1 DEF RowsKept, runRows
<1>2. ASSUME NEW w \in Workers, NEW s \in Schedules, FireSchedule(w, s)
      PROVE  \E v \in Workers : ~HasActiveRun(info'[q].schedule, v)
  <2>1. PICK n \in Runs, m \in RetryBudgets :
            NewRun(n, w, s, "schedule", m) /\ status' = [status EXCEPT ![n] = "queued"]
    BY <1>2 DEF FireSchedule
  <2>2. q = n
    BY <2>1 DEF TypeOK
  <2>3. info'[q].schedule = s
    BY <2>1, <2>2 DEF NewRun, TypeOK
  <2> QED BY <1>2, <2>3 DEF FireSchedule
<1>3. ASSUME NEW w \in Workers, ClaimAndCommit(w) PROVE FALSE
  BY <1>3 DEF ClaimAndCommit, Batches, Runnable
<1>4. ASSUME NEW c \in Clients, NEW s \in Schedules \cup {None}, RunNow(c, s) PROVE FALSE
  <2>1. PICK n \in Runs, m \in RetryBudgets \cup {0} :
            /\ NewRun(n, c, s, IF s = None THEN "manual" ELSE "schedule_manual", m)
            /\ status' = [status EXCEPT ![n] = "running"]
    BY <1>4 DEF RunNow
  <2>2. q = n
    BY <2>1 DEF TypeOK
  <2> QED BY <2>1, <2>2 DEF NewRun, TypeOK
<1>5. ASSUME NEW p \in Procs, RequeueRun(p) \/ FailRun(p) \/ FinishRun(p) PROVE FALSE
  <2>1. run[p] # q
    BY <1>5 DEF RequeueRun, FailRun, FinishRun, CanFail, Executing, OwnInv, Held, Holds
  <2> QED BY <1>5, <2>1 DEF RequeueRun, FailRun, FinishRun, CommitExecution, TypeOK
<1>6. ASSUME NEW p \in Procs, Rollback(p) PROVE FALSE
  BY <1>6 DEF Rollback
<1> QED BY <1>1, <1>2, <1>3, <1>4, <1>5, <1>6, StepKinds

\* A run that a dead worker has left running stays so, and its schedule starts no
\* run any more.
THEOREM OrphansAreForGood == Spec => OrphansStay
<1> DEFINE Blocks(r) ==
        /\ Orphan(r)'
        /\ info[r].schedule # None =>
              \A q \in Runs : (status[q] = "absent" /\ status'[q] # "absent"
                                 /\ info'[q].schedule = info[r].schedule)
                              => info'[q].trigger_type # "schedule"
<1>1. ASSUME OwnInv, [Next]_vars, NEW r \in Runs, Orphan(r)
      PROVE  Blocks(r)
  <2>1. Orphan(r)'
    <3>1. status'[r] = "running" /\ tx'[r] = None
      BY <1>1, OthersRunsStay
    <3>2. \A p \in Procs : ~Holds(p, r)'
      BY <1>1, NobodyTakesUp DEF Orphan, Holders, Holds
    <3> QED BY <3>1, <3>2 DEF Orphan, Committed, Holders, Holds
  <2>2. \A w \in Workers : HasActiveRun(info[r].schedule, w)
    BY <1>1 DEF Orphan, Committed, HasActiveRun, Visible, Active
  <2> QED BY <1>1, <2>1, <2>2, ScheduledStart
<1>2. OwnInv /\ [Next]_vars => [\A r \in Runs : Orphan(r) => Blocks(r)]_vars
  BY <1>1
<1> QED BY <1>2, OwnInvariant, PTL DEF Spec, OrphansStay

-----------------------------------------------------------------------------
(* How a run is orphaned *)

\* A run that is on record as running and held by nobody after a step was on record
\* as running before it: a claim leaves it in the hands of the worker.
LEMMA OrphansHaveRun ==
    ASSUME OwnInv, CountInv, [Next]_vars, NEW r \in Runs, Orphan(r)'
    PROVE  status[r] = "running" /\ tx[r] = None
<1> TypeOK BY DEF OwnInv
<1> USE ProcsAssumption
<1>1. status'[r] = "running" /\ tx'[r] = None /\ \A p \in Procs : ~Holds(p, r)'
  BY DEF Orphan, Committed, Holders, Holds
<1>2. CASE RowsKept
  BY <1>1, <1>2 DEF RowsKept, runRows
<1>3. ASSUME NEW n, NEW p \in Procs, NEW s, NEW trigger, NEW m, NewRun(n, p, s, trigger, m),
             NEW st, status' = [status EXCEPT ![n] = st]
      PROVE  status[r] = "running" /\ tx[r] = None
  <2>1. n # r
    BY <1>1, <1>3 DEF NewRun, TypeOK
  <2> QED BY <1>1, <1>3, <2>1 DEF NewRun, TypeOK
<1>4. ASSUME NEW w \in Workers, NEW s \in Schedules, FireSchedule(w, s)
      PROVE  status[r] = "running" /\ tx[r] = None
  BY <1>3, <1>4 DEF FireSchedule, Procs
<1>5. ASSUME NEW c \in Clients, NEW s \in Schedules \cup {None}, RunNow(c, s)
      PROVE  status[r] = "running" /\ tx[r] = None
  BY <1>3, <1>5 DEF RunNow, Procs
<1>6. ASSUME NEW w \in Workers, ClaimAndCommit(w)
      PROVE  status[r] = "running" /\ tx[r] = None
  <2>1. PICK C : /\ claimed' = [claimed EXCEPT ![w] = C]
                 /\ status' = [q \in Runs |-> IF q \in C THEN "running" ELSE status[q]]
    BY <1>6 DEF ClaimAndCommit
  <2>2. r \notin C
    BY <1>1, <2>1 DEF Holds, TypeOK, Procs
  <2>3. status[r] = "running" /\ tx[r] # w
    BY <1>1, <2>1, <2>2 DEF CountInv
  <2> QED BY <1>1, <1>6, <2>3 DEF ClaimAndCommit
<1>7. ASSUME NEW p \in Procs, RequeueRun(p) \/ FailRun(p) \/ FinishRun(p)
      PROVE  status[r] = "running" /\ tx[r] = None
  BY <1>1, <1>7, ExecutedRun
     DEF RequeueRun, FailRun, FinishRun, CanFail, Outcome, CommitExecution, TypeOK, Executing
<1>8. ASSUME NEW p \in Procs, Rollback(p)
      PROVE  status[r] = "running" /\ tx[r] = None
  BY <1>1, <1>8 DEF Rollback
<1> QED BY <1>2, <1>4, <1>5, <1>6, <1>7, <1>8, StepKinds

\* The steps that take a run out of hands and leave it running
LEMMA Dropped ==
    ASSUME OwnInv, InHand, [Next]_vars, NEW p \in Procs, NEW r \in Runs,
           Holds(p, r), ~Holds(p, r)', status'[r] = "running"
    PROVE  \/ p \in Workers /\ Crash(p)
           \/ run[p] = r /\ pc[p] \in Executing /\ (StaleRecipient(p) \/ DbError(p))
<1> TypeOK BY DEF OwnInv
<1> USE ProcsAssumption
<1>1. CASE HandsKept
  BY <1>1 DEF HandsKept, Holds
<1>2. ASSUME NEW w \in Workers, ClaimAndCommit(w) PROVE FALSE
  <2>1. claimed[w] = {} /\ run' = run /\ \A q \in Procs : q # w => claimed'[q] = claimed[q]
    BY <1>2 DEF ClaimAndCommit, InHand, execVars, TypeOK
  <2> QED BY <2>1 DEF Holds
<1>3. ASSUME NEW w \in Workers, NEW n \in Runs, ExecuteClaimed(w, n) PROVE FALSE
  <2>1. claimed' = claimed /\ run[w] = 0 /\ \A q \in Procs : q # w => run'[q] = run[q]
    BY <1>3 DEF ExecuteClaimed, Begin, OwnInv, Quiet, TypeOK, Procs, Executing
  <2> QED BY <2>1 DEF Holds, Runs
<1>4. ASSUME NEW c \in Clients, NEW s \in Schedules \cup {None}, RunNow(c, s) PROVE FALSE
  <2>1. claimed' = claimed /\ run[c] = 0 /\ \A q \in Procs : q # c => run'[q] = run[q]
    BY <1>4 DEF RunNow, Begin, OwnInv, Quiet, TypeOK, Procs, Executing
  <2> QED BY <2>1 DEF Holds, Runs
<1>5. ASSUME NEW q \in Procs, run' = [run EXCEPT ![q] = 0],
             claimed' = [claimed EXCEPT ![q] = StillClaimed(q)]
      PROVE  q = p /\ run[p] = r
  BY <1>5 DEF Holds, StillClaimed, TypeOK
<1>6. ASSUME NEW q \in Procs, RequeueRun(q) \/ FailRun(q) \/ FinishRun(q) PROVE FALSE
  <2>1. q = p /\ run[p] = r
    BY <1>5, <1>6 DEF RequeueRun, FailRun, FinishRun, CommitExecution, EndExecution
  <2> QED BY <1>6, <2>1 DEF RequeueRun, FailRun, FinishRun, CommitExecution, Outcome, TypeOK
<1>7. ASSUME NEW q \in Procs, StaleRecipient(q) \/ DbError(q)
      PROVE  run[p] = r /\ pc[p] \in Executing /\ (StaleRecipient(p) \/ DbError(p))
  <2>1. q = p /\ run[p] = r
    BY <1>5, <1>7 DEF StaleRecipient, DbError, AbortTransaction, Rollback, EndExecution
  <2>2. pc[p] \in Executing
    BY <2>1 DEF OwnInv, Quiet, Runs
  <2> QED BY <1>7, <2>1, <2>2
<1>8. ASSUME NEW w \in Workers, Crash(w) PROVE w = p
  BY <1>8 DEF Crash, Rollback, EndExecution, Holds, TypeOK, Procs
<1> QED BY <1>1, <1>2, <1>3, <1>4, <1>6, <1>7, <1>8, HandKinds

\* A run is orphaned by the death of its worker, by a database error in its own
\* execution or by recipients that were replaced under it, and by nothing else.
THEOREM OrphansAreCaused == Spec => OrphansHaveACause
<1> DEFINE Cause(r) ==
        \E w \in Workers :
            /\ r \in claimed[w]
            /\ \/ pc'[w] = "down"
               \/ /\ run[w] = r
                  /\ pc'[w] = "idle"
                  /\ "db" \in Faults \/ snapshot[w] # edition
<1>1. ASSUME OwnInv, CountInv, InHand, [Next]_vars, NEW r \in Runs, Orphan(r)', ~Orphan(r)
      PROVE  Cause(r)
  <2> TypeOK BY <1>1 DEF OwnInv
  <2>1. status[r] = "running" /\ tx[r] = None /\ status'[r] = "running"
    BY <1>1, OrphansHaveRun DEF Orphan
  <2>2. PICK p \in Procs : Holds(p, r) /\ ~Holds(p, r)'
    BY <1>1, <2>1 DEF Orphan, Committed, Holders, Holds
  <2>3. p \in Workers
    BY <1>1, <2>1, <2>2, ProcsAssumption DEF OwnInv, Held, Procs
  <2>4. r \in claimed[p]
    BY <1>1, <2>2, <2>3 DEF Holds, InHand, OwnInv, Quiet, Runs
  <2>5. CASE Crash(p)
    BY <2>3, <2>4, <2>5 DEF Crash, TypeOK
  <2>6. CASE run[p] = r /\ (StaleRecipient(p) \/ DbError(p))
    BY <2>3, <2>4, <2>6 DEF StaleRecipient, DbError, AbortTransaction, TypeOK
  <2> QED BY <1>1, <2>1, <2>2, <2>5, <2>6, Dropped
<1>2. OwnInv /\ CountInv /\ InHand /\ [Next]_vars =>
          [\A r \in Runs : (Orphan(r)' /\ ~Orphan(r)) => Cause(r)]_vars
  BY <1>1
<1> QED BY <1>2, OwnInvariant, CountInvariant, InHandInvariant, PTL
        DEF Spec, OrphansHaveACause

=============================================================================
