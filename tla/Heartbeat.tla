----------------------------- MODULE Heartbeat -----------------------------
(***************************************************************************)
(* How the scheduler worker tells that it is alive: wait_for_db.py,         *)
(* scheduler_loop with its heartbeats (reports/scheduler.py,                *)
(* reports/worker_runtime.py), and what worker_health_cli.py makes of them. *)
(* Workers share one row when they are started under one name.  What a      *)
(* cycle does is the matter of module ReportScheduler.                      *)
(***************************************************************************)
EXTENDS Integers, FiniteSets

CONSTANTS
    Workers,
    NoRow,
    Attempts,       \* of wait_for_database
    TTL,            \* worker_heartbeat_ttl_seconds
    Poll,           \* scheduler_poll_interval_seconds
    MaxTime         \* bound on the clock

Statuses == {"starting", "running", "sleeping", "error"}

ASSUME HeartbeatAssumption ==
    /\ {Attempts, TTL, Poll, MaxTime} \subseteq Nat
    /\ Attempts > 0 /\ Poll > 0
    /\ NoRow \notin [seen : Nat, status : Statuses]

VARIABLES
    now,
    up,         \* the database answers
    row,        \* the worker_heartbeats row
    pc,         \* where each worker is
    tried,      \* attempts to connect
    phase,      \* the status of the heartbeat it is about to record
    exists,     \* the row was there when it looked
    since,      \* when its cycle or its sleep began, else 0
    lost        \* its last heartbeat was not recorded

worker == <<pc, tried, phase, exists, since, lost>>
vars == <<now, up, row, worker>>

\* scheduler_worker_stale_after_seconds
StaleAfter == IF TTL > 3 * Poll THEN TTL ELSE 3 * Poll

\* heartbeat_is_fresh, the answer of the health probe
Fresh == row # NoRow /\ now - row.seen <= StaleAfter

TypeOK ==
    /\ now \in 0..MaxTime
    /\ up \in BOOLEAN
    /\ row = NoRow \/ row \in [seen : 0..now, status : Statuses]
    /\ pc \in [Workers -> {"waiting", "beat", "write", "cycle", "asleep", "exited", "dead"}]
    /\ tried \in [Workers -> 0..Attempts - 1]
    /\ phase \in [Workers -> Statuses]
    /\ exists \in [Workers -> BOOLEAN]
    /\ since \in [Workers -> 0..now]
    /\ lost \in [Workers -> BOOLEAN]

Init ==
    /\ now = 0
    /\ up \in BOOLEAN
    /\ row = NoRow
    /\ pc = [w \in Workers |-> "waiting"]
    /\ tried = [w \in Workers |-> 0]
    /\ phase = [w \in Workers |-> "starting"]
    /\ exists = [w \in Workers |-> FALSE]
    /\ since = [w \in Workers |-> 0]
    /\ lost = [w \in Workers |-> TRUE]

-----------------------------------------------------------------------------
(* Start *)

Connect(w) ==
    /\ pc[w] = "waiting"
    /\ up
    /\ pc' = [pc EXCEPT ![w] = "beat"]
    /\ tried' = [tried EXCEPT ![w] = 0]
    /\ UNCHANGED <<now, up, row, phase, exists, since, lost>>

AfterTheLast == "exited"

Last(w) == tried[w] + 1 = Attempts

\* _wait_for_single_database; the last failure is raised, and ends the process
CannotConnect(w) ==
    /\ pc[w] = "waiting"
    /\ ~up
    /\ tried' = [tried EXCEPT ![w] = IF Last(w) THEN 0 ELSE @ + 1]
    /\ pc' = [pc EXCEPT ![w] = IF Last(w) THEN AfterTheLast ELSE "waiting"]
    /\ UNCHANGED <<now, up, row, phase, exists, since, lost>>

-----------------------------------------------------------------------------
(* Heartbeats *)

\* What scheduler_loop does once a heartbeat is recorded, or lost
Then(w) == CASE phase[w] = "starting" -> "beat"
             [] phase[w] = "running" -> "cycle"
             [] OTHER -> "asleep"

\* ... and the status of the heartbeat after that
After(w) == IF phase[w] = "starting" THEN "running" ELSE phase[w]

Go(w) ==
    /\ pc' = [pc EXCEPT ![w] = Then(w)]
    /\ phase' = [phase EXCEPT ![w] = After(w)]
    /\ since' = [since EXCEPT ![w] = IF Then(w) = "beat" THEN 0 ELSE now]

LookUp(w) ==
    /\ pc[w] = "beat"
    /\ up
    /\ exists' = [exists EXCEPT ![w] = row # NoRow]
    /\ pc' = [pc EXCEPT ![w] = "write"]
    /\ UNCHANGED <<now, up, row, tried, phase, since, lost>>

\* A second INSERT of the name breaks the unique constraint.
Record(w) ==
    /\ pc[w] = "write"
    /\ up
    /\ exists[w] \/ row = NoRow
    /\ row' = [seen |-> now, status |-> phase[w]]
    /\ lost' = [lost EXCEPT ![w] = FALSE]
    /\ Go(w)
    /\ UNCHANGED <<now, up, tried, exists>>

\* [bug] a heartbeat that fails ends the worker
Survives_Not(w) == pc' = [pc EXCEPT ![w] = "exited"] /\ UNCHANGED <<phase, since>>

\* _best_effort_worker_heartbeat catches everything.
Survives(w) == Go(w)

Lose(w) ==
    /\ pc[w] \in {"beat", "write"}
    /\ ~up \/ (pc[w] = "write" /\ ~exists[w] /\ row # NoRow)
    /\ lost' = [lost EXCEPT ![w] = TRUE]
    /\ Survives(w)
    /\ UNCHANGED <<now, up, row, tried, exists>>

-----------------------------------------------------------------------------
(* The loop *)

\* [bug] a cycle ends without a heartbeat
Done_Silent(w) == "asleep"

Done(w) == "beat"

\* run_scheduler_cycle returns, or raises
EndCycle(w) ==
    /\ pc[w] = "cycle"
    /\ pc' = [pc EXCEPT ![w] = Done(w)]
    /\ phase' \in {[phase EXCEPT ![w] = s] : s \in IF up THEN {"sleeping", "error"} ELSE {"error"}}
    /\ since' = [since EXCEPT ![w] = now]
    /\ UNCHANGED <<now, up, row, tried, exists, lost>>

Wake(w) ==
    /\ pc[w] = "asleep"
    /\ now - since[w] >= Poll
    /\ pc' = [pc EXCEPT ![w] = "beat"]
    /\ phase' = [phase EXCEPT ![w] = "running"]
    /\ since' = [since EXCEPT ![w] = 0]
    /\ UNCHANGED <<now, up, row, tried, exists, lost>>

Crash(w) ==
    /\ pc[w] \notin {"exited", "dead"}
    /\ pc' = [pc EXCEPT ![w] = "dead"]
    /\ tried' = [tried EXCEPT ![w] = 0]
    /\ phase' = [phase EXCEPT ![w] = "starting"]
    /\ exists' = [exists EXCEPT ![w] = FALSE]
    /\ since' = [since EXCEPT ![w] = 0]
    /\ lost' = [lost EXCEPT ![w] = TRUE]
    /\ UNCHANGED <<now, up, row>>

\* The container is started again by hand; compose gives it no restart policy.
Restart(w) ==
    /\ pc[w] \in {"exited", "dead"}
    /\ pc' = [pc EXCEPT ![w] = "waiting"]
    /\ UNCHANGED <<now, up, row, tried, phase, exists, since, lost>>

Outage == up' = ~up /\ UNCHANGED <<now, row, worker>>

\* Heartbeats take no time and a sleep takes Poll.  Nothing limits a cycle, which
\* executes and sends every run that it has claimed before it returns.
Patient(w) == pc[w] = "asleep" => now - since[w] < Poll

Tick ==
    /\ now < MaxTime
    /\ \A w \in Workers : pc[w] \notin {"beat", "write"} /\ Patient(w)
    /\ now' = now + 1
    /\ UNCHANGED <<up, row, worker>>

Step(w) ==
    \/ Connect(w) \/ CannotConnect(w) \/ LookUp(w) \/ Record(w) \/ Lose(w)
    \/ EndCycle(w) \/ Wake(w)

Next ==
    \/ Tick \/ Outage
    \/ \E w \in Workers : Step(w) \/ Crash(w) \/ Restart(w)

Spec == Init /\ [][Next]_vars

\* The processes run; the clock does not stop before its bound.
FairSpec == Spec /\ WF_vars(Tick) /\ \A w \in Workers : WF_vars(Step(w))

-----------------------------------------------------------------------------
(* Properties *)

\* A worker that recorded its last heartbeat is stale to the probe only while it is in a
\* cycle that has itself lasted longer than the probe allows, which the code does not
\* rule out; asleep it is healthy after whatever cycle, and whatever else fails around it.
WorkingIsHealthy ==
    \A w \in Workers :
        pc[w] \in {"cycle", "asleep"} /\ ~lost[w] /\ ~Fresh =>
            pc[w] = "cycle" /\ now - since[w] > StaleAfter

\* A database that is away holds a worker up when it starts, and not for ever: it
\* comes to its loop or exits.  In the loop nothing but its own death stops it:
\* every cycle is followed by a sleep, lost heartbeats and failed cycles included.
LoopGoesOn ==
    \A w \in Workers :
        /\ pc[w] = "waiting" ~> pc[w] # "waiting"
        /\ pc[w] = "cycle" ~> pc[w] \in {"asleep", "dead"}

=============================================================================
