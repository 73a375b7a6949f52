---------------------------- MODULE RunLifecycle ----------------------------
(***************************************************************************)
(* What a report run promises to whoever reads app.schedule_runs: it shows *)
(* up, waits and runs in turn, is given up after its retries, and once it  *)
(* has ended it never changes.  ReportScheduler implements it.             *)
(***************************************************************************)
EXTENDS Naturals

CONSTANTS
    Runs,
    Budgets     \* values max_retries takes

VARIABLES
    phase,      \* what the table shows of each run
    executions, \* attempts that were committed
    budget      \* max_retries, known once the run shows up

vars == <<phase, executions, budget>>

Phases == {"unknown", "waiting", "running", "ended"}

Init ==
    /\ phase = [r \in Runs |-> "unknown"]
    /\ executions = [r \in Runs |-> 0]
    /\ budget \in [Runs -> Budgets]

Becomes(r, ph, n) == phase'[r] = ph /\ executions'[r] = n

\* A scheduled run shows up before its first attempt, a requested one after it.
Appear(r) ==
    /\ phase[r] = "unknown"
    /\ budget'[r] \in Budgets
    /\ \/ Becomes(r, "waiting", 0)
       \/ Becomes(r, "running", 0)
       \/ Becomes(r, "waiting", 1) /\ budget'[r] >= 1
       \/ Becomes(r, "ended", 1)

Claim(r) ==
    /\ phase[r] = "waiting"
    /\ Becomes(r, "running", executions[r])
    /\ budget'[r] = budget[r]

Retry(r) ==
    /\ phase[r] = "running"
    /\ executions[r] + 1 <= budget[r]
    /\ Becomes(r, "waiting", executions[r] + 1)
    /\ budget'[r] = budget[r]

End(r) ==
    /\ phase[r] = "running"
    /\ Becomes(r, "ended", executions[r] + 1)
    /\ budget'[r] = budget[r]

\* Not shown yet: its budget is nobody's business
Hidden(r) == phase[r] = "unknown" /\ Becomes(r, "unknown", 0)

Same(r) == Becomes(r, phase[r], executions[r]) /\ budget'[r] = budget[r]

\* One commit may move several runs.
Next ==
    /\ phase' \in [Runs -> Phases]
    /\ executions' \in [Runs -> Nat]
    /\ budget' \in [Runs -> Budgets]
    /\ \A r \in Runs : \/ Appear(r) \/ Claim(r) \/ Retry(r) \/ End(r)
                       \/ Hidden(r) \/ Same(r)

Spec == Init /\ [][Next]_vars

=============================================================================
