-------------------------- MODULE MCReportScheduler --------------------------
(* ReportScheduler on small instances, and the calendar of its schedules on a short one *)
EXTENDS ReportScheduler, NextRunAt, FiniteSetsExt, TLC

WorkerSymmetry == Permutations(Workers)
ClientSymmetry == Permutations(Clients) \cup Permutations(Destinations)

\* No process ever looks at a run that ended.  To let schedules fire for ever in a table
\* of MaxRuns runs, an ended one is forgotten at once, and later ones take its place.
Ended == {r \in Runs : status[r] \in Terminal}

Forget ==
    LET old == Min(Ended)
        Place(r) == IF r > old THEN r - 1 ELSE r
        Without(column, blank) ==
            [r \in Runs |-> IF r < old THEN column[r]
                           ELSE IF r < MaxRuns THEN column[r + 1] ELSE blank] IN
    /\ Ended # {}
    /\ status' = Without(status, "absent")
    /\ info' = Without(info, [schedule |-> None, trigger_type |-> "manual", max_retries |-> 0])
    /\ retry_count' = Without(retry_count, 0)
    /\ next_retry_at' = Without(next_retry_at, 0)
    /\ attempts' = Without(attempts, 0)
    /\ tx' = Without(tx, None)
    /\ created' = created - 1
    /\ recorded' = Without(recorded, {})
    /\ sent' = Without(sent, [d \in Destinations |-> 0])
    /\ claimed' = [p \in Procs |-> {Place(r) : r \in claimed[p]}]
    /\ run' = [p \in Procs |-> Place(run[p])]
    /\ UNCHANGED <<schedVars, edition, pc, cycleVars, snapshot, left, delivered,
                   any_failure, form>>

Ongoing ==
    /\ Init /\ [][Forget \/ (Ended = {} /\ Next)]_vars
    /\ Fairness /\ WF_vars(Forget)

\* Months of 31, 28, 31, 30 and 29 days, and one after them; the year begins on a Thursday
MCLastMonth == 5
MCFirst == [m \in 0..6 |-> <<4, 35, 63, 94, 124, 153, 184>>[m + 1]]
MCTimes == 0..1

MCTimetables ==
    {s \in [frequency : Frequencies, time : MCTimes, dow : 0..8, dom : {0, 1, 28, 31}] :
        /\ s.frequency # "weekly" => s.dow = 0
        /\ s.frequency # "monthly" => s.dom = 0}

MCNows == {now \in [month : 0..4, day : 4..152, time : MCTimes] : InMonth(now.day, now.month)}

\* What Upcoming takes next_run_at() to return: a moment to come, the first that fits
ASSUME UpcomingAssumption ==
    \A s \in MCTimetables, now \in MCNows : IsNext(s, now, NextRun(s, now))

=============================================================================
