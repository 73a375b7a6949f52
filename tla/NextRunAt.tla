------------------------------ MODULE NextRunAt ------------------------------
(***************************************************************************)
(* The calendar of schedules: next_run_at in app/reports/scheduler.py, and   *)
(* what it is to return.  Days are numbered like date.toordinal does, day 1  *)
(* is a Monday; a moment is a day and a time.                                *)
(***************************************************************************)
EXTENDS Integers

CONSTANTS
    LastMonth,      \* months are numbered 0..LastMonth
    First,          \* the first day of each month
    Times           \* the times of a day

\* The order of the months follows from their lengths, by induction.
ASSUME CalendarAssumption ==
    /\ LastMonth \in Nat
    /\ First \in [0..LastMonth + 1 -> Nat]
    /\ \A m \in 0..LastMonth : First[m + 1] - First[m] \in 28..31
    /\ \A m, n \in 0..LastMonth + 1 : m < n => First[m] < First[n]
    /\ Times \subseteq Nat

Frequencies == {"daily", "weekly", "monthly"}

\* run_at_time, day_of_week and day_of_month; what is absent counts as 0
Timetables == [frequency : Frequencies, time : Times, dow : Nat, dom : Nat]

InMonth(day, m) == First[m] <= day /\ day < First[m + 1]

\* The comparison of datetimes
IsAfter(day, time, now) == day > now.day \/ (day = now.day /\ time > now.time)

Nows == {now \in [month : 0..LastMonth, day : Nat, time : Times] : InMonth(now.day, now.month)}

MonthOf(day) == CHOOSE m \in 0..LastMonth : InMonth(day, m)

IsoWeekday(day) == IF day % 7 = 0 THEN 7 ELSE day % 7

Or1(n) == IF n = 0 THEN 1 ELSE n

TargetDow(s) == Or1(s.dow)
TargetDay(s) == IF Or1(s.dom) < 28 THEN Or1(s.dom) ELSE 28

\* The day that now belongs to, in its week or in its month
Candidate(s, now) ==
    IF s.frequency = "daily" THEN now.day
    ELSE IF s.frequency = "weekly"
         THEN now.day + ((TargetDow(s) - IsoWeekday(now.day)) % 7)
         ELSE First[now.month] + TargetDay(s) - 1

\* The one after it
Following(s, now) ==
    IF s.frequency = "daily" THEN Candidate(s, now) + 1
    ELSE IF s.frequency = "weekly" THEN Candidate(s, now) + 7
         ELSE First[MonthOf(First[now.month] + 32)] + TargetDay(s) - 1

NextRun(s, now) ==
    IF IsAfter(Candidate(s, now), s.time, now)
    THEN Candidate(s, now) ELSE Following(s, now)

-----------------------------------------------------------------------------
(* What it is to return *)

\* The days a schedule is for
Matches(s, day) ==
    \/ s.frequency = "daily"
    \/ s.frequency = "weekly" /\ (day - TargetDow(s)) % 7 = 0
    \/ s.frequency = "monthly" /\ \E m \in 0..LastMonth : day = First[m] + TargetDay(s) - 1

\* Its first moment that is still to come, and at most a month away
IsNext(s, now, next) ==
    /\ Matches(s, next)
    /\ IsAfter(next, s.time, now)
    /\ next - now.day <= 31
    /\ \A day \in now.day .. next - 1 :
          Matches(s, day) => ~IsAfter(day, s.time, now)

=============================================================================
