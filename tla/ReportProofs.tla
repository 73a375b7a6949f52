---------------------------- MODULE ReportProofs ----------------------------
(***************************************************************************)
(* The calendar of the schedules and the edits of a report.                 *)
(*                                                                          *)
(* For any calendar whose months have 28 to 31 days, any time and any       *)
(* schedule: what next_run_at returns is the next occurrence.               *)
(***************************************************************************)
EXTENDS NextRunAt, ReportEdits, FiniteSetTheorems, TLAPS

\* The first days of three months that follow each other
LEMMA Lengths ==
    ASSUME NEW m \in 0..LastMonth, m < LastMonth
    PROVE  /\ m \in Nat /\ LastMonth \in Nat
           /\ First[m] \in Nat /\ First[m + 1] \in Nat /\ First[m + 2] \in Nat
           /\ First[m + 1] - First[m] \in 28..31
           /\ First[m + 2] - First[m + 1] \in 28..31
<1>1. m + 1 \in 0..LastMonth /\ m + 2 \in 0..LastMonth + 1 /\ m + 1 + 1 = m + 2
      /\ m \in 0..LastMonth + 1 /\ m + 1 \in 0..LastMonth + 1
  BY CalendarAssumption
<1>2. First[m] \in Nat /\ First[m + 1] \in Nat /\ First[m + 2] \in Nat
  BY <1>1, CalendarAssumption
<1>3. \A n \in 0..LastMonth : First[n + 1] - First[n] \in 28..31
  BY CalendarAssumption
<1>4. First[m + 1] - First[m] \in 28..31
  BY <1>3
<1>5. First[m + 1 + 1] - First[m + 1] \in 28..31
  BY <1>1, <1>3
<1> QED
  BY <1>1, <1>2, <1>4, <1>5, CalendarAssumption

\* 32 days after its first day a month is over, and the next one is not.
LEMMA NextMonth ==
    ASSUME NEW m \in 0..LastMonth, m < LastMonth
    PROVE  MonthOf(First[m] + 32) = m + 1
<1>1. /\ m \in Nat /\ LastMonth \in Nat
      /\ First[m] \in Nat /\ First[m + 1] \in Nat /\ First[m + 2] \in Nat
      /\ First[m + 1] - First[m] \in 28..31
      /\ First[m + 2] - First[m + 1] \in 28..31
  BY Lengths
<1>2. m + 1 \in 0..LastMonth /\ m + 1 + 1 = m + 2 /\ m + 2 \in 0..LastMonth + 1
  BY <1>1
<1>3. InMonth(First[m] + 32, m + 1)
  <2>1. First[m + 1] <= First[m] + 32 /\ First[m] + 32 < First[m + 2]
    BY <1>1
  <2> QED
    BY <1>2, <2>1 DEF InMonth
<1>4. ASSUME NEW n \in 0..LastMonth, InMonth(First[m] + 32, n) PROVE n = m + 1
  <2>1. First[n] \in Nat /\ First[n + 1] \in Nat
        /\ n \in 0..LastMonth + 1 /\ n + 1 \in 0..LastMonth + 1
    BY CalendarAssumption
  <2>2. First[n] <= First[m] + 32 /\ First[m] + 32 < First[n + 1]
    BY <1>4 DEF InMonth
  <2>3. ~ (n + 1 <= m + 1)
    <3>1. n + 1 < m + 1 => First[n + 1] < First[m + 1]
      BY <1>2, <2>1, CalendarAssumption
    <3>2. n + 1 <= m + 1 => First[n + 1] <= First[m + 1]
      BY <1>1, <2>1, <3>1
    <3> QED
      BY <1>1, <2>1, <2>2, <3>2
  <2>4. ~ (m + 2 <= n)
    <3>1. m + 2 < n => First[m + 2] < First[n]
      BY <1>2, <2>1, CalendarAssumption
    <3>2. m + 2 <= n => First[m + 2] <= First[n]
      BY <1>1, <2>1, <3>1
    <3> QED
      BY <1>1, <2>1, <2>2, <3>2
  <2> QED
    BY <1>1, <2>3, <2>4
<1> QED
  BY <1>2, <1>3, <1>4 DEF MonthOf

LEMMA Mod7 ==
    ASSUME NEW x \in Int, NEW y \in Int, x % 7 = 0
    PROVE  (x + y) % 7 = 0 <=> y % 7 = 0
<1>1. PICK q \in Int : x = 7 * q
  <2>1. x = 7 * (x \div 7) + (x % 7) /\ x \div 7 \in Int
    OBVIOUS
  <2> QED
    BY <2>1
<1> QED
  BY <1>1

\* A weekday is the number of its day, modulo 7.
LEMMA Weekdays ==
    ASSUME NEW d \in Nat
    PROVE  IsoWeekday(d) \in 1..7 /\ (d - IsoWeekday(d)) % 7 = 0
<1>1. d % 7 \in 0..6 /\ (d - 7) % 7 = d % 7
  OBVIOUS
<1>2. (d - (d % 7)) % 7 = 0
  OBVIOUS
<1> QED
  BY <1>1, <1>2 DEF IsoWeekday

\* Of the fourteen days that begin with d, the two that are on the weekday t
LEMMA WeekdayDays ==
    ASSUME NEW d \in Nat, NEW t \in Nat, NEW w \in 1..7, (d - w) % 7 = 0
    PROVE  /\ (t - w) % 7 \in 0..6
           /\ \A day \in d .. d + 13 :
                 (day - t) % 7 = 0 <=> day \in {d + ((t - w) % 7), d + ((t - w) % 7) + 7}
<1>1. PICK k : k = (t - w) % 7
  OBVIOUS
<1>2. k \in 0..6 /\ (k - (t - w)) % 7 = 0
  BY <1>1
<1>3. (d + k - t) % 7 = 0
  <2>1. d - w \in Int /\ k - (t - w) \in Int /\ (d - w) + (k - (t - w)) = d + k - t
    BY <1>2
  <2> QED
    BY <1>2, <2>1, Mod7
<1>4. ASSUME NEW day \in d .. d + 13
      PROVE  (day - t) % 7 = 0 <=> day \in {d + k, d + k + 7}
  <2>1. PICK y \in Int : y = day - (d + k)
    BY <1>2
  <2>2. (d + k - t) \in Int /\ (d + k - t) + y = day - t /\ y >= -6 /\ y <= 13
    BY <1>2, <2>1
  <2>3. (day - t) % 7 = 0 <=> y % 7 = 0
    BY <1>3, <2>2, Mod7
  <2>4. y % 7 = 0 <=> y \in {0, 7}
    BY <2>2
  <2>5. y \in {0, 7} <=> day \in {d + k, d + k + 7}
    BY <1>2, <2>1
  <2> QED
    BY <2>3, <2>4, <2>5
<1> QED
  BY <1>1, <1>2, <1>4

\* A daily or weekly schedule has an occurrence in the week, or the day, that begins now.
LEMMA NextOfDays ==
    ASSUME NEW s \in Timetables, NEW now \in Nows, s.frequency # "monthly"
    PROVE  IsNext(s, now, NextRun(s, now))
<1>1. now.day \in Nat /\ now.time \in Nat /\ s.time \in Nat
  BY CalendarAssumption DEF Nows, Timetables
<1>2. CASE s.frequency = "daily"
  <2>1. Candidate(s, now) = now.day /\ Following(s, now) = now.day + 1
    BY <1>2 DEF Candidate, Following
  <2>2. \A day : Matches(s, day)
    BY <1>2 DEF Matches
  <2> QED
    BY <1>1, <2>1, <2>2 DEF IsNext, NextRun, IsAfter
<1>3. CASE s.frequency = "weekly"
  <2> DEFINE t == TargetDow(s)
             k == (t - IsoWeekday(now.day)) % 7
  <2>1. t \in Nat
    BY DEF TargetDow, Or1, Timetables
  <2>2. Candidate(s, now) = now.day + k /\ Following(s, now) = now.day + k + 7
    BY <1>3 DEF Candidate, Following
  <2>3. k \in 0..6 /\ \A day \in now.day .. now.day + 13 :
                         (day - t) % 7 = 0 <=> day \in {now.day + k, now.day + k + 7}
    BY <1>1, <2>1, Weekdays, WeekdayDays
  <2>4. \A day : Matches(s, day) <=> (day - t) % 7 = 0
    BY <1>3 DEF Matches
  <2> HIDE DEF t, k
  <2>5. CASE IsAfter(now.day + k, s.time, now)
    BY <1>1, <2>2, <2>3, <2>4, <2>5 DEF IsNext, NextRun, IsAfter
  <2>6. CASE ~IsAfter(now.day + k, s.time, now)
    BY <1>1, <2>2, <2>3, <2>4, <2>6 DEF IsNext, NextRun, IsAfter
  <2> QED
    BY <2>5, <2>6
<1> QED
  BY <1>2, <1>3 DEF Timetables, Frequencies

\* The day of a monthly schedule lies in its month, whatever its length.
LEMMA NextOfMonths ==
    ASSUME NEW s \in Timetables, NEW now \in Nows, s.frequency = "monthly",
           now.month < LastMonth
    PROVE  IsNext(s, now, NextRun(s, now))
<1> DEFINE m == now.month
           t == TargetDay(s)
<1>1. now.day \in Nat /\ now.time \in Nat /\ s.time \in Nat /\ m \in 0..LastMonth
      /\ First[m] <= now.day /\ now.day < First[m + 1]
  BY CalendarAssumption DEF Nows, Timetables, InMonth
<1>2. t \in 1..28
  BY DEF TargetDay, Or1, Timetables
<1>3. /\ m \in Nat /\ LastMonth \in Nat
      /\ First[m] \in Nat /\ First[m + 1] \in Nat /\ First[m + 2] \in Nat
      /\ First[m + 1] - First[m] \in 28..31
  BY <1>1, Lengths
<1>4. Candidate(s, now) = First[m] + t - 1
  BY DEF Candidate
<1>5. Following(s, now) = First[m + 1] + t - 1
  BY <1>1, NextMonth DEF Following
<1>6. \A day : Matches(s, day) <=> \E n \in 0..LastMonth : day = First[n] + t - 1
  BY DEF Matches
<1> HIDE DEF t
<1>7. m + 1 \in 0..LastMonth
  BY <1>1, <1>3
<1>8. Matches(s, First[m] + t - 1) /\ Matches(s, First[m + 1] + t - 1)
  BY <1>1, <1>6, <1>7
<1>9. ASSUME NEW day \in Nat, Matches(s, day), First[m] <= day, day < First[m + 1] + t - 1
      PROVE  day = First[m] + t - 1
  <2>1. PICK n \in 0..LastMonth : day = First[n] + t - 1
    BY <1>6, <1>9
  <2>2. n \in Nat /\ First[n] \in Nat /\ n \in 0..LastMonth + 1 /\ m \in 0..LastMonth + 1
        /\ m + 1 \in 0..LastMonth + 1
    BY <1>1, <1>7, CalendarAssumption
  <2>3. n < m + 1
    <3>1. n > m + 1 => First[m + 1] < First[n]
      BY <1>7, <2>2, CalendarAssumption
    <3> QED
      BY <1>2, <1>3, <1>9, <2>1, <2>2, <3>1
  <2>4. ~ (n < m)
    <3>1. n < m => n + 1 \in 0..LastMonth + 1 /\ (n + 1 = m \/ n + 1 < m)
      BY <1>3, <2>2
    <3>2. n < m => First[n + 1] <= First[m] /\ First[n + 1] \in Nat
      BY <1>3, <2>2, <3>1, CalendarAssumption
    <3>3. First[n + 1] - First[n] \in 28..31
      BY CalendarAssumption
    <3> QED
      BY <1>2, <1>3, <1>9, <2>1, <2>2, <3>2, <3>3
  <2>5. n = m
    BY <1>3, <2>2, <2>3, <2>4
  <2> QED
    BY <2>1, <2>5
<1> HIDE DEF m
<1>10. CASE IsAfter(First[m] + t - 1, s.time, now)
  BY <1>1, <1>2, <1>3, <1>4, <1>8, <1>9, <1>10 DEF IsNext, NextRun, IsAfter
<1>11. CASE ~IsAfter(First[m] + t - 1, s.time, now)
  BY <1>1, <1>2, <1>3, <1>4, <1>5, <1>8, <1>9, <1>11 DEF IsNext, NextRun, IsAfter
<1> QED
  BY <1>10, <1>11

\* What next_run_at (app/reports/scheduler.py) returns lies in the future, is at most a
\* month away, is a day the schedule is for, and no such day and time before it is still
\* to come: at month ends, for weekdays of any number and when the time is now as well.
THEOREM NextRunIsNext ==
    ASSUME NEW s \in Timetables, NEW now \in Nows, now.month < LastMonth
    PROVE  IsNext(s, now, NextRun(s, now))
BY NextOfDays, NextOfMonths

-----------------------------------------------------------------------------
(***************************************************************************)
(* Edits of a report.  What a request has read may be out of date in one   *)
(* way only: whatever it has not seen is the work of requests that         *)
(* committed while it was open.                                            *)
(***************************************************************************)

USE EditAssumption

VersionRows == [number : Nat, content : [Versioned -> Values], by : Writers]
RecipientRows == [to : Destinations, by : Writers]

Sights ==
    [report : [content : Contents, latest : Nat], number : Nat]
    \cup [version : VersionRows]
    \cup [recipients : SUBSET RecipientRows]

\* What an open request has read is what its task needs.
Fits(r) ==
    /\ task[r].kind = "patch" =>
          seen[r] \in [report : [content : Contents, latest : Nat], number : Nat]
    /\ task[r].kind = "run" => seen[r].version \in versions
    /\ task[r].kind \in {"share", "replace"} => seen[r].recipients \in SUBSET RecipientRows

Typed ==
    /\ TypeOK
    /\ task \in [Requests -> Tasks \cup {[kind |-> "none"]}]
    /\ seen \in [Requests -> Sights]
    /\ \A r \in Requests : /\ pc[r] = "idle" => task[r].kind = "none"
                           /\ pc[r] # "idle" => task[r] \in Tasks
                           /\ pc[r] = "counted" => VersionNeeded(r)
                           /\ Open(r) => Fits(r)

Counted == \E n \in Nat \ {0} : Numbers = 1..n

UpToDate ==
    \A r \in Requests :
        /\ pc[r] = "counted" =>
              /\ seen[r].number \in Numbers
              /\ \A v \in versions : v.number > seen[r].number => v.by \in rivals[r]
        /\ Open(r) /\ task[r].kind \in {"share", "replace"} =>
              \A x \in recipients \ seen[r].recipients : x.by \in rivals[r]

VersionsApart ==
    \A v, w \in versions : v # w /\ v.number = w.number => Overlapped(v.by, w.by)

\* Have two edits of the content overlapped?
Crossed == \E r \in Requests : task[r].kind = "patch" /\ Behind(r)

\* While none have, the report, its last version and what is read of them agree.
Shown ==
    ~Crossed =>
        /\ \A v \in Latest : v.content = Pinned(report.content)
        /\ \A r \in Requests :
              /\ Open(r) /\ task[r].kind = "patch" => seen[r].report.content = report.content
              /\ pc[r] = "counted" => seen[r].number = Highest
              /\ Open(r) /\ task[r].kind = "run" /\ ~Behind(r) =>
                    seen[r].version.content = Pinned(report.content)

EditInv ==
    Typed /\ Counted /\ UpToDate /\ DuplicatesHaveACause /\ VersionsApart /\ Shown /\ RunsAsShown

LEMMA MaxOfInterval == ASSUME NEW n \in Nat \ {0} PROVE Max(1..n) = n
<1>1. n \in 1..n /\ \A y \in 1..n : n >= y
  OBVIOUS
<1>2. \A x \in 1..n : (\A y \in 1..n : x >= y) => x = n
  BY <1>1
<1> QED BY <1>1, <1>2 DEF Max

LEMMA HighestIs ==
    ASSUME NEW n \in Nat \ {0}, Numbers = 1..n PROVE Highest = n
  BY MaxOfInterval DEF Highest

LEMMA HighestStays == UNCHANGED versions => Highest' = Highest /\ Latest' = Latest
  BY DEF Highest, Latest, Numbers

LEMMA InitEdits == Init => EditInv
<1> SUFFICES ASSUME Init PROVE EditInv
  OBVIOUS
<1>1. PICK content \in Contents :
          /\ report = [content |-> content, latest |-> 1]
          /\ versions = {[number |-> 1, content |-> Pinned(content), by |-> Creator]}
  BY DEF Init
<1>2. PICK given \in SUBSET Destinations :
          \E kept \in Normalized(given) : recipients = [to : kept, by : {Creator}]
  BY DEF Init
<1>10. PICK kept \in Normalized(given) : recipients = [to : kept, by : {Creator}]
  BY <1>2
<1>3. Pinned(content) \in [Versioned -> Values]
  BY DEF Pinned, Contents, Versioned, Parts
<1>4. kept \subseteq Destinations /\ \A x, y \in kept : Key(x) = Key(y) => x = y
  BY DEF Normalized
<1>5. TypeOK
  <2>1. /\ report \in [content : Contents, latest : Nat]
        /\ \A v \in versions : v \in [number : Nat, content : [Versioned -> Values], by : Writers]
    BY <1>1, <1>3 DEF Writers
  <2>2. recipients \subseteq [to : Destinations, by : Writers]
    BY <1>10, <1>4 DEF Writers
  <2> QED BY <2>1, <2>2 DEF Init, TypeOK
<1>6. Typed
  BY <1>1, <1>5 DEF Init, Typed, Sights, Open
<1>7. Numbers = 1..1
  BY <1>1 DEF Numbers
<1>8. DuplicatesHaveACause
  BY <1>10, <1>4 DEF DuplicatesHaveACause
<1>9. VersionsApart /\ Shown
  BY <1>1 DEF Init, VersionsApart, Shown, Latest, Open
<1> QED BY <1>6, <1>7, <1>8, <1>9 DEF Init, EditInv, Counted, UpToDate, RunsAsShown, Open

\* What every commit does, whatever it writes
LEMMA CommitKeeps ==
    ASSUME Typed, NEW r \in Requests, Commit(r)
    PROVE  /\ Open(r) /\ UNCHANGED <<task, seen>>
           /\ VersionNeeded(r) <=> pc[r] = "counted"
           /\ pc' \in [Requests -> {"idle", "read", "counted", "done"}]
           /\ rivals' \in [Requests -> SUBSET Requests]
           /\ \A s \in Requests : rivals[s] \subseteq rivals'[s] /\ rivals'[s] \subseteq rivals[s] \cup {r}
           /\ \A s \in Requests : Open(s)' => s # r /\ Open(s) /\ pc'[s] = pc[s] /\ r \in rivals'[s]
           /\ \A s \in Requests : pc'[s] = "counted" => pc[s] = "counted"
           /\ \A s \in Requests : pc'[s] = "idle" <=> pc[s] = "idle"
           /\ \A s \in Requests : VersionNeeded(s)' <=> VersionNeeded(s)
           /\ \A x, y : Overlapped(x, y) => Overlapped(x, y)'
           /\ \A s \in Requests : Behind(s) => Behind(s)'
           /\ Crossed => Crossed'
<1>1. /\ Open(r) /\ UNCHANGED <<task, seen>>
      /\ VersionNeeded(r) <=> pc[r] = "counted"
      /\ pc' = [pc EXCEPT ![r] = "done"]
      /\ rivals' = [s \in Requests |->
           IF s # r /\ Open(s) THEN rivals[s] \cup {r} ELSE rivals[s]]
  BY DEF Commit, Open
<1>2. /\ pc' \in [Requests -> {"idle", "read", "counted", "done"}]
      /\ rivals' \in [Requests -> SUBSET Requests]
      /\ \A s \in Requests : rivals[s] \subseteq rivals'[s] /\ rivals'[s] \subseteq rivals[s] \cup {r}
      /\ \A s \in Requests : Open(s)' => s # r /\ Open(s) /\ pc'[s] = pc[s] /\ r \in rivals'[s]
      /\ \A s \in Requests : pc'[s] = "counted" => pc[s] = "counted"
      /\ \A s \in Requests : pc'[s] = "idle" <=> pc[s] = "idle"
  BY <1>1 DEF Typed, TypeOK, Open
<1>3. \A s \in Requests : VersionNeeded(s)' <=> VersionNeeded(s)
  BY <1>1 DEF VersionNeeded
<1>4. \A s \in Requests : Behind(s) => Behind(s)'
  BY <1>1, <1>2 DEF Behind
<1>5. \A x, y : Overlapped(x, y) => Overlapped(x, y)'
  BY <1>2 DEF Overlapped
<1> QED BY <1>1, <1>2, <1>3, <1>4, <1>5 DEF Crossed

\* What an open request has read stays what its task needs.
LEMMA CommitFits ==
    ASSUME Typed, NEW r \in Requests, Commit(r), versions \subseteq versions'
    PROVE  \A s \in Requests : /\ pc'[s] = "idle" => task'[s].kind = "none"
                               /\ pc'[s] # "idle" => task'[s] \in Tasks
                               /\ pc'[s] = "counted" => VersionNeeded(s)'
                               /\ Open(s)' => Fits(s)'
<1>1. UNCHANGED <<task, seen>>
  BY CommitKeeps
<1>2. \A s \in Requests : Open(s)' => Open(s)
  BY CommitKeeps
<1>3. \A s \in Requests : Fits(s) => Fits(s)'
  BY <1>1 DEF Fits
<1> QED BY <1>1, <1>2, <1>3, CommitKeeps DEF Typed

\* A commit that leaves the report and its versions alone changes nothing of what is
\* shown: every request that it finds open is one commit further behind.
LEMMA CommitShows ==
    ASSUME EditInv, NEW r \in Requests, Commit(r), UNCHANGED <<report, versions>>
    PROVE  Counted' /\ VersionsApart' /\ Shown'
<1> Typed BY DEF EditInv
<1>1. Counted' /\ VersionsApart'
  BY CommitKeeps DEF EditInv, Counted, Numbers, VersionsApart
<1>2. Shown'
  <2>1. Highest' = Highest /\ Latest' = Latest
    BY HighestStays
  <2> QED BY <2>1, CommitKeeps DEF EditInv, Shown
<1> QED BY <1>1, <1>2

\* The recipients, when a request has added those of its own that it did not see
LEMMA AddedRecipients ==
    ASSUME EditInv, NEW r \in Requests, Commit(r), NEW kept \in SUBSET Destinations,
           \A x, y \in kept : Key(x) = Key(y) => x = y,
           NEW old \in SUBSET recipients, recipients' = old \cup [to : kept, by : {r}],
           \A x \in old : x \in seen[r].recipients => \A d \in kept : Key(x.to) # Key(d),
           UNCHANGED <<report, versions, runs>>, task[r].kind \in {"share", "replace"}
    PROVE  EditInv'
<1> Typed BY DEF EditInv
<1>0. task[r].kind \in {"share", "replace"} /\ Open(r) /\ UNCHANGED <<task, seen>>
  BY CommitKeeps
<1>1. Typed'
  <2>1. recipients' \subseteq RecipientRows
    BY DEF Typed, TypeOK, Writers, RecipientRows
  <2> QED BY <2>1, CommitKeeps, CommitFits DEF Typed, TypeOK, RecipientRows
<1>2. UpToDate'
  <2>1. ASSUME NEW s \in Requests, pc'[s] = "counted"
        PROVE  /\ seen'[s].number \in Numbers'
               /\ \A v \in versions' : v.number > seen'[s].number => v.by \in rivals'[s]
    BY <2>1, CommitKeeps DEF EditInv, UpToDate, Numbers
  <2>2. ASSUME NEW s \in Requests, Open(s)', task'[s].kind \in {"share", "replace"},
               NEW x \in recipients' \ seen'[s].recipients
        PROVE  x.by \in rivals'[s]
    <3>1. Open(s) /\ rivals[s] \subseteq rivals'[s] /\ r \in rivals'[s]
      BY <2>2, CommitKeeps
    <3> QED BY <1>0, <2>2, <3>1 DEF EditInv, UpToDate
  <2> QED BY <2>1, <2>2 DEF UpToDate
<1>3. DuplicatesHaveACause'
  <2> SUFFICES ASSUME NEW x \in recipients', NEW y \in recipients', x # y,
                      Key(x.to) = Key(y.to)
               PROVE  Overlapped(x.by, y.by)'
    BY DEF DuplicatesHaveACause
  <2>1. ASSUME NEW u \in old, NEW d \in kept, Key(u.to) = Key(d)
        PROVE  Overlapped(u.by, r)' /\ Overlapped(r, u.by)'
    <3>1. u.by \in rivals[r]
      BY <1>0, <2>1 DEF EditInv, UpToDate
    <3>2. u.by \in rivals'[r]
      BY <3>1, CommitKeeps
    <3> QED BY <3>2 DEF Overlapped
  <2>2. CASE x \in old /\ y \in old
    BY <2>2, CommitKeeps DEF EditInv, DuplicatesHaveACause
  <2>3. CASE x \in old /\ y \notin old
    BY <2>1, <2>3
  <2>4. CASE x \notin old /\ y \in old
    BY <2>1, <2>4
  <2>5. CASE x \notin old /\ y \notin old
    BY <2>5
  <2> QED BY <2>2, <2>3, <2>4, <2>5
<1>4. RunsAsShown'
  BY CommitKeeps DEF EditInv, RunsAsShown, Crossed, Typed, TypeOK
<1> QED BY <1>1, <1>2, <1>3, <1>4, CommitShows DEF EditInv

LEMMA TasksAre ==
    ASSUME Typed, NEW r \in Requests, Open(r)
    PROVE  /\ task[r].kind \in {"share", "replace"} => task[r].given \in SUBSET Destinations
           /\ task[r].kind = "patch" => task[r].part \in Parts /\ task[r].value \in Values
  BY DEF Typed, Tasks, Open

LEMMA ShareEdits == ASSUME EditInv, NEW r \in Requests, Share(r) PROVE EditInv'
<1> Typed BY DEF EditInv
<1>1. PICK kept \in Normalized(task[r].given) :
          recipients' = recipients \cup [to : {d \in kept : Key(d) \notin Known(r)}, by : {r}]
  BY DEF Share
<1> DEFINE new == {d \in kept : Key(d) \notin Known(r)}
<1>2. /\ Commit(r) /\ UNCHANGED <<report, versions, runs>> /\ Open(r)
      /\ task[r].kind \in {"share", "replace"}
  BY CommitKeeps DEF Share
<1>3. new \in SUBSET Destinations /\ \A x, y \in new : Key(x) = Key(y) => x = y
  BY <1>1, <1>2, TasksAre DEF Share, Normalized
<1>4. \A x \in recipients : x \in seen[r].recipients => \A d \in new : Key(x.to) # Key(d)
  BY DEF Known
<1> QED BY <1>1, <1>2, <1>3, <1>4, AddedRecipients

LEMMA ReplaceEdits == ASSUME EditInv, NEW r \in Requests, Replace(r) PROVE EditInv'
<1> Typed BY DEF EditInv
<1>1. PICK kept \in Normalized(task[r].given) :
          recipients' = (recipients \ seen[r].recipients) \cup [to : kept, by : {r}]
  BY DEF Replace
<1>2. /\ Commit(r) /\ UNCHANGED <<report, versions, runs>> /\ Open(r)
      /\ task[r].kind \in {"share", "replace"}
  BY CommitKeeps DEF Replace
<1>3. kept \in SUBSET Destinations /\ \A x, y \in kept : Key(x) = Key(y) => x = y
  BY <1>1, <1>2, TasksAre DEF Replace, Normalized
<1> PICK old : old = recipients \ seen[r].recipients
  OBVIOUS
<1>4. /\ old \in SUBSET recipients
      /\ \A x \in old : x \in seen[r].recipients => \A d \in kept : Key(x.to) # Key(d)
  OBVIOUS
<1>5. recipients' = old \cup [to : kept, by : {r}]
  BY <1>1
<1> QED BY <1>2, <1>3, <1>4, <1>5, AddedRecipients

LEMMA PatchEdits == ASSUME EditInv, NEW r \in Requests, Patch(r) PROVE EditInv'
<1> Typed BY DEF EditInv
<1>1. /\ Commit(r) /\ UNCHANGED <<recipients, runs>> /\ task[r].kind = "patch"
      /\ Open(r) /\ UNCHANGED <<task, seen>> /\ (VersionNeeded(r) <=> pc[r] = "counted")
  BY CommitKeeps DEF Patch
<1> DEFINE mine == seen[r].report.content
           changed == Edited(r, mine) # mine
           content == IF changed THEN Edited(r, report.content) ELSE report.content
           next == seen[r].number + 1
           version == [number |-> next, by |-> r, content |-> Pinned(Edited(r, mine))]
<1>0. seen[r] \in [report : [content : Contents, latest : Nat], number : Nat]
  BY <1>1 DEF Typed, Fits
<1>2. task[r].part \in Parts /\ task[r].value \in Values
  BY <1>1, TasksAre
<1>3. /\ mine \in Contents /\ report.content \in Contents
      /\ Edited(r, mine) \in Contents /\ content \in Contents
  BY <1>0, <1>2 DEF Typed, TypeOK, Edited, Contents
<1>4. /\ report'.content = content
      /\ report' \in [content : Contents, latest : Nat]
      /\ next \in Nat
  <2>1. next \in Nat
    BY <1>0
  <2>2. CASE VersionNeeded(r)
    <3>1. report' = [content |-> content,
                     latest |-> IF next = seen[r].report.latest THEN report.latest ELSE next]
      BY <2>2 DEF Patch
    <3> HIDE DEF content, next
    <3> QED BY <1>3, <2>1, <3>1 DEF Typed, TypeOK
  <2>3. CASE ~VersionNeeded(r)
    <3>1. report' = [report EXCEPT !.content = content]
      BY <2>3 DEF Patch
    <3> HIDE DEF content, next
    <3> QED BY <1>3, <2>1, <3>1 DEF Typed, TypeOK
  <2> QED BY <2>2, <2>3
<1>5. versions' = IF VersionNeeded(r) THEN versions \cup {version} ELSE versions
  BY DEF Patch
<1>6. Typed'
  <2>1. Pinned(Edited(r, mine)) \in [Versioned -> Values]
    BY <1>3 DEF Pinned, Contents, Versioned, Parts
  <2>2. \A v \in versions' : v \in [number : Nat, content : [Versioned -> Values], by : Writers]
    BY <1>4, <1>5, <2>1 DEF Typed, TypeOK, Writers
  <2>3. versions \subseteq versions' /\ \A x \in runs' : x.by \in Requests /\ x.version \in versions'
    BY <1>1, <1>5 DEF Typed, TypeOK
  <2> HIDE DEF content, mine
  <2> QED BY <1>1, <1>4, <2>2, <2>3, CommitKeeps, CommitFits DEF Typed, TypeOK
<1>7. PICK n \in Nat \ {0} : Numbers = 1..n
  BY DEF EditInv, Counted
<1>8. Highest = n /\ (VersionNeeded(r) => seen[r].number \in 1..n)
  BY <1>1, <1>7, HighestIs DEF EditInv, UpToDate
<1>9. Numbers' = IF VersionNeeded(r) THEN Numbers \cup {next} ELSE Numbers
  <2>1. version.number = next
    OBVIOUS
  <2> HIDE DEF version, next
  <2> QED BY <1>5, <2>1 DEF Numbers
<1>10. Counted'
  <2>1. CASE VersionNeeded(r) /\ next = n + 1
    <3>1. Numbers' = 1..(n + 1)
      BY <1>7, <1>9, <2>1
    <3> QED BY <3>1 DEF Counted
  <2>2. CASE ~VersionNeeded(r) \/ next # n + 1
    <3>1. VersionNeeded(r) => next \in 1..n
      BY <1>8, <2>2
    <3>2. Numbers' = 1..n
      <4> HIDE DEF next
      <4> QED BY <1>7, <1>9, <3>1
    <3> QED BY <3>2 DEF Counted
  <2> QED BY <2>1, <2>2
<1>11. UpToDate'
  <2>1. ASSUME NEW s \in Requests, pc'[s] = "counted"
        PROVE  /\ seen'[s].number \in Numbers'
               /\ \A v \in versions' : v.number > seen'[s].number => v.by \in rivals'[s]
    <3>1. Open(s)'
      BY <2>1 DEF Open
    <3>2. pc[s] = "counted" /\ r \in rivals'[s] /\ rivals[s] \subseteq rivals'[s]
      BY <1>1, <2>1, <3>1, CommitKeeps
    <3>3. \A v \in versions' : v \in versions \/ v.by = r
      BY <1>5
    <3> QED BY <1>1, <1>9, <3>2, <3>3 DEF EditInv, UpToDate
  <2>2. ASSUME NEW s \in Requests, Open(s)', task'[s].kind \in {"share", "replace"},
               NEW x \in recipients' \ seen'[s].recipients
        PROVE  x.by \in rivals'[s]
    <3>1. Open(s) /\ rivals[s] \subseteq rivals'[s]
      BY <1>1, <2>2, CommitKeeps
    <3> QED BY <1>1, <2>2, <3>1 DEF EditInv, UpToDate
  <2> QED BY <2>1, <2>2 DEF UpToDate
<1>12. DuplicatesHaveACause'
  BY <1>1, CommitKeeps DEF EditInv, DuplicatesHaveACause
<1>13. VersionsApart'
  <2>1. ASSUME VersionNeeded(r), NEW v \in versions, v.number = next
        PROVE  Overlapped(v.by, r)' /\ Overlapped(r, v.by)'
    <3>1. v.number > seen[r].number
      BY <1>0, <2>1
    <3>2. v.by \in rivals[r]
      BY <1>1, <2>1, <3>1 DEF EditInv, UpToDate
    <3>3. v.by \in rivals'[r]
      BY <1>1, <3>2, CommitKeeps
    <3> QED BY <3>3 DEF Overlapped
  <2> SUFFICES ASSUME NEW v \in versions', NEW w \in versions', v # w, v.number = w.number
               PROVE  Overlapped(v.by, w.by)'
    BY DEF VersionsApart
  <2>2. CASE v \in versions /\ w \in versions
    BY <1>1, <2>2, CommitKeeps DEF EditInv, VersionsApart
  <2>3. CASE v \in versions /\ w \notin versions
    <3>1. w = version /\ VersionNeeded(r)
      BY <1>5, <2>3
    <3> QED BY <2>1, <2>3, <3>1
  <2>4. CASE v \notin versions /\ w \in versions
    <3>1. v = version /\ VersionNeeded(r)
      BY <1>5, <2>4
    <3> QED BY <2>1, <2>4, <3>1
  <2>5. CASE v \notin versions /\ w \notin versions
    BY <1>5, <2>5
  <2> QED BY <2>2, <2>3, <2>4, <2>5
<1>14. Shown'
  <2> SUFFICES ASSUME ~Crossed' PROVE Shown!2'
    BY DEF Shown
  <2>1. ASSUME NEW s \in Requests, Open(s)' PROVE task'[s].kind # "patch" /\ Behind(s)'
    <3>1. r \in rivals'[s] /\ task'[r].kind = "patch"
      BY <1>1, <2>1, CommitKeeps
    <3> QED BY <3>1 DEF Crossed, Behind
  <2>2. \A s \in Requests : pc'[s] # "counted"
    BY <1>1, <2>1, CommitKeeps DEF Typed, VersionNeeded, Open
  <2>3. ~Crossed
    BY <1>1, CommitKeeps
  <2>4. /\ mine = report.content /\ (VersionNeeded(r) => seen[r].number = n)
        /\ \A v \in Latest : v.content = Pinned(report.content)
    BY <1>1, <1>8, <2>3 DEF EditInv, Shown
  <2>5. report'.content = Edited(r, mine)
    BY <1>4, <2>4
  <2>6. CASE VersionNeeded(r)
    <3>1. Numbers' = 1..(n + 1)
      BY <1>7, <1>9, <2>4, <2>6
    <3>2. Highest' = n + 1
      BY <3>1, MaxOfInterval DEF Highest
    <3>3. \A v \in versions : v.number # n + 1
      BY <1>7 DEF Numbers
    <3>4. Latest' = {version}
      BY <1>5, <2>4, <2>6, <3>2, <3>3 DEF Latest
    <3> QED BY <2>1, <2>2, <2>5, <3>4
  <2>7. CASE ~VersionNeeded(r)
    <3>1. Pinned(Edited(r, mine)) = Pinned(mine)
      BY <1>1, <1>2, <1>3, <2>7 DEF VersionNeeded, Edited, Pinned, Contents, Versioned, Parts
    <3>2. Latest' = Latest
      BY <1>5, <2>7, HighestStays
    <3> QED BY <2>1, <2>2, <2>4, <2>5, <3>1, <3>2
  <2> QED BY <2>6, <2>7
<1>15. RunsAsShown'
  BY <1>1, CommitKeeps DEF EditInv, RunsAsShown, Crossed, Typed, TypeOK
<1> QED BY <1>6, <1>10, <1>11, <1>12, <1>13, <1>14, <1>15 DEF EditInv

LEMMA RunEdits == ASSUME EditInv, NEW r \in Requests, Run(r) PROVE EditInv'
<1> Typed BY DEF EditInv
<1> DEFINE run == [by |-> r, version |-> seen[r].version, asked |-> Pinned(report.content)]
<1>1. /\ Commit(r) /\ Open(r) /\ task[r].kind = "run"
      /\ runs' = runs \cup {run} /\ UNCHANGED <<report, versions, recipients, task, seen>>
  BY CommitKeeps DEF Run
<1>2. seen[r].version \in versions
  BY <1>1 DEF Typed, Fits
<1>3. Typed'
  <2>1. \A x \in runs' : x.by \in Requests /\ x.version \in versions'
    BY <1>1, <1>2 DEF Typed, TypeOK
  <2> QED BY <1>1, <2>1, CommitKeeps, CommitFits DEF Typed, TypeOK
<1>4. UpToDate' /\ DuplicatesHaveACause'
  <2>1. \A s \in Requests : Open(s)' => Open(s) /\ pc'[s] = pc[s] /\ rivals[s] \subseteq rivals'[s]
    BY <1>1, CommitKeeps
  <2> QED BY <1>1, <2>1, CommitKeeps
          DEF EditInv, UpToDate, Numbers, DuplicatesHaveACause, Open
<1>5. seen[r].version.content # Pinned(report.content) => Crossed \/ Behind(r)
  BY <1>1 DEF EditInv, Shown
<1>6. RunsAsShown'
  <2> SUFFICES ASSUME NEW x \in runs', x.version.content # x.asked
               PROVE  Behind(x.by)' \/ Crossed'
    BY DEF RunsAsShown, Crossed
  <2>1. CASE x \in runs
    BY <1>1, <2>1, CommitKeeps DEF EditInv, RunsAsShown, Crossed, Typed, TypeOK
  <2>2. CASE x \notin runs
    BY <1>1, <1>5, <2>2, CommitKeeps
  <2> QED BY <2>1, <2>2
<1> QED BY <1>1, <1>3, <1>4, <1>6, CommitShows DEF EditInv

\* Requests that come or go without a commit leave everything on record, and who has
\* overlapped whom, as it is.
LEMMA RecordStays ==
    ASSUME EditInv, UNCHANGED <<record, rivals>>,
           \A s \in Requests : task'[s] = task[s] \/ pc[s] = "idle"
    PROVE  /\ Counted' /\ VersionsApart' /\ DuplicatesHaveACause'
           /\ Numbers' = Numbers /\ Highest' = Highest /\ Latest' = Latest
           /\ \A s \in Requests : Behind(s) => Behind(s)'
           /\ Crossed => Crossed'
           /\ RunsAsShown'
<1>1. Numbers' = Numbers /\ Highest' = Highest /\ Latest' = Latest
  BY HighestStays DEF Numbers, record
<1>2. \A s \in Requests : task[s].kind = "patch" => task'[s].kind = "patch"
  BY DEF EditInv, Typed
<1>3. \A s \in Requests : Behind(s) => Behind(s)'
  BY <1>2 DEF Behind, EditInv, Typed, TypeOK
<1>4. Crossed => Crossed'
  BY <1>2, <1>3 DEF Crossed
<1>5. RunsAsShown'
  BY <1>3, <1>4 DEF EditInv, Typed, TypeOK, RunsAsShown, Crossed, record
<1> QED
  BY <1>1, <1>3, <1>4, <1>5
     DEF EditInv, Counted, VersionsApart, DuplicatesHaveACause, Overlapped, record

LEMMA FailEdits == ASSUME EditInv, NEW r \in Requests, Fail(r) PROVE EditInv'
<1>1. /\ pc' = [pc EXCEPT ![r] = "done"] /\ Open(r)
      /\ UNCHANGED <<record, task, seen, rivals>>
  BY DEF Fail
<1>2. /\ \A s \in Requests : Open(s)' => Open(s) /\ pc'[s] = pc[s]
      /\ \A s \in Requests : pc'[s] = "counted" => pc[s] = "counted"
      /\ \A s \in Requests : pc'[s] = "idle" <=> pc[s] = "idle"
  BY <1>1 DEF EditInv, Typed, TypeOK, Open
<1>3. Typed'
  <2>1. TypeOK'
    BY <1>1 DEF EditInv, Typed, TypeOK, record
  <2>2. \A s \in Requests : /\ Fits(s) => Fits(s)'
                            /\ VersionNeeded(s)' <=> VersionNeeded(s)
    BY <1>1 DEF Fits, VersionNeeded, record
  <2> QED BY <1>1, <1>2, <2>1, <2>2 DEF EditInv, Typed
<1>4. UpToDate'
  BY <1>1, <1>2 DEF EditInv, UpToDate, Numbers, record
<1>5. Shown'
  BY <1>1, <1>2, RecordStays DEF EditInv, Shown, record
<1> QED BY <1>1, <1>3, <1>4, <1>5, RecordStays DEF EditInv

LEMMA ReadEdits == ASSUME EditInv, NEW r \in Requests, NEW t \in Tasks, Read(r, t) PROVE EditInv'
<1> Typed /\ TypeOK BY DEF EditInv, Typed
<1>1. PICK s \in Sight(t) : seen' = [seen EXCEPT ![r] = s]
  BY DEF Read
<1>2. /\ pc[r] = "idle" /\ pc' = [pc EXCEPT ![r] = "read"]
      /\ task' = [task EXCEPT ![r] = t] /\ UNCHANGED <<record, rivals>>
  BY DEF Read
<1>3. /\ pc'[r] = "read" /\ task'[r] = t /\ seen'[r] = s
      /\ \A q \in Requests \ {r} : pc'[q] = pc[q] /\ task'[q] = task[q] /\ seen'[q] = seen[q]
  BY <1>1, <1>2 DEF Typed, TypeOK
<1>4. /\ t.kind = "patch" => s = [report |-> report, number |-> 0]
      /\ t.kind = "run" => s \in [version : Latest]
      /\ t.kind \in {"share", "replace"} => s = [recipients |-> recipients]
      /\ t.kind \in {"patch", "run", "share", "replace"}
  BY DEF Sight, Tasks
<1>5. Fits(r)' /\ s \in Sights
  <2>1. CASE t.kind = "patch"
    BY <1>3, <1>4, <2>1 DEF Fits, TypeOK, Sights
  <2>2. CASE t.kind = "run"
    BY <1>2, <1>3, <1>4, <2>2 DEF Fits, TypeOK, Sights, Latest, VersionRows, record
  <2>3. CASE t.kind \in {"share", "replace"}
    BY <1>3, <1>4, <2>3 DEF Fits, TypeOK, Sights, RecipientRows
  <2> QED BY <1>4, <2>1, <2>2, <2>3
<1>6. Typed'
  <2>1. \A q \in Requests \ {r} : Open(q)' => Fits(q)'
    BY <1>2, <1>3 DEF Typed, Fits, Open, record
  <2>2. \A q \in Requests : pc'[q] = "counted" => VersionNeeded(q)'
    BY <1>3 DEF Typed, VersionNeeded
  <2>3. TypeOK'
    BY <1>2 DEF TypeOK, record
  <2>4. /\ task' \in [Requests -> Tasks \cup {[kind |-> "none"]}]
        /\ seen' \in [Requests -> Sights]
    BY <1>1, <1>2, <1>5 DEF Typed
  <2> QED BY <1>3, <1>5, <2>1, <2>2, <2>3, <2>4 DEF Typed
<1>7. UpToDate'
  BY <1>2, <1>3, <1>4 DEF EditInv, UpToDate, Numbers, Open, record
<1>8. Shown'
  <2> SUFFICES ASSUME ~Crossed' PROVE Shown!2'
    BY DEF Shown
  <2>1. ~Crossed /\ Latest' = Latest /\ Highest' = Highest /\ report' = report
        /\ \A q \in Requests : Behind(q) => Behind(q)'
    BY <1>2, <1>3, RecordStays DEF record
  <2>2. /\ \A v \in Latest : v.content = Pinned(report.content)
        /\ \A q \in Requests :
              /\ Open(q) /\ task[q].kind = "patch" => seen[q].report.content = report.content
              /\ pc[q] = "counted" => seen[q].number = Highest
              /\ Open(q) /\ task[q].kind = "run" /\ ~Behind(q) =>
                    seen[q].version.content = Pinned(report.content)
    BY <2>1 DEF EditInv, Shown
  <2>3. /\ task'[r].kind = "patch" => seen'[r].report.content = report.content
        /\ task'[r].kind = "run" => seen'[r].version.content = Pinned(report.content)
    BY <1>3, <1>4, <2>2
  <2> QED BY <1>3, <2>1, <2>2, <2>3 DEF Open
<1> QED BY <1>2, <1>3, <1>6, <1>7, <1>8, RecordStays DEF EditInv

LEMMA CountEdits == ASSUME EditInv, NEW r \in Requests, Count(r) PROVE EditInv'
<1> Typed /\ TypeOK BY DEF EditInv, Typed
<1>1. /\ pc[r] = "read" /\ VersionNeeded(r) /\ pc' = [pc EXCEPT ![r] = "counted"]
      /\ seen' = [seen EXCEPT ![r].number = Highest]
      /\ UNCHANGED <<record, task, rivals>>
  BY DEF Count
<1>2. PICK n \in Nat \ {0} : Numbers = 1..n
  BY DEF EditInv, Counted
<1>3. Highest = n
  BY <1>2, HighestIs
<1>4. Fits(r) /\ task[r].kind = "patch"
  BY <1>1 DEF Typed, Open, VersionNeeded
<1>5. /\ pc'[r] = "counted" /\ seen'[r] = [seen[r] EXCEPT !.number = n]
      /\ \A q \in Requests \ {r} : pc'[q] = pc[q] /\ seen'[q] = seen[q]
  BY <1>1, <1>3 DEF Typed, TypeOK
<1>6. /\ seen'[r] \in [report : [content : Contents, latest : Nat], number : Nat]
      /\ seen'[r].number = n /\ seen'[r].report = seen[r].report
  BY <1>4, <1>5 DEF Fits
<1>7. Typed'
  <2>1. \A q \in Requests : Open(q)' => Fits(q)'
    BY <1>1, <1>4, <1>5, <1>6 DEF Typed, Fits, Open, record
  <2>2. \A q \in Requests : pc'[q] = "counted" => VersionNeeded(q)'
    BY <1>1, <1>5 DEF Typed, VersionNeeded
  <2>3. TypeOK'
    BY <1>1 DEF TypeOK, record
  <2>4. seen' \in [Requests -> Sights]
    BY <1>1, <1>5, <1>6 DEF Typed, Sights
  <2> QED BY <1>1, <1>5, <2>1, <2>2, <2>3, <2>4 DEF Typed, Open
<1>8. UpToDate'
  <2>1. \A v \in versions : ~(v.number > n)
    BY <1>2 DEF Numbers
  <2>2. n \in Numbers
    BY <1>2
  <2> QED BY <1>1, <1>4, <1>5, <1>6, <2>1, <2>2 DEF EditInv, UpToDate, Numbers, Open, record
<1>9. Shown'
  <2>1. Latest' = Latest /\ Highest' = n /\ report' = report
        /\ (Crossed => Crossed') /\ \A q \in Requests : Behind(q) => Behind(q)'
    BY <1>1, <1>3, RecordStays DEF record
  <2> QED BY <1>1, <1>3, <1>4, <1>5, <1>6, <2>1 DEF EditInv, Shown, Open
<1> QED BY <1>1, <1>7, <1>8, <1>9, RecordStays DEF EditInv

\* Every reachable state satisfies the invariant of the edits.
THEOREM EditInvariant == Spec => []EditInv
<1>1. EditInv /\ [Next]_vars => EditInv'
  <2>1. CASE UNCHANGED vars
    BY <2>1, HighestStays
       DEF vars, record, EditInv, Typed, TypeOK, Counted, UpToDate, DuplicatesHaveACause,
           VersionsApart, Shown, RunsAsShown, Crossed, Behind, Overlapped, Numbers,
           Open, Fits, VersionNeeded
  <2> QED BY <2>1, ReadEdits, CountEdits, ShareEdits, ReplaceEdits, PatchEdits, RunEdits, FailEdits DEF Next
<1> QED BY <1>1, InitEdits, PTL DEF Spec

\* Only requests that overlap leave one destination twice in a report, whatever
\* they share or replace.
THEOREM OverlapsDuplicate == Spec => []DuplicatesHaveACause
<1>1. EditInv => DuplicatesHaveACause
  BY DEF EditInv
<1> QED BY <1>1, EditInvariant, PTL

\* Version numbers have no gap, and only edits that overlap share one.
THEOREM VersionsAreCounted == Spec => []VersionsCount
<1>1. EditInv => VersionsCount
  <2> SUFFICES ASSUME EditInv PROVE VersionsCount
    OBVIOUS
  <2>1. PICK n \in Nat \ {0} : Numbers = 1..n
    BY DEF EditInv, Counted
  <2>2. Cardinality(Numbers) = n
    BY <2>1, FS_Interval
  <2> QED BY <2>1, <2>2 DEF EditInv, VersionsApart, VersionsCount
<1> QED BY <1>1, EditInvariant, PTL

\* A run executes what the report shows at the time it is committed, unless an edit was
\* committed while the run, or another edit, was open.
THEOREM RunsAreAsShown == Spec => []RunsAsShown
<1>1. EditInv => RunsAsShown
  BY DEF EditInv
<1> QED BY <1>1, EditInvariant, PTL

=============================================================================
