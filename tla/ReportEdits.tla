---------------------------- MODULE ReportEdits ----------------------------
(***************************************************************************)
(* Requests that edit one report (app/api.py, app/reports/service.py): its  *)
(* content and its versions, and to whom it is sent.                        *)
(*                                                                          *)
(* Every request reads what is on record, statement by statement, decides,  *)
(* and commits.  Sessions do not flush before they read (autoflush=False),  *)
(* each statement sees what is committed when it is sent (read committed),  *)
(* and nothing in the tables keeps two requests from deciding on the same   *)
(* record.                                                                  *)
(***************************************************************************)
EXTENDS Integers, FiniteSetsExt

CONSTANTS
    Requests,
    Creator,        \* create_report, which has committed before the others begin
    Destinations,   \* as they are typed
    Key(_),         \* the same without case and blanks
    Values          \* of each part of the content

ASSUME EditAssumption == Creator \notin Requests

Parts == {"sql", "chart", "title"}

\* generated_sql, chart_type, chart_spec, config_json, semantic_snapshot
Versioned == {"sql", "chart"}

VARIABLES
    report,     \* the row of the report
    versions,   \* the rows of its versions
    recipients, \* the rows of its recipients
    runs,       \* what run records were created to execute
    pc,
    task,       \* what each request was sent for
    seen,       \* what it read for that
    rivals      \* requests that committed while it was open

record == <<report, versions, recipients, runs>>
vars == <<record, pc, task, seen, rivals>>

Contents == [Parts -> Values]

Writers == Requests \cup {Creator}

TypeOK ==
    /\ report \in [content : Contents, latest : Nat]
    /\ \A v \in versions : v \in [number : Nat, content : [Versioned -> Values], by : Writers]
    /\ recipients \subseteq [to : Destinations, by : Writers]
    /\ \A x \in runs : x.by \in Requests /\ x.version \in versions
    /\ pc \in [Requests -> {"idle", "read", "counted", "done"}]
    /\ rivals \in [Requests -> SUBSET Requests]

\* What a version keeps of a report
Pinned(content) == [p \in Versioned |-> content[p]]

\* normalize_delivery_targets: of those with the same key the first one stays
Normalized(given) ==
    {kept \in SUBSET given : /\ \A x, y \in kept : Key(x) = Key(y) => x = y
                             /\ \A x \in given : \E y \in kept : Key(x) = Key(y)}

Init ==
    /\ \E content \in Contents :
          /\ report = [content |-> content, latest |-> 1]
          /\ versions = {[number |-> 1, content |-> Pinned(content), by |-> Creator]}
    /\ \E given \in SUBSET Destinations : \E kept \in Normalized(given) :
          recipients = [to : kept, by : {Creator}]
    /\ runs = {}
    /\ pc = [r \in Requests |-> "idle"]
    /\ task = [r \in Requests |-> [kind |-> "none"]]
    /\ seen = [r \in Requests |-> [recipients |-> {}]]
    /\ rivals = [r \in Requests |-> {}]

Numbers == {v.number : v \in versions}

\* [bug] the versions are counted
Highest_Count == Cardinality(versions)

\* select max(version_number)
Highest == Max(Numbers)

\* latest_report_version; several may have the highest number
Latest == {v \in versions : v.number = Highest}

-----------------------------------------------------------------------------
(* Requests *)

Tasks ==
    [kind : {"share", "replace"}, given : SUBSET Destinations]
    \cup [kind : {"patch"}, part : Parts, value : Values]
    \cup [kind : {"run"}]

Open(r) == pc[r] \in {"read", "counted"}

\* What a request reads first of what its decision rests on: the row it edits, the
\* recipients, or the version a run is pinned to
Sight(t) ==
    IF t.kind = "patch" THEN {[report |-> report, number |-> 0]}
    ELSE IF t.kind = "run" THEN [version : Latest]
    ELSE {[recipients |-> recipients]}

Read(r, t) ==
    /\ pc[r] = "idle"
    /\ pc' = [pc EXCEPT ![r] = "read"]
    /\ task' = [task EXCEPT ![r] = t]
    /\ \E s \in Sight(t) : seen' = [seen EXCEPT ![r] = s]
    /\ UNCHANGED <<record, rivals>>

\* [bug] a new chart is no new version
VersionNeeded_Sql(r) == task[r].kind = "patch" /\ task[r].part = "sql"

VersionNeeded(r) == task[r].kind = "patch" /\ task[r].part \in Versioned

\* create_report_version asks for the highest number, in a statement of its own
Count(r) ==
    /\ pc[r] = "read"
    /\ VersionNeeded(r)
    /\ pc' = [pc EXCEPT ![r] = "counted"]
    /\ seen' = [seen EXCEPT ![r].number = Highest]
    /\ UNCHANGED <<record, task, rivals>>

Commit(r) ==
    /\ pc[r] = IF VersionNeeded(r) THEN "counted" ELSE "read"
    /\ pc' = [pc EXCEPT ![r] = "done"]
    /\ rivals' = [s \in Requests |->
         IF s # r /\ Open(s) THEN rivals[s] \cup {r} ELSE rivals[s]]
    /\ UNCHANGED <<task, seen>>

Fail(r) ==
    /\ Open(r)
    /\ pc' = [pc EXCEPT ![r] = "done"]
    /\ UNCHANGED <<record, task, seen, rivals>>

\* [bug] who is there already is not looked up
Known_None(r) == {}

\* existing_keys
Known(r) == {Key(x.to) : x \in seen[r].recipients}

\* append_report_recipients, of share_report, create_schedule and the legacy endpoint
Share(r) ==
    /\ task[r].kind = "share"
    /\ \E kept \in Normalized(task[r].given) :
          recipients' = recipients \cup
             [to : {d \in kept : Key(d) \notin Known(r)}, by : {r}]
    /\ Commit(r)
    /\ UNCHANGED <<report, versions, runs>>

\* replace_report_recipients, of patch_schedule: rows that are gone are only logged
Replace(r) ==
    /\ task[r].kind = "replace"
    /\ \E kept \in Normalized(task[r].given) :
          recipients' = (recipients \ seen[r].recipients) \cup [to : kept, by : {r}]
    /\ Commit(r)
    /\ UNCHANGED <<report, versions, runs>>

Edited(r, content) == [content EXCEPT ![task[r].part] = task[r].value]

\* patch_report: only the columns that change are written
Patch(r) ==
    /\ task[r].kind = "patch"
    /\ LET changed == Edited(r, seen[r].report.content) # seen[r].report.content
           content == IF changed THEN Edited(r, report.content) ELSE report.content
       IN IF VersionNeeded(r)
          THEN LET next == seen[r].number + 1 IN
               /\ report' = [content |-> content,
                             latest |-> IF next = seen[r].report.latest
                                        THEN report.latest ELSE next]
               /\ versions' = versions \cup
                    {[number |-> next, by |-> r,
                      content |-> Pinned(Edited(r, seen[r].report.content))]}
          ELSE report' = [report EXCEPT !.content = content] /\ UNCHANGED versions
    /\ Commit(r)
    /\ UNCHANGED <<recipients, runs>>

\* create_run_record has chosen the version; the run is on record only when the request
\* commits, after it has executed it.  By then the report may show something else.
Run(r) ==
    /\ task[r].kind = "run"
    /\ runs' = runs \cup
          {[by |-> r, version |-> seen[r].version, asked |-> Pinned(report.content)]}
    /\ Commit(r)
    /\ UNCHANGED <<report, versions, recipients>>

Next ==
    \E r \in Requests :
        \/ \E t \in Tasks : Read(r, t)
        \/ Count(r)
        \/ Share(r) \/ Replace(r) \/ Patch(r) \/ Run(r)
        \/ Fail(r)

Spec == Init /\ [][Next]_vars

-----------------------------------------------------------------------------
(* Properties *)

Overlapped(r, s) ==
    \/ r \in Requests /\ s \in rivals[r]
    \/ s \in Requests /\ r \in rivals[s]

\* A report has the same destination twice, in whatever spelling, only when two
\* requests overlapped: one request alone never adds what is there.
DuplicatesHaveACause ==
    \A x, y \in recipients :
        x # y /\ Key(x.to) = Key(y.to) => Overlapped(x.by, y.by)

\* Version numbers are handed out without a gap, and one is handed out twice only
\* by edits that overlapped.
VersionsCount ==
    /\ Numbers = 1..Cardinality(Numbers)
    /\ \A v, w \in versions :
          v # w /\ v.number = w.number => Overlapped(v.by, w.by)

\* An edit of the content was committed while the request was open.
Behind(r) == \E s \in rivals[r] : task[s].kind = "patch"

\* A run has executed another content than the report shows when the run is committed
\* only if an edit was committed while the run was open, or while another edit was.
RunsAsShown ==
    \A x \in runs : x.version.content # x.asked =>
        \/ Behind(x.by)
        \/ \E r \in Requests : task[r].kind = "patch" /\ Behind(r)

=============================================================================
