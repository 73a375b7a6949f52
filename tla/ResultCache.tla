---------------------------- MODULE ResultCache ----------------------------
(***************************************************************************)
(* The table app.query_result_cache under concurrent requests               *)
(* (app/query_execution/service.py).  execute_safe_query prunes, looks up,  *)
(* touches and writes rows inside the transaction of its caller, which may  *)
(* execute several statements before it commits.                            *)
(*                                                                          *)
(* Transactions are read committed: a statement sees what is committed and  *)
(* what its own transaction wrote; a write waits for the transaction that   *)
(* holds the row (or the unique fingerprint) and then looks again.          *)
(***************************************************************************)
EXTENDS Integers, FiniteSets, SequencesExt

CONSTANTS
    Requests,       \* transactions
    Fingerprints,   \* statements, as far as the cache tells them apart
    Nobody,         \* no transaction
    NoRow,          \* no row
    TTL,            \* query_cache_ttl_seconds
    Timeout,        \* query_timeout_ms: no statement reads longer
    MaxTime,        \* bound on the clock
    MaxRuns         \* bound on the executions of one request

ASSUME CacheAssumption ==
    /\ TTL \in Nat
    /\ Timeout \in Nat
    /\ MaxTime \in Nat
    /\ MaxRuns \in Nat
    /\ Nobody \notin Requests
    /\ IsFiniteSet(Fingerprints)
    /\ Fingerprints # {}

VARIABLES
    now,        \* the clock
    row,        \* the committed row of each fingerprint
    holder,     \* the transaction that has written it and is still open
    draft,      \* what that transaction has made of it
    nextId,     \* primary keys are handed out in increasing order
    pc,         \* the statement each transaction comes to
    wants,      \* the fingerprint it executes
    expired,    \* rows its prune selected and has not deleted yet
    found,      \* the row its last SELECT loaded
    began,      \* when its analytics query started
    until,      \* the expiry it computed for its result
    ran,        \* executions it has started
    waited,     \* how long it has waited for the row that it is to be served
    age,        \* how old the rows are that it was served from the cache
    rival       \* another transaction committed while it was open

table == <<row, holder, draft, nextId>>
query == <<wants, found, began, until>>
vars == <<now, table, pc, query, expired, ran, waited, age, rival>>

Rows == [id : Nat, stamp : Nat, expires : Nat]

Stages == {"idle", "prune", "lookup", "touch", "query", "upsert", "write",
           "ready", "failed", "deadlocked", "closed"}

TypeOK ==
    /\ now \in Nat
    /\ row \in [Fingerprints -> Rows \cup {NoRow}]
    /\ holder \in [Fingerprints -> Requests \cup {Nobody}]
    /\ draft \in [Fingerprints -> Rows \cup {NoRow}]
    /\ nextId \in Nat
    /\ pc \in [Requests -> Stages]
    /\ wants \in [Requests -> Fingerprints]
    /\ expired \in [Requests -> SUBSET [at : Fingerprints, id : Nat]]
    /\ found \in [Requests -> Rows \cup {NoRow}]
    /\ began \in [Requests -> Nat]
    /\ until \in [Requests -> Nat]
    /\ ran \in [Requests -> Nat]
    /\ waited \in [Requests -> Nat]
    /\ age \in [Requests -> Nat]
    /\ rival \in [Requests -> BOOLEAN]

\* A table that earlier requests have filled, in any order, at different times
Filled(S) ==
    {[f \in Fingerprints |->
        IF f \in S THEN [id |-> i[f], stamp |-> t[f], expires |-> t[f] + TTL] ELSE NoRow] :
     i \in Injection(S, 1..Cardinality(S)), t \in [S -> 0..TTL]}

Init ==
    /\ now = TTL
    /\ \E S \in SUBSET Fingerprints :
          row \in Filled(S) /\ nextId = Cardinality(S) + 1
    /\ holder = [f \in Fingerprints |-> Nobody]
    /\ draft = [f \in Fingerprints |-> NoRow]
    /\ pc = [p \in Requests |-> "idle"]
    /\ wants \in [Requests -> {CHOOSE f \in Fingerprints : TRUE}]
    /\ expired = [p \in Requests |-> {}]
    /\ found = [p \in Requests |-> NoRow]
    /\ began = [p \in Requests |-> 0]
    /\ until = [p \in Requests |-> 0]
    /\ ran = [p \in Requests |-> 0]
    /\ waited = [p \in Requests |-> 0]
    /\ age = [p \in Requests |-> 0]
    /\ rival = [p \in Requests |-> FALSE]

-----------------------------------------------------------------------------
(* The table as transactions see it *)

Seen(p, f) == IF holder[f] = p THEN draft[f] ELSE row[f]

Free(p, f) == holder[f] \in {p, Nobody}

Write(p, f, r) ==
    /\ holder' = [holder EXCEPT ![f] = p]
    /\ draft' = [draft EXCEPT ![f] = r]
    /\ UNCHANGED row

Goto(p, stage) == pc' = [pc EXCEPT ![p] = stage]

Is(p, f, id) == Seen(p, f) # NoRow /\ Seen(p, f).id = id

-----------------------------------------------------------------------------
(* One execution *)

\* execute_safe_query is entered: _prune_expired_cache selects, for the clock of now
Begin(p, f) ==
    /\ pc[p] \in {"idle", "ready"}
    /\ ran[p] < MaxRuns
    /\ ran' = [ran EXCEPT ![p] = @ + 1]
    /\ wants' = [wants EXCEPT ![p] = f]
    /\ expired' = [expired EXCEPT ![p] =
         {[at |-> g, id |-> Seen(p, g).id] : g \in
            {h \in Fingerprints : Seen(p, h) # NoRow /\ Seen(p, h).expires < now}}]
    /\ found' = [found EXCEPT ![p] = NoRow]
    /\ age' = [age EXCEPT ![p] = 0]
    /\ Goto(p, "prune")
    /\ UNCHANGED <<now, table, began, until, waited, rival>>

\* The unit of work deletes in the order of the primary keys.
Turn(p, x) == \A y \in expired[p] : x.id <= y.id

\* A row that is gone by now is one row less than expected, which is only logged.
Prune(p, x) ==
    /\ pc[p] = "prune"
    /\ x \in expired[p]
    /\ Turn(p, x)
    /\ Free(p, x.at)
    /\ IF Is(p, x.at, x.id) THEN Write(p, x.at, NoRow)
                            ELSE UNCHANGED <<row, holder, draft>>
    /\ expired' = [expired EXCEPT ![p] = @ \ {x}]
    /\ UNCHANGED <<now, nextId, pc, query, ran, waited, age, rival>>

\* [bug] what was expired has just been pruned
Fresh_Pruned(r) == r # NoRow

Fresh(r) == r # NoRow /\ r.expires >= now

LookUp(p) ==
    /\ pc[p] = "prune"
    /\ expired[p] = {}
    /\ LET r == Seen(p, wants[p]) IN
         /\ found' = [found EXCEPT ![p] = r]
         /\ IF Fresh(r)
            THEN Goto(p, "touch") /\ waited' = [waited EXCEPT ![p] = 0]
                 /\ UNCHANGED began
            ELSE Goto(p, "query") /\ began' = [began EXCEPT ![p] = now]
                 /\ UNCHANGED waited
    /\ UNCHANGED <<now, table, wants, until, expired, ran, age, rival>>

\* Only the count and the time of the last access change.
Touched(r) == r

\* _touch_cache_hit: an UPDATE that matches no row is a StaleDataError; what the look-up
\* has loaded is served after it.
Touch(p) ==
    /\ pc[p] = "touch"
    /\ Free(p, wants[p])
    /\ IF Is(p, wants[p], found[p].id)
       THEN /\ Write(p, wants[p], Touched(Seen(p, wants[p])))
            /\ age' = [age EXCEPT ![p] = now - found[p].stamp]
            /\ Goto(p, "ready")
       ELSE Goto(p, "failed") /\ UNCHANGED <<row, holder, draft, age>>
    /\ UNCHANGED <<now, nextId, query, expired, ran, waited, rival>>

\* _execute_database_query returns; the statement_timeout has not struck
Read(p) ==
    /\ pc[p] = "query"
    /\ Goto(p, "upsert")
    /\ UNCHANGED <<now, table, query, expired, ran, waited, age, rival>>

\* It raises: the audit row is written and the caller goes on without the rows.
ReadFails(p) ==
    /\ pc[p] = "query"
    /\ Goto(p, "ready")
    /\ UNCHANGED <<now, table, query, expired, ran, waited, age, rival>>

\* [bug] what was missing or stale at the look-up is taken for missing still
Existing_None(p) == NoRow

\* _get_cache_entry once more, after the query
Existing(p) == Seen(p, wants[p])

Expiry == now + TTL

Decide(p) ==
    /\ pc[p] = "upsert"
    /\ found' = [found EXCEPT ![p] = Existing(p)]
    /\ until' = [until EXCEPT ![p] = Expiry]
    /\ Goto(p, "write")
    /\ UNCHANGED <<now, table, wants, began, expired, ran, waited, age, rival>>

Result(p, id) == [id |-> id, stamp |-> began[p], expires |-> until[p]]

\* An INSERT that meets a committed row of the fingerprint is an IntegrityError.
Insert(p) ==
    /\ pc[p] = "write"
    /\ found[p] = NoRow
    /\ Free(p, wants[p])
    /\ IF Seen(p, wants[p]) = NoRow
       THEN Write(p, wants[p], Result(p, nextId)) /\ Goto(p, "ready")
            /\ nextId' = nextId + 1
       ELSE Goto(p, "failed") /\ UNCHANGED table
    /\ UNCHANGED <<now, query, expired, ran, waited, age, rival>>

Update(p) ==
    /\ pc[p] = "write"
    /\ found[p] # NoRow
    /\ Free(p, wants[p])
    /\ IF Is(p, wants[p], found[p].id)
       THEN Write(p, wants[p], Result(p, found[p].id)) /\ Goto(p, "ready")
       ELSE Goto(p, "failed") /\ UNCHANGED <<row, holder, draft>>
    /\ UNCHANGED <<now, nextId, query, expired, ran, waited, age, rival>>

-----------------------------------------------------------------------------
(* The ends of a transaction *)

Holds(p) == {f \in Fingerprints : holder[f] = p}

Open(p) == pc[p] \notin {"idle", "closed"}

Release(p) == holder' = [f \in Fingerprints |-> IF holder[f] = p THEN Nobody ELSE holder[f]]

Commit(p) ==
    /\ pc[p] = "ready"
    /\ row' = [f \in Fingerprints |-> Seen(p, f)]
    /\ Release(p)
    /\ draft' = [f \in Fingerprints |-> IF f \in Holds(p) THEN NoRow ELSE draft[f]]
    /\ rival' = [q \in Requests |-> rival[q] \/ (q # p /\ Open(q) /\ Holds(p) # {})]
    /\ Goto(p, "closed")
    /\ UNCHANGED <<now, nextId, query, expired, ran, waited, age>>

\* [bug] an exception leaves the session, and what it holds, to the pool
Abort_Leak(p) ==
    /\ expired' = [expired EXCEPT ![p] = {}]
    /\ UNCHANGED <<now, table, query, ran, waited, age, rival>>

\* get_db closes the session, whatever happened in it.
Abort(p) ==
    /\ Release(p)
    /\ draft' = [f \in Fingerprints |-> IF f \in Holds(p) THEN NoRow ELSE draft[f]]
    /\ expired' = [expired EXCEPT ![p] = {}]
    /\ UNCHANGED <<now, row, nextId, query, ran, waited, age, rival>>

\* After a failed flush the session can only be rolled back.
Rollback(p) ==
    /\ pc[p] \in {"failed", "deadlocked"}
    /\ Goto(p, "closed")
    /\ Abort(p)

\* A later stage raises, or the process dies.
Crash(p) ==
    /\ Open(p)
    /\ Goto(p, "closed")
    /\ Abort(p)

\* The rows a transaction cannot go on without
Needs(p) ==
    IF pc[p] = "prune" THEN {x.at : x \in {y \in expired[p] : Turn(p, y)}}
    ELSE IF pc[p] \in {"touch", "write"} THEN {wants[p]} ELSE {}

WaitsFor(p, q) == \E f \in Needs(p) : holder[f] = q /\ q # p

\* deadlock_timeout: the database ends one of two transactions that wait in a circle
Victim(p) ==
    /\ \E q \in Requests : WaitsFor(p, q) /\ WaitsFor(q, p)
    /\ Goto(p, "deadlocked")
    /\ UNCHANGED <<now, table, query, expired, ran, waited, age, rival>>

\* Waiting for the row that it is to touch: a flush that need not wait is over at once.
Waiting(p) == pc[p] = "touch" /\ ~Free(p, wants[p])

\* Time passes, but no query outlives its statement_timeout.
Tick ==
    /\ now < MaxTime
    /\ \A p \in Requests : pc[p] \in {"query", "upsert"} => now - began[p] < Timeout
    /\ \A p \in Requests : pc[p] = "touch" => Waiting(p)
    /\ now' = now + 1
    /\ waited' = [p \in Requests |-> IF Waiting(p) THEN waited[p] + 1 ELSE waited[p]]
    /\ UNCHANGED <<table, pc, query, expired, ran, age, rival>>

Execution(p) ==
    \/ \E x \in expired[p] : Prune(p, x)
    \/ LookUp(p) \/ Touch(p) \/ Read(p) \/ ReadFails(p)
    \/ Decide(p) \/ Insert(p) \/ Update(p)
    \/ Commit(p) \/ Rollback(p) \/ Victim(p)

Next ==
    \/ Tick
    \/ \E p \in Requests :
          \/ \E f \in Fingerprints : Begin(p, f)
          \/ Execution(p)
          \/ Crash(p)

Spec == Init /\ [][Next]_vars

\* The server takes every request it has begun to an end; no request has to begin,
\* and none has to crash.
FairSpec == Spec /\ \A p \in Requests : WF_vars(Execution(p))

-----------------------------------------------------------------------------
(* Properties *)

\* However requests overlap, a row that is served from the cache was read no longer
\* ago than the time to live and the time the statement may have taken, unless it had
\* to wait for a transaction that held the row, and then by no more than the wait.
StaleNoLonger == \A p \in Requests : age[p] <= TTL + Timeout + waited[p]

\* The cache fails no request that is alone: a flush of execute_safe_query fails on
\* a row that is gone, or there already, only when another transaction has
\* committed its own writes meanwhile.
FailsOnlyWithARival == \A p \in Requests : pc[p] = "failed" => rival[p]

\* Whatever fails elsewhere, a request that has entered the cache leaves it: it does
\* not wait for ever for a row that another one holds.
EveryRequestEnds == \A p \in Requests : pc[p] # "idle" ~> pc[p] = "closed"

=============================================================================
