------------------------- MODULE ResultCacheProofs -------------------------
(***************************************************************************)
(* The result cache for any number of transactions and statements: what is  *)
(* served is never too old, and a flush fails only for the sake of another  *)
(* transaction.                                                             *)
(***************************************************************************)
EXTENDS ResultCache, FiniteSetTheorems, TLAPS

USE CacheAssumption

Sound(r) == r # NoRow => r.stamp <= now /\ r.expires <= r.stamp + Timeout + TTL

\* The rows on record and the drafts of open transactions
RowsSound == \A f \in Fingerprints : Sound(row[f]) /\ Sound(draft[f])

\* Between the query and the write of its result the times are close enough.
Timely ==
    \A p \in Requests :
       /\ began[p] <= now
       /\ pc[p] \in {"query", "upsert"} => now <= began[p] + Timeout
       /\ pc[p] = "write" => until[p] <= began[p] + Timeout + TTL

\* What is about to be served was fresh when it was looked up, and has aged by the wait.
Served ==
    \A p \in Requests :
       /\ pc[p] = "prune" => age[p] = 0
       /\ pc[p] = "touch" => /\ found[p] # NoRow
                             /\ found[p].stamp <= now
                             /\ now <= found[p].stamp + TTL + Timeout + waited[p]

CacheInv == TypeOK /\ RowsSound /\ Timely /\ Served /\ StaleNoLonger

LEMMA SeenSound ==
    ASSUME CacheInv, NEW p \in Requests, NEW f \in Fingerprints
    PROVE  Seen(p, f) \in Rows \cup {NoRow} /\ Sound(Seen(p, f))
BY DEF CacheInv, TypeOK, RowsSound, Seen

\* A write of a sound row leaves sound rows.
LEMMA WriteSound ==
    ASSUME CacheInv, NEW p \in Requests, NEW f \in Fingerprints,
           NEW r \in Rows \cup {NoRow}, Sound(r), Write(p, f, r), now' = now
    PROVE  /\ row' \in [Fingerprints -> Rows \cup {NoRow}]
           /\ holder' \in [Fingerprints -> Requests \cup {Nobody}]
           /\ draft' \in [Fingerprints -> Rows \cup {NoRow}]
           /\ RowsSound'
BY DEF CacheInv, TypeOK, RowsSound, Sound, Write

LEMMA KeepSound ==
    ASSUME CacheInv, UNCHANGED <<row, holder, draft>>, now' = now
    PROVE  /\ row' \in [Fingerprints -> Rows \cup {NoRow}]
           /\ holder' \in [Fingerprints -> Requests \cup {Nobody}]
           /\ draft' \in [Fingerprints -> Rows \cup {NoRow}]
           /\ RowsSound'
BY DEF CacheInv, TypeOK, RowsSound, Sound

LEMMA InitCache == Init => CacheInv
<1> SUFFICES ASSUME Init PROVE CacheInv
  OBVIOUS
<1>1. PICK S \in SUBSET Fingerprints : row \in Filled(S) /\ nextId = Cardinality(S) + 1
  BY DEF Init
<1>2. IsFiniteSet(S) /\ Cardinality(S) \in Nat
  BY FS_Subset, FS_CardinalityType
<1>3. PICK i \in Injection(S, 1..Cardinality(S)), t \in [S -> 0..TTL] :
        row = [f \in Fingerprints |->
          IF f \in S THEN [id |-> i[f], stamp |-> t[f], expires |-> t[f] + TTL] ELSE NoRow]
  BY <1>1 DEF Filled
<1>4. i \in [S -> 1..Cardinality(S)]
  BY DEF Injection, IsInjective
<1>5. \A f \in S : /\ i[f] \in Nat /\ t[f] \in Nat /\ t[f] <= TTL
                   /\ row[f] = [id |-> i[f], stamp |-> t[f], expires |-> t[f] + TTL]
  BY <1>2, <1>3, <1>4
<1>6. \A f \in Fingerprints \ S : row[f] = NoRow
  BY <1>3
<1>7. \A f \in Fingerprints : row[f] \in Rows \cup {NoRow} /\ Sound(row[f])
  <2> TAKE f \in Fingerprints
  <2>1. CASE f \in S
    <3>1. PICK a \in Nat, b \in Nat :
             b <= TTL /\ row[f] = [id |-> a, stamp |-> b, expires |-> b + TTL]
      BY <1>5, <2>1
    <3>2. row[f].stamp = b /\ row[f].expires = b + TTL /\ now = TTL
      BY <3>1 DEF Init
    <3>3. row[f] \in Rows
      BY <3>1 DEF Rows
    <3> QED
      BY <3>1, <3>2, <3>3 DEF Sound
  <2>2. CASE f \notin S
    BY <1>6, <2>2 DEF Sound
  <2> QED
    BY <2>1, <2>2
<1>8. RowsSound
  BY <1>7 DEF RowsSound, Init, Sound
<1>9. row \in [Fingerprints -> Rows \cup {NoRow}]
  BY <1>3, <1>7
<1>10. wants \in [Requests -> Fingerprints]
  <2>1. (CHOOSE f \in Fingerprints : TRUE) \in Fingerprints
    OBVIOUS
  <2> QED
    BY <2>1 DEF Init
<1>11. TypeOK
  BY <1>1, <1>2, <1>9, <1>10 DEF TypeOK, Init, Stages
<1> QED
  BY <1>8, <1>11 DEF CacheInv, Timely, Served, StaleNoLonger, Init

LEMMA CacheHolds == CacheInv /\ [Next]_vars => CacheInv'
<1> SUFFICES ASSUME CacheInv, [Next]_vars PROVE CacheInv'
  OBVIOUS
<1> USE DEF table, query
<1>1. CASE Tick
  <2>1. /\ now' = now + 1 /\ now \in Nat /\ UNCHANGED <<table, pc, query, expired, ran, age, rival>>
        /\ \A p \in Requests : pc[p] = "touch" => Waiting(p)
        /\ waited' = [p \in Requests |-> IF Waiting(p) THEN waited[p] + 1 ELSE waited[p]]
    BY <1>1 DEF Tick, CacheInv, TypeOK
  <2>2. RowsSound'
    BY <2>1 DEF CacheInv, TypeOK, RowsSound, Sound, Rows
  <2>3. Timely'
    BY <1>1, <2>1 DEF Tick, CacheInv, TypeOK, Timely
  <2>4. waited' \in [Requests -> Nat]
    BY <2>1 DEF CacheInv, TypeOK
  <2>5. Served'
    BY <2>1 DEF CacheInv, TypeOK, Served, Rows
  <2>6. StaleNoLonger'
    <3> SUFFICES ASSUME NEW p \in Requests PROVE age[p] <= TTL + Timeout + waited'[p]
      BY <2>1 DEF StaleNoLonger
    <3>1. waited'[p] \in {waited[p], waited[p] + 1}
      BY <2>1
    <3> QED
      BY <3>1 DEF CacheInv, TypeOK, StaleNoLonger
  <2> QED
    BY <2>1, <2>2, <2>3, <2>4, <2>5, <2>6 DEF CacheInv, TypeOK
<1>2. ASSUME NEW p \in Requests, NEW f \in Fingerprints, Begin(p, f) PROVE CacheInv'
  <2>1. \A g \in Fingerprints : Seen(p, g) # NoRow => Seen(p, g).id \in Nat
    BY SeenSound DEF Rows
  <2>2. expired' \in [Requests -> SUBSET [at : Fingerprints, id : Nat]]
    BY <1>2, <2>1 DEF Begin, CacheInv, TypeOK
  <2> QED
    BY <1>2, <2>2, KeepSound DEF Begin, Goto, CacheInv, TypeOK, Stages, Timely, Served, StaleNoLonger
<1>3. ASSUME NEW p \in Requests, NEW x \in expired[p], Prune(p, x) PROVE CacheInv'
  <2>1. x.at \in Fingerprints
    BY DEF CacheInv, TypeOK
  <2>2. /\ row' \in [Fingerprints -> Rows \cup {NoRow}]
        /\ holder' \in [Fingerprints -> Requests \cup {Nobody}]
        /\ draft' \in [Fingerprints -> Rows \cup {NoRow}]
        /\ RowsSound'
    BY <1>3, <2>1, WriteSound, KeepSound DEF Prune, Sound
  <2> QED
    BY <1>3, <2>2 DEF Prune, CacheInv, TypeOK, Timely, Served, StaleNoLonger
<1>4. ASSUME NEW p \in Requests, LookUp(p) PROVE CacheInv'
  <2> PICK r : r = Seen(p, wants[p])
    OBVIOUS
  <2>1. wants[p] \in Fingerprints /\ now \in Nat
    BY DEF CacheInv, TypeOK
  <2>2. r \in Rows \cup {NoRow} /\ Sound(r)
    BY <2>1, SeenSound
  <2>3. Fresh(r) => r # NoRow /\ r.stamp <= now /\ now <= r.stamp + TTL + Timeout
    BY <2>1, <2>2 DEF Fresh, Sound, Rows
  <2>4. /\ found' = [found EXCEPT ![p] = r]
        /\ \/ pc' = [pc EXCEPT ![p] = "touch"] /\ UNCHANGED began /\ Fresh(r)
              /\ waited' = [waited EXCEPT ![p] = 0]
           \/ pc' = [pc EXCEPT ![p] = "query"] /\ UNCHANGED waited
              /\ began' = [began EXCEPT ![p] = now]
        /\ UNCHANGED <<now, table, wants, until, expired, ran, age, rival>>
    BY <1>4 DEF LookUp, Goto
  <2>5. pc[p] = "prune" /\ age[p] = 0
    BY <1>4 DEF LookUp, CacheInv, Served
  <2>6. TypeOK'
    BY <2>1, <2>2, <2>4 DEF CacheInv, TypeOK, Stages
  <2>7. RowsSound' /\ Timely'
    <3>0. UNCHANGED <<row, holder, draft>> /\ now' = now
      BY <2>4
    <3>1. RowsSound'
      BY <3>0, KeepSound
    <3>2. CASE pc' = [pc EXCEPT ![p] = "touch"] /\ UNCHANGED began
      BY <2>1, <2>4, <3>1, <3>2 DEF CacheInv, TypeOK, Timely
    <3>3. CASE /\ pc' = [pc EXCEPT ![p] = "query"]
               /\ began' = [began EXCEPT ![p] = now]
      BY <2>1, <2>4, <3>1, <3>3 DEF CacheInv, TypeOK, Timely
    <3> QED
      BY <2>4, <3>1, <3>2, <3>3
  <2>8. Served'
    <3>1. CASE /\ pc' = [pc EXCEPT ![p] = "touch"] /\ Fresh(r)
               /\ waited' = [waited EXCEPT ![p] = 0]
      BY <2>1, <2>2, <2>3, <2>4, <3>1 DEF CacheInv, TypeOK, Served, Rows
    <3>2. CASE pc' = [pc EXCEPT ![p] = "query"] /\ UNCHANGED waited
      BY <2>4, <3>2 DEF CacheInv, TypeOK, Served
    <3> QED
      BY <2>4, <3>1, <3>2
  <2>9. StaleNoLonger'
    <3>1. waited' \in [Requests -> Nat] /\ \A q \in Requests : q = p \/ waited'[q] = waited[q]
      BY <2>4 DEF CacheInv, TypeOK
    <3>2. TTL + Timeout + waited'[p] >= 0
      BY <3>1
    <3> QED
      BY <2>4, <2>5, <3>1, <3>2 DEF CacheInv, StaleNoLonger
  <2> QED
    BY <2>6, <2>7, <2>8, <2>9 DEF CacheInv
<1>5. ASSUME NEW p \in Requests, Touch(p) PROVE CacheInv'
  <2>1. wants[p] \in Fingerprints
    BY DEF CacheInv, TypeOK
  <2>2. /\ row' \in [Fingerprints -> Rows \cup {NoRow}]
        /\ holder' \in [Fingerprints -> Requests \cup {Nobody}]
        /\ draft' \in [Fingerprints -> Rows \cup {NoRow}]
        /\ RowsSound'
    BY <1>5, <2>1, SeenSound, WriteSound, KeepSound DEF Touch, Touched
  <2>3. /\ now - found[p].stamp \in Nat
        /\ now - found[p].stamp <= TTL + Timeout + waited[p]
    <3>1. found[p] \in Rows /\ found[p].stamp \in Nat
      BY <1>5 DEF Touch, CacheInv, TypeOK, Served, Rows
    <3> QED
      BY <1>5, <3>1 DEF Touch, CacheInv, TypeOK, Served
  <2>4. /\ \/ pc' = [pc EXCEPT ![p] = "ready"] /\ age' = [age EXCEPT ![p] = now - found[p].stamp]
           \/ pc' = [pc EXCEPT ![p] = "failed"] /\ UNCHANGED age
        /\ UNCHANGED <<now, nextId, query, expired, ran, waited, rival>>
    BY <1>5 DEF Touch, Goto
  <2>5. TypeOK'
    BY <2>2, <2>3, <2>4 DEF CacheInv, TypeOK, Stages
  <2>6. Timely' /\ Served' /\ StaleNoLonger'
    BY <2>3, <2>4 DEF CacheInv, TypeOK, Timely, Served, StaleNoLonger
  <2> QED
    BY <2>2, <2>5, <2>6 DEF CacheInv
<1>6. ASSUME NEW p \in Requests, Read(p) \/ ReadFails(p) PROVE CacheInv'
  BY <1>6, KeepSound DEF Read, ReadFails, Goto, CacheInv, TypeOK, Stages, Timely, Served, StaleNoLonger
<1>7. ASSUME NEW p \in Requests, Decide(p) PROVE CacheInv'
  <2>1. Existing(p) \in Rows \cup {NoRow}
    BY SeenSound DEF Existing, CacheInv, TypeOK
  <2> QED
    BY <1>7, <2>1, KeepSound
       DEF Decide, Expiry, Goto, CacheInv, TypeOK, Stages, Timely, Served, StaleNoLonger
<1>8. ASSUME NEW p \in Requests, Insert(p) \/ Update(p) PROVE CacheInv'
  <2>1. wants[p] \in Fingerprints /\ nextId \in Nat /\ pc[p] = "write"
    BY <1>8 DEF CacheInv, TypeOK, Insert, Update
  <2>2. \A id \in Nat : Result(p, id) \in Rows /\ Sound(Result(p, id))
    BY <2>1 DEF Result, Rows, Sound, CacheInv, TypeOK, Timely
  <2>3. found[p] # NoRow => found[p].id \in Nat
    BY DEF CacheInv, TypeOK, Rows
  <2>4. /\ row' \in [Fingerprints -> Rows \cup {NoRow}]
        /\ holder' \in [Fingerprints -> Requests \cup {Nobody}]
        /\ draft' \in [Fingerprints -> Rows \cup {NoRow}]
        /\ RowsSound' /\ nextId' \in Nat
    BY <1>8, <2>1, <2>2, <2>3, WriteSound, KeepSound DEF Insert, Update
  <2> QED
    BY <1>8, <2>4 DEF Insert, Update, Goto, CacheInv, TypeOK, Stages, Timely, Served, StaleNoLonger
<1>9. ASSUME NEW p \in Requests, Commit(p) PROVE CacheInv'
  <2>1. /\ row' \in [Fingerprints -> Rows \cup {NoRow}]
        /\ holder' \in [Fingerprints -> Requests \cup {Nobody}]
        /\ draft' \in [Fingerprints -> Rows \cup {NoRow}]
        /\ RowsSound'
    BY <1>9, SeenSound DEF Commit, Release, CacheInv, TypeOK, RowsSound, Sound
  <2> QED
    BY <1>9, <2>1 DEF Commit, Goto, CacheInv, TypeOK, Stages, Timely, Served, StaleNoLonger
<1>10. ASSUME NEW p \in Requests, Rollback(p) \/ Crash(p) PROVE CacheInv'
  <2>1. Abort(p) /\ Goto(p, "closed")
    BY <1>10 DEF Rollback, Crash
  <2>2. /\ holder' \in [Fingerprints -> Requests \cup {Nobody}]
        /\ draft' \in [Fingerprints -> Rows \cup {NoRow}]
        /\ RowsSound'
    BY <2>1 DEF Abort, Release, CacheInv, TypeOK, RowsSound, Sound
  <2> QED
    BY <2>1, <2>2 DEF Abort, Goto, CacheInv, TypeOK, Stages, Timely, Served, StaleNoLonger
<1>11. ASSUME NEW p \in Requests, Victim(p) PROVE CacheInv'
  BY <1>11, KeepSound DEF Victim, Goto, CacheInv, TypeOK, Stages, Timely, Served, StaleNoLonger
<1>12. CASE UNCHANGED vars
  BY <1>12, KeepSound DEF vars, CacheInv, TypeOK, Timely, Served, StaleNoLonger
<1> QED
  BY <1>1, <1>2, <1>3, <1>4, <1>5, <1>6, <1>7, <1>8, <1>9, <1>10, <1>11, <1>12
     DEF Next, Execution

\* The types hold for any number of transactions, statements and executions.
THEOREM TypeCorrect == Spec => []TypeOK
<1>1. CacheInv => TypeOK
  BY DEF CacheInv
<1> QED
  BY <1>1, InitCache, CacheHolds, PTL DEF Spec

\* A row that execute_safe_query serves from the cache was read no longer ago than the
\* time to live and one statement_timeout, however transactions overlap, but for the
\* time its touch has waited for the row's lock.
THEOREM ServedInTime == Spec => []StaleNoLonger
<1>1. CacheInv => StaleNoLonger
  BY DEF CacheInv
<1> QED
  BY <1>1, InitCache, CacheHolds, PTL DEF Spec

-----------------------------------------------------------------------------

\* As long as no other transaction has committed, what an execution has loaded is what
\* it still sees.
Alone ==
    \A p \in Requests : ~rival[p] =>
       /\ pc[p] # "failed"
       /\ pc[p] = "touch" => found[p] # NoRow
       /\ pc[p] \in {"touch", "write"} => Seen(p, wants[p]) = found[p]

\* What a transaction writes, nobody else sees yet.
LEMMA WriteUnseen ==
    ASSUME TypeOK, NEW p \in Requests, NEW q \in Requests, p # q,
           NEW f \in Fingerprints, NEW r, Free(q, f), Write(q, f, r)
    PROVE  \A g \in Fingerprints : Seen(p, g)' = Seen(p, g)
BY DEF TypeOK, Free, Write, Seen

\* Nor does anybody else see that it gave up.
LEMMA AbortUnseen ==
    ASSUME TypeOK, NEW p \in Requests, NEW q \in Requests, p # q, Abort(q)
    PROVE  \A g \in Fingerprints : Seen(p, g)' = Seen(p, g)
BY DEF TypeOK, Abort, Release, Holds, Seen

\* A transaction that commits what it has written is a rival of all that are open.
LEMMA CommitSeen ==
    ASSUME TypeOK, NEW p \in Requests, NEW q \in Requests, p # q, Commit(q), Open(p),
           ~rival'[p]
    PROVE  \A g \in Fingerprints : Seen(p, g)' = Seen(p, g)
<1>1. Holds(q) = {}
  BY DEF Commit, TypeOK
<1>2. \A g \in Fingerprints : holder[g] # q
  BY <1>1 DEF Holds
<1> QED
  BY <1>1, <1>2 DEF TypeOK, Commit, Release, Seen

\* An execution is disturbed by the steps of others only.
LEMMA OthersKeep ==
    ASSUME TypeOK, Alone, NEW q \in Requests,
           \A p \in Requests \ {q} :
              /\ pc'[p] = pc[p] /\ wants'[p] = wants[p] /\ found'[p] = found[p]
              /\ ~rival'[p] /\ pc[p] \in {"touch", "write"} =>
                    \A g \in Fingerprints : Seen(p, g)' = Seen(p, g)
              /\ rival[p] => rival'[p],
           ~rival'[q] => /\ pc'[q] # "failed"
                         /\ pc'[q] = "touch" => found'[q] # NoRow
                         /\ pc'[q] \in {"touch", "write"} => Seen(q, wants[q])' = found'[q]
    PROVE  Alone'
<1>1. \A p \in Requests : wants[p] \in Fingerprints
  BY DEF TypeOK
<1> QED
  BY <1>1 DEF Alone

LEMMA AloneHolds == TypeOK /\ Alone /\ [Next]_vars => Alone'
<1> SUFFICES ASSUME TypeOK, Alone, [Next]_vars PROVE Alone'
  OBVIOUS
<1> USE DEF table, query
<1>0. \A p \in Requests : wants[p] \in Fingerprints
  BY DEF TypeOK
<1>1. CASE UNCHANGED <<row, holder, draft, pc, wants, found, rival>>
  BY <1>1 DEF Alone, Seen
<1>2. ASSUME NEW p \in Requests, UNCHANGED <<row, holder, draft, wants, rival>>,
             \A q \in Requests \ {p} : pc'[q] = pc[q] /\ found'[q] = found[q],
             pc'[p] \notin {"touch", "write", "failed"}
      PROVE  Alone'
  BY <1>2 DEF Alone, Seen
<1>3. ASSUME NEW p \in Requests, NEW f \in Fingerprints, Begin(p, f) PROVE Alone'
  BY <1>3 DEF Begin, Goto, Alone, Seen, TypeOK
<1>4. ASSUME NEW p \in Requests, NEW x \in expired[p], Prune(p, x) PROVE Alone'
  <2>1. x.at \in Fingerprints
    BY DEF TypeOK
  <2>2. ASSUME NEW q \in Requests \ {p}
        PROVE  \A g \in Fingerprints : Seen(q, g)' = Seen(q, g)
    BY <1>4, <2>1, WriteUnseen DEF Prune, Seen
  <2> QED
    BY <1>4, <2>2, OthersKeep DEF Prune
<1>5. ASSUME NEW p \in Requests, LookUp(p) PROVE Alone'
  <2>1. /\ found' = [found EXCEPT ![p] = Seen(p, wants[p])]
        /\ UNCHANGED <<row, holder, draft, wants, rival>>
        /\ \/ pc' = [pc EXCEPT ![p] = "touch"] /\ Seen(p, wants[p]) # NoRow
           \/ pc' = [pc EXCEPT ![p] = "query"]
    BY <1>5 DEF LookUp, Goto, Fresh
  <2> QED
    BY <2>1 DEF Alone, Seen, TypeOK
<1>6. ASSUME NEW p \in Requests, Touch(p) \/ Insert(p) \/ Update(p) PROVE Alone'
  <2>1. ASSUME NEW q \in Requests \ {p}
        PROVE  \A g \in Fingerprints : Seen(q, g)' = Seen(q, g)
    BY <1>0, <1>6, WriteUnseen DEF Touch, Insert, Update, Seen
  <2>2. ~rival[p] => pc'[p] = "ready"
    BY <1>6 DEF Alone, Touch, Insert, Update, Is, Goto, TypeOK
  <2>3. /\ UNCHANGED <<wants, found, rival>>
        /\ \A q \in Requests \ {p} : pc'[q] = pc[q]
    BY <1>6 DEF Touch, Insert, Update, Goto, TypeOK
  <2> QED
    BY <2>1, <2>2, <2>3, OthersKeep
<1>7. ASSUME NEW p \in Requests, Read(p) \/ ReadFails(p) \/ Victim(p) PROVE Alone'
  BY <1>7, <1>2 DEF Read, ReadFails, Victim, Goto, TypeOK
<1>8. ASSUME NEW p \in Requests, Decide(p) PROVE Alone'
  BY <1>8 DEF Decide, Existing, Goto, Alone, Seen, TypeOK
<1>9. ASSUME NEW p \in Requests, Commit(p) PROVE Alone'
  <2>1. ASSUME NEW q \in Requests \ {p}, ~rival'[q], pc[q] \in {"touch", "write"}
        PROVE  \A g \in Fingerprints : Seen(q, g)' = Seen(q, g)
    BY <1>9, <2>1, CommitSeen DEF Open
  <2>2. \A q \in Requests : rival[q] => rival'[q]
    BY <1>9 DEF Commit, TypeOK
  <2>3. UNCHANGED <<wants, found>> /\ pc' = [pc EXCEPT ![p] = "closed"]
    BY <1>9 DEF Commit, Goto
  <2> QED
    BY <2>1, <2>2, <2>3, OthersKeep DEF TypeOK
<1>10. ASSUME NEW p \in Requests, Rollback(p) \/ Crash(p) PROVE Alone'
  <2>1. Abort(p) /\ pc' = [pc EXCEPT ![p] = "closed"]
    BY <1>10 DEF Rollback, Crash, Goto
  <2>2. ASSUME NEW q \in Requests \ {p}
        PROVE  \A g \in Fingerprints : Seen(q, g)' = Seen(q, g)
    BY <2>1, AbortUnseen
  <2> QED
    BY <2>1, <2>2, OthersKeep DEF Abort, TypeOK
<1>11. CASE Tick \/ UNCHANGED vars
  BY <1>1, <1>11 DEF Tick, vars
<1> QED
  BY <1>3, <1>4, <1>5, <1>6, <1>7, <1>8, <1>9, <1>10, <1>11 DEF Next, Execution

\* A request that meets no writer is not failed by the cache: every IntegrityError and
\* StaleDataError of execute_safe_query is owed to a commit of another transaction.
THEOREM RivalsFailRequests == Spec => []FailsOnlyWithARival
<1>1. Init => TypeOK /\ Alone
  BY InitCache DEF CacheInv, Init, Alone
<1>2. Alone /\ TypeOK => FailsOnlyWithARival
  BY DEF Alone, FailsOnlyWithARival, TypeOK
<1> QED
  BY <1>1, <1>2, AloneHolds, TypeCorrect, PTL DEF Spec

=============================================================================
