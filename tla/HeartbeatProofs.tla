-------------------------- MODULE HeartbeatProofs --------------------------
(***************************************************************************)
(* For any number of workers and any bounds: a worker that recorded its     *)
(* last heartbeat is healthy to the probe.                                  *)
(***************************************************************************)
EXTENDS Heartbeat, TLAPS

-----------------------------------------------------------------------------
(* Types *)

LEMMA TypeInit == Init => TypeOK
  BY HeartbeatAssumption DEF Init, TypeOK, Statuses

\* Where a recorded or a lost heartbeat leads
LEMMA GoType ==
    ASSUME TypeOK, NEW w \in Workers, Go(w)
    PROVE  /\ pc' \in [Workers -> {"waiting", "beat", "write", "cycle", "asleep", "exited", "dead"}]
           /\ phase' \in [Workers -> Statuses]
           /\ since' \in [Workers -> 0..now]
<1>1. Then(w) \in {"beat", "cycle", "asleep"} /\ After(w) \in Statuses
  BY DEF TypeOK, Then, After, Statuses
<1>2. now \in 0..now /\ 0 \in 0..now
  BY HeartbeatAssumption DEF TypeOK
<1> QED BY <1>1, <1>2 DEF TypeOK, Go

LEMMA TypeStep == TypeOK /\ [Next]_vars => TypeOK'
<1> USE HeartbeatAssumption
<1> SUFFICES ASSUME TypeOK, [Next]_vars PROVE TypeOK'
  OBVIOUS
<1>1. CASE Tick
  BY <1>1 DEF TypeOK, Tick, worker
<1>2. CASE Outage
  BY <1>2 DEF TypeOK, Outage, worker
<1>3. ASSUME NEW w \in Workers, Connect(w) PROVE TypeOK'
  BY <1>3 DEF TypeOK, Connect
<1>4. ASSUME NEW w \in Workers, CannotConnect(w) PROVE TypeOK'
  <2>1. ~Last(w) => tried[w] + 1 \in 0..Attempts - 1
    BY DEF TypeOK, Last
  <2>2. 0 \in 0..Attempts - 1
    OBVIOUS
  <2> QED BY <1>4, <2>1, <2>2 DEF TypeOK, CannotConnect, AfterTheLast
<1>5. ASSUME NEW w \in Workers, LookUp(w) PROVE TypeOK'
  BY <1>5 DEF TypeOK, LookUp
<1>6. ASSUME NEW w \in Workers, Record(w) PROVE TypeOK'
  <2>1. Go(w) /\ UNCHANGED <<now, up, tried, exists>>
    BY <1>6 DEF Record
  <2>2. row' \in [seen : 0..now, status : Statuses]
    BY <1>6 DEF Record, TypeOK
  <2>3. lost' \in [Workers -> BOOLEAN]
    BY <1>6 DEF Record, TypeOK
  <2> QED BY <2>1, <2>2, <2>3, GoType DEF TypeOK
<1>7. ASSUME NEW w \in Workers, Lose(w) PROVE TypeOK'
  <2>1. Go(w) /\ UNCHANGED <<now, up, row, tried, exists>>
    BY <1>7 DEF Lose, Survives
  <2>2. lost' \in [Workers -> BOOLEAN]
    BY <1>7 DEF Lose, TypeOK
  <2> QED BY <2>1, <2>2, GoType DEF TypeOK
<1>8. ASSUME NEW w \in Workers, EndCycle(w) PROVE TypeOK'
  <2>1. phase' \in [Workers -> Statuses]
    BY <1>8 DEF EndCycle, TypeOK, Statuses
  <2>2. now \in 0..now
    BY DEF TypeOK
  <2> QED BY <1>8, <2>1, <2>2 DEF TypeOK, EndCycle, Done
<1>9. ASSUME NEW w \in Workers, Wake(w) \/ Crash(w) \/ Restart(w) PROVE TypeOK'
  <2>1. 0 \in 0..now /\ 0 \in 0..Attempts - 1
    BY DEF TypeOK
  <2>2. CASE Wake(w)
    BY <2>1, <2>2 DEF TypeOK, Wake, Statuses
  <2>3. CASE Crash(w)
    BY <2>1, <2>3 DEF TypeOK, Crash, Statuses
  <2>4. CASE Restart(w)
    BY <2>1, <2>4 DEF TypeOK, Restart, Statuses
  <2> QED BY <1>9, <2>2, <2>3, <2>4
<1>10. CASE UNCHANGED vars
  BY <1>10 DEF TypeOK, vars, worker
<1> QED
  BY <1>1, <1>2, <1>3, <1>4, <1>5, <1>6, <1>7, <1>8, <1>9, <1>10 DEF Next, Step

-----------------------------------------------------------------------------
(* The heartbeat a worker goes on from is on record, and no older than its  *)
(* cycle or its sleep; a sleep lasts no longer than the clock waits for it. *)

InLoop(w) == pc[w] \in {"cycle", "asleep"}

Recorded ==
    \A w \in Workers : InLoop(w) /\ ~lost[w] => row # NoRow /\ row.seen >= since[w]

InTime == \A w \in Workers : pc[w] = "asleep" => now - since[w] <= Poll

Beats == TypeOK /\ Recorded /\ InTime

LEMMA BeatsInit == Init => Beats
  BY TypeInit DEF Init, Beats, Recorded, InTime, InLoop

LEMMA RecordedStep == TypeOK /\ TypeOK' /\ Recorded /\ [Next]_vars => Recorded'
<1> SUFFICES ASSUME TypeOK, TypeOK', Recorded, [Next]_vars PROVE Recorded'
  OBVIOUS
<1>1. CASE Tick \/ Outage \/ UNCHANGED vars
  BY <1>1 DEF Tick, Outage, vars, worker, Recorded, InLoop
<1>2. ASSUME NEW w \in Workers, Record(w) PROVE Recorded'
  <2>1. row' # NoRow
    <3>1. now \in Nat
      BY HeartbeatAssumption DEF TypeOK
    <3>2. row' \in [seen : Nat, status : Statuses]
      BY <1>2, <3>1 DEF Record, TypeOK
    <3> QED BY <3>2, HeartbeatAssumption
  <2>2. \A v \in Workers : row'.seen >= since'[v]
    BY <1>2 DEF Record, TypeOK
  <2> QED BY <2>1, <2>2 DEF Recorded
<1>3. ASSUME NEW w \in Workers, Lose(w) PROVE Recorded'
  BY <1>3 DEF Lose, Survives, Go, Recorded, InLoop, TypeOK
<1>4. ASSUME NEW w \in Workers,
             Connect(w) \/ CannotConnect(w) \/ LookUp(w) \/ EndCycle(w)
             \/ Wake(w) \/ Crash(w) \/ Restart(w)
      PROVE  Recorded'
  <2>1. row' = row /\ ~InLoop(w)'
    BY <1>4 DEF Connect, CannotConnect, LookUp, EndCycle, Wake, Crash, Restart,
                AfterTheLast, Done, TypeOK, InLoop
  <2>2. \A v \in Workers \ {w} : pc'[v] = pc[v] /\ since'[v] = since[v] /\ lost'[v] = lost[v]
    BY <1>4 DEF Connect, CannotConnect, LookUp, EndCycle, Wake, Crash, Restart, TypeOK
  <2> QED BY <2>1, <2>2 DEF Recorded, InLoop
<1> QED BY <1>1, <1>2, <1>3, <1>4 DEF Next, Step

LEMMA InTimeStep == TypeOK /\ TypeOK' /\ InTime /\ [Next]_vars => InTime'
<1> USE HeartbeatAssumption
<1> SUFFICES ASSUME TypeOK, TypeOK', InTime, [Next]_vars PROVE InTime'
  OBVIOUS
<1>1. CASE Tick
  BY <1>1 DEF Tick, Patient, worker, InTime, TypeOK
<1>2. CASE Outage \/ UNCHANGED vars
  BY <1>2 DEF Outage, vars, worker, InTime
<1>3. ASSUME NEW w \in Workers, Step(w) \/ Crash(w) \/ Restart(w) PROVE InTime'
  <2>1. now' = now /\ (InLoop(w)' => since'[w] = now)
    <3>1. CASE Record(w) \/ Lose(w)
      BY <3>1 DEF Record, Lose, Survives, Go, Then, InLoop, TypeOK
    <3>2. CASE Connect(w) \/ CannotConnect(w) \/ LookUp(w) \/ EndCycle(w)
               \/ Wake(w) \/ Crash(w) \/ Restart(w)
      BY <3>2 DEF Connect, CannotConnect, LookUp, EndCycle, Wake, Crash, Restart,
                  AfterTheLast, Done, TypeOK, InLoop
    <3> QED BY <1>3, <3>1, <3>2 DEF Step
  <2>2. \A v \in Workers \ {w} : pc'[v] = pc[v] /\ since'[v] = since[v]
    BY <1>3 DEF Step, Record, Lose, Survives, Go, Connect, CannotConnect, LookUp, EndCycle,
                Wake, Crash, Restart, TypeOK
  <2> QED BY <2>1, <2>2 DEF InTime, InLoop, TypeOK
<1> QED BY <1>1, <1>2, <1>3 DEF Next

\* Each worker's loop, between two heartbeats: Heartbeat's invariant.
THEOREM BeatsHold == Spec => []Beats
<1>1. Beats /\ [Next]_vars => Beats'
  BY TypeStep, RecordedStep, InTimeStep DEF Beats
<1> QED BY BeatsInit, <1>1, PTL DEF Spec

\* A worker whose last heartbeat was recorded is fresh to the health probe, however many
\* workers share the row, except in a cycle that outlasts what the probe allows
\* (scheduler_loop, heartbeat_is_fresh).
THEOREM WorkersAreHealthy == Spec => []WorkingIsHealthy
<1>1. Beats => WorkingIsHealthy
  <2> SUFFICES ASSUME Beats, NEW w \in Workers, InLoop(w), ~lost[w]
               PROVE  Fresh \/ (pc[w] = "cycle" /\ now - since[w] > StaleAfter)
    BY DEF WorkingIsHealthy, InLoop
  <2>1. Poll <= StaleAfter /\ StaleAfter \in Nat
    BY HeartbeatAssumption DEF StaleAfter
  <2>2. row # NoRow /\ row.seen >= since[w] /\ row.seen \in 0..now
    BY DEF Beats, Recorded, TypeOK
  <2>3. now - since[w] <= StaleAfter \/ (pc[w] = "cycle" /\ now - since[w] > StaleAfter)
    BY <2>1, HeartbeatAssumption DEF Beats, InTime, InLoop, TypeOK
  <2> QED BY <2>1, <2>2, <2>3, HeartbeatAssumption DEF Fresh, Beats, TypeOK
<1> QED BY <1>1, BeatsHold, PTL

=============================================================================
