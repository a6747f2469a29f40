--------------------------- MODULE WebhooksProofs ---------------------------
(***************************************************************************)
(* Theorems of Webhooks for any number of endpoints, events, producers and *)
(* drain ticks and redeliver requests.  Mutual exclusion of the ticks is   *)
(* about the rows that no owner has asked for again.                       *)
(***************************************************************************)
EXTENDS Webhooks, TLAPS

-----------------------------------------------------------------------------
(* Types. *)

LEMMA CellType ==
  ASSUME NEW A, NEW R, NEW S, NEW f \in [A -> [R -> S]],
         NEW a \in A, NEW r \in R, NEW v \in S
  PROVE  [f EXCEPT ![a][r] = v] \in [A -> [R -> S]]
  OBVIOUS

LEMMA TypeInit == Init => TypeOK
  BY DEF Init, TypeOK

LEMMA ReadRowTypes ==
  ASSUME TypeOK, NEW a \in Actors, NEW r \in Rows, ReadRow(a, r)
  PROVE  /\ phase' \in [Actors -> [Rows -> {"none", "claimed", "posting", "ok", "failed"}]]
         /\ seen' \in [Actors -> [Rows -> Nat]]
<1> DEFINE Phases == {"none", "claimed", "posting", "ok", "failed"}
<1>1. phase \in [Actors -> [Rows -> Phases]] /\ seen \in [Actors -> [Rows -> Nat]]
  BY DEF TypeOK
<1>2. attempts[r] \in Nat
  BY DEF TypeOK
<1>3. "none" \in Phases /\ "posting" \in Phases
  OBVIOUS
<1> HIDE DEF Phases
<1>4. [phase EXCEPT ![a][r] = "none"] \in [Actors -> [Rows -> Phases]]
  BY <1>1, <1>3, CellType
<1>5. [phase EXCEPT ![a][r] = "posting"] \in [Actors -> [Rows -> Phases]]
  BY <1>1, <1>3, CellType
<1>6. [seen EXCEPT ![a][r] = attempts[r]] \in [Actors -> [Rows -> Nat]]
  BY <1>1, <1>2, CellType
<1>7. CASE endpoint[r[1]] = "disabled" \/ ~opens[r[1]]
  BY <1>7, <1>1, <1>4 DEF ReadRow, Phases
<1>8. CASE ~(endpoint[r[1]] = "disabled" \/ ~opens[r[1]])
  BY <1>8, <1>5, <1>6 DEF ReadRow, Phases
<1> QED BY <1>7, <1>8

LEMMA TypeKept ==
  ASSUME TypeOK, [Next]_vars
  PROVE  TypeOK'
<1> USE WebhooksAssumption DEF TypeOK
<1>0. ASSUME ChangeKey PROVE TypeOK'
  BY <1>0 DEF ChangeKey, rowVars, fanoutVars, dispatchVars
<1>1. ASSUME NEW ep \in Endpoints, Manage(ep) PROVE TypeOK'
  BY <1>1 DEF Manage, CreateEndpoint, Subscribe, Disable, RotateSecret, rowVars, fanoutVars, dispatchVars
<1>2. ASSUME NEW p \in Producers, Fanout(p) PROVE TypeOK'
  <2>1. ASSUME NEW e \in Events, ReadSubscribers(p, e) PROVE TypeOK'
    BY <2>1 DEF ReadSubscribers, Subscribers, endpointVars, rowVars, dispatchVars
  <2>2. CASE InsertDeliveries(p)
    <3>1. event' \in [Rows -> Events \cup {None}]
      BY <2>2 DEF InsertDeliveries
    <3>2. fanout' \in [Producers -> Events \cup {None}] /\ targets' \in [Producers -> SUBSET Endpoints]
      BY <2>2 DEF InsertDeliveries, EndFanout
    <3> QED BY <2>2, <3>1, <3>2 DEF InsertDeliveries, endpointVars, dispatchVars
  <2>3. CASE LoseFanout(p)
    BY <2>3 DEF LoseFanout, EndFanout, endpointVars, rowVars, dispatchVars
  <2> QED BY <1>2, <2>1, <2>2, <2>3 DEF Fanout
<1>3. ASSUME NEW r \in Rows, LeaseExpires(r) \/ BackoffEnds(r) PROVE TypeOK'
  BY <1>3 DEF LeaseExpires, BackoffEnds, endpointVars, fanoutVars, dispatchVars
<1>4. ASSUME NEW t \in Ticks, NEW rows \in SUBSET Rows, Claim(t, rows) PROVE TypeOK'
  <2>1. next' \in [Rows -> {"due", "leased", "waiting"}]
    BY <1>4 DEF Claim
  <2>2. phase' \in [Actors -> [Rows -> {"none", "claimed", "posting", "ok", "failed"}]]
    <3>1. [r \in Rows |-> IF r \in rows THEN "claimed" ELSE "none"]
            \in [Rows -> {"none", "claimed", "posting", "ok", "failed"}]
      OBVIOUS
    <3> QED BY <1>4, <3>1 DEF Claim
  <2> QED BY <1>4, <2>1, <2>2 DEF Claim, endpointVars, fanoutVars
<1>5. ASSUME NEW a \in Redelivers, NEW r \in Rows, Redeliver(a, r) PROVE TypeOK'
  BY <1>5 DEF Redeliver, Actors, endpointVars, fanoutVars
<1>6. ASSUME NEW a \in Actors, Crash(a) PROVE TypeOK'
  BY <1>6 DEF Crash, endpointVars, rowVars, fanoutVars
<1>7. ASSUME NEW a \in Actors, NEW r \in Rows, Dispatch(a, r) PROVE TypeOK'
  <2>1. CASE ReadRow(a, r)
    <3>1. /\ phase' \in [Actors -> [Rows -> {"none", "claimed", "posting", "ok", "failed"}]]
          /\ seen' \in [Actors -> [Rows -> Nat]]
      BY <2>1, ReadRowTypes
    <3> QED BY <2>1, <3>1 DEF ReadRow, endpointVars, rowVars, fanoutVars
  <2>2. CASE Answer(a, r)
    BY <2>2 DEF Answer, endpointVars, rowVars, fanoutVars
  <2>3. CASE Record(a, r)
    <3>1. seen[a][r] + 1 \in Nat
      OBVIOUS
    <3>2. attempts' \in [Rows -> Nat]
      BY <2>3, <3>1 DEF Record
    <3>3. delivered' \in [Rows -> BOOLEAN] /\ next' \in [Rows -> {"due", "leased", "waiting"}]
      BY <2>3 DEF Record
    <3>4. /\ phase' \in [Actors -> [Rows -> {"none", "claimed", "posting", "ok", "failed"}]]
          /\ seen' \in [Actors -> [Rows -> Nat]]
      BY <2>3 DEF Record
    <3> QED BY <2>3, <3>2, <3>3, <3>4 DEF Record, endpointVars, fanoutVars
  <2> QED BY <1>7, <2>1, <2>2, <2>3 DEF Dispatch
<1>8. ASSUME UNCHANGED vars PROVE TypeOK'
  BY <1>8 DEF vars, endpointVars, rowVars, fanoutVars, dispatchVars
<1> QED BY <1>0, <1>1, <1>2, <1>3, <1>4, <1>5, <1>6, <1>7, <1>8 DEF Next

\* The tables and the dispatches keep their types (with redelivery).
THEOREM TypeCorrect == Spec => []TypeOK
  BY TypeInit, TypeKept, PTL DEF Spec
-----------------------------------------------------------------------------
(* Mutual exclusion of the ticks. *)

LEMMA DrainInit == Init => OneTickPerRow /\ LeaseInv /\ RequestInv
  BY DEF Init, OneTickPerRow, LeaseInv, RequestInv, Actors

\* A step that starts no tick's dispatch, and leaves alone the rows in the hands
\* of a tick, keeps the invariant of the ticks.
LEMMA NoNewWork ==
  ASSUME OneTickPerRow, LeaseInv,
         \A r \in Rows : ~redelivered'[r] => ~redelivered[r],
         \A t \in Ticks, r \in Rows : ~redelivered'[r] /\ phase'[t][r] # "none" =>
           /\ phase[t][r] # "none"
           /\ event'[r] # None /\ next'[r] = next[r]
           /\ delivered'[r] = delivered[r] /\ attempts'[r] = attempts[r]
           /\ phase'[t][r] # "claimed" => seen'[t][r] = attempts[r]
  PROVE  OneTickPerRow' /\ LeaseInv'
  BY DEF OneTickPerRow, LeaseInv

\* A step that starts no request's dispatch and forgets no row keeps what holds
\* of the requests.
LEMMA NoNewRequest ==
  ASSUME RequestInv, redelivered' = redelivered,
         \A r \in Rows : event[r] # None => event'[r] # None,
         \A a \in Redelivers, r \in Rows : phase'[a][r] # "none" => phase[a][r] # "none"
  PROVE  RequestInv'
  BY DEF RequestInv

LEMMA RowsUntouched ==
  ASSUME OneTickPerRow, LeaseInv, RequestInv, UNCHANGED <<rowVars, dispatchVars>>
  PROVE  OneTickPerRow' /\ LeaseInv' /\ RequestInv'
  BY NoNewWork, NoNewRequest DEF LeaseInv, rowVars, dispatchVars

LEMMA FanoutKeeps ==
  ASSUME DrainInv, NEW p \in Producers, Fanout(p)
  PROVE  OneTickPerRow' /\ LeaseInv' /\ RequestInv'
<1> USE DEF DrainInv
<1>1. ASSUME NEW e \in Events, ReadSubscribers(p, e)
      PROVE  OneTickPerRow' /\ LeaseInv' /\ RequestInv'
  BY <1>1, RowsUntouched DEF ReadSubscribers
<1>2. CASE InsertDeliveries(p)
  <2>1. \A r \in Rows : event[r] # None => event'[r] # None
    BY <1>2 DEF InsertDeliveries
  <2>2. UNCHANGED <<attempts, delivered, next, redelivered, phase, seen>>
    BY <1>2 DEF InsertDeliveries, dispatchVars
  <2>3. OneTickPerRow' /\ LeaseInv'
    BY <2>1, <2>2, NoNewWork DEF LeaseInv
  <2>4. RequestInv'
    BY <2>1, <2>2, NoNewRequest
  <2> QED BY <2>3, <2>4
<1>3. CASE LoseFanout(p)
  BY <1>3, RowsUntouched DEF LoseFanout
<1> QED BY <1>1, <1>2, <1>3 DEF Fanout

LEMMA TimeKeeps ==
  ASSUME DrainInv, NEW r \in Rows, LeaseExpires(r) \/ BackoffEnds(r)
  PROVE  OneTickPerRow' /\ LeaseInv' /\ RequestInv'
<1> USE DEF DrainInv
<1>1. \A t \in Ticks : phase[t][r] = "none"
  BY DEF LeaseExpires, BackoffEnds, Quiet, Actors
<1>2. UNCHANGED <<event, delivered, attempts, redelivered, phase, seen>>
  BY DEF LeaseExpires, BackoffEnds, dispatchVars
<1>3. \A q \in Rows : q # r => next'[q] = next[q]
  BY DEF LeaseExpires, BackoffEnds, TypeOK
<1>4. OneTickPerRow' /\ LeaseInv'
  BY <1>1, <1>2, <1>3, NoNewWork DEF LeaseInv
<1>5. RequestInv'
  BY <1>2, NoNewRequest
<1> QED BY <1>4, <1>5

\* A due row that nobody has asked for again is in the hands of no tick, so the
\* claim takes it from nobody.
LEMMA ClaimKeeps ==
  ASSUME DrainInv, NEW t \in Ticks, NEW rows \in SUBSET Rows, Claim(t, rows)
  PROVE  OneTickPerRow' /\ LeaseInv' /\ RequestInv'
<1> USE DEF DrainInv
<1>1. \A s \in Ticks, r \in rows : ~redelivered[r] => phase[s][r] = "none"
  BY DEF Claim, Due, LeaseInv
<1>2. \A r \in Rows : phase'[t][r] = IF r \in rows THEN "claimed" ELSE "none"
  BY DEF Claim, TypeOK, Actors
<1>3. \A s \in Actors : s # t => phase'[s] = phase[s]
  BY DEF Claim, TypeOK, Actors
<1>4. UNCHANGED <<event, delivered, attempts, redelivered, seen>>
  BY DEF Claim
<1>5. \A r \in Rows : next'[r] = IF r \in rows THEN "leased" ELSE next[r]
  BY DEF Claim
<1>6. \A r \in rows : event[r] # None /\ ~delivered[r] /\ attempts[r] < MaxAttempts
  BY DEF Claim, Due
<1>7. OneTickPerRow'
  BY <1>1, <1>2, <1>3, <1>4 DEF OneTickPerRow, Actors
<1>8. LeaseInv'
  <2> SUFFICES ASSUME NEW s \in Ticks, NEW r \in Rows, ~redelivered'[r], phase'[s][r] # "none"
               PROVE  /\ event'[r] # None /\ next'[r] = "leased"
                      /\ ~delivered'[r] /\ attempts'[r] < MaxAttempts
                      /\ phase'[s][r] # "claimed" => seen'[s][r] = attempts'[r]
    BY DEF LeaseInv
  <2>1. CASE s = t
    BY <2>1, <1>2, <1>4, <1>5, <1>6
  <2>2. CASE s # t
    BY <2>2, <1>3, <1>4, <1>5 DEF LeaseInv, Actors
  <2> QED BY <2>1, <2>2
<1>9. RequestInv'
  BY <1>3, <1>4, NoNewRequest, WebhooksAssumption DEF Actors
<1> QED BY <1>7, <1>8, <1>9

\* An owner's request leaves the ticks only rows that count as asked for again.
LEMMA RedeliverKeeps ==
  ASSUME DrainInv, NEW a \in Redelivers, NEW r \in Rows, Redeliver(a, r)
  PROVE  OneTickPerRow' /\ LeaseInv' /\ RequestInv'
<1> USE DEF DrainInv
<1>1. redelivered'[r] /\ \A q \in Rows : q # r => redelivered'[q] = redelivered[q] /\ next'[q] = next[q]
  BY DEF Redeliver, TypeOK
<1>2. \A t \in Actors : t # a => phase'[t] = phase[t]
  BY DEF Redeliver, TypeOK, Actors
<1>3. \A q \in Rows : q # r => phase'[a][q] = phase[a][q]
  BY DEF Redeliver, TypeOK, Actors
<1>4. UNCHANGED <<event, attempts, delivered, seen>> /\ event[r] # None
  BY DEF Redeliver
<1>5. \A t \in Ticks : phase'[t] = phase[t]
  BY <1>2, WebhooksAssumption DEF Actors
<1>6. OneTickPerRow' /\ LeaseInv'
  BY <1>1, <1>4, <1>5, NoNewWork DEF LeaseInv
<1>7. RequestInv'
  BY <1>1, <1>2, <1>3, <1>4 DEF RequestInv, Actors
<1> QED BY <1>6, <1>7

\* What a tick's dispatch writes on its row, no other tick is looking at; what a
\* request's dispatch writes is on a row asked for again.
LEMMA DispatchKeeps ==
  ASSUME DrainInv, NEW a \in Actors, NEW r \in Rows, Dispatch(a, r)
  PROVE  OneTickPerRow' /\ LeaseInv' /\ RequestInv'
<1> USE DEF DrainInv
<1>1. phase[a][r] # "none"
  BY DEF Dispatch, ReadRow, Answer, Record
<1>2. redelivered[r] \/ (a \in Ticks /\ \A t \in Ticks : t # a => phase[t][r] = "none")
  BY <1>1 DEF OneTickPerRow, RequestInv, Actors
<1>3. \A t \in Actors, q \in Rows : t # a \/ q # r => phase'[t][q] = phase[t][q] /\ seen'[t][q] = seen[t][q]
  BY DEF Dispatch, ReadRow, Answer, Record, TypeOK
<1>4. \A q \in Rows : q # r =>
        next'[q] = next[q] /\ delivered'[q] = delivered[q] /\ attempts'[q] = attempts[q]
  BY DEF Dispatch, ReadRow, Answer, Record, rowVars, TypeOK
<1>5. event' = event /\ redelivered' = redelivered
  BY DEF Dispatch, ReadRow, Answer, Record, rowVars
<1>6. ~redelivered[r] /\ phase'[a][r] # "none" =>
        /\ UNCHANGED <<next, delivered, attempts>>
        /\ phase'[a][r] # "claimed" => seen'[a][r] = attempts[r]
  <2>1. CASE ReadRow(a, r)
    <3>1. CASE endpoint[r[1]] = "disabled" \/ ~opens[r[1]]
      BY <2>1, <3>1 DEF ReadRow, TypeOK
    <3>2. CASE ~(endpoint[r[1]] = "disabled" \/ ~opens[r[1]])
      BY <2>1, <3>2 DEF ReadRow, rowVars, TypeOK
    <3> QED BY <3>1, <3>2
  <2>2. CASE Answer(a, r)
    BY <2>2, <1>1, <1>2 DEF Answer, rowVars, LeaseInv
  <2>3. CASE Record(a, r)
    BY <2>3 DEF Record, TypeOK
  <2> QED BY <2>1, <2>2, <2>3 DEF Dispatch
<1>7. \A t \in Ticks, q \in Rows : ~redelivered'[q] /\ phase'[t][q] # "none" =>
        /\ phase[t][q] # "none"
        /\ event'[q] # None /\ next'[q] = next[q]
        /\ delivered'[q] = delivered[q] /\ attempts'[q] = attempts[q]
        /\ phase'[t][q] # "claimed" => seen'[t][q] = attempts[q]
  BY <1>1, <1>2, <1>3, <1>4, <1>5, <1>6 DEF LeaseInv, Actors
<1>8. OneTickPerRow' /\ LeaseInv'
  BY <1>5, <1>7, NoNewWork
<1>9. RequestInv'
  BY <1>1, <1>3, <1>5, NoNewRequest DEF Actors
<1> QED BY <1>8, <1>9

LEMMA CrashKeeps ==
  ASSUME DrainInv, NEW a \in Actors, Crash(a)
  PROVE  OneTickPerRow' /\ LeaseInv' /\ RequestInv'
<1> USE DEF DrainInv
<1>1. \A t \in Actors, r \in Rows : phase'[t][r] # "none" =>
        t # a /\ phase'[t][r] = phase[t][r] /\ seen'[t][r] = seen[t][r]
  BY DEF Crash, TypeOK
<1>2. UNCHANGED rowVars
  BY DEF Crash
<1>3. OneTickPerRow' /\ LeaseInv'
  BY <1>1, <1>2, NoNewWork DEF LeaseInv, rowVars, Actors
<1>4. RequestInv'
  BY <1>1, <1>2, NoNewRequest DEF rowVars, Actors
<1> QED BY <1>3, <1>4

LEMMA DrainKept ==
  ASSUME DrainInv, [Next]_vars
  PROVE  OneTickPerRow' /\ LeaseInv' /\ RequestInv'
<1> DEFINE Kept == OneTickPerRow' /\ LeaseInv' /\ RequestInv'
<1>0. ASSUME ChangeKey PROVE Kept
  BY <1>0, RowsUntouched DEF DrainInv, ChangeKey
<1>1. ASSUME NEW ep \in Endpoints, Manage(ep) PROVE Kept
  BY <1>1, RowsUntouched DEF DrainInv, Manage, CreateEndpoint, Subscribe, Disable, RotateSecret
<1>2. ASSUME NEW p \in Producers, Fanout(p) PROVE Kept
  BY <1>2, FanoutKeeps
<1>3. ASSUME NEW r \in Rows, LeaseExpires(r) \/ BackoffEnds(r) PROVE Kept
  BY <1>3, TimeKeeps
<1>4. ASSUME NEW t \in Ticks, NEW rows \in SUBSET Rows, Claim(t, rows) PROVE Kept
  BY <1>4, ClaimKeeps
<1>5. ASSUME NEW a \in Redelivers, NEW r \in Rows, Redeliver(a, r) PROVE Kept
  BY <1>5, RedeliverKeeps
<1>6. ASSUME NEW a \in Actors, NEW r \in Rows, Dispatch(a, r) PROVE Kept
  BY <1>6, DispatchKeeps
<1>7. ASSUME NEW a \in Actors, Crash(a) PROVE Kept
  BY <1>7, CrashKeeps
<1>8. ASSUME UNCHANGED vars PROVE Kept
  BY <1>8, RowsUntouched DEF DrainInv, vars
<1> HIDE DEF Kept
<1>9. Kept
  BY <1>0, <1>1, <1>2, <1>3, <1>4, <1>5, <1>6, <1>7, <1>8 DEF Next
<1> QED BY <1>9 DEF Kept

\* A row in the hands of a tick that no owner has asked for again is leased to
\* that tick only, undelivered, under the cap, and unchanged since the tick
\* read it.
THEOREM DrainSafety == Spec => []DrainInv
<1>1. Init => DrainInv
  BY TypeInit, DrainInit DEF DrainInv
<1>2. DrainInv /\ [Next]_vars => DrainInv'
  BY TypeKept, DrainKept DEF DrainInv
<1> QED BY <1>1, <1>2, PTL DEF Spec

\* Overlapping ticks never hold the same row, unless its owner asks for it.
THEOREM TicksExclude == Spec => []OneTickPerRow
<1>1. DrainInv => OneTickPerRow
  BY DEF DrainInv
<1> QED BY <1>1, DrainSafety, PTL

-----------------------------------------------------------------------------
(* The drain implements RetryQueue. *)

LEMMA SimulationInit == Init => Queue!Init
  BY DEF Init, Queue!Init

\* The terminal UPDATE of a tick is one counted attempt.
LEMMA RecordIsAttempt ==
  ASSUME DrainInv, NEW a \in Actors, NEW r \in Rows, Record(a, r), ~redelivered[r]
  PROVE  Queue!Attempt(r)
<1> USE DEF DrainInv
<1>1. phase[a][r] # "none"
  BY DEF Record
<1>2. a \in Ticks
  BY <1>1 DEF RequestInv, Actors
<1>3. /\ event[r] # None /\ ~delivered[r] /\ attempts[r] < MaxAttempts
      /\ seen[a][r] = attempts[r]
  BY <1>2 DEF Record, LeaseInv
<1>4. attempts' = [attempts EXCEPT ![r] = @ + 1]
  BY <1>3 DEF Record, TypeOK
<1>5. \E ok \in BOOLEAN : delivered' = [delivered EXCEPT ![r] = ok]
  <2>1. CASE phase[a][r] = "ok"
    BY <2>1 DEF Record
  <2>2. CASE phase[a][r] # "ok"
    <3>1. delivered' = delivered
      BY <2>2 DEF Record
    <3>2. delivered = [delivered EXCEPT ![r] = FALSE]
      BY <1>3 DEF TypeOK
    <3> QED BY <3>1, <3>2
  <2> QED BY <2>1, <2>2
<1>6. event' = event /\ redelivered' = redelivered
  BY DEF Record
<1> QED BY <1>3, <1>4, <1>5, <1>6 DEF Queue!Attempt

\* On a row asked for again it forgets no success.
LEMMA RecordIsAgain ==
  ASSUME DrainInv, NEW a \in Actors, NEW r \in Rows, Record(a, r), redelivered[r]
  PROVE  Queue!AttemptAgain(r)
<1> USE DEF DrainInv
<1>1. seen[a][r] + 1 \in Nat
  BY DEF TypeOK
<1>2. attempts' = [attempts EXCEPT ![r] = attempts'[r]] /\ attempts'[r] \in Nat
  BY <1>1 DEF Record, TypeOK
<1>3. \E ok \in BOOLEAN : delivered' = [delivered EXCEPT ![r] = delivered[r] \/ ok]
  <2>1. CASE phase[a][r] = "ok"
    <3>1. delivered' = [delivered EXCEPT ![r] = TRUE]
      BY <2>1 DEF Record
    <3>2. delivered' = [delivered EXCEPT ![r] = delivered[r] \/ TRUE]
      BY <3>1
    <3> QED BY <3>2
  <2>2. CASE phase[a][r] # "ok"
    <3>1. delivered' = delivered
      BY <2>2 DEF Record
    <3>2. delivered = [delivered EXCEPT ![r] = delivered[r] \/ FALSE]
      BY DEF TypeOK
    <3> QED BY <3>1, <3>2
  <2> QED BY <2>1, <2>2
<1>4. event' = event /\ redelivered' = redelivered
  BY DEF Record
<1> QED BY <1>2, <1>3, <1>4 DEF Queue!AttemptAgain

LEMMA RedeliverIsAsk ==
  ASSUME NEW a \in Redelivers, NEW r \in Rows, Redeliver(a, r)
  PROVE  Queue!Ask(r)
  BY DEF Redeliver, Queue!Ask

LEMMA InsertIsEnqueue ==
  ASSUME NEW p \in Producers, InsertDeliveries(p), None \notin Events, TypeOK
  PROVE  Queue!Enqueue
<1> DEFINE s == {r \in Rows : event[r] = None /\ r[1] \in targets[p] /\ r[2] = IdOf[fanout[p]]}
<1>1. fanout[p] # None
  BY DEF InsertDeliveries
<1>2. \A r \in Rows : (event'[r] # None) = ((event[r] # None) \/ r \in s)
  BY <1>1 DEF InsertDeliveries
<1>3. [r \in Rows |-> event'[r] # None] = [r \in Rows |-> (event[r] # None) \/ r \in s]
  BY <1>2
<1>4. s \in SUBSET Rows
  OBVIOUS
<1> HIDE DEF s
<1>5. [r \in Rows |-> event[r] # None]' =
        [r \in Rows |-> [q \in Rows |-> event[q] # None][r] \/ r \in s]
  BY <1>3
<1> QED BY <1>4, <1>5 DEF InsertDeliveries, Queue!Enqueue

LEMMA SimulationStep ==
  ASSUME DrainInv, [Next]_vars
  PROVE  [Queue!Next]_<<[r \in Rows |-> event[r] # None], redelivered, attempts, delivered>>
<1> DEFINE Kept == UNCHANGED <<event, redelivered, attempts, delivered>>
<1>1. ASSUME NEW p \in Producers, InsertDeliveries(p) PROVE Queue!Next
  BY <1>1, InsertIsEnqueue, WebhooksAssumption DEF Queue!Next, DrainInv
<1>2. ASSUME NEW a \in Actors, NEW r \in Rows, Record(a, r) PROVE Queue!Next
  BY <1>2, RecordIsAttempt, RecordIsAgain DEF Queue!Next
<1>3. ASSUME NEW a \in Redelivers, NEW r \in Rows, Redeliver(a, r) PROVE Queue!Next
  BY <1>3, RedeliverIsAsk DEF Queue!Next
<1>0. ASSUME ChangeKey PROVE Kept
  BY <1>0 DEF ChangeKey, rowVars
<1>4. ASSUME NEW ep \in Endpoints, Manage(ep) PROVE Kept
  BY <1>4 DEF Manage, CreateEndpoint, Subscribe, Disable, RotateSecret, rowVars
<1>5. ASSUME NEW p \in Producers, LoseFanout(p) \/ \E e \in Events : ReadSubscribers(p, e) PROVE Kept
  BY <1>5 DEF LoseFanout, ReadSubscribers, rowVars
<1>6. ASSUME NEW r \in Rows, LeaseExpires(r) \/ BackoffEnds(r) PROVE Kept
  BY <1>6 DEF LeaseExpires, BackoffEnds
<1>7. ASSUME NEW t \in Ticks, NEW rows \in SUBSET Rows, Claim(t, rows) PROVE Kept
  BY <1>7 DEF Claim
<1>8. ASSUME NEW a \in Actors, Crash(a) \/ \E r \in Rows : ReadRow(a, r) \/ Answer(a, r) PROVE Kept
  BY <1>8 DEF Crash, ReadRow, Answer, rowVars
<1>9. ASSUME UNCHANGED vars PROVE Kept
  BY <1>9 DEF vars, rowVars
<1>10. Queue!Next \/ Kept
  <2> HIDE DEF Kept
  <2> QED BY <1>0, <1>1, <1>2, <1>3, <1>4, <1>5, <1>6, <1>7, <1>8, <1>9 DEF Next, Fanout, Dispatch
<1> QED BY <1>10

\* Overlapping ticks, crashes and redeliveries included, every row goes through
\* the attempts of RetryQueue: each counted, at most MaxAttempts and none after
\* a success until its owner asks for it again, and no success forgotten.
THEOREM Refinement == Spec => ImplementsRetryQueue
BY SimulationInit, SimulationStep, DrainSafety, PTL DEF Spec, ImplementsRetryQueue, Queue!Spec
=============================================================================
