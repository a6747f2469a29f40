------------------------------ MODULE Webhooks ------------------------------
(***************************************************************************)
(* The webhook outbox of one organisation (lib/server/webhooks.ts): an     *)
(* event is fanned out to one delivery row per subscribed endpoint, the    *)
(* drain cron claims due rows under a lease and posts them, and an owner   *)
(* may force a redelivery.                                                 *)
(*                                                                         *)
(* Time is abstract: a row is due, leased to a drain tick, or waiting for  *)
(* its backoff, and time passing is what makes a leased or waiting row     *)
(* due again.                                                              *)
(***************************************************************************)
EXTENDS Integers, FiniteSets

CONSTANTS
  Endpoints,
  Events,           \* calls of enqueueWebhookDeliveries by the producers
  EventTypes, EventIds,
  TypeOf, IdOf,     \* an event's type, and the id its producer gives it
  None,             \* no event
  Producers,        \* concurrent fan-outs
  Ticks,            \* drain ticks that may overlap
  Crons,            \* those that are not killed at the same point for ever
  Redelivers,       \* concurrent redeliver requests
  Limit,            \* rows a tick claims at most
  MaxAttempts,      \* MAX_ATTEMPTS
  MaxRecorded       \* bound: attempts counted when no more redelivery is asked

Rows == Endpoints \X EventIds
Actors == Ticks \cup Redelivers

ASSUME WebhooksAssumption ==
  /\ TypeOf \in [Events -> EventTypes] /\ IdOf \in [Events -> EventIds]
  /\ None \notin Events
  /\ Crons \subseteq Ticks /\ Ticks \cap Redelivers = {}
  /\ Limit \in Nat \ {0} /\ MaxAttempts \in Nat \ {0}
  /\ MaxRecorded \in Nat

VARIABLES
  \* tables webhook_endpoint and webhook_subscription
  endpoint,         \* "absent", "active" or "disabled"
  subscribed,       \* subscribed[ep]: its event types
  opens,            \* the sealed secret of ep opens with the present key
  \* table webhook_delivery, one row per (endpoint_id, event_id)
  event,            \* the event whose payload the row carries, or None
  attempts, delivered,
  next,             \* next_attempt_at: "due", "leased" or "waiting"
  redelivered,      \* history: an owner has asked for the row again
  \* a fan-out
  fanout, targets,
  \* the dispatch of a row by a tick or a redeliver request
  phase, seen

endpointVars == <<endpoint, subscribed, opens>>
rowVars == <<event, attempts, delivered, next, redelivered>>
fanoutVars == <<fanout, targets>>
dispatchVars == <<phase, seen>>
vars == <<endpointVars, rowVars, fanoutVars, dispatchVars>>

TypeOK ==
  /\ endpoint \in [Endpoints -> {"absent", "active", "disabled"}]
  /\ subscribed \in [Endpoints -> SUBSET EventTypes]
  /\ opens \in [Endpoints -> BOOLEAN]
  /\ event \in [Rows -> Events \cup {None}]
  /\ attempts \in [Rows -> Nat]
  /\ delivered \in [Rows -> BOOLEAN]
  /\ next \in [Rows -> {"due", "leased", "waiting"}]
  /\ redelivered \in [Rows -> BOOLEAN]
  /\ fanout \in [Producers -> Events \cup {None}]
  /\ targets \in [Producers -> SUBSET Endpoints]
  /\ phase \in [Actors -> [Rows -> {"none", "claimed", "posting", "ok", "failed"}]]
  /\ seen \in [Actors -> [Rows -> Nat]]

Init ==
  /\ endpoint = [ep \in Endpoints |-> "absent"]
  /\ subscribed = [ep \in Endpoints |-> {}]
  /\ opens = [ep \in Endpoints |-> FALSE]
  /\ event = [r \in Rows |-> None]
  /\ attempts = [r \in Rows |-> 0]
  /\ delivered = [r \in Rows |-> FALSE]
  /\ next = [r \in Rows |-> "due"]
  /\ redelivered = [r \in Rows |-> FALSE]
  /\ fanout = [p \in Producers |-> None]
  /\ targets = [p \in Producers |-> {}]
  /\ phase = [a \in Actors |-> [r \in Rows |-> "none"]]
  /\ seen = [a \in Actors |-> [r \in Rows |-> 0]]

-----------------------------------------------------------------------------
(* The management routes. *)

\* POST inserts the endpoint and its subscriptions in two statements; PATCH
\* replaces the subscriptions in one transaction.
CreateEndpoint(ep) ==
  /\ endpoint[ep] = "absent"
  /\ endpoint' = [endpoint EXCEPT ![ep] = "active"]
  /\ opens' = [opens EXCEPT ![ep] = TRUE]
  /\ UNCHANGED <<subscribed, rowVars, fanoutVars, dispatchVars>>

Subscribe(ep) ==
  /\ endpoint[ep] # "absent"
  /\ \E types \in SUBSET EventTypes : subscribed' = [subscribed EXCEPT ![ep] = types]
  /\ UNCHANGED <<endpoint, opens, rowVars, fanoutVars, dispatchVars>>

\* DELETE is soft, and nothing enables an endpoint again.
Disable(ep) ==
  /\ endpoint[ep] # "absent"
  /\ endpoint' = [endpoint EXCEPT ![ep] = "disabled"]
  /\ UNCHANGED <<subscribed, opens, rowVars, fanoutVars, dispatchVars>>

\* A new secret, sealed with the present key.
RotateSecret(ep) ==
  /\ endpoint[ep] # "absent"
  /\ opens' = [opens EXCEPT ![ep] = TRUE]
  /\ UNCHANGED <<endpoint, subscribed, rowVars, fanoutVars, dispatchVars>>

\* The deployment's BYOK_ENCRYPTION_KEY is replaced, lost or put back.
ChangeKey ==
  /\ \E known \in SUBSET Endpoints : opens' = [ep \in Endpoints |-> ep \in known]
  /\ UNCHANGED <<endpoint, subscribed, rowVars, fanoutVars, dispatchVars>>

-----------------------------------------------------------------------------
(* The fan-out of an event: one read, then one insert. *)

Subscribers(e) == {ep \in Endpoints : endpoint[ep] = "active" /\ TypeOf[e] \in subscribed[ep]}

ReadSubscribers(p, e) ==
  /\ fanout[p] = None
  /\ Subscribers(e) # {}
  /\ fanout' = [fanout EXCEPT ![p] = e]
  /\ targets' = [targets EXCEPT ![p] = Subscribers(e)]
  /\ UNCHANGED <<endpointVars, rowVars, dispatchVars>>

EndFanout(p) ==
  /\ fanout' = [fanout EXCEPT ![p] = None]
  /\ targets' = [targets EXCEPT ![p] = {}]

\* Rows that exist are left alone: ON CONFLICT (endpoint_id, event_id) DO NOTHING.
InsertDeliveries(p) ==
  /\ fanout[p] # None
  /\ event' = [r \in Rows |->
       IF event[r] = None /\ r[1] \in targets[p] /\ r[2] = IdOf[fanout[p]]
         THEN fanout[p] ELSE event[r]]
  /\ EndFanout(p)
  /\ UNCHANGED <<endpointVars, attempts, delivered, next, redelivered, dispatchVars>>

\* The insert fails, or the function ends first: the error is swallowed.
LoseFanout(p) ==
  /\ fanout[p] # None
  /\ EndFanout(p)
  /\ UNCHANGED <<endpointVars, rowVars, dispatchVars>>

-----------------------------------------------------------------------------
(* Time. *)

\* A dispatch ends within the POST timeout of 15 s, so it is over, or its
\* function has died, when a lease of 30 s or a backoff of 5 min runs out.
Quiet(r) == \A a \in Actors : phase[a][r] = "none"

LeaseExpires(r) ==
  /\ next[r] = "leased" /\ Quiet(r)
  /\ next' = [next EXCEPT ![r] = "due"]
  /\ UNCHANGED <<endpointVars, event, attempts, delivered, redelivered, fanoutVars, dispatchVars>>

BackoffEnds(r) ==
  /\ next[r] = "waiting" /\ Quiet(r)
  /\ next' = [next EXCEPT ![r] = "due"]
  /\ UNCHANGED <<endpointVars, event, attempts, delivered, redelivered, fanoutVars, dispatchVars>>

-----------------------------------------------------------------------------
(* The drain, and the dispatch of a row. *)

Idle(a) == \A r \in Rows : phase[a][r] = "none"

Due == {r \in Rows : /\ event[r] # None
                     /\ ~delivered[r] /\ next[r] = "due"
                     /\ attempts[r] < MaxAttempts}

\* Mutant: the tick selects the rows and takes no lease.
MutClaim(t, rows) ==
  /\ Idle(t)
  /\ rows # {} /\ rows \subseteq Due
  /\ Cardinality(rows) <= Limit /\ (rows = Due \/ Cardinality(rows) = Limit)
  /\ phase' = [phase EXCEPT ![t] = [r \in Rows |-> IF r \in rows THEN "claimed" ELSE "none"]]
  /\ UNCHANGED <<endpointVars, rowVars, fanoutVars, seen>>

\* One transaction claims up to Limit due rows, FOR UPDATE SKIP LOCKED.
Claim(t, rows) ==
  /\ Idle(t)
  /\ rows # {} /\ rows \subseteq Due
  /\ Cardinality(rows) <= Limit /\ (rows = Due \/ Cardinality(rows) = Limit)
  /\ next' = [r \in Rows |-> IF r \in rows THEN "leased" ELSE next[r]]
  /\ phase' = [phase EXCEPT ![t] = [r \in Rows |-> IF r \in rows THEN "claimed" ELSE "none"]]
  /\ UNCHANGED <<endpointVars, event, attempts, delivered, redelivered, fanoutVars, seen>>

\* The request resets next_attempt_at, then dispatches the row itself; the
\* row may be delivered, past the cap, or in the hands of a tick.
Redeliver(a, r) ==
  /\ Idle(a)
  /\ event[r] # None
  /\ attempts[r] < MaxRecorded
  /\ next' = [next EXCEPT ![r] = "due"]
  /\ redelivered' = [redelivered EXCEPT ![r] = TRUE]
  /\ phase' = [phase EXCEPT ![a][r] = "claimed"]
  /\ UNCHANGED <<endpointVars, event, attempts, delivered, fanoutVars, seen>>

\* dispatchDelivery reads the row and its endpoint.  A disabled endpoint ends it;
\* a secret that does not open makes it throw before the POST.  Either leaves
\* the row as it is, with its lease and without a count.
ReadRow(a, r) ==
  /\ phase[a][r] = "claimed"
  /\ IF endpoint[r[1]] = "disabled" \/ ~opens[r[1]]
       THEN phase' = [phase EXCEPT ![a][r] = "none"] /\ UNCHANGED seen
       ELSE /\ phase' = [phase EXCEPT ![a][r] = "posting"]
            /\ seen' = [seen EXCEPT ![a][r] = attempts[r]]
  /\ UNCHANGED <<endpointVars, rowVars, fanoutVars>>

\* The endpoint answers 2xx, or anything else, or not in time.
Answer(a, r) ==
  /\ phase[a][r] = "posting"
  /\ \E result \in {"ok", "failed"} : phase' = [phase EXCEPT ![a][r] = result]
  /\ UNCHANGED <<endpointVars, rowVars, fanoutVars, seen>>

\* The terminal UPDATE, from the attempts read before the POST.
\* Mutant: a failed POST is not counted.
MutRecord(a, r) ==
  /\ phase[a][r] \in {"ok", "failed"}
  /\ IF phase[a][r] = "ok"
       THEN /\ attempts' = [attempts EXCEPT ![r] = seen[a][r] + 1]
            /\ delivered' = [delivered EXCEPT ![r] = TRUE]
            /\ next' = [next EXCEPT ![r] = "due"]
       ELSE /\ next' = [next EXCEPT ![r] = "waiting"]
            /\ UNCHANGED <<attempts, delivered>>
  /\ phase' = [phase EXCEPT ![a][r] = "none"]
  /\ seen' = [seen EXCEPT ![a][r] = 0]
  /\ UNCHANGED <<endpointVars, event, redelivered, fanoutVars>>

Record(a, r) ==
  /\ phase[a][r] \in {"ok", "failed"}
  /\ attempts' = [attempts EXCEPT ![r] = seen[a][r] + 1]
  /\ IF phase[a][r] = "ok"
       THEN /\ delivered' = [delivered EXCEPT ![r] = TRUE]
            /\ next' = [next EXCEPT ![r] = "due"]
       ELSE /\ next' = [next EXCEPT ![r] = "waiting"]
            /\ UNCHANGED delivered
  /\ phase' = [phase EXCEPT ![a][r] = "none"]
  /\ seen' = [seen EXCEPT ![a][r] = 0]
  /\ UNCHANGED <<endpointVars, event, redelivered, fanoutVars>>

\* The function that runs the tick or the request is killed.
Crash(a) ==
  /\ ~Idle(a)
  /\ phase' = [phase EXCEPT ![a] = [r \in Rows |-> "none"]]
  /\ seen' = [seen EXCEPT ![a] = [r \in Rows |-> 0]]
  /\ UNCHANGED <<endpointVars, rowVars, fanoutVars>>

-----------------------------------------------------------------------------
Manage(ep) == CreateEndpoint(ep) \/ Subscribe(ep) \/ Disable(ep) \/ RotateSecret(ep)

Fanout(p) == (\E e \in Events : ReadSubscribers(p, e)) \/ InsertDeliveries(p) \/ LoseFanout(p)

Dispatch(a, r) == ReadRow(a, r) \/ Answer(a, r) \/ Record(a, r)

Next ==
  \/ ChangeKey \/ \E ep \in Endpoints : Manage(ep)
  \/ \E p \in Producers : Fanout(p)
  \/ \E r \in Rows : LeaseExpires(r) \/ BackoffEnds(r)
  \/ \E t \in Ticks : \E rows \in SUBSET Rows : Claim(t, rows)
  \/ \E a \in Redelivers, r \in Rows : Redeliver(a, r)
  \/ \E a \in Actors : Crash(a) \/ \E r \in Rows : Dispatch(a, r)

Spec == Init /\ [][Next]_vars

\* The cron fires every minute and time passes.  A tick that overlaps the
\* cron's, and a redeliver request, may stop at any point, but the runtime
\* ends it; a crash does not hit the same step of every tick of the cron.
FairSpec ==
  /\ Spec
  /\ \A r \in Rows : WF_vars(LeaseExpires(r)) /\ WF_vars(BackoffEnds(r))
  /\ \A a \in Actors \ Crons : WF_vars(Crash(a))
  /\ \A t \in Crons : SF_vars(\E rows \in SUBSET Rows : Claim(t, rows))
  /\ \A t \in Crons, r \in Rows :
       SF_vars(ReadRow(t, r)) /\ SF_vars(Answer(t, r)) /\ SF_vars(Record(t, r))

-----------------------------------------------------------------------------
(* What the outbox promises. *)

\* Two overlapping ticks never work on the same row, while no owner asks for
\* it again: the redeliver route makes even a leased row due.
OneTickPerRow ==
  \A s, t \in Ticks, r \in Rows :
    s # t /\ ~redelivered[r] /\ phase[s][r] # "none" => phase[t][r] = "none"

\* Such a row, in the hands of a tick, is leased, not delivered, under the cap,
\* and still has the number of attempts the tick has read: what makes
\* OneTickPerRow inductive and the terminal UPDATE exact.
LeaseInv ==
  \A t \in Ticks, r \in Rows : ~redelivered[r] /\ phase[t][r] # "none" =>
    /\ event[r] # None /\ next[r] = "leased"
    /\ ~delivered[r] /\ attempts[r] < MaxAttempts
    /\ phase[t][r] # "claimed" => seen[t][r] = attempts[r]

\* Only a row that an owner has asked for again is in the hands of a request,
\* and a row that was never fanned out is in nobody's.
RequestInv ==
  \A r \in Rows :
    /\ \A a \in Redelivers : phase[a][r] # "none" => redelivered[r]
    /\ redelivered[r] => event[r] # None

DrainInv == TypeOK /\ OneTickPerRow /\ LeaseInv /\ RequestInv

\* An event fanned out without a failure has a row of its own at every
\* endpoint it was fanned out to.
EveryEventHasItsRow ==
  [][\A p \in Producers : InsertDeliveries(p) =>
       \A ep \in targets[p] : event'[<<ep, IdOf[fanout[p]]>>] = fanout[p]]_vars

\* A row of an endpoint that stays enabled, and whose secret stays readable, is
\* delivered or runs out of attempts, even when ticks are killed at any point of
\* their work.  One whose secret does not open is claimed again and again and
\* never counted.
RowIsSettled ==
  \A r \in Rows :
    (event[r] # None) ~> (\/ delivered[r] \/ attempts[r] >= MaxAttempts
                         \/ endpoint[r[1]] = "disabled" \/ ~opens[r[1]])

-----------------------------------------------------------------------------
Queue == INSTANCE RetryQueue WITH
  Items <- Rows, queued <- [r \in Rows |-> event[r] # None], asked <- redelivered

\* Overlapping and dying ticks are one retry queue: an attempt is a single step
\* that counts and none follows a success, until an owner asks for the row
\* again; and no race of the drain with an owner loses a success.
ImplementsRetryQueue == Queue!Spec
=============================================================================
