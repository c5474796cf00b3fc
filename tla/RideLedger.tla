----------------------------- MODULE RideLedger -----------------------------
(***************************************************************************)
(* RidesService over PostgreSQL, at the grain its callers see: one atomic  *)
(* step per committed transaction.  The tables are rides, ride_events and  *)
(* outbox; row-level security hides a ride from every tenant but its own.  *)
(* Each operation is what one withTenant(...) call does when it commits;   *)
(* that the statements inside behave as one step is RideStore's subject.   *)
(***************************************************************************)
EXTENDS Naturals, Sequences, RideStates

CONSTANTS
    Tenant,      \* tenant ids
    Passenger,   \* passenger ids, meaningful within a tenant
    DriverId,    \* driver ids: two tenants may use the same one
    Ride,        \* the random UUIDs rides are given
    Nil          \* SQL NULL, a missing key

ASSUME NilIsNoId == Nil \notin Tenant \cup Passenger \cup DriverId \cup Ride

VARIABLES
    rides,       \* rides[r]: the row with id r
    rideEvents,  \* rideEvents[r]: ride_events WHERE ride_id = r ORDER BY id
    outbox       \* the outbox in the order of commits; all are ride.matched

ledgerVars == <<rides, rideEvents, outbox>>

Row == [tenant : Tenant, passenger : Passenger,
        driver : DriverId \cup {Nil}, state : RideState]

\* No row with this id has been inserted.
NoRow == [tenant |-> Nil, passenger |-> Nil, driver |-> Nil, state |-> "ABSENT"]

Event == [type  : {"requested", "matched", "no_driver"},
          actor : Passenger \cup DriverId \cup {"system"}]

OutboxEntry == [tenant : Tenant, ride : Ride, driver : DriverId]

LedgerTypeOK ==
    /\ rides \in [Ride -> Row \cup {NoRow}]
    /\ rideEvents \in [Ride -> Seq(Event)]
    /\ outbox \in Seq(OutboxEntry)

LedgerInit ==
    /\ rides = [r \in Ride |-> NoRow]
    /\ rideEvents = [r \in Ride |-> <<>>]
    /\ outbox = <<>>
-----------------------------------------------------------------------------
\* USING (tenant_id = current_setting('app.tenant_id', true)): the rows a
\* transaction scoped to tenant t can read or update.
Visible(t, r) == rides[r].tenant = t

\* Mutant: the WHERE clause does not ask for the state.
Updatable_AnyState(t, r) == Visible(t, r)

\* What the WHERE clause of both UPDATEs matches: rowCount = 1.
Updatable(t, r) ==
    /\ Visible(t, r)
    /\ rides[r].state = "REQUESTED"

appendEvent(r, type, actor) ==
    rideEvents' = [rideEvents EXCEPT ![r] =
                       Append(@, [type |-> type, actor |-> actor])]

\* randomUUID never returns an id in use.
requestRide(t, p, r) ==
    /\ rides[r] = NoRow
    /\ rides' = [rides EXCEPT ![r] = [tenant |-> t, passenger |-> p,
                                      driver |-> Nil, state |-> "REQUESTED"]]
    /\ appendEvent(r, "requested", p)
    /\ UNCHANGED outbox

\* REQUESTED -> MATCHED; resolves to true iff Updatable(t, r), and otherwise
\* commits a transaction that changed nothing.
acceptRide(t, r, d) ==
    IF Updatable(t, r)
    THEN /\ rides' = [rides EXCEPT ![r].state = "MATCHED", ![r].driver = d]
         /\ appendEvent(r, "matched", d)
         /\ outbox' = Append(outbox, [tenant |-> t, ride |-> r, driver |-> d])
    ELSE UNCHANGED ledgerVars

markNoDriver(t, r) ==
    IF Updatable(t, r)
    THEN /\ rides' = [rides EXCEPT ![r].state = "NO_DRIVER"]
         /\ appendEvent(r, "no_driver", "system")
         /\ UNCHANGED outbox
    ELSE UNCHANGED ledgerVars

\* Ride | null; a row the tenant cannot see is no row.
getRide(t, r) == IF Visible(t, r) THEN rides[r] ELSE NoRow

LedgerNext ==
    \E t \in Tenant, r \in Ride :
        \/ \E p \in Passenger : requestRide(t, p, r)
        \/ \E d \in DriverId : acceptRide(t, r, d)
        \/ markNoDriver(t, r)

LedgerSpec == LedgerInit /\ [][LedgerNext]_ledgerVars
-----------------------------------------------------------------------------
Settled(r) == rides[r].state \in {"MATCHED", "NO_DRIVER"}

\* The events a ride in its present state must have, in order.
Story(r) ==
    CASE rides[r].state = "REQUESTED" ->
            <<[type |-> "requested", actor |-> rides[r].passenger]>>
      [] rides[r].state = "MATCHED" ->
            <<[type |-> "requested", actor |-> rides[r].passenger],
              [type |-> "matched", actor |-> rides[r].driver]>>
      [] rides[r].state = "NO_DRIVER" ->
            <<[type |-> "requested", actor |-> rides[r].passenger],
              [type |-> "no_driver", actor |-> "system"]>>
      [] OTHER -> <<>>

\* Every state change and its ride event commit together
\* (rides.service.ts:37): the events of a ride always tell exactly how it came
\* to its present state, whatever failed in between.
EventsTellTheRide == \A r \in Ride : rideEvents[r] = Story(r)

\* The ride.matched entry commits with the match (rides.service.ts:55-59): a
\* ride has one outbox entry, naming its driver, if it is MATCHED, and none if
\* it is not: a second accept, or one that loses, announces nothing.
OneEntryPerMatch ==
    \A r \in Ride :
        LET entries == {i \in DOMAIN outbox : outbox[i].ride = r}
        IN IF rides[r].state = "MATCHED"
           THEN \E i \in entries :
                   /\ entries = {i}
                   /\ outbox[i] = [tenant |-> rides[r].tenant, ride |-> r,
                                   driver |-> rides[r].driver]
           ELSE entries = {}

\* No transaction leaves the state machine of domain/ride-state.ts, although
\* none consults it; a driver is set only by the match, and the tenant and the
\* passenger of a ride never change.
LegalTransitions ==
    [][\A r \in Ride :
          rides'[r] # rides[r] =>
              \/ rides[r] = NoRow /\ rides'[r].state = "REQUESTED"
              \/ /\ rides[r] # NoRow
                 /\ canTransition(rides[r].state, rides'[r].state)
                 /\ rides'[r].tenant = rides[r].tenant
                 /\ rides'[r].passenger = rides[r].passenger
                 /\ \/ rides'[r].driver = rides[r].driver
                    \/ rides'[r].state = "MATCHED"]_ledgerVars
=============================================================================
