-------------------------------- MODULE Hopin --------------------------------
(***************************************************************************)
(* The ride flow as one process runs it: Matching settles the rides, its   *)
(* code after markNoDriver and the outbox relay tell the rooms, drivers'   *)
(* positions are forwarded to the ride they are assigned to, and Realtime's*)
(* sockets and clients are at the other end.  Realtime is instantiated on  *)
(* the same tables: what Matching does is for it somebody's transactions,  *)
(* and the rides it is telling are Matching's calls that will announce.    *)
(***************************************************************************)
EXTENDS Matching

CONSTANTS Socket, RealtimeFaults

VARIABLES
    user, watch, rooms, inbox, known, published,    \* see Realtime
    located,     \* position reports answered with a ride, not yet forwarded
    screens      \* screens[s]: the drivers' positions the client was shown

\* Realtime's "telling".
announcing == {c.ride : c \in {x \in calls : x.op = "announce"}}

Live == INSTANCE Realtime WITH Faults <- RealtimeFaults, telling <- announcing

sockets   == <<user, watch, rooms, inbox, known, published>>
positions == <<located, screens>>
matching  == <<ledgerVars, memory, redis, sent>>
hopinVars == <<matching, sockets, positions>>

Position == [tenant : Tenant, ride : Ride, driver : DriverId]

HopinTypeOK ==
    /\ TypeOK
    /\ Live!RealtimeTypeOK
    /\ located \subseteq Position
    /\ screens \in [Socket -> SUBSET Position]

HopinInit ==
    /\ Init
    /\ Live!Init
    /\ located = {}
    /\ screens = [s \in Socket |-> {}]
-----------------------------------------------------------------------------
Resumes(c) ==
    /\ c.op # "announce" /\ Continue(c)
    /\ UNCHANGED <<sockets, positions>>

Expires(timer) == TimerFires(timer) /\ UNCHANGED <<sockets, positions>>

\* The rest of Matching, and its faults but two: a restart of the process is
\* below, and so is a COMMIT whose connection dies, which takes the process with
\* it (Resumes, then Restart).  A COMMIT that loses its answer in a process that
\* goes on ("commit", see MCMatching's runs) would leave a NO_DRIVER untold.
Elsewhere ==
    /\ \/ \E t \in Tenant, p \in Passenger, r \in Ride : Request(t, p, r)
       \/ \E t \in Tenant, d \in DriverId, r \in Ride : Accept(t, d, r)
       \/ \E c \in calls : CallRejects(c)
       \/ RedisRestarts
    /\ UNCHANGED <<sockets, positions>>

\* bus.toRide(..., NO_DRIVER)
Announce(c) ==
    /\ AnnounceNoDriver(c)
    /\ Live!toRide(c.tenant, c.ride,
                   [ride |-> c.ride, state |-> "NO_DRIVER", driver |-> Nil])
    /\ UNCHANGED <<user, watch, rooms, known, published, positions>>

\* "location" up to the answer of recordLocation.
OnLocation(t, d) ==
    /\ recordLocation(t, d)
    /\ located' = located \cup
           {p \in Position : p.tenant = t /\ p.driver = d
                             /\ p.ride = PositionRoom(t, d)}
    /\ UNCHANGED <<sockets, screens>>

\* The code after it: bus.toRide(..., 'driver.position').
Forward(p) ==
    /\ located' = located \ {p}
    /\ screens' = [s \in Socket |->
           IF Live!rideRoom(p.tenant, p.ride) \in rooms[s]
           THEN screens[s] \cup {p} ELSE screens[s]]
    /\ UNCHANGED <<matching, sockets>>

\* The gateway, the relay and the clients.
Served(s) ==
    /\ UNCHANGED <<matching, positions>>
    /\ Live!Gateway(s) \/ Live!Client(s)

Relayed(i) == UNCHANGED <<matching, positions>> /\ Live!Relay(i)

Arrives(s) ==
    /\ UNCHANGED <<matching, positions>>
    /\ \/ \E who \in Live!Identity : Live!Connect(s, who)
       \/ \E r \in Ride : Live!OnWatch(s, r)

Leaves(s) ==
    /\ UNCHANGED <<matching, located>>
    /\ Live!Disconnect(s)
    /\ screens' = [screens EXCEPT ![s] = {}]

\* The process takes its sockets and its handlers with it.
Restart ==
    /\ ProcessRestarts
    /\ Live!ProcessRestarts
    /\ located' = {} /\ screens' = [s \in Socket |-> {}]

HopinNext ==
    \/ \E c \in calls : Resumes(c) \/ Announce(c)
    \/ \E timer \in timers : Expires(timer)
    \/ Elsewhere \/ Restart
    \/ \E t \in Tenant, d \in DriverId : OnLocation(t, d)
    \/ \E p \in located : Forward(p)
    \/ \E i \in DOMAIN outbox : Relayed(i)
    \/ \E s \in Socket : Served(s) \/ Arrives(s) \/ Leaves(s)

HopinSpec == HopinInit /\ [][HopinNext]_hopinVars
-----------------------------------------------------------------------------
\* driver.gateway.ts:48-55: a passenger is shown positions only of the driver
\* who is matched to a ride of theirs, in their tenant, although the report,
\* the match, the key in Redis and the join of the room are four steps of three
\* parties, and a driver may have been assigned another ride since.
PositionsGoToTheirPassenger ==
    \A s \in Socket : \A p \in screens[s] :
        /\ rides[p.ride].driver = p.driver
        /\ rides[p.ride].tenant = user[s].tenant
        /\ p.tenant = user[s].tenant
        /\ rides[p.ride].passenger = user[s].passenger

\* Matching, the relay and the announcement after markNoDriver are what
\* Realtime takes them to be, whatever fails and also when the process restarts:
\* what it shows of rooms and clients holds of the whole, as long as no COMMIT
\* loses its answer.
ImplementsRealtime == Live!Spec
=============================================================================
