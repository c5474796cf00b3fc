------------------------------ MODULE Matching ------------------------------
(***************************************************************************)
(* MatchingService in one API process, with the rides it settles           *)
(* (RideLedger), the Redis keys it reads and writes, the offer timers of   *)
(* the Node.js event loop and the callers that start it: POST /v1/rides,   *)
(* the drivers' "location" and "offer.accept" messages.                    *)
(*                                                                         *)
(* JavaScript runs a function up to its next await without interruption,   *)
(* so an action is the code between two awaits.  A call that is awaited is *)
(* a record in calls: the step that answers it reads or writes PostgreSQL  *)
(* or Redis, and hands the answer on to the code after the await.          *)
(*                                                                         *)
(* Positions are abstracted: GEOSEARCH returns some of the drivers stored, *)
(* and ranking by ETA puts them in some order.                             *)
(***************************************************************************)
EXTENDS RideLedger, FiniteSets, Functions

CONSTANTS
    MAX_CANDIDATES,   \* COUNT of the geo search
    MAX_OFFERS,       \* drivers asked for one ride, at most
    Faults            \* what may go wrong, a subset of FaultKind

FaultKind ==
    {"database",     \* a transaction fails and is rolled back
     "commit",       \* a transaction commits, but its answer is lost
     "redis",        \* a Redis command fails
     "redisLoss",    \* Redis restarts without its data
     "crash"}        \* the API process restarts

ASSUME MatchingAssumption ==
    /\ IsFiniteSet(DriverId)
    /\ MAX_CANDIDATES \in Nat
    /\ MAX_OFFERS \in Nat \ {0}
    /\ Faults \subseteq FaultKind

VARIABLES
    pending,     \* pending[r]: this.pending.get(r), the live offer of ride r
    timers,      \* armed offer timers, each with what its callback captured
    calls,       \* awaited calls, each with what its continuation captured
    geo,         \* geo[t]: members of drivers:<t>
    busy,        \* busy[t]: members of busy:<t>
    assign,      \* assign[t][d]: the key assign:<t>:<d>
    offered,     \* offered[r]: drivers sent offer.new for ride r, in order
    announced    \* rides whose room was sent state NO_DRIVER

memory == <<pending, timers, calls>>
redis  == <<geo, busy, assign>>
sent   == <<offered, announced>>
vars   == <<ledgerVars, memory, redis, sent>>
-----------------------------------------------------------------------------
Timer == [ride : Ride, tenant : Tenant, rest : Seq(DriverId)]

PendingOffer == [tenant : Tenant, driver : DriverId, timer : Timer]

NoOffer == [tenant |-> Nil, driver |-> Nil, timer |-> Nil]

DatabaseOp == {"accept", "markNoDriver"}
RedisOp    == {"geosearch", "smismember", "multi"}
LocalOp    == {"rank", "announce"}     \* answered, continuation not yet run

Call ==
    {c \in [op : DatabaseOp \cup RedisOp \cup LocalOp, ride : Ride,
            tenant : Tenant, driver : DriverId \cup {Nil},
            drivers : SUBSET DriverId] :
        c.driver # Nil <=> c.op \in {"accept", "multi"}}

TypeOK ==
    /\ LedgerTypeOK
    /\ pending \in [Ride -> PendingOffer \cup {NoOffer}]
    /\ timers \subseteq Timer
    /\ calls \subseteq Call
    /\ geo \in [Tenant -> SUBSET DriverId]
    /\ busy \in [Tenant -> SUBSET DriverId]
    /\ assign \in [Tenant -> [DriverId -> Ride \cup {Nil}]]
    /\ offered \in [Ride -> Seq(DriverId)]
    /\ announced \subseteq Ride

EmptyKeys ==
    [geo |-> [t \in Tenant |-> {}], busy |-> [t \in Tenant |-> {}],
     assign |-> [t \in Tenant |-> [d \in DriverId |-> Nil]]]

Init ==
    /\ LedgerInit
    /\ pending = [r \in Ride |-> NoOffer]
    /\ timers = {}
    /\ calls = {}
    /\ geo = EmptyKeys.geo /\ busy = EmptyKeys.busy /\ assign = EmptyKeys.assign
    /\ offered = [r \in Ride |-> <<>>]
    /\ announced = {}
-----------------------------------------------------------------------------
(* Calls and their continuations *)

Await(op, r, t) ==
    [op |-> op, ride |-> r, tenant |-> t, driver |-> Nil, drivers |-> {}]

\* Call c is answered; the code after the await makes the calls in next.
Resume(c, next) == calls' = (calls \ {c}) \cup next

\* The next driver in remaining is sent the offer and the timer armed; with
\* nobody left the ride is given up.  The caller has consumed call or timer
\* already: heldCalls, heldTimers and heldPending are what it left.
offerNext(r, t, remaining, heldCalls, heldTimers, heldPending) ==
    IF remaining = <<>>
    THEN /\ calls' = heldCalls \cup {Await("markNoDriver", r, t)}
         /\ timers' = heldTimers
         /\ pending' = heldPending
         /\ UNCHANGED offered
    ELSE LET timer == [ride |-> r, tenant |-> t, rest |-> Tail(remaining)]
         IN /\ calls' = heldCalls
            /\ timers' = heldTimers \cup {timer}
            /\ pending' = [heldPending EXCEPT ![r] =
                   [tenant |-> t, driver |-> Head(remaining), timer |-> timer]]
            /\ offered' = [offered EXCEPT ![r] = Append(@, Head(remaining))]
-----------------------------------------------------------------------------
(* Drivers report positions *)

\* "location": geoadd, and get of the ride the position is forwarded to.
recordLocation(t, d) ==
    /\ geo' = [geo EXCEPT ![t] = @ \cup {d}]
    /\ UNCHANGED <<ledgerVars, memory, busy, assign, sent>>

\* The ride room the driver's position goes to, if any.
PositionRoom(t, d) == assign[t][d]
-----------------------------------------------------------------------------
(* A passenger requests a ride; dispatch looks for drivers *)

\* POST /v1/rides: commit, then dispatch without awaiting it.
Request(t, p, r) ==
    /\ requestRide(t, p, r)
    /\ calls' = calls \cup {Await("geosearch", r, t)}
    /\ UNCHANGED <<pending, timers, redis, sent>>

\* Mutant: an empty search result ends the dispatch.
SearchNearby_IgnoresEmpty(c) ==
    /\ c.op = "geosearch"
    /\ \E near \in SUBSET geo[c.tenant] :
          /\ Cardinality(near) <= MAX_CANDIDATES
          /\ Resume(c, IF near = {} THEN {}
                       ELSE {[c EXCEPT !.op = "smismember", !.drivers = near]})
    /\ UNCHANGED <<ledgerVars, pending, timers, redis, sent>>

\* The search answers with the nearest drivers within the radius, at most
\* MAX_CANDIDATES of them; with none the ride is given up at once.
SearchNearby(c) ==
    /\ c.op = "geosearch"
    /\ \E near \in SUBSET geo[c.tenant] :
          /\ Cardinality(near) <= MAX_CANDIDATES
          /\ \/ /\ near # {}
                /\ Resume(c, {[c EXCEPT !.op = "smismember", !.drivers = near]})
                /\ UNCHANGED <<pending, timers, offered>>
             \/ /\ near = {}
                /\ offerNext(c.ride, c.tenant, <<>>, calls \ {c}, timers, pending)
    /\ UNCHANGED <<ledgerVars, redis, announced>>

FilterBusy(c) ==
    /\ c.op = "smismember"
    /\ Resume(c, {[c EXCEPT !.op = "rank", !.drivers = @ \ busy[c.tenant]]})
    /\ UNCHANGED <<ledgerVars, pending, timers, redis, sent>>

\* Mutant: the ranking is not cut to MAX_OFFERS.
Shortlists_Uncut(candidates) ==
    {list \in [1 .. Cardinality(candidates) -> candidates] : IsInjective(list)}

\* rankByEta(candidates, ...).slice(0, MAX_OFFERS), for some estimates.
Shortlists(candidates) ==
    LET size == IF Cardinality(candidates) < MAX_OFFERS
                THEN Cardinality(candidates) ELSE MAX_OFFERS
    IN {list \in [1 .. size -> candidates] : IsInjective(list)}

OfferRanked(c) ==
    /\ c.op = "rank"
    /\ \E ranked \in Shortlists(c.drivers) :
          offerNext(c.ride, c.tenant, ranked, calls \ {c}, timers, pending)
    /\ UNCHANGED <<ledgerVars, redis, announced>>
-----------------------------------------------------------------------------
(* The offer ends: the timer fires, or the driver accepts *)

\* Mutant: the callback leaves the expired offer in the Map.
TimerFires_KeepsOffer(timer) ==
    /\ offerNext(timer.ride, timer.tenant, timer.rest, calls,
                 timers \ {timer}, pending)
    /\ UNCHANGED <<ledgerVars, redis, announced>>

TimerFires(timer) ==
    /\ offerNext(timer.ride, timer.tenant, timer.rest, calls,
                 timers \ {timer}, [pending EXCEPT ![timer.ride] = NoOffer])
    /\ UNCHANGED <<ledgerVars, redis, announced>>

\* Mutant: offers are looked up by ride and driver only.
HoldsOffer_AnyTenant(t, d, r) ==
    pending[r] # NoOffer /\ pending[r].driver = d

\* Mutant: any driver of the tenant may take the offer.
HoldsOffer_AnyDriver(t, d, r) ==
    pending[r] # NoOffer /\ pending[r].tenant = t

\* The driver, in this tenant, who holds the live offer of the ride.
HoldsOffer(t, d, r) ==
    /\ pending[r] # NoOffer
    /\ pending[r].tenant = t
    /\ pending[r].driver = d

\* Mutant: the timer is left running.
clearTimeout_Forgotten(timer) == timers' = timers

clearTimeout(timer) == timers' = timers \ {timer}

\* Mutant: the accepted offer stays in the Map.
Accept_KeepsOffer(t, d, r) ==
    /\ HoldsOffer(t, d, r)
    /\ clearTimeout(pending[r].timer)
    /\ calls' = calls \cup {[Await("accept", r, t) EXCEPT !.driver = d]}
    /\ UNCHANGED <<ledgerVars, pending, redis, sent>>

\* Mutant: the driver is marked busy before the match commits.
Accept_BusyFirst(t, d, r) ==
    /\ HoldsOffer(t, d, r)
    /\ clearTimeout(pending[r].timer)
    /\ pending' = [pending EXCEPT ![r] = NoOffer]
    /\ calls' = calls \cup {[Await("accept", r, t) EXCEPT !.driver = d]}
    /\ busy' = [busy EXCEPT ![t] = @ \cup {d}]
    /\ UNCHANGED <<ledgerVars, geo, assign, sent>>

\* "offer.accept" up to its first await.  From anyone who does not hold the
\* offer it returns false and changes nothing.
Accept(t, d, r) ==
    /\ HoldsOffer(t, d, r)
    /\ clearTimeout(pending[r].timer)
    /\ pending' = [pending EXCEPT ![r] = NoOffer]
    /\ calls' = calls \cup {[Await("accept", r, t) EXCEPT !.driver = d]}
    /\ UNCHANGED <<ledgerVars, redis, sent>>

\* Mutant: Redis is not told of the match.
CommitAccept_SkipsRedis(c) ==
    /\ c.op = "accept"
    /\ acceptRide(c.tenant, c.ride, c.driver)
    /\ Resume(c, {})
    /\ UNCHANGED <<pending, timers, redis, sent>>

CommitAccept(c) ==
    /\ c.op = "accept"
    /\ acceptRide(c.tenant, c.ride, c.driver)
    /\ Resume(c, IF Updatable(c.tenant, c.ride)
                 THEN {[c EXCEPT !.op = "multi"]} ELSE {})
    /\ UNCHANGED <<pending, timers, redis, sent>>

\* Mutant: the value of the assign key is the driver, not the ride.
AssignDriver_SwappedIds(c) ==
    /\ c.op = "multi"
    /\ busy' = [busy EXCEPT ![c.tenant] = @ \cup {c.driver}]
    /\ assign' = [assign EXCEPT ![c.tenant][c.driver] = c.driver]
    /\ Resume(c, {})
    /\ UNCHANGED <<ledgerVars, pending, timers, geo, sent>>

AssignDriver(c) ==
    /\ c.op = "multi"
    /\ busy' = [busy EXCEPT ![c.tenant] = @ \cup {c.driver}]
    /\ assign' = [assign EXCEPT ![c.tenant][c.driver] = c.ride]
    /\ Resume(c, {})
    /\ UNCHANGED <<ledgerVars, pending, timers, geo, sent>>
-----------------------------------------------------------------------------
(* Nobody is left to ask *)

\* Mutant: the result of markNoDriver is not looked at.
CommitNoDriver_Silent(c) ==
    /\ c.op = "markNoDriver"
    /\ markNoDriver(c.tenant, c.ride)
    /\ Resume(c, {})
    /\ UNCHANGED <<pending, timers, redis, sent>>

\* Mutant: the room is told without waiting for markNoDriver.
CommitNoDriver_NotAwaited(c) ==
    /\ c.op = "markNoDriver"
    /\ Resume(c, {[c EXCEPT !.op = "announce"]})
    /\ UNCHANGED <<ledgerVars, pending, timers, redis, sent>>

CommitNoDriver(c) ==
    /\ c.op = "markNoDriver"
    /\ markNoDriver(c.tenant, c.ride)
    /\ Resume(c, IF Updatable(c.tenant, c.ride)
                 THEN {[c EXCEPT !.op = "announce"]} ELSE {})
    /\ UNCHANGED <<pending, timers, redis, sent>>

AnnounceNoDriver(c) ==
    /\ c.op = "announce"
    /\ announced' = announced \cup {c.ride}
    /\ Resume(c, {})
    /\ UNCHANGED <<ledgerVars, pending, timers, redis, offered>>
-----------------------------------------------------------------------------
(* What may go wrong *)

\* The awaited call rejects.  Every caller only logs the error (dispatch, the
\* timer) or answers ok: false (accept); nobody takes the ride up again.
CallRejects(c) ==
    /\ \/ "database" \in Faults /\ c.op \in DatabaseOp
       \/ "redis" \in Faults /\ c.op \in RedisOp
    /\ Resume(c, {})
    /\ UNCHANGED <<ledgerVars, pending, timers, redis, sent>>

\* COMMIT takes effect but its answer is lost, and the call rejects all the same.
\* When pg sees the connection die, nobody listens for its 'error' and the process
\* ends: that is Continue and ProcessRestarts.  This is wider, as a process that
\* goes on (a pooler that reports the failure, a listener) would be.
CommitUnanswered(c) ==
    /\ "commit" \in Faults
    /\ \/ c.op = "accept" /\ acceptRide(c.tenant, c.ride, c.driver)
       \/ c.op = "markNoDriver" /\ markNoDriver(c.tenant, c.ride)
    /\ Resume(c, {})
    /\ UNCHANGED <<pending, timers, redis, sent>>

\* The same for the request: the passenger gets an error, dispatch never runs.
RequestUnanswered(t, p, r) ==
    /\ "commit" \in Faults
    /\ requestRide(t, p, r)
    /\ UNCHANGED <<memory, redis, sent>>

RedisRestarts ==
    /\ "redisLoss" \in Faults
    /\ geo' = EmptyKeys.geo /\ busy' = EmptyKeys.busy /\ assign' = EmptyKeys.assign
    /\ UNCHANGED <<ledgerVars, memory, sent>>

\* Pending offers are held in memory; nothing reads REQUESTED rides back.
ProcessRestarts ==
    /\ "crash" \in Faults
    /\ pending' = [r \in Ride |-> NoOffer]
    /\ timers' = {}
    /\ calls' = {}
    /\ UNCHANGED <<ledgerVars, redis, sent>>
-----------------------------------------------------------------------------
Continue(c) ==
    \/ SearchNearby(c) \/ FilterBusy(c) \/ OfferRanked(c)
    \/ CommitAccept(c) \/ AssignDriver(c)
    \/ CommitNoDriver(c) \/ AnnounceNoDriver(c)

Next ==
    \/ \E t \in Tenant, d \in DriverId : recordLocation(t, d)
    \/ \E t \in Tenant, p \in Passenger, r \in Ride :
          Request(t, p, r) \/ RequestUnanswered(t, p, r)
    \/ \E t \in Tenant, d \in DriverId, r \in Ride : Accept(t, d, r)
    \/ \E timer \in timers : TimerFires(timer)
    \/ \E c \in calls : Continue(c) \/ CallRejects(c) \/ CommitUnanswered(c)
    \/ RedisRestarts
    \/ ProcessRestarts

Spec == Init /\ [][Next]_vars

\* Awaited calls are answered and armed timers fire: the event loop turns, and
\* PostgreSQL and Redis answer.  Nothing obliges a passenger or a driver.
Fairness ==
    \A r \in Ride :
        /\ WF_vars(\E c \in calls : c.ride = r /\ Continue(c))
        /\ WF_vars(\E timer \in timers : timer.ride = r /\ TimerFires(timer))

FairSpec == Spec /\ Fairness
-----------------------------------------------------------------------------
(* Properties *)

TimersOf(r) == {timer \in timers : timer.ride = r}
CallsOf(r)  == {c \in calls : c.ride = r}
LastOffered(r) == offered[r][Len(offered[r])]

\* A ride is in the hands of at most one armed timer or awaited call.  The
\* code relies on it without a lock: an accept that raced the timeout, or a
\* timer that was not cleared, would leave two of them settling one ride.
OneCustodian ==
    \A r \in Ride :
        /\ \A x, y \in TimersOf(r) : x = y
        /\ \A x, y \in CallsOf(r) : x = y
        /\ TimersOf(r) = {} \/ CallsOf(r) = {}

\* The Map and the event loop agree: an offer a driver can accept has its own
\* timer armed, every armed timer has its offer, and the one driver who may
\* accept is the one who was sent the latest offer.
OfferArmed ==
    \A r \in Ride :
        IF pending[r] = NoOffer
        THEN TimersOf(r) = {}
        ELSE /\ TimersOf(r) = {pending[r].timer}
             /\ pending[r].tenant = rides[r].tenant
             /\ offered[r] # <<>> /\ pending[r].driver = LastOffered(r)

\* Once a ride is settled nobody works on settling it: no offer of it is live
\* and no timer armed, and what is awaited only publishes the outcome.
SettledIsQuiet ==
    \A r \in Ride : Settled(r) =>
        /\ pending[r] = NoOffer
        /\ TimersOf(r) = {}
        /\ \A c \in CallsOf(r) :
              c.op = IF rides[r].state = "MATCHED" THEN "multi" ELSE "announce"

\* A ride is matched only to the driver of its own tenant who was sent its
\* latest offer: not to one whose offer expired, nor to one of the same name
\* in another tenant.
MatchedIsLastOffered ==
    \A r \in Ride : rides[r].state = "MATCHED" =>
        offered[r] # <<>> /\ rides[r].driver = LastOffered(r)

\* Redis never runs ahead of the rides: a driver is passed over as busy, or has
\* their position sent to a ride's room, only while a committed match in their
\* own tenant says so, whatever Redis forgot or the process lost on the way.
RedisFollowsLedger ==
    \A t \in Tenant, d \in DriverId :
        LET MatchedHere(r) == /\ Visible(t, r)
                              /\ rides[r].state = "MATCHED"
                              /\ rides[r].driver = d
        IN /\ d \in busy[t] => \E r \in Ride : MatchedHere(r)
           /\ PositionRoom(t, d) # Nil => MatchedHere(PositionRoom(t, d))

\* A room is told NO_DRIVER only after that outcome has committed.
AnnouncedIsCommitted == \A r \in announced : rides[r].state = "NO_DRIVER"

\* While nothing fails, an unsettled ride is never dropped: its offer is live
\* or a call that can settle it is awaited.
EveryRequestKept ==
    Faults = {} =>
        \A r \in Ride : rides[r].state = "REQUESTED" =>
            TimersOf(r) # {} \/ CallsOf(r) # {}

\* While nothing fails, the passenger of a ride that was given up is told.
NoDriverIsAnnounced ==
    \A r \in Ride : rides[r].state = "NO_DRIVER" ~> r \in announced

\* While nothing fails, a matched driver is marked busy, so that later searches
\* pass them over.
MatchedDriverGetsBusy ==
    \A r \in Ride :
        rides[r].state = "MATCHED" ~>
            \E t \in Tenant : Visible(t, r) /\ rides[r].driver \in busy[t]

\* A driver has at most one ride at a time: the taxi a ride is matched to is a
\* free one.
OneRidePerDriver ==
    \A r, q \in Ride :
        /\ rides[r].state = "MATCHED" /\ rides[q].state = "MATCHED"
        /\ rides[r].tenant = rides[q].tenant
        /\ rides[r].driver = rides[q].driver
        => r = q

OfferLoop == INSTANCE OfferLoop WITH
    asked <- offered,
    outcome <- [r \in Ride |-> [state |-> rides[r].state,
                                driver |-> rides[r].driver]]

\* Whatever fails, matching is the one-at-a-time offer loop of its class
\* comment: it asks no driver twice, nobody once the ride is settled, and
\* settles each ride once, on the driver asked last.
ImplementsOfferLoop == OfferLoop!Spec

\* And while nothing fails it also ends every loop it starts.
ImplementsFairOfferLoop == OfferLoop!FairSpec
-----------------------------------------------------------------------------
(* The inductive invariant: who has each ride in hand, and what they know *)

Idle(r) ==
    TimersOf(r) = {} /\ CallsOf(r) = {} /\ pending[r] = NoOffer

\* The drivers in remaining may be asked next without asking anybody twice.
MayAsk(r, remaining) ==
    /\ IsInjective(offered[r] \o remaining)
    /\ Len(offered[r]) + Len(remaining) <= MAX_OFFERS

OfferOut(r) ==
    /\ rides[r].state = "REQUESTED"
    /\ offered[r] # <<>>
    /\ CallsOf(r) = {}
    /\ \E timer \in timers :
          /\ TimersOf(r) = {timer}
          /\ pending[r] = [tenant |-> rides[r].tenant,
                           driver |-> LastOffered(r), timer |-> timer]
          /\ timer.tenant = rides[r].tenant
          /\ MayAsk(r, timer.rest)

CallFits(c) ==
    LET r == c.ride
    IN /\ Visible(c.tenant, r)
       /\ MayAsk(r, <<>>)
       /\ c.op \in {"geosearch", "smismember", "rank"} =>
             rides[r].state = "REQUESTED" /\ offered[r] = <<>>
       /\ c.op = "markNoDriver" => rides[r].state = "REQUESTED"
       /\ c.op = "accept" =>
             /\ rides[r].state = "REQUESTED"
             /\ offered[r] # <<>> /\ c.driver = LastOffered(r)
       /\ c.op = "multi" =>
             rides[r].state = "MATCHED" /\ rides[r].driver = c.driver
       /\ c.op = "announce" => rides[r].state = "NO_DRIVER"

CallOut(r) ==
    /\ TimersOf(r) = {}
    /\ pending[r] = NoOffer
    /\ \E c \in calls : CallsOf(r) = {c} /\ CallFits(c)

Custody(r) ==
    /\ Idle(r) \/ OfferOut(r) \/ CallOut(r)
    /\ rides[r] = NoRow => Idle(r) /\ offered[r] = <<>>
    /\ rides[r].state = "MATCHED" =>
          offered[r] # <<>> /\ rides[r].driver = LastOffered(r)
    /\ Faults = {} /\ rides[r].state = "REQUESTED" => ~Idle(r)

IInv == TypeOK /\ \A r \in Ride : Custody(r)
=============================================================================
