------------------------------ MODULE Realtime ------------------------------
(***************************************************************************)
(* How passengers learn what became of their ride: the passenger gateway   *)
(* and its rooms, the two ways an outcome is sent to a room, and a client  *)
(* that keeps the rule of docs/architecture/overview/05-for-engineers.md:  *)
(* it reads the ride over REST after it has subscribed.                    *)
(* MATCHED comes from the outbox, at least once; NO_DRIVER comes from the  *)
(* code after markNoDriver, once.  A room's events go to the sockets that  *)
(* are in it at that moment, and are lost with a socket that disconnects.  *)
(* The rides move by RideLedger's transactions, called by anybody.         *)
(***************************************************************************)
EXTENDS RideLedger, FiniteSets

CONSTANTS
    Socket,      \* connections of the passenger namespace
    Faults       \* what may go wrong, a subset of {"disconnect", "relay", "crash",
                 \* "database"}

VARIABLES
    user,        \* user[s]: socket.data, who the socket belongs to
    watch,       \* watch[s]: the ride.watch message it sent last
    rooms,       \* rooms[s]: the ride rooms the socket is in
    inbox,       \* inbox[s]: events on their way to the client
    known,       \* known[s]: what the client has read or been told
    published,   \* positions in outbox that the relay has marked
    telling      \* rides given up whose room is yet to be told

vars == <<ledgerVars, user, watch, rooms, inbox, known, published, telling>>

Identity == [tenant : Tenant, passenger : Passenger]

\* The socket is not connected.
Nobody == [tenant |-> Nil, passenger |-> Nil]

\* "read": getRide is awaited; "join": socket.join is; "subscribed": answered
\* with ok; "refused": answered without, or with an error; "current": the client
\* has read the ride since.
Watch == [ride : Ride, tenant : Tenant, passenger : Passenger,
          stage : {"read", "join", "subscribed", "refused", "current"}]

NoWatch == [ride |-> Nil, tenant |-> Nil, passenger |-> Nil, stage |-> "none"]

Room == [tenant : Tenant, ride : Ride]

\* A ride's state and driver, as an event or a response tells them.
News == [ride : Ride, state : {"REQUESTED", "MATCHED", "NO_DRIVER"},
         driver : DriverId \cup {Nil}]

NewsOf(r) == [ride |-> r, state |-> rides[r].state, driver |-> rides[r].driver]

RealtimeTypeOK ==
    /\ LedgerTypeOK
    /\ user \in [Socket -> Identity \cup {Nobody}]
    /\ watch \in [Socket -> Watch \cup {NoWatch}]
    /\ rooms \in [Socket -> SUBSET Room]
    /\ inbox \in [Socket -> SUBSET News]
    /\ known \in [Socket -> SUBSET News]
    /\ published \subseteq DOMAIN outbox
    /\ telling \subseteq Ride

Init ==
    /\ LedgerInit
    /\ user = [s \in Socket |-> Nobody]
    /\ watch = [s \in Socket |-> NoWatch]
    /\ rooms = [s \in Socket |-> {}]
    /\ inbox = [s \in Socket |-> {}]
    /\ known = [s \in Socket |-> {}]
    /\ published = {}
    /\ telling = {}

clients == <<user, watch, rooms, known>>
-----------------------------------------------------------------------------
(* RealtimeBus *)

\* Mutant: the ids are swapped.
rideRoom_SwappedIds(t, r) == [tenant |-> r, ride |-> t]

rideRoom(t, r) == [tenant |-> t, ride |-> r]

\* this.passengers.to(room).emit(...)
toRide(t, r, news) ==
    inbox' = [s \in Socket |->
                 IF rideRoom(t, r) \in rooms[s] THEN inbox[s] \cup {news}
                                                ELSE inbox[s]]
-----------------------------------------------------------------------------
(* The ride moves, and its room is told *)

Request(t, p, r) ==
    /\ requestRide(t, p, r)
    /\ UNCHANGED <<clients, inbox, published, telling>>

Match(t, r, d) ==
    /\ Updatable(t, r) /\ acceptRide(t, r, d)
    /\ UNCHANGED <<clients, inbox, published, telling>>

\* Mutant: the outbox entry is marked published and not sent.
Relay_Unsent(i) ==
    /\ i \in DOMAIN outbox \ published
    /\ published' = published \cup {i}
    /\ UNCHANGED <<ledgerVars, clients, inbox, telling>>

\* The relay sends an entry, and marks it unless its tick fails afterwards.
Relay(i) ==
    /\ i \in DOMAIN outbox \ published
    /\ LET entry == outbox[i]
       IN toRide(entry.tenant, entry.ride,
                 [ride |-> entry.ride, state |-> "MATCHED", driver |-> entry.driver])
    /\ \/ published' = published \cup {i}
       \/ "relay" \in Faults /\ UNCHANGED published
    /\ UNCHANGED <<ledgerVars, clients, telling>>

\* Mutant: markNoDriver's result is ignored.
GiveUp_ResultIgnored(t, r) ==
    /\ rides[r] # NoRow /\ Visible(t, r) /\ r \notin telling
    /\ markNoDriver(t, r)
    /\ telling' = telling \cup {r}
    /\ UNCHANGED <<clients, inbox, published>>

\* Mutant: nobody is told.
GiveUp_Silent(t, r) ==
    /\ Updatable(t, r) /\ markNoDriver(t, r)
    /\ UNCHANGED <<clients, inbox, published, telling>>

GiveUp(t, r) ==
    /\ Updatable(t, r) /\ markNoDriver(t, r)
    /\ telling' = telling \cup {r}
    /\ UNCHANGED <<clients, inbox, published>>

TellNoDriver(r) ==
    /\ r \in telling
    /\ telling' = telling \ {r}
    /\ toRide(rides[r].tenant, r,
              [ride |-> r, state |-> "NO_DRIVER", driver |-> Nil])
    /\ UNCHANGED <<ledgerVars, clients, published>>
-----------------------------------------------------------------------------
(* PassengerGateway *)

\* handleConnection: the identity stays with the socket.
Connect(s, who) ==
    /\ user[s] = Nobody
    /\ user' = [user EXCEPT ![s] = who]
    /\ UNCHANGED <<ledgerVars, watch, rooms, inbox, known, published, telling>>

\* Mutant: any passenger of the tenant is let in.
IsTheirs_AnyPassenger(who, r) == getRide(who.tenant, r) # NoRow

\* The ride as this user may see it: what the gateway and RidesController.get
\* both check.
IsTheirs(who, r) ==
    getRide(who.tenant, r) # NoRow /\ rides[r].passenger = who.passenger

\* "ride.watch", for any ride id, up to getRide.  The client waits for the answer
\* before it asks again; the gateway itself would serve several at a time, which
\* share nothing but the socket's rooms.
OnWatch(s, r) ==
    /\ user[s] # Nobody
    /\ watch[s].stage \in {"none", "refused", "current"}
    /\ watch' = [watch EXCEPT ![s] =
           [ride |-> r, tenant |-> user[s].tenant,
            passenger |-> user[s].passenger, stage |-> "read"]]
    /\ UNCHANGED <<ledgerVars, user, rooms, inbox, known, published, telling>>

At(s, stage) == watch[s].stage = stage

\* getRide answers, and the ride is looked at as it was then; or it rejects.
CheckRide(s) ==
    /\ At(s, "read")
    /\ \/ /\ IsTheirs(watch[s], watch[s].ride)
          /\ watch' = [watch EXCEPT ![s].stage = "join"]
       \/ /\ ~IsTheirs(watch[s], watch[s].ride) \/ "database" \in Faults
          /\ watch' = [watch EXCEPT ![s].stage = "refused"]
    /\ UNCHANGED <<ledgerVars, user, rooms, inbox, known, published, telling>>

JoinRoom(s) ==
    /\ At(s, "join")
    /\ rooms' = [rooms EXCEPT ![s] =
                    @ \cup {rideRoom(watch[s].tenant, watch[s].ride)}]
    /\ watch' = [watch EXCEPT ![s].stage = "subscribed"]
    /\ UNCHANGED <<ledgerVars, user, inbox, known, published, telling>>
-----------------------------------------------------------------------------
(* The client *)

\* GET /v1/rides/:id after subscribing, answered as of now.
Reread(s) ==
    /\ At(s, "subscribed")
    /\ IsTheirs(user[s], watch[s].ride)
    /\ known' = [known EXCEPT ![s] = @ \cup {NewsOf(watch[s].ride)}]
    /\ watch' = [watch EXCEPT ![s].stage = "current"]
    /\ UNCHANGED <<ledgerVars, user, rooms, inbox, published, telling>>

Receive(s, news) ==
    /\ news \in inbox[s]
    /\ inbox' = [inbox EXCEPT ![s] = @ \ {news}]
    /\ known' = [known EXCEPT ![s] = @ \cup {news}]
    /\ UNCHANGED <<ledgerVars, user, watch, rooms, published, telling>>

\* The socket leaves its rooms, and what was on its way to it is lost; a
\* handler that still runs for it reaches nobody.
Disconnect(s) ==
    /\ "disconnect" \in Faults
    /\ user[s] # Nobody
    /\ user' = [user EXCEPT ![s] = Nobody]
    /\ watch' = [watch EXCEPT ![s] = NoWatch]
    /\ rooms' = [rooms EXCEPT ![s] = {}]
    /\ inbox' = [inbox EXCEPT ![s] = {}]
    /\ known' = [known EXCEPT ![s] = {}]
    /\ UNCHANGED <<ledgerVars, published, telling>>

\* The process takes every socket with it, and the calls that were to tell a
\* room; the rides and the outbox stay.
ProcessRestarts ==
    /\ "crash" \in Faults
    /\ user' = [s \in Socket |-> Nobody]
    /\ watch' = [s \in Socket |-> NoWatch]
    /\ rooms' = [s \in Socket |-> {}]
    /\ inbox' = [s \in Socket |-> {}]
    /\ known' = [s \in Socket |-> {}]
    /\ telling' = {}
    /\ UNCHANGED <<ledgerVars, published>>
-----------------------------------------------------------------------------
Gateway(s) == CheckRide(s) \/ JoinRoom(s)
Client(s) == Reread(s) \/ \E news \in inbox[s] : Receive(s, news)

Next ==
    \/ \E t \in Tenant, r \in Ride :
          \/ \E p \in Passenger : Request(t, p, r)
          \/ \E d \in DriverId : Match(t, r, d)
          \/ GiveUp(t, r)
    \/ \E i \in DOMAIN outbox : Relay(i)
    \/ \E r \in Ride : TellNoDriver(r)
    \/ \E s \in Socket :
          \/ \E who \in Identity : Connect(s, who)
          \/ \E r \in Ride : OnWatch(s, r)
          \/ Gateway(s) \/ Client(s) \/ Disconnect(s)
    \/ ProcessRestarts

Spec == Init /\ [][Next]_vars

\* Awaited calls are answered, the relay keeps polling, the code after
\* markNoDriver runs, and a client that stays connected reads what it gets.
FairSpec ==
    /\ Spec
    /\ \A s \in Socket : WF_vars(Gateway(s)) /\ WF_vars(Reread(s))
    /\ \A s \in Socket : \A r \in Ride, d \in DriverId \cup {Nil} :
          WF_vars(\E news \in inbox[s] :
                     news.ride = r /\ news.driver = d /\ Receive(s, news))
    /\ \A r \in Ride :
          /\ WF_vars(\E i \in DOMAIN outbox : outbox[i].ride = r /\ Relay(i))
          /\ WF_vars(TellNoDriver(r))
-----------------------------------------------------------------------------
\* A ride's room has only sockets of the passenger who requested it, in the
\* tenant where they did: the check and the join are two steps, but what was
\* checked does not change in between.
RoomsAreTheirs ==
    \A s \in Socket : \A room \in rooms[s] :
        /\ user[s] # Nobody
        /\ rides[room.ride].tenant = room.tenant
        /\ rides[room.ride].tenant = user[s].tenant
        /\ rides[room.ride].passenger = user[s].passenger

\* Whatever a passenger has been told or is about to be told of an outcome is
\* the outcome, and concerns a ride of theirs; an entry sent again says the same.
NewsIsTrue ==
    \A s \in Socket : \A news \in known[s] \cup inbox[s] :
        /\ IsTheirs(user[s], news.ride)
        /\ news.state # "REQUESTED" => news = NewsOf(news.ride)

Underway(r) ==
    \/ r \in telling
    \/ \E i \in DOMAIN outbox \ published : outbox[i].ride = r

\* A client that reads the ride after it has subscribed misses nothing: when
\* the ride is settled it knows, or the news is still on its way to it
\* (05-for-engineers.md:27-29).
NothingMissed ==
    \A s \in Socket :
        At(s, "current") /\ Settled(watch[s].ride) =>
            \/ NewsOf(watch[s].ride) \in known[s] \cup inbox[s]
            \/ Underway(watch[s].ride)

\* And so it learns the outcome, unless it disconnects or turns to another ride.
OutcomeIsLearned ==
    \A s \in Socket, r \in Ride :
        (/\ watch[s].stage \in {"subscribed", "current"}
         /\ watch[s].ride = r /\ Settled(r))
        ~> (NewsOf(r) \in known[s] \/ watch[s].ride # r)
=============================================================================
