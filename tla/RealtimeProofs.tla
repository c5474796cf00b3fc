--------------------------- MODULE RealtimeProofs ---------------------------
(***************************************************************************)
(* What a passenger is told, for any number of tenants, passengers, rides  *)
(* and sockets, and every set of faults: no one else's ride, nothing but   *)
(* the outcome, and every outcome if they read the ride after subscribing. *)
(*                                                                         *)
(* A step is one of three kinds: it moves a ride (LedgerStep), sends an    *)
(* outcome to a room (SendStep), or concerns one socket (SocketStep).      *)
(***************************************************************************)
EXTENDS Realtime, RideLedgerProofs

USE NilIsNoId
-----------------------------------------------------------------------------
(* The inductive invariant, socket by socket *)

\* The handler that runs for a socket works on its user's behalf; it joins a
\* room only of a ride that is theirs, and stays there.
SocketShape(s) ==
    /\ user[s] = Nobody => /\ watch[s] = NoWatch /\ rooms[s] = {}
                           /\ inbox[s] = {} /\ known[s] = {}
    /\ watch[s].stage # "none" =>
          /\ watch[s].tenant = user[s].tenant
          /\ watch[s].passenger = user[s].passenger
    /\ watch[s].stage \in {"join", "subscribed", "current"} =>
          IsTheirs(user[s], watch[s].ride)
    /\ watch[s].stage \in {"subscribed", "current"} =>
          rideRoom(user[s].tenant, watch[s].ride) \in rooms[s]

RoomsOf(s) ==
    \A room \in rooms[s] :
        /\ user[s] # Nobody
        /\ rides[room.ride].tenant = room.tenant
        /\ rides[room.ride].tenant = user[s].tenant
        /\ rides[room.ride].passenger = user[s].passenger

NewsFor(s) ==
    \A news \in known[s] \cup inbox[s] :
        /\ IsTheirs(user[s], news.ride)
        /\ news.state # "REQUESTED" => news = NewsOf(news.ride)

MissesNothing(s) ==
    At(s, "current") /\ Settled(watch[s].ride) =>
        \/ NewsOf(watch[s].ride) \in known[s] \cup inbox[s]
        \/ Underway(watch[s].ride)

Served(s) == SocketShape(s) /\ RoomsOf(s) /\ NewsFor(s) /\ MissesNothing(s)

\* Whom the code after markNoDriver tells was given up.
GivenUp == \A r \in telling : rides[r].state = "NO_DRIVER"

RealtimeIInv ==
    RealtimeTypeOK /\ LedgerIInv /\ GivenUp /\ \A s \in Socket : Served(s)

LEMMA RealtimeInit == Init => RealtimeIInv
<1>. SUFFICES ASSUME Init PROVE RealtimeIInv
  OBVIOUS
<1>1. LedgerIInv
  BY LedgerInitIInv DEF Init
<1>2. RealtimeTypeOK
  BY <1>1 DEF Init, RealtimeTypeOK, LedgerIInv
<1>3. \A s \in Socket : Served(s)
  BY DEF Init, Served, SocketShape, RoomsOf, NewsFor, MissesNothing, At, NoWatch
<1>. QED
  BY <1>1, <1>2, <1>3 DEF Init, RealtimeIInv, GivenUp
-----------------------------------------------------------------------------
(* A ride moves *)

LEMMA RowKinds ==
    ASSUME RealtimeIInv, NEW r \in Ride
    PROVE  /\ rides[r] \in Row \cup {NoRow}
           /\ rides[r] # NoRow <=> rides[r].tenant # Nil
           /\ rides[r] # NoRow => rides[r] \in Row
BY DEF RealtimeIInv, LedgerIInv, LedgerTypeOK, Row, NoRow

\* A ride's tenant and passenger stay, and so does a settled row.
LEMMA RowsStay ==
    ASSUME RealtimeIInv, [LedgerNext]_ledgerVars, NEW r \in Ride
    PROVE  /\ Settled(r) => rides'[r] = rides[r]
           /\ rides[r] # NoRow =>
                /\ rides'[r] # NoRow
                /\ rides'[r].tenant = rides[r].tenant
                /\ rides'[r].passenger = rides[r].passenger
<1>1. LedgerTypeOK /\ LedgerTypeOK'
  BY LedgerNextType DEF RealtimeIInv, LedgerIInv
<1>2. Settled(r) => rides'[r] = rides[r]
  BY <1>1, SettledStays
<1>3. CASE rides'[r] = rides[r]
  BY <1>3
<1>4. CASE rides'[r] # rides[r] /\ rides[r] # NoRow
  <2>1. /\ rides'[r].tenant = rides[r].tenant
        /\ rides'[r].passenger = rides[r].passenger
    BY <1>1, <1>4, LegalStep
  <2>2. rides[r].tenant # Nil
    BY <1>4, RowKinds
  <2>. QED
    BY <1>2, <2>1, <2>2 DEF NoRow
<1>. QED
  BY <1>2, <1>3, <1>4

\* Who may see a ride may always see it.
LEMMA TheirsStays ==
    ASSUME RealtimeIInv, [LedgerNext]_ledgerVars,
           NEW who, NEW r \in Ride, IsTheirs(who, r)
    PROVE  IsTheirs(who, r)'
<1>1. /\ rides[r] # NoRow /\ rides[r].tenant = who.tenant
      /\ rides[r].passenger = who.passenger
  BY DEF IsTheirs, getRide, Visible
<1>. QED
  BY <1>1, RowsStay DEF IsTheirs, getRide, Visible

\* A socket nothing happens to is served still, if whoever settled a ride is
\* about to tell.
LEMMA RidesMove ==
    ASSUME RealtimeIInv, [LedgerNext]_ledgerVars, NEW s \in Socket,
           UNCHANGED <<user, watch, rooms, inbox, known>>,
           \A r \in Ride : Underway(r) => Underway(r)',
           \A r \in Ride : Settled(r)' => Settled(r) \/ Underway(r)'
    PROVE  Served(s)'
<1>1. Served(s)
  BY DEF RealtimeIInv
<1>2. /\ watch[s].stage # "none" => watch[s].ride \in Ride
      /\ \A room \in rooms[s] : room \in Room /\ room.ride \in Ride
      /\ \A news \in known[s] \cup inbox[s] : news \in News /\ news.ride \in Ride
  BY DEF RealtimeIInv, RealtimeTypeOK, Watch, NoWatch, Room, News
<1>3. SocketShape(s)'
  <2>1. watch[s].stage \in {"join", "subscribed", "current"} =>
           IsTheirs(user[s], watch[s].ride)'
    BY <1>1, <1>2, TheirsStays DEF Served, SocketShape
  <2>. QED
    BY <1>1, <2>1 DEF Served, SocketShape
<1>4. RoomsOf(s)'
  <2>. SUFFICES ASSUME NEW room \in rooms[s]
       PROVE  /\ user[s] # Nobody
              /\ rides'[room.ride].tenant = room.tenant
              /\ rides'[room.ride].tenant = user[s].tenant
              /\ rides'[room.ride].passenger = user[s].passenger
    BY DEF RoomsOf
  <2>1. /\ user[s] # Nobody
        /\ rides[room.ride].tenant = room.tenant
        /\ rides[room.ride].tenant = user[s].tenant
        /\ rides[room.ride].passenger = user[s].passenger
    BY <1>1 DEF Served, RoomsOf
  <2>2. room.ride \in Ride /\ rides[room.ride] # NoRow
    BY <1>2, <2>1, RowKinds DEF Room
  <2>. QED
    BY <2>1, <2>2, RowsStay
<1>5. NewsFor(s)'
  <2>. SUFFICES ASSUME NEW news \in known[s] \cup inbox[s]
       PROVE  /\ IsTheirs(user[s], news.ride)'
              /\ news.state # "REQUESTED" => news = NewsOf(news.ride)'
    BY DEF NewsFor
  <2>1. /\ IsTheirs(user[s], news.ride)
        /\ news.state # "REQUESTED" => news = NewsOf(news.ride)
        /\ news \in News /\ news.ride \in Ride
    BY <1>1, <1>2 DEF Served, NewsFor
  <2>2. IsTheirs(user[s], news.ride)'
    BY <2>1, TheirsStays
  <2>3. ASSUME news.state # "REQUESTED" PROVE Settled(news.ride)
    <3>1. news.state \in {"MATCHED", "NO_DRIVER"}
      BY <2>1, <2>3 DEF News
    <3>2. news.state = rides[news.ride].state
      BY <2>1, <2>3 DEF NewsOf
    <3>. QED
      BY <3>1, <3>2 DEF Settled
  <2>. QED
    BY <2>1, <2>2, <2>3, RowsStay DEF NewsOf
<1>6. MissesNothing(s)'
  <2>. SUFFICES ASSUME At(s, "current"), Settled(watch[s].ride)'
       PROVE  \/ NewsOf(watch[s].ride)' \in known[s] \cup inbox[s]
              \/ Underway(watch[s].ride)'
    BY DEF MissesNothing, At
  <2>1. watch[s].ride \in Ride
    BY <1>2 DEF At
  <2>2. CASE ~Settled(watch[s].ride)
    BY <2>1, <2>2
  <2>3. CASE Settled(watch[s].ride)
    BY <1>1, <2>1, <2>3, RowsStay DEF Served, MissesNothing, NewsOf
  <2>. QED
    BY <2>2, <2>3
<1>. QED
  BY <1>3, <1>4, <1>5, <1>6 DEF Served

LEMMA LedgerStep ==
    ASSUME RealtimeIInv, NEW t \in Tenant, NEW r \in Ride,
           \/ \E p \in Passenger : Request(t, p, r)
           \/ \E d \in DriverId : Match(t, r, d)
           \/ GiveUp(t, r)
    PROVE  RealtimeIInv'
<1>1. /\ LedgerNext
      /\ UNCHANGED <<user, watch, rooms, inbox, known, published>>
  BY DEF Request, Match, GiveUp, LedgerNext, clients
<1>2. LedgerIInv' /\ LedgerIInv
  BY <1>1, LedgerNextIInv DEF RealtimeIInv
<1>3. /\ outbox \in Seq(OutboxEntry) /\ outbox' \in Seq(OutboxEntry)
      /\ published \subseteq DOMAIN outbox /\ telling \subseteq Ride
  BY <1>2 DEF RealtimeIInv, RealtimeTypeOK, LedgerIInv, LedgerTypeOK
<1>4. /\ DOMAIN outbox \subseteq DOMAIN outbox'
      /\ \A i \in DOMAIN outbox : outbox'[i] = outbox[i]
  <2>1. CASE outbox' = outbox
    BY <2>1
  <2>2. CASE \E e \in OutboxEntry : outbox' = Append(outbox, e)
    BY <1>3, <2>2, AppendProperties, LenProperties
  <2>3. outbox' = outbox \/ \E e \in OutboxEntry : outbox' = Append(outbox, e)
    BY DEF Request, Match, GiveUp, requestRide, acceptRide, markNoDriver,
           ledgerVars, OutboxEntry
  <2>. QED
    BY <2>1, <2>2, <2>3
<1>5. telling \subseteq telling' /\ telling' \subseteq telling \cup {r}
  BY DEF Request, Match, GiveUp
<1>6. \A q \in Ride : Underway(q) => Underway(q)'
  BY <1>1, <1>4, <1>5 DEF Underway
<1>7. \A q \in Ride : Settled(q)' => Settled(q) \/ Underway(q)'
  <2>1. CASE \E p \in Passenger : Request(t, p, r)
    <3>1. rides'[r].state = "REQUESTED" /\ \A q \in Ride \ {r} : rides'[q] = rides[q]
      BY <1>2, <2>1 DEF Request, requestRide, LedgerIInv, LedgerTypeOK
    <3>. QED
      BY <3>1 DEF Settled
  <2>2. CASE \E d \in DriverId : Match(t, r, d)
    <3>1. PICK d \in DriverId : Match(t, r, d)
      BY <2>2
    <3>2. \A q \in Ride \ {r} : rides'[q] = rides[q]
      BY <1>2, <3>1, acceptRideRow DEF Match, LedgerIInv
    <3>3. Underway(r)'
      <4>1. outbox' = Append(outbox, [tenant |-> t, ride |-> r, driver |-> d])
        BY <3>1 DEF Match, acceptRide
      <4>2. [tenant |-> t, ride |-> r, driver |-> d] \in OutboxEntry
        BY DEF OutboxEntry
      <4>. DEFINE e == [tenant |-> t, ride |-> r, driver |-> d]
                  n == Len(outbox) + 1
      <4>3. e.ride = r
        OBVIOUS
      <4>. HIDE DEF e
      <4>4. n \in DOMAIN outbox' /\ n \notin DOMAIN outbox /\ outbox'[n] = e
        BY <1>3, <4>1, <4>2, AppendProperties, LenProperties DEF e
      <4>. HIDE DEF n
      <4>. QED
        BY <1>1, <1>3, <4>3, <4>4 DEF Underway
    <3>. QED
      BY <3>2, <3>3 DEF Settled
  <2>3. CASE GiveUp(t, r)
    <3>1. \A q \in Ride \ {r} : rides'[q] = rides[q]
      BY <1>2, <2>3, markNoDriverRow DEF GiveUp, LedgerIInv
    <3>. QED
      BY <2>3, <3>1 DEF Settled, GiveUp, Underway
  <2>. QED
    BY <2>1, <2>2, <2>3
<1>8. \A s \in Socket : Served(s)'
  BY <1>1, <1>6, <1>7, RidesMove
<1>9. GivenUp'
  <2>1. \A q \in telling : rides'[q].state = "NO_DRIVER"
    BY <1>1, <1>3, RowsStay DEF RealtimeIInv, GivenUp, Settled
  <2>2. r \in telling' \ telling => rides'[r].state = "NO_DRIVER"
    <3>1. CASE GiveUp(t, r)
      <4>1. Updatable(t, r) /\ markNoDriver(t, r) /\ LedgerTypeOK
        BY <1>2, <3>1 DEF GiveUp, LedgerIInv
      <4>2. rides'[r] = [tenant |-> t, passenger |-> rides[r].passenger,
                         driver |-> rides[r].driver, state |-> "NO_DRIVER"]
        BY <4>1, markNoDriverRow
      <4>. QED
        BY <4>2
    <3>2. CASE telling' = telling
      BY <3>2
    <3>. QED
      BY <3>1, <3>2 DEF Request, Match
  <2>. QED
    BY <1>5, <2>1, <2>2 DEF GivenUp
<1>10. RealtimeTypeOK'
  <2>1. LedgerTypeOK'
    BY <1>2 DEF LedgerIInv
  <2>2. published' \subseteq DOMAIN outbox' /\ telling' \subseteq Ride
    BY <1>1, <1>3, <1>4, <1>5
  <2>. QED
    BY <1>1, <2>1, <2>2 DEF RealtimeIInv, RealtimeTypeOK
<1>. QED
  BY <1>2, <1>8, <1>9, <1>10 DEF RealtimeIInv

-----------------------------------------------------------------------------
(* An outcome is sent to a room *)

\* Whoever is in the room of a settled ride and is sent its outcome is told
\* the truth about a ride of theirs, and need not wait for it any longer.
LEMMA OutcomeSent ==
    ASSUME RealtimeIInv, NEW r \in Ride, Settled(r),
           toRide(rides[r].tenant, r, NewsOf(r)),
           UNCHANGED <<ledgerVars, user, watch, rooms, known>>,
           \A q \in Ride \ {r} : Underway(q) => Underway(q)',
           NEW s \in Socket
    PROVE  Served(s)' /\ inbox'[s] \in SUBSET News
<1>1. Served(s)
  BY DEF RealtimeIInv
<1>2. /\ rides' = rides /\ rides[r] # NoRow /\ rides[r] \in Row
      /\ rides[r].tenant # Nil
  BY RowKinds DEF ledgerVars, Settled, NoRow
<1>3. /\ rideRoom(rides[r].tenant, r) \in rooms[s] =>
            inbox'[s] = inbox[s] \cup {NewsOf(r)}
      /\ rideRoom(rides[r].tenant, r) \notin rooms[s] => inbox'[s] = inbox[s]
  BY DEF toRide
<1>4. NewsOf(r) \in News
  BY <1>2 DEF Settled, NewsOf, News, Row
<1>5. SocketShape(s)'
  BY <1>1, <1>2, <1>3 DEF Served, SocketShape, IsTheirs, getRide, Visible
<1>6. RoomsOf(s)'
  BY <1>1, <1>2 DEF Served, RoomsOf
<1>7. NewsFor(s)'
  <2>1. ASSUME rideRoom(rides[r].tenant, r) \in rooms[s]
        PROVE  IsTheirs(user[s], r)
    BY <1>1, <1>2, <2>1
       DEF Served, RoomsOf, rideRoom, IsTheirs, getRide, Visible
  <2>2. NewsOf(r).ride = r
    BY DEF NewsOf
  <2>. SUFFICES ASSUME NEW news \in known[s] \cup inbox'[s]
       PROVE  /\ IsTheirs(user[s], news.ride)
              /\ news.state # "REQUESTED" => news = NewsOf(news.ride)
    BY <1>2 DEF NewsFor, IsTheirs, getRide, Visible, NewsOf
  <2>. QED
    BY <1>1, <1>3, <2>1, <2>2 DEF Served, NewsFor
<1>8. MissesNothing(s)'
  <2>. SUFFICES ASSUME At(s, "current"), Settled(watch[s].ride)
       PROVE  \/ NewsOf(watch[s].ride) \in known[s] \cup inbox'[s]
              \/ Underway(watch[s].ride)'
    BY <1>2 DEF MissesNothing, At, Settled, NewsOf
  <2>1. watch[s].ride \in Ride
    BY DEF At, RealtimeIInv, RealtimeTypeOK, Watch, NoWatch
  <2>2. CASE watch[s].ride = r
    <3>1. user[s].tenant = rides[r].tenant
      BY <1>1, <2>2 DEF Served, SocketShape, At, IsTheirs, getRide, Visible
    <3>. QED
      BY <1>1, <1>3, <2>2, <3>1 DEF Served, SocketShape, At
  <2>3. CASE watch[s].ride # r
    BY <1>1, <1>3, <2>1, <2>3 DEF Served, MissesNothing
  <2>. QED
    BY <2>2, <2>3
<1>9. inbox'[s] \in SUBSET News
  BY <1>3, <1>4 DEF RealtimeIInv, RealtimeTypeOK
<1>. QED
  BY <1>5, <1>6, <1>7, <1>8, <1>9 DEF Served

LEMMA SendStep ==
    ASSUME RealtimeIInv,
           \/ \E i \in DOMAIN outbox : Relay(i)
           \/ \E r \in Ride : TellNoDriver(r)
    PROVE  RealtimeIInv'
<1>1. UNCHANGED <<ledgerVars, user, watch, rooms, known>>
  BY DEF Relay, TellNoDriver, clients
<1>2. LedgerIInv'
  BY <1>1, LedgerNextIInv DEF RealtimeIInv
<1>3. outbox \in Seq(OutboxEntry) /\ rides \in [Ride -> Row \cup {NoRow}]
  BY DEF RealtimeIInv, LedgerIInv, LedgerTypeOK
<1>4. /\ \A s \in Socket : Served(s)' /\ inbox'[s] \in SUBSET News
      /\ inbox' = [s \in Socket |-> inbox'[s]]
  <2>1. ASSUME NEW i \in DOMAIN outbox, Relay(i)
        PROVE  \E r \in Ride :
                  /\ Settled(r) /\ toRide(rides[r].tenant, r, NewsOf(r))
                  /\ \A q \in Ride \ {r} : Underway(q) => Underway(q)'
    <3>. DEFINE r == outbox[i].ride
    <3>1. outbox[i] \in OutboxEntry
      BY <1>3, ElementOfSeq, LenProperties
    <3>2. r \in Ride
      BY <3>1 DEF OutboxEntry
    <3>3. /\ rides[r].state = "MATCHED" /\ outbox[i].tenant = rides[r].tenant
          /\ outbox[i].driver = rides[r].driver
      BY <3>2 DEF RealtimeIInv, LedgerIInv, OneEntryPerMatch
    <3>4. toRide(rides[r].tenant, r, NewsOf(r))
      BY <2>1, <3>3 DEF Relay, NewsOf
    <3>5. \A q \in Ride \ {r} : Underway(q) => Underway(q)'
      BY <1>1, <2>1 DEF Relay, Underway, ledgerVars
    <3>. QED
      BY <3>2, <3>3, <3>4, <3>5 DEF Settled
  <2>2. ASSUME NEW r \in Ride, TellNoDriver(r)
        PROVE  /\ Settled(r) /\ toRide(rides[r].tenant, r, NewsOf(r))
               /\ \A q \in Ride \ {r} : Underway(q) => Underway(q)'
    <3>1. rides[r].state = "NO_DRIVER" /\ rides[r].driver = Nil
      BY <2>2 DEF TellNoDriver, RealtimeIInv, GivenUp, LedgerIInv, RowShape, NoRow
    <3>2. toRide(rides[r].tenant, r, NewsOf(r))
      BY <2>2, <3>1 DEF TellNoDriver, NewsOf
    <3>3. \A q \in Ride \ {r} : Underway(q) => Underway(q)'
      BY <1>1, <2>2 DEF TellNoDriver, Underway, ledgerVars
    <3>. QED
      BY <3>1, <3>2, <3>3 DEF Settled
  <2>3. PICK r \in Ride :
           /\ Settled(r) /\ toRide(rides[r].tenant, r, NewsOf(r))
           /\ \A q \in Ride \ {r} : Underway(q) => Underway(q)'
    BY <2>1, <2>2
  <2>4. \A s \in Socket : Served(s)' /\ inbox'[s] \in SUBSET News
    BY <1>1, <2>3, OutcomeSent
  <2>. QED
    BY <2>3, <2>4 DEF toRide
<1>5. GivenUp'
  BY <1>1 DEF RealtimeIInv, GivenUp, Relay, TellNoDriver, ledgerVars
<1>6. RealtimeTypeOK'
  <2>1. LedgerTypeOK'
    BY <1>2 DEF LedgerIInv
  <2>2. inbox' \in [Socket -> SUBSET News]
    BY <1>4
  <2>3. published' \subseteq DOMAIN outbox' /\ telling' \subseteq Ride
    BY <1>1 DEF RealtimeIInv, RealtimeTypeOK, Relay, TellNoDriver, ledgerVars
  <2>. QED
    BY <1>1, <2>1, <2>2, <2>3 DEF RealtimeIInv, RealtimeTypeOK
<1>. QED
  BY <1>2, <1>4, <1>5, <1>6 DEF RealtimeIInv

-----------------------------------------------------------------------------
(* A socket connects, watches, is answered, reads, disconnects *)

\* What concerns one socket, and sends and settles nothing: the others are
\* served as before, so it is enough to look at this one.
OnlySocket(s) ==
    /\ UNCHANGED <<ledgerVars, published, telling>>
    /\ \A q \in Socket \ {s} :
          /\ user'[q] = user[q] /\ watch'[q] = watch[q] /\ rooms'[q] = rooms[q]
          /\ inbox'[q] = inbox[q] /\ known'[q] = known[q]

SocketTyped ==
    /\ user \in [Socket -> Identity \cup {Nobody}]
    /\ watch \in [Socket -> Watch \cup {NoWatch}]
    /\ rooms \in [Socket -> SUBSET Room]
    /\ inbox \in [Socket -> SUBSET News]
    /\ known \in [Socket -> SUBSET News]

LEMMA SocketStep ==
    ASSUME RealtimeIInv, NEW s \in Socket, OnlySocket(s),
           SocketTyped', Served(s)'
    PROVE  RealtimeIInv'
<1>1. UNCHANGED <<ledgerVars, published, telling>>
  BY DEF OnlySocket
<1>2. LedgerIInv'
  BY <1>1, LedgerNextIInv DEF RealtimeIInv
<1>3. RealtimeTypeOK'
  BY <1>1, <1>2
     DEF RealtimeIInv, RealtimeTypeOK, LedgerIInv, SocketTyped, ledgerVars
<1>4. ASSUME NEW q \in Socket \ {s} PROVE Served(q)'
  <2>1. /\ user'[q] = user[q] /\ watch'[q] = watch[q] /\ rooms'[q] = rooms[q]
        /\ inbox'[q] = inbox[q] /\ known'[q] = known[q]
        /\ rides' = rides /\ outbox' = outbox
        /\ published' = published /\ telling' = telling
    BY <1>1 DEF OnlySocket, ledgerVars
  <2>2. Served(q)
    BY DEF RealtimeIInv
  <2>3. SocketShape(q)'
    BY <2>1, <2>2 DEF Served, SocketShape, IsTheirs, getRide, Visible
  <2>4. RoomsOf(q)' /\ NewsFor(q)'
    BY <2>1, <2>2 DEF Served, RoomsOf, NewsFor, IsTheirs, getRide, Visible, NewsOf
  <2>5. MissesNothing(q)'
    BY <2>1, <2>2 DEF Served, MissesNothing, At, Settled, NewsOf, Underway
  <2>. QED
    BY <2>3, <2>4, <2>5 DEF Served
<1>5. GivenUp'
  BY <1>1 DEF RealtimeIInv, GivenUp, ledgerVars
<1>. QED
  BY <1>2, <1>3, <1>4, <1>5 DEF RealtimeIInv

\* A socket's state before the step, for the lemmas below.
LEMMA SocketNow ==
    ASSUME RealtimeIInv, NEW s \in Socket
    PROVE  /\ SocketTyped /\ Served(s)
           /\ user[s] \in Identity \cup {Nobody}
           /\ watch[s] \in Watch \cup {NoWatch}
           /\ watch[s].stage # "none" => watch[s] \in Watch /\ watch[s].ride \in Ride
           /\ rooms[s] \in SUBSET Room
           /\ known[s] \in SUBSET News /\ inbox[s] \in SUBSET News
BY DEF RealtimeIInv, RealtimeTypeOK, SocketTyped, Watch, NoWatch

\* The truths of one socket that only read the tables.
LEMMA SameTables ==
    ASSUME UNCHANGED <<ledgerVars, published, telling>>, NEW r
    PROVE  /\ rides' = rides
           /\ Settled(r)' = Settled(r) /\ Underway(r)' = Underway(r)
           /\ NewsOf(r)' = NewsOf(r)
           /\ \A who : IsTheirs(who, r)' = IsTheirs(who, r)
BY DEF ledgerVars, Settled, Underway, NewsOf, IsTheirs, getRide, Visible

LEMMA ConnectStep ==
    ASSUME RealtimeIInv, NEW s \in Socket, NEW who \in Identity, Connect(s, who)
    PROVE  RealtimeIInv'
<1>1. SocketTyped /\ Served(s)
  BY SocketNow
<1>2. OnlySocket(s)
  BY <1>1 DEF Connect, OnlySocket, SocketTyped
<1>3. SocketTyped'
  BY <1>1 DEF Connect, SocketTyped
<1>4. /\ watch'[s] = NoWatch /\ rooms'[s] = {} /\ inbox'[s] = {} /\ known'[s] = {}
      /\ user'[s] # Nobody
  BY <1>1 DEF Connect, Served, SocketShape, SocketTyped, Identity, Nobody
<1>5. Served(s)'
  BY <1>4 DEF Served, SocketShape, RoomsOf, NewsFor, MissesNothing, At, NoWatch
<1>. QED
  BY <1>2, <1>3, <1>5, SocketStep

LEMMA OnWatchStep ==
    ASSUME RealtimeIInv, NEW s \in Socket, NEW r \in Ride, OnWatch(s, r)
    PROVE  RealtimeIInv'
<1>1. /\ SocketTyped /\ Served(s)
      /\ user[s] \in Identity
  BY SocketNow DEF OnWatch
<1>. DEFINE message == [ride |-> r, tenant |-> user[s].tenant,
                        passenger |-> user[s].passenger, stage |-> "read"]
<1>2. message \in Watch
  BY <1>1 DEF Watch, Identity
<1>3. /\ watch' = [watch EXCEPT ![s] = message]
      /\ UNCHANGED <<ledgerVars, user, rooms, inbox, known, published, telling>>
  BY DEF OnWatch
<1>4. /\ message.stage = "read" /\ message.tenant = user[s].tenant
      /\ message.passenger = user[s].passenger
  OBVIOUS
<1>. HIDE DEF message
<1>5. OnlySocket(s) /\ SocketTyped' /\ watch'[s] = message
  BY <1>1, <1>2, <1>3 DEF OnlySocket, SocketTyped
<1>6. Served(s)'
  <2>1. SocketShape(s)'
    BY <1>1, <1>3, <1>4, <1>5 DEF SocketShape, OnWatch
  <2>2. RoomsOf(s)' /\ NewsFor(s)'
    BY <1>1, <1>3, SameTables DEF Served, RoomsOf, NewsFor
  <2>. QED
    BY <1>4, <1>5, <2>1, <2>2 DEF Served, MissesNothing, At
<1>. QED
  BY <1>5, <1>6, SocketStep

\* A socket's message moves on to the stage given; its rooms may grow.
LEMMA StageFields ==
    ASSUME RealtimeIInv, NEW s \in Socket, watch[s] \in Watch,
           NEW stage \in {"read", "join", "subscribed", "refused", "current"},
           watch' = [watch EXCEPT ![s].stage = stage]
    PROVE  /\ watch' \in [Socket -> Watch \cup {NoWatch}]
           /\ watch'[s].stage = stage /\ watch'[s].ride = watch[s].ride
           /\ watch'[s].tenant = watch[s].tenant
           /\ watch'[s].passenger = watch[s].passenger
           /\ \A q \in Socket \ {s} : watch'[q] = watch[q]
<1>1. watch \in [Socket -> Watch \cup {NoWatch}]
  BY SocketNow DEF SocketTyped
<1>2. watch' = [watch EXCEPT ![s] = [watch[s] EXCEPT !.stage = stage]]
  BY <1>1
<1>3. /\ [watch[s] EXCEPT !.stage = stage] \in Watch
      /\ [watch[s] EXCEPT !.stage = stage].stage = stage
      /\ [watch[s] EXCEPT !.stage = stage].ride = watch[s].ride
      /\ [watch[s] EXCEPT !.stage = stage].tenant = watch[s].tenant
      /\ [watch[s] EXCEPT !.stage = stage].passenger = watch[s].passenger
  BY DEF Watch
<1>. QED
  BY <1>1, <1>2, <1>3

LEMMA CheckRideStep ==
    ASSUME RealtimeIInv, NEW s \in Socket, CheckRide(s) PROVE RealtimeIInv'
<1>1. /\ SocketTyped /\ Served(s) /\ watch[s] \in Watch
      /\ watch[s].tenant = user[s].tenant
      /\ watch[s].passenger = user[s].passenger
      /\ user[s] # Nobody
  BY SocketNow DEF CheckRide, At, Served, SocketShape, NoWatch
<1>2. PICK stage \in {"join", "refused"} :
         /\ watch' = [watch EXCEPT ![s].stage = stage]
         /\ stage = "join" => IsTheirs(watch[s], watch[s].ride)
  BY DEF CheckRide
<1>3. /\ stage \in {"join", "refused"}
      /\ stage = "join" => IsTheirs(user[s], watch[s].ride)
      /\ UNCHANGED <<ledgerVars, user, rooms, inbox, known, published, telling>>
  BY <1>1, <1>2 DEF CheckRide, IsTheirs
<1>4. /\ watch' \in [Socket -> Watch \cup {NoWatch}]
      /\ watch'[s].stage = stage /\ watch'[s].ride = watch[s].ride
      /\ watch'[s].tenant = watch[s].tenant
      /\ watch'[s].passenger = watch[s].passenger
      /\ \A q \in Socket \ {s} : watch'[q] = watch[q]
  BY <1>1, <1>2, <1>3, StageFields
<1>5. OnlySocket(s) /\ SocketTyped'
  BY <1>1, <1>2, <1>3, <1>4 DEF OnlySocket, SocketTyped
<1>6. Served(s)'
  <2>1. SocketShape(s)'
    BY <1>1, <1>2, <1>3, <1>4, SameTables DEF SocketShape
  <2>2. RoomsOf(s)' /\ NewsFor(s)'
    BY <1>1, <1>2, <1>3, SameTables DEF Served, RoomsOf, NewsFor
  <2>. QED
    BY <1>3, <1>4, <2>1, <2>2 DEF Served, MissesNothing, At
<1>. QED
  BY <1>5, <1>6, SocketStep

LEMMA JoinRoomStep ==
    ASSUME RealtimeIInv, NEW s \in Socket, JoinRoom(s) PROVE RealtimeIInv'
<1>1. /\ SocketTyped /\ Served(s) /\ watch[s] \in Watch
      /\ watch[s].tenant = user[s].tenant
      /\ watch[s].passenger = user[s].passenger
      /\ user[s] # Nobody /\ IsTheirs(user[s], watch[s].ride)
  BY SocketNow DEF JoinRoom, At, Served, SocketShape, NoWatch
<1>. DEFINE room == rideRoom(watch[s].tenant, watch[s].ride)
<1>2. /\ watch' = [watch EXCEPT ![s].stage = "subscribed"]
      /\ rooms' = [rooms EXCEPT ![s] = rooms[s] \cup {room}]
      /\ UNCHANGED <<ledgerVars, user, inbox, known, published, telling>>
  BY DEF JoinRoom
<1>3. /\ room \in Room /\ room.ride = watch[s].ride /\ room.tenant = user[s].tenant
      /\ room = rideRoom(user[s].tenant, watch[s].ride)
  BY <1>1 DEF rideRoom, Room, Watch
<1>4. /\ watch' \in [Socket -> Watch \cup {NoWatch}]
      /\ watch'[s].stage = "subscribed" /\ watch'[s].ride = watch[s].ride
      /\ watch'[s].tenant = watch[s].tenant
      /\ watch'[s].passenger = watch[s].passenger
      /\ \A q \in Socket \ {s} : watch'[q] = watch[q]
  BY <1>1, <1>2, StageFields
<1>. HIDE DEF room
<1>5. OnlySocket(s) /\ SocketTyped' /\ rooms'[s] = rooms[s] \cup {room}
  BY <1>1, <1>2, <1>3, <1>4 DEF OnlySocket, SocketTyped
<1>6. Served(s)'
  <2>1. SocketShape(s)'
    BY <1>1, <1>2, <1>3, <1>4, <1>5, SameTables DEF SocketShape, rideRoom
  <2>2. NewsFor(s)'
    BY <1>1, <1>2, SameTables DEF Served, NewsFor
  <2>3. RoomsOf(s)'
    <3>1. /\ rides[room.ride].tenant = room.tenant
          /\ rides[room.ride].passenger = user[s].passenger
      BY <1>1, <1>3 DEF IsTheirs, getRide, Visible
    <3>. QED
      BY <1>1, <1>2, <1>3, <1>5, <3>1, SameTables DEF Served, RoomsOf
  <2>. QED
    BY <1>4, <2>1, <2>2, <2>3 DEF Served, MissesNothing, At
<1>. QED
  BY <1>5, <1>6, SocketStep

LEMMA RereadStep ==
    ASSUME RealtimeIInv, NEW s \in Socket, Reread(s) PROVE RealtimeIInv'
<1>1. /\ SocketTyped /\ Served(s) /\ watch[s] \in Watch
      /\ watch[s].ride \in Ride /\ user[s] # Nobody
      /\ IsTheirs(user[s], watch[s].ride)
  BY SocketNow DEF Reread, At, Served, SocketShape, NoWatch
<1>. DEFINE news == NewsOf(watch[s].ride)
<1>2. /\ watch' = [watch EXCEPT ![s].stage = "current"]
      /\ known' = [known EXCEPT ![s] = known[s] \cup {news}]
      /\ UNCHANGED <<ledgerVars, user, rooms, inbox, published, telling>>
  BY DEF Reread
<1>3. /\ news \in News /\ news.ride = watch[s].ride
  <2>1. rides[watch[s].ride] # NoRow
    BY <1>1 DEF IsTheirs, getRide
  <2>2. /\ rides[watch[s].ride] \in Row
        /\ rides[watch[s].ride].state \in {"REQUESTED", "MATCHED", "NO_DRIVER"}
    BY <1>1, <2>1, RowKinds DEF RealtimeIInv, LedgerIInv, RowShape
  <2>. QED
    BY <1>1, <2>2 DEF NewsOf, News, Row
<1>4. /\ watch' \in [Socket -> Watch \cup {NoWatch}]
      /\ watch'[s].stage = "current" /\ watch'[s].ride = watch[s].ride
      /\ watch'[s].tenant = watch[s].tenant
      /\ watch'[s].passenger = watch[s].passenger
      /\ \A q \in Socket \ {s} : watch'[q] = watch[q]
  BY <1>1, <1>2, StageFields
<1>5. OnlySocket(s) /\ SocketTyped' /\ known'[s] = known[s] \cup {news}
  <2>. HIDE DEF news
  <2>. QED
    BY <1>1, <1>2, <1>3, <1>4 DEF OnlySocket, SocketTyped
<1>6. Served(s)'
  <2>1. SocketShape(s)'
    <3>1. At(s, "subscribed")
      BY DEF Reread
    <3>. QED
      BY <1>1, <1>2, <1>4, <3>1, SameTables DEF Served, SocketShape, At
  <2>2. RoomsOf(s)'
    BY <1>1, <1>2, SameTables DEF Served, RoomsOf
  <2>3. NewsFor(s)'
    BY <1>1, <1>2, <1>3, <1>5, SameTables DEF Served, NewsFor
  <2>4. MissesNothing(s)'
    BY <1>2, <1>4, <1>5, SameTables DEF MissesNothing
  <2>. QED
    BY <2>1, <2>2, <2>3, <2>4 DEF Served
<1>. QED
  BY <1>5, <1>6, SocketStep

LEMMA ReceiveStep ==
    ASSUME RealtimeIInv, NEW s \in Socket, NEW news \in inbox[s], Receive(s, news)
    PROVE  RealtimeIInv'
<1>1. SocketTyped /\ Served(s) /\ news \in News
  BY SocketNow
<1>2. /\ inbox' = [inbox EXCEPT ![s] = inbox[s] \ {news}]
      /\ known' = [known EXCEPT ![s] = known[s] \cup {news}]
      /\ UNCHANGED <<ledgerVars, user, watch, rooms, published, telling>>
  BY DEF Receive
<1>3. OnlySocket(s) /\ SocketTyped'
  BY <1>1, <1>2 DEF OnlySocket, SocketTyped
<1>4. /\ known'[s] \cup inbox'[s] = known[s] \cup inbox[s]
      /\ user[s] # Nobody
  BY <1>1, <1>2 DEF SocketTyped, Served, SocketShape
<1>5. Served(s)'
  <2>1. SocketShape(s)'
    BY <1>1, <1>2, <1>4, SameTables DEF Served, SocketShape
  <2>2. RoomsOf(s)'
    BY <1>1, <1>2, SameTables DEF Served, RoomsOf
  <2>3. NewsFor(s)'
    BY <1>1, <1>2, <1>4, SameTables DEF Served, NewsFor
  <2>4. MissesNothing(s)'
    BY <1>1, <1>2, <1>4, SameTables DEF Served, MissesNothing, At
  <2>. QED
    BY <2>1, <2>2, <2>3, <2>4 DEF Served
<1>. QED
  BY <1>3, <1>5, SocketStep

LEMMA DisconnectStep ==
    ASSUME RealtimeIInv, NEW s \in Socket, Disconnect(s) PROVE RealtimeIInv'
<1>1. SocketTyped
  BY SocketNow
<1>2. OnlySocket(s) /\ SocketTyped'
  BY <1>1 DEF Disconnect, OnlySocket, SocketTyped
<1>3. /\ user'[s] = Nobody /\ watch'[s] = NoWatch
      /\ rooms'[s] = {} /\ inbox'[s] = {} /\ known'[s] = {}
  BY <1>1 DEF Disconnect, SocketTyped
<1>4. Served(s)'
  BY <1>3 DEF Served, SocketShape, RoomsOf, NewsFor, MissesNothing, At, NoWatch
<1>. QED
  BY <1>2, <1>4, SocketStep

LEMMA RestartStep == ASSUME RealtimeIInv, ProcessRestarts PROVE RealtimeIInv'
<1>1. LedgerIInv'
  BY LedgerNextIInv DEF RealtimeIInv, ProcessRestarts
<1>2. RealtimeTypeOK'
  BY <1>1 DEF RealtimeIInv, RealtimeTypeOK, LedgerIInv, ProcessRestarts, ledgerVars
<1>3. ASSUME NEW s \in Socket PROVE Served(s)'
  <2>1. /\ user'[s] = Nobody /\ watch'[s] = NoWatch
        /\ rooms'[s] = {} /\ inbox'[s] = {} /\ known'[s] = {}
    BY DEF ProcessRestarts
  <2>. QED
    BY <2>1 DEF Served, SocketShape, RoomsOf, NewsFor, MissesNothing, At, NoWatch
<1>. QED
  BY <1>1, <1>2, <1>3 DEF RealtimeIInv, GivenUp, ProcessRestarts
-----------------------------------------------------------------------------
LEMMA RealtimeNext == RealtimeIInv /\ [Next]_vars => RealtimeIInv'
<1>. SUFFICES ASSUME RealtimeIInv, [Next]_vars PROVE RealtimeIInv'
  OBVIOUS
<1>1. CASE UNCHANGED vars
  <2>1. LedgerIInv'
    BY <1>1, LedgerNextIInv DEF RealtimeIInv, vars
  <2>2. ASSUME NEW s \in Socket PROVE RealtimeIInv'
    <3>1. OnlySocket(s) /\ SocketTyped' /\ Served(s)'
      BY <1>1, SocketNow
         DEF vars, OnlySocket, SocketTyped, Served, SocketShape, RoomsOf,
             NewsFor, MissesNothing, At, Settled, NewsOf, Underway, IsTheirs,
             getRide, Visible, ledgerVars
    <3>. QED
      BY <3>1, SocketStep
  <2>3. ASSUME Socket = {} PROVE RealtimeIInv'
    BY <1>1, <2>1, <2>3
       DEF vars, RealtimeIInv, RealtimeTypeOK, LedgerIInv, GivenUp, ledgerVars
  <2>. QED
    BY <2>2, <2>3
<1>2. CASE Next
  BY <1>2, LedgerStep, SendStep, ConnectStep, OnWatchStep, CheckRideStep,
     JoinRoomStep, RereadStep, ReceiveStep, DisconnectStep, RestartStep
     DEF Next, Gateway, Client
<1>. QED
  BY <1>1, <1>2

\* The invariant: what each socket's handler, rooms and events have to do with
\* the rides and with the outcomes that are still to be sent.
THEOREM RealtimeInvariant == Spec => []RealtimeIInv
BY RealtimeInit, RealtimeNext, PTL DEF Spec

\* Sockets, rooms and events keep their types.
THEOREM RealtimeTypeCorrect == Spec => []RealtimeTypeOK
BY RealtimeInvariant, PTL DEF RealtimeIInv

\* Only a ride's own passenger is in its room, although the check and the join
\* are two steps and sockets come and go.
THEOREM OnlyTheirRooms == Spec => []RoomsAreTheirs
<1>1. RealtimeIInv => RoomsAreTheirs
  BY DEF RealtimeIInv, Served, RoomsOf, RoomsAreTheirs
<1>. QED
  BY <1>1, RealtimeInvariant, PTL

\* What a passenger is told of an outcome is the outcome, of a ride of theirs.
THEOREM OnlyTrueNews == Spec => []NewsIsTrue
<1>1. RealtimeIInv => NewsIsTrue
  BY DEF RealtimeIInv, Served, NewsFor, NewsIsTrue
<1>. QED
  BY <1>1, RealtimeInvariant, PTL

\* A client that reads the ride after it has subscribed misses no outcome.
THEOREM RereadingMissesNothing == Spec => []NothingMissed
<1>1. RealtimeIInv => NothingMissed
  BY DEF RealtimeIInv, Served, MissesNothing, NothingMissed
<1>. QED
  BY <1>1, RealtimeInvariant, PTL
=============================================================================
