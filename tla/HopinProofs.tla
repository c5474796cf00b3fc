----------------------------- MODULE HopinProofs -----------------------------
(***************************************************************************)
(* The whole is what its parts are proved to be: every step of Hopin is a  *)
(* step of Matching (so that Matching's theorems hold of it) and a step of *)
(* Realtime, its calls that will announce taken for the rides Realtime is  *)
(* telling; and positions, which belong to neither, reach only the         *)
(* passenger the driver is matched to.                                     *)
(***************************************************************************)
EXTENDS Hopin, MatchingProofs

USE NilIsNoId
-----------------------------------------------------------------------------
(* The whole does what Matching does *)

LEMMA StepOfMatching == [HopinNext]_hopinVars => [Next]_vars
<1>. SUFFICES ASSUME [HopinNext]_hopinVars PROVE [Next]_vars
  OBVIOUS
<1>1. CASE UNCHANGED hopinVars
  BY <1>1 DEF hopinVars, matching, vars
<1>2. CASE \E c \in calls : Resumes(c) \/ Announce(c)
  BY <1>2 DEF Resumes, Announce, Continue, Next
<1>3. CASE \E timer \in timers : Expires(timer)
  BY <1>3 DEF Expires, Next
<1>4. CASE Elsewhere
  BY <1>4 DEF Elsewhere, Next
<1>5. CASE Restart
  BY <1>5 DEF Restart, Next
<1>6. CASE \E t \in Tenant, d \in DriverId : OnLocation(t, d)
  BY <1>6 DEF OnLocation, Next
<1>7. CASE \/ \E p \in located : Forward(p)
           \/ \E i \in DOMAIN outbox : Relayed(i)
           \/ \E s \in Socket : Served(s) \/ Arrives(s) \/ Leaves(s)
  BY <1>7 DEF Forward, Relayed, Served, Arrives, Leaves, matching, vars
<1>. QED
  BY <1>1, <1>2, <1>3, <1>4, <1>5, <1>6, <1>7 DEF HopinNext

\* What is proved of Matching holds of the whole: the sockets, the relay and
\* the forwarding of positions change nothing that it relies on.
THEOREM HopinIsMatching == HopinSpec => Spec
<1>1. HopinInit => Init
  BY DEF HopinInit
<1>. QED
  BY <1>1, StepOfMatching, PTL DEF HopinSpec, Spec

\* What Matching's proofs know of every state: who has each ride in hand, what
\* the tables say of one another, and that Redis follows them.
Matched == IInv /\ LedgerIInv /\ RedisFollowsLedger

LEMMA MatchedInit == Init => Matched
<1>1. Init => LedgerInit
  BY DEF Init
<1>2. Init => RedisFollowsLedger
  BY DEF Init, EmptyKeys, RedisFollowsLedger, PositionRoom
<1>. QED
  BY <1>1, <1>2, InitCustody, LedgerInitIInv DEF Matched

LEMMA MatchedNext == Matched /\ [Next]_vars => Matched'
BY NextCustody, NextFollows, StepIsTransaction, LedgerNextIInv DEF Matched, IInv

LEMMA MatchedInvariant == HopinSpec => []Matched
BY HopinIsMatching, MatchedInit, MatchedNext, PTL DEF Spec
-----------------------------------------------------------------------------
(* The whole does what Realtime does *)

\* A call that is answered is never itself telling a room, unless it is the
\* last thing its ride is waiting for; only CommitNoDriver leaves one to tell.
LEMMA TellsTheSame ==
    ASSUME NEW c \in calls, c.op # "announce", NEW next,
           \A n \in next : n.op # "announce", Resume(c, next)
    PROVE  announcing' = announcing
BY DEF announcing, Resume

LEMMA offerNextTellsTheSame ==
    ASSUME NEW r, NEW t, NEW remaining, NEW heldTimers, NEW heldPending,
           NEW heldCalls \in SUBSET calls,
           \A c \in calls \ heldCalls : c.op # "announce",
           offerNext(r, t, remaining, heldCalls, heldTimers, heldPending)
    PROVE  announcing' = announcing
<1>1. Await("markNoDriver", r, t).op # "announce"
  BY DEF Await
<1>2. calls' \in {heldCalls, heldCalls \cup {Await("markNoDriver", r, t)}}
  BY DEF offerNext
<1>. QED
  BY <1>1, <1>2 DEF announcing

\* What leaves the rides, the sockets and the telling alone is nothing to
\* Realtime.
LEMMA SilentStep ==
    ASSUME UNCHANGED <<ledgerVars, sockets>>, announcing' = announcing
    PROVE  UNCHANGED Live!vars
BY DEF ledgerVars, sockets, Live!vars, Live!ledgerVars

\* The two instances of the ledger are one.
LEMMA LiveLedger ==
    ASSUME NEW t, NEW r, NEW d, NEW p
    PROVE  /\ Live!requestRide(t, p, r) <=> requestRide(t, p, r)
           /\ Live!acceptRide(t, r, d) <=> acceptRide(t, r, d)
           /\ Live!markNoDriver(t, r) <=> markNoDriver(t, r)
           /\ Live!Updatable(t, r) <=> Updatable(t, r)
<1>1. Live!Updatable(t, r) <=> Updatable(t, r)
  BY DEF Updatable, Visible, Live!Updatable, Live!Visible
<1>2. Live!requestRide(t, p, r) <=> requestRide(t, p, r)
  BY DEF requestRide, appendEvent, NoRow,
         Live!requestRide, Live!appendEvent, Live!NoRow
<1>3. Live!acceptRide(t, r, d) <=> acceptRide(t, r, d)
  BY <1>1 DEF acceptRide, appendEvent, ledgerVars,
              Live!acceptRide, Live!appendEvent, Live!ledgerVars
<1>4. Live!markNoDriver(t, r) <=> markNoDriver(t, r)
  BY <1>1 DEF markNoDriver, appendEvent, ledgerVars,
              Live!markNoDriver, Live!appendEvent, Live!ledgerVars
<1>. QED
  BY <1>1, <1>2, <1>3, <1>4

LEMMA ResumesOfRealtime ==
    ASSUME Matched, NEW c \in calls, Resumes(c)
    PROVE  [Live!Next]_(Live!vars)
<1>1. /\ IInv /\ TypeOK /\ c.op # "announce" /\ Continue(c)
      /\ UNCHANGED <<sockets, positions>>
  BY DEF Resumes, Matched, IInv
<1>2. c.ride \in Ride /\ c.tenant \in Tenant
  BY <1>1, CallFields
<1>3. UNCHANGED <<user, watch, rooms, known, inbox, published>>
  BY <1>1 DEF sockets
<1>4. CASE SearchNearby(c)
  <2>1. ASSUME NEW near, Resume(c, {[c EXCEPT !.op = "smismember", !.drivers = near]})
        PROVE  announcing' = announcing
    <3>1. [c EXCEPT !.op = "smismember", !.drivers = near].op = "smismember"
      BY <1>1, CallFields DEF Call
    <3>. QED
      BY <1>1, <2>1, <3>1, TellsTheSame
  <2>2. ASSUME offerNext(c.ride, c.tenant, <<>>, calls \ {c}, timers, pending)
        PROVE  announcing' = announcing
    BY <1>1, <2>2, offerNextTellsTheSame
  <2>3. announcing' = announcing
    BY <1>4, <2>1, <2>2 DEF SearchNearby
  <2>. QED
    BY <1>1, <1>4, <2>3, SilentStep DEF SearchNearby
<1>5. CASE FilterBusy(c)
  <2>1. [c EXCEPT !.op = "rank", !.drivers = @ \ busy[c.tenant]].op = "rank"
    BY <1>1, CallFields DEF Call
  <2>2. announcing' = announcing
    BY <1>1, <1>5, <2>1, TellsTheSame DEF FilterBusy
  <2>. QED
    BY <1>1, <1>5, <2>2, SilentStep DEF FilterBusy
<1>6. CASE OfferRanked(c)
  <2>1. announcing' = announcing
    BY <1>1, <1>6, offerNextTellsTheSame DEF OfferRanked
  <2>. QED
    BY <1>1, <1>6, <2>1, SilentStep DEF OfferRanked
<1>7. CASE CommitAccept(c)
  <2>1. c.op = "accept" /\ acceptRide(c.tenant, c.ride, c.driver)
    BY <1>7 DEF CommitAccept
  <2>2. Updatable(c.tenant, c.ride) /\ c.driver \in DriverId
    BY <1>1, <2>1, MatchRow, CallFields
  <2>3. [c EXCEPT !.op = "multi"].op = "multi"
    BY <1>1, CallFields DEF Call
  <2>4. announcing' = announcing
    BY <1>1, <1>7, <2>2, <2>3, TellsTheSame DEF CommitAccept
  <2>5. Live!Match(c.tenant, c.ride, c.driver)
    BY <1>3, <2>1, <2>2, <2>4, LiveLedger DEF Live!Match, Live!clients
  <2>. QED
    BY <1>2, <2>2, <2>5 DEF Live!Next
<1>8. CASE AssignDriver(c)
  <2>1. announcing' = announcing
    BY <1>1, <1>8, TellsTheSame DEF AssignDriver
  <2>. QED
    BY <1>1, <1>8, <2>1, SilentStep DEF AssignDriver
<1>9. CASE CommitNoDriver(c)
  <2>1. c.op = "markNoDriver" /\ markNoDriver(c.tenant, c.ride)
    BY <1>9 DEF CommitNoDriver
  <2>2. Updatable(c.tenant, c.ride)
    BY <1>1, <2>1, GiveUpRow
  <2>. DEFINE tell == [c EXCEPT !.op = "announce"]
  <2>3. tell.op = "announce" /\ tell.ride = c.ride
    BY <1>1, CallFields DEF Call
  <2>4. calls' = (calls \ {c}) \cup {tell}
    BY <1>9, <2>2 DEF CommitNoDriver, Resume
  <2>. HIDE DEF tell
  <2>5. announcing' = announcing \cup {c.ride}
    BY <1>1, <2>3, <2>4 DEF announcing
  <2>6. Live!GiveUp(c.tenant, c.ride)
    BY <1>3, <2>1, <2>2, <2>5, LiveLedger DEF Live!GiveUp, Live!clients
  <2>. QED
    BY <1>2, <2>6 DEF Live!Next
<1>10. ~AnnounceNoDriver(c)
  BY <1>1 DEF AnnounceNoDriver
<1>. QED
  BY <1>1, <1>4, <1>5, <1>6, <1>7, <1>8, <1>9, <1>10 DEF Continue

LEMMA AnnounceOfRealtime ==
    ASSUME Matched, NEW c \in calls, Announce(c)
    PROVE  [Live!Next]_(Live!vars)
<1>1. /\ c.ride \in Ride /\ CallsOf(c.ride) = {c} /\ rides[c.ride].tenant = c.tenant
  BY ActingCall DEF Matched, CallFits, Visible
<1>2. /\ c.op = "announce" /\ calls' = calls \ {c} /\ UNCHANGED ledgerVars
      /\ UNCHANGED <<user, watch, rooms, known, published>>
      /\ Live!toRide(c.tenant, c.ride,
                     [ride |-> c.ride, state |-> "NO_DRIVER", driver |-> Nil])
  BY DEF Announce, AnnounceNoDriver, Resume
<1>3. c.ride \in announcing /\ announcing' = announcing \ {c.ride}
  BY <1>1, <1>2 DEF announcing, CallsOf
<1>4. Live!TellNoDriver(c.ride)
  BY <1>1, <1>2, <1>3
     DEF Live!TellNoDriver, Live!clients, Live!ledgerVars, ledgerVars
<1>. QED
  BY <1>1, <1>4 DEF Live!Next

LEMMA ElsewhereOfRealtime ==
    ASSUME Matched, Elsewhere
    PROVE  [Live!Next]_(Live!vars)
<1>1. TypeOK /\ UNCHANGED <<sockets, positions>>
  BY DEF Matched, IInv, Elsewhere
<1>2. ASSUME NEW t \in Tenant, NEW p \in Passenger, NEW r \in Ride, Request(t, p, r)
      PROVE  [Live!Next]_(Live!vars)
  <2>1. announcing' = announcing
    BY <1>2 DEF Request, Await, announcing
  <2>2. Live!Request(t, p, r)
    BY <1>1, <1>2, <2>1, LiveLedger DEF Request, sockets, Live!Request, Live!clients
  <2>. QED
    BY <2>2 DEF Live!Next
<1>3. ASSUME NEW t \in Tenant, NEW d \in DriverId, NEW r \in Ride, Accept(t, d, r)
      PROVE  [Live!Next]_(Live!vars)
  <2>1. announcing' = announcing
    BY <1>3 DEF Accept, Await, announcing
  <2>. QED
    BY <1>1, <1>3, <2>1, SilentStep DEF Accept
<1>4. ASSUME NEW c \in calls, CallRejects(c)
      PROVE  [Live!Next]_(Live!vars)
  <2>1. announcing' = announcing
    BY <1>4, TellsTheSame DEF CallRejects, DatabaseOp, RedisOp
  <2>. QED
    BY <1>1, <1>4, <2>1, SilentStep DEF CallRejects
<1>5. CASE RedisRestarts
  <2>1. announcing' = announcing
    BY <1>5 DEF RedisRestarts, memory, announcing
  <2>. QED
    BY <1>1, <1>5, <2>1, SilentStep DEF RedisRestarts
<1>. QED
  BY <1>2, <1>3, <1>4, <1>5 DEF Elsewhere

LEMMA StepOfRealtime ==
    Matched /\ [HopinNext]_hopinVars => [Live!Next]_(Live!vars)
<1>. SUFFICES ASSUME Matched, [HopinNext]_hopinVars
     PROVE [Live!Next]_(Live!vars)
  OBVIOUS
<1>1. CASE UNCHANGED hopinVars
  <2>1. announcing' = announcing
    BY <1>1 DEF hopinVars, matching, memory, announcing
  <2>. QED
    BY <1>1, <2>1, SilentStep DEF hopinVars, matching
<1>2. CASE \E timer \in timers : Expires(timer)
  <2>1. announcing' = announcing
    BY <1>2, offerNextTellsTheSame DEF Expires, TimerFires
  <2>. QED
    BY <1>2, <2>1, SilentStep DEF Expires, TimerFires
<1>3. CASE Restart
  <2>1. announcing' = {}
    BY <1>3 DEF Restart, ProcessRestarts, announcing
  <2>. QED
    BY <1>3 DEF Restart, Live!Next
<1>4. CASE \E t \in Tenant, d \in DriverId : OnLocation(t, d)
  <2>1. announcing' = announcing
    BY <1>4 DEF OnLocation, recordLocation, memory, announcing
  <2>. QED
    BY <1>4, <2>1, SilentStep DEF OnLocation, recordLocation
<1>5. CASE \E p \in located : Forward(p)
  <2>1. announcing' = announcing
    BY <1>5 DEF Forward, matching, memory, announcing
  <2>. QED
    BY <1>5, <2>1, SilentStep DEF Forward, matching
<1>6. CASE \/ \E i \in DOMAIN outbox : Relayed(i)
           \/ \E s \in Socket : Served(s) \/ Arrives(s) \/ Leaves(s)
  BY <1>6 DEF Relayed, Served, Arrives, Leaves, Live!Next
<1>. QED
  BY <1>1, <1>2, <1>3, <1>4, <1>5, <1>6,
     ResumesOfRealtime, AnnounceOfRealtime, ElsewhereOfRealtime DEF HopinNext

\* Matching's calls, the relay and the sockets are together one behaviour of
\* Realtime, whatever fails and whenever the process restarts: a room is told
\* NO_DRIVER once, by the call that gave the ride up, and only then.
THEOREM HopinIsRealtime == HopinSpec => ImplementsRealtime
<1>1. HopinInit => Live!Init
  BY DEF HopinInit
<1>. QED
  BY <1>1, StepOfRealtime, MatchedInvariant, PTL
     DEF HopinSpec, ImplementsRealtime, Live!Spec
-----------------------------------------------------------------------------
(* Who is in which room, and what they are shown *)

\* What Realtime's type invariant says of its own variables.
SocketTypes ==
    /\ user \in [Socket -> Live!Identity \cup {Live!Nobody}]
    /\ watch \in [Socket -> Live!Watch \cup {Live!NoWatch}]
    /\ rooms \in [Socket -> SUBSET Live!Room]
    /\ inbox \in [Socket -> SUBSET Live!News]
    /\ known \in [Socket -> SUBSET Live!News]
    /\ published \subseteq DOMAIN outbox

PositionTypes ==
    /\ located \subseteq Position
    /\ screens \in [Socket -> SUBSET Position]

\* Who a ride belongs to, as a socket's handler finds it.
Owns(who, r) ==
    /\ rides[r] # NoRow
    /\ rides[r].tenant = who.tenant
    /\ rides[r].passenger = who.passenger

\* The handler that runs for a socket works on its user's behalf, the rooms it
\* has joined are those of its user's rides, and every position it was shown
\* is of the driver matched to one of them.
InPlace(s) ==
    /\ user[s] = Live!Nobody =>
          watch[s] = Live!NoWatch /\ rooms[s] = {} /\ screens[s] = {}
    /\ watch[s].stage # "none" =>
          /\ watch[s].tenant = user[s].tenant
          /\ watch[s].passenger = user[s].passenger
    /\ watch[s].stage = "join" => Owns(user[s], watch[s].ride)
    /\ \A room \in rooms[s] :
          room.tenant = user[s].tenant /\ Owns(user[s], room.ride)
    /\ \A p \in screens[s] :
          /\ MatchedTo(p.tenant, p.driver, p.ride)
          /\ p.tenant = user[s].tenant /\ Owns(user[s], p.ride)

\* A report that was answered with a ride is still about that ride when it is
\* forwarded, though the driver may have been assigned another one since.
ReportsHold == \A p \in located : MatchedTo(p.tenant, p.driver, p.ride)

HopinIInv ==
    /\ Matched /\ SocketTypes /\ PositionTypes
    /\ ReportsHold
    /\ \A s \in Socket : InPlace(s)

LEMMA HopinInitIInv == HopinInit => HopinIInv
<1>. SUFFICES ASSUME HopinInit PROVE HopinIInv
  OBVIOUS
<1>1. Matched
  BY MatchedInit DEF HopinInit
<1>2. SocketTypes /\ PositionTypes /\ ReportsHold
  BY DEF HopinInit, Live!Init, SocketTypes, PositionTypes, ReportsHold
<1>3. \A s \in Socket : InPlace(s)
  BY DEF HopinInit, Live!Init, Live!NoWatch, InPlace
<1>. QED
  BY <1>1, <1>2, <1>3 DEF HopinIInv

\* A ride is its passenger's, and the matched driver's, for good.
LEMMA OwnsForGood ==
    ASSUME Matched, [HopinNext]_hopinVars, NEW r \in Ride, NEW who, Owns(who, r)
    PROVE  Owns(who, r)'
<1>1. TypeOK /\ LedgerTypeOK /\ [Next]_vars
  BY StepOfMatching DEF Matched, IInv, TypeOK
<1>2. [LedgerNext]_ledgerVars
  BY <1>1, StepIsTransaction
<1>3. CASE rides'[r] = rides[r]
  BY <1>3 DEF Owns, NoRow
<1>4. CASE rides'[r] # rides[r]
  <2>1. /\ rides[r] # NoRow
        /\ rides'[r].tenant = rides[r].tenant
        /\ rides'[r].passenger = rides[r].passenger
    BY <1>1, <1>2, <1>4, LegalStep DEF Owns
  <2>2. rides[r].tenant \in Tenant
    BY <1>1, <2>1 DEF LedgerTypeOK, Row
  <2>. QED
    BY <2>1, <2>2 DEF Owns, NoRow
<1>. QED
  BY <1>3, <1>4

LEMMA MatchedForGood ==
    ASSUME Matched, [HopinNext]_hopinVars, NEW p \in Position,
           MatchedTo(p.tenant, p.driver, p.ride)
    PROVE  MatchedTo(p.tenant, p.driver, p.ride)'
BY StepOfMatching, MatchStays DEF Matched, IInv, Position

\* Nothing that happens elsewhere puts a socket out of place.
LEMMA StaysInPlace ==
    ASSUME HopinIInv, [HopinNext]_hopinVars, NEW s \in Socket,
           user'[s] = user[s], watch'[s] = watch[s], rooms'[s] = rooms[s],
           screens'[s] = screens[s]
    PROVE  InPlace(s)'
<1>1. /\ InPlace(s) /\ Matched
      /\ watch[s] \in Live!Watch \cup {Live!NoWatch}
      /\ rooms[s] \subseteq Live!Room /\ screens[s] \subseteq Position
  BY DEF HopinIInv, SocketTypes, PositionTypes
<1>2. watch[s].stage = "join" => Owns(user[s], watch[s].ride)'
  BY <1>1, OwnsForGood DEF InPlace, Live!Watch, Live!NoWatch
<1>3. ASSUME NEW room \in rooms[s]
      PROVE  room.tenant = user[s].tenant /\ Owns(user[s], room.ride)'
  BY <1>1, <1>3, OwnsForGood DEF InPlace, Live!Room
<1>4. ASSUME NEW p \in screens[s]
      PROVE  /\ MatchedTo(p.tenant, p.driver, p.ride)'
             /\ p.tenant = user[s].tenant /\ Owns(user[s], p.ride)'
  BY <1>1, <1>4, OwnsForGood, MatchedForGood DEF InPlace, Position
<1>. QED
  BY <1>1, <1>2, <1>3, <1>4 DEF InPlace, Owns, MatchedTo

(* Types *)

LEMMA toRideType ==
    ASSUME SocketTypes, NEW t, NEW r, NEW news \in Live!News,
           Live!toRide(t, r, news)
    PROVE  inbox' \in [Socket -> SUBSET Live!News]
BY DEF SocketTypes, Live!toRide

\* The outbox only grows.
LEMMA OutboxGrows ==
    ASSUME Matched, [HopinNext]_hopinVars
    PROVE  DOMAIN outbox \subseteq DOMAIN outbox'
<1>1. /\ [LedgerNext]_ledgerVars /\ outbox \in Seq(OutboxEntry)
  BY StepOfMatching, StepIsTransaction DEF Matched, IInv, TypeOK, LedgerTypeOK
<1>2. CASE outbox' = outbox
  BY <1>2
<1>3. CASE \E e \in OutboxEntry : outbox' = Append(outbox, e)
  BY <1>1, <1>3, AppendProperties, LenProperties
<1>4. outbox' = outbox \/ \E e \in OutboxEntry : outbox' = Append(outbox, e)
  BY <1>1 DEF LedgerNext, requestRide, acceptRide, markNoDriver, ledgerVars,
              OutboxEntry
<1>. QED
  BY <1>2, <1>3, <1>4

LEMMA SocketTypesOf ==
    ASSUME HopinIInv, [HopinNext]_hopinVars, NEW s \in Socket,
           Served(s) \/ Arrives(s) \/ Leaves(s)
    PROVE  SocketTypes'
<1>1. SocketTypes /\ LedgerTypeOK /\ RowShape
  BY DEF HopinIInv, Matched, LedgerIInv
<1>2. CASE Leaves(s)
  BY <1>1, <1>2 DEF SocketTypes, Leaves, Live!Disconnect, Live!ledgerVars
<1>3. CASE Arrives(s)
  <2>1. ASSUME NEW who \in Live!Identity, Live!Connect(s, who)
        PROVE  SocketTypes'
    BY <1>1, <2>1 DEF SocketTypes, Live!Connect, Live!ledgerVars
  <2>2. ASSUME NEW r \in Ride, Live!OnWatch(s, r) PROVE SocketTypes'
    <3>1. [ride |-> r, tenant |-> user[s].tenant,
           passenger |-> user[s].passenger, stage |-> "read"] \in Live!Watch
      BY <1>1, <2>2 DEF SocketTypes, Live!OnWatch, Live!Watch, Live!Identity
    <3>. QED
      BY <1>1, <2>2, <3>1 DEF SocketTypes, Live!OnWatch, Live!ledgerVars
  <2>. QED
    BY <1>3, <2>1, <2>2 DEF Arrives
<1>4. ASSUME NEW stage, watch[s].stage # "none",
             stage \in {"join", "subscribed", "refused", "current"},
             watch' = [watch EXCEPT ![s].stage = stage]
      PROVE  watch' \in [Socket -> Live!Watch \cup {Live!NoWatch}]
  <2>1. watch[s] \in Live!Watch
    BY <1>1, <1>4 DEF SocketTypes, Live!NoWatch
  <2>2. [watch[s] EXCEPT !.stage = stage] \in Live!Watch
    BY <1>4, <2>1 DEF Live!Watch
  <2>. QED
    BY <1>1, <1>4, <2>2 DEF SocketTypes
<1>5. CASE Live!CheckRide(s)
  BY <1>1, <1>4, <1>5 DEF SocketTypes, Live!CheckRide, Live!At, Live!ledgerVars
<1>6. CASE Live!JoinRoom(s)
  <2>1. watch[s] \in Live!Watch
    BY <1>1, <1>6 DEF SocketTypes, Live!JoinRoom, Live!At, Live!NoWatch
  <2>2. Live!rideRoom(watch[s].tenant, watch[s].ride) \in Live!Room
    BY <2>1 DEF Live!Watch, Live!rideRoom, Live!Room
  <2>3. watch' \in [Socket -> Live!Watch \cup {Live!NoWatch}]
    BY <1>4, <1>6 DEF Live!JoinRoom, Live!At
  <2>. QED
    BY <1>1, <1>6, <2>2, <2>3 DEF SocketTypes, Live!JoinRoom, Live!ledgerVars
<1>7. CASE Live!Reread(s)
  <2>1. watch[s] \in Live!Watch /\ watch[s].ride \in Ride
    BY <1>1, <1>7 DEF SocketTypes, Live!Reread, Live!At, Live!NoWatch, Live!Watch
  <2>2. rides[watch[s].ride] \in Row
    BY <1>1, <1>7, <2>1
       DEF LedgerTypeOK, Live!Reread, Live!IsTheirs, Live!getRide, Live!NoRow, NoRow
  <2>3. Live!NewsOf(watch[s].ride) \in Live!News
    <3>1. rides[watch[s].ride] # NoRow
      BY <1>7 DEF Live!Reread, Live!IsTheirs, Live!getRide, Live!NoRow, NoRow
    <3>2. rides[watch[s].ride].state \in {"REQUESTED", "MATCHED", "NO_DRIVER"}
      BY <1>1, <2>1, <3>1 DEF RowShape
    <3>. QED
      BY <2>1, <2>2, <3>2 DEF Live!NewsOf, Live!News, Row
  <2>4. watch' \in [Socket -> Live!Watch \cup {Live!NoWatch}]
    BY <1>4, <1>7 DEF Live!Reread, Live!At
  <2>. QED
    BY <1>1, <1>7, <2>3, <2>4 DEF SocketTypes, Live!Reread, Live!ledgerVars
<1>8. ASSUME NEW news \in inbox[s], Live!Receive(s, news) PROVE SocketTypes'
  BY <1>1, <1>8 DEF SocketTypes, Live!Receive, Live!ledgerVars
<1>. QED
  BY <1>2, <1>3, <1>5, <1>6, <1>7, <1>8 DEF Served, Live!Gateway, Live!Client

LEMMA RelayedTypes ==
    ASSUME HopinIInv, NEW i \in DOMAIN outbox, Relayed(i)
    PROVE  SocketTypes'
<1>. DEFINE news == [ride |-> outbox[i].ride, state |-> "MATCHED",
                     driver |-> outbox[i].driver]
<1>1. SocketTypes /\ outbox \in Seq(OutboxEntry)
  BY DEF HopinIInv, Matched, LedgerIInv, LedgerTypeOK
<1>2. outbox[i] \in OutboxEntry
  BY <1>1, ElementOfSeq, LenProperties
<1>3. news \in Live!News
  BY <1>2 DEF OutboxEntry, Live!News
<1>4. /\ Live!toRide(outbox[i].tenant, outbox[i].ride, news)
      /\ published' \in {published, published \cup {i}}
      /\ UNCHANGED <<outbox, user, watch, rooms, known>>
  BY DEF Relayed, Live!Relay, Live!clients, Live!ledgerVars
<1>. HIDE DEF news
<1>5. inbox' \in [Socket -> SUBSET Live!News]
  BY <1>1, <1>3, <1>4, toRideType
<1>. QED
  BY <1>1, <1>4, <1>5 DEF SocketTypes

LEMMA AnnounceTypes ==
    ASSUME HopinIInv, NEW c \in calls, Announce(c)
    PROVE  SocketTypes'
<1>1. SocketTypes /\ c.ride \in Ride
  BY CallFields DEF HopinIInv, Matched, IInv
<1>2. [ride |-> c.ride, state |-> "NO_DRIVER", driver |-> Nil] \in Live!News
  BY <1>1 DEF Live!News
<1>3. inbox' \in [Socket -> SUBSET Live!News]
  BY <1>1, <1>2, toRideType DEF Announce
<1>. QED
  BY <1>1, <1>3 DEF SocketTypes, Announce, AnnounceNoDriver, ledgerVars

LEMMA SocketTypesNext == HopinIInv /\ [HopinNext]_hopinVars => SocketTypes'
<1>. SUFFICES ASSUME HopinIInv, [HopinNext]_hopinVars PROVE SocketTypes'
  OBVIOUS
<1>1. CASE UNCHANGED sockets
  <2>1. SocketTypes /\ DOMAIN outbox \subseteq DOMAIN outbox'
    BY OutboxGrows DEF HopinIInv
  <2>. QED
    BY <1>1, <2>1 DEF SocketTypes, sockets
<1>2. CASE Restart
  BY <1>2 DEF HopinIInv, SocketTypes, Restart, Live!ProcessRestarts, Live!ledgerVars
<1>. QED
  BY <1>1, <1>2, SocketTypesOf, RelayedTypes, AnnounceTypes
     DEF HopinNext, hopinVars, Resumes, Expires, Elsewhere, OnLocation, Forward

LEMMA PositionTypesNext == HopinIInv /\ [HopinNext]_hopinVars => PositionTypes'
<1>. SUFFICES ASSUME HopinIInv, [HopinNext]_hopinVars PROVE PositionTypes'
  OBVIOUS
<1>1. PositionTypes
  BY DEF HopinIInv
<1>2. CASE UNCHANGED positions
  BY <1>1, <1>2 DEF PositionTypes, positions
<1>3. CASE \E t \in Tenant, d \in DriverId : OnLocation(t, d)
  BY <1>1, <1>3 DEF PositionTypes, OnLocation
<1>4. ASSUME NEW p \in located, Forward(p) PROVE PositionTypes'
  <2>1. /\ located' \subseteq Position /\ p \in Position
    BY <1>1, <1>4 DEF PositionTypes, Forward
  <2>2. screens' \in [Socket -> SUBSET Position]
    BY <1>1, <1>4, <2>1 DEF PositionTypes, Forward
  <2>. QED
    BY <2>1, <2>2 DEF PositionTypes
<1>5. CASE \E s \in Socket : Leaves(s)
  BY <1>1, <1>5 DEF PositionTypes, Leaves
<1>6. CASE Restart
  BY <1>1, <1>6 DEF PositionTypes, Restart
<1>. QED
  BY <1>2, <1>3, <1>4, <1>5, <1>6
     DEF HopinNext, hopinVars, Resumes, Expires, Elsewhere, Announce, Relayed,
         Served, Arrives, positions

(* Places *)

LEMMA ReportsHoldNext == HopinIInv /\ [HopinNext]_hopinVars => ReportsHold'
<1>. SUFFICES ASSUME HopinIInv, [HopinNext]_hopinVars, NEW p \in located'
     PROVE  MatchedTo(p.tenant, p.driver, p.ride)'
  BY DEF ReportsHold
<1>1. Matched /\ ReportsHold /\ located \subseteq Position /\ p \in Position
  BY PositionTypesNext DEF HopinIInv, PositionTypes
<1>2. CASE p \in located
  BY <1>1, <1>2, MatchedForGood DEF ReportsHold
<1>3. CASE p \notin located
  <2>1. PICK t \in Tenant, d \in DriverId : OnLocation(t, d)
    BY <1>3 DEF HopinNext, hopinVars, Resumes, Expires, Elsewhere, Announce,
                Relayed, Served, Arrives, Leaves, Restart, Forward, positions
  <2>2. p.tenant = t /\ p.driver = d /\ p.ride = PositionRoom(t, d)
    BY <1>3, <2>1 DEF OnLocation
  <2>3. p.ride # Nil
    BY <1>1 DEF Position
  <2>4. MatchedTo(t, d, p.ride)
    BY <1>1, <2>2, <2>3 DEF Matched, RedisFollowsLedger, Visible, MatchedTo
  <2>. QED
    BY <1>1, <2>2, <2>4, MatchedForGood
<1>. QED
  BY <1>2, <1>3

LEMMA ForwardInPlace ==
    ASSUME HopinIInv, [HopinNext]_hopinVars, NEW p \in located, Forward(p),
           NEW s \in Socket
    PROVE  InPlace(s)'
<1>1. /\ UNCHANGED <<rides, user, watch, rooms>>
      /\ screens'[s] = IF Live!rideRoom(p.tenant, p.ride) \in rooms[s]
                       THEN screens[s] \cup {p} ELSE screens[s]
  BY DEF Forward, matching, sockets, ledgerVars
<1>2. CASE Live!rideRoom(p.tenant, p.ride) \notin rooms[s]
  BY <1>1, <1>2, StaysInPlace
<1>3. CASE Live!rideRoom(p.tenant, p.ride) \in rooms[s]
  <2>1. InPlace(s) /\ MatchedTo(p.tenant, p.driver, p.ride)
    BY DEF HopinIInv, ReportsHold
  <2>2. /\ rooms[s] # {}
        /\ p.tenant = user[s].tenant /\ Owns(user[s], p.ride)
    BY <1>3, <2>1 DEF InPlace, Live!rideRoom
  <2>. QED
    BY <1>1, <1>3, <2>1, <2>2 DEF InPlace, Owns, MatchedTo
<1>. QED
  BY <1>2, <1>3

LEMMA ServedInPlace ==
    ASSUME HopinIInv, [HopinNext]_hopinVars, NEW s \in Socket, Served(s)
    PROVE  InPlace(s)'
<1>1. /\ InPlace(s) /\ SocketTypes
      /\ UNCHANGED <<rides, screens>>
  BY DEF HopinIInv, Served, matching, ledgerVars, positions
<1>2. ASSUME watch[s].stage # "none",
             NEW stage \in {"join", "subscribed", "refused", "current"},
             watch' = [watch EXCEPT ![s].stage = stage]
      PROVE  /\ watch[s] \in Live!Watch
             /\ watch'[s] = [watch[s] EXCEPT !.stage = stage]
             /\ watch'[s].stage = stage /\ watch'[s].ride = watch[s].ride
             /\ watch'[s].tenant = watch[s].tenant
             /\ watch'[s].passenger = watch[s].passenger
  <2>1. watch[s] \in Live!Watch
    BY <1>1, <1>2 DEF SocketTypes, Live!NoWatch
  <2>2. watch'[s] = [watch[s] EXCEPT !.stage = stage]
    BY <1>1, <1>2 DEF SocketTypes
  <2>. QED
    BY <2>1, <2>2 DEF Live!Watch
<1>3. watch[s].stage # "none" => user[s] # Live!Nobody
  BY <1>1 DEF InPlace, Live!NoWatch
<1>4. CASE Live!CheckRide(s)
  <2>1. watch[s].stage = "read" /\ UNCHANGED <<user, rooms>>
    BY <1>4 DEF Live!CheckRide, Live!At
  <2>2. PICK stage \in {"join", "refused"} :
           /\ watch' = [watch EXCEPT ![s].stage = stage]
           /\ stage = "join" => Live!IsTheirs(watch[s], watch[s].ride)
    BY <1>4 DEF Live!CheckRide
  <2>3. stage = "join" => Owns(user[s], watch[s].ride)
    BY <1>1, <2>1, <2>2
       DEF InPlace, Owns, Live!IsTheirs, Live!getRide, Live!Visible, Live!NoRow, NoRow
  <2>4. /\ watch'[s].stage = stage
        /\ watch'[s].ride = watch[s].ride
        /\ watch'[s].tenant = watch[s].tenant
        /\ watch'[s].passenger = watch[s].passenger
    BY <1>2, <2>1, <2>2
  <2>. QED
    BY <1>1, <1>3, <2>1, <2>3, <2>4 DEF InPlace, Owns, MatchedTo
<1>5. CASE Live!JoinRoom(s)
  <2>. DEFINE room == Live!rideRoom(watch[s].tenant, watch[s].ride)
  <2>1. /\ watch[s].stage = "join"
        /\ watch' = [watch EXCEPT ![s].stage = "subscribed"]
        /\ rooms'[s] = rooms[s] \cup {room} /\ user' = user
    BY <1>1, <1>5 DEF Live!JoinRoom, Live!At, SocketTypes
  <2>2. /\ watch'[s].stage = "subscribed"
        /\ watch'[s].tenant = watch[s].tenant
        /\ watch'[s].passenger = watch[s].passenger
    BY <1>2, <2>1
  <2>3. room.tenant = user[s].tenant /\ Owns(user[s], room.ride)
    BY <1>1, <2>1 DEF InPlace, Live!rideRoom
  <2>. HIDE DEF room
  <2>. QED
    BY <1>1, <1>3, <2>1, <2>2, <2>3 DEF InPlace, Owns, MatchedTo
<1>6. CASE Live!Reread(s)
  <2>1. /\ watch[s].stage = "subscribed"
        /\ watch' = [watch EXCEPT ![s].stage = "current"]
        /\ UNCHANGED <<user, rooms>>
    BY <1>6 DEF Live!Reread, Live!At
  <2>2. /\ watch'[s].stage = "current"
        /\ watch'[s].tenant = watch[s].tenant
        /\ watch'[s].passenger = watch[s].passenger
    BY <1>2, <2>1
  <2>. QED
    BY <1>1, <1>3, <2>1, <2>2 DEF InPlace, Owns, MatchedTo
<1>7. CASE \E news \in inbox[s] : Live!Receive(s, news)
  BY <1>1, <1>7, StaysInPlace DEF Live!Receive
<1>. QED
  BY <1>4, <1>5, <1>6, <1>7 DEF Served, Live!Gateway, Live!Client

LEMMA ArrivesInPlace ==
    ASSUME HopinIInv, [HopinNext]_hopinVars, NEW s \in Socket, Arrives(s)
    PROVE  InPlace(s)'
<1>1. /\ InPlace(s) /\ SocketTypes
      /\ UNCHANGED <<rides, screens>>
  BY DEF HopinIInv, Arrives, matching, ledgerVars, positions
<1>2. ASSUME NEW who \in Live!Identity, Live!Connect(s, who) PROVE InPlace(s)'
  <2>1. /\ user[s] = Live!Nobody /\ UNCHANGED <<watch, rooms>>
    BY <1>2 DEF Live!Connect
  <2>2. watch[s].stage = "none" /\ rooms[s] = {} /\ screens[s] = {}
    BY <1>1, <2>1 DEF InPlace, Live!NoWatch
  <2>3. watch[s] = Live!NoWatch
    BY <1>1, <2>1 DEF InPlace
  <2>. QED
    BY <1>1, <2>1, <2>2, <2>3 DEF InPlace
<1>3. ASSUME NEW r \in Ride, Live!OnWatch(s, r) PROVE InPlace(s)'
  <2>1. /\ user[s] # Live!Nobody /\ UNCHANGED <<user, rooms>>
        /\ watch'[s] = [ride |-> r, tenant |-> user[s].tenant,
                        passenger |-> user[s].passenger, stage |-> "read"]
    BY <1>1, <1>3 DEF Live!OnWatch, SocketTypes
  <2>. QED
    BY <1>1, <2>1 DEF InPlace, Owns, MatchedTo
<1>. QED
  BY <1>2, <1>3 DEF Arrives

\* What has happened to socket s puts no other out of place.
LEMMA OthersStay ==
    ASSUME HopinIInv, NEW s \in Socket, NEW q \in Socket \ {s},
           Served(s) \/ Arrives(s) \/ Leaves(s)
    PROVE  /\ user'[q] = user[q] /\ watch'[q] = watch[q]
           /\ rooms'[q] = rooms[q] /\ screens'[q] = screens[q]
<1>1. SocketTypes /\ PositionTypes
  BY DEF HopinIInv
<1>2. CASE Served(s)
  BY <1>1, <1>2 DEF SocketTypes, Served, positions, Live!Gateway, Live!Client,
                    Live!CheckRide, Live!JoinRoom, Live!Reread, Live!Receive
<1>3. CASE Arrives(s)
  BY <1>1, <1>3 DEF SocketTypes, Arrives, positions, Live!Connect, Live!OnWatch
<1>4. CASE Leaves(s)
  BY <1>1, <1>4 DEF SocketTypes, PositionTypes, Leaves, Live!Disconnect
<1>. QED
  BY <1>2, <1>3, <1>4

LEMMA InPlaceNext ==
    ASSUME HopinIInv, [HopinNext]_hopinVars, NEW s \in Socket
    PROVE  InPlace(s)'
<1>1. CASE UNCHANGED <<user, watch, rooms, screens>>
  BY <1>1, StaysInPlace
<1>2. ASSUME NEW q \in Socket, Served(q) \/ Arrives(q) \/ Leaves(q)
      PROVE  InPlace(s)'
  <2>1. CASE q # s
    BY <1>2, <2>1, OthersStay, StaysInPlace
  <2>2. CASE Leaves(s)
    <3>1. /\ user'[s] = Live!Nobody /\ watch'[s] = Live!NoWatch
          /\ rooms'[s] = {} /\ screens'[s] = {}
      BY <2>2 DEF HopinIInv, SocketTypes, PositionTypes, Leaves, Live!Disconnect
    <3>. QED
      BY <3>1 DEF InPlace, Live!NoWatch
  <2>. QED
    BY <1>2, <2>1, <2>2, ServedInPlace, ArrivesInPlace
<1>3. CASE Restart
  <2>1. /\ user'[s] = Live!Nobody /\ watch'[s] = Live!NoWatch
        /\ rooms'[s] = {} /\ screens'[s] = {}
    BY <1>3 DEF Restart, Live!ProcessRestarts
  <2>. QED
    BY <2>1 DEF InPlace, Live!NoWatch
<1>. QED
  BY <1>1, <1>2, <1>3, ForwardInPlace
     DEF HopinNext, hopinVars, Resumes, Expires, Elsewhere, OnLocation, Announce,
         Relayed, Live!Relay, Live!clients, sockets, positions
-----------------------------------------------------------------------------
LEMMA HopinNextIInv == HopinIInv /\ [HopinNext]_hopinVars => HopinIInv'
BY StepOfMatching, MatchedNext, SocketTypesNext, PositionTypesNext,
   ReportsHoldNext, InPlaceNext DEF HopinIInv

\* The invariant: what every handler, room, report under way and position shown
\* has to do with the ride it is about.
THEOREM HopinInvariant == HopinSpec => []HopinIInv
BY HopinInitIInv, HopinNextIInv, PTL DEF HopinSpec

\* The whole keeps its types: Matching's, Realtime's and those of positions.
THEOREM HopinTypeCorrect == HopinSpec => []HopinTypeOK
<1>1. HopinIInv => HopinTypeOK
  <2>. SUFFICES ASSUME HopinIInv PROVE HopinTypeOK
    OBVIOUS
  <2>1. TypeOK /\ LedgerTypeOK
    BY DEF HopinIInv, Matched, IInv, LedgerIInv
  <2>2. announcing \subseteq Ride
    BY <2>1, CallFields DEF announcing
  <2>3. Live!LedgerTypeOK
    <3>1. Live!Row = Row
      BY DEF Row, RideState, Live!Row, Live!RideState
    <3>2. Live!NoRow = NoRow /\ Live!Event = Event /\ Live!OutboxEntry = OutboxEntry
      BY DEF NoRow, Event, OutboxEntry, Live!NoRow, Live!Event, Live!OutboxEntry
    <3>. QED
      BY <2>1, <3>1, <3>2 DEF LedgerTypeOK, Live!LedgerTypeOK
  <2>. QED
    BY <2>1, <2>2, <2>3 DEF HopinIInv, SocketTypes, PositionTypes, HopinTypeOK,
                            Live!RealtimeTypeOK
<1>. QED
  BY <1>1, HopinInvariant, PTL

\* In the whole, too, only the passenger who requested a ride is in its room.
THEOREM HopinRoomsAreTheirs == HopinSpec => []Live!RoomsAreTheirs
<1>1. HopinIInv => Live!RoomsAreTheirs
  BY DEF HopinIInv, InPlace, Owns, Live!RoomsAreTheirs
<1>. QED
  BY <1>1, HopinInvariant, PTL

\* A passenger is shown positions only of the driver matched to a ride of
\* theirs, in their tenant, whatever happened between report and forwarding.
THEOREM OnlyTheirDriversPositions == HopinSpec => []PositionsGoToTheirPassenger
<1>1. HopinIInv => PositionsGoToTheirPassenger
  BY DEF HopinIInv, InPlace, Owns, MatchedTo, PositionsGoToTheirPassenger
<1>. QED
  BY <1>1, HopinInvariant, PTL
=============================================================================
