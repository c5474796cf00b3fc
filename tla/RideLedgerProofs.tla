-------------------------- MODULE RideLedgerProofs --------------------------
(***************************************************************************)
(* What the transactions of RidesService keep true of the three tables,    *)
(* for every set of tenants, passengers, drivers and rides.                *)
(***************************************************************************)
EXTENDS RideLedger, SequenceTheorems, TLAPS

USE NilIsNoId
-----------------------------------------------------------------------------
(* Type correctness *)

LEMMA appendEventType ==
    ASSUME LedgerTypeOK, NEW r \in Ride, NEW type, NEW actor,
           [type |-> type, actor |-> actor] \in Event,
           appendEvent(r, type, actor)
    PROVE  rideEvents' \in [Ride -> Seq(Event)]
<1>. DEFINE e == [type |-> type, actor |-> actor]
<1>1. \A q \in Ride : Append(rideEvents[q], e) \in Seq(Event)
  <2>. HIDE DEF e
  <2>. SUFFICES ASSUME e \in Event PROVE \A q \in Ride : Append(rideEvents[q], e) \in Seq(Event)
    BY DEF e
  <2>. QED BY AppendProperties DEF LedgerTypeOK
<1>. HIDE DEF e
<1>2. rideEvents' = [rideEvents EXCEPT ![r] = Append(@, e)]
  BY DEF appendEvent, e
<1>. QED BY <1>1, <1>2 DEF LedgerTypeOK

LEMMA acceptRideType ==
    ASSUME LedgerTypeOK, NEW t \in Tenant, NEW r \in Ride, NEW d \in DriverId,
           acceptRide(t, r, d)
    PROVE  LedgerTypeOK'
<1>1. CASE Updatable(t, r)
  <2>1. rides[r] \in Row
    BY <1>1 DEF LedgerTypeOK, Updatable, NoRow
  <2>2. [rides[r] EXCEPT !.state = "MATCHED", !.driver = d] \in Row
    BY <2>1 DEF Row, RideState
  <2>3. rides' = [rides EXCEPT ![r] =
                     [rides[r] EXCEPT !.state = "MATCHED", !.driver = d]]
    BY <1>1 DEF acceptRide, LedgerTypeOK
  <2>4. [type |-> "matched", actor |-> d] \in Event
    BY DEF Event
  <2>5. [tenant |-> t, ride |-> r, driver |-> d] \in OutboxEntry
    BY DEF OutboxEntry
  <2>6. rideEvents' \in [Ride -> Seq(Event)]
    BY <1>1, <2>4, appendEventType DEF acceptRide
  <2>7. outbox' \in Seq(OutboxEntry)
    <3>. DEFINE entry == [tenant |-> t, ride |-> r, driver |-> d]
    <3>1. outbox' = Append(outbox, entry)
      BY <1>1 DEF acceptRide
    <3>. HIDE DEF entry
    <3>2. entry \in OutboxEntry
      BY <2>5 DEF entry
    <3>. QED BY <3>1, <3>2, AppendProperties DEF LedgerTypeOK
  <2>. QED
    BY <2>2, <2>3, <2>6, <2>7 DEF LedgerTypeOK
<1>2. CASE ~Updatable(t, r)
  BY <1>2 DEF acceptRide, LedgerTypeOK, ledgerVars
<1>. QED BY <1>1, <1>2

LEMMA markNoDriverType ==
    ASSUME LedgerTypeOK, NEW t \in Tenant, NEW r \in Ride, markNoDriver(t, r)
    PROVE  LedgerTypeOK'
<1>1. CASE Updatable(t, r)
  <2>1. rides[r] \in Row
    BY <1>1 DEF LedgerTypeOK, Updatable, NoRow
  <2>2. [rides[r] EXCEPT !.state = "NO_DRIVER"] \in Row
    BY <2>1 DEF Row, RideState
  <2>3. rides' = [rides EXCEPT ![r] = [rides[r] EXCEPT !.state = "NO_DRIVER"]]
    BY <1>1 DEF markNoDriver, LedgerTypeOK
  <2>4. [type |-> "no_driver", actor |-> "system"] \in Event
    BY DEF Event
  <2>5. rideEvents' \in [Ride -> Seq(Event)]
    BY <1>1, <2>4, appendEventType DEF markNoDriver
  <2>. QED
    BY <1>1, <2>2, <2>3, <2>5 DEF LedgerTypeOK, markNoDriver
<1>2. CASE ~Updatable(t, r)
  BY <1>2 DEF markNoDriver, LedgerTypeOK, ledgerVars
<1>. QED BY <1>1, <1>2

LEMMA requestRideType ==
    ASSUME LedgerTypeOK, NEW t \in Tenant, NEW p \in Passenger, NEW r \in Ride,
           requestRide(t, p, r)
    PROVE  LedgerTypeOK'
<1>1. [tenant |-> t, passenger |-> p, driver |-> Nil, state |-> "REQUESTED"] \in Row
  BY DEF Row, RideState
<1>2. [type |-> "requested", actor |-> p] \in Event
  BY DEF Event
<1>3. rideEvents' \in [Ride -> Seq(Event)]
  BY <1>2, appendEventType DEF requestRide
<1>. QED
  BY <1>1, <1>3 DEF requestRide, LedgerTypeOK

LEMMA LedgerNextType == LedgerTypeOK /\ [LedgerNext]_ledgerVars => LedgerTypeOK'
<1>. SUFFICES ASSUME LedgerTypeOK, [LedgerNext]_ledgerVars PROVE LedgerTypeOK'
  OBVIOUS
<1>1. CASE LedgerNext
  BY <1>1, requestRideType, acceptRideType, markNoDriverType DEF LedgerNext
<1>2. CASE UNCHANGED ledgerVars
  BY <1>2 DEF LedgerTypeOK, ledgerVars
<1>. QED BY <1>1, <1>2

THEOREM LedgerTypeCorrect == LedgerSpec => []LedgerTypeOK
<1>1. LedgerInit => LedgerTypeOK
  BY DEF LedgerInit, LedgerTypeOK
<1>. QED
  BY <1>1, LedgerNextType, PTL DEF LedgerSpec
-----------------------------------------------------------------------------
(* The row each transaction leaves *)

LEMMA acceptRideRow ==
    ASSUME LedgerTypeOK, NEW t \in Tenant, NEW r \in Ride, NEW d \in DriverId,
           acceptRide(t, r, d), Updatable(t, r)
    PROVE  /\ rides[r] \in Row /\ rides[r].state = "REQUESTED"
           /\ rides[r].tenant = t
           /\ rides'[r] = [tenant |-> t, passenger |-> rides[r].passenger,
                           driver |-> d, state |-> "MATCHED"]
           /\ \A q \in Ride \ {r} : rides'[q] = rides[q]
<1>1. rides[r] \in Row /\ rides[r].state = "REQUESTED" /\ rides[r].tenant = t
  BY DEF LedgerTypeOK, Updatable, Visible, NoRow
<1>2. rides' = [rides EXCEPT ![r] =
                   [rides[r] EXCEPT !.state = "MATCHED", !.driver = d]]
  BY DEF acceptRide, LedgerTypeOK
<1>. QED
  BY <1>1, <1>2 DEF LedgerTypeOK, Row

LEMMA markNoDriverRow ==
    ASSUME LedgerTypeOK, NEW t \in Tenant, NEW r \in Ride,
           markNoDriver(t, r), Updatable(t, r)
    PROVE  /\ rides[r] \in Row /\ rides[r].state = "REQUESTED"
           /\ rides[r].tenant = t
           /\ rides'[r] = [tenant |-> t, passenger |-> rides[r].passenger,
                           driver |-> rides[r].driver, state |-> "NO_DRIVER"]
           /\ \A q \in Ride \ {r} : rides'[q] = rides[q]
<1>1. rides[r] \in Row /\ rides[r].state = "REQUESTED" /\ rides[r].tenant = t
  BY DEF LedgerTypeOK, Updatable, Visible, NoRow
<1>2. rides' = [rides EXCEPT ![r] = [rides[r] EXCEPT !.state = "NO_DRIVER"]]
  BY DEF markNoDriver, LedgerTypeOK
<1>. QED
  BY <1>1, <1>2 DEF LedgerTypeOK, Row

LEMMA NoUpdate ==
    ASSUME NEW t, NEW r, NEW d, ~Updatable(t, r),
           acceptRide(t, r, d) \/ markNoDriver(t, r)
    PROVE  UNCHANGED ledgerVars
BY DEF acceptRide, markNoDriver

\* No transaction leaves the state machine of domain/ride-state.ts.
LEMMA LegalStep ==
    ASSUME LedgerTypeOK, [LedgerNext]_ledgerVars, NEW q \in Ride,
           rides'[q] # rides[q]
    PROVE  \/ rides[q] = NoRow /\ rides'[q].state = "REQUESTED"
           \/ /\ rides[q] # NoRow
              /\ canTransition(rides[q].state, rides'[q].state)
              /\ rides'[q].tenant = rides[q].tenant
              /\ rides'[q].passenger = rides[q].passenger
              /\ \/ rides'[q].driver = rides[q].driver
                 \/ rides'[q].state = "MATCHED"
<1>0. /\ canTransition("REQUESTED", "MATCHED")
      /\ canTransition("REQUESTED", "NO_DRIVER")
  BY DEF canTransition, TRANSITIONS
<1>1. ASSUME NEW t \in Tenant, NEW p \in Passenger, NEW r \in Ride,
             requestRide(t, p, r)
      PROVE  rides[q] = NoRow /\ rides'[q].state = "REQUESTED"
  <2>1. q = r
    BY <1>1 DEF requestRide, LedgerTypeOK
  <2>2. /\ rides[r] = NoRow
        /\ rides'[r] = [tenant |-> t, passenger |-> p, driver |-> Nil,
                        state |-> "REQUESTED"]
    BY <1>1 DEF requestRide, LedgerTypeOK
  <2>. QED
    BY <2>1, <2>2
<1>2. ASSUME NEW t \in Tenant, NEW r \in Ride, NEW d \in DriverId,
             acceptRide(t, r, d)
      PROVE  /\ rides[q] # NoRow
             /\ canTransition(rides[q].state, rides'[q].state)
             /\ rides'[q].tenant = rides[q].tenant
             /\ rides'[q].passenger = rides[q].passenger
             /\ rides'[q].state = "MATCHED"
  <2>1. Updatable(t, r)
    BY <1>2, NoUpdate DEF ledgerVars
  <2>2. /\ rides[r].state = "REQUESTED" /\ rides[r].tenant = t
        /\ rides'[r] = [tenant |-> t, passenger |-> rides[r].passenger,
                        driver |-> d, state |-> "MATCHED"]
        /\ \A s \in Ride \ {r} : rides'[s] = rides[s]
    BY <1>2, <2>1, acceptRideRow
  <2>3. q = r
    BY <2>2
  <2>4. rides[q] # NoRow
    BY <2>2, <2>3 DEF NoRow
  <2>. QED
    BY <1>0, <2>2, <2>3, <2>4
<1>3. ASSUME NEW t \in Tenant, NEW r \in Ride, markNoDriver(t, r)
      PROVE  /\ rides[q] # NoRow
             /\ canTransition(rides[q].state, rides'[q].state)
             /\ rides'[q].tenant = rides[q].tenant
             /\ rides'[q].passenger = rides[q].passenger
             /\ rides'[q].driver = rides[q].driver
  <2>1. Updatable(t, r)
    BY <1>3, NoUpdate DEF ledgerVars
  <2>2. /\ rides[r].state = "REQUESTED" /\ rides[r].tenant = t
        /\ rides'[r] = [tenant |-> t, passenger |-> rides[r].passenger,
                        driver |-> rides[r].driver, state |-> "NO_DRIVER"]
        /\ \A s \in Ride \ {r} : rides'[s] = rides[s]
    BY <1>3, <2>1, markNoDriverRow
  <2>3. q = r
    BY <2>2
  <2>4. rides[q] # NoRow
    BY <2>2, <2>3 DEF NoRow
  <2>. QED
    BY <1>0, <2>2, <2>3, <2>4
<1>4. CASE UNCHANGED ledgerVars
  BY <1>4 DEF ledgerVars
<1>. QED
  BY <1>1, <1>2, <1>3, <1>4 DEF LedgerNext

\* Every change of a row is a transition of domain/ride-state.ts; only a match
\* sets the driver.
THEOREM LedgerIsLegal == LedgerSpec => LegalTransitions
<1>1. LedgerTypeOK /\ [LedgerNext]_ledgerVars =>
        [\A r \in Ride :
          rides'[r] # rides[r] =>
              \/ rides[r] = NoRow /\ rides'[r].state = "REQUESTED"
              \/ /\ rides[r] # NoRow
                 /\ canTransition(rides[r].state, rides'[r].state)
                 /\ rides'[r].tenant = rides[r].tenant
                 /\ rides'[r].passenger = rides[r].passenger
                 /\ \/ rides'[r].driver = rides[r].driver
                    \/ rides'[r].state = "MATCHED"]_ledgerVars
  BY LegalStep
<1>. QED
  BY <1>1, LedgerTypeCorrect, PTL DEF LedgerSpec, LegalTransitions
-----------------------------------------------------------------------------
(* What the tables say of each other *)

\* The part of the inductive invariant that is not the properties themselves:
\* the transactions reach three of the states, and only a match names a driver.
RowShape ==
    \A r \in Ride :
        \/ rides[r] = NoRow
        \/ /\ rides[r].state \in {"REQUESTED", "MATCHED", "NO_DRIVER"}
           /\ rides[r].state # "MATCHED" => rides[r].driver = Nil

LedgerIInv == LedgerTypeOK /\ RowShape /\ EventsTellTheRide /\ OneEntryPerMatch

\* A settled row is never written again.
LEMMA SettledStays ==
    ASSUME LedgerTypeOK, [LedgerNext]_ledgerVars, NEW r \in Ride, Settled(r)
    PROVE  rides'[r] = rides[r]
<1>1. /\ rides[r] # NoRow
      /\ ~canTransition("MATCHED", "MATCHED")
      /\ ~canTransition("MATCHED", "NO_DRIVER")
      /\ ~canTransition("NO_DRIVER", "MATCHED")
      /\ ~canTransition("NO_DRIVER", "NO_DRIVER")
  BY DEF Settled, NoRow, canTransition, TRANSITIONS
<1>2. \A t : ~Updatable(t, r)
  BY DEF Settled, Updatable
<1>. QED
  BY <1>1, <1>2 DEF LedgerNext, requestRide, acceptRide, markNoDriver,
                    ledgerVars, LedgerTypeOK

\* What each transaction appends to the events of its ride.
LEMMA OneMoreEvent ==
    ASSUME LedgerTypeOK, NEW r \in Ride, NEW type, NEW actor,
           appendEvent(r, type, actor)
    PROVE  /\ rideEvents'[r] = Append(rideEvents[r], [type |-> type, actor |-> actor])
           /\ \A q \in Ride \ {r} : rideEvents'[q] = rideEvents[q]
BY DEF appendEvent, LedgerTypeOK

LEMMA AppendToNone ==
    ASSUME NEW a PROVE Append(<<>>, a) = <<a>>
OBVIOUS

LEMMA AppendToOne ==
    ASSUME NEW S, NEW a \in S, NEW b \in S PROVE Append(<<a>>, b) = <<a, b>>
<1>1. <<a>> \in Seq(S) /\ <<a, b>> \in Seq(S)
  OBVIOUS
<1>2. /\ Len(<<a>>) = 1 /\ Len(<<a, b>>) = 2 /\ <<a>>[1] = a
      /\ <<a, b>>[1] = a /\ <<a, b>>[2] = b
  OBVIOUS
<1>3. /\ Append(<<a>>, b) \in Seq(S) /\ Len(Append(<<a>>, b)) = 2
      /\ Append(<<a>>, b)[1] = a /\ Append(<<a>>, b)[2] = b
  BY <1>1, <1>2, AppendProperties
<1>4. \A i \in 1 .. 2 : i = 1 \/ i = 2
  OBVIOUS
<1>. QED
  BY <1>1, <1>2, <1>3, <1>4, SeqEqual

LEMMA SameStory ==
    ASSUME NEW q \in Ride, rides'[q] = rides[q] PROVE Story(q)' = Story(q)
BY DEF Story

LEMMA EventsOfRequest ==
    ASSUME LedgerIInv, NEW t \in Tenant, NEW p \in Passenger, NEW r \in Ride,
           requestRide(t, p, r)
    PROVE  EventsTellTheRide'
<1>1. /\ rideEvents'[r] = Append(rideEvents[r], [type |-> "requested", actor |-> p])
      /\ \A q \in Ride \ {r} : rideEvents'[q] = rideEvents[q]
  BY OneMoreEvent DEF requestRide, LedgerIInv
<1>2. /\ rides[r] = NoRow /\ rides'[r].state = "REQUESTED"
      /\ rides'[r].passenger = p
      /\ \A q \in Ride \ {r} : rides'[q] = rides[q]
  BY DEF requestRide, LedgerIInv, LedgerTypeOK
<1>3. rideEvents[r] = <<>>
  <2>1. rides[r].state = "ABSENT" /\ rideEvents[r] = Story(r)
    BY <1>2 DEF LedgerIInv, EventsTellTheRide, NoRow
  <2>. QED
    BY <2>1 DEF Story
<1>4. rideEvents'[r] = <<[type |-> "requested", actor |-> p]>>
  BY <1>1, <1>3, AppendToNone
<1>5. Story(r)' = <<[type |-> "requested", actor |-> p]>>
  BY <1>2 DEF Story
<1>. QED
  BY <1>1, <1>2, <1>4, <1>5, SameStory DEF LedgerIInv, EventsTellTheRide

LEMMA EventsOfSettling ==
    ASSUME LedgerIInv, NEW r \in Ride, rides[r].state = "REQUESTED",
           rides[r] \in Row, NEW type, NEW actor, appendEvent(r, type, actor),
           [type |-> type, actor |-> actor] \in Event,
           rides'[r].passenger = rides[r].passenger,
           \/ rides'[r].state = "MATCHED" /\ type = "matched" /\ rides'[r].driver = actor
           \/ rides'[r].state = "NO_DRIVER" /\ type = "no_driver" /\ actor = "system",
           \A q \in Ride \ {r} : rides'[q] = rides[q]
    PROVE  EventsTellTheRide'
<1>. DEFINE first == [type |-> "requested", actor |-> rides[r].passenger]
            second == [type |-> type, actor |-> actor]
<1>1. /\ rideEvents'[r] = Append(rideEvents[r], second)
      /\ \A q \in Ride \ {r} : rideEvents'[q] = rideEvents[q]
  BY OneMoreEvent DEF LedgerIInv
<1>2. rideEvents[r] = <<first>>
  BY DEF LedgerIInv, EventsTellTheRide, Story
<1>3. first \in Event
  BY DEF Row, Event
<1>4. rideEvents'[r] = <<first, second>>
  <2>. HIDE DEF first, second
  <2>1. second \in Event
    BY DEF second
  <2>. QED
    BY <1>1, <1>2, <1>3, <2>1, AppendToOne
<1>5. Story(r)' = <<first, second>>
  BY DEF Story
<1>. QED
  BY <1>1, <1>4, <1>5, SameStory DEF LedgerIInv, EventsTellTheRide

\* Nothing is announced by a transaction that leaves the outbox alone and
\* matches no ride.
LEMMA EntriesKept ==
    ASSUME LedgerIInv, NEW r \in Ride, outbox' = outbox,
           rides[r].state # "MATCHED", rides'[r].state # "MATCHED",
           \A q \in Ride \ {r} : rides'[q] = rides[q]
    PROVE  OneEntryPerMatch'
BY DEF LedgerIInv, OneEntryPerMatch

LEMMA EntryOfMatch ==
    ASSUME LedgerIInv, NEW t \in Tenant, NEW r \in Ride, NEW d \in DriverId,
           acceptRide(t, r, d), Updatable(t, r)
    PROVE  OneEntryPerMatch'
<1>. DEFINE entry == [tenant |-> t, ride |-> r, driver |-> d]
<1>1. /\ outbox' = Append(outbox, entry) /\ rides[r].state = "REQUESTED"
      /\ rides'[r].state = "MATCHED" /\ rides'[r].tenant = t
      /\ rides'[r].driver = d
      /\ \A q \in Ride \ {r} : rides'[q] = rides[q]
  <2>1. LedgerTypeOK
    BY DEF LedgerIInv
  <2>2. outbox' = Append(outbox, entry)
    BY DEF acceptRide
  <2>3. /\ rides[r].state = "REQUESTED"
        /\ rides'[r] = [tenant |-> t, passenger |-> rides[r].passenger,
                        driver |-> d, state |-> "MATCHED"]
        /\ \A q \in Ride \ {r} : rides'[q] = rides[q]
    BY <2>1, acceptRideRow
  <2>. QED
    BY <2>2, <2>3
<1>2. entry.ride = r
  OBVIOUS
<1>3. PICK n \in Nat : n = Len(outbox) /\ DOMAIN outbox = 1 .. n
  BY LenProperties DEF LedgerIInv, LedgerTypeOK
<1>4. entry \in OutboxEntry
  BY DEF OutboxEntry
<1>. HIDE DEF entry
<1>5. /\ DOMAIN outbox' = 1 .. n + 1
      /\ outbox'[n + 1] = entry
      /\ \A i \in 1 .. n : outbox'[i] = outbox[i]
  <2>1. /\ Append(outbox, entry) \in Seq(OutboxEntry)
        /\ Len(Append(outbox, entry)) = n + 1
        /\ Append(outbox, entry)[n + 1] = entry
        /\ \A i \in 1 .. n : Append(outbox, entry)[i] = outbox[i]
    BY <1>3, <1>4, AppendProperties DEF LedgerIInv, LedgerTypeOK
  <2>2. DOMAIN Append(outbox, entry) = 1 .. n + 1
    BY <2>1, LenProperties
  <2>. QED
    BY <1>1, <2>1, <2>2
<1>6. \A i \in 1 .. n + 1 : i \in 1 .. n \/ i = n + 1
  BY <1>3
<1>7. 1 .. n \subseteq 1 .. n + 1 /\ n + 1 \in 1 .. n + 1 /\ n + 1 \notin 1 .. n
  BY <1>3
<1>8. {i \in DOMAIN outbox : outbox[i].ride = r} = {}
  BY <1>1 DEF LedgerIInv, OneEntryPerMatch
<1>9. {i \in DOMAIN outbox' : outbox'[i].ride = r} = {n + 1}
  BY <1>2, <1>3, <1>5, <1>6, <1>7, <1>8
<1>10. \A q \in Ride \ {r} :
          {i \in DOMAIN outbox' : outbox'[i].ride = q}
          = {i \in DOMAIN outbox : outbox[i].ride = q}
  BY <1>2, <1>3, <1>5, <1>6, <1>7
<1>11. ASSUME NEW q \in Ride \ {r}
       PROVE  LET entries == {i \in DOMAIN outbox' : outbox'[i].ride = q}
              IN IF rides'[q].state = "MATCHED"
                 THEN \E i \in entries :
                         /\ entries = {i}
                         /\ outbox'[i] = [tenant |-> rides'[q].tenant, ride |-> q,
                                          driver |-> rides'[q].driver]
                 ELSE entries = {}
  <2>1. LET entries == {i \in DOMAIN outbox : outbox[i].ride = q}
        IN IF rides[q].state = "MATCHED"
           THEN \E i \in entries :
                   /\ entries = {i}
                   /\ outbox[i] = [tenant |-> rides[q].tenant, ride |-> q,
                                   driver |-> rides[q].driver]
           ELSE entries = {}
    BY DEF LedgerIInv, OneEntryPerMatch
  <2>. QED
    BY <1>1, <1>3, <1>5, <1>10, <2>1
<1>12. outbox'[n + 1] = [tenant |-> rides'[r].tenant, ride |-> r,
                         driver |-> rides'[r].driver]
  BY <1>1, <1>5 DEF entry
<1>. QED
  BY <1>1, <1>9, <1>11, <1>12 DEF OneEntryPerMatch

LEMMA LedgerInitIInv == LedgerInit => LedgerIInv
<1>. SUFFICES ASSUME LedgerInit PROVE LedgerIInv
  OBVIOUS
<1>1. LedgerTypeOK
  BY DEF LedgerInit, LedgerTypeOK
<1>2. \A r \in Ride : rides[r] = NoRow /\ rideEvents[r] = <<>>
  BY DEF LedgerInit
<1>3. EventsTellTheRide
  BY <1>2 DEF EventsTellTheRide, Story, NoRow
<1>4. OneEntryPerMatch
  <2>1. outbox = <<>> /\ DOMAIN outbox = {}
    BY DEF LedgerInit
  <2>. QED
    BY <1>2, <2>1 DEF OneEntryPerMatch, NoRow
<1>. QED
  BY <1>1, <1>2, <1>3, <1>4 DEF LedgerIInv, RowShape

LEMMA RequestKeeps ==
    ASSUME LedgerIInv, LedgerTypeOK', NEW t \in Tenant, NEW p \in Passenger,
           NEW r \in Ride, requestRide(t, p, r)
    PROVE  LedgerIInv'
<1>1. /\ rides[r] = NoRow
      /\ rides'[r] = [tenant |-> t, passenger |-> p, driver |-> Nil,
                      state |-> "REQUESTED"]
      /\ \A q \in Ride \ {r} : rides'[q] = rides[q]
  BY DEF requestRide, LedgerIInv, LedgerTypeOK
<1>2. RowShape'
  BY <1>1 DEF LedgerIInv, RowShape
<1>3. OneEntryPerMatch'
  <2>1. /\ outbox' = outbox /\ rides[r].state # "MATCHED"
        /\ rides'[r].state # "MATCHED"
    BY <1>1 DEF requestRide, NoRow
  <2>. QED
    BY <1>1, <2>1, EntriesKept
<1>. QED
  BY <1>2, <1>3, EventsOfRequest DEF LedgerIInv

LEMMA AcceptKeeps ==
    ASSUME LedgerIInv, LedgerTypeOK', NEW t \in Tenant, NEW r \in Ride,
           NEW d \in DriverId, acceptRide(t, r, d), Updatable(t, r)
    PROVE  LedgerIInv'
<1>1. /\ rides[r] \in Row /\ rides[r].state = "REQUESTED"
      /\ rides'[r] = [tenant |-> t, passenger |-> rides[r].passenger,
                      driver |-> d, state |-> "MATCHED"]
      /\ \A q \in Ride \ {r} : rides'[q] = rides[q]
  BY acceptRideRow DEF LedgerIInv
<1>2. RowShape'
  BY <1>1 DEF LedgerIInv, RowShape
<1>3. EventsTellTheRide'
  <2>1. appendEvent(r, "matched", d)
    BY DEF acceptRide
  <2>2. [type |-> "matched", actor |-> d] \in Event
    BY DEF Event
  <2>. QED
    BY <1>1, <2>1, <2>2, EventsOfSettling
<1>. QED
  BY <1>2, <1>3, EntryOfMatch DEF LedgerIInv

LEMMA GiveUpKeeps ==
    ASSUME LedgerIInv, LedgerTypeOK', NEW t \in Tenant, NEW r \in Ride,
           markNoDriver(t, r), Updatable(t, r)
    PROVE  LedgerIInv'
<1>1. /\ rides[r] \in Row /\ rides[r].state = "REQUESTED"
      /\ rides'[r] = [tenant |-> t, passenger |-> rides[r].passenger,
                      driver |-> rides[r].driver, state |-> "NO_DRIVER"]
      /\ \A q \in Ride \ {r} : rides'[q] = rides[q]
  BY markNoDriverRow DEF LedgerIInv
<1>2. RowShape'
  <2>1. rides[r].driver = Nil
    BY <1>1 DEF LedgerIInv, RowShape, NoRow
  <2>. QED
    BY <1>1, <2>1 DEF LedgerIInv, RowShape
<1>3. EventsTellTheRide'
  <2>1. appendEvent(r, "no_driver", "system")
    BY DEF markNoDriver
  <2>2. [type |-> "no_driver", actor |-> "system"] \in Event
    BY DEF Event
  <2>. QED
    BY <1>1, <2>1, <2>2, EventsOfSettling
<1>4. OneEntryPerMatch'
  BY <1>1, EntriesKept DEF markNoDriver
<1>. QED
  BY <1>2, <1>3, <1>4 DEF LedgerIInv

LEMMA LedgerNextIInv == LedgerIInv /\ [LedgerNext]_ledgerVars => LedgerIInv'
<1>. SUFFICES ASSUME LedgerIInv, [LedgerNext]_ledgerVars PROVE LedgerIInv'
  OBVIOUS
<1>1. LedgerTypeOK'
  BY LedgerNextType DEF LedgerIInv
<1>2. CASE UNCHANGED ledgerVars
  BY <1>2 DEF ledgerVars, LedgerIInv, LedgerTypeOK, RowShape,
              EventsTellTheRide, Story, OneEntryPerMatch
<1>3. CASE LedgerNext
  <2>1. PICK t \in Tenant, r \in Ride :
          \/ \E p \in Passenger : requestRide(t, p, r)
          \/ \E d \in DriverId : acceptRide(t, r, d)
          \/ markNoDriver(t, r)
    BY <1>3 DEF LedgerNext
  <2>2. CASE \E p \in Passenger : requestRide(t, p, r)
    BY <1>1, <2>2, RequestKeeps
  <2>3. CASE \E d \in DriverId : acceptRide(t, r, d)
    BY <1>1, <1>2, <2>3, AcceptKeeps, NoUpdate
  <2>4. CASE markNoDriver(t, r)
    BY <1>1, <1>2, <2>4, GiveUpKeeps, NoUpdate
  <2>. QED
    BY <2>1, <2>2, <2>3, <2>4
<1>. QED
  BY <1>2, <1>3

\* Rows, events and outbox entries say the same of every ride: each change of
\* a row commits with its ride event, and a match with its one outbox entry.
THEOREM LedgerInvariant == LedgerSpec => []LedgerIInv
BY LedgerInitIInv, LedgerNextIInv, PTL DEF LedgerSpec

\* The events of a ride tell how it came to its present state.
THEOREM EventsAreTheStory == LedgerSpec => []EventsTellTheRide
BY LedgerInvariant, PTL DEF LedgerIInv

\* A matched ride has one outbox entry, any other ride none.
THEOREM OneEntryForEachMatch == LedgerSpec => []OneEntryPerMatch
BY LedgerInvariant, PTL DEF LedgerIInv
=============================================================================
