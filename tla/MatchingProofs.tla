--------------------------- MODULE MatchingProofs ---------------------------
(***************************************************************************)
(* Who has a ride in hand: the inductive invariant of Matching, and the    *)
(* safety properties it implies, for every value of the constants.         *)
(* Matching changes the tables only by RidesService's transactions, so all *)
(* that RideLedgerProofs shows holds of it; Redis and the announcements    *)
(* follow the tables; and matching is an OfferLoop.                        *)
(*                                                                         *)
(* Every action works on at most one ride.  A ride no action touches keeps *)
(* its custody (CustodyFrame); for the ride an action works on, its        *)
(* custody before the step says which timer or call acted, and the step    *)
(* hands the ride on (the lemmas named after the actions).                 *)
(***************************************************************************)
EXTENDS Matching, RideLedgerProofs, FiniteSetTheorems
-----------------------------------------------------------------------------
(* Sequences of drivers asked and to be asked *)

\* Sending the next offer moves one driver from remaining to offered.
LEMMA AskOne ==
    ASSUME NEW S, NEW s \in Seq(S), NEW q \in Seq(S), q # <<>>
    PROVE  /\ Append(s, Head(q)) \o Tail(q) = s \o q
           /\ Append(s, Head(q)) \in Seq(S)
           /\ Append(s, Head(q)) # <<>>
           /\ Append(s, Head(q))[Len(Append(s, Head(q)))] = Head(q)
           /\ Len(Append(s, Head(q))) + Len(Tail(q)) = Len(s) + Len(q)
<1>1. /\ Head(q) \in S /\ Tail(q) \in Seq(S)
      /\ Len(Tail(q)) = Len(q) - 1
      /\ \A i \in 1 .. Len(Tail(q)) : Tail(q)[i] = q[i + 1]
  BY HeadTailProperties
<1>2. Len(q) \in Nat \ {0} /\ Len(s) \in Nat
  BY EmptySeq, LenProperties
<1>. DEFINE a == Append(s, Head(q))
<1>3. /\ a \in Seq(S) /\ Len(a) = Len(s) + 1
      /\ a[Len(s) + 1] = Head(q)
      /\ \A i \in 1 .. Len(s) : a[i] = s[i]
  BY <1>1, <1>2, AppendProperties
<1>. HIDE DEF a
<1>4. Head(q) = q[1]
  BY <1>2
<1>5. /\ a \o Tail(q) \in Seq(S)
      /\ Len(a \o Tail(q)) = Len(a) + Len(Tail(q))
      /\ \A i \in 1 .. Len(a) + Len(Tail(q)) :
            (a \o Tail(q))[i] = IF i <= Len(a) THEN a[i] ELSE Tail(q)[i - Len(a)]
  BY <1>1, <1>3, ConcatProperties
<1>6. /\ s \o q \in Seq(S)
      /\ Len(s \o q) = Len(s) + Len(q)
      /\ \A i \in 1 .. Len(s) + Len(q) :
            (s \o q)[i] = IF i <= Len(s) THEN s[i] ELSE q[i - Len(s)]
  BY ConcatProperties
<1>7. \A i \in 1 .. Len(s) + Len(q) : (a \o Tail(q))[i] = (s \o q)[i]
  <2>. TAKE i \in 1 .. Len(s) + Len(q)
  <2>1. CASE i <= Len(s)
    BY <2>1, <1>1, <1>2, <1>3, <1>5, <1>6
  <2>2. CASE i = Len(s) + 1
    BY <2>2, <1>1, <1>2, <1>3, <1>4, <1>5, <1>6
  <2>3. CASE i > Len(s) + 1
    <3>1. i - Len(a) \in 1 .. Len(Tail(q)) /\ i - Len(a) + 1 = i - Len(s)
      BY <2>3, <1>1, <1>2, <1>3
    <3>. QED
      BY <2>3, <3>1, <1>1, <1>2, <1>3, <1>5, <1>6
  <2>4. i <= Len(s) \/ i = Len(s) + 1 \/ i > Len(s) + 1
    BY <1>2
  <2>. QED BY <2>1, <2>2, <2>3, <2>4
<1>8. a \o Tail(q) = s \o q
  BY SMTT(20), <1>1, <1>2, <1>3, <1>5, <1>6, <1>7, SeqEqual
<1>9. a # <<>>
  BY <1>2, <1>3, EmptySeq
<1>. QED
  BY <1>1, <1>2, <1>3, <1>8, <1>9 DEF a

\* If s \o q repeats nothing then neither does s.
LEMMA InjectivePrefix ==
    ASSUME NEW S, NEW s \in Seq(S), NEW q \in Seq(S), IsInjective(s \o q)
    PROVE  IsInjective(s \o <<>>)
<1>1. s \o <<>> = s
  BY ConcatEmptySeq
<1>2. SUFFICES ASSUME NEW i \in DOMAIN s, NEW j \in DOMAIN s, s[i] = s[j]
               PROVE  i = j
  BY <1>1 DEF IsInjective
<1>3. /\ i \in 1 .. Len(s) /\ j \in 1 .. Len(s)
      /\ Len(s) \in Nat /\ Len(q) \in Nat
  BY LenProperties
<1>4. /\ s \o q \in Seq(S) /\ DOMAIN (s \o q) = 1 .. Len(s) + Len(q)
      /\ (s \o q)[i] = s[i] /\ (s \o q)[j] = s[j]
  BY <1>3, ConcatProperties, LenProperties
<1>. QED
  BY <1>2, <1>3, <1>4 DEF IsInjective
-----------------------------------------------------------------------------
USE NilIsNoId, MatchingAssumption

(* Type correctness *)

LEMMA AwaitType ==
    ASSUME NEW op \in {"geosearch", "markNoDriver"},
           NEW r \in Ride, NEW t \in Tenant
    PROVE  Await(op, r, t) \in Call
BY DEF Await, Call, DatabaseOp, RedisOp

\* What offerNext leaves has the right type if what it was given has.
LEMMA offerNextType ==
    ASSUME TypeOK, NEW r \in Ride, NEW t \in Tenant,
           NEW remaining \in Seq(DriverId),
           NEW heldCalls \in SUBSET Call, NEW heldTimers \in SUBSET Timer,
           NEW heldPending \in [Ride -> PendingOffer \cup {NoOffer}],
           offerNext(r, t, remaining, heldCalls, heldTimers, heldPending)
    PROVE  /\ calls' \subseteq Call
           /\ timers' \subseteq Timer
           /\ pending' \in [Ride -> PendingOffer \cup {NoOffer}]
           /\ offered' \in [Ride -> Seq(DriverId)]
<1>1. CASE remaining = <<>>
  <2>1. Await("markNoDriver", r, t) \in Call
    BY AwaitType
  <2>. QED
    BY <1>1, <2>1 DEF offerNext, TypeOK
<1>2. CASE remaining # <<>>
  <2>. DEFINE timer == [ride |-> r, tenant |-> t, rest |-> Tail(remaining)]
  <2>1. Head(remaining) \in DriverId /\ Tail(remaining) \in Seq(DriverId)
    BY <1>2, HeadTailProperties
  <2>2. timer \in Timer
    BY <2>1 DEF Timer
  <2>3. [tenant |-> t, driver |-> Head(remaining), timer |-> timer] \in PendingOffer
    BY <2>1, <2>2 DEF PendingOffer
  <2>4. \A q \in Ride : Append(offered[q], Head(remaining)) \in Seq(DriverId)
    BY <2>1, AppendProperties DEF TypeOK
  <2>. HIDE DEF timer
  <2>5. /\ calls' = heldCalls
        /\ timers' = heldTimers \cup {timer}
        /\ pending' = [heldPending EXCEPT ![r] =
               [tenant |-> t, driver |-> Head(remaining), timer |-> timer]]
        /\ offered' = [offered EXCEPT ![r] = Append(@, Head(remaining))]
    BY <1>2 DEF offerNext, timer
  <2>. QED
    BY <2>2, <2>3, <2>4, <2>5 DEF TypeOK
<1>. QED BY <1>1, <1>2

LEMMA InitType == Init => TypeOK
<1>. SUFFICES ASSUME Init PROVE TypeOK
  OBVIOUS
<1>1. LedgerTypeOK
  BY DEF Init, LedgerInit, LedgerTypeOK
<1>. QED
  BY <1>1 DEF Init, TypeOK, EmptyKeys

\* Members of calls and timers, and the values of pending, taken apart.
LEMMA CallFields ==
    ASSUME TypeOK, NEW c \in calls
    PROVE  /\ c \in Call /\ c.ride \in Ride /\ c.tenant \in Tenant
           /\ c.drivers \subseteq DriverId
           /\ c.op \in {"accept", "multi"} => c.driver \in DriverId
BY DEF TypeOK, Call

LEMMA TimerFields ==
    ASSUME TypeOK, NEW timer \in timers
    PROVE  /\ timer.ride \in Ride /\ timer.tenant \in Tenant
           /\ timer.rest \in Seq(DriverId)
BY DEF TypeOK, Timer

\* A shortlist is a sequence of the drivers it is made from.
LEMMA ShortlistType ==
    ASSUME NEW candidates \in SUBSET DriverId, NEW list \in Shortlists(candidates)
    PROVE  list \in Seq(DriverId)
<1>1. Cardinality(candidates) \in Nat
  BY FS_Subset, FS_CardinalityType
<1>2. PICK size \in Nat : list \in [1 .. size -> candidates]
  BY <1>1 DEF Shortlists
<1>. QED
  BY <1>2, SeqDef

LEMMA NextType == TypeOK /\ [Next]_vars => TypeOK'
<1>. SUFFICES ASSUME TypeOK, [Next]_vars PROVE TypeOK'
  OBVIOUS
<1>. USE DEF redis, sent, memory
<1>1. ASSUME NEW t \in Tenant, NEW d \in DriverId, recordLocation(t, d)
      PROVE  TypeOK'
  BY <1>1 DEF recordLocation, TypeOK, LedgerTypeOK, ledgerVars
<1>2. ASSUME NEW t \in Tenant, NEW p \in Passenger, NEW r \in Ride,
             Request(t, p, r)
      PROVE  TypeOK'
  <2>1. LedgerTypeOK'
    BY <1>2, requestRideType DEF Request, TypeOK
  <2>2. Await("geosearch", r, t) \in Call
    BY AwaitType
  <2>. QED
    BY <1>2, <2>1, <2>2 DEF Request, TypeOK
<1>3. ASSUME NEW t \in Tenant, NEW p \in Passenger, NEW r \in Ride,
             RequestUnanswered(t, p, r)
      PROVE  TypeOK'
  <2>1. LedgerTypeOK'
    BY <1>3, requestRideType DEF RequestUnanswered, TypeOK
  <2>. QED
    BY <1>3, <2>1 DEF RequestUnanswered, TypeOK
<1>4. ASSUME NEW t \in Tenant, NEW d \in DriverId, NEW r \in Ride,
             Accept(t, d, r)
      PROVE  TypeOK'
  <2>1. [Await("accept", r, t) EXCEPT !.driver = d] \in Call
    BY DEF Await, Call, DatabaseOp, NoOffer
  <2>. QED
    BY <1>4, <2>1 DEF Accept, clearTimeout, TypeOK, LedgerTypeOK, ledgerVars
<1>5. ASSUME NEW timer \in timers, TimerFires(timer)
      PROVE  TypeOK'
  <2>1. [pending EXCEPT ![timer.ride] = NoOffer]
            \in [Ride -> PendingOffer \cup {NoOffer}]
    BY DEF TypeOK
  <2>2. /\ calls' \subseteq Call
        /\ timers' \subseteq Timer
        /\ pending' \in [Ride -> PendingOffer \cup {NoOffer}]
        /\ offered' \in [Ride -> Seq(DriverId)]
    <3>1. calls \in SUBSET Call /\ timers \ {timer} \in SUBSET Timer
      BY DEF TypeOK
    <3>. QED
      BY <1>5, <2>1, <3>1, TimerFields, offerNextType DEF TimerFires
  <2>. QED
    BY <1>5, <2>2 DEF TimerFires, TypeOK, LedgerTypeOK, ledgerVars
<1>6. ASSUME NEW c \in calls, SearchNearby(c)
      PROVE  TypeOK'
  <2>. PICK near \in SUBSET geo[c.tenant] :
          \/ /\ Resume(c, {[c EXCEPT !.op = "smismember", !.drivers = near]})
             /\ UNCHANGED <<pending, timers, offered>>
          \/ offerNext(c.ride, c.tenant, <<>>, calls \ {c}, timers, pending)
    BY <1>6 DEF SearchNearby
  <2>1. near \subseteq DriverId
    BY CallFields DEF TypeOK
  <2>2. CASE Resume(c, {[c EXCEPT !.op = "smismember", !.drivers = near]})
             /\ UNCHANGED <<pending, timers, offered>>
    <3>1. [c EXCEPT !.op = "smismember", !.drivers = near] \in Call
      BY <1>6, <2>1, CallFields DEF SearchNearby, Call, RedisOp
    <3>. QED
      BY <1>6, <2>2, <3>1 DEF SearchNearby, Resume, TypeOK, LedgerTypeOK, ledgerVars
  <2>3. CASE offerNext(c.ride, c.tenant, <<>>, calls \ {c}, timers, pending)
    <3>1. /\ calls \ {c} \in SUBSET Call /\ timers \in SUBSET Timer
          /\ pending \in [Ride -> PendingOffer \cup {NoOffer}]
          /\ <<>> \in Seq(DriverId)
      BY EmptySeq DEF TypeOK
    <3>2. /\ calls' \subseteq Call
          /\ timers' \subseteq Timer
          /\ pending' \in [Ride -> PendingOffer \cup {NoOffer}]
          /\ offered' \in [Ride -> Seq(DriverId)]
      BY <2>3, <3>1, CallFields, offerNextType
    <3>. QED
      BY <1>6, <3>2 DEF SearchNearby, TypeOK, LedgerTypeOK, ledgerVars
  <2>. QED BY <2>2, <2>3
<1>7. ASSUME NEW c \in calls, FilterBusy(c)
      PROVE  TypeOK'
  <2>1. [c EXCEPT !.op = "rank", !.drivers = @ \ busy[c.tenant]] \in Call
    BY <1>7, CallFields DEF FilterBusy, Call, LocalOp
  <2>. QED
    BY <1>7, <2>1 DEF FilterBusy, Resume, TypeOK, LedgerTypeOK, ledgerVars
<1>8. ASSUME NEW c \in calls, OfferRanked(c)
      PROVE  TypeOK'
  <2>. PICK ranked \in Shortlists(c.drivers) :
          offerNext(c.ride, c.tenant, ranked, calls \ {c}, timers, pending)
    BY <1>8 DEF OfferRanked
  <2>1. ranked \in Seq(DriverId)
    BY CallFields, ShortlistType
  <2>2. /\ calls \ {c} \in SUBSET Call /\ timers \in SUBSET Timer
        /\ pending \in [Ride -> PendingOffer \cup {NoOffer}]
    BY DEF TypeOK
  <2>3. /\ calls' \subseteq Call
        /\ timers' \subseteq Timer
        /\ pending' \in [Ride -> PendingOffer \cup {NoOffer}]
        /\ offered' \in [Ride -> Seq(DriverId)]
    BY <2>1, <2>2, CallFields, offerNextType
  <2>. QED
    BY <1>8, <2>3 DEF OfferRanked, TypeOK, LedgerTypeOK, ledgerVars
<1>9. ASSUME NEW c \in calls, CommitAccept(c)
      PROVE  TypeOK'
  <2>1. c.op = "accept" /\ acceptRide(c.tenant, c.ride, c.driver)
    BY <1>9 DEF CommitAccept
  <2>2. LedgerTypeOK'
    BY <2>1, CallFields, acceptRideType DEF TypeOK
  <2>3. [c EXCEPT !.op = "multi"] \in Call
    BY <2>1, CallFields DEF Call, RedisOp
  <2>. QED
    BY <1>9, <2>2, <2>3 DEF CommitAccept, Resume, TypeOK
<1>10. ASSUME NEW c \in calls, AssignDriver(c)
       PROVE  TypeOK'
  BY <1>10, CallFields DEF AssignDriver, Resume, TypeOK, LedgerTypeOK, ledgerVars
<1>11. ASSUME NEW c \in calls, CommitNoDriver(c)
       PROVE  TypeOK'
  <2>1. LedgerTypeOK'
    BY <1>11, CallFields, markNoDriverType DEF CommitNoDriver, TypeOK
  <2>2. [c EXCEPT !.op = "announce"] \in Call
    BY <1>11, CallFields DEF CommitNoDriver, Call, LocalOp
  <2>. QED
    BY <1>11, <2>1, <2>2 DEF CommitNoDriver, Resume, TypeOK
<1>12. ASSUME NEW c \in calls, AnnounceNoDriver(c)
       PROVE  TypeOK'
  BY <1>12, CallFields DEF AnnounceNoDriver, Resume, TypeOK, LedgerTypeOK, ledgerVars
<1>13. ASSUME NEW c \in calls, CallRejects(c)
       PROVE  TypeOK'
  BY <1>13 DEF CallRejects, Resume, TypeOK, LedgerTypeOK, ledgerVars
<1>14. ASSUME NEW c \in calls, CommitUnanswered(c)
       PROVE  TypeOK'
  <2>1. LedgerTypeOK'
    BY <1>14, CallFields, acceptRideType, markNoDriverType
    DEF CommitUnanswered, TypeOK
  <2>. QED
    BY <1>14, <2>1 DEF CommitUnanswered, Resume, TypeOK
<1>15. CASE RedisRestarts
  BY <1>15 DEF RedisRestarts, EmptyKeys, TypeOK, LedgerTypeOK, ledgerVars
<1>16. CASE ProcessRestarts
  BY <1>16 DEF ProcessRestarts, TypeOK, LedgerTypeOK, ledgerVars
<1>17. CASE UNCHANGED vars
  BY <1>17 DEF vars, TypeOK, LedgerTypeOK, ledgerVars
<1>. QED
  BY <1>1, <1>2, <1>3, <1>4, <1>5, <1>6, <1>7, <1>8, <1>9, <1>10, <1>11,
     <1>12, <1>13, <1>14, <1>15, <1>16, <1>17 DEF Next, Continue

\* Every row, event, outbox entry, offer, timer, awaited call and Redis key
\* keeps the shape the code expects of it, whatever fails.
THEOREM TypeCorrect == Spec => []TypeOK
BY InitType, NextType, PTL DEF Spec
-----------------------------------------------------------------------------
(* Rides that a step leaves alone *)

Untouched(q) ==
    /\ rides'[q] = rides[q]
    /\ offered'[q] = offered[q]
    /\ pending'[q] = pending[q]
    /\ TimersOf(q)' = TimersOf(q)
    /\ CallsOf(q)' = CallsOf(q)

LEMMA CustodyFrame ==
    ASSUME NEW q \in Ride, Custody(q), Untouched(q)
    PROVE  Custody(q)'
<1>. USE DEF Untouched
<1>1. Idle(q) => Idle(q)'
  BY DEF Idle
<1>2. LastOffered(q)' = LastOffered(q)
  BY DEF LastOffered
<1>3. \A remaining : MayAsk(q, remaining)' <=> MayAsk(q, remaining)
  BY DEF MayAsk
<1>4. OfferOut(q) => OfferOut(q)'
  <2>. SUFFICES ASSUME OfferOut(q) PROVE OfferOut(q)'
    OBVIOUS
  <2>. PICK timer \in timers :
          /\ TimersOf(q) = {timer}
          /\ pending[q] = [tenant |-> rides[q].tenant,
                           driver |-> LastOffered(q), timer |-> timer]
          /\ timer.tenant = rides[q].tenant
          /\ MayAsk(q, timer.rest)
    BY DEF OfferOut
  <2>1. timer \in timers'
    BY DEF TimersOf
  <2>2. MayAsk(q, timer.rest)'
    BY DEF MayAsk
  <2>. QED
    BY <1>2, <2>1, <2>2 DEF OfferOut
<1>5. CallOut(q) => CallOut(q)'
  <2>. SUFFICES ASSUME CallOut(q) PROVE CallOut(q)'
    OBVIOUS
  <2>. PICK c \in calls : CallsOf(q) = {c} /\ CallFits(c)
    BY DEF CallOut
  <2>1. c \in calls' /\ c.ride = q
    BY DEF CallsOf
  <2>2. CallFits(c)'
    BY <2>1, <1>2 DEF CallFits, Visible, MayAsk
  <2>. QED
    BY <2>1, <2>2 DEF CallOut
<1>6. Idle(q)' => Idle(q)
  BY DEF Idle
<1>. QED
  BY <1>1, <1>2, <1>4, <1>5, <1>6 DEF Custody

LEMMA OneRide ==
    ASSUME IInv, TypeOK', NEW r \in Ride,
           \A q \in Ride \ {r} : Untouched(q), Custody(r)'
    PROVE  IInv'
BY CustodyFrame DEF IInv

\* The transactions change no row but the one they name.
LEMMA OtherRows ==
    ASSUME LedgerTypeOK, NEW t, NEW r \in Ride, NEW d, NEW p,
           \/ acceptRide(t, r, d)
           \/ markNoDriver(t, r)
           \/ requestRide(t, p, r)
           \/ UNCHANGED ledgerVars
    PROVE  \A q \in Ride \ {r} : rides'[q] = rides[q]
BY DEF acceptRide, markNoDriver, requestRide, LedgerTypeOK, ledgerVars

\* Resuming a call changes no other ride's calls, and leaves this ride the
\* calls made next.
LEMMA ResumeCalls ==
    ASSUME NEW r \in Ride, NEW c \in calls, CallsOf(r) = {c},
           NEW next, \A n \in next : n.ride = r, Resume(c, next)
    PROVE  /\ CallsOf(r)' = next
           /\ \A q \in Ride \ {r} : CallsOf(q)' = CallsOf(q)
BY DEF Resume, CallsOf

LEMMA EmptyMayAsk ==
    ASSUME NEW r \in Ride, offered[r] = <<>>
    PROVE  MayAsk(r, <<>>)
<1>1. <<>> \o <<>> = <<>> /\ Len(<<>>) = 0 /\ DOMAIN <<>> = 1 .. 0
  <2>1. <<>> \in Seq(Ride)
    BY EmptySeq
  <2>. QED BY <2>1, ConcatEmptySeq, EmptySeq, LenProperties
<1>2. IsInjective(<<>>)
  BY <1>1 DEF IsInjective
<1>. QED
  BY <1>1, <1>2 DEF MayAsk

\* Whoever may ask more drivers may also ask none.
LEMMA NobodyNext ==
    ASSUME NEW r \in Ride, NEW rest \in Seq(DriverId),
           offered[r] \in Seq(DriverId), MayAsk(r, rest)
    PROVE  MayAsk(r, <<>>)
<1>1. IsInjective(offered[r] \o <<>>)
  BY InjectivePrefix DEF MayAsk
<1>2. PICK n \in Nat, k \in Nat : n = Len(offered[r]) /\ k = Len(rest)
  BY LenProperties
<1>3. n + k <= MAX_OFFERS
  BY <1>2 DEF MayAsk
<1>4. n + 0 <= MAX_OFFERS
  BY <1>3
<1>5. Len(<<>>) = 0
  BY EmptySeq
<1>. QED
  BY <1>1, <1>2, <1>4, <1>5 DEF MayAsk

\* The call that acts is the only holder of its ride.
LEMMA ActingCall ==
    ASSUME IInv, NEW c \in calls
    PROVE  /\ c.ride \in Ride
           /\ TimersOf(c.ride) = {} /\ pending[c.ride] = NoOffer
           /\ CallsOf(c.ride) = {c} /\ CallFits(c)
           /\ rides[c.ride] # NoRow
<1>1. c \in CallsOf(c.ride) /\ c.ride \in Ride
  BY CallFields DEF CallsOf, IInv
<1>2. CallOut(c.ride)
  BY <1>1 DEF IInv, Custody, Idle, OfferOut
<1>3. rides[c.ride] # NoRow
  BY <1>1 DEF IInv, Custody, Idle
<1>. QED
  BY <1>1, <1>2, <1>3 DEF CallOut
-----------------------------------------------------------------------------
(* offerNext: the ride it is given goes to a timer or to markNoDriver *)

LEMMA offerNextCustody ==
    ASSUME TypeOK, NEW r \in Ride, NEW t \in Tenant,
           NEW remaining \in Seq(DriverId),
           NEW heldCalls, NEW heldTimers,
           NEW heldPending \in [Ride -> PendingOffer \cup {NoOffer}],
           \A c \in heldCalls : c.ride # r,
           \A timer \in heldTimers : timer.ride # r,
           heldPending[r] = NoOffer,
           rides' = rides, rides[r].state = "REQUESTED", Visible(t, r),
           MayAsk(r, remaining),
           offerNext(r, t, remaining, heldCalls, heldTimers, heldPending)
    PROVE  /\ Custody(r)'
           /\ \A q \in Ride \ {r} :
                 /\ offered'[q] = offered[q]
                 /\ pending'[q] = heldPending[q]
                 /\ TimersOf(q)' = {timer \in heldTimers : timer.ride = q}
                 /\ CallsOf(q)' = {c \in heldCalls : c.ride = q}
<1>1. rides[r] # NoRow
  BY DEF NoRow
<1>2. CASE remaining = <<>>
  <2>. DEFINE next == Await("markNoDriver", r, t)
  <2>1. /\ calls' = heldCalls \cup {next}
        /\ timers' = heldTimers /\ pending' = heldPending /\ offered' = offered
    BY <1>2 DEF offerNext
  <2>2. next.ride = r /\ next.tenant = t /\ next.op = "markNoDriver"
    BY DEF Await
  <2>. HIDE DEF next
  <2>3. CallsOf(r)' = {next} /\ TimersOf(r)' = {} /\ next \in calls'
    BY <2>1, <2>2 DEF CallsOf, TimersOf
  <2>4. CallFits(next)'
    BY <1>2, <2>1, <2>2 DEF CallFits, Visible, MayAsk
  <2>5. CallOut(r)' /\ ~Idle(r)'
    BY <2>1, <2>3, <2>4 DEF CallOut, Idle
  <2>6. Custody(r)'
    BY <1>1, <2>5 DEF Custody
  <2>. QED
    BY <2>1, <2>2, <2>6 DEF TimersOf, CallsOf
<1>3. CASE remaining # <<>>
  <2>. DEFINE next == [ride |-> r, tenant |-> t, rest |-> Tail(remaining)]
  <2>1. /\ calls' = heldCalls
        /\ timers' = heldTimers \cup {next}
        /\ pending' = [heldPending EXCEPT ![r] =
               [tenant |-> t, driver |-> Head(remaining), timer |-> next]]
        /\ offered' = [offered EXCEPT ![r] = Append(@, Head(remaining))]
    BY <1>3 DEF offerNext
  <2>2. next.ride = r /\ next.tenant = t /\ next.rest = Tail(remaining)
    OBVIOUS
  <2>. HIDE DEF next
  <2>3. /\ offered[r] \in Seq(DriverId)
        /\ offered'[r] = Append(offered[r], Head(remaining))
    BY <2>1 DEF TypeOK
  <2>4. /\ offered'[r] \o Tail(remaining) = offered[r] \o remaining
        /\ offered'[r] # <<>> /\ LastOffered(r)' = Head(remaining)
        /\ Len(offered'[r]) + Len(Tail(remaining)) =
              Len(offered[r]) + Len(remaining)
    BY SMTT(20), <1>3, <2>3, AskOne DEF LastOffered
  <2>5. CallsOf(r)' = {} /\ TimersOf(r)' = {next} /\ next \in timers'
    BY <2>1, <2>2 DEF CallsOf, TimersOf
  <2>6. MayAsk(r, next.rest)'
    BY <2>2, <2>4 DEF MayAsk
  <2>7. pending'[r] = [tenant |-> rides'[r].tenant,
                       driver |-> LastOffered(r)', timer |-> next]
    BY <2>1, <2>4 DEF Visible
  <2>8. OfferOut(r)' /\ ~Idle(r)'
    BY <2>2, <2>4, <2>5, <2>6, <2>7 DEF OfferOut, Idle, Visible
  <2>9. Custody(r)'
    BY <1>1, <2>8 DEF Custody
  <2>. QED
    BY <2>1, <2>2, <2>9 DEF TimersOf, CallsOf, TypeOK
<1>. QED BY <1>2, <1>3
-----------------------------------------------------------------------------
(* The steps of a request and of the search for drivers *)

LEMMA RequestCustody ==
    ASSUME IInv, TypeOK', NEW t \in Tenant, NEW p \in Passenger, NEW r \in Ride,
           Request(t, p, r)
    PROVE  IInv'
<1>. DEFINE next == Await("geosearch", r, t)
<1>1. next.ride = r /\ next.tenant = t /\ next.op = "geosearch"
  BY DEF Await
<1>. HIDE DEF next
<1>2. /\ requestRide(t, p, r) /\ calls' = calls \cup {next}
      /\ UNCHANGED <<pending, timers, offered>>
  BY DEF Request, next, sent
<1>3. Idle(r) /\ offered[r] = <<>>
  BY <1>2 DEF requestRide, IInv, Custody
<1>4. rides'[r].tenant = t /\ rides'[r].state = "REQUESTED" /\ rides'[r] # NoRow
  BY <1>2 DEF requestRide, IInv, TypeOK, LedgerTypeOK, NoRow
<1>5. \A q \in Ride \ {r} : Untouched(q)
  <2>1. \A q \in Ride \ {r} : rides'[q] = rides[q]
    BY <1>2, OtherRows DEF IInv, TypeOK
  <2>. QED
    BY <1>1, <1>2, <2>1 DEF Untouched, TimersOf, CallsOf
<1>6. CallsOf(r)' = {next} /\ TimersOf(r)' = {} /\ next \in calls'
  BY <1>1, <1>2, <1>3 DEF Idle, CallsOf, TimersOf
<1>7. MayAsk(r, <<>>)'
  BY <1>2, <1>3, EmptyMayAsk DEF MayAsk
<1>8. CallFits(next)'
  BY <1>1, <1>2, <1>3, <1>4, <1>7 DEF CallFits, Visible
<1>9. CallOut(r)' /\ ~Idle(r)'
  BY <1>2, <1>3, <1>6, <1>8 DEF CallOut, Idle
<1>10. Custody(r)'
  BY <1>4, <1>9 DEF Custody
<1>. QED
  BY <1>5, <1>10, OneRide

LEMMA RequestUnansweredCustody ==
    ASSUME IInv, TypeOK', NEW t \in Tenant, NEW p \in Passenger, NEW r \in Ride,
           RequestUnanswered(t, p, r)
    PROVE  IInv'
<1>1. /\ requestRide(t, p, r) /\ Faults # {}
      /\ UNCHANGED <<pending, timers, calls, offered>>
  BY DEF RequestUnanswered, sent, memory
<1>2. Idle(r) /\ offered[r] = <<>>
  BY <1>1 DEF requestRide, IInv, Custody
<1>3. rides'[r].state = "REQUESTED" /\ rides'[r] # NoRow
  BY <1>1 DEF requestRide, IInv, TypeOK, LedgerTypeOK, NoRow
<1>4. \A q \in Ride \ {r} : Untouched(q)
  <2>1. \A q \in Ride \ {r} : rides'[q] = rides[q]
    BY <1>1, OtherRows DEF IInv, TypeOK
  <2>. QED
    BY <1>1, <2>1 DEF Untouched, TimersOf, CallsOf
<1>5. Custody(r)'
  BY <1>1, <1>2, <1>3 DEF Custody, Idle, TimersOf, CallsOf
<1>. QED
  BY <1>4, <1>5, OneRide

\* A call whose answer only leads to the next call, for the same ride and
\* tenant, hands its ride on to that call.
LEMMA HandOver ==
    ASSUME IInv, TypeOK', NEW c \in calls, NEW next,
           Resume(c, {next}), next.ride = c.ride,
           UNCHANGED <<pending, timers, offered>>,
           \A q \in Ride \ {c.ride} : rides'[q] = rides[q],
           CallFits(next)', rides'[c.ride] # NoRow,
           rides'[c.ride].state = "MATCHED" =>
              /\ offered[c.ride] # <<>>
              /\ rides'[c.ride].driver = LastOffered(c.ride)
    PROVE  IInv'
<1>. DEFINE r == c.ride
<1>1. /\ r \in Ride /\ TimersOf(r) = {} /\ pending[r] = NoOffer
      /\ CallsOf(r) = {c}
  BY ActingCall
<1>2. /\ CallsOf(r)' = {next}
      /\ \A q \in Ride \ {r} : CallsOf(q)' = CallsOf(q)
  BY <1>1, ResumeCalls
<1>3. \A q \in Ride \ {r} : Untouched(q)
  BY <1>2 DEF Untouched, TimersOf
<1>4. CallOut(r)' /\ ~Idle(r)'
  <2>1. next \in calls'
    BY <1>2 DEF CallsOf
  <2>. QED
    BY <1>1, <1>2, <2>1 DEF CallOut, Idle, TimersOf
<1>5. Custody(r)'
  BY <1>4 DEF Custody, LastOffered
<1>. QED
  BY <1>1, <1>3, <1>5, OneRide

\* A call that ends without a next one leaves its ride in nobody's hands.
LEMMA LetGo ==
    ASSUME IInv, TypeOK', NEW c \in calls, Resume(c, {}),
           UNCHANGED <<pending, timers, offered>>,
           \A q \in Ride \ {c.ride} : rides'[q] = rides[q],
           rides'[c.ride] # NoRow,
           Faults = {} => rides'[c.ride].state # "REQUESTED",
           rides'[c.ride].state = "MATCHED" =>
              /\ offered[c.ride] # <<>>
              /\ rides'[c.ride].driver = LastOffered(c.ride)
    PROVE  IInv'
<1>. DEFINE r == c.ride
<1>1. /\ r \in Ride /\ TimersOf(r) = {} /\ pending[r] = NoOffer
      /\ CallsOf(r) = {c}
  BY ActingCall
<1>2. /\ CallsOf(r)' = {}
      /\ \A q \in Ride \ {r} : CallsOf(q)' = CallsOf(q)
  BY <1>1, ResumeCalls
<1>3. \A q \in Ride \ {r} : Untouched(q)
  BY <1>2 DEF Untouched, TimersOf
<1>4. Idle(r)'
  BY <1>1, <1>2 DEF Idle, TimersOf
<1>5. Custody(r)'
  BY <1>4 DEF Custody, LastOffered
<1>. QED
  BY <1>1, <1>3, <1>5, OneRide

LEMMA SearchNearbyCustody ==
    ASSUME IInv, TypeOK', NEW c \in calls, SearchNearby(c)
    PROVE  IInv'
<1>. DEFINE r == c.ride
<1>1. /\ r \in Ride /\ c.tenant \in Tenant
      /\ TimersOf(r) = {} /\ pending[r] = NoOffer
      /\ CallsOf(r) = {c} /\ CallFits(c) /\ rides[r] # NoRow
  BY ActingCall, CallFields DEF IInv
<1>2. c.op = "geosearch" /\ rides' = rides
  BY DEF SearchNearby, ledgerVars
<1>3. rides[r].state = "REQUESTED" /\ offered[r] = <<>> /\ Visible(c.tenant, r)
  BY <1>1, <1>2 DEF CallFits
<1>4. ASSUME NEW near \in SUBSET geo[c.tenant],
             Resume(c, {[c EXCEPT !.op = "smismember", !.drivers = near]}),
             UNCHANGED <<pending, timers, offered>>
      PROVE  IInv'
  <2>. DEFINE next == [c EXCEPT !.op = "smismember", !.drivers = near]
  <2>1. next.ride = r /\ next.tenant = c.tenant /\ next.op = "smismember"
    BY CallFields DEF IInv, Call
  <2>2. Resume(c, {next})
    BY <1>4
  <2>. HIDE DEF next
  <2>3. CallFits(next)'
    BY <1>1, <1>2, <1>3, <1>4, <2>1 DEF CallFits, Visible, MayAsk
  <2>. QED
    BY <1>1, <1>2, <1>3, <1>4, <2>1, <2>2, <2>3, HandOver
<1>5. ASSUME NEW remaining, remaining = <<>>,
             offerNext(r, c.tenant, remaining, calls \ {c}, timers, pending)
      PROVE  IInv'
  <2>1. /\ remaining \in Seq(DriverId)
        /\ pending \in [Ride -> PendingOffer \cup {NoOffer}]
        /\ \A x \in calls \ {c} : x.ride # r
        /\ \A timer \in timers : timer.ride # r
    BY <1>1, <1>5, EmptySeq DEF IInv, TypeOK, CallsOf, TimersOf
  <2>2. MayAsk(r, remaining) /\ TypeOK
    BY <1>1, <1>3, <1>5, EmptyMayAsk DEF IInv
  <2>3. /\ Custody(r)'
        /\ \A q \in Ride \ {r} :
              /\ offered'[q] = offered[q]
              /\ pending'[q] = pending[q]
              /\ TimersOf(q)' = {timer \in timers : timer.ride = q}
              /\ CallsOf(q)' = {x \in calls \ {c} : x.ride = q}
    <3>1. offerNext(r, c.tenant, remaining, calls \ {c}, timers, pending)
      BY <1>5
    <3>. QED
      BY <1>1, <1>2, <1>3, <2>1, <2>2, <3>1, offerNextCustody
  <2>4. \A q \in Ride \ {r} : Untouched(q)
    BY <1>2, <2>3 DEF Untouched, TimersOf, CallsOf
  <2>. QED
    BY <1>1, <2>3, <2>4, OneRide
<1>. QED
  BY <1>4, <1>5 DEF SearchNearby

LEMMA FilterBusyCustody ==
    ASSUME IInv, TypeOK', NEW c \in calls, FilterBusy(c)
    PROVE  IInv'
<1>. DEFINE r == c.ride
<1>. PICK next : next = [c EXCEPT !.op = "rank", !.drivers = @ \ busy[c.tenant]]
  OBVIOUS
<1>1. next.ride = r /\ next.tenant = c.tenant /\ next.op = "rank"
  BY CallFields DEF IInv, Call
<1>2. /\ Resume(c, {next}) /\ c.op = "smismember" /\ rides' = rides
      /\ UNCHANGED <<pending, timers, offered>>
  BY DEF FilterBusy, ledgerVars, sent
<1>3. /\ r \in Ride /\ CallFits(c) /\ rides[r] # NoRow
  BY ActingCall
<1>4. /\ rides[r].state = "REQUESTED" /\ offered[r] = <<>>
      /\ Visible(c.tenant, r)
  BY <1>2, <1>3 DEF CallFits
<1>5. CallFits(next)'
  BY <1>1, <1>2, <1>3, <1>4 DEF CallFits, Visible, MayAsk
<1>. QED
  BY <1>1, <1>2, <1>3, <1>4, <1>5, HandOver

\* A shortlist names no driver twice and has at most MAX_OFFERS drivers.
LEMMA ShortlistMayAsk ==
    ASSUME NEW r \in Ride, offered[r] = <<>>, NEW candidates \in SUBSET DriverId,
           NEW list \in Shortlists(candidates)
    PROVE  list \in Seq(DriverId) /\ MayAsk(r, list)
<1>1. list \in Seq(DriverId) /\ Cardinality(candidates) \in Nat
  BY ShortlistType, FS_Subset, FS_CardinalityType
<1>. DEFINE cut == IF Cardinality(candidates) < MAX_OFFERS
                   THEN Cardinality(candidates) ELSE MAX_OFFERS
<1>2. PICK size \in Nat :
         size <= MAX_OFFERS /\ list \in [1 .. size -> candidates]
  <2>1. list \in [1 .. cut -> candidates]
    BY DEF Shortlists
  <2>2. cut \in Nat /\ cut <= MAX_OFFERS
    BY <1>1
  <2>. QED BY <2>1, <2>2
<1>3. Len(list) = size
  <2>1. DOMAIN list = 1 .. size /\ DOMAIN list = 1 .. Len(list) /\ Len(list) \in Nat
    BY <1>1, <1>2, LenProperties
  <2>. QED BY <2>1
<1>4. <<>> \o list = list /\ Len(<<>>) = 0
  BY <1>1, ConcatEmptySeq, EmptySeq
<1>5. IsInjective(list)
  BY DEF Shortlists
<1>. QED
  BY <1>1, <1>2, <1>3, <1>4, <1>5 DEF MayAsk

LEMMA OfferRankedCustody ==
    ASSUME IInv, TypeOK', NEW c \in calls, OfferRanked(c)
    PROVE  IInv'
<1>. DEFINE r == c.ride
<1>1. /\ r \in Ride /\ c.tenant \in Tenant /\ c.drivers \subseteq DriverId
      /\ TimersOf(r) = {} /\ pending[r] = NoOffer
      /\ CallsOf(r) = {c} /\ CallFits(c) /\ rides[r] # NoRow
  BY ActingCall, CallFields DEF IInv
<1>2. c.op = "rank" /\ rides' = rides
  BY DEF OfferRanked, ledgerVars
<1>3. rides[r].state = "REQUESTED" /\ offered[r] = <<>> /\ Visible(c.tenant, r)
  BY <1>1, <1>2 DEF CallFits
<1>. PICK ranked \in Shortlists(c.drivers) :
        offerNext(r, c.tenant, ranked, calls \ {c}, timers, pending)
  BY DEF OfferRanked
<1>4. ranked \in Seq(DriverId) /\ MayAsk(r, ranked)
  BY <1>1, <1>3, ShortlistMayAsk
<1>5. /\ TypeOK /\ pending \in [Ride -> PendingOffer \cup {NoOffer}]
      /\ \A x \in calls \ {c} : x.ride # r
      /\ \A timer \in timers : timer.ride # r
  BY <1>1 DEF IInv, TypeOK, CallsOf, TimersOf
<1>6. /\ Custody(r)'
      /\ \A q \in Ride \ {r} :
            /\ offered'[q] = offered[q]
            /\ pending'[q] = pending[q]
            /\ TimersOf(q)' = {timer \in timers : timer.ride = q}
            /\ CallsOf(q)' = {x \in calls \ {c} : x.ride = q}
  BY <1>1, <1>2, <1>3, <1>4, <1>5, offerNextCustody
<1>7. \A q \in Ride \ {r} : Untouched(q)
  BY <1>2, <1>6 DEF Untouched, TimersOf, CallsOf
<1>. QED
  BY <1>1, <1>6, <1>7, OneRide
-----------------------------------------------------------------------------
(* The end of an offer *)

\* The timer that fires, or the offer that is accepted, is the only holder of
\* its ride.
LEMMA LiveOffer ==
    ASSUME IInv, NEW r \in Ride, TimersOf(r) # {} \/ pending[r] # NoOffer
    PROVE  /\ OfferOut(r)
           /\ TimersOf(r) = {pending[r].timer}
           /\ pending[r].timer \in timers
           /\ pending[r].timer.rest \in Seq(DriverId)
           /\ pending[r].driver = LastOffered(r)
           /\ pending[r].tenant = rides[r].tenant
           /\ pending[r].timer.tenant = rides[r].tenant
           /\ MayAsk(r, pending[r].timer.rest)
<1>1. OfferOut(r)
  BY DEF IInv, Custody, Idle, CallOut
<1>. PICK timer \in timers :
        /\ TimersOf(r) = {timer}
        /\ pending[r] = [tenant |-> rides[r].tenant,
                         driver |-> LastOffered(r), timer |-> timer]
        /\ timer.tenant = rides[r].tenant
        /\ MayAsk(r, timer.rest)
  BY <1>1 DEF OfferOut
<1>2. timer.rest \in Seq(DriverId)
  BY TimerFields DEF IInv
<1>. QED
  BY <1>1, <1>2

LEMMA TimerFiresCustody ==
    ASSUME IInv, TypeOK', NEW timer \in timers, TimerFires(timer)
    PROVE  IInv'
<1>. DEFINE r == timer.ride
<1>1. r \in Ride /\ timer \in TimersOf(r) /\ timer.tenant \in Tenant
  BY TimerFields DEF TimersOf, IInv
<1>2. /\ OfferOut(r) /\ TimersOf(r) = {timer}
      /\ timer.rest \in Seq(DriverId) /\ MayAsk(r, timer.rest)
      /\ timer.tenant = rides[r].tenant
  BY <1>1, LiveOffer
<1>3. rides' = rides /\ rides[r].state = "REQUESTED" /\ CallsOf(r) = {}
      /\ Visible(timer.tenant, r)
  BY <1>2 DEF TimerFires, ledgerVars, OfferOut, Visible
<1>. DEFINE heldPending == [pending EXCEPT ![r] = NoOffer]
<1>4. /\ TypeOK /\ heldPending \in [Ride -> PendingOffer \cup {NoOffer}]
      /\ heldPending[r] = NoOffer
      /\ \A q \in Ride \ {r} : heldPending[q] = pending[q]
      /\ \A x \in calls : x.ride # r
      /\ \A x \in timers \ {timer} : x.ride # r
  BY <1>1, <1>2, <1>3 DEF IInv, TypeOK, CallsOf, TimersOf
<1>5. offerNext(r, timer.tenant, timer.rest, calls, timers \ {timer}, heldPending)
  BY DEF TimerFires
<1>. HIDE DEF heldPending
<1>6. /\ Custody(r)'
      /\ \A q \in Ride \ {r} :
            /\ offered'[q] = offered[q]
            /\ pending'[q] = heldPending[q]
            /\ TimersOf(q)' = {x \in timers \ {timer} : x.ride = q}
            /\ CallsOf(q)' = {x \in calls : x.ride = q}
  BY <1>1, <1>2, <1>3, <1>4, <1>5, offerNextCustody
<1>7. \A q \in Ride \ {r} : Untouched(q)
  BY <1>3, <1>4, <1>6 DEF Untouched, TimersOf, CallsOf
<1>. QED
  BY <1>1, <1>6, <1>7, OneRide

LEMMA AcceptCustody ==
    ASSUME IInv, TypeOK', NEW t \in Tenant, NEW d \in DriverId, NEW r \in Ride,
           Accept(t, d, r)
    PROVE  IInv'
<1>. DEFINE next == [Await("accept", r, t) EXCEPT !.driver = d]
<1>1. /\ next.ride = r /\ next.tenant = t /\ next.op = "accept"
      /\ next.driver = d
  BY DEF Await
<1>2. /\ calls' = calls \cup {next} /\ timers' = timers \ {pending[r].timer}
      /\ pending' = [pending EXCEPT ![r] = NoOffer]
      /\ rides' = rides /\ offered' = offered
  BY DEF Accept, clearTimeout, sent, ledgerVars
<1>. HIDE DEF next
<1>3. pending[r] # NoOffer /\ pending[r].tenant = t /\ pending[r].driver = d
  BY DEF Accept, HoldsOffer
<1>4. /\ OfferOut(r) /\ TimersOf(r) = {pending[r].timer}
      /\ d = LastOffered(r) /\ Visible(t, r)
      /\ pending[r].timer.rest \in Seq(DriverId)
      /\ MayAsk(r, pending[r].timer.rest)
  BY <1>3, LiveOffer DEF Visible
<1>5. rides[r].state = "REQUESTED" /\ offered[r] # <<>> /\ CallsOf(r) = {}
      /\ rides[r] # NoRow
  BY <1>4 DEF OfferOut, NoRow
<1>6. MayAsk(r, <<>>)
  BY <1>4, NobodyNext DEF IInv, TypeOK
<1>7. CallsOf(r)' = {next} /\ TimersOf(r)' = {} /\ next \in calls'
  BY <1>1, <1>2, <1>4, <1>5 DEF CallsOf, TimersOf
<1>8. \A q \in Ride \ {r} : Untouched(q)
  <2>1. pending[r].timer.ride = r
    BY <1>4 DEF TimersOf
  <2>. QED
    BY <1>1, <1>2, <2>1 DEF Untouched, CallsOf, TimersOf, IInv, TypeOK
<1>9. CallFits(next)'
  BY <1>1, <1>2, <1>4, <1>5, <1>6
  DEF CallFits, Visible, MayAsk, LastOffered
<1>10. pending'[r] = NoOffer
  BY <1>2 DEF IInv, TypeOK
<1>11. CallOut(r)' /\ ~Idle(r)'
  BY <1>7, <1>9, <1>10 DEF CallOut, Idle
<1>12. Custody(r)'
  BY <1>2, <1>5, <1>11 DEF Custody
<1>. QED
  BY <1>8, <1>12, OneRide

\* What an accept that commits leaves in the row.
LEMMA MatchRow ==
    ASSUME IInv, NEW c \in calls, c.op = "accept",
           acceptRide(c.tenant, c.ride, c.driver)
    PROVE  /\ c.ride \in Ride /\ Updatable(c.tenant, c.ride)
           /\ offered[c.ride] # <<>> /\ c.driver = LastOffered(c.ride)
           /\ rides'[c.ride].tenant = rides[c.ride].tenant
           /\ rides'[c.ride].state = "MATCHED" /\ rides'[c.ride] # NoRow
           /\ rides'[c.ride].driver = c.driver
           /\ \A q \in Ride \ {c.ride} : rides'[q] = rides[q]
<1>. DEFINE r == c.ride
<1>1. /\ r \in Ride /\ CallFits(c) /\ rides[r] # NoRow
      /\ c.driver \in DriverId
  BY ActingCall, CallFields DEF IInv
<1>2. /\ Updatable(c.tenant, r)
      /\ offered[r] # <<>> /\ c.driver = LastOffered(r)
  BY <1>1 DEF CallFits, Updatable
<1>3. rides[r] \in Row
  BY <1>1 DEF IInv, TypeOK, LedgerTypeOK
<1>4. rides'[r] = [rides[r] EXCEPT !.state = "MATCHED", !.driver = c.driver]
  BY <1>1, <1>2 DEF acceptRide, IInv, TypeOK, LedgerTypeOK
<1>5. /\ rides'[r].tenant = rides[r].tenant /\ rides'[r].state = "MATCHED"
      /\ rides'[r].driver = c.driver
  BY <1>3, <1>4 DEF Row
<1>6. \A q \in Ride \ {r} : rides'[q] = rides[q]
  BY <1>1, OtherRows DEF IInv, TypeOK
<1>. QED
  BY <1>1, <1>2, <1>5, <1>6 DEF NoRow

LEMMA CommitAcceptCustody ==
    ASSUME IInv, TypeOK', NEW c \in calls, CommitAccept(c)
    PROVE  IInv'
<1>. DEFINE r == c.ride
<1>. PICK next : next = [c EXCEPT !.op = "multi"]
  OBVIOUS
<1>1. /\ next.ride = r /\ next.tenant = c.tenant /\ next.op = "multi"
      /\ next.driver = c.driver
  BY CallFields DEF IInv, Call
<1>2. c.op = "accept" /\ acceptRide(c.tenant, r, c.driver)
  BY DEF CommitAccept
<1>3. /\ r \in Ride /\ Updatable(c.tenant, r)
      /\ offered[r] # <<>> /\ c.driver = LastOffered(r)
      /\ rides'[r].tenant = rides[r].tenant
      /\ rides'[r].state = "MATCHED" /\ rides'[r] # NoRow
      /\ rides'[r].driver = c.driver
      /\ \A q \in Ride \ {r} : rides'[q] = rides[q]
  BY <1>2, MatchRow
<1>4. Resume(c, {next}) /\ UNCHANGED <<pending, timers, offered>>
  BY <1>3 DEF CommitAccept, sent
<1>5. CallFits(next)'
  <2>1. MayAsk(r, <<>>) /\ Visible(c.tenant, r)
    BY ActingCall DEF CallFits
  <2>. QED
    BY <1>1, <1>3, <1>4, <2>1 DEF CallFits, Visible, MayAsk
<1>. QED
  BY <1>1, <1>3, <1>4, <1>5, HandOver

LEMMA AssignDriverCustody ==
    ASSUME IInv, TypeOK', NEW c \in calls, AssignDriver(c)
    PROVE  IInv'
<1>1. /\ c.ride \in Ride /\ CallFits(c) /\ rides[c.ride] # NoRow
      /\ c.op = "multi"
  BY ActingCall DEF AssignDriver
<1>2. /\ Resume(c, {}) /\ rides' = rides
      /\ UNCHANGED <<pending, timers, offered>>
  BY DEF AssignDriver, ledgerVars, sent
<1>3. rides[c.ride].state = "MATCHED" /\ Custody(c.ride)
  BY <1>1 DEF CallFits, IInv
<1>. QED
  BY <1>1, <1>2, <1>3, LetGo DEF Custody

\* A ride that a driver could still get is never given up: whoever gives it
\* up is its only holder.
LEMMA GiveUpRow ==
    ASSUME IInv, NEW c \in calls, c.op = "markNoDriver",
           markNoDriver(c.tenant, c.ride)
    PROVE  /\ c.ride \in Ride /\ Updatable(c.tenant, c.ride)
           /\ rides'[c.ride].tenant = rides[c.ride].tenant
           /\ rides'[c.ride].state = "NO_DRIVER" /\ rides'[c.ride] # NoRow
           /\ \A q \in Ride \ {c.ride} : rides'[q] = rides[q]
<1>. DEFINE r == c.ride
<1>1. r \in Ride /\ CallFits(c) /\ rides[r] # NoRow
  BY ActingCall
<1>2. Updatable(c.tenant, r)
  BY <1>1 DEF CallFits, Updatable
<1>3. rides[r] \in Row
  BY <1>1 DEF IInv, TypeOK, LedgerTypeOK
<1>4. rides'[r] = [rides[r] EXCEPT !.state = "NO_DRIVER"]
  BY <1>1, <1>2 DEF markNoDriver, IInv, TypeOK, LedgerTypeOK
<1>5. \A q \in Ride \ {r} : rides'[q] = rides[q]
  BY <1>1, OtherRows DEF IInv, TypeOK
<1>. QED
  BY <1>1, <1>2, <1>3, <1>4, <1>5 DEF Row, NoRow

LEMMA CommitNoDriverCustody ==
    ASSUME IInv, TypeOK', NEW c \in calls, CommitNoDriver(c)
    PROVE  IInv'
<1>. DEFINE r == c.ride
<1>. PICK next : next = [c EXCEPT !.op = "announce"]
  OBVIOUS
<1>1. next.ride = r /\ next.tenant = c.tenant /\ next.op = "announce"
  BY CallFields DEF IInv, Call
<1>2. c.op = "markNoDriver" /\ markNoDriver(c.tenant, r)
  BY DEF CommitNoDriver
<1>3. /\ r \in Ride /\ Updatable(c.tenant, r)
      /\ rides'[r].tenant = rides[r].tenant
      /\ rides'[r].state = "NO_DRIVER" /\ rides'[r] # NoRow
      /\ \A q \in Ride \ {r} : rides'[q] = rides[q]
  BY <1>2, GiveUpRow
<1>4. Resume(c, {next}) /\ UNCHANGED <<pending, timers, offered>>
  BY <1>3 DEF CommitNoDriver, sent
<1>5. CallFits(next)'
  <2>1. MayAsk(r, <<>>) /\ Visible(c.tenant, r)
    BY ActingCall DEF CallFits
  <2>. QED
    BY <1>1, <1>3, <1>4, <2>1 DEF CallFits, Visible, MayAsk
<1>. QED
  BY <1>1, <1>3, <1>4, <1>5, HandOver

LEMMA AnnounceNoDriverCustody ==
    ASSUME IInv, TypeOK', NEW c \in calls, AnnounceNoDriver(c)
    PROVE  IInv'
<1>1. c.ride \in Ride /\ CallFits(c) /\ rides[c.ride] # NoRow /\ c.op = "announce"
  BY ActingCall DEF AnnounceNoDriver
<1>2. /\ Resume(c, {}) /\ rides' = rides
      /\ UNCHANGED <<pending, timers, offered>>
  BY DEF AnnounceNoDriver, ledgerVars
<1>3. rides[c.ride].state = "NO_DRIVER"
  BY <1>1 DEF CallFits
<1>. QED
  BY <1>1, <1>2, <1>3, LetGo

-----------------------------------------------------------------------------
(* Failures *)

LEMMA CallRejectsCustody ==
    ASSUME IInv, TypeOK', NEW c \in calls, CallRejects(c)
    PROVE  IInv'
<1>1. c.ride \in Ride /\ rides[c.ride] # NoRow /\ Custody(c.ride)
  BY ActingCall DEF IInv
<1>2. /\ Resume(c, {}) /\ rides' = rides /\ Faults # {}
      /\ UNCHANGED <<pending, timers, offered>>
  BY DEF CallRejects, ledgerVars, sent
<1>. QED
  BY <1>1, <1>2, LetGo DEF Custody

LEMMA CommitUnansweredCustody ==
    ASSUME IInv, TypeOK', NEW c \in calls, CommitUnanswered(c)
    PROVE  IInv'
<1>1. Resume(c, {}) /\ UNCHANGED <<pending, timers, offered>>
  BY DEF CommitUnanswered, sent
<1>2. CASE c.op = "accept" /\ acceptRide(c.tenant, c.ride, c.driver)
  BY <1>1, <1>2, MatchRow, LetGo
<1>3. CASE c.op = "markNoDriver" /\ markNoDriver(c.tenant, c.ride)
  BY <1>1, <1>3, GiveUpRow, LetGo
<1>. QED
  BY <1>2, <1>3 DEF CommitUnanswered

LEMMA ProcessRestartsCustody ==
    ASSUME IInv, TypeOK', ProcessRestarts
    PROVE  IInv'
<1>1. \A q \in Ride : Idle(q)'
  BY DEF ProcessRestarts, Idle, TimersOf, CallsOf
<1>2. /\ Faults # {} /\ rides' = rides /\ offered' = offered
  BY DEF ProcessRestarts, ledgerVars, sent
<1>3. ASSUME NEW q \in Ride PROVE Custody(q)'
  <2>1. Custody(q)
    BY DEF IInv
  <2>. QED
    BY <1>1, <1>2, <2>1 DEF Custody, LastOffered
<1>. QED
  BY <1>3 DEF IInv

\* Steps on positions and Redis keys alone.
LEMMA SameCustody ==
    ASSUME IInv, TypeOK',
           UNCHANGED <<rides, offered, pending, timers, calls>>
    PROVE  IInv'
<1>1. \A q \in Ride : Untouched(q)
  BY DEF Untouched, TimersOf, CallsOf
<1>. QED
  BY <1>1, CustodyFrame DEF IInv
-----------------------------------------------------------------------------
(* The invariant *)

LEMMA InitCustody == Init => IInv
<1>. SUFFICES ASSUME Init PROVE IInv
  OBVIOUS
<1>1. TypeOK
  BY InitType
<1>2. \A r \in Ride : Idle(r) /\ rides[r] = NoRow /\ offered[r] = <<>>
  BY DEF Init, LedgerInit, Idle, TimersOf, CallsOf
<1>. QED
  BY <1>1, <1>2 DEF IInv, Custody, NoRow

LEMMA NextCustody == IInv /\ [Next]_vars => IInv'
<1>. SUFFICES ASSUME IInv, [Next]_vars PROVE IInv'
  OBVIOUS
<1>1. TypeOK'
  BY NextType DEF IInv
<1>2. ASSUME NEW t \in Tenant, NEW d \in DriverId, recordLocation(t, d)
      PROVE  IInv'
  BY <1>1, <1>2, SameCustody DEF recordLocation, ledgerVars, memory, sent
<1>3. ASSUME NEW t \in Tenant, NEW p \in Passenger, NEW r \in Ride,
             Request(t, p, r) \/ RequestUnanswered(t, p, r)
      PROVE  IInv'
  BY <1>1, <1>3, RequestCustody, RequestUnansweredCustody
<1>4. ASSUME NEW t \in Tenant, NEW d \in DriverId, NEW r \in Ride,
             Accept(t, d, r)
      PROVE  IInv'
  BY <1>1, <1>4, AcceptCustody
<1>5. ASSUME NEW timer \in timers, TimerFires(timer)
      PROVE  IInv'
  BY <1>1, <1>5, TimerFiresCustody
<1>6. ASSUME NEW c \in calls, Continue(c)
      PROVE  IInv'
  BY <1>1, <1>6, SearchNearbyCustody, FilterBusyCustody, OfferRankedCustody,
     CommitAcceptCustody, AssignDriverCustody, CommitNoDriverCustody,
     AnnounceNoDriverCustody DEF Continue
<1>7. ASSUME NEW c \in calls, CallRejects(c) \/ CommitUnanswered(c)
      PROVE  IInv'
  BY <1>1, <1>7, CallRejectsCustody, CommitUnansweredCustody
<1>8. CASE RedisRestarts
  BY <1>1, <1>8, SameCustody DEF RedisRestarts, ledgerVars, memory, sent
<1>9. CASE ProcessRestarts
  BY <1>1, <1>9, ProcessRestartsCustody
<1>10. CASE UNCHANGED vars
  BY <1>1, <1>10, SameCustody DEF vars, ledgerVars, memory, sent
<1>. QED
  BY <1>2, <1>3, <1>4, <1>5, <1>6, <1>7, <1>8, <1>9, <1>10 DEF Next

\* Every ride is in exactly one pair of hands, or in nobody's, and whoever
\* holds it knows what its row says: the invariant the others follow from.
THEOREM CustodyInvariant == Spec => []IInv
BY InitCustody, NextCustody, PTL DEF Spec

\* A ride is in the hands of at most one armed timer or awaited call.
THEOREM AtMostOneCustodian == Spec => []OneCustodian
<1>1. IInv => OneCustodian
  BY DEF IInv, Custody, Idle, OfferOut, CallOut, OneCustodian
<1>. QED
  BY <1>1, CustodyInvariant, PTL

\* Every live offer has its timer, every timer its offer, and the driver who
\* may accept is the one asked last.
THEOREM OffersAreArmed == Spec => []OfferArmed
<1>1. IInv => OfferArmed
  <2>. SUFFICES ASSUME IInv, NEW r \in Ride
                PROVE  IF pending[r] = NoOffer THEN TimersOf(r) = {}
                       ELSE /\ TimersOf(r) = {pending[r].timer}
                            /\ pending[r].tenant = rides[r].tenant
                            /\ offered[r] # <<>>
                            /\ pending[r].driver = LastOffered(r)
    BY DEF OfferArmed
  <2>1. CASE TimersOf(r) # {} \/ pending[r] # NoOffer
    <3>1. pending[r] # NoOffer
      <4>1. rides[r].state = "REQUESTED" /\ pending[r].tenant = rides[r].tenant
        BY <2>1, LiveOffer DEF OfferOut
      <4>2. rides[r].tenant \in Tenant
        BY <4>1 DEF IInv, TypeOK, LedgerTypeOK, Row, NoRow
      <4>. QED
        BY <4>1, <4>2 DEF NoOffer
    <3>. QED
      BY <2>1, <3>1, LiveOffer DEF OfferOut
  <2>. QED
    BY <2>1
<1>. QED
  BY <1>1, CustodyInvariant, PTL

\* Once a ride is settled no offer of it is live, no timer armed, and whatever
\* is awaited only publishes the outcome.
THEOREM SettledRidesAreQuiet == Spec => []SettledIsQuiet
<1>1. IInv => SettledIsQuiet
  <2>. SUFFICES ASSUME IInv, NEW r \in Ride, Settled(r)
                PROVE  /\ pending[r] = NoOffer
                       /\ TimersOf(r) = {}
                       /\ \A c \in CallsOf(r) :
                             c.op = IF rides[r].state = "MATCHED"
                                    THEN "multi" ELSE "announce"
    BY DEF SettledIsQuiet
  <2>1. Idle(r) \/ CallOut(r)
    BY DEF IInv, Custody, OfferOut, Settled
  <2>2. CASE Idle(r)
    BY <2>2 DEF Idle
  <2>3. CASE CallOut(r)
    <3>1. PICK c \in calls : CallsOf(r) = {c} /\ CallFits(c)
      BY <2>3 DEF CallOut
    <3>2. c.ride = r /\ c.op \in DatabaseOp \cup RedisOp \cup LocalOp
      BY <3>1, CallFields DEF CallsOf, IInv, Call
    <3>. QED
      BY <2>3, <3>1, <3>2
         DEF CallOut, CallFits, Settled, DatabaseOp, RedisOp, LocalOp
  <2>. QED
    BY <2>1, <2>2, <2>3
<1>. QED
  BY <1>1, CustodyInvariant, PTL

\* A ride is matched only to the driver who was sent its latest offer.
THEOREM MatchesTheLastOffered == Spec => []MatchedIsLastOffered
<1>1. IInv => MatchedIsLastOffered
  BY DEF IInv, Custody, MatchedIsLastOffered
<1>. QED
  BY <1>1, CustodyInvariant, PTL

\* While nothing fails, an unsettled ride is always in somebody's hands.
THEOREM RequestsAreKept == Spec => []EveryRequestKept
<1>1. IInv => EveryRequestKept
  BY DEF IInv, Custody, Idle, OfferOut, CallOut, EveryRequestKept
<1>. QED
  BY <1>1, CustodyInvariant, PTL
-----------------------------------------------------------------------------
(* The tables *)

\* Each step of Matching is at most one transaction.
LEMMA StepIsTransaction ==
    ASSUME TypeOK, [Next]_vars PROVE [LedgerNext]_ledgerVars
<1>1. \A c \in calls : c.ride \in Ride /\ c.tenant \in Tenant
  BY CallFields
<1>2. \A c \in calls : c.op = "accept" => c.driver \in DriverId
  BY CallFields
<1>3. CASE \E t \in Tenant, p \in Passenger, r \in Ride :
             Request(t, p, r) \/ RequestUnanswered(t, p, r)
  BY <1>3 DEF Request, RequestUnanswered, LedgerNext
<1>4. CASE \E c \in calls : Continue(c) \/ CallRejects(c) \/ CommitUnanswered(c)
  BY <1>1, <1>2, <1>4
     DEF Continue, SearchNearby, FilterBusy, OfferRanked, CommitAccept,
         AssignDriver, CommitNoDriver, AnnounceNoDriver, CallRejects,
         CommitUnanswered, LedgerNext
<1>5. CASE \/ \E t \in Tenant, d \in DriverId : recordLocation(t, d)
           \/ \E t \in Tenant, d \in DriverId, r \in Ride : Accept(t, d, r)
           \/ \E timer \in timers : TimerFires(timer)
           \/ RedisRestarts
           \/ ProcessRestarts
  BY <1>5 DEF recordLocation, Accept, TimerFires, RedisRestarts, ProcessRestarts
<1>6. CASE UNCHANGED vars
  BY <1>6 DEF vars
<1>. QED
  BY <1>3, <1>4, <1>5, <1>6 DEF Next

\* Matching implements RideLedger.
THEOREM ImplementsLedger == Spec => LedgerSpec
<1>1. Init => LedgerInit
  BY DEF Init
<1>2. TypeOK /\ [Next]_vars => [LedgerNext]_ledgerVars
  BY StepIsTransaction
<1>. QED
  BY <1>1, <1>2, TypeCorrect, PTL DEF Spec, LedgerSpec

\* No step of Matching writes a settled row.
LEMMA SettledRowStays ==
    ASSUME TypeOK, [Next]_vars, NEW r \in Ride, Settled(r)
    PROVE  rides'[r] = rides[r]
BY StepIsTransaction, SettledStays DEF TypeOK
-----------------------------------------------------------------------------
(* Redis and the announcements *)

MatchedTo(t, d, r) ==
    rides[r].tenant = t /\ rides[r].state = "MATCHED" /\ rides[r].driver = d

LEMMA MatchStays ==
    ASSUME TypeOK, [Next]_vars, NEW t, NEW d, NEW r \in Ride, MatchedTo(t, d, r)
    PROVE  MatchedTo(t, d, r)'
BY SettledRowStays DEF MatchedTo, Settled

\* The keys only change in three ways: all are lost, those of geo grow, or the
\* pair of a match that has committed is written.
LEMMA KeysFollow ==
    ASSUME IInv, Next, NEW t \in Tenant, NEW d \in DriverId
    PROVE  /\ d \in busy'[t] =>
                 d \in busy[t] \/ \E r \in Ride : MatchedTo(t, d, r)
           /\ \/ assign'[t][d] \in {Nil, assign[t][d]}
              \/ assign'[t][d] \in Ride /\ MatchedTo(t, d, assign'[t][d])
<1>1. CASE RedisRestarts
  BY <1>1 DEF RedisRestarts, EmptyKeys
<1>2. CASE \E c \in calls : AssignDriver(c)
  <2>1. PICK c \in calls : AssignDriver(c)
    BY <1>2
  <2>2. /\ c.ride \in Ride /\ c.tenant \in Tenant /\ c.op = "multi"
        /\ c.driver \in DriverId
        /\ busy' = [busy EXCEPT ![c.tenant] = @ \cup {c.driver}]
        /\ assign' = [assign EXCEPT ![c.tenant][c.driver] = c.ride]
    BY <2>1, CallFields DEF AssignDriver, IInv
  <2>3. MatchedTo(c.tenant, c.driver, c.ride)
    BY <2>2, ActingCall DEF CallFits, Visible, MatchedTo
  <2>. QED
    BY <2>2, <2>3 DEF IInv, TypeOK
<1>3. CASE UNCHANGED <<busy, assign>>
  BY <1>3
<1>4. RedisRestarts \/ (\E c \in calls : AssignDriver(c)) \/ UNCHANGED <<busy, assign>>
  BY DEF Next, recordLocation, Request, RequestUnanswered, Accept, TimerFires,
         Continue, SearchNearby, FilterBusy, OfferRanked, CommitAccept,
         CommitNoDriver, AnnounceNoDriver, CallRejects, CommitUnanswered,
         ProcessRestarts, redis
<1>. QED
  BY <1>1, <1>2, <1>3, <1>4

LEMMA NextFollows ==
    ASSUME IInv, RedisFollowsLedger, [Next]_vars PROVE RedisFollowsLedger'
<1>1. RedisFollowsLedger <=>
        \A t \in Tenant, d \in DriverId :
           /\ d \in busy[t] => \E r \in Ride : MatchedTo(t, d, r)
           /\ assign[t][d] # Nil => MatchedTo(t, d, assign[t][d])
  BY DEF RedisFollowsLedger, MatchedTo, PositionRoom, Visible
<1>2. RedisFollowsLedger' <=>
        \A t \in Tenant, d \in DriverId :
           /\ d \in busy'[t] => \E r \in Ride : MatchedTo(t, d, r)'
           /\ assign'[t][d] # Nil => MatchedTo(t, d, assign[t][d])'
  BY DEF RedisFollowsLedger, MatchedTo, PositionRoom, Visible
<1>3. \A t \in Tenant, d \in DriverId : assign[t][d] \in Ride \cup {Nil}
  BY DEF IInv, TypeOK
<1>4. TypeOK
  BY DEF IInv
<1>5. \A t \in Tenant, d \in DriverId, r \in Ride :
        MatchedTo(t, d, r) => MatchedTo(t, d, r)'
  BY <1>4, MatchStays
<1>6. CASE Next
  <2>. SUFFICES ASSUME NEW t \in Tenant, NEW d \in DriverId
                PROVE  /\ d \in busy'[t] => \E r \in Ride : MatchedTo(t, d, r)'
                       /\ assign'[t][d] # Nil => MatchedTo(t, d, assign[t][d])'
    BY <1>2
  <2>1. /\ d \in busy[t] => \E r \in Ride : MatchedTo(t, d, r)
        /\ assign[t][d] # Nil => MatchedTo(t, d, assign[t][d])
    BY <1>1
  <2>2. /\ d \in busy'[t] =>
              d \in busy[t] \/ \E r \in Ride : MatchedTo(t, d, r)
        /\ \/ assign'[t][d] \in {Nil, assign[t][d]}
           \/ assign'[t][d] \in Ride /\ MatchedTo(t, d, assign'[t][d])
    BY <1>6, KeysFollow
  <2>3. d \in busy'[t] => \E r \in Ride : MatchedTo(t, d, r)'
    BY <1>5, <2>1, <2>2
  <2>4. assign'[t][d] # Nil =>
          assign'[t][d] \in Ride /\ MatchedTo(t, d, assign'[t][d])
    BY <1>3, <2>1, <2>2
  <2>5. assign'[t][d] # Nil => MatchedTo(t, d, assign[t][d])'
    BY <1>5, <2>4 DEF MatchedTo
  <2>. QED
    BY <2>3, <2>5
<1>7. CASE UNCHANGED vars
  BY <1>7 DEF vars, redis, ledgerVars, RedisFollowsLedger, PositionRoom, Visible
<1>. QED
  BY <1>6, <1>7

\* Redis never runs ahead of the rides, whatever it forgets.
THEOREM RedisFollows == Spec => []RedisFollowsLedger
<1>1. Init => RedisFollowsLedger
  BY DEF Init, EmptyKeys, RedisFollowsLedger, PositionRoom
<1>2. IInv /\ RedisFollowsLedger /\ [Next]_vars => RedisFollowsLedger'
  BY NextFollows
<1>. QED
  BY <1>1, <1>2, CustodyInvariant, PTL DEF Spec

\* A room is told NO_DRIVER only after that outcome has committed.
THEOREM AnnouncementsAreCommitted == Spec => []AnnouncedIsCommitted
<1>1. Init => AnnouncedIsCommitted
  BY DEF Init, AnnouncedIsCommitted
<1>2. ASSUME IInv, AnnouncedIsCommitted, [Next]_vars
      PROVE  AnnouncedIsCommitted'
  <2>1. TypeOK /\ announced \subseteq Ride
    BY <1>2 DEF IInv, TypeOK
  <2>2. \A r \in announced : rides'[r].state = "NO_DRIVER"
    BY <1>2, <2>1, SettledRowStays DEF AnnouncedIsCommitted, Settled
  <2>3. CASE \E c \in calls : AnnounceNoDriver(c)
    <3>1. PICK c \in calls : AnnounceNoDriver(c)
      BY <2>3
    <3>2. announced' = announced \cup {c.ride} /\ rides' = rides
      BY <3>1 DEF AnnounceNoDriver, ledgerVars
    <3>3. rides[c.ride].state = "NO_DRIVER"
      BY <1>2, <3>1, ActingCall DEF AnnounceNoDriver, CallFits
    <3>. QED
      BY <2>2, <3>2, <3>3 DEF AnnouncedIsCommitted
  <2>4. CASE announced' = announced
    BY <2>2, <2>4 DEF AnnouncedIsCommitted
  <2>5. (\E c \in calls : AnnounceNoDriver(c)) \/ announced' = announced
    BY <1>2 DEF Next, recordLocation, Request, RequestUnanswered, Accept,
         TimerFires, Continue, SearchNearby, FilterBusy, OfferRanked,
         CommitAccept, CommitNoDriver, AssignDriver, CallRejects,
         CommitUnanswered, RedisRestarts, ProcessRestarts, sent, vars
  <2>. QED
    BY <2>3, <2>4, <2>5
<1>. QED
  BY <1>1, <1>2, CustodyInvariant, PTL DEF Spec
-----------------------------------------------------------------------------
(* The offer loop *)

Outcome == [r \in Ride |-> [state |-> rides[r].state, driver |-> rides[r].driver]]

\* A ride another driver may be asked for, and that driver.
LEMMA NextDriverIsNew ==
    ASSUME NEW r \in Ride, offered[r] \in Seq(DriverId),
           NEW remaining \in Seq(DriverId), remaining # <<>>,
           MayAsk(r, remaining)
    PROVE  /\ Head(remaining) \in DriverId
           /\ Head(remaining) \notin Range(offered[r])
           /\ Len(offered[r]) < MAX_OFFERS
<1>1. PICK n \in Nat, k \in Nat :
        n = Len(offered[r]) /\ k = Len(remaining) /\ k # 0
  BY LenProperties, EmptySeq
<1>2. /\ Head(remaining) \in DriverId /\ remaining[1] = Head(remaining)
  BY HeadTailProperties
<1>3. n + k <= MAX_OFFERS
  BY <1>1 DEF MayAsk
<1>4. n < MAX_OFFERS
  BY <1>1, <1>3
<1>5. ASSUME NEW i \in DOMAIN offered[r], offered[r][i] = Head(remaining)
      PROVE  FALSE
  <2>1. i \in 1 .. n /\ i # n + 1 /\ i \in 1 .. n + k /\ n + 1 \in 1 .. n + k
    BY <1>1, <1>5, LenProperties
  <2>2. /\ (offered[r] \o remaining)[i] = offered[r][i]
        /\ (offered[r] \o remaining)[n + 1] = remaining[1]
        /\ DOMAIN (offered[r] \o remaining) = 1 .. n + k
    <3>1. /\ offered[r] \o remaining \in Seq(DriverId)
          /\ Len(offered[r] \o remaining) = n + k
          /\ \A j \in 1 .. n + k :
               (offered[r] \o remaining)[j] =
                  IF j <= n THEN offered[r][j] ELSE remaining[j - n]
      BY <1>1, ConcatProperties
    <3>2. i <= n /\ ~(n + 1 <= n) /\ (n + 1) - n = 1
      BY <1>1, <2>1
    <3>. QED
      BY <2>1, <3>1, <3>2, LenProperties
  <2>3. IsInjective(offered[r] \o remaining)
    BY DEF MayAsk
  <2>. QED
    BY <1>2, <1>5, <2>1, <2>2, <2>3 DEF IsInjective
<1>. QED
  BY <1>1, <1>2, <1>4, <1>5 DEF Range

\* offerNext asks one more driver, or nobody.
LEMMA offerNextAsks ==
    ASSUME TypeOK, RowShape, NEW r \in Ride, NEW t, NEW remaining \in Seq(DriverId),
           NEW heldCalls, NEW heldTimers, NEW heldPending,
           offerNext(r, t, remaining, heldCalls, heldTimers, heldPending),
           rides' = rides, rides[r].state = "REQUESTED", MayAsk(r, remaining)
    PROVE  [OfferLoop!Next]_OfferLoop!vars
<1>1. Outcome' = Outcome
  BY DEF Outcome
<1>2. CASE remaining = <<>>
  BY <1>1, <1>2 DEF offerNext, OfferLoop!vars, Outcome
<1>3. CASE remaining # <<>>
  <2>1. offered' = [offered EXCEPT ![r] = Append(@, Head(remaining))]
    BY <1>3 DEF offerNext
  <2>2. Outcome[r] = OfferLoop!Open
    <3>1. rides[r].driver = Nil
      BY DEF RowShape, NoRow
    <3>. QED
      BY <3>1 DEF Outcome, OfferLoop!Open
  <2>3. /\ Head(remaining) \in DriverId
        /\ Head(remaining) \notin Range(offered[r])
        /\ Len(offered[r]) < MAX_OFFERS
    BY <1>3, NextDriverIsNew DEF TypeOK
  <2>4. OfferLoop!Ask(r, Head(remaining))
    BY <1>1, <2>1, <2>2, <2>3 DEF OfferLoop!Ask, Outcome, Range, OfferLoop!Range
  <2>. QED
    BY <2>3, <2>4 DEF OfferLoop!Next
<1>. QED
  BY <1>2, <1>3

LEMMA requestRideOpens ==
    ASSUME TypeOK, NEW t \in Tenant, NEW p \in Passenger, NEW r \in Ride,
           requestRide(t, p, r), offered' = offered
    PROVE  [OfferLoop!Next]_OfferLoop!vars
<1>1. /\ rides[r] = NoRow
      /\ rides' = [rides EXCEPT ![r] = [tenant |-> t, passenger |-> p,
                                driver |-> Nil, state |-> "REQUESTED"]]
  BY DEF requestRide
<1>2. Outcome[r] = OfferLoop!Unrequested
  BY <1>1 DEF Outcome, OfferLoop!Unrequested, NoRow
<1>3. Outcome' = [Outcome EXCEPT ![r] = OfferLoop!Open]
  BY <1>1 DEF Outcome, OfferLoop!Open, TypeOK, LedgerTypeOK
<1>. QED
  BY <1>2, <1>3 DEF OfferLoop!Request, OfferLoop!Next, Outcome

LEMMA MatchIsMatch ==
    ASSUME IInv, RowShape, NEW c \in calls, c.op = "accept",
           acceptRide(c.tenant, c.ride, c.driver), offered' = offered
    PROVE  [OfferLoop!Next]_OfferLoop!vars
<1>. DEFINE r == c.ride
<1>1. /\ r \in Ride /\ c.tenant \in Tenant /\ c.driver \in DriverId
      /\ Updatable(c.tenant, r) /\ offered[r] # <<>>
      /\ c.driver = LastOffered(r)
  BY MatchRow, CallFields DEF IInv
<1>2. rides' = [rides EXCEPT ![r] =
                   [rides[r] EXCEPT !.state = "MATCHED", !.driver = c.driver]]
  BY <1>1 DEF acceptRide, IInv, TypeOK, LedgerTypeOK
<1>3. /\ rides[r] \in Row /\ rides[r].state = "REQUESTED"
      /\ rides[r].driver = Nil
  <2>1. rides[r].state = "REQUESTED" /\ rides[r] # NoRow
    BY <1>1 DEF Updatable, NoRow
  <2>. QED
    BY <1>1, <2>1 DEF IInv, TypeOK, LedgerTypeOK, RowShape
<1>4. Outcome[r] = OfferLoop!Open
  BY <1>1, <1>3 DEF Outcome, OfferLoop!Open
<1>5. Outcome' = [Outcome EXCEPT ![r] = OfferLoop!MatchedTo(c.driver)]
  BY <1>1, <1>2, <1>3
     DEF Outcome, OfferLoop!MatchedTo, IInv, TypeOK, LedgerTypeOK, Row
<1>6. OfferLoop!Match(r)
  BY <1>1, <1>4, <1>5 DEF OfferLoop!Match, Outcome, LastOffered
<1>. QED
  BY <1>1, <1>6 DEF OfferLoop!Next

LEMMA NoDriverIsGiveUp ==
    ASSUME IInv, RowShape, NEW c \in calls, c.op = "markNoDriver",
           markNoDriver(c.tenant, c.ride), offered' = offered
    PROVE  [OfferLoop!Next]_OfferLoop!vars
<1>. DEFINE r == c.ride
<1>1. r \in Ride /\ c.tenant \in Tenant /\ Updatable(c.tenant, r)
  BY GiveUpRow, CallFields DEF IInv
<1>2. rides' = [rides EXCEPT ![r] = [rides[r] EXCEPT !.state = "NO_DRIVER"]]
  BY <1>1 DEF markNoDriver, IInv, TypeOK, LedgerTypeOK
<1>3. /\ rides[r] \in Row /\ rides[r].state = "REQUESTED"
      /\ rides[r].driver = Nil
  <2>1. rides[r].state = "REQUESTED" /\ rides[r] # NoRow
    BY <1>1 DEF Updatable, NoRow
  <2>. QED
    BY <1>1, <2>1 DEF IInv, TypeOK, LedgerTypeOK, RowShape
<1>4. Outcome[r] = OfferLoop!Open
  BY <1>1, <1>3 DEF Outcome, OfferLoop!Open
<1>5. Outcome' = [Outcome EXCEPT ![r] = OfferLoop!GivenUp]
  BY <1>1, <1>2, <1>3
     DEF Outcome, OfferLoop!GivenUp, IInv, TypeOK, LedgerTypeOK, Row
<1>6. OfferLoop!GiveUp(r)
  BY <1>4, <1>5 DEF OfferLoop!GiveUp, Outcome
<1>. QED
  BY <1>1, <1>6 DEF OfferLoop!Next

LEMMA StepOfLoop ==
    ASSUME IInv, RowShape, [Next]_vars
    PROVE  [OfferLoop!Next]_OfferLoop!vars
<1>1. CASE /\ UNCHANGED <<rides, offered>>
  BY <1>1 DEF OfferLoop!vars
<1>2. CASE \E t \in Tenant, p \in Passenger, r \in Ride :
              Request(t, p, r) \/ RequestUnanswered(t, p, r)
  BY <1>2, requestRideOpens DEF Request, RequestUnanswered, sent, IInv
<1>3. ASSUME NEW c \in calls, Continue(c) \/ CallRejects(c) \/ CommitUnanswered(c)
      PROVE  [OfferLoop!Next]_OfferLoop!vars
  <2>0. /\ c.ride \in Ride /\ c.tenant \in Tenant /\ c.drivers \subseteq DriverId
        /\ CallFits(c) /\ TypeOK /\ <<>> \in Seq(DriverId)
        /\ offered[c.ride] \in Seq(DriverId)
    BY ActingCall, CallFields, EmptySeq DEF IInv, TypeOK
  <2>1. CASE SearchNearby(c)
    <3>1. rides' = rides
      BY <2>1 DEF SearchNearby, ledgerVars
    <3>2. rides[c.ride].state = "REQUESTED" /\ MayAsk(c.ride, <<>>)
      BY <2>0, <2>1 DEF SearchNearby, CallFits
    <3>3. \/ offered' = offered
          \/ offerNext(c.ride, c.tenant, <<>>, calls \ {c}, timers, pending)
      BY <2>1 DEF SearchNearby
    <3>. QED
      BY <1>1, <2>0, <3>1, <3>2, <3>3, offerNextAsks
  <2>2. CASE OfferRanked(c)
    <3>1. rides' = rides
      BY <2>2 DEF OfferRanked, ledgerVars
    <3>2. rides[c.ride].state = "REQUESTED" /\ offered[c.ride] = <<>>
      BY <2>0, <2>2 DEF OfferRanked, CallFits
    <3>3. PICK ranked \in Shortlists(c.drivers) :
            offerNext(c.ride, c.tenant, ranked, calls \ {c}, timers, pending)
      BY <2>2 DEF OfferRanked
    <3>4. ranked \in Seq(DriverId) /\ MayAsk(c.ride, ranked)
      BY <2>0, <3>2, ShortlistMayAsk
    <3>. QED
      BY <2>0, <3>1, <3>2, <3>3, <3>4, offerNextAsks
  <2>3. CASE FilterBusy(c) \/ AssignDriver(c) \/ AnnounceNoDriver(c) \/ CallRejects(c)
    BY <1>1, <2>3 DEF FilterBusy, AssignDriver, AnnounceNoDriver, CallRejects,
                      ledgerVars, sent
  <2>4. CASE CommitAccept(c)
    BY <2>4, MatchIsMatch DEF CommitAccept, sent
  <2>5. CASE CommitNoDriver(c)
    BY <2>5, NoDriverIsGiveUp DEF CommitNoDriver, sent
  <2>6. CASE CommitUnanswered(c)
    BY <2>6, MatchIsMatch, NoDriverIsGiveUp DEF CommitUnanswered, sent
  <2>. QED
    BY <1>3, <2>1, <2>2, <2>3, <2>4, <2>5, <2>6 DEF Continue
<1>4. ASSUME NEW timer \in timers, TimerFires(timer)
      PROVE  [OfferLoop!Next]_OfferLoop!vars
  <2>1. /\ timer.ride \in Ride /\ timer \in TimersOf(timer.ride)
        /\ timer.rest \in Seq(DriverId) /\ TypeOK
    BY TimerFields DEF IInv, TimersOf
  <2>2. OfferOut(timer.ride) /\ TimersOf(timer.ride) = {pending[timer.ride].timer}
    BY <2>1, LiveOffer
  <2>3. /\ rides[timer.ride].state = "REQUESTED"
        /\ MayAsk(timer.ride, timer.rest)
    BY <2>1, <2>2 DEF OfferOut
  <2>4. /\ rides' = rides
        /\ offerNext(timer.ride, timer.tenant, timer.rest, calls,
                     timers \ {timer}, [pending EXCEPT ![timer.ride] = NoOffer])
    BY <1>4 DEF TimerFires, ledgerVars
  <2>. QED
    BY <2>1, <2>3, <2>4, offerNextAsks
<1>5. CASE \/ \E t \in Tenant, d \in DriverId : recordLocation(t, d)
           \/ \E t \in Tenant, d \in DriverId, r \in Ride : Accept(t, d, r)
           \/ RedisRestarts \/ ProcessRestarts \/ UNCHANGED vars
  BY <1>1, <1>5 DEF recordLocation, Accept, RedisRestarts, ProcessRestarts,
                    ledgerVars, sent, vars
<1>. QED
  BY <1>2, <1>3, <1>4, <1>5 DEF Next

\* Matching is the one-at-a-time offer loop, whatever fails: no driver is asked
\* twice, nobody once the ride is settled, and it is settled once, on the
\* driver asked last.
THEOREM MatchingIsOfferLoop == Spec => ImplementsOfferLoop
<1>1. Init => OfferLoop!Init
  BY DEF Init, LedgerInit, OfferLoop!Init, OfferLoop!Unrequested, NoRow
<1>2. IInv /\ LedgerIInv /\ [Next]_vars => [OfferLoop!Next]_OfferLoop!vars
  BY StepOfLoop DEF LedgerIInv
<1>3. Spec => []LedgerIInv
  BY ImplementsLedger, LedgerInvariant, PTL
<1>. QED
  BY <1>1, <1>2, <1>3, CustodyInvariant, PTL
     DEF Spec, ImplementsOfferLoop, OfferLoop!Spec
=============================================================================
