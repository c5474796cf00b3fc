--------------------------- MODULE DispatchProofs ---------------------------
(***************************************************************************)
(* What is proved of a dispatch beside Matching: that the shutdown hooks   *)
(* wait for it (Shutdown), for any number of rides in any stage, and whom  *)
(* it offers the ride to (CandidateSelection), for any finite number of    *)
(* drivers anywhere, any radius and any bounds on the two lists.  (Spec is *)
(* Shutdown's, SelectionSpec is CandidateSelection's.)                     *)
(***************************************************************************)
EXTENDS Shutdown, CandidateSelection, SequenceTheorems, FiniteSetTheorems, TLAPS
-----------------------------------------------------------------------------
(* Type correctness *)

\* Both outcomes of offerNext for a ride whose work was not "none" or "over".
LEMMA offerNextType ==
    ASSUME ShutdownTypeOK, NEW r \in Ride, NEW who \in Runner, offerNext(r, who),
           r \in inflight => runner'[r] \in {"before", "during"},
           runner' \in [Ride -> Runner],
           \A q \in Ride \ {r} : runner'[q] = runner[q],
           UNCHANGED <<phase, waitFor, relay>>
    PROVE  ShutdownTypeOK'
BY DEF ShutdownTypeOK, offerNext, Becomes, Publish, Work, relay

LEMMA StepType == ShutdownTypeOK /\ [Next]_vars => ShutdownTypeOK'
<1>. SUFFICES ASSUME ShutdownTypeOK, [Next]_vars PROVE ShutdownTypeOK'
  OBVIOUS
<1>. USE DEF matching, relay
<1>1. ASSUME NEW r \in Ride, Dispatch(r) PROVE ShutdownTypeOK'
  BY <1>1 DEF Dispatch, Becomes, ShutdownTypeOK, Work, Runner
<1>2. ASSUME NEW r \in Ride, SearchAnswered(r) PROVE ShutdownTypeOK'
  <2>1. runner[r] \in Runner /\ runner' = runner
    BY <1>2 DEF SearchAnswered, ShutdownTypeOK
  <2>. QED
    BY <1>2, <2>1, offerNextType DEF SearchAnswered, ShutdownTypeOK
<1>3. ASSUME NEW r \in Ride, TimerFires(r) PROVE ShutdownTypeOK'
  <2>1. r \notin inflight
    BY <1>3 DEF TimerFires, ShutdownTypeOK
  <2>2. /\ runner' \in [Ride -> Runner]
        /\ \A q \in Ride \ {r} : runner'[q] = runner[q]
        /\ "timer" \in Runner
    BY <1>3 DEF TimerFires, ShutdownTypeOK, Runner
  <2>. QED
    BY <1>3, <2>1, <2>2, offerNextType DEF TimerFires
<1>4. ASSUME NEW r \in Ride,
             \/ request(r) \/ Accept(r) \/ AcceptAnswered(r) \/ MultiAnswered(r)
             \/ GiveUpAnswered(r) \/ Rejected(r)
      PROVE  ShutdownTypeOK'
  BY <1>4 DEF request, Accept, AcceptAnswered, MultiAnswered, GiveUpAnswered,
              Rejected,
              Becomes, Publish, ShutdownTypeOK, Work
<1>5. CASE StartTick \/ HandOff \/ TickEnds
  BY <1>5 DEF StartTick, HandOff, TickEnds, Publish, ShutdownTypeOK
<1>6. CASE OnModuleDestroy
  BY <1>6 DEF OnModuleDestroy, ShutdownTypeOK, Phase, Work
<1>7. CASE Close
  BY <1>7 DEF Close, Dispose, EndPool, DisconnectRedis, ShutdownTypeOK, Phase
<1>8. CASE UNCHANGED vars
  BY <1>8 DEF vars, ShutdownTypeOK
<1>. QED
  BY <1>1, <1>2, <1>3, <1>4, <1>5, <1>6, <1>7, <1>8 DEF Next, Answer

\* The rides, the relay and the hooks keep their types; and a dispatch that is
\* in flight awaits an answer, never an offer's timer.
THEOREM ShutdownTypeCorrect == Spec => []ShutdownTypeOK
<1>1. Init => ShutdownTypeOK
  BY DEF Init, ShutdownTypeOK, Phase, Work, Runner
<1>. QED
  BY <1>1, StepType, PTL DEF Spec
-----------------------------------------------------------------------------
(* Why the hooks drain what they promise *)

\* A dispatch from before the shutdown that may yet publish is in flight.
Tracked ==
    \A r \in Ride :
        runner[r] = "before" /\ work[r] \in {"search", "givingUp"} => r \in inflight

\* Whatever was in flight when the hooks were called is waited for, and nothing
\* that is still to be dispatched.
Waited ==
    /\ \A r \in waitFor : work[r] \notin {"none", "requesting"}
    /\ phase # "up" =>
          /\ ~polling
          /\ \A r \in inflight : runner[r] = "before" => r \in waitFor

\* And it is over once the adapter is disposed; so is the relay's tick.
Drained == Disposed => waitFor \cap inflight = {} /\ tick = "idle"

DrainIInv == ShutdownTypeOK /\ Tracked /\ Waited /\ Drained /\ HooksDrain

\* Nobody the hooks wait for can publish on a disposed adapter.
LEMMA NobodyLate ==
    ASSUME DrainIInv, NEW r \in Ride, Disposed,
           work[r] \in {"search", "givingUp"}
    PROVE  runner[r] # "before"
BY DEF DrainIInv, Tracked, Waited, Drained, Disposed

LEMMA offerNextDrains ==
    ASSUME DrainIInv, NEW r \in Ride, NEW who \in Runner, offerNext(r, who),
           who = runner'[r], r \in inflight => runner'[r] = runner[r],
           who = "before" => r \in inflight /\ ~Disposed,
           who # "relay",
           runner' \in [Ride -> Runner],
           \A q \in Ride \ {r} : runner'[q] = runner[q],
           UNCHANGED <<phase, waitFor, relay>>
    PROVE  Tracked' /\ Waited' /\ Drained' /\ HooksDrain'
BY DEF DrainIInv, ShutdownTypeOK, Tracked, Waited, Drained, HooksDrain, Disposed,
       offerNext, Becomes, Publish, relay, PoolEnded

LEMMA StepDrains == DrainIInv /\ [Next]_vars => DrainIInv'
<1>. SUFFICES ASSUME DrainIInv, [Next]_vars
              PROVE  Tracked' /\ Waited' /\ Drained' /\ HooksDrain'
  BY StepType DEF DrainIInv
<1>. USE DEF matching, relay
<1>1. ASSUME NEW r \in Ride, Dispatch(r)
      PROVE  Tracked' /\ Waited' /\ Drained' /\ HooksDrain'
  BY <1>1 DEF Dispatch, Becomes, Disposed, DrainIInv, ShutdownTypeOK, Tracked,
              Waited, Drained, HooksDrain
<1>2. ASSUME NEW r \in Ride, SearchAnswered(r)
      PROVE  Tracked' /\ Waited' /\ Drained' /\ HooksDrain'
  <2>1. /\ runner[r] \in Runner /\ runner[r] # "relay" /\ runner' = runner
        /\ work[r] = "search"
    BY <1>2 DEF SearchAnswered, DrainIInv, ShutdownTypeOK, Runner
  <2>2. runner[r] = "before" => r \in inflight /\ ~Disposed
    BY <2>1, NobodyLate DEF DrainIInv, Tracked
  <2>. QED
    BY <1>2, <2>1, <2>2, offerNextDrains
       DEF SearchAnswered, DrainIInv, ShutdownTypeOK
<1>3. ASSUME NEW r \in Ride, TimerFires(r)
      PROVE  Tracked' /\ Waited' /\ Drained' /\ HooksDrain'
  <2>1. r \notin inflight
    BY <1>3 DEF TimerFires, DrainIInv, ShutdownTypeOK
  <2>2. /\ runner' \in [Ride -> Runner] /\ runner'[r] = "timer"
        /\ \A q \in Ride \ {r} : runner'[q] = runner[q]
        /\ "timer" \in Runner
    BY <1>3 DEF TimerFires, DrainIInv, ShutdownTypeOK, Runner
  <2>. QED
    BY <1>3, <2>1, <2>2, offerNextDrains DEF TimerFires
<1>4. ASSUME NEW r \in Ride,
             \/ request(r) \/ Accept(r) \/ AcceptAnswered(r)
             \/ MultiAnswered(r) \/ Rejected(r)
      PROVE  Tracked' /\ Waited' /\ Drained' /\ HooksDrain'
  BY <1>4 DEF request, Accept, AcceptAnswered, MultiAnswered, Rejected, Becomes,
              Disposed,
              DrainIInv, ShutdownTypeOK, Tracked, Waited, Drained, HooksDrain
<1>5. ASSUME NEW r \in Ride, GiveUpAnswered(r)
      PROVE  Tracked' /\ Waited' /\ Drained' /\ HooksDrain'
  <2>1. Disposed => runner[r] \notin {"before", "relay"}
    BY <1>5, NobodyLate DEF GiveUpAnswered, DrainIInv, ShutdownTypeOK, Runner
  <2>. QED
    BY <1>5, <2>1 DEF GiveUpAnswered, Becomes, Publish, Disposed, DrainIInv,
                      ShutdownTypeOK, Tracked, Waited, Drained, HooksDrain
<1>6. CASE StartTick \/ HandOff \/ TickEnds
  BY <1>6 DEF StartTick, HandOff, TickEnds, Publish, Disposed, DrainIInv,
              Tracked, Waited, Drained, HooksDrain
<1>7. CASE OnModuleDestroy
  BY <1>7 DEF OnModuleDestroy, Disposed, DrainIInv, ShutdownTypeOK, Tracked,
              Waited, Drained, HooksDrain
<1>8. CASE Close
  BY <1>8 DEF Close, Dispose, EndPool, DisconnectRedis, Disposed, DrainIInv,
              Tracked, Waited, Drained, HooksDrain
<1>9. CASE UNCHANGED vars
  BY <1>9 DEF vars, Disposed, DrainIInv, Tracked, Waited, Drained, HooksDrain
<1>. QED
  BY <1>1, <1>2, <1>3, <1>4, <1>5, <1>6, <1>7, <1>8, <1>9 DEF Next, Answer

\* Neither a dispatch that was running when the hooks were called nor the relay
\* publishes on a disposed adapter, however many rides are in whatever stage.
THEOREM HooksDo == Spec => []HooksDrain
<1>1. Init => DrainIInv
  BY DEF Init, DrainIInv, ShutdownTypeOK, Tracked, Waited, Drained, HooksDrain,
         Disposed, Phase, Work, Runner
<1>2. DrainIInv => HooksDrain
  BY DEF DrainIInv
<1>. QED
  BY <1>1, <1>2, StepDrains, PTL DEF Spec
-----------------------------------------------------------------------------
(* The nearest of a finite set *)

\* A list of the nearest names each driver once, and leaves one out only when
\* it is as long as it may be.
LEMMA NearestList ==
    ASSUME NEW far, IsFiniteSet(DOMAIN far), NEW count \in Nat,
           NEW list \in Nearest(count, far)
    PROVE  /\ list \in Seq(DOMAIN far) /\ DOMAIN list = 1 .. Len(list)
           /\ Len(list) \in Nat /\ Len(list) <= count
           /\ Range(list) \subseteq DOMAIN far
           /\ IsFiniteSet(Range(list)) /\ Cardinality(Range(list)) = Len(list)
           /\ Range(list) # DOMAIN far => Len(list) = count
<1>. DEFINE n == IF Cardinality(DOMAIN far) < count THEN Cardinality(DOMAIN far)
                                                    ELSE count
<1>1. /\ Cardinality(DOMAIN far) \in Nat
      /\ n \in Nat /\ n <= count /\ (n = Cardinality(DOMAIN far) \/ n = count)
  BY FS_CardinalityType
<1>2. list \in [1 .. n -> DOMAIN far] /\ IsInjective(list)
  BY DEF Nearest
<1>. HIDE DEF n
<1>3. /\ list \in Seq(DOMAIN far) /\ Len(list) = n /\ DOMAIN list = 1 .. n
  BY <1>1, <1>2
<1>4. Range(list) \subseteq DOMAIN far
  BY <1>2 DEF Range
<1>5. list \in Bijection(1 .. n, Range(list))
  <2>1. \A i \in 1 .. n : list[i] \in Range(list)
    BY <1>3 DEF Range
  <2>2. list \in [1 .. n -> Range(list)]
    BY <1>2, <2>1
  <2>3. \A d \in Range(list) : \E i \in 1 .. n : list[i] = d
    BY <1>3 DEF Range
  <2>. QED
    BY <1>2, <2>2, <2>3 DEF Surjection, Injection, Bijection
<1>6. ExistsBijection(1 .. n, Range(list))
  BY <1>5 DEF ExistsBijection
<1>7. IsFiniteSet(Range(list)) /\ Cardinality(Range(list)) = n
  BY <1>1, <1>4, <1>6, FS_CountingElements, FS_Subset
<1>8. Range(list) # DOMAIN far => n # Cardinality(DOMAIN far)
  BY <1>4, <1>7, FS_Subset
<1>. QED
  BY <1>1, <1>3, <1>4, <1>7, <1>8

\* It goes from the nearest to the farthest, and who is left out is at least
\* as far away as everyone on it.
LEMMA NearestOrder ==
    ASSUME NEW far, IsFiniteSet(DOMAIN far), NEW count \in Nat,
           NEW list \in Nearest(count, far)
    PROVE  /\ \A i, j \in DOMAIN list : i < j => far[list[i]] <= far[list[j]]
           /\ \A d \in DOMAIN far \ Range(list), e \in Range(list) :
                 far[e] <= far[d]
<1>. DEFINE n == IF Cardinality(DOMAIN far) < count THEN Cardinality(DOMAIN far)
                                                    ELSE count
<1>1. /\ list \in [1 .. n -> DOMAIN far]
      /\ \A i, j \in 1 .. n : i < j => far[list[i]] <= far[list[j]]
      /\ \A d \in DOMAIN far \ Range(list), i \in 1 .. n : far[list[i]] <= far[d]
  BY DEF Nearest
<1>. HIDE DEF n
<1>. QED
  BY <1>1 DEF Range
-----------------------------------------------------------------------------
(* The searches *)

\* The distances of some drivers as a search saw them.
FarOf(v, drivers) ==
    [d \in drivers |-> haversineMeters(v.seen[d], v.pickup)]

Found(v) == Nearest(MAX_CANDIDATES, FarOf(v, Within(v.seen, v.pickup)))

\* Where a list comes from: the search found the nearest, and of these some
\* were busy, who have a ride still, when the rest were ranked and cut.
Arose(v, gone) ==
    /\ v.step \in {"searched", "listed"} => v.pickup \in Place
    /\ v.step = "searched" => v.list \in Found(v)
    /\ v.step = "listed" =>
          \E found \in Found(v), out \in SUBSET gone :
              v.list \in Nearest(MAX_OFFERS, FarOf(v, Range(found) \ out))

Selected(r) == Arose(search[r], taken)

SelectionIInv == SelectionTypeOK /\ \A r \in Request : Selected(r)

USE SelectionAssumption

LEMMA WithinIsFinite ==
    ASSUME NEW where, NEW pickup, NEW far, DOMAIN far = Within(where, pickup)
    PROVE  IsFiniteSet(DOMAIN far) /\ DOMAIN far \subseteq Driver
BY FS_Subset DEF Within

\* What is ranked are drivers that the search found.
LEMMA FoundAreDrivers ==
    ASSUME NEW v, NEW found \in Found(v)
    PROVE  /\ Range(found) \subseteq Within(v.seen, v.pickup)
           /\ Range(found) \subseteq Driver
           /\ found \in Seq(Driver) /\ Len(found) <= MAX_CANDIDATES
<1>. DEFINE far == FarOf(v, Within(v.seen, v.pickup))
<1>1. /\ DOMAIN far = Within(v.seen, v.pickup)
      /\ IsFiniteSet(DOMAIN far) /\ DOMAIN far \subseteq Driver
  BY WithinIsFinite DEF FarOf
<1>2. found \in Nearest(MAX_CANDIDATES, far)
  BY DEF Found
<1>. HIDE DEF far
<1>3. /\ found \in Seq(DOMAIN far) /\ Len(found) <= MAX_CANDIDATES
      /\ Range(found) \subseteq DOMAIN far
  BY <1>1, <1>2, NearestList
<1>4. found \in Seq(Driver)
  BY <1>1, <1>3, SeqMonotonic
<1>. QED
  BY <1>1, <1>3, <1>4

\* Whoever the search did not find was passed over for MAX_CANDIDATES others,
\* each at least as near.
LEMMA FoundIsNearest ==
    ASSUME NEW v, NEW found \in Found(v),
           NEW d \in Within(v.seen, v.pickup) \ Range(found)
    PROVE  /\ Cardinality(Range(found)) = MAX_CANDIDATES
           /\ \A e \in Range(found) : haversineMeters(v.seen[e], v.pickup)
                                          <= haversineMeters(v.seen[d], v.pickup)
<1>. DEFINE far == FarOf(v, Within(v.seen, v.pickup))
<1>1. /\ DOMAIN far = Within(v.seen, v.pickup) /\ IsFiniteSet(DOMAIN far)
      /\ \A e \in DOMAIN far : far[e] = haversineMeters(v.seen[e], v.pickup)
  BY WithinIsFinite DEF FarOf
<1>2. found \in Nearest(MAX_CANDIDATES, far)
  BY DEF Found
<1>. HIDE DEF far
<1>3. /\ Cardinality(Range(found)) = Len(found)
      /\ Range(found) # DOMAIN far => Len(found) = MAX_CANDIDATES
      /\ \A e \in Range(found) : far[e] <= far[d]
  BY <1>1, <1>2, NearestList, NearestOrder
<1>. QED
  BY <1>1, <1>3, FoundAreDrivers

LEMMA Ranked ==
    ASSUME NEW v, NEW S \in SUBSET Driver,
           NEW list \in Nearest(MAX_OFFERS, FarOf(v, S))
    PROVE  /\ list \in Seq(Driver) /\ Len(list) \in Nat /\ Len(list) <= MAX_OFFERS
           /\ DOMAIN list = 1 .. Len(list)
           /\ Range(list) \subseteq S
           /\ Range(list) # S => Len(list) = MAX_OFFERS
           /\ \A i, j \in DOMAIN list : i < j =>
                 haversineMeters(v.seen[list[i]], v.pickup)
                     <= haversineMeters(v.seen[list[j]], v.pickup)
           /\ \A d \in S \ Range(list), e \in Range(list) :
                 haversineMeters(v.seen[e], v.pickup)
                     <= haversineMeters(v.seen[d], v.pickup)
<1>. DEFINE far == FarOf(v, S)
<1>1. /\ IsFiniteSet(DOMAIN far) /\ DOMAIN far = S
      /\ \A d \in S : far[d] = haversineMeters(v.seen[d], v.pickup)
  BY FS_Subset DEF FarOf
<1>2. list \in Nearest(MAX_OFFERS, far)
  OBVIOUS
<1>. HIDE DEF far
<1>3. /\ list \in Seq(S) /\ DOMAIN list = 1 .. Len(list)
      /\ Len(list) \in Nat /\ Len(list) <= MAX_OFFERS
      /\ Range(list) \subseteq S
      /\ Range(list) # S => Len(list) = MAX_OFFERS
  BY <1>1, <1>2, NearestList
<1>4. /\ \A i, j \in DOMAIN list : i < j => far[list[i]] <= far[list[j]]
      /\ \A d \in S \ Range(list), e \in Range(list) : far[e] <= far[d]
  BY <1>1, <1>2, NearestOrder
<1>5. \A i \in DOMAIN list : list[i] \in Range(list)
  BY DEF Range
<1>6. list \in Seq(Driver)
  BY <1>3, SeqMonotonic
<1>. QED
  BY <1>1, <1>3, <1>4, <1>5, <1>6
-----------------------------------------------------------------------------
(* The invariant *)

LEMMA SelectionInitIInv == SelectionInit => SelectionIInv
<1>. SUFFICES ASSUME SelectionInit PROVE SelectionIInv
  OBVIOUS
<1>1. Nowhere \in [Driver -> Place \cup {None}]
  BY DEF Nowhere
<1>2. NoSearch("none") \in Search
  BY <1>1 DEF NoSearch, Search
<1>3. \A r \in Request : /\ search[r] = NoSearch("none") /\ search[r].step = "none"
                         /\ Len(search[r].list) = 0
  BY DEF SelectionInit, NoSearch
<1>4. SelectionTypeOK
  BY <1>1, <1>2, <1>3 DEF SelectionInit, SelectionTypeOK
<1>. QED
  BY <1>3, <1>4 DEF SelectionIInv, Selected, Arose

\* Drivers who move, and others who are matched, change no search.
LEMMA SelectedStays ==
    ASSUME NEW r \in Request, Selected(r), search'[r] = search[r], taken \subseteq taken'
    PROVE  Selected(r)'
BY DEF Selected, Arose

\* One search changes and fits, and a match is for good.
LEMMA OneSearch ==
    ASSUME SelectionIInv, NEW r \in Request, NEW value \in Search,
           search' = [search EXCEPT ![r] = value],
           value.step = "listed" => Len(value.list) <= MAX_OFFERS,
           value.step # "listed" => Len(value.list) <= MAX_CANDIDATES,
           position' = position, busy' = busy, taken \subseteq taken',
           taken' \subseteq Driver, Arose(value, taken')
    PROVE  SelectionIInv'
<1>1. search \in [Request -> Search]
  BY DEF SelectionIInv, SelectionTypeOK
<1>2. /\ search' \in [Request -> Search] /\ search'[r] = value
      /\ \A q \in Request \ {r} : search'[q] = search[q]
  BY <1>1
<1>3. SelectionTypeOK'
  BY <1>2 DEF SelectionIInv, SelectionTypeOK
<1>4. \A q \in Request : Selected(q)'
  BY <1>2, SelectedStays DEF SelectionIInv, Selected
<1>. QED
  BY <1>3, <1>4 DEF SelectionIInv

LEMMA SearchFields ==
    ASSUME SelectionIInv, NEW r \in Request
    PROVE  /\ search \in [Request -> Search] /\ search[r] \in Search
           /\ search[r].pickup \in Place \cup {None}
           /\ search[r].seen \in [Driver -> Place \cup {None}]
           /\ search[r].list \in Seq(Driver)
           /\ Selected(r)
BY DEF SelectionIInv, SelectionTypeOK, Search

LEMMA GeoSearchStep ==
    ASSUME SelectionIInv, NEW r \in Request, NEW p \in Place, GeoSearch(r, p)
    PROVE  SelectionIInv'
<1>1. PICK found \in geosearch(position, p) :
         search' = [search EXCEPT ![r] =
             [step |-> IF found = <<>> THEN "listed" ELSE "searched",
              pickup |-> p, seen |-> Inside(position, p), list |-> found]]
  BY DEF GeoSearch
<1>. DEFINE value == [step |-> IF found = <<>> THEN "listed" ELSE "searched",
                      pickup |-> p, seen |-> Inside(position, p), list |-> found]
<1>2. /\ position \in [Driver -> Place \cup {None}] /\ UNCHANGED <<position, busy, taken>>
      /\ search \in [Request -> Search] /\ taken \subseteq Driver
  BY DEF SelectionIInv, SelectionTypeOK, GeoSearch
<1>3. search' = [search EXCEPT ![r] = value] /\ search'[r] = value
  BY <1>1, <1>2
<1>4. /\ value.step \in {"searched", "listed"} /\ value.pickup = p
      /\ value.seen = Inside(position, p) /\ value.list = found
      /\ value.step = "listed" <=> found = <<>>
  OBVIOUS
<1>5. /\ Within(Inside(position, p), p) = Within(position, p)
      /\ \A d \in Within(position, p) : Inside(position, p)[d] = position[d]
      /\ Inside(position, p) \in [Driver -> Place \cup {None}]
  BY <1>2 DEF Inside, Within
<1>. HIDE DEF value
<1>6. FarOf(value, Within(value.seen, value.pickup)) =
            [d \in Within(position, p) |-> haversineMeters(position[d], p)]
  BY <1>4, <1>5 DEF FarOf
<1>7. found \in Found(value)
  BY <1>6 DEF geosearch, Found
<1>8. found \in Seq(Driver) /\ Len(found) <= MAX_CANDIDATES
  BY <1>7, FoundAreDrivers
<1>9. value \in Search
  BY <1>4, <1>5, <1>8 DEF Search, value
<1>10. Arose(value, taken')
  <2>1. CASE found # <<>>
    BY <1>4, <1>7, <2>1 DEF Arose
  <2>2. CASE found = <<>>
    <3>1. Range(found) \ {} = {}
      BY <2>2 DEF Range
    <3>2. <<>> \in Nearest(MAX_OFFERS, FarOf(value, {}))
      <4>. DEFINE none == FarOf(value, {})
      <4>1. DOMAIN none = {} /\ Cardinality(DOMAIN none) = 0
        BY FS_EmptySet DEF FarOf
      <4>2. (IF 0 < MAX_OFFERS THEN 0 ELSE MAX_OFFERS) = 0
        OBVIOUS
      <4>. HIDE DEF none
      <4>3. <<>> \in Nearest(MAX_OFFERS, none)
        BY <4>1, <4>2 DEF Nearest, IsInjective
      <4>. QED
        BY <4>3 DEF none
    <3>. QED
      BY <1>4, <1>7, <2>2, <3>1, <3>2 DEF Arose
  <2>. QED
    BY <2>1, <2>2
<1>11. value.step = "listed" => Len(value.list) <= MAX_OFFERS
  BY <1>4
<1>. QED
  BY <1>2, <1>3, <1>4, <1>8, <1>9, <1>10, <1>11, OneSearch

LEMMA FilterBusyStep ==
    ASSUME SelectionIInv, NEW r \in Request, FilterBusy(r)
    PROVE  SelectionIInv'
<1>. DEFINE before == search[r]
            free == Range(before.list) \ busy
<1>1. PICK list \in Nearest(MAX_OFFERS, FarOf(before, free)) :
         search' = [search EXCEPT ![r].step = "listed", ![r].list = list]
  BY DEF FilterBusy, Shortlist, rankByEta, Distance, FarOf
<1>2. /\ before.step = "searched" /\ UNCHANGED <<position, busy, taken>>
      /\ busy \subseteq taken /\ taken \subseteq Driver
  BY DEF FilterBusy, SelectionIInv, SelectionTypeOK
<1>3. before \in Search /\ before.list \in Found(before) /\ before.pickup \in Place
  BY <1>2, SearchFields DEF Selected, Arose
<1>4. free \subseteq Driver
  BY <1>3, FoundAreDrivers
<1>5. list \in Seq(Driver) /\ Len(list) <= MAX_OFFERS
  BY <1>1, <1>4, Ranked
<1>. DEFINE value == [before EXCEPT !.step = "listed", !.list = list]
<1>6. search' = [search EXCEPT ![r] = value]
  BY <1>1, SearchFields
<1>. HIDE DEF before
<1>7. /\ value \in Search /\ value.step = "listed" /\ value.list = list
      /\ value.pickup = before.pickup /\ value.seen = before.seen
  BY <1>3, <1>5 DEF Search
<1>. HIDE DEF value
<1>8. Arose(value, taken')
  <2>1. \A S : FarOf(value, S) = FarOf(before, S)
    BY <1>7 DEF FarOf
  <2>2. Found(value) = Found(before)
    BY <1>7, <2>1 DEF Found
  <2>3. list \in Nearest(MAX_OFFERS, FarOf(value, Range(before.list) \ busy))
    BY <1>1, <2>1
  <2>4. taken' = taken /\ busy \in SUBSET taken
    BY <1>2
  <2>. QED
    BY <1>3, <1>7, <2>2, <2>3, <2>4 DEF Arose
<1>. QED
  BY <1>2, <1>5, <1>6, <1>7, <1>8, OneSearch

LEMMA OverStep ==
    ASSUME SelectionIInv, NEW r \in Request,
           \/ GivenUp(r) \/ SearchRejects(r)
           \/ \E d \in Driver : Accepted(r, d)
    PROVE  SelectionIInv'
<1>1. /\ search' = [search EXCEPT ![r] = NoSearch("over")]
      /\ position' = position /\ busy' = busy
      /\ taken \subseteq taken' /\ taken' \subseteq Driver
  BY DEF GivenUp, SearchRejects, Accepted, Ends, SelectionIInv, SelectionTypeOK
<1>2. /\ NoSearch("over") \in Search /\ NoSearch("over").step = "over"
      /\ Len(NoSearch("over").list) = 0
  BY DEF NoSearch, Nowhere, Search
<1>3. Arose(NoSearch("over"), taken') /\ 0 <= MAX_CANDIDATES
  BY <1>2 DEF Arose
<1>. QED
  BY <1>1, <1>2, <1>3, OneSearch

LEMMA SelectionNextIInv ==
    SelectionIInv /\ [SelectionNext]_selectionVars => SelectionIInv'
<1>. SUFFICES ASSUME SelectionIInv, [SelectionNext]_selectionVars
     PROVE SelectionIInv'
  OBVIOUS
<1>1. ASSUME search' = search, position' \in [Driver -> Place \cup {None}],
             busy' \subseteq taken', taken \subseteq taken', taken' \subseteq Driver
      PROVE  SelectionIInv'
  <2>1. \A r \in Request : Selected(r)'
    BY <1>1, SelectedStays DEF SelectionIInv
  <2>. QED
    BY <1>1, <2>1 DEF SelectionIInv, SelectionTypeOK
<1>2. CASE UNCHANGED selectionVars
  BY <1>1, <1>2 DEF selectionVars, SelectionIInv, SelectionTypeOK
<1>3. ASSUME NEW d \in Driver,
             \/ AcceptedElsewhere(d) \/ MarkedBusy(d)
             \/ \E p \in Place : Report(d, p)
      PROVE  SelectionIInv'
  BY <1>1, <1>3 DEF AcceptedElsewhere, MarkedBusy, Report, SelectionIInv,
                    SelectionTypeOK
<1>4. CASE RedisRestarts
  BY <1>1, <1>4 DEF RedisRestarts, Nowhere, SelectionIInv, SelectionTypeOK
<1>5. \A p \in Pickup : p \in Place
  OBVIOUS
<1>. QED
  BY <1>2, <1>3, <1>4, <1>5, GeoSearchStep, FilterBusyStep, OverStep
     DEF SelectionNext

\* The invariant: every list on offer comes from one search, and whoever was
\* left out of it as busy has a ride still.
THEOREM SelectionInvariant == SelectionSpec => []SelectionIInv
BY SelectionInitIInv, SelectionNextIInv, PTL DEF SelectionSpec

\* Positions, drivers and searches keep their types, and no list is longer
\* than the bound of its step.
THEOREM SelectionTypeCorrect == SelectionSpec => []SelectionTypeOK
BY SelectionInvariant, PTL DEF SelectionIInv

\* A list on offer is in the order of the distances the search saw, and leaves
\* out no free driver for one farther away.
THEOREM OffersTheNearestFree == SelectionSpec => []NearestFreeFirst
<1>1. SelectionIInv => NearestFreeFirst
  <2>. SUFFICES ASSUME SelectionIInv, NEW r \in Request, search[r].step = "listed"
       PROVE  /\ \A i, j \in DOMAIN search[r].list : i < j =>
                    Distance(r, search[r].list[i]) <= Distance(r, search[r].list[j])
              /\ \A d \in FreeNearby(r) \ Listed(r), e \in Listed(r) :
                    Distance(r, e) <= Distance(r, d)
    BY DEF NearestFreeFirst
  <2>. DEFINE v == search[r]
  <2>1. PICK found \in Found(v), gone \in SUBSET taken :
           v.list \in Nearest(MAX_OFFERS, FarOf(v, Range(found) \ gone))
    BY SearchFields DEF Selected, Arose
  <2>2. Range(found) \ gone \in SUBSET Driver
    BY FoundAreDrivers
  <2>3. ASSUME NEW d \in FreeNearby(r) \ Listed(r), NEW e \in Listed(r)
        PROVE  Distance(r, e) <= Distance(r, d)
    <3>1. /\ d \in Within(v.seen, v.pickup) /\ d \notin gone
          /\ d \notin Range(v.list) /\ e \in Range(v.list)
      BY DEF FreeNearby, Listed
    <3>. HIDE DEF v
    <3>2. /\ Range(v.list) \subseteq Range(found)
          /\ d \in Range(found) => haversineMeters(v.seen[e], v.pickup)
                                       <= haversineMeters(v.seen[d], v.pickup)
      BY <2>1, <2>2, <3>1, Ranked
    <3>3. ASSUME d \notin Range(found)
          PROVE  haversineMeters(v.seen[e], v.pickup)
                     <= haversineMeters(v.seen[d], v.pickup)
      BY <3>1, <3>2, <3>3, FoundIsNearest
    <3>. QED
      BY <3>2, <3>3 DEF Distance, v
  <2>4. \A i, j \in DOMAIN v.list : i < j =>
           haversineMeters(v.seen[v.list[i]], v.pickup)
               <= haversineMeters(v.seen[v.list[j]], v.pickup)
    <3>. HIDE DEF v
    <3>. QED
      BY <2>1, <2>2, Ranked
  <2>. QED
    BY <2>3, <2>4 DEF Distance
<1>. QED
  BY <1>1, SelectionInvariant, PTL

\* A free driver within the radius is passed over only for as many others as
\* the list, or the search, may hold.
THEOREM PassesOverOnlyByCount == SelectionSpec => []PassedOverOnlyByCount
<1>1. SelectionIInv => PassedOverOnlyByCount
  <2>. SUFFICES ASSUME SelectionIInv, NEW r \in Request, search[r].step = "listed",
                       NEW d \in FreeNearby(r) \ Listed(r)
       PROVE  \/ Len(search[r].list) = MAX_OFFERS
              \/ Cardinality({e \in Within(search[r].seen, search[r].pickup) \ {d} :
                     Distance(r, e) <= Distance(r, d)}) >= MAX_CANDIDATES
    BY DEF PassedOverOnlyByCount
  <2>. DEFINE v == search[r]
              asNear == {e \in Within(v.seen, v.pickup) \ {d} :
                            haversineMeters(v.seen[e], v.pickup)
                                <= haversineMeters(v.seen[d], v.pickup)}
  <2>1. PICK found \in Found(v), gone \in SUBSET taken :
           v.list \in Nearest(MAX_OFFERS, FarOf(v, Range(found) \ gone))
    BY SearchFields DEF Selected, Arose
  <2>2. /\ Range(found) \ gone \in SUBSET Driver
        /\ Range(found) \subseteq Within(v.seen, v.pickup)
        /\ d \in Within(v.seen, v.pickup) /\ d \notin gone /\ d \notin Range(v.list)
    BY FoundAreDrivers DEF FreeNearby, Listed
  <2>3. Len(v.list) = MAX_OFFERS \/ Cardinality(asNear) >= MAX_CANDIDATES
    <3>. HIDE DEF v
    <3>1. CASE d \in Range(found)
      BY <2>1, <2>2, <3>1, Ranked
    <3>2. CASE d \notin Range(found)
      <4>1. /\ Cardinality(Range(found)) = MAX_CANDIDATES
            /\ Range(found) \subseteq asNear
        BY <2>2, <3>2, FoundIsNearest
      <4>2. IsFiniteSet(asNear)
        BY FS_Subset DEF Within
      <4>. HIDE DEF asNear
      <4>3. /\ Cardinality(Range(found)) <= Cardinality(asNear)
            /\ Cardinality(asNear) \in Nat
        BY <4>1, <4>2, FS_Subset, FS_CardinalityType
      <4>. QED
        BY <4>1, <4>3
    <3>. QED
      BY <3>1, <3>2
  <2>. QED
    BY <2>3 DEF Distance
<1>. QED
  BY <1>1, SelectionInvariant, PTL
=============================================================================
