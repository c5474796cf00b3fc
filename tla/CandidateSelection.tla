-------------------------- MODULE CandidateSelection --------------------------
(***************************************************************************)
(* Which drivers a ride is offered to (MatchingService.nearbyFreeDrivers,  *)
(* rankByEta): one tenant's drivers report where they are, a search asks   *)
(* Redis for the nearest, a second call asks which of those are busy, and  *)
(* meanwhile drivers move and accept other rides, and Redis may lose what  *)
(* it holds.  Matching takes any list of drivers; this module is about     *)
(* which list it is.  Places lie on a line, so that a distance is a        *)
(* difference of integers.                                                 *)
(***************************************************************************)
EXTENDS Integers, Sequences, FiniteSets, Functions

CONSTANTS
    Driver,             \* the tenant's drivers
    Request,            \* rides that are dispatched
    Place, None,
    Pickup,             \* places where passengers ask for a ride
    SEARCH_RADIUS_M, MAX_CANDIDATES, MAX_OFFERS

ASSUME SelectionAssumption ==
    /\ IsFiniteSet(Driver)
    /\ Place \subseteq Int /\ None \notin Place /\ Pickup \subseteq Place
    /\ {SEARCH_RADIUS_M, MAX_CANDIDATES, MAX_OFFERS} \subseteq Nat

VARIABLES
    position,    \* the geo set drivers:<tenant>; nothing is ever removed
    busy,        \* the set busy:<tenant>
    taken,       \* the drivers matched to a ride, in the table rides
    search       \* search[r]: how far the dispatch of r has come

selectionVars == <<position, busy, taken, search>>

\* seen is what the search found within the radius; list is what is left of it.
Search == [step : {"none", "searched", "listed", "over"}, pickup : Place \cup {None},
           seen : [Driver -> Place \cup {None}], list : Seq(Driver)]

Nowhere == [d \in Driver |-> None]

NoSearch(step) == [step |-> step, pickup |-> None, seen |-> Nowhere,
                   list |-> <<>>]

SelectionTypeOK ==
    /\ position \in [Driver -> Place \cup {None}]
    /\ busy \subseteq taken /\ taken \subseteq Driver
    /\ search \in [Request -> Search]
    /\ \A r \in Request : Len(search[r].list) <=
           IF search[r].step = "listed" THEN MAX_OFFERS ELSE MAX_CANDIDATES

\* Earlier rides have left their drivers in busy.
SelectionInit ==
    /\ position = Nowhere
    /\ taken \in SUBSET Driver /\ busy = taken
    /\ search = [r \in Request |-> NoSearch("none")]
-----------------------------------------------------------------------------
haversineMeters(a, b) == IF a < b THEN b - a ELSE a - b

\* WITHCOORD returns the position that the search compared.
Distance(r, d) == haversineMeters(search[r].seen[d], search[r].pickup)

Within(where, pickup) ==
    {d \in Driver : /\ where[d] # None
                    /\ haversineMeters(where[d], pickup) <= SEARCH_RADIUS_M}

Inside(where, pickup) ==
    [d \in Driver |-> IF d \in Within(where, pickup) THEN where[d] ELSE None]

\* Mutant: COUNT without ASC, any of them in any order.
Nearest_Unsorted(count, far) ==
    LET n == IF Cardinality(DOMAIN far) < count THEN Cardinality(DOMAIN far)
                                                ELSE count
    IN {list \in [1 .. n -> DOMAIN far] : IsInjective(list)}

\* The count nearest of the drivers of whom far tells how far they are, or all
\* if they are fewer, the nearest first, equal distances in any order.
Nearest(count, far) ==
    LET n == IF Cardinality(DOMAIN far) < count THEN Cardinality(DOMAIN far)
                                                ELSE count
    IN {list \in [1 .. n -> DOMAIN far] :
           /\ IsInjective(list)
           /\ \A i, j \in 1 .. n : i < j => far[list[i]] <= far[list[j]]
           /\ \A d \in DOMAIN far \ Range(list), i \in 1 .. n :
                 far[list[i]] <= far[d]}

\* BYRADIUS ... ASC COUNT.
geosearch(where, pickup) ==
    Nearest(MAX_CANDIDATES,
            [d \in Within(where, pickup) |-> haversineMeters(where[d], pickup)])

\* rankByEta(...).slice(0, MAX_OFFERS), by straightLineEta: a constant speed
\* over the distance.
rankByEta(r, drivers) ==
    Nearest(MAX_OFFERS, [d \in drivers |-> Distance(r, d)])

\* Mutant: the slice is taken before the busy drivers are filtered out.
Shortlist_SlicedFirst(r) ==
    {SelectSeq(list, LAMBDA d : d \notin busy) :
        list \in rankByEta(r, Range(search[r].list))}

\* What is left: the free ones, ranked and cut.
Shortlist(r) == rankByEta(r, Range(search[r].list) \ busy)

\* recordLocation.
Report(d, p) ==
    /\ position' = [position EXCEPT ![d] = p]
    /\ UNCHANGED <<busy, taken, search>>

\* An empty answer skips the second call and ends the search with no driver.
GeoSearch(r, pickup) ==
    /\ search[r].step = "none"
    /\ \E s \in geosearch(position, pickup) :
          search' = [search EXCEPT ![r] =
              [step |-> IF s = <<>> THEN "listed" ELSE "searched",
               pickup |-> pickup, seen |-> Inside(position, pickup), list |-> s]]
    /\ UNCHANGED <<position, busy, taken>>

\* SMISMEMBER is answered; the list that offerNext goes through is fixed.
FilterBusy(r) ==
    /\ search[r].step = "searched"
    /\ \E list \in Shortlist(r) :
          search' = [search EXCEPT ![r].step = "listed", ![r].list = list]
    /\ UNCHANGED <<position, busy, taken>>

Ends(r) == search' = [search EXCEPT ![r] = NoSearch("over")]

\* A driver on the list accepts, and the match commits.
Accepted(r, d) ==
    /\ search[r].step = "listed" /\ d \in Range(search[r].list)
    /\ taken' = taken \cup {d}
    /\ Ends(r)
    /\ UNCHANGED <<position, busy>>

\* So does a driver who holds an offer of another ride.
AcceptedElsewhere(d) ==
    /\ taken' = taken \cup {d}
    /\ UNCHANGED <<position, busy, search>>

\* SADD, after that commit; it may fail and never come.
MarkedBusy(d) ==
    /\ d \in taken
    /\ busy' = busy \cup {d}
    /\ UNCHANGED <<position, taken, search>>

\* The list is empty or every offer has ended without a match.
GivenUp(r) ==
    /\ search[r].step = "listed" /\ Ends(r)
    /\ UNCHANGED <<position, busy, taken>>

\* A Redis command rejects, and with it the dispatch.
SearchRejects(r) ==
    /\ search[r].step \in {"none", "searched"} /\ Ends(r)
    /\ UNCHANGED <<position, busy, taken>>

\* Redis comes back without its keys.
RedisRestarts ==
    /\ position' = Nowhere /\ busy' = {}
    /\ UNCHANGED <<taken, search>>

SelectionNext ==
    \/ \E d \in Driver : AcceptedElsewhere(d) \/ MarkedBusy(d)
                         \/ \E p \in Place : Report(d, p)
    \/ \E r \in Request :
          \/ \E p \in Pickup : GeoSearch(r, p)
          \/ FilterBusy(r) \/ SearchRejects(r) \/ GivenUp(r)
          \/ \E d \in Driver : Accepted(r, d)
    \/ RedisRestarts

SelectionSpec == SelectionInit /\ [][SelectionNext]_selectionVars
-----------------------------------------------------------------------------
Listed(r) == Range(search[r].list)

\* The drivers whom a finished search saw within the radius and who have no
\* ride: they had none at the filter either, for a match is for good.
FreeNearby(r) ==
    Within(search[r].seen, search[r].pickup) \ taken

\* slice/README.md:3 (matching.service.ts:66-69, 98-111): a list is in the
\* order of the distances that the search saw, and no free driver left out of
\* it was nearer than one on it, however drivers moved and accepted between
\* the two calls, and whatever Redis still knew of them.
NearestFreeFirst ==
    \A r \in Request : search[r].step = "listed" =>
        /\ \A i, j \in DOMAIN search[r].list : i < j =>
              Distance(r, search[r].list[i]) <= Distance(r, search[r].list[j])
        /\ \A d \in FreeNearby(r) \ Listed(r), e \in Listed(r) :
              Distance(r, e) <= Distance(r, d)

\* matching.service.ts:67-69, 103: a free driver within the radius is left out
\* only for MAX_OFFERS others, or because MAX_CANDIDATES others were as near.
PassedOverOnlyByCount ==
    \A r \in Request : search[r].step = "listed" =>
        \A d \in FreeNearby(r) \ Listed(r) :
            \/ Len(search[r].list) = MAX_OFFERS
            \/ Cardinality({e \in Within(search[r].seen, search[r].pickup) \ {d} :
                   Distance(r, e) <= Distance(r, d)}) >= MAX_CANDIDATES
=============================================================================
