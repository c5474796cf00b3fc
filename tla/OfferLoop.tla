------------------------------ MODULE OfferLoop ------------------------------
(***************************************************************************)
(* What matching promises about a ride, without timers, calls or keys:     *)
(* drivers are asked one at a time, none of them twice and at most         *)
(* MAX_OFFERS of them; the ride is then matched to the driver asked last,  *)
(* or given up; and, when nothing fails, it does not stay open.            *)
(* Matching implements it with asked <- offered and outcome <- the state   *)
(* and driver columns of the ride.                                         *)
(***************************************************************************)
EXTENDS Naturals, Sequences, Functions

CONSTANTS Ride, DriverId, MAX_OFFERS, Nil

VARIABLES asked, outcome

vars == <<asked, outcome>>

Unrequested == [state |-> "ABSENT", driver |-> Nil]
Open        == [state |-> "REQUESTED", driver |-> Nil]
MatchedTo(d) == [state |-> "MATCHED", driver |-> d]
GivenUp     == [state |-> "NO_DRIVER", driver |-> Nil]

Init ==
    /\ asked = [r \in Ride |-> <<>>]
    /\ outcome = [r \in Ride |-> Unrequested]

Request(r) ==
    /\ outcome[r] = Unrequested
    /\ outcome' = [outcome EXCEPT ![r] = Open]
    /\ UNCHANGED asked

Ask(r, d) ==
    /\ outcome[r] = Open
    /\ d \notin Range(asked[r])
    /\ Len(asked[r]) < MAX_OFFERS
    /\ asked' = [asked EXCEPT ![r] = Append(@, d)]
    /\ UNCHANGED outcome

Match(r) ==
    /\ outcome[r] = Open
    /\ asked[r] # <<>>
    /\ outcome' = [outcome EXCEPT ![r] = MatchedTo(asked[r][Len(asked[r])])]
    /\ UNCHANGED asked

GiveUp(r) ==
    /\ outcome[r] = Open
    /\ outcome' = [outcome EXCEPT ![r] = GivenUp]
    /\ UNCHANGED asked

Next ==
    \E r \in Ride :
        \/ Request(r) \/ Match(r) \/ GiveUp(r)
        \/ \E d \in DriverId : Ask(r, d)

Spec == Init /\ [][Next]_vars

FairSpec == Spec /\ \A r \in Ride : WF_vars(Match(r) \/ GiveUp(r))
=============================================================================
