------------------------------- MODULE CaseFile -------------------------------
(***************************************************************************)
(* What a language model is shown of a ride, and what it may answer        *)
(* (assist/case-file.ts).  Text is the set of the things it says, as far   *)
(* as some rule of the code tells them apart.                              *)
(***************************************************************************)
EXTENDS Naturals, Sequences

Contact == {"phone", "email"}

\* Mutant: an actor with no other role is shown as it is.
roleOf_FallsThrough(actor, ride) ==
    IF actor = ride.passenger THEN "passenger"
    ELSE IF actor = ride.driver THEN "driver" ELSE actor

\* The first that fits: ids come from headers, and one may play two parts.
roleOf(actor, ride) ==
    IF actor = ride.passenger THEN "passenger"
    ELSE IF actor = ride.driver THEN "driver"
    ELSE IF actor = "system" THEN "system" ELSE "staff"

\* events carry their ids; PHONE and EMAIL miss a disguised contact.
buildCaseFile(ride, events, complaint) ==
    [state     |-> ride.state,
     events    |-> [i \in DOMAIN events |->
                       [events[i] EXCEPT !.actor = roleOf(@, ride)]],
     complaint |-> complaint \ Contact]

known(caseFile) ==
    {caseFile.events[i].id : i \in DOMAIN caseFile.events}

\* PAYMENT_PROMISE is a word pattern: it misses what is "reworded".
Promises(reply) == "promise" \in reply

\* What a model hands in: an object with the fields of SUBMIT_DRAFT_TOOL, or
\* Undefined for anything draftSchema does not parse.  Ids are unique.
Raw(ids, replies) == [cites : SUBSET ids, reply : replies]

Undefined == [cites |-> {}, reply |-> {}]

\* Mutant: the ids are counted, not looked up.
validateDraft_IdsUnchecked(raw, caseFile) ==
    raw.cites # {} /\ ~Promises(raw.reply)

\* ok; citedEventIds has at least one element.
validateDraft(raw, caseFile) ==
    /\ raw.cites # {}
    /\ raw.cites \subseteq known(caseFile)
    /\ ~Promises(raw.reply)
=============================================================================
