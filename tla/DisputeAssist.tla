---------------------------- MODULE DisputeAssist ----------------------------
(***************************************************************************)
(* The dispute assistant (DisputeAssistService.draft) beside the rides it  *)
(* reads.  A draft reads the ride and then, in a second transaction, its   *)
(* events; RidesService goes on in between.  The model is outside: it may  *)
(* decline, break off, fail, or hand in anything.                          *)
(***************************************************************************)
EXTENDS RideLedger, CaseFile

CONSTANTS
    Call,        \* POST /v1/assist/disputes/:rideId/draft requests
    Region,      \* values of BEDROCK_REGION
    EURegion     \* EU_MANTLE_REGIONS

ASSUME EURegionsAreRegions == EURegion \subseteq Region

VARIABLES
    model,       \* MODEL_CLIENT
    drafts       \* drafts[c]: the request c and how far it has come

assistVars == <<ledgerVars, model, drafts>>

\* AppModule binds null or a Bedrock client; a client of the evaluation plane
\* can be bound in its place only by code outside src/.
Null == [plane |-> "none", region |-> Nil]
Bedrock(region) == [plane |-> "data", region |-> region]
EvalClient == [plane |-> "eval", region |-> Nil]

Complaint == SUBSET {"phone", "disguised"}
Reply == {{}, {"promise"}, {"reworded"}}

\* bigserial ids are unique across rides and tenants: the i-th event of r.
EventId == Ride \X {1, 2}

CaseEvent(actors) ==
    [id : EventId, type : {"requested", "matched", "no_driver"}, actor : actors]

File(actors) == [state : RideState, events : Seq(CaseEvent(actors)),
                 complaint : SUBSET ({"disguised"} \cup Contact)]

NoFile == [state |-> "ABSENT", events |-> <<>>, complaint |-> {}]

Role == {"passenger", "driver", "system", "staff"}

NoDraft == [step |-> "none", tenant |-> Nil, ride |-> Nil, complaint |-> {},
            row |-> NoRow, file |-> NoFile, draft |-> Undefined]

\* One type invariant: what is being read, sent, or was answered, has its type.
AssistTypeOK ==
    /\ LedgerTypeOK
    /\ model \in {Null, EvalClient} \cup {Bedrock(g) : g \in EURegion}
    /\ drafts \in [Call ->
           [step : {"none", "ride", "events", "model", "draft", "rejected", "error"},
            tenant : Tenant \cup {Nil}, ride : Ride \cup {Nil},
            complaint : Complaint, row : Row \cup {NoRow},
            file : File(Role) \cup {NoFile}, draft : Raw(EventId, Reply)]]

\* BedrockModelClient's constructor throws, and the process does not start,
\* unless the region is in EU_MANTLE_REGIONS.
bedrockConfigFor(region) == region \in EURegion

Init ==
    /\ LedgerInit
    /\ model \in {Null, EvalClient}
                     \cup {Bedrock(g) : g \in {h \in Region : bedrockConfigFor(h)}}
    /\ drafts = [c \in Call |-> NoDraft]
-----------------------------------------------------------------------------
assertDataPlane == model.plane = "data"

\* ServiceUnavailableException, AssistError, or getRide is awaited.
Ask(c, t, r, complaint) ==
    /\ drafts[c].step = "none"
    /\ drafts' = [drafts EXCEPT ![c] =
           [NoDraft EXCEPT !.tenant = t, !.ride = r, !.complaint = complaint,
            !.step = IF model # Null /\ assertDataPlane THEN "ride" ELSE "error"]]
    /\ UNCHANGED <<ledgerVars, model>>

\* Answers with the row, or NotFoundException.
ReadRide(c) ==
    LET row == getRide(drafts[c].tenant, drafts[c].ride)
    IN /\ drafts[c].step = "ride"
       /\ drafts' = [drafts EXCEPT ![c].row = row,
              ![c].step = IF row = NoRow THEN "error" ELSE "events"]
       /\ UNCHANGED <<ledgerVars, model>>

\* SELECT ... FROM ride_events, behind the same row-level security.
eventsFor(t, r) ==
    LET events == IF Visible(t, r) THEN rideEvents[r] ELSE <<>>
    IN [i \in DOMAIN events |-> [id |-> <<r, i>>, type |-> events[i].type,
                                 actor |-> events[i].actor]]

\* Mutant: the events are read before the ride (the row is read again here).
ReadEvents_First(c) ==
    /\ drafts[c].step \in {"events", "again"}
    /\ drafts' = [drafts EXCEPT
           ![c].file = IF drafts[c].step = "events"
               THEN buildCaseFile(drafts[c].row,
                        eventsFor(drafts[c].tenant, drafts[c].ride),
                        drafts[c].complaint)
               ELSE [@ EXCEPT !.state =
                        getRide(drafts[c].tenant, drafts[c].ride).state],
           ![c].step = IF @ = "events" THEN "again" ELSE "model"]
    /\ UNCHANGED <<ledgerVars, model>>

\* The case file is built and submitDraft is called with it.
ReadEvents(c) ==
    /\ drafts[c].step = "events"
    /\ drafts' = [drafts EXCEPT
           ![c].file = buildCaseFile(drafts[c].row,
                           eventsFor(drafts[c].tenant, drafts[c].ride),
                           drafts[c].complaint),
           ![c].step = "model"]
    /\ UNCHANGED <<ledgerVars, model>>

\* The input of the submit_draft call is checked before anybody sees it.
submitDraft(c, raw) ==
    /\ drafts[c].step = "model"
    /\ drafts' = [drafts EXCEPT ![c] =
           IF validateDraft(raw, @.file)
           THEN [@ EXCEPT !.step = "draft", !.draft = raw]
           ELSE [@ EXCEPT !.step = "rejected"]]
    /\ UNCHANGED <<ledgerVars, model>>

\* A refusal, max_tokens or an answer without the tool call: AssistError, which
\* is a rejection.
NoSubmission(c) ==
    /\ drafts[c].step = "model"
    /\ drafts' = [drafts EXCEPT ![c].step = "rejected"]
    /\ UNCHANGED <<ledgerVars, model>>

\* A query or the request to Bedrock fails: it is thrown on.
Throws(c) ==
    /\ drafts[c].step \in {"ride", "events", "model"}
    /\ drafts' = [drafts EXCEPT ![c].step = "error"]
    /\ UNCHANGED <<ledgerVars, model>>

AssistStep(c) ==
    \/ \E t \in Tenant, r \in Ride, text \in Complaint : Ask(c, t, r, text)
    \/ ReadRide(c) \/ ReadEvents(c) \/ NoSubmission(c) \/ Throws(c)
    \/ \E raw \in Raw(EventId, Reply) : submitDraft(c, raw)

Next ==
    \/ LedgerNext /\ UNCHANGED <<model, drafts>>
    \/ \E c \in Call : AssistStep(c)

Spec == Init /\ [][Next]_assistVars
-----------------------------------------------------------------------------
\* QA-13 (dispute-assist.service.ts:38-42): a draft that reaches a human cites
\* events, all of the one ride, which is of the caller's tenant; none that the
\* model made up, or saw elsewhere; and nothing that the patterns know as a
\* promise to pay.
DraftsCiteTheRide ==
    \A c \in Call : drafts[c].step = "draft" =>
        LET r == drafts[c].ride
        IN /\ rides[r].tenant = drafts[c].tenant
           /\ drafts[c].draft.cites # {}
           /\ drafts[c].draft.cites \subseteq {r} \X DOMAIN rideEvents[r]
           /\ "promise" \notin drafts[c].draft.reply

\* ADR 14, ADR 15 (case-file.ts:24-39): whatever is sent to a model goes to the
\* data plane in an EU region, and shows the actors of the ride as roles, never
\* as ids, and no contact the patterns know, also when the row it was built
\* from is older than the events.
OnlyRolesLeave ==
    \A c \in Call : drafts[c].file # NoFile =>
        /\ model.plane = "data" /\ model.region \in EURegion
        /\ rides[drafts[c].ride].tenant = drafts[c].tenant
        /\ \A i \in DOMAIN drafts[c].file.events :
              drafts[c].file.events[i].actor \in Role
        /\ drafts[c].file.complaint \cap Contact = {}

\* dispute-assist.service.ts:27-29: the events are read after the state, so
\* that a case file never tells of a state whose event it does not show; it
\* may show one more.
EventsReachTheState ==
    \A c \in Call : drafts[c].file # NoFile =>
        LET shown == {drafts[c].file.events[i].type :
                         i \in DOMAIN drafts[c].file.events}
        IN /\ "requested" \in shown
           /\ drafts[c].file.state = "MATCHED" => "matched" \in shown
           /\ drafts[c].file.state = "NO_DRIVER" => "no_driver" \in shown
=============================================================================
