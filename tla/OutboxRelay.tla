----------------------------- MODULE OutboxRelay -----------------------------
(***************************************************************************)
(* The outbox table and the relays of several API tasks that empty it.     *)
(* An entry gets its id (bigserial) when it is inserted and becomes        *)
(* visible when its transaction commits, which may be in another order; a  *)
(* rolled back insert leaves a gap.  Each relay runs one tick at a time:   *)
(* it locks a batch, hands it to the Socket.IO Redis adapter and then      *)
(* marks it published, in one transaction.                                 *)
(***************************************************************************)
EXTENDS Naturals, FiniteSets

CONSTANTS
    Relay,       \* the API tasks
    LAST,        \* ids 1 .. LAST are handed out (a bound)
    BATCH,       \* entries per tick, at most
    Faults       \* what may go wrong, a subset of {"database", "crash"}

ASSUME RelayAssumption == LAST \in Nat /\ BATCH \in Nat \ {0}

VARIABLES
    row,         \* row[e]: how far the transaction that inserts entry e is
    published,   \* entries with published_at, as committed
    tick,        \* tick[n]: the transaction of relay n's tick
    orphans,     \* batches locked by sessions of tasks that died
    handed,      \* how often e was handed to the adapter: never, once, again
    failed       \* entries whose tick failed after they were handed over

vars == <<row, published, tick, orphans, handed, failed>>

Entry == 1 .. LAST

\* "selected": the SELECT is answered, "handed": the UPDATE is awaited.
Tick == [stage : {"selected", "handed"}, batch : (SUBSET Entry) \ {{}}]

NoTick == [stage |-> "idle", batch |-> {}]

RelayTypeOK ==
    /\ row \in [Entry -> {"none", "inserted", "committed", "rolledBack"}]
    /\ published \subseteq Entry
    /\ tick \in [Relay -> Tick \cup {NoTick}]
    /\ orphans \subseteq SUBSET Entry
    /\ handed \in [Entry -> {"never", "once", "again"}]
    /\ failed \subseteq Entry

Init ==
    /\ row = [e \in Entry |-> "none"]
    /\ published = {}
    /\ tick = [n \in Relay |-> NoTick]
    /\ orphans = {}
    /\ handed = [e \in Entry |-> "never"]
    /\ failed = {}
-----------------------------------------------------------------------------
(* RidesService.acceptRide, as far as the outbox sees it *)

\* INSERT INTO outbox: nextval.
Insert(e) ==
    /\ row[e] = "none" /\ \A f \in Entry : f < e => row[f] # "none"
    /\ row' = [row EXCEPT ![e] = "inserted"]
    /\ UNCHANGED <<published, tick, orphans, handed, failed>>

\* Its transaction ends.
End(e) ==
    /\ row[e] = "inserted"
    /\ \E outcome \in {"committed", "rolledBack"} :
          row' = [row EXCEPT ![e] = outcome]
    /\ UNCHANGED <<published, tick, orphans, handed, failed>>
-----------------------------------------------------------------------------
(* The relays *)

Locked == UNION (orphans \cup {tick[n].batch : n \in Relay})

\* Mutant: FOR UPDATE SKIP LOCKED is left out.
Selectable_Unlocked == {e \in Entry : row[e] = "committed"} \ published

\* Mutant: the relay remembers the last id instead of looking for all
\* unpublished entries.
Selectable_Cursor ==
    {e \in Entry : row[e] = "committed" /\ \A f \in published : f < e} \ Locked

\* WHERE published_at IS NULL ... FOR UPDATE SKIP LOCKED.
Selectable == {e \in Entry : row[e] = "committed"} \ (published \cup Locked)

\* ORDER BY id LIMIT BATCH.
Batch == {e \in Selectable : Cardinality({f \in Selectable : f < e}) < BATCH}

\* Mutant: an empty batch is not a reason to return.
Select_Always(n) ==
    /\ tick[n] = NoTick
    /\ tick' = [tick EXCEPT ![n] = [stage |-> "selected", batch |-> Batch]]
    /\ UNCHANGED <<row, published, orphans, handed, failed>>

\* The interval fires while no tick of this relay is running.  A tick that
\* finds nothing commits and returns 0.
Select(n) ==
    /\ tick[n] = NoTick
    /\ Batch # {}
    /\ tick' = [tick EXCEPT ![n] = [stage |-> "selected", batch |-> Batch]]
    /\ UNCHANGED <<row, published, orphans, handed, failed>>

\* Mutant: the entries are marked and committed, and then handed over.
HandOff_AfterCommit(n) ==
    /\ tick[n].stage = "selected"
    /\ published' = published \cup tick[n].batch
    /\ tick' = [tick EXCEPT ![n].stage = "handed"]
    /\ UNCHANGED <<row, orphans, handed, failed>>

\* The batch goes to the rides' rooms, without an await in between.
HandOff(n) ==
    /\ tick[n].stage = "selected"
    /\ handed' = [e \in Entry |->
           IF e \notin tick[n].batch THEN handed[e]
           ELSE IF handed[e] = "never" THEN "once" ELSE "again"]
    /\ tick' = [tick EXCEPT ![n].stage = "handed"]
    /\ UNCHANGED <<row, published, orphans, failed>>

\* UPDATE outbox SET published_at, COMMIT.  Whether the relay learns of the
\* COMMIT or gets an error instead, the tick is over.
Publish(n) ==
    /\ tick[n].stage = "handed"
    /\ published' = published \cup tick[n].batch
    /\ tick' = [tick EXCEPT ![n] = NoTick]
    /\ UNCHANGED <<row, orphans, handed, failed>>

HandedInVain(n) ==
    failed' = failed \cup (IF tick[n].stage = "handed" THEN tick[n].batch ELSE {})

\* A statement or the COMMIT fails: ROLLBACK, the error is logged.
TickFails(n) ==
    /\ "database" \in Faults
    /\ tick[n] # NoTick
    /\ HandedInVain(n)
    /\ tick' = [tick EXCEPT ![n] = NoTick]
    /\ UNCHANGED <<row, published, orphans, handed>>

\* The task dies and another one takes its place; PostgreSQL holds the locks of
\* the dead session until it notices.
Crash(n) ==
    /\ "crash" \in Faults
    /\ tick[n] # NoTick
    /\ HandedInVain(n)
    /\ orphans' = orphans \cup {tick[n].batch}
    /\ tick' = [tick EXCEPT ![n] = NoTick]
    /\ UNCHANGED <<row, published, handed>>

SessionEnds(batch) ==
    /\ orphans' = orphans \ {batch}
    /\ UNCHANGED <<row, published, tick, handed, failed>>

Advance(n) == Select(n) \/ HandOff(n) \/ Publish(n)

Next ==
    \/ \E e \in Entry : Insert(e) \/ End(e)
    \/ \E n \in Relay : Advance(n) \/ TickFails(n) \/ Crash(n)
    \/ \E batch \in orphans : SessionEnds(batch)

Spec == Init /\ [][Next]_vars

\* The interval keeps firing, dead sessions are noticed, and a tick that can
\* make its next step again and again does so once: no fault is permanent.
FairSpec ==
    /\ Spec
    /\ \A n \in Relay :
          WF_vars(Select(n)) /\ SF_vars(HandOff(n)) /\ SF_vars(Publish(n))
    /\ WF_vars(\E batch \in orphans : SessionEnds(batch))
-----------------------------------------------------------------------------
\* An entry is marked published only after it was handed to the adapter: what
\* a crash or an error interrupts is handed over again, never lost
\* (outbox.relay.ts:19-21, at least once).
HandedBeforePublished == \A e \in published : handed[e] # "never"

\* And it is handed over again only if a tick failed between the hand-off and
\* the commit: relays that share the work do not share entries.
RepeatedOnlyAfterFailure == \A e \in Entry : handed[e] = "again" => e \in failed

\* Every entry that commits is handed over and marked, in whatever order the
\* entries commit.
EveryEntryPublished ==
    \A e \in Entry :
        row[e] = "committed" ~> (handed[e] # "never" /\ e \in published)
=============================================================================
