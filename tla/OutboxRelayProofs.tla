------------------------- MODULE OutboxRelayProofs -------------------------
(***************************************************************************)
(* The relays' safety properties, for any number of relays and entries and *)
(* any batch size.                                                         *)
(***************************************************************************)
EXTENDS OutboxRelay, TLAPS
-----------------------------------------------------------------------------
\* No two ticks hold one entry, and none holds a published one.
Apart ==
    /\ \A n, m \in Relay : n # m => tick[n].batch \cap tick[m].batch = {}
    /\ \A n \in Relay : tick[n].batch \cap published = {}

\* A tick awaits the UPDATE only with entries it has handed over.
HandedIsHanded ==
    \A n \in Relay : tick[n].stage = "handed" =>
        \A e \in tick[n].batch : handed[e] # "never"

\* Of every entry handed over, the commit is awaited, done, or has failed.
Accounted ==
    \A e \in Entry : handed[e] # "never" =>
        \/ e \in published \/ e \in failed
        \/ \E n \in Relay : tick[n].stage = "handed" /\ e \in tick[n].batch

RelayIInv ==
    /\ RelayTypeOK /\ Apart /\ HandedIsHanded /\ Accounted
    /\ HandedBeforePublished /\ RepeatedOnlyAfterFailure

LEMMA BatchIsFree ==
    /\ Batch \subseteq Entry /\ Batch \cap published = {}
    /\ \A n \in Relay : Batch \cap tick[n].batch = {}
BY DEF Batch, Selectable, Locked

LEMMA RelayInit == Init => RelayIInv
BY DEF Init, RelayIInv, RelayTypeOK, Apart, HandedIsHanded, Accounted, NoTick,
       HandedBeforePublished, RepeatedOnlyAfterFailure

\* The inserting transactions touch nothing the invariant is about but row.
LEMMA RowStep ==
    ASSUME RelayIInv, RelayTypeOK', UNCHANGED <<published, tick, handed, failed>>
    PROVE  RelayIInv'
BY DEF RelayIInv, Apart, HandedIsHanded, Accounted, HandedBeforePublished,
       RepeatedOnlyAfterFailure

LEMMA SelectStep ==
    ASSUME RelayIInv, NEW n \in Relay, Select(n) PROVE RelayIInv'
<1>1. /\ tick[n] = NoTick /\ Batch # {}
      /\ tick' = [tick EXCEPT ![n] = [stage |-> "selected", batch |-> Batch]]
      /\ UNCHANGED <<row, published, orphans, handed, failed>>
  BY DEF Select
<1>2. /\ tick'[n] = [stage |-> "selected", batch |-> Batch]
      /\ \A m \in Relay \ {n} : tick'[m] = tick[m]
      /\ tick[n].stage = "idle"
  BY <1>1 DEF RelayIInv, RelayTypeOK, NoTick
<1>3. [stage |-> "selected", batch |-> Batch] \in Tick
  BY <1>1, BatchIsFree DEF Tick
<1>4. RelayTypeOK'
  BY <1>1, <1>3 DEF RelayIInv, RelayTypeOK
<1>5. Apart'
  BY <1>1, <1>2, BatchIsFree DEF RelayIInv, Apart
<1>6. HandedIsHanded'
  BY <1>1, <1>2 DEF RelayIInv, HandedIsHanded
<1>7. Accounted'
  BY <1>1, <1>2 DEF RelayIInv, Accounted
<1>. QED
  BY <1>1, <1>4, <1>5, <1>6, <1>7
     DEF RelayIInv, HandedBeforePublished, RepeatedOnlyAfterFailure

LEMMA HandOffStep ==
    ASSUME RelayIInv, NEW n \in Relay, HandOff(n) PROVE RelayIInv'
<1>1. /\ tick[n].stage = "selected" /\ tick[n].batch \subseteq Entry
      /\ tick[n] \in Tick
      /\ UNCHANGED <<row, published, orphans, failed>>
  BY DEF HandOff, RelayIInv, RelayTypeOK, Tick, NoTick
<1>2. /\ tick'[n].stage = "handed" /\ tick'[n].batch = tick[n].batch
      /\ \A m \in Relay \ {n} : tick'[m] = tick[m]
      /\ \A m \in Relay : tick'[m].batch = tick[m].batch
      /\ tick'[n] \in Tick
  BY <1>1 DEF HandOff, RelayIInv, RelayTypeOK, Tick
<1>3. \A e \in Entry :
        handed'[e] = IF e \notin tick[n].batch THEN handed[e]
                     ELSE IF handed[e] = "never" THEN "once" ELSE "again"
  BY DEF HandOff
<1>4. RelayTypeOK'
  BY <1>1, <1>2, <1>3 DEF HandOff, RelayIInv, RelayTypeOK
<1>5. Apart'
  BY <1>1, <1>2 DEF RelayIInv, Apart
<1>6. HandedIsHanded'
  BY <1>1, <1>2, <1>3 DEF RelayIInv, HandedIsHanded, RelayTypeOK, Tick, NoTick
<1>7. Accounted'
  BY <1>1, <1>2, <1>3 DEF RelayIInv, Accounted
<1>8. HandedBeforePublished'
  BY <1>1, <1>3 DEF RelayIInv, HandedBeforePublished, RelayTypeOK
<1>9. \A e \in tick[n].batch : handed[e] # "never" => e \in failed
  BY <1>1 DEF RelayIInv, Accounted, Apart
<1>10. RepeatedOnlyAfterFailure'
  BY <1>1, <1>3, <1>9 DEF RelayIInv, RepeatedOnlyAfterFailure
<1>. QED
  BY <1>4, <1>5, <1>6, <1>7, <1>8, <1>10 DEF RelayIInv

LEMMA PublishStep ==
    ASSUME RelayIInv, NEW n \in Relay, Publish(n) PROVE RelayIInv'
<1>1. /\ tick[n].stage = "handed" /\ tick[n].batch \subseteq Entry
      /\ published' = published \cup tick[n].batch
      /\ UNCHANGED <<row, orphans, handed, failed>>
  BY DEF Publish, RelayIInv, RelayTypeOK, Tick, NoTick
<1>2. /\ tick'[n] = NoTick
      /\ \A m \in Relay \ {n} : tick'[m] = tick[m]
  BY DEF Publish, RelayIInv, RelayTypeOK
<1>3. RelayTypeOK'
  BY <1>1 DEF Publish, RelayIInv, RelayTypeOK
<1>4. Apart'
  BY <1>1, <1>2 DEF RelayIInv, Apart, NoTick
<1>5. HandedIsHanded' /\ HandedBeforePublished'
  BY <1>1, <1>2 DEF RelayIInv, HandedIsHanded, HandedBeforePublished, NoTick
<1>6. Accounted'
  BY <1>1, <1>2 DEF RelayIInv, Accounted
<1>. QED
  BY <1>1, <1>3, <1>4, <1>5, <1>6 DEF RelayIInv, RepeatedOnlyAfterFailure

\* A tick that ends without its commit: the tick failed, or the task died.
LEMMA LostTickStep ==
    ASSUME RelayIInv, NEW n \in Relay, TickFails(n) \/ Crash(n)
    PROVE  RelayIInv'
<1>1. /\ tick[n].batch \subseteq Entry
      /\ UNCHANGED <<row, published, handed>>
      /\ HandedInVain(n)
  BY DEF TickFails, Crash, RelayIInv, RelayTypeOK, Tick, NoTick
<1>2. /\ tick'[n] = NoTick
      /\ \A m \in Relay \ {n} : tick'[m] = tick[m]
  BY DEF TickFails, Crash, RelayIInv, RelayTypeOK
<1>3. /\ failed \subseteq failed' /\ failed' \subseteq Entry
      /\ tick[n].stage = "handed" => tick[n].batch \subseteq failed'
  BY <1>1 DEF HandedInVain, RelayIInv, RelayTypeOK
<1>4. RelayTypeOK'
  BY <1>1, <1>3 DEF TickFails, Crash, RelayIInv, RelayTypeOK
<1>5. Apart' /\ HandedIsHanded'
  BY <1>1, <1>2 DEF RelayIInv, Apart, HandedIsHanded, NoTick
<1>6. Accounted'
  BY <1>1, <1>2, <1>3 DEF RelayIInv, Accounted
<1>. QED
  BY <1>1, <1>3, <1>4, <1>5, <1>6
     DEF RelayIInv, HandedBeforePublished, RepeatedOnlyAfterFailure

LEMMA RelayNext == RelayIInv /\ [Next]_vars => RelayIInv'
<1>. SUFFICES ASSUME RelayIInv, [Next]_vars PROVE RelayIInv'
  OBVIOUS
<1>1. ASSUME NEW e \in Entry, Insert(e) \/ End(e) PROVE RelayIInv'
  <2>1. RelayTypeOK'
    BY <1>1 DEF Insert, End, RelayIInv, RelayTypeOK
  <2>. QED
    BY <1>1, <2>1, RowStep DEF Insert, End
<1>2. ASSUME NEW n \in Relay, Advance(n) \/ TickFails(n) \/ Crash(n)
      PROVE  RelayIInv'
  BY <1>2, SelectStep, HandOffStep, PublishStep, LostTickStep DEF Advance
<1>3. ASSUME NEW batch \in orphans, SessionEnds(batch) PROVE RelayIInv'
  <2>1. RelayTypeOK'
    BY <1>3 DEF SessionEnds, RelayIInv, RelayTypeOK
  <2>. QED
    BY <1>3, <2>1, RowStep DEF SessionEnds
<1>4. CASE UNCHANGED vars
  <2>1. RelayTypeOK'
    BY <1>4 DEF vars, RelayIInv, RelayTypeOK
  <2>. QED
    BY <1>4, <2>1, RowStep DEF vars
<1>. QED
  BY <1>1, <1>2, <1>3, <1>4 DEF Next

LEMMA RelayInvariant == Spec => []RelayIInv
BY RelayInit, RelayNext, PTL DEF Spec

\* The relays keep their types.
THEOREM RelayTypeCorrect == Spec => []RelayTypeOK
BY RelayInvariant, PTL DEF RelayIInv

\* An entry is marked published only after it was handed to the adapter.
THEOREM HandedAtLeastOnce == Spec => []HandedBeforePublished
BY RelayInvariant, PTL DEF RelayIInv

\* An entry is handed over again only if a tick failed after the hand-off.
THEOREM HandedOnceWithoutFailure == Spec => []RepeatedOnlyAfterFailure
BY RelayInvariant, PTL DEF RelayIInv
=============================================================================
