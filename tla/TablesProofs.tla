---------------------------- MODULE TablesProofs ----------------------------
(***************************************************************************)
(* What is proved of the modules that look inside RideLedger's atomic      *)
(* steps: RideStore, whose statements write the tables, and DisputeAssist, *)
(* whose statements read them while the rides move.                        *)
(*                                                                         *)
(* RideStore implements RideLedger: whatever the interleaving of the       *)
(* statements, each transaction of RidesService is one atomic step.  It    *)
(* holds for any tenants, rides and drivers, any number of connections and *)
(* any faults.  What a draft of DisputeAssist may show and cite holds for  *)
(* any number of tenants, rides and requests, any regions, and any answer  *)
(* of the model.  (Spec is DisputeAssist's, StoreSpec is RideStore's.)     *)
(***************************************************************************)
EXTENDS RideStore, DisputeAssist, RideLedgerProofs

USE NilIsNoId
-----------------------------------------------------------------------------
(* What a transaction that is still open has written *)

EventOf(job) == [type |-> eventType[job.op], actor |-> job.who]

EntryOf(job) == [tenant |-> job.tenant, ride |-> job.ride, driver |-> job.who]

RowOf(job) ==
    IF job.op = "requestRide"
    THEN [tenant |-> job.tenant, passenger |-> job.who,
          driver |-> Nil, state |-> "REQUESTED"]
    ELSE Updated(job)

\* The committed row still allows what the transaction has done to it.
MayWrite(job) ==
    IF job.op = "requestRide" THEN rides[job.ride] = NoRow
                              ELSE Updatable(job.tenant, job.ride)

Fits(x) ==
    /\ x.job.op = "requestRide" => rides[x.job.ride] = NoRow
    /\ x.row # NoRow => MayWrite(x.job) /\ x.row = RowOf(x.job)
    /\ x.next \in {"write", "lock"} => x.row = NoRow
    /\ x.next = "lock" => x.job.op # "requestRide"
    /\ x.next \in {"event", "outbox"} => x.row # NoRow
    /\ x.next = "outbox" => x.job.op = "acceptRide"
    /\ x.events = IF x.row # NoRow /\ x.next \in {"outbox", "commit"}
                  THEN <<EventOf(x.job)>> ELSE <<>>
    /\ x.entries = IF /\ x.row # NoRow /\ x.next = "commit"
                      /\ x.job.op = "acceptRide"
                   THEN <<EntryOf(x.job)>> ELSE <<>>

\* The row lock: one open transaction at most has written a given row.
OneWriter ==
    \A j, k \in Connection :
        j # k /\ tx[j].row # NoRow /\ tx[k].row # NoRow
        => tx[j].job.ride # tx[k].job.ride

\* randomUUID: no two open requests have one id.
FreshIds ==
    \A j, k \in Connection :
        /\ j # k /\ tx[j] # NoTx /\ tx[k] # NoTx
        /\ tx[j].job.op = "requestRide" /\ tx[k].job.op = "requestRide"
        => tx[j].job.ride # tx[k].job.ride

StoreIInv ==
    /\ StoreTypeOK
    /\ \A k \in Connection : tx[k] # NoTx => Fits(tx[k])
    /\ OneWriter /\ FreshIds
-----------------------------------------------------------------------------

LEMMA JobFields ==
    ASSUME NEW job \in Job
    PROVE  /\ job.tenant \in Tenant /\ job.ride \in Ride
           /\ job.op \in {"requestRide", "acceptRide", "markNoDriver"}
           /\ job.op = "requestRide" => job.who \in Passenger
           /\ job.op = "acceptRide" => job.who \in DriverId
           /\ job.op = "markNoDriver" => job.who = "system"
           /\ EventOf(job) \in Event
           /\ job.op = "acceptRide" => EntryOf(job) \in OutboxEntry
BY DEF Job, EventOf, EntryOf, eventType, Event, OutboxEntry

LEMMA OpenTx ==
    ASSUME StoreIInv, NEW k \in Connection, tx[k].next # "idle"
    PROVE  tx[k] # NoTx /\ tx[k] \in Tx /\ tx[k].job \in Job /\ Fits(tx[k])
<1>1. tx[k] # NoTx /\ tx[k] \in Tx
  BY DEF StoreIInv, StoreTypeOK, NoTx
<1>. QED
  BY <1>1 DEF StoreIInv, Tx

\* A step of one transaction that leaves the tables alone.
LEMMA LocalStep ==
    ASSUME StoreIInv, NEW k \in Connection, NEW new \in Tx \cup {NoTx},
           tx' = [tx EXCEPT ![k] = new],
           UNCHANGED ledgerVars, resolved' \subseteq Job,
           new # NoTx => Fits(new),
           new.row = NoRow \/ \A j \in Connection \ {k} :
              tx[j].row # NoRow => tx[j].job.ride # new.job.ride,
           \/ new = NoTx
           \/ tx[k] # NoTx /\ new.job = tx[k].job
           \/ new.job.op = "requestRide" => Fresh(new.job.ride)
    PROVE  StoreIInv'
<1>1. /\ tx'[k] = new /\ \A j \in Connection \ {k} : tx'[j] = tx[j]
      /\ rides' = rides
  BY DEF StoreIInv, StoreTypeOK, ledgerVars
<1>2. StoreTypeOK'
  BY DEF StoreIInv, StoreTypeOK, LedgerTypeOK, ledgerVars
<1>3. ASSUME NEW j \in Connection, tx'[j] # NoTx PROVE Fits(tx[j])'
  <2>1. Fits(tx'[j])
    BY <1>1, <1>3 DEF StoreIInv
  <2>2. MayWrite(tx'[j].job) => MayWrite(tx[j].job)'
    BY <1>1 DEF MayWrite, Updatable, Visible
  <2>3. RowOf(tx'[j].job) = RowOf(tx[j].job)'
    BY <1>1 DEF RowOf, Updated
  <2>. QED
    BY <1>1, <2>1, <2>2, <2>3 DEF Fits
<1>4. OneWriter'
  BY <1>1 DEF OneWriter, StoreIInv
<1>5. FreshIds'
  BY <1>1 DEF FreshIds, StoreIInv, Fresh
<1>. QED
  BY <1>2, <1>3, <1>4, <1>5 DEF StoreIInv

\* Nobody else has written the row a transaction is about to write.
LEMMA NobodyElse ==
    ASSUME StoreIInv, NEW k \in Connection, tx[k] # NoTx,
           \/ tx[k].job.op = "requestRide"
           \/ ~Locked(k)
    PROVE  \A j \in Connection \ {k} :
              tx[j].row # NoRow => tx[j].job.ride # tx[k].job.ride
<1>1. CASE ~Locked(k)
  BY <1>1 DEF Locked
<1>2. CASE tx[k].job.op = "requestRide"
  <2>. SUFFICES ASSUME NEW j \in Connection \ {k}, tx[j].row # NoRow,
                       tx[j].job.ride = tx[k].job.ride
                PROVE  FALSE
    OBVIOUS
  <2>1. tx[j] # NoTx /\ Fits(tx[j]) /\ Fits(tx[k])
    BY DEF StoreIInv, NoTx
  <2>2. CASE tx[j].job.op = "requestRide"
    BY <1>2, <2>1, <2>2 DEF StoreIInv, FreshIds
  <2>3. CASE tx[j].job.op # "requestRide"
    <3>1. rides[tx[k].job.ride].state = "REQUESTED"
      BY <2>1, <2>3 DEF Fits, MayWrite, Updatable
    <3>. QED
      BY <1>2, <2>1, <3>1 DEF Fits, NoRow
  <2>. QED
    BY <2>2, <2>3
<1>. QED
  BY <1>1, <1>2

LEMMA BeginKeeps ==
    ASSUME StoreIInv, NEW k \in Connection, NEW job \in Job, Begin(k, job)
    PROVE  StoreIInv'
<1>. PICK new : new = [NoTx EXCEPT !.job = job, !.next = "write"]
  OBVIOUS
<1>1. /\ new.job = job /\ new.next = "write" /\ new.row = NoRow
      /\ new.events = <<>> /\ new.entries = <<>>
  BY DEF NoTx
<1>2. new \in Tx
  BY <1>1, EmptySeq DEF NoTx, Tx, Statement
<1>3. /\ tx' = [tx EXCEPT ![k] = new] /\ UNCHANGED <<ledgerVars, resolved>>
      /\ job.op = "requestRide" => Fresh(job.ride)
  BY DEF Begin
<1>4. Fits(new)
  BY <1>1, <1>3 DEF Fits, Fresh
<1>. QED
  BY <1>1, <1>2, <1>3, <1>4, LocalStep DEF StoreIInv, StoreTypeOK

LEMMA InsertRideKeeps ==
    ASSUME StoreIInv, NEW k \in Connection, InsertRide(k) PROVE StoreIInv'
<1>. DEFINE x == tx[k]
<1>0. x # NoTx /\ x \in Tx /\ x.job \in Job /\ Fits(x)
  BY OpenTx DEF InsertRide
<1>. PICK row : row = [tenant |-> x.job.tenant, passenger |-> x.job.who,
                       driver |-> Nil, state |-> "REQUESTED"]
  OBVIOUS
<1>. PICK new : new = [x EXCEPT !.row = row, !.next = "event"]
  OBVIOUS
<1>1. row \in Row /\ row # NoRow /\ row = RowOf(x.job)
  BY <1>0, JobFields DEF InsertRide, Row, NoRow, RowOf, RideState
<1>2. /\ new.job = x.job /\ new.next = "event" /\ new.row = row
      /\ new.events = x.events /\ new.entries = x.entries /\ new \in Tx
  BY <1>0, <1>1 DEF Tx, Statement
<1>3. /\ tx' = [tx EXCEPT ![k] = new] /\ UNCHANGED <<ledgerVars, resolved>>
      /\ x.job.op = "requestRide" /\ x.next = "write"
  BY DEF InsertRide, StoreIInv, StoreTypeOK
<1>4. x.events = <<>> /\ x.entries = <<>> /\ rides[x.job.ride] = NoRow
  BY <1>0, <1>3 DEF Fits
<1>5. Fits(new)
  BY <1>1, <1>2, <1>3, <1>4 DEF Fits, MayWrite
<1>6. \A j \in Connection \ {k} : tx[j].row # NoRow => tx[j].job.ride # new.job.ride
  BY <1>0, <1>2, <1>3, NobodyElse
<1>. QED
  BY <1>0, <1>2, <1>3, <1>5, <1>6, LocalStep DEF StoreIInv, StoreTypeOK

\* The statement runs and writes nothing.
LEMMA GoOn ==
    ASSUME StoreIInv, NEW k \in Connection,
           tx[k].next \in {"write", "lock"}, tx[k].job.op # "requestRide",
           NEW next \in {"lock", "commit"},
           tx' = [tx EXCEPT ![k].next = next], UNCHANGED <<ledgerVars, resolved>>
    PROVE  StoreIInv'
<1>. DEFINE x == tx[k]
<1>0. x # NoTx /\ x \in Tx /\ x.job \in Job /\ Fits(x)
  BY OpenTx
<1>. PICK new : new = [x EXCEPT !.next = next]
  OBVIOUS
<1>1. /\ new.job = x.job /\ new.next = next /\ new.row = x.row
      /\ new.events = x.events /\ new.entries = x.entries /\ new \in Tx
  BY <1>0 DEF Tx, Statement
<1>2. tx' = [tx EXCEPT ![k] = new]
  BY DEF StoreIInv, StoreTypeOK
<1>3. x.row = NoRow /\ x.events = <<>> /\ x.entries = <<>>
  BY <1>0 DEF Fits
<1>4. Fits(new)
  BY <1>0, <1>1, <1>3 DEF Fits
<1>. QED
  BY <1>0, <1>1, <1>2, <1>3, <1>4, LocalStep DEF StoreIInv, StoreTypeOK

LEMMA FindRideKeeps ==
    ASSUME StoreIInv, NEW k \in Connection, FindRide(k) PROVE StoreIInv'
BY GoOn DEF FindRide

LEMMA UpdateRideKeeps ==
    ASSUME StoreIInv, NEW k \in Connection, UpdateRide(k) PROVE StoreIInv'
<1>. DEFINE x == tx[k]
<1>0. /\ x # NoTx /\ x \in Tx /\ x.job \in Job /\ Fits(x)
      /\ x.next = "lock" /\ ~Locked(k) /\ x.job.op # "requestRide"
      /\ UNCHANGED <<ledgerVars, resolved>>
  BY OpenTx DEF UpdateRide, Fits
<1>1. CASE ~Updatable(x.job.tenant, x.job.ride)
  BY <1>0, <1>1, GoOn DEF UpdateRide
<1>2. CASE Updatable(x.job.tenant, x.job.ride)
  <2>. PICK row : row = Updated(x.job)
    OBVIOUS
  <2>. PICK new : new = [x EXCEPT !.row = row, !.next = "event"]
    OBVIOUS
  <2>1. rides[x.job.ride] \in Row
    <3>1. rides[x.job.ride].state = "REQUESTED" /\ x.job.ride \in Ride
      BY <1>0, <1>2, JobFields DEF Updatable
    <3>. QED
      BY <3>1 DEF StoreIInv, StoreTypeOK, LedgerTypeOK, NoRow
  <2>2. row \in Row
    BY <1>0, <2>1, JobFields DEF Updated, Row, RideState
  <2>3. row # NoRow /\ row = RowOf(x.job)
    <3>1. row.state \in {"MATCHED", "NO_DRIVER"}
      BY <2>1 DEF Updated, Row
    <3>. QED
      BY <1>0, <3>1 DEF NoRow, RowOf
  <2>4. /\ new.job = x.job /\ new.next = "event" /\ new.row = row
        /\ new.events = x.events /\ new.entries = x.entries /\ new \in Tx
    BY <1>0, <2>2 DEF Tx, Statement
  <2>5. tx' = [tx EXCEPT ![k] = new]
    BY <1>2 DEF UpdateRide, StoreIInv, StoreTypeOK
  <2>6. x.events = <<>> /\ x.entries = <<>>
    BY <1>0 DEF Fits
  <2>7. Fits(new)
    BY <1>0, <1>2, <2>3, <2>4, <2>6 DEF Fits, MayWrite
  <2>8. \A j \in Connection \ {k} : tx[j].row # NoRow => tx[j].job.ride # new.job.ride
    BY <1>0, <2>4, NobodyElse
  <2>. QED
    BY <1>0, <2>4, <2>5, <2>7, <2>8, LocalStep DEF StoreIInv, StoreTypeOK
<1>. QED
  BY <1>1, <1>2

LEMMA InsertEventKeeps ==
    ASSUME StoreIInv, NEW k \in Connection, InsertEvent(k) PROVE StoreIInv'
<1>. DEFINE x == tx[k]
<1>0. /\ x # NoTx /\ x \in Tx /\ x.job \in Job /\ Fits(x) /\ x.next = "event"
      /\ UNCHANGED <<ledgerVars, resolved>>
  BY OpenTx DEF InsertEvent
<1>1. x.row # NoRow /\ x.events = <<>> /\ x.entries = <<>>
  BY <1>0 DEF Fits
<1>. PICK next : next = IF x.job.op = "acceptRide" THEN "outbox" ELSE "commit"
  OBVIOUS
<1>. PICK events : events = <<EventOf(x.job)>>
  OBVIOUS
<1>. PICK new : new = [x EXCEPT !.events = events, !.next = next]
  OBVIOUS
<1>2. Append(x.events, EventOf(x.job)) = events
  BY <1>1, AppendToNone
<1>3. events \in Seq(Event) /\ next \in Statement
  BY <1>0, JobFields DEF Statement
<1>4. /\ new.job = x.job /\ new.next = next /\ new.row = x.row
      /\ new.events = events /\ new.entries = x.entries /\ new \in Tx
  BY <1>0, <1>3 DEF Tx
<1>5. tx' = [tx EXCEPT ![k] = new]
  BY <1>2 DEF InsertEvent, StoreIInv, StoreTypeOK, EventOf
<1>6. Fits(new)
  BY <1>0, <1>1, <1>4 DEF Fits
<1>7. \A j \in Connection \ {k} : tx[j].row # NoRow => tx[j].job.ride # new.job.ride
  BY <1>1, <1>4 DEF StoreIInv, OneWriter
<1>. QED
  BY <1>0, <1>4, <1>5, <1>6, <1>7, LocalStep DEF StoreIInv, StoreTypeOK

LEMMA InsertOutboxKeeps ==
    ASSUME StoreIInv, NEW k \in Connection, InsertOutbox(k) PROVE StoreIInv'
<1>. DEFINE x == tx[k]
<1>0. /\ x # NoTx /\ x \in Tx /\ x.job \in Job /\ Fits(x) /\ x.next = "outbox"
      /\ UNCHANGED <<ledgerVars, resolved>>
  BY OpenTx DEF InsertOutbox
<1>1. /\ x.row # NoRow /\ x.entries = <<>> /\ x.job.op = "acceptRide"
      /\ x.events = <<EventOf(x.job)>>
  BY <1>0 DEF Fits
<1>. PICK entries : entries = <<EntryOf(x.job)>>
  OBVIOUS
<1>. PICK new : new = [x EXCEPT !.entries = entries, !.next = "commit"]
  OBVIOUS
<1>2. Append(x.entries, EntryOf(x.job)) = entries
  BY <1>1, AppendToNone
<1>3. entries \in Seq(OutboxEntry)
  BY <1>0, <1>1, JobFields
<1>4. /\ new.job = x.job /\ new.next = "commit" /\ new.row = x.row
      /\ new.events = x.events /\ new.entries = entries /\ new \in Tx
  BY <1>0, <1>3 DEF Tx, Statement
<1>5. tx' = [tx EXCEPT ![k] = new]
  BY <1>2 DEF InsertOutbox, StoreIInv, StoreTypeOK, EntryOf
<1>6. Fits(new)
  BY <1>0, <1>1, <1>4 DEF Fits
<1>7. \A j \in Connection \ {k} : tx[j].row # NoRow => tx[j].job.ride # new.job.ride
  BY <1>1, <1>4 DEF StoreIInv, OneWriter
<1>. QED
  BY <1>0, <1>4, <1>5, <1>6, <1>7, LocalStep DEF StoreIInv, StoreTypeOK

LEMMA RollbackKeeps ==
    ASSUME StoreIInv, NEW k \in Connection, Rollback(k) PROVE StoreIInv'
<1>1. NoTx.row = NoRow
  BY DEF NoTx
<1>. QED
  BY <1>1, LocalStep DEF Rollback, Release, StoreIInv, StoreTypeOK
-----------------------------------------------------------------------------
(* COMMIT is the atomic step of RideLedger *)

LEMMA ConcatIsAppend ==
    ASSUME NEW S, NEW s \in Seq(S), NEW e \in S
    PROVE  s \o <<e>> = Append(s, e) /\ s \o <<>> = s
BY AppendIsConcat, ConcatEmptySeq

\* A transaction whose UPDATE matched no row commits and changes nothing.
LEMMA EmptyCommit ==
    ASSUME StoreIInv, NEW k \in Connection, tx[k].next = "commit",
           tx[k].row = NoRow, Apply(k)
    PROVE  UNCHANGED ledgerVars
<1>1. tx[k].entries = <<>>
  BY OpenTx DEF Fits
<1>2. outbox \in Seq(OutboxEntry)
  BY DEF StoreIInv, StoreTypeOK, LedgerTypeOK
<1>3. outbox \o <<>> = outbox
  BY <1>2, ConcatEmptySeq
<1>. QED
  BY <1>1, <1>3 DEF Apply, ledgerVars

\* What COMMIT makes of the tables when the transaction wrote its row.
LEMMA WritingCommit ==
    ASSUME StoreIInv, NEW k \in Connection, tx[k].next = "commit",
           tx[k].row # NoRow, Apply(k)
    PROVE  LET job == tx[k].job
           IN /\ job \in Job /\ MayWrite(job)
              /\ rides' = [rides EXCEPT ![job.ride] = RowOf(job)]
              /\ appendEvent(job.ride, eventType[job.op], job.who)
              /\ outbox' = IF job.op = "acceptRide"
                           THEN Append(outbox, EntryOf(job)) ELSE outbox
<1>. PICK job : job = tx[k].job
  OBVIOUS
<1>1. /\ job \in Job /\ MayWrite(job) /\ tx[k].row = RowOf(job)
      /\ tx[k].events = <<EventOf(job)>>
      /\ tx[k].entries = IF job.op = "acceptRide" THEN <<EntryOf(job)>> ELSE <<>>
  BY OpenTx DEF Fits
<1>2. /\ rideEvents \in [Ride -> Seq(Event)] /\ outbox \in Seq(OutboxEntry)
      /\ job.ride \in Ride /\ EventOf(job) \in Event
      /\ job.op = "acceptRide" => EntryOf(job) \in OutboxEntry
  BY <1>1, JobFields DEF StoreIInv, StoreTypeOK, LedgerTypeOK
<1>3. rideEvents[job.ride] \o <<EventOf(job)>> = Append(rideEvents[job.ride], EventOf(job))
  <2>1. rideEvents[job.ride] \in Seq(Event)
    BY <1>2
  <2>. QED
    BY <1>2, <2>1, ConcatIsAppend
<1>4. rideEvents' = [rideEvents EXCEPT ![job.ride] = Append(@, EventOf(job))]
  BY <1>1, <1>2, <1>3 DEF Apply
<1>5. outbox' = IF job.op = "acceptRide" THEN Append(outbox, EntryOf(job)) ELSE outbox
  <2>1. CASE job.op = "acceptRide"
    <3>1. outbox \o <<EntryOf(job)>> = Append(outbox, EntryOf(job))
      BY <1>2, <2>1, ConcatIsAppend
    <3>. QED
      BY <1>1, <2>1, <3>1 DEF Apply
  <2>2. CASE job.op # "acceptRide"
    <3>1. outbox \o <<>> = outbox
      BY <1>2, ConcatEmptySeq
    <3>. QED
      BY <1>1, <2>2, <3>1 DEF Apply
  <2>. QED
    BY <2>1, <2>2
<1>6. rides' = [rides EXCEPT ![job.ride] = RowOf(job)]
  BY <1>1 DEF Apply
<1>. QED
  BY <1>1, <1>4, <1>5, <1>6 DEF appendEvent, EventOf

LEMMA CommitIsLedgerStep ==
    ASSUME StoreIInv, NEW k \in Connection, tx[k].next = "commit", Apply(k)
    PROVE  [LedgerNext]_ledgerVars
<1>1. CASE tx[k].row = NoRow
  BY <1>1, EmptyCommit
<1>2. CASE tx[k].row # NoRow
  <2>. PICK job : job = tx[k].job
    OBVIOUS
  <2>1. /\ job \in Job /\ MayWrite(job)
        /\ rides' = [rides EXCEPT ![job.ride] = RowOf(job)]
        /\ appendEvent(job.ride, eventType[job.op], job.who)
        /\ outbox' = IF job.op = "acceptRide"
                     THEN Append(outbox, EntryOf(job)) ELSE outbox
    BY <1>2, WritingCommit
  <2>2. /\ job.tenant \in Tenant /\ job.ride \in Ride
        /\ job.op \in {"requestRide", "acceptRide", "markNoDriver"}
    BY <2>1, JobFields
  <2>3. CASE job.op = "requestRide"
    <3>1. job.who \in Passenger
      BY <2>1, <2>3, JobFields
    <3>2. requestRide(job.tenant, job.who, job.ride)
      BY <2>1, <2>3 DEF requestRide, MayWrite, RowOf, eventType
    <3>. QED
      BY <2>2, <3>1, <3>2 DEF LedgerNext
  <2>4. CASE job.op = "acceptRide"
    <3>1. job.who \in DriverId
      BY <2>1, <2>4, JobFields
    <3>2. rides' = [rides EXCEPT ![job.ride].state = "MATCHED",
                                 ![job.ride].driver = job.who]
      BY <2>1, <2>2, <2>4 DEF RowOf, Updated, StoreIInv, StoreTypeOK, LedgerTypeOK
    <3>3. /\ eventType[job.op] = "matched"
          /\ EntryOf(job) = [tenant |-> job.tenant, ride |-> job.ride,
                             driver |-> job.who]
          /\ Updatable(job.tenant, job.ride)
      BY <2>1, <2>4 DEF MayWrite, EntryOf, eventType
    <3>4. /\ appendEvent(job.ride, "matched", job.who)
          /\ outbox' = Append(outbox, EntryOf(job))
      BY <2>1, <2>4, <3>3
    <3>5. acceptRide(job.tenant, job.ride, job.who)
      BY <3>2, <3>3, <3>4 DEF acceptRide
    <3>. QED
      BY <2>2, <3>1, <3>5 DEF LedgerNext
  <2>5. CASE job.op = "markNoDriver"
    <3>1. job.who = "system"
      BY <2>1, <2>5, JobFields
    <3>2. rides' = [rides EXCEPT ![job.ride].state = "NO_DRIVER"]
      BY <2>1, <2>5 DEF RowOf, Updated
    <3>3. eventType[job.op] = "no_driver" /\ Updatable(job.tenant, job.ride)
      BY <2>1, <2>5 DEF MayWrite, eventType
    <3>4. appendEvent(job.ride, "no_driver", "system") /\ outbox' = outbox
      BY <2>1, <2>5, <3>1, <3>3
    <3>5. markNoDriver(job.tenant, job.ride)
      BY <3>2, <3>3, <3>4 DEF markNoDriver
    <3>. QED
      BY <2>2, <3>5 DEF LedgerNext
  <2>. QED
    BY <2>2, <2>3, <2>4, <2>5
<1>. QED
  BY <1>1, <1>2

\* The open transactions can still do what they have begun: the row that has
\* just changed is nobody else's.
LEMMA OthersStillFit ==
    ASSUME StoreIInv, NEW k \in Connection, tx[k].next = "commit", Apply(k),
           NEW j \in Connection \ {k}, tx[j] # NoTx, tx'[j] = tx[j]
    PROVE  Fits(tx[j])'
<1>. PICK r : r = tx[j].job.ride
  OBVIOUS
<1>1. Fits(tx[j]) /\ Fits(tx[k]) /\ tx[k] # NoTx /\ tx[k].job \in Job
  BY OpenTx DEF StoreIInv
<1>2. CASE tx[k].row = NoRow \/ tx[k].job.ride # r
  <2>1. rides'[r] = rides[r]
    BY <1>2 DEF Apply, StoreIInv, StoreTypeOK, LedgerTypeOK
  <2>2. MayWrite(tx[j].job) => MayWrite(tx[j].job)'
    BY <2>1 DEF MayWrite, Updatable, Visible
  <2>3. RowOf(tx[j].job) = RowOf(tx[j].job)'
    BY <2>1 DEF RowOf, Updated
  <2>. QED
    BY <1>1, <2>1, <2>2, <2>3 DEF Fits
<1>3. CASE tx[k].row # NoRow /\ tx[k].job.ride = r
  <2>1. tx[j].row = NoRow
    BY <1>3 DEF StoreIInv, OneWriter
  <2>2. tx[j].job.op # "requestRide"
    <3>1. CASE tx[k].job.op = "requestRide"
      BY <1>1, <1>3, <3>1 DEF StoreIInv, FreshIds
    <3>2. CASE tx[k].job.op # "requestRide"
      <4>1. rides[r].state = "REQUESTED"
        BY <1>1, <1>3, <3>2 DEF Fits, MayWrite, Updatable
      <4>. QED
        BY <1>1, <4>1 DEF Fits, NoRow
    <3>. QED
      BY <3>1, <3>2
  <2>. QED
    BY <1>1, <2>1, <2>2 DEF Fits
<1>. QED
  BY <1>2, <1>3

LEMMA CommitKeeps ==
    ASSUME StoreIInv, NEW k \in Connection, tx[k].next = "commit", Apply(k),
           Release(k), resolved' \subseteq Job
    PROVE  StoreIInv'
<1>1. /\ tx'[k] = NoTx /\ NoTx.row = NoRow
      /\ \A j \in Connection \ {k} : tx'[j] = tx[j]
  BY DEF Release, StoreIInv, StoreTypeOK, NoTx
<1>2. LedgerTypeOK'
  BY CommitIsLedgerStep, LedgerNextType DEF StoreIInv, StoreTypeOK
<1>3. StoreTypeOK'
  BY <1>2 DEF Release, StoreIInv, StoreTypeOK
<1>4. ASSUME NEW j \in Connection, tx'[j] # NoTx PROVE Fits(tx[j])'
  BY <1>1, <1>4, OthersStillFit
<1>5. OneWriter'
  BY <1>1 DEF OneWriter, StoreIInv
<1>6. FreshIds'
  BY <1>1 DEF FreshIds, StoreIInv
<1>. QED
  BY <1>3, <1>4, <1>5, <1>6 DEF StoreIInv
-----------------------------------------------------------------------------
(* The theorems *)

LEMMA StoreInitIInv == StoreInit => StoreIInv
<1>. SUFFICES ASSUME StoreInit PROVE StoreIInv
  OBVIOUS
<1>1. LedgerTypeOK
  BY DEF StoreInit, LedgerInit, LedgerTypeOK
<1>2. \A k \in Connection : tx[k] = NoTx /\ tx[k].row = NoRow
  BY DEF StoreInit, NoTx
<1>. QED
  BY <1>1, <1>2 DEF StoreInit, StoreIInv, StoreTypeOK, OneWriter, FreshIds

LEMMA StoreStep ==
    StoreIInv /\ [StoreNext]_storeVars => StoreIInv' /\ [LedgerNext]_ledgerVars
<1>. SUFFICES ASSUME StoreIInv, [StoreNext]_storeVars
              PROVE  StoreIInv' /\ [LedgerNext]_ledgerVars
  OBVIOUS
<1>1. ASSUME NEW k \in Connection, NEW job \in Job, Begin(k, job)
      PROVE  StoreIInv' /\ [LedgerNext]_ledgerVars
  BY <1>1, BeginKeeps DEF Begin
<1>2. ASSUME NEW k \in Connection,
             \/ InsertRide(k) \/ FindRide(k) \/ UpdateRide(k)
             \/ InsertEvent(k) \/ InsertOutbox(k) \/ Rollback(k)
      PROVE  StoreIInv' /\ UNCHANGED ledgerVars
  <2>1. StoreIInv'
    BY <1>2, InsertRideKeeps, FindRideKeeps, UpdateRideKeeps, InsertEventKeeps,
       InsertOutboxKeeps, RollbackKeeps
  <2>2. UNCHANGED ledgerVars
    BY <1>2 DEF InsertRide, FindRide, UpdateRide, InsertEvent, InsertOutbox,
                Rollback
  <2>. QED
    BY <2>1, <2>2
<1>3. ASSUME NEW k \in Connection, Commit(k) \/ CommitUnanswered(k)
      PROVE  StoreIInv' /\ [LedgerNext]_ledgerVars
  <2>1. tx[k].next = "commit" /\ Apply(k) /\ Release(k)
    BY <1>3 DEF Commit, CommitUnanswered
  <2>2. resolved' \subseteq Job
    <3>1. tx[k].job \in Job /\ resolved \subseteq Job
      BY <2>1, OpenTx DEF StoreIInv, StoreTypeOK
    <3>. QED
      BY <1>3, <3>1 DEF Commit, CommitUnanswered
  <2>. QED
    BY <2>1, <2>2, CommitKeeps, CommitIsLedgerStep
<1>4. CASE UNCHANGED storeVars
  <2>1. UNCHANGED <<rides, rideEvents, outbox, tx, resolved>>
    BY <1>4 DEF storeVars, ledgerVars
  <2>. QED
    BY <2>1 DEF ledgerVars, StoreIInv, StoreTypeOK, LedgerTypeOK, Fits, MayWrite,
                RowOf, Updated, Updatable, Visible, OneWriter, FreshIds
<1>. QED
  BY <1>1, <1>2, <1>3, <1>4 DEF StoreNext, Step, Answered

\* The open transactions and the committed tables fit together: one writer for
\* each row, and what it wrote is still what the row allows.
THEOREM StoreInvariant == StoreSpec => []StoreIInv
BY StoreInitIInv, StoreStep, PTL DEF StoreSpec

\* Type correctness of the tables and of every open transaction.
THEOREM StoreTypeCorrect == StoreSpec => []StoreTypeOK
BY StoreInvariant, PTL DEF StoreIInv

\* However the statements of concurrent calls interleave, fail or lose their
\* answers, the tables move by the atomic steps of RideLedger.
THEOREM StoreImplementsLedger == StoreSpec => LedgerSpec
<1>1. StoreInit => LedgerInit
  BY DEF StoreInit
<1>. QED
  BY <1>1, StoreStep, StoreInvariant, PTL DEF StoreSpec, LedgerSpec

\* So the events of a ride tell its story although they are written by
\* statements of their own.
THEOREM StoreTellsTheStory == StoreSpec => []EventsTellTheRide
BY StoreImplementsLedger, EventsAreTheStory, PTL

\* And no interleaving of two settling calls announces a ride twice.
THEOREM StoreAnnouncesOnce == StoreSpec => []OneEntryPerMatch
BY StoreImplementsLedger, OneEntryForEachMatch, PTL
-----------------------------------------------------------------------------
(* What a caller was told *)

Holds(job) ==
    /\ rides[job.ride] # NoRow
    /\ rides[job.ride].tenant = job.tenant
    /\ job.op = "requestRide" => rides[job.ride].passenger = job.who
    /\ job.op = "acceptRide" =>
          rides[job.ride].state = "MATCHED" /\ rides[job.ride].driver = job.who
    /\ job.op = "markNoDriver" => rides[job.ride].state = "NO_DRIVER"

ToldIInv == StoreIInv /\ \A job \in resolved : Holds(job)

\* What holds of a call's ride holds for good: the row is settled, or only its
\* state and driver can still change.
LEMMA HoldsForGood ==
    ASSUME LedgerTypeOK, [LedgerNext]_ledgerVars, NEW job \in Job, Holds(job)
    PROVE  Holds(job)'
<1>1. job.ride \in Ride /\ job.op \in {"requestRide", "acceptRide", "markNoDriver"}
  BY JobFields
<1>2. CASE rides'[job.ride] = rides[job.ride]
  BY <1>2 DEF Holds
<1>3. CASE rides'[job.ride] # rides[job.ride]
  <2>1. /\ canTransition(rides[job.ride].state, rides'[job.ride].state)
        /\ rides'[job.ride].tenant = rides[job.ride].tenant
        /\ rides'[job.ride].passenger = rides[job.ride].passenger
    BY <1>1, <1>3, LegalStep DEF Holds
  <2>2. job.op = "requestRide"
    BY <1>1, <1>3, SettledStays DEF Holds, Settled
  <2>3. rides'[job.ride] # NoRow
    <3>1. ~canTransition(rides[job.ride].state, "ABSENT")
      <4>1. rides[job.ride].state \in RideState
        BY <1>1 DEF Holds, LedgerTypeOK, Row
      <4>. QED
        BY <4>1 DEF RideState, canTransition, TRANSITIONS
    <3>. QED
      BY <2>1, <3>1 DEF NoRow
  <2>. QED
    BY <2>1, <2>2, <2>3 DEF Holds
<1>. QED
  BY <1>2, <1>3

\* A call that wrote its row leaves it as it tells its caller.
LEMMA ToldTheTruth ==
    ASSUME StoreIInv, NEW k \in Connection, tx[k].next = "commit",
           tx[k].row # NoRow, Apply(k), NEW job, job = tx[k].job
    PROVE  Holds(job)'
<1>1. /\ job \in Job /\ MayWrite(job)
      /\ rides' = [rides EXCEPT ![job.ride] = RowOf(job)]
  BY WritingCommit
<1>2. /\ job.ride \in Ride /\ job.tenant \in Tenant
      /\ job.op \in {"requestRide", "acceptRide", "markNoDriver"}
  BY <1>1, JobFields
<1>3. rides'[job.ride] = RowOf(job)
  BY <1>1, <1>2 DEF StoreIInv, StoreTypeOK, LedgerTypeOK
<1>4. CASE job.op = "requestRide"
  <2>1. /\ RowOf(job).tenant = job.tenant /\ RowOf(job).passenger = job.who
        /\ RowOf(job).state = "REQUESTED"
    BY <1>4 DEF RowOf
  <2>. QED
    BY <1>3, <1>4, <2>1 DEF Holds, NoRow
<1>5. CASE job.op # "requestRide"
  <2>1. rides[job.ride] \in Row /\ rides[job.ride].tenant = job.tenant
    BY <1>1, <1>2, <1>5 DEF MayWrite, Updatable, Visible, StoreIInv,
                            StoreTypeOK, LedgerTypeOK, NoRow
  <2>2. /\ Updated(job).tenant = job.tenant
        /\ job.op = "acceptRide" =>
              Updated(job).state = "MATCHED" /\ Updated(job).driver = job.who
        /\ job.op = "markNoDriver" => Updated(job).state = "NO_DRIVER"
    BY <2>1 DEF Updated, Row
  <2>. QED
    BY <1>2, <1>3, <1>5, <2>2 DEF Holds, RowOf, NoRow
<1>. QED
  BY <1>4, <1>5

LEMMA ToldStep == ToldIInv /\ [StoreNext]_storeVars => ToldIInv'
<1>. SUFFICES ASSUME ToldIInv, [StoreNext]_storeVars PROVE ToldIInv'
  OBVIOUS
<1>1. StoreIInv' /\ [LedgerNext]_ledgerVars
  BY StoreStep DEF ToldIInv
<1>2. \A job \in resolved : Holds(job)'
  BY <1>1, HoldsForGood DEF ToldIInv, StoreIInv, StoreTypeOK
<1>3. ASSUME NEW job \in resolved', job \notin resolved PROVE Holds(job)'
  <2>1. PICK k \in Connection : Commit(k) /\ tx[k].row # NoRow /\ job = tx[k].job
    BY <1>3 DEF StoreNext, Step, Answered, storeVars, Begin, InsertRide, FindRide,
                UpdateRide, InsertEvent, InsertOutbox, Commit,
                CommitUnanswered, Rollback
  <2>. QED
    BY <2>1, ToldTheTruth DEF Commit, ToldIInv
<1>. QED
  BY <1>1, <1>2, <1>3 DEF ToldIInv

\* A caller that was told true settled the ride, and nobody undoes it.
THEOREM ToldStaysCommitted == StoreSpec => []ToldIsCommitted
<1>1. StoreInit => ToldIInv
  BY StoreInitIInv DEF StoreInit, ToldIInv
<1>2. ToldIInv => ToldIsCommitted
  BY DEF ToldIInv, ToldIsCommitted, Holds
<1>. QED
  BY <1>1, <1>2, ToldStep, PTL DEF StoreSpec
-----------------------------------------------------------------------------
(* Drafts *)

USE EURegionsAreRegions

Draft ==
    [step : {"none", "ride", "events", "model", "draft", "rejected", "error"},
     tenant : Tenant \cup {Nil}, ride : Ride \cup {Nil},
     complaint : Complaint, row : Row \cup {NoRow},
     file : File(Role) \cup {NoFile}, draft : Raw(EventId, Reply)]

\* Text goes to an EU region of the data plane, or nowhere.
DataPlane == model.plane = "data" /\ model.region \in EURegion

\* The row was the caller's and committed; if it was settled it is still so.
RowWasRead(d) ==
    /\ d.tenant \in Tenant /\ d.ride \in Ride /\ d.row \in Row
    /\ rides[d.ride].tenant = d.tenant
    /\ d.row.state \in {"REQUESTED", "MATCHED", "NO_DRIVER"}
    /\ d.row.state \in {"MATCHED", "NO_DRIVER"} => rides[d.ride] = d.row

\* A type of event the file shows.
Shows(file, type) == \E i \in DOMAIN file.events : file.events[i].type = type

FileIsFaithful(d) ==
    /\ d.tenant \in Tenant /\ d.ride \in Ride
    /\ rides[d.ride].tenant = d.tenant
    /\ \A i \in DOMAIN d.file.events :
          /\ d.file.events[i].id \in {d.ride} \X DOMAIN rideEvents[d.ride]
          /\ d.file.events[i].actor \in Role
    /\ d.file.complaint \cap Contact = {}
    /\ Shows(d.file, "requested")
    /\ d.file.state = "MATCHED" => Shows(d.file, "matched")
    /\ d.file.state = "NO_DRIVER" => Shows(d.file, "no_driver")

DraftOK(d) ==
    /\ d.step \in {"ride", "events", "model"} => DataPlane /\ d.ride \in Ride
                                                 /\ d.tenant \in Tenant
    /\ d.step = "events" => RowWasRead(d)
    /\ d.step \in {"model", "draft"} => d.file # NoFile
    /\ d.file # NoFile => DataPlane /\ FileIsFaithful(d)
    /\ d.step = "draft" => validateDraft(d.draft, d.file)

AssistIInv ==
    /\ LedgerIInv
    /\ model \in {Null, EvalClient} \cup {Bedrock(g) : g \in EURegion}
    /\ drafts \in [Call -> Draft]
    /\ \A c \in Call : DraftOK(drafts[c])

LEMMA AssistInit == Init => AssistIInv
<1>. SUFFICES ASSUME Init PROVE AssistIInv
  OBVIOUS
<1>1. LedgerIInv
  BY LedgerInitIInv DEF Init
<1>2. model \in {Null, EvalClient} \cup {Bedrock(g) : g \in EURegion}
  BY DEF Init, bedrockConfigFor
<1>3. NoDraft \in Draft
  BY DEF NoDraft, Draft, Complaint, Undefined, Raw, Reply
<1>4. DraftOK(NoDraft)
  BY DEF NoDraft, DraftOK
<1>. QED
  BY <1>1, <1>2, <1>3, <1>4 DEF Init, AssistIInv
-----------------------------------------------------------------------------
(* The rides go on *)

LEMMA EventNumbers ==
    \A a, b : DOMAIN <<a>> = {1} /\ DOMAIN <<a, b>> = {1, 2}
OBVIOUS

\* Events are never taken back, and a ride stays with its tenant.
LEMMA StoriesGrow ==
    ASSUME LedgerIInv, LedgerIInv', [LedgerNext]_ledgerVars, NEW r \in Ride,
           rides[r] # NoRow
    PROVE  /\ rides'[r].tenant = rides[r].tenant
           /\ Settled(r) => rides'[r] = rides[r]
           /\ DOMAIN rideEvents[r] \subseteq DOMAIN rideEvents'[r]
<1>1. CASE rides'[r] = rides[r]
  BY <1>1 DEF LedgerIInv, EventsTellTheRide, Story
<1>2. CASE rides'[r] # rides[r]
  <2>1. /\ rides'[r].tenant = rides[r].tenant
        /\ canTransition(rides[r].state, rides'[r].state)
    BY <1>2, LegalStep DEF LedgerIInv
  <2>2. ~Settled(r)
    BY <1>2, SettledStays DEF LedgerIInv
  <2>3. rides[r].state = "REQUESTED"
    BY <2>2 DEF LedgerIInv, RowShape, Settled
  <2>4. rides'[r].state \in {"REQUESTED", "MATCHED", "NO_DRIVER"}
    <3>1. rides'[r].state # "ABSENT"
      BY <2>1, <2>3 DEF canTransition, TRANSITIONS
    <3>. QED
      BY <3>1 DEF LedgerIInv, RowShape, NoRow
  <2>5. \E a : rideEvents[r] = <<a>>
    BY <2>3 DEF LedgerIInv, EventsTellTheRide, Story
  <2>6. \E a, b : rideEvents'[r] = <<a>> \/ rideEvents'[r] = <<a, b>>
    BY <2>4 DEF LedgerIInv, EventsTellTheRide, Story
  <2>7. DOMAIN rideEvents[r] \subseteq DOMAIN rideEvents'[r]
    BY <2>5, <2>6, EventNumbers
  <2>. QED
    BY <2>1, <2>2, <2>7
<1>. QED
  BY <1>1, <1>2

LEMMA RidesGoOn ==
    ASSUME AssistIInv, [LedgerNext]_ledgerVars, UNCHANGED <<model, drafts>>
    PROVE  AssistIInv'
<1>1. LedgerIInv /\ LedgerIInv'
  BY LedgerNextIInv DEF AssistIInv
<1>2. ASSUME NEW c \in Call PROVE DraftOK(drafts[c])'
  <2>. DEFINE d == drafts[c]
  <2>1. DraftOK(d) /\ d' = d /\ d \in Draft
    BY DEF AssistIInv
  <2>. HIDE DEF d
  <2>2. d.ride \in Ride /\ rides[d.ride].tenant = d.tenant /\ d.tenant \in Tenant =>
          /\ rides'[d.ride].tenant = d.tenant
          /\ Settled(d.ride) => rides'[d.ride] = rides[d.ride]
          /\ DOMAIN rideEvents[d.ride] \subseteq DOMAIN rideEvents'[d.ride]
    BY <1>1, StoriesGrow DEF NoRow
  <2>3. RowWasRead(d) => RowWasRead(d)'
    BY <2>1, <2>2 DEF RowWasRead, Settled
  <2>4. FileIsFaithful(d) => FileIsFaithful(d)'
    BY <2>1, <2>2 DEF FileIsFaithful, Shows
  <2>5. DraftOK(d)'
    BY <2>1, <2>3, <2>4 DEF DraftOK, DataPlane
  <2>. QED
    BY <2>5 DEF d
<1>. QED
  BY <1>1, <1>2 DEF AssistIInv

-----------------------------------------------------------------------------
(* A request goes on *)

LEMMA DraftStep ==
    ASSUME AssistIInv, UNCHANGED <<ledgerVars, model>>, NEW c \in Call,
           NEW d \in Draft, drafts' = [drafts EXCEPT ![c] = d], DraftOK(d)
    PROVE  AssistIInv'
<1>1. LedgerIInv'
  BY LedgerNextIInv DEF AssistIInv
<1>2. /\ drafts' \in [Call -> Draft] /\ drafts'[c] = d
      /\ \A b \in Call \ {c} : drafts'[b] = drafts[b]
  BY DEF AssistIInv
<1>3. rides' = rides /\ rideEvents' = rideEvents /\ model' = model
  BY DEF ledgerVars
<1>4. \A b \in Call : DraftOK(drafts'[b])
  BY <1>2 DEF AssistIInv
<1>5. ASSUME NEW b \in Call PROVE DraftOK(drafts[b])'
  <2>1. DataPlane => DataPlane'
    BY <1>3 DEF DataPlane
  <2>2. RowWasRead(drafts'[b]) => RowWasRead(drafts[b])'
    BY <1>3 DEF RowWasRead
  <2>3. FileIsFaithful(drafts'[b]) => FileIsFaithful(drafts[b])'
    BY <1>3 DEF FileIsFaithful, Shows
  <2>. QED
    BY <1>4, <2>1, <2>2, <2>3 DEF DraftOK
<1>. QED
  BY <1>1, <1>2, <1>5 DEF AssistIInv

LEMMA AskStep ==
    ASSUME AssistIInv, NEW c \in Call, NEW t \in Tenant, NEW r \in Ride,
           NEW text \in Complaint, Ask(c, t, r, text)
    PROVE  AssistIInv'
<1>. DEFINE step == IF model # Null /\ assertDataPlane THEN "ride" ELSE "error"
            d == [NoDraft EXCEPT !.tenant = t, !.ride = r, !.complaint = text,
                                 !.step = step]
<1>1. drafts' = [drafts EXCEPT ![c] = d] /\ UNCHANGED <<ledgerVars, model>>
  BY DEF Ask
<1>2. /\ step \in {"ride", "error"}
      /\ step = "ride" => DataPlane
  BY DEF assertDataPlane, DataPlane, AssistIInv, Null, EvalClient, Bedrock
<1>. HIDE DEF step
<1>3. /\ d \in Draft /\ d.step = step /\ d.tenant = t /\ d.ride = r
      /\ d.file = NoFile
  BY <1>2 DEF NoDraft, Draft, Undefined, Raw, Reply
<1>. HIDE DEF d
<1>4. DraftOK(d)
  BY <1>2, <1>3 DEF DraftOK
<1>. QED
  BY <1>1, <1>3, <1>4, DraftStep

LEMMA ReadRideStep ==
    ASSUME AssistIInv, NEW c \in Call, ReadRide(c) PROVE AssistIInv'
<1>. DEFINE r == drafts[c].ride
            t == drafts[c].tenant
            row == getRide(t, r)
            step == IF row = NoRow THEN "error" ELSE "events"
            d == [drafts[c] EXCEPT !.row = row, !.step = step]
<1>1. /\ drafts[c].step = "ride" /\ drafts[c] \in Draft /\ DraftOK(drafts[c])
      /\ drafts' = [drafts EXCEPT ![c] = d] /\ UNCHANGED <<ledgerVars, model>>
  BY DEF ReadRide, AssistIInv
<1>2. r \in Ride /\ t \in Tenant /\ DataPlane
  BY <1>1 DEF DraftOK
<1>3. /\ row \in Row \cup {NoRow}
      /\ step \in {"error", "events"}
      /\ step = "events" =>
            /\ row \in Row /\ row = rides[r] /\ rides[r].tenant = t
            /\ row.state \in {"REQUESTED", "MATCHED", "NO_DRIVER"}
  BY <1>2 DEF getRide, Visible, AssistIInv, LedgerIInv, LedgerTypeOK, RowShape
<1>. HIDE DEF row, step
<1>4. /\ d \in Draft /\ d.step = step /\ d.tenant = t /\ d.ride = r
      /\ d.row = row /\ d.file = drafts[c].file
  BY <1>1, <1>3 DEF Draft
<1>. HIDE DEF d, r, t
<1>5. d.file # NoFile => DataPlane /\ FileIsFaithful(d)
  BY <1>1, <1>4 DEF DraftOK, FileIsFaithful, r, t
<1>6. step = "events" => RowWasRead(d)
  BY <1>2, <1>3, <1>4 DEF RowWasRead
<1>7. DraftOK(d)
  BY <1>2, <1>3, <1>4, <1>5, <1>6 DEF DraftOK
<1>. QED
  BY <1>1, <1>4, <1>7, DraftStep

LEMMA GivesUp ==
    ASSUME AssistIInv, NEW c \in Call, NoSubmission(c) \/ Throws(c)
    PROVE  AssistIInv'
<1>. PICK step \in {"rejected", "error"} :
        /\ drafts' = [drafts EXCEPT ![c].step = step]
        /\ UNCHANGED <<ledgerVars, model>>
  BY DEF NoSubmission, Throws
<1>. DEFINE d == [drafts[c] EXCEPT !.step = step]
<1>1. drafts' = [drafts EXCEPT ![c] = d]
  BY DEF AssistIInv
<1>2. drafts[c] \in Draft /\ DraftOK(drafts[c])
  BY DEF AssistIInv
<1>3. /\ d \in Draft /\ d.step = step /\ d.tenant = drafts[c].tenant
      /\ d.ride = drafts[c].ride /\ d.file = drafts[c].file
  BY <1>2 DEF Draft
<1>. HIDE DEF d
<1>4. DraftOK(d)
  BY <1>2, <1>3 DEF DraftOK, FileIsFaithful
<1>. QED
  BY <1>1, <1>3, <1>4, DraftStep

LEMMA SubmitStep ==
    ASSUME AssistIInv, NEW c \in Call, NEW raw \in Raw(EventId, Reply),
           submitDraft(c, raw)
    PROVE  AssistIInv'
<1>1. /\ drafts[c] \in Draft /\ DraftOK(drafts[c]) /\ drafts[c].step = "model"
      /\ UNCHANGED <<ledgerVars, model>>
  BY DEF AssistIInv, submitDraft
<1>2. CASE validateDraft(raw, drafts[c].file)
  <2>. DEFINE d == [drafts[c] EXCEPT !.step = "draft", !.draft = raw]
  <2>1. drafts' = [drafts EXCEPT ![c] = d]
    BY <1>2 DEF submitDraft, AssistIInv
  <2>2. /\ d \in Draft /\ d.step = "draft" /\ d.tenant = drafts[c].tenant
        /\ d.ride = drafts[c].ride /\ d.file = drafts[c].file /\ d.draft = raw
    BY <1>1 DEF Draft
  <2>. HIDE DEF d
  <2>3. DraftOK(d)
    BY <1>1, <1>2, <2>2 DEF DraftOK, FileIsFaithful
  <2>. QED
    BY <1>1, <2>1, <2>2, <2>3, DraftStep
<1>3. CASE ~validateDraft(raw, drafts[c].file)
  <2>. DEFINE d == [drafts[c] EXCEPT !.step = "rejected"]
  <2>1. drafts' = [drafts EXCEPT ![c] = d]
    BY <1>3 DEF submitDraft, AssistIInv
  <2>2. /\ d \in Draft /\ d.step = "rejected" /\ d.tenant = drafts[c].tenant
        /\ d.ride = drafts[c].ride /\ d.file = drafts[c].file
    BY <1>1 DEF Draft
  <2>. HIDE DEF d
  <2>3. DraftOK(d)
    BY <1>1, <2>2 DEF DraftOK, FileIsFaithful
  <2>. QED
    BY <1>1, <2>1, <2>2, <2>3, DraftStep
<1>. QED
  BY <1>2, <1>3

-----------------------------------------------------------------------------
(* The case file *)

LEMMA RoleIsRole == ASSUME NEW actor, NEW ride PROVE roleOf(actor, ride) \in Role
BY DEF roleOf, Role

\* The events of a committed ride, by the state it is in.
LEMMA EventsByState ==
    ASSUME LedgerIInv, NEW r \in Ride, rides[r] # NoRow
    PROVE  \E n \in {1, 2} :
              /\ DOMAIN rideEvents[r] = 1 .. n
              /\ \A i \in 1 .. n : rideEvents[r][i] \in Event
              /\ rideEvents[r][1].type = "requested"
              /\ rides[r].state = "MATCHED" =>
                    n = 2 /\ rideEvents[r][2].type = "matched"
              /\ rides[r].state = "NO_DRIVER" =>
                    n = 2 /\ rideEvents[r][2].type = "no_driver"
<1>1. /\ rideEvents[r] = Story(r) /\ rideEvents[r] \in Seq(Event)
      /\ rides[r].state \in {"REQUESTED", "MATCHED", "NO_DRIVER"}
  BY DEF LedgerIInv, EventsTellTheRide, LedgerTypeOK, RowShape
<1>. DEFINE first == [type |-> "requested", actor |-> rides[r].passenger]
            matched == [type |-> "matched", actor |-> rides[r].driver]
            given == [type |-> "no_driver", actor |-> "system"]
<1>2. /\ rides[r].state = "REQUESTED" => rideEvents[r] = <<first>>
      /\ rides[r].state = "MATCHED" => rideEvents[r] = <<first, matched>>
      /\ rides[r].state = "NO_DRIVER" => rideEvents[r] = <<first, given>>
  BY <1>1 DEF Story
<1>3. first.type = "requested" /\ matched.type = "matched" /\ given.type = "no_driver"
  OBVIOUS
<1>. HIDE DEF first, matched, given
<1>4. /\ Len(rideEvents[r]) \in {1, 2}
      /\ rides[r].state \in {"MATCHED", "NO_DRIVER"} => Len(rideEvents[r]) = 2
  BY <1>1, <1>2
<1>5. /\ rideEvents[r][1] = first
      /\ rides[r].state = "MATCHED" => rideEvents[r][2] = matched
      /\ rides[r].state = "NO_DRIVER" => rideEvents[r][2] = given
  BY <1>1, <1>2
<1>6. /\ DOMAIN rideEvents[r] = 1 .. Len(rideEvents[r])
      /\ \A i \in 1 .. Len(rideEvents[r]) : rideEvents[r][i] \in Event
  BY <1>1, LenProperties, ElementOfSeq
<1>. QED
  BY <1>3, <1>4, <1>5, <1>6

LEMMA ReadEventsStep ==
    ASSUME AssistIInv, NEW c \in Call, ReadEvents(c) PROVE AssistIInv'
<1>. DEFINE r == drafts[c].ride
            t == drafts[c].tenant
            row == drafts[c].row
            text == drafts[c].complaint
            file == buildCaseFile(row, eventsFor(t, r), text)
            d == [drafts[c] EXCEPT !.file = file, !.step = "model"]
<1>1. /\ drafts[c].step = "events" /\ drafts[c] \in Draft /\ DraftOK(drafts[c])
      /\ drafts' = [drafts EXCEPT ![c] = d] /\ UNCHANGED <<ledgerVars, model>>
  BY DEF ReadEvents, AssistIInv
<1>2. /\ RowWasRead(drafts[c]) /\ DataPlane
      /\ r \in Ride /\ t \in Tenant /\ row \in Row /\ text \in Complaint
      /\ rides[r].tenant = t /\ rides[r] # NoRow
  BY <1>1 DEF DraftOK, RowWasRead, Draft, NoRow
<1>3. PICK n \in {1, 2} :
      /\ DOMAIN rideEvents[r] = 1 .. n
      /\ \A i \in 1 .. n : rideEvents[r][i] \in Event
      /\ rideEvents[r][1].type = "requested"
      /\ rides[r].state = "MATCHED" => n = 2 /\ rideEvents[r][2].type = "matched"
      /\ rides[r].state = "NO_DRIVER" => n = 2 /\ rideEvents[r][2].type = "no_driver"
  BY <1>2, EventsByState DEF AssistIInv
<1>. DEFINE seen == eventsFor(t, r)
            shown == [i \in DOMAIN seen |->
                         [seen[i] EXCEPT !.actor = roleOf(@, row)]]
<1>a. file = [state |-> row.state, events |-> shown,
              complaint |-> text \ Contact]
  BY DEF buildCaseFile
<1>4. /\ file.state = row.state /\ file.complaint = text \ Contact
      /\ file.events = shown
  BY <1>a
<1>5. shown =
         [i \in 1 .. n |-> [id |-> <<r, i>>, type |-> rideEvents[r][i].type,
                            actor |-> roleOf(rideEvents[r][i].actor, row)]]
  <2>1. seen = [i \in 1 .. n |-> [id |-> <<r, i>>, type |-> rideEvents[r][i].type,
                                  actor |-> rideEvents[r][i].actor]]
    BY <1>2, <1>3 DEF eventsFor, Visible
  <2>. HIDE DEF seen
  <2>2. DOMAIN seen = 1 .. n
    BY <2>1
  <2>3. ASSUME NEW i \in 1 .. n
        PROVE  [seen[i] EXCEPT !.actor = roleOf(seen[i].actor, row)] =
                   [id |-> <<r, i>>, type |-> rideEvents[r][i].type,
                    actor |-> roleOf(rideEvents[r][i].actor, row)]
    BY <2>1
  <2>. QED
    BY <2>2, <2>3
<1>. HIDE DEF file, shown, seen
<1>6. /\ DOMAIN file.events = 1 .. n
      /\ \A i \in 1 .. n :
            /\ file.events[i].id = <<r, i>>
            /\ file.events[i].type = rideEvents[r][i].type
            /\ file.events[i].actor \in Role
            /\ file.events[i] \in CaseEvent(Role)
  <2>1. ASSUME NEW i \in 1 .. n
        PROVE  [id |-> <<r, i>>, type |-> rideEvents[r][i].type,
                actor |-> roleOf(rideEvents[r][i].actor, row)] \in CaseEvent(Role)
    <3>1. i \in {1, 2} /\ rideEvents[r][i].type \in {"requested", "matched", "no_driver"}
      BY <1>3 DEF Event
    <3>. QED
      BY <1>2, <3>1, RoleIsRole DEF CaseEvent, EventId
  <2>2. /\ DOMAIN file.events = 1 .. n
        /\ \A i \in 1 .. n : file.events[i] =
              [id |-> <<r, i>>, type |-> rideEvents[r][i].type,
               actor |-> roleOf(rideEvents[r][i].actor, row)]
    BY <1>4, <1>5
  <2>3. \A i \in 1 .. n : roleOf(rideEvents[r][i].actor, row) \in Role
    BY RoleIsRole
  <2>4. ASSUME NEW i \in 1 .. n
        PROVE  /\ file.events[i].id = <<r, i>>
               /\ file.events[i].type = rideEvents[r][i].type
               /\ file.events[i].actor \in Role
    <3>. DEFINE actor == roleOf(rideEvents[r][i].actor, row)
                event == [id |-> <<r, i>>, type |-> rideEvents[r][i].type,
                          actor |-> actor]
    <3>1. file.events[i] = event
      BY <2>2
    <3>2. actor \in Role
      BY <2>3
    <3>. HIDE DEF actor
    <3>3. event.id = <<r, i>> /\ event.type = rideEvents[r][i].type
          /\ event.actor = actor
      OBVIOUS
    <3>. HIDE DEF event
    <3>. QED
      BY <3>1, <3>2, <3>3
  <2>5. \A i \in 1 .. n : file.events[i] \in CaseEvent(Role)
    BY <2>1, <2>2
  <2>. QED
    BY <2>2, <2>4, <2>5
<1>7. file \in File(Role) /\ file # NoFile
  <2>1. file.events \in Seq(CaseEvent(Role))
    <3>1. n \in Nat /\ file.events = [i \in 1 .. n |-> file.events[i]]
      BY <1>4, <1>5
    <3>2. \A i \in 1 .. n : file.events[i] \in CaseEvent(Role)
      BY <1>6
    <3>3. file.events \in [1 .. n -> CaseEvent(Role)]
      BY <3>1, <3>2
    <3>. QED
      BY <3>1, <3>3, SeqDef
  <2>2. /\ file.state \in RideState /\ file.state # "ABSENT"
        /\ file.complaint \in SUBSET ({"disguised"} \cup Contact)
    BY <1>2, <1>4 DEF Row, RideState, Complaint, Contact
  <2>. QED
    BY <1>a, <1>4, <2>1, <2>2 DEF File, NoFile
<1>8. /\ d \in Draft /\ d.step = "model" /\ d.tenant = t /\ d.ride = r
      /\ d.file = file
  BY <1>1, <1>7 DEF Draft
<1>. HIDE DEF d
<1>9. FileIsFaithful(d)
  <2>1. Shows(file, "requested")
    BY <1>3, <1>6 DEF Shows
  <2>2. row.state \in {"MATCHED", "NO_DRIVER"} => rides[r] = row
    BY <1>2 DEF RowWasRead
  <2>3. /\ file.state = "MATCHED" => Shows(file, "matched")
        /\ file.state = "NO_DRIVER" => Shows(file, "no_driver")
    BY <1>3, <1>4, <1>6, <2>2 DEF Shows
  <2>4. \A i \in DOMAIN file.events :
           /\ file.events[i].id \in {r} \X DOMAIN rideEvents[r]
           /\ file.events[i].actor \in Role
    <3>1. \A i \in 1 .. n : <<r, i>> \in {r} \X DOMAIN rideEvents[r]
      BY <1>3
    <3>. QED
      BY <1>6, <3>1
  <2>5. file.complaint \cap Contact = {}
    BY <1>4
  <2>. QED
    BY <1>2, <1>8, <2>1, <2>3, <2>4, <2>5 DEF FileIsFaithful
<1>10. DraftOK(d)
  BY <1>2, <1>7, <1>8, <1>9 DEF DraftOK
<1>. QED
  BY <1>1, <1>8, <1>10, DraftStep
-----------------------------------------------------------------------------
LEMMA AssistNext == AssistIInv /\ [Next]_assistVars => AssistIInv'
<1>. SUFFICES ASSUME AssistIInv, [Next]_assistVars PROVE AssistIInv'
  OBVIOUS
<1>1. CASE UNCHANGED assistVars \/ (LedgerNext /\ UNCHANGED <<model, drafts>>)
  BY <1>1, RidesGoOn DEF assistVars
<1>2. CASE \E c \in Call : AssistStep(c)
  BY <1>2, AskStep, ReadRideStep, ReadEventsStep, GivesUp, SubmitStep DEF AssistStep
<1>. QED
  BY <1>1, <1>2 DEF Next

\* The invariant: what each request has read of its ride, beside the ride as
\* it is now.
THEOREM AssistInvariant == Spec => []AssistIInv
BY AssistInit, AssistNext, PTL DEF Spec

\* What is read, sent and answered keeps its type.
THEOREM AssistTypeCorrect == Spec => []AssistTypeOK
<1>1. AssistIInv => AssistTypeOK
  BY DEF AssistIInv, LedgerIInv, AssistTypeOK, Draft
<1>. QED
  BY <1>1, AssistInvariant, PTL

\* A draft that reaches a human cites events of its own ride and no others,
\* and promises nothing that the patterns know.
THEOREM CitesOnlyTheRide == Spec => []DraftsCiteTheRide
<1>1. ASSUME AssistIInv PROVE DraftsCiteTheRide
  <2>. SUFFICES ASSUME NEW c \in Call, drafts[c].step = "draft"
       PROVE  /\ rides[drafts[c].ride].tenant = drafts[c].tenant
              /\ drafts[c].draft.cites # {}
              /\ drafts[c].draft.cites \subseteq
                    {drafts[c].ride} \X DOMAIN rideEvents[drafts[c].ride]
              /\ "promise" \notin drafts[c].draft.reply
    BY DEF DraftsCiteTheRide
  <2>1. /\ FileIsFaithful(drafts[c])
        /\ validateDraft(drafts[c].draft, drafts[c].file)
    BY <1>1 DEF AssistIInv, DraftOK
  <2>. QED
    BY <2>1 DEF FileIsFaithful, validateDraft, known, Promises
<1>. QED
  BY <1>1, AssistInvariant, PTL

\* Only roles leave, and only for an EU region of the data plane.
THEOREM RolesOnlyLeave == Spec => []OnlyRolesLeave
<1>1. AssistIInv => OnlyRolesLeave
  BY DEF AssistIInv, DraftOK, DataPlane, FileIsFaithful, OnlyRolesLeave
<1>. QED
  BY <1>1, AssistInvariant, PTL

\* A case file shows the event behind the state it tells of.
THEOREM FilesShowTheState == Spec => []EventsReachTheState
<1>1. AssistIInv => EventsReachTheState
  BY DEF AssistIInv, DraftOK, FileIsFaithful, Shows, EventsReachTheState
<1>. QED
  BY <1>1, AssistInvariant, PTL
=============================================================================
