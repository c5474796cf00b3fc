------------------------------ MODULE RideStore ------------------------------
(***************************************************************************)
(* RidesService statement by statement: withTenant(...) on the connections *)
(* of a pool, their transactions interleaved by PostgreSQL at READ         *)
(* COMMITTED.  rides, rideEvents and outbox hold what has committed; what  *)
(* a transaction has written is in tx until then.  Callers are anybody:    *)
(* two of them may settle one ride at the same time.                       *)
(* Shown here: each call is one of RideLedger's atomic steps.              *)
(***************************************************************************)
EXTENDS RideLedger

CONSTANTS
    Connection,   \* the clients of the pg Pool
    Faults        \* what may go wrong, a subset of {"database", "commit"}

VARIABLES
    tx,           \* tx[k]: the transaction open on connection k
    resolved      \* the calls whose promise resolved to true (or to a ride id)

storeVars == <<ledgerVars, tx, resolved>>

\* One call of the service: who is the passenger, the driver or the system.
Job == [op : {"requestRide"}, tenant : Tenant, ride : Ride, who : Passenger]
  \cup [op : {"acceptRide"}, tenant : Tenant, ride : Ride, who : DriverId]
  \cup [op : {"markNoDriver"}, tenant : Tenant, ride : Ride, who : {"system"}]

eventType == [requestRide |-> "requested", acceptRide |-> "matched",
              markNoDriver |-> "no_driver"]

Statement == {"write", "lock", "event", "outbox", "commit"}

\* next is the statement to run; row, events and entries what was written.
Tx == [job : Job, next : Statement, row : Row \cup {NoRow},
       events : Seq(Event), entries : Seq(OutboxEntry)]

\* The connection is in the pool.
NoTx == [job |-> Nil, next |-> "idle", row |-> NoRow,
         events |-> <<>>, entries |-> <<>>]

StoreTypeOK ==
    /\ LedgerTypeOK
    /\ tx \in [Connection -> Tx \cup {NoTx}]
    /\ resolved \subseteq Job

StoreInit ==
    /\ LedgerInit
    /\ tx = [k \in Connection |-> NoTx]
    /\ resolved = {}
-----------------------------------------------------------------------------
\* A row another transaction has updated stays locked until that one ends.
Locked(k) ==
    \E j \in Connection \ {k} :
        tx[j].row # NoRow /\ tx[j].job.ride = tx[k].job.ride

\* randomUUID returns an id nobody uses or is about to use.
Fresh(r) ==
    /\ rides[r] = NoRow
    /\ \A k \in Connection : tx[k] # NoTx =>
          ~(tx[k].job.op = "requestRide" /\ tx[k].job.ride = r)

\* BEGIN, set_config('app.tenant_id', ...).
Begin(k, job) ==
    /\ tx[k] = NoTx
    /\ job.op = "requestRide" => Fresh(job.ride)
    /\ tx' = [tx EXCEPT ![k] = [NoTx EXCEPT !.job = job, !.next = "write"]]
    /\ UNCHANGED <<ledgerVars, resolved>>

\* INSERT INTO rides.
InsertRide(k) ==
    /\ tx[k].next = "write" /\ tx[k].job.op = "requestRide"
    /\ tx' = [tx EXCEPT
           ![k].row = [tenant |-> tx[k].job.tenant, passenger |-> tx[k].job.who,
                       driver |-> Nil, state |-> "REQUESTED"],
           ![k].next = "event"]
    /\ UNCHANGED <<ledgerVars, resolved>>

\* The UPDATE looks for its row in what had committed when it started.
FindRide(k) ==
    /\ tx[k].next = "write" /\ tx[k].job.op # "requestRide"
    /\ tx' = [tx EXCEPT ![k].next =
           IF Updatable(tx[k].job.tenant, tx[k].job.ride) THEN "lock" ELSE "commit"]
    /\ UNCHANGED <<ledgerVars, resolved>>

\* SET state = ... , driver_id = ... of the job.
Updated(job) ==
    IF job.op = "acceptRide"
    THEN [rides[job.ride] EXCEPT !.state = "MATCHED", !.driver = job.who]
    ELSE [rides[job.ride] EXCEPT !.state = "NO_DRIVER"]

\* Mutant: the row found is updated without looking at it again, as after a
\* SELECT that does not lock.
UpdateRide_NotRechecked(k) ==
    /\ tx[k].next = "lock" /\ ~Locked(k)
    /\ tx' = [tx EXCEPT ![k].row = Updated(tx[k].job), ![k].next = "event"]
    /\ UNCHANGED <<ledgerVars, resolved>>

\* It waits for the row's lock, and then the WHERE clause is evaluated again on
\* the row as it has become; rowCount # 1 ends the transaction with false.
UpdateRide(k) ==
    /\ tx[k].next = "lock" /\ ~Locked(k)
    /\ IF Updatable(tx[k].job.tenant, tx[k].job.ride)
       THEN tx' = [tx EXCEPT ![k].row = Updated(tx[k].job), ![k].next = "event"]
       ELSE tx' = [tx EXCEPT ![k].next = "commit"]
    /\ UNCHANGED <<ledgerVars, resolved>>

\* Mutant: the event is inserted over the pool, outside the transaction.
InsertEvent_OverPool(k) ==
    /\ tx[k].next = "event"
    /\ appendEvent(tx[k].job.ride, eventType[tx[k].job.op], tx[k].job.who)
    /\ tx' = [tx EXCEPT ![k].next =
           IF tx[k].job.op = "acceptRide" THEN "outbox" ELSE "commit"]
    /\ UNCHANGED <<rides, outbox, resolved>>

InsertEvent(k) ==
    /\ tx[k].next = "event"
    /\ tx' = [tx EXCEPT
           ![k].events = Append(@, [type  |-> eventType[tx[k].job.op],
                                    actor |-> tx[k].job.who]),
           ![k].next = IF tx[k].job.op = "acceptRide" THEN "outbox" ELSE "commit"]
    /\ UNCHANGED <<ledgerVars, resolved>>

\* Mutant: the payload names the driver as the ride.
InsertOutbox_SwappedIds(k) ==
    /\ tx[k].next = "outbox"
    /\ tx' = [tx EXCEPT
           ![k].entries = Append(@, [tenant |-> tx[k].job.tenant,
                                     ride   |-> tx[k].job.who,
                                     driver |-> tx[k].job.ride]),
           ![k].next = "commit"]
    /\ UNCHANGED <<ledgerVars, resolved>>

InsertOutbox(k) ==
    /\ tx[k].next = "outbox"
    /\ tx' = [tx EXCEPT
           ![k].entries = Append(@, [tenant |-> tx[k].job.tenant,
                                     ride   |-> tx[k].job.ride,
                                     driver |-> tx[k].job.who]),
           ![k].next = "commit"]
    /\ UNCHANGED <<ledgerVars, resolved>>

\* What COMMIT makes visible.
Apply(k) ==
    /\ rides' = IF tx[k].row = NoRow THEN rides
                ELSE [rides EXCEPT ![tx[k].job.ride] = tx[k].row]
    /\ rideEvents' = IF tx[k].row = NoRow THEN rideEvents
                     ELSE [rideEvents EXCEPT ![tx[k].job.ride] = @ \o tx[k].events]
    /\ outbox' = outbox \o tx[k].entries

\* The connection goes back to the pool.
Release(k) == tx' = [tx EXCEPT ![k] = NoTx]

\* Mutant: the statements commit one by one, the row last.
Commit_Autocommitted(k) ==
    /\ tx[k].next = "commit"
    /\ IF tx[k].entries # <<>>
       THEN /\ outbox' = outbox \o tx[k].entries
            /\ tx' = [tx EXCEPT ![k].entries = <<>>]
            /\ UNCHANGED <<rides, rideEvents, resolved>>
       ELSE /\ Apply(k) /\ Release(k)
            /\ UNCHANGED resolved

Commit(k) ==
    /\ tx[k].next = "commit"
    /\ Apply(k) /\ Release(k)
    /\ resolved' = IF tx[k].row = NoRow THEN resolved
                   ELSE resolved \cup {tx[k].job}

\* COMMIT takes effect, but its answer is lost: the promise rejects.  If the
\* process ends with the connection (TenantScope), the tables are the same.
CommitUnanswered(k) ==
    /\ "commit" \in Faults
    /\ tx[k].next = "commit"
    /\ Apply(k) /\ Release(k)
    /\ UNCHANGED resolved

\* Mutant: the error is not thrown on.
Rollback_Swallowed(k) ==
    /\ "database" \in Faults
    /\ tx[k] # NoTx
    /\ Release(k)
    /\ resolved' = IF tx[k].row = NoRow THEN resolved
                   ELSE resolved \cup {tx[k].job}
    /\ UNCHANGED ledgerVars

\* Mutant: release is not in a finally block.
Rollback_KeepsClient(k) ==
    /\ "database" \in Faults
    /\ tx[k].next \in Statement
    /\ tx' = [tx EXCEPT ![k].next = "leaked", ![k].row = NoRow]
    /\ UNCHANGED <<ledgerVars, resolved>>

\* A statement, or the COMMIT itself, fails: ROLLBACK, and the promise rejects.
Rollback(k) ==
    /\ "database" \in Faults
    /\ tx[k] # NoTx
    /\ Release(k)
    /\ UNCHANGED <<ledgerVars, resolved>>

\* A statement succeeds, and is answered.
Answered(k) ==
    \/ InsertRide(k) \/ FindRide(k) \/ UpdateRide(k) \/ InsertEvent(k)
    \/ InsertOutbox(k) \/ Commit(k)

Step(k) == Answered(k) \/ CommitUnanswered(k) \/ Rollback(k)

StoreNext ==
    \E k \in Connection : Step(k) \/ \E job \in Job : Begin(k, job)

StoreSpec == StoreInit /\ [][StoreNext]_storeVars

\* Statements are answered, and PostgreSQL grants a row's lock in the order in
\* which it was asked for; nobody is obliged to call the service, and no
\* failure to come and end a wait.
StoreFairSpec == StoreSpec /\ \A k \in Connection : SF_storeVars(Answered(k))
-----------------------------------------------------------------------------
\* What a caller was told holds for good: a call that resolved to true is the
\* one that settled (or created) the ride, and no later call undoes it.
ToldIsCommitted ==
    \A job \in resolved :
        LET row == rides[job.ride]
        IN /\ row.tenant = job.tenant
           /\ job.op = "requestRide" => row.passenger = job.who
           /\ job.op = "acceptRide" => row.state = "MATCHED" /\ row.driver = job.who
           /\ job.op = "markNoDriver" => row.state = "NO_DRIVER"

\* Every transaction ends and gives its connection back, whatever it waits for.
ConnectionsReturn ==
    \A k \in Connection : tx[k] # NoTx ~> tx[k] = NoTx
=============================================================================
