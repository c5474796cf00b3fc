----------------------------- MODULE TenantScope -----------------------------
(***************************************************************************)
(* withTransaction and withTenant over the connections of the pg Pool.     *)
(* Row-level security compares tenant_id with a setting of the connection  *)
(* (db/migrate.ts), and connections go from one tenant's call to another's *)
(* and to the relay's, which sets no tenant.  Statements fail, there are   *)
(* fewer connections than calls, and a connection that is lost takes the   *)
(* process with it: pg emits 'error' on the client or the Pool, and nobody *)
(* listens for it (app.module.ts:29, db/tx.ts:5).                          *)
(***************************************************************************)
EXTENDS Naturals, Sequences

CONSTANTS
    Tenant,
    Connection,     \* the clients of the Pool, at most max
    Caller,         \* calls of withTransaction that may run at a time
    MaxStatements,  \* fn runs at most so many statements (a bound of ours)
    Nil

ASSUME NilIsNone == Nil \notin Tenant \cup Caller
ASSUME StatementsPositive == MaxStatements \in Nat \ {0}

VARIABLES
    conn,           \* conn[k]: connection k, and the call that has it
    call,           \* call[c]: what call c awaits
    waiting         \* the calls that wait for a connection, first come first

scopeVars == <<conn, call, waiting>>

Step == {"idle", "connect", "BEGIN", "set_config", "query", "COMMIT",
         "ROLLBACK", "release"}

\* seen: the tenants whose rows the last statement could read.
ScopeTypeOK ==
    /\ conn \in [Connection ->
           [holder : Caller \cup {Nil}, tx : {"none", "open", "aborted"},
            local : Tenant \cup {Nil}, session : Tenant \cup {Nil}]]
    /\ call \in [Caller ->
           [step : Step, tenant : Tenant \cup {Nil}, left : 0..MaxStatements,
            seen : {Nil} \cup SUBSET Tenant]]
    /\ waiting \in Seq(Caller)

\* A new session: app.tenant_id is not set.
Fresh == [holder |-> Nil, tx |-> "none", local |-> Nil, session |-> Nil]

NoCall == [step |-> "idle", tenant |-> Nil, left |-> 0, seen |-> Nil]

Init ==
    /\ conn = [k \in Connection |-> Fresh]
    /\ call = [c \in Caller |-> NoCall]
    /\ waiting = <<>>
-----------------------------------------------------------------------------
\* current_setting('app.tenant_id', true)
current_setting(k) == IF conn[k].local # Nil THEN conn[k].local ELSE conn[k].session

\* The policy tenant_isolation: no setting equals no tenant_id.
visible(k) == {t \in Tenant : t = current_setting(k)}

\* The statement c awaits on k is answered; in an aborted transaction only
\* ROLLBACK succeeds.
Answers(c, k, step) ==
    /\ call[c].step = step /\ conn[k].holder = c
    /\ conn[k].tx # "aborted"
    /\ UNCHANGED waiting

\* withTenant by a service for t, or withTransaction by the relay: pool.connect.
Connect(c, t, n) ==
    /\ call[c].step = "idle"
    /\ call' = [call EXCEPT ![c] = [step |-> "connect", tenant |-> t,
                                    left |-> n, seen |-> Nil]]
    /\ waiting' = Append(waiting, c)
    /\ UNCHANGED conn

\* The pool gives an idle client to the call that has waited longest.
Checkout(k) ==
    /\ waiting # <<>> /\ conn[k].holder = Nil
    /\ conn' = [conn EXCEPT ![k].holder = Head(waiting)]
    /\ call' = [call EXCEPT ![Head(waiting)].step = "BEGIN"]
    /\ waiting' = Tail(waiting)

\* No connection can be made: nothing was begun, and nothing is released.
ConnectFails ==
    /\ waiting # <<>>
    /\ call' = [call EXCEPT ![Head(waiting)] = NoCall]
    /\ waiting' = Tail(waiting)
    /\ UNCHANGED conn

Begin(c, k) ==
    /\ Answers(c, k, "BEGIN")
    /\ conn' = [conn EXCEPT ![k].tx = "open"]
    /\ call' = [call EXCEPT ![c].step = IF call[c].tenant = Nil THEN "query"
                                        ELSE "set_config"]

\* Mutant: is_local is false, and the setting outlives the transaction.
SetConfig_Session(c, k) ==
    /\ Answers(c, k, "set_config")
    /\ conn' = [conn EXCEPT ![k].session = call[c].tenant]
    /\ call' = [call EXCEPT ![c].step = "query"]

\* set_config('app.tenant_id', t, is_local = true)
SetConfig(c, k) ==
    /\ Answers(c, k, "set_config")
    /\ conn' = [conn EXCEPT ![k].local = call[c].tenant]
    /\ call' = [call EXCEPT ![c].step = "query"]

\* One statement of fn.
Query(c, k) ==
    /\ Answers(c, k, "query")
    /\ call' = [call EXCEPT ![c].seen = visible(k), ![c].left = @ - 1,
                    ![c].step = IF call[c].left = 1 THEN "COMMIT" ELSE "query"]
    /\ UNCHANGED conn

\* The end of a transaction undoes what was set in it.
EndTx(k) == conn' = [conn EXCEPT ![k].tx = "none", ![k].local = Nil]

Commit(c, k) ==
    /\ Answers(c, k, "COMMIT")
    /\ EndTx(k)
    /\ call' = [call EXCEPT ![c].step = "release"]

\* A statement fails; what fn throws is caught.
Fails(c, k) ==
    /\ conn[k].holder = c
    /\ call[c].step \in {"BEGIN", "set_config", "query", "COMMIT"}
    /\ conn' = [conn EXCEPT ![k].tx = IF @ = "open" THEN "aborted" ELSE @]
    /\ call' = [call EXCEPT ![c].step = "ROLLBACK"]
    /\ UNCHANGED waiting

\* Mutant: release is not in a finally block, and the error skips it.
Rollback_NotFinally(c, k) ==
    /\ call[c].step = "ROLLBACK" /\ conn[k].holder = c
    /\ EndTx(k)
    /\ call' = [call EXCEPT ![c] = NoCall]
    /\ UNCHANGED waiting

\* The error is thrown again, past the release.
Rollback(c, k) ==
    /\ call[c].step = "ROLLBACK" /\ conn[k].holder = c
    /\ EndTx(k)
    /\ call' = [call EXCEPT ![c].step = "release"]
    /\ UNCHANGED waiting

Release(c, k) ==
    /\ call[c].step = "release" /\ conn[k].holder = c
    /\ conn' = [conn EXCEPT ![k].holder = Nil]
    /\ call' = [call EXCEPT ![c] = NoCall]
    /\ UNCHANGED waiting

\* A connection is lost, at work or idle, or the task dies of something else:
\* its calls are gone, and the next process makes new connections.
ProcessEnds ==
    /\ conn' = [k \in Connection |-> Fresh]
    /\ call' = [c \in Caller |-> NoCall]
    /\ waiting' = <<>>

Proceeds(c, k) ==
    \/ Begin(c, k) \/ SetConfig(c, k) \/ Query(c, k) \/ Commit(c, k)
    \/ Fails(c, k) \/ Rollback(c, k) \/ Release(c, k)

Next ==
    \/ \E c \in Caller : \/ \E t \in Tenant \cup {Nil}, n \in 1..MaxStatements :
                               Connect(c, t, n)
                         \/ \E k \in Connection : Proceeds(c, k)
    \/ \E k \in Connection : Checkout(k)
    \/ ConnectFails \/ ProcessEnds

Spec == Init /\ [][Next]_scopeVars

\* Statements are answered or fail, the pool serves its queue; nobody need call.
FairSpec ==
    /\ Spec
    /\ \A k \in Connection : WF_scopeVars(Checkout(k))
    /\ \A c \in Caller, k \in Connection : WF_scopeVars(Proceeds(c, k))
-----------------------------------------------------------------------------
\* db/tx.ts:19-27, "a query without it returns no rows instead of every row":
\* every statement of a tenant's call reads that tenant's rows and no others,
\* and one of the relay's transactions none, whoever had the connection before
\* and however that call ended.
SeesOwnRows ==
    \A c \in Caller : call[c].seen # Nil =>
        call[c].seen = {t \in Tenant : t = call[c].tenant}

\* db/tx.ts:11-16: a connection in the pool carries nothing of its last call:
\* no tenant, no open transaction and no aborted one.
IdleIsClean == \A k \in Connection : conn[k].holder = Nil => conn[k] = Fresh

\* db/tx.ts:5, 14-16: a call that waits for a connection gets one and ends,
\* with the process if not before, although there are more calls than
\* connections and any of them may fail.
EveryCallEnds == \A c \in Caller : call[c].step = "connect" ~> call[c].step = "idle"
=============================================================================
