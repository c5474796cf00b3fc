-------------------------- MODULE TenantScopeProofs --------------------------
(***************************************************************************)
(* Tenants do not see each other's rows through a reused connection, for   *)
(* any number of tenants, connections, calls and statements.               *)
(***************************************************************************)
EXTENDS TenantScope, SequenceTheorems, TLAPS

USE NilIsNone, StatementsPositive
-----------------------------------------------------------------------------
Holding == {"BEGIN", "set_config", "query", "COMMIT", "ROLLBACK", "release"}

Conn == [holder : Caller \cup {Nil}, tx : {"none", "open", "aborted"},
         local : Tenant \cup {Nil}, session : Tenant \cup {Nil}]

CallState == [step : Step, tenant : Tenant \cup {Nil}, left : 0..MaxStatements,
              seen : {Nil} \cup SUBSET Tenant]

\* A connection is with one call, which is past pool.connect, and a call has
\* at most one.
Holders ==
    /\ \A k \in Connection : \A c \in Caller :
          conn[k].holder = c => call[c].step \in Holding
    /\ \A k, l \in Connection :
          conn[k].holder = conn[l].holder /\ conn[k].holder # Nil => k = l

\* Who waits, waits once and has nothing yet.
Queue ==
    /\ \A i \in 1 .. Len(waiting) : call[waiting[i]].step = "connect"
    /\ \A i, j \in 1 .. Len(waiting) : waiting[i] = waiting[j] => i = j

\* A call that may still run a statement has one left to run.
Remaining ==
    \A c \in Caller :
        call[c].step \in {"connect", "BEGIN", "set_config", "query"}
            => call[c].left \in 1 .. MaxStatements

\* What each step of a call finds set on its connection: the tenant between
\* set_config and the end of the transaction, and nothing outside.
Setting ==
    \A k \in Connection :
        /\ conn[k].session = Nil
        /\ conn[k].holder = Nil => conn[k] = Fresh
        /\ \A c \in Caller : conn[k].holder = c =>
              /\ call[c].step \in {"BEGIN", "release"} =>
                    conn[k].tx = "none" /\ conn[k].local = Nil
              /\ call[c].step = "set_config" => conn[k].local = Nil
              /\ call[c].step = "query" => conn[k].local = call[c].tenant

\* The tenants whose rows a call for t may see.
Own(t) == {u \in Tenant : u = t}

LEMMA SeesOwn ==
    SeesOwnRows <=> \A c \in Caller : call[c].seen # Nil =>
                        call[c].seen = Own(call[c].tenant)
BY DEF SeesOwnRows, Own

ScopeIInv ==
    ScopeTypeOK /\ Holders /\ Queue /\ Remaining /\ Setting /\ SeesOwnRows

LEMMA ScopeInit == Init => ScopeIInv
<1>. SUFFICES ASSUME Init PROVE ScopeIInv
  OBVIOUS
<1>1. ScopeTypeOK
  BY DEF Init, ScopeTypeOK, Fresh, NoCall, Step
<1>2. Queue
  BY DEF Init, Queue
<1>. QED
  BY <1>1, <1>2 DEF Init, ScopeIInv, Holders, Remaining, Setting, SeesOwnRows,
                    Fresh, NoCall

LEMMA ScopeTypes ==
    ScopeTypeOK <=> /\ conn \in [Connection -> Conn]
                    /\ call \in [Caller -> CallState]
                    /\ waiting \in Seq(Caller)
BY DEF ScopeTypeOK, Conn, CallState
-----------------------------------------------------------------------------
(* Steps of the pool's queue *)

LEMMA ConnectStep ==
    ASSUME ScopeIInv, NEW c \in Caller, NEW t \in Tenant \cup {Nil},
           NEW n \in 1..MaxStatements, Connect(c, t, n)
    PROVE  ScopeIInv'
<1>. DEFINE new == [step |-> "connect", tenant |-> t, left |-> n, seen |-> Nil]
<1>1. /\ conn \in [Connection -> Conn] /\ call \in [Caller -> CallState]
      /\ waiting \in Seq(Caller)
  BY ScopeTypes DEF ScopeIInv
<1>2. /\ call[c].step = "idle" /\ call' = [call EXCEPT ![c] = new]
      /\ waiting' = Append(waiting, c) /\ conn' = conn
  BY DEF Connect
<1>3. new \in CallState
  BY DEF CallState, Step
<1>4. ScopeTypeOK'
  <2>1. waiting' \in Seq(Caller)
    BY <1>1, <1>2, AppendProperties
  <2>. QED
    BY <1>1, <1>2, <1>3, <2>1 DEF ScopeTypeOK, Conn, CallState
<1>5. /\ call'[c] = new
      /\ \A d \in Caller \ {c} : call'[d] = call[d]
  BY <1>1, <1>2
<1>6. \A k \in Connection : conn[k].holder # c
  BY <1>2 DEF ScopeIInv, Holders, Holding
<1>7. Queue'
  <2>1. /\ Len(waiting) \in Nat /\ Len(waiting') = Len(waiting) + 1
        /\ waiting'[Len(waiting) + 1] = c
        /\ \A i \in 1 .. Len(waiting) : waiting'[i] = waiting[i] /\ waiting[i] \in Caller
    BY <1>1, <1>2, AppendProperties, LenProperties, ElementOfSeq
  <2>2. \A i \in 1 .. Len(waiting) : waiting[i] # c
    BY <1>2 DEF ScopeIInv, Queue
  <2>3. \A i \in 1 .. Len(waiting) + 1 : i \in 1 .. Len(waiting) \/ i = Len(waiting) + 1
    BY <2>1
  <2>. QED
    BY <1>5, <2>1, <2>2, <2>3 DEF ScopeIInv, Queue
<1>8. Holders' /\ Remaining' /\ Setting' /\ SeesOwnRows'
  BY <1>2, <1>5, <1>6
     DEF ScopeIInv, Holders, Remaining, Setting, SeesOwnRows, visible
<1>. QED
  BY <1>4, <1>7, <1>8 DEF ScopeIInv

\* The head leaves the queue, and holds nothing.
LEMMA LeavesQueue ==
    ASSUME ScopeIInv, waiting # <<>>, waiting' = Tail(waiting),
           NEW c \in Caller, c = Head(waiting),
           \A d \in Caller \ {c} : call'[d] = call[d]
    PROVE  /\ Queue' /\ waiting' \in Seq(Caller)
           /\ call[c].step = "connect"
           /\ \A k \in Connection : conn[k].holder # c
<1>1. waiting \in Seq(Caller)
  BY DEF ScopeIInv, ScopeTypeOK
<1>2. /\ Len(waiting) \in Nat \ {0} /\ waiting' \in Seq(Caller)
      /\ Len(waiting') = Len(waiting) - 1
      /\ waiting[1] = c
      /\ \A i \in 1 .. Len(waiting) - 1 : waiting'[i] = waiting[i + 1]
      /\ \A i \in 1 .. Len(waiting) : waiting[i] \in Caller
  BY <1>1, HeadTailProperties, LenProperties, ElementOfSeq, EmptySeq
<1>3. call[c].step = "connect"
  BY <1>2 DEF ScopeIInv, Queue
<1>4. \A i \in 1 .. Len(waiting) - 1 :
        /\ i + 1 \in 1 .. Len(waiting) /\ 1 \in 1 .. Len(waiting)
        /\ waiting[i + 1] # c /\ waiting[i + 1] \in Caller
  BY <1>2 DEF ScopeIInv, Queue
<1>5. Queue'
  BY <1>2, <1>4 DEF ScopeIInv, Queue
<1>. QED
  BY <1>2, <1>3, <1>5 DEF ScopeIInv, Holders, Holding

LEMMA HeadIsCaller ==
    ASSUME ScopeIInv, waiting # <<>> PROVE Head(waiting) \in Caller
BY HeadTailProperties DEF ScopeIInv, ScopeTypeOK

LEMMA CheckoutStep ==
    ASSUME ScopeIInv, NEW k \in Connection, Checkout(k) PROVE ScopeIInv'
<1>a. PICK c \in Caller : c = Head(waiting)
  BY HeadIsCaller DEF Checkout
<1>0. waiting # <<>> /\ c = Head(waiting) /\ waiting' = Tail(waiting)
  BY <1>a DEF Checkout
<1>1. /\ conn \in [Connection -> Conn] /\ call \in [Caller -> CallState]
  BY ScopeTypes DEF ScopeIInv
<1>2. /\ conn[k].holder = Nil
      /\ conn' = [conn EXCEPT ![k] = [conn[k] EXCEPT !.holder = c]]
      /\ call' = [call EXCEPT ![c] = [call[c] EXCEPT !.step = "BEGIN"]]
  BY <1>0, <1>1 DEF Checkout
<1>3. /\ call'[c] = [call[c] EXCEPT !.step = "BEGIN"]
      /\ \A d \in Caller \ {c} : call'[d] = call[d]
      /\ conn'[k] = [conn[k] EXCEPT !.holder = c]
      /\ \A l \in Connection \ {k} : conn'[l] = conn[l]
  BY <1>0, <1>1, <1>2
<1>4. /\ Queue' /\ waiting' \in Seq(Caller) /\ call[c].step = "connect"
      /\ \A l \in Connection : conn[l].holder # c
  BY <1>0, <1>3, LeavesQueue
<1>b. conn[k] \in Conn /\ call[c] \in CallState
  BY <1>1
<1>5. /\ [conn[k] EXCEPT !.holder = c] \in Conn
      /\ [call[c] EXCEPT !.step = "BEGIN"] \in CallState
  BY <1>b DEF Conn, CallState, Step
<1>6. ScopeTypeOK'
  BY <1>1, <1>2, <1>4, <1>5 DEF ScopeTypeOK, Conn, CallState
<1>7. /\ call'[c].step = "BEGIN" /\ call'[c].tenant = call[c].tenant
      /\ call'[c].left = call[c].left /\ call'[c].seen = call[c].seen
      /\ conn'[k].holder = c /\ conn'[k].tx = conn[k].tx
      /\ conn'[k].local = conn[k].local /\ conn'[k].session = conn[k].session
  BY <1>b, <1>3 DEF Conn, CallState
<1>c. /\ \A d \in Caller \ {c} : call'[d] = call[d]
      /\ \A l \in Connection \ {k} : conn'[l] = conn[l]
      /\ \A l \in Connection : conn[l].holder # c
      /\ call[c].step = "connect" /\ c # Nil
  BY <1>3, <1>4
<1>8. Holders'
  <2>1. \A l \in Connection : \A d \in Caller :
           conn'[l].holder = d => call'[d].step \in Holding
    BY <1>7, <1>c DEF ScopeIInv, Holders, Holding
  <2>2. \A l, m \in Connection :
           conn'[l].holder = conn'[m].holder /\ conn'[l].holder # Nil => l = m
    BY <1>7, <1>c DEF ScopeIInv, Holders
  <2>. QED
    BY <2>1, <2>2 DEF Holders
<1>9. Remaining'
  BY <1>7, <1>c DEF ScopeIInv, Remaining
<1>10. SeesOwnRows'
  BY <1>7, <1>c DEF ScopeIInv, SeesOwnRows
<1>11. Setting'
  <2>1. conn[k].tx = "none" /\ conn[k].local = Nil
    BY <1>2 DEF ScopeIInv, Setting, Fresh
  <2>. SUFFICES ASSUME NEW l \in Connection, NEW d \in Caller
       PROVE  /\ conn'[l].session = Nil
              /\ conn'[l].holder = Nil => conn'[l] = Fresh
              /\ conn'[l].holder = d =>
                    /\ call'[d].step \in {"BEGIN", "release"} =>
                          conn'[l].tx = "none" /\ conn'[l].local = Nil
                    /\ call'[d].step = "set_config" => conn'[l].local = Nil
                    /\ call'[d].step = "query" => conn'[l].local = call'[d].tenant
    BY DEF Setting
  <2>2. CASE l = k
    BY <1>7, <1>c, <2>1, <2>2 DEF ScopeIInv, Setting
  <2>3. CASE l # k
    BY <1>7, <1>c, <2>3 DEF ScopeIInv, Setting
  <2>. QED
    BY <2>2, <2>3
<1>. QED
  BY <1>4, <1>6, <1>8, <1>9, <1>10, <1>11 DEF ScopeIInv

LEMMA ConnectFailsStep == ASSUME ScopeIInv, ConnectFails PROVE ScopeIInv'
<1>a. PICK c \in Caller : c = Head(waiting)
  BY HeadIsCaller DEF ConnectFails
<1>0. waiting # <<>> /\ c = Head(waiting) /\ waiting' = Tail(waiting)
  BY <1>a DEF ConnectFails
<1>1. /\ conn \in [Connection -> Conn] /\ call \in [Caller -> CallState]
      /\ conn' = conn /\ call' = [call EXCEPT ![c] = NoCall]
  BY <1>0, ScopeTypes DEF ScopeIInv, ConnectFails
<1>2. call'[c] = NoCall /\ \A d \in Caller \ {c} : call'[d] = call[d]
  BY <1>0, <1>1
<1>3. /\ Queue' /\ waiting' \in Seq(Caller)
      /\ \A l \in Connection : conn[l].holder # c
  BY <1>0, <1>2, LeavesQueue
<1>4. ScopeTypeOK'
  <2>1. NoCall \in CallState
    BY DEF NoCall, CallState, Step
  <2>. QED
    BY <1>1, <1>3, <2>1 DEF ScopeTypeOK, Conn, CallState
<1>5. Holders' /\ Remaining' /\ Setting' /\ SeesOwnRows'
  BY <1>1, <1>2, <1>3
     DEF ScopeIInv, Holders, Remaining, Setting, SeesOwnRows, NoCall
<1>. QED
  BY <1>3, <1>4, <1>5 DEF ScopeIInv
-----------------------------------------------------------------------------
(* Steps of the call that holds a connection *)

\* A call moves on to state, and with it the connection it holds, to link:
\* what must be shown of the two, so that the rest is untouched.
MovesOn(c, k, state, link) ==
    /\ conn[k].holder = c /\ waiting' = waiting
    /\ call' = [call EXCEPT ![c] = state]
    /\ conn' = [conn EXCEPT ![k] = link]
    /\ link.session = Nil
    /\ \/ /\ link.holder = c /\ state.step \in Holding
          /\ state.step = "release" => link.tx = "none" /\ link.local = Nil
          /\ state.step # "BEGIN"
          /\ state.step = "set_config" => link.local = Nil
          /\ state.step = "query" => link.local = state.tenant
       \/ link = Fresh /\ state = NoCall
    /\ state.step \in {"set_config", "query"} => state.left \in 1 .. MaxStatements
    /\ state.seen # Nil => state.seen = Own(state.tenant)

LEMMA HolderStep ==
    ASSUME ScopeIInv, NEW c \in Caller, NEW k \in Connection,
           NEW state \in CallState, NEW link \in Conn, MovesOn(c, k, state, link)
    PROVE  ScopeIInv'
<1>0. /\ conn[k].holder = c /\ waiting' = waiting
      /\ call' = [call EXCEPT ![c] = state]
      /\ conn' = [conn EXCEPT ![k] = link]
  BY DEF MovesOn
<1>1. /\ conn \in [Connection -> Conn] /\ call \in [Caller -> CallState]
  BY ScopeTypes DEF ScopeIInv
<1>2. /\ call'[c] = state
      /\ \A d \in Caller \ {c} : call'[d] = call[d]
      /\ conn'[k] = link
      /\ \A l \in Connection \ {k} : conn'[l] = conn[l] /\ conn[l].holder # c
  BY <1>0, <1>1 DEF ScopeIInv, Holders
<1>3. ScopeTypeOK'
  BY <1>0, <1>1 DEF ScopeIInv, ScopeTypeOK, Conn, CallState
<1>4. call[c].step \in Holding
  BY <1>0 DEF ScopeIInv, Holders
<1>5. Queue'
  <2>1. \A i \in 1 .. Len(waiting) : waiting[i] \in Caller
    BY ElementOfSeq DEF ScopeIInv, ScopeTypeOK
  <2>. QED
    BY <1>0, <1>2, <1>4, <2>1 DEF ScopeIInv, Queue, Holding
<1>6. Holders'
  BY <1>0, <1>2 DEF ScopeIInv, Holders, Fresh, MovesOn
<1>7. Remaining'
  BY <1>2 DEF ScopeIInv, Remaining, Holding, NoCall, MovesOn
<1>8. SeesOwnRows'
  BY <1>2 DEF ScopeIInv, SeesOwnRows, Own, NoCall, MovesOn
<1>9. Setting'
  <2>. SUFFICES ASSUME NEW l \in Connection, NEW d \in Caller
       PROVE  /\ conn'[l].session = Nil
              /\ conn'[l].holder = Nil => conn'[l] = Fresh
              /\ conn'[l].holder = d =>
                    /\ call'[d].step \in {"BEGIN", "release"} =>
                          conn'[l].tx = "none" /\ conn'[l].local = Nil
                    /\ call'[d].step = "set_config" => conn'[l].local = Nil
                    /\ call'[d].step = "query" => conn'[l].local = call'[d].tenant
    BY DEF Setting
  <2>1. CASE l = k /\ link = Fresh
    BY <1>2, <2>1 DEF Fresh, MovesOn
  <2>2. CASE l = k /\ link # Fresh
    BY <1>2, <2>2 DEF MovesOn
  <2>3. CASE l # k
    BY <1>2, <2>3 DEF ScopeIInv, Setting
  <2>. QED
    BY <2>1, <2>2, <2>3
<1>. QED
  BY <1>3, <1>5, <1>6, <1>7, <1>8, <1>9 DEF ScopeIInv

LEMMA ProceedsStep ==
    ASSUME ScopeIInv, NEW c \in Caller, NEW k \in Connection, Proceeds(c, k)
    PROVE  ScopeIInv'
<1>1. /\ conn \in [Connection -> Conn] /\ call \in [Caller -> CallState]
      /\ conn[k] \in Conn /\ call[c] \in CallState
      /\ conn[k].session = Nil
      /\ call[c].seen # Nil => call[c].seen = Own(call[c].tenant)
  BY ScopeTypes, SeesOwn DEF ScopeIInv, Setting
<1>2. CASE Begin(c, k)
  <2>. DEFINE step == IF call[c].tenant = Nil THEN "query" ELSE "set_config"
              state == [call[c] EXCEPT !.step = step]
              link == [conn[k] EXCEPT !.tx = "open"]
  <2>1. /\ conn[k].holder = c /\ call[c].step = "BEGIN" /\ waiting' = waiting
        /\ call' = [call EXCEPT ![c] = state] /\ conn' = [conn EXCEPT ![k] = link]
    BY <1>1, <1>2 DEF Begin, Answers
  <2>2. conn[k].local = Nil /\ call[c].left \in 1 .. MaxStatements
    BY <2>1 DEF ScopeIInv, Setting, Remaining
  <2>3. /\ state \in CallState /\ state.step = step /\ state.left = call[c].left
        /\ state.tenant = call[c].tenant /\ state.seen = call[c].seen
    BY <1>1 DEF CallState, Step
  <2>4. /\ link \in Conn /\ link.holder = c /\ link.session = Nil
        /\ link.local = Nil
    BY <1>1, <2>1, <2>2 DEF Conn
  <2>. HIDE DEF state, link
  <2>9. MovesOn(c, k, state, link)
    BY <1>1, <2>1, <2>2, <2>3, <2>4 DEF MovesOn, Holding
  <2>. QED
    BY <2>9, <2>3, <2>4, HolderStep
<1>3. CASE SetConfig(c, k)
  <2>. DEFINE state == [call[c] EXCEPT !.step = "query"]
              link == [conn[k] EXCEPT !.local = call[c].tenant]
  <2>1. /\ conn[k].holder = c /\ call[c].step = "set_config" /\ waiting' = waiting
        /\ call' = [call EXCEPT ![c] = state] /\ conn' = [conn EXCEPT ![k] = link]
    BY <1>1, <1>3 DEF SetConfig, Answers
  <2>2. call[c].left \in 1 .. MaxStatements
    BY <2>1 DEF ScopeIInv, Remaining
  <2>3. /\ state \in CallState /\ state.step = "query" /\ state.left = call[c].left
        /\ state.tenant = call[c].tenant /\ state.seen = call[c].seen
    BY <1>1 DEF CallState, Step
  <2>4. /\ link \in Conn /\ link.holder = c /\ link.session = Nil
        /\ link.local = call[c].tenant
    BY <1>1, <2>1 DEF Conn, CallState
  <2>. HIDE DEF state, link
  <2>9. MovesOn(c, k, state, link)
    BY <1>1, <2>1, <2>2, <2>3, <2>4 DEF MovesOn, Holding
  <2>. QED
    BY <2>9, <2>3, <2>4, HolderStep
<1>4. CASE Query(c, k)
  <2>. DEFINE step == IF call[c].left = 1 THEN "COMMIT" ELSE "query"
              state == [call[c] EXCEPT !.seen = visible(k), !.left = @ - 1,
                                       !.step = step]
  <2>1. /\ conn[k].holder = c /\ call[c].step = "query" /\ waiting' = waiting
        /\ call' = [call EXCEPT ![c] = state] /\ conn' = conn
    BY <1>1, <1>4 DEF Query, Answers
  <2>2. conn[k].local = call[c].tenant /\ call[c].left \in 1 .. MaxStatements
    BY <2>1 DEF ScopeIInv, Setting, Remaining
  <2>3. visible(k) = Own(call[c].tenant) /\ visible(k) \in SUBSET Tenant
    BY <1>1, <2>2 DEF visible, current_setting, Own
  <2>4. call[c].left - 1 \in 0 .. MaxStatements
        /\ (call[c].left # 1 => call[c].left - 1 \in 1 .. MaxStatements)
    BY <2>2
  <2>5. /\ state \in CallState /\ state.step = step
        /\ state.left = call[c].left - 1
        /\ state.tenant = call[c].tenant
        /\ state.seen = Own(call[c].tenant)
    BY <1>1, <2>3, <2>4 DEF CallState, Step
  <2>6. conn' = [conn EXCEPT ![k] = conn[k]]
    BY <1>1, <2>1
  <2>. HIDE DEF state
  <2>9. MovesOn(c, k, state, conn[k])
    BY <1>1, <2>1, <2>2, <2>4, <2>5, <2>6 DEF MovesOn, Holding
  <2>. QED
    BY <2>9, <1>1, <2>5, HolderStep
<1>5. CASE Commit(c, k) \/ Rollback(c, k)
  <2>. DEFINE state == [call[c] EXCEPT !.step = "release"]
              link == [conn[k] EXCEPT !.tx = "none", !.local = Nil]
  <2>1. /\ conn[k].holder = c /\ waiting' = waiting
        /\ call' = [call EXCEPT ![c] = state] /\ conn' = [conn EXCEPT ![k] = link]
    BY <1>1, <1>5 DEF Commit, Rollback, Answers, EndTx
  <2>3. /\ state \in CallState /\ state.step = "release" 
        /\ state.tenant = call[c].tenant /\ state.seen = call[c].seen
    BY <1>1 DEF CallState, Step
  <2>4. /\ link \in Conn /\ link.holder = c /\ link.session = Nil
        /\ link.local = Nil /\ link.tx = "none"
    BY <1>1, <2>1 DEF Conn
  <2>. HIDE DEF state, link
  <2>9. MovesOn(c, k, state, link)
    BY <1>1, <2>1, <2>3, <2>4 DEF MovesOn, Holding
  <2>. QED
    BY <2>9, <2>3, <2>4, HolderStep
<1>6. CASE Fails(c, k)
  <2>. DEFINE tx == IF conn[k].tx = "open" THEN "aborted" ELSE conn[k].tx
              state == [call[c] EXCEPT !.step = "ROLLBACK"]
              link == [conn[k] EXCEPT !.tx = tx]
  <2>1. /\ conn[k].holder = c /\ waiting' = waiting
        /\ call' = [call EXCEPT ![c] = state] /\ conn' = [conn EXCEPT ![k] = link]
    BY <1>1, <1>6 DEF Fails
  <2>3. /\ state \in CallState /\ state.step = "ROLLBACK"
        /\ state.tenant = call[c].tenant /\ state.seen = call[c].seen
    BY <1>1 DEF CallState, Step
  <2>4. link \in Conn /\ link.holder = c /\ link.session = Nil
    BY <1>1, <2>1 DEF Conn
  <2>. HIDE DEF state, link
  <2>9. MovesOn(c, k, state, link)
    BY <1>1, <2>1, <2>3, <2>4 DEF MovesOn, Holding
  <2>. QED
    BY <2>9, <2>3, <2>4, HolderStep
<1>7. CASE Release(c, k)
  <2>. DEFINE link == [conn[k] EXCEPT !.holder = Nil]
  <2>1. /\ conn[k].holder = c /\ call[c].step = "release" /\ waiting' = waiting
        /\ call' = [call EXCEPT ![c] = NoCall] /\ conn' = [conn EXCEPT ![k] = link]
    BY <1>1, <1>7 DEF Release
  <2>2. conn[k].tx = "none" /\ conn[k].local = Nil
    BY <2>1 DEF ScopeIInv, Setting
  <2>3. link = Fresh /\ link \in Conn
    BY <1>1, <2>2 DEF Conn, Fresh
  <2>4. /\ NoCall \in CallState /\ NoCall.seen = Nil /\ NoCall.step = "idle"
        /\ Fresh.session = Nil
    BY DEF NoCall, CallState, Step, Fresh
  <2>. HIDE DEF link
  <2>9. MovesOn(c, k, NoCall, link)
    BY <2>1, <2>3, <2>4 DEF MovesOn
  <2>. QED
    BY <2>9, <2>3, <2>4, HolderStep
<1>. QED
  BY <1>2, <1>3, <1>4, <1>5, <1>6, <1>7 DEF Proceeds

\* The next process is as new.
LEMMA ProcessEndsStep == ProcessEnds => ScopeIInv'
<1>. SUFFICES ASSUME ProcessEnds PROVE ScopeIInv'
  OBVIOUS
<1>1. ScopeTypeOK'
  BY DEF ProcessEnds, ScopeTypeOK, Fresh, NoCall, Step
<1>2. Queue'
  BY DEF ProcessEnds, Queue
<1>. QED
  BY <1>1, <1>2 DEF ProcessEnds, ScopeIInv, Holders, Holding, Remaining, Setting,
                    SeesOwnRows, Fresh, NoCall
-----------------------------------------------------------------------------
\* The invariant: who holds and who waits for a connection, and what is set on
\* it, at each step of a transaction and after every way out of it.
THEOREM ScopeInvariant == Spec => []ScopeIInv
<1>1. ScopeIInv /\ [Next]_scopeVars => ScopeIInv'
  <2>. SUFFICES ASSUME ScopeIInv, [Next]_scopeVars PROVE ScopeIInv'
    OBVIOUS
  <2>1. CASE UNCHANGED scopeVars
    <3>1. conn' = conn /\ call' = call /\ waiting' = waiting
      BY <2>1 DEF scopeVars
    <3>2. ScopeTypeOK'
      BY <3>1 DEF ScopeIInv, ScopeTypeOK
    <3>3. Holders' /\ Remaining'
      BY <3>1 DEF ScopeIInv, Holders, Remaining
    <3>4. Queue'
      BY <3>1 DEF ScopeIInv, Queue
    <3>5. Setting' /\ SeesOwnRows'
      BY <3>1 DEF ScopeIInv, Setting, SeesOwnRows
    <3>. QED
      BY <3>2, <3>3, <3>4, <3>5 DEF ScopeIInv
  <2>2. CASE Next
    <3>1. ASSUME NEW c \in Caller, NEW t \in Tenant \cup {Nil},
                 NEW n \in 1 .. MaxStatements, Connect(c, t, n)
          PROVE  ScopeIInv'
      BY <3>1, ConnectStep
    <3>2. ASSUME NEW c \in Caller, NEW k \in Connection, Proceeds(c, k)
          PROVE  ScopeIInv'
      BY <3>2, ProceedsStep
    <3>3. ASSUME NEW k \in Connection, Checkout(k)
          PROVE  ScopeIInv'
      BY <3>3, CheckoutStep
    <3>4. CASE ConnectFails \/ ProcessEnds
      BY <3>4, ConnectFailsStep, ProcessEndsStep
    <3>. QED
      BY <2>2, <3>1, <3>2, <3>3, <3>4 DEF Next
  <2>. QED
    BY <2>1, <2>2
<1>. QED
  BY <1>1, ScopeInit, PTL DEF Spec

\* Connections, calls and the queue keep their types.
THEOREM ScopeTypeCorrect == Spec => []ScopeTypeOK
BY ScopeInvariant, PTL DEF ScopeIInv

\* Every statement reads the rows of its own tenant and no others, and one of
\* the relay's none, whoever had the connection before.
THEOREM OwnRowsOnly == Spec => []SeesOwnRows
BY ScopeInvariant, PTL DEF ScopeIInv

\* A connection in the pool carries nothing of its last call.
THEOREM PoolIsClean == Spec => []IdleIsClean
<1>1. ScopeIInv => IdleIsClean
  BY DEF ScopeIInv, Setting, IdleIsClean
<1>. QED
  BY <1>1, ScopeInvariant, PTL
=============================================================================
