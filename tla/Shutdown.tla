------------------------------ MODULE Shutdown ------------------------------
(***************************************************************************)
(* An API task stops.  Nest calls the onModuleDestroy hooks of matching    *)
(* and the relay, closes the Socket.IO server and disposes the Redis       *)
(* adapter, and then calls onApplicationShutdown, which ends the pool and  *)
(* disconnects Redis.  Meanwhile the event loop turns: requests arrive     *)
(* until the server is closed, and what is awaited is answered.            *)
(* Of matching, only who works on each ride and who waits for it is kept;  *)
(* Matching has the rest.                                                  *)
(***************************************************************************)
EXTENDS FiniteSets

CONSTANT Ride

VARIABLES
    phase,       \* how far the shutdown is
    work,        \* work[r]: what is awaited, or armed, for ride r
    runner,      \* runner[r]: whose code called offerNext last, or will
    inflight,    \* this.inflight: rides whose dispatch has not settled
    waitFor,     \* the dispatches onModuleDestroy waits for
    polling,     \* the relay's interval is set
    tick,        \* the relay's tick in progress: this.current
    late         \* who has published on a disposed adapter

vars == <<phase, work, runner, inflight, waitFor, polling, tick, late>>
matching == <<work, runner, inflight>>
relay == <<polling, tick>>

Phase == {"up", "draining", "disposed", "ending", "down"}

\* "requesting", "accepting", "givingUp": a transaction; "search", "marking":
\* Redis; "offered": a timer is armed and the offer live.
Work == {"none", "requesting", "search", "offered", "accepting", "marking",
         "givingUp", "over"}

\* A dispatch begun before or during the shutdown, or a timer's callback.
Runner == {"none", "before", "during", "timer"}

ShutdownTypeOK ==
    /\ phase \in Phase
    /\ work \in [Ride -> Work]
    /\ runner \in [Ride -> Runner]
    /\ inflight \subseteq Ride
    /\ waitFor \subseteq Ride
    /\ polling \in BOOLEAN
    /\ tick \in {"idle", "selecting", "marking"}
    /\ late \subseteq Runner \cup {"relay"}
    \* a dispatch in flight awaits an answer, never a timer
    /\ \A r \in inflight :
          work[r] \in {"search", "givingUp"} /\ runner[r] \in {"before", "during"}

Init ==
    /\ phase = "up"
    /\ work = [r \in Ride |-> "none"]
    /\ runner = [r \in Ride |-> "none"]
    /\ inflight = {} /\ waitFor = {}
    /\ polling = TRUE /\ tick = "idle"
    /\ late = {}
-----------------------------------------------------------------------------
Disposed == phase \in {"disposed", "ending", "down"}

PoolEnded == phase \in {"ending", "down"}

\* emit through the adapter's Redis connections.
Publish(who) == late' = IF Disposed THEN late \cup {who} ELSE late

Becomes(r, next) == work' = [work EXCEPT ![r] = next]

\* A client of the pool is checked out.
InTransaction ==
    \/ tick # "idle"
    \/ \E r \in Ride : work[r] \in {"requesting", "accepting", "givingUp"}

\* Mutant: the promise resolves when the offer has ended.
offerNext_AwaitsOutcome(r, who) ==
    \/ /\ Becomes(r, "offered")
       /\ Publish(who)
       /\ UNCHANGED inflight
    \/ /\ ~PoolEnded
       /\ Becomes(r, "givingUp")
       /\ UNCHANGED <<inflight, late>>
    \/ /\ PoolEnded
       /\ Becomes(r, "over")
       /\ inflight' = inflight \ {r}
       /\ UNCHANGED late

\* The offer is sent, its timer armed and the promise resolved; or nobody is
\* left and a transaction begins, which an ended pool rejects.
offerNext(r, who) ==
    \/ /\ Becomes(r, "offered")
       /\ inflight' = inflight \ {r}
       /\ Publish(who)
    \/ /\ ~PoolEnded
       /\ Becomes(r, "givingUp")
       /\ UNCHANGED <<inflight, late>>
    \/ /\ PoolEnded
       /\ Becomes(r, "over")
       /\ inflight' = inflight \ {r}
       /\ UNCHANGED late
-----------------------------------------------------------------------------
(* Matching *)

\* POST /v1/rides, while the server listens.
request(r) ==
    /\ phase \in {"up", "draining"}
    /\ work[r] = "none"
    /\ Becomes(r, "requesting")
    /\ UNCHANGED <<phase, runner, inflight, waitFor, relay, late>>

\* Mutant: what is tracked is the search, not the dispatch.
Dispatch_Untracked(r) ==
    /\ work[r] = "requesting"
    /\ Becomes(r, "search")
    /\ runner' = [runner EXCEPT ![r] = IF phase = "up" THEN "before" ELSE "during"]
    /\ UNCHANGED <<phase, inflight, waitFor, relay, late>>

\* Its transaction has committed, however far the shutdown is by then.
Dispatch(r) ==
    /\ work[r] = "requesting"
    /\ Becomes(r, "search")
    /\ runner' = [runner EXCEPT ![r] = IF phase = "up" THEN "before" ELSE "during"]
    /\ inflight' = inflight \cup {r}
    /\ UNCHANGED <<phase, waitFor, relay, late>>

SearchAnswered(r) ==
    /\ work[r] = "search"
    /\ offerNext(r, runner[r])
    /\ UNCHANGED <<phase, runner, waitFor, relay>>

\* The timer's callback calls offerNext itself: no dispatch, not in inflight.
TimerFires(r) ==
    /\ work[r] = "offered" /\ phase # "down"
    /\ runner' = [runner EXCEPT ![r] = "timer"]
    /\ offerNext(r, "timer")
    /\ UNCHANGED <<phase, waitFor, relay>>

\* "offer.accept", while sockets are connected.
Accept(r) ==
    /\ work[r] = "offered" /\ phase \in {"up", "draining"}
    /\ Becomes(r, "accepting")
    /\ UNCHANGED <<phase, runner, inflight, waitFor, relay, late>>

AcceptAnswered(r) ==
    /\ work[r] = "accepting"
    /\ Becomes(r, "marking")
    /\ UNCHANGED <<phase, runner, inflight, waitFor, relay, late>>

MultiAnswered(r) ==
    /\ work[r] = "marking"
    /\ Becomes(r, "over")
    /\ UNCHANGED <<phase, runner, inflight, waitFor, relay, late>>

\* markNoDriver answers; its room is told.
GiveUpAnswered(r) ==
    /\ work[r] = "givingUp"
    /\ Becomes(r, "over")
    /\ inflight' = inflight \ {r}
    /\ Publish(runner[r])
    /\ UNCHANGED <<phase, runner, waitFor, relay>>

\* An awaited call rejects: the error is answered or logged.
Rejected(r) ==
    /\ work[r] \in {"requesting", "search", "accepting", "marking", "givingUp"}
    /\ Becomes(r, "over")
    /\ inflight' = inflight \ {r}
    /\ UNCHANGED <<phase, runner, waitFor, relay, late>>
-----------------------------------------------------------------------------
(* The relay *)

StartTick ==
    /\ polling /\ tick = "idle" /\ phase # "down"
    /\ tick' = "selecting"
    /\ UNCHANGED <<phase, matching, waitFor, polling, late>>

\* The batch is handed to the adapter.
HandOff ==
    /\ tick = "selecting"
    /\ tick' = "marking"
    /\ Publish("relay")
    /\ UNCHANGED <<phase, matching, waitFor, polling>>

\* The tick found nothing, marked its batch, or failed.
TickEnds ==
    /\ tick # "idle"
    /\ tick' = "idle"
    /\ UNCHANGED <<phase, matching, waitFor, polling, late>>
-----------------------------------------------------------------------------
(* app.close() *)

\* Both hooks start: matching clears its timers and its Map and takes the
\* dispatches of this moment, the relay clears its interval.
OnModuleDestroy ==
    /\ phase = "up"
    /\ phase' = "draining"
    /\ work' = [r \in Ride |-> IF work[r] = "offered" THEN "over" ELSE work[r]]
    /\ waitFor' = inflight
    /\ polling' = FALSE
    /\ UNCHANGED <<runner, inflight, tick, late>>

\* Promise.allSettled and this.current have resolved: the server is closed and
\* the adapter disposed.
Dispose ==
    /\ phase = "draining"
    /\ waitFor \cap inflight = {} /\ tick = "idle"
    /\ phase' = "disposed"
    /\ UNCHANGED <<matching, waitFor, relay, late>>

\* onApplicationShutdown: pool.end() waits for the clients that are out, and
\* then Redis is disconnected.
EndPool ==
    /\ phase = "disposed"
    /\ phase' = "ending"
    /\ UNCHANGED <<matching, waitFor, relay, late>>

DisconnectRedis ==
    /\ phase = "ending" /\ ~InTransaction
    /\ phase' = "down"
    /\ UNCHANGED <<matching, waitFor, relay, late>>
-----------------------------------------------------------------------------
\* Once Redis is disconnected nothing is answered any more, and the process ends.
Answer(r) ==
    /\ phase # "down"
    /\ \/ Dispatch(r) \/ SearchAnswered(r) \/ AcceptAnswered(r) \/ MultiAnswered(r)
       \/ GiveUpAnswered(r) \/ Rejected(r)

Close == Dispose \/ EndPool \/ DisconnectRedis

Next ==
    \/ \E r \in Ride : request(r) \/ Answer(r) \/ TimerFires(r) \/ Accept(r)
    \/ StartTick \/ HandOff \/ TickEnds
    \/ OnModuleDestroy \/ Close

Spec == Init /\ [][Next]_vars

\* What is awaited is answered; nothing obliges anybody to shut down.
FairSpec ==
    /\ Spec
    /\ \A r \in Ride : WF_vars(Answer(r))
    /\ WF_vars(HandOff \/ TickEnds) /\ WF_vars(Close)
-----------------------------------------------------------------------------
\* What the hooks promise (matching.service.ts:88-91, outbox.relay.ts:40):
\* neither a dispatch that was running when they were called nor the relay
\* publishes once the adapter is closed.
HooksDrain == late \cap {"before", "relay"} = {}

\* "waiting here keeps in-flight dispatches from publishing on a closed Redis
\* connection" (matching.service.ts:89-90), taken for every dispatch and for
\* every offer that follows from one.
NothingPublishedLate == late = {}

\* A shutdown that has begun ends, whatever is still to be answered: neither
\* the hooks nor the pool wait for a promise nobody will resolve.
ShutdownEnds == phase = "draining" ~> phase = "down"
=============================================================================
