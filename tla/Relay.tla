------------------------------- MODULE Relay -------------------------------
(***************************************************************************)
(* Dispatch across server replicas (internal/agent/relay.go): the location *)
(* record of a device in the shared store, the presence callbacks that     *)
(* write it (hub.go, wired in cmd/server/main.go), and a dispatch that is   *)
(* relayed by pub/sub to the replica that holds the device's connection.   *)
(*                                                                         *)
(* One device.  A step is one call to the store or to pub/sub, one select  *)
(* branch, or one critical section of relayMu.  Local.Dispatch is taken    *)
(* from its own model (AgentHub): it fails, or returns what the agent       *)
(* finished, and ends once its context is cancelled or the connection is   *)
(* gone.  Pub/sub delivers at most once, drops what a full subscriber       *)
(* cannot take, and knows only subscribers that are listening.             *)
(***************************************************************************)
EXTENDS Naturals, Sequences, FiniteSets

CONSTANTS
  Replicas,    \* replica IDs
  Calls,       \* correlation IDs
  Home,        \* the replica each call is made on
  None,        \* no replica
  TTL,         \* LocationTTL in heartbeat intervals (3: relay.go:415)
  Cap,         \* capacity of a subscription's channel (64)
  MaxConnects, \* bound: connections the agent makes
  MaxCrashes   \* bound: replicas that crash

ASSUME NoneAssumption == None \notin Replicas
ASSUME HomeAssumption == Home \in [Calls -> Replicas]
ASSUME TTLAssumption == TTL \in Nat \ {0}
ASSUME CapAssumption == Cap \in Nat \ {0}
ASSUME BoundsAssumption == MaxConnects \in Nat /\ MaxCrashes \in Nat

VARIABLES
  alive,      \* replicas whose process runs
  hub,        \* replicas whose Hub.online has the device
  connects,   \* connections made so far
  crashes,    \* crashes so far
  callbacks,  \* presence callbacks started and not finished
  owner,      \* the location record: a replica, or None
  ttl,        \* heartbeat intervals until the record expires
  pc,         \* where ReplicaBridge.Dispatch of a call is
  asked,      \* the owner it looked up
  got,        \* calls whose gotFirstMessage is set
  ctxDone,    \* calls whose context is done
  replies,    \* the call's reply subscription: messages not yet received
  requests,   \* each replica's request subscription
  local,      \* Local.Dispatch of a call at a replica, and its goroutine
  relayed,    \* ReplicaBridge.relayed: <<call, replica>> with a cancel func
  stopped,    \* relayed dispatches whose context is cancelled
  run         \* the agent's work for a call, dispatched by a replica

deviceVars == <<alive, hub, connects, crashes>>
recordVars == <<callbacks, owner, ttl>>
callVars   == <<pc, asked, got, ctxDone, replies>>
serveVars  == <<requests, local, relayed, stopped, run>>
vars == <<deviceVars, recordVars, callVars, serveVars>>

Request(c) == [call |-> c, cancel |-> FALSE]
CancelOf(c) == [call |-> c, cancel |-> TRUE]
Requests == [call : Calls, cancel : BOOLEAN]
Replies == {"progress", "result", "error"}
Terminal == {"result", "error"}
CallPCs == {"idle", "local", "publish", "waiting", "final",
            "ok", "failed"}
LocalPCs == {"none", "spawned", "starting", "waiting", "result", "error", "done"}
Returned == {"ok", "failed"}

\* With an error: the subscription's channel is not bounded.
PublishedUnbounded(q, m) == {q, Append(q, m)}

\* What a publish may leave in a subscriber's channel: it is lost on the way,
\* dropped when the channel is full, or delivered.
Published(q, m) == {q} \cup (IF Len(q) < Cap THEN {Append(q, m)} ELSE {})

Init ==
  /\ alive = Replicas /\ hub = {} /\ connects = 0 /\ crashes = 0
  /\ callbacks = {} /\ owner = None /\ ttl = 0
  /\ pc = [c \in Calls |-> "idle"]
  /\ asked = [c \in Calls |-> None]
  /\ got = {} /\ ctxDone = {}
  /\ replies = [c \in Calls |-> <<>>]
  /\ requests = [r \in Replicas |-> <<>>]
  /\ local = [c \in Calls |-> [r \in Replicas |-> "none"]]
  /\ relayed = {} /\ stopped = {}
  /\ run = [c \in Calls |-> [r \in Replicas |-> "no"]]

----------------------------------------------------------------------------
\* The device and its location record

\* notifyLocalPresence starts a goroutine of its own, told apart from others by
\* the number n of connections made so far: the replica's next online callback
\* has a larger one, and so has its next offline callback.
Notify(r, online, n) ==
  callbacks' = callbacks \cup
    {[replica |-> r, online |-> online, no |-> n, step |-> "start"]}

\* registerOnline on replica r, also of a device another replica still takes
\* for connected, or of one that supersedes its previous connection here; the
\* callback runs in a goroutine of its own.
Register(r) ==
  /\ r \in alive /\ connects < MaxConnects
  /\ hub' = hub \cup {r}
  /\ connects' = connects + 1
  /\ Notify(r, TRUE, connects + 1)
  /\ UNCHANGED <<alive, crashes, owner, ttl, callVars, serveVars>>

\* unregisterOnline of the active connection of replica r.
Unregister(r) ==
  /\ r \in alive \cap hub
  /\ hub' = hub \ {r}
  /\ Notify(r, FALSE, connects)
  /\ UNCHANGED <<alive, connects, crashes, owner, ttl, callVars, serveVars>>

\* MarkOnline: one Set with the TTL.  A Set that fails is only logged.
MarkOnline(b) ==
  /\ b \in callbacks /\ b.online
  /\ callbacks' = callbacks \ {b}
  /\ \/ owner' = b.replica /\ ttl' = TTL
     \/ UNCHANGED <<owner, ttl>>
  /\ UNCHANGED <<deviceVars, callVars, serveVars>>

\* MarkOffline reads the record: nothing to do unless it names this replica.
MarkOfflineGet(b) ==
  /\ b \in callbacks /\ ~b.online /\ b.step = "start"
  /\ callbacks' = (callbacks \ {b}) \cup
       (IF owner = b.replica THEN {[b EXCEPT !.step = "del"]} ELSE {})
  /\ UNCHANGED <<owner, ttl, deviceVars, callVars, serveVars>>

\* ... and then deletes whatever is there by now.
MarkOfflineDel(b) ==
  /\ b \in callbacks /\ b.step = "del"
  /\ callbacks' = callbacks \ {b}
  /\ owner' = None /\ ttl' = 0
  /\ UNCHANGED <<deviceVars, callVars, serveVars>>

\* With an error: the heartbeat refreshes records it knows, not connections.
HeartbeatOfRecord(r) ==
  /\ r \in alive
  /\ owner # None
  /\ ttl' = TTL
  /\ UNCHANGED <<callbacks, owner, deviceVars, callVars, serveVars>>

\* RunLocationHeartbeat: Refresh extends the record of a connected device,
\* whoever it names, and does nothing when there is none.
Heartbeat(r) ==
  /\ r \in alive \cap hub
  /\ owner # None
  /\ ttl' = TTL
  /\ UNCHANGED <<callbacks, owner, deviceVars, callVars, serveVars>>

\* Time passes in the store: one heartbeat interval.
Tick ==
  /\ owner # None
  /\ ttl' = ttl - 1
  /\ owner' = IF ttl = 1 THEN None ELSE owner
  /\ UNCHANGED <<callbacks, deviceVars, callVars, serveVars>>

----------------------------------------------------------------------------
\* The calling replica

\* A call returns: its subscription is closed, its context and timer are gone.
Return(c, outcome) ==
  /\ pc' = [pc EXCEPT ![c] = outcome]
  /\ replies' = [replies EXCEPT ![c] = <<>>]
  /\ asked' = [asked EXCEPT ![c] = None]
  /\ got' = got \ {c} /\ ctxDone' = ctxDone \ {c}

\* Dispatch: locally when this replica has the connection; offline when there
\* is no record or a stale one of our own; otherwise to the record's owner.
Dispatch(c) == LET r == Home[c] IN
  /\ pc[c] = "idle" /\ r \in alive
  /\ \/ /\ r \in hub
        /\ pc' = [pc EXCEPT ![c] = "local"]
        /\ local' = [local EXCEPT ![c][r] = "starting"]
        /\ UNCHANGED <<asked, got, ctxDone, replies>>
     \/ /\ r \notin hub /\ owner \in {None, r}
        /\ Return(c, "failed")
        /\ UNCHANGED local
     \/ /\ r \notin hub /\ owner \notin {None, r}
        /\ pc' = [pc EXCEPT ![c] = "publish"]
        /\ asked' = [asked EXCEPT ![c] = owner]
        /\ UNCHANGED <<local, got, ctxDone, replies>>
  /\ UNCHANGED <<requests, relayed, stopped, run, deviceVars, recordVars>>

\* A message to the owner that was asked, if its process is there at all.
PublishTo(c, m) ==
  \E q \in (IF asked[c] \in alive THEN Published(requests[asked[c]], m)
            ELSE {requests[asked[c]]}) :
    requests' = [requests EXCEPT ![asked[c]] = q]

\* dispatchRemote, subscribed to the reply channel, asks the owner it found.
PublishRequest(c) ==
  /\ pc[c] = "publish"
  /\ PublishTo(c, Request(c))
  /\ pc' = [pc EXCEPT ![c] = "waiting"]
  /\ UNCHANGED <<asked, got, ctxDone, replies, local, relayed, stopped, run,
                 deviceVars, recordVars>>

\* Subscribe or Publish fails.
RelayFails(c) ==
  /\ pc[c] = "publish"
  /\ Return(c, "failed")
  /\ UNCHANGED <<deviceVars, recordVars, serveVars>>

\* With an error: a silent owner makes the call fall back to its own replica.
FirstMessageTimeoutRetries(c) ==
  /\ pc[c] = "waiting" /\ c \notin got
  /\ PublishTo(c, CancelOf(c))
  /\ pc' = [pc EXCEPT ![c] = "local"]
  /\ local' = [local EXCEPT ![c][Home[c]] = "starting"]
  /\ UNCHANGED <<asked, got, ctxDone, replies, relayed, stopped, run,
                 deviceVars, recordVars>>

\* With an error: the wait for the first message is bounded by ctx only.
FirstMessageUntimed(c) ==
  /\ pc[c] = "waiting" /\ c \notin got /\ c \in ctxDone
  /\ PublishTo(c, CancelOf(c))
  /\ Return(c, "failed")
  /\ UNCHANGED <<local, relayed, stopped, run, deviceVars, recordVars>>

\* firstMessageTimeout, with publishCancel: the owner has not answered at all.
FirstMessageTimeout(c) ==
  /\ pc[c] = "waiting" /\ c \notin got
  /\ PublishTo(c, CancelOf(c))
  /\ Return(c, "failed")
  /\ UNCHANGED <<local, relayed, stopped, run, deviceVars, recordVars>>

\* ctx.Done: tell the owner and wait for one more message.
CancelRemote(c) ==
  /\ pc[c] = "waiting" /\ c \in ctxDone
  /\ PublishTo(c, CancelOf(c))
  /\ pc' = [pc EXCEPT ![c] = "final"]
  /\ UNCHANGED <<asked, got, ctxDone, replies, local, relayed, stopped, run,
                 deviceVars, recordVars>>

\* handleRelayMessage: a result or an error ends the wait.
OutcomeOf(m) == IF m = "result" THEN "ok" ELSE "failed"

ReceiveReply(c) ==
  /\ pc[c] = "waiting" /\ replies[c] # <<>>
  /\ \/ /\ Head(replies[c]) \in Terminal
        /\ Return(c, OutcomeOf(Head(replies[c])))
     \/ /\ Head(replies[c]) \notin Terminal
        /\ got' = got \cup {c}
        /\ replies' = [replies EXCEPT ![c] = Tail(@)]
        /\ UNCHANGED <<pc, asked, ctxDone>>
  /\ UNCHANGED <<deviceVars, recordVars, serveVars>>

\* The one message after a cancel: anything but a result is ctx.Err().
FinalReply(c) ==
  /\ pc[c] = "final" /\ replies[c] # <<>>
  /\ Return(c, OutcomeOf(Head(replies[c])))
  /\ UNCHANGED <<deviceVars, recordVars, serveVars>>

\* With an error: the wait after a cancel has no limit unless a message came.
FinalTimeoutAnswered(c) ==
  /\ pc[c] = "final" /\ replies[c] # <<>>
  /\ Return(c, "failed")
  /\ UNCHANGED <<deviceVars, recordVars, serveVars>>

\* ... or the two seconds without one.
FinalTimeout(c) ==
  /\ pc[c] = "final"
  /\ Return(c, "failed")
  /\ UNCHANGED <<deviceVars, recordVars, serveVars>>

\* The local dispatch of a call made on the replica that has the device.
LocalReturns(c) ==
  /\ pc[c] = "local" /\ local[c][Home[c]] \in Terminal
  /\ Return(c, OutcomeOf(local[c][Home[c]]))
  /\ local' = [local EXCEPT ![c][Home[c]] = "done"]
  /\ UNCHANGED <<requests, relayed, stopped, run, deviceVars, recordVars>>

CancelContext(c) ==
  /\ pc[c] \in {"local", "publish", "waiting"} /\ c \notin ctxDone
  /\ ctxDone' = ctxDone \cup {c}
  /\ UNCHANGED <<pc, asked, got, replies, deviceVars, recordVars, serveVars>>

----------------------------------------------------------------------------
\* The owning replica

\* ServeRelayedDispatches and handleIncomingRelay: a cancel reaches the
\* dispatch only if it has registered; a request starts a goroutine.
HandleIncoming(r) ==
  /\ r \in alive /\ requests[r] # <<>>
  /\ requests' = [requests EXCEPT ![r] = Tail(@)]
  /\ LET m == Head(requests[r]) IN
       IF m.cancel
       THEN /\ stopped' = IF <<m.call, r>> \in relayed
                          THEN stopped \cup {<<m.call, r>>} ELSE stopped
            /\ UNCHANGED local
       ELSE /\ local' = [local EXCEPT ![m.call][r] = "spawned"]
            /\ UNCHANGED stopped
  /\ UNCHANGED <<relayed, run, deviceVars, recordVars, callVars>>

\* serveOneRelayedDispatch registers its cancel func and calls Local.Dispatch.
RegisterRelayed(c, r) ==
  /\ r \in alive /\ local[c][r] = "spawned"
  /\ relayed' = relayed \cup {<<c, r>>}
  /\ local' = [local EXCEPT ![c][r] = "starting"]
  /\ UNCHANGED <<requests, stopped, run, deviceVars, recordVars, callVars>>

\* Local.Dispatch: the device must be connected here, and then works on it.
LocalStart(c, r) ==
  /\ r \in alive /\ local[c][r] = "starting"
  /\ local' = [local EXCEPT ![c][r] = IF r \in hub THEN "waiting" ELSE "error"]
  /\ UNCHANGED <<requests, relayed, stopped, run, deviceVars, recordVars, callVars>>

\* With an error: the relayed dispatch runs under the server's context instead
\* of the one its cancel func ends.
LocalCtxDoneHome(c, r) == Home[c] = r /\ c \in ctxDone

\* The context the local dispatch runs under is done.
LocalCtxDone(c, r) == IF Home[c] = r THEN c \in ctxDone ELSE <<c, r>> \in stopped

AgentStarts(c, r) ==
  /\ local[c][r] = "waiting" /\ run[c][r] = "no" /\ r \in hub
  /\ run' = [run EXCEPT ![c][r] = "running"]
  /\ UNCHANGED <<requests, local, relayed, stopped, deviceVars, recordVars, callVars>>

AgentFinishes(c, r) ==
  /\ run[c][r] = "running"
  /\ run' = [run EXCEPT ![c][r] = "finished"]
  /\ UNCHANGED <<requests, local, relayed, stopped, deviceVars, recordVars, callVars>>

LocalResult(c, r) ==
  /\ r \in alive /\ local[c][r] = "waiting" /\ run[c][r] = "finished"
  /\ local' = [local EXCEPT ![c][r] = "result"]
  /\ UNCHANGED <<requests, relayed, stopped, run, deviceVars, recordVars, callVars>>

\* The connection is lost for good, or the context is done.
LocalError(c, r) ==
  /\ r \in alive /\ local[c][r] = "waiting"
  /\ r \notin hub \/ LocalCtxDone(c, r)
  /\ local' = [local EXCEPT ![c][r] = "error"]
  /\ UNCHANGED <<requests, relayed, stopped, run, deviceVars, recordVars, callVars>>

\* A caller that has returned has closed its subscription.
Listening(c) == pc[c] \in {"publish", "waiting", "final"}

\* onProgress: a progress message or a frame is relayed (one that is lost, or
\* finds the channel full, changes nothing).
RelayProgress(c, r) ==
  /\ r \in alive /\ Home[c] # r
  /\ local[c][r] = "waiting" /\ run[c][r] = "running"
  /\ Listening(c) /\ Len(replies[c]) < Cap
  /\ replies' = [replies EXCEPT ![c] = Append(@, "progress")]
  /\ UNCHANGED <<pc, asked, got, ctxDone, deviceVars, recordVars, serveVars>>

\* serveOneRelayedDispatch publishes the outcome and unregisters.
PublishOutcome(c, r) ==
  /\ r \in alive /\ Home[c] # r /\ local[c][r] \in Terminal
  /\ local' = [local EXCEPT ![c][r] = "done"]
  /\ relayed' = relayed \ {<<c, r>>} /\ stopped' = stopped \ {<<c, r>>}
  /\ \E q \in (IF Listening(c) THEN Published(replies[c], local[c][r])
               ELSE {replies[c]}) :
       replies' = [replies EXCEPT ![c] = q]
  /\ UNCHANGED <<pc, asked, got, ctxDone, requests, run, deviceVars, recordVars>>

----------------------------------------------------------------------------
\* A replica's process ends: its calls, goroutines, subscriptions and
\* callbacks with it.  The location record stays until its TTL.
Crash(r) ==
  /\ r \in alive /\ crashes < MaxCrashes
  /\ alive' = alive \ {r} /\ hub' = hub \ {r} /\ crashes' = crashes + 1
  /\ callbacks' = {b \in callbacks : b.replica # r}
  /\ LET lost == {c \in Calls : Home[c] = r /\ pc[c] \notin Returned \cup {"idle"}} IN
       /\ pc' = [c \in Calls |-> IF c \in lost THEN "failed" ELSE pc[c]]
       /\ replies' = [c \in Calls |-> IF c \in lost THEN <<>> ELSE replies[c]]
       /\ asked' = [c \in Calls |-> IF c \in lost THEN None ELSE asked[c]]
       /\ got' = got \ lost /\ ctxDone' = ctxDone \ lost
  /\ requests' = [requests EXCEPT ![r] = <<>>]
  /\ local' = [c \in Calls |-> [local[c] EXCEPT ![r] =
       IF @ = "none" THEN @ ELSE "done"]]
  /\ relayed' = {x \in relayed : x[2] # r}
  /\ stopped' = {x \in stopped : x[2] # r}
  /\ UNCHANGED <<connects, owner, ttl, run>>

\* ... and comes back under the same REPLICA_ID, listening again.
Restart(r) ==
  /\ r \notin alive
  /\ alive' = alive \cup {r}
  /\ UNCHANGED <<hub, connects, crashes, recordVars, callVars, serveVars>>

\* The steps that take a call onwards by themselves, timers included.
CallStep(c) ==
  \/ PublishRequest(c) \/ FirstMessageTimeout(c) \/ CancelRemote(c)
  \/ FinalTimeout(c) \/ LocalReturns(c)

ServeStep(c, r) ==
  \/ RegisterRelayed(c, r) \/ LocalStart(c, r) \/ LocalResult(c, r)
  \/ LocalError(c, r) \/ PublishOutcome(c, r)

CallbackStep ==
  \E b \in callbacks : MarkOnline(b) \/ MarkOfflineGet(b) \/ MarkOfflineDel(b)

Next ==
  \/ \E r \in Replicas : Register(r) \/ Unregister(r) \/ Heartbeat(r)
       \/ HandleIncoming(r) \/ Crash(r) \/ Restart(r)
  \/ CallbackStep
  \/ Tick
  \/ \E c \in Calls : Dispatch(c) \/ CallStep(c) \/ ReceiveReply(c)
       \/ FinalReply(c) \/ RelayFails(c) \/ CancelContext(c)
  \/ \E c \in Calls, r \in Replicas :
       ServeStep(c, r) \/ AgentStarts(c, r) \/ AgentFinishes(c, r)
       \/ RelayProgress(c, r)

\* Goroutines that can move do, timers fire and records age.  Nothing makes
\* the agent finish, the device connect or a message arrive.
Fairness ==
  /\ \A c \in Calls : WF_vars(CallStep(c))
  /\ \A c \in Calls, r \in Replicas : WF_vars(ServeStep(c, r))
  /\ \A r \in Replicas : WF_vars(HandleIncoming(r))
  /\ WF_vars(Tick) /\ WF_vars(CallbackStep)

Spec == Init /\ [][Next]_vars /\ Fairness

----------------------------------------------------------------------------
\* The types of the device and its record, of the calls, and of the replicas
\* that serve them.
TypeDevice ==
  /\ alive \subseteq Replicas /\ hub \subseteq alive
  /\ connects \in 0..MaxConnects /\ crashes \in 0..MaxCrashes
  /\ callbacks \subseteq [replica : Replicas, online : BOOLEAN,
                          no : 0..MaxConnects, step : {"start", "del"}]
  /\ owner \in Replicas \cup {None} /\ ttl \in 0..TTL
  /\ (owner = None) = (ttl = 0)

TypeCall ==
  /\ pc \in [Calls -> CallPCs]
  /\ asked \in [Calls -> Replicas \cup {None}]
  /\ got \subseteq Calls /\ ctxDone \subseteq Calls
  /\ replies \in [Calls -> Seq(Replies)]
  /\ \A c \in Calls : Len(replies[c]) <= Cap

TypeServe ==
  /\ requests \in [Replicas -> Seq(Requests)]
  /\ \A r \in Replicas : Len(requests[r]) <= Cap
  /\ local \in [Calls -> [Replicas -> LocalPCs]]
  /\ relayed \subseteq Calls \X Replicas /\ stopped \subseteq Calls \X Replicas
  /\ run \in [Calls -> [Replicas -> {"no", "running", "finished"}]]

\* Every variable keeps its type, and a subscription its capacity.
TypeOK == TypeDevice /\ TypeCall /\ TypeServe

\* The contract of Bridge.Dispatch, seen from a call.
Phase == [c \in Calls |-> IF pc[c] \in Returned \cup {"idle"} THEN pc[c] ELSE "called"]
Starts == [c \in Calls |-> Cardinality({r \in Replicas : run[c][r] # "no"})]
Finished == {c \in Calls : \E r \in Replicas : run[c][r] = "finished"}

Contract == INSTANCE DispatchContract WITH
  phase <- Phase, starts <- Starts, finished <- Finished

\* relay.go:175: "Dispatch implements the same contract as Bridge.Dispatch".
ImplementsContract == Contract!Spec

\* relay.go:140-144: once its context is done a call returns, whatever was
\* lost and whoever crashed.
CancelledReturns == \A c \in Calls : (c \in ctxDone) ~> (pc[c] \in Returned)

\* relay.go:225-231: an owner that is gone, or never got the request, cannot
\* keep the caller: without a first message the call returns on its own.
UnansweredReturns ==
  \A c \in Calls :
    (pc[c] = "waiting" /\ c \notin got) ~> (c \in got \/ pc[c] \in Returned)

\* relay.go:363-379: a relayed dispatch that was cancelled while registered ends
\* and leaves ReplicaBridge.relayed, even if the agent never finishes.
CancelEndsRelayed ==
  \A x \in Calls \X Replicas : (x \in stopped) ~> (x \notin relayed)

\* relay.go:27-31: a record nobody stands behind does not stay.  Once no
\* replica has the device for good, the record is gone for good, also when
\* the replica it names crashed before its callback, or a late MarkOnline
\* wrote it back.
StaleRecordExpires == <>[](hub = {}) => <>[](owner = None)
=============================================================================
