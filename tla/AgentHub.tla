------------------------------ MODULE AgentHub ------------------------------
(***************************************************************************)
(* The relay server's agent side for ONE device: the Hub (hub.go), its     *)
(* WebSocket Connections (connection.go), the deviceState that outlives a  *)
(* connection for the reconnect grace period (state.go), and the dispatch  *)
(* bridge (dispatch.go), together with the device's row of the registry.   *)
(*                                                                         *)
(* Every map of the Hub is keyed by device ID and no operation relates two *)
(* devices, so one device is the whole story.  A step is one critical      *)
(* section (Hub.mu or deviceState.mu) or one channel operation; what the   *)
(* code does between two of them is where other goroutines interleave.     *)
(***************************************************************************)
EXTENDS Naturals, Sequences, FiniteSets

CONSTANTS
  Conns,     \* WebSocket connections the agent may open, one after another
  Calls,     \* Bridge.Dispatch calls, each with its own correlation ID
  Prefix,    \* [Calls -> prefixes]: first four bytes of a correlation ID
  SendCap,   \* capacity of Connection.send (sendBufferSize, 32)
  ChanCap,   \* capacity of a bridge channel (64)
  Admin,     \* operator actions that happen: a subset of {"revoke","shutdown"}
  None       \* no connection

ASSUME SendCapAssumption == SendCap \in Nat \ {0}
ASSUME ChanCapAssumption == ChanCap \in Nat \ {0}
ASSUME NoneAssumption == None \notin Conns \cup Calls

VARIABLES
  online,     \* Hub.online[device]: the active connection, or None
  cur,        \* Hub.states[device]: generation of the deviceState, 0 if absent
  pending,    \* deviceState.pending, per generation: the registered calls
  byPrefix,   \* deviceState.byPrefix, per generation: calls reachable by prefix
  timer,      \* deviceState.graceTimer is running, per generation
  firing,     \* grace timers that fired and whose expire() has not run yet
  closing,    \* expire() loops that collected a call's channel, not closed yet
  queue,      \* contents of each call's bridge channel
  chOpen,     \* the bridge channel is not closed
  regOnline,  \* registry: Device.Online (FALSE once the record is gone)
  cpc,        \* where each Connection.run goroutine is
  closed,     \* closeWithReason ran: close frame sent, done closed
  sendq,      \* Connection.send
  cgen,       \* deviceState a connection is about to arm the grace timer of
  prev,       \* connection a registering one replaced and has yet to close
  target,     \* call whose channel a reader resolved and is about to send on
  bpc,        \* where each Bridge.Dispatch call is
  bconn,      \* connection the call looked up
  bgen,       \* deviceState the call looked up
  ctxDone,    \* the call's context is cancelled
  rpc, rconn, rgen,  \* the admin revoke request and what RevokeDevice took
  spc, sconn, \* Hub.Shutdown and the connection in its snapshot
  agentConn,  \* the agent's own current connection, or None
  acked,      \* the agent has read a hello_ack on this connection
  atAgent     \* calls the agent has received and not yet answered

hubVars   == <<online, cur>>
stateVars == <<pending, byPrefix, timer, firing>>
chanVars  == <<closing, queue, chOpen>>
connVars  == <<cpc, closed, sendq, cgen, prev, target>>
callVars  == <<bpc, bconn, bgen, ctxDone>>
adminVars == <<rpc, rconn, rgen, spc, sconn>>
agentVars == <<agentConn, acked, atAgent>>
vars == <<hubVars, stateVars, chanVars, regOnline, connVars, callVars,
          adminVars, agentVars>>

Gens == 1..2        \* RevokeDevice drops the first generation, once
Progress == "progress"
Terminal == "terminal"   \* a result or an error envelope

ConnPCs == {"idle", "auth", "setOnline", "register", "closePrev", "resume",
            "ack", "read", "deliver", "unregister", "hasPending", "startGrace", "setOffline",
            "down"}
CallPCs == {"idle", "state", "register", "send", "wait", "final", "unregister",
            "done"}
Message(t, d) == [type |-> t, call |-> d]
NoTarget == Message("none", None)
Envelopes == [type : {"dispatch", "cancel"}, call : Calls]
             \cup [type : {"ackResume", "ackFresh", "close"}, call : {None}]
Targets == [type : {Progress, Terminal}, call : Calls]
           \cup [type : {"none", "ackResume", "ackFresh"}, call : {None}]
-----------------------------------------------------------------------------
(***************************************************************************)
(* Helpers.                                                                *)
(***************************************************************************)

\* Registry.Revoke has deleted the device's record.
Revoked == rpc # "idle"

\* A send that ignores the capacity of the buffer.
TrySendUnbounded(c, m) ==
  sendq' = IF c # None /\ ~closed[c]
           THEN [sendq EXCEPT ![c] = Append(@, m)]
           ELSE sendq

\* Connection.trySend: enqueue, or drop when the buffer is full.  What is
\* queued on a closed connection is never written, so it is not recorded.
TrySend(c, m) ==
  sendq' = IF c # None /\ ~closed[c] /\ Len(sendq[c]) < SendCap
           THEN [sendq EXCEPT ![c] = Append(@, m)]
           ELSE sendq

\* Hub.state: the device's deviceState, created if the map has none.  The
\* first object is generation 1; RevokeDevice deletes it, so a later one is 2.
StateGen == IF cur # 0 THEN cur
            ELSE IF rpc \in {"close", "done"} THEN 2 ELSE 1

\* An expire that leaves the registrations in place.
ExpireKeepsPending(g) ==
  /\ timer' = [timer EXCEPT ![g] = FALSE]
  /\ closing' = [d \in Calls |->
                   IF d \in pending[g] THEN closing[d] + 1 ELSE closing[d]]
  /\ UNCHANGED <<pending, byPrefix>>

\* deviceState.expire, under its lock: stop the timer, collect the channels
\* of every registration, clear both maps.  The channels are closed later.
Expire(g) ==
  /\ timer' = [timer EXCEPT ![g] = FALSE]
  /\ closing' = [d \in Calls |->
                   IF d \in pending[g] THEN closing[d] + 1 ELSE closing[d]]
  /\ pending' = [pending EXCEPT ![g] = {}]
  /\ byPrefix' = [byPrefix EXCEPT ![g] = {}]

\* Connection.closeWithReason (of a connection, or of None): the close frame
\* ends all writing.
Close(c) ==
  IF c = None
  THEN UNCHANGED <<closed, sendq>>
  ELSE /\ closed' = [closed EXCEPT ![c] = TRUE]
       /\ sendq' = [sendq EXCEPT ![c] = <<>>]

CallActive(d) == bpc[d] \in {"send", "wait", "final", "unregister"}
-----------------------------------------------------------------------------
(***************************************************************************)
(* Connection.run: handshake.                                              *)
(***************************************************************************)

\* The agent dials only when it holds no connection (connectionLifecycle), and
\* the listener is up until Hub.Shutdown has returned.  hello is on its way.
Connect(c) ==
  /\ cpc[c] = "idle" /\ agentConn = None /\ spc # "done"
  /\ agentConn' = c
  /\ cpc' = [cpc EXCEPT ![c] = "auth"]
  /\ UNCHANGED <<hubVars, stateVars, chanVars, regOnline, closed, sendq, cgen,
                 prev, target, callVars, adminVars, acked, atAgent>>

\* handshake fails before c.deviceID is set (read error, unexpected first
\* message, unsupported version, bad payload, unknown token): an error envelope
\* is flushed, the socket is closed and teardown has nothing to unregister.
HandshakeFails(c) ==
  /\ cpc[c] = "auth"
  /\ cpc' = [cpc EXCEPT ![c] = "down"]
  /\ Close(c)
  /\ agentConn' = IF agentConn = c THEN None ELSE agentConn
  /\ UNCHANGED <<hubVars, stateVars, chanVars, regOnline, cgen, prev, target,
                 callVars, adminVars, acked, atAgent>>

\* handleHello: Registry.Authenticate finds the token's record.
Authenticate(c) ==
  /\ cpc[c] = "auth" /\ ~Revoked
  /\ cpc' = [cpc EXCEPT ![c] = "setOnline"]
  /\ UNCHANGED <<hubVars, stateVars, chanVars, regOnline, closed, sendq, cgen,
                 prev, target, callVars, adminVars, agentVars>>

\* handleHello: Registry.SetOnline(true); an unknown device is only logged.
SetOnline(c) ==
  /\ cpc[c] = "setOnline"
  /\ regOnline' = (regOnline \/ ~Revoked)
  /\ cpc' = [cpc EXCEPT ![c] = "register"]
  /\ UNCHANGED <<hubVars, stateVars, chanVars, closed, sendq, cgen, prev,
                 target, callVars, adminVars, agentVars>>

\* A registerOnline that forgets the connection it replaces.
RegisterOnlineKeepsPrev(c) ==
  /\ cpc[c] = "register"
  /\ online' = c
  /\ cpc' = [cpc EXCEPT ![c] = "closePrev"]
  /\ UNCHANGED <<cur, stateVars, chanVars, regOnline, closed, sendq, cgen, prev,
                 target, callVars, adminVars, agentVars>>

\* registerOnline, under Hub.mu: become the active connection and remember the
\* one it replaces.
RegisterOnline(c) ==
  /\ cpc[c] = "register"
  /\ online' = c
  /\ prev' = [prev EXCEPT ![c] = online]
  /\ cpc' = [cpc EXCEPT ![c] = "closePrev"]
  /\ UNCHANGED <<cur, stateVars, chanVars, regOnline, closed, sendq, cgen,
                 target, callVars, adminVars, agentVars>>

\* registerOnline, after the unlock: the replaced connection, if any, gets its
\* close frame, a control write that may take as long as its deadline.
ClosePrev(c) ==
  /\ cpc[c] = "closePrev"
  /\ Close(prev[c])
  /\ prev' = [prev EXCEPT ![c] = None]    \* not used again
  /\ cpc' = [cpc EXCEPT ![c] = "resume"]
  /\ UNCHANGED <<hubVars, stateVars, chanVars, regOnline, cgen, target,
                 callVars, adminVars, agentVars>>

\* A resume flag taken from the grace timer instead of the registrations.
HoldsWorkByTimer(g) == timer[g]

\* deviceState.resume's answer: work is held for the reconnecting agent.
HoldsWork(g) == pending[g] # {}

\* registerOnline, last part: deviceState.resume stops the grace timer and
\* says whether work is held.  The flag is kept in target until it is sent.
Resume(c) ==
  /\ cpc[c] = "resume"
  /\ LET g == StateGen IN
       /\ cur' = g
       /\ timer' = [timer EXCEPT ![g] = FALSE]
       /\ target' = [target EXCEPT ![c] =
            Message(IF HoldsWork(g) THEN "ackResume" ELSE "ackFresh", None)]
  /\ cpc' = [cpc EXCEPT ![c] = "ack"]
  /\ UNCHANGED <<online, pending, byPrefix, firing, chanVars, regOnline, closed,
                 sendq, cgen, prev, callVars, adminVars, agentVars>>

\* handleHello ends: enqueue hello_ack; the read loop starts.
SendAck(c) ==
  /\ cpc[c] = "ack"
  /\ TrySend(c, target[c])
  /\ target' = [target EXCEPT ![c] = NoTarget]
  /\ cpc' = [cpc EXCEPT ![c] = "read"]
  /\ UNCHANGED <<hubVars, stateVars, chanVars, regOnline, closed, cgen, prev,
                 callVars, adminVars, agentVars>>
-----------------------------------------------------------------------------
(***************************************************************************)
(* Connection.run: read loop, writer and teardown.                         *)
(***************************************************************************)

\* routeEnvelope / routeBinaryFrame: read a frame of call d and resolve the
\* channel: progress and terminal envelopes by correlation ID, binary frames
\* by prefix.  An unregistered call's frame is ignored.
ReadFrame(c, d, kind) ==
  /\ cpc[c] = "read" /\ acked[c] /\ d \in atAgent
  /\ LET g == StateGen
         owners == IF kind = "binary"
                   THEN {e \in byPrefix[g] : Prefix[e] = Prefix[d]}
                   ELSE pending[g] \cap {d}
     IN /\ cur' = g
        /\ \/ /\ owners = {}
              /\ UNCHANGED <<cpc, target>>
           \/ \E e \in owners :
                /\ target' = [target EXCEPT ![c] =
                     Message(IF kind = Terminal THEN Terminal ELSE Progress, e)]
                /\ cpc' = [cpc EXCEPT ![c] = "deliver"]
  /\ atAgent' = IF kind = Terminal THEN atAgent \ {d} ELSE atAgent
  /\ UNCHANGED <<online, stateVars, chanVars, regOnline, closed, sendq, cgen,
                 prev, callVars, adminVars, agentConn, acked>>

\* The non-blocking send on the resolved channel, outside every lock: dropped
\* when the channel is full; a panic when expire closed it in between, which
\* net/http recovers after the deferred teardown has run.
Deliver(c) ==
  /\ cpc[c] = "deliver"
  /\ LET d == target[c].call IN
       IF chOpen[d]
       THEN /\ queue' = [queue EXCEPT ![d] =
                 IF Len(@) < ChanCap THEN Append(@, target[c].type) ELSE @]
            /\ cpc' = [cpc EXCEPT ![c] = "read"]
       ELSE /\ cpc' = [cpc EXCEPT ![c] = "unregister"]
            /\ UNCHANGED queue
  /\ target' = [target EXCEPT ![c] = NoTarget]
  /\ UNCHANGED <<hubVars, stateVars, closing, chOpen, regOnline, closed, sendq,
                 cgen, prev, callVars, adminVars, agentVars>>

\* writeLoop puts the next envelope on the socket; after the close frame every
\* write fails.  The agent's Connect accepts nothing before hello_ack.
Write(c) ==
  /\ sendq[c] # <<>> /\ ~closed[c] /\ cpc[c] # "down"
  /\ sendq' = [sendq EXCEPT ![c] = Tail(@)]
  /\ LET m == Head(sendq[c]) IN
       \/ /\ agentConn # c
          /\ UNCHANGED agentVars
       \/ /\ agentConn = c /\ ~acked[c] /\ m.type \in {"ackResume", "ackFresh"}
          /\ acked' = [acked EXCEPT ![c] = TRUE]
          /\ UNCHANGED <<agentConn, atAgent>>
       \/ /\ agentConn = c /\ ~acked[c] /\ m.type \notin {"ackResume", "ackFresh"}
          /\ agentConn' = None
          /\ UNCHANGED <<acked, atAgent>>
       \/ /\ agentConn = c /\ acked[c] /\ m.type = "dispatch"
          /\ atAgent' = atAgent \cup {m.call}
          /\ UNCHANGED <<agentConn, acked>>
       \/ /\ agentConn = c /\ acked[c] /\ m.type \in {"cancel", "close"}
          /\ UNCHANGED agentVars
  /\ UNCHANGED <<hubVars, stateVars, chanVars, regOnline, cpc, closed, cgen,
                 prev, target, callVars, adminVars>>

\* A reader that never gives up a silent peer (no read deadline).
ReadErrorByPeer(c) ==
  /\ cpc[c] = "read" /\ ~closed[c]
  /\ cpc' = [cpc EXCEPT ![c] = "unregister"]
  /\ Close(c)
  /\ acked' = [acked EXCEPT ![c] = FALSE]
  /\ UNCHANGED <<hubVars, stateVars, chanVars, regOnline, cgen, prev, target,
                 callVars, adminVars, agentConn, atAgent>>

\* readLoop returns on a read error (the peer left, a missed pong, the network
\* broke); the writer is stopped and the connection closed.
ReadError(c) ==
  /\ cpc[c] = "read"
  /\ cpc' = [cpc EXCEPT ![c] = "unregister"]
  /\ Close(c)
  /\ acked' = [acked EXCEPT ![c] = FALSE]   \* nothing more is read
  /\ UNCHANGED <<hubVars, stateVars, chanVars, regOnline, cgen, prev, target,
                 callVars, adminVars, agentConn, atAgent>>

\* An unregisterOnline that gives up the entry only when it is not its own.
UnregisterOnlineInverted(c) ==
  /\ cpc[c] = "unregister"
  /\ online' = IF online # c THEN None ELSE online
  /\ cpc' = [cpc EXCEPT ![c] = IF online # c THEN "hasPending" ELSE "setOffline"]
  /\ UNCHANGED <<cur, stateVars, chanVars, regOnline, closed, sendq, cgen, prev,
                 target, callVars, adminVars, agentVars>>

\* teardown -> unregisterOnline: give up the entry if it is still ours.
UnregisterOnline(c) ==
  /\ cpc[c] = "unregister"
  /\ online' = IF online = c THEN None ELSE online
  /\ cpc' = [cpc EXCEPT ![c] = IF online = c THEN "hasPending" ELSE "setOffline"]
  /\ UNCHANGED <<cur, stateVars, chanVars, regOnline, closed, sendq, cgen, prev,
                 target, callVars, adminVars, agentVars>>

\* unregisterOnline: is any dispatch in flight?
HasPending(c) ==
  /\ cpc[c] = "hasPending"
  /\ cur' = StateGen
  /\ cgen' = [cgen EXCEPT ![c] = StateGen]
  /\ cpc' = [cpc EXCEPT ![c] =
               IF pending[StateGen] # {} THEN "startGrace" ELSE "setOffline"]
  /\ UNCHANGED <<online, stateVars, chanVars, regOnline, closed, sendq, prev,
                 target, callVars, adminVars, agentVars>>

\* unregisterOnline: deviceState.startGrace, replacing a running timer.
StartGrace(c) ==
  /\ cpc[c] = "startGrace"
  /\ timer' = [timer EXCEPT ![cgen[c]] = TRUE]
  /\ cpc' = [cpc EXCEPT ![c] = "setOffline"]
  /\ UNCHANGED <<hubVars, pending, byPrefix, firing, chanVars, regOnline,
                 closed, sendq, cgen, prev, target, callVars, adminVars,
                 agentVars>>

\* teardown ends: Registry.SetOnline(false), unconditionally, and ws.Close.
SetOffline(c) ==
  /\ cpc[c] = "setOffline"
  /\ regOnline' = FALSE
  /\ cpc' = [cpc EXCEPT ![c] = "down"]
  /\ Close(c)
  /\ acked' = [acked EXCEPT ![c] = FALSE]
  /\ UNCHANGED <<hubVars, stateVars, chanVars, cgen, prev, target, callVars,
                 adminVars, agentConn, atAgent>>
-----------------------------------------------------------------------------
(***************************************************************************)
(* Bridge.Dispatch.                                                        *)
(***************************************************************************)

\* Hub.Connection: ErrDeviceOffline if the device has no active connection.
LookupConnection(d) ==
  /\ bpc[d] = "idle"
  /\ bconn' = [bconn EXCEPT ![d] = online]
  /\ bpc' = [bpc EXCEPT ![d] = IF online = None THEN "done" ELSE "state"]
  /\ UNCHANGED <<hubVars, stateVars, chanVars, regOnline, connVars, bgen,
                 ctxDone, adminVars, agentVars>>

\* Connection.registerPending: Hub.state hands out the device's state object.
LookupState(d) ==
  /\ bpc[d] = "state"
  /\ cur' = StateGen
  /\ bgen' = [bgen EXCEPT ![d] = StateGen]
  /\ bpc' = [bpc EXCEPT ![d] = "register"]
  /\ UNCHANGED <<online, stateVars, chanVars, regOnline, connVars, bconn,
                 ctxDone, adminVars, agentVars>>

\* deviceState.registerPending on that object, which may have been orphaned by
\* a revocation since; a live call with the same prefix is an error.
RegisterPending(d) ==
  /\ bpc[d] = "register"
  /\ LET g == bgen[d] IN
       IF \E e \in byPrefix[g] : Prefix[e] = Prefix[d]
       THEN /\ bpc' = [bpc EXCEPT ![d] = "done"]
            /\ bconn' = [bconn EXCEPT ![d] = None]
            /\ UNCHANGED <<pending, byPrefix>>
       ELSE /\ bpc' = [bpc EXCEPT ![d] = "send"]
            /\ pending' = [pending EXCEPT ![g] = @ \cup {d}]
            /\ byPrefix' = [byPrefix EXCEPT ![g] = @ \cup {d}]
            /\ UNCHANGED bconn
  /\ UNCHANGED <<hubVars, timer, firing, chanVars, regOnline, connVars, bgen,
                 ctxDone, adminVars, agentVars>>

\* Dispatch: enqueue the dispatch envelope on the connection looked up first.
SendDispatch(d) ==
  /\ bpc[d] = "send"
  /\ TrySend(bconn[d], Message("dispatch", d))
  /\ bpc' = [bpc EXCEPT ![d] = "wait"]
  /\ bconn' = [bconn EXCEPT ![d] = None]   \* not used again
  /\ UNCHANGED <<hubVars, stateVars, chanVars, regOnline, cpc, closed, cgen,
                 prev, target, bgen, ctxDone, adminVars, agentVars>>

\* waitForResult: a message is received.  Progress is passed on and the loop
\* continues; a terminal message returns.
ReceiveMessage(d) ==
  /\ bpc[d] = "wait" /\ queue[d] # <<>>
  /\ queue' = [queue EXCEPT ![d] = Tail(@)]
  /\ bpc' = IF Head(queue[d]) = Terminal
            THEN [bpc EXCEPT ![d] = "unregister"]
            ELSE bpc
  /\ UNCHANGED <<hubVars, stateVars, closing, chOpen, regOnline, connVars,
                 bconn, bgen, ctxDone, adminVars, agentVars>>

\* waitForResult: the channel was closed by expire and is drained.
ReceiveClosed(d) ==
  /\ bpc[d] \in {"wait", "final"} /\ queue[d] = <<>> /\ ~chOpen[d]
  /\ bpc' = [bpc EXCEPT ![d] = "unregister"]
  /\ UNCHANGED <<hubVars, stateVars, chanVars, regOnline, connVars, bconn, bgen,
                 ctxDone, adminVars, agentVars>>

\* waitForResult: ctx.Done.  Cancel goes out on the device's current
\* connection, then one more message or two seconds are awaited.
SendCancel(d) ==
  /\ bpc[d] = "wait" /\ ctxDone[d]
  /\ TrySend(online, Message("cancel", d))
  /\ bpc' = [bpc EXCEPT ![d] = "final"]
  /\ UNCHANGED <<hubVars, stateVars, chanVars, regOnline, cpc, closed, cgen,
                 prev, target, bconn, bgen, ctxDone, adminVars, agentVars>>

\* The last message before giving up, terminal or not.
FinalMessage(d) ==
  /\ bpc[d] = "final" /\ queue[d] # <<>>
  /\ queue' = [queue EXCEPT ![d] = Tail(@)]
  /\ bpc' = [bpc EXCEPT ![d] = "unregister"]
  /\ UNCHANGED <<hubVars, stateVars, closing, chOpen, regOnline, connVars,
                 bconn, bgen, ctxDone, adminVars, agentVars>>

\* A wait after cancel that only the agent's answer can end.
FinalTimeoutNever(d) == FALSE

\* A give-up that returns around the deferred unregister.
FinalTimeoutLeaks(d) ==
  /\ bpc[d] = "final"
  /\ bpc' = [bpc EXCEPT ![d] = "done"]
  /\ UNCHANGED <<hubVars, stateVars, chanVars, regOnline, connVars, bconn, bgen,
                 ctxDone, adminVars, agentVars>>

\* time.After(2s) in waitForResult.
FinalTimeout(d) ==
  /\ bpc[d] = "final"
  /\ bpc' = [bpc EXCEPT ![d] = "unregister"]
  /\ UNCHANGED <<hubVars, stateVars, chanVars, regOnline, connVars, bconn, bgen,
                 ctxDone, adminVars, agentVars>>

\* An unregister that leaves the prefix index alone.
UnregisterPendingOnly(d) ==
  /\ bpc[d] = "unregister"
  /\ cur' = StateGen
  /\ pending' = [pending EXCEPT ![StateGen] = @ \ {d}]
  /\ bpc' = [bpc EXCEPT ![d] = "done"]
  /\ UNCHANGED <<online, byPrefix, timer, firing, chanVars, regOnline, connVars,
                 bconn, bgen, ctxDone, adminVars, agentVars>>

\* The deferred unregisterPending, on whatever state object the Hub has now;
\* deleting by prefix also drops a later call that reuses the prefix.
UnregisterPending(d) ==
  /\ bpc[d] = "unregister"
  /\ cur' = StateGen
  /\ pending' = [pending EXCEPT ![StateGen] = @ \ {d}]
  /\ byPrefix' = [byPrefix EXCEPT ![StateGen] =
                    {e \in @ : Prefix[e] # Prefix[d]}]
  /\ bpc' = [bpc EXCEPT ![d] = "done"]
  /\ UNCHANGED <<online, timer, firing, chanVars, regOnline, connVars, bconn,
                 bgen, ctxDone, adminVars, agentVars>>

\* The caller's context ends: the client cancels, or the request is gone.  An
\* earlier end is first seen when the call waits.
CancelContext(d) ==
  /\ ~ctxDone[d] /\ bpc[d] = "wait"
  /\ ctxDone' = [ctxDone EXCEPT ![d] = TRUE]
  /\ UNCHANGED <<hubVars, stateVars, chanVars, regOnline, connVars, bpc, bconn,
                 bgen, adminVars, agentVars>>
-----------------------------------------------------------------------------
(***************************************************************************)
(* Grace timers and channel closing.                                       *)
(***************************************************************************)

\* The grace period elapses: the runtime starts expire in its own goroutine,
\* which a later Stop can no longer prevent.
TimerFires(g) ==
  /\ timer[g]
  /\ timer' = [timer EXCEPT ![g] = FALSE]
  /\ firing' = [firing EXCEPT ![g] = @ + 1]
  /\ UNCHANGED <<hubVars, pending, byPrefix, chanVars, regOnline, connVars,
                 callVars, adminVars, agentVars>>

\* That goroutine takes the state's lock.
TimerExpires(g) ==
  /\ firing[g] > 0
  /\ firing' = [firing EXCEPT ![g] = @ - 1]
  /\ Expire(g)
  /\ UNCHANGED <<hubVars, queue, chOpen, regOnline, connVars, callVars,
                 adminVars, agentVars>>

\* expire's loop outside the lock: close one collected channel.
CloseChannel(d) ==
  /\ closing[d] > 0
  /\ closing' = [closing EXCEPT ![d] = @ - 1]
  /\ chOpen' = [chOpen EXCEPT ![d] = FALSE]
  /\ UNCHANGED <<hubVars, stateVars, queue, regOnline, connVars, callVars,
                 adminVars, agentVars>>
-----------------------------------------------------------------------------
(***************************************************************************)
(* The admin API's revoke, and server shutdown.                            *)
(***************************************************************************)

\* handleRevoke: Registry.Revoke deletes the record.
RevokeRecord ==
  /\ rpc = "idle" /\ "revoke" \in Admin
  /\ rpc' = "take"
  /\ regOnline' = FALSE
  /\ UNCHANGED <<hubVars, stateVars, chanVars, connVars, callVars, rconn, rgen,
                 spc, sconn, agentVars>>

\* Hub.RevokeDevice: take the connection and the state, delete the latter, and
\* enqueue the "revoked" close envelope.
RevokeTake ==
  /\ rpc = "take"
  /\ rpc' = "close"
  /\ rconn' = online /\ rgen' = cur /\ cur' = 0
  /\ TrySend(online, Message("close", None))
  /\ UNCHANGED <<online, stateVars, chanVars, regOnline, cpc, closed, cgen,
                 prev, target, callVars, spc, sconn, agentVars>>

\* RevokeDevice, 100 ms later: close the connection, expire the state taken.
RevokeClose ==
  /\ rpc = "close"
  /\ rpc' = "done"
  /\ Close(rconn)
  /\ IF rgen = 0
     THEN UNCHANGED <<pending, byPrefix, timer, closing>>
     ELSE Expire(rgen)
  /\ rconn' = None /\ rgen' = 0
  /\ UNCHANGED <<hubVars, firing, queue, chOpen, regOnline, cpc, cgen, prev,
                 target, callVars, spc, sconn, agentVars>>

\* Hub.Shutdown: snapshot the online connections and send each a "close"
\* envelope.
ShutdownBegin ==
  /\ spc = "idle" /\ "shutdown" \in Admin
  /\ spc' = "close" /\ sconn' = online
  /\ TrySend(online, Message("close", None))
  /\ UNCHANGED <<hubVars, stateVars, chanVars, regOnline, cpc, closed, cgen,
                 prev, target, callVars, rpc, rconn, rgen, agentVars>>

\* Hub.Shutdown, 50 ms later: the close frame to each connection of the snapshot.
ShutdownClose ==
  /\ spc = "close"
  /\ spc' = "wait" /\ sconn' = None
  /\ Close(sconn)
  /\ UNCHANGED <<hubVars, stateVars, chanVars, regOnline, cpc, cgen, prev,
                 target, callVars, rpc, rconn, rgen, agentVars>>

\* Hub.Shutdown: connWG.Wait returns when no connection goroutine runs; only
\* then does the server close its listener.
ShutdownReturn ==
  /\ spc = "wait"
  /\ \A c \in Conns : cpc[c] \in {"idle", "down"}
  /\ spc' = "done"
  /\ UNCHANGED <<hubVars, stateVars, chanVars, regOnline, connVars, callVars,
                 rpc, rconn, rgen, sconn, agentVars>>
-----------------------------------------------------------------------------
(***************************************************************************)
(* The agent process and the network, as far as the Hub can see them.      *)
(***************************************************************************)

\* The agent loses or gives up its connection; the server may not notice yet.
AgentLeaves ==
  /\ agentConn # None
  /\ agentConn' = None
  /\ UNCHANGED <<hubVars, stateVars, chanVars, regOnline, connVars, callVars,
                 adminVars, acked, atAgent>>

-----------------------------------------------------------------------------
Init ==
  /\ online = None /\ cur = 0
  /\ pending = [g \in Gens |-> {}] /\ byPrefix = [g \in Gens |-> {}]
  /\ timer = [g \in Gens |-> FALSE] /\ firing = [g \in Gens |-> 0]
  /\ closing = [d \in Calls |-> 0]
  /\ queue = [d \in Calls |-> <<>>] /\ chOpen = [d \in Calls |-> TRUE]
  /\ regOnline \in BOOLEAN    \* as persisted before the server last stopped
  /\ cpc = [c \in Conns |-> "idle"] /\ closed = [c \in Conns |-> FALSE]
  /\ sendq = [c \in Conns |-> <<>>] /\ cgen = [c \in Conns |-> 1]
  /\ prev = [c \in Conns |-> None] /\ target = [c \in Conns |-> NoTarget]
  /\ bpc = [d \in Calls |-> "idle"] /\ bconn = [d \in Calls |-> None]
  /\ bgen = [d \in Calls |-> 1] /\ ctxDone = [d \in Calls |-> FALSE]
  /\ rpc = "idle" /\ rconn = None /\ rgen = 0
  /\ spc = "idle" /\ sconn = None
  /\ agentConn = None /\ acked = [c \in Conns |-> FALSE] /\ atAgent = {}

\* Steps of Connection.run that wait for nothing outside the server.
ConnStep(c) ==
  \/ Authenticate(c) \/ SetOnline(c) \/ RegisterOnline(c) \/ ClosePrev(c)
  \/ Resume(c) \/ SendAck(c) \/ Deliver(c) \/ UnregisterOnline(c)
  \/ HasPending(c) \/ StartGrace(c) \/ SetOffline(c)

\* Steps of Bridge.Dispatch once it has started.
CallStep(d) ==
  \/ LookupState(d) \/ RegisterPending(d) \/ SendDispatch(d)
  \/ ReceiveClosed(d) \/ FinalMessage(d) \/ FinalTimeout(d)
  \/ UnregisterPending(d)

RevokeStep == RevokeTake \/ RevokeClose
ShutdownStep == ShutdownClose \/ ShutdownReturn

\* Every connection and call of the instance is used up.
Quiescent ==
  /\ \A c \in Conns : cpc[c] \in {"idle", "down"}
  /\ \A d \in Calls : bpc[d] = "done"
  /\ rpc \in {"idle", "done"} /\ spc \in {"idle", "done"}
  /\ UNCHANGED vars

Next ==
  \/ \E c \in Conns : \/ Connect(c) \/ HandshakeFails(c) \/ ConnStep(c)
                      \/ Write(c) \/ ReadError(c)
  \/ \E c \in Conns, d \in Calls, kind \in {Progress, Terminal, "binary"} :
       ReadFrame(c, d, kind)
  \/ \E d \in Calls : \/ LookupConnection(d) \/ CallStep(d)
                      \/ ReceiveMessage(d) \/ SendCancel(d)
                      \/ CancelContext(d) \/ CloseChannel(d)
  \/ \E g \in Gens : TimerFires(g) \/ TimerExpires(g)
  \/ RevokeRecord \/ RevokeStep
  \/ ShutdownBegin \/ ShutdownStep
  \/ AgentLeaves
  \/ Quiescent

\* The read of a connection whose peer left, or that sent its close frame, ends:
\* the pings stop or go unanswered, only a pong moves the read deadline, and the
\* frames still in the socket are finite.
ReadErrorDue(c) == ReadError(c) /\ (closed[c] \/ agentConn # c)

\* Goroutines of the server are scheduled; select picks among ready cases at
\* random, so a pending cancel is not passed over for ever.  The reader leaves
\* and re-enters "read" with every frame, so its read deadline needs SF.  Nothing
\* is assumed of the agent, of clients or of the operator.
Fairness ==
  /\ \A c \in Conns : /\ WF_vars(ConnStep(c)) /\ WF_vars(Write(c))
                      /\ SF_vars(ReadErrorDue(c)) /\ WF_vars(HandshakeFails(c))
  /\ \A d \in Calls : /\ WF_vars(CallStep(d)) /\ WF_vars(ReceiveMessage(d))
                      /\ WF_vars(SendCancel(d)) /\ WF_vars(CloseChannel(d))
  /\ \A g \in Gens : WF_vars(TimerFires(g)) /\ WF_vars(TimerExpires(g))
  /\ WF_vars(RevokeStep) /\ WF_vars(ShutdownStep)

Spec == Init /\ [][Next]_vars
FairSpec == Spec /\ Fairness
-----------------------------------------------------------------------------
(***************************************************************************)
(* Properties.                                                             *)
(***************************************************************************)

\* Types of all variables, and the capacities of the two kinds of channels.
TypeOK ==
  /\ online \in Conns \cup {None} /\ cur \in 0..2
  /\ pending \in [Gens -> SUBSET Calls] /\ byPrefix \in [Gens -> SUBSET Calls]
  /\ timer \in [Gens -> BOOLEAN] /\ firing \in [Gens -> Nat]
  /\ closing \in [Calls -> Nat]
  /\ queue \in [Calls -> Seq({Progress, Terminal})]
  /\ \A d \in Calls : Len(queue[d]) <= ChanCap
  /\ chOpen \in [Calls -> BOOLEAN]
  /\ regOnline \in BOOLEAN
  /\ cpc \in [Conns -> ConnPCs] /\ closed \in [Conns -> BOOLEAN]
  /\ sendq \in [Conns -> Seq(Envelopes)]
  /\ \A c \in Conns : Len(sendq[c]) <= SendCap
  /\ cgen \in [Conns -> Gens] /\ prev \in [Conns -> Conns \cup {None}]
  /\ target \in [Conns -> Targets]
  /\ bpc \in [Calls -> CallPCs] /\ bconn \in [Calls -> Conns \cup {None}]
  /\ bgen \in [Calls -> Gens] /\ ctxDone \in [Calls -> BOOLEAN]
  /\ rpc \in {"idle", "take", "close", "done"}
  /\ rconn \in Conns \cup {None} /\ rgen \in 0..2
  /\ spc \in {"idle", "close", "wait", "done"} /\ sconn \in Conns \cup {None}
  /\ agentConn \in Conns \cup {None} /\ acked \in [Conns -> BOOLEAN]
  /\ atAgent \in SUBSET Calls

\* What a connection carries between two steps fits the place it is at: a resume
\* answer before hello_ack, a resolved channel before a delivery.
TargetOK ==
  \A c \in Conns :
    /\ cpc[c] = "ack" => target[c].type \in {"ackResume", "ackFresh"}
    /\ cpc[c] = "deliver" => target[c].type \in {Progress, Terminal}

\* No bridge channel is ever closed twice, although the grace timer's expire
\* and RevokeDevice's expire may run at the same time (a second close panics in
\* a goroutine nothing recovers, and takes the server down).
NoDoubleClose ==
  \A d \in Calls : closing[d] + (IF chOpen[d] THEN 0 ELSE 1) <= 1

\* A registration in the device's current state belongs to a call that is still
\* running: no path out of Dispatch leaks one, so hasPending and the resume flag
\* never speak of finished work.
NoLeakedRegistration ==
  cur # 0 => \A d \in pending[cur] : CallActive(d)

\* The prefix index has no entry without a registration: a binary frame is
\* never routed to a call that is gone.
PrefixIndexSound == \A g \in Gens : byPrefix[g] \subseteq pending[g]

\* Strengthenings of the registration invariants, for their proof.

\* The second deviceState exists only once RevokeDevice has dropped the first.
Replaced == rpc \in {"close", "done"}
GenerationOrder ==
  IF Replaced
  THEN cur # 1
  ELSE cur # 2 /\ pending[2] = {} /\ \A d \in Calls : bgen[d] = 1

\* A call that has not registered has an open channel nobody else knows.
UnregisteredFresh ==
  \A d \in Calls :
    bpc[d] \in {"idle", "state", "register"} =>
      /\ closing[d] = 0 /\ chOpen[d]
      /\ \A g \in Gens : d \notin pending[g]

\* A registered channel is open and belongs to one state object only, and no
\* expire loop holds it.
RegisteredOpen ==
  /\ \A g \in Gens : \A d \in pending[g] : closing[d] = 0 /\ chOpen[d]
  /\ pending[1] \cap pending[2] = {}

\* The state object the Hub would hand out holds running calls only.
HeldByRunningCalls == \A d \in pending[StateGen] : CallActive(d)

RegistrationInv ==
  /\ GenerationOrder /\ UnregisteredFresh /\ RegisteredOpen
  /\ HeldByRunningCalls /\ NoDoubleClose

\* hub.go: "any previous connection for the same device ID is closed".  The
\* entry changes hands under Hub.mu and the close frame follows after the unlock,
\* so for a while two connections are live; but no connection is forgotten: one
\* that has registered and not begun its teardown is the active one, has been
\* told to close, or is held by a successor that is about to close it, also when
\* that successor is itself replaced in between.
ReplacedIsClosed ==
  \A c \in Conns :
    cpc[c] \in {"closePrev", "resume", "ack", "read", "deliver"} =>
      \/ online = c \/ closed[c]
      \/ \E b \in Conns : cpc[b] = "closePrev" /\ prev[b] = c

\* The Hub never hands a dispatch a connection whose teardown is past
\* unregisterOnline (or that never authenticated).
OnlineIsRunning ==
  online # None =>
    cpc[online] \in {"closePrev", "resume", "ack", "read", "deliver",
                     "unregister"}

\* resume:false tells the agent to cancel all it is doing.  When such a
\* hello_ack reaches it, the server waits for none of the calls it holds.
FreshAckOrphansNothing ==
  \A c \in Conns :
    ( /\ agentConn = c /\ ~closed[c] /\ ~acked[c] /\ cur # 0
      /\ sendq[c] # <<>> /\ Head(sendq[c]).type = "ackFresh" )
    => atAgent \cap pending[cur] = {}

\* hub.go: "a stale unregister from a superseded connection must not clobber a
\* newer one".  Once every other connection of a device is finished, its active
\* one finds the device as it left it: online in the registry, and no grace
\* timer armed, which is "running while disconnected" (teardown,
\* unregisterOnline, startGrace).
SuccessorKeepsState ==
  ( /\ online # None /\ ~Revoked /\ cpc[online] = "read"
    /\ \A c \in Conns \ {online} : cpc[c] \in {"idle", "down"} )
  => regOnline /\ (cur # 0 => ~timer[cur])

\* Dispatch: once a terminal message is in its channel, its channel is closed
\* or its context is cancelled, a waiting call returns, whatever else happens.
DispatchReturns ==
  \A d \in Calls :
    ( /\ bpc[d] \in {"wait", "final"}
      /\ \/ ctxDone[d] \/ ~chOpen[d]
         \/ \E i \in DOMAIN queue[d] : queue[d][i] = Terminal )
    ~> (bpc[d] = "done")

\* Dispatch's contract: it blocks until "the connection is lost" at the latest.
\* A call does not wait for ever on a device that stays offline.
LossEndsDispatch ==
  \A d \in Calls :
    (bpc[d] = "wait" /\ online = None) ~> (bpc[d] # "wait" \/ online # None)

\* A connection that was told to close (superseded, shut down) is
\* torn down in the end.
ClosedIsTornDown == \A c \in Conns : closed[c] ~> cpc[c] = "down"
=============================================================================
