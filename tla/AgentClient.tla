---------------------------- MODULE AgentClient ----------------------------
(***************************************************************************)
(* The agent process: connectionLifecycle and runConnection                *)
(* (cmd/agent/main.go), the Outbox (agent/client/outbox.go) and the        *)
(* Dispatcher's table of running work (agent/client/dispatch.go).          *)
(*                                                                         *)
(* One goroutine runs the lifecycle, one each dispatch, one each expiry of *)
(* the agent's own grace timer.  A step is one critical section            *)
(* (Outbox.mu, Dispatcher.mu) or one write to the socket.  The server is   *)
(* external: it accepts a connection, says resume or not, sends dispatches *)
(* and cancels, and may disappear at any moment.                           *)
(***************************************************************************)
EXTENDS Naturals, Sequences, FiniteSets

CONSTANTS
  Dispatches,    \* correlation IDs
  NFrames,       \* binary frames a dispatch streams before its result
  MaxConn,       \* connections that succeed in a run
  MaxEnvelopes,  \* maxBufferedEnvelopes (256)
  MaxFrames      \* maxBufferedFrames (128)

ASSUME NFramesAssumption == NFrames \in Nat
ASSUME MaxConnAssumption == MaxConn \in Nat
ASSUME BufferAssumption == MaxEnvelopes \in Nat \ {0} /\ MaxFrames \in Nat \ {0}

VARIABLES
  life,       \* where connectionLifecycle is
  resume,     \* the Resume flag of the last hello_ack
  conn,       \* number of the current connection, 0 before the first
  up,         \* the current connection's socket works
  attached,   \* Outbox.conn: a connection number, 0 for nil
  envelopes,  \* Outbox.envelopes
  frames,     \* Outbox.frames
  backlog,    \* what Attach took out of the buffers and has not sent yet
  timer,      \* the agent's grace timer is armed
  cancelling, \* expired timers whose abandon has not run CancelAll yet
  dropping,   \* ... has run CancelAll and not Drop
  work,       \* where each dispatch goroutine is
  next,       \* the item it produces next: a frame number, or the result
  snap,       \* the connection its send read from the Outbox
  inFlight,   \* Dispatcher.inFlight
  cancelled,  \* dispatches whose context is cancelled
  wire,       \* items written to a working socket, in order
  discarded   \* items thrown away by Drop, by a fresh Attach or by overflow

lifeVars == <<life, resume, conn, up>>
boxVars  == <<attached, envelopes, frames, backlog>>
timeVars == <<timer, cancelling, dropping>>
workVars == <<work, next, snap, inFlight, cancelled>>
vars == <<lifeVars, boxVars, timeVars, workVars, wire, discarded>>

ResultNo == NFrames + 1
Item(d, i) == [dispatch |-> d, no |-> i]
Items == [dispatch : Dispatches, no : 1..ResultNo]
IsResult(x) == x.no = ResultNo

LifePCs == {"dial", "cancelAll", "drop", "attach", "flush", "run", "detach"}
WorkPCs == {"absent", "started", "running", "returned", "sending", "buffering",
            "done"}
Elements(s) == {s[i] : i \in DOMAIN s}
-----------------------------------------------------------------------------
(***************************************************************************)
(* connectionLifecycle and runConnection.                                  *)
(***************************************************************************)

\* Connect returns with a hello_ack and the grace timer is stopped.  Failed
\* attempts only wait and try again.  A server may hold work for an agent that
\* knows of none, so the flag is not constrained.
Connect(r) ==
  /\ life = "dial" /\ conn < MaxConn
  /\ conn' = conn + 1 /\ up' = TRUE /\ resume' = r
  /\ timer' = FALSE
  /\ life' = IF r THEN "attach" ELSE "cancelAll"
  /\ UNCHANGED <<boxVars, cancelling, dropping, workVars, wire, discarded>>

\* abandon on a fresh session: Dispatcher.CancelAll (and the shell sessions) ...
AbandonCancelAll ==
  /\ life = "cancelAll"
  /\ cancelled' = cancelled \cup inFlight
  /\ life' = "drop"
  /\ UNCHANGED <<resume, conn, up, boxVars, timeVars, work, next, snap, inFlight,
                 wire, discarded>>

\* Outbox.Drop.
Drop ==
  /\ frames' = <<>> /\ envelopes' = <<>>
  /\ discarded' = discarded \cup Elements(frames) \cup Elements(envelopes)

\* ... then Outbox.Drop.
AbandonDrop ==
  /\ life = "drop"
  /\ Drop
  /\ life' = "attach"
  /\ UNCHANGED <<resume, conn, up, attached, backlog, timeVars, workVars, wire>>

\* An Attach that sends the backlog without taking it out of the buffers.
AttachKeepsBuffers ==
  /\ life = "attach"
  /\ attached' = conn
  /\ backlog' = IF resume THEN frames \o envelopes ELSE <<>>
  /\ life' = IF resume THEN "flush" ELSE "run"
  /\ UNCHANGED <<resume, conn, up, envelopes, frames, timeVars, workVars, wire,
                 discarded>>

\* Outbox.Attach, under its lock: take the backlog, become the send path.
\* Binary frames come before envelopes; a fresh session drops both.
Attach ==
  /\ life = "attach"
  /\ attached' = conn
  /\ frames' = <<>> /\ envelopes' = <<>>
  /\ backlog' = IF resume THEN frames \o envelopes ELSE <<>>
  /\ discarded' = IF resume THEN discarded
                  ELSE discarded \cup Elements(frames) \cup Elements(envelopes)
  /\ life' = IF resume THEN "flush" ELSE "run"
  /\ UNCHANGED <<resume, conn, up, timeVars, workVars, wire>>

\* Attach outside the lock: write the next item of the backlog; at the first
\* failure return, and with it forget the rest.
FlushItem ==
  /\ life = "flush" /\ backlog # <<>>
  /\ \/ /\ up
        /\ wire' = Append(wire, Head(backlog))
        /\ backlog' = Tail(backlog)
        /\ UNCHANGED life
     \/ /\ ~up
        /\ backlog' = <<>>
        /\ life' = "run"
        /\ UNCHANGED wire
  /\ UNCHANGED <<resume, conn, up, attached, envelopes, frames, timeVars,
                 workVars, discarded>>

FlushDone ==
  /\ life = "flush" /\ backlog = <<>>
  /\ life' = "run"
  /\ UNCHANGED <<resume, conn, up, boxVars, timeVars, workVars, wire, discarded>>

\* runConnection reads a dispatch envelope and starts its goroutine.
ReceiveDispatch(d) ==
  /\ life = "run" /\ up /\ work[d] = "absent"
  /\ work' = [work EXCEPT ![d] = "started"]
  /\ UNCHANGED <<lifeVars, boxVars, timeVars, next, snap, inFlight, cancelled,
                 wire, discarded>>

\* runConnection reads a cancel envelope: Dispatcher.HandleCancel, a no-op for
\* a dispatch that is not registered (yet).
ReceiveCancel(d) ==
  /\ life = "run" /\ up /\ d \in inFlight
  /\ cancelled' = cancelled \cup {d}
  /\ UNCHANGED <<lifeVars, boxVars, timeVars, work, next, snap, inFlight, wire,
                 discarded>>

\* The connection breaks: a missed pong, a read or a write error.
ConnectionDies ==
  /\ life \in {"cancelAll", "drop", "attach", "flush", "run"} /\ up
  /\ up' = FALSE
  /\ UNCHANGED <<life, resume, conn, boxVars, timeVars, workVars, wire, discarded>>

\* runConnection returns and the connection is closed.
RunEnds ==
  /\ life = "run" /\ ~up
  /\ life' = "detach"
  /\ UNCHANGED <<resume, conn, up, boxVars, timeVars, workVars, wire, discarded>>

\* A lifecycle that reconnects without detaching the Outbox.
DetachKeeps ==
  /\ life = "detach"
  /\ timer' = TRUE
  /\ life' = "dial"
  /\ UNCHANGED <<resume, conn, up, boxVars, cancelling, dropping, workVars, wire,
                 discarded>>

\* Outbox.Detach, and the grace timer is armed for the time to come.
Detach ==
  /\ life = "detach"
  /\ attached' = 0
  /\ timer' = TRUE
  /\ life' = "dial"
  /\ UNCHANGED <<resume, conn, up, envelopes, frames, backlog, cancelling,
                 dropping, workVars, wire, discarded>>

\* The agent's grace period elapses: abandon runs in a goroutine of its own,
\* which a later stopGrace cannot stop.
TimerFires ==
  /\ timer
  /\ timer' = FALSE
  /\ cancelling' = cancelling + 1
  /\ UNCHANGED <<lifeVars, boxVars, dropping, workVars, wire, discarded>>

TimerCancelAll ==
  /\ cancelling > 0
  /\ cancelling' = cancelling - 1 /\ dropping' = dropping + 1
  /\ cancelled' = cancelled \cup inFlight
  /\ UNCHANGED <<lifeVars, boxVars, timer, work, next, snap, inFlight, wire,
                 discarded>>

TimerDrop ==
  /\ dropping > 0
  /\ dropping' = dropping - 1
  /\ Drop
  /\ UNCHANGED <<lifeVars, attached, backlog, timer, cancelling, workVars, wire>>
-----------------------------------------------------------------------------
(***************************************************************************)
(* A dispatch goroutine: HandleDispatch, streaming through                 *)
(* Outbox.SendBinary, then the result through Outbox.SendEnvelope.         *)
(***************************************************************************)

\* A handler that can be cancelled (shell_exec, shell_session_write,
\* screenshot_watch) registers its cancel function; the others only run.
Register(d) ==
  /\ work[d] = "started"
  /\ work' = [work EXCEPT ![d] = "running"]
  /\ inFlight' \in {inFlight, inFlight \cup {d}}
  /\ UNCHANGED <<lifeVars, boxVars, timeVars, next, snap, cancelled, wire,
                 discarded>>

\* A handler that returns without its deferred unregister.
FinishLeaks(d) ==
  /\ work[d] = "running"
  /\ work' = [work EXCEPT ![d] = "returned"]
  /\ next' = [next EXCEPT ![d] = ResultNo]
  /\ UNCHANGED <<lifeVars, boxVars, timeVars, snap, inFlight, cancelled, wire,
                 discarded>>

\* The handler returns (invalid input, the work is done, failed or was
\* cancelled), with its deferred unregister.  A killed command may still have
\* flushed output after its context was cancelled.
Finish(d) ==
  /\ work[d] = "running"
  /\ work' = [work EXCEPT ![d] = "returned"]
  /\ next' = [next EXCEPT ![d] = ResultNo]
  /\ inFlight' = inFlight \ {d}
  /\ UNCHANGED <<lifeVars, boxVars, timeVars, snap, cancelled, wire, discarded>>

\* A send that waits until there is a connection.
BeginSendWaits(d) ==
  /\ \/ work[d] = "running" /\ next[d] < ResultNo
     \/ work[d] = "returned"
  /\ attached # 0
  /\ snap' = [snap EXCEPT ![d] = attached]
  /\ work' = [work EXCEPT ![d] = "sending"]
  /\ UNCHANGED <<lifeVars, boxVars, timeVars, next, inFlight, cancelled, wire,
                 discarded>>

\* SendBinary / SendEnvelope, first critical section: read Outbox.conn.
BeginSend(d) ==
  /\ \/ work[d] = "running" /\ next[d] < ResultNo
     \/ work[d] = "returned"
  /\ snap' = [snap EXCEPT ![d] = attached]
  /\ work' = [work EXCEPT ![d] = IF attached = 0 THEN "buffering" ELSE "sending"]
  /\ UNCHANGED <<lifeVars, boxVars, timeVars, next, inFlight, cancelled, wire,
                 discarded>>

\* The goroutine goes on after a send: next frame, or done after the result.
AfterSend(d) ==
  /\ work' = [work EXCEPT ![d] = IF next[d] = ResultNo THEN "done" ELSE "running"]
  /\ next' = [next EXCEPT ![d] = IF @ = ResultNo THEN @ ELSE @ + 1]
  /\ snap' = [snap EXCEPT ![d] = 0]

\* The write on the connection that was read, under no Outbox lock.  It fails
\* when that connection is broken or has been replaced.
Write(d) ==
  /\ work[d] = "sending"
  /\ \/ /\ snap[d] = conn /\ up
        /\ wire' = Append(wire, Item(d, next[d]))
        /\ AfterSend(d)
     \/ /\ ~(snap[d] = conn /\ up)
        /\ work' = [work EXCEPT ![d] = "buffering"]
        /\ UNCHANGED <<next, snap, wire>>
  /\ UNCHANGED <<lifeVars, boxVars, timeVars, inFlight, cancelled, discarded>>

\* A buffer that grows without bound.
PushUnbounded(buf, max, x) == Append(buf, x)

\* Append to a bounded buffer, dropping its oldest element when it is full.
Push(buf, max, x) == Append(IF Len(buf) >= max THEN Tail(buf) ELSE buf, x)

\* SendBinary / SendEnvelope, second critical section: buffer the item.
Buffer(d) ==
  /\ work[d] = "buffering"
  /\ LET x == Item(d, next[d]) IN
       IF IsResult(x)
       THEN /\ envelopes' = Push(envelopes, MaxEnvelopes, x)
            /\ discarded' = discarded \cup (Elements(envelopes) \ Elements(envelopes'))
            /\ UNCHANGED frames
       ELSE /\ frames' = Push(frames, MaxFrames, x)
            /\ discarded' = discarded \cup (Elements(frames) \ Elements(frames'))
            /\ UNCHANGED envelopes
  /\ AfterSend(d)
  /\ UNCHANGED <<lifeVars, attached, backlog, timeVars, inFlight, cancelled, wire>>
-----------------------------------------------------------------------------
Init ==
  /\ life = "dial" /\ resume = FALSE /\ conn = 0 /\ up = FALSE
  /\ attached = 0 /\ envelopes = <<>> /\ frames = <<>> /\ backlog = <<>>
  /\ timer = FALSE /\ cancelling = 0 /\ dropping = 0
  /\ work = [d \in Dispatches |-> "absent"] /\ next = [d \in Dispatches |-> 1]
  /\ snap = [d \in Dispatches |-> 0]
  /\ inFlight = {} /\ cancelled = {} /\ wire = <<>> /\ discarded = {}

WorkStep(d) == BeginSend(d) \/ Write(d) \/ Buffer(d)

LifeStep ==
  \/ AbandonCancelAll \/ AbandonDrop \/ Attach \/ FlushItem \/ FlushDone
  \/ RunEnds \/ Detach

\* The instance has no connection left and no work runs.
Quiescent ==
  /\ life = "dial" /\ conn = MaxConn
  /\ \A d \in Dispatches : work[d] \in {"absent", "done"}
  /\ UNCHANGED vars

Next ==
  \/ \E r \in BOOLEAN : Connect(r)
  \/ LifeStep \/ ConnectionDies
  \/ TimerFires \/ TimerCancelAll \/ TimerDrop
  \/ \E d \in Dispatches :
       \/ ReceiveDispatch(d) \/ ReceiveCancel(d)
       \/ Register(d) \/ Finish(d) \/ WorkStep(d)
  \/ Quiescent

\* Goroutines are scheduled, and every command ends (shell_exec has a time
\* limit, a watch a frame limit).  Nothing is assumed of the network or of the
\* server: the agent may stay disconnected for ever.
Fairness ==
  /\ WF_vars(LifeStep) /\ WF_vars(TimerCancelAll) /\ WF_vars(TimerDrop)
  /\ \A d \in Dispatches : /\ WF_vars(Register(d)) /\ WF_vars(Finish(d))
                           /\ WF_vars(WorkStep(d))

Spec == Init /\ [][Next]_vars
FairSpec == Spec /\ Fairness
-----------------------------------------------------------------------------
(***************************************************************************)
(* Properties.                                                             *)
(***************************************************************************)

\* Types of all variables, and the bounds of the two buffers.
TypeOK ==
  /\ life \in LifePCs /\ resume \in BOOLEAN /\ up \in BOOLEAN
  /\ conn \in 0..MaxConn /\ attached \in 0..MaxConn
  /\ envelopes \in Seq(Items) /\ Len(envelopes) <= MaxEnvelopes
  /\ frames \in Seq(Items) /\ Len(frames) <= MaxFrames
  /\ backlog \in Seq(Items) /\ wire \in Seq(Items)
  /\ timer \in BOOLEAN /\ cancelling \in Nat /\ dropping \in Nat
  /\ work \in [Dispatches -> WorkPCs] /\ next \in [Dispatches -> 1..ResultNo]
  /\ snap \in [Dispatches -> 0..MaxConn]
  /\ inFlight \subseteq Dispatches /\ cancelled \subseteq Dispatches
  /\ discarded \subseteq Items

\* Everything a dispatch has handed to the Outbox is in one place at most: it
\* was written once, waits in a buffer, waits in the flush, or was discarded.
\* No reconnect, flush, failed write or drop duplicates a frame or a result, or
\* brings back a discarded one.
Handed == wire \o backlog \o frames \o envelopes
HandedOnce ==
  /\ \A i, j \in DOMAIN Handed : Handed[i] = Handed[j] => i = j
  /\ Elements(Handed) \cap discarded = {}
  /\ \A d \in Dispatches :
       work[d] # "done" => Item(d, next[d]) \notin Elements(Handed) \cup discarded

\* The Outbox sends on the lifecycle's connection or buffers: it is never left
\* attached to a connection that was replaced.
AttachedIsCurrent ==
  /\ attached \in {0, conn}
  /\ life \in {"flush", "run"} => attached = conn

\* Dispatcher.inFlight holds running handlers only: a cancel or an abandon
\* reaches no finished dispatch, and the table does not grow.
InFlightRuns ==
  \A d \in inFlight :
    \/ work[d] = "running"
    \/ work[d] \in {"sending", "buffering"} /\ next[d] < ResultNo

\* outbox.go: a dispatch's outcome is "delivered, held for a resume, or dropped
\* when the grace period lapses".  No result of a finished dispatch just
\* vanishes.
OutcomeAccounted ==
  \A d \in Dispatches :
    work[d] = "done" => Item(d, ResultNo) \in Elements(Handed) \cup discarded

\* The send path never fails or blocks its caller: a dispatch that started
\* ends, connected or not.
DispatchEnds == \A d \in Dispatches : (work[d] = "started") ~> (work[d] = "done")
=============================================================================
