---------------------------- MODULE EventStream ----------------------------
(***************************************************************************)
(* One MCP session (internal/session): its life in the session store, the  *)
(* idle sweep, the record the Redis store mirrors, and the events that go   *)
(* through EventCh and the replay buffer to the SSE streams of GET /mcp     *)
(* (internal/transport/sse.go).                                             *)
(*                                                                         *)
(* A step is one critical section, one channel operation or one select     *)
(* branch.  An event is only counted until a stream gives it an ID.  The    *)
(* client reads what reaches it, and reconnects with the last ID it has.   *)
(***************************************************************************)
EXTENDS Naturals, Sequences, SequencesExt, FiniteSetsExt

CONSTANTS
  Streams,    \* GET /mcp requests that may be served at the same time
  ReplayCap,  \* capacity of the replay buffer (SSE_REPLAY_BUFFER_SIZE, 500)
  ChanCap,    \* capacity of EventCh (256)
  Plans       \* bound: how many requests and events of each kind there are;
              \* whether the store is the Redis one, whether the client may
              \* stay away for the idle timeout, and whether a tools/call
              \* has a progress token

Kinds == {"redis", "idle", "token", "stream", "watch", "subscribe", "cancel", "event"}

ASSUME ReplayCapAssumption == ReplayCap \in Nat \ {0}
ASSUME ChanCapAssumption == ChanCap \in Nat \ {0}
ASSUME PlansAssumption == Plans \subseteq [Kinds -> Nat]

VARIABLES
  life,      \* the session: not created, in the store, deleted and its Ctx done
  idle,      \* lastActivityAt is more than the idle timeout ago
  sweeping,  \* the sweep has collected the session and not yet deleted it
  mirror,    \* the session's record in Redis
  queue,     \* events in EventCh
  events,    \* ReplayBuffer.events, by ID
  nextID,    \* ReplayBuffer.nextID
  stream,    \* where serveSSE of a stream is
  cut,       \* streams whose connection the client has lost
  got,       \* IDs that reached the client
  begun,     \* history: the first ID a client without Last-Event-ID asked for
  excused,   \* history: the client had two connections up at once
  strayed,   \* history: IDs a lost connection's handler gave out after a resume
  budget     \* what is left of the plan

storeVars  == <<life, idle, sweeping, mirror>>
pastVars   == <<begun, excused, strayed>>
replayVars == <<events, nextID, stream, cut, got, pastVars>>
streamVars == <<storeVars, queue, replayVars, budget>>

StreamPCs == {"closed", "open", "holding"}

Spend(k) == budget[k] > 0 /\ budget' = [budget EXCEPT ![k] = @ - 1]

StreamInit ==
  /\ life = "new" /\ idle = FALSE /\ sweeping = FALSE /\ mirror = FALSE
  /\ queue = 0 /\ events = <<>> /\ nextID = 1
  /\ stream = [s \in Streams |-> "closed"] /\ cut = {}
  /\ got = {} /\ begun = 1 /\ excused = FALSE /\ strayed = {}
  /\ budget \in Plans

----------------------------------------------------------------------------
\* The session store

\* initialize: Create, and the mirror's Set, which may fail unnoticed.
Initialize ==
  /\ life = "new"
  /\ life' = "live" /\ idle' = FALSE
  /\ mirror' \in {FALSE, budget["redis"] > 0}
  /\ UNCHANGED <<sweeping, queue, replayVars, budget>>

\* What every request of the session begins with: Get finds it, Touch
\* stamps it, and Expire extends the mirror's TTL if there is a mirror.  A
\* Delete between Get and Touch makes Touch do nothing, as one after it.
Touch ==
  /\ life = "live"
  /\ idle' = FALSE
  /\ UNCHANGED <<life, sweeping, mirror>>

\* Delete: out of the map, Ctx cancelled; the mirror's Del may fail.
End ==
  /\ life' = "ended"
  /\ mirror' \in {FALSE, mirror}
  /\ UNCHANGED idle

\* DELETE /mcp.
HandleDelete ==
  /\ life = "live"
  /\ End
  /\ UNCHANGED <<sweeping, queue, replayVars, budget>>

\* No request for longer than the idle timeout.  An open stream is not one.
IdlePasses ==
  /\ life = "live" /\ ~idle /\ budget["idle"] > 0
  /\ idle' = TRUE
  /\ UNCHANGED <<life, sweeping, mirror, queue, replayVars, budget>>

\* sweepIdleSessions collects the sessions that are idle ...
SweepCollect ==
  /\ life = "live" /\ idle /\ ~sweeping
  /\ sweeping' = TRUE
  /\ UNCHANGED <<life, idle, mirror, queue, replayVars, budget>>

\* ... and then deletes them, touched meanwhile or not.
SweepDelete ==
  /\ sweeping
  /\ sweeping' = FALSE
  /\ IF life = "live" THEN End ELSE UNCHANGED <<life, idle, mirror>>
  /\ UNCHANGED <<queue, replayVars, budget>>

\* The mirror's TTL passes in Redis, also under a session in use when the
\* refreshing Expire calls fail.
MirrorExpires ==
  /\ mirror /\ mirror' = FALSE
  /\ UNCHANGED <<life, idle, sweeping, queue, replayVars, budget>>

----------------------------------------------------------------------------
\* EventCh and the replay buffer

\* With an error: the emitter waits for room, however long it takes.
EmitBlocks == queue < ChanCap /\ queue' = queue + 1

\* Emit: sent while there is room; else dropped, when the backpressure timer
\* fires or Ctx is done.
Emit ==
  \/ queue < ChanCap /\ queue' = queue + 1
  \/ queue = ChanCap /\ UNCHANGED queue

\* With an error: the buffer keeps one event more than its capacity.
BufferOneMore(buf, id) ==
  LET all == Append(buf, id)
  IN SubSeq(all, 1 + (IF Len(all) > ReplayCap + 1 THEN Len(all) - ReplayCap ELSE 0), Len(all))

\* ReplayBuffer.Append, with the entries beyond the capacity dropped.
Buffer(buf, id) ==
  LET all == Append(buf, id)
  IN SubSeq(all, 1 + (IF Len(all) > ReplayCap THEN Len(all) - ReplayCap ELSE 0), Len(all))

\* With an error: the first evicted ID is taken for retained.
ReplayableOffByOne(last) ==
  IF events = <<>> THEN last >= nextID - 1 ELSE last + 2 >= events[1]

\* ReplayBuffer.Since: whether nothing after last has been evicted ...
Replayable(last) ==
  IF events = <<>> THEN last >= nextID - 1 ELSE last + 1 >= events[1]

\* ... and the retained events after last.
Since(last) == {id \in ToSet(events) : id > last}

----------------------------------------------------------------------------
\* SSE streams (serveSSE)

LastReceived == Max(got \cup {0})

\* A request that is not being served; which one does not matter.
FreeStream == CHOOSE s \in Streams : stream[s] = "closed"
CanOpen == \E s \in Streams : stream[s] = "closed"

\* A stream the client still has: its own view, whatever the server knows.
Intact(s) == stream[s] # "closed" /\ s \notin cut
Overlaps == \E s \in Streams : Intact(s)

\* GET /mcp without Last-Event-ID: nothing is replayed, so what was given an ID
\* before is not asked for.
OpenFresh ==
  /\ CanOpen /\ Touch /\ Spend("stream")
  /\ got = {}
  /\ stream' = [stream EXCEPT ![FreeStream] = "open"]
  /\ begun' = nextID /\ excused' = (excused \/ Overlaps)
  /\ UNCHANGED <<queue, events, nextID, cut, got, strayed>>

\* GET /mcp with Last-Event-ID: the retained events after it are written
\* first, or 204 answers that they no longer can be, and the client has to
\* initialize again.  The handler of the connection the client lost may still
\* be running.
Resume ==
  /\ CanOpen /\ Touch /\ Spend("stream")
  /\ got # {}
  /\ IF Replayable(LastReceived)
     THEN /\ stream' = [stream EXCEPT ![FreeStream] = "open"]
          /\ got' = got \cup Since(LastReceived)
          /\ excused' = (excused \/ Overlaps)
     ELSE UNCHANGED <<stream, got, excused>>
  /\ UNCHANGED <<queue, events, nextID, cut, begun, strayed>>

\* A stream takes an event out of EventCh; any stream may.
Receive(s) ==
  /\ stream[s] = "open" /\ queue > 0
  /\ stream' = [stream EXCEPT ![s] = "holding"]
  /\ queue' = queue - 1
  /\ UNCHANGED <<storeVars, events, nextID, cut, got, pastVars, budget>>

\* It gives the event the next ID, keeps it, and writes the frame, which a
\* connection that is gone swallows.
WriteFrame(s) ==
  /\ stream[s] = "holding"
  /\ stream' = [stream EXCEPT ![s] = "open"]
  /\ nextID' = nextID + 1
  /\ events' = Buffer(events, nextID)
  /\ got' = IF s \in cut THEN got ELSE got \cup {nextID}
  /\ strayed' = IF s \in cut /\ Overlaps THEN strayed \cup {nextID} ELSE strayed
  /\ UNCHANGED <<storeVars, queue, cut, begun, excused, budget>>

\* The connection breaks; the server does not know yet.
ConnectionLost(s) ==
  /\ stream[s] # "closed" /\ s \notin cut
  /\ cut' = cut \cup {s}
  /\ UNCHANGED <<storeVars, queue, events, nextID, stream, got, pastVars, budget>>

\* The request's context or the session's is done.
StreamEnds(s) ==
  /\ stream[s] = "open" /\ (s \in cut \/ life = "ended")
  /\ stream' = [stream EXCEPT ![s] = "closed"]
  /\ cut' = cut \ {s}
  /\ UNCHANGED <<storeVars, queue, events, nextID, got, pastVars, budget>>

----------------------------------------------------------------------------
StreamNext ==
  \/ Initialize \/ HandleDelete \/ IdlePasses
  \/ SweepCollect \/ SweepDelete \/ MirrorExpires
  \/ OpenFresh \/ Resume
  \/ \E s \in Streams :
       Receive(s) \/ WriteFrame(s) \/ ConnectionLost(s) \/ StreamEnds(s)

\* The ticker of the sweep, the TTL and the goroutine of each stream run on.
StreamFairness ==
  /\ WF_streamVars(IdlePasses) /\ WF_streamVars(SweepCollect)
  /\ WF_streamVars(SweepDelete) /\ WF_streamVars(MirrorExpires)
  /\ \A s \in Streams :
       WF_streamVars(WriteFrame(s)) /\ WF_streamVars(StreamEnds(s))

StreamTypeOK ==
  /\ life \in {"new", "live", "ended"}
  /\ {idle, sweeping, mirror, excused} \subseteq BOOLEAN
  /\ queue \in 0..ChanCap
  /\ nextID \in Nat \ {0}
  /\ events \in Seq(1..(nextID - 1)) /\ Len(events) <= ReplayCap
  /\ stream \in [Streams -> StreamPCs] /\ cut \subseteq Streams
  /\ got \subseteq 1..(nextID - 1)
  /\ begun \in 1..nextID /\ strayed \subseteq 1..(nextID - 1)
  /\ budget \in [Kinds -> Nat]

\* backend.md, session resumption: a client that never has two connections up at
\* once and resumes with the last ID it received has "no gaps": while its stream
\* is up, it has received every event since it began.
ResumeLosesNothing ==
  ~excused => \A s \in Streams :
    Intact(s) => begun..(nextID - 1) \subseteq got

\* What holds of it: the only events such a client misses while its stream is up
\* are those that the handler of a connection it had lost before took out of
\* EventCh and gave an ID after the resume.  Frames written into a lost
\* connection before that, and evictions from the replay buffer, lose nothing:
\* what can no longer be had is answered by 204 and never skipped (serveSSE,
\* Since, Append), across any number of reconnects.
OnlyStraysAreMissed ==
  ~excused => \A s \in Streams :
    Intact(s) => begun..(nextID - 1) \subseteq got \cup strayed
============================================================================
