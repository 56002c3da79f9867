# TLA+ models of rc-mcp

rc-mcp lets an MCP client operate remote machines. A relay **server** speaks MCP
over HTTP to clients and WebSocket to **agents**; an agent runs on each machine,
pairs once with an operator's approval, keeps one connection open and executes
what the server dispatches to it. What is hard in this program is not any one
handler but what happens between two of them: a device that reconnects while its
old connection is still being torn down, a timer that fires while it is being
stopped, a call that registers while its connection is being lost. These models
are about that.

## 1. The system's parts

| part | state | operations | hard behaviour |
|---|---|---|---|
| Hub (`internal/agent/hub.go`) | `online`, `states`, `pending` maps, `connWG` | registerOnline, unregisterOnline, RevokeDevice, Shutdown, approval waiters | every map access is its own critical section; callers act on what they read after unlocking |
| Connection (`connection.go`) | `send`, `done`, `deviceID` | handshake, readLoop, writeLoop, heartbeatLoop, teardown | superseding, close frames against reads, panics on closed channels |
| deviceState (`state.go`) | `pending`, `byPrefix`, `graceTimer` | registerPending, route, startGrace, resume, expire | timer against resume, expire against revoke |
| Bridge (`dispatch.go`) | one channel per call | Dispatch, waitForResult | cancellation, loss of the connection, late results |
| device registry (`internal/devices`) | devices and pairing codes, in memory and in a file | CreatePairingCode, ApprovePairing, RejectPairing, SetOnline, Revoke | failing saves, restart |
| admin API (`internal/admin`) | none | approve, reject, revoke | concurrent operators |
| agent lifecycle (`cmd/agent/main.go`) | grace timer | connect, abandon, runConnection | its own timer against the server's resume |
| Outbox (`agent/client/outbox.go`) | `conn`, two bounded buffers | Attach, Detach, Drop, SendEnvelope, SendBinary | flush against concurrent sends, partial flush |
| Dispatcher (`agent/client/dispatch.go`) | `inFlight`, shell sessions | HandleDispatch, HandleCancel, CancelAll | cancel before register |
| relay (`relay.go`, `internal/redisclient`) | location records, request and reply channels, relayed calls | MarkOnline, MarkOffline, Refresh, relayed dispatch and cancel | several replicas, reordered callbacks, lossy pub/sub, crashes |
| jobs (`internal/jobs`) | jobs, timers, idempotency keys | Create, UpdateStatus, onTimeout | timeout against late result, retries |
| sessions (`internal/session`, `transport/sse.go`) | EventCh, replay buffer, cancel functions, pending responses, shell map | Emit, serveSSE, Since, Cancel, idle sweep | overlapping streams, backpressure, sweep against use |
| resources (`internal/mcp/resources`) | refreshers | subscribe, unsubscribe, notifications | a returning refresher against a new one |
| transport (`internal/transport`) | rate windows, dispatch slots | initialize, tools/call, elicitation, cancel, GET, DELETE | a reply against timeout, cancel and session end |
| tools, policies, audit (`internal/mcp/tools`, ...) | audit log | the nineteen tools | check-then-act around a confirmation and a dispatch |
| executor (`agent/executor`) | shell sessions, files, processes | Exec, shell sessions, fs, process, screenshot, input | shells that die on their own, partial file operations |
| updater, prompts, completions, schema | little or none | text, validation, file replacement | sequential |

How they interact: a tool calls `Bridge.Dispatch`; the bridge registers a channel
in the device's `deviceState` and enqueues an envelope on the device's
`Connection`; the agent's `runConnection` starts a dispatch goroutine, whose
frames and result go through the `Outbox` to whatever connection is current; the
server's reader routes them by correlation ID, or by its first four bytes, back
to the bridge's channel. A lost connection arms a grace timer on each side; a
`hello_ack` with `resume` tells the agent whether to flush its backlog or to
abandon everything. With several replicas the tools call
`ReplicaBridge.Dispatch`, which looks the device up in Redis and relays the call
to the replica that holds it. Progress, elicitations and notifications of all
kinds go to the client through one channel per session, `EventCh`, and the SSE
stream that reads it.

What makes each part correct: a replaced connection is closed and the Hub never
hands out one that is gone; a channel is closed once; registrations belong to
running calls; a connection that is lost or closed ends, and so does a call that is
cancelled or that nothing disturbs (not every call: section 5); resume never orphans
a call; the agent sends everything once; a pairing code has one verdict and a saved
token keeps its device; a relayed dispatch keeps the promise of a local one; a stale
location record expires; a resumed stream skips nothing that was evicted; a retry
starts no second watch, and a job settles; an abandoned session leaves nothing
behind; nothing happens on a device without the confirmation it needs, and the audit
log says what did happen. `PROJECT.json` lists the hazards, each at its line.

## 2. Modules

**AgentHub** models Hub, Connection, deviceState and Bridge for one device (all
maps are keyed by device and no operation relates two). State: the Hub's `online`
and `states` entries (`online`, `cur`); the two `deviceState` objects that can
exist, before and after a revocation, with their maps and timer (`pending`,
`byPrefix`, `timer`, `firing`); the bridge channels (`queue`, `chOpen`, and
`closing` for channels that expire has collected and not yet closed); the
registry's flag; the program counters of connection goroutines, calls, the revoke
request and Shutdown; what the agent holds. A step is one critical section or one
channel operation. The swap of the online entry (`RegisterOnline`) and the close of
the connection it replaced, after the unlock (`ClosePrev`, of the connection kept in
`prev`), are two steps, and so are Shutdown's close messages and its close frames
(`sconn` is its snapshot): in between, two connections of a device are live. Merged
on purpose: `Hub.state` with the one lock that follows it in resume, route,
hasPending and unregisterPending (a revocation in between only makes them act on a
state that is about to be expired; registerPending's two are kept apart, since there
it matters). What is enqueued on a closed connection is never written and not
recorded. A panic of the reader on a closed channel is
recovered by net/http after the deferred teardown, and so it is modelled. A
context that ends before the call waits is first seen when it waits.

**AgentClient** models `connectionLifecycle`, `runConnection`, the `Outbox` and the
`Dispatcher`'s table. The two critical sections of a send, Attach's lock and each
write of its flush, and the two halves of `abandon` are separate steps; each expiry
of the agent's timer is a goroutine of its own. The server is external: it sends
dispatches and cancels, and sets `resume` freely. "Written" means accepted by a
working socket. Shell sessions, the auto-update and the end of the process are left
out.

**Pairing** models the file registry's codes and devices, in memory and on disk,
the pairing connection, the Hub's waiters, the approve, reject and revoke requests,
and the agent's `Pair`. A save may fail anywhere, leaving memory ahead of the file;
a restart reads the file. A code, its device and its token are named by the
connection that asked for the code. After an approval the pairing connection
becomes the device's active one until the agent closes it.

**DispatchContract** is what a tool may rely on when it dispatches: a call returns
once, it succeeds only with the result of work the agent finished, and the agent
starts the work at most once. It promises neither that a failed call had no effect
nor that work stops when the caller gives up, because the code does not. A failure
may end several calls in one step: a process that dies takes all its calls with it.

**Relay** models `relay.go`, the presence callbacks that write the location record
and the pub/sub client, for one device. Each call to Redis, each publication, each
branch of a select and each critical section of `relayMu` is a step; presence
callbacks are goroutines that may run in any order; a subscription holds `Cap`
messages and drops the rest; a message published while nobody listens is gone; a
replica may crash, with everything it holds, and come back. Local dispatches are
taken from AgentHub: they fail, or return what the agent finished. `Contract`
instantiates DispatchContract with a refinement mapping: a call that has begun and
not returned is "called", and the starts of a call are the replicas on whose
behalf the agent began it.

**EventStream**, **Subscriptions** and **Watches** each extend the one before, and
**Sessions** puts them together: one MCP session in its store, the idle sweep and
the Redis mirror, `EventCh`, the replay buffer and the SSE streams; the resource
subscriptions, the sysinfo refreshers and the notifications; `screenshot_watch`
with the job store, its timers and the two registries of cancel functions. They
share the queue, which all fill, and the session's context, which ends them all.
In Watches all calls are retries of one request, since only those share a key and a
cancel entry; the agent's half (the watch loop, `handleScreenshotWatch`) is the
choice of how a dispatch returns. Emit's wait for room is part of the step that
emits; the event is dropped when there is none. A handler takes an event from
EventCh in one step, and appends and writes it in the next. A connection may be lost
(`cut`) long before its handler returns, and the client may have its next stream by
then. Three variables record the past for the properties: `begun`, the first ID that
a client without Last-Event-ID is owed; `strayed`, the IDs that the handler of a lost
connection gave out while the client had another stream; and `excused`, set when the
client itself had two connections up at once, which EventCh serves by turns. A
connection the client has lost does not count for `excused`.

**Executor** models the device as the agent's dispatch handlers see it: the paths
that exist, the shells with their states (running, dead, noticed by readLoop,
closed), and each dispatch's progress. An executor is the set of the outcomes it may
have, failures half-way included (parents made and no file written, a part of a
directory removed). **ToolCalls** extends it with the server's half of a
`tools/call`: rate limits, slots, registry checks, policies, confirmations,
dispatch, shell map, audit and writes of it that fail (`unlogged`), cancellation,
the session's end and the loss of the device. A tool is a record of what
distinguishes its handler: capability, what it looks up, policy, when it asks. Every
handler takes the same way through these steps, so the steps are written once. A
dispatch is made in the bridge's steps: it looks up the connection, registers and
sends, and waits; the fs_stat that fs_write makes first is a dispatch of its own.
`bridge` is what the channel of a call's dispatch will bring: "open" while the
dispatch or its result is on its way, "adrift" when one of the two has been lost and
nobody knows, "result" (or "found", for the fs_stat) when the answer is in it,
"closed" when expire has closed it. The connection underneath is what AgentHub and
AgentClient show of it: a dispatch may meet a full queue or a connection that is
gone (`Register`), a result may be lost with the connection (`DeviceLost`), in the
flush on the next one (`Reconnect`) or on a working one (`ResultDropped`), either
side's grace may end or not (`GraceExpires`, `AgentGivesUp`), and the device may
come back, resumed or not. A revocation looks like DeviceLost and GraceExpires.
Merged: the agent's answer to the fs_stat with its arrival. A client's plan (its
requests, the configuration and how often something disturbs them) is chosen in the
initial state.

**MCAgentHub**, **MCRelay**, **MCSessions** and **MCToolCalls** give the constants
their values for TLC. The proofs are in **AgentHubProofs**, **AgentClientProofs**,
**PairingProofs**, **RelayProofs**, **SessionsProofs** and **ToolCallsProofs**, each
of which extends the module it is about. Operators directly above
an action, with a name that extends or varies it (`TrySendUnbounded` above
`TrySend`), are that action with a plausible mistake. They are used by no
specification: they exist to show that a property notices.

## 3. Runs

| run | instance | shows |
|---|---|---|
| `hub` | 3 plans: 2 connections and 1 call; 1 connection and 2 calls with the same prefix; 1 connection, 1 call, revoke and shutdown; fair | types and capacities, NoDoubleClose, NoLeakedRegistration, PrefixIndexSound, ReplacedIsClosed, OnlineIsRunning, FreshAckOrphansNothing, DispatchReturns, ClosedIsTornDown |
| `hub_superseded` | 2 connections, 1 call | violated: an old connection's teardown marks a connected device offline, or arms its grace timer |
| `hub_loss` | 1 connection, 1 call, fair | violated: a call waits for ever on a lost connection |
| `agent_client` | 2 dispatches of one frame, 2 connections, buffers of 1, fair | HandedOnce, AttachedIsCurrent, InFlightRuns, DispatchEnds |
| `agent_outcome` | 1 dispatch, 2 connections | violated: a failed flush loses results |
| `pairing` | 2 connections, 2 requests, 1 restart, fair | RejectedHasNoDevice, OneVerdict, WaiterIsWaiting, TokenSurvives, WaitEnds |
| `relay` | 2 replicas, 1 call, 2 connections, 1 crash, channels of 1, TTL 2, fair | ImplementsContract (refinement), CancelledReturns, UnansweredReturns, CancelEndsRelayed, StaleRecordExpires |
| `sessions` | 5 plans over 2 streams, 2 calls, 2 jobs, 2 refreshers, replay buffer of 2, EventCh of 1, fair | OnlyStraysAreMissed, NoDeadRefresher, OneWatchInTime, NoLeakedCancel, SettledStays, JobsSettle, AbandonedSessionDrains |
| `sessions_resume` | the streams alone, two of them, one lost connection | violated: an event taken by the handler of a lost connection is missing from the resumed stream |
| `tool_calls` | each tool alone with a cancel, a loss and the session's end; plans of two or three calls; two with a full disk; 1 shell allowed, 2 slots, fair | ConfirmedBeforeEffect, AuditTellsTruth, ShellsBounded, NoForgottenShell, CallReturns |
| `tool_shell_limit` | two calls that start a shell, 1 shell allowed | violated: both are recorded |
| `tool_reconnect` | one shell, one loss | violated: an idle shell is closed by a reconnection within the grace period |

The violated properties are what a comment or the specification document says;
`findings` quotes them. Several of them share one shape: a value is read (the
pending work of a state, the connection of a device, the number of shells, what the
replay buffer holds) and acted on when it is no longer so.

*Bounds.* In `hub` a plan, chosen in the initial state, limits what the agent, the
clients and the operator do; a call meets a reconnection, another call or the
operator, and the theorems have all of them together. Two connections are the least
with which one supersedes another, and the third would only supersede the second;
two calls the least that can collide in a prefix; the send buffer (32 in the code)
holds two envelopes and a bridge channel (64) one, so that both overflow; the
Outbox's buffers (256 and 128) hold one item, so that they overflow too. One
revocation can happen because the device's record is gone after it. Two requests and
one restart are the least that race over one code and lose memory. In `relay` two
replicas and two connections let the device move between them; a record's life of
two heartbeats (three in the code) lets it be refreshed once and expire; a second
call would share only the subscription, whose overflow a cancel of the same call
already causes. In `sessions` the plans split what one client does, because the
parts only meet in EventCh and in the session's end, and each plan has both; two
events fill the replay buffer, the third evicts. In `tool_calls` three calls are the
least that start, write to and close one shell, or start more shells than are
allowed while two have slots; one loss is enough for a dispatch or a result that
never arrives, and reconnections and grace periods are not counted.

*Fairness.* Goroutines of the process are scheduled (weak fairness of each one's
steps), timers fire, and `select` does not pass over a ready case for ever. A
connection whose peer left or that was closed ends its read: only a pong moves the
read deadline and no ping is sent after `done` is closed. Since the reader leaves
and re-enters its read with every frame still in the socket, that is strong
fairness (`ReadErrorDue`). In AgentClient every tool ends (timeouts and frame
limits). In Relay the goroutines of running replicas move and records age; in
Sessions the handlers, refreshers, watches, timers, the sweep's ticker and Redis's
TTL run on; in ToolCalls the server's steps and timers happen, a connection that is
up carries what was neither dropped nor lost, and an agent works on a dispatch that
has reached it and that it has not given up, while commands need not end. There a
grace timer need never be armed or fire (`hub_loss`), no device come back and no
cancel come. Nothing is assumed of peers, clients, operators or the network.

Deadlock is checked in the runs of AgentHub, AgentClient and Pairing; `Quiescent`
(and `PlanDone`, for a plan) names the states in which an instance has used up its
connections and calls. The other three systems come to rest when the client's plan
is used up, and their liveness properties say in what state; their runs do not check
for deadlock.

## 4. Proofs

Every invariant of the passing runs, their two action properties and the refinement
are theorems, for every value of the constants. The only assumptions are the named
`ASSUME`s of the modules: capacities and lives above zero, limits that are numbers,
`None` and its like outside the sets they are added to, and for ToolCalls finite
sets of calls and shells, a tree in which every path resolves to a name, and plans
made of well-formed requests. TLC evaluates all of them on its instances.

Each proof has the same shape: an inductive invariant, the lemma that `Init`
implies it, the lemma that `[Next]_vars` keeps it, with one step per action, and
the theorems that follow from it. Each of the invariants was checked by TLC before
it was proved. What had to be added to the properties, and why:

**AgentHubProofs** (any connections, calls, prefixes, capacities; with revocation
and shutdown).
- TypeOK is inductive together with `TargetOK` (what a connection carries between
  two steps fits the step it is at), without which an arbitrary value could reach
  the send queue or a bridge channel.
- `ReplacedIsClosed` and `OnlineIsRunning` need each other: OnlineIsRunning says
  where a connection is that is replaced in `online`. From then on its successor
  holds it in `prev` until ClosePrev, also if that successor is replaced in turn.
- `NoDoubleClose` and `NoLeakedRegistration` follow from `RegistrationInv`: the
  second state object exists only after the first was dropped (GenerationOrder); a
  call that has not registered has a fresh channel (UnregisteredFresh); a registered
  channel is open, held by no expire loop and by one state object only
  (RegisteredOpen); the object the Hub would hand out holds running calls only
  (HeldByRunningCalls). NoDoubleClose alone is not inductive: expire collects every
  registered channel, so one has to know that those are open and not collected yet.
  NoLeakedRegistration speaks of `cur` only, which LookupState may set to a state
  that existed before, so HeldByRunningCalls says it of `StateGen`.
- `PrefixIndexSound` is inductive as it is.
- `FreshAckOrphansNothing` needs `FreshAckInv`. Between the moment `resume` answers
  false and the moment the agent reads that answer, new calls register. They do no
  harm because a call that has not enqueued its dispatch is unknown to the agent
  (UnsentIsUnknown) and because what is enqueued on the new connection is behind the
  hello_ack: the agent takes in no dispatch before it. FreshHoldsNothing says so of
  `StateGen` from Resume on. A revocation in between replaces the state object by
  one that is still empty (GenerationOrder). `hub` checks the property
  without a revocation; the theorem has both.

**AgentClientProofs** (any dispatches, frames, connections, buffer sizes).
`HandedOnce` compares positions of what was written. It needs `Apart`: what is
written, flushed, buffered and thrown away are five places, and an item is in one of
them at most, once; and `FutureIsNew`: a goroutine's next items are in none of them.
`AttachedIsCurrent` follows from `AttachedInBetween`, which says exactly when the
Outbox has the lifecycle's connection; `BacklogIsFlushed` confines the backlog to
the flush. `InFlightRuns` is inductive as it is.

**PairingProofs** (any connections, requests, restarts). An approval or a rejection
is on its way in several places: a request between its registry call and its
notification, a channel, the agent. `VerdictSaved` says that wherever it is, the file
has the code used, so no restart opens the code again; `CodeOrder` orders the states
of a code in memory and on disk; `VerdictsAgree` then excludes the other verdict and
a device behind a rejection. `RejectedHasNoDevice` follows from the last one,
`WaiterIsWaiting` is part of the invariant with `AnswerHasReader`, and the action
property `TokenSurvives` follows from VerdictsAgree: a device whose approval is out
is in the file.

**RelayProofs** (any replicas, calls, capacities, record lives, reconnections and
crashes). `RelayImplementsContract` is `Spec => Contract!Spec`: the initial states
map to an initial state and every step to a step or a stutter. "At most once" comes
from `SoleHolder`: a call is at one replica at most, either as one request in a
subscription or as one goroutine, and nowhere before it is published or dispatched
locally. `WorkWasSent` ties the agent's work to that goroutine and `ResultIsFinished`
every result under way to finished work. The set of callbacks stands for goroutines,
so `CallbacksDistinct` shows that no two of them coincide. The proof showed that the
contract was too narrow with several calls: a replica that crashes ends all of its
calls in one step, which no single-call failure is. `Fail` of the contract therefore
takes a set of calls; with the one call of the `relay` run TLC could not see it.

**SessionsProofs** (any streams, refreshers, calls, jobs, capacities and plans).
`OnlyStraysAreMissed` needs `Contiguous` (the retained events are the last IDs in
order, so the oldest one tells whether anything after the client's last ID was
evicted) and `ClientUpToDate`, which says which IDs since `begun` the client has or
has lost to a stray, with a stream or between two. `OneWatchInTime` follows from
`ArmedIsLatest` (only the job created last has a running timer, and it is not over),
`SettledStays` from EndedIsTerminal (UpdateStatus overwrites any status, but only a
watch that has not ended calls it, and onTimeout leaves a terminal job alone);
`NoDeadRefresher` and `NoLeakedCancel` are inductive with the types and `HasJob`.

**ToolCallsProofs** (any finite sets of calls and shells, any tree, limits and
plans). The proof is modular: one lemma says what every handler of the device may do
to shells and answers, whichever tool it serves, and one what a step leaves alone of
the calls it is not about; so do one lemma for a dispatch that is sent or fails to
be and one for a connection at work. `CallOf(c)` is the life of one call: when the
agent has been asked, when the pre-check of fs_write is made, that consent comes
before the dispatch and stays, that a dispatch that finds a result in its channel
finds the agent's answer, and which audit entry goes with which outcome;
`ConfirmedBeforeEffect` and `AuditTellsTruth` follow from it. `NoForgottenShell`
needs `OneOpener` and `ShellWork` (what a handler's state and its answer say of its
shell). `ShellsBounded` needs `SlotsCount`: the calls that have passed the check and
have not yet recorded a shell hold a dispatch slot.

Not proved, and why. The liveness properties (DispatchReturns, ClosedIsTornDown,
DispatchEnds, WaitEnds, CancelledReturns, UnansweredReturns, CancelEndsRelayed,
StaleRecordExpires, JobsSettle, AbandonedSessionDrains, CallReturns) need fairness
and ENABLED, which the prover does not support: they are model-checked.

## 5. What the code does that a reader may not expect

The passing properties of section 3 are stated so that they hold of the code as it
is. These behaviours are in the models, and limit how much could be stated:

- *Calls that wait.* `Bridge.Dispatch` has no timeout and no handler adds one. A
  dispatch that a full send queue dropped, one registered after the loss of its
  connection (`hub_loss`), and one whose result was lost in a failed flush
  (`agent_outcome`), by an overflow or with the connection, is waited for until the
  caller's context ends, or until some grace timer closes its channel; on a resumed
  connection nothing else fails it. Hence CallReturns excepts a call whose dispatch
  is adrift or whose device is offline, as long as nobody cancels it. The fs_stat of
  fs_write is such a dispatch too.
- *Agent.* A cancel that comes before the dispatch goroutine has registered finds
  nothing, and the work runs to its own limit (`dispatch.go:96` of the agent). The
  agent's grace timer can fire while Connect is being answered, and abandon then
  cancels work and drops output that the server has just resumed
  (`cmd/agent/main.go:161`). No property forbids either; for the server's call the
  second is a lost result.
- *Connections.* While a new connection has taken the online entry and not yet
  closed the old one, the device has two live connections, and the old one still
  delivers.
- *Shutdown* closes the connections of one snapshot and then waits for every
  connection, without a timeout, while the listener still accepts agents
  (`hub.go:157`; main closes it afterwards): an agent that connects in between keeps
  it waiting as long as it stays.
- *Relay.* A late MarkOffline can delete the record of a device that has reconnected
  (`hub.go:251`, `relay.go:60`); Refresh then has nothing to extend, and other
  replicas do not find the device until it connects again. Refresh also extends a
  record that names another replica. A result lost after the first message leaves
  the call waiting for its context; a cancel that arrives before registerRelayed is
  lost, and the work goes on. Hence UnansweredReturns is about the first message,
  and CancelEndsRelayed about registered calls.
- *Jobs.* onTimeout marks a job failed and cancels its watch, and the watch then
  stores "cancelled" over "failed"; `UpdateStatus(Running)` can overwrite a timeout;
  one that fires before `WatchCancels.add` cancels nothing. SettledStays therefore
  begins where runWatch has stored its outcome.
- *Cancel functions.* A retry of screenshot_watch replaces the detached entry of the
  running watch and removes it when it returns: the watch can no longer be cancelled
  by its request. NoLeakedCancel says only that no entry is left behind.
- *Streams.* Two streams of one session compete for EventCh, so a client that has
  two connections up at once is excused. One that does not can still miss an event,
  if the handler of its lost connection appends it after the resume
  (`sessions_resume`); OnlyStraysAreMissed says that it misses nothing else. An open
  stream does not touch its session, which the sweep may delete; so it may one that
  was touched after it was collected.
- *Refreshers.* The deferred stop of an old refresher cancels a newer one of the
  same URI (`resources.go:378`); the subscription is then not refreshed any more.
- *Shells.* The limit is checked before the confirmation and the dispatch, so it can
  be missed (`tool_shell_limit`); ShellsBounded states by how much. A reconnection
  while no dispatch is in flight closes the device's shells (`tool_reconnect`), and
  the session's map keeps them until a write or a close finds out. A start whose
  answer is lost leaves a shell on the device; a close drops the mapping though the
  agent's close failed; the end of the session closes no shell. NoForgottenShell has
  these calls as its exceptions.
- *Files.* fs_write takes any failure of its fs_stat for "no such file", and the
  file may appear between the two; ConfirmedBeforeEffect speaks of the files it saw.
  A relative path is not compared with the server's roots, only with the agent's.
- *Audit.* An entry is written by a tool's handler from its policy check on: what is
  refused before (by the rate limiter, the slots, the schema, the registry's look at
  the device, the lookup of a shell) has none, although `backend.md:41` speaks of
  every tool invocation. An entry that could not be written is lost without notice;
  AuditTellsTruth has that as its exception.
- *Limits.* The rate limiter may refuse the very POST that carries a confirmation or
  a cancel; the call then ends by its timeout. A killed command is audited as ok.

## 6. Not modelled

Listed with their reasons in `PROJECT.json`: the device registry in Redis, the
updater, the wire format, prompts, completions and schema validation. Left out of
the modelled parts: contents of messages, logging, the writer's drain after a read
error (covered by writing before it), a pairing connection that receives a dispatch
before its agent closes it, symbolic links, reads that change nothing (resources,
listings, health), authentication and origin checks, rotation of the audit log and
the audit://log notifications that its entries cause (emissions like those of
Subscriptions), errors of random number generation and of encoding, several devices
and several sessions (no state is shared between them but the slots and records
keyed by them).

## 7. Plan

Every safety property of the runs is proved. What would add to them:

1. What holds in place of the violated properties, as theorems: the device's grace
   timer and its online flag are right if no teardown overlapped a handshake; results
   are lost only by a failed flush, an overflow or `Drop`.
2. What follows from DispatchContract for its users (a successful call was started
   once), stated on the contract and carried to Relay through the refinement.
3. The Redis device registry as a second implementation of what Pairing asks of a
   registry.
