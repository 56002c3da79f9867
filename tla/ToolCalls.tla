----------------------------- MODULE ToolCalls -----------------------------
(***************************************************************************)
(* The tools/call requests of one MCP session, from the POST to the answer  *)
(* (internal/transport, internal/mcp/tools), and what they do on the device *)
(* (Executor).  A call passes the rate limiter, takes a dispatch slot,      *)
(* passes the tool's checks, may ask the client for a confirmation over the *)
(* event stream, and is dispatched; its outcome is audited.                 *)
(*                                                                         *)
(* Bridge.Dispatch looks up the connection, registers, sends and waits, in  *)
(* steps of their own; the connection under it is taken from what AgentHub  *)
(* and AgentClient show of it: what is sent may be dropped, a result may be *)
(* lost with a connection or on a resumed one, and a grace timer may be     *)
(* armed or not.  screenshot_watch is in Watches, the events' way to the    *)
(* client in EventStream.  The agent's answers can be decoded and random    *)
(* IDs can be had.                                                          *)
(***************************************************************************)
EXTENDS Executor

CONSTANTS
  MaxShells,      \* RC_MAX_SHELL_SESSIONS, per MCP session
  MaxConcurrent,  \* dispatch slots, per MCP session
  GlobalRoots,    \* RC_GLOBAL_FS_ALLOWED_ROOTS
  Plans           \* bound: the calls of a client and how they are answered

ASSUME LimitsAssumption == MaxShells \in Nat \ {0} /\ MaxConcurrent \in Nat \ {0}

VARIABLES
  plan,       \* configuration and limits
  budget,     \* what is left of the plan's budgets
  pc,         \* where handleToolsCall and the tool's handler of a call are
  ctx,        \* calls whose context is cancelled
  slots,      \* sessionLimitState.concurrent
  posts,      \* len(requestTimes) within the last minute
  toolCalls,  \* len(toolTimes) within the last minute
  pending,    \* Session.pending of a call's elicitation
  reply,      \* what the client has been asked and has replied
  saw,        \* fs_write calls whose pre-check found the file
  shellMap,   \* Session.shellSessionMap
  audit,      \* the status of the entries a call's handler gave to the audit log
  unlogged,   \* calls whose entry could not be written
  online,     \* the device is connected
  grace,      \* the grace timer of the device may be armed
  bridge,     \* the channel a call's dispatch waits on
  open        \* the session exists

callVars == <<plan, budget, pc, ctx, slots, posts, toolCalls, pending, reply, saw,
              shellMap, audit, unlogged, online, grace, bridge, open>>
vars == <<request, deviceVars, callVars>>

Init ==
  /\ plan \in Plans /\ request = plan.request /\ budget = plan.budget
  /\ DeviceInit
  /\ pc = [c \in Calls |-> "idle"] /\ ctx = {}
  /\ slots = 0 /\ posts = 0 /\ toolCalls = 0
  /\ pending = [c \in Calls |-> "none"] /\ reply = [c \in Calls |-> "none"]
  /\ saw = {} /\ shellMap = {} /\ audit = [c \in Calls |-> <<>>]
  /\ unlogged = {} /\ online = TRUE /\ grace = FALSE
  /\ bridge = [c \in Calls |-> "none"] /\ open = TRUE

Spend(b) == budget[b] > 0 /\ budget' = [budget EXCEPT ![b] = @ - 1]
Goto(c, l) == pc' = [pc EXCEPT ![c] = l]
InFlight(c) == pc[c] \notin {"idle", "done"}

----------------------------------------------------------------------------
\* The tools: the capability the registry checks, what the handler looks up,
\* the policy it applies, and when it asks for a confirmation.

Tool(capability, needs, policy, confirm) ==
  [capability |-> capability, needs |-> needs, policy |-> policy, confirm |-> confirm]

shell_exec == Tool("shell", "nothing", "command", "unless skipped")
shell_session_start == Tool("shell", "room", "command", "unless skipped")
shell_session_write == Tool("", "mapping", "command", "every write")
shell_session_close == Tool("", "mapping", "none", "never")
fs_read == Tool("fs", "nothing", "path", "never")
fs_write == Tool("fs", "nothing", "path", "overwrite")
fs_list == Tool("fs", "nothing", "path", "never")
fs_delete == Tool("fs", "nothing", "path", "always")
fs_stat == Tool("fs", "nothing", "path", "never")
process_list == Tool("process", "nothing", "none", "never")
process_info == Tool("process", "nothing", "none", "never")
process_signal == Tool("process", "nothing", "none", "unless skipped")
sysinfo_get == Tool("sysinfo", "nothing", "none", "never")
screenshot_capture == Tool("screenshot", "nothing", "none", "never")
input_key == Tool("input", "nothing", "none", "always")
input_mouse_click == Tool("input", "nothing", "none", "always")
input_mouse_move == Tool("input", "nothing", "none", "always")
input_type == Tool("input", "nothing", "none", "always")

\* Registry.defs
Tools ==
  [shell_exec |-> shell_exec, shell_session_start |-> shell_session_start,
   shell_session_write |-> shell_session_write, shell_session_close |-> shell_session_close,
   fs_read |-> fs_read, fs_write |-> fs_write, fs_list |-> fs_list,
   fs_delete |-> fs_delete, fs_stat |-> fs_stat, process_list |-> process_list,
   process_info |-> process_info, process_signal |-> process_signal,
   sysinfo_get |-> sysinfo_get, screenshot_capture |-> screenshot_capture,
   input_key |-> input_key, input_mouse_click |-> input_mouse_click,
   input_mouse_move |-> input_mouse_move, input_type |-> input_type]

\* The arguments of a call: deep is recursive or createDirs, denied a command
\* the policy denies.
Requests ==
  [tool : DOMAIN Tools \cup {"none"}, path : [abs : BOOLEAN, names : Seq(STRING)],
   shell : Shells \cup {None}, deep : BOOLEAN, denied : BOOLEAN, valid : BOOLEAN]

\* Of a plan: the requests; RC_*_SKIP_CONFIRM and RC_SHELL_CONFIRM_EVERY_WRITE;
\* the two rate limits; whether the audit log may be impossible to write; how
\* often calls are cancelled, the device or a result is lost, the limiter's
\* minute is over and the session deleted.
Budgets == {"cancels", "losses", "minutes", "deletes"}
ASSUME PlansAssumption ==
  \A p \in Plans :
    /\ p.request \in [Calls -> Requests]
    /\ \A c \in Calls : Resolve(p.request[c].path) \in Names
    /\ p.skip \in BOOLEAN /\ p.everyWrite \in BOOLEAN
    /\ p.posts \in Nat /\ p.tools \in Nat /\ p.diskFull \in BOOLEAN
    /\ p.budget \in [Budgets -> Nat]

Def(c) == Tools[request[c].tool]

\* fsroot: only an absolute path is looked at.
PathAllowed(p) ==
  GlobalRoots = {} \/ ~p.abs \/ \E r \in GlobalRoots : IsPrefix(r, p.names)

PolicyAllows(c) ==
  CASE Def(c).policy = "command" -> ~request[c].denied
    [] Def(c).policy = "path"    -> PathAllowed(request[c].path)
    [] OTHER                     -> TRUE

\* What comes after the checks.
NextStep(c) ==
  LET k == Def(c).confirm
  IN IF k = "overwrite" /\ ~plan.skip THEN "stat"
     ELSE IF \/ k = "always"
             \/ k = "unless skipped" /\ ~plan.skip
             \/ k = "every write" /\ plan.everyWrite
          THEN "ask"
          ELSE "dispatch"

----------------------------------------------------------------------------
\* The rate limiter

\* With an error: one request more.
AllowOneMore == posts <= plan.posts /\ posts' = posts + 1

\* A POST that the limiter refuses changes nothing.
AllowRequest == posts < plan.posts /\ posts' = posts + 1

\* The times in the window that are a minute old are pruned.
WindowSlides ==
  /\ Spend("minutes")
  /\ posts' \in 0 .. posts /\ toolCalls' \in 0 .. toolCalls
  /\ UNCHANGED <<request, deviceVars, plan, pc, ctx, slots, pending, reply, saw,
                 shellMap, audit, unlogged, online, grace, bridge, open>>

\* With an error: the slot is taken without a look at the cap.
AcquireUncapped == slots' = slots + 1

AcquireDispatchSlot == slots < MaxConcurrent /\ slots' = slots + 1

ReleaseDispatchSlot == slots' = IF slots > 0 THEN slots - 1 ELSE slots

----------------------------------------------------------------------------
\* The call

\* handleToolsCall: a slot is taken and the call can be cancelled from now
\* on, or the call is refused.
ToolsCall(c) ==
  /\ pc[c] = "idle" /\ request[c].tool # "none" /\ open
  /\ AllowRequest
  /\ \/ /\ toolCalls >= plan.tools
        /\ Goto(c, "done") /\ UNCHANGED <<toolCalls, slots>>
     \/ /\ toolCalls < plan.tools /\ toolCalls' = toolCalls + 1
        /\ \/ AcquireDispatchSlot /\ Goto(c, "called")
           \/ slots >= MaxConcurrent /\ Goto(c, "done") /\ UNCHANGED slots
  /\ UNCHANGED <<request, deviceVars, plan, budget, ctx, pending, reply, saw,
                 shellMap, audit, unlogged, online, grace, bridge, open>>

\* The handler ends with an entry for the audit log.  That it could not be
\* written (the log cannot be reopened, the disk is full) nobody is told.
Finish(c, status) ==
  /\ audit' = [audit EXCEPT ![c] = Append(@, status)]
  /\ unlogged' \in {unlogged} \cup IF plan.diskFull THEN {unlogged \cup {c}} ELSE {}
  /\ Goto(c, "return")

\* The call reaches the handler's policy check: the arguments are valid, the
\* device is online, there is room for a shell, the shell is known.
Admitted(c) ==
  /\ request[c].valid
  /\ Def(c).capability # "" => online
  /\ Def(c).needs = "room" => Cardinality(shellMap) < MaxShells
  /\ Def(c).needs = "mapping" => request[c].shell \in shellMap

\* Registry.CallTool and the handler up to where it first waits.
CallTool(c) ==
  /\ pc[c] = "called"
  /\ IF ~Admitted(c) THEN Goto(c, "return") /\ UNCHANGED <<audit, unlogged>>
     ELSE IF ~PolicyAllows(c) THEN Finish(c, "blocked")
     ELSE Goto(c, NextStep(c)) /\ UNCHANGED <<audit, unlogged>>
  /\ UNCHANGED <<request, deviceVars, plan, budget, ctx, slots, posts, toolCalls,
                 pending, reply, saw, shellMap, online, grace, bridge, open>>

----------------------------------------------------------------------------
\* The confirmation

\* RequestElicitation returns: CancelAwait, and the handler goes on or gives up.
Elicited(c, confirmed) ==
  /\ pending' = [pending EXCEPT ![c] = "none"]
  /\ IF confirmed THEN Goto(c, "dispatch") /\ UNCHANGED <<audit, unlogged>>
                  ELSE Finish(c, "cancelled")

\* AwaitResponse, and the elicitation/create event, for which there may be no
\* room in EventCh.
RequestElicitation(c) ==
  /\ pc[c] = "ask"
  /\ \/ /\ pending' = [pending EXCEPT ![c] = "open"]
        /\ reply' = [reply EXCEPT ![c] = "asked"]
        /\ Goto(c, "await") /\ UNCHANGED <<audit, unlogged>>
     \/ Elicited(c, FALSE) /\ UNCHANGED reply
  /\ UNCHANGED <<request, deviceVars, plan, budget, ctx, slots, posts, toolCalls,
                 saw, shellMap, online, grace, bridge, open>>

\* DeliverResponse: the first response to an ID that is awaited.
DeliverResponse(c) ==
  pending' = [pending EXCEPT ![c] = IF @ = "open" THEN "delivered" ELSE @]

\* A POST without a method answers the elicitation, perhaps too late: accepted
\* with the confirmation that was asked for (true, or the path), accepted
\* without it, declined or invalid.
ClientReplies(c) ==
  /\ reply[c] = "asked" /\ open /\ AllowRequest
  /\ reply' \in {[reply EXCEPT ![c] = a] : a \in {"confirm", "unconfirmed", "decline"}}
  /\ DeliverResponse(c)
  /\ UNCHANGED <<request, deviceVars, plan, budget, pc, ctx, slots, toolCalls, saw,
                 shellMap, audit, unlogged, online, grace, bridge, open>>

\* With an error: an accepted response counts, whatever it says.
AcceptedIsConfirmed(a) == a # "decline"

\* parseElicitationResponse, and the handler's look at the content.
Confirmed(a) == a = "confirm"

ReceiveReply(c) ==
  /\ pc[c] = "await" /\ pending[c] = "delivered"
  /\ Elicited(c, Confirmed(reply[c]))
  /\ UNCHANGED <<request, deviceVars, plan, budget, ctx, slots, posts, toolCalls,
                 reply, saw, shellMap, online, grace, bridge, open>>

\* The timer, the call's cancellation or the session's end.
ElicitationEnds(c) ==
  /\ pc[c] = "await"
  /\ Elicited(c, FALSE)
  /\ UNCHANGED <<request, deviceVars, plan, budget, ctx, slots, posts, toolCalls,
                 reply, saw, shellMap, online, grace, bridge, open>>

----------------------------------------------------------------------------
\* The dispatch

Tells(c, tool) == request[c].tool = tool

\* shellSessionMap after a call that failed: shell_session_close has its
\* deferred DeleteShellSession.
MapAfterFailure(c) ==
  IF Tells(c, "shell_session_close") THEN shellMap \ {request[c].shell} ELSE shellMap

\* With an error: a write drops the shell from the map, exited or not.
MapAfterAnyWrite(c) ==
  IF Tells(c, "shell_session_start") THEN shellMap \cup {s \in Shells : opener[s] = c}
  ELSE IF \/ Tells(c, "shell_session_write") \/ Tells(c, "shell_session_close")
       THEN shellMap \ {request[c].shell}
       ELSE shellMap

\* ... and after the agent's answer: a started shell is added, one that has
\* exited, or was closed, is dropped.
MapAfterAnswer(c) ==
  IF Tells(c, "shell_session_start") THEN shellMap \cup {s \in Shells : opener[s] = c}
  ELSE IF \/ Tells(c, "shell_session_write") /\ answer[c] = "exited"
          \/ Tells(c, "shell_session_close")
       THEN shellMap \ {request[c].shell}
       ELSE shellMap

\* A registered dispatch; expire has closed the others' channels.
Registered == {c \in Calls : bridge[c] \notin {"none", "closed"}}

\* registerPending and trySend, on the connection that was looked up.  It may
\* be gone or its send queue full: then nothing is sent, and nobody told.
Register(c) ==
  \E b \in {"adrift"} \cup IF online THEN {"open"} ELSE {} :
    bridge' = [bridge EXCEPT ![c] = b]

Unregister(c) == bridge' = [bridge EXCEPT ![c] = "none"]

\* fileExists looks up the connection for an fs_stat.  Whatever goes wrong
\* with it, there is no file.
FileExists(c) ==
  /\ pc[c] = "stat"
  /\ Goto(c, IF online THEN "statSend" ELSE "dispatch")
  /\ UNCHANGED <<request, deviceVars, plan, budget, ctx, slots, posts, toolCalls,
                 pending, reply, saw, shellMap, audit, unlogged, online, grace, bridge, open>>

\* ... and registers and sends it, unless the binary prefix is taken.
StatSend(c) ==
  /\ pc[c] = "statSend"
  /\ \/ Register(c) /\ Goto(c, "statWait")
     \/ Goto(c, "dispatch") /\ UNCHANGED bridge
  /\ UNCHANGED <<request, deviceVars, plan, budget, ctx, slots, posts, toolCalls,
                 pending, reply, saw, shellMap, audit, unlogged, online, grace, open>>

\* The agent's answer to the fs_stat reaches the channel.
StatAnswered(c) ==
  /\ pc[c] = "statWait" /\ bridge[c] = "open" /\ online
  /\ \E o \in FSStat(request[c]) :
       bridge' = [bridge EXCEPT ![c] = IF o.answer = "ok" THEN "found" ELSE "result"]
  /\ UNCHANGED <<request, deviceVars, plan, budget, pc, ctx, slots, posts, toolCalls,
                 pending, reply, saw, shellMap, audit, unlogged, online, grace, open>>

\* fileExists returns: with the answer, with the channel closed, or two
\* seconds after the call was cancelled.
StatReturns(c) ==
  /\ pc[c] = "statWait" /\ Unregister(c)
  /\ \/ bridge[c] = "found" /\ saw' = saw \cup {c} /\ Goto(c, "ask")
     \/ /\ bridge[c] \in {"result", "closed"} \/ c \in ctx
        /\ Goto(c, "dispatch") /\ UNCHANGED saw
  /\ UNCHANGED <<request, deviceVars, plan, budget, ctx, slots, posts, toolCalls,
                 pending, reply, shellMap, audit, unlogged, online, grace, open>>

DispatchFails(c) ==
  /\ Finish(c, "error")
  /\ shellMap' = MapAfterFailure(c)

\* Bridge.Dispatch looks up the connection.
Dispatch(c) ==
  /\ pc[c] = "dispatch"
  /\ \/ online /\ Goto(c, "send") /\ UNCHANGED <<audit, unlogged, shellMap>>
     \/ ~online /\ DispatchFails(c)
  /\ UNCHANGED <<request, deviceVars, plan, budget, ctx, slots, posts, toolCalls,
                 pending, reply, saw, online, grace, bridge, open>>

\* ... and registers and sends, the device perhaps being lost since, unless
\* the binary prefix is taken.
SendDispatch(c) ==
  /\ pc[c] = "send"
  /\ \/ /\ Register(c) /\ Goto(c, "wait")
        /\ exec' = IF bridge'[c] = "open" THEN [exec EXCEPT ![c] = "sent"] ELSE exec
        /\ UNCHANGED <<audit, unlogged, shellMap>>
     \/ DispatchFails(c) /\ UNCHANGED <<exec, bridge>>
  /\ UNCHANGED <<request, tree, shell, opener, answer, plan, budget, ctx, slots, posts,
                 toolCalls, pending, reply, saw, online, grace, open>>

\* The result reaches the channel.
RouteResult(c) ==
  /\ bridge[c] = "open" /\ answer[c] # "none" /\ online
  /\ bridge' = [bridge EXCEPT ![c] = "result"]
  /\ UNCHANGED <<request, deviceVars, plan, budget, pc, ctx, slots, posts, toolCalls,
                 pending, reply, saw, shellMap, audit, unlogged, online, grace, open>>

\* ... or is lost, though the connection stays: its channel is full, or the
\* agent's Outbox has overflowed or could not be flushed.
ResultDropped(c) ==
  /\ bridge[c] = "open" /\ online /\ Spend("losses")
  /\ bridge' = [bridge EXCEPT ![c] = "adrift"]
  /\ UNCHANGED <<request, deviceVars, plan, pc, ctx, slots, posts, toolCalls,
                 pending, reply, saw, shellMap, audit, unlogged, online, grace, open>>

\* With an error: without a connection to send the cancel on, the bridge goes
\* on waiting.
BridgeCancelsOnline(c) ==
  /\ pc[c] = "wait" /\ c \in ctx /\ online
  /\ Goto(c, "cancelled")
  /\ UNCHANGED <<request, deviceVars, plan, budget, ctx, slots, posts, toolCalls,
                 pending, reply, saw, shellMap, audit, unlogged, online, grace, bridge, open>>

\* The context is done: the bridge tells the agent, if it is connected, and
\* waits two seconds more.
BridgeCancels(c) ==
  /\ pc[c] = "wait" /\ c \in ctx
  /\ Goto(c, "cancelled")
  /\ UNCHANGED <<request, deviceVars, plan, budget, ctx, slots, posts, toolCalls,
                 pending, reply, saw, shellMap, audit, unlogged, online, grace, bridge, open>>

\* The two seconds are over, or the channel is closed.  Nothing else ends a
\* dispatch that is not answered: it has no timeout of its own.
DispatchEnds(c) ==
  /\ pc[c] = "cancelled" \/ (pc[c] = "wait" /\ bridge[c] = "closed")
  /\ DispatchFails(c) /\ Unregister(c)
  /\ UNCHANGED <<request, deviceVars, plan, budget, ctx, slots, posts, toolCalls,
                 pending, reply, saw, online, grace, open>>

\* With an error: the map is updated and the entry forgotten when the agent
\* answered after all, the call being cancelled.
ReceiveUnaudited(c) ==
  /\ pc[c] \in {"wait", "cancelled"} /\ bridge[c] = "result" /\ Unregister(c)
  /\ IF pc[c] = "cancelled" THEN Goto(c, "return") /\ UNCHANGED <<audit, unlogged>>
     ELSE Finish(c, IF answer[c] \in {"error", "no image"} THEN "error" ELSE "ok")
  /\ shellMap' = IF answer[c] = "error" THEN MapAfterFailure(c) ELSE MapAfterAnswer(c)
  /\ UNCHANGED <<request, deviceVars, plan, budget, ctx, slots, posts, toolCalls,
                 pending, reply, saw, online, grace, open>>

\* The agent's answer, an error or not.  A killed command is not an error.
ReceiveResult(c) ==
  /\ pc[c] \in {"wait", "cancelled"} /\ bridge[c] = "result" /\ Unregister(c)
  /\ Finish(c, IF answer[c] \in {"error", "no image"} THEN "error" ELSE "ok")
  /\ shellMap' = IF answer[c] = "error" THEN MapAfterFailure(c) ELSE MapAfterAnswer(c)
  /\ UNCHANGED <<request, deviceVars, plan, budget, ctx, slots, posts, toolCalls,
                 pending, reply, saw, online, grace, open>>

\* The deferred calls of handleToolsCall: UnregisterCancel, the slot.
Return(c) ==
  /\ pc[c] = "return"
  /\ Goto(c, "done")
  /\ ReleaseDispatchSlot
  /\ UNCHANGED <<request, deviceVars, plan, budget, ctx, posts, toolCalls, pending,
                 reply, saw, shellMap, audit, unlogged, online, grace, bridge, open>>

----------------------------------------------------------------------------
\* The client, the session and the connection

\* notifications/cancelled while the call is registered, or the client hangs
\* up, which is no request.
HandleCancelled(c) ==
  /\ InFlight(c) /\ c \notin ctx /\ Spend("cancels")
  /\ ctx' = ctx \cup {c}
  /\ (open /\ AllowRequest) \/ UNCHANGED posts
  /\ UNCHANGED <<request, deviceVars, plan, pc, slots, toolCalls, pending, reply, saw,
                 shellMap, audit, unlogged, online, grace, bridge, open>>

\* DELETE /mcp or the idle sweep; the calls in progress go on.
SessionEnds ==
  /\ open /\ Spend("deletes") /\ open' = FALSE
  /\ UNCHANGED <<request, deviceVars, plan, pc, ctx, slots, posts, toolCalls, pending,
                 reply, saw, shellMap, audit, unlogged, online, grace, bridge>>

\* The connection is lost, with any of what was on its way.  A grace timer is
\* armed, unless no dispatch was registered at that moment.
DeviceLost ==
  /\ online /\ Spend("losses") /\ online' = FALSE /\ grace' = TRUE
  /\ \E S \in SUBSET {c \in Calls : bridge[c] = "open"} :
       bridge' = [c \in Calls |-> IF c \in S THEN "adrift" ELSE bridge[c]]
  /\ UNCHANGED <<request, deviceVars, plan, pc, ctx, slots, posts, toolCalls, pending,
                 reply, saw, shellMap, audit, unlogged, open>>

\* expire: every channel is closed; what is in it is still received.  The
\* timer may fire late, the device being back.
GraceExpires ==
  /\ grace /\ grace' = FALSE
  /\ bridge' = [c \in Calls |-> IF bridge[c] \in {"open", "adrift"} THEN "closed" ELSE bridge[c]]
  /\ UNCHANGED <<request, deviceVars, plan, budget, pc, ctx, slots, posts, toolCalls, pending,
                 reply, saw, shellMap, audit, unlogged, online, open>>

\* The agent drops its backlog and closes its shells, its own grace being over.
AgentGivesUp ==
  /\ ~online /\ shell' = CloseAll
  /\ bridge' = [c \in Calls |-> IF bridge[c] = "open" THEN "adrift" ELSE bridge[c]]
  /\ UNCHANGED <<request, tree, opener, exec, answer, plan, budget, pc, ctx, slots, posts,
                 toolCalls, pending, reply, saw, shellMap, audit, unlogged, online, grace, open>>

\* The agent is back.  It is told to resume if the server holds a dispatch for
\* it, of this session or of another; if not, it starts afresh and closes its
\* shells.  What it kept for the server may be lost in the flush.
Reconnect ==
  /\ ~online /\ online' = TRUE
  /\ shell' \in {shell} \cup IF Registered = {} THEN {CloseAll} ELSE {}
  /\ \E S \in SUBSET {c \in Calls : bridge[c] = "open"} :
       bridge' = [c \in Calls |-> IF c \in S THEN "adrift" ELSE bridge[c]]
  /\ UNCHANGED <<request, tree, opener, exec, answer, plan, budget, pc, ctx, slots, posts,
                 toolCalls, pending, reply, saw, shellMap, audit, unlogged, grace, open>>

----------------------------------------------------------------------------
ServerWorks(c) ==
  \/ CallTool(c) \/ FileExists(c) \/ StatSend(c) \/ StatReturns(c)
  \/ RequestElicitation(c) \/ ReceiveReply(c) \/ ElicitationEnds(c)
  \/ Dispatch(c) \/ SendDispatch(c) \/ BridgeCancels(c) \/ DispatchEnds(c)
  \/ ReceiveResult(c) \/ Return(c)

\* The connection at work.
LinkWorks(c) == StatAnswered(c) \/ RouteResult(c)

Next ==
  \/ \E c \in Calls :
       \/ ToolsCall(c) \/ ServerWorks(c) \/ LinkWorks(c) \/ ResultDropped(c)
       \/ ClientReplies(c) \/ HandleCancelled(c)
  \/ SessionEnds \/ DeviceLost \/ GraceExpires \/ AgentGivesUp \/ Reconnect \/ WindowSlides
  \/ DeviceNext /\ UNCHANGED <<request, callVars>>

\* The server's goroutines run and the timers they wait for fire; a connection
\* that is up carries what it was given and did not drop; an agent does the
\* work of a dispatch that has reached it, and its timeouts fire.  No client
\* need ever reply, no command end by itself, no cancel come, no device come
\* back and no grace timer be armed.
Fairness ==
  \A c \in Calls :
    /\ WF_vars(ServerWorks(c)) /\ WF_vars(LinkWorks(c))
    /\ WF_vars(bridge[c] = "open" /\ AgentWorks(c) /\ UNCHANGED <<request, callVars>>)

Spec == Init /\ [][Next]_vars /\ Fairness

----------------------------------------------------------------------------
CallPCs == {"idle", "called", "stat", "statSend", "statWait", "ask", "await", "dispatch",
            "send", "wait", "cancelled", "return", "done"}
Channels == {"none", "open", "adrift", "found", "result", "closed"}

\* Every variable has its type; the limiter keeps its three limits.
TypeOK ==
  /\ DeviceTypeOK
  /\ plan \in Plans /\ budget \in [Budgets -> Nat]
  /\ pc \in [Calls -> CallPCs] /\ ctx \subseteq Calls
  /\ slots \in 0 .. MaxConcurrent /\ posts \in 0 .. plan.posts
  /\ toolCalls \in 0 .. plan.tools
  /\ pending \in [Calls -> {"none", "open", "delivered"}]
  /\ reply \in [Calls -> {"none", "asked", "confirm", "unconfirmed", "decline"}]
  /\ saw \subseteq Calls /\ shellMap \subseteq Shells
  /\ audit \in [Calls -> Seq({"ok", "error", "blocked", "cancelled"})]
  /\ unlogged \subseteq Calls /\ online \in BOOLEAN /\ grace \in BOOLEAN
  /\ bridge \in [Calls -> Channels] /\ open \in BOOLEAN

\* What must not happen on a device without the client's consent.
NeedsConsent(c) ==
  \/ request[c].tool \in {"fs_delete", "input_key", "input_mouse_click",
                          "input_mouse_move", "input_type"}
  \/ request[c].tool \in {"shell_exec", "shell_session_start", "process_signal"}
     /\ ~plan.skip
  \/ Tells(c, "shell_session_write") /\ plan.everyWrite
  \/ Tells(c, "fs_write") /\ c \in saw

\* The agent is sent a command, a deletion, a signal, an input or the
\* overwriting of a file that was seen, only after the client has confirmed
\* this very call: not after a timeout, a cancel, a late or a half-hearted
\* reply, and not on the reply to another call (confirm, confirmInput,
\* handleDelete, RequestElicitation, DeliverResponse).
ConfirmedBeforeEffect ==
  \A c \in Calls : exec[c] # "none" /\ NeedsConsent(c) => reply[c] = "confirm"

\* What the audit log has of a call.
Logged(c) == IF c \in unlogged THEN <<>> ELSE audit[c]

\* The audit log tells what happened on the device: a call has one entry at
\* most; a call whose entry is blocked or cancelled was never sent to the
\* agent, nor will be; one that is ok was carried out; and no call that was
\* sent to the agent returns without its entry, cancelled, lost or not, save
\* one whose entry could not be written (logAudit of every handler, Write).
AuditTellsTruth ==
  \A c \in Calls :
    /\ Len(Logged(c)) <= 1
    /\ Logged(c) \in {<<"blocked">>, <<"cancelled">>} => exec[c] = "none"
    /\ Logged(c) = <<"ok">> => exec[c] = "done"
    /\ exec[c] # "none" /\ pc[c] \in {"return", "done"} =>
         Len(Logged(c)) = 1 \/ c \in unlogged

\* The calls that have found room for their shell and not started it yet.
Starting ==
  {c \in Calls : /\ Tells(c, "shell_session_start")
                 /\ pc[c] \in {"ask", "await", "dispatch", "send", "wait", "cancelled"}}

\* RC_MAX_SHELL_SESSIONS as it is documented: the limit of the shells a
\* session has at a time (handleStart, SetShellSession).
ShellLimit == Cardinality(shellMap) <= MaxShells

\* What holds instead: shell_session_start looks for room before it asks and
\* dispatches, so that calls that run together pass the check together, and
\* the dispatch slots bound by how many the limit is missed (handleStart,
\* AcquireDispatchSlot).
ShellsBounded ==
  Cardinality(shellMap) + Cardinality(Starting) <= MaxShells - 1 + MaxConcurrent

\* A shell that runs on the device is known to the session, or a call that
\* opened it or was to close it is still waiting for the agent or has failed:
\* no write, no exit and no order of answers makes the session forget a
\* shell that is alive (handleStart, handleWrite, handleClose).
NoForgottenShell ==
  \A s \in Shells :
    shell[s] = "running" /\ s \notin shellMap =>
      \E c \in Calls :
        /\ \/ opener[s] = c
           \/ Tells(c, "shell_session_close") /\ request[c].shell = s
        /\ pc[c] \in {"wait", "cancelled"} \/ audit[c] = <<"error">>

\* The shells of a device survive its reconnection within the grace period, as
\* the acceptance test of the backend's reconnection has it: what runs before
\* the agent is back runs after (resume, registerOnline, the agent's abandon).
ShellSurvivesReconnect ==
  [][~online /\ grace /\ online' =>
       \A s \in Shells : shell[s] = "running" => shell'[s] = "running"]_vars

Returned(c) == pc[c] = "done" /\ pending[c] = "none"

\* A call returns and gives its slot back, though the client never reply, the
\* command never end and the shell ignore its signals, unless it waits for a
\* device that is offline or for a dispatch or a result that was dropped, and
\* nobody cancels it.  A cancelled call returns wherever the cancel meets it:
\* before its pre-check, while it asks, on its way to a device that is lost,
\* whose answer is lost or that never answers (ElicitationTimeout, Exec,
\* StreamUntilIdleOrTimeout, Close, waitForResult, handleToolsCall).
CallReturns ==
  \A c \in Calls :
    InFlight(c) ~> Returned(c) \/ (c \notin ctx /\ (bridge[c] = "adrift" \/ ~online))
=============================================================================
