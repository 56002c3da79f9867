-------------------------- MODULE ToolCallsProofs --------------------------
(***************************************************************************)
(* What every tools/call of a session can rely on, for any number of calls, *)
(* shells and slots and any plan of requests: the confirmation comes before *)
(* the effect, the audit log tells what happened, the session knows its     *)
(* shells and their number is bounded.                                      *)
(***************************************************************************)
EXTENDS ToolCalls, FiniteSetTheorems, TLAPS

\* The inductive invariant

\* The requests are the plan's.
Planned == request = plan.request

\* A call that was made names a tool.
ToolNamed == \A c \in Calls : pc[c] # "idle" => request[c].tool \in DOMAIN Tools

\* Where a dispatch is, on the server and on the device.
SentOnce ==
  \A c \in Calls :
    /\ exec[c] # "none" => pc[c] \in {"wait", "cancelled", "return", "done"}
    /\ answer[c] # "none" => exec[c] = "done"

CallOf(c) ==
  /\ exec[c] # "none" => pc[c] \in {"wait", "cancelled", "return", "done"}
  /\ answer[c] # "none" => exec[c] = "done"
  \* The pre-check of fs_write comes before its confirmation.
  /\ c \in saw => pc[c] \notin {"idle", "called", "stat", "statSend", "statWait"}
  /\ pc[c] \in {"stat", "statSend", "statWait"} => Tells(c, "fs_write")
  \* What a dispatch finds in its channel is the agent's answer.
  /\ pc[c] \in {"wait", "cancelled"} /\ bridge[c] = "result" => answer[c] # "none"
  \* From its dispatch on, a call that needs the client's consent has it.
  /\ pc[c] \in {"dispatch", "send", "wait", "cancelled"} \/ exec[c] # "none" =>
       (NeedsConsent(c) => reply[c] = "confirm")
  \* The one entry of a call is written when its handler ends.
  /\ pc[c] \notin {"return", "done"} => audit[c] = <<>>
  /\ audit[c] \in {<<>>, <<"ok">>, <<"error">>, <<"blocked">>, <<"cancelled">>}
  /\ audit[c] \in {<<"blocked">>, <<"cancelled">>} => exec[c] = "none"
  /\ audit[c] = <<"ok">> => exec[c] = "done"
  /\ exec[c] # "none" /\ pc[c] \in {"return", "done"} => audit[c] # <<>>

\* The slots taken are those of the calls in flight.
SlotsCount == slots = Cardinality({c \in Calls : InFlight(c)})

\* A shell was opened by one shell_session_start, which was answered.
OneOpener ==
  \A s \in Shells :
    /\ shell[s] # "none" => opener[s] # None
    /\ opener[s] # None => /\ answer[opener[s]] = "ok"
                           /\ Tells(opener[s], "shell_session_start")
                           /\ shell[s] # "none"
    /\ \A t \in Shells : opener[s] # None /\ opener[s] = opener[t] => s = t

\* A handler at work on a shell, and what its answer says of the shell.
WorkOf(c) ==
  /\ exec[c] \in {"streaming", "closing", "killed"} =>
       request[c].shell \in Shells /\ shell[request[c].shell] # "none"
  /\ exec[c] = "running" => Tells(c, "shell_exec")
  /\ exec[c] = "streaming" => Tells(c, "shell_session_write")
  /\ exec[c] \in {"closing", "killed"} => Tells(c, "shell_session_close")
  /\ answer[c] = "exited" =>
       request[c].shell \in Shells /\ shell[request[c].shell] \in {"exited", "closed"}
  /\ Tells(c, "shell_session_close") /\ answer[c] \notin {"none", "error"} =>
       request[c].shell \in Shells /\ shell[request[c].shell] = "closed"

ShellWork == \A c \in Calls : WorkOf(c)

TypeInv == TypeOK /\ Planned /\ ToolNamed
CallInv == \A c \in Calls : CallOf(c)
ShellInv == OneOpener /\ ShellWork /\ NoForgottenShell
RoomInv == SlotsCount /\ ShellsBounded

Inv == TypeInv /\ CallInv /\ ShellInv /\ RoomInv

-----------------------------------------------------------------------------
\* Definitions and constants

Answers == {"none", "ok", "error", "no image", "exited", "killed"}

\* What the table of tools says of the confirmation and of the shells.
LEMMA ToolTable ==
  ASSUME NEW t \in DOMAIN Tools
  PROVE  /\ Tools[t].confirm = "overwrite" <=> t = "fs_write"
         /\ Tools[t].confirm = "always" <=>
              t \in {"fs_delete", "input_key", "input_mouse_click", "input_mouse_move",
                     "input_type"}
         /\ Tools[t].confirm = "unless skipped" <=>
              t \in {"shell_exec", "shell_session_start", "process_signal"}
         /\ Tools[t].confirm = "every write" <=> t = "shell_session_write"
         /\ Tools[t].needs = "room" <=> t = "shell_session_start"
  <1>1. /\ Tools["fs_write"].confirm = "overwrite" /\ Tools["fs_write"].needs = "nothing"
        /\ Tools["shell_session_write"].confirm = "every write"
        /\ Tools["shell_session_write"].needs = "mapping"
        /\ Tools["shell_session_close"].confirm = "never"
        /\ Tools["shell_session_close"].needs = "mapping"
        /\ Tools["shell_session_start"].confirm = "unless skipped"
        /\ Tools["shell_session_start"].needs = "room"
    BY DEF Tools, Tool, fs_write, shell_session_write, shell_session_close,
      shell_session_start
  <1>3. ASSUME NEW u \in {"fs_delete", "input_key", "input_mouse_click",
                          "input_mouse_move", "input_type"}
        PROVE  Tools[u].confirm = "always" /\ Tools[u].needs = "nothing"
    BY DEF Tools, Tool, fs_delete, input_key, input_mouse_click, input_mouse_move,
      input_type
  <1>4. /\ Tools["process_signal"].confirm = "unless skipped"
        /\ Tools["process_signal"].needs = "nothing"
        /\ Tools["shell_exec"].confirm = "unless skipped"
        /\ Tools["shell_exec"].needs = "nothing"
    BY DEF Tools, Tool, shell_exec, process_signal
  <1>5. ASSUME NEW u \in {"fs_read", "fs_list", "fs_stat", "process_list",
                          "process_info", "sysinfo_get", "screenshot_capture"}
        PROVE  Tools[u].confirm = "never" /\ Tools[u].needs = "nothing"
    BY DEF Tools, Tool, fs_read, fs_list, fs_stat, process_list, process_info,
      sysinfo_get, screenshot_capture
  <1>2. t \in {"shell_exec", "shell_session_start", "process_signal", "fs_delete",
               "input_key", "input_mouse_click", "input_mouse_move", "input_type",
               "fs_write", "shell_session_write", "shell_session_close", "fs_read",
               "fs_list", "fs_stat", "process_list", "process_info", "sysinfo_get",
               "screenshot_capture"}
    BY DEF Tools
  <1>6. CASE t \in {"fs_delete", "input_key", "input_mouse_click", "input_mouse_move",
                   "input_type"}
    BY <1>3, <1>6
  <1>7. CASE t \in {"fs_read", "fs_list", "fs_stat", "process_list", "process_info",
                   "sysinfo_get", "screenshot_capture"}
    BY <1>5, <1>7
  <1>8. CASE t \in {"shell_exec", "shell_session_start", "process_signal", "fs_write",
                   "shell_session_write", "shell_session_close"}
    BY <1>1, <1>4, <1>8
  <1> QED
    BY <1>2, <1>6, <1>7, <1>8

\* The requests of a plan.
LEMMA RequestType ==
  ASSUME TypeOK, Planned, NEW c \in Calls
  PROVE  /\ request \in [Calls -> Requests] /\ request[c] \in Requests
         /\ request[c].tool \in DOMAIN Tools \cup {"none"}
         /\ request[c].shell \in Shells \cup {None}
         /\ Resolve(request[c].path) \in Names
         /\ plan.skip \in BOOLEAN /\ plan.everyWrite \in BOOLEAN
         /\ plan.posts \in Nat /\ plan.tools \in Nat
  <1>1. plan \in Plans /\ request = plan.request
    BY DEF TypeOK, Planned
  <1>2. request \in [Calls -> Requests] /\ Resolve(request[c].path) \in Names
    BY <1>1, PlansAssumption
  <1>3. request[c] \in Requests
    BY <1>2
  <1>4. /\ request[c].tool \in DOMAIN Tools \cup {"none"}
        /\ request[c].shell \in Shells \cup {None}
    BY <1>3 DEF Requests
  <1> QED
    BY <1>1, <1>2, <1>3, <1>4, PlansAssumption

-----------------------------------------------------------------------------
\* The device

\* A shell never comes back from its end.
OlderShells ==
  /\ shell' \in [Shells -> ShellStates]
  /\ \A s \in Shells :
       \/ shell'[s] = shell[s]
       \/ shell[s] = "exited" /\ shell'[s] = "closed"
       \/ shell[s] \in {"running", "dead"} /\ shell'[s] \in {"dead", "exited", "closed"}

\* A handler goes on or answers.
HandlerMoves(c) ==
  /\ exec[c] \notin {"none", "done"}
  /\ OlderShells /\ UNCHANGED opener
  /\ \E e \in ExecPCs \ {"none"}, a \in Answers :
       /\ exec' = [exec EXCEPT ![c] = e]
       /\ answer' = [answer EXCEPT ![c] = a]
       /\ a # "none" => e = "done"
  /\ WorkOf(c)'

ShellStarts(c, s) ==
  /\ exec[c] = "sent" /\ Tells(c, "shell_session_start") /\ shell[s] = "none"
  /\ shell' = [shell EXCEPT ![s] = "running"]
  /\ opener' = [opener EXCEPT ![s] = c]
  /\ AnswerWith(c, "ok")

DeviceMoves ==
  /\ tree' \subseteq Names
  /\ \/ OlderShells /\ UNCHANGED <<opener, exec, answer>>
     \/ \E c \in Calls : HandlerMoves(c)
     \/ \E c \in Calls, s \in Shells : ShellStarts(c, s)

\* The handlers that answer at once.
SimpleTools == DOMAIN Tools \ {"shell_exec", "shell_session_start", "shell_session_write",
                               "shell_session_close"}
SimpleOutcome(o) ==
  /\ o.tree \subseteq Names /\ o.answer \in {"ok", "error", "no image"}
  /\ \/ o.shell = shell
     \/ \E s \in Shells : /\ shell[s] \in {"running", "dead"}
                          /\ o.shell = [shell EXCEPT ![s] = "dead"]

LEMMA SynchronousMoves ==
  ASSUME TypeOK, Planned, SentOnce, ShellWork, UNCHANGED <<request, callVars>>,
         NEW c \in Calls, NEW t \in SimpleTools, NEW outcomes,
         \A o \in outcomes : SimpleOutcome(o), Synchronous(c, t, outcomes)
  PROVE  DeviceMoves
  <1>1. PICK o \in outcomes : tree' = o.tree /\ shell' = o.shell /\ AnswerWith(c, o.answer)
    BY DEF Synchronous
  <1>2. exec[c] = "sent" /\ request[c].tool = t /\ UNCHANGED opener
    BY DEF Synchronous, Handles
  <1>3. SimpleOutcome(o)
    BY <1>1
  <1>4. OlderShells /\ tree' \subseteq Names
    BY <1>1, <1>3 DEF SimpleOutcome, OlderShells, TypeOK, DeviceTypeOK, ShellStates
  <1>5. /\ exec' = [exec EXCEPT ![c] = "done"] /\ answer' = [answer EXCEPT ![c] = o.answer]
        /\ exec'[c] = "done" /\ answer'[c] = o.answer
        /\ o.answer \in {"ok", "error", "no image"}
    BY <1>1, <1>3 DEF AnswerWith, SimpleOutcome, TypeOK, DeviceTypeOK
  <1>6. WorkOf(c)'
    BY <1>2, <1>5 DEF WorkOf, Tells, SimpleTools
  <1>7. HandlerMoves(c)
    BY <1>2, <1>4, <1>5, <1>6 DEF HandlerMoves, ExecPCs, Answers
  <1> QED
    BY <1>4, <1>7 DEF DeviceMoves

\* What the executors do to the files and the shells.
LEMMA OutcomesSimple ==
  ASSUME TypeOK, Planned, NEW c \in Calls
  PROVE  /\ \A o \in FSRead(request[c]) : SimpleOutcome(o)
         /\ \A o \in FSWrite(request[c]) : SimpleOutcome(o)
         /\ \A o \in FSList(request[c]) : SimpleOutcome(o)
         /\ \A o \in FSDelete(request[c]) : SimpleOutcome(o)
         /\ \A o \in FSStat(request[c]) : SimpleOutcome(o)
         /\ \A o \in GetProcessInfo(request[c]) : SimpleOutcome(o)
         /\ \A o \in SendProcessSignal(request[c]) : SimpleOutcome(o)
         /\ \A o \in ListProcesses \cup GatherSysinfo \cup CaptureScreenshot \cup Xdotool :
              SimpleOutcome(o)
  <1>0. /\ tree \subseteq Names /\ Resolve(request[c].path) \in Names
        /\ request[c].shell \in Shells \cup {None}
    BY RequestType DEF TypeOK, DeviceTypeOK
  <1>1. SimpleOutcome(Error) /\ SimpleOutcome(Answered)
    BY <1>0 DEF SimpleOutcome, Error, Answered, Outcome
  <1>2. ASSUME NEW t, t \subseteq Names, NEW a \in {"ok", "error", "no image"}
        PROVE  SimpleOutcome(Outcome(t, shell, a))
    BY <1>2 DEF SimpleOutcome, Outcome
  <1>3. ASSUME NEW o \in FSWrite(request[c]) PROVE SimpleOutcome(o)
    <2> DEFINE n == Resolve(request[c].path)
               made == IF request[c].deep THEN tree \cup Above(n) ELSE tree
    <2>1. made \subseteq Names /\ made \cup {n} \subseteq Names
      BY <1>0 DEF Above
    <2>2. \/ o = Error \/ o = Outcome(made, shell, "error")
          \/ \E a \in {"ok", "error"} : o = Outcome(made \cup {n}, shell, a)
      BY <1>3 DEF FSWrite
    <2> HIDE DEF made, n
    <2> QED
      BY <1>1, <1>2, <2>1, <2>2
  <1>4. ASSUME NEW o \in FSDelete(request[c]) PROVE SimpleOutcome(o)
    <2>1. \/ o = Error
          \/ \E t \in SUBSET tree : \E a \in {"ok", "error"} : o = Outcome(t, shell, a)
      BY <1>4 DEF FSDelete
    <2> QED
      BY <1>0, <1>1, <1>2, <2>1
  <1>5. ASSUME NEW o \in SendProcessSignal(request[c]) PROVE SimpleOutcome(o)
    <2>1. CASE HasProcess(request[c].shell)
      <3> DEFINE hit == Outcome(tree, [shell EXCEPT ![request[c].shell] = "dead"], "ok")
      <3>1. o \in {Error, Answered, hit}
        BY <1>5, <2>1 DEF SendProcessSignal
      <3>2. SimpleOutcome(hit)
        BY <1>0, <2>1 DEF HasProcess, SimpleOutcome, Outcome
      <3> HIDE DEF hit
      <3> QED
        BY <1>1, <3>1, <3>2
    <2>2. CASE ~HasProcess(request[c].shell)
      BY <1>1, <1>5, <2>2 DEF SendProcessSignal
    <2> QED
      BY <2>1, <2>2
  <1>6. SimpleOutcome(Outcome(tree, shell, "no image"))
    BY <1>0, <1>2
  <1>7. \A o \in FSRead(request[c]) \cup FSList(request[c]) \cup FSStat(request[c])
               \cup GetProcessInfo(request[c]) : o \in {Error, Answered}
    BY DEF FSRead, FSList, FSStat, GetProcessInfo
  <1>8. \A o \in ListProcesses \cup GatherSysinfo \cup CaptureScreenshot \cup Xdotool :
           o \in {Error, Answered, Outcome(tree, shell, "no image")}
    BY DEF ListProcesses, GatherSysinfo, CaptureScreenshot, Xdotool
  <1> QED
    BY <1>1, <1>3, <1>4, <1>5, <1>6, <1>7, <1>8

\* One of the simple handlers runs.
SimpleHandler(c) ==
  \/ handleFSRead(c) \/ handleFSWrite(c) \/ handleFSList(c) \/ handleFSDelete(c)
  \/ handleFSStat(c) \/ handleProcessList(c) \/ handleProcessInfo(c)
  \/ handleProcessSignal(c) \/ handleSysinfoGet(c) \/ handleScreenshotCapture(c)
  \/ handleInputKey(c) \/ handleInputMouseClick(c) \/ handleInputMouseMove(c)
  \/ handleInputType(c)

LEMMA SimpleHandlerMoves ==
  ASSUME TypeOK, Planned, SentOnce, ShellWork, UNCHANGED <<request, callVars>>,
         NEW c \in Calls, SimpleHandler(c)
  PROVE  DeviceMoves
  <1>1. PICK t \in SimpleTools, outcomes \in {FSRead(request[c]), FSWrite(request[c]),
                 FSList(request[c]), FSDelete(request[c]), FSStat(request[c]),
                 ListProcesses, GetProcessInfo(request[c]), SendProcessSignal(request[c]),
                 GatherSysinfo, CaptureScreenshot, Xdotool} :
          Synchronous(c, t, outcomes)
    <2>1. {"fs_read", "fs_write", "fs_list", "fs_delete", "fs_stat", "process_list",
           "process_info", "process_signal", "sysinfo_get", "screenshot_capture",
           "input_key", "input_mouse_click", "input_mouse_move", "input_type"}
            \subseteq SimpleTools
      BY DEF SimpleTools, Tools
    <2> QED
      BY <2>1, Zenon DEF SimpleHandler, handleFSRead, handleFSWrite, handleFSList,
        handleFSDelete, handleFSStat, handleProcessList, handleProcessInfo,
        handleProcessSignal, handleSysinfoGet, handleScreenshotCapture, handleInputKey,
        handleInputMouseClick, handleInputMouseMove, handleInputType
  <1>2. \A o \in outcomes : SimpleOutcome(o)
    BY OutcomesSimple
  <1> QED
    BY <1>1, <1>2, SynchronousMoves

\* The handlers of commands and shell sessions.
LEMMA SessionHandlerMoves ==
  ASSUME TypeOK, Planned, SentOnce, ShellWork, UNCHANGED <<request, callVars>>,
         NEW c \in Calls,
         \/ handleShellExec(c) \/ handleShellSessionStart(c) \/ handleShellSessionWrite(c)
         \/ handleShellSessionClose(c) \/ CommandKilled(c) \/ CommandEnds(c)
         \/ StreamEnds(c) \/ CloseEscalates(c) \/ CloseReturns(c)
  PROVE  DeviceMoves
  <1> DEFINE q == request[c]
  <1>0. /\ shell \in [Shells -> ShellStates] /\ exec \in [Calls -> ExecPCs]
        /\ answer \in [Calls -> Answers] /\ tree \subseteq Names /\ WorkOf(c)
        /\ q.shell \in Shells \cup {None} /\ None \notin Shells
        /\ answer[c] # "none" => exec[c] = "done"
        /\ request' = request
    BY RequestType, ShellsAssumption DEF TypeOK, DeviceTypeOK, Answers, ShellWork, SentOnce
  <1>1. ASSUME exec[c] \notin {"none", "done"}, UNCHANGED <<tree, shell, opener>>,
               WorkOf(c)', NEW e \in ExecPCs \ {"none"}, NEW a \in Answers,
               exec' = [exec EXCEPT ![c] = e], answer' = [answer EXCEPT ![c] = a],
               a # "none" => e = "done"
        PROVE  DeviceMoves
    <2>1. OlderShells
      BY <1>0, <1>1 DEF OlderShells
    <2> QED
      BY <1>0, <1>1, <2>1 DEF DeviceMoves, HandlerMoves
  <1>2. ASSUME exec[c] \notin {"none", "done"}, UNCHANGED <<tree, shell, opener>>,
               WorkOf(c)', NEW a \in Answers \ {"none"}, AnswerWith(c, a)
        PROVE  DeviceMoves
    BY <1>1, <1>2 DEF AnswerWith, ExecPCs
  <1>3. ASSUME exec[c] \notin {"none", "done"}, UNCHANGED <<tree, shell, opener, answer>>,
               WorkOf(c)', NEW e \in ExecPCs \ {"none", "done"}, exec' = [exec EXCEPT ![c] = e]
        PROVE  DeviceMoves
    <2>1. answer[c] \in Answers /\ answer' = [answer EXCEPT ![c] = answer[c]]
          /\ (answer[c] # "none" => e = "done")
      BY <1>0, <1>3
    <2> QED
      BY <1>1, <1>3, <2>1
  <1>4. ASSUME NEW a \in {"ok", "error", "killed"}, AnswerWith(c, a),
               UNCHANGED shell, a = "error" \/ ~Tells(c, "shell_session_close")
        PROVE  WorkOf(c)'
    BY <1>0, <1>4 DEF AnswerWith, WorkOf, Tells
  <1>5. CASE handleShellExec(c)
    <2>1. CASE exec' = [exec EXCEPT ![c] = "running"] /\ UNCHANGED answer
      <3>1. WorkOf(c)' /\ exec[c] = "sent" /\ UNCHANGED <<tree, shell, opener>>
        BY <1>0, <1>5, <2>1 DEF handleShellExec, Handles, WorkOf, Tells
      <3> QED
        BY <1>3, <2>1, <3>1 DEF ExecPCs
    <2>2. CASE AnswerWith(c, "error")
      BY <1>2, <1>4, <1>5, <2>2 DEF handleShellExec, Handles, Answers
    <2> QED
      BY <1>5, <2>1, <2>2 DEF handleShellExec
  <1>6. CASE handleShellSessionStart(c)
    <2>1. CASE AnswerWith(c, "error") /\ UNCHANGED <<shell, opener>>
      BY <1>2, <1>4, <1>6, <2>1 DEF handleShellSessionStart, Handles, Answers
    <2>2. ASSUME NEW s \in Shells, shell[s] = "none",
                 shell' = [shell EXCEPT ![s] = "running"],
                 opener' = [opener EXCEPT ![s] = c], AnswerWith(c, "ok")
          PROVE  DeviceMoves
      BY <1>0, <1>6, <2>2 DEF handleShellSessionStart, Handles, Tells, ShellStarts,
        DeviceMoves
    <2> QED
      BY <1>6, <2>1, <2>2 DEF handleShellSessionStart
  <1>7. CASE handleShellSessionWrite(c)
    <2>1. CASE AnswerWith(c, "error")
      BY <1>2, <1>4, <1>7, <2>1 DEF handleShellSessionWrite, Handles, Answers
    <2>2. CASE /\ Managed(q.shell) /\ exec' = [exec EXCEPT ![c] = "streaming"]
               /\ UNCHANGED answer
      <3>1. WorkOf(c)' /\ exec[c] = "sent" /\ UNCHANGED <<tree, shell, opener>>
        BY <1>0, <1>7, <2>2 DEF handleShellSessionWrite, Handles, WorkOf, Tells, Managed
      <3> QED
        BY <1>3, <2>2, <3>1 DEF ExecPCs
    <2> QED
      BY <1>7, <2>1, <2>2 DEF handleShellSessionWrite
  <1>8. CASE handleShellSessionClose(c)
    <2>1. CASE AnswerWith(c, "error")
      BY <1>2, <1>4, <1>8, <2>1 DEF handleShellSessionClose, Handles, Answers
    <2>2. CASE /\ Managed(q.shell) /\ exec' = [exec EXCEPT ![c] = "closing"]
               /\ UNCHANGED answer
      <3>1. WorkOf(c)' /\ exec[c] = "sent" /\ UNCHANGED <<tree, shell, opener>>
        BY <1>0, <1>8, <2>2 DEF handleShellSessionClose, Handles, WorkOf, Tells, Managed
      <3> QED
        BY <1>3, <2>2, <3>1 DEF ExecPCs
    <2> QED
      BY <1>8, <2>1, <2>2 DEF handleShellSessionClose
  <1>9. CASE CommandKilled(c) \/ CommandEnds(c)
    <2>1. /\ exec[c] = "running" /\ UNCHANGED <<tree, shell, opener>>
          /\ Tells(c, "shell_exec") /\ (AnswerWith(c, "ok") \/ AnswerWith(c, "killed"))
      BY <1>0, <1>9 DEF CommandKilled, CommandEnds, WorkOf
    <2> QED
      BY <1>2, <1>4, <2>1 DEF Tells, Answers
  <1>10. CASE StreamEnds(c)
    <2>1. /\ exec[c] = "streaming" /\ UNCHANGED <<tree, shell, opener>>
          /\ Tells(c, "shell_session_write") /\ q.shell \in Shells
      BY <1>0, <1>10 DEF StreamEnds, WorkOf
    <2>2. CASE AnswerWith(c, "ok")
      BY <1>2, <1>4, <2>1, <2>2 DEF Tells, Answers
    <2>3. CASE shell[q.shell] \in {"exited", "closed"} /\ AnswerWith(c, "exited")
      <3>1. WorkOf(c)'
        BY <1>0, <2>1, <2>3 DEF AnswerWith, WorkOf, Tells
      <3> QED
        BY <1>2, <2>1, <2>3, <3>1 DEF Answers
    <2> QED
      BY <1>10, <2>2, <2>3 DEF StreamEnds
  <1>11. CASE CloseEscalates(c)
    <2>1. /\ exec[c] = "closing" /\ exec' = [exec EXCEPT ![c] = "killed"]
          /\ UNCHANGED <<tree, opener, answer>> /\ q.shell \in Shells
          /\ Tells(c, "shell_session_close") /\ shell[q.shell] # "none"
          /\ answer[c] = "none"
      BY <1>0, <1>11 DEF CloseEscalates, WorkOf
    <2>2. OlderShells /\ shell'[q.shell] # "none"
      BY <1>0, <1>11, <2>1 DEF CloseEscalates, OlderShells, ShellStates
    <2>3. WorkOf(c)'
      BY <1>0, <2>1, <2>2 DEF WorkOf, Tells
    <2>4. answer' = [answer EXCEPT ![c] = "none"]
      BY <1>0, <2>1
    <2>5. HandlerMoves(c)
      BY <2>1, <2>2, <2>3, <2>4 DEF HandlerMoves, ExecPCs, Answers
    <2> QED
      BY <1>0, <2>1, <2>5 DEF DeviceMoves
  <1>12. CASE CloseReturns(c)
    <2>1. /\ exec[c] \in {"closing", "killed"} /\ AnswerWith(c, "ok")
          /\ UNCHANGED <<tree, opener>> /\ q.shell \in Shells
          /\ Tells(c, "shell_session_close") /\ shell[q.shell] # "none"
          /\ shell' = [shell EXCEPT ![q.shell] = "closed"]
      BY <1>0, <1>12 DEF CloseReturns, WorkOf
    <2>2. OlderShells
      BY <1>0, <2>1 DEF OlderShells, ShellStates
    <2>3. WorkOf(c)'
      BY <1>0, <2>1 DEF AnswerWith, WorkOf, Tells
    <2>4. HandlerMoves(c)
      BY <2>1, <2>2, <2>3 DEF HandlerMoves, AnswerWith, ExecPCs, Answers
    <2> QED
      BY <1>0, <2>1, <2>4 DEF DeviceMoves
  <1> QED
    BY <1>5, <1>6, <1>7, <1>8, <1>9, <1>10, <1>11, <1>12

\* A step of the device is one of the three.
LEMMA DeviceStep ==
  ASSUME TypeOK, Planned, SentOnce, ShellWork, UNCHANGED <<request, callVars>>, DeviceNext
  PROVE  DeviceMoves
  <1>1. ASSUME NEW c \in Calls, AgentWorks(c) \/ CommandEnds(c) PROVE DeviceMoves
    BY <1>1, SimpleHandlerMoves, SessionHandlerMoves
    DEF AgentWorks, HandleDispatch, SimpleHandler
  <1>2. ASSUME NEW s \in Shells, ShellDies(s) \/ ReadLoopEnds(s) PROVE DeviceMoves
    BY <1>2 DEF ShellDies, ReadLoopEnds, DeviceMoves, OlderShells, TypeOK, DeviceTypeOK,
      ShellStates
  <1> QED
    BY <1>1, <1>2 DEF DeviceNext

\* The three keep the types.
LEMMA DeviceType ==
  ASSUME DeviceTypeOK, DeviceMoves
  PROVE  DeviceTypeOK'
  <1>0. /\ shell \in [Shells -> ShellStates] /\ opener \in [Shells -> Calls \cup {None}]
        /\ exec \in [Calls -> ExecPCs] /\ answer \in [Calls -> Answers]
    BY DEF DeviceTypeOK, Answers
  <1>1. tree' \subseteq Names
    BY DEF DeviceMoves
  <1>2. CASE OlderShells /\ UNCHANGED <<opener, exec, answer>>
    BY <1>0, <1>1, <1>2 DEF DeviceTypeOK, OlderShells, Answers
  <1>3. CASE \E c \in Calls : HandlerMoves(c)
    <2>1. PICK c \in Calls : HandlerMoves(c)
      BY <1>3
    <2>2. exec' \in [Calls -> ExecPCs] /\ answer' \in [Calls -> Answers]
      BY <1>0, <2>1 DEF HandlerMoves
    <2> QED
      BY <1>0, <1>1, <2>1, <2>2 DEF DeviceTypeOK, HandlerMoves, OlderShells, Answers
  <1>4. CASE \E c \in Calls, s \in Shells : ShellStarts(c, s)
    <2>1. PICK c \in Calls, s \in Shells : ShellStarts(c, s)
      BY <1>4
    <2>2. exec' \in [Calls -> ExecPCs] /\ answer' \in [Calls -> Answers]
      BY <1>0, <2>1 DEF ShellStarts, AnswerWith, ExecPCs, Answers
    <2>3. shell' \in [Shells -> ShellStates] /\ opener' \in [Shells -> Calls \cup {None}]
      BY <1>0, <2>1 DEF ShellStarts, ShellStates
    <2> QED
      BY <1>1, <2>2, <2>3 DEF DeviceTypeOK, Answers
  <1> QED
    BY <1>2, <1>3, <1>4 DEF DeviceMoves

-----------------------------------------------------------------------------
\* Types

LEMMA InitInv == Init => Inv
  <1> SUFFICES ASSUME Init PROVE Inv
    OBVIOUS
  <1>0. /\ plan \in Plans /\ request = plan.request /\ budget \in [Budgets -> Nat]
        /\ plan.posts \in Nat /\ plan.tools \in Nat
    BY PlansAssumption DEF Init
  <1>1. DeviceTypeOK
    BY TreeAssumption DEF Init, DeviceInit, DeviceTypeOK, ShellStates, ExecPCs
  <1>b. /\ bridge \in [Calls -> Channels] /\ unlogged \subseteq Calls /\ online \in BOOLEAN
        /\ grace \in BOOLEAN /\ open \in BOOLEAN
    BY DEF Init, Channels
  <1>2. TypeInv
    BY <1>0, <1>1, <1>b, LimitsAssumption DEF Init, TypeInv, TypeOK, Planned, ToolNamed, CallPCs
  <1>3. CallInv
    BY DEF Init, DeviceInit, CallInv, CallOf
  <1>4. ShellInv
    BY DEF Init, DeviceInit, ShellInv, OneOpener, ShellWork, WorkOf, NoForgottenShell
  <1>5. RoomInv
    <2>1. {c \in Calls : InFlight(c)} = {}
      BY DEF Init, InFlight
    <2>2. Starting = {}
      BY DEF Init, Starting
    <2>3. Cardinality({}) = 0 /\ shellMap = {} /\ slots = 0
      BY FS_EmptySet DEF Init
    <2> QED
      BY <2>1, <2>2, <2>3, LimitsAssumption DEF RoomInv, SlotsCount, ShellsBounded
  <1> QED
    BY <1>2, <1>3, <1>4, <1>5 DEF Inv

\* A value put at one call is in the range of the function.
LEMMA Update ==
  ASSUME NEW D, NEW R, NEW f \in [D -> R], NEW d \in D, NEW v \in R
  PROVE  /\ [f EXCEPT ![d] = v] \in [D -> R] /\ [f EXCEPT ![d] = v][d] = v
         /\ \A x \in D \ {d} : [f EXCEPT ![d] = v][x] = f[x]
  OBVIOUS

Entries == {"ok", "error", "blocked", "cancelled"}

\* The types of the calls' own variables.
LEMMA CallTypes ==
  ASSUME TypeOK
  PROVE  /\ pc \in [Calls -> CallPCs] /\ pending \in [Calls -> {"none", "open", "delivered"}]
         /\ audit \in [Calls -> Seq(Entries)] /\ exec \in [Calls -> ExecPCs]
         /\ reply \in [Calls -> {"none", "asked", "confirm", "unconfirmed", "decline"}]
         /\ shell \in [Shells -> ShellStates] /\ answer \in [Calls -> Answers]
         /\ opener \in [Shells -> Calls \cup {None}] /\ shellMap \subseteq Shells
         /\ slots \in 0 .. MaxConcurrent /\ DeviceTypeOK
         /\ unlogged \subseteq Calls /\ bridge \in [Calls -> Channels]
  BY DEF TypeOK, DeviceTypeOK, Entries, Answers

LEMMA FinishType ==
  ASSUME TypeOK, NEW c \in Calls, NEW e \in Entries, Finish(c, e)
  PROVE  /\ audit' = [audit EXCEPT ![c] = Append(audit[c], e)]
         /\ audit' \in [Calls -> Seq(Entries)] /\ audit'[c] = Append(audit[c], e)
         /\ pc' = [pc EXCEPT ![c] = "return"] /\ pc' \in [Calls -> CallPCs]
         /\ pc'[c] = "return" /\ unlogged' \subseteq Calls
  <1>1. Append(audit[c], e) \in Seq(Entries)
    BY CallTypes
  <1>2. audit' = [audit EXCEPT ![c] = Append(audit[c], e)]
    BY DEF Finish
  <1>3. audit' \in [Calls -> Seq(Entries)] /\ audit'[c] = Append(audit[c], e)
    BY <1>1, <1>2, CallTypes, Update
  <1> QED
    BY <1>2, <1>3, CallTypes DEF Finish, Goto, CallPCs

\* Bridge.Dispatch has sent the call on its way, or fails before it waits.
SendGoes(c) ==
  /\ Dispatch(c) \/ SendDispatch(c)
  /\ \/ Goto(c, "send") /\ UNCHANGED <<exec, bridge>>
     \/ /\ Goto(c, "wait") /\ exec' \in {exec, [exec EXCEPT ![c] = "sent"]}
        /\ \E b \in {"open", "adrift"} : bridge' = [bridge EXCEPT ![c] = b]
  /\ UNCHANGED <<audit, unlogged, shellMap>>

SendFails(c) ==
  /\ Dispatch(c) \/ SendDispatch(c)
  /\ DispatchFails(c) /\ UNCHANGED <<exec, bridge>>

LEMMA SendCases ==
  ASSUME NEW c \in Calls, Dispatch(c) \/ SendDispatch(c)
  PROVE  /\ SendGoes(c) \/ SendFails(c)
         /\ pc[c] \in {"dispatch", "send"}
         /\ UNCHANGED <<request, tree, shell, opener, answer, plan, budget, ctx, slots, posts,
                        toolCalls, pending, reply, saw, online, grace, open>>
  <1>1. CASE Dispatch(c)
    <2>1. CASE online /\ Goto(c, "send") /\ UNCHANGED <<audit, unlogged, shellMap>>
      BY <1>1, <2>1 DEF Dispatch, SendGoes, deviceVars
    <2>2. CASE ~online /\ DispatchFails(c)
      BY <1>1, <2>2 DEF Dispatch, SendFails, deviceVars
    <2> QED
      BY <1>1, <2>1, <2>2 DEF Dispatch
  <1>2. CASE SendDispatch(c)
    <2>1. CASE Register(c) /\ Goto(c, "wait") /\ UNCHANGED <<audit, unlogged, shellMap>>
               /\ exec' = IF bridge'[c] = "open" THEN [exec EXCEPT ![c] = "sent"] ELSE exec
      <3>1. \E b \in {"open", "adrift"} : bridge' = [bridge EXCEPT ![c] = b]
        BY <2>1 DEF Register
      <3> QED
        BY <1>2, <2>1, <3>1 DEF SendDispatch, SendGoes
    <2>2. CASE DispatchFails(c) /\ UNCHANGED <<exec, bridge>>
      BY <1>2, <2>2 DEF SendDispatch, SendFails
    <2> QED
      BY <1>2, <2>1, <2>2 DEF SendDispatch
  <1> QED
    BY <1>1, <1>2

\* The connection carries a result, loses one, or is lost itself and comes back.
LinkMoves ==
  \/ \E c \in Calls : LinkWorks(c) \/ ResultDropped(c)
  \/ DeviceLost \/ GraceExpires \/ AgentGivesUp \/ Reconnect

\* RequestElicitation returns.
LEMMA ElicitedType ==
  ASSUME TypeOK, NEW c \in Calls, NEW b \in BOOLEAN, Elicited(c, b)
  PROVE  /\ audit' \in [Calls -> Seq(Entries)] /\ pc' \in [Calls -> CallPCs]
         /\ unlogged' \subseteq Calls
         /\ pending' = [pending EXCEPT ![c] = "none"]
         /\ pending' \in [Calls -> {"none", "open", "delivered"}]
  <1>1. pending' = [pending EXCEPT ![c] = "none"]
    BY DEF Elicited
  <1>2. pending' \in [Calls -> {"none", "open", "delivered"}]
    BY <1>1, CallTypes
  <1>3. CASE b
    BY <1>1, <1>2, <1>3, CallTypes DEF Elicited, Goto, CallPCs
  <1>4. CASE ~b
    BY <1>1, <1>2, <1>4, CallTypes, FinishType DEF Elicited, Entries
  <1> QED
    BY <1>3, <1>4

LEMMA SpendType ==
  ASSUME budget \in [Budgets -> Nat], NEW b \in Budgets, Spend(b)
  PROVE  budget' \in [Budgets -> Nat]
  <1>1. budget[b] \in Nat /\ budget[b] - 1 \in Nat /\ budget' = [budget EXCEPT ![b] = budget[b] - 1]
    BY DEF Spend
  <1> QED
    BY <1>1

LEMMA MapType ==
  ASSUME TypeOK, NEW c \in Calls
  PROVE  MapAfterFailure(c) \subseteq Shells /\ MapAfterAnswer(c) \subseteq Shells
  BY CallTypes DEF MapAfterFailure, MapAfterAnswer

\* A step of the connection changes the channels, and ages the shells.
LEMMA LinkStep ==
  ASSUME TypeOK, LinkMoves
  PROVE  /\ UNCHANGED <<request, plan, tree, opener, exec, answer, pc, ctx, slots, posts,
                        toolCalls, pending, reply, saw, shellMap, audit, unlogged, open>>
         /\ OlderShells /\ budget' \in [Budgets -> Nat] /\ online' \in BOOLEAN
         /\ grace' \in BOOLEAN /\ bridge' \in [Calls -> Channels]
         /\ \A d \in Calls : bridge'[d] = "result" =>
              bridge[d] = "result" \/ pc[d] = "statWait" \/ answer[d] # "none"
  <1>0. /\ bridge \in [Calls -> Channels] /\ shell \in [Shells -> ShellStates]
        /\ budget \in [Budgets -> Nat] /\ online \in BOOLEAN /\ grace \in BOOLEAN
    BY CallTypes DEF TypeOK
  <1>1. UNCHANGED shell => OlderShells
    BY <1>0 DEF OlderShells
  <1>2. shell' = CloseAll => OlderShells
    BY <1>0 DEF CloseAll, Managed, OlderShells, ShellStates
  <1>3. ASSUME NEW S \in SUBSET Calls,
               NEW v \in {"adrift", "closed"},
               bridge' = [c \in Calls |-> IF c \in S THEN v ELSE bridge[c]]
        PROVE  /\ bridge' \in [Calls -> Channels]
               /\ \A d \in Calls : bridge'[d] = "result" => bridge[d] = "result"
    BY <1>0, <1>3 DEF Channels
  <1>4. CASE \E c \in Calls : StatAnswered(c)
    <2>1. PICK c \in Calls : StatAnswered(c)
      BY <1>4
    <2>2. /\ pc[c] = "statWait"
          /\ \E v \in {"found", "result"} : bridge' = [bridge EXCEPT ![c] = v]
      BY <2>1 DEF StatAnswered
    <2>3. /\ bridge' \in [Calls -> Channels]
          /\ \A d \in Calls : bridge'[d] = "result" => bridge[d] = "result" \/ pc[d] = "statWait"
      BY <1>0, <2>2 DEF Channels
    <2> QED
      BY <1>0, <1>1, <2>1, <2>3 DEF StatAnswered, deviceVars
  <1>5. CASE \E c \in Calls : RouteResult(c)
    <2>1. PICK c \in Calls : RouteResult(c)
      BY <1>5
    <2>2. /\ bridge' \in [Calls -> Channels]
          /\ \A d \in Calls : bridge'[d] = "result" => bridge[d] = "result" \/ answer[d] # "none"
      BY <1>0, <2>1 DEF RouteResult, Channels
    <2> QED
      BY <1>0, <1>1, <2>1, <2>2 DEF RouteResult, deviceVars
  <1>6. CASE \E c \in Calls : ResultDropped(c)
    <2>1. PICK c \in Calls : ResultDropped(c)
      BY <1>6
    <2>2. /\ bridge' \in [Calls -> Channels]
          /\ \A d \in Calls : bridge'[d] = "result" => bridge[d] = "result"
      BY <1>0, <2>1 DEF ResultDropped, Channels
    <2>3. budget' \in [Budgets -> Nat]
      BY <1>0, <2>1, SpendType DEF ResultDropped, Budgets
    <2> QED
      BY <1>0, <1>1, <2>1, <2>2, <2>3 DEF ResultDropped, deviceVars
  <1>7. CASE DeviceLost
    <2>1. budget' \in [Budgets -> Nat]
      BY <1>0, <1>7, SpendType DEF DeviceLost, Budgets
    <2>2. PICK S \in SUBSET {c \in Calls : bridge[c] = "open"} :
            bridge' = [c \in Calls |-> IF c \in S THEN "adrift" ELSE bridge[c]]
      BY <1>7 DEF DeviceLost
    <2>3. /\ bridge' \in [Calls -> Channels]
          /\ \A d \in Calls : bridge'[d] = "result" => bridge[d] = "result"
      BY <1>3, <2>2
    <2> QED
      BY <1>1, <1>7, <2>1, <2>3 DEF DeviceLost, deviceVars
  <1>8. CASE GraceExpires
    <2>1. /\ bridge' \in [Calls -> Channels]
          /\ \A d \in Calls : bridge'[d] = "result" => bridge[d] = "result"
      BY <1>0, <1>8 DEF GraceExpires, Channels
    <2> QED
      BY <1>0, <1>1, <1>8, <2>1 DEF GraceExpires, deviceVars
  <1>9. CASE AgentGivesUp
    <2>1. /\ bridge' \in [Calls -> Channels]
          /\ \A d \in Calls : bridge'[d] = "result" => bridge[d] = "result"
      BY <1>0, <1>9 DEF AgentGivesUp, Channels
    <2> QED
      BY <1>0, <1>2, <1>9, <2>1 DEF AgentGivesUp
  <1>10. CASE Reconnect
    <2>1. PICK S \in SUBSET {c \in Calls : bridge[c] = "open"} :
            bridge' = [c \in Calls |-> IF c \in S THEN "adrift" ELSE bridge[c]]
      BY <1>10 DEF Reconnect
    <2>2. /\ bridge' \in [Calls -> Channels]
          /\ \A d \in Calls : bridge'[d] = "result" => bridge[d] = "result"
      BY <1>3, <2>1
    <2>3. shell' = shell \/ shell' = CloseAll
      BY <1>10 DEF Reconnect
    <2> QED
      BY <1>0, <1>1, <1>2, <1>10, <2>2, <2>3 DEF Reconnect
  <1> QED
    BY <1>4, <1>5, <1>6, <1>7, <1>8, <1>9, <1>10 DEF LinkMoves, LinkWorks

LEMMA TypeStep == ASSUME TypeInv, SentOnce, ShellWork, [Next]_vars PROVE TypeInv'
  <1>0. TypeOK /\ Planned /\ ToolNamed /\ plan \in Plans /\ DeviceTypeOK
        /\ plan.posts \in Nat /\ plan.tools \in Nat /\ budget \in [Budgets -> Nat]
        /\ MaxConcurrent \in Nat
    BY PlansAssumption, LimitsAssumption DEF TypeInv, TypeOK
  <1> DEFINE Rest == /\ budget' \in [Budgets -> Nat]
                     /\ pc' \in [Calls -> CallPCs] /\ ctx' \subseteq Calls
                     /\ slots' \in 0 .. MaxConcurrent /\ posts' \in 0 .. plan.posts
                     /\ toolCalls' \in 0 .. plan.tools
                     /\ pending' \in [Calls -> {"none", "open", "delivered"}]
                     /\ reply' \in [Calls -> {"none", "asked", "confirm", "unconfirmed",
                                              "decline"}]
                     /\ saw' \subseteq Calls /\ shellMap' \subseteq Shells
                     /\ audit' \in [Calls -> Seq(Entries)]
                     /\ unlogged' \subseteq Calls /\ online' \in BOOLEAN /\ grace' \in BOOLEAN
                     /\ bridge' \in [Calls -> Channels] /\ open' \in BOOLEAN
  <1>1. ASSUME Rest, DeviceTypeOK', UNCHANGED <<plan, request>>,
               \A c \in Calls : pc[c] = "idle" => pc'[c] = "idle" \/ request[c].tool # "none"
        PROVE  TypeInv'
    <2>1. TypeOK' /\ Planned'
      BY <1>0, <1>1 DEF TypeOK, Planned, Entries
    <2>2. ToolNamed'
      BY <1>0, <1>1, RequestType DEF ToolNamed
    <2> QED
      BY <2>1, <2>2 DEF TypeInv
  <1>2. /\ DeviceTypeOK /\ UNCHANGED deviceVars => DeviceTypeOK'
        /\ UNCHANGED <<pc>> => \A c \in Calls : pc[c] = "idle" => pc'[c] = "idle"
    BY DEF DeviceTypeOK, deviceVars
  <1>n. ASSUME NEW c \in Calls, pc[c] # "idle", NEW l, pc' = [pc EXCEPT ![c] = l]
        PROVE  \A d \in Calls : pc[d] = "idle" => pc'[d] = "idle"
    BY <1>0, <1>n, CallTypes
  <1>3. ASSUME NEW c \in Calls, ToolsCall(c) PROVE TypeInv'
    <2>1. pc' \in [Calls -> CallPCs] /\ \A d \in Calls \ {c} : pc'[d] = pc[d]
      BY <1>0, <1>3, CallTypes DEF ToolsCall, Goto, CallPCs
    <2>2. /\ slots' \in 0 .. MaxConcurrent /\ posts' \in 0 .. plan.posts
          /\ toolCalls' \in 0 .. plan.tools
      BY <1>0, <1>3 DEF ToolsCall, AllowRequest, AcquireDispatchSlot, TypeOK
    <2>3. Rest
      BY <1>0, <1>3, <2>1, <2>2 DEF ToolsCall, TypeOK, Entries
    <2>4. DeviceTypeOK' /\ UNCHANGED <<plan, request>> /\ request[c].tool # "none"
      BY <1>0, <1>2, <1>3 DEF ToolsCall
    <2> HIDE DEF Rest
    <2> QED
      BY <1>1, <2>1, <2>3, <2>4
  <1>4. ASSUME NEW c \in Calls, CallTool(c) PROVE TypeInv'
    <2>1. /\ pc' \in [Calls -> CallPCs] /\ audit' \in [Calls -> Seq(Entries)]
          /\ unlogged' \subseteq Calls /\ \E l : pc' = [pc EXCEPT ![c] = l]
      BY <1>0, <1>4, CallTypes, FinishType DEF CallTool, NextStep, Goto, CallPCs, Entries, Finish
    <2>2. Rest
      BY <1>0, <1>4, <2>1 DEF CallTool, TypeOK
    <2>3. DeviceTypeOK' /\ UNCHANGED <<plan, request>> /\ pc[c] # "idle"
      BY <1>0, <1>2, <1>4 DEF CallTool
    <2> HIDE DEF Rest
    <2> QED
      BY <1>1, <1>n, <2>1, <2>2, <2>3
  <1>5. ASSUME NEW c \in Calls, FileExists(c) \/ StatSend(c) \/ StatReturns(c) PROVE TypeInv'
    <2>1. pc' \in [Calls -> CallPCs] /\ \E l : pc' = [pc EXCEPT ![c] = l]
      BY <1>0, <1>5, CallTypes DEF FileExists, StatSend, StatReturns, Goto, CallPCs
    <2>2. bridge' \in [Calls -> Channels]
      BY <1>0, <1>5, CallTypes DEF FileExists, StatSend, StatReturns, Register, Unregister, Channels
    <2>3. saw' \subseteq Calls
      BY <1>0, <1>5 DEF FileExists, StatSend, StatReturns, TypeOK
    <2>4. Rest
      BY <1>0, <1>5, <2>1, <2>2, <2>3 DEF FileExists, StatSend, StatReturns, TypeOK, Entries
    <2>5. DeviceTypeOK' /\ UNCHANGED <<plan, request>> /\ pc[c] # "idle"
      BY <1>0, <1>2, <1>5 DEF FileExists, StatSend, StatReturns
    <2> HIDE DEF Rest
    <2> QED
      BY <1>1, <1>n, <2>1, <2>4, <2>5
  <1>6. ASSUME NEW c \in Calls, RequestElicitation(c) PROVE TypeInv'
    <2>1. /\ pc' \in [Calls -> CallPCs] /\ audit' \in [Calls -> Seq(Entries)]
          /\ pending' \in [Calls -> {"none", "open", "delivered"}]
          /\ reply' \in [Calls -> {"none", "asked", "confirm", "unconfirmed", "decline"}]
          /\ unlogged' \subseteq Calls /\ \E l : pc' = [pc EXCEPT ![c] = l]
      <3>1. CASE Elicited(c, FALSE) /\ UNCHANGED reply
        BY <1>0, <3>1, CallTypes, ElicitedType DEF Elicited, Finish, Goto
      <3>2. CASE ~(Elicited(c, FALSE) /\ UNCHANGED reply)
        <4>1. /\ pc' = [pc EXCEPT ![c] = "await"] /\ reply' = [reply EXCEPT ![c] = "asked"]
              /\ pending' = [pending EXCEPT ![c] = "open"] /\ UNCHANGED <<audit, unlogged>>
          BY <1>6, <3>2 DEF RequestElicitation, Goto
        <4>2. /\ pc' \in [Calls -> CallPCs]
              /\ pending' \in [Calls -> {"none", "open", "delivered"}]
              /\ reply' \in [Calls -> {"none", "asked", "confirm", "unconfirmed", "decline"}]
          BY <1>0, <4>1, CallTypes DEF CallPCs
        <4> QED
          BY <1>0, <4>1, <4>2, CallTypes
      <3> QED
        BY <3>1, <3>2
    <2>2. Rest
      BY <1>0, <1>6, <2>1 DEF RequestElicitation, TypeOK
    <2>3. DeviceTypeOK' /\ UNCHANGED <<plan, request>> /\ pc[c] # "idle"
      BY <1>0, <1>2, <1>6 DEF RequestElicitation
    <2> HIDE DEF Rest
    <2> QED
      BY <1>1, <1>n, <2>1, <2>2, <2>3
  <1>7. ASSUME NEW c \in Calls, ReceiveReply(c) \/ ElicitationEnds(c) PROVE TypeInv'
    <2>1. /\ \E b \in BOOLEAN : Elicited(c, b)
          /\ UNCHANGED <<request, deviceVars, plan, budget, ctx, slots, posts, toolCalls,
                         reply, saw, shellMap, online, grace, bridge, open>>
          /\ pc[c] # "idle"
      BY <1>7 DEF ReceiveReply, ElicitationEnds, Confirmed
    <2>2. /\ pc' \in [Calls -> CallPCs] /\ audit' \in [Calls -> Seq(Entries)]
          /\ pending' \in [Calls -> {"none", "open", "delivered"}]
          /\ unlogged' \subseteq Calls /\ \E l : pc' = [pc EXCEPT ![c] = l]
      BY <1>0, <2>1, ElicitedType DEF Elicited, Finish, Goto
    <2>3. Rest /\ DeviceTypeOK'
      BY <1>0, <1>2, <2>1, <2>2 DEF TypeOK
    <2> HIDE DEF Rest
    <2> QED
      BY <1>1, <1>n, <2>1, <2>2, <2>3
  <1>8. ASSUME NEW c \in Calls, Dispatch(c) \/ SendDispatch(c) PROVE TypeInv'
    <2>0. /\ SendGoes(c) \/ SendFails(c)
          /\ UNCHANGED <<request, tree, shell, opener, answer, plan, budget, ctx, slots, posts,
                         toolCalls, pending, reply, saw, online, grace, open>>
          /\ pc[c] # "idle"
      BY <1>8, SendCases
    <2>1. /\ pc' \in [Calls -> CallPCs] /\ audit' \in [Calls -> Seq(Entries)]
          /\ shellMap' \subseteq Shells /\ unlogged' \subseteq Calls
          /\ \E l : pc' = [pc EXCEPT ![c] = l]
      <3>1. CASE SendGoes(c)
        BY <1>0, <3>1, CallTypes DEF SendGoes, Goto, CallPCs
      <3>2. CASE SendFails(c)
        BY <1>0, <3>2, CallTypes, FinishType, MapType DEF SendFails, DispatchFails, Entries
      <3> QED
        BY <2>0, <3>1, <3>2
    <2>e. exec' \in [Calls -> ExecPCs]
      <3>1. "sent" \in ExecPCs /\ exec \in [Calls -> ExecPCs]
        BY <1>0, CallTypes DEF ExecPCs
      <3>2. exec' = exec \/ exec' = [exec EXCEPT ![c] = "sent"]
        BY <2>0 DEF SendGoes, SendFails
      <3> QED
        BY <3>1, <3>2
    <2>b. bridge' \in [Calls -> Channels]
      <3>1. /\ bridge \in [Calls -> Channels] /\ {"open", "adrift"} \subseteq Channels
        BY <1>0, CallTypes DEF Channels
      <3>2. bridge' = bridge \/ \E b \in {"open", "adrift"} : bridge' = [bridge EXCEPT ![c] = b]
        BY <2>0 DEF SendGoes, SendFails
      <3> QED
        BY <3>1, <3>2
    <2>2. exec' \in [Calls -> ExecPCs] /\ bridge' \in [Calls -> Channels]
      BY <2>e, <2>b
    <2>3. Rest
      BY <1>0, <2>0, <2>1, <2>2 DEF TypeOK
    <2>4. DeviceTypeOK' /\ UNCHANGED <<plan, request>> /\ pc[c] # "idle"
      BY <1>0, <2>0, <2>2 DEF DeviceTypeOK
    <2> HIDE DEF Rest
    <2> QED
      BY <1>1, <1>n, <2>1, <2>3, <2>4
  <1>9. ASSUME NEW c \in Calls, BridgeCancels(c) PROVE TypeInv'
    <2>1. pc' \in [Calls -> CallPCs] /\ pc' = [pc EXCEPT ![c] = "cancelled"]
      BY <1>0, <1>9, CallTypes DEF BridgeCancels, Goto, CallPCs
    <2>2. Rest
      BY <1>0, <1>9, <2>1 DEF BridgeCancels, TypeOK, Entries
    <2>3. DeviceTypeOK' /\ UNCHANGED <<plan, request>> /\ pc[c] # "idle"
      BY <1>0, <1>2, <1>9 DEF BridgeCancels
    <2> HIDE DEF Rest
    <2> QED
      BY <1>1, <1>n, <2>1, <2>2, <2>3
  <1>10. ASSUME NEW c \in Calls, DispatchEnds(c) \/ ReceiveResult(c) PROVE TypeInv'
    <2>1. /\ \E e \in Entries : Finish(c, e)
          /\ shellMap' \subseteq Shells /\ pc[c] # "idle" /\ Unregister(c)
          /\ UNCHANGED <<request, deviceVars, plan, budget, ctx, slots, posts, toolCalls,
                         pending, reply, saw, online, grace, open>>
      BY <1>0, <1>10, MapType DEF DispatchEnds, ReceiveResult, DispatchFails, Entries
    <2>u. bridge' \in [Calls -> Channels]
      BY <1>0, <2>1, CallTypes DEF Unregister, Channels
    <2>2. /\ pc' \in [Calls -> CallPCs] /\ audit' \in [Calls -> Seq(Entries)]
          /\ unlogged' \subseteq Calls /\ pc' = [pc EXCEPT ![c] = "return"]
      BY <1>0, <2>1, FinishType
    <2>3. Rest /\ DeviceTypeOK'
      BY <1>0, <1>2, <2>1, <2>2, <2>u DEF TypeOK
    <2> HIDE DEF Rest
    <2> QED
      BY <1>1, <1>n, <2>1, <2>2, <2>3
  <1>11. ASSUME NEW c \in Calls, Return(c) PROVE TypeInv'
    <2>1. /\ pc' \in [Calls -> CallPCs] /\ pc' = [pc EXCEPT ![c] = "done"]
          /\ slots' \in 0 .. MaxConcurrent
      BY <1>0, <1>11, CallTypes DEF Return, ReleaseDispatchSlot, Goto, CallPCs
    <2>2. Rest
      BY <1>0, <1>11, <2>1 DEF Return, TypeOK, Entries
    <2>3. DeviceTypeOK' /\ UNCHANGED <<plan, request>> /\ pc[c] # "idle"
      BY <1>0, <1>2, <1>11 DEF Return
    <2> HIDE DEF Rest
    <2> QED
      BY <1>1, <1>n, <2>1, <2>2, <2>3
  <1>12. ASSUME NEW c \in Calls, ClientReplies(c) PROVE TypeInv'
    <2>1. reply' \in [Calls -> {"none", "asked", "confirm", "unconfirmed", "decline"}]
      BY <1>0, <1>12, CallTypes DEF ClientReplies
    <2>2. pending' \in [Calls -> {"none", "open", "delivered"}]
      BY <1>0, <1>12, CallTypes DEF ClientReplies, DeliverResponse
    <2>3. posts' \in 0 .. plan.posts
      BY <1>0, <1>12 DEF ClientReplies, AllowRequest, TypeOK
    <2>4. Rest /\ DeviceTypeOK' /\ UNCHANGED <<plan, request, pc>>
      BY <1>0, <1>2, <1>12, <2>1, <2>2, <2>3 DEF ClientReplies, TypeOK, Entries
    <2> HIDE DEF Rest
    <2> QED
      BY <1>1, <1>2, <2>4
  <1>13. ASSUME NEW c \in Calls, HandleCancelled(c) PROVE TypeInv'
    <2>1. budget' \in [Budgets -> Nat]
      BY <1>0, <1>13, SpendType DEF HandleCancelled, Budgets
    <2>2. posts' \in 0 .. plan.posts
      BY <1>0, <1>13 DEF HandleCancelled, AllowRequest, TypeOK
    <2>3. Rest /\ DeviceTypeOK' /\ UNCHANGED <<plan, request, pc>>
      BY <1>0, <1>2, <1>13, <2>1, <2>2 DEF HandleCancelled, TypeOK, Entries
    <2> HIDE DEF Rest
    <2> QED
      BY <1>1, <1>2, <2>3
  <1>14. ASSUME SessionEnds PROVE TypeInv'
    <2>1. budget' \in [Budgets -> Nat]
      BY <1>0, <1>14, SpendType DEF SessionEnds, Budgets
    <2>2. Rest /\ DeviceTypeOK' /\ UNCHANGED <<plan, request, pc>>
      BY <1>0, <1>2, <1>14, <2>1 DEF SessionEnds, TypeOK, Entries
    <2> HIDE DEF Rest
    <2> QED
      BY <1>1, <1>2, <2>2
  <1>15. ASSUME WindowSlides PROVE TypeInv'
    <2>1. budget' \in [Budgets -> Nat]
      BY <1>0, <1>15, SpendType DEF WindowSlides, Budgets
    <2>2. posts' \in 0 .. plan.posts /\ toolCalls' \in 0 .. plan.tools
      BY <1>0, <1>15 DEF WindowSlides, TypeOK
    <2>3. Rest /\ DeviceTypeOK' /\ UNCHANGED <<plan, request, pc>>
      BY <1>0, <1>2, <1>15, <2>1, <2>2 DEF WindowSlides, TypeOK, Entries
    <2> HIDE DEF Rest
    <2> QED
      BY <1>1, <1>2, <2>3
  <1>16. ASSUME LinkMoves PROVE TypeInv'
    <2>1. /\ UNCHANGED <<request, plan, tree, opener, exec, answer, pc, ctx, slots, posts,
                         toolCalls, pending, reply, saw, shellMap, audit, unlogged, open>>
          /\ OlderShells /\ budget' \in [Budgets -> Nat] /\ online' \in BOOLEAN
          /\ grace' \in BOOLEAN /\ bridge' \in [Calls -> Channels]
      BY <1>0, <1>16, LinkStep
    <2>2. DeviceTypeOK'
      BY <1>0, <2>1 DEF DeviceTypeOK, OlderShells
    <2>3. Rest
      BY <1>0, <2>1 DEF TypeOK, Entries
    <2> HIDE DEF Rest
    <2> QED
      BY <1>1, <1>2, <2>1, <2>2, <2>3
  <1>17. ASSUME DeviceNext, UNCHANGED <<request, callVars>> PROVE TypeInv'
    <2>1. DeviceTypeOK'
      BY <1>0, <1>17, DeviceStep, DeviceType
    <2>2. Rest /\ UNCHANGED <<plan, request, pc>>
      BY <1>0, <1>17 DEF callVars, TypeOK, Entries
    <2> HIDE DEF Rest
    <2> QED
      BY <1>1, <1>2, <2>1, <2>2
  <1>18. ASSUME UNCHANGED vars PROVE TypeInv'
    <2>1. Rest /\ UNCHANGED <<plan, request, pc>> /\ DeviceTypeOK'
      BY <1>0, <1>2, <1>18 DEF vars, callVars, TypeOK, Entries
    <2> HIDE DEF Rest
    <2> QED
      BY <1>1, <1>2, <2>1
  <1> HIDE DEF Rest
  <1> QED
    BY <1>3, <1>4, <1>5, <1>6, <1>7, <1>8, <1>9, <1>10, <1>11, <1>12, <1>13, <1>14, <1>15,
       <1>16, <1>17, <1>18
    DEF Next, ServerWorks, LinkMoves

-----------------------------------------------------------------------------
\* Consent and audit

\* What CallInv says of the dispatches, of the consent and of the audit log.
LEMMA CallFacts ==
  ASSUME CallInv
  PROVE  SentOnce /\ ConfirmedBeforeEffect /\ AuditTellsTruth
  <1>1. /\ Len(<<>>) = 0 /\ Len(<<"ok">>) = 1 /\ Len(<<"error">>) = 1
        /\ Len(<<"blocked">>) = 1 /\ Len(<<"cancelled">>) = 1
    OBVIOUS
  <1>2. ASSUME NEW c \in Calls
        PROVE  Len(audit[c]) <= 1 /\ (audit[c] # <<>> => Len(audit[c]) = 1)
    <2>1. audit[c] \in {<<>>, <<"ok">>, <<"error">>, <<"blocked">>, <<"cancelled">>}
      BY DEF CallInv, CallOf
    <2>2. \/ audit[c] = <<>> \/ audit[c] = <<"ok">> \/ audit[c] = <<"error">>
          \/ audit[c] = <<"blocked">> \/ audit[c] = <<"cancelled">>
      BY <2>1, Zenon
    <2>3. Len(audit[c]) = 1 \/ audit[c] = <<>>
      BY <1>1, <2>2, Zenon
    <2>4. Len(audit[c]) \in {0, 1}
      BY <1>1, <2>3, Zenon
    <2>5. Len(audit[c]) <= 1
      <3> DEFINE n == Len(audit[c])
      <3>1. n \in {0, 1}
        BY <2>4
      <3> HIDE DEF n
      <3>2. n <= 1
        BY <3>1
      <3> QED
        BY <3>2 DEF n
    <2> QED
      BY <2>3, <2>5, Zenon
  <1>3. ASSUME NEW c \in Calls
        PROVE  /\ Len(Logged(c)) <= 1
               /\ Logged(c) \in {<<"blocked">>, <<"cancelled">>} => exec[c] = "none"
               /\ Logged(c) = <<"ok">> => exec[c] = "done"
               /\ exec[c] # "none" /\ pc[c] \in {"return", "done"} =>
                    Len(Logged(c)) = 1 \/ c \in unlogged
    <2>1. CASE c \in unlogged
      BY <1>1, <2>1 DEF Logged
    <2>2. CASE c \notin unlogged
      <3>1. Logged(c) = audit[c]
        BY <2>2 DEF Logged
      <3> QED
        BY <1>2, <3>1 DEF CallInv, CallOf
    <2> QED
      BY <2>1, <2>2
  <1> QED
    BY <1>3 DEF CallInv, CallOf, SentOnce, ConfirmedBeforeEffect, AuditTellsTruth

\* A step leaves a call alone.
Untouched(d) ==
  /\ pc'[d] = pc[d] /\ exec'[d] = exec[d] /\ answer'[d] = answer[d]
  /\ audit'[d] = audit[d] /\ (reply'[d] = reply[d] \/ reply[d] = "asked")
  /\ d \in saw' <=> d \in saw
  /\ bridge'[d] = "result" => bridge[d] = "result" \/ pc[d] = "statWait" \/ answer[d] # "none"
  /\ UNCHANGED <<plan, request>>

LEMMA UntouchedKeeps ==
  ASSUME NEW d, CallOf(d), Untouched(d)
  PROVE  CallOf(d)'
  BY DEF CallOf, Untouched, NeedsConsent, Tells

\* A call's handler ends with an entry, the first of the call.
LEMMA FirstEntry ==
  ASSUME TypeOK, NEW c \in Calls, NEW e \in Entries, Finish(c, e), audit[c] = <<>>
  PROVE  audit'[c] = <<e>>
  BY FinishType

LEMMA CallStep == ASSUME TypeInv, CallInv, ShellWork, [Next]_vars PROVE CallInv'
  <1>0. TypeOK /\ Planned /\ ToolNamed /\ SentOnce /\ \A c \in Calls : CallOf(c)
    BY CallFacts DEF TypeInv, CallInv
  <1>1. \A d : CallOf(d) /\ Untouched(d) => CallOf(d)'
    BY UntouchedKeeps
  <1>t. /\ pc \in [Calls -> CallPCs] /\ audit \in [Calls -> Seq(Entries)]
        /\ exec \in [Calls -> ExecPCs] /\ answer \in [Calls -> Answers]
        /\ reply \in [Calls -> {"none", "asked", "confirm", "unconfirmed", "decline"}]
        /\ bridge \in [Calls -> Channels]
    BY <1>0, CallTypes
  <1>2. ASSUME NEW c \in Calls, CallOf(c)', \A d \in Calls \ {c} : Untouched(d)
        PROVE  CallInv'
    BY <1>0, <1>1, <1>2 DEF CallInv
  <1>3. ASSUME NEW c \in Calls, ToolsCall(c) PROVE CallInv'
    <2>1. \A d \in Calls \ {c} : Untouched(d)
      BY <1>3, <1>t DEF ToolsCall, Goto, Untouched, deviceVars
    <2>2. CallOf(c)'
      BY <1>0, <1>3, <1>t DEF ToolsCall, Goto, CallOf, deviceVars
    <2> QED
      BY <1>2, <2>1, <2>2
  <1>4. ASSUME NEW c \in Calls, CallTool(c) PROVE CallInv'
    <2>0. /\ pc[c] = "called" /\ audit[c] = <<>> /\ exec[c] = "none" /\ answer[c] = "none"
          /\ c \notin saw /\ request[c].tool \in DOMAIN Tools
          /\ UNCHANGED <<plan, request, exec, answer, saw, reply>>
      BY <1>0, <1>4 DEF CallTool, CallOf, deviceVars, ToolNamed
    <2>1. \A d \in Calls \ {c} : Untouched(d)
      BY <1>4, <1>t DEF CallTool, Goto, Finish, Untouched, deviceVars
    <2> SUFFICES CallOf(c)'
      BY <1>2, <2>1
    <2>2. CASE Goto(c, "return") /\ UNCHANGED audit
      BY <1>t, <2>0, <2>2 DEF Goto, CallOf
    <2>3. CASE Finish(c, "blocked")
      <3>1. audit'[c] = <<"blocked">> /\ pc'[c] = "return"
        BY <1>0, <2>0, <2>3, FinishType, FirstEntry DEF Entries
      <3> QED
        BY <2>0, <3>1 DEF CallOf
    <2>4. CASE Goto(c, NextStep(c)) /\ UNCHANGED audit
      <3>1. pc'[c] = NextStep(c)
        BY <1>t, <2>4 DEF Goto
      <3>2. NextStep(c) \in {"stat", "ask", "dispatch"}
        BY DEF NextStep
      <3>3. NextStep(c) = "stat" => request[c].tool = "fs_write"
        BY <2>0, ToolTable DEF NextStep, Def
      <3>4. NextStep(c) = "dispatch" => ~NeedsConsent(c)
        BY <2>0, ToolTable DEF NextStep, Def, NeedsConsent, Tells
      <3>5. NeedsConsent(c)' = NeedsConsent(c)
        BY <2>0 DEF NeedsConsent, Tells
      <3>6. pc'[c] \in {"stat", "ask", "dispatch"} /\ UNCHANGED <<audit, request>>
        BY <2>0, <2>4, <3>1, <3>2
      <3>7. pc'[c] \in {"stat", "statSend", "statWait"} => Tells(c, "fs_write")'
        BY <3>1, <3>3, <3>6 DEF Tells
      <3>8. pc'[c] \in {"dispatch", "send", "wait", "cancelled"} => ~NeedsConsent(c)'
        BY <3>1, <3>4, <3>5, <3>6
      <3> QED
        BY <2>0, <3>6, <3>7, <3>8 DEF CallOf
    <2> QED
      BY <1>4, <2>2, <2>3, <2>4 DEF CallTool
  <1>5. ASSUME NEW c \in Calls, FileExists(c) \/ StatSend(c) \/ StatReturns(c) PROVE CallInv'
    <2>0. /\ pc[c] \in {"stat", "statSend", "statWait"} /\ audit[c] = <<>> /\ exec[c] = "none"
          /\ c \notin saw /\ Tells(c, "fs_write")
          /\ UNCHANGED <<plan, request, exec, answer, reply, audit>>
      BY <1>0, <1>5 DEF FileExists, StatSend, StatReturns, CallOf, deviceVars
    <2>1. \A d \in Calls \ {c} : Untouched(d)
      BY <1>5, <1>t, <2>0 DEF FileExists, StatSend, StatReturns, Register, Unregister, Goto,
        Untouched
    <2>2. \/ pc'[c] \in {"statSend", "statWait", "dispatch"} /\ c \notin saw'
          \/ pc'[c] = "ask"
      BY <1>5, <1>t, <2>0 DEF FileExists, StatSend, StatReturns, Goto
    <2>3. pc'[c] = "dispatch" => ~NeedsConsent(c)'
      BY <2>0, <2>2 DEF NeedsConsent, Tells
    <2>4. CallOf(c)'
      BY <1>0, <2>0, <2>2, <2>3 DEF CallOf, Tells
    <2> QED
      BY <1>2, <2>1, <2>4
  <1>6. ASSUME NEW c \in Calls, RequestElicitation(c) \/ ReceiveReply(c) \/ ElicitationEnds(c)
        PROVE  CallInv'
    <2>0. /\ pc[c] \in {"ask", "await"} /\ audit[c] = <<>> /\ exec[c] = "none"
          /\ answer[c] = "none" /\ UNCHANGED <<plan, request, exec, answer, saw>>
      BY <1>0, <1>6 DEF RequestElicitation, ReceiveReply, ElicitationEnds, CallOf, deviceVars
    <2>1. \A d \in Calls \ {c} : Untouched(d)
      BY <1>6, <1>t DEF RequestElicitation, ReceiveReply, ElicitationEnds, Elicited, Goto,
        Finish, Untouched, deviceVars
    <2> SUFFICES CallOf(c)'
      BY <1>2, <2>1
    <2>2. CASE pc'[c] = "await" /\ UNCHANGED audit
      BY <2>0, <2>2 DEF CallOf
    <2>3. CASE Finish(c, "cancelled")
      <3>1. audit'[c] = <<"cancelled">> /\ pc'[c] = "return"
        BY <1>0, <2>0, <2>3, FinishType, FirstEntry DEF Entries
      <3> QED
        BY <2>0, <3>1 DEF CallOf
    <2>4. CASE pc'[c] = "dispatch" /\ reply'[c] = "confirm" /\ UNCHANGED audit
      BY <2>0, <2>4 DEF CallOf
    <2>5. \/ pc'[c] = "await" /\ UNCHANGED audit
          \/ Finish(c, "cancelled")
          \/ pc'[c] = "dispatch" /\ reply'[c] = "confirm" /\ UNCHANGED audit
      BY <1>6, <1>t DEF RequestElicitation, ReceiveReply, ElicitationEnds, Elicited, Goto,
        Confirmed
    <2> QED
      BY <2>2, <2>3, <2>4, <2>5
  <1>7. ASSUME NEW c \in Calls, Dispatch(c) \/ SendDispatch(c) PROVE CallInv'
    <2>0. /\ pc[c] \in {"dispatch", "send"} /\ audit[c] = <<>> /\ exec[c] = "none"
          /\ answer[c] = "none" /\ UNCHANGED <<plan, request, answer, saw, reply>>
          /\ SendGoes(c) \/ SendFails(c)
      BY <1>0, <1>7, SendCases DEF CallOf
    <2>1. \A d \in Calls \ {c} : Untouched(d)
      <3>1. CASE SendGoes(c)
        BY <1>t, <2>0, <3>1 DEF SendGoes, Goto, Untouched
      <3>2. CASE SendFails(c)
        BY <1>t, <2>0, <3>2 DEF SendFails, DispatchFails, Goto, Finish, Untouched
      <3> QED
        BY <2>0, <3>1, <3>2
    <2> SUFFICES CallOf(c)'
      BY <1>2, <2>1
    <2>2. CASE SendGoes(c)
      <3>1. /\ exec'[c] \in {"none", "sent"} /\ pc'[c] \in {"send", "wait"} /\ audit'[c] = <<>>
            /\ pc'[c] = "send" => exec'[c] = "none"
            /\ pc'[c] = "wait" => bridge'[c] # "result"
        BY <1>t, <2>0, <2>2 DEF SendGoes, Goto
      <3> QED
        BY <1>0, <2>0, <3>1 DEF CallOf, NeedsConsent, Tells
    <2>3. CASE SendFails(c)
      <3>1. audit'[c] = <<"error">> /\ pc'[c] = "return" /\ UNCHANGED exec
        BY <1>0, <2>0, <2>3, FinishType, FirstEntry DEF SendFails, DispatchFails, Entries
      <3> QED
        BY <2>0, <3>1 DEF CallOf
    <2> QED
      BY <2>0, <2>2, <2>3
  <1>8. ASSUME NEW c \in Calls, BridgeCancels(c) PROVE CallInv'
    <2>1. \A d \in Calls \ {c} : Untouched(d)
      BY <1>8, <1>t DEF BridgeCancels, Goto, Untouched, deviceVars
    <2>2. CallOf(c)'
      BY <1>0, <1>8, <1>t DEF BridgeCancels, Goto, CallOf, deviceVars, NeedsConsent, Tells
    <2> QED
      BY <1>2, <2>1, <2>2
  <1>9. ASSUME NEW c \in Calls, DispatchEnds(c) \/ ReceiveResult(c) PROVE CallInv'
    <2>0. /\ pc[c] \in {"wait", "cancelled"} /\ audit[c] = <<>>
          /\ UNCHANGED <<plan, request, exec, answer, saw, reply>> /\ Unregister(c)
          /\ \/ Finish(c, "error")
             \/ Finish(c, "ok") /\ answer[c] # "none"
      <3>1. CASE DispatchEnds(c)
        BY <1>0, <3>1 DEF DispatchEnds, DispatchFails, CallOf, deviceVars
      <3>2. CASE ReceiveResult(c)
        BY <1>0, <3>2, ZenonT(30) DEF ReceiveResult, CallOf, deviceVars
      <3> QED
        BY <1>9, <3>1, <3>2
    <2>1. \A d \in Calls \ {c} : Untouched(d)
      BY <1>t, <2>0 DEF Finish, Goto, Unregister, Untouched
    <2>2. /\ pc'[c] = "return"
          /\ \/ audit'[c] = <<"error">>
             \/ audit'[c] = <<"ok">> /\ answer[c] # "none"
      BY <1>0, <2>0, FinishType, FirstEntry DEF Entries
    <2>3. (NeedsConsent(c) <=> NeedsConsent(c)') /\ (Tells(c, "fs_write") <=> Tells(c, "fs_write")')
      BY <2>0 DEF NeedsConsent, Tells
    <2>4. <<"ok">> \notin {<<"blocked">>, <<"cancelled">>, <<>>, <<"error">>}
          /\ <<"error">> \notin {<<"blocked">>, <<"cancelled">>, <<>>, <<"ok">>}
      OBVIOUS
    <2>5. CallOf(c)'
      BY <1>0, <2>0, <2>2, <2>3, <2>4 DEF CallOf
    <2> QED
      BY <1>2, <2>1, <2>5
  <1>10. ASSUME NEW c \in Calls, Return(c) PROVE CallInv'
    <2>1. \A d \in Calls \ {c} : Untouched(d)
      BY <1>10, <1>t DEF Return, Goto, Untouched, deviceVars
    <2>2. CallOf(c)'
      BY <1>0, <1>10, <1>t DEF Return, Goto, CallOf, deviceVars, NeedsConsent, Tells
    <2> QED
      BY <1>2, <2>1, <2>2
  <1>11. ASSUME \A d \in Calls : Untouched(d) PROVE CallInv'
    BY <1>0, <1>1, <1>11 DEF CallInv
  <1>12. ASSUME NEW c \in Calls, ClientReplies(c) PROVE CallInv'
    BY <1>11, <1>12, <1>t DEF ClientReplies, Untouched, deviceVars
  <1>13. ASSUME \/ \E c \in Calls : HandleCancelled(c)
                \/ SessionEnds \/ WindowSlides \/ UNCHANGED vars
         PROVE  CallInv'
    BY <1>11, <1>13 DEF HandleCancelled, SessionEnds, WindowSlides, vars, callVars, Untouched,
      deviceVars
  <1>15. ASSUME LinkMoves PROVE CallInv'
    BY <1>0, <1>11, <1>15, LinkStep DEF Untouched
  <1>14. ASSUME DeviceNext, UNCHANGED <<request, callVars>> PROVE CallInv'
    <2>0. DeviceMoves /\ UNCHANGED <<request, plan, pc, audit, reply, saw, bridge>>
      BY <1>0, <1>14, DeviceStep DEF callVars
    <2>1. CASE UNCHANGED <<exec, answer>>
      BY <1>11, <2>0, <2>1 DEF Untouched
    <2>2. ASSUME NEW c \in Calls, HandlerMoves(c) PROVE CallInv'
      <3>1. \A d \in Calls \ {c} : Untouched(d)
        BY <1>t, <2>0, <2>2 DEF HandlerMoves, Untouched
      <3>2. /\ exec[c] \notin {"none", "done"} /\ exec'[c] # "none"
            /\ answer'[c] # "none" => exec'[c] = "done"
        BY <1>t, <2>2 DEF HandlerMoves
      <3>3. CallOf(c)'
        BY <1>0, <2>0, <3>2 DEF CallOf, NeedsConsent, Tells
      <3> QED
        BY <1>2, <3>1, <3>3
    <2>3. ASSUME NEW c \in Calls, NEW s \in Shells, ShellStarts(c, s) PROVE CallInv'
      <3>1. \A d \in Calls \ {c} : Untouched(d)
        BY <1>t, <2>0, <2>3 DEF ShellStarts, AnswerWith, Untouched
      <3>2. exec[c] = "sent" /\ exec'[c] = "done" /\ answer'[c] = "ok"
        BY <1>t, <2>3 DEF ShellStarts, AnswerWith
      <3>3. CallOf(c)'
        BY <1>0, <2>0, <3>2 DEF CallOf, NeedsConsent, Tells
      <3> QED
        BY <1>2, <3>1, <3>3
    <2> QED
      BY <2>0, <2>1, <2>2, <2>3 DEF DeviceMoves
  <1> QED
    BY <1>3, <1>4, <1>5, <1>6, <1>7, <1>8, <1>9, <1>10, <1>12, <1>13, <1>14, <1>15
    DEF Next, ServerWorks, LinkMoves

-----------------------------------------------------------------------------
\* Shells

\* A call is the one to blame for a shell the session does not know.
Blamed(c, s) ==
  /\ \/ opener[s] = c
     \/ Tells(c, "shell_session_close") /\ request[c].shell = s
  /\ pc[c] \in {"wait", "cancelled"} \/ audit[c] = <<"error">>

LEMMA BlamedParts ==
  NoForgottenShell <=>
    \A s \in Shells : shell[s] = "running" /\ s \notin shellMap => \E c \in Calls : Blamed(c, s)
  BY DEF NoForgottenShell, Blamed

\* Shells that grow older keep what the answers say of them.
LEMMA OlderWork ==
  ASSUME NEW d \in Calls, WorkOf(d), OlderShells, exec'[d] = exec[d], answer'[d] = answer[d],
         UNCHANGED request
  PROVE  WorkOf(d)'
  BY DEF WorkOf, OlderShells, Tells

LEMMA OlderOpeners ==
  ASSUME OneOpener, OlderShells, UNCHANGED <<opener, request>>,
         \A s \in Shells : opener[s] # None => answer'[opener[s]] = answer[opener[s]]
  PROVE  OneOpener'
  BY DEF OneOpener, OlderShells, Tells

\* A call that is touched neither by the client nor by the device keeps its blame.
LEMMA SameBlame ==
  ASSUME NEW d, NEW s, Blamed(d, s), pc'[d] = pc[d], audit'[d] = audit[d],
         UNCHANGED <<opener, request>>
  PROVE  Blamed(d, s)'
  BY DEF Blamed, Tells

\* A step of the server that leaves the device alone, and the session's shells.
LEMMA ServerShells ==
  ASSUME ShellInv, UNCHANGED <<request, shell, opener, answer, shellMap>>,
         \A d \in Calls : /\ exec'[d] = exec[d] \/ exec'[d] = "sent"
                          /\ pc[d] \in {"wait", "cancelled"} => pc'[d] \in {"wait", "cancelled"}
                          /\ audit[d] = <<"error">> => audit'[d] = <<"error">>
  PROVE  ShellInv'
  <1>1. OneOpener'
    BY DEF ShellInv, OneOpener, Tells
  <1>2. ShellWork'
    BY DEF ShellInv, ShellWork, WorkOf, Tells
  <1>3. NoForgottenShell'
    BY DEF ShellInv, NoForgottenShell, Tells
  <1> QED
    BY <1>1, <1>2, <1>3 DEF ShellInv

LEMMA DeviceShells ==
  ASSUME TypeInv, CallInv, ShellInv, DeviceMoves, UNCHANGED <<request, callVars>>
  PROVE  ShellInv'
  <1>0. /\ OneOpener /\ ShellWork /\ NoForgottenShell /\ None \notin Calls
        /\ exec \in [Calls -> ExecPCs] /\ answer \in [Calls -> Answers]
        /\ shell \in [Shells -> ShellStates] /\ opener \in [Shells -> Calls \cup {None}]
        /\ UNCHANGED <<request, pc, audit, shellMap>>
    BY CallTypes, CallsAssumption DEF TypeInv, ShellInv, callVars
  <1>1. ASSUME OlderShells, UNCHANGED opener PROVE NoForgottenShell'
    <2>1. \A s \in Shells : shell'[s] = "running" => shell[s] = "running"
      BY <1>1 DEF OlderShells
    <2> SUFFICES ASSUME NEW s \in Shells, shell'[s] = "running", s \notin shellMap
                 PROVE  \E d \in Calls : Blamed(d, s)'
      BY <1>0 DEF NoForgottenShell, Blamed
    <2>2. PICK d \in Calls : Blamed(d, s)
      BY <1>0, <2>1, BlamedParts
    <2> QED
      BY <1>0, <1>1, <2>2, SameBlame
  <1>2. CASE OlderShells /\ UNCHANGED <<opener, exec, answer>>
    BY <1>0, <1>1, <1>2, OlderWork, OlderOpeners DEF ShellInv, ShellWork
  <1>3. ASSUME NEW c \in Calls, HandlerMoves(c) PROVE ShellInv'
    <2>1. ShellWork'
      BY <1>0, <1>3, OlderWork DEF ShellWork, HandlerMoves
    <2>2. answer[c] = "none"
      BY <1>3 DEF HandlerMoves, CallInv, CallOf
    <2>3. \A s \in Shells : opener[s] # None => answer'[opener[s]] = answer[opener[s]]
      BY <1>0, <1>3, <2>2 DEF HandlerMoves, OneOpener
    <2>4. OneOpener'
      BY <1>0, <1>3, <2>3, OlderOpeners DEF HandlerMoves
    <2> QED
      BY <1>1, <1>3, <2>1, <2>4 DEF ShellInv, HandlerMoves
  <1>4. ASSUME NEW c \in Calls, NEW s \in Shells, ShellStarts(c, s) PROVE ShellInv'
    <2>1. /\ exec[c] = "sent" /\ Tells(c, "shell_session_start") /\ shell[s] = "none"
          /\ opener[s] = None /\ answer[c] = "none"
          /\ \A t \in Shells : opener[t] # c
      BY <1>0, <1>4 DEF ShellStarts, OneOpener, CallInv, CallOf
    <2>2. /\ shell'[s] = "running" /\ opener'[s] = c /\ exec'[c] = "done" /\ answer'[c] = "ok"
          /\ \A t \in Shells \ {s} : shell'[t] = shell[t] /\ opener'[t] = opener[t]
          /\ \A d \in Calls \ {c} : exec'[d] = exec[d] /\ answer'[d] = answer[d]
      BY <1>0, <1>4 DEF ShellStarts, AnswerWith
    <2>3. OneOpener'
      BY <1>0, <2>1, <2>2 DEF OneOpener, Tells
    <2>4. ASSUME NEW d \in Calls PROVE WorkOf(d)'
      <3>1. CASE d = c
        BY <1>0, <2>1, <2>2, <3>1 DEF WorkOf, Tells
      <3>2. CASE d # c
        BY <1>0, <2>1, <2>2, <3>2 DEF ShellWork, WorkOf, Tells
      <3> QED
        BY <3>1, <3>2
    <2>5. pc[c] \in {"wait", "cancelled"} \/ audit[c] = <<"error">>
      BY <2>1 DEF CallInv, CallOf
    <2>6. NoForgottenShell'
      <3> SUFFICES ASSUME NEW t \in Shells, shell'[t] = "running", t \notin shellMap
                   PROVE  \E d \in Calls : Blamed(d, t)'
        BY <1>0 DEF NoForgottenShell, Blamed
      <3>1. CASE t = s
        BY <1>0, <2>2, <2>5, <3>1 DEF Blamed
      <3>2. CASE t # s
        <4>1. PICK d \in Calls : Blamed(d, t)
          BY <1>0, <2>2, <3>2, BlamedParts
        <4> QED
          BY <1>0, <2>2, <3>2, <4>1 DEF Blamed, Tells
      <3> QED
        BY <3>1, <3>2
    <2> QED
      BY <2>3, <2>4, <2>6 DEF ShellInv, ShellWork
  <1> QED
    BY <1>2, <1>3, <1>4 DEF DeviceMoves

\* A dispatch ends: the session drops a shell it cannot vouch for, and one that
\* is alive has its opener or its closer to blame.
LEMMA EndShells ==
  ASSUME TypeInv, CallInv, ShellInv, NEW c \in Calls,
         DispatchEnds(c) \/ ReceiveResult(c) \/ SendFails(c)
  PROVE  ShellInv'
  <1>0. /\ OneOpener /\ ShellWork /\ NoForgottenShell /\ None \notin Calls
        /\ pc \in [Calls -> CallPCs] /\ audit \in [Calls -> Seq(Entries)]
        /\ opener \in [Shells -> Calls \cup {None}]
        /\ UNCHANGED <<request, exec, answer, shell, opener>>
        /\ audit[c] = <<>>
    BY CallTypes, CallsAssumption, SendCases DEF TypeInv, ShellInv, DispatchEnds, ReceiveResult,
      SendFails, deviceVars, CallInv, CallOf
  <1>1. OneOpener' /\ ShellWork'
    BY <1>0 DEF OneOpener, ShellWork, WorkOf, Tells
  <1>2. /\ \A d \in Calls \ {c} : pc'[d] = pc[d] /\ audit'[d] = audit[d]
        /\ \A s \in shellMap \ shellMap' : request[c].shell = s
        /\ \A s \in shellMap \ shellMap' :
             Tells(c, "shell_session_close") \/ answer[c] = "exited"
        /\ \/ audit'[c] = <<"error">>
           \/ /\ answer[c] \notin {"none", "error", "no image"}
              /\ shellMap' = MapAfterAnswer(c)
    <2>1. CASE DispatchEnds(c) \/ SendFails(c)
      <3>1. Finish(c, "error") /\ shellMap' = MapAfterFailure(c)
        BY <2>1 DEF DispatchEnds, SendFails, DispatchFails
      <3>2. audit'[c] = <<"error">>
        BY <1>0, <3>1, FirstEntry DEF TypeInv, Entries
      <3> QED
        BY <1>0, <3>1, <3>2 DEF Finish, Goto, MapAfterFailure
    <2>2. CASE ReceiveResult(c) /\ answer[c] \in {"error", "no image"}
      <3>1. /\ Finish(c, "error")
            /\ shellMap' = MapAfterFailure(c) \/ shellMap' = MapAfterAnswer(c)
        BY <2>2 DEF ReceiveResult
      <3>2. audit'[c] = <<"error">>
        BY <1>0, <3>1, FirstEntry DEF TypeInv, Entries
      <3> QED
        BY <1>0, <3>1, <3>2 DEF Finish, Goto, MapAfterFailure, MapAfterAnswer
    <2>3. CASE ReceiveResult(c) /\ answer[c] \notin {"error", "no image"}
      <3>1. Finish(c, "ok") /\ shellMap' = MapAfterAnswer(c) /\ answer[c] # "none"
        BY <2>3 DEF ReceiveResult, CallInv, CallOf
      <3> QED
        BY <1>0, <2>3, <3>1 DEF Finish, Goto, MapAfterAnswer
    <2> QED
      BY <2>1, <2>2, <2>3
  <1>3. ASSUME NEW s \in Shells, shell[s] = "running", s \notin shellMap'
        PROVE  \E d \in Calls : Blamed(d, s)'
    <2>1. CASE s \in shellMap
      <3>1. request[c].shell = s /\ answer[c] # "exited" /\ Tells(c, "shell_session_close")
        BY <1>0, <1>2, <1>3, <2>1 DEF ShellWork, WorkOf
      <3>2. audit'[c] = <<"error">>
        BY <1>0, <1>2, <1>3, <3>1 DEF ShellWork, WorkOf
      <3> QED
        BY <1>0, <3>1, <3>2 DEF Blamed, Tells
    <2>2. CASE s \notin shellMap
      <3>1. PICK d \in Calls : Blamed(d, s)
        BY <1>0, <1>3, <2>2, BlamedParts
      <3>2. CASE d # c
        BY <1>0, <1>2, <3>1, <3>2, SameBlame
      <3>3. CASE d = c /\ audit'[c] = <<"error">>
        BY <1>0, <3>1, <3>3 DEF Blamed, Tells
      <3>4. CASE d = c /\ audit'[c] # <<"error">>
        <4>1. CASE opener[s] = c
          BY <1>0, <1>2, <1>3, <3>4, <4>1 DEF OneOpener, MapAfterAnswer
        <4>2. CASE Tells(c, "shell_session_close") /\ request[c].shell = s
          BY <1>0, <1>2, <1>3, <3>4, <4>2 DEF ShellWork, WorkOf
        <4> QED
          BY <3>1, <3>4, <4>1, <4>2 DEF Blamed
      <3> QED
        BY <3>2, <3>3, <3>4
    <2> QED
      BY <2>1, <2>2
  <1>4. NoForgottenShell'
    BY <1>0, <1>3 DEF NoForgottenShell, Blamed
  <1> QED
    BY <1>1, <1>4 DEF ShellInv

LEMMA ShellStep == ASSUME TypeInv, CallInv, ShellInv, [Next]_vars PROVE ShellInv'
  <1>0. /\ pc \in [Calls -> CallPCs] /\ audit \in [Calls -> Seq(Entries)]
        /\ exec \in [Calls -> ExecPCs] /\ shell \in [Shells -> ShellStates]
        /\ TypeOK /\ Planned /\ SentOnce /\ ShellWork /\ OneOpener /\ NoForgottenShell
    BY CallTypes, CallFacts DEF TypeInv, ShellInv
  <1>1. ASSUME NEW c \in Calls, audit[c] = <<>>, pc[c] \notin {"wait", "cancelled"},
               \A d \in Calls \ {c} : /\ pc'[d] = pc[d] /\ audit'[d] = audit[d]
                                      /\ exec'[d] = exec[d],
               exec'[c] = exec[c] \/ exec'[c] = "sent",
               UNCHANGED <<request, shell, opener, answer, shellMap>>
        PROVE  ShellInv'
    BY <1>1, ServerShells
  <1>2. ASSUME NEW c \in Calls,
               \/ ToolsCall(c) \/ CallTool(c) \/ FileExists(c) \/ StatSend(c) \/ StatReturns(c)
               \/ RequestElicitation(c) \/ ReceiveReply(c) \/ ElicitationEnds(c) \/ SendGoes(c)
        PROVE  ShellInv'
    <2>1. pc[c] \in CallPCs \ {"wait", "cancelled", "return", "done"}
      BY <1>2, SendCases DEF ToolsCall, CallTool, FileExists, StatSend, StatReturns,
        RequestElicitation, ReceiveReply, ElicitationEnds, SendGoes, CallPCs
    <2>2. audit[c] = <<>>
      BY <2>1 DEF CallInv, CallOf
    <2>3. CASE SendGoes(c)
      <3>1. UNCHANGED <<request, shell, opener, answer, shellMap, audit>>
        BY <2>3, SendCases DEF SendGoes
      <3>2. exec'[c] = exec[c] \/ exec'[c] = "sent"
        BY <1>0, <2>3 DEF SendGoes
      <3>3. \A d \in Calls \ {c} : pc'[d] = pc[d] /\ exec'[d] = exec[d]
        BY <1>0, <2>3 DEF SendGoes, Goto
      <3> QED
        BY <1>1, <2>1, <2>2, <3>1, <3>2, <3>3
    <2>4. CASE ToolsCall(c) \/ CallTool(c)
      BY <1>0, <1>1, <2>1, <2>2, <2>4 DEF ToolsCall, CallTool, Goto, Finish, deviceVars
    <2>5. CASE FileExists(c) \/ StatSend(c) \/ StatReturns(c)
      BY <1>0, <1>1, <2>1, <2>2, <2>5 DEF FileExists, StatSend, StatReturns, Goto, deviceVars
    <2>6. CASE RequestElicitation(c) \/ ReceiveReply(c) \/ ElicitationEnds(c)
      BY <1>0, <1>1, <2>1, <2>2, <2>6 DEF RequestElicitation, ReceiveReply,
        ElicitationEnds, Elicited, Goto, Finish, deviceVars
    <2> QED
      BY <1>2, <2>3, <2>4, <2>5, <2>6
  <1>3. ASSUME NEW c \in Calls, BridgeCancels(c) \/ Return(c) PROVE ShellInv'
    BY <1>0, <1>3, ServerShells DEF BridgeCancels, Return, Goto, deviceVars
  <1>4. ASSUME \/ \E c \in Calls : ClientReplies(c) \/ HandleCancelled(c)
               \/ SessionEnds \/ WindowSlides \/ UNCHANGED vars
        PROVE  ShellInv'
    BY <1>4, ServerShells DEF ClientReplies, HandleCancelled, SessionEnds, WindowSlides, vars,
      callVars, deviceVars
  <1>5. ASSUME LinkMoves PROVE ShellInv'
    <2>1. OlderShells /\ UNCHANGED <<request, opener, exec, answer, pc, audit, shellMap>>
      BY <1>0, <1>5, LinkStep
    <2>2. ShellWork' /\ OneOpener'
      BY <1>0, <2>1, OlderWork, OlderOpeners DEF ShellWork
    <2>3. NoForgottenShell'
      <3> SUFFICES ASSUME NEW s \in Shells, shell'[s] = "running", s \notin shellMap
                   PROVE  \E d \in Calls : Blamed(d, s)'
        BY <2>1 DEF NoForgottenShell, Blamed
      <3>1. shell[s] = "running"
        BY <2>1 DEF OlderShells
      <3>2. PICK d \in Calls : Blamed(d, s)
        BY <1>0, <3>1, BlamedParts
      <3> QED
        BY <2>1, <3>2, SameBlame
    <2> QED
      BY <2>2, <2>3 DEF ShellInv
  <1>6. ASSUME DeviceNext, UNCHANGED <<request, callVars>> PROVE ShellInv'
    BY <1>0, <1>6, DeviceStep, DeviceShells
  <1> QED
    BY <1>2, <1>3, <1>4, <1>5, <1>6, EndShells, SendCases DEF Next, ServerWorks, LinkMoves

-----------------------------------------------------------------------------
\* Slots and room

CallsInFlight == {c \in Calls : InFlight(c)}

\* Cardinality of the sets the limits are about.
LEMMA Finite ==
  /\ \A S \in SUBSET Calls : IsFiniteSet(S) /\ Cardinality(S) \in Nat
  /\ \A S \in SUBSET Shells : IsFiniteSet(S) /\ Cardinality(S) \in Nat
  BY CallsAssumption, ShellsAssumption, FS_Subset, FS_CardinalityType

LEMMA Fewer ==
  ASSUME NEW T, IsFiniteSet(T), NEW S \in SUBSET T
  PROVE  Cardinality(S) <= Cardinality(T)
  BY FS_Subset

\* One more, one less.
LEMMA OneMore ==
  ASSUME NEW S, IsFiniteSet(S), NEW x
  PROVE  /\ x \notin S => Cardinality(S \cup {x}) = Cardinality(S) + 1
         /\ x \in S => Cardinality(S \ {x}) = Cardinality(S) - 1
         /\ Cardinality(S \cup {x}) <= Cardinality(S) + 1
  <1>1. Cardinality(S) \in Nat
    BY FS_CardinalityType
  <1>2. x \in S => S \cup {x} = S
    OBVIOUS
  <1> QED
    BY <1>1, <1>2, FS_AddElement, FS_RemoveElement

LEMMA SlotsStep ==
  ASSUME TypeInv, SlotsCount, [Next]_vars
  PROVE  SlotsCount'
  <1>0. /\ pc \in [Calls -> CallPCs] /\ slots \in 0 .. MaxConcurrent
        /\ MaxConcurrent \in Nat /\ slots = Cardinality(CallsInFlight)
        /\ IsFiniteSet(CallsInFlight)
    BY CallTypes, LimitsAssumption, Finite DEF TypeInv, SlotsCount, CallsInFlight
  <1>1. ASSUME UNCHANGED slots,
               \A d \in Calls : pc[d] \in {"idle", "done"} <=> pc'[d] \in {"idle", "done"}
        PROVE  SlotsCount'
    <2>1. {c \in Calls : InFlight(c)}' = CallsInFlight
      BY <1>1 DEF CallsInFlight, InFlight
    <2> QED
      BY <1>0, <1>1, <2>1 DEF SlotsCount
  <1>2. ASSUME NEW c \in Calls, NEW l \in CallPCs \ {"idle", "done"}, InFlight(c), Goto(c, l), UNCHANGED slots
        PROVE  SlotsCount'
    BY <1>0, <1>1, <1>2 DEF Goto, InFlight
  <1>3. ASSUME NEW c \in Calls, ToolsCall(c) PROVE SlotsCount'
    <2>1. CASE Goto(c, "done") /\ UNCHANGED slots
      BY <1>0, <1>1, <1>3, <2>1 DEF ToolsCall, Goto
    <2>2. CASE AcquireDispatchSlot /\ Goto(c, "called")
      <3>1. {d \in Calls : InFlight(d)}' = CallsInFlight \cup {c} /\ c \notin CallsInFlight
        BY <1>0, <1>3, <2>2 DEF ToolsCall, Goto, InFlight, CallsInFlight
      <3> QED
        BY <1>0, <2>2, <3>1, OneMore DEF AcquireDispatchSlot, SlotsCount
    <2> QED
      BY <1>3, <2>1, <2>2 DEF ToolsCall
  <1>4. ASSUME NEW c \in Calls, Return(c) PROVE SlotsCount'
    <2>1. {d \in Calls : InFlight(d)}' = CallsInFlight \ {c} /\ c \in CallsInFlight
      BY <1>0, <1>4 DEF Return, Goto, InFlight, CallsInFlight
    <2>2. Cardinality(CallsInFlight \ {c}) = slots - 1 /\ slots > 0
      BY <1>0, <2>1, OneMore, Finite
    <2> QED
      BY <1>0, <1>4, <2>1, <2>2 DEF Return, ReleaseDispatchSlot, SlotsCount
  <1>5. ASSUME NEW c \in Calls,
               \/ CallTool(c) \/ FileExists(c) \/ StatSend(c) \/ StatReturns(c)
               \/ RequestElicitation(c) \/ ReceiveReply(c) \/ ElicitationEnds(c)
        PROVE  SlotsCount'
    <2>1. /\ InFlight(c) /\ UNCHANGED slots
          /\ \E l \in CallPCs \ {"idle", "done"} : Goto(c, l)
      BY <1>5 DEF CallTool, FileExists, StatSend, StatReturns, RequestElicitation, ReceiveReply,
        ElicitationEnds, Elicited, Finish, NextStep, InFlight, CallPCs
    <2> QED
      BY <1>2, <2>1
  <1>6. ASSUME NEW c \in Calls,
               \/ Dispatch(c) \/ SendDispatch(c) \/ BridgeCancels(c) \/ DispatchEnds(c)
               \/ ReceiveResult(c)
        PROVE  SlotsCount'
    <2>1. /\ InFlight(c) /\ UNCHANGED slots
          /\ \E l \in CallPCs \ {"idle", "done"} : Goto(c, l)
      BY <1>6 DEF Dispatch, SendDispatch, BridgeCancels, DispatchEnds, ReceiveResult,
        DispatchFails, Finish, InFlight, CallPCs
    <2> QED
      BY <1>2, <2>1
  <1>7. ASSUME \/ \E c \in Calls : ClientReplies(c) \/ HandleCancelled(c)
               \/ SessionEnds \/ WindowSlides \/ UNCHANGED vars \/ UNCHANGED callVars
        PROVE  SlotsCount'
    BY <1>1, <1>7 DEF ClientReplies, HandleCancelled, SessionEnds, WindowSlides, vars, callVars
  <1>8. ASSUME LinkMoves PROVE SlotsCount'
    BY <1>1, <1>8, LinkStep DEF TypeInv
  <1> QED
    BY <1>3, <1>4, <1>5, <1>6, <1>7, <1>8 DEF Next, ServerWorks, LinkMoves

LEMMA RoomStep ==
  ASSUME Inv, TypeInv', SlotsCount', [Next]_vars
  PROVE  ShellsBounded'
  <1> DEFINE N == MaxShells - 1 + MaxConcurrent
  <1>0. /\ pc \in [Calls -> CallPCs] /\ shellMap \subseteq Shells /\ Starting \subseteq Calls
        /\ IsFiniteSet(shellMap) /\ IsFiniteSet(Starting)
        /\ Cardinality(shellMap) \in Nat /\ Cardinality(Starting) \in Nat
        /\ MaxShells \in Nat /\ MaxConcurrent \in Nat
        /\ Cardinality(shellMap) + Cardinality(Starting) <= N
    BY CallTypes, Finite, LimitsAssumption
    DEF Inv, TypeInv, RoomInv, ShellsBounded, Starting
  <1>1. ASSUME shellMap' \subseteq shellMap, Starting' \subseteq Starting
        PROVE  ShellsBounded'
    <2>1. /\ Cardinality(shellMap') <= Cardinality(shellMap)
          /\ Cardinality(Starting') <= Cardinality(Starting)
          /\ Cardinality(shellMap') \in Nat /\ Cardinality(Starting') \in Nat
      BY <1>0, <1>1, Fewer, Finite
    <2> QED
      BY <1>0, <2>1 DEF ShellsBounded
  <1>2. ASSUME NEW c \in Calls, NEW l, Goto(c, l), UNCHANGED request,
               \/ l \notin {"ask", "await", "dispatch", "send", "wait", "cancelled"}
               \/ c \in Starting \/ ~Tells(c, "shell_session_start")
        PROVE  Starting' \subseteq Starting
    BY <1>0, <1>2 DEF Goto, Starting, Tells
  <1>3. ASSUME NEW c \in Calls, CallTool(c) PROVE ShellsBounded'
    <2>0. UNCHANGED <<shellMap, request>> /\ shellMap' \subseteq shellMap
      BY <1>3 DEF CallTool
    <2>1. CASE Tells(c, "shell_session_start") /\ Admitted(c)
      <3>1. Cardinality(shellMap) < MaxShells
        <4>1. Def(c).needs = "room"
          BY <1>3, <2>1, ToolTable DEF Inv, TypeInv, ToolNamed, CallTool, Tells, Def
        <4> QED
          BY <2>1, <4>1 DEF Admitted
      <3>2. /\ slots' = Cardinality(CallsInFlight') /\ slots' \in 0 .. MaxConcurrent
            /\ CallsInFlight' \subseteq Calls
        BY DEF SlotsCount, CallsInFlight, TypeInv, TypeOK
      <3>3. Starting' \subseteq CallsInFlight'
        BY DEF Starting, CallsInFlight, InFlight
      <3>4. /\ Cardinality(Starting') <= Cardinality(CallsInFlight')
            /\ Cardinality(Starting') \in Nat
        BY <3>2, <3>3, Finite, Fewer
      <3> QED
        BY <1>0, <2>0, <3>1, <3>2, <3>4 DEF ShellsBounded
    <2>2. CASE ~Tells(c, "shell_session_start")
      <3>1. \E l : Goto(c, l)
        BY <1>3 DEF CallTool, Finish
      <3> QED
        BY <1>1, <1>2, <2>0, <2>2, <3>1
    <2>3. CASE ~Admitted(c)
      BY <1>1, <1>2, <1>3, <2>0, <2>3 DEF CallTool
    <2> QED
      BY <2>1, <2>2, <2>3
  <1>4. ASSUME NEW c \in Calls, ToolsCall(c) \/ Return(c) PROVE ShellsBounded'
    <2>1. /\ UNCHANGED <<shellMap, request>> /\ shellMap' \subseteq shellMap
          /\ Goto(c, "done") \/ Goto(c, "called")
      BY <1>4 DEF ToolsCall, Return
    <2> QED
      BY <1>1, <1>2, <2>1
  <1>5. ASSUME NEW c \in Calls,
               \/ FileExists(c) \/ StatSend(c) \/ StatReturns(c) \/ RequestElicitation(c)
               \/ ReceiveReply(c) \/ ElicitationEnds(c) \/ BridgeCancels(c) \/ SendGoes(c)
        PROVE  ShellsBounded'
    <2>1. UNCHANGED <<shellMap, request>> /\ (\E l : Goto(c, l)) /\ shellMap' \subseteq shellMap
      BY <1>5, SendCases DEF FileExists, StatSend, StatReturns, RequestElicitation, ReceiveReply,
        ElicitationEnds, BridgeCancels, SendGoes, Elicited, Finish
    <2>2. pc[c] \in {"stat", "statSend", "statWait", "ask", "await", "wait", "dispatch", "send"}
      BY <1>5, SendCases DEF FileExists, StatSend, StatReturns, RequestElicitation, ReceiveReply,
        ElicitationEnds, BridgeCancels, SendGoes
    <2>3. pc[c] \in {"stat", "statSend", "statWait"} => ~Tells(c, "shell_session_start")
      BY DEF Inv, CallInv, CallOf, Tells
    <2>4. c \in Starting \/ ~Tells(c, "shell_session_start")
      BY <2>2, <2>3 DEF Starting
    <2> QED
      BY <1>1, <1>2, <2>1, <2>4
  <1>6. ASSUME NEW c \in Calls,
               DispatchEnds(c) \/ ReceiveResult(c) \/ SendFails(c)
        PROVE  ShellsBounded'
    <2>1. /\ Goto(c, "return") /\ UNCHANGED <<request, opener>>
          /\ shellMap' \subseteq shellMap \/ shellMap' = MapAfterAnswer(c)
          /\ Tells(c, "shell_session_start") => c \in Starting
      <3>1. CASE DispatchEnds(c) \/ SendFails(c)
        BY <3>1, SendCases DEF DispatchEnds, SendFails, DispatchFails, Finish, MapAfterFailure,
          deviceVars, Starting
      <3>2. CASE ReceiveResult(c)
        BY <3>2 DEF ReceiveResult, Finish, MapAfterFailure, deviceVars, Starting
      <3> QED
        BY <1>6, <3>1, <3>2
    <2>2. CASE shellMap' \subseteq shellMap
      BY <1>1, <1>2, <2>1, <2>2
    <2>3. CASE ~(shellMap' \subseteq shellMap)
      <3>1. /\ Tells(c, "shell_session_start") /\ c \in Starting
            /\ shellMap' = shellMap \cup {s \in Shells : opener[s] = c}
        BY <2>1, <2>3 DEF MapAfterAnswer
      <3>2. PICK s \in Shells : opener[s] = c
        BY <2>3, <3>1
      <3>3. c # None /\ OneOpener
        BY CallsAssumption DEF Inv, ShellInv
      <3>4. shellMap' = shellMap \cup {s}
        BY <3>1, <3>2, <3>3 DEF OneOpener
      <3>5. Starting' = Starting \ {c}
        BY <1>0, <2>1 DEF Goto, Starting, Tells
      <3>6. /\ Cardinality(shellMap') <= Cardinality(shellMap) + 1
            /\ Cardinality(Starting') = Cardinality(Starting) - 1
        BY <1>0, <3>1, <3>4, <3>5, OneMore
      <3>7. Cardinality(shellMap') \in Nat /\ Cardinality(Starting') \in Nat
        BY <1>0, <3>4, <3>5, Finite
      <3> QED
        BY <1>0, <3>6, <3>7 DEF ShellsBounded
    <2> QED
      BY <2>2, <2>3
  <1>7. ASSUME \/ \E c \in Calls : ClientReplies(c) \/ HandleCancelled(c)
               \/ SessionEnds \/ LinkMoves \/ WindowSlides \/ UNCHANGED vars
               \/ UNCHANGED <<request, callVars>>
        PROVE  ShellsBounded'
    <2>1. UNCHANGED <<shellMap, request, pc>>
      BY <1>7, LinkStep DEF ClientReplies, HandleCancelled, SessionEnds, WindowSlides, vars,
        callVars, Inv, TypeInv
    <2>2. Starting' = Starting
      BY <2>1 DEF Starting, Tells
    <2> QED
      BY <1>1, <2>1, <2>2
  <1> QED
    BY <1>3, <1>4, <1>5, <1>6, <1>7, SendCases DEF Next, ServerWorks, LinkMoves

-----------------------------------------------------------------------------
\* Theorems

\* Every step keeps the invariant.
LEMMA NextInv == Inv /\ [Next]_vars => Inv'
  <1> SUFFICES ASSUME Inv, [Next]_vars PROVE Inv'
    OBVIOUS
  <1>1. TypeInv /\ CallInv /\ ShellInv /\ SlotsCount /\ ShellWork /\ SentOnce
    BY CallFacts DEF Inv, ShellInv, RoomInv
  <1>2. TypeInv' /\ CallInv' /\ ShellInv' /\ SlotsCount'
    BY <1>1, TypeStep, CallStep, ShellStep, SlotsStep
  <1>3. ShellsBounded'
    BY <1>2, RoomStep
  <1> QED
    BY <1>2, <1>3 DEF Inv, RoomInv

\* The invariant holds in every reachable state.
LEMMA InvHolds == Spec => []Inv
  BY InitInv, NextInv, PTL DEF Spec

\* Every variable keeps its type, and the limiter its three limits: requests
\* and tool calls per minute, dispatch slots.
THEOREM TypeCorrect == Spec => []TypeOK
  <1>1. Inv => TypeOK
    BY DEF Inv, TypeInv
  <1> QED
    BY <1>1, InvHolds, PTL

\* No command, deletion, signal, input or overwriting reaches the agent
\* without the client's confirmation of this very call.
THEOREM ConfirmedBeforeEffectHolds == Spec => []ConfirmedBeforeEffect
  <1>1. Inv => ConfirmedBeforeEffect
    BY CallFacts DEF Inv
  <1> QED
    BY <1>1, InvHolds, PTL

\* The audit log has one entry at most for a call, it says what happened on
\* the device, and every call that was sent to the agent and has returned has
\* one or could not write it.
THEOREM AuditTellsTruthHolds == Spec => []AuditTellsTruth
  <1>1. Inv => AuditTellsTruth
    BY CallFacts DEF Inv
  <1> QED
    BY <1>1, InvHolds, PTL

\* RC_MAX_SHELL_SESSIONS is missed by less than the number of dispatch slots,
\* whatever calls pass the check together.
THEOREM ShellsBoundedHolds == Spec => []ShellsBounded
  <1>1. Inv => ShellsBounded
    BY DEF Inv, RoomInv
  <1> QED
    BY <1>1, InvHolds, PTL

\* A running shell the session does not know has a call to blame: one that
\* opened it or was to close it, and is not back or has failed.
THEOREM NoForgottenShellHolds == Spec => []NoForgottenShell
  <1>1. Inv => NoForgottenShell
    BY DEF Inv, ShellInv
  <1> QED
    BY <1>1, InvHolds, PTL
=============================================================================
