------------------------------ MODULE Executor ------------------------------
(***************************************************************************)
(* What an agent does with the dispatches it receives: the handlers of      *)
(* agent/client/dispatch.go and the executors of agent/executor they call.  *)
(* The device is its files, the shells of its shell sessions and what the   *)
(* handlers in progress are doing.                                          *)
(*                                                                         *)
(* A path is absolute, or relative to the agent's working directory; its    *)
(* names are cleaned and free of symbolic links.  Whether a name is that of *)
(* a directory does not change.  What a tool only reads is not kept: its    *)
(* answer says whether it could be read.                                    *)
(***************************************************************************)
EXTENDS Naturals, FiniteSets, Sequences, SequencesExt

CONSTANTS
  Calls,       \* tools/call requests; a call's dispatch goes by its name
  Shells,      \* shell session IDs, in the order they are minted
  None,        \* no shell, no path
  Names,       \* resolved paths
  Dirs,        \* those that are directories
  FirstFiles,  \* those that exist at first
  Cwd,         \* the agent's working directory
  AgentRoots   \* AGENT_FS_ALLOWED_ROOTS, empty if it is not set

ASSUME TreeAssumption ==
  /\ Dirs \subseteq Names /\ FirstFiles \subseteq Names /\ AgentRoots \subseteq Names
  /\ Names \subseteq Seq(STRING)
ASSUME ShellsAssumption == IsFiniteSet(Shells) /\ None \notin Shells
ASSUME CallsAssumption == IsFiniteSet(Calls) /\ None \notin Calls

VARIABLES
  request,   \* what each call asks for: tool, path, shell, recursive or createDirs
  tree,      \* the paths that exist
  shell,     \* of each shell: its process runs, has died, readLoop noticed, closed
  opener,    \* the call that started a shell
  exec,      \* where the handler of a dispatch is
  answer     \* the result of a dispatch

deviceVars == <<tree, shell, opener, exec, answer>>

ExecPCs == {"none", "sent", "running", "streaming", "closing", "killed", "done"}
ShellStates == {"none", "running", "dead", "exited", "closed"}

DeviceInit ==
  /\ tree = FirstFiles
  /\ shell = [s \in Shells |-> "none"] /\ opener = [s \in Shells |-> None]
  /\ exec = [c \in Calls |-> "none"]
  /\ answer = [c \in Calls |-> "none"]

----------------------------------------------------------------------------
\* The executors: for each the outcomes it may have

Outcome(t, h, a) == [tree |-> t, shell |-> h, answer |-> a]
Error == Outcome(tree, shell, "error")
Answered == Outcome(tree, shell, "ok")

Resolve(p) == IF p.abs THEN p.names ELSE Cwd \o p.names

\* resolveAllowedPath: under one of the roots, if there are any.
Allowed(n) == AgentRoots = {} \/ \E r \in AgentRoots : IsPrefix(r, n)

Below(n) == {m \in tree : IsStrictPrefix(n, m)}
Above(n) == {m \in Names : IsStrictPrefix(m, n)}

FSRead(r) ==
  LET n == Resolve(r.path)
  IN {Error} \cup IF Allowed(n) /\ n \in tree \ Dirs THEN {Answered} ELSE {}

\* Parents first, then the file; each may fail, and the file is truncated
\* before it is written.
FSWrite(r) ==
  LET n == Resolve(r.path)
      made == IF r.deep THEN tree \cup Above(n) ELSE tree
  IN {Error} \cup
     IF ~Allowed(n) \/ Above(n) \ made # {} THEN {}
     ELSE {Outcome(made, shell, "error")} \cup
          IF n \in Dirs THEN {}
          ELSE {Outcome(made \cup {n}, shell, a) : a \in {"ok", "error"}}

FSList(r) ==
  LET n == Resolve(r.path)
  IN {Error} \cup IF Allowed(n) /\ n \in tree \cap Dirs THEN {Answered} ELSE {}

\* RemoveAll may fail having removed a part of what is below the directory.
FSDelete(r) ==
  LET n == Resolve(r.path)
  IN {Error} \cup
     IF ~Allowed(n) \/ n \notin tree \/ (Below(n) # {} /\ ~r.deep) THEN {}
     ELSE {Outcome(tree \ (Below(n) \cup {n}), shell, "ok")} \cup
          {Outcome(tree \ gone, shell, "error") :
             gone \in {g \in SUBSET Below(n) :
                         \A m \in g : Below(m) \subseteq g}}

FSStat(r) ==
  LET n == Resolve(r.path)
  IN {Error} \cup IF Allowed(n) /\ n \in tree THEN {Answered} ELSE {}

ListProcesses == {Answered, Error}

\* A process here is the one of a shell; a dead one is in /proc until readLoop
\* has waited for it.
HasProcess(s) == s # None /\ shell[s] \in {"running", "dead"}

GetProcessInfo(r) ==
  IF HasProcess(r.shell)
  THEN {Answered} \cup IF shell[r.shell] = "dead" THEN {Error} ELSE {}
  ELSE {Error}

\* The signal is delivered, never to the agent itself; whether the process
\* dies of it is its own affair.
SendProcessSignal(r) ==
  {Error} \cup
  IF HasProcess(r.shell)
  THEN {Answered, Outcome(tree, [shell EXCEPT ![r.shell] = "dead"], "ok")}
  ELSE {}

GatherSysinfo == {Answered}

\* The image goes in a binary frame of its own, which may not be sent.
CaptureScreenshot == {Answered, Error, Outcome(tree, shell, "no image")}

\* xdotool within its own timeout.
Xdotool == {Answered, Error}

----------------------------------------------------------------------------
\* The handlers that answer at once

Handles(c, tool) == exec[c] = "sent" /\ request[c].tool = tool

AnswerWith(c, a) ==
  /\ exec' = [exec EXCEPT ![c] = "done"]
  /\ answer' = [answer EXCEPT ![c] = a]

Synchronous(c, tool, outcomes) ==
  /\ Handles(c, tool)
  /\ \E o \in outcomes :
       /\ tree' = o.tree /\ shell' = o.shell
       /\ AnswerWith(c, o.answer)
  /\ UNCHANGED opener

handleFSRead(c) == Synchronous(c, "fs_read", FSRead(request[c]))
handleFSWrite(c) == Synchronous(c, "fs_write", FSWrite(request[c]))
handleFSList(c) == Synchronous(c, "fs_list", FSList(request[c]))
handleFSDelete(c) == Synchronous(c, "fs_delete", FSDelete(request[c]))
handleFSStat(c) == Synchronous(c, "fs_stat", FSStat(request[c]))
handleProcessList(c) == Synchronous(c, "process_list", ListProcesses)
handleProcessInfo(c) == Synchronous(c, "process_info", GetProcessInfo(request[c]))
handleProcessSignal(c) == Synchronous(c, "process_signal", SendProcessSignal(request[c]))
handleSysinfoGet(c) == Synchronous(c, "sysinfo_get", GatherSysinfo)
handleScreenshotCapture(c) == Synchronous(c, "screenshot_capture", CaptureScreenshot)
handleInputKey(c) == Synchronous(c, "input_key", Xdotool)
handleInputMouseClick(c) == Synchronous(c, "input_mouse_click", Xdotool)
handleInputMouseMove(c) == Synchronous(c, "input_mouse_move", Xdotool)
handleInputType(c) == Synchronous(c, "input_type", Xdotool)

----------------------------------------------------------------------------
\* shell_exec

\* The command starts in a process group of its own, or fails to.
handleShellExec(c) ==
  /\ Handles(c, "shell_exec")
  /\ \/ exec' = [exec EXCEPT ![c] = "running"] /\ UNCHANGED answer
     \/ AnswerWith(c, "error")
  /\ UNCHANGED <<tree, shell, opener>>

\* The command ends by itself.
CommandEnds(c) ==
  /\ exec[c] = "running"
  /\ AnswerWith(c, "ok")
  /\ UNCHANGED <<tree, shell, opener>>

\* The timeout of the call, or a cancel that came before it, kills the group;
\* so a command that never ends is answered too.
CommandKilled(c) ==
  /\ exec[c] = "running"
  /\ AnswerWith(c, "killed")
  /\ UNCHANGED <<tree, shell, opener>>

----------------------------------------------------------------------------
\* Shell sessions

\* ShellSessionManager.sessions
Managed(s) == s # None /\ shell[s] \notin {"none", "closed"}

\* Start: a PTY, a shell in it and a new ID, or an error.
handleShellSessionStart(c) ==
  /\ Handles(c, "shell_session_start")
  /\ \/ \E s \in Shells :
          /\ shell[s] = "none"
          /\ s = CHOOSE u \in Shells : shell[u] = "none"
          /\ shell' = [shell EXCEPT ![s] = "running"]
          /\ opener' = [opener EXCEPT ![s] = c]
          /\ AnswerWith(c, "ok")
     \/ AnswerWith(c, "error") /\ UNCHANGED <<shell, opener>>
  /\ UNCHANGED tree

\* The shell's process ends: the user typed exit, a signal reached it.
ShellDies(s) ==
  /\ shell[s] = "running"
  /\ shell' = [shell EXCEPT ![s] = "dead"]
  /\ UNCHANGED <<tree, opener, exec, answer>>

\* readLoop: the PTY is at its end, the process has been waited for.
ReadLoopEnds(s) ==
  /\ shell[s] = "dead"
  /\ shell' = [shell EXCEPT ![s] = "exited"]
  /\ UNCHANGED <<tree, opener, exec, answer>>

\* Get and Write: an error if the session is closed, has exited, or if the
\* PTY cannot be written; else the output is awaited.
handleShellSessionWrite(c) ==
  LET s == request[c].shell
  IN /\ Handles(c, "shell_session_write")
     /\ \/ AnswerWith(c, "error")
        \/ /\ Managed(s) /\ shell[s] # "exited"
           /\ exec' = [exec EXCEPT ![c] = "streaming"]
           /\ UNCHANGED answer
     /\ UNCHANGED <<tree, shell, opener>>

\* StreamUntilIdleOrTimeout returns when the PTY is quiet, when the time is
\* up, when the context is cancelled or when the shell has exited; the answer
\* says whether it has, as far as readLoop knows.
StreamEnds(c) ==
  LET s == request[c].shell
  IN /\ exec[c] = "streaming"
     /\ \/ shell[s] # "exited" /\ AnswerWith(c, "ok")
        \/ shell[s] \in {"exited", "closed"} /\ AnswerWith(c, "exited")
     /\ UNCHANGED <<tree, shell, opener>>

\* Close: an error if there is no such session; else the signal is sent to
\* the group, unless the shell has exited.
handleShellSessionClose(c) ==
  LET s == request[c].shell
  IN /\ Handles(c, "shell_session_close")
     /\ IF ~Managed(s) THEN AnswerWith(c, "error")
        ELSE /\ exec' = [exec EXCEPT ![c] = "closing"]
             /\ UNCHANGED answer
     /\ UNCHANGED <<tree, shell, opener>>

\* The grace is over and the shell lives: SIGKILL.
CloseEscalates(c) ==
  LET s == request[c].shell
  IN /\ exec[c] = "closing" /\ shell[s] \notin {"exited", "closed"}
     /\ exec' = [exec EXCEPT ![c] = "killed"]
     /\ shell' = IF shell[s] = "running" THEN [shell EXCEPT ![s] = "dead"] ELSE shell
     /\ UNCHANGED <<tree, opener, answer>>

\* The shell has exited, or the second grace is over as well: out of the
\* manager, PTY closed.
CloseReturns(c) ==
  LET s == request[c].shell
  IN /\ exec[c] \in {"closing", "killed"}
     /\ shell[s] \in {"exited", "closed"} \/ exec[c] = "killed"
     /\ shell' = [shell EXCEPT ![s] = "closed"]
     /\ AnswerWith(c, "ok")
     /\ UNCHANGED <<tree, opener>>

\* CloseAll, with SIGKILL for every session.
CloseAll == [s \in Shells |-> IF Managed(s) THEN "closed" ELSE shell[s]]

----------------------------------------------------------------------------
\* HandleDispatch: one handler for each tool.
HandleDispatch(c) ==
  \/ handleFSRead(c) \/ handleFSWrite(c) \/ handleFSList(c) \/ handleFSDelete(c)
  \/ handleFSStat(c) \/ handleProcessList(c) \/ handleProcessInfo(c)
  \/ handleProcessSignal(c) \/ handleSysinfoGet(c) \/ handleScreenshotCapture(c)
  \/ handleInputKey(c) \/ handleInputMouseClick(c) \/ handleInputMouseMove(c)
  \/ handleInputType(c) \/ handleShellExec(c) \/ handleShellSessionStart(c)
  \/ handleShellSessionWrite(c) \/ handleShellSessionClose(c)

\* What the agent does for a dispatch until it has answered.
AgentWorks(c) ==
  \/ HandleDispatch(c) \/ CommandKilled(c) \/ StreamEnds(c)
  \/ CloseEscalates(c) \/ CloseReturns(c)

DeviceNext ==
  \/ \E c \in Calls : AgentWorks(c) \/ CommandEnds(c)
  \/ \E s \in Shells : ShellDies(s) \/ ReadLoopEnds(s)

DeviceTypeOK ==
  /\ tree \subseteq Names
  /\ shell \in [Shells -> ShellStates]
  /\ opener \in [Shells -> Calls \cup {None}]
  /\ exec \in [Calls -> ExecPCs]
  /\ answer \in [Calls -> {"none", "ok", "error", "no image", "exited", "killed"}]
=============================================================================
