---------------------------- MODULE MCToolCalls ----------------------------
(***************************************************************************)
(* ToolCalls on a small instance: a directory d with a file f in it, inside *)
(* the roots of the agent and of the server, and a directory o outside of   *)
(* both in which the agent runs.  Each plan is what one client asks for;    *)
(* TLC starts once with each.                                               *)
(***************************************************************************)
EXTENDS ToolCalls

CONSTANTS c1, c2, c3, s1

MCNames == {<<"d">>, <<"d", "f">>, <<"o">>, <<"o", "f">>}
MCDirs == {<<"d">>, <<"o">>}
MCFirstFiles == MCDirs \cup {<<"d", "f">>}
MCCwd == <<"o">>
MCRoots == {<<"d">>}

Abs(names) == [abs |-> TRUE, names |-> names]
Rel(names) == [abs |-> FALSE, names |-> names]

Ask(tool, path, s) ==
  [tool |-> tool, path |-> path, shell |-> s, deep |-> TRUE, denied |-> FALSE, valid |-> TRUE]
Simple(tool) == Ask(tool, Abs(<<"d">>), None)
OnFile(tool) == Ask(tool, Abs(<<"d", "f">>), None)
OnShell(tool) == Ask(tool, Abs(<<"d">>), s1)
Nothing == Simple("none")

\* The budgets: cancels, losses, minutes, deletes.
Plan(a, b, c, skip, every, limit, tools, cancels, losses, minutes, deletes) ==
  [request |-> (c1 :> a) @@ (c2 :> b) @@ (c3 :> c), skip |-> skip, everyWrite |-> every,
   posts |-> limit, tools |-> tools, diskFull |-> FALSE,
   budget |-> [cancels |-> cancels, losses |-> losses, minutes |-> minutes, deletes |-> deletes]]

OnFullDisk(p) == [p EXCEPT !.diskFull = TRUE]

\* Each tool by itself, with everything that may come between.
Singles ==
  {Plan(r, Nothing, Nothing, FALSE, FALSE, 3, 3, 1, 1, 0, 1) :
     r \in {Simple(t) : t \in DOMAIN Tools} \cup {OnFile(t) : t \in {"fs_read", "fs_write"}}
           \cup {Ask("fs_write", Rel(<<"f">>), None),
                 Ask("fs_delete", Abs(<<"o">>), None),
                 [Simple("shell_exec") EXCEPT !.denied = TRUE],
                 [Simple("fs_delete") EXCEPT !.deep = FALSE],
                 [Simple("shell_exec") EXCEPT !.valid = FALSE]}}

MCPlans ==
  Singles \cup
  { \* a shell, written to and closed
   Plan(Simple("shell_session_start"), OnShell("shell_session_write"),
        OnShell("shell_session_close"), TRUE, FALSE, 5, 3, 0, 1, 0, 0),
   Plan(Simple("shell_session_start"), OnShell("shell_session_write"),
        Nothing, TRUE, TRUE, 5, 3, 1, 1, 0, 0),
   Plan(Simple("shell_session_start"), OnShell("shell_session_close"),
        Nothing, TRUE, FALSE, 5, 3, 1, 1, 0, 0),
   Plan(Simple("shell_session_start"), OnShell("process_signal"),
        OnShell("shell_session_write"), TRUE, FALSE, 3, 3, 0, 0, 0, 0),
   Plan(Simple("shell_session_start"), OnShell("process_info"),
        OnShell("shell_session_close"), TRUE, FALSE, 5, 3, 0, 0, 0, 0),
   \* more shells than there is room for
   Plan(Simple("shell_session_start"), Simple("shell_session_start"),
        Simple("shell_session_start"), TRUE, FALSE, 5, 3, 0, 0, 0, 0),
   \* replies, a cancel and calls that compete for the limiter
   Plan(Simple("shell_exec"), Simple("input_key"), Simple("sysinfo_get"),
        FALSE, FALSE, 3, 2, 0, 0, 1, 0),
   Plan(Simple("shell_exec"), Simple("input_key"), Nothing,
        FALSE, FALSE, 3, 2, 1, 0, 1, 0),
   \* a file that comes and goes
   Plan(OnFile("fs_write"), Simple("fs_delete"), Nothing, FALSE, FALSE, 5, 3, 0, 0, 0, 1),
   \* a log that cannot be written
   OnFullDisk(Plan(Simple("shell_exec"), Nothing, Nothing, FALSE, FALSE, 3, 3, 1, 1, 0, 0)),
   OnFullDisk(Plan(Simple("shell_session_start"), OnShell("shell_session_close"), Nothing,
                   TRUE, FALSE, 3, 3, 0, 0, 0, 0))}

\* What the documented claims about shells need: two that are started together,
\* and one with a lost connection.
MCShellPlans ==
  {Plan(Simple("shell_session_start"), Simple("shell_session_start"), Nothing,
        TRUE, FALSE, 5, 3, 0, 0, 0, 0)}
MCIdlePlans ==
  {Plan(Simple("shell_session_start"), Nothing, Nothing, TRUE, FALSE, 5, 3, 0, 1, 0, 0)}
=============================================================================
