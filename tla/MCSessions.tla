----------------------------- MODULE MCSessions -----------------------------
(* Sessions on a small instance.  Each plan is the requests of one client  *)
(* and the events that come in meanwhile; TLC starts once with each.       *)
EXTENDS Sessions

Plan(r, i, t, s, w, u, c, e) ==
  [redis |-> r, idle |-> i, token |-> t, stream |-> s, watch |-> w, subscribe |-> u, cancel |-> c, event |-> e]

CONSTANTS j1, j2

MCPlans == {Plan(1, 1, 0, 3, 0, 0, 0, 4), Plan(0, 0, 0, 0, 2, 0, 0, 0),
            Plan(0, 1, 0, 0, 1, 0, 1, 0),
            Plan(0, 1, 1, 0, 1, 1, 0, 1), Plan(0, 1, 0, 1, 0, 3, 0, 1)}
\* A client that loses a stream and resumes while events come in.
MCResumePlans == {Plan(0, 0, 0, 2, 0, 0, 0, 2)}
MCURIs == {Sysinfo, Clients, j1}
=============================================================================
