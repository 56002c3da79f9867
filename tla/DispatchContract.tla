-------------------------- MODULE DispatchContract --------------------------
(***************************************************************************)
(* What Bridge.Dispatch promises a tool (internal/agent/dispatch.go:57-69), *)
(* and what ReplicaBridge.Dispatch says it implements too (relay.go:175):   *)
(* a call returns once; it succeeds only with the result of work that the   *)
(* agent has finished; and the agent is asked to do the work at most once,  *)
(* however many replicas, requests and cancels it took to ask it.  A call   *)
(* may fail while its work goes on, and work may even start after the       *)
(* caller has given up: neither is excluded by the code.                    *)
(***************************************************************************)
EXTENDS Naturals

CONSTANT Calls

VARIABLES
  phase,     \* of each call: idle, called, ok or failed
  starts,    \* how often the agent began the call's work
  finished   \* calls whose work the agent has completed

vars == <<phase, starts, finished>>

Init ==
  /\ phase = [c \in Calls |-> "idle"]
  /\ starts = [c \in Calls |-> 0]
  /\ finished = {}

Call(c) ==
  /\ phase[c] = "idle"
  /\ phase' = [phase EXCEPT ![c] = "called"]
  /\ UNCHANGED <<starts, finished>>

Start(c) ==
  /\ phase[c] # "idle"
  /\ starts[c] = 0
  /\ starts' = [starts EXCEPT ![c] = 1]
  /\ UNCHANGED <<phase, finished>>

Finish(c) ==
  /\ starts[c] = 1
  /\ finished' = finished \cup {c}
  /\ UNCHANGED <<phase, starts>>

Succeed(c) ==
  /\ phase[c] = "called"
  /\ c \in finished
  /\ phase' = [phase EXCEPT ![c] = "ok"]
  /\ UNCHANGED <<starts, finished>>

\* An idle call that finds the device offline fails at once; a process that dies
\* takes all its calls with it.
Fail(S) ==
  /\ \A c \in S : phase[c] \in {"idle", "called"}
  /\ phase' = [c \in Calls |-> IF c \in S THEN "failed" ELSE phase[c]]
  /\ UNCHANGED <<starts, finished>>

Next ==
  \/ \E c \in Calls : Call(c) \/ Start(c) \/ Finish(c) \/ Succeed(c)
  \/ \E S \in SUBSET Calls : Fail(S)

Spec == Init /\ [][Next]_vars
=============================================================================
