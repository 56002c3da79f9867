---------------------------- MODULE MCAgentHub ----------------------------
(* Instances of AgentHub for TLC.  What the agent, the clients and the      *)
(* operator do is chosen in the initial state; the server is not limited.   *)
EXTENDS AgentHub

CONSTANTS
  Plans,           \* bound: who comes into an instance
  c1, c2, d1, d2

VARIABLE plan

Plan(conns, calls, admin) == [conns |-> conns, calls |-> calls, admin |-> admin]

\* A device that reconnects; calls that share a prefix; an operator.
MCPlans == {Plan({c1, c2}, {d1}, {}), Plan({c1}, {d1, d2}, {}),
            Plan({c1}, {d1}, {"revoke", "shutdown"})}
MCReconnectPlans == {Plan({c1, c2}, {d1}, {})}
MCLossPlans == {Plan({c1}, {d1}, {})}

\* Two calls whose correlation IDs share their first four bytes.
SamePrefix == [d \in Calls |-> "p"]

AsPlanned ==
  /\ \A c \in Conns \ plan.conns : cpc'[c] = "idle"
  /\ \A d \in Calls \ plan.calls : bpc'[d] = "idle" /\ ~ctxDone'[d]
  /\ "revoke" \notin plan.admin => rpc' = "idle"
  /\ "shutdown" \notin plan.admin => spc' = "idle"

\* Every connection and call of the plan is used up.
PlanDone ==
  /\ \A c \in plan.conns : cpc[c] \in {"idle", "down"}
  /\ \A d \in plan.calls : bpc[d] = "done"
  /\ rpc \in {"idle", "done"} /\ spc \in {"idle", "done"}
  /\ UNCHANGED vars

PlannedInit == Init /\ plan \in Plans
PlannedNext ==
  \/ Next /\ AsPlanned /\ UNCHANGED plan
  \/ PlanDone /\ UNCHANGED plan

\* No action that a plan limits is one that fairness asks for.
PlannedSpec == PlannedInit /\ [][PlannedNext]_<<vars, plan>> /\ Fairness
=============================================================================
