------------------------------ MODULE Pairing ------------------------------
(***************************************************************************)
(* First-run pairing: FileRegistry's pairing codes and device records, in  *)
(* memory and on disk (devices/registry.go), the connection that asked for *)
(* a code (Connection.handlePairRequest), the Hub's waiters                *)
(* (waitForApproval, NotifyApproved, NotifyRejected), the admin API's      *)
(* approve and reject requests, and the agent's Pair loop.                 *)
(*                                                                         *)
(* Every connection asks for one code and codes are unique, so a code and  *)
(* its device are named by the connection.  A step is one critical section *)
(* (FileRegistry.mu, Hub.mu) or one channel operation.                     *)
(***************************************************************************)
EXTENDS Naturals, FiniteSets

CONSTANTS
  Conns,        \* connections that send a pair_request, of one or more agents
  Requests,     \* admin API requests
  MaxRestarts,  \* server restarts in a run
  NoCode        \* a request that has not been received

ASSUME RestartsAssumption == MaxRestarts \in Nat
ASSUME NoCodeAssumption == NoCode \notin Conns

VARIABLES
  codes,     \* registry, in memory: "none", "open" or "used", per connection
  devices,   \* registry, in memory: codes with a device record and token
  diskCodes, diskDevices,   \* the registry file
  expired,   \* codes past their ExpiresAt
  waiters,   \* Hub.pending: codes with a registered approval channel
  ch,        \* that channel: "empty", "approved" or "rejected"
  pc,        \* where handlePairRequest is
  rpc,       \* where each admin request is
  rcode,     \* the code it is about
  agentOn,   \* connections the agent still listens on
  token,     \* codes whose device token the agent has saved
  told,      \* answers read by the agent, per connection
  restarts

regVars   == <<codes, devices, diskCodes, diskDevices>>
waitVars  == <<waiters, ch, pc>>
adminVars == <<rpc, rcode>>
agentVars == <<agentOn, token, told>>
vars == <<regVars, expired, waitVars, adminVars, agentVars, restarts>>

\* saveLocked writes all of the memory state, or fails and leaves the old file:
\* the new one is renamed into place.
Save(ok) ==
  IF ok
  THEN diskCodes' = codes' /\ diskDevices' = devices'
  ELSE UNCHANGED <<diskCodes, diskDevices>>
-----------------------------------------------------------------------------
(***************************************************************************)
(* handlePairRequest.                                                      *)
(***************************************************************************)

\* CreatePairingCode, and pair_code goes out.  When the file cannot be written
\* the code stays in memory and the handshake fails.
PairRequest(c, ok) ==
  /\ pc[c] = "idle"
  /\ codes' = [codes EXCEPT ![c] = "open"]
  /\ UNCHANGED devices
  /\ Save(ok)
  /\ pc' = [pc EXCEPT ![c] = IF ok THEN "code" ELSE "down"]
  /\ agentOn' = IF ok THEN agentOn \cup {c} ELSE agentOn
  /\ UNCHANGED <<expired, waiters, ch, adminVars, token, told, restarts>>

\* Hub.waitForApproval registers a fresh channel.  An operator may have acted on
\* the code before.
WaitForApproval(c) ==
  /\ pc[c] = "code"
  /\ waiters' = waiters \cup {c}
  /\ pc' = [pc EXCEPT ![c] = "wait"]
  /\ UNCHANGED <<regVars, expired, ch, adminVars, agentVars, restarts>>

\* The clock passes the code's ExpiresAt.
Expire(c) ==
  /\ codes[c] # "none" /\ c \notin expired
  /\ expired' = expired \cup {c}
  /\ UNCHANGED <<regVars, waitVars, adminVars, agentVars, restarts>>

\* The agent reads the connection's last message, if it still listens: it saves
\* an approved token, starts over after "expired", gives up after "rejected".
Tell(c, what) ==
  /\ told' = [told EXCEPT ![c] = IF c \in agentOn THEN @ \cup {what} ELSE @]
  /\ token' = IF c \in agentOn /\ what = "approved" THEN token \cup {c} ELSE token
  /\ agentOn' = agentOn \ {c}

\* select: the operator's answer.  A rejection ends the handshake.
Answered(c) ==
  /\ pc[c] = "wait" /\ ch[c] # "empty"
  /\ ch' = [ch EXCEPT ![c] = "empty"]
  /\ pc' = [pc EXCEPT ![c] = IF ch[c] = "approved" THEN "approved" ELSE "down"]
  /\ Tell(c, ch[c])
  /\ UNCHANGED <<regVars, expired, waiters, adminVars, restarts>>

\* A wait that has no timer of its own.
TimedOutNever(c) == FALSE

\* A timeout that leaves the approval channel registered.
TimedOutLeaks(c) ==
  /\ pc[c] = "wait" /\ c \in expired
  /\ pc' = [pc EXCEPT ![c] = "down"]
  /\ Tell(c, "expired")
  /\ UNCHANGED <<regVars, expired, waiters, ch, adminVars, restarts>>

\* select: the timer, even if an answer is in the channel as well.
TimedOut(c) ==
  /\ pc[c] = "wait" /\ c \in expired
  /\ waiters' = waiters \ {c}
  /\ pc' = [pc EXCEPT ![c] = "down"]
  /\ Tell(c, "expired")
  /\ UNCHANGED <<regVars, expired, ch, adminVars, restarts>>

\* Registry.SetOnline saves the file, unless the device was revoked meanwhile.
SetOnline(c, ok) ==
  /\ UNCHANGED <<codes, devices>>
  /\ IF c \in devices THEN Save(ok) ELSE UNCHANGED <<diskCodes, diskDevices>>

\* After an approval the pairing connection itself becomes the device's active
\* one: SetOnline(true), whose error is only logged, and registerOnline.
GoOnline(c, ok) ==
  /\ pc[c] = "approved"
  /\ SetOnline(c, ok)
  /\ pc' = [pc EXCEPT ![c] = "online"]
  /\ UNCHANGED <<expired, waiters, ch, adminVars, agentVars, restarts>>

\* The agent's Pair has returned and closed the socket: the read loop ends and
\* teardown sets the device offline.
Teardown(c, ok) ==
  /\ pc[c] = "online"
  /\ SetOnline(c, ok)
  /\ pc' = [pc EXCEPT ![c] = "down"]
  /\ UNCHANGED <<expired, waiters, ch, adminVars, agentVars, restarts>>

\* The agent's socket breaks or its process ends.  Nobody reads the connection
\* while it waits, so the server does not notice.
AgentLeaves(c) ==
  /\ c \in agentOn
  /\ agentOn' = agentOn \ {c}
  /\ UNCHANGED <<regVars, expired, waitVars, adminVars, token, told, restarts>>
-----------------------------------------------------------------------------
(***************************************************************************)
(* The admin API.                                                          *)
(***************************************************************************)

\* An approval that does not look whether the code was used.
ApproveAgain(a, c, ok) ==
  /\ rpc[a] = "idle" /\ codes[c] # "none" /\ c \notin expired
  /\ codes' = [codes EXCEPT ![c] = "used"]
  /\ devices' = devices \cup {c}
  /\ Save(ok)
  /\ rcode' = [rcode EXCEPT ![a] = c]
  /\ rpc' = [rpc EXCEPT ![a] = IF ok THEN "notifyApproved" ELSE "done"]
  /\ UNCHANGED <<expired, waitVars, agentVars, restarts>>

\* An approval that goes on when the registry file could not be written.
ApproveUnsaved(a, c, ok) ==
  /\ rpc[a] = "idle" /\ codes[c] = "open" /\ c \notin expired
  /\ codes' = [codes EXCEPT ![c] = "used"]
  /\ devices' = devices \cup {c}
  /\ Save(ok)
  /\ rcode' = [rcode EXCEPT ![a] = c]
  /\ rpc' = [rpc EXCEPT ![a] = "notifyApproved"]
  /\ UNCHANGED <<expired, waitVars, agentVars, restarts>>

\* handleApprove, ApprovePairing: the code must be unused and in time; then it
\* is used and a device exists.  If the file cannot be written both stay in
\* memory and the request fails.  Any other request is refused and changes
\* nothing.
Approve(a, c, ok) ==
  /\ rpc[a] = "idle" /\ codes[c] = "open" /\ c \notin expired
  /\ codes' = [codes EXCEPT ![c] = "used"]
  /\ devices' = devices \cup {c}
  /\ Save(ok)
  /\ rcode' = [rcode EXCEPT ![a] = c]
  /\ rpc' = [rpc EXCEPT ![a] = IF ok THEN "notifyApproved" ELSE "done"]
  /\ UNCHANGED <<expired, waitVars, agentVars, restarts>>

\* handleReject, RejectPairing: an unused code, expired or not.
Reject(a, c, ok) ==
  /\ rpc[a] = "idle" /\ codes[c] = "open"
  /\ codes' = [codes EXCEPT ![c] = "used"]
  /\ UNCHANGED devices
  /\ Save(ok)
  /\ rcode' = [rcode EXCEPT ![a] = c]
  /\ rpc' = [rpc EXCEPT ![a] = IF ok THEN "notifyRejected" ELSE "done"]
  /\ UNCHANGED <<expired, waitVars, agentVars, restarts>>

\* A Notify that takes the waiter out and closes its channel without an answer.
NotifyCloses(a) ==
  /\ rpc[a] \in {"notifyApproved", "notifyRejected"}
  /\ waiters' = waiters \ {rcode[a]}
  /\ ch' = [ch EXCEPT ![rcode[a]] = IF rcode[a] \in waiters THEN "closed" ELSE @]
  /\ rpc' = [rpc EXCEPT ![a] = "done"]
  /\ UNCHANGED <<regVars, expired, pc, rcode, agentVars, restarts>>

\* NotifyApproved / NotifyRejected: take the waiter out of the map and put the
\* answer into its channel; without a waiter the answer goes nowhere.
Notify(a) ==
  /\ rpc[a] \in {"notifyApproved", "notifyRejected"}
  /\ LET c == rcode[a] IN
       IF c \in waiters
       THEN /\ waiters' = waiters \ {c}
            /\ ch' = [ch EXCEPT ![c] = IF rpc[a] = "notifyApproved"
                                       THEN "approved" ELSE "rejected"]
       ELSE UNCHANGED <<waiters, ch>>
  /\ rpc' = [rpc EXCEPT ![a] = "done"]
  /\ UNCHANGED <<regVars, expired, pc, rcode, agentVars, restarts>>

\* handleRevoke: Registry.Revoke forgets the device, in memory at least.  What
\* RevokeDevice then does to a live connection is AgentHub's.
Revoke(a, c, ok) ==
  /\ rpc[a] = "idle" /\ c \in devices
  /\ devices' = devices \ {c}
  /\ UNCHANGED codes
  /\ Save(ok)
  /\ rcode' = [rcode EXCEPT ![a] = c]
  /\ rpc' = [rpc EXCEPT ![a] = "done"]
  /\ UNCHANGED <<expired, waitVars, agentVars, restarts>>

\* The server crashes and starts again from its file.  Connections, waiters and
\* requests are gone.
Restart ==
  /\ restarts < MaxRestarts
  /\ restarts' = restarts + 1
  /\ codes' = diskCodes /\ devices' = diskDevices
  /\ waiters' = {} /\ ch' = [c \in Conns |-> "empty"]
  /\ pc' = [c \in Conns |-> IF pc[c] = "idle" THEN "idle" ELSE "down"]
  /\ rpc' = [a \in Requests |-> IF rpc[a] = "idle" THEN "idle" ELSE "done"]
  /\ agentOn' = {}
  /\ UNCHANGED <<diskCodes, diskDevices, expired, rcode, token, told>>
-----------------------------------------------------------------------------
Init ==
  /\ codes = [c \in Conns |-> "none"] /\ diskCodes = [c \in Conns |-> "none"]
  /\ devices = {} /\ diskDevices = {} /\ expired = {}
  /\ waiters = {} /\ ch = [c \in Conns |-> "empty"]
  /\ pc = [c \in Conns |-> "idle"]
  /\ rpc = [a \in Requests |-> "idle"] /\ rcode = [a \in Requests |-> NoCode]
  /\ agentOn = {} /\ token = {} /\ told = [c \in Conns |-> {}]
  /\ restarts = 0

\* The instance has used up its connections; requests may remain unsent.
Quiescent ==
  /\ \A c \in Conns : pc[c] = "down"
  /\ \A a \in Requests : rpc[a] \in {"idle", "done"}
  /\ UNCHANGED vars

ConnStep(c) ==
  \/ WaitForApproval(c) \/ Answered(c) \/ TimedOut(c)
  \/ \E ok \in BOOLEAN : GoOnline(c, ok) \/ Teardown(c, ok)

Next ==
  \/ \E c \in Conns : \/ \E ok \in BOOLEAN : PairRequest(c, ok)
                      \/ ConnStep(c) \/ Expire(c) \/ AgentLeaves(c)
  \/ \E a \in Requests : \/ \E c \in Conns, ok \in BOOLEAN :
                              \/ Approve(a, c, ok) \/ Reject(a, c, ok)
                              \/ Revoke(a, c, ok)
                         \/ Notify(a)
  \/ Restart \/ Quiescent

\* Goroutines are scheduled and time passes.
Fairness ==
  /\ \A c \in Conns : WF_vars(ConnStep(c)) /\ WF_vars(Expire(c))
  /\ \A a \in Requests : WF_vars(Notify(a))

Spec == Init /\ [][Next]_vars
FairSpec == Spec /\ Fairness
-----------------------------------------------------------------------------
(***************************************************************************)
(* Properties.                                                             *)
(***************************************************************************)

\* Types of all variables.
TypeOK ==
  /\ codes \in [Conns -> {"none", "open", "used"}]
  /\ diskCodes \in [Conns -> {"none", "open", "used"}]
  /\ devices \subseteq Conns /\ diskDevices \subseteq Conns
  /\ expired \subseteq Conns /\ waiters \subseteq Conns
  /\ ch \in [Conns -> {"empty", "approved", "rejected"}]
  /\ pc \in [Conns -> {"idle", "code", "wait", "approved", "online", "down"}]
  /\ rpc \in [Requests -> {"idle", "notifyApproved", "notifyRejected", "done"}]
  /\ rcode \in [Requests -> Conns \cup {NoCode}]
  /\ agentOn \subseteq Conns /\ token \subseteq Conns
  /\ told \in [Conns -> SUBSET {"approved", "rejected", "expired"}]
  /\ restarts \in 0..MaxRestarts

\* An agent is never told "rejected" of a code that has a device, whatever two
\* operators do at once and whatever the server crashed between.
RejectedHasNoDevice ==
  \A c \in Conns :
    ("rejected" \in told[c] \/ ch[c] = "rejected")
      => c \notin devices \cup diskDevices \cup token

\* A code gets one verdict: no two requests are on their way to deliver one.
OneVerdict ==
  \A a, b \in Requests :
    ( /\ rpc[a] \in {"notifyApproved", "notifyRejected"}
      /\ rpc[b] \in {"notifyApproved", "notifyRejected"}
      /\ rcode[a] = rcode[b] ) => a = b

\* Hub.pending holds no channel but of a connection that waits on it, and that
\* channel is empty: Notify's send never blocks the admin request.
WaiterIsWaiting == \A c \in waiters : pc[c] = "wait" /\ ch[c] = "empty"

\* A step of anybody but a revocation never takes away the record behind a token
\* the agent has saved: a restart from the file forgets no paired device.
TokenSurvives ==
  [][ \A c \in token \cap devices :
        c \in devices' \/ \E a \in Requests, ok \in BOOLEAN : Revoke(a, c, ok) ]_vars

\* A connection does not wait for an operator for ever.
WaitEnds == \A c \in Conns : (pc[c] = "wait") ~> (pc[c] = "down")
=============================================================================
