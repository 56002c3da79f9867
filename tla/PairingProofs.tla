--------------------------- MODULE PairingProofs ---------------------------
(***************************************************************************)
(* Proofs about Pairing for every set of connections and admin requests    *)
(* and every number of restarts.                                           *)
(***************************************************************************)
EXTENDS Pairing, TLAPS

\* Somewhere between the registry and the agent there is an approval of c ...
Approved(c) ==
  \/ ch[c] = "approved" \/ c \in token
  \/ \E a \in Requests : rpc[a] = "notifyApproved" /\ rcode[a] = c

\* ... or a rejection.
Rejected(c) ==
  \/ ch[c] = "rejected" \/ "rejected" \in told[c]
  \/ \E a \in Requests : rpc[a] = "notifyRejected" /\ rcode[a] = c

\* The life of a code: none before its request, never open again once the file
\* has it used, and used wherever it has a device.
CodeOrder ==
  \A c \in Conns :
    /\ pc[c] = "idle" => codes[c] = "none" /\ diskCodes[c] = "none"
    /\ diskCodes[c] = "used" => codes[c] = "used"
    /\ c \in devices => codes[c] = "used"
    /\ c \in diskDevices => diskCodes[c] = "used"

\* A verdict leaves the registry only once the file has it, so neither memory
\* nor a restart can open the code for a second one.
VerdictSaved ==
  \A c \in Conns : Approved(c) \/ Rejected(c) => diskCodes[c] = "used"

\* No code has both verdicts; a rejected one has no device, and a device in
\* memory whose approval is out is in the file too.
VerdictsAgree ==
  \A c \in Conns :
    /\ Rejected(c) => ~Approved(c) /\ c \notin devices \cup diskDevices
    /\ Approved(c) /\ c \in devices => c \in diskDevices

\* An answer is in the channel of a connection that waits or has given up.
AnswerHasReader == \A c \in Conns : ch[c] # "empty" => pc[c] \in {"wait", "down"}

\* The inductive invariant.
Inv ==
  /\ TypeOK /\ CodeOrder /\ VerdictSaved /\ VerdictsAgree
  /\ OneVerdict /\ AnswerHasReader /\ WaiterIsWaiting

\* A server that has just started, with an empty registry.
LEMMA InitInv == Init => Inv
  BY RestartsAssumption
  DEF Init, Inv, TypeOK, CodeOrder, VerdictSaved, VerdictsAgree, OneVerdict,
    AnswerHasReader, WaiterIsWaiting, Approved, Rejected

\* Every step keeps the types.
LEMMA NextType == TypeOK /\ [Next]_vars => TypeOK'
  <1> SUFFICES ASSUME TypeOK, [Next]_vars PROVE TypeOK'
    OBVIOUS
  <1> USE DEF regVars, waitVars, adminVars, agentVars, TypeOK, Save, Tell
  <1>1. ASSUME NEW c \in Conns, NEW ok \in BOOLEAN, PairRequest(c, ok)
        PROVE  TypeOK'
    BY <1>1 DEF PairRequest
  <1>2. ASSUME NEW c \in Conns, WaitForApproval(c)
        PROVE  TypeOK'
    BY <1>2 DEF WaitForApproval
  <1>3. ASSUME NEW c \in Conns, Answered(c)
        PROVE  TypeOK'
    BY <1>3 DEF Answered
  <1>4. ASSUME NEW c \in Conns, TimedOut(c)
        PROVE  TypeOK'
    BY <1>4 DEF TimedOut
  <1>5. ASSUME NEW c \in Conns, NEW ok \in BOOLEAN, GoOnline(c, ok)
        PROVE  TypeOK'
    BY <1>5 DEF GoOnline, SetOnline
  <1>6. ASSUME NEW c \in Conns, NEW ok \in BOOLEAN, Teardown(c, ok)
        PROVE  TypeOK'
    BY <1>6 DEF Teardown, SetOnline
  <1>7. ASSUME NEW c \in Conns, Expire(c) \/ AgentLeaves(c)
        PROVE  TypeOK'
    BY <1>7 DEF Expire, AgentLeaves
  <1>8. ASSUME NEW a \in Requests, NEW c \in Conns, NEW ok \in BOOLEAN,
               Approve(a, c, ok)
        PROVE  TypeOK'
    BY <1>8 DEF Approve
  <1>9. ASSUME NEW a \in Requests, NEW c \in Conns, NEW ok \in BOOLEAN,
               Reject(a, c, ok)
        PROVE  TypeOK'
    BY <1>9 DEF Reject
  <1>10. ASSUME NEW a \in Requests, NEW c \in Conns, NEW ok \in BOOLEAN,
                Revoke(a, c, ok)
         PROVE  TypeOK'
    BY <1>10 DEF Revoke
  <1>11. ASSUME NEW a \in Requests, Notify(a)
         PROVE  TypeOK'
    BY <1>11 DEF Notify
  <1>12. CASE Restart
    BY <1>12, RestartsAssumption DEF Restart
  <1>13. CASE UNCHANGED vars
    BY <1>13 DEF vars
  <1> QED
    BY <1>1, <1>2, <1>3, <1>4, <1>5, <1>6, <1>7, <1>8, <1>9, <1>10, <1>11,
      <1>12, <1>13 DEF Next, ConnStep, Quiescent

\* Every step keeps the invariant.
LEMMA NextInv == Inv /\ [Next]_vars => Inv'
  <1> SUFFICES ASSUME Inv, [Next]_vars PROVE Inv'
    OBVIOUS
  <1>0. TypeOK /\ TypeOK'
    BY NextType DEF Inv
  <1> DEFINE Rest == /\ CodeOrder /\ VerdictSaved /\ VerdictsAgree
                     /\ OneVerdict /\ AnswerHasReader /\ WaiterIsWaiting
  <1>a. Rest
    BY DEF Inv
  <1> SUFFICES Rest'
    BY <1>0 DEF Inv
  <1> USE <1>0, <1>a DEF regVars, waitVars, adminVars, agentVars, Save, Tell, TypeOK,
    CodeOrder, VerdictSaved, VerdictsAgree, OneVerdict, AnswerHasReader,
    WaiterIsWaiting, Approved, Rejected
  <1>1. ASSUME NEW c \in Conns, NEW ok \in BOOLEAN, PairRequest(c, ok)
        PROVE  Rest'
    BY <1>1 DEF PairRequest
  <1>2. ASSUME NEW c \in Conns, WaitForApproval(c)
        PROVE  Rest'
    BY <1>2 DEF WaitForApproval
  <1>3. ASSUME NEW c \in Conns, Answered(c)
        PROVE  Rest'
    <2>1. c \notin waiters
      BY <1>3 DEF Answered
    <2>2. \A d \in Conns : /\ Approved(d)' => Approved(d)
                           /\ Rejected(d)' => Rejected(d)
      BY <1>3 DEF Answered
    <2> QED
      BY <1>3, <2>1, <2>2 DEF Answered
  <1>4. ASSUME NEW c \in Conns, TimedOut(c)
        PROVE  Rest'
    BY <1>4 DEF TimedOut
  <1>5. ASSUME NEW c \in Conns, NEW ok \in BOOLEAN, GoOnline(c, ok) \/ Teardown(c, ok)
        PROVE  Rest'
    BY <1>5 DEF GoOnline, Teardown, SetOnline
  <1>6. ASSUME NEW c \in Conns, Expire(c) \/ AgentLeaves(c)
        PROVE  Rest'
    BY <1>6 DEF Expire, AgentLeaves
  <1>7. ASSUME NEW a \in Requests, NEW c \in Conns, NEW ok \in BOOLEAN,
               Approve(a, c, ok)
        PROVE  Rest'
    <2>1. ~Approved(c) /\ ~Rejected(c)
      BY <1>7 DEF Approve
    <2> QED
      BY <1>7, <2>1 DEF Approve
  <1>8. ASSUME NEW a \in Requests, NEW c \in Conns, NEW ok \in BOOLEAN,
               Reject(a, c, ok)
        PROVE  Rest'
    <2>1. ~Approved(c) /\ ~Rejected(c) /\ c \notin devices \cup diskDevices
      BY <1>8 DEF Reject
    <2> QED
      BY <1>8, <2>1 DEF Reject
  <1>9. ASSUME NEW a \in Requests, NEW c \in Conns, NEW ok \in BOOLEAN,
               Revoke(a, c, ok)
        PROVE  Rest'
    BY <1>9 DEF Revoke
  <1>10. ASSUME NEW a \in Requests, Notify(a)
         PROVE  Rest'
    <2>1. \A d \in Conns : /\ Approved(d)' => Approved(d)
                           /\ Rejected(d)' => Rejected(d)
      BY <1>10 DEF Notify
    <2> QED
      BY <1>10, <2>1 DEF Notify
  <1>11. CASE Restart
    BY <1>11 DEF Restart
  <1>12. CASE UNCHANGED vars
    BY <1>12 DEF vars
  <1> HIDE DEF Rest
  <1> QED
    BY <1>1, <1>2, <1>3, <1>4, <1>5, <1>6, <1>7, <1>8, <1>9, <1>10, <1>11, <1>12
    DEF Next, ConnStep, Quiescent

\* The invariant holds in every reachable state.
LEMMA InvHolds == Spec => []Inv
  BY InitInv, NextInv, PTL DEF Spec

\* Every variable keeps its type (registry.go, hub.go and the admin API).
THEOREM TypeCorrect == Spec => []TypeOK
  <1>1. Inv => TypeOK
    BY DEF Inv
  <1> QED
    BY <1>1, InvHolds, PTL

\* No agent is told "rejected", by Tell or by what NotifyRejected has put into
\* its channel, of a code that has a device in memory, in the file or at the
\* agent: for any number of operators and of crashes between their steps.
THEOREM RejectedHasNoDeviceHolds == Spec => []RejectedHasNoDevice
  <1>1. Inv => RejectedHasNoDevice
    BY DEF Inv, VerdictsAgree, RejectedHasNoDevice, Approved, Rejected
  <1> QED
    BY <1>1, InvHolds, PTL

\* ApprovePairing and RejectPairing of one code never both succeed: at most one
\* request is on its way to NotifyApproved or NotifyRejected with it.
THEOREM OneVerdictHolds == Spec => []OneVerdict
  <1>1. Inv => OneVerdict
    BY DEF Inv
  <1> QED
    BY <1>1, InvHolds, PTL

\* Hub.pending holds channels of connections that wait, and they are empty, so
\* the send of NotifyApproved and NotifyRejected never blocks.
THEOREM WaiterIsWaitingHolds == Spec => []WaiterIsWaiting
  <1>1. Inv => WaiterIsWaiting
    BY DEF Inv
  <1> QED
    BY <1>1, InvHolds, PTL

\* No step but a revocation of that device takes away the record behind a token
\* the agent has saved; a restart reads it back from the file, because an
\* approval goes out only after saveLocked succeeded.
THEOREM TokenSurvivesHolds == Spec => TokenSurvives
  <1> DEFINE Survives ==
        \A c \in token \cap devices :
          c \in devices' \/ \E a \in Requests, ok \in BOOLEAN : Revoke(a, c, ok)
  <1>1. Inv /\ [Next]_vars => [Survives]_vars
    <2> SUFFICES ASSUME Inv, Next, NEW c \in token, c \in devices,
                        c \notin devices'
                 PROVE  \E a \in Requests, ok \in BOOLEAN : Revoke(a, c, ok)
      OBVIOUS
    <2>1. CASE Restart
      BY <2>1 DEF Restart, Inv, TypeOK, VerdictsAgree, Approved
    <2>2. CASE \E a \in Requests, d \in Conns, ok \in BOOLEAN : Revoke(a, d, ok)
      <3>1. PICK a \in Requests, d \in Conns, ok \in BOOLEAN : Revoke(a, d, ok)
        BY <2>2
      <3>2. c = d
        BY <3>1 DEF Revoke
      <3> QED
        BY <3>1, <3>2
    <2>3. ASSUME ~Restart,
                 ~\E a \in Requests, d \in Conns, ok \in BOOLEAN : Revoke(a, d, ok)
          PROVE  FALSE
      BY <2>3 DEF Next, ConnStep, Quiescent, PairRequest, WaitForApproval, Answered,
        TimedOut, GoOnline, Teardown, SetOnline, Expire, AgentLeaves, Approve,
        Reject, Notify, vars, regVars
    <2> QED
      BY <2>1, <2>2, <2>3
  <1> QED
    BY <1>1, InvHolds, PTL DEF Spec, TokenSurvives
=============================================================================
