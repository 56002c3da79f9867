--------------------------- MODULE AgentHubProofs ---------------------------
(***************************************************************************)
(* Proofs about AgentHub for every number of connections and calls, every  *)
(* prefix function and every buffer capacity.                              *)
(***************************************************************************)
EXTENDS AgentHub, TLAPS

\* A device has at most two state objects in a run.
LEMMA GensFact == Gens = {1, 2}
  BY DEF Gens

\* Putting an envelope into Connection.send keeps its type and its capacity.
LEMMA TrySendType ==
  ASSUME TypeOK, NEW c \in Conns \cup {None}, NEW m \in Envelopes, TrySend(c, m)
  PROVE  /\ sendq' \in [Conns -> Seq(Envelopes)]
         /\ \A b \in Conns : Len(sendq'[b]) <= SendCap
  <1>1. CASE c # None /\ ~closed[c] /\ Len(sendq[c]) < SendCap
    <2>1. c \in Conns
      BY <1>1
    <2>2. sendq' = [sendq EXCEPT ![c] = Append(sendq[c], m)]
      BY <1>1 DEF TrySend
    <2>3. sendq[c] \in Seq(Envelopes) /\ Len(sendq[c]) \in Nat
      BY <2>1 DEF TypeOK
    <2>4. /\ Append(sendq[c], m) \in Seq(Envelopes)
          /\ Len(Append(sendq[c], m)) = Len(sendq[c]) + 1
      BY <2>3
    <2>5. Len(Append(sendq[c], m)) <= SendCap
      BY <1>1, <2>3, <2>4, SendCapAssumption
    <2> QED
      BY <2>1, <2>2, <2>4, <2>5 DEF TypeOK
  <1>2. CASE ~(c # None /\ ~closed[c] /\ Len(sendq[c]) < SendCap)
    BY <1>2 DEF TrySend, TypeOK
  <1> QED
    BY <1>1, <1>2

\* Closing a connection empties its buffer and changes no other.
LEMMA CloseType ==
  ASSUME TypeOK, NEW c \in Conns \cup {None}, Close(c)
  PROVE  /\ sendq' \in [Conns -> Seq(Envelopes)]
         /\ \A b \in Conns : Len(sendq'[b]) <= SendCap
         /\ closed' \in [Conns -> BOOLEAN]
  <1>1. CASE c = None
    BY <1>1 DEF TypeOK, Close
  <1>2. CASE c # None
    <2>1. <<>> \in Seq(Envelopes) /\ Len(<<>>) = 0
      OBVIOUS
    <2>2. c \in Conns
      BY <1>2
    <2>3. /\ sendq' = [sendq EXCEPT ![c] = <<>>]
          /\ closed' = [closed EXCEPT ![c] = TRUE]
      BY <1>2 DEF Close
    <2>4. sendq' \in [Conns -> Seq(Envelopes)]
      BY <2>1, <2>2, <2>3 DEF TypeOK
    <2>5. \A b \in Conns : sendq'[b] = IF b = c THEN <<>> ELSE sendq[b]
      BY <2>2, <2>3 DEF TypeOK
    <2>6. \A b \in Conns : Len(sendq'[b]) <= SendCap
      BY <2>1, <2>5, SendCapAssumption DEF TypeOK
    <2> QED
      BY <2>2, <2>3, <2>4, <2>6 DEF TypeOK
  <1> QED
    BY <1>1, <1>2

\* Hub.state hands out one of the two state objects.
LEMMA StateGenType ==
  ASSUME TypeOK
  PROVE  StateGen \in Gens
  BY GensFact DEF TypeOK, StateGen

\* deviceState.expire keeps the types of what it clears.
LEMMA ExpireType ==
  ASSUME TypeOK, NEW g \in Gens, Expire(g)
  PROVE  /\ timer' \in [Gens -> BOOLEAN]
         /\ closing' \in [Calls -> Nat]
         /\ pending' \in [Gens -> SUBSET Calls]
         /\ byPrefix' \in [Gens -> SUBSET Calls]
  BY DEF TypeOK, Expire

\* The rest of a channel or buffer after its first element is received.
LEMMA TailType ==
  ASSUME NEW S, NEW s \in Seq(S), s # <<>>
  PROVE  /\ Head(s) \in S
         /\ Tail(s) \in Seq(S)
         /\ Len(Tail(s)) = Len(s) - 1
  OBVIOUS

\* The types hold of a server that has just started.
LEMMA InitType == Init => TypeOK
  <1> SUFFICES ASSUME Init PROVE TypeOK
    OBVIOUS
  <1>1. <<>> \in Seq(Envelopes) /\ <<>> \in Seq({Progress, Terminal}) /\ Len(<<>>) = 0
    OBVIOUS
  <1>2. NoTarget \in Targets
    BY DEF NoTarget, Message, Targets
  <1> QED
    BY <1>1, <1>2, SendCapAssumption, ChanCapAssumption, GensFact
    DEF Init, TypeOK, ConnPCs, CallPCs

\* Every action keeps the types.
LEMMA NextType == TypeOK /\ TargetOK /\ [Next]_vars => TypeOK'
  <1> SUFFICES ASSUME TypeOK, TargetOK, [Next]_vars PROVE TypeOK'
    OBVIOUS
  <1> USE DEF hubVars, stateVars, chanVars, connVars, callVars, adminVars,
    agentVars
  <1>1. ASSUME NEW c \in Conns, Connect(c)
        PROVE  TypeOK'
    BY <1>1
    DEF Connect, TypeOK, ConnPCs, CallPCs, Gens
  <1>2. ASSUME NEW c \in Conns, HandshakeFails(c)
        PROVE  TypeOK'
    BY <1>2, CloseType
    DEF HandshakeFails, TypeOK, ConnPCs, CallPCs, Gens
  <1>3. ASSUME NEW c \in Conns, Authenticate(c)
        PROVE  TypeOK'
    BY <1>3
    DEF Authenticate, TypeOK, ConnPCs, CallPCs, Gens
  <1>4. ASSUME NEW c \in Conns, SetOnline(c)
        PROVE  TypeOK'
    BY <1>4
    DEF SetOnline, TypeOK, ConnPCs, CallPCs, Gens
  <1>5. ASSUME NEW c \in Conns, RegisterOnline(c)
        PROVE  TypeOK'
    BY <1>5
    DEF RegisterOnline, TypeOK, ConnPCs, CallPCs, Gens
  <1>5a. ASSUME NEW c \in Conns, ClosePrev(c)
        PROVE  TypeOK'
    <2>1. prev[c] \in Conns \cup {None}
      BY DEF TypeOK
    <2> QED
      BY <1>5a, <2>1, CloseType
      DEF ClosePrev, TypeOK, ConnPCs, CallPCs, Gens
  <1>6. ASSUME NEW c \in Conns, Resume(c)
        PROVE  TypeOK'
    BY <1>6, StateGenType
    DEF Resume, TypeOK, ConnPCs, CallPCs, Gens, Message, Targets, HoldsWork
  <1>7. ASSUME NEW c \in Conns, SendAck(c)
        PROVE  TypeOK'
    <2>1. target[c] \in Envelopes
      BY <1>7 DEF SendAck, TypeOK, TargetOK, Targets, Envelopes, Progress,
        Terminal
    <2>2. NoTarget \in Targets
      BY DEF NoTarget, Message, Targets
    <2> QED
      BY <1>7, <2>1, <2>2, TrySendType DEF SendAck, TypeOK, ConnPCs
  <1>8. ASSUME NEW c \in Conns, NEW d \in Calls,
        NEW kind \in {Progress, Terminal, "binary"}, ReadFrame(c, d, kind)
        PROVE  TypeOK'
    <2> DEFINE owners == IF kind = "binary"
                         THEN {e \in byPrefix[StateGen] : Prefix[e] = Prefix[d]}
                         ELSE pending[StateGen] \cap {d}
    <2>1. StateGen \in Gens /\ owners \subseteq Calls
      BY StateGenType DEF TypeOK
    <2>2. cur' \in 0..2 /\ atAgent' \in SUBSET Calls
      BY <1>8, <2>1, GensFact DEF ReadFrame, TypeOK
    <2>3. cpc' \in [Conns -> ConnPCs] /\ target' \in [Conns -> Targets]
      <3>1. CASE UNCHANGED <<cpc, target>>
        BY <3>1 DEF TypeOK
      <3>2. CASE \E e \in owners :
                   /\ target' = [target EXCEPT ![c] =
                        Message(IF kind = Terminal THEN Terminal ELSE Progress, e)]
                   /\ cpc' = [cpc EXCEPT ![c] = "deliver"]
        <4>1. PICK e \in owners :
                   /\ target' = [target EXCEPT ![c] =
                        Message(IF kind = Terminal THEN Terminal ELSE Progress, e)]
                   /\ cpc' = [cpc EXCEPT ![c] = "deliver"]
          BY <3>2
        <4>2. Message(IF kind = Terminal THEN Terminal ELSE Progress, e) \in Targets
          BY <2>1, <4>1 DEF Message, Targets
        <4> QED
          BY <4>1, <4>2 DEF TypeOK, ConnPCs
      <3> QED
        BY <1>8, <3>1, <3>2 DEF ReadFrame
    <2> QED
      BY <1>8, <2>2, <2>3 DEF ReadFrame, TypeOK
  <1>9. ASSUME NEW c \in Conns, Deliver(c)
        PROVE  TypeOK'
    <2> DEFINE d == target[c].call
    <2>1. d \in Calls /\ target[c].type \in {Progress, Terminal}
      BY <1>9 DEF Deliver, TargetOK, TypeOK, Targets, Progress, Terminal
    <2>2. NoTarget \in Targets
      BY DEF NoTarget, Message, Targets
    <2>3. target' \in [Conns -> Targets] /\ cpc' \in [Conns -> ConnPCs]
      BY <1>9, <2>2 DEF Deliver, TypeOK, ConnPCs
    <2>4. CASE chOpen[d] /\ Len(queue[d]) < ChanCap
      <3>1. queue' = [queue EXCEPT ![d] = Append(queue[d], target[c].type)]
        BY <1>9, <2>1, <2>4 DEF Deliver, TypeOK
      <3>2. queue[d] \in Seq({Progress, Terminal})
        BY <2>1 DEF TypeOK
      <3>3. /\ Append(queue[d], target[c].type) \in Seq({Progress, Terminal})
            /\ Len(Append(queue[d], target[c].type)) = Len(queue[d]) + 1
            /\ Len(queue[d]) \in Nat
        BY <2>1, <3>2
      <3>4. Len(queue[d]) + 1 <= ChanCap
        BY <2>4, <3>3, ChanCapAssumption
      <3>5. /\ queue' \in [Calls -> Seq({Progress, Terminal})]
            /\ \A e \in Calls : Len(queue'[e]) <= ChanCap
        BY <2>1, <3>1, <3>3, <3>4 DEF TypeOK
      <3> QED
        BY <1>9, <2>3, <3>5 DEF Deliver, TypeOK
    <2>5. CASE ~(chOpen[d] /\ Len(queue[d]) < ChanCap)
      <3>1. queue' = queue
        BY <1>9, <2>1, <2>5 DEF Deliver, TypeOK
      <3> QED
        BY <1>9, <2>3, <3>1 DEF Deliver, TypeOK
    <2> QED
      BY <2>4, <2>5
  <1>10. ASSUME NEW c \in Conns, Write(c)
        PROVE  TypeOK'
    <2>1. sendq[c] \in Seq(Envelopes) /\ sendq[c] # <<>>
      BY <1>10 DEF Write, TypeOK
    <2>2. /\ Head(sendq[c]) \in Envelopes
          /\ Tail(sendq[c]) \in Seq(Envelopes)
          /\ Len(Tail(sendq[c])) <= SendCap
      BY <2>1, TailType, SendCapAssumption DEF TypeOK
    <2>3. /\ sendq' \in [Conns -> Seq(Envelopes)]
          /\ \A b \in Conns : Len(sendq'[b]) <= SendCap
      BY <1>10, <2>2 DEF Write, TypeOK
    <2>4. /\ agentConn' \in Conns \cup {None} /\ acked' \in [Conns -> BOOLEAN]
      BY <1>10 DEF Write, TypeOK
    <2>5. atAgent' \in SUBSET Calls
      BY <1>10, <2>2 DEF Write, TypeOK, Envelopes
    <2> QED
      BY <1>10, <2>3, <2>4, <2>5 DEF Write, TypeOK
  <1>11. ASSUME NEW c \in Conns, ReadError(c)
        PROVE  TypeOK'
    BY <1>11, CloseType
    DEF ReadError, TypeOK, ConnPCs, CallPCs, Gens
  <1>12. ASSUME NEW c \in Conns, UnregisterOnline(c)
        PROVE  TypeOK'
    BY <1>12
    DEF UnregisterOnline, TypeOK, ConnPCs, CallPCs, Gens
  <1>13. ASSUME NEW c \in Conns, HasPending(c)
        PROVE  TypeOK'
    BY <1>13, StateGenType
    DEF HasPending, TypeOK, ConnPCs, CallPCs, Gens
  <1>14. ASSUME NEW c \in Conns, StartGrace(c)
        PROVE  TypeOK'
    BY <1>14
    DEF StartGrace, TypeOK, ConnPCs, CallPCs, Gens
  <1>15. ASSUME NEW c \in Conns, SetOffline(c)
        PROVE  TypeOK'
    BY <1>15, CloseType
    DEF SetOffline, TypeOK, ConnPCs, CallPCs, Gens
  <1>16. ASSUME NEW d \in Calls, LookupConnection(d)
        PROVE  TypeOK'
    BY <1>16
    DEF LookupConnection, TypeOK, ConnPCs, CallPCs, Gens
  <1>17. ASSUME NEW d \in Calls, LookupState(d)
        PROVE  TypeOK'
    BY <1>17, StateGenType
    DEF LookupState, TypeOK, ConnPCs, CallPCs, Gens
  <1>18. ASSUME NEW d \in Calls, RegisterPending(d)
        PROVE  TypeOK'
    <2> DEFINE g == bgen[d]
    <2>1. g \in Gens
      BY DEF TypeOK
    <2>2. CASE \E e \in byPrefix[g] : Prefix[e] = Prefix[d]
      BY <1>18, <2>2 DEF RegisterPending, TypeOK, CallPCs
    <2>3. CASE ~(\E e \in byPrefix[g] : Prefix[e] = Prefix[d])
      <3>1. /\ pending' = [pending EXCEPT ![g] = pending[g] \cup {d}]
            /\ byPrefix' = [byPrefix EXCEPT ![g] = byPrefix[g] \cup {d}]
            /\ bpc' = [bpc EXCEPT ![d] = "send"]
            /\ bconn' = bconn
        BY <1>18, <2>3 DEF RegisterPending
      <3>2. /\ pending' \in [Gens -> SUBSET Calls]
            /\ byPrefix' \in [Gens -> SUBSET Calls]
            /\ bpc' \in [Calls -> CallPCs]
        BY <2>1, <3>1 DEF TypeOK, CallPCs
      <3> QED
        BY <1>18, <3>1, <3>2 DEF RegisterPending, TypeOK
    <2> QED
      BY <2>2, <2>3
  <1>19. ASSUME NEW d \in Calls, SendDispatch(d)
        PROVE  TypeOK'
    <2>1. Message("dispatch", d) \in Envelopes /\ bconn[d] \in Conns \cup {None}
      BY DEF Message, Envelopes, TypeOK
    <2>2. TrySend(bconn[d], Message("dispatch", d))
      BY <1>19 DEF SendDispatch
    <2>3. /\ sendq' \in [Conns -> Seq(Envelopes)]
          /\ \A b \in Conns : Len(sendq'[b]) <= SendCap
      BY <2>1, <2>2, TrySendType
    <2> QED
      BY <1>19, <2>3 DEF SendDispatch, TypeOK, CallPCs
  <1>20. ASSUME NEW d \in Calls, ReceiveMessage(d)
        PROVE  TypeOK'
    <2>1. queue[d] \in Seq({Progress, Terminal}) /\ queue[d] # <<>>
      BY <1>20 DEF ReceiveMessage, TypeOK
    <2>2. /\ Tail(queue[d]) \in Seq({Progress, Terminal})
          /\ Len(Tail(queue[d])) <= ChanCap
      BY <2>1, TailType, ChanCapAssumption DEF TypeOK
    <2>3. /\ queue' \in [Calls -> Seq({Progress, Terminal})]
          /\ \A e \in Calls : Len(queue'[e]) <= ChanCap
      BY <1>20, <2>2 DEF ReceiveMessage, TypeOK
    <2> QED
      BY <1>20, <2>3 DEF ReceiveMessage, TypeOK, CallPCs
  <1>21. ASSUME NEW d \in Calls, ReceiveClosed(d)
        PROVE  TypeOK'
    BY <1>21
    DEF ReceiveClosed, TypeOK, ConnPCs, CallPCs, Gens
  <1>22. ASSUME NEW d \in Calls, SendCancel(d)
        PROVE  TypeOK'
    <2>1. Message("cancel", d) \in Envelopes /\ online \in Conns \cup {None}
      BY DEF Message, Envelopes, TypeOK
    <2>2. TrySend(online, Message("cancel", d))
      BY <1>22 DEF SendCancel
    <2>3. /\ sendq' \in [Conns -> Seq(Envelopes)]
          /\ \A b \in Conns : Len(sendq'[b]) <= SendCap
      BY <2>1, <2>2, TrySendType
    <2> QED
      BY <1>22, <2>3 DEF SendCancel, TypeOK, CallPCs
  <1>23. ASSUME NEW d \in Calls, FinalMessage(d)
        PROVE  TypeOK'
    <2>1. queue[d] \in Seq({Progress, Terminal}) /\ queue[d] # <<>>
      BY <1>23 DEF FinalMessage, TypeOK
    <2>2. /\ Tail(queue[d]) \in Seq({Progress, Terminal})
          /\ Len(Tail(queue[d])) <= ChanCap
      BY <2>1, TailType, ChanCapAssumption DEF TypeOK
    <2>3. /\ queue' \in [Calls -> Seq({Progress, Terminal})]
          /\ \A e \in Calls : Len(queue'[e]) <= ChanCap
      BY <1>23, <2>2 DEF FinalMessage, TypeOK
    <2> QED
      BY <1>23, <2>3 DEF FinalMessage, TypeOK, CallPCs
  <1>24. ASSUME NEW d \in Calls, FinalTimeout(d)
        PROVE  TypeOK'
    BY <1>24
    DEF FinalTimeout, TypeOK, ConnPCs, CallPCs, Gens
  <1>25. ASSUME NEW d \in Calls, UnregisterPending(d)
        PROVE  TypeOK'
    BY <1>25, StateGenType
    DEF UnregisterPending, TypeOK, ConnPCs, CallPCs, Gens
  <1>26. ASSUME NEW d \in Calls, CancelContext(d)
        PROVE  TypeOK'
    BY <1>26
    DEF CancelContext, TypeOK, ConnPCs, CallPCs, Gens
  <1>27. ASSUME NEW g \in Gens, TimerFires(g)
        PROVE  TypeOK'
    BY <1>27
    DEF TimerFires, TypeOK, ConnPCs, CallPCs, Gens
  <1>28. ASSUME NEW g \in Gens, TimerExpires(g)
        PROVE  TypeOK'
    BY <1>28, ExpireType
    DEF TimerExpires, TypeOK, ConnPCs, CallPCs, Gens
  <1>29. ASSUME NEW d \in Calls, CloseChannel(d)
        PROVE  TypeOK'
    BY <1>29
    DEF CloseChannel, TypeOK, ConnPCs, CallPCs, Gens
  <1>30. ASSUME RevokeRecord
        PROVE  TypeOK'
    BY <1>30
    DEF RevokeRecord, TypeOK, ConnPCs, CallPCs, Gens
  <1>31. ASSUME RevokeTake
        PROVE  TypeOK'
    <2>1. Message("close", None) \in Envelopes
      BY DEF Message, Envelopes
    <2>2. /\ sendq' \in [Conns -> Seq(Envelopes)]
          /\ \A b \in Conns : Len(sendq'[b]) <= SendCap
      BY <1>31, <2>1, TrySendType DEF RevokeTake, TypeOK
    <2> QED
      BY <1>31, <2>2 DEF RevokeTake, TypeOK
  <1>32. ASSUME RevokeClose
        PROVE  TypeOK'
    BY <1>32, CloseType, ExpireType, GensFact
    DEF RevokeClose, TypeOK, ConnPCs, CallPCs, Gens
  <1>33. ASSUME ShutdownBegin
        PROVE  TypeOK'
    <2>1. Message("close", None) \in Envelopes
      BY DEF Message, Envelopes
    <2>2. /\ sendq' \in [Conns -> Seq(Envelopes)]
          /\ \A b \in Conns : Len(sendq'[b]) <= SendCap
      BY <1>33, <2>1, TrySendType DEF ShutdownBegin, TypeOK
    <2> QED
      BY <1>33, <2>2 DEF ShutdownBegin, TypeOK
  <1>33a. ASSUME ShutdownClose
        PROVE  TypeOK'
    BY <1>33a, CloseType
    DEF ShutdownClose, TypeOK, ConnPCs, CallPCs, Gens
  <1>34. ASSUME ShutdownReturn
        PROVE  TypeOK'
    BY <1>34
    DEF ShutdownReturn, TypeOK, ConnPCs, CallPCs, Gens
  <1>35. ASSUME AgentLeaves
        PROVE  TypeOK'
    BY <1>35
    DEF AgentLeaves, TypeOK, ConnPCs, CallPCs, Gens
  <1>36. ASSUME Quiescent
        PROVE  TypeOK'
    BY <1>36
    DEF Quiescent, TypeOK, ConnPCs, CallPCs, Gens, vars
  <1>37. CASE UNCHANGED vars
    BY <1>37 DEF vars, TypeOK
  <1> QED
    BY <1>5a, <1>33a, <1>1, <1>2, <1>3, <1>4, <1>5, <1>6, <1>7, <1>8, <1>9, <1>10, <1>11,
      <1>12, <1>13, <1>14, <1>15, <1>16, <1>17, <1>18, <1>19, <1>20, <1>21,
      <1>22, <1>23, <1>24, <1>25, <1>26, <1>27, <1>28, <1>29, <1>30, <1>31,
      <1>32, <1>33, <1>34, <1>35, <1>36, <1>37
    DEF Next, ConnStep, CallStep, RevokeStep, ShutdownStep

\* Every action keeps what a connection carries.
LEMMA NextTarget == TypeOK /\ TargetOK /\ [Next]_vars => TargetOK'
  <1> SUFFICES ASSUME TypeOK, TargetOK, [Next]_vars PROVE TargetOK'
    OBVIOUS
  <1> USE DEF connVars
  <1>1. ASSUME NEW c \in Conns, Connect(c)
        PROVE  TargetOK'
    BY <1>1
    DEF Connect, TypeOK, TargetOK
  <1>2. ASSUME NEW c \in Conns, HandshakeFails(c)
        PROVE  TargetOK'
    BY <1>2
    DEF HandshakeFails, TypeOK, TargetOK
  <1>3. ASSUME NEW c \in Conns, Authenticate(c)
        PROVE  TargetOK'
    BY <1>3
    DEF Authenticate, TypeOK, TargetOK
  <1>4. ASSUME NEW c \in Conns, SetOnline(c)
        PROVE  TargetOK'
    BY <1>4
    DEF SetOnline, TypeOK, TargetOK
  <1>5. ASSUME NEW c \in Conns, RegisterOnline(c)
        PROVE  TargetOK'
    BY <1>5
    DEF RegisterOnline, TypeOK, TargetOK
  <1>5a. ASSUME NEW c \in Conns, ClosePrev(c)
        PROVE  TargetOK'
    BY <1>5a
    DEF ClosePrev, TypeOK, TargetOK
  <1>6. ASSUME NEW c \in Conns, Resume(c)
        PROVE  TargetOK'
    BY <1>6
    DEF Resume, TypeOK, TargetOK, Message
  <1>7. ASSUME NEW c \in Conns, SendAck(c)
        PROVE  TargetOK'
    BY <1>7
    DEF SendAck, TypeOK, TargetOK
  <1>8. ASSUME NEW c \in Conns, NEW d \in Calls,
        NEW kind \in {Progress, Terminal, "binary"}, ReadFrame(c, d, kind)
        PROVE  TargetOK'
    BY <1>8
    DEF ReadFrame, TypeOK, TargetOK, Message
  <1>9. ASSUME NEW c \in Conns, Deliver(c)
        PROVE  TargetOK'
    BY <1>9
    DEF Deliver, TypeOK, TargetOK
  <1>10. ASSUME NEW c \in Conns, ReadError(c)
        PROVE  TargetOK'
    BY <1>10
    DEF ReadError, TypeOK, TargetOK
  <1>11. ASSUME NEW c \in Conns, UnregisterOnline(c)
        PROVE  TargetOK'
    BY <1>11
    DEF UnregisterOnline, TypeOK, TargetOK
  <1>12. ASSUME NEW c \in Conns, HasPending(c)
        PROVE  TargetOK'
    BY <1>12
    DEF HasPending, TypeOK, TargetOK
  <1>13. ASSUME NEW c \in Conns, StartGrace(c)
        PROVE  TargetOK'
    BY <1>13
    DEF StartGrace, TypeOK, TargetOK
  <1>14. ASSUME NEW c \in Conns, SetOffline(c)
        PROVE  TargetOK'
    BY <1>14
    DEF SetOffline, TypeOK, TargetOK
  <1>15. CASE UNCHANGED <<cpc, target>>
    BY <1>15 DEF TargetOK
  <1>16. ASSUME NEW c \in Conns,
               Write(c)
        PROVE  TargetOK'
    BY <1>16, <1>15 DEF Write, vars, hubVars, stateVars, chanVars, connVars,
      callVars, adminVars, agentVars
  <1>17. ASSUME NEW d \in Calls,
               \/ LookupConnection(d) \/ LookupState(d) \/ RegisterPending(d)
               \/ SendDispatch(d) \/ ReceiveMessage(d) \/ ReceiveClosed(d)
               \/ SendCancel(d) \/ FinalMessage(d) \/ FinalTimeout(d)
               \/ UnregisterPending(d) \/ CancelContext(d) \/ CloseChannel(d)
        PROVE  TargetOK'
    BY <1>17, <1>15 DEF LookupConnection, LookupState, RegisterPending,
      SendDispatch, ReceiveMessage, ReceiveClosed, SendCancel, FinalMessage,
      FinalTimeout, UnregisterPending, CancelContext, CloseChannel, vars,
      hubVars, stateVars, chanVars, connVars, callVars, adminVars, agentVars
  <1>18. ASSUME NEW g \in Gens,
               \/ TimerFires(g) \/ TimerExpires(g)
        PROVE  TargetOK'
    BY <1>18, <1>15 DEF TimerFires, TimerExpires, vars, hubVars, stateVars,
      chanVars, connVars, callVars, adminVars, agentVars
  <1>19. CASE
        \/ RevokeRecord \/ RevokeTake \/ RevokeClose \/ ShutdownBegin
        \/ ShutdownClose \/ ShutdownReturn \/ AgentLeaves \/ Quiescent \/ UNCHANGED vars
    BY <1>19, <1>15 DEF RevokeRecord, RevokeTake, RevokeClose, ShutdownBegin,
      ShutdownClose, ShutdownReturn, AgentLeaves, Quiescent, vars, hubVars, stateVars,
      chanVars, connVars, callVars, adminVars, agentVars
  <1> QED
    BY <1>5a, <1>1, <1>2, <1>3, <1>4, <1>5, <1>6, <1>7, <1>8, <1>9, <1>10, <1>11,
      <1>12, <1>13, <1>14, <1>15, <1>16, <1>17, <1>18, <1>19
    DEF Next, ConnStep, CallStep, RevokeStep, ShutdownStep

\* Types hold in every reachable state: in particular Connection.send and the
\* bridge channels never exceed their capacities.
THEOREM TypeCorrect == Spec => []TypeOK
  <1>1. Init => TypeOK /\ TargetOK
    BY InitType DEF Init, TargetOK
  <1>2. TypeOK /\ TargetOK /\ [Next]_vars => (TypeOK /\ TargetOK)'
    BY NextType, NextTarget
  <1> QED
    BY <1>1, <1>2, PTL DEF Spec

\* A step that neither closes, registers nor replaces a connection.
LEMMA KeepsHeld ==
  ASSUME ReplacedIsClosed, UNCHANGED <<online, closed, prev>>,
         \A b \in Conns : cpc[b] = "closePrev" => cpc'[b] = "closePrev",
         \A b \in Conns :
           cpc'[b] \in {"closePrev", "resume", "ack", "read", "deliver"}
             => cpc[b] \in {"closePrev", "resume", "ack", "read", "deliver"}
  PROVE  ReplacedIsClosed'
  <1> SUFFICES ASSUME NEW c \in Conns,
                 cpc'[c] \in {"closePrev", "resume", "ack", "read", "deliver"}
               PROVE  \/ online' = c \/ closed'[c]
                      \/ \E b \in Conns : cpc'[b] = "closePrev" /\ prev'[b] = c
    BY DEF ReplacedIsClosed
  <1>1. \/ online = c \/ closed[c]
        \/ \E b \in Conns : cpc[b] = "closePrev" /\ prev[b] = c
    BY DEF ReplacedIsClosed
  <1> QED
    BY <1>1

\* No replaced connection is forgotten, and the active one is running: both are
\* inductive.
LEMMA NextConnection ==
  TypeOK /\ ReplacedIsClosed /\ OnlineIsRunning /\ [Next]_vars
    => (ReplacedIsClosed /\ OnlineIsRunning)'
  <1> SUFFICES ASSUME TypeOK, ReplacedIsClosed, OnlineIsRunning, [Next]_vars
               PROVE  (ReplacedIsClosed /\ OnlineIsRunning)'
    OBVIOUS
  <1> USE DEF hubVars, connVars
  <1>1. ASSUME NEW c \in Conns, HandshakeFails(c)
        PROVE  (ReplacedIsClosed /\ OnlineIsRunning)'
    BY <1>1, NoneAssumption
    DEF HandshakeFails, TypeOK, ReplacedIsClosed, OnlineIsRunning, Close
  <1>2. ASSUME NEW c \in Conns, Connect(c)
        PROVE  (ReplacedIsClosed /\ OnlineIsRunning)'
    BY <1>2, NoneAssumption
    DEF Connect, TypeOK, ReplacedIsClosed, OnlineIsRunning
  <1>3. ASSUME NEW c \in Conns, Authenticate(c)
        PROVE  (ReplacedIsClosed /\ OnlineIsRunning)'
    BY <1>3, NoneAssumption
    DEF Authenticate, TypeOK, ReplacedIsClosed, OnlineIsRunning
  <1>4. ASSUME NEW c \in Conns, SetOnline(c)
        PROVE  (ReplacedIsClosed /\ OnlineIsRunning)'
    BY <1>4, NoneAssumption
    DEF SetOnline, TypeOK, ReplacedIsClosed, OnlineIsRunning
  <1>5. ASSUME NEW c \in Conns, RegisterOnline(c)
        PROVE  (ReplacedIsClosed /\ OnlineIsRunning)'
    BY <1>5, NoneAssumption
    DEF RegisterOnline, TypeOK, ReplacedIsClosed, OnlineIsRunning, Close
  <1>5a. ASSUME NEW c \in Conns, ClosePrev(c)
        PROVE  (ReplacedIsClosed /\ OnlineIsRunning)'
    <2>1. /\ online' = online /\ cpc[c] = "closePrev" /\ cpc'[c] = "resume"
          /\ \A b \in Conns \ {c} : cpc'[b] = cpc[b] /\ prev'[b] = prev[b]
      BY <1>5a DEF ClosePrev, TypeOK
    <2>2. /\ \A b \in Conns : closed[b] => closed'[b]
          /\ prev[c] \in Conns => closed'[prev[c]]
      BY <1>5a, NoneAssumption DEF ClosePrev, Close, TypeOK
    <2>3. ASSUME NEW a \in Conns,
                 cpc'[a] \in {"closePrev", "resume", "ack", "read", "deliver"}
          PROVE  \/ online' = a \/ closed'[a]
                 \/ \E b \in Conns : cpc'[b] = "closePrev" /\ prev'[b] = a
      <3>1. \/ online = a \/ closed[a]
            \/ \E b \in Conns : cpc[b] = "closePrev" /\ prev[b] = a
        BY <2>1, <2>3 DEF ReplacedIsClosed
      <3> QED
        BY <2>1, <2>2, <3>1
    <2>4. OnlineIsRunning'
      BY <2>1, NoneAssumption DEF TypeOK, OnlineIsRunning
    <2> QED
      BY <2>3, <2>4 DEF ReplacedIsClosed
  <1>6. ASSUME NEW c \in Conns, Resume(c)
        PROVE  (ReplacedIsClosed /\ OnlineIsRunning)'
    BY <1>6, NoneAssumption
    DEF Resume, TypeOK, ReplacedIsClosed, OnlineIsRunning
  <1>7. ASSUME NEW c \in Conns, SendAck(c)
        PROVE  (ReplacedIsClosed /\ OnlineIsRunning)'
    BY <1>7, NoneAssumption
    DEF SendAck, TypeOK, ReplacedIsClosed, OnlineIsRunning
  <1>8. ASSUME NEW c \in Conns, NEW d \in Calls,
        NEW kind \in {Progress, Terminal, "binary"}, ReadFrame(c, d, kind)
        PROVE  (ReplacedIsClosed /\ OnlineIsRunning)'
    <2>1. UNCHANGED <<online, closed, prev>>
      BY <1>8 DEF ReadFrame
    <2>2. /\ cpc[c] = "read" /\ cpc'[c] \in {"read", "deliver"}
          /\ \A b \in Conns \ {c} : cpc'[b] = cpc[b]
      BY <1>8 DEF ReadFrame, TypeOK
    <2>3. ReplacedIsClosed'
      BY <2>1, <2>2, KeepsHeld
    <2>4. OnlineIsRunning'
      BY <2>1, <2>2, NoneAssumption DEF TypeOK, OnlineIsRunning
    <2> QED
      BY <2>3, <2>4
  <1>9. ASSUME NEW c \in Conns, Deliver(c)
        PROVE  (ReplacedIsClosed /\ OnlineIsRunning)'
    <2>1. UNCHANGED <<online, closed, prev>>
      BY <1>9 DEF Deliver
    <2>2. /\ cpc[c] = "deliver" /\ cpc'[c] \in {"read", "unregister"}
          /\ \A b \in Conns \ {c} : cpc'[b] = cpc[b]
      BY <1>9 DEF Deliver, TypeOK
    <2>3. ReplacedIsClosed'
      BY <2>1, <2>2, KeepsHeld
    <2>4. OnlineIsRunning'
      BY <2>1, <2>2, NoneAssumption DEF TypeOK, OnlineIsRunning
    <2> QED
      BY <2>3, <2>4
  <1>10. ASSUME NEW c \in Conns, ReadError(c)
        PROVE  (ReplacedIsClosed /\ OnlineIsRunning)'
    BY <1>10, NoneAssumption
    DEF ReadError, TypeOK, ReplacedIsClosed, OnlineIsRunning, Close
  <1>11. ASSUME NEW c \in Conns, UnregisterOnline(c)
        PROVE  (ReplacedIsClosed /\ OnlineIsRunning)'
    BY <1>11, NoneAssumption
    DEF UnregisterOnline, TypeOK, ReplacedIsClosed, OnlineIsRunning
  <1>12. ASSUME NEW c \in Conns, HasPending(c)
        PROVE  (ReplacedIsClosed /\ OnlineIsRunning)'
    BY <1>12, NoneAssumption
    DEF HasPending, TypeOK, ReplacedIsClosed, OnlineIsRunning
  <1>13. ASSUME NEW c \in Conns, StartGrace(c)
        PROVE  (ReplacedIsClosed /\ OnlineIsRunning)'
    BY <1>13, NoneAssumption
    DEF StartGrace, TypeOK, ReplacedIsClosed, OnlineIsRunning
  <1>14. ASSUME NEW c \in Conns, SetOffline(c)
        PROVE  (ReplacedIsClosed /\ OnlineIsRunning)'
    BY <1>14, NoneAssumption
    DEF SetOffline, TypeOK, ReplacedIsClosed, OnlineIsRunning, Close
  <1>15. ASSUME RevokeClose
        PROVE  (ReplacedIsClosed /\ OnlineIsRunning)'
    BY <1>15, NoneAssumption
    DEF RevokeClose, TypeOK, ReplacedIsClosed, OnlineIsRunning, Close
  <1>16. ASSUME ShutdownClose
        PROVE  (ReplacedIsClosed /\ OnlineIsRunning)'
    BY <1>16, NoneAssumption
    DEF ShutdownClose, TypeOK, ReplacedIsClosed, OnlineIsRunning, Close
  <1>17. CASE UNCHANGED <<online, cpc, closed, prev>>
    BY <1>17 DEF ReplacedIsClosed, OnlineIsRunning
  <1>18. ASSUME NEW c \in Conns,
               Write(c)
        PROVE  (ReplacedIsClosed /\ OnlineIsRunning)'
    BY <1>18, <1>17 DEF Write, vars, hubVars, stateVars, chanVars, connVars,
      callVars, adminVars, agentVars
  <1>19. ASSUME NEW d \in Calls,
               \/ LookupConnection(d) \/ LookupState(d) \/ RegisterPending(d)
               \/ SendDispatch(d) \/ ReceiveMessage(d) \/ ReceiveClosed(d)
               \/ SendCancel(d) \/ FinalMessage(d) \/ FinalTimeout(d)
               \/ UnregisterPending(d) \/ CancelContext(d) \/ CloseChannel(d)
        PROVE  (ReplacedIsClosed /\ OnlineIsRunning)'
    BY <1>19, <1>17 DEF LookupConnection, LookupState, RegisterPending,
      SendDispatch, ReceiveMessage, ReceiveClosed, SendCancel, FinalMessage,
      FinalTimeout, UnregisterPending, CancelContext, CloseChannel, vars,
      hubVars, stateVars, chanVars, connVars, callVars, adminVars, agentVars
  <1>20. ASSUME NEW g \in Gens,
               \/ TimerFires(g) \/ TimerExpires(g)
        PROVE  (ReplacedIsClosed /\ OnlineIsRunning)'
    BY <1>20, <1>17 DEF TimerFires, TimerExpires, vars, hubVars, stateVars,
      chanVars, connVars, callVars, adminVars, agentVars
  <1>21. CASE
        \/ RevokeRecord \/ RevokeTake \/ ShutdownBegin \/ ShutdownReturn \/ AgentLeaves
        \/ Quiescent \/ UNCHANGED vars
    BY <1>21, <1>17 DEF RevokeRecord, RevokeTake, ShutdownBegin, ShutdownReturn, AgentLeaves,
      Quiescent, vars, hubVars, stateVars, chanVars, connVars, callVars,
      adminVars, agentVars
  <1> QED
    BY <1>5a, <1>1, <1>2, <1>3, <1>4, <1>5, <1>6, <1>7, <1>8, <1>9, <1>10, <1>11,
      <1>12, <1>13, <1>14, <1>15, <1>16, <1>17, <1>18, <1>19, <1>20, <1>21
    DEF Next, ConnStep, CallStep, RevokeStep, ShutdownStep

\* A registered connection that has not begun its teardown is the active one, has
\* been told to close or is held by a successor about to close it, and the Hub
\* never hands out one whose teardown is past unregisterOnline.
LEMMA ConnectionSafety == Spec => [](ReplacedIsClosed /\ OnlineIsRunning)
  <1>1. Init => ReplacedIsClosed /\ OnlineIsRunning
    BY DEF Init, ReplacedIsClosed, OnlineIsRunning
  <1>2. TypeOK /\ ReplacedIsClosed /\ OnlineIsRunning /\ [Next]_vars
          => (ReplacedIsClosed /\ OnlineIsRunning)'
    BY NextConnection
  <1> QED
    BY <1>1, <1>2, TypeCorrect, PTL DEF Spec

\* registerPending either refuses the call or adds it to both maps.
LEMMA RegisterPendingCases ==
  ASSUME TypeOK, NEW d \in Calls, RegisterPending(d)
  PROVE  \/ /\ pending' = pending /\ byPrefix' = byPrefix
            /\ bpc' = [bpc EXCEPT ![d] = "done"]
         \/ /\ pending' = [pending EXCEPT ![bgen[d]] = pending[bgen[d]] \cup {d}]
            /\ byPrefix' = [byPrefix EXCEPT ![bgen[d]] = byPrefix[bgen[d]] \cup {d}]
            /\ bpc' = [bpc EXCEPT ![d] = "send"]
  BY DEF RegisterPending

\* An expire, of any state object and by whoever, keeps the registration
\* invariant: the channels it takes away are open and held by nobody else.
LEMMA ExpireRegistration ==
  ASSUME TypeOK, RegistrationInv, NEW g \in Gens, Expire(g),
         Replaced' = Replaced, cur' = cur, bgen' = bgen, bpc' = bpc,
         chOpen' = chOpen
  PROVE  RegistrationInv'
  <1>1. \A h \in Gens : pending'[h] = IF h = g THEN {} ELSE pending[h]
    BY DEF Expire, TypeOK
  <1>2. \A d \in Calls :
          closing'[d] = IF d \in pending[g] THEN closing[d] + 1 ELSE closing[d]
    BY DEF Expire
  <1>3. StateGen' = StateGen /\ StateGen \in Gens
    BY StateGenType DEF StateGen, Replaced
  <1>4. GenerationOrder'
    BY <1>1, GensFact DEF RegistrationInv, GenerationOrder
  <1>5. UnregisteredFresh'
    BY <1>1, <1>2 DEF RegistrationInv, UnregisteredFresh
  <1>6. RegisteredOpen'
    <2>1. pending'[1] \cap pending'[2] = {}
      BY <1>1, GensFact DEF RegistrationInv, RegisteredOpen
    <2>2. ASSUME NEW h \in Gens, NEW d \in pending'[h]
          PROVE  closing'[d] = 0 /\ chOpen'[d]
      <3>1. h # g /\ d \in pending[h] /\ d \in Calls
        BY <1>1, <2>2 DEF TypeOK
      <3>2. d \notin pending[g]
        BY <3>1, GensFact DEF RegistrationInv, RegisteredOpen
      <3> QED
        BY <1>2, <3>1, <3>2 DEF RegistrationInv, RegisteredOpen
    <2> QED
      BY <2>1, <2>2 DEF RegisteredOpen
  <1>7. HeldByRunningCalls'
    BY <1>1, <1>3 DEF RegistrationInv, HeldByRunningCalls, CallActive
  <1>8. NoDoubleClose'
    <2> SUFFICES ASSUME NEW d \in Calls
                 PROVE  closing'[d] + (IF chOpen'[d] THEN 0 ELSE 1) <= 1
      BY DEF NoDoubleClose
    <2>1. CASE d \in pending[g]
      <3>1. closing[d] = 0 /\ chOpen[d]
        BY <2>1 DEF RegistrationInv, RegisteredOpen
      <3> QED
        BY <1>2, <2>1, <3>1
    <2>2. CASE d \notin pending[g]
      BY <1>2, <2>2 DEF RegistrationInv, NoDoubleClose
    <2> QED
      BY <2>1, <2>2
  <1> QED
    BY <1>4, <1>5, <1>6, <1>7, <1>8 DEF RegistrationInv

\* The registration invariant is inductive.
LEMMA NextRegistration ==
  TypeOK /\ RegistrationInv /\ [Next]_vars => RegistrationInv'
  <1> SUFFICES ASSUME TypeOK, RegistrationInv, [Next]_vars PROVE RegistrationInv'
    OBVIOUS
  <1> USE DEF hubVars, stateVars, chanVars, callVars, adminVars
  <1>1. ASSUME NEW c \in Conns, Resume(c)
        PROVE  RegistrationInv'
    BY <1>1, GensFact
    DEF Resume, TypeOK, RegistrationInv, GenerationOrder, UnregisteredFresh,
      RegisteredOpen, HeldByRunningCalls, NoDoubleClose, Replaced, CallActive,
      StateGen
  <1>2. ASSUME NEW c \in Conns, NEW d \in Calls,
        NEW kind \in {Progress, Terminal, "binary"}, ReadFrame(c, d, kind)
        PROVE  RegistrationInv'
    BY <1>2, GensFact
    DEF ReadFrame, TypeOK, RegistrationInv, GenerationOrder,
      UnregisteredFresh, RegisteredOpen, HeldByRunningCalls, NoDoubleClose,
      Replaced, CallActive, StateGen
  <1>3. ASSUME NEW c \in Conns, HasPending(c)
        PROVE  RegistrationInv'
    BY <1>3, GensFact
    DEF HasPending, TypeOK, RegistrationInv, GenerationOrder,
      UnregisteredFresh, RegisteredOpen, HeldByRunningCalls, NoDoubleClose,
      Replaced, CallActive, StateGen
  <1>4. ASSUME NEW d \in Calls, LookupConnection(d)
        PROVE  RegistrationInv'
    <2>1. GenerationOrder'
      BY <1>4, GensFact DEF LookupConnection, TypeOK, RegistrationInv,
        GenerationOrder,
        Replaced, StateGen
    <2>2. UnregisteredFresh'
      BY <1>4 DEF LookupConnection, TypeOK, RegistrationInv, UnregisteredFresh
    <2>3. RegisteredOpen'
      BY <1>4, GensFact DEF LookupConnection, TypeOK, RegistrationInv,
        RegisteredOpen,
        UnregisteredFresh
    <2>4. HeldByRunningCalls'
      BY <1>4, GensFact DEF LookupConnection, TypeOK, RegistrationInv,
        HeldByRunningCalls,
        GenerationOrder, UnregisteredFresh, CallActive, Replaced, StateGen
    <2>5. NoDoubleClose'
      BY <1>4 DEF LookupConnection, TypeOK, RegistrationInv, NoDoubleClose,
        RegisteredOpen
    <2> QED
      BY <2>1, <2>2, <2>3, <2>4, <2>5 DEF RegistrationInv
  <1>5. ASSUME NEW d \in Calls, LookupState(d)
        PROVE  RegistrationInv'
    <2>1. GenerationOrder'
      BY <1>5, GensFact DEF LookupState, TypeOK, RegistrationInv,
        GenerationOrder,
        Replaced, StateGen
    <2>2. UnregisteredFresh'
      BY <1>5 DEF LookupState, TypeOK, RegistrationInv, UnregisteredFresh
    <2>3. RegisteredOpen'
      BY <1>5, GensFact DEF LookupState, TypeOK, RegistrationInv,
        RegisteredOpen,
        UnregisteredFresh
    <2>4. HeldByRunningCalls'
      BY <1>5, GensFact DEF LookupState, TypeOK, RegistrationInv,
        HeldByRunningCalls,
        GenerationOrder, UnregisteredFresh, CallActive, Replaced, StateGen
    <2>5. NoDoubleClose'
      BY <1>5 DEF LookupState, TypeOK, RegistrationInv, NoDoubleClose,
        RegisteredOpen
    <2> QED
      BY <2>1, <2>2, <2>3, <2>4, <2>5 DEF RegistrationInv
  <1>6. ASSUME NEW d \in Calls, RegisterPending(d)
        PROVE  RegistrationInv'
    <2>1. /\ bpc[d] = "register" /\ bgen[d] \in Gens
          /\ cur' = cur /\ rpc' = rpc /\ bgen' = bgen
          /\ closing' = closing /\ chOpen' = chOpen
      BY <1>6 DEF RegisterPending, TypeOK
    <2>2. CASE pending' = pending /\ bpc' = [bpc EXCEPT ![d] = "done"]
      <3>1. GenerationOrder'
        BY <2>1, <2>2, GensFact DEF TypeOK, RegistrationInv, GenerationOrder,
          Replaced
      <3>2. UnregisteredFresh'
        BY <2>1, <2>2 DEF TypeOK, RegistrationInv, UnregisteredFresh
      <3>3. RegisteredOpen'
        BY <2>1, <2>2, GensFact DEF TypeOK, RegistrationInv, RegisteredOpen,
          UnregisteredFresh
      <3>4. HeldByRunningCalls'
        BY <2>1, <2>2, GensFact DEF TypeOK, RegistrationInv,
          HeldByRunningCalls,
          GenerationOrder, UnregisteredFresh, CallActive, Replaced, StateGen
      <3>5. NoDoubleClose'
        BY <2>1, <2>2 DEF TypeOK, RegistrationInv, NoDoubleClose,
          RegisteredOpen
      <3> QED
        BY <3>1, <3>2, <3>3, <3>4, <3>5 DEF RegistrationInv
    <2>3. CASE /\ pending' = [pending EXCEPT ![bgen[d]] = pending[bgen[d]] \cup {d}]
               /\ bpc' = [bpc EXCEPT ![d] = "send"]
      <3>1. GenerationOrder'
        BY <2>1, <2>3, GensFact DEF TypeOK, RegistrationInv, GenerationOrder,
          Replaced
      <3>2. UnregisteredFresh'
        BY <2>1, <2>3 DEF TypeOK, RegistrationInv, UnregisteredFresh
      <3>3. RegisteredOpen'
        BY <2>1, <2>3, GensFact DEF TypeOK, RegistrationInv, RegisteredOpen,
          UnregisteredFresh
      <3>4. HeldByRunningCalls'
        BY <2>1, <2>3, GensFact DEF TypeOK, RegistrationInv,
          HeldByRunningCalls,
          GenerationOrder, UnregisteredFresh, CallActive, Replaced, StateGen
      <3>5. NoDoubleClose'
        BY <2>1, <2>3 DEF TypeOK, RegistrationInv, NoDoubleClose,
          RegisteredOpen
      <3> QED
        BY <3>1, <3>2, <3>3, <3>4, <3>5 DEF RegistrationInv
    <2> QED
      BY <1>6, <2>2, <2>3, RegisterPendingCases
  <1>7. ASSUME NEW d \in Calls, SendDispatch(d)
        PROVE  RegistrationInv'
    BY <1>7, GensFact
    DEF SendDispatch, TypeOK, RegistrationInv, GenerationOrder,
      UnregisteredFresh, RegisteredOpen, HeldByRunningCalls, NoDoubleClose,
      Replaced, CallActive, StateGen
  <1>8. ASSUME NEW d \in Calls, ReceiveMessage(d)
        PROVE  RegistrationInv'
    BY <1>8, GensFact
    DEF ReceiveMessage, TypeOK, RegistrationInv, GenerationOrder,
      UnregisteredFresh, RegisteredOpen, HeldByRunningCalls, NoDoubleClose,
      Replaced, CallActive, StateGen
  <1>9. ASSUME NEW d \in Calls, ReceiveClosed(d)
        PROVE  RegistrationInv'
    BY <1>9, GensFact
    DEF ReceiveClosed, TypeOK, RegistrationInv, GenerationOrder,
      UnregisteredFresh, RegisteredOpen, HeldByRunningCalls, NoDoubleClose,
      Replaced, CallActive, StateGen
  <1>10. ASSUME NEW d \in Calls, SendCancel(d)
        PROVE  RegistrationInv'
    <2>1. GenerationOrder'
      BY <1>10, GensFact DEF SendCancel, TypeOK, RegistrationInv,
        GenerationOrder,
        Replaced, StateGen
    <2>2. UnregisteredFresh'
      BY <1>10 DEF SendCancel, TypeOK, RegistrationInv, UnregisteredFresh
    <2>3. RegisteredOpen'
      BY <1>10, GensFact DEF SendCancel, TypeOK, RegistrationInv,
        RegisteredOpen,
        UnregisteredFresh
    <2>4. HeldByRunningCalls'
      BY <1>10, GensFact DEF SendCancel, TypeOK, RegistrationInv,
        HeldByRunningCalls,
        GenerationOrder, UnregisteredFresh, CallActive, Replaced, StateGen
    <2>5. NoDoubleClose'
      BY <1>10 DEF SendCancel, TypeOK, RegistrationInv, NoDoubleClose,
        RegisteredOpen
    <2> QED
      BY <2>1, <2>2, <2>3, <2>4, <2>5 DEF RegistrationInv
  <1>11. ASSUME NEW d \in Calls, FinalMessage(d)
        PROVE  RegistrationInv'
    BY <1>11, GensFact
    DEF FinalMessage, TypeOK, RegistrationInv, GenerationOrder,
      UnregisteredFresh, RegisteredOpen, HeldByRunningCalls, NoDoubleClose,
      Replaced, CallActive, StateGen
  <1>12. ASSUME NEW d \in Calls, FinalTimeout(d)
        PROVE  RegistrationInv'
    BY <1>12, GensFact
    DEF FinalTimeout, TypeOK, RegistrationInv, GenerationOrder,
      UnregisteredFresh, RegisteredOpen, HeldByRunningCalls, NoDoubleClose,
      Replaced, CallActive, StateGen
  <1>13. ASSUME NEW d \in Calls, UnregisterPending(d)
        PROVE  RegistrationInv'
    <2>1. GenerationOrder'
      BY <1>13, GensFact DEF UnregisterPending, TypeOK, RegistrationInv,
        GenerationOrder,
        Replaced, StateGen
    <2>2. UnregisteredFresh'
      BY <1>13 DEF UnregisterPending, TypeOK, RegistrationInv,
        UnregisteredFresh
    <2>3. RegisteredOpen'
      BY <1>13, GensFact DEF UnregisterPending, TypeOK, RegistrationInv,
        RegisteredOpen,
        UnregisteredFresh
    <2>4. HeldByRunningCalls'
      BY <1>13, GensFact DEF UnregisterPending, TypeOK, RegistrationInv,
        HeldByRunningCalls,
        GenerationOrder, UnregisteredFresh, CallActive, Replaced, StateGen
    <2>5. NoDoubleClose'
      BY <1>13 DEF UnregisterPending, TypeOK, RegistrationInv, NoDoubleClose,
        RegisteredOpen
    <2> QED
      BY <2>1, <2>2, <2>3, <2>4, <2>5 DEF RegistrationInv
  <1>14. ASSUME NEW g \in Gens, TimerExpires(g)
        PROVE  RegistrationInv'
    <2>1. /\ Expire(g) /\ rpc' = rpc /\ cur' = cur
          /\ bgen' = bgen /\ bpc' = bpc /\ chOpen' = chOpen
      BY <1>14 DEF TimerExpires
    <2> QED
      BY <2>1, ExpireRegistration DEF Replaced
  <1>15. ASSUME NEW d \in Calls, CloseChannel(d)
        PROVE  RegistrationInv'
    BY <1>15, GensFact
    DEF CloseChannel, TypeOK, RegistrationInv, GenerationOrder,
      UnregisteredFresh, RegisteredOpen, HeldByRunningCalls, NoDoubleClose,
      Replaced, CallActive, StateGen
  <1>16. ASSUME RevokeRecord
        PROVE  RegistrationInv'
    BY <1>16, GensFact
    DEF RevokeRecord, TypeOK, RegistrationInv, GenerationOrder,
      UnregisteredFresh, RegisteredOpen, HeldByRunningCalls, NoDoubleClose,
      Replaced, CallActive, StateGen
  <1>17. ASSUME RevokeTake
        PROVE  RegistrationInv'
    BY <1>17, GensFact
    DEF RevokeTake, TypeOK, RegistrationInv, GenerationOrder,
      UnregisteredFresh, RegisteredOpen, HeldByRunningCalls, NoDoubleClose,
      Replaced, CallActive, StateGen
  <1>18. ASSUME RevokeClose
        PROVE  RegistrationInv'
    <2>1. /\ rpc = "close" /\ rpc' = "done" /\ cur' = cur
          /\ bgen' = bgen /\ bpc' = bpc /\ chOpen' = chOpen
      BY <1>18 DEF RevokeClose
    <2>2. CASE rgen = 0
      <3>1. pending' = pending /\ closing' = closing
        BY <1>18, <2>2 DEF RevokeClose
      <3> QED
        BY <2>1, <3>1 DEF RegistrationInv, GenerationOrder, UnregisteredFresh,
          RegisteredOpen, HeldByRunningCalls, NoDoubleClose, Replaced,
          CallActive, StateGen
    <2>3. CASE rgen # 0
      <3>1. rgen \in Gens /\ Expire(rgen)
        BY <1>18, <2>3, GensFact DEF RevokeClose, TypeOK
      <3> QED
        BY <2>1, <3>1, ExpireRegistration DEF Replaced
    <2> QED
      BY <2>2, <2>3
  <1>19. CASE UNCHANGED <<cur, rpc, pending, bgen, bpc, closing, chOpen>>
    BY <1>19 DEF RegistrationInv, GenerationOrder, UnregisteredFresh,
      RegisteredOpen, HeldByRunningCalls, NoDoubleClose, Replaced, CallActive,
      StateGen
  <1>20. ASSUME NEW c \in Conns,
               \/ Connect(c) \/ HandshakeFails(c) \/ Authenticate(c)
               \/ SetOnline(c) \/ RegisterOnline(c) \/ ClosePrev(c) \/ SendAck(c)
               \/ Deliver(c) \/ Write(c) \/ ReadError(c)
               \/ UnregisterOnline(c) \/ StartGrace(c) \/ SetOffline(c)
        PROVE  RegistrationInv'
    BY <1>20, <1>19 DEF Connect, HandshakeFails, Authenticate, SetOnline,
      RegisterOnline, ClosePrev, SendAck, Deliver, Write, ReadError, UnregisterOnline,
      StartGrace, SetOffline, vars, hubVars, stateVars, chanVars, connVars,
      callVars, adminVars, agentVars
  <1>21. ASSUME NEW d \in Calls,
               CancelContext(d)
        PROVE  RegistrationInv'
    BY <1>21, <1>19 DEF CancelContext, vars, hubVars, stateVars, chanVars,
      connVars, callVars, adminVars, agentVars
  <1>22. ASSUME NEW g \in Gens,
               TimerFires(g)
        PROVE  RegistrationInv'
    BY <1>22, <1>19 DEF TimerFires, vars, hubVars, stateVars, chanVars,
      connVars, callVars, adminVars, agentVars
  <1>23. CASE
        \/ ShutdownBegin \/ ShutdownClose \/ ShutdownReturn \/ AgentLeaves \/ Quiescent
        \/ UNCHANGED vars
    BY <1>23, <1>19 DEF ShutdownBegin, ShutdownClose, ShutdownReturn, AgentLeaves, Quiescent,
      vars, hubVars, stateVars, chanVars, connVars, callVars, adminVars,
      agentVars
  <1> QED
    BY <1>1, <1>2, <1>3, <1>4, <1>5, <1>6, <1>7, <1>8, <1>9, <1>10, <1>11,
      <1>12, <1>13, <1>14, <1>15, <1>16, <1>17, <1>18, <1>19, <1>20, <1>21,
      <1>22, <1>23
    DEF Next, ConnStep, CallStep, RevokeStep, ShutdownStep

\* The prefix index stays within the registrations.
LEMMA NextPrefix ==
  TypeOK /\ PrefixIndexSound /\ [Next]_vars => PrefixIndexSound'
  <1> SUFFICES ASSUME TypeOK, PrefixIndexSound, [Next]_vars PROVE PrefixIndexSound'
    OBVIOUS
  <1> USE DEF stateVars
  <1>1. ASSUME NEW d \in Calls, RegisterPending(d)
        PROVE  PrefixIndexSound'
    <2>1. bgen[d] \in Gens
      BY DEF TypeOK
    <2>2. CASE pending' = pending /\ byPrefix' = byPrefix
      BY <2>2 DEF PrefixIndexSound
    <2>3. CASE /\ pending' = [pending EXCEPT ![bgen[d]] = pending[bgen[d]] \cup {d}]
               /\ byPrefix' = [byPrefix EXCEPT ![bgen[d]] = byPrefix[bgen[d]] \cup {d}]
      BY <2>1, <2>3 DEF TypeOK, PrefixIndexSound
    <2> QED
      BY <1>1, <2>2, <2>3, RegisterPendingCases
  <1>2. ASSUME NEW d \in Calls, UnregisterPending(d)
        PROVE  PrefixIndexSound'
    BY <1>2, StateGenType
    DEF UnregisterPending, TypeOK, PrefixIndexSound
  <1>3. ASSUME NEW g \in Gens, TimerExpires(g)
        PROVE  PrefixIndexSound'
    BY <1>3
    DEF TimerExpires, Expire, TypeOK, PrefixIndexSound
  <1>4. ASSUME RevokeClose
        PROVE  PrefixIndexSound'
    BY <1>4, GensFact
    DEF RevokeClose, Expire, TypeOK, PrefixIndexSound
  <1>5. CASE UNCHANGED <<pending, byPrefix>>
    BY <1>5 DEF PrefixIndexSound
  <1>6. ASSUME NEW c \in Conns,
               \/ Connect(c) \/ HandshakeFails(c) \/ Authenticate(c)
               \/ SetOnline(c) \/ RegisterOnline(c) \/ ClosePrev(c) \/ Resume(c)
               \/ SendAck(c) \/ Deliver(c) \/ Write(c) \/ ReadError(c)
               \/ UnregisterOnline(c) \/ HasPending(c) \/ StartGrace(c)
               \/ SetOffline(c)
        PROVE  PrefixIndexSound'
    BY <1>6, <1>5 DEF Connect, HandshakeFails, Authenticate, SetOnline,
      RegisterOnline, ClosePrev, Resume, SendAck, Deliver, Write, ReadError,
      UnregisterOnline, HasPending, StartGrace, SetOffline, vars, hubVars,
      stateVars, chanVars, connVars, callVars, adminVars, agentVars
  <1>7. ASSUME NEW c \in Conns, NEW d \in Calls,
        NEW kind \in {Progress, Terminal, "binary"},
               ReadFrame(c, d, kind)
        PROVE  PrefixIndexSound'
    BY <1>7, <1>5 DEF ReadFrame, vars, hubVars, stateVars, chanVars, connVars,
      callVars, adminVars, agentVars
  <1>8. ASSUME NEW d \in Calls,
               \/ LookupConnection(d) \/ LookupState(d) \/ SendDispatch(d)
               \/ ReceiveMessage(d) \/ ReceiveClosed(d) \/ SendCancel(d)
               \/ FinalMessage(d) \/ FinalTimeout(d) \/ CancelContext(d)
               \/ CloseChannel(d)
        PROVE  PrefixIndexSound'
    BY <1>8, <1>5 DEF LookupConnection, LookupState, SendDispatch,
      ReceiveMessage, ReceiveClosed, SendCancel, FinalMessage, FinalTimeout,
      CancelContext, CloseChannel, vars, hubVars, stateVars, chanVars,
      connVars, callVars, adminVars, agentVars
  <1>9. ASSUME NEW g \in Gens,
               TimerFires(g)
        PROVE  PrefixIndexSound'
    BY <1>9, <1>5 DEF TimerFires, vars, hubVars, stateVars, chanVars,
      connVars, callVars, adminVars, agentVars
  <1>10. CASE
        \/ RevokeRecord \/ RevokeTake \/ ShutdownBegin \/ ShutdownClose \/ ShutdownReturn
        \/ AgentLeaves \/ Quiescent \/ UNCHANGED vars
    BY <1>10, <1>5 DEF RevokeRecord, RevokeTake, ShutdownBegin,
      ShutdownClose, ShutdownReturn, AgentLeaves, Quiescent, vars, hubVars, stateVars,
      chanVars, connVars, callVars, adminVars, agentVars
  <1> QED
    BY <1>1, <1>2, <1>3, <1>4, <1>5, <1>6, <1>7, <1>8, <1>9, <1>10
    DEF Next, ConnStep, CallStep, RevokeStep, ShutdownStep

\* The registration invariant holds of every behaviour.
LEMMA RegistrationInvariant == Spec => []RegistrationInv
  <1>1. Init => RegistrationInv
    BY GensFact DEF Init, RegistrationInv, GenerationOrder, UnregisteredFresh,
      RegisteredOpen, HeldByRunningCalls, NoDoubleClose, Replaced, StateGen
  <1>2. TypeOK /\ RegistrationInv /\ [Next]_vars => RegistrationInv'
    BY NextRegistration
  <1> QED
    BY <1>1, <1>2, TypeCorrect, PTL DEF Spec

\* No bridge channel is closed twice, whatever the grace timers, revocation and
\* the calls do, for any number of calls and connections.
THEOREM NoDoubleCloseHolds == Spec => []NoDoubleClose
  <1>1. RegistrationInv => NoDoubleClose
    BY DEF RegistrationInv
  <1> QED
    BY <1>1, RegistrationInvariant, PTL

\* A registration in the device's current state always belongs to a call that is
\* still running: no way out of Dispatch leaks one.
THEOREM NoLeakedRegistrationHolds == Spec => []NoLeakedRegistration
  <1>1. RegistrationInv => NoLeakedRegistration
    BY DEF RegistrationInv, HeldByRunningCalls, NoLeakedRegistration, StateGen
  <1> QED
    BY <1>1, RegistrationInvariant, PTL

\* The prefix index never names a call that has no registration, for any
\* assignment of prefixes to calls, colliding ones included.
THEOREM PrefixIndexSoundHolds == Spec => []PrefixIndexSound
  <1>1. Init => PrefixIndexSound
    BY DEF Init, PrefixIndexSound
  <1>2. TypeOK /\ PrefixIndexSound /\ [Next]_vars => PrefixIndexSound'
    BY NextPrefix
  <1> QED
    BY <1>1, <1>2, TypeCorrect, PTL DEF Spec


(***************************************************************************)
(* A fresh hello_ack orphans nothing.                                      *)
(***************************************************************************)

\* What waits in a connection's send buffer.
Queued(c) == {sendq[c][i] : i \in DOMAIN sendq[c]}

\* The agent waits on c for a hello_ack that says resume:false: resume has
\* answered, or the envelope is already in the buffer.
FreshAckDue(c) ==
  /\ agentConn = c /\ ~closed[c] /\ ~acked[c]
  /\ \/ cpc[c] = "ack" /\ target[c].type = "ackFresh"
     \/ \E e \in Queued(c) : e.type = "ackFresh"

\* A hello_ack is queued by a connection that has started only.
AckAfterDial ==
  \A c \in Conns : cpc[c] = "idle" => \A e \in Queued(c) : e.type # "ackFresh"

\* A call that has not enqueued its dispatch is nowhere near the agent.
UnsentIsUnknown ==
  \A d \in Calls :
    bpc[d] \in {"idle", "state", "register", "send"} =>
      /\ d \notin atAgent
      /\ \A c \in Conns : \A e \in Queued(c) : e.type = "dispatch" => e.call # d

\* From the moment resume has answered false until the agent reads that answer,
\* the state object the Hub hands out holds no call of the agent's.
FreshHoldsNothing ==
  \A c \in Conns : FreshAckDue(c) => atAgent \cap pending[StateGen] = {}

FreshAckInv == AckAfterDial /\ UnsentIsUnknown /\ FreshHoldsNothing

\* Dispatch has not enqueued its envelope yet.
Unsent == {"idle", "state", "register", "send"}

\* trySend adds its own envelope at most, and to its own buffer.
LEMMA TrySendQueued ==
  ASSUME TypeOK, NEW c \in Conns \cup {None}, NEW m \in Envelopes, TrySend(c, m)
  PROVE  \A b \in Conns : \A e \in Queued(b)' : e \in Queued(b) \/ (b = c /\ e = m)
  <1> SUFFICES ASSUME NEW b \in Conns, NEW i \in DOMAIN sendq'[b]
               PROVE  sendq'[b][i] \in Queued(b) \/ (b = c /\ sendq'[b][i] = m)
    BY DEF Queued
  <1>1. CASE sendq'[b] = sendq[b]
    BY <1>1 DEF Queued
  <1>2. CASE b = c /\ sendq'[b] = Append(sendq[b], m)
    <2>1. sendq[b] \in Seq(Envelopes)
      BY DEF TypeOK
    <2>2. i \in 1..(Len(sendq[b]) + 1)
      BY <1>2, <2>1
    <2>3. CASE i = Len(sendq[b]) + 1
      BY <1>2, <2>1, <2>3
    <2>4. CASE i \in DOMAIN sendq[b]
      <3>1. sendq'[b][i] = sendq[b][i]
        BY <1>2, <2>1, <2>4
      <3> QED
        BY <2>4, <3>1 DEF Queued
    <2> QED
      BY <2>1, <2>2, <2>3, <2>4
  <1> QED
    BY <1>1, <1>2 DEF TrySend, TypeOK

\* closeWithReason discards what its connection had queued.
LEMMA CloseQueued ==
  ASSUME TypeOK, NEW c \in Conns \cup {None}, Close(c)
  PROVE  /\ \A b \in Conns : /\ Queued(b)' \subseteq Queued(b)
                             /\ ~closed'[b] => ~closed[b]
         /\ c # None => closed'[c]
  <1>1. \A b \in Conns : sendq'[b] = sendq[b] \/ sendq'[b] = <<>>
    BY DEF Close, TypeOK
  <1>2. \A b \in Conns : Queued(b)' \subseteq Queued(b)
    BY <1>1 DEF Queued
  <1>3. \A b \in Conns : ~closed'[b] => ~closed[b]
    BY DEF Close, TypeOK
  <1>4. c # None => closed'[c]
    BY DEF Close, TypeOK
  <1> QED
    BY <1>2, <1>3, <1>4

\* The writer takes the first envelope and leaves the others.
LEMMA WriteQueued ==
  ASSUME TypeOK, NEW c \in Conns, Write(c)
  PROVE  /\ Head(sendq[c]) \in Queued(c)
         /\ \A b \in Conns : Queued(b)' \subseteq Queued(b)
  <1>1. sendq[c] \in Seq(Envelopes) /\ sendq[c] # <<>>
    BY DEF TypeOK, Write
  <1>2. Head(sendq[c]) \in Queued(c)
    <2>1. Head(sendq[c]) = sendq[c][1] /\ 1 \in DOMAIN sendq[c]
      BY <1>1
    <2> QED
      BY <2>1 DEF Queued
  <1>3. ASSUME NEW b \in Conns
        PROVE  Queued(b)' \subseteq Queued(b)
    <2>1. CASE b = c
      <3>1. sendq'[b] = Tail(sendq[b])
        BY <2>1 DEF Write, TypeOK
      <3>2. \A i \in DOMAIN sendq'[b] :
              i + 1 \in DOMAIN sendq[b] /\ sendq'[b][i] = sendq[b][i + 1]
        BY <1>1, <2>1, <3>1
      <3> QED
        BY <3>2 DEF Queued
    <2>2. CASE b # c
      BY <2>2 DEF Write, TypeOK, Queued
    <2> QED
      BY <2>1, <2>2
  <1> QED
    BY <1>2, <1>3

\* Creating the state object on demand does not change which one it is.
LEMMA StateGenStable ==
  ASSUME TypeOK, cur' \in {cur, StateGen},
         rpc' = rpc \/ (rpc = "idle" /\ rpc' = "take")
                    \/ (rpc = "close" /\ rpc' = "done")
  PROVE  StateGen' = StateGen
  BY DEF TypeOK, StateGen

\* A step that starts no call at the agent and makes no fresh hello_ack due.
LEMMA QuietFresh ==
  ASSUME FreshAckInv,
         \A b \in Conns : cpc'[b] \in {"idle", "ack"} =>
                            cpc'[b] = cpc[b] /\ target'[b] = target[b],
         \A b \in Conns : \A e \in Queued(b)' :
           e \in Queued(b) \/ e.type \in {"cancel", "close"},
         \A d \in Calls : bpc'[d] \in Unsent => bpc[d] \in Unsent,
         atAgent' \subseteq atAgent,
         \A b \in Conns : /\ agentConn' = b => agentConn = b
                          /\ ~closed'[b] => ~closed[b]
                          /\ ~closed'[b] /\ ~acked'[b] => ~acked[b],
         atAgent' \cap pending'[StateGen'] \subseteq pending[StateGen]
  PROVE  FreshAckInv'
  <1>1. AckAfterDial'
    BY DEF FreshAckInv, AckAfterDial
  <1>2. UnsentIsUnknown'
    BY DEF FreshAckInv, UnsentIsUnknown, Unsent
  <1>3. \A b \in Conns : FreshAckDue(b)' => FreshAckDue(b)
    BY DEF FreshAckDue
  <1>4. FreshHoldsNothing'
    BY <1>3 DEF FreshAckInv, FreshHoldsNothing
  <1> QED
    BY <1>1, <1>2, <1>4 DEF FreshAckInv

\* Every step keeps them.
LEMMA NextFresh ==
  TypeOK /\ TargetOK /\ GenerationOrder /\ FreshAckInv /\ [Next]_vars => FreshAckInv'
  <1> SUFFICES ASSUME TypeOK, TargetOK, GenerationOrder, FreshAckInv, [Next]_vars
               PROVE  FreshAckInv'
    OBVIOUS
  <1> USE DEF hubVars, stateVars, chanVars, connVars, callVars, adminVars,
    agentVars
  <1>1. ASSUME NEW c \in Conns, HandshakeFails(c)
        PROVE  FreshAckInv'
    <2>1. StateGen' = StateGen
      BY <1>1, StateGenStable DEF HandshakeFails
    <2>2. Close(c) /\ c \in Conns \cup {None}
      BY <1>1 DEF HandshakeFails, TypeOK
    <2>3. \A b \in Conns : \A e \in Queued(b)' : e \in Queued(b)
      BY <2>2, CloseQueued
    <2>4. \A b \in Conns : ~closed'[b] => ~closed[b]
      BY <2>2, CloseQueued
    <2>5. \A b \in Conns : ~closed'[b] /\ ~acked'[b] => ~acked[b]
      BY <1>1, <2>2, CloseQueued, NoneAssumption DEF HandshakeFails, TypeOK
    <2>6. \A b \in Conns : agentConn' = b => agentConn = b
      BY <1>1, NoneAssumption DEF HandshakeFails
    <2>7. \A b \in Conns : cpc'[b] \in {"idle", "ack"} =>
                              cpc'[b] = cpc[b] /\ target'[b] = target[b]
      BY <1>1 DEF HandshakeFails, TypeOK
    <2>8. atAgent' \cap pending'[StateGen'] \subseteq pending[StateGen]
      BY <1>1, <2>1, StateGenType DEF HandshakeFails, TypeOK
    <2>9. atAgent' = atAgent /\ bpc' = bpc
      BY <1>1 DEF HandshakeFails
    <2> QED
      BY <2>3, <2>4, <2>5, <2>6, <2>7, <2>8, <2>9, QuietFresh
  <1>2. ASSUME NEW c \in Conns, Authenticate(c)
        PROVE  FreshAckInv'
    <2>1. StateGen' = StateGen
      BY <1>2, StateGenStable DEF Authenticate
    <2>2. \A b \in Conns : Queued(b)' = Queued(b)
      BY <1>2 DEF Authenticate, Queued
    <2> QED
      BY <1>2, <2>1, <2>2, QuietFresh, StateGenType
      DEF Authenticate, TypeOK, Unsent
  <1>3. ASSUME NEW c \in Conns, SetOnline(c)
        PROVE  FreshAckInv'
    <2>1. StateGen' = StateGen
      BY <1>3, StateGenStable DEF SetOnline
    <2>2. \A b \in Conns : Queued(b)' = Queued(b)
      BY <1>3 DEF SetOnline, Queued
    <2> QED
      BY <1>3, <2>1, <2>2, QuietFresh, StateGenType
      DEF SetOnline, TypeOK, Unsent
  <1>4. ASSUME NEW c \in Conns, RegisterOnline(c)
        PROVE  FreshAckInv'
    <2>1. StateGen' = StateGen
      BY <1>4, StateGenStable DEF RegisterOnline
    <2>2. \A b \in Conns : Queued(b)' = Queued(b)
      BY <1>4 DEF RegisterOnline, Queued
    <2> QED
      BY <1>4, <2>1, <2>2, QuietFresh, StateGenType
      DEF RegisterOnline, TypeOK, Unsent
  <1>4a. ASSUME NEW c \in Conns, ClosePrev(c)
        PROVE  FreshAckInv'
    <2>1. StateGen' = StateGen
      BY <1>4a, StateGenStable DEF ClosePrev
    <2>2. Close(prev[c]) /\ prev[c] \in Conns \cup {None}
      BY <1>4a DEF ClosePrev, TypeOK
    <2>3. \A b \in Conns : \A e \in Queued(b)' : e \in Queued(b)
      BY <2>2, CloseQueued
    <2>4. \A b \in Conns : ~closed'[b] => ~closed[b]
      BY <2>2, CloseQueued
    <2>5. \A b \in Conns : ~closed'[b] /\ ~acked'[b] => ~acked[b]
      BY <1>4a, <2>2, CloseQueued, NoneAssumption DEF ClosePrev, TypeOK
    <2>6. \A b \in Conns : agentConn' = b => agentConn = b
      BY <1>4a, NoneAssumption DEF ClosePrev
    <2>7. \A b \in Conns : cpc'[b] \in {"idle", "ack"} =>
                              cpc'[b] = cpc[b] /\ target'[b] = target[b]
      BY <1>4a DEF ClosePrev, TypeOK
    <2>8. atAgent' \cap pending'[StateGen'] \subseteq pending[StateGen]
      BY <1>4a, <2>1, StateGenType DEF ClosePrev, TypeOK
    <2>9. atAgent' = atAgent /\ bpc' = bpc
      BY <1>4a DEF ClosePrev
    <2> QED
      BY <2>3, <2>4, <2>5, <2>6, <2>7, <2>8, <2>9, QuietFresh
  <1>5. ASSUME NEW c \in Conns, NEW d \in Calls,
               NEW kind \in {Progress, Terminal, "binary"}, ReadFrame(c, d, kind)
        PROVE  FreshAckInv'
    <2>1. StateGen' = StateGen
      BY <1>5, StateGenStable DEF ReadFrame
    <2>2. \A b \in Conns : Queued(b)' = Queued(b)
      BY <1>5 DEF ReadFrame, Queued
    <2> QED
      BY <1>5, <2>1, <2>2, QuietFresh, StateGenType
      DEF ReadFrame, TypeOK, Unsent
  <1>6. ASSUME NEW c \in Conns, Deliver(c)
        PROVE  FreshAckInv'
    <2>1. StateGen' = StateGen
      BY <1>6, StateGenStable DEF Deliver
    <2>2. \A b \in Conns : Queued(b)' = Queued(b)
      BY <1>6 DEF Deliver, Queued
    <2> QED
      BY <1>6, <2>1, <2>2, QuietFresh, StateGenType
      DEF Deliver, TypeOK, Unsent
  <1>7. ASSUME NEW c \in Conns, ReadError(c)
        PROVE  FreshAckInv'
    <2>1. StateGen' = StateGen
      BY <1>7, StateGenStable DEF ReadError
    <2>2. Close(c) /\ c \in Conns \cup {None}
      BY <1>7 DEF ReadError, TypeOK
    <2>3. \A b \in Conns : \A e \in Queued(b)' : e \in Queued(b)
      BY <2>2, CloseQueued
    <2>4. \A b \in Conns : ~closed'[b] => ~closed[b]
      BY <2>2, CloseQueued
    <2>5. \A b \in Conns : ~closed'[b] /\ ~acked'[b] => ~acked[b]
      BY <1>7, <2>2, CloseQueued, NoneAssumption DEF ReadError, TypeOK
    <2>6. \A b \in Conns : agentConn' = b => agentConn = b
      BY <1>7, NoneAssumption DEF ReadError
    <2>7. \A b \in Conns : cpc'[b] \in {"idle", "ack"} =>
                              cpc'[b] = cpc[b] /\ target'[b] = target[b]
      BY <1>7 DEF ReadError, TypeOK
    <2>8. atAgent' \cap pending'[StateGen'] \subseteq pending[StateGen]
      BY <1>7, <2>1, StateGenType DEF ReadError, TypeOK
    <2>9. atAgent' = atAgent /\ bpc' = bpc
      BY <1>7 DEF ReadError
    <2> QED
      BY <2>3, <2>4, <2>5, <2>6, <2>7, <2>8, <2>9, QuietFresh
  <1>8. ASSUME NEW c \in Conns, UnregisterOnline(c)
        PROVE  FreshAckInv'
    <2>1. StateGen' = StateGen
      BY <1>8, StateGenStable DEF UnregisterOnline
    <2>2. \A b \in Conns : Queued(b)' = Queued(b)
      BY <1>8 DEF UnregisterOnline, Queued
    <2> QED
      BY <1>8, <2>1, <2>2, QuietFresh, StateGenType
      DEF UnregisterOnline, TypeOK, Unsent
  <1>9. ASSUME NEW c \in Conns, HasPending(c)
        PROVE  FreshAckInv'
    <2>1. StateGen' = StateGen
      BY <1>9, StateGenStable DEF HasPending
    <2>2. \A b \in Conns : Queued(b)' = Queued(b)
      BY <1>9 DEF HasPending, Queued
    <2> QED
      BY <1>9, <2>1, <2>2, QuietFresh, StateGenType
      DEF HasPending, TypeOK, Unsent
  <1>10. ASSUME NEW c \in Conns, StartGrace(c)
        PROVE  FreshAckInv'
    <2>1. StateGen' = StateGen
      BY <1>10, StateGenStable DEF StartGrace
    <2>2. \A b \in Conns : Queued(b)' = Queued(b)
      BY <1>10 DEF StartGrace, Queued
    <2> QED
      BY <1>10, <2>1, <2>2, QuietFresh, StateGenType
      DEF StartGrace, TypeOK, Unsent
  <1>11. ASSUME NEW c \in Conns, SetOffline(c)
        PROVE  FreshAckInv'
    <2>1. StateGen' = StateGen
      BY <1>11, StateGenStable DEF SetOffline
    <2>2. Close(c) /\ c \in Conns \cup {None}
      BY <1>11 DEF SetOffline, TypeOK
    <2>3. \A b \in Conns : \A e \in Queued(b)' : e \in Queued(b)
      BY <2>2, CloseQueued
    <2>4. \A b \in Conns : ~closed'[b] => ~closed[b]
      BY <2>2, CloseQueued
    <2>5. \A b \in Conns : ~closed'[b] /\ ~acked'[b] => ~acked[b]
      BY <1>11, <2>2, CloseQueued, NoneAssumption DEF SetOffline, TypeOK
    <2>6. \A b \in Conns : agentConn' = b => agentConn = b
      BY <1>11, NoneAssumption DEF SetOffline
    <2>7. \A b \in Conns : cpc'[b] \in {"idle", "ack"} =>
                              cpc'[b] = cpc[b] /\ target'[b] = target[b]
      BY <1>11 DEF SetOffline, TypeOK
    <2>8. atAgent' \cap pending'[StateGen'] \subseteq pending[StateGen]
      BY <1>11, <2>1, StateGenType DEF SetOffline, TypeOK
    <2>9. atAgent' = atAgent /\ bpc' = bpc
      BY <1>11 DEF SetOffline
    <2> QED
      BY <2>3, <2>4, <2>5, <2>6, <2>7, <2>8, <2>9, QuietFresh
  <1>12. ASSUME NEW d \in Calls, LookupConnection(d)
        PROVE  FreshAckInv'
    <2>1. StateGen' = StateGen
      BY <1>12, StateGenStable DEF LookupConnection
    <2>2. \A b \in Conns : Queued(b)' = Queued(b)
      BY <1>12 DEF LookupConnection, Queued
    <2> QED
      BY <1>12, <2>1, <2>2, QuietFresh, StateGenType
      DEF LookupConnection, TypeOK, Unsent
  <1>13. ASSUME NEW d \in Calls, LookupState(d)
        PROVE  FreshAckInv'
    <2>1. StateGen' = StateGen
      BY <1>13, StateGenStable DEF LookupState
    <2>2. \A b \in Conns : Queued(b)' = Queued(b)
      BY <1>13 DEF LookupState, Queued
    <2> QED
      BY <1>13, <2>1, <2>2, QuietFresh, StateGenType
      DEF LookupState, TypeOK, Unsent
  <1>14. ASSUME NEW d \in Calls, RegisterPending(d)
        PROVE  FreshAckInv'
    <2>1. StateGen' = StateGen
      BY <1>14, StateGenStable DEF RegisterPending
    <2>2. \A b \in Conns : Queued(b)' = Queued(b)
      BY <1>14 DEF RegisterPending, Queued
    <2>3. d \notin atAgent /\ atAgent' = atAgent
      BY <1>14 DEF RegisterPending, FreshAckInv, UnsentIsUnknown
    <2>4. atAgent \cap pending'[StateGen] \subseteq pending[StateGen]
      <3>1. \/ pending' = pending
            \/ pending' = [pending EXCEPT ![bgen[d]] = pending[bgen[d]] \cup {d}]
        BY <1>14, RegisterPendingCases
      <3>2. pending'[StateGen] \subseteq pending[StateGen] \cup {d}
        BY <3>1, StateGenType DEF TypeOK
      <3> QED
        BY <2>3, <3>2
    <2>5. \A e \in Calls : bpc'[e] \in Unsent => bpc[e] \in Unsent
      BY <1>14, RegisterPendingCases DEF TypeOK, Unsent, RegisterPending
    <2> QED
      BY <1>14, <2>1, <2>2, <2>3, <2>4, <2>5, QuietFresh DEF RegisterPending
  <1>15. ASSUME NEW d \in Calls, ReceiveMessage(d)
        PROVE  FreshAckInv'
    <2>1. StateGen' = StateGen
      BY <1>15, StateGenStable DEF ReceiveMessage
    <2>2. \A b \in Conns : Queued(b)' = Queued(b)
      BY <1>15 DEF ReceiveMessage, Queued
    <2> QED
      BY <1>15, <2>1, <2>2, QuietFresh, StateGenType
      DEF ReceiveMessage, TypeOK, Unsent
  <1>16. ASSUME NEW d \in Calls, ReceiveClosed(d)
        PROVE  FreshAckInv'
    <2>1. StateGen' = StateGen
      BY <1>16, StateGenStable DEF ReceiveClosed
    <2>2. \A b \in Conns : Queued(b)' = Queued(b)
      BY <1>16 DEF ReceiveClosed, Queued
    <2> QED
      BY <1>16, <2>1, <2>2, QuietFresh, StateGenType
      DEF ReceiveClosed, TypeOK, Unsent
  <1>17. ASSUME NEW d \in Calls, FinalMessage(d)
        PROVE  FreshAckInv'
    <2>1. StateGen' = StateGen
      BY <1>17, StateGenStable DEF FinalMessage
    <2>2. \A b \in Conns : Queued(b)' = Queued(b)
      BY <1>17 DEF FinalMessage, Queued
    <2> QED
      BY <1>17, <2>1, <2>2, QuietFresh, StateGenType
      DEF FinalMessage, TypeOK, Unsent
  <1>18. ASSUME NEW d \in Calls, FinalTimeout(d)
        PROVE  FreshAckInv'
    <2>1. StateGen' = StateGen
      BY <1>18, StateGenStable DEF FinalTimeout
    <2>2. \A b \in Conns : Queued(b)' = Queued(b)
      BY <1>18 DEF FinalTimeout, Queued
    <2> QED
      BY <1>18, <2>1, <2>2, QuietFresh, StateGenType
      DEF FinalTimeout, TypeOK, Unsent
  <1>19. ASSUME NEW d \in Calls, UnregisterPending(d)
        PROVE  FreshAckInv'
    <2>1. StateGen' = StateGen
      BY <1>19, StateGenStable DEF UnregisterPending
    <2>2. \A b \in Conns : Queued(b)' = Queued(b)
      BY <1>19 DEF UnregisterPending, Queued
    <2> QED
      BY <1>19, <2>1, <2>2, QuietFresh, StateGenType
      DEF UnregisterPending, TypeOK, Unsent
  <1>20. ASSUME NEW d \in Calls, CancelContext(d)
        PROVE  FreshAckInv'
    <2>1. StateGen' = StateGen
      BY <1>20, StateGenStable DEF CancelContext
    <2>2. \A b \in Conns : Queued(b)' = Queued(b)
      BY <1>20 DEF CancelContext, Queued
    <2> QED
      BY <1>20, <2>1, <2>2, QuietFresh, StateGenType
      DEF CancelContext, TypeOK, Unsent
  <1>21. ASSUME NEW d \in Calls, CloseChannel(d)
        PROVE  FreshAckInv'
    <2>1. StateGen' = StateGen
      BY <1>21, StateGenStable DEF CloseChannel
    <2>2. \A b \in Conns : Queued(b)' = Queued(b)
      BY <1>21 DEF CloseChannel, Queued
    <2> QED
      BY <1>21, <2>1, <2>2, QuietFresh, StateGenType
      DEF CloseChannel, TypeOK, Unsent
  <1>22. ASSUME NEW g \in Gens, TimerFires(g)
        PROVE  FreshAckInv'
    <2>1. StateGen' = StateGen
      BY <1>22, StateGenStable DEF TimerFires
    <2>2. \A b \in Conns : Queued(b)' = Queued(b)
      BY <1>22 DEF TimerFires, Queued
    <2> QED
      BY <1>22, <2>1, <2>2, QuietFresh, StateGenType
      DEF TimerFires, TypeOK, Unsent
  <1>23. ASSUME NEW g \in Gens, TimerExpires(g)
        PROVE  FreshAckInv'
    <2>1. StateGen' = StateGen
      BY <1>23, StateGenStable DEF TimerExpires
    <2>2. \A b \in Conns : Queued(b)' = Queued(b)
      BY <1>23 DEF TimerExpires, Queued
    <2> QED
      BY <1>23, <2>1, <2>2, QuietFresh, StateGenType
      DEF TimerExpires, Expire, TypeOK, Unsent
  <1>24. ASSUME RevokeRecord
        PROVE  FreshAckInv'
    <2>1. StateGen' = StateGen
      BY <1>24, StateGenStable DEF RevokeRecord
    <2>2. \A b \in Conns : Queued(b)' = Queued(b)
      BY <1>24 DEF RevokeRecord, Queued
    <2> QED
      BY <1>24, <2>1, <2>2, QuietFresh, StateGenType
      DEF RevokeRecord, TypeOK, Unsent
  <1>25. ASSUME RevokeClose
        PROVE  FreshAckInv'
    <2>1. StateGen' = StateGen
      BY <1>25, StateGenStable DEF RevokeClose
    <2>2. Close(rconn) /\ rconn \in Conns \cup {None}
      BY <1>25 DEF RevokeClose, TypeOK
    <2>3. \A b \in Conns : \A e \in Queued(b)' : e \in Queued(b)
      BY <2>2, CloseQueued
    <2>4. \A b \in Conns : ~closed'[b] => ~closed[b]
      BY <2>2, CloseQueued
    <2>5. \A b \in Conns : ~closed'[b] /\ ~acked'[b] => ~acked[b]
      BY <1>25, <2>2, CloseQueued, NoneAssumption DEF RevokeClose, TypeOK
    <2>6. \A b \in Conns : agentConn' = b => agentConn = b
      BY <1>25, NoneAssumption DEF RevokeClose
    <2>7. \A b \in Conns : cpc'[b] \in {"idle", "ack"} =>
                              cpc'[b] = cpc[b] /\ target'[b] = target[b]
      BY <1>25 DEF RevokeClose, TypeOK
    <2>8. atAgent' \cap pending'[StateGen'] \subseteq pending[StateGen]
      BY <1>25, <2>1, StateGenType DEF RevokeClose, Expire, TypeOK
    <2>9. atAgent' = atAgent /\ bpc' = bpc
      BY <1>25 DEF RevokeClose
    <2> QED
      BY <2>3, <2>4, <2>5, <2>6, <2>7, <2>8, <2>9, QuietFresh
  <1>26. ASSUME ShutdownBegin
        PROVE  FreshAckInv'
    <2>1. StateGen' = StateGen
      BY <1>26, StateGenStable DEF ShutdownBegin
    <2>2. Message("close", None) \in Envelopes /\ Message("close", None).type = "close"
      BY DEF Message, Envelopes
    <2>3. \A b \in Conns : \A e \in Queued(b)' : e \in Queued(b) \/ e.type = "close"
      BY <1>26, <2>2, TrySendQueued DEF ShutdownBegin, TypeOK
    <2> QED
      BY <1>26, <2>1, <2>3, QuietFresh DEF ShutdownBegin, TypeOK, Unsent
  <1>26a. ASSUME ShutdownClose
        PROVE  FreshAckInv'
    <2>1. StateGen' = StateGen
      BY <1>26a, StateGenStable DEF ShutdownClose
    <2>2. Close(sconn) /\ sconn \in Conns \cup {None}
      BY <1>26a DEF ShutdownClose, TypeOK
    <2>3. \A b \in Conns : \A e \in Queued(b)' : e \in Queued(b)
      BY <2>2, CloseQueued
    <2>4. \A b \in Conns : ~closed'[b] => ~closed[b]
      BY <2>2, CloseQueued
    <2>5. \A b \in Conns : ~closed'[b] /\ ~acked'[b] => ~acked[b]
      BY <1>26a, <2>2, CloseQueued, NoneAssumption DEF ShutdownClose, TypeOK
    <2>6. \A b \in Conns : agentConn' = b => agentConn = b
      BY <1>26a, NoneAssumption DEF ShutdownClose
    <2>7. \A b \in Conns : cpc'[b] \in {"idle", "ack"} =>
                              cpc'[b] = cpc[b] /\ target'[b] = target[b]
      BY <1>26a DEF ShutdownClose, TypeOK
    <2>8. atAgent' \cap pending'[StateGen'] \subseteq pending[StateGen]
      BY <1>26a, <2>1, StateGenType DEF ShutdownClose, TypeOK
    <2>9. atAgent' = atAgent /\ bpc' = bpc
      BY <1>26a DEF ShutdownClose
    <2> QED
      BY <2>3, <2>4, <2>5, <2>6, <2>7, <2>8, <2>9, QuietFresh
  <1>27. ASSUME ShutdownReturn
        PROVE  FreshAckInv'
    <2>1. StateGen' = StateGen
      BY <1>27, StateGenStable DEF ShutdownReturn
    <2>2. \A b \in Conns : Queued(b)' = Queued(b)
      BY <1>27 DEF ShutdownReturn, Queued
    <2> QED
      BY <1>27, <2>1, <2>2, QuietFresh, StateGenType
      DEF ShutdownReturn, TypeOK, Unsent
  <1>28. ASSUME AgentLeaves
        PROVE  FreshAckInv'
    <2>1. StateGen' = StateGen
      BY <1>28, StateGenStable DEF AgentLeaves
    <2>2. \A b \in Conns : Queued(b)' = Queued(b)
      BY <1>28 DEF AgentLeaves, Queued
    <2> QED
      BY <1>28, <2>1, <2>2, QuietFresh, StateGenType, NoneAssumption
      DEF AgentLeaves, TypeOK, Unsent
  <1>29. ASSUME NEW d \in Calls, SendCancel(d)
        PROVE  FreshAckInv'
    <2>1. StateGen' = StateGen
      BY <1>29, StateGenStable DEF SendCancel
    <2>2. Message("cancel", d) \in Envelopes /\ Message("cancel", d).type = "cancel"
      BY DEF Message, Envelopes
    <2>3. \A b \in Conns : \A e \in Queued(b)' :
            e \in Queued(b) \/ e.type \in {"cancel", "close"}
      BY <1>29, <2>2, TrySendQueued DEF SendCancel, TypeOK
    <2> QED
      BY <1>29, <2>1, <2>3, QuietFresh DEF SendCancel, TypeOK, Unsent
  <1>30. ASSUME RevokeTake
        PROVE  FreshAckInv'
    <2>1. StateGen' = 2 /\ pending[2] = {}
      BY <1>30 DEF RevokeTake, StateGen, GenerationOrder, Replaced
    <2> DEFINE m == Message("close", None)
    <2>2. m \in Envelopes /\ m.type = "close" /\ TrySend(online, m)
      BY <1>30 DEF Message, Envelopes, RevokeTake
    <2>0. online \in Conns \cup {None}
      BY DEF TypeOK
    <2> HIDE DEF m
    <2>3. \A b \in Conns : \A e \in Queued(b)' :
            e \in Queued(b) \/ e.type \in {"cancel", "close"}
      BY <2>2, <2>0, TrySendQueued
    <2>4. pending' = pending
      BY <1>30 DEF RevokeTake
    <2> QED
      BY <1>30, <2>1, <2>3, <2>4, QuietFresh DEF RevokeTake, TypeOK, Unsent
  <1>31. ASSUME NEW c \in Conns, Connect(c)
        PROVE  FreshAckInv'
    <2>1. \A b \in Conns : Queued(b)' = Queued(b)
      BY <1>31 DEF Connect, Queued
    <2>2. AckAfterDial'
      BY <1>31, <2>1 DEF Connect, TypeOK, FreshAckInv, AckAfterDial
    <2>3. UnsentIsUnknown'
      BY <1>31, <2>1 DEF Connect, FreshAckInv, UnsentIsUnknown
    <2>4. \A b \in Conns : ~FreshAckDue(b)'
      BY <1>31, <2>1 DEF Connect, TypeOK, FreshAckInv, AckAfterDial, FreshAckDue
    <2> QED
      BY <2>2, <2>3, <2>4 DEF FreshAckInv, FreshHoldsNothing
  <1>32. ASSUME NEW c \in Conns, Resume(c)
        PROVE  FreshAckInv'
    <2>1. \A b \in Conns : Queued(b)' = Queued(b)
      BY <1>32 DEF Resume, Queued
    <2>2. StateGen' = StateGen
      BY <1>32, StateGenStable DEF Resume
    <2>3. AckAfterDial'
      BY <1>32, <2>1 DEF Resume, TypeOK, FreshAckInv, AckAfterDial
    <2>4. UnsentIsUnknown'
      BY <1>32, <2>1 DEF Resume, FreshAckInv, UnsentIsUnknown
    <2>5. ASSUME NEW b \in Conns, FreshAckDue(b)'
          PROVE  FreshAckDue(b) \/ pending[StateGen] = {}
      BY <1>32, <2>1, <2>5
      DEF Resume, TypeOK, FreshAckDue, HoldsWork, Message
    <2>6. pending' = pending /\ atAgent' = atAgent
      BY <1>32 DEF Resume
    <2> QED
      BY <2>2, <2>3, <2>4, <2>5, <2>6 DEF FreshAckInv, FreshHoldsNothing
  <1>33. ASSUME NEW c \in Conns, SendAck(c)
        PROVE  FreshAckInv'
    <2>1. target[c] \in Envelopes /\ target[c].type \in {"ackResume", "ackFresh"}
      BY <1>33 DEF SendAck, TypeOK, TargetOK, Targets, Envelopes, Progress,
        Terminal
    <2>2. \A b \in Conns : \A e \in Queued(b)' :
            e \in Queued(b) \/ (b = c /\ e = target[c])
      BY <1>33, <2>1, TrySendQueued DEF SendAck
    <2>3. StateGen' = StateGen
      BY <1>33, StateGenStable DEF SendAck
    <2>4. AckAfterDial'
      BY <1>33, <2>2 DEF SendAck, TypeOK, FreshAckInv, AckAfterDial
    <2>5. UnsentIsUnknown'
      BY <1>33, <2>1, <2>2 DEF SendAck, FreshAckInv, UnsentIsUnknown
    <2>6. \A b \in Conns : FreshAckDue(b)' => FreshAckDue(b)
      BY <1>33, <2>2 DEF SendAck, TypeOK, FreshAckDue
    <2> QED
      BY <1>33, <2>3, <2>4, <2>5, <2>6
      DEF SendAck, FreshAckInv, FreshHoldsNothing
  <1>34. ASSUME NEW d \in Calls, SendDispatch(d)
        PROVE  FreshAckInv'
    <2> DEFINE m == Message("dispatch", d)
    <2>1. m \in Envelopes /\ m.type = "dispatch" /\ m.call = d
      BY DEF Message, Envelopes
    <2>2. \A b \in Conns : \A e \in Queued(b)' : e \in Queued(b) \/ e = m
      BY <1>34, <2>1, TrySendQueued DEF SendDispatch, TypeOK
    <2>3. StateGen' = StateGen
      BY <1>34, StateGenStable DEF SendDispatch
    <2> HIDE DEF m
    <2>4. AckAfterDial'
      BY <1>34, <2>1, <2>2 DEF SendDispatch, FreshAckInv, AckAfterDial
    <2>5. UnsentIsUnknown'
      BY <1>34, <2>1, <2>2 DEF SendDispatch, TypeOK, FreshAckInv, UnsentIsUnknown
    <2>6. \A b \in Conns : FreshAckDue(b)' => FreshAckDue(b)
      BY <1>34, <2>1, <2>2 DEF SendDispatch, FreshAckDue
    <2> QED
      BY <1>34, <2>3, <2>4, <2>5, <2>6
      DEF SendDispatch, FreshAckInv, FreshHoldsNothing
  <1>35. ASSUME NEW c \in Conns, Write(c)
        PROVE  FreshAckInv'
    <2> DEFINE m == Head(sendq[c])
    <2>1. /\ m \in Queued(c)
          /\ \A b \in Conns : Queued(b)' \subseteq Queued(b)
      BY <1>35, WriteQueued
    <2>2. StateGen' = StateGen
      BY <1>35, StateGenStable DEF Write
    <2>3. /\ atAgent' \subseteq atAgent \cup {m.call}
          /\ atAgent' # atAgent =>
               agentConn' = c /\ acked'[c] /\ m.type = "dispatch"
      BY <1>35 DEF Write
    <2>4. \A b \in Conns : /\ agentConn' = b => agentConn = b
                           /\ ~acked'[b] => ~acked[b]
      BY <1>35, NoneAssumption DEF Write, TypeOK
    <2> HIDE DEF m
    <2>5. AckAfterDial'
      BY <1>35, <2>1 DEF Write, FreshAckInv, AckAfterDial
    <2>6. UnsentIsUnknown'
      BY <1>35, <2>1, <2>3 DEF Write, FreshAckInv, UnsentIsUnknown
    <2>7. UNCHANGED <<cpc, target, closed, pending>>
      BY <1>35 DEF Write
    <2>8. \A b \in Conns : FreshAckDue(b)' => FreshAckDue(b) /\ atAgent' = atAgent
      <3> SUFFICES ASSUME NEW b \in Conns, FreshAckDue(b)'
                   PROVE  FreshAckDue(b) /\ atAgent' = atAgent
        OBVIOUS
      <3>1. agentConn' = b /\ ~acked'[b]
        BY DEF FreshAckDue
      <3>2. atAgent' = atAgent
        BY <2>3, <3>1
      <3>3. agentConn = b /\ ~closed[b] /\ ~acked[b]
        BY <2>4, <2>7, <3>1 DEF FreshAckDue
      <3>4. CASE cpc'[b] = "ack" /\ target'[b].type = "ackFresh"
        BY <2>7, <3>2, <3>3, <3>4 DEF FreshAckDue
      <3>5. CASE \E e \in Queued(b)' : e.type = "ackFresh"
        BY <2>1, <3>2, <3>3, <3>5 DEF FreshAckDue
      <3> QED
        BY <3>4, <3>5 DEF FreshAckDue
    <2> QED
      BY <2>2, <2>5, <2>6, <2>7, <2>8 DEF FreshAckInv, FreshHoldsNothing
  <1>36. CASE Quiescent \/ UNCHANGED vars
    <2>1. UNCHANGED vars
      BY <1>36 DEF Quiescent
    <2> QED
      BY <2>1 DEF vars, FreshAckInv, AckAfterDial, UnsentIsUnknown,
        FreshHoldsNothing, FreshAckDue, Queued, StateGen
  <1> QED
    BY <1>4a, <1>26a, <1>1, <1>2, <1>3, <1>4, <1>5, <1>6, <1>7, <1>8, <1>9, <1>10, <1>11, <1>12, <1>13, <1>14, <1>15, <1>16, <1>17, <1>18, <1>19, <1>20, <1>21, <1>22, <1>23, <1>24, <1>25, <1>26, <1>27, <1>28, <1>29, <1>30, <1>31, <1>32, <1>33, <1>34, <1>35, <1>36
    DEF Next, ConnStep, CallStep, RevokeStep, ShutdownStep

\* The generations are ordered, which the revocation case needs.
LEMMA GenerationsOrdered == Spec => []GenerationOrder
  <1>1. RegistrationInv => GenerationOrder
    BY DEF RegistrationInv
  <1> QED
    BY <1>1, RegistrationInvariant, PTL

\* resume:false makes the agent cancel all it is doing: whenever such a
\* hello_ack is about to reach it, the server waits for none of the calls the
\* agent holds.  For every number of connections and calls, and across a
\* revocation, which the model checker's instances of this property leave out.
THEOREM FreshAckOrphansNothingHolds == Spec => []FreshAckOrphansNothing
  <1>1. Init => TypeOK /\ TargetOK /\ FreshAckInv
    <2> SUFFICES ASSUME Init PROVE TypeOK /\ TargetOK /\ FreshAckInv
      OBVIOUS
    <2>1. TypeOK /\ TargetOK
      BY InitType DEF Init, TargetOK
    <2>2. \A c \in Conns : Queued(c) = {}
      BY DEF Init, Queued
    <2> QED
      BY <2>1, <2>2
      DEF Init, FreshAckInv, AckAfterDial, UnsentIsUnknown, FreshHoldsNothing,
        FreshAckDue
  <1>2. TypeOK /\ TargetOK /\ GenerationOrder /\ FreshAckInv /\ [Next]_vars
          => (TypeOK /\ TargetOK /\ FreshAckInv)'
    BY NextType, NextTarget, NextFresh
  <1>3. TypeOK /\ FreshAckInv => FreshAckOrphansNothing
    <2> SUFFICES ASSUME TypeOK, FreshAckInv, NEW c \in Conns,
                        agentConn = c, ~closed[c], ~acked[c], cur # 0,
                        sendq[c] # <<>>, Head(sendq[c]).type = "ackFresh"
                 PROVE  atAgent \cap pending[cur] = {}
      BY DEF FreshAckOrphansNothing
    <2>1. Head(sendq[c]) = sendq[c][1] /\ 1 \in DOMAIN sendq[c]
      <3>1. sendq[c] \in Seq(Envelopes)
        BY DEF TypeOK
      <3> QED
        BY <3>1
    <2>2. Head(sendq[c]) \in Queued(c)
      BY <2>1 DEF Queued
    <2>3. FreshAckDue(c)
      BY <2>2 DEF FreshAckDue
    <2>4. StateGen = cur
      BY DEF StateGen
    <2> QED
      BY <2>3, <2>4 DEF FreshAckInv, FreshHoldsNothing
  <1> QED
    BY <1>1, <1>2, <1>3, GenerationsOrdered, PTL DEF Spec

\* registerOnline replaces under the lock and closes after it, and still forgets
\* no connection: a registered one that has not begun its teardown is the active
\* one, has been told to close, or is held by a successor that is about to close
\* it, for chains of replacements of any length.
THEOREM ReplacedIsClosedHolds == Spec => []ReplacedIsClosed
  BY ConnectionSafety, PTL

\* The Hub never hands a dispatch a connection whose teardown is past
\* unregisterOnline, or that never authenticated.
THEOREM OnlineIsRunningHolds == Spec => []OnlineIsRunning
  BY ConnectionSafety, PTL
=============================================================================
