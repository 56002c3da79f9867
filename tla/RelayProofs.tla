---------------------------- MODULE RelayProofs ----------------------------
(***************************************************************************)
(* Proofs about Relay for every set of replicas and calls, wherever a call *)
(* is made, every channel capacity, TTL and number of connections and      *)
(* crashes: the types, and that relayed dispatch implements the contract   *)
(* of a local one.                                                         *)
(***************************************************************************)
EXTENDS Relay, FiniteSetTheorems, TLAPS

\* The request of call c waits at position i of replica r's subscription.
RequestAt(c, r, i) == requests[r][i] = Request(c)

\* Replica r has the call, or is about to get it.
Holds(c, r) == local[c][r] # "none" \/ \E i \in DOMAIN requests[r] : RequestAt(c, r, i)

\* A call that has not been published or started locally is nowhere; once it is,
\* it is at one replica, either as one request or as one goroutine.
SoleHolder ==
  \A c \in Calls :
    /\ \A r, s \in Replicas : Holds(c, r) /\ Holds(c, s) => r = s
    /\ \A r \in Replicas : Holds(c, r) => pc[c] \notin {"idle", "publish"}
    /\ \A r \in Replicas : \A i, j \in DOMAIN requests[r] :
         RequestAt(c, r, i) => /\ local[c][r] = "none"
                               /\ RequestAt(c, r, j) => i = j

\* The agent works only on what a local dispatch has sent it.
WorkWasSent ==
  \A c \in Calls, r \in Replicas :
    run[c][r] # "no" => local[c][r] \in {"waiting", "result", "error", "done"}

\* A result is the result of finished work, wherever it is on its way.
ResultIsFinished ==
  \A c \in Calls :
    /\ \A r \in Replicas : local[c][r] = "result" => run[c][r] = "finished"
    /\ \A i \in DOMAIN replies[c] :
         replies[c][i] = "result" => \E r \in Replicas : run[c][r] = "finished"

\* A call that waits for an owner knows whom it asked.
AskedSomeone ==
  \A c \in Calls : pc[c] \in {"publish", "waiting", "final"} => asked[c] \in Replicas

\* Two callbacks that run at once are two members of the set: a replica that
\* starts one finds its number free.
CallbacksDistinct ==
  /\ \A b \in callbacks :
       b.no <= connects /\ (~b.online /\ b.replica \in hub => b.no < connects)
  /\ \A a, b \in callbacks :
       a.replica = b.replica /\ a.online = b.online /\ a.no = b.no => a = b

Inv ==
  TypeOK /\ SoleHolder /\ WorkWasSent /\ ResultIsFinished /\ AskedSomeone
         /\ CallbacksDistinct

-----------------------------------------------------------------------------
\* Channels

\* What a publish leaves in a channel has its type and its capacity, and is the
\* old content, with the message at the end at most.
LEMMA PublishedFact ==
  ASSUME NEW S, NEW q \in Seq(S), Len(q) <= Cap, NEW m \in S,
         NEW p \in Published(q, m)
  PROVE  /\ p \in Seq(S) /\ Len(p) <= Cap
         /\ p = q \/ p = Append(q, m)
  BY CapAssumption DEF Published

\* Receiving the first message of a channel.
LEMMA TailFact ==
  ASSUME NEW S, NEW q \in Seq(S), q # <<>>
  PROVE  /\ Head(q) = q[1] /\ 1 \in DOMAIN q /\ Head(q) \in S
         /\ Tail(q) \in Seq(S) /\ Len(Tail(q)) < Len(q)
         /\ \A i \in DOMAIN Tail(q) : i + 1 \in DOMAIN q /\ i + 1 # 1
                                      /\ Tail(q)[i] = q[i + 1]
  OBVIOUS

\* Sending to a channel.
LEMMA AppendFact ==
  ASSUME NEW S, NEW q \in Seq(S), NEW m \in S
  PROVE  \A i \in DOMAIN Append(q, m) :
           \/ i = Len(q) + 1 /\ Append(q, m)[i] = m
           \/ i \in DOMAIN q /\ Append(q, m)[i] = q[i]
  OBVIOUS

-----------------------------------------------------------------------------
\* Types

\* A cluster that has just started.
LEMMA InitType == Init => TypeOK
  <1> SUFFICES ASSUME Init PROVE TypeOK
    OBVIOUS
  <1>1. <<>> \in Seq(Requests) /\ <<>> \in Seq(Replies) /\ Len(<<>>) = 0
    OBVIOUS
  <1> QED
    BY <1>1, NoneAssumption, TTLAssumption, CapAssumption, BoundsAssumption
    DEF Init, TypeOK, TypeDevice, TypeCall, TypeServe, CallPCs, LocalPCs

\* The steps of a call and of a replica that serves it leave the device, the
\* location record and the presence callbacks alone.
LEMMA CallsLeaveDevice ==
  ASSUME \/ \E r \in Replicas : HandleIncoming(r)
         \/ \E c \in Calls : Dispatch(c) \/ CallStep(c) \/ ReceiveReply(c)
              \/ FinalReply(c) \/ RelayFails(c) \/ CancelContext(c)
         \/ \E c \in Calls, r \in Replicas :
              ServeStep(c, r) \/ AgentStarts(c, r) \/ AgentFinishes(c, r)
              \/ RelayProgress(c, r)
  PROVE  UNCHANGED <<deviceVars, recordVars>>
  <1> USE DEF deviceVars, recordVars
  <1>1. ASSUME NEW r \in Replicas, HandleIncoming(r)
        PROVE  UNCHANGED <<deviceVars, recordVars>>
    BY <1>1 DEF HandleIncoming
  <1>2. ASSUME NEW c \in Calls, Dispatch(c) \/ CallStep(c) \/ ReceiveReply(c)
              \/ FinalReply(c) \/ RelayFails(c) \/ CancelContext(c)
        PROVE  UNCHANGED <<deviceVars, recordVars>>
    BY <1>2 DEF CallStep, Dispatch, PublishRequest, FirstMessageTimeout,
      CancelRemote, FinalTimeout, LocalReturns, ReceiveReply, FinalReply,
      RelayFails, CancelContext
  <1>3. ASSUME NEW c \in Calls, NEW r \in Replicas,
               ServeStep(c, r) \/ AgentStarts(c, r) \/ AgentFinishes(c, r)
               \/ RelayProgress(c, r)
        PROVE  UNCHANGED <<deviceVars, recordVars>>
    BY <1>3 DEF ServeStep, RegisterRelayed, LocalStart, LocalResult, LocalError,
      PublishOutcome, AgentStarts, AgentFinishes, RelayProgress
  <1> QED
    BY <1>1, <1>2, <1>3

\* No step breaks the types of the device, the record and the callbacks.
LEMMA DeviceType == TypeOK /\ [Next]_vars => TypeDevice'
  <1> SUFFICES ASSUME TypeDevice, [Next]_vars PROVE TypeDevice'
    BY DEF TypeOK
  <1> USE NoneAssumption, TTLAssumption, BoundsAssumption
      DEF TypeDevice, deviceVars, recordVars
  <1>1. ASSUME NEW r \in Replicas, Register(r)
        PROVE  TypeDevice'
    <2> DEFINE b == [replica |-> r, online |-> TRUE, no |-> connects + 1,
                     step |-> "start"]
    <2>1. connects' = connects + 1 /\ connects + 1 \in 0..MaxConnects
      BY <1>1 DEF Register
    <2>2. b \in [replica : Replicas, online : BOOLEAN, no : 0..MaxConnects,
                 step : {"start", "del"}]
      BY <2>1
    <2>3. callbacks' = callbacks \cup {b}
      BY <1>1 DEF Register, Notify
    <2> HIDE DEF b
    <2> QED
      BY <1>1, <2>1, <2>2, <2>3 DEF Register
  <1>2. ASSUME NEW r \in Replicas, Unregister(r)
        PROVE  TypeDevice'
    <2> DEFINE b == [replica |-> r, online |-> FALSE, no |-> connects,
                     step |-> "start"]
    <2>1. b \in [replica : Replicas, online : BOOLEAN, no : 0..MaxConnects,
                 step : {"start", "del"}]
      OBVIOUS
    <2>2. callbacks' = callbacks \cup {b}
      BY <1>2 DEF Unregister, Notify
    <2> HIDE DEF b
    <2> QED
      BY <1>2, <2>1, <2>2 DEF Unregister
  <1>3. ASSUME NEW r \in Replicas, Heartbeat(r) \/ Restart(r)
        PROVE  TypeDevice'
    BY <1>3 DEF Heartbeat, Restart
  <1>4. ASSUME NEW r \in Replicas, Crash(r)
        PROVE  TypeDevice'
    BY <1>4 DEF Crash
  <1>5. ASSUME NEW b \in callbacks, MarkOnline(b) \/ MarkOfflineDel(b)
        PROVE  TypeDevice'
    BY <1>5 DEF MarkOnline, MarkOfflineDel
  <1>6. ASSUME NEW b \in callbacks, MarkOfflineGet(b)
        PROVE  TypeDevice'
    BY <1>6 DEF MarkOfflineGet
  <1>7. CASE Tick
    BY <1>7 DEF Tick
  <1>8. CASE UNCHANGED <<deviceVars, recordVars>>
    BY <1>8
  <1> HIDE DEF TypeDevice
  <1> QED
    BY <1>1, <1>2, <1>3, <1>4, <1>5, <1>6, <1>7, <1>8, CallsLeaveDevice
    DEF Next, vars, CallbackStep

\* dispatchRemote and publishCancel: the owner's subscription stays within its
\* type and capacity, gets the message at its end or nothing at all.
LEMMA PublishToFact ==
  ASSUME TypeServe, NEW c \in Calls, asked[c] \in Replicas, NEW m \in Requests,
         PublishTo(c, m)
  PROVE  /\ requests' \in [Replicas -> Seq(Requests)]
         /\ \A r \in Replicas : Len(requests'[r]) <= Cap
         /\ \A r \in Replicas : \/ requests'[r] = requests[r]
                                \/ r = asked[c] /\ requests'[r] = Append(requests[r], m)
  <1>1. requests[asked[c]] \in Seq(Requests) /\ Len(requests[asked[c]]) <= Cap
    BY DEF TypeServe
  <1>2. PICK q : /\ q = requests[asked[c]] \/ q \in Published(requests[asked[c]], m)
                 /\ requests' = [requests EXCEPT ![asked[c]] = q]
    BY DEF PublishTo
  <1>3. /\ q \in Seq(Requests) /\ Len(q) <= Cap
        /\ q = requests[asked[c]] \/ q = Append(requests[asked[c]], m)
    BY <1>1, <1>2, PublishedFact
  <1> QED
    BY <1>2, <1>3 DEF TypeServe

\* A call that returns leaves the state of its caller well typed.
LEMMA ReturnType ==
  ASSUME TypeCall, NEW c \in Calls, NEW o \in Returned, Return(c, o)
  PROVE  TypeCall'
  <1>1. <<>> \in Seq(Replies) /\ Len(<<>>) = 0
    OBVIOUS
  <1>2. replies' \in [Calls -> Seq(Replies)] /\ \A d \in Calls : Len(replies'[d]) <= Cap
    BY <1>1, CapAssumption DEF Return, TypeCall
  <1> QED
    BY <1>2 DEF Return, TypeCall, Returned, CallPCs

\* What a relayed message means to the caller.
LEMMA OutcomeReturned == \A m : OutcomeOf(m) \in Returned
  BY DEF OutcomeOf, Returned

\* The steps that belong to the device alone.
DeviceStep ==
  \/ \E r \in Replicas : Register(r) \/ Unregister(r) \/ Heartbeat(r) \/ Restart(r)
  \/ CallbackStep
  \/ Tick

\* ... leave all calls and everybody who serves them alone.
LEMMA DeviceLeavesCalls == DeviceStep => UNCHANGED <<callVars, serveVars>>
  BY DEF DeviceStep, CallbackStep, Register, Unregister, Heartbeat, Restart,
    MarkOnline, MarkOfflineGet, MarkOfflineDel, Tick

\* No step breaks the types of the calls.
LEMMA CallType == TypeOK /\ [Next]_vars => TypeCall'
  <1> SUFFICES ASSUME TypeCall, TypeServe, TypeDevice, [Next]_vars PROVE TypeCall'
    BY DEF TypeOK
  <1> USE DEF callVars
  <1>1. ASSUME NEW c \in Calls, Dispatch(c)
        PROVE  TypeCall'
    <2>1. CASE Home[c] \in hub
      BY <1>1, <2>1 DEF Dispatch, TypeCall, CallPCs
    <2>2. CASE Home[c] \notin hub /\ owner \in {None, Home[c]}
      BY <1>1, <2>2, ReturnType DEF Dispatch, Returned
    <2>3. CASE Home[c] \notin hub /\ owner \notin {None, Home[c]}
      BY <1>1, <2>3 DEF Dispatch, TypeCall, CallPCs, TypeDevice
    <2> QED
      BY <2>1, <2>2, <2>3
  <1>2. ASSUME NEW c \in Calls, PublishRequest(c) \/ CancelRemote(c)
        PROVE  TypeCall'
    BY <1>2 DEF PublishRequest, CancelRemote, TypeCall, CallPCs
  <1>3. ASSUME NEW c \in Calls,
               FirstMessageTimeout(c) \/ FinalTimeout(c) \/ LocalReturns(c)
               \/ FinalReply(c) \/ RelayFails(c)
        PROVE  TypeCall'
    BY <1>3, ReturnType, OutcomeReturned DEF FirstMessageTimeout, FinalTimeout,
      LocalReturns, FinalReply, RelayFails, Returned
  <1>4. ASSUME NEW c \in Calls, ReceiveReply(c)
        PROVE  TypeCall'
    <2>1. CASE Head(replies[c]) \in Terminal
      BY <1>4, <2>1, ReturnType, OutcomeReturned DEF ReceiveReply
    <2>2. CASE Head(replies[c]) \notin Terminal
      <3>1. replies[c] \in Seq(Replies) /\ replies[c] # <<>> /\ Len(replies[c]) <= Cap
        BY <1>4 DEF TypeCall, ReceiveReply
      <3>2. Tail(replies[c]) \in Seq(Replies) /\ Len(Tail(replies[c])) <= Cap
        BY <3>1, TailFact, CapAssumption
      <3> QED
        BY <1>4, <2>2, <3>2 DEF ReceiveReply, TypeCall
    <2> QED
      BY <2>1, <2>2
  <1>5. ASSUME NEW c \in Calls, CancelContext(c)
        PROVE  TypeCall'
    BY <1>5 DEF CancelContext, TypeCall
  <1>6. ASSUME NEW c \in Calls, NEW r \in Replicas, RelayProgress(c, r)
        PROVE  TypeCall'
    <2>1. /\ Append(replies[c], "progress") \in Seq(Replies)
          /\ Len(Append(replies[c], "progress")) <= Cap
      BY <1>6, CapAssumption DEF RelayProgress, TypeCall, Replies
    <2> QED
      BY <1>6, <2>1 DEF RelayProgress, TypeCall
  <1>7. ASSUME NEW c \in Calls, NEW r \in Replicas, PublishOutcome(c, r)
        PROVE  TypeCall'
    <2>1. PICK q : /\ q = replies[c] \/ q \in Published(replies[c], local[c][r])
                   /\ replies' = [replies EXCEPT ![c] = q]
      BY <1>7 DEF PublishOutcome
    <2>2. local[c][r] \in Replies
      BY <1>7 DEF PublishOutcome, Terminal, Replies
    <2>3. q \in Seq(Replies) /\ Len(q) <= Cap
      BY <2>1, <2>2, PublishedFact DEF TypeCall
    <2> QED
      BY <1>7, <2>1, <2>3 DEF PublishOutcome, TypeCall
  <1>8. ASSUME NEW r \in Replicas, Crash(r)
        PROVE  TypeCall'
    <2>1. <<>> \in Seq(Replies) /\ Len(<<>>) = 0
      OBVIOUS
    <2> QED
      BY <1>8, <2>1, CapAssumption DEF Crash, TypeCall, CallPCs
  <1>9. CASE UNCHANGED callVars
    BY <1>9 DEF TypeCall
  <1>10. ASSUME NEW r \in Replicas, HandleIncoming(r)
         PROVE  UNCHANGED callVars
    BY <1>10 DEF HandleIncoming
  <1>11. ASSUME NEW c \in Calls, NEW r \in Replicas,
                RegisterRelayed(c, r) \/ LocalStart(c, r) \/ LocalResult(c, r)
                \/ LocalError(c, r) \/ AgentStarts(c, r) \/ AgentFinishes(c, r)
         PROVE  UNCHANGED callVars
    BY <1>11 DEF RegisterRelayed, LocalStart, LocalResult, LocalError, AgentStarts,
      AgentFinishes
  <1> HIDE DEF callVars
  <1> QED
    BY <1>1, <1>2, <1>3, <1>4, <1>5, <1>6, <1>7, <1>8, <1>9, <1>10, <1>11,
      DeviceLeavesCalls DEF Next, vars, CallStep, ServeStep, DeviceStep

\* Moving one local dispatch, and nothing else.
LEMMA LocalMove ==
  ASSUME TypeServe, NEW c \in Calls, NEW r \in Replicas, NEW v \in LocalPCs,
         local' = [local EXCEPT ![c][r] = v]
  PROVE  /\ local' \in [Calls -> [Replicas -> LocalPCs]]
         /\ \A d \in Calls, s \in Replicas :
              local'[d][s] = IF d = c /\ s = r THEN v ELSE local[d][s]
  BY DEF TypeServe

\* Moving the agent's work on one call of one replica, and nothing else.
LEMMA RunMove ==
  ASSUME TypeServe, NEW c \in Calls, NEW r \in Replicas,
         NEW v \in {"no", "running", "finished"}, run' = [run EXCEPT ![c][r] = v]
  PROVE  /\ run' \in [Calls -> [Replicas -> {"no", "running", "finished"}]]
         /\ \A d \in Calls, s \in Replicas :
              run'[d][s] = IF d = c /\ s = r THEN v ELSE run[d][s]
  BY DEF TypeServe

\* No step breaks the types of what the replicas serve.
LEMMA ServeType == TypeOK /\ AskedSomeone /\ [Next]_vars => TypeServe'
  <1> SUFFICES ASSUME TypeCall, TypeServe, TypeDevice, AskedSomeone, [Next]_vars
               PROVE  TypeServe'
    BY DEF TypeOK
  <1> USE DEF serveVars
  <1>1. ASSUME NEW r \in Replicas, HandleIncoming(r)
        PROVE  TypeServe'
    <2>1. requests[r] \in Seq(Requests) /\ requests[r] # <<>> /\ Len(requests[r]) <= Cap
      BY <1>1 DEF TypeServe, HandleIncoming
    <2> DEFINE m == Head(requests[r])
    <2>2. /\ Tail(requests[r]) \in Seq(Requests) /\ Len(Tail(requests[r])) <= Cap
          /\ m \in Requests
      BY <2>1, TailFact, CapAssumption
    <2>a. m.call \in Calls
      BY <2>2 DEF Requests
    <2>3. /\ requests' \in [Replicas -> Seq(Requests)]
          /\ \A s \in Replicas : Len(requests'[s]) <= Cap
      BY <1>1, <2>2 DEF HandleIncoming, TypeServe
    <2>4. local' \in [Calls -> [Replicas -> LocalPCs]]
      <3>1. local' = local \/ local' = [local EXCEPT ![m.call][r] = "spawned"]
        BY <1>1 DEF HandleIncoming
      <3>2. "spawned" \in LocalPCs
        BY DEF LocalPCs
      <3> QED
        BY <2>a, <3>1, <3>2, LocalMove DEF TypeServe
    <2>5. stopped' \subseteq Calls \X Replicas
      BY <1>1, <2>a DEF HandleIncoming, TypeServe
    <2> QED
      BY <1>1, <2>3, <2>4, <2>5 DEF HandleIncoming, TypeServe
  <1>2. ASSUME NEW c \in Calls, Dispatch(c)
        PROVE  TypeServe'
    <2>1. local' = local \/ local' = [local EXCEPT ![c][Home[c]] = "starting"]
      BY <1>2 DEF Dispatch
    <2>2. "starting" \in LocalPCs /\ Home[c] \in Replicas
      BY HomeAssumption DEF LocalPCs
    <2>3. local' \in [Calls -> [Replicas -> LocalPCs]]
      BY <2>1, <2>2, LocalMove DEF TypeServe
    <2> QED
      BY <1>2, <2>3 DEF Dispatch, TypeServe
  <1>3. ASSUME NEW c \in Calls,
               PublishRequest(c) \/ CancelRemote(c) \/ FirstMessageTimeout(c)
        PROVE  TypeServe'
    <2>1. asked[c] \in Replicas
      BY <1>3 DEF AskedSomeone, PublishRequest, CancelRemote, FirstMessageTimeout
    <2>2. Request(c) \in Requests /\ CancelOf(c) \in Requests
      BY DEF Request, CancelOf, Requests
    <2>3. /\ requests' \in [Replicas -> Seq(Requests)]
          /\ \A r \in Replicas : Len(requests'[r]) <= Cap
      BY <1>3, <2>1, <2>2, PublishToFact
      DEF PublishRequest, CancelRemote, FirstMessageTimeout
    <2> QED
      BY <1>3, <2>3 DEF PublishRequest, CancelRemote, FirstMessageTimeout, TypeServe
  <1>4. ASSUME NEW c \in Calls, LocalReturns(c)
        PROVE  TypeServe'
    BY <1>4, HomeAssumption DEF LocalReturns, TypeServe, LocalPCs
  <1>5. ASSUME NEW c \in Calls, NEW r \in Replicas,
               RegisterRelayed(c, r) \/ LocalStart(c, r) \/ LocalResult(c, r)
               \/ LocalError(c, r)
        PROVE  TypeServe'
    <2>1. \E v \in LocalPCs : local' = [local EXCEPT ![c][r] = v]
      BY <1>5 DEF RegisterRelayed, LocalStart, LocalResult, LocalError, LocalPCs
    <2>2. local' \in [Calls -> [Replicas -> LocalPCs]]
      BY <2>1, LocalMove
    <2> QED
      BY <1>5, <2>2
      DEF RegisterRelayed, LocalStart, LocalResult, LocalError, TypeServe
  <1>6. ASSUME NEW c \in Calls, NEW r \in Replicas, PublishOutcome(c, r)
        PROVE  TypeServe'
    BY <1>6 DEF PublishOutcome, TypeServe, LocalPCs
  <1>7. ASSUME NEW c \in Calls, NEW r \in Replicas,
               AgentStarts(c, r) \/ AgentFinishes(c, r)
        PROVE  TypeServe'
    <2>1. \E v \in {"no", "running", "finished"} : run' = [run EXCEPT ![c][r] = v]
      BY <1>7 DEF AgentStarts, AgentFinishes
    <2>2. run' \in [Calls -> [Replicas -> {"no", "running", "finished"}]]
      BY <2>1, RunMove
    <2> QED
      BY <1>7, <2>2 DEF AgentStarts, AgentFinishes, TypeServe
  <1>8. ASSUME NEW r \in Replicas, Crash(r)
        PROVE  TypeServe'
    <2>1. <<>> \in Seq(Requests) /\ Len(<<>>) = 0
      OBVIOUS
    <2>2. /\ requests' \in [Replicas -> Seq(Requests)]
          /\ \A s \in Replicas : Len(requests'[s]) <= Cap
      BY <1>8, <2>1, CapAssumption DEF Crash, TypeServe
    <2>3. local' \in [Calls -> [Replicas -> LocalPCs]]
      BY <1>8 DEF Crash, TypeServe, LocalPCs
    <2> QED
      BY <1>8, <2>2, <2>3 DEF Crash, TypeServe
  <1>9. CASE UNCHANGED serveVars
    BY <1>9 DEF TypeServe
  <1>10. ASSUME NEW c \in Calls,
                FinalTimeout(c) \/ ReceiveReply(c) \/ FinalReply(c) \/ RelayFails(c)
                \/ CancelContext(c)
         PROVE  UNCHANGED serveVars
    BY <1>10 DEF FinalTimeout, ReceiveReply, FinalReply, RelayFails, CancelContext
  <1>11. ASSUME NEW c \in Calls, NEW r \in Replicas, RelayProgress(c, r)
         PROVE  UNCHANGED serveVars
    BY <1>11 DEF RelayProgress
  <1> HIDE DEF serveVars
  <1> QED
    BY <1>1, <1>2, <1>3, <1>4, <1>5, <1>6, <1>7, <1>8, <1>9, <1>10, <1>11,
      DeviceLeavesCalls DEF Next, vars, CallStep, ServeStep, DeviceStep

-----------------------------------------------------------------------------
\* The parts of the invariant, one by one

\* A call waits only for an owner that its look-up returned.
LEMMA AskedStep == TypeOK /\ AskedSomeone /\ [Next]_vars => AskedSomeone'
  <1> SUFFICES ASSUME TypeCall, TypeDevice, AskedSomeone, [Next]_vars
               PROVE  AskedSomeone'
    BY DEF TypeOK
  <1> USE DEF callVars, TypeCall, AskedSomeone
  <1>1. ASSUME NEW c \in Calls, Dispatch(c)
        PROVE  AskedSomeone'
    BY <1>1 DEF Dispatch, Return, TypeDevice
  <1>2. ASSUME NEW c \in Calls, PublishRequest(c) \/ CancelRemote(c)
        PROVE  AskedSomeone'
    BY <1>2 DEF PublishRequest, CancelRemote
  <1>3. ASSUME NEW c \in Calls, NEW o \in Returned, Return(c, o)
        PROVE  AskedSomeone'
    BY <1>3 DEF Return, Returned
  <1>4. ASSUME NEW c \in Calls,
               FirstMessageTimeout(c) \/ FinalTimeout(c) \/ LocalReturns(c)
               \/ FinalReply(c) \/ RelayFails(c)
        PROVE  AskedSomeone'
    BY <1>3, <1>4, OutcomeReturned DEF FirstMessageTimeout, FinalTimeout,
      LocalReturns, FinalReply, RelayFails, Returned
  <1>5. ASSUME NEW c \in Calls, ReceiveReply(c)
        PROVE  AskedSomeone'
    BY <1>3, <1>5, OutcomeReturned DEF ReceiveReply
  <1>6. ASSUME NEW r \in Replicas, Crash(r)
        PROVE  AskedSomeone'
    BY <1>6 DEF Crash
  <1>7. ASSUME UNCHANGED <<pc, asked>>
        PROVE  AskedSomeone'
    BY <1>7
  <1>8. ASSUME NEW r \in Replicas, HandleIncoming(r)
        PROVE  UNCHANGED <<pc, asked>>
    BY <1>8 DEF HandleIncoming
  <1>9. ASSUME NEW c \in Calls, CancelContext(c)
        PROVE  UNCHANGED <<pc, asked>>
    BY <1>9 DEF CancelContext
  <1>10. ASSUME NEW c \in Calls, NEW r \in Replicas,
                ServeStep(c, r) \/ AgentStarts(c, r) \/ AgentFinishes(c, r)
                \/ RelayProgress(c, r)
         PROVE  UNCHANGED <<pc, asked>>
    BY <1>10 DEF ServeStep, RegisterRelayed, LocalStart, LocalResult, LocalError,
      PublishOutcome, AgentStarts, AgentFinishes, RelayProgress
  <1> HIDE DEF AskedSomeone
  <1> QED
    BY <1>1, <1>2, <1>4, <1>5, <1>6, <1>7, <1>8, <1>9, <1>10, DeviceLeavesCalls
    DEF Next, vars, CallStep, DeviceStep

\* Callbacks stay apart: notifyLocalPresence starts one that is not there yet.
LEMMA CallbacksStep ==
  TypeOK /\ CallbacksDistinct /\ [Next]_vars => CallbacksDistinct'
  <1> SUFFICES ASSUME TypeDevice, CallbacksDistinct, [Next]_vars
               PROVE  CallbacksDistinct'
    BY DEF TypeOK
  <1> USE BoundsAssumption DEF TypeDevice, CallbacksDistinct, deviceVars, recordVars
  <1>1. ASSUME NEW r \in Replicas, Register(r)
        PROVE  CallbacksDistinct'
    BY <1>1 DEF Register, Notify
  <1>2. ASSUME NEW r \in Replicas, Unregister(r)
        PROVE  CallbacksDistinct'
    BY <1>2 DEF Unregister, Notify
  <1>3. ASSUME NEW r \in Replicas, Heartbeat(r) \/ Restart(r) \/ Crash(r)
        PROVE  CallbacksDistinct'
    BY <1>3 DEF Heartbeat, Restart, Crash
  <1>4. ASSUME NEW b \in callbacks, MarkOnline(b) \/ MarkOfflineDel(b)
        PROVE  CallbacksDistinct'
    BY <1>4 DEF MarkOnline, MarkOfflineDel
  <1>5. ASSUME NEW b \in callbacks, MarkOfflineGet(b)
        PROVE  CallbacksDistinct'
    BY <1>5 DEF MarkOfflineGet
  <1>6. CASE Tick
    BY <1>6 DEF Tick
  <1>7. CASE UNCHANGED <<deviceVars, recordVars>>
    BY <1>7
  <1> HIDE DEF CallbacksDistinct
  <1> QED
    BY <1>1, <1>2, <1>3, <1>4, <1>5, <1>6, <1>7, CallsLeaveDevice
    DEF Next, vars, CallbackStep

\* A step that brings no call to a new place keeps every call where it is alone.
LEMMA NothingNew ==
  ASSUME SoleHolder,
         \A c \in Calls, r \in Replicas : local[c][r] = "none" => local'[c][r] = "none",
         \A c \in Calls, r \in Replicas : \A i \in DOMAIN requests'[r] :
           RequestAt(c, r, i)' => i \in DOMAIN requests[r] /\ RequestAt(c, r, i),
         \A c \in Calls : pc'[c] \in {"idle", "publish"} => pc[c] \in {"idle", "publish"}
  PROVE  SoleHolder'
  BY DEF SoleHolder, Holds, RequestAt

\* A call is published or started locally once, and moves from the request to
\* the goroutine that serves it.
LEMMA SoleHolderStep ==
  TypeOK /\ AskedSomeone /\ SoleHolder /\ [Next]_vars => SoleHolder'
  <1> SUFFICES ASSUME TypeCall, TypeServe, AskedSomeone, SoleHolder, [Next]_vars
               PROVE  SoleHolder'
    BY DEF TypeOK
  <1> USE DEF callVars, serveVars, RequestAt
  <1>1. ASSUME NEW c \in Calls, Dispatch(c)
        PROVE  SoleHolder'
    <2>0. Home[c] \in Replicas /\ \A r \in Replicas : ~Holds(c, r)
      BY <1>1, HomeAssumption DEF Dispatch, SoleHolder
    <2>1. \A d \in Calls : d # c => pc'[d] = pc[d]
      BY <1>1 DEF Dispatch, Return, TypeCall
    <2>2. CASE UNCHANGED local
      BY <1>1, <2>0, <2>1, <2>2, NothingNew DEF Dispatch
    <2>3. CASE local' = [local EXCEPT ![c][Home[c]] = "starting"] /\ pc'[c] = "local"
      <3>0. "starting" \in LocalPCs
        BY DEF LocalPCs
      <3>1. \A d \in Calls, r \in Replicas :
              local'[d][r] = IF d = c /\ r = Home[c] THEN "starting" ELSE local[d][r]
        BY <2>0, <2>3, <3>0, LocalMove
      <3>2. UNCHANGED requests
        BY <1>1 DEF Dispatch
      <3> QED
        BY <2>0, <2>1, <2>3, <3>1, <3>2 DEF SoleHolder, Holds
    <2> QED
      BY <1>1, <2>2, <2>3 DEF Dispatch, TypeCall
  <1>2. ASSUME NEW c \in Calls, PublishRequest(c)
        PROVE  SoleHolder'
    <2>0. \A r \in Replicas : ~Holds(c, r)
      BY <1>2 DEF PublishRequest, SoleHolder
    <2>1. asked[c] \in Replicas
      BY <1>2 DEF PublishRequest, AskedSomeone
    <2>2. Request(c) \in Requests /\ \A d \in Calls : Request(d) = Request(c) => d = c
      BY DEF Request, Requests
    <2>3. \A r \in Replicas :
            \/ requests'[r] = requests[r]
            \/ r = asked[c] /\ requests'[r] = Append(requests[r], Request(c))
      BY <1>2, <2>1, <2>2, PublishToFact DEF PublishRequest
    <2>4. \A r \in Replicas : \A i \in DOMAIN requests'[r] :
            \/ i \in DOMAIN requests[r] /\ requests'[r][i] = requests[r][i]
            \/ /\ i = Len(requests[r]) + 1 /\ requests'[r][i] = Request(c)
               /\ r = asked[c]
      <3> SUFFICES ASSUME NEW r \in Replicas, r = asked[c],
                          requests'[r] = Append(requests[r], Request(c))
                   PROVE  \A i \in DOMAIN requests'[r] :
                            \/ i \in DOMAIN requests[r] /\ requests'[r][i] = requests[r][i]
                            \/ i = Len(requests[r]) + 1 /\ requests'[r][i] = Request(c)
        BY <2>3
      <3>1. requests[r] \in Seq(Requests)
        BY DEF TypeServe
      <3> QED
        BY <2>2, <3>1, AppendFact
    <2>5. UNCHANGED local /\ pc' = [pc EXCEPT ![c] = "waiting"]
      BY <1>2 DEF PublishRequest
    <2>6. ASSUME NEW d \in Calls, NEW s \in Replicas, Holds(d, s)'
          PROVE  Holds(d, s) \/ (d = c /\ s = asked[c])
      BY <2>2, <2>4, <2>5, <2>6 DEF Holds
    <2>7. ASSUME NEW d \in Calls, NEW s \in Replicas, NEW i \in DOMAIN requests'[s],
                 NEW j \in DOMAIN requests'[s], RequestAt(d, s, i)'
          PROVE  local'[d][s] = "none" /\ (RequestAt(d, s, j)' => i = j)
      <3>1. CASE d = c
        <4>1. /\ local[c][s] = "none"
              /\ \A k \in DOMAIN requests[s] : requests[s][k] # Request(c)
          BY <2>0 DEF Holds
        <4> QED
          BY <2>4, <2>5, <2>7, <3>1, <4>1
      <3>2. CASE d # c
        BY <2>2, <2>4, <2>5, <2>7, <3>2 DEF SoleHolder
      <3> QED
        BY <3>1, <3>2
    <2> QED
      BY <2>0, <2>5, <2>6, <2>7 DEF SoleHolder, TypeCall
  <1>3. ASSUME NEW c \in Calls, CancelRemote(c) \/ FirstMessageTimeout(c)
        PROVE  SoleHolder'
    <2>1. asked[c] \in Replicas
      BY <1>3 DEF CancelRemote, FirstMessageTimeout, AskedSomeone
    <2>2. CancelOf(c) \in Requests /\ \A d \in Calls : Request(d) # CancelOf(c)
      BY DEF Request, CancelOf, Requests
    <2>3. \A r \in Replicas :
            requests'[r] = requests[r] \/ requests'[r] = Append(requests[r], CancelOf(c))
      BY <1>3, <2>1, <2>2, PublishToFact DEF CancelRemote, FirstMessageTimeout
    <2>4. \A r \in Replicas : \A i \in DOMAIN requests'[r] :
            \/ i \in DOMAIN requests[r] /\ requests'[r][i] = requests[r][i]
            \/ requests'[r][i] = CancelOf(c)
      <3> SUFFICES ASSUME NEW r \in Replicas,
                          requests'[r] = Append(requests[r], CancelOf(c))
                   PROVE  \A i \in DOMAIN requests'[r] :
                            \/ i \in DOMAIN requests[r] /\ requests'[r][i] = requests[r][i]
                            \/ requests'[r][i] = CancelOf(c)
        BY <2>3
      <3>1. requests[r] \in Seq(Requests)
        BY DEF TypeServe
      <3> QED
        BY <2>2, <3>1, AppendFact
    <2>5. /\ UNCHANGED local
          /\ \A d \in Calls : pc'[d] = pc[d] \/ pc'[d] \in {"final", "failed"}
      BY <1>3 DEF CancelRemote, FirstMessageTimeout, Return, TypeCall
    <2> QED
      BY <2>2, <2>4, <2>5, NothingNew
  <1>4. ASSUME NEW r \in Replicas, HandleIncoming(r)
        PROVE  SoleHolder'
    <2> DEFINE m == Head(requests[r])
    <2>1. requests[r] \in Seq(Requests) /\ requests[r] # <<>>
      BY <1>4 DEF HandleIncoming, TypeServe
    <2>2. /\ m \in Requests /\ m = requests[r][1] /\ 1 \in DOMAIN requests[r]
          /\ \A i \in DOMAIN Tail(requests[r]) :
               /\ i + 1 \in DOMAIN requests[r] /\ i + 1 # 1
               /\ Tail(requests[r])[i] = requests[r][i + 1]
      BY <2>1, TailFact
    <2>3. \A s \in Replicas :
            requests'[s] = IF s = r THEN Tail(requests[r]) ELSE requests[s]
      BY <1>4 DEF HandleIncoming, TypeServe
    <2>4. UNCHANGED pc
      BY <1>4 DEF HandleIncoming
    <2>5. \A d \in Calls, s \in Replicas : local'[d][s] # local[d][s] =>
            /\ s = r /\ m = Request(d) /\ local[d][s] = "none"
      <3>1. ASSUME ~m.cancel, local' = [local EXCEPT ![m.call][r] = "spawned"],
                   NEW d \in Calls, NEW s \in Replicas, local'[d][s] # local[d][s]
            PROVE  s = r /\ m = Request(d) /\ local[d][s] = "none"
        <4>1. m.call \in Calls /\ m = Request(m.call) /\ "spawned" \in LocalPCs
          BY <2>2, <3>1 DEF Requests, Request, LocalPCs
        <4>2. d = m.call /\ s = r
          BY <3>1, <4>1, LocalMove
        <4> QED
          BY <2>2, <4>1, <4>2 DEF SoleHolder
      <3> QED
        BY <1>4, <3>1 DEF HandleIncoming
    <2>6. ASSUME NEW d \in Calls, NEW s \in Replicas, Holds(d, s)'
          PROVE  Holds(d, s)
      <3>1. CASE local'[d][s] # local[d][s]
        BY <2>2, <2>5, <3>1 DEF Holds
      <3>2. CASE local'[d][s] = local[d][s]
        <4> SUFFICES ASSUME NEW i \in DOMAIN requests'[s], requests'[s][i] = Request(d)
                     PROVE  Holds(d, s)
          BY <2>6, <3>2 DEF Holds
        <4>1. CASE s = r
          <5>1. i \in DOMAIN Tail(requests[r]) /\ Tail(requests[r])[i] = Request(d)
            BY <2>3, <4>1
          <5>2. i + 1 \in DOMAIN requests[r] /\ requests[r][i + 1] = Request(d)
            BY <2>2, <5>1
          <5> QED
            BY <4>1, <5>2 DEF Holds
        <4>2. CASE s # r
          BY <2>3, <4>2 DEF Holds
        <4> QED
          BY <4>1, <4>2
      <3> QED
        BY <3>1, <3>2
    <2>7. ASSUME NEW d \in Calls, NEW s \in Replicas, NEW i \in DOMAIN requests'[s],
                 NEW j \in DOMAIN requests'[s], RequestAt(d, s, i)'
          PROVE  local'[d][s] = "none" /\ (RequestAt(d, s, j)' => i = j)
      <3>1. CASE s = r
        <4>0. requests'[s] \in Seq(Requests)
          BY <2>1, <2>3, <3>1, TailFact
        <4>1. i \in Nat /\ j \in Nat
          BY <4>0
        <4>2. /\ i + 1 \in DOMAIN requests[r] /\ i + 1 # 1 /\ j + 1 \in DOMAIN requests[r]
              /\ RequestAt(d, r, i + 1) /\ (RequestAt(d, r, j)' => RequestAt(d, r, j + 1))
          BY <2>2, <2>3, <2>7, <3>1
        <4>3. m # Request(d) /\ local[d][r] = "none"
          BY <2>2, <4>2 DEF SoleHolder
        <4>4. RequestAt(d, s, j)' => i + 1 = j + 1
          BY <3>1, <4>2 DEF SoleHolder
        <4> QED
          BY <2>5, <3>1, <4>1, <4>3, <4>4
      <3>2. CASE s # r
        BY <2>3, <2>5, <2>7, <3>2 DEF SoleHolder
      <3> QED
        BY <3>1, <3>2
    <2> QED
      BY <2>4, <2>6, <2>7 DEF SoleHolder
  <1>5. ASSUME NEW c \in Calls, NEW r \in Replicas, ServeStep(c, r)
        PROVE  SoleHolder'
    <2>1. UNCHANGED <<requests, pc>>
      BY <1>5 DEF ServeStep, RegisterRelayed, LocalStart, LocalResult, LocalError,
        PublishOutcome
    <2>2. /\ local[c][r] # "none"
          /\ \E v \in LocalPCs : local' = [local EXCEPT ![c][r] = v]
      BY <1>5 DEF ServeStep, RegisterRelayed, LocalStart, LocalResult, LocalError,
        PublishOutcome, Terminal, LocalPCs
    <2>3. \A d \in Calls, s \in Replicas :
            local[d][s] = "none" => local'[d][s] = "none"
      BY <2>2, LocalMove
    <2> QED
      BY <2>1, <2>3, NothingNew
  <1>6. ASSUME NEW c \in Calls, LocalReturns(c)
        PROVE  SoleHolder'
    <2>1. UNCHANGED requests /\ \A d \in Calls : pc'[d] = pc[d] \/ pc'[d] \in Returned
      BY <1>6, OutcomeReturned DEF LocalReturns, Return, TypeCall
    <2>2. /\ local[c][Home[c]] # "none" /\ Home[c] \in Replicas /\ "done" \in LocalPCs
          /\ local' = [local EXCEPT ![c][Home[c]] = "done"]
      BY <1>6, HomeAssumption DEF LocalReturns, Terminal, LocalPCs
    <2>3. \A d \in Calls, s \in Replicas :
            local[d][s] = "none" => local'[d][s] = "none"
      BY <2>2, LocalMove
    <2> QED
      BY <2>1, <2>3, NothingNew DEF Returned
  <1>7. ASSUME NEW c \in Calls,
               FinalTimeout(c) \/ FinalReply(c) \/ RelayFails(c) \/ ReceiveReply(c)
        PROVE  SoleHolder'
    <2>1. /\ UNCHANGED <<requests, local>>
          /\ \A d \in Calls : pc'[d] = pc[d] \/ pc'[d] \in Returned
      BY <1>7, OutcomeReturned DEF FinalTimeout, FinalReply, RelayFails, ReceiveReply,
        Return, Returned, TypeCall
    <2> QED
      BY <2>1, NothingNew DEF Returned
  <1>8. ASSUME NEW r \in Replicas, Crash(r)
        PROVE  SoleHolder'
    <2>1. \A s \in Replicas :
            requests'[s] = IF s = r THEN <<>> ELSE requests[s]
      BY <1>8 DEF Crash, TypeServe
    <2>2. \A d \in Calls, s \in Replicas :
            local[d][s] = "none" => local'[d][s] = "none"
      BY <1>8 DEF Crash, TypeServe
    <2>3. \A d \in Calls : pc'[d] = pc[d] \/ pc'[d] = "failed"
      BY <1>8 DEF Crash
    <2> QED
      BY <2>1, <2>2, <2>3, NothingNew
  <1>9. ASSUME UNCHANGED <<requests, local, pc>>
        PROVE  SoleHolder'
    BY <1>9, NothingNew
  <1>10. ASSUME NEW c \in Calls, NEW r \in Replicas,
                AgentStarts(c, r) \/ AgentFinishes(c, r) \/ RelayProgress(c, r)
         PROVE  UNCHANGED <<requests, local, pc>>
    BY <1>10 DEF AgentStarts, AgentFinishes, RelayProgress
  <1>11. ASSUME NEW c \in Calls, CancelContext(c)
         PROVE  UNCHANGED <<requests, local, pc>>
    BY <1>11 DEF CancelContext
  <1> QED
    BY <1>1, <1>2, <1>3, <1>4, <1>5, <1>6, <1>7, <1>8, <1>9, <1>10, <1>11,
      DeviceLeavesCalls DEF Next, vars, CallStep, DeviceStep

\* The agent starts only what a waiting local dispatch has sent, and no dispatch
\* goes back behind that point.
LEMMA WorkWasSentStep == TypeOK /\ SoleHolder /\ WorkWasSent /\ [Next]_vars => WorkWasSent'
  <1> SUFFICES ASSUME TypeServe, TypeCall, SoleHolder, WorkWasSent, [Next]_vars
               PROVE  WorkWasSent'
    BY DEF TypeOK
  <1> USE DEF serveVars
  <1>0. ASSUME NEW c \in Calls, NEW r \in Replicas, NEW v \in LocalPCs,
               local' = [local EXCEPT ![c][r] = v], UNCHANGED run,
               \/ v \in {"waiting", "result", "error", "done"}
               \/ local[c][r] \in {"none", "spawned", "starting"}
        PROVE  WorkWasSent'
    BY <1>0, LocalMove DEF WorkWasSent
  <1>1. ASSUME NEW c \in Calls, Dispatch(c)
        PROVE  WorkWasSent'
    <2>1. Home[c] \in Replicas /\ local[c][Home[c]] = "none" /\ UNCHANGED run
      BY <1>1, HomeAssumption DEF Dispatch, SoleHolder, Holds
    <2>2. \/ UNCHANGED local
          \/ local' = [local EXCEPT ![c][Home[c]] = "starting"]
      BY <1>1 DEF Dispatch
    <2>3. "starting" \in LocalPCs
      BY DEF LocalPCs
    <2> QED
      BY <1>0, <2>1, <2>2, <2>3 DEF WorkWasSent
  <1>2. ASSUME NEW r \in Replicas, HandleIncoming(r)
        PROVE  WorkWasSent'
    <2> DEFINE m == Head(requests[r])
    <2>1. m \in Requests /\ m = requests[r][1] /\ 1 \in DOMAIN requests[r]
      BY <1>2, TailFact DEF HandleIncoming, TypeServe
    <2>2. CASE ~m.cancel
      <3>1. m.call \in Calls /\ m = Request(m.call) /\ "spawned" \in LocalPCs
        BY <2>1, <2>2 DEF Requests, Request, LocalPCs
      <3>2. local[m.call][r] = "none"
        BY <2>1, <3>1 DEF SoleHolder, RequestAt
      <3>3. local' = [local EXCEPT ![m.call][r] = "spawned"] /\ UNCHANGED run
        BY <1>2, <2>2 DEF HandleIncoming
      <3> QED
        BY <1>0, <3>1, <3>2, <3>3
    <2>3. CASE m.cancel
      BY <1>2, <2>3 DEF HandleIncoming, WorkWasSent
    <2> QED
      BY <2>2, <2>3
  <1>3. ASSUME NEW c \in Calls, NEW r \in Replicas,
               RegisterRelayed(c, r) \/ LocalStart(c, r) \/ LocalResult(c, r)
               \/ LocalError(c, r) \/ PublishOutcome(c, r)
        PROVE  WorkWasSent'
    <2>1. \E v \in LocalPCs :
            /\ local' = [local EXCEPT ![c][r] = v]
            /\ \/ v \in {"waiting", "result", "error", "done"}
               \/ local[c][r] \in {"none", "spawned", "starting"}
      BY <1>3 DEF RegisterRelayed, LocalStart, LocalResult, LocalError,
        PublishOutcome, LocalPCs
    <2>2. UNCHANGED run
      BY <1>3 DEF RegisterRelayed, LocalStart, LocalResult, LocalError, PublishOutcome
    <2> QED
      BY <1>0, <2>1, <2>2
  <1>4. ASSUME NEW c \in Calls, LocalReturns(c)
        PROVE  WorkWasSent'
    <2>1. Home[c] \in Replicas /\ "done" \in LocalPCs /\ UNCHANGED run
          /\ local' = [local EXCEPT ![c][Home[c]] = "done"]
      BY <1>4, HomeAssumption DEF LocalReturns, LocalPCs
    <2> QED
      BY <1>0, <2>1
  <1>5. ASSUME NEW c \in Calls, NEW r \in Replicas,
               AgentStarts(c, r) \/ AgentFinishes(c, r)
        PROVE  WorkWasSent'
    <2>1. /\ local[c][r] \in {"waiting", "result", "error", "done"} /\ UNCHANGED local
          /\ \E v \in {"no", "running", "finished"} : run' = [run EXCEPT ![c][r] = v]
      BY <1>5 DEF AgentStarts, AgentFinishes, WorkWasSent
    <2> QED
      BY <2>1, RunMove DEF WorkWasSent
  <1>6. ASSUME NEW r \in Replicas, Crash(r)
        PROVE  WorkWasSent'
    BY <1>6 DEF Crash, WorkWasSent, TypeServe
  <1>7. ASSUME UNCHANGED <<local, run>>
        PROVE  WorkWasSent'
    BY <1>7 DEF WorkWasSent
  <1>8. ASSUME NEW c \in Calls,
               PublishRequest(c) \/ CancelRemote(c) \/ FirstMessageTimeout(c)
               \/ FinalTimeout(c) \/ ReceiveReply(c) \/ FinalReply(c)
               \/ RelayFails(c) \/ CancelContext(c)
        PROVE  UNCHANGED <<local, run>>
    BY <1>8 DEF PublishRequest, CancelRemote, FirstMessageTimeout, FinalTimeout,
      ReceiveReply, FinalReply, RelayFails, CancelContext
  <1>9. ASSUME NEW c \in Calls, NEW r \in Replicas, RelayProgress(c, r)
        PROVE  UNCHANGED <<local, run>>
    BY <1>9 DEF RelayProgress
  <1> QED
    BY <1>1, <1>2, <1>3, <1>4, <1>5, <1>6, <1>7, <1>8, <1>9, DeviceLeavesCalls
    DEF Next, vars, CallStep, ServeStep, DeviceStep

\* Work that is finished stays finished.
LEMMA FinishedStays ==
  ASSUME TypeServe, [Next]_vars, NEW c \in Calls, NEW r \in Replicas,
         run[c][r] = "finished"
  PROVE  run'[c][r] = "finished"
  <1> USE DEF serveVars
  <1>1. ASSUME NEW d \in Calls, NEW s \in Replicas, AgentStarts(d, s) \/ AgentFinishes(d, s)
        PROVE  run'[c][r] = "finished"
    <2>1. /\ run[d][s] # "finished" \/ run' = [run EXCEPT ![d][s] = "finished"]
          /\ \E v \in {"no", "running", "finished"} : run' = [run EXCEPT ![d][s] = v]
      BY <1>1 DEF AgentStarts, AgentFinishes
    <2> QED
      BY <2>1, RunMove
  <1>2. ASSUME NEW s \in Replicas, HandleIncoming(s) \/ Crash(s)
        PROVE  UNCHANGED run
    BY <1>2 DEF HandleIncoming, Crash
  <1>3. ASSUME NEW d \in Calls,
               Dispatch(d) \/ CallStep(d) \/ ReceiveReply(d) \/ FinalReply(d)
               \/ RelayFails(d) \/ CancelContext(d)
        PROVE  UNCHANGED run
    BY <1>3 DEF Dispatch, CallStep, PublishRequest, FirstMessageTimeout, CancelRemote,
      FinalTimeout, LocalReturns, ReceiveReply, FinalReply, RelayFails, CancelContext
  <1>4. ASSUME NEW d \in Calls, NEW s \in Replicas, ServeStep(d, s) \/ RelayProgress(d, s)
        PROVE  UNCHANGED run
    BY <1>4 DEF ServeStep, RegisterRelayed, LocalStart, LocalResult, LocalError,
      PublishOutcome, RelayProgress
  <1> QED
    BY <1>1, <1>2, <1>3, <1>4, DeviceLeavesCalls DEF Next, vars, DeviceStep

\* A result is made of finished work and of nothing else, and no message turns
\* into one on its way.
LEMMA ResultIsFinishedStep ==
  TypeOK /\ ResultIsFinished /\ [Next]_vars => ResultIsFinished'
  <1> SUFFICES ASSUME TypeServe, TypeCall, ResultIsFinished, [Next]_vars
               PROVE  ResultIsFinished'
    BY DEF TypeOK
  <1> USE DEF serveVars, callVars
  <1> DEFINE SameLocal == \A c \in Calls, r \in Replicas :
                            local'[c][r] = "result" => local[c][r] = "result"
             SameReplies == \A c \in Calls : \A i \in DOMAIN replies'[c] :
                              replies'[c][i] = "result" =>
                                \E j \in DOMAIN replies[c] : replies[c][j] = "result"
  <1>a. ASSUME SameLocal, SameReplies PROVE ResultIsFinished'
    BY <1>a, FinishedStays DEF ResultIsFinished
  <1>1. ASSUME NEW c \in Calls, NEW r \in Replicas, LocalResult(c, r)
        PROVE  ResultIsFinished'
    <2>1. /\ run[c][r] = "finished" /\ "result" \in LocalPCs
          /\ local' = [local EXCEPT ![c][r] = "result"] /\ UNCHANGED replies
      BY <1>1 DEF LocalResult, LocalPCs
    <2>2. \A d \in Calls, s \in Replicas :
            local'[d][s] = "result" => local[d][s] = "result" \/ (d = c /\ s = r)
      BY <2>1, LocalMove
    <2> QED
      BY <2>1, <2>2, FinishedStays DEF ResultIsFinished
  <1>2. ASSUME NEW c \in Calls, NEW r \in Replicas, PublishOutcome(c, r)
        PROVE  ResultIsFinished'
    <2>1. SameLocal
      BY <1>2, LocalMove DEF PublishOutcome, LocalPCs
    <2>2. PICK q : /\ q = replies[c] \/ q \in Published(replies[c], local[c][r])
                   /\ replies' = [replies EXCEPT ![c] = q]
      BY <1>2 DEF PublishOutcome
    <2>3. /\ local[c][r] \in Replies /\ replies[c] \in Seq(Replies)
          /\ Len(replies[c]) <= Cap
      BY <1>2 DEF PublishOutcome, Terminal, Replies, TypeCall
    <2>4. q = replies[c] \/ q = Append(replies[c], local[c][r])
      BY <2>2, <2>3, PublishedFact
    <2>5. \A i \in DOMAIN q : q[i] = "result" =>
            \/ local[c][r] = "result"
            \/ \E j \in DOMAIN replies[c] : replies[c][j] = "result"
      BY <2>3, <2>4, AppendFact
    <2>6. \A d \in Calls : replies'[d] = IF d = c THEN q ELSE replies[d]
      BY <2>2 DEF TypeCall
    <2>7. ASSUME NEW d \in Calls, NEW i \in DOMAIN replies'[d], replies'[d][i] = "result"
          PROVE  \E s \in Replicas : run[d][s] = "finished"
      BY <2>5, <2>6, <2>7 DEF ResultIsFinished
    <2> QED
      BY <2>1, <2>7, FinishedStays DEF ResultIsFinished
  <1>3. ASSUME NEW c \in Calls, NEW r \in Replicas, RelayProgress(c, r)
        PROVE  ResultIsFinished'
    <2>1. /\ replies[c] \in Seq(Replies) /\ "progress" \in Replies /\ UNCHANGED local
          /\ replies' = [replies EXCEPT ![c] = Append(replies[c], "progress")]
      BY <1>3 DEF RelayProgress, TypeCall, Replies
    <2>2. \A i \in DOMAIN Append(replies[c], "progress") :
            Append(replies[c], "progress")[i] = "result" =>
              i \in DOMAIN replies[c] /\ replies[c][i] = "result"
      BY <2>1, AppendFact
    <2> QED
      BY <1>a, <2>1, <2>2 DEF TypeCall
  <1>4. ASSUME NEW c \in Calls, NEW o, Return(c, o)
        PROVE  SameReplies
    BY <1>4 DEF Return, TypeCall
  <1>5. ASSUME NEW c \in Calls, LocalReturns(c)
        PROVE  ResultIsFinished'
    <2>1. Home[c] \in Replicas /\ "done" \in LocalPCs
      BY HomeAssumption DEF LocalPCs
    <2>2. SameLocal
      BY <1>5, <2>1, LocalMove DEF LocalReturns
    <2> QED
      BY <1>a, <1>4, <1>5, <2>2 DEF LocalReturns
  <1>6. ASSUME NEW c \in Calls,
               FirstMessageTimeout(c) \/ FinalTimeout(c) \/ FinalReply(c)
               \/ RelayFails(c)
        PROVE  ResultIsFinished'
    BY <1>a, <1>4, <1>6 DEF FirstMessageTimeout, FinalTimeout, FinalReply, RelayFails
  <1>7. ASSUME NEW c \in Calls, ReceiveReply(c)
        PROVE  ResultIsFinished'
    <2>1. UNCHANGED local
      BY <1>7 DEF ReceiveReply
    <2>2. CASE Head(replies[c]) \in Terminal
      BY <1>a, <1>4, <1>7, <2>1, <2>2 DEF ReceiveReply
    <2>3. CASE Head(replies[c]) \notin Terminal
      <3>1. /\ replies[c] \in Seq(Replies) /\ replies[c] # <<>>
            /\ replies' = [replies EXCEPT ![c] = Tail(replies[c])]
        BY <1>7, <2>3 DEF ReceiveReply, TypeCall
      <3>2. \A i \in DOMAIN Tail(replies[c]) :
              /\ i + 1 \in DOMAIN replies[c]
              /\ Tail(replies[c])[i] = replies[c][i + 1]
        BY <3>1, TailFact
      <3>3. \A d \in Calls :
              replies'[d] = IF d = c THEN Tail(replies[c]) ELSE replies[d]
        BY <3>1 DEF TypeCall
      <3>4. SameReplies
        BY <3>2, <3>3
      <3> QED
        BY <1>a, <2>1, <3>4
    <2> QED
      BY <2>2, <2>3
  <1>8. ASSUME NEW c \in Calls, Dispatch(c)
        PROVE  ResultIsFinished'
    <2>1. Home[c] \in Replicas /\ "starting" \in LocalPCs
      BY HomeAssumption DEF LocalPCs
    <2>2. SameLocal
      BY <1>8, <2>1, LocalMove DEF Dispatch
    <2>3. SameReplies
      BY <1>4, <1>8 DEF Dispatch
    <2> QED
      BY <1>a, <2>2, <2>3
  <1>9. ASSUME NEW r \in Replicas, HandleIncoming(r)
        PROVE  ResultIsFinished'
    <2> DEFINE m == Head(requests[r])
    <2>1. m \in Requests
      BY <1>9, TailFact DEF HandleIncoming, TypeServe
    <2>2. m.call \in Calls /\ "spawned" \in LocalPCs
      BY <2>1 DEF Requests, LocalPCs
    <2>3. local' = local \/ local' = [local EXCEPT ![m.call][r] = "spawned"]
      BY <1>9 DEF HandleIncoming
    <2>4. SameLocal
      BY <2>2, <2>3, LocalMove
    <2> QED
      BY <1>a, <1>9, <2>4 DEF HandleIncoming
  <1>10. ASSUME NEW c \in Calls, NEW r \in Replicas,
                RegisterRelayed(c, r) \/ LocalStart(c, r) \/ LocalError(c, r)
         PROVE  ResultIsFinished'
    <2>1. /\ UNCHANGED replies
          /\ \E v \in LocalPCs \ {"result"} : local' = [local EXCEPT ![c][r] = v]
      BY <1>10 DEF RegisterRelayed, LocalStart, LocalError, LocalPCs
    <2>2. SameLocal
      BY <2>1, LocalMove
    <2> QED
      BY <1>a, <2>1, <2>2
  <1>11. ASSUME NEW r \in Replicas, Crash(r)
         PROVE  ResultIsFinished'
    <2>1. SameLocal
      BY <1>11 DEF Crash, TypeServe
    <2>2. \A c \in Calls : replies'[c] \in {<<>>, replies[c]}
      BY <1>11 DEF Crash
    <2> QED
      BY <1>a, <2>1, <2>2
  <1>12. ASSUME UNCHANGED <<local, replies>>
         PROVE  ResultIsFinished'
    BY <1>a, <1>12
  <1>13. ASSUME NEW c \in Calls, PublishRequest(c) \/ CancelRemote(c) \/ CancelContext(c)
         PROVE  UNCHANGED <<local, replies>>
    BY <1>13 DEF PublishRequest, CancelRemote, CancelContext
  <1>14. ASSUME NEW c \in Calls, NEW r \in Replicas,
                AgentStarts(c, r) \/ AgentFinishes(c, r)
         PROVE  UNCHANGED <<local, replies>>
    BY <1>14 DEF AgentStarts, AgentFinishes
  <1> HIDE DEF SameLocal, SameReplies
  <1> QED
    BY <1>1, <1>2, <1>3, <1>5, <1>6, <1>7, <1>8, <1>9, <1>10, <1>11, <1>12, <1>13,
      <1>14, DeviceLeavesCalls DEF Next, vars, CallStep, ServeStep, DeviceStep

-----------------------------------------------------------------------------
\* The invariant and the types

\* A cluster that has just started.
LEMMA InitInv == Init => Inv
  <1> SUFFICES ASSUME Init PROVE Inv
    OBVIOUS
  <1>1. TypeOK
    BY InitType
  <1>2. SoleHolder
    BY DEF Init, SoleHolder, Holds, RequestAt
  <1>3. WorkWasSent /\ ResultIsFinished /\ AskedSomeone /\ CallbacksDistinct
    BY DEF Init, WorkWasSent, ResultIsFinished, AskedSomeone, CallbacksDistinct
  <1> QED
    BY <1>1, <1>2, <1>3 DEF Inv

\* Every step keeps the invariant.
LEMMA NextInv == Inv /\ [Next]_vars => Inv'
  BY DeviceType, CallType, ServeType, AskedStep, CallbacksStep, SoleHolderStep,
    WorkWasSentStep, ResultIsFinishedStep DEF Inv, TypeOK

\* The invariant holds in every reachable state.
LEMMA InvHolds == Spec => []Inv
  BY InitInv, NextInv, PTL DEF Spec

\* Every variable of relay.go's model keeps its type, no subscription holds more
\* than its channel's capacity, and the record has a TTL exactly while it names
\* a replica.
THEOREM TypeCorrect == Spec => []TypeOK
  <1>1. Inv => TypeOK
    BY DEF Inv
  <1> QED
    BY <1>1, InvHolds, PTL

-----------------------------------------------------------------------------
\* The refinement

\* Nobody has called yet.
LEMMA InitRefines == Init => Contract!Init
  <1> SUFFICES ASSUME Init PROVE Contract!Init
    OBVIOUS
  <1>1. Cardinality({}) = 0
    BY FS_EmptySet
  <1>2. Starts = [c \in Calls |-> 0]
    <2>1. \A c \in Calls : {r \in Replicas : run[c][r] # "no"} = {}
      BY DEF Init
    <2> QED
      BY <1>1, <2>1 DEF Starts
  <1>3. Phase = [c \in Calls |-> "idle"] /\ Finished = {}
    BY DEF Init, Phase, Finished, Returned
  <1> QED
    BY <1>2, <1>3 DEF Contract!Init

\* While the agent does nothing the contract sees no work begin or end.
LEMMA SameRun == UNCHANGED run => UNCHANGED <<Starts, Finished>>
  BY DEF Starts, Finished

\* While no call begins or returns the contract sees the calls as they were.
LEMMA SamePhase ==
  ASSUME \A c \in Calls : \/ pc'[c] = pc[c]
                          \/ /\ pc[c] \notin Returned \cup {"idle"}
                             /\ pc'[c] \notin Returned \cup {"idle"}
  PROVE  UNCHANGED Phase
  BY DEF Phase

\* A step that only begins, ends or moves calls is one of the contract's: they
\* begin, succeed with finished work, or fail.
LEMMA ReturnRefines ==
  ASSUME TypeCall, NEW c \in Calls, NEW o \in Returned, Return(c, o), UNCHANGED run,
         pc[c] \notin Returned, pc[c] = "idle" => o = "failed",
         o = "ok" => c \in Finished
  PROVE  Contract!Next
  <1>1. pc' = [pc EXCEPT ![c] = o]
    BY DEF Return
  <1>2. Phase' = [Phase EXCEPT ![c] = o] /\ Phase[c] \in {"idle", "called"}
        /\ (o = "ok" => Phase[c] = "called")
    BY <1>1 DEF Phase, TypeCall, Returned
  <1>3. UNCHANGED <<Starts, Finished>>
    BY SameRun
  <1>4. CASE o = "ok"
    <2>1. Contract!Succeed(c)
      BY <1>2, <1>3, <1>4 DEF Contract!Succeed
    <2> QED
      BY <2>1 DEF Contract!Next
  <1>5. CASE o = "failed"
    <2>1. Phase' = [d \in Calls |-> IF d \in {c} THEN "failed" ELSE Phase[d]]
      BY <1>2, <1>5 DEF Phase
    <2>2. Contract!Fail({c})
      BY <1>2, <1>3, <2>1 DEF Contract!Fail
    <2> QED
      BY <2>2 DEF Contract!Next
  <1> QED
    BY <1>4, <1>5 DEF Returned

\* Replicas whose agent has begun the call: at most the one that holds it.
LEMMA OneStarter ==
  ASSUME SoleHolder, WorkWasSent, NEW c \in Calls, NEW r \in Replicas, Holds(c, r)
  PROVE  {s \in Replicas : run[c][s] # "no"} \subseteq {r}
  BY DEF SoleHolder, WorkWasSent, Holds

\* Every step of a replica, the store, pub/sub or the agent is a step of the
\* contract, or one it does not see.
LEMMA StepRefines == Inv /\ [Next]_vars => [Contract!Next]_(Contract!vars)
  <1> SUFFICES ASSUME Inv, [Next]_vars
               PROVE  Contract!Next \/ UNCHANGED <<Phase, Starts, Finished>>
    BY DEF Contract!vars
  <1>0. TypeCall /\ TypeServe
    BY DEF Inv, TypeOK
  <1> USE DEF callVars, serveVars
  <1>1. ASSUME NEW c \in Calls, Dispatch(c)
        PROVE  Contract!Next \/ UNCHANGED <<Phase, Starts, Finished>>
    <2>1. UNCHANGED run /\ pc[c] = "idle"
      BY <1>1 DEF Dispatch
    <2>2. CASE Return(c, "failed")
      BY <1>0, <2>1, <2>2, ReturnRefines DEF Returned
    <2>3. CASE pc' = [pc EXCEPT ![c] = "local"] \/ pc' = [pc EXCEPT ![c] = "publish"]
      <3>1. Phase[c] = "idle" /\ Phase' = [Phase EXCEPT ![c] = "called"]
        BY <1>0, <2>1, <2>3 DEF Phase, TypeCall, Returned
      <3>2. Contract!Call(c)
        BY <2>1, <3>1, SameRun DEF Contract!Call
      <3> QED
        BY <3>2 DEF Contract!Next
    <2> QED
      BY <1>1, <2>2, <2>3 DEF Dispatch
  <1>2. ASSUME NEW c \in Calls, PublishRequest(c) \/ CancelRemote(c)
        PROVE  UNCHANGED <<Phase, Starts, Finished>>
    <2>1. UNCHANGED run
      BY <1>2 DEF PublishRequest, CancelRemote
    <2>2. UNCHANGED Phase
      BY <1>0, <1>2, SamePhase DEF PublishRequest, CancelRemote, TypeCall, Returned
    <2> QED
      BY <2>1, <2>2, SameRun
  <1>3. ASSUME NEW c \in Calls,
               FirstMessageTimeout(c) \/ FinalTimeout(c) \/ RelayFails(c)
        PROVE  Contract!Next
    <2>1. Return(c, "failed") /\ UNCHANGED run /\ pc[c] \notin Returned
      BY <1>3 DEF FirstMessageTimeout, FinalTimeout, RelayFails, Returned
    <2> QED
      BY <1>0, <2>1, ReturnRefines DEF Returned
  <1>4. ASSUME NEW c \in Calls, LocalReturns(c)
        PROVE  Contract!Next
    <2> DEFINE o == OutcomeOf(local[c][Home[c]])
    <2>1. Return(c, o) /\ UNCHANGED run /\ pc[c] \notin Returned \cup {"idle"}
      BY <1>4 DEF LocalReturns, Returned
    <2>2. o = "ok" => c \in Finished
      BY HomeAssumption DEF Inv, ResultIsFinished, OutcomeOf, Finished
    <2>3. o \in Returned
      BY OutcomeReturned
    <2> HIDE DEF o
    <2> QED
      BY <1>0, <2>1, <2>2, <2>3, ReturnRefines
  <1>5. ASSUME NEW c \in Calls, pc[c] \in {"waiting", "final"}, replies[c] # <<>>,
               Return(c, OutcomeOf(Head(replies[c]))), UNCHANGED run
        PROVE  Contract!Next
    <2> DEFINE o == OutcomeOf(Head(replies[c]))
    <2>1. Head(replies[c]) = replies[c][1] /\ 1 \in DOMAIN replies[c]
      BY <1>0, <1>5, TailFact DEF TypeCall
    <2>2. o = "ok" => c \in Finished
      BY <2>1 DEF Inv, ResultIsFinished, OutcomeOf, Finished
    <2>3. o \in Returned /\ pc[c] \notin Returned \cup {"idle"}
      BY <1>5, OutcomeReturned DEF Returned
    <2> HIDE DEF o
    <2> QED
      BY <1>0, <1>5, <2>2, <2>3, ReturnRefines DEF o
  <1>6. ASSUME NEW c \in Calls, ReceiveReply(c) \/ FinalReply(c)
        PROVE  Contract!Next \/ UNCHANGED <<Phase, Starts, Finished>>
    <2>1. UNCHANGED run /\ pc[c] \in {"waiting", "final"} /\ replies[c] # <<>>
      BY <1>6 DEF ReceiveReply, FinalReply
    <2>2. Return(c, OutcomeOf(Head(replies[c]))) \/ UNCHANGED pc
      BY <1>6 DEF ReceiveReply, FinalReply
    <2> QED
      BY <1>5, <2>1, <2>2, SameRun, SamePhase
  <1>7. ASSUME NEW r \in Replicas, Crash(r)
        PROVE  Contract!Next
    <2> DEFINE lost == {c \in Calls : Home[c] = r /\ pc[c] \notin Returned \cup {"idle"}}
    <2>1. UNCHANGED run /\ \A c \in Calls : pc'[c] = IF c \in lost THEN "failed" ELSE pc[c]
      BY <1>7 DEF Crash
    <2>2. Phase' = [c \in Calls |-> IF c \in lost THEN "failed" ELSE Phase[c]]
      BY <2>1 DEF Phase, Returned
    <2>3. \A c \in lost : Phase[c] = "called"
      BY DEF Phase
    <2>4. lost \in SUBSET Calls
      OBVIOUS
    <2> HIDE DEF lost
    <2>5. Contract!Fail(lost)
      BY <2>1, <2>2, <2>3, SameRun DEF Contract!Fail
    <2> QED
      BY <2>4, <2>5 DEF Contract!Next
  <1>8. ASSUME NEW c \in Calls, NEW r \in Replicas, AgentStarts(c, r)
        PROVE  Contract!Next
    <2> DEFINE Begun(d) == {s \in Replicas : run[d][s] # "no"}
    <2>1. /\ run[c][r] = "no" /\ local[c][r] = "waiting" /\ UNCHANGED pc
          /\ run' = [run EXCEPT ![c][r] = "running"]
      BY <1>8 DEF AgentStarts
    <2>2. \A d \in Calls, s \in Replicas :
            run'[d][s] = IF d = c /\ s = r THEN "running" ELSE run[d][s]
      BY <1>0, <2>1, RunMove
    <2>3. Holds(c, r) /\ pc[c] # "idle"
      BY <2>1 DEF Inv, Holds, SoleHolder
    <2>4. Begun(c) = {}
      BY <2>1, <2>3, OneStarter DEF Inv
    <2>5. Begun(c)' = {r} /\ \A d \in Calls : d # c => Begun(d)' = Begun(d)
      BY <2>2, <2>4
    <2>6. Cardinality({}) = 0 /\ Cardinality({r}) = 1
      BY FS_EmptySet, FS_Singleton
    <2>7. Starts[c] = 0 /\ Starts' = [Starts EXCEPT ![c] = 1]
      <3>1. \A d \in Calls : Starts[d] = Cardinality(Begun(d))
                            /\ Starts'[d] = Cardinality(Begun(d)')
        BY DEF Starts
      <3>2. Starts[c] = 0 /\ Starts'[c] = 1
        BY <2>4, <2>5, <2>6, <3>1
      <3>3. \A d \in Calls : d # c => Starts'[d] = Starts[d]
        BY <2>5, <3>1
      <3>4. Starts = [d \in Calls |-> Starts[d]] /\ Starts' = [d \in Calls |-> Starts'[d]]
        BY DEF Starts
      <3> QED
        BY <3>2, <3>3, <3>4
    <2>8. UNCHANGED Finished
      BY <2>1, <2>2 DEF Finished
    <2>9. UNCHANGED Phase /\ Phase[c] # "idle"
      BY <2>1, <2>3 DEF Phase
    <2>10. Contract!Start(c)
      BY <2>7, <2>8, <2>9 DEF Contract!Start
    <2> QED
      BY <2>10 DEF Contract!Next
  <1>9. ASSUME NEW c \in Calls, NEW r \in Replicas, AgentFinishes(c, r)
        PROVE  Contract!Next
    <2> DEFINE Begun(d) == {s \in Replicas : run[d][s] # "no"}
    <2>1. /\ run[c][r] = "running" /\ UNCHANGED pc
          /\ run' = [run EXCEPT ![c][r] = "finished"]
      BY <1>9 DEF AgentFinishes
    <2>2. \A d \in Calls, s \in Replicas :
            run'[d][s] = IF d = c /\ s = r THEN "finished" ELSE run[d][s]
      BY <1>0, <2>1, RunMove
    <2>3. Holds(c, r)
      BY <2>1 DEF Inv, WorkWasSent, Holds
    <2>4. Begun(c) = {r}
      BY <2>1, <2>3, OneStarter DEF Inv
    <2>5. Starts[c] = 1
      BY <2>4, FS_Singleton DEF Starts
    <2>6. \A d \in Calls : Begun(d)' = Begun(d)
      BY <2>1, <2>2
    <2>7. UNCHANGED Starts
      BY <2>6 DEF Starts
    <2>8. Finished' = Finished \cup {c}
      BY <2>2 DEF Finished
    <2>9. UNCHANGED Phase
      BY <2>1 DEF Phase
    <2>10. Contract!Finish(c)
      BY <2>5, <2>7, <2>8, <2>9 DEF Contract!Finish
    <2> QED
      BY <2>10 DEF Contract!Next
  <1>10. ASSUME UNCHANGED <<pc, run>>
         PROVE  UNCHANGED <<Phase, Starts, Finished>>
    BY <1>10, SameRun, SamePhase
  <1>11. ASSUME NEW c \in Calls, CancelContext(c)
         PROVE  UNCHANGED <<pc, run>>
    BY <1>11 DEF CancelContext
  <1>12. ASSUME NEW r \in Replicas, HandleIncoming(r)
         PROVE  UNCHANGED <<pc, run>>
    BY <1>12 DEF HandleIncoming
  <1>13. ASSUME NEW c \in Calls, NEW r \in Replicas, ServeStep(c, r) \/ RelayProgress(c, r)
         PROVE  UNCHANGED <<pc, run>>
    BY <1>13 DEF ServeStep, RegisterRelayed, LocalStart, LocalResult, LocalError,
      PublishOutcome, RelayProgress
  <1> QED
    BY <1>1, <1>2, <1>3, <1>4, <1>6, <1>7, <1>8, <1>9, <1>10, <1>11, <1>12, <1>13,
      DeviceLeavesCalls DEF Next, vars, CallStep, DeviceStep

\* relay.go:175: a dispatch that is relayed to another replica keeps the contract
\* of Bridge.Dispatch.  It returns once, succeeds only with the result of work
\* the agent finished, and has the agent begin that work at most once, whatever
\* pub/sub loses, however late a cancel is and whichever replica crashes.
THEOREM RelayImplementsContract == Spec => ImplementsContract
  BY InitRefines, StepRefines, InvHolds, PTL
  DEF Spec, ImplementsContract, Contract!Spec
=============================================================================
