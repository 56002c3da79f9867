-------------------------- MODULE AgentClientProofs --------------------------
(***************************************************************************)
(* Proofs about AgentClient for every set of dispatches, every number of   *)
(* frames and connections and every buffer capacity.                       *)
(***************************************************************************)
EXTENDS AgentClient, TLAPS

\* No item occurs twice in a buffer.
NoRepeat(s) == \A i, j \in DOMAIN s : s[i] = s[j] => i = j

\* What is written, waits for the flush, is buffered or was thrown away: an item
\* is in one of them at most, and once.
Apart ==
  /\ NoRepeat(wire) /\ NoRepeat(backlog) /\ NoRepeat(frames) /\ NoRepeat(envelopes)
  /\ Elements(wire) \cap (Elements(backlog) \cup Elements(frames)
                          \cup Elements(envelopes) \cup discarded) = {}
  /\ Elements(backlog) \cap (Elements(frames) \cup Elements(envelopes)
                             \cup discarded) = {}
  /\ Elements(frames) \cap (Elements(envelopes) \cup discarded) = {}
  /\ Elements(envelopes) \cap discarded = {}

Everywhere ==
  Elements(wire) \cup Elements(backlog) \cup Elements(frames)
  \cup Elements(envelopes) \cup discarded

\* A goroutine has handed over nothing that it is still to produce.
FutureIsNew ==
  \A d \in Dispatches : work[d] # "done" =>
    \A i \in next[d]..ResultNo : Item(d, i) \notin Everywhere

\* The Outbox has the lifecycle's connection from Attach to Detach.
AttachedInBetween ==
  attached = IF life \in {"flush", "run", "detach"} THEN conn ELSE 0

\* Only a flush has a backlog.
BacklogIsFlushed == backlog # <<>> => life = "flush"

\* The inductive invariant.
Inv ==
  /\ TypeOK /\ Apart /\ FutureIsNew /\ AttachedInBetween /\ BacklogIsFlushed
  /\ InFlightRuns

-----------------------------------------------------------------------------
\* Buffers

\* An empty buffer has no elements.
LEMMA EmptyFact == Elements(<<>>) = {} /\ NoRepeat(<<>>) /\ Len(<<>>) = 0
  BY DEF Elements, NoRepeat

\* A new element at the end.
LEMMA AppendFact ==
  ASSUME NEW S, NEW s \in Seq(S), NEW x \in S
  PROVE  /\ Append(s, x) \in Seq(S) /\ Len(Append(s, x)) = Len(s) + 1
         /\ Elements(Append(s, x)) = Elements(s) \cup {x}
         /\ NoRepeat(s) /\ x \notin Elements(s) => NoRepeat(Append(s, x))
  <1>1. /\ Append(s, x) \in Seq(S) /\ Len(Append(s, x)) = Len(s) + 1
        /\ DOMAIN Append(s, x) = DOMAIN s \cup {Len(s) + 1}
        /\ Len(s) + 1 \notin DOMAIN s /\ Append(s, x)[Len(s) + 1] = x
        /\ \A i \in DOMAIN s : Append(s, x)[i] = s[i]
    OBVIOUS
  <1> QED
    BY <1>1 DEF Elements, NoRepeat

\* Without its first element.
LEMMA TailFact ==
  ASSUME NEW S, NEW s \in Seq(S), s # <<>>
  PROVE  /\ Tail(s) \in Seq(S) /\ Len(Tail(s)) = Len(s) - 1
         /\ Head(s) \in S /\ Head(s) \in Elements(s)
         /\ Elements(Tail(s)) \subseteq Elements(s)
         /\ NoRepeat(s) => NoRepeat(Tail(s)) /\ Head(s) \notin Elements(Tail(s))
  <1>1. /\ Tail(s) \in Seq(S) /\ Len(Tail(s)) = Len(s) - 1 /\ Head(s) \in S
        /\ Head(s) = s[1] /\ 1 \in DOMAIN s
        /\ \A i \in DOMAIN Tail(s) : /\ i \in Nat /\ i + 1 \in DOMAIN s /\ i + 1 # 1
                                     /\ Tail(s)[i] = s[i + 1]
    OBVIOUS
  <1>2. Head(s) \in Elements(s) /\ Elements(Tail(s)) \subseteq Elements(s)
    BY <1>1 DEF Elements
  <1>3. ASSUME NoRepeat(s)
        PROVE  NoRepeat(Tail(s)) /\ Head(s) \notin Elements(Tail(s))
    <2>1. ASSUME NEW i \in DOMAIN Tail(s), NEW j \in DOMAIN Tail(s),
                 Tail(s)[i] = Tail(s)[j]
          PROVE  i = j
      <3>1. i + 1 = j + 1
        BY <1>1, <1>3, <2>1 DEF NoRepeat
      <3> QED
        BY <1>1, <3>1
    <2>2. ASSUME NEW i \in DOMAIN Tail(s) PROVE Tail(s)[i] # Head(s)
      BY <1>1, <1>3 DEF NoRepeat
    <2> QED
      BY <2>1, <2>2 DEF NoRepeat, Elements
  <1> QED
    BY <1>1, <1>2, <1>3

\* One buffer after another.
LEMMA ConcatFact ==
  ASSUME NEW S, NEW s \in Seq(S), NEW t \in Seq(S)
  PROVE  /\ s \o t \in Seq(S)
         /\ Elements(s \o t) = Elements(s) \cup Elements(t)
         /\ NoRepeat(s) /\ NoRepeat(t) /\ Elements(s) \cap Elements(t) = {}
              => NoRepeat(s \o t)
  <1>1. /\ s \o t \in Seq(S) /\ Len(s \o t) = Len(s) + Len(t)
        /\ DOMAIN (s \o t) = 1..(Len(s) + Len(t))
        /\ DOMAIN s = 1..Len(s) /\ DOMAIN t = 1..Len(t)
        /\ Len(s) \in Nat /\ Len(t) \in Nat
    OBVIOUS
  <1>2. /\ \A i \in DOMAIN s : i \in DOMAIN (s \o t) /\ (s \o t)[i] = s[i]
        /\ \A j \in DOMAIN t : /\ Len(s) + j \in DOMAIN (s \o t)
                               /\ (s \o t)[Len(s) + j] = t[j]
    BY <1>1
  <1>3. ASSUME NEW i \in DOMAIN (s \o t)
        PROVE  \/ i \in DOMAIN s /\ (s \o t)[i] = s[i]
               \/ \E j \in DOMAIN t : i = Len(s) + j /\ (s \o t)[i] = t[j]
    <2>1. CASE i <= Len(s)
      BY <1>1, <1>2, <2>1
    <2>2. CASE i > Len(s)
      <3>1. i - Len(s) \in DOMAIN t /\ i = Len(s) + (i - Len(s))
        BY <1>1, <2>2
      <3> QED
        BY <1>2, <3>1
    <2> QED
      BY <1>1, <2>1, <2>2
  <1>4. Elements(s \o t) = Elements(s) \cup Elements(t)
    <2>1. ASSUME NEW x \in Elements(s \o t) PROVE x \in Elements(s) \cup Elements(t)
      <3>1. PICK i \in DOMAIN (s \o t) : x = (s \o t)[i]
        BY DEF Elements
      <3> QED
        BY <1>3, <3>1 DEF Elements
    <2>2. ASSUME NEW x \in Elements(s) \cup Elements(t) PROVE x \in Elements(s \o t)
      <3>1. (\E i \in DOMAIN s : x = s[i]) \/ (\E j \in DOMAIN t : x = t[j])
        BY DEF Elements
      <3>2. \E i \in DOMAIN (s \o t) : x = (s \o t)[i]
        BY <1>2, <3>1
      <3> QED
        BY <3>2 DEF Elements
    <2> QED
      BY <2>1, <2>2
  <1>5. ASSUME NoRepeat(s), NoRepeat(t), Elements(s) \cap Elements(t) = {}
        PROVE  NoRepeat(s \o t)
    <2>1. ASSUME NEW i \in DOMAIN (s \o t), NEW j \in DOMAIN (s \o t),
                 (s \o t)[i] = (s \o t)[j]
          PROVE  i = j
      <3>1. \A a \in DOMAIN s, b \in DOMAIN t : s[a] # t[b]
        BY <1>5 DEF Elements
      <3> QED
        BY <1>3, <1>5, <2>1, <3>1 DEF NoRepeat
    <2> QED
      BY <2>1 DEF NoRepeat
  <1> QED
    BY <1>1, <1>4, <1>5

\* bufferEnvelope and bufferFrame: the bound holds, and the buffer has nothing
\* that was not in it or is not the new item.
LEMMA PushFact ==
  ASSUME NEW S, NEW s \in Seq(S), NEW max \in Nat \ {0}, Len(s) <= max, NEW x \in S,
         NoRepeat(s), x \notin Elements(s)
  PROVE  /\ Push(s, max, x) \in Seq(S) /\ Len(Push(s, max, x)) <= max
         /\ NoRepeat(Push(s, max, x))
         /\ Elements(Push(s, max, x)) \subseteq Elements(s) \cup {x}
  <1>1. CASE Len(s) >= max
    <2>1. s # <<>> /\ Len(s) \in Nat
      BY <1>1
    <2>2. /\ Tail(s) \in Seq(S) /\ Len(Tail(s)) = Len(s) - 1 /\ NoRepeat(Tail(s))
          /\ Elements(Tail(s)) \subseteq Elements(s)
      BY <2>1, TailFact
    <2>3. Push(s, max, x) = Append(Tail(s), x)
      BY <1>1 DEF Push
    <2>4. /\ Append(Tail(s), x) \in Seq(S)
          /\ Len(Append(Tail(s), x)) = Len(Tail(s)) + 1
          /\ Elements(Append(Tail(s), x)) = Elements(Tail(s)) \cup {x}
          /\ NoRepeat(Append(Tail(s), x))
      BY <2>2, AppendFact
    <2> QED
      BY <2>1, <2>2, <2>3, <2>4
  <1>2. CASE ~(Len(s) >= max)
    <2>1. Push(s, max, x) = Append(s, x) /\ Len(s) \in Nat
      BY <1>2 DEF Push
    <2> QED
      BY <1>2, <2>1, AppendFact
  <1> QED
    BY <1>1, <1>2

-----------------------------------------------------------------------------
\* Steps

\* What a goroutine is about to send is an item, and it is nowhere yet.
LEMMA NextItem ==
  ASSUME Inv, NEW d \in Dispatches, work[d] # "done"
  PROVE  Item(d, next[d]) \in Items /\ Item(d, next[d]) \notin Everywhere
  <1>1. ResultNo \in Nat /\ next[d] \in 1..ResultNo
    BY NFramesAssumption DEF Inv, TypeOK, ResultNo
  <1>2. next[d] \in next[d]..ResultNo
    BY <1>1
  <1> QED
    BY <1>1, <1>2 DEF Inv, FutureIsNew, Item, Items

\* An agent that has just started.
LEMMA InitInv == Init => Inv
  <1> SUFFICES ASSUME Init PROVE Inv
    OBVIOUS
  <1>1. <<>> \in Seq(Items) /\ ResultNo \in Nat \ {0}
    BY NFramesAssumption DEF ResultNo
  <1>b. resume \in BOOLEAN /\ up \in BOOLEAN /\ timer \in BOOLEAN
    BY DEF Init
  <1>2. TypeOK
    BY <1>1, <1>b, EmptyFact, MaxConnAssumption, BufferAssumption
    DEF Init, TypeOK, LifePCs, WorkPCs
  <1>3. Apart /\ FutureIsNew
    BY EmptyFact DEF Init, Apart, FutureIsNew, Everywhere
  <1>4. AttachedInBetween /\ BacklogIsFlushed /\ InFlightRuns
    BY DEF Init, AttachedInBetween, BacklogIsFlushed, InFlightRuns
  <1> QED
    BY <1>2, <1>3, <1>4 DEF Inv

\* The flags of the lifecycle and its timer are Booleans after every step.
LEMMA FlagType ==
  ASSUME Inv, [Next]_vars
  PROVE  resume' \in BOOLEAN /\ up' \in BOOLEAN /\ timer' \in BOOLEAN
  <1> USE DEF lifeVars, timeVars
  <1>0. resume \in BOOLEAN /\ up \in BOOLEAN /\ timer \in BOOLEAN
    BY DEF Inv, TypeOK
  <1>1. ASSUME NEW r \in BOOLEAN, Connect(r)
        PROVE  resume' \in BOOLEAN /\ up' \in BOOLEAN /\ timer' \in BOOLEAN
    BY <1>1, Zenon DEF Connect
  <1>2. ASSUME ConnectionDies
        PROVE  resume' \in BOOLEAN /\ up' \in BOOLEAN /\ timer' \in BOOLEAN
    BY <1>0, <1>2, Zenon DEF ConnectionDies
  <1>3. ASSUME Detach
        PROVE  resume' \in BOOLEAN /\ up' \in BOOLEAN /\ timer' \in BOOLEAN
    BY <1>0, <1>3, Zenon DEF Detach
  <1>4. ASSUME TimerFires
        PROVE  resume' \in BOOLEAN /\ up' \in BOOLEAN /\ timer' \in BOOLEAN
    BY <1>0, <1>4, Zenon DEF TimerFires
  <1>5. ASSUME \/ AbandonCancelAll \/ AbandonDrop \/ FlushItem \/ FlushDone \/ RunEnds
               \/ Attach \/ TimerCancelAll \/ TimerDrop
        PROVE  UNCHANGED <<resume, up, timer>>
    BY <1>5 DEF AbandonCancelAll, AbandonDrop, FlushItem, FlushDone, RunEnds, Attach,
      TimerCancelAll, TimerDrop
  <1>6. ASSUME NEW d \in Dispatches,
               ReceiveDispatch(d) \/ ReceiveCancel(d) \/ Register(d) \/ Finish(d)
               \/ WorkStep(d)
        PROVE  UNCHANGED <<resume, up, timer>>
    BY <1>6 DEF ReceiveDispatch, ReceiveCancel, Register, Finish, WorkStep, BeginSend,
      Write, Buffer
  <1>7. UNCHANGED vars => UNCHANGED <<resume, up, timer>>
    BY DEF vars
  <1> QED
    BY <1>0, <1>1, <1>2, <1>3, <1>4, <1>5, <1>6, <1>7 DEF Next, LifeStep, Quiescent

\* The lifecycle, the connection number and the expired timers are well typed
\* after every step, and the Outbox is attached in between.
LEMMA LifeType ==
  ASSUME Inv, [Next]_vars
  PROVE  /\ life' \in LifePCs /\ conn' \in 0..MaxConn /\ attached' \in 0..MaxConn
         /\ cancelling' \in Nat /\ dropping' \in Nat /\ AttachedInBetween'
  <1> DEFINE Goal ==
        /\ life \in LifePCs /\ conn \in 0..MaxConn /\ attached \in 0..MaxConn
        /\ cancelling \in Nat /\ dropping \in Nat /\ AttachedInBetween
  <1> SUFFICES Goal'
    OBVIOUS
  <1>0. Goal
    BY DEF Inv, TypeOK
  <1> USE <1>0, MaxConnAssumption DEF lifeVars, boxVars, timeVars, AttachedInBetween, LifePCs
  <1>1. ASSUME NEW r \in BOOLEAN, Connect(r) PROVE Goal'
    BY <1>1 DEF Connect
  <1>2. ASSUME AbandonCancelAll \/ AbandonDrop \/ FlushItem \/ FlushDone \/ RunEnds
        PROVE  Goal'
    BY <1>2 DEF AbandonCancelAll, AbandonDrop, FlushItem, FlushDone, RunEnds
  <1>3. ASSUME Attach PROVE Goal'
    BY <1>3 DEF Attach
  <1>4. ASSUME Detach \/ ConnectionDies PROVE Goal'
    BY <1>4 DEF Detach, ConnectionDies
  <1>5. ASSUME TimerFires \/ TimerCancelAll \/ TimerDrop PROVE Goal'
    BY <1>5 DEF TimerFires, TimerCancelAll, TimerDrop
  <1>6. ASSUME UNCHANGED <<lifeVars, attached, timeVars>> PROVE Goal'
    BY <1>6
  <1>7. ASSUME NEW d \in Dispatches,
               ReceiveDispatch(d) \/ ReceiveCancel(d) \/ Register(d) \/ Finish(d)
               \/ WorkStep(d)
        PROVE  UNCHANGED <<lifeVars, attached, timeVars>>
    BY <1>7 DEF ReceiveDispatch, ReceiveCancel, Register, Finish, WorkStep, BeginSend,
      Write, Buffer
  <1>8. UNCHANGED vars => UNCHANGED <<lifeVars, attached, timeVars>>
    BY DEF vars
  <1> HIDE DEF Goal
  <1> QED
    BY <1>1, <1>2, <1>3, <1>4, <1>5, <1>6, <1>7, <1>8 DEF Next, LifeStep, Quiescent

\* The goroutines are well typed after every step, and the Dispatcher's table
\* holds running ones only.
LEMMA WorkType ==
  ASSUME Inv, [Next]_vars
  PROVE  /\ work' \in [Dispatches -> WorkPCs] /\ next' \in [Dispatches -> 1..ResultNo]
         /\ snap' \in [Dispatches -> 0..MaxConn]
         /\ inFlight' \subseteq Dispatches /\ cancelled' \subseteq Dispatches
         /\ InFlightRuns'
  <1> DEFINE Goal ==
        /\ work \in [Dispatches -> WorkPCs] /\ next \in [Dispatches -> 1..ResultNo]
        /\ snap \in [Dispatches -> 0..MaxConn]
        /\ inFlight \subseteq Dispatches /\ cancelled \subseteq Dispatches
        /\ InFlightRuns
  <1> SUFFICES Goal'
    OBVIOUS
  <1>0. Goal /\ attached \in 0..MaxConn
    BY DEF Inv, TypeOK
  <1>n. ResultNo \in Nat \ {0}
    BY NFramesAssumption DEF ResultNo
  <1> USE <1>0, <1>n, MaxConnAssumption DEF workVars, InFlightRuns, WorkPCs
  <1>1. ASSUME NEW d \in Dispatches, ReceiveDispatch(d) \/ ReceiveCancel(d)
        PROVE  Goal'
    BY <1>1 DEF ReceiveDispatch, ReceiveCancel
  <1>2. ASSUME NEW d \in Dispatches, Register(d) PROVE Goal'
    BY <1>2 DEF Register
  <1>3. ASSUME NEW d \in Dispatches, Finish(d) PROVE Goal'
    BY <1>3 DEF Finish
  <1>4. ASSUME NEW d \in Dispatches, BeginSend(d) PROVE Goal'
    BY <1>4 DEF BeginSend
  <1>5. ASSUME NEW d \in Dispatches, work[d] \in {"sending", "buffering"}, AfterSend(d),
               UNCHANGED <<inFlight, cancelled>>
        PROVE  Goal'
    BY <1>5 DEF AfterSend
  <1>6. ASSUME NEW d \in Dispatches, Write(d) PROVE Goal'
    <2>1. CASE snap[d] = conn /\ up
      BY <1>5, <1>6, <2>1 DEF Write
    <2>2. CASE ~(snap[d] = conn /\ up)
      BY <1>6, <2>2 DEF Write
    <2> QED
      BY <2>1, <2>2
  <1>7. ASSUME NEW d \in Dispatches, Buffer(d) PROVE Goal'
    BY <1>5, <1>7 DEF Buffer
  <1>8. ASSUME AbandonCancelAll \/ TimerCancelAll PROVE Goal'
    BY <1>8 DEF AbandonCancelAll, TimerCancelAll
  <1>9. ASSUME UNCHANGED workVars PROVE Goal'
    BY <1>9
  <1>10. ASSUME NEW r \in BOOLEAN, Connect(r) PROVE UNCHANGED workVars
    BY <1>10 DEF Connect
  <1>11. ASSUME \/ AbandonDrop \/ Attach \/ FlushItem \/ FlushDone \/ RunEnds
                \/ Detach \/ ConnectionDies \/ TimerFires \/ TimerDrop
         PROVE  UNCHANGED workVars
    BY <1>11 DEF AbandonDrop, Attach, FlushItem, FlushDone, RunEnds, Detach,
      ConnectionDies, TimerFires, TimerDrop
  <1>12. UNCHANGED vars => UNCHANGED workVars
    BY DEF vars
  <1> HIDE DEF Goal
  <1> QED
    BY <1>1, <1>2, <1>3, <1>4, <1>6, <1>7, <1>8, <1>9, <1>10, <1>11, <1>12
    DEF Next, LifeStep, WorkStep, Quiescent

\* The types and bounds of what is handed over, and where it is.
Boxes ==
  /\ envelopes \in Seq(Items) /\ Len(envelopes) <= MaxEnvelopes
  /\ frames \in Seq(Items) /\ Len(frames) <= MaxFrames
  /\ backlog \in Seq(Items) /\ wire \in Seq(Items) /\ discarded \subseteq Items
  /\ Apart /\ BacklogIsFlushed

\* A step that hands over nothing keeps what is still to come new.
LEMMA NothingHanded ==
  ASSUME Inv, Everywhere' \subseteq Everywhere,
         \A d \in Dispatches : work'[d] # "done" =>
           work[d] # "done" /\ next'[d] \in next[d]..ResultNo
  PROVE  FutureIsNew'
  <1> SUFFICES ASSUME NEW d \in Dispatches, work'[d] # "done",
                      NEW i \in (next'[d])..ResultNo
               PROVE  Item(d, i) \notin Everywhere'
    BY DEF FutureIsNew, ResultNo
  <1>1. ResultNo \in Nat /\ next[d] \in 1..ResultNo
    BY NFramesAssumption DEF Inv, TypeOK, ResultNo
  <1>2. i \in next[d]..ResultNo /\ work[d] # "done"
    BY <1>1
  <1> QED
    BY <1>2 DEF Inv, FutureIsNew

\* A step that hands over the item that was next, and goes on behind it.
LEMMA NextHanded ==
  ASSUME Inv, NEW d \in Dispatches, work[d] # "done", AfterSend(d),
         Everywhere' \subseteq Everywhere \cup {Item(d, next[d])}
  PROVE  FutureIsNew'
  <1> SUFFICES ASSUME NEW e \in Dispatches, work'[e] # "done",
                      NEW i \in (next'[e])..ResultNo
               PROVE  Item(e, i) \notin Everywhere'
    BY DEF FutureIsNew, ResultNo
  <1>1. /\ ResultNo \in Nat /\ next[e] \in 1..ResultNo /\ next[d] \in 1..ResultNo
        /\ work \in [Dispatches -> WorkPCs] /\ next \in [Dispatches -> 1..ResultNo]
    BY NFramesAssumption DEF Inv, TypeOK, ResultNo
  <1>2. CASE e = d
    <2>1. next[d] # ResultNo /\ next'[d] = next[d] + 1
      BY <1>1, <1>2 DEF AfterSend
    <2>2. i \in next[d]..ResultNo /\ i # next[d]
      BY <1>1, <1>2, <2>1
    <2>3. Item(d, i) # Item(d, next[d])
      BY <2>2 DEF Item
    <2> QED
      BY <1>2, <2>2, <2>3 DEF Inv, FutureIsNew
  <1>3. CASE e # d
    <2>1. next'[e] = next[e] /\ work[e] # "done"
      BY <1>1, <1>3 DEF AfterSend
    <2>2. Item(e, i) # Item(d, next[d])
      BY <1>3 DEF Item
    <2> QED
      BY <2>1, <2>2 DEF Inv, FutureIsNew
  <1> QED
    BY <1>2, <1>3

\* No step loses track of an item, duplicates it or brings it back.
LEMMA BoxStep ==
  ASSUME Inv, [Next]_vars
  PROVE  Boxes' /\ FutureIsNew'
  <1>0. Boxes /\ ResultNo \in Nat /\ next \in [Dispatches -> 1..ResultNo]
    BY NFramesAssumption DEF Inv, TypeOK, Boxes, ResultNo
  <1>e. <<>> \in Seq(Items) /\ Len(<<>>) <= MaxEnvelopes /\ Len(<<>>) <= MaxFrames
    BY EmptyFact, BufferAssumption
  <1> USE DEF lifeVars, boxVars, timeVars, workVars
  <1>a. ASSUME UNCHANGED <<work, next>>, Everywhere' \subseteq Everywhere
        PROVE  FutureIsNew'
    BY <1>0, <1>a, NothingHanded
  <1>1. ASSUME Drop, UNCHANGED <<backlog, wire, work, next>>, BacklogIsFlushed'
        PROVE  Boxes' /\ FutureIsNew'
    <2>1. /\ Elements(frames') = {} /\ Elements(envelopes') = {}
          /\ NoRepeat(frames') /\ NoRepeat(envelopes')
          /\ discarded' = discarded \cup Elements(frames) \cup Elements(envelopes)
      BY <1>1, EmptyFact DEF Drop
    <2>2. Elements(frames) \subseteq Items /\ Elements(envelopes) \subseteq Items
      BY <1>0 DEF Boxes, Elements
    <2>3. Apart' /\ Everywhere' \subseteq Everywhere
      BY <1>0, <1>1, <2>1 DEF Boxes, Apart, Everywhere
    <2> QED
      BY <1>0, <1>1, <1>a, <1>e, <2>1, <2>2, <2>3 DEF Boxes, Drop
  <1>2. ASSUME AbandonDrop PROVE Boxes' /\ FutureIsNew'
    BY <1>0, <1>1, <1>2 DEF AbandonDrop, Boxes, BacklogIsFlushed
  <1>3. ASSUME TimerDrop PROVE Boxes' /\ FutureIsNew'
    BY <1>0, <1>1, <1>3 DEF TimerDrop, Boxes, BacklogIsFlushed
  <1>4. ASSUME Attach PROVE Boxes' /\ FutureIsNew'
    <2>1. /\ Elements(frames') = {} /\ Elements(envelopes') = {}
          /\ NoRepeat(frames') /\ NoRepeat(envelopes') /\ UNCHANGED wire
          /\ backlog = <<>> /\ Elements(backlog) = {}
      BY <1>0, <1>4, EmptyFact DEF Attach, Boxes, BacklogIsFlushed
    <2>2. /\ frames \o envelopes \in Seq(Items)
          /\ Elements(frames \o envelopes) = Elements(frames) \cup Elements(envelopes)
          /\ NoRepeat(frames \o envelopes)
      BY <1>0, ConcatFact DEF Boxes, Apart
    <2>3. Elements(frames) \subseteq Items /\ Elements(envelopes) \subseteq Items
      BY <1>0 DEF Boxes, Elements
    <2>4. CASE resume
      <3>1. backlog' = frames \o envelopes /\ UNCHANGED discarded /\ BacklogIsFlushed'
        BY <1>4, <2>4 DEF Attach, BacklogIsFlushed
      <3>2. Apart' /\ Everywhere' \subseteq Everywhere
        BY <1>0, <2>1, <2>2, <3>1 DEF Boxes, Apart, Everywhere
      <3> QED
        BY <1>0, <1>4, <1>a, <1>e, <2>1, <2>2, <3>1, <3>2 DEF Attach, Boxes
    <2>5. CASE ~resume
      <3>1. /\ backlog' = <<>> /\ Elements(backlog') = {} /\ NoRepeat(backlog')
            /\ BacklogIsFlushed'
            /\ discarded' = discarded \cup Elements(frames) \cup Elements(envelopes)
        BY <1>4, <2>5, EmptyFact DEF Attach, BacklogIsFlushed
      <3>2. Apart' /\ Everywhere' \subseteq Everywhere
        BY <1>0, <2>1, <3>1 DEF Boxes, Apart, Everywhere
      <3> QED
        BY <1>0, <1>4, <1>a, <1>e, <2>1, <2>3, <3>1, <3>2 DEF Attach, Boxes
    <2> QED
      BY <2>4, <2>5
  <1>5. ASSUME FlushItem PROVE Boxes' /\ FutureIsNew'
    <2>1. /\ UNCHANGED <<frames, envelopes, discarded, work, next>>
          /\ backlog # <<>> /\ life = "flush"
      BY <1>5 DEF FlushItem
    <2>2. CASE up
      <3>1. /\ wire' = Append(wire, Head(backlog)) /\ backlog' = Tail(backlog)
            /\ BacklogIsFlushed'
        BY <1>5, <2>2 DEF FlushItem, BacklogIsFlushed
      <3>2. /\ Tail(backlog) \in Seq(Items) /\ Head(backlog) \in Items
            /\ Head(backlog) \in Elements(backlog) /\ NoRepeat(Tail(backlog))
            /\ Elements(Tail(backlog)) \subseteq Elements(backlog)
            /\ Head(backlog) \notin Elements(Tail(backlog))
        BY <1>0, <2>1, TailFact DEF Boxes, Apart
      <3>3. Head(backlog) \notin Elements(wire)
        BY <1>0, <3>2 DEF Boxes, Apart
      <3>4. /\ Append(wire, Head(backlog)) \in Seq(Items)
            /\ NoRepeat(Append(wire, Head(backlog)))
            /\ Elements(Append(wire, Head(backlog))) = Elements(wire) \cup {Head(backlog)}
        BY <1>0, <3>2, <3>3, AppendFact DEF Boxes, Apart
      <3>5. Apart' /\ Everywhere' \subseteq Everywhere
        BY <1>0, <2>1, <3>1, <3>2, <3>4 DEF Boxes, Apart, Everywhere
      <3> QED
        BY <1>0, <1>a, <2>1, <3>1, <3>2, <3>4, <3>5 DEF Boxes
    <2>3. CASE ~up
      <3>1. backlog' = <<>> /\ UNCHANGED wire /\ BacklogIsFlushed'
        BY <1>5, <2>3 DEF FlushItem, BacklogIsFlushed
      <3>2. Apart' /\ Everywhere' \subseteq Everywhere
        BY <1>0, <2>1, <3>1, EmptyFact DEF Boxes, Apart, Everywhere
      <3> QED
        BY <1>0, <1>a, <1>e, <2>1, <3>1, <3>2 DEF Boxes
    <2> QED
      BY <2>2, <2>3
  <1>6. ASSUME NEW d \in Dispatches, Write(d) PROVE Boxes' /\ FutureIsNew'
    <2> DEFINE x == Item(d, next[d])
    <2>1. UNCHANGED <<frames, envelopes, backlog, discarded, life>> /\ work[d] = "sending"
      BY <1>6 DEF Write
    <2>2. CASE snap[d] = conn /\ up
      <3>1. wire' = Append(wire, x) /\ AfterSend(d)
        BY <1>6, <2>2 DEF Write
      <3>2. x \in Items /\ x \notin Everywhere
        BY <2>1, NextItem
      <3> HIDE DEF x
      <3>3. /\ Append(wire, x) \in Seq(Items) /\ NoRepeat(Append(wire, x))
            /\ Elements(Append(wire, x)) = Elements(wire) \cup {x}
        BY <1>0, <3>2, AppendFact DEF Boxes, Apart, Everywhere
      <3>4. Apart' /\ Everywhere' \subseteq Everywhere \cup {x}
        BY <1>0, <2>1, <3>1, <3>2, <3>3 DEF Boxes, Apart, Everywhere
      <3>5. FutureIsNew'
        BY <2>1, <3>1, <3>4, NextHanded DEF x
      <3> QED
        BY <1>0, <2>1, <3>1, <3>3, <3>4, <3>5 DEF Boxes, BacklogIsFlushed
    <2>3. CASE ~(snap[d] = conn /\ up)
      <3>1. UNCHANGED <<next, wire>> /\ work' = [work EXCEPT ![d] = "buffering"]
        BY <1>6, <2>3 DEF Write
      <3>2. \A e \in Dispatches : work'[e] # "done" => work[e] # "done"
        BY <2>1, <3>1 DEF Inv, TypeOK
      <3>3. FutureIsNew'
        BY <1>0, <2>1, <3>1, <3>2, NothingHanded DEF Everywhere
      <3> QED
        BY <1>0, <2>1, <3>1, <3>3 DEF Boxes, Apart, BacklogIsFlushed
    <2> QED
      BY <2>2, <2>3
  <1>7. ASSUME NEW d \in Dispatches, Buffer(d) PROVE Boxes' /\ FutureIsNew'
    <2> DEFINE x == Item(d, next[d])
    <2>1. UNCHANGED <<wire, backlog, life>> /\ AfterSend(d) /\ work[d] # "done"
      BY <1>7 DEF Buffer
    <2>2. x \in Items /\ x \notin Everywhere
      BY <2>1, NextItem
    <2>3. \/ /\ envelopes' = Push(envelopes, MaxEnvelopes, x) /\ UNCHANGED frames
             /\ discarded' = discarded \cup (Elements(envelopes) \ Elements(envelopes'))
          \/ /\ frames' = Push(frames, MaxFrames, x) /\ UNCHANGED envelopes
             /\ discarded' = discarded \cup (Elements(frames) \ Elements(frames'))
      BY <1>7 DEF Buffer
    <2>i. Elements(frames) \subseteq Items /\ Elements(envelopes) \subseteq Items
      BY <1>0 DEF Boxes, Elements
    <2> SUFFICES ASSUME TRUE
                 PROVE  /\ envelopes' \in Seq(Items) /\ Len(envelopes') <= MaxEnvelopes
                        /\ frames' \in Seq(Items) /\ Len(frames') <= MaxFrames
                        /\ discarded' \subseteq Items
                        /\ Apart' /\ Everywhere' \subseteq Everywhere \cup {x}
      BY <1>0, <2>1, NextHanded DEF Boxes, BacklogIsFlushed
    <2> HIDE DEF x
    <2>4. CASE /\ envelopes' = Push(envelopes, MaxEnvelopes, x) /\ UNCHANGED frames
               /\ discarded' = discarded \cup (Elements(envelopes) \ Elements(envelopes'))
      <3>1. /\ envelopes' \in Seq(Items) /\ Len(envelopes') <= MaxEnvelopes
            /\ NoRepeat(envelopes') /\ Elements(envelopes') \subseteq Elements(envelopes) \cup {x}
        BY <1>0, <2>2, <2>4, PushFact, BufferAssumption DEF Boxes, Apart, Everywhere
      <3>2. Apart' /\ Everywhere' \subseteq Everywhere \cup {x}
        BY <1>0, <2>1, <2>2, <2>4, <3>1 DEF Boxes, Apart, Everywhere
      <3> QED
        BY <1>0, <2>4, <2>i, <3>1, <3>2 DEF Boxes
    <2>5. CASE /\ frames' = Push(frames, MaxFrames, x) /\ UNCHANGED envelopes
               /\ discarded' = discarded \cup (Elements(frames) \ Elements(frames'))
      <3>1. /\ frames' \in Seq(Items) /\ Len(frames') <= MaxFrames
            /\ NoRepeat(frames') /\ Elements(frames') \subseteq Elements(frames) \cup {x}
        BY <1>0, <2>2, <2>5, PushFact, BufferAssumption DEF Boxes, Apart, Everywhere
      <3>2. Apart' /\ Everywhere' \subseteq Everywhere \cup {x}
        BY <1>0, <2>1, <2>2, <2>5, <3>1 DEF Boxes, Apart, Everywhere
      <3> QED
        BY <1>0, <2>5, <2>i, <3>1, <3>2 DEF Boxes
    <2> QED
      BY <2>3, <2>4, <2>5
  <1>8. ASSUME UNCHANGED <<wire, backlog, frames, envelopes, discarded>>,
               BacklogIsFlushed',
               \A d \in Dispatches : work'[d] # "done" =>
                 work[d] # "done" /\ next'[d] \in next[d]..ResultNo
        PROVE  Boxes' /\ FutureIsNew'
    <2>1. FutureIsNew'
      BY <1>8, NothingHanded DEF Everywhere
    <2> QED
      BY <1>0, <1>8, <2>1 DEF Boxes, Apart
  <1>s. \A d \in Dispatches : next[d] \in next[d]..ResultNo /\ ResultNo \in next[d]..ResultNo
    BY <1>0
  <1>9. ASSUME NEW d \in Dispatches,
               ReceiveDispatch(d) \/ ReceiveCancel(d) \/ Register(d) \/ Finish(d)
               \/ BeginSend(d)
        PROVE  Boxes' /\ FutureIsNew'
    <2>1. UNCHANGED <<wire, backlog, frames, envelopes, discarded, life>>
      BY <1>9 DEF ReceiveDispatch, ReceiveCancel, Register, Finish, BeginSend
    <2>2. \A e \in Dispatches : work'[e] # "done" =>
            work[e] # "done" /\ next'[e] \in next[e]..ResultNo
      BY <1>9, <1>0, <1>s DEF ReceiveDispatch, ReceiveCancel, Register, Finish,
        BeginSend, Inv, TypeOK
    <2> QED
      BY <1>0, <1>8, <2>1, <2>2 DEF Boxes, BacklogIsFlushed
  <1>10. ASSUME UNCHANGED <<work, next, wire, backlog, frames, envelopes, discarded>>,
                BacklogIsFlushed'
         PROVE  Boxes' /\ FutureIsNew'
    BY <1>8, <1>10, <1>s
  <1>11. ASSUME NEW r \in BOOLEAN, Connect(r) PROVE Boxes' /\ FutureIsNew'
    BY <1>0, <1>10, <1>11 DEF Connect, Boxes, BacklogIsFlushed
  <1>12. ASSUME AbandonCancelAll \/ FlushDone \/ RunEnds \/ Detach \/ ConnectionDies
         PROVE  Boxes' /\ FutureIsNew'
    BY <1>0, <1>10, <1>12 DEF AbandonCancelAll, FlushDone, RunEnds, Detach,
      ConnectionDies, Boxes, BacklogIsFlushed
  <1>13. ASSUME TimerFires \/ TimerCancelAll PROVE Boxes' /\ FutureIsNew'
    BY <1>0, <1>10, <1>13 DEF TimerFires, TimerCancelAll, Boxes, BacklogIsFlushed
  <1>14. ASSUME UNCHANGED vars PROVE Boxes' /\ FutureIsNew'
    BY <1>0, <1>10, <1>14 DEF vars, Boxes, BacklogIsFlushed
  <1> QED
    BY <1>2, <1>3, <1>4, <1>5, <1>6, <1>7, <1>9, <1>11, <1>12, <1>13, <1>14
    DEF Next, LifeStep, WorkStep, Quiescent

-----------------------------------------------------------------------------
\* Theorems

\* Every step keeps the invariant.
LEMMA NextInv == Inv /\ [Next]_vars => Inv'
  BY FlagType, LifeType, WorkType, BoxStep DEF Inv, TypeOK, Boxes

\* The invariant holds in every reachable state.
LEMMA InvHolds == Spec => []Inv
  BY InitInv, NextInv, PTL DEF Spec

\* Every variable keeps its type, and Outbox.envelopes and Outbox.frames their
\* bounds, however long the agent stays disconnected.
THEOREM TypeCorrect == Spec => []TypeOK
  <1>1. Inv => TypeOK
    BY DEF Inv
  <1> QED
    BY <1>1, InvHolds, PTL

\* The Outbox hands over a frame or a result once: Attach, its flush, a failed
\* write, Drop and overflow neither duplicate an item nor bring one back.
THEOREM HandedOnceHolds == Spec => []HandedOnce
  <1>1. ASSUME Inv PROVE HandedOnce
    <2>1. /\ wire \in Seq(Items) /\ backlog \in Seq(Items) /\ frames \in Seq(Items)
          /\ envelopes \in Seq(Items) /\ Apart
      BY <1>1 DEF Inv, TypeOK
    <2> DEFINE a == wire \o backlog
               b == a \o frames
    <2>2. /\ a \in Seq(Items) /\ NoRepeat(a)
          /\ Elements(a) = Elements(wire) \cup Elements(backlog)
      BY <2>1, ConcatFact DEF Apart
    <2>h. Handed = b \o envelopes
      BY DEF Handed
    <2>3. /\ b \in Seq(Items) /\ NoRepeat(b)
          /\ Elements(b) = Elements(a) \cup Elements(frames)
      <3> HIDE DEF a
      <3>1. Elements(a) \cap Elements(frames) = {} /\ NoRepeat(frames)
        BY <2>1, <2>2 DEF Apart
      <3> QED
        BY <2>1, <2>2, <3>1, ConcatFact
    <2>4. /\ NoRepeat(Handed)
          /\ Elements(Handed) = Elements(b) \cup Elements(envelopes)
      <3> HIDE DEF a, b
      <3>1. Elements(b) \cap Elements(envelopes) = {} /\ NoRepeat(envelopes)
        BY <2>1, <2>2, <2>3 DEF Apart
      <3> QED
        BY <2>1, <2>3, <2>h, <3>1, ConcatFact
    <2> HIDE DEF a, b
    <2>5. Elements(Handed) \cap discarded = {}
      BY <2>1, <2>2, <2>3, <2>4 DEF Apart
    <2>6. \A d \in Dispatches :
            work[d] # "done" => Item(d, next[d]) \notin Elements(Handed) \cup discarded
      BY <1>1, <2>2, <2>3, <2>4, NextItem DEF Everywhere
    <2> QED
      BY <2>4, <2>5, <2>6 DEF HandedOnce, NoRepeat
  <1> QED
    BY <1>1, InvHolds, PTL

\* Outbox.conn is nil or the lifecycle's connection, never one it replaced.
THEOREM AttachedIsCurrentHolds == Spec => []AttachedIsCurrent
  <1>1. Inv => AttachedIsCurrent
    BY DEF Inv, AttachedInBetween, AttachedIsCurrent
  <1> QED
    BY <1>1, InvHolds, PTL

\* Dispatcher.inFlight holds running handlers only: their deferred unregister
\* runs before the result is sent.
THEOREM InFlightRunsHolds == Spec => []InFlightRuns
  <1>1. Inv => InFlightRuns
    BY DEF Inv
  <1> QED
    BY <1>1, InvHolds, PTL
=============================================================================
