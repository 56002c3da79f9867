--------------------------- MODULE SessionsProofs ---------------------------
(***************************************************************************)
(* What a session promises for any number of streams, refreshers, calls and *)
(* jobs and any capacity of its channel and its replay buffer: a client     *)
(* that resumes its stream misses only events a stale handler gave an ID    *)
(* after the resume, a refreshed subscription is not                        *)
(* left to a dead goroutine, a retry starts no second watch, nothing stays  *)
(* in a cancel registry, and a watch's last word on its job is the last.    *)
(***************************************************************************)
EXTENDS Sessions, SequenceTheorems, TLAPS

-----------------------------------------------------------------------------
\* The inductive invariant

\* The replay buffer holds the last IDs given, all of them in order; it is
\* empty only before the first.
Contiguous ==
  /\ \A i \in 1 .. Len(events) : events[i] + Len(events) = nextID - 1 + i
  /\ Len(events) = 0 => nextID = 1

\* A client with one connection at a time has every event since it began up to
\* the last ID it received, and all of them if a stream of its is intact, except
\* those that went astray.
ClientUpToDate ==
  ~excused =>
    /\ \E k \in 0 .. (nextID - 1) :
         /\ k = 0 \/ k \in got
         /\ \A i \in got : i <= k
         /\ begun .. k \subseteq got \cup strayed
    /\ \A s \in Streams : Intact(s) => begun .. (nextID - 1) \subseteq got \cup strayed

\* The call that audits its start has the job it created.
HasJob == \A c \in Calls : call[c] = "audit" => mine[c] \in Jobs

\* Only the last job created can be within its time limit, and it is not over.
ArmedIsLatest == \A j \in Jobs : timer[j] = "armed" => j = latest /\ job[j] \notin Terminal

\* A watch that has ended has stored a terminal status.
EndedIsTerminal ==
  \A j \in Jobs :
    /\ watch[j] \in WatchEnded => job[j] \in Terminal
    /\ watch[j] = "settle" => outcome[j] \in Terminal

StreamInv == StreamTypeOK /\ Contiguous /\ ClientUpToDate
SubInv == SubTypeOK /\ NoDeadRefresher
WatchInv == WatchTypeOK /\ HasJob /\ ArmedIsLatest /\ EndedIsTerminal /\ NoLeakedCancel

Inv == StreamInv /\ SubInv /\ WatchInv

-----------------------------------------------------------------------------
\* The replay buffer

\* Append and the trim of what is beyond the capacity.
LEMMA BufferFact ==
  ASSUME NEW n \in Nat \ {0}, NEW buf \in Seq(1 .. (n - 1)), Len(buf) <= ReplayCap,
         \A i \in 1 .. Len(buf) : buf[i] + Len(buf) = n - 1 + i
  PROVE  /\ Buffer(buf, n) \in Seq(1 .. n)
         /\ Len(Buffer(buf, n)) \in 1 .. ReplayCap
         /\ \A i \in 1 .. Len(Buffer(buf, n)) : Buffer(buf, n)[i] + Len(Buffer(buf, n)) = n + i
  <1> DEFINE all == Append(buf, n)
             d == IF Len(all) > ReplayCap THEN Len(all) - ReplayCap ELSE 0
             new == SubSeq(all, 1 + d, Len(all))
  <1>0. ReplayCap \in Nat \ {0} /\ Len(buf) \in Nat
    BY ReplayCapAssumption
  <1>1. /\ Len(all) = Len(buf) + 1 /\ all[Len(buf) + 1] = n
        /\ \A i \in 1 .. Len(buf) : all[i] = buf[i]
    OBVIOUS
  <1>2. \A i \in 1 .. Len(all) : all[i] \in 1 .. n /\ all[i] + Len(all) = n + i
    <2>1. \A i \in 1 .. Len(buf) : buf[i] \in 1 .. (n - 1)
      OBVIOUS
    <2>2. ASSUME NEW i \in 1 .. Len(all) PROVE all[i] \in 1 .. n /\ all[i] + Len(all) = n + i
      <3> DEFINE l == Len(buf)
                 x == all[i]
      <3>1. CASE i = l + 1
        <4>1. x = n /\ Len(all) = i
          BY <1>1, <3>1
        <4> HIDE DEF x, all
        <4>2. x \in 1 .. n /\ x + Len(all) = n + i
          BY <4>1
        <4> QED
          BY <4>2 DEF x
      <3>2. CASE i # l + 1
        <4>1. i \in 1 .. l /\ Len(all) = l + 1 /\ l \in Nat
          BY <1>0, <1>1, <3>2
        <4>2. x = buf[i] /\ buf[i] \in 1 .. (n - 1) /\ buf[i] + l = n - 1 + i
          BY <1>1, <2>1, <4>1
        <4> HIDE DEF x, l, all
        <4>3. x \in 1 .. (n - 1) /\ x + l = n - 1 + i
          BY <4>2
        <4>4. x \in 1 .. n /\ x + Len(all) = n + i
          BY <4>1, <4>3
        <4> QED
          BY <4>4 DEF x
      <3> QED
        BY <3>1, <3>2
    <2> QED
      BY <2>2
  <1>3. d \in {0, 1} /\ (d = 0 => Len(all) <= ReplayCap) /\ (d = 1 => Len(all) = ReplayCap + 1)
        /\ Len(all) \in Nat
    BY <1>0, <1>1
  <1> HIDE DEF all, d
  <1>4. /\ new \in Seq(1 .. n)
        /\ Len(new) = (IF 1 + d <= Len(all) THEN Len(all) - (1 + d) + 1 ELSE 0)
        /\ \A i \in 1 .. (Len(all) - (1 + d) + 1) : new[i] = all[(1 + d) + i - 1]
    <2>1. \A i \in (1 + d) .. Len(all) : all[i] \in 1 .. n
      BY <1>2, <1>3
    <2>2. 1 + d \in Int /\ Len(all) \in Int
      BY <1>3
    <2> HIDE DEF new
    <2> QED
      BY <2>1, <2>2, SubSeqProperties DEF new
  <1> HIDE DEF new
  <1>5. Len(new) = Len(all) - d /\ Len(new) \in 1 .. ReplayCap
    BY <1>0, <1>1, <1>3, <1>4
  <1>6. ASSUME NEW i \in 1 .. Len(new) PROVE new[i] + Len(new) = n + i
    <2>1. new[i] = all[d + i] /\ d + i \in 1 .. Len(all)
      BY <1>1, <1>3, <1>4, <1>5
    <2>2. all[d + i] \in 1 .. n /\ all[d + i] + Len(all) = n + (d + i)
      BY <1>2, <2>1
    <2> DEFINE x == new[i]
    <2>3. x \in 1 .. n /\ x + Len(all) = n + (d + i)
      BY <2>1, <2>2
    <2> HIDE DEF x
    <2>4. x + Len(new) = n + i
      BY <1>3, <1>5, <2>3
    <2> QED
      BY <2>4 DEF x
  <1>7. Buffer(buf, n) = new
    BY DEF Buffer, new, d, all
  <1> QED
    BY <1>4, <1>5, <1>6, <1>7

\* What Since returns when the buffer still has what comes after last.
LEMMA SinceFact ==
  ASSUME StreamTypeOK, Contiguous, NEW last \in 0 .. (nextID - 1), Replayable(last)
  PROVE  Since(last) = (last + 1) .. (nextID - 1)
  <1>0. nextID \in Nat \ {0} /\ events \in Seq(1 .. (nextID - 1)) /\ Len(events) \in Nat
        /\ DOMAIN events = 1 .. Len(events)
    BY DEF StreamTypeOK
  <1>1. ASSUME NEW id \in (last + 1) .. (nextID - 1) PROVE id \in Since(last)
    <2>1. Len(events) # 0 /\ events # <<>>
      BY <1>0 DEF Contiguous
    <2> DEFINE l == Len(events)
               x == events[1]
    <2>2. last + 1 >= x /\ x + l = nextID - 1 + 1 /\ x \in 1 .. (nextID - 1) /\ l \in Nat
      BY <1>0, <2>1 DEF Replayable, Contiguous
    <2> DEFINE i == id + l + 1 - nextID
    <2>3. i \in 1 .. l /\ nextID - 1 + i = id + l
      <3> HIDE DEF l, x
      <3> QED
        BY <1>0, <2>2
    <2>4. events[i] = id
      <3> DEFINE y == events[i]
      <3>1. y + l = nextID - 1 + i /\ y \in 1 .. (nextID - 1)
        BY <1>0, <2>3 DEF Contiguous
      <3> HIDE DEF i, l, y
      <3>2. y = id
        BY <1>0, <2>2, <2>3, <3>1
      <3> QED
        BY <3>2 DEF y
    <2> HIDE DEF i
    <2> QED
      BY <1>0, <2>3, <2>4 DEF Since, ToSet
  <1>2. ASSUME NEW id \in Since(last) PROVE id \in (last + 1) .. (nextID - 1)
    BY <1>0, <1>2 DEF Since, ToSet
  <1> QED
    BY <1>1, <1>2

\* The last ID of a client.
LEMMA LastFact ==
  ASSUME NEW k \in Nat, got \subseteq Nat, k = 0 \/ k \in got, \A i \in got : i <= k
  PROVE  LastReceived = k
  <1> DEFINE S == got \cup {0}
  <1>1. k \in S /\ \A y \in S : k >= y
    OBVIOUS
  <1>2. \A x \in S : (\A y \in S : x >= y) => x = k
    <2> SUFFICES ASSUME NEW x \in S, \A y \in S : x >= y PROVE x = k
      OBVIOUS
    <2>1. x \in Nat /\ x >= k /\ k >= x
      BY <1>1
    <2> QED
      BY <2>1
  <1>3. Max(S) = CHOOSE x \in S : \A y \in S : x >= y
    BY DEF Max
  <1> HIDE DEF S
  <1>4. Max(S) = k
    BY <1>1, <1>2, <1>3
  <1> QED
    BY <1>4 DEF LastReceived, S

-----------------------------------------------------------------------------
\* The session and its streams

LEMMA SpendType ==
  ASSUME budget \in [Kinds -> Nat], NEW k \in Kinds, Spend(k)
  PROVE  budget' \in [Kinds -> Nat]
  <1>1. budget[k] - 1 \in Nat /\ budget' = [budget EXCEPT ![k] = budget[k] - 1]
    BY DEF Spend
  <1> QED
    BY <1>1

LEMMA EmitType ==
  ASSUME queue \in 0 .. ChanCap, Emit
  PROVE  queue' \in 0 .. ChanCap
  BY ChanCapAssumption DEF Emit

\* A step that leaves the replay buffer, the streams and the client alone.
LEMMA StreamCarry ==
  ASSUME StreamInv, UNCHANGED replayVars, life' \in {"new", "live", "ended"},
         idle' \in BOOLEAN, sweeping' \in BOOLEAN, mirror' \in BOOLEAN,
         queue' \in 0 .. ChanCap, budget' \in [Kinds -> Nat]
  PROVE  StreamInv'
  <1>1. UNCHANGED <<events, nextID, stream, cut, got, begun, excused, strayed>>
    BY DEF replayVars, pastVars
  <1>2. excused \in BOOLEAN
    BY DEF StreamInv, StreamTypeOK
  <1>3. StreamTypeOK'
    BY <1>1, <1>2 DEF StreamInv, StreamTypeOK
  <1>4. Contiguous' /\ ClientUpToDate'
    BY <1>1 DEF StreamInv, Contiguous, ClientUpToDate, Intact
  <1> QED
    BY <1>3, <1>4 DEF StreamInv

\* What the store does.
LEMMA StoreStep ==
  ASSUME StreamInv,
         Initialize \/ HandleDelete \/ IdlePasses \/ SweepCollect \/ SweepDelete \/ MirrorExpires
  PROVE  StreamInv'
  <1>0. /\ life \in {"new", "live", "ended"} /\ idle \in BOOLEAN /\ sweeping \in BOOLEAN
        /\ mirror \in BOOLEAN /\ queue \in 0 .. ChanCap /\ budget \in [Kinds -> Nat]
    BY DEF StreamInv, StreamTypeOK
  <1>1. UNCHANGED <<replayVars, queue, budget>>
    BY DEF Initialize, HandleDelete, IdlePasses, SweepCollect, SweepDelete, MirrorExpires
  <1>2. life' \in {"new", "live", "ended"}
    BY <1>0 DEF Initialize, HandleDelete, IdlePasses, SweepCollect, SweepDelete,
      MirrorExpires, End
  <1>3. idle' \in BOOLEAN /\ sweeping' \in BOOLEAN
    BY <1>0 DEF Initialize, HandleDelete, IdlePasses, SweepCollect, SweepDelete,
      MirrorExpires, End
  <1>4. mirror' \in BOOLEAN
    <2>1. CASE Initialize
      <3>1. (budget["redis"] > 0) \in BOOLEAN
        OBVIOUS
      <3>2. mirror' = FALSE \/ mirror' = (budget["redis"] > 0)
        BY <2>1, Zenon DEF Initialize
      <3> QED
        BY <3>1, <3>2, Zenon
    <2>2. CASE HandleDelete \/ SweepDelete
      <3>1. mirror' \in {FALSE, mirror} \/ mirror' = mirror
        BY <2>2 DEF HandleDelete, SweepDelete, End
      <3> QED
        BY <1>0, <3>1, Zenon
    <2>3. CASE IdlePasses \/ SweepCollect \/ MirrorExpires
      BY <1>0, <2>3 DEF IdlePasses, SweepCollect, MirrorExpires
    <2> QED
      BY <2>1, <2>2, <2>3
  <1> QED
    BY <1>0, <1>1, <1>2, <1>3, <1>4, StreamCarry

\* Requests touch the session and spend; emitters fill EventCh.
LEMMA TouchStep ==
  ASSUME StreamInv, UNCHANGED replayVars, Touch \/ UNCHANGED storeVars,
         UNCHANGED queue \/ Emit, (\E k \in Kinds : Spend(k)) \/ UNCHANGED budget
  PROVE  StreamInv'
  <1>0. /\ life \in {"new", "live", "ended"} /\ idle \in BOOLEAN /\ sweeping \in BOOLEAN
        /\ mirror \in BOOLEAN /\ queue \in 0 .. ChanCap /\ budget \in [Kinds -> Nat]
    BY DEF StreamInv, StreamTypeOK
  <1>1. UNCHANGED <<life, sweeping, mirror>> /\ idle' \in BOOLEAN
    BY <1>0 DEF Touch, storeVars
  <1>2. queue' \in 0 .. ChanCap /\ budget' \in [Kinds -> Nat]
    BY <1>0, EmitType, SpendType
  <1> QED
    BY <1>0, <1>1, <1>2, StreamCarry

LEMMA StreamStep ==
  ASSUME StreamInv, StreamNext
  PROVE  StreamInv'
  <1>0. /\ StreamTypeOK /\ Contiguous /\ ClientUpToDate
        /\ life \in {"new", "live", "ended"} /\ idle \in BOOLEAN /\ sweeping \in BOOLEAN
        /\ mirror \in BOOLEAN /\ excused \in BOOLEAN /\ queue \in 0 .. ChanCap
        /\ nextID \in Nat \ {0} /\ events \in Seq(1 .. (nextID - 1)) /\ Len(events) <= ReplayCap
        /\ stream \in [Streams -> StreamPCs] /\ cut \subseteq Streams
        /\ got \subseteq 1 .. (nextID - 1) /\ budget \in [Kinds -> Nat]
        /\ begun \in 1 .. nextID /\ strayed \subseteq 1 .. (nextID - 1)
    BY DEF StreamInv, StreamTypeOK
  <1>1. CASE OpenFresh
    <2> DEFINE f == FreeStream
    <2>1. f \in Streams /\ stream[f] = "closed"
      BY <1>1 DEF OpenFresh, CanOpen, FreeStream
    <2>2. /\ UNCHANGED <<life, sweeping, mirror, queue, events, nextID, cut, got, strayed>>
          /\ idle' = FALSE /\ got = {} /\ stream' = [stream EXCEPT ![f] = "open"]
          /\ begun' = nextID
      BY <1>1 DEF OpenFresh, Touch
    <2>3. budget' \in [Kinds -> Nat]
      BY <1>0, <1>1, SpendType DEF OpenFresh, Kinds
    <2>4. excused' \in BOOLEAN
      BY <1>0, <1>1 DEF OpenFresh, Overlaps
    <2> HIDE DEF f
    <2>6. stream' \in [Streams -> StreamPCs] /\ stream'[f] = "open"
          /\ \A s \in Streams \ {f} : stream'[s] = stream[s]
      BY <1>0, <2>1, <2>2 DEF StreamPCs
    <2>7. StreamTypeOK'
      <3>1. begun' \in 1 .. nextID' /\ strayed' \subseteq 1 .. (nextID' - 1)
        BY <1>0, <2>2
      <3>2. {idle', sweeping', mirror', excused'} \subseteq BOOLEAN
        BY <1>0, <2>2, <2>4
      <3> QED
        BY <1>0, <2>2, <2>3, <2>6, <3>1, <3>2 DEF StreamTypeOK
    <2>8. Contiguous'
      BY <1>0, <2>2 DEF Contiguous
    <2>9. ClientUpToDate'
      <3>1. 0 \in 0 .. (nextID - 1) /\ begun' .. 0 = {} /\ begun' .. (nextID - 1) = {}
        BY <1>0, <2>2
      <3> QED
        BY <2>2, <3>1 DEF ClientUpToDate
    <2> QED
      BY <2>7, <2>8, <2>9 DEF StreamInv
  <1>2. CASE Resume
    <2>0. /\ UNCHANGED <<life, sweeping, mirror, queue, events, nextID, cut, begun, strayed>>
          /\ idle' = FALSE /\ got # {}
      BY <1>2 DEF Resume, Touch
    <2>b. budget' \in [Kinds -> Nat]
      BY <1>0, <1>2, SpendType DEF Resume, Kinds
    <2>1. CASE ~Replayable(LastReceived)
      <3>1. UNCHANGED <<stream, got, excused>>
        BY <1>2, <2>1 DEF Resume
      <3> QED
        BY <1>0, <2>0, <2>b, <3>1, StreamCarry DEF StreamInv, replayVars, pastVars
    <2>2. CASE Replayable(LastReceived)
      <3> DEFINE f == FreeStream
      <3>1. f \in Streams /\ stream[f] = "closed"
        BY <1>2 DEF Resume, CanOpen, FreeStream
      <3>2. /\ stream' = [stream EXCEPT ![f] = "open"]
            /\ got' = got \cup Since(LastReceived)
        BY <1>2, <2>2 DEF Resume
      <3>3. excused' \in BOOLEAN /\ (~excused' => ~excused)
        BY <1>0, <1>2, <2>2 DEF Resume, Overlaps
      <3> HIDE DEF f
      <3>4. stream' \in [Streams -> StreamPCs] /\ stream'[f] = "open"
            /\ \A s \in Streams \ {f} : stream'[s] = stream[s]
        BY <1>0, <3>1, <3>2 DEF StreamPCs
      <3>5. got' \subseteq 1 .. (nextID - 1)
        <4>1. \A i \in DOMAIN events : events[i] \in 1 .. (nextID - 1)
          BY <1>0
        <4>2. Since(LastReceived) \subseteq 1 .. (nextID - 1)
          <5> DEFINE last == LastReceived
          <5> HIDE DEF last
          <5>1. Since(last) \subseteq 1 .. (nextID - 1)
            BY <4>1, Zenon DEF Since, ToSet
          <5> QED
            BY <5>1 DEF last
        <4> QED
          BY <1>0, <3>2, <4>2
      <3>6. StreamTypeOK'
        BY <1>0, <2>0, <2>b, <3>3, <3>4, <3>5 DEF StreamTypeOK
      <3>7. Contiguous'
        BY <1>0, <2>0 DEF Contiguous
      <3>8. ClientUpToDate'
        <4> SUFFICES ASSUME ~excused'
                     PROVE /\ nextID - 1 \in 0 .. (nextID - 1)
                           /\ nextID - 1 = 0 \/ nextID - 1 \in got'
                           /\ \A i \in got' : i <= nextID - 1
                           /\ begun .. (nextID - 1) \subseteq got' \cup strayed
          BY <2>0 DEF ClientUpToDate
        <4>1. PICK k \in 0 .. (nextID - 1) :
                /\ k = 0 \/ k \in got
                /\ \A i \in got : i <= k
                /\ begun .. k \subseteq got \cup strayed
          BY <1>0, <3>3 DEF ClientUpToDate
        <4>2. LastReceived = k
          BY <1>0, <4>1, LastFact
        <4>3. Since(k) = (k + 1) .. (nextID - 1)
          BY <1>0, <2>2, <4>2, SinceFact
        <4>4. got' = got \cup (k + 1) .. (nextID - 1)
          BY <3>2, <4>2, <4>3
        <4>5. nextID - 1 = 0 \/ nextID - 1 \in got'
          BY <1>0, <4>1, <4>4
        <4>6. begun .. (nextID - 1) \subseteq got' \cup strayed
          BY <1>0, <4>1, <4>4
        <4> QED
          BY <1>0, <3>5, <4>5, <4>6
      <3> QED
        BY <3>6, <3>7, <3>8 DEF StreamInv
    <2> QED
      BY <2>1, <2>2
  <1>3. ASSUME NEW s \in Streams, Receive(s) PROVE StreamInv'
    <2>1. /\ UNCHANGED <<life, idle, sweeping, mirror, events, nextID, cut, got,
                         begun, excused, strayed, budget>>
          /\ queue' \in 0 .. ChanCap /\ stream[s] = "open"
      BY <1>0, <1>3, ChanCapAssumption DEF Receive, storeVars, pastVars
    <2>2. stream' \in [Streams -> StreamPCs]
          /\ \A t \in Streams : stream'[t] # "closed" <=> stream[t] # "closed"
      BY <1>0, <1>3 DEF Receive, StreamPCs
    <2>3. StreamTypeOK'
      BY <1>0, <2>1, <2>2 DEF StreamTypeOK
    <2>4. Contiguous' /\ ClientUpToDate'
      BY <1>0, <2>1, <2>2 DEF Contiguous, ClientUpToDate, Intact
    <2> QED
      BY <2>3, <2>4 DEF StreamInv
  <1>4. ASSUME NEW s \in Streams, WriteFrame(s) PROVE StreamInv'
    <2>1. /\ UNCHANGED <<life, idle, sweeping, mirror, queue, cut, begun, excused, budget>>
          /\ nextID' = nextID + 1 /\ nextID' - 1 = nextID
          /\ events' = Buffer(events, nextID)
          /\ got' = IF s \in cut THEN got ELSE got \cup {nextID}
          /\ strayed' = IF s \in cut /\ Overlaps THEN strayed \cup {nextID} ELSE strayed
      BY <1>0, <1>4 DEF WriteFrame, storeVars
    <2>2. stream' \in [Streams -> StreamPCs] /\ stream[s] # "closed"
          /\ \A t \in Streams : stream'[t] # "closed" <=> stream[t] # "closed"
      BY <1>0, <1>4 DEF WriteFrame, StreamPCs
    <2>3. /\ events' \in Seq(1 .. nextID) /\ Len(events') \in 1 .. ReplayCap
          /\ \A i \in 1 .. Len(events') : events'[i] + Len(events') = nextID + i
      BY <1>0, <2>1, BufferFact DEF Contiguous
    <2>4. got' \subseteq 1 .. nextID /\ strayed' \subseteq 1 .. nextID /\ begun \in 1 .. (nextID + 1)
      BY <1>0, <2>1
    <2>5. StreamTypeOK'
      <3>1. /\ begun' \in 1 .. nextID' /\ strayed' \subseteq 1 .. (nextID' - 1)
            /\ got' \subseteq 1 .. (nextID' - 1) /\ events' \in Seq(1 .. (nextID' - 1))
        BY <2>1, <2>3, <2>4
      <3>2. {idle', sweeping', mirror', excused'} \subseteq BOOLEAN
        BY <1>0, <2>1
      <3>3. nextID' \in Nat \ {0} /\ Len(events') <= ReplayCap
        BY <1>0, <2>1, <2>3, ReplayCapAssumption
      <3> QED
        BY <1>0, <2>1, <2>2, <3>1, <3>2, <3>3 DEF StreamTypeOK
    <2>6. Contiguous'
      BY <2>1, <2>3, ReplayCapAssumption DEF Contiguous
    <2>7. ClientUpToDate'
      <3> SUFFICES ASSUME ~excused
                   PROVE /\ \E k \in 0 .. nextID :
                              /\ k = 0 \/ k \in got'
                              /\ \A i \in got' : i <= k
                              /\ begun .. k \subseteq got' \cup strayed'
                         /\ \A t \in Streams : Intact(t) => begun .. nextID \subseteq got' \cup strayed'
        <4>1. \A t \in Streams : Intact(t)' <=> Intact(t)
          BY <2>1, <2>2 DEF Intact
        <4> QED
          BY <2>1, <4>1 DEF ClientUpToDate
      <3>1. PICK k \in 0 .. (nextID - 1) :
              /\ k = 0 \/ k \in got
              /\ \A i \in got : i <= k
              /\ begun .. k \subseteq got \cup strayed
        BY <1>0 DEF ClientUpToDate
      <3>2. got \subseteq got' /\ strayed \subseteq strayed'
        BY <2>1
      <3>3. CASE Overlaps
        <4>1. begun .. (nextID - 1) \subseteq got \cup strayed
          BY <1>0, <3>3 DEF Overlaps, ClientUpToDate
        <4>2. nextID \in got' \cup strayed'
          BY <2>1, <3>3
        <4>3. begun .. nextID \subseteq got' \cup strayed'
          BY <1>0, <3>2, <4>1, <4>2
        <4>4. CASE s \in cut
          <5>1. got' = got /\ k \in 0 .. nextID
            BY <1>0, <2>1, <4>4
          <5> QED
            BY <3>1, <3>2, <4>3, <5>1
        <4>5. CASE s \notin cut
          <5>1. nextID \in got' /\ nextID \in 0 .. nextID /\ \A i \in got' : i <= nextID
            BY <1>0, <2>1, <2>4, <4>5
          <5> QED
            BY <4>3, <5>1
        <4> QED
          BY <4>4, <4>5
      <3>4. CASE ~Overlaps
        <4>1. s \in cut /\ \A t \in Streams : ~Intact(t)
          BY <2>2, <3>4 DEF Overlaps, Intact
        <4>2. got' = got /\ strayed' = strayed /\ k \in 0 .. nextID
          BY <1>0, <2>1, <3>4, <4>1
        <4> QED
          BY <3>1, <4>1, <4>2
      <3> QED
        BY <3>3, <3>4
    <2> QED
      BY <2>5, <2>6, <2>7 DEF StreamInv
  <1>5. ASSUME NEW s \in Streams, ConnectionLost(s) PROVE StreamInv'
    <2>1. /\ UNCHANGED <<life, idle, sweeping, mirror, queue, events, nextID, stream, got,
                         begun, excused, strayed, budget>>
          /\ cut' = cut \cup {s}
      BY <1>5 DEF ConnectionLost, storeVars, pastVars
    <2>2. StreamTypeOK'
      BY <1>0, <2>1 DEF StreamTypeOK
    <2>3. Contiguous' /\ ClientUpToDate'
      BY <1>0, <2>1 DEF Contiguous, ClientUpToDate, Intact
    <2> QED
      BY <2>2, <2>3 DEF StreamInv
  <1>6. ASSUME NEW s \in Streams, StreamEnds(s) PROVE StreamInv'
    <2>1. /\ UNCHANGED <<life, idle, sweeping, mirror, queue, events, nextID, got, begun,
                         excused, strayed, budget>>
          /\ cut' = cut \ {s}
      BY <1>6 DEF StreamEnds, storeVars, pastVars
    <2>2. stream' \in [Streams -> StreamPCs]
          /\ stream'[s] = "closed" /\ \A t \in Streams \ {s} : stream'[t] = stream[t]
      BY <1>0, <1>6 DEF StreamEnds, StreamPCs
    <2>3. StreamTypeOK'
      BY <1>0, <2>1, <2>2 DEF StreamTypeOK
    <2>4. Contiguous' /\ ClientUpToDate'
      BY <1>0, <2>1, <2>2 DEF Contiguous, ClientUpToDate, Intact
    <2> QED
      BY <2>3, <2>4 DEF StreamInv
  <1> QED
    BY <1>1, <1>2, <1>3, <1>4, <1>5, <1>6, StoreStep DEF StreamNext

-----------------------------------------------------------------------------
\* Subscriptions

LEMMA SubStreams ==
  ASSUME StreamInv, SubNext
  PROVE  StreamInv'
  <1>1. ASSUME UNCHANGED streamVars PROVE StreamInv'
    BY <1>1, TouchStep DEF streamVars
  <1>2. ASSUME NEW u \in URIs, Subscribe(u) \/ Unsubscribe(u) PROVE StreamInv'
    BY <1>2, TouchStep DEF Subscribe, Unsubscribe, Kinds
  <1>3. ASSUME NEW g \in Refreshers, Tick(g) PROVE StreamInv'
    BY <1>3, TouchStep DEF Tick, NotifyUpdated, Kinds
  <1>4. CASE BroadcastUpdated \/ BroadcastListChanged
    BY <1>4, TouchStep DEF BroadcastUpdated, BroadcastListChanged, NotifyUpdated, Kinds
  <1>5. CASE StartRefresher \/ StopRefresher
    BY <1>1, <1>5 DEF StartRefresher, StopRefresher
  <1>6. ASSUME NEW g \in Refreshers, RefresherReturns(g) \/ RefresherStops(g) PROVE StreamInv'
    BY <1>1, <1>6 DEF RefresherReturns, RefresherStops
  <1> QED
    BY <1>2, <1>3, <1>4, <1>5, <1>6 DEF SubNext

LEMMA SubStep ==
  ASSUME SubInv, SubNext
  PROVE  SubInv'
  <1>0. /\ subs \subseteq URIs /\ pending \subseteq {"start", "stop"}
        /\ entry \in Refreshers \cup {NoRefresher}
        /\ refresher \in [Refreshers -> {"none", "running", "returning", "done"}]
        /\ halted \subseteq Refreshers /\ broadcast \in BOOLEAN /\ NoDeadRefresher
        /\ NoRefresher \notin Refreshers
    BY NoRefresherAssumption DEF SubInv, SubTypeOK
  <1>1. ASSUME NEW u \in URIs, Subscribe(u) \/ Unsubscribe(u) PROVE SubInv'
    BY <1>0, <1>1 DEF Subscribe, Unsubscribe, SubInv, SubTypeOK, NoDeadRefresher
  <1>2. CASE StartRefresher
    <2>1. CASE UNCHANGED <<entry, refresher>>
      BY <1>0, <1>2, <2>1 DEF StartRefresher, SubInv, SubTypeOK, NoDeadRefresher
    <2>2. CASE ~UNCHANGED <<entry, refresher>>
      <3> DEFINE g == CHOOSE g \in Refreshers : refresher[g] = "none"
      <3>1. /\ g \in Refreshers /\ entry' = g
            /\ refresher' = [refresher EXCEPT ![g] = "running"]
        BY <1>2, <2>2 DEF StartRefresher
      <3> HIDE DEF g
      <3>2. UNCHANGED <<subs, halted, broadcast>> /\ pending' \subseteq pending
        BY <1>2 DEF StartRefresher
      <3> QED
        BY <1>0, <3>1, <3>2 DEF SubInv, SubTypeOK, NoDeadRefresher
    <2> QED
      BY <2>1, <2>2
  <1>3. CASE StopRefresher
    BY <1>0, <1>3 DEF StopRefresher, StopEntry, SubInv, SubTypeOK, NoDeadRefresher
  <1>4. ASSUME NEW g \in Refreshers, Tick(g) PROVE SubInv'
    BY <1>0, <1>4 DEF Tick, subVars, SubInv, SubTypeOK, NoDeadRefresher
  <1>5. ASSUME NEW g \in Refreshers, RefresherReturns(g) PROVE SubInv'
    BY <1>0, <1>5 DEF RefresherReturns, SubInv, SubTypeOK, NoDeadRefresher
  <1>6. ASSUME NEW g \in Refreshers, RefresherStops(g) PROVE SubInv'
    BY <1>0, <1>6 DEF RefresherStops, StopEntry, SubInv, SubTypeOK, NoDeadRefresher
  <1>7. CASE BroadcastUpdated \/ BroadcastListChanged
    BY <1>0, <1>7 DEF BroadcastUpdated, BroadcastListChanged, SubInv, SubTypeOK,
      NoDeadRefresher
  <1> QED
    BY <1>1, <1>2, <1>3, <1>4, <1>5, <1>6, <1>7 DEF SubNext

-----------------------------------------------------------------------------
\* Watches

LEMMA WatchStreams ==
  ASSUME StreamInv, WatchNext
  PROVE  StreamInv' /\ UNCHANGED subVars
  <1>1. ASSUME UNCHANGED streamVars PROVE StreamInv'
    BY <1>1, TouchStep DEF streamVars
  <1>2. ASSUME NEW c \in Calls, CallWatch(c) PROVE StreamInv' /\ UNCHANGED subVars
    BY <1>2, TouchStep DEF CallWatch, Kinds
  <1>3. ASSUME NEW c \in Calls, FindJob(c) \/ CreateJob(c) \/ StartWatch(c) \/ ReturnCall(c)
        PROVE  StreamInv' /\ UNCHANGED subVars
    BY <1>1, <1>3 DEF FindJob, CreateJob, StartWatch, ReturnCall
  <1>4. CASE HandleCancelled
    BY <1>4, TouchStep DEF HandleCancelled, Kinds
  <1>5. ASSUME NEW j \in Jobs, WatchRuns(j) \/ WatchSettles(j) \/ TimerNotifies(j)
        PROVE  StreamInv' /\ UNCHANGED subVars
    BY <1>5, TouchStep DEF WatchRuns, WatchSettles, TimerNotifies, NotifyJob, NotifyUpdated
  <1>6. ASSUME NEW j \in Jobs, EmitFrame(j) \/ WatchEnds(j)
        PROVE  StreamInv' /\ UNCHANGED subVars
    BY <1>6, TouchStep DEF EmitFrame, WatchEnds, EmitProgress
  <1>7. ASSUME NEW j \in Jobs, Frame(j) PROVE StreamInv' /\ UNCHANGED subVars
    BY <1>7, TouchStep DEF Frame, Kinds
  <1>8. ASSUME NEW j \in Jobs,
               DispatchReturns(j) \/ DispatchCancelled(j) \/ TimerFires(j) \/ TimerCancels(j)
        PROVE  StreamInv' /\ UNCHANGED subVars
    BY <1>1, <1>8 DEF DispatchReturns, DispatchCancelled, Returns, TimerFires, TimerCancels
  <1> QED
    BY <1>2, <1>3, <1>4, <1>5, <1>6, <1>7, <1>8 DEF WatchNext

\* The job a call creates is new, and it is the only one in time.
LEMMA InsertStep ==
  ASSUME WatchInv, NEW c \in Calls, Insert(c), latest # None => job[latest] = "failed",
         UNCHANGED <<cancelFunc, watch, outcome, registered, stopped>>, call[c] = "create"
  PROVE  WatchInv' /\ \A j \in Jobs : job[j] # "none" => job'[j] = job[j]
  <1> DEFINE j == CHOOSE j \in Jobs : job[j] = "none"
  <1>1. /\ j \in Jobs /\ job[j] = "none" /\ latest' = j
        /\ job' = [job EXCEPT ![j] = "pending"] /\ timer' = [timer EXCEPT ![j] = "armed"]
        /\ mine' = [mine EXCEPT ![c] = j] /\ call' = [call EXCEPT ![c] = "audit"]
    BY DEF Insert
  <1> HIDE DEF j
  <1>0. WatchTypeOK /\ HasJob /\ ArmedIsLatest /\ EndedIsTerminal /\ NoLeakedCancel
    BY DEF WatchInv
  <1>2. WatchTypeOK'
    BY <1>0, <1>1 DEF WatchTypeOK
  <1>3. \A i \in Jobs : timer[i] # "armed"
    BY <1>0, WatchAssumption DEF ArmedIsLatest, Terminal
  <1>4. ArmedIsLatest'
    BY <1>0, <1>1, <1>3 DEF ArmedIsLatest, Terminal, WatchTypeOK
  <1>5. HasJob'
    BY <1>0, <1>1 DEF HasJob, WatchTypeOK
  <1>6. EndedIsTerminal' /\ \A i \in Jobs : job[i] # "none" => job'[i] = job[i]
    BY <1>0, <1>1 DEF EndedIsTerminal, Terminal, WatchTypeOK
  <1>7. NoLeakedCancel'
    BY <1>0, <1>1 DEF NoLeakedCancel, WatchTypeOK
  <1> QED
    BY <1>2, <1>4, <1>5, <1>6, <1>7 DEF WatchInv

\* The status of a job whose watch has ended is left alone.
Settled == \A j \in Jobs : watch[j] \in WatchEnded => job'[j] = job[j]

LEMMA WatchStep ==
  ASSUME WatchInv, WatchNext
  PROVE  WatchInv' /\ Settled
  <1>0. WatchTypeOK /\ HasJob /\ ArmedIsLatest /\ EndedIsTerminal /\ NoLeakedCancel
        /\ None \notin Calls \cup Jobs /\ Calls \cap Jobs = {}
    BY WatchAssumption DEF WatchInv
  <1> USE DEF WatchInv, WatchTypeOK, HasJob, ArmedIsLatest, EndedIsTerminal, NoLeakedCancel,
              Settled, Terminal, WatchEnded
  <1>1. ASSUME NEW c \in Calls, CallWatch(c) PROVE WatchInv' /\ Settled
    BY <1>0, <1>1 DEF CallWatch
  <1>2. ASSUME NEW c \in Calls, FindJob(c) PROVE WatchInv' /\ Settled
    BY <1>0, <1>2 DEF FindJob
  <1>3. ASSUME NEW c \in Calls, CreateJob(c) PROVE WatchInv' /\ Settled
    <2>1. CASE UNCHANGED <<job, timer, latest, mine>> /\ call' = [call EXCEPT ![c] = "return"]
      BY <1>0, <1>3, <2>1 DEF CreateJob
    <2>2. CASE Insert(c) /\ (latest # None => job[latest] = "failed")
      <3>1. /\ UNCHANGED <<cancelFunc, watch, outcome, registered, stopped>>
            /\ call[c] = "create"
        BY <1>3 DEF CreateJob
      <3>2. WatchInv' /\ \A j \in Jobs : job[j] # "none" => job'[j] = job[j]
        BY <2>2, <3>1, InsertStep
      <3>3. Settled
        BY <1>0, <3>2
      <3> QED
        BY <3>2, <3>3
    <2> QED
      BY <1>3, <2>1, <2>2 DEF CreateJob
  <1>4. ASSUME NEW c \in Calls, StartWatch(c) PROVE WatchInv' /\ Settled
    <2> DEFINE j == mine[c]
    <2>1. /\ j \in Jobs /\ cancelFunc' = j /\ registered' = registered \cup {j}
          /\ watch' = [watch EXCEPT ![j] = "start"]
          /\ call' = [call EXCEPT ![c] = "return"] /\ mine' = [mine EXCEPT ![c] = None]
          /\ UNCHANGED <<latest, job, timer, outcome, stopped>>
      BY <1>0, <1>4 DEF StartWatch
    <2> HIDE DEF j
    <2> QED
      BY <1>0, <2>1
  <1>5. ASSUME NEW c \in Calls, ReturnCall(c) PROVE WatchInv' /\ Settled
    BY <1>0, <1>5 DEF ReturnCall
  <1>6. CASE HandleCancelled
    BY <1>0, <1>6 DEF HandleCancelled
  <1>7. ASSUME NEW j \in Jobs, WatchRuns(j) PROVE WatchInv' /\ Settled
    BY <1>0, <1>7 DEF WatchRuns
  <1>8. ASSUME NEW j \in Jobs, Frame(j) \/ EmitFrame(j) PROVE WatchInv' /\ Settled
    BY <1>0, <1>8 DEF Frame, EmitFrame
  <1>9. ASSUME NEW j \in Jobs, NEW o \in Terminal, Returns(j, o) PROVE WatchInv' /\ Settled
    BY <1>0, <1>9 DEF Returns
  <1>10. ASSUME NEW j \in Jobs, DispatchReturns(j) \/ DispatchCancelled(j)
         PROVE  WatchInv' /\ Settled
    <2> HIDE DEF WatchInv, Settled
    <2> QED
      BY <1>9, <1>10 DEF DispatchReturns, DispatchCancelled
  <1>11. ASSUME NEW j \in Jobs, WatchSettles(j) PROVE WatchInv' /\ Settled
    <2>1. /\ job' = [job EXCEPT ![j] = outcome[j]] /\ outcome[j] \in Terminal
          /\ watch[j] = "settle" /\ watch' = [watch EXCEPT ![j] = "final"]
          /\ outcome' = [outcome EXCEPT ![j] = "none"]
          /\ UNCHANGED <<call, mine, cancelFunc, latest, registered, stopped>>
      BY <1>0, <1>11 DEF WatchSettles
    <2>2. /\ timer' \in [Jobs -> {"none", "armed", "late", "fired", "notify"}]
          /\ timer'[j] # "armed" /\ \A i \in Jobs \ {j} : timer'[i] = timer[i]
      BY <1>0, <1>11 DEF WatchSettles
    <2> QED
      BY <1>0, <2>1, <2>2
  <1>12. ASSUME NEW j \in Jobs, WatchEnds(j) PROVE WatchInv' /\ Settled
    BY <1>0, <1>12 DEF WatchEnds
  <1>13. ASSUME NEW j \in Jobs, TimerFires(j) PROVE WatchInv' /\ Settled
    BY <1>0, <1>13 DEF TimerFires
  <1>14. ASSUME NEW j \in Jobs, TimerCancels(j) \/ TimerNotifies(j) PROVE WatchInv' /\ Settled
    BY <1>0, <1>14 DEF TimerCancels, TimerNotifies
  <1> HIDE DEF WatchInv, Settled
  <1> QED
    BY <1>1, <1>2, <1>3, <1>4, <1>5, <1>6, <1>7, <1>8, <1>10, <1>11, <1>12, <1>13, <1>14
    DEF WatchNext

-----------------------------------------------------------------------------
\* Theorems

LEMMA InitInv == Init => Inv
  <1> SUFFICES ASSUME Init PROVE Inv
    OBVIOUS
  <1>1. StreamInv
    <2>1. budget \in [Kinds -> Nat]
      BY PlansAssumption DEF Init, StreamInit
    <2>2. StreamTypeOK
      <3>1. {idle, sweeping, mirror, excused} \subseteq BOOLEAN
        BY Zenon DEF Init, StreamInit
      <3>2. events \in Seq(1 .. (nextID - 1)) /\ Len(events) = 0
        BY DEF Init, StreamInit
      <3>3. /\ life \in {"new", "live", "ended"} /\ queue \in 0 .. ChanCap
            /\ nextID \in Nat \ {0} /\ got \subseteq 1 .. (nextID - 1)
            /\ stream \in [Streams -> StreamPCs] /\ cut \subseteq Streams
            /\ begun \in 1 .. nextID /\ strayed \subseteq 1 .. (nextID - 1)
        BY ChanCapAssumption DEF Init, StreamInit, StreamPCs
      <3> QED
        BY <2>1, <3>1, <3>2, <3>3, ReplayCapAssumption DEF StreamTypeOK
    <2>3. Contiguous
      BY DEF Init, StreamInit, Contiguous
    <2>4. ClientUpToDate
      <3>1. /\ 0 \in 0 .. (nextID - 1) /\ got = {}
            /\ begun .. 0 = {} /\ begun .. (nextID - 1) = {}
        BY DEF Init, StreamInit
      <3> QED
        BY <3>1 DEF ClientUpToDate
    <2> QED
      BY <2>2, <2>3, <2>4 DEF StreamInv
  <1>2. SubInv
    BY DEF Init, SubInit, SubInv, SubTypeOK, NoDeadRefresher
  <1>3. WatchInv
    BY WatchAssumption DEF Init, WatchInit, WatchInv, WatchTypeOK, HasJob, ArmedIsLatest,
      EndedIsTerminal, NoLeakedCancel, WatchEnded, Terminal
  <1> QED
    BY <1>1, <1>2, <1>3 DEF Inv

\* Every step keeps the invariant, and the status of a watch that has ended.
LEMMA NextInv == Inv /\ [Next]_vars => Inv' /\ Settled
  <1> SUFFICES ASSUME Inv, [Next]_vars PROVE Inv' /\ Settled
    OBVIOUS
  <1>0. StreamInv /\ SubInv /\ WatchInv
    BY DEF Inv
  <1>1. ASSUME UNCHANGED subVars PROVE SubInv'
    BY <1>0, <1>1 DEF subVars, SubInv, SubTypeOK, NoDeadRefresher
  <1>2. ASSUME UNCHANGED watchVars PROVE WatchInv' /\ Settled
    BY <1>0, <1>2 DEF watchVars, WatchInv, WatchTypeOK, HasJob, ArmedIsLatest,
      EndedIsTerminal, NoLeakedCancel, Settled
  <1>3. CASE StreamNext /\ UNCHANGED <<subVars, watchVars>>
    BY <1>0, <1>1, <1>2, <1>3, StreamStep DEF Inv
  <1>4. CASE SubNext /\ UNCHANGED watchVars
    BY <1>0, <1>2, <1>4, SubStreams, SubStep DEF Inv
  <1>5. CASE WatchNext
    BY <1>0, <1>1, <1>5, WatchStreams, WatchStep DEF Inv
  <1>6. CASE UNCHANGED vars
    <2>1. StreamInv'
      BY <1>0, <1>6, TouchStep DEF vars, streamVars
    <2> QED
      BY <1>1, <1>2, <1>6, <2>1 DEF vars, Inv
  <1> QED
    BY <1>3, <1>4, <1>5, <1>6 DEF Next

\* The invariant holds in every reachable state.
LEMMA InvHolds == Spec => []Inv
  BY InitInv, NextInv, PTL DEF Spec

\* Every variable keeps its type; EventCh and the replay buffer keep their
\* capacities.
THEOREM TypeCorrect == Spec => []TypeOK
  <1>1. Inv => TypeOK
    BY DEF Inv, StreamInv, SubInv, WatchInv, TypeOK
  <1> QED
    BY <1>1, InvHolds, PTL

\* A client that has one connection at a time and resumes with the last ID it
\* received misses, while its stream is up, only events that the handler of a
\* connection it had lost gave an ID after the resume.
THEOREM OnlyStraysAreMissedHolds == Spec => []OnlyStraysAreMissed
  <1>1. Inv => OnlyStraysAreMissed
    BY DEF Inv, StreamInv, ClientUpToDate, OnlyStraysAreMissed
  <1> QED
    BY <1>1, InvHolds, PTL

\* Registry.refreshers never names a goroutine that has returned.
THEOREM NoDeadRefresherHolds == Spec => []NoDeadRefresher
  <1>1. Inv => NoDeadRefresher
    BY DEF Inv, SubInv
  <1> QED
    BY <1>1, InvHolds, PTL

\* At most one watch of a request is within its time limit.
THEOREM OneWatchInTimeHolds == Spec => []OneWatchInTime
  <1>1. Inv => OneWatchInTime
    BY DEF Inv, WatchInv, ArmedIsLatest, OneWatchInTime
  <1> QED
    BY <1>1, InvHolds, PTL

\* Session.cancelFuncs and WatchCancels hold only what has not returned.
THEOREM NoLeakedCancelHolds == Spec => []NoLeakedCancel
  <1>1. Inv => NoLeakedCancel
    BY DEF Inv, WatchInv
  <1> QED
    BY <1>1, InvHolds, PTL

\* The status runWatch stores last is not changed by a late timeout, a retry
\* or another call.
THEOREM SettledStaysHolds == Spec => SettledStays
  <1>1. Inv /\ [Next]_vars => [Settled]_<<job, watch>>
    BY NextInv
  <1>2. SettledStays <=> [][Settled]_<<job, watch>>
    BY DEF SettledStays, Settled
  <1> QED
    BY <1>1, <1>2, InvHolds, PTL DEF Spec
=============================================================================
