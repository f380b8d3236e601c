---------------------------- MODULE SessionProofs ---------------------------
(***************************************************************************)
(* Proofs about Session: what its heartbeat may do to a session, for any   *)
(* timeouts, any number of outages and any offset of the two beats: it     *)
(* gives none up early, and none that the path still carries.              *)
(***************************************************************************)
EXTENDS Session, FiniteSetTheorems, SequenceTheorems, TLAPS

-----------------------------------------------------------------------------
(* Types.                                                                  *)

\* There are two peers.
LEMMA OtherIsPeer == ASSUME NEW p \in Peer PROVE Other(p) \in Peer /\ Other(p) # p
<1>1. PICK q \in Peer : Peer = {p, q} /\ p # q
  BY SessionAssumption
<1>2. \E r \in Peer : r # p
  BY <1>1
<1>3. Other(p) # p
  BY <1>2 DEF Other
<1>4. Other(p) \in Peer
  BY <1>2 DEF Other
<1> QED BY <1>3, <1>4

\* The timers are counters: neither runs past its bound.
TimerType ==
  /\ since \in [Peer -> 0 .. Silence]
  /\ restart \in [Peer -> NoRestart .. RestartTimeout]

\* A restart timer that has run for r beats was set when the pong timeout was
\* over, and nothing was heard since.
SilentSince == \A p \in Peer : restart[p] # NoRestart => since[p] >= PongTimeout + restart[p]

TimerInv == TimerType /\ SilentSince

\* A pong, a stop and a start of the heartbeat set both timers of one peer back.
LEMMA TimersReset ==
  ASSUME TimerInv, NEW p \in Peer, since' = Set(since, p, 0), CancelRestart(p)
  PROVE  TimerInv'
<1>1. since' = [since EXCEPT ![p] = 0] /\ restart' = [restart EXCEPT ![p] = NoRestart]
  BY DEF Set, CancelRestart
<1>2. 0 \in 0 .. Silence /\ NoRestart \in NoRestart .. RestartTimeout
  BY SessionAssumption DEF Silence, NoRestart
<1>3. TimerType'
  BY <1>1, <1>2 DEF TimerInv, TimerType
<1>4. SilentSince'
  <2> SUFFICES ASSUME NEW q \in Peer, restart'[q] # NoRestart
               PROVE  since'[q] >= PongTimeout + restart'[q]
    BY DEF SilentSince
  <2>1. q # p
    BY <1>1 DEF TimerInv, TimerType
  <2>2. since'[q] = since[q] /\ restart'[q] = restart[q]
    BY <1>1, <2>1 DEF TimerInv, TimerType
  <2> QED BY <2>2 DEF TimerInv, SilentSince
<1> QED BY <1>3, <1>4 DEF TimerInv

\* A beat counts in both timers, and sets the restart timer only when it is late.
LEMMA BeatTimers ==
  ASSUME TimerInv, NEW p \in Peer, Beat(p)
  PROVE  TimerInv'
<1> DEFINE s == IF since[p] < Silence THEN since[p] + 1 ELSE since[p]
<1>1. since' = [since EXCEPT ![p] = s] /\ restart[p] < RestartTimeout
  BY DEF Beat
<1>2. /\ since[p] \in 0 .. Silence /\ restart[p] \in NoRestart .. RestartTimeout
      /\ PongTimeout \in Nat \ {0} /\ RestartTimeout \in Nat \ {0}
  BY SessionAssumption DEF TimerInv, TimerType
<1>3. \/ /\ since[p] + 1 >= PongTimeout
         /\ restart' = [restart EXCEPT ![p] = 0]
      \/ restart' = [restart EXCEPT ![p] = IF restart[p] = NoRestart THEN NoRestart ELSE restart[p] + 1]
  <2>1. PICK late \in Late(since[p] + 1) :
          \/ late /\ RestartTimer(p)
          \/ restart' = [restart EXCEPT ![p] = IF @ = NoRestart THEN @ ELSE @ + 1]
    BY DEF Beat
  <2>2. late => since[p] + 1 >= PongTimeout
    <3> DEFINE n == since[p] + 1
    <3>1. n \in Int /\ PongTimeout \in Int
      BY <1>2
    <3>2. CASE n = PongTimeout
      BY <3>1, <3>2
    <3>3. CASE n # PongTimeout
      <4>1. Late(n) = {n > PongTimeout}
        BY <3>3 DEF Late
      <4>2. late = (n > PongTimeout)
        BY <4>1
      <4> HIDE DEF n
      <4>3. n > PongTimeout => n >= PongTimeout
        BY <3>1
      <4> QED BY <4>2, <4>3, Zenon DEF n
    <3> QED BY <3>2, <3>3
  <2> QED BY <2>1, <2>2 DEF RestartTimer, Set
<1>4. PICK r : /\ restart' = [restart EXCEPT ![p] = r]
               /\ r \in NoRestart .. RestartTimeout
               /\ r # NoRestart => s >= PongTimeout + r
  <2>1. CASE since[p] + 1 >= PongTimeout /\ restart' = [restart EXCEPT ![p] = 0]
    <3>1. 0 \in NoRestart .. RestartTimeout /\ s >= PongTimeout + 0
      BY <1>2, <2>1 DEF Silence, NoRestart
    <3> QED BY <2>1, <3>1
  <2>2. CASE restart' = [restart EXCEPT ![p] = IF restart[p] = NoRestart THEN NoRestart ELSE restart[p] + 1]
    <3>1. CASE restart[p] = NoRestart
      BY <1>2, <2>2, <3>1 DEF NoRestart
    <3>2. CASE restart[p] # NoRestart
      <4>1. since[p] >= PongTimeout + restart[p]
        BY <3>2 DEF TimerInv, SilentSince
      <4>2. /\ restart[p] + 1 \in NoRestart .. RestartTimeout
            /\ s >= PongTimeout + (restart[p] + 1)
        BY <1>1, <1>2, <4>1 DEF Silence, NoRestart
      <4> QED BY <2>2, <3>2, <4>2
    <3> QED BY <3>1, <3>2
  <2> QED BY <1>3, <2>1, <2>2
<1>5. s \in 0 .. Silence
  BY <1>2 DEF Silence
<1> HIDE DEF s
<1>6. TimerType'
  BY <1>1, <1>4, <1>5 DEF TimerInv, TimerType
<1>7. SilentSince'
  <2> SUFFICES ASSUME NEW q \in Peer, restart'[q] # NoRestart
               PROVE  since'[q] >= PongTimeout + restart'[q]
    BY DEF SilentSince
  <2>1. CASE q = p
    BY <1>1, <1>4, <2>1 DEF TimerInv, TimerType
  <2>2. CASE q # p
    <3>1. since'[q] = since[q] /\ restart'[q] = restart[q]
      BY <1>1, <1>4, <2>2 DEF TimerInv, TimerType
    <3> QED BY <3>1 DEF TimerInv, SilentSince
  <2> QED BY <2>1, <2>2
<1> QED BY <1>6, <1>7 DEF TimerInv

\* TimerInv is inductive.
LEMMA TimersStep == TimerInv /\ [Next]_vars => TimerInv'
<1> SUFFICES ASSUME TimerInv, [Next]_vars PROVE TimerInv'
  OBVIOUS
<1>1. CASE UNCHANGED <<since, restart>>
  BY <1>1 DEF TimerInv, TimerType, SilentSince
<1>2. CASE \E p \in Peer : Beat(p)
  BY <1>2, BeatTimers
<1>3. CASE \E p \in Peer : since' = Set(since, p, 0) /\ CancelRestart(p)
  BY <1>3, TimersReset
<1>4. ASSUME NEW p \in Peer,
             Connected(p) \/ Leave(p) \/ ReceivePong(p) \/ ReceiveClosed(p) \/ RestartFails(p)
      PROVE  since' = Set(since, p, 0) /\ CancelRestart(p)
  BY <1>4 DEF Connected, Leave, ReceivePong, PongHeard, ReceiveClosed, RestartFails, TearDown, StartHeartbeat,
              StopHeartbeat
<1>5. ASSUME NEW p \in Peer,
             ChannelCloses(p) \/ IceLost(p) \/ ReceivePing(p) \/ ReceiveOffer(p) \/ ReceiveAnswer(p)
      PROVE  UNCHANGED <<since, restart>>
  BY <1>5 DEF ChannelCloses, IceLost, ReceivePing, ReceiveOffer, ReceiveAnswer, timers
<1>6. PathDown \/ PathUp \/ Drained => UNCHANGED <<since, restart>>
  BY DEF PathDown, PathUp, Drained, timers
<1>7. UNCHANGED vars => UNCHANGED <<since, restart>>
  BY DEF vars, timers
<1> QED BY <1>1, <1>2, <1>3, <1>4, <1>5, <1>6, <1>7 DEF Next, Receive, Timer

-----------------------------------------------------------------------------
(* Types of the rest.                                                      *)

WireType == wire \in [Peer -> Seq(Message)]

\* What is put on the wire, taken from it or cut off keeps its type.
LEMMA PostedType ==
  ASSUME NEW w \in [Peer -> Seq(Message)], NEW p \in Peer, NEW m \in Message
  PROVE  Posted(w, p, m) \in [Peer -> Seq(Message)]
<1>1. Other(p) \in Peer
  BY OtherIsPeer
<1>2. Append(w[Other(p)], m) \in Seq(Message)
  BY <1>1
<1> QED BY <1>1, <1>2 DEF Posted

\* Taking a message leaves channels of messages.
LEMMA TakeType ==
  ASSUME WireType, NEW p \in Peer, wire[p] # <<>>
  PROVE  Take(p) \in [Peer -> Seq(Message)]
<1>1. Tail(wire[p]) \in Seq(Message)
  BY DEF WireType
<1> QED BY <1>1 DEF Take, WireType

\* So does the loss of what is on the wire, one way or both.
LEMMA CutType ==
  ASSUME NEW w \in [Peer -> Seq(Message)], NEW p \in Peer, NEW v \in Cut(w, p)
  PROVE  v \in [Peer -> Seq(Message)]
<1>1. <<>> \in Seq(Message)
  OBVIOUS
<1> QED BY <1>1 DEF Cut

\* The channels carry messages.
LEMMA WireStep == WireType /\ [Next]_vars => WireType'
<1> SUFFICES ASSUME WireType, [Next]_vars PROVE WireType'
  OBVIOUS
<1> USE DEF WireType
<1>1. CASE UNCHANGED wire
  BY <1>1
<1>2. ASSUME NEW p \in Peer, Beat(p) PROVE WireType'
  <2>1. SendControl(p, "offer") \/ SendControl(p, "ping") \/ UNCHANGED wire
    BY <1>2 DEF Beat, RequestIceRestart
  <2>2. "offer" \in Message /\ "ping" \in Message
    BY DEF Message
  <2>3. Posted(wire, p, "offer") \in [Peer -> Seq(Message)]
    BY <2>2, PostedType
  <2>4. Posted(wire, p, "ping") \in [Peer -> Seq(Message)]
    BY <2>2, PostedType
  <2> QED BY <2>1, <2>3, <2>4 DEF SendControl
<1>3. ASSUME NEW p \in Peer, NEW w \in [Peer -> Seq(Message)], TearDown(p, w) PROVE WireType'
  BY <1>3, CutType DEF TearDown
<1>4. ASSUME NEW p \in Peer, Receive(p) PROVE WireType'
  <2>1. wire[p] # <<>>
    BY <1>4 DEF Receive, ReceivePing, ReceivePong, ReceiveOffer, ReceiveAnswer, ReceiveClosed, Incoming
  <2>2. Take(p) \in [Peer -> Seq(Message)]
    BY <2>1, TakeType
  <2>3. Reply(p, "pong") \/ Reply(p, "answer") \/ wire' = Take(p) \/ TearDown(p, Take(p))
    BY <1>4 DEF Receive, ReceivePing, ReceivePong, ReceiveOffer, ReceiveAnswer, ReceiveClosed
  <2>4. "pong" \in Message /\ "answer" \in Message
    BY DEF Message
  <2>5. CASE Reply(p, "pong") \/ Reply(p, "answer")
    <3>1. /\ Posted(Take(p), p, "pong") \in [Peer -> Seq(Message)]
          /\ Posted(Take(p), p, "answer") \in [Peer -> Seq(Message)]
      BY <2>2, <2>4, PostedType
    <3> QED BY <2>5, <3>1, Zenon DEF Reply
  <2>6. CASE wire' = Take(p)
    BY <2>2, <2>6
  <2>7. CASE TearDown(p, Take(p))
    BY <1>3, <2>2, <2>7
  <2> QED BY <2>3, <2>5, <2>6, <2>7
<1>5. ASSUME NEW p \in Peer, Leave(p) PROVE WireType'
  <2>1. "session_closed" \in Message
    BY DEF Message
  <2>2. Posted(wire, p, "session_closed") \in [Peer -> Seq(Message)]
    BY <2>1, PostedType
  <2> QED BY <1>3, <1>5, <2>2 DEF Leave
<1>6. ASSUME NEW p \in Peer, RestartFails(p) PROVE WireType'
  BY <1>3, <1>6 DEF RestartFails
<1>7. ASSUME NEW p \in Peer, ChannelCloses(p) \/ Connected(p) \/ IceLost(p) PROVE UNCHANGED wire
  BY <1>7 DEF ChannelCloses, Connected, IceLost, link
<1>8. PathDown \/ PathUp \/ Drained \/ UNCHANGED vars => UNCHANGED wire
  BY DEF PathDown, PathUp, Drained, vars, link
<1> QED BY <1>1, <1>2, <1>4, <1>5, <1>6, <1>7, <1>8 DEF Next, Timer

\* The sets of peers and what belongs to the session and to the path.
PlainType ==
  /\ alive \subseteq Peer /\ connected \subseteq Peer /\ open \subseteq Peer
  /\ beating \subseteq Peer /\ ahead \subseteq Peer
  /\ signaling \in [Peer -> {"stable", "offered", "closed"}]
  /\ path \in {"up", "down"} /\ backlog \in BOOLEAN /\ outages \in 0 .. MaxOutages

\* Flags, counters and phases keep their types.
LEMMA PlainStep == PlainType /\ [Next]_vars => PlainType'
<1> SUFFICES ASSUME PlainType, [Next]_vars PROVE PlainType'
  OBVIOUS
<1> USE DEF PlainType
<1>1. CASE UNCHANGED vars
  BY <1>1 DEF vars, timers, link
<1>2. CASE PathDown
  <2>1. outages + 1 \in 0 .. MaxOutages
    BY <1>2, SessionAssumption DEF PathDown
  <2> QED BY <1>2, <2>1 DEF PathDown, timers
<1>3. CASE PathUp \/ Drained
  BY <1>3 DEF PathUp, Drained, timers
<1>4. ASSUME NEW p \in Peer, NEW w, TearDown(p, w) PROVE PlainType'
  BY <1>4 DEF TearDown, StopHeartbeat, CloseSession, Set
<1>5. ASSUME NEW p \in Peer, ChannelCloses(p) \/ Connected(p) \/ IceLost(p) PROVE PlainType'
  BY <1>5 DEF ChannelCloses, Connected, IceLost, StartHeartbeat, timers, link
<1>6. ASSUME NEW p \in Peer, ReceivePing(p) \/ ReceivePong(p) \/ ReceiveOffer(p) \/ ReceiveAnswer(p)
      PROVE  PlainType'
  BY <1>6 DEF ReceivePing, ReceivePong, ReceiveOffer, ReceiveAnswer, Received, timers, Set
<1>7. ASSUME NEW p \in Peer, Beat(p) PROVE PlainType'
  BY <1>7 DEF Beat, RequestIceRestart, CreateRestartOffer, Set
<1>8. ASSUME NEW p \in Peer, RestartFails(p) \/ ReceiveClosed(p) \/ Leave(p) PROVE PlainType'
  BY <1>4, <1>8 DEF RestartFails, ReceiveClosed, Leave
<1> QED BY <1>1, <1>2, <1>3, <1>5, <1>6, <1>7, <1>8 DEF Next, Receive, Timer

-----------------------------------------------------------------------------
\* For any timeouts the two timers stay in their ranges and the restart timer
\* runs only in silence (SessionControlProtocol).
THEOREM SilenceCounted == Spec => []TimerInv
<1>1. Init => TimerInv
  BY SessionAssumption DEF Init, TimerInv, TimerType, SilentSince, Silence, NoRestart
<1> QED BY <1>1, TimersStep, PTL DEF Spec

\* The two parts of TypeOK beside the timers, which other proofs build on.
THEOREM PlainCorrect == Spec => [](PlainType /\ WireType)
<1>1. Init => PlainType /\ WireType
  <2>1. <<>> \in Seq(Message)
    OBVIOUS
  <2>2. 0 \in 0 .. MaxOutages
    BY SessionAssumption
  <2>3. Init => WireType
    BY <2>1 DEF Init, WireType
  <2>4. Init => PlainType
    BY <2>2 DEF Init, PlainType
  <2> QED BY <2>3, <2>4
<1> QED BY <1>1, PlainStep, WireStep, PTL DEF Spec

\* Every variable of the session and of the channel keeps its type.
THEOREM TypeCorrect == Spec => []TypeOK
<1>1. PlainType /\ WireType /\ TimerInv => TypeOK
  BY DEF PlainType, WireType, TimerInv, TimerType, TypeOK
<1> QED BY <1>1, PlainCorrect, SilenceCounted, PTL

\* No heartbeat gives a session up before both timeouts have passed without a
\* pong or a "connected" (_handlePongTimeout, handlePong, stopHeartbeat).
THEOREM Patience == Spec => PatientTeardown
<1>1. TimerInv /\ [Next]_vars =>
        [\A p \in Peer : RestartFails(p) => since[p] >= PongTimeout + RestartTimeout - 1]_vars
  <2> SUFFICES ASSUME TimerInv, NEW p \in Peer, RestartFails(p)
               PROVE  since[p] >= PongTimeout + RestartTimeout - 1
    OBVIOUS
  <2>1. /\ restart[p] >= RestartTimeout - 1 /\ restart[p] \in NoRestart .. RestartTimeout
        /\ since[p] \in 0 .. Silence
        /\ PongTimeout \in Nat \ {0} /\ RestartTimeout \in Nat \ {0}
    BY SessionAssumption DEF RestartFails, TimerInv, TimerType
  <2>2. since[p] >= PongTimeout + restart[p]
    BY <2>1 DEF TimerInv, SilentSince, NoRestart
  <2> QED BY <2>1, <2>2 DEF Silence, NoRestart
<1> QED BY <1>1, SilenceCounted, PTL DEF Spec, PatientTeardown
-----------------------------------------------------------------------------
(* A live session stays.                                                   *)

\* Message m is on wire w under way to p.
Has(w, p, m) == \E i \in DOMAIN w[p] : w[p][i] = m

\* Silence has a ping or its pong under way, as long as there are two to answer.
PingOut ==
  alive = Peer =>
    \A p \in Peer : since[p] # 0 => Has(wire, Other(p), "ping") \/ Has(wire, p, "pong")

\* Two sessions that live have their channel, and an outage leaves a backlog.
ChannelUp == (alive = Peer => open = Peer) /\ (path = "down" => backlog)

StayInv == PingOut /\ ChannelUp /\ LiveSessionStays

\* Each is the other of the other.
LEMMA OtherOfOther == ASSUME NEW p \in Peer PROVE Other(Other(p)) = p
<1>1. Other(p) \in Peer /\ Other(p) # p
  BY OtherIsPeer
<1>2. Other(Other(p)) \in Peer /\ Other(Other(p)) # Other(p)
  BY <1>1, OtherIsPeer
<1>3. \E q \in Peer : Peer = {p, q} /\ p # q
  BY SessionAssumption
<1> QED BY <1>1, <1>2, <1>3

\* The count of a kind is zero when there is none of it under way.
LEMMA UnderNone ==
  ASSUME WireType, NEW p \in Peer, NEW m
  PROVE  Under(p, m) = 0 <=> ~Has(wire, p, m)
<1> DEFINE S == {i \in DOMAIN wire[p] : wire[p][i] = m}
<1>1. Len(wire[p]) \in Nat /\ DOMAIN wire[p] = 1 .. Len(wire[p])
  BY DEF WireType
<1>2. IsFiniteSet(1 .. Len(wire[p]))
  BY <1>1, FS_Interval
<1>3. S \in SUBSET (1 .. Len(wire[p]))
  BY <1>1
<1>4. S = {} <=> ~Has(wire, p, m)
  BY DEF Has
<1> HIDE DEF S
<1>5. IsFiniteSet(S)
  BY <1>2, <1>3, FS_Subset
<1>6. Cardinality(S) = 0 <=> S = {}
  BY <1>5, FS_EmptySet
<1> QED BY <1>4, <1>6 DEF Under, S

\* What is sent between two live sessions is under way, or one of its kind is.
LEMMA PostedHas ==
  ASSUME WireType, alive = Peer, open = Peer, NEW w \in [Peer -> Seq(Message)],
         NEW p \in Peer, NEW m \in Message
  PROVE  /\ \A q \in Peer, k \in Message : Has(w, q, k) => Has(Posted(w, p, m), q, k)
         /\ Has(Posted(w, p, m), Other(p), m) \/ Has(wire, Other(p), m)
<1>1. Other(p) \in Peer
  BY OtherIsPeer
<1>2. CASE MaySend(p, m)
  <2>1. Posted(w, p, m) = [w EXCEPT ![Other(p)] = Append(@, m)]
    BY <1>1, <1>2 DEF Posted
  <2>2. PICK n \in Peer : n = Other(p)
    BY <1>1
  <2>3. PICK v : v = Posted(w, p, m)
    OBVIOUS
  <2>4. v[n] = Append(w[n], m) /\ \A q \in Peer \ {n} : v[q] = w[q]
    BY <2>1, <2>2, <2>3
  <2>5. w[n] \in Seq(Message)
    OBVIOUS
  <2>6. /\ Len(v[n]) = Len(w[n]) + 1
        /\ \A i \in 1 .. Len(w[n]) : v[n][i] = w[n][i]
        /\ v[n][Len(w[n]) + 1] = m
    BY <2>4, <2>5, AppendProperties
  <2>7. /\ DOMAIN w[n] = 1 .. Len(w[n]) /\ Len(w[n]) \in Nat
        /\ DOMAIN v[n] = 1 .. Len(w[n]) + 1
    <3>1. v[n] \in Seq(Message)
      BY <2>4, <2>5
    <3> QED BY <2>5, <2>6, <3>1
  <2>8. ASSUME NEW k \in Message, Has(w, n, k) PROVE Has(v, n, k)
    <3>1. PICK i \in DOMAIN w[n] : w[n][i] = k
      BY <2>8 DEF Has
    <3>2. i \in 1 .. Len(w[n]) /\ i \in DOMAIN v[n]
      BY <2>7
    <3>3. v[n][i] = k
      BY <2>6, <3>1, <3>2
    <3> QED BY <3>2, <3>3 DEF Has
  <2>9. Has(v, n, m)
    <3>1. Len(w[n]) + 1 \in DOMAIN v[n]
      BY <2>7
    <3> QED BY <2>6, <3>1 DEF Has
  <2>10. \A q \in Peer \ {n}, k \in Message : Has(w, q, k) => Has(v, q, k)
    BY <2>4 DEF Has
  <2> QED BY <2>2, <2>3, <2>8, <2>9, <2>10
<1>3. CASE ~MaySend(p, m)
  <2>1. Posted(w, p, m) = w
    BY <1>3 DEF Posted
  <2>2. Under(Other(p), m) # 0
    BY <1>3, SessionAssumption DEF MaySend
  <2> QED BY <1>1, <2>1, <2>2, UnderNone
<1> QED BY <1>2, <1>3

\* Taking the first message leaves those of another kind.
LEMMA TakeHas ==
  ASSUME WireType, NEW p \in Peer, wire[p] # <<>>, NEW q \in Peer, NEW k \in Message,
         Has(wire, q, k), q # p \/ k # Head(wire[p])
  PROVE  Has(Take(p), q, k)
<1>1. wire[p] \in Seq(Message) /\ Take(p)[p] = Tail(wire[p])
  BY DEF WireType, Take
<1>2. CASE q # p
  BY <1>2 DEF Has, Take, WireType
<1>3. CASE q = p
  <2>1. PICK i \in DOMAIN wire[p] : wire[p][i] = k
    BY <1>3 DEF Has
  <2>2. /\ Len(wire[p]) \in Nat /\ i \in 1 .. Len(wire[p]) /\ i # 1
    BY <1>1, <1>3, <2>1
  <2>3. i - 1 \in DOMAIN Tail(wire[p]) /\ Tail(wire[p])[i - 1] = wire[p][i]
    BY <1>1, <2>2
  <2> QED BY <1>1, <1>3, <2>1, <2>3 DEF Has
<1> QED BY <1>2, <1>3

\* A heartbeat is late only after a beat that was not.
LEMMA LateAfter ==
  ASSUME PongTimeout # 1, NEW n \in Nat, NEW late \in Late(n + 1), late
  PROVE  n # 0
<1>1. PongTimeout \in Nat \ {0}
  BY SessionAssumption
<1>2. CASE n = 0
  <2>1. Late(n + 1) = {1 > PongTimeout}
    BY <1>1, <1>2 DEF Late
  <2>2. late = (1 > PongTimeout)
    BY <2>1
  <2>3. 1 > PongTimeout
    BY <2>2
  <2> QED BY <1>1, <2>3
<1> QED BY <1>2

\* A step that leaves both sessions alive keeps the ping of a silent peer, or its
\* pong, under way.
LEMMA PingKept ==
  ASSUME PongTimeout # 1, WireType, TimerInv, PingOut, ChannelUp, alive = Peer, alive' = Peer, Next
  PROVE  PingOut'
<1>1. open = Peer /\ \A p \in Peer : since[p] # 0 => Has(wire, Other(p), "ping") \/ Has(wire, p, "pong")
  BY DEF ChannelUp, PingOut
<1>2. /\ wire \in [Peer -> Seq(Message)] /\ "ping" \in Message /\ "pong" \in Message
      /\ "offer" \in Message /\ "answer" \in Message /\ since \in [Peer -> 0 .. Silence]
      /\ Silence \in Nat
  BY SessionAssumption DEF WireType, Message, TimerInv, TimerType, Silence
<1>3. ASSUME NEW q \in Peer, NEW w, TearDown(q, w) PROVE FALSE
  BY <1>3 DEF TearDown, CloseSession
<1>4. SUFFICES ASSUME NEW p \in Peer, since'[p] # 0
               PROVE  Has(wire', Other(p), "ping") \/ Has(wire', p, "pong")
  BY OtherIsPeer DEF PingOut, Has
<1>5. Other(p) \in Peer /\ Other(p) # p /\ Other(Other(p)) = p
  BY OtherIsPeer, OtherOfOther
<1>6. CASE UNCHANGED <<wire, since>>
  BY <1>1, <1>4, <1>6
<1>7. ASSUME NEW q \in Peer, Connected(q) PROVE Has(wire', Other(p), "ping") \/ Has(wire', p, "pong")
  <2>1. since' = [since EXCEPT ![q] = 0] /\ wire' = wire
    BY <1>7 DEF Connected, StartHeartbeat, link, Set
  <2>2. since[p] # 0
    BY <1>2, <1>4, <2>1
  <2> QED BY <1>1, <2>1, <2>2
<1>8. ASSUME NEW q \in Peer, Beat(q) PROVE Has(wire', Other(p), "ping") \/ Has(wire', p, "pong")
  <2>1. since' = [since EXCEPT ![q] = IF @ < Silence THEN @ + 1 ELSE @]
    BY <1>8 DEF Beat
  <2>2. \/ SendControl(q, "ping")
        \/ (SendControl(q, "offer") \/ UNCHANGED wire) /\ since[q] # 0
    <3>1. PICK late \in Late(since[q] + 1) :
             \/ late /\ SendControl(q, "offer")
             \/ late /\ UNCHANGED wire
             \/ SendControl(q, "ping")
      BY <1>8 DEF Beat, RequestIceRestart
    <3>2. since[q] \in Nat
      BY <1>2
    <3>3. late => since[q] # 0
      BY <3>2, LateAfter
    <3> QED BY <3>1, <3>3
  <2>3. \A r \in Peer, k \in Message : Has(wire, r, k) => Has(wire', r, k)
    BY <1>1, <1>2, <2>2, PostedHas DEF SendControl
  <2>4. CASE since[p] # 0
    BY <1>1, <1>2, <1>5, <2>3, <2>4
  <2>5. CASE since[p] = 0
    <3>1. q = p /\ SendControl(p, "ping")
      BY <1>2, <1>4, <2>1, <2>2, <2>5
    <3>2. Has(wire', Other(p), "ping") \/ Has(wire, Other(p), "ping")
      BY <1>1, <1>2, <3>1, PostedHas DEF SendControl
    <3> QED BY <1>2, <1>5, <2>3, <3>2
  <2> QED BY <2>4, <2>5
<1>9. ASSUME NEW q \in Peer, ReceivePing(q) PROVE Has(wire', Other(p), "ping") \/ Has(wire', p, "pong")
  <2>1. /\ wire[q] # <<>> /\ Head(wire[q]) = "ping" /\ wire' = Posted(Take(q), q, "pong")
        /\ since' = since
    BY <1>9 DEF ReceivePing, Incoming, Reply, timers
  <2>2. Take(q) \in [Peer -> Seq(Message)]
    BY <2>1, TakeType
  <2>3. \A r \in Peer, k \in Message : Has(Take(q), r, k) => Has(wire', r, k)
    BY <1>1, <2>1, <2>2, <1>2, PostedHas
  <2>4. \A r \in Peer : Has(wire, r, "pong") => Has(wire', r, "pong")
    BY <1>2, <2>1, <2>3, TakeHas
  <2>5. CASE Has(wire, p, "pong")
    BY <2>4, <2>5
  <2>6. CASE Has(wire, Other(p), "ping") /\ q # Other(p)
    BY <1>2, <1>5, <2>1, <2>3, <2>6, TakeHas
  <2>7. CASE q = Other(p)
    <3>1. Has(wire', Other(q), "pong") \/ Has(wire, Other(q), "pong")
      BY <1>1, <1>2, <2>1, <2>2, PostedHas
    <3> QED BY <1>5, <2>4, <2>7, <3>1
  <2> QED BY <1>1, <1>4, <2>1, <2>5, <2>6, <2>7
<1>10. ASSUME NEW q \in Peer, ReceivePong(q) PROVE Has(wire', Other(p), "ping") \/ Has(wire', p, "pong")
  <2>1. /\ wire[q] # <<>> /\ Head(wire[q]) = "pong" /\ wire' = Take(q)
        /\ since' = [since EXCEPT ![q] = 0]
    BY <1>10 DEF ReceivePong, Incoming, PongHeard, Set
  <2>2. q # p /\ since[p] # 0
    BY <1>2, <1>4, <2>1
  <2> QED BY <1>1, <1>2, <1>5, <2>1, <2>2, TakeHas
<1>11. ASSUME NEW q \in Peer, ReceiveOffer(q) \/ ReceiveAnswer(q)
       PROVE  Has(wire', Other(p), "ping") \/ Has(wire', p, "pong")
  <2>1. /\ wire[q] # <<>> /\ Head(wire[q]) \in {"offer", "answer"}
        /\ wire' = Take(q) \/ wire' = Posted(Take(q), q, "answer")
        /\ since' = since
    BY <1>11 DEF ReceiveOffer, ReceiveAnswer, Incoming, Reply, timers
  <2>2. Take(q) \in [Peer -> Seq(Message)]
    BY <2>1, TakeType
  <2>3. \A r \in Peer, k \in Message : Has(Take(q), r, k) => Has(wire', r, k)
    BY <1>1, <1>2, <2>1, <2>2, PostedHas
  <2>4. \A r \in Peer, k \in {"ping", "pong"} : Has(wire, r, k) => Has(Take(q), r, k)
    BY <1>2, <2>1, TakeHas
  <2> QED BY <1>1, <1>2, <1>4, <1>5, <2>1, <2>3, <2>4
<1>12. ASSUME NEW q \in Peer, ReceiveClosed(q) \/ Leave(q) \/ RestartFails(q) PROVE FALSE
  BY <1>3, <1>12 DEF ReceiveClosed, Leave, RestartFails
<1>13. ASSUME NEW q \in Peer, ChannelCloses(q) \/ IceLost(q) PROVE UNCHANGED <<wire, since>>
  BY <1>13 DEF ChannelCloses, IceLost, timers, link
<1>14. PathDown \/ PathUp \/ Drained => UNCHANGED <<wire, since>>
  BY DEF PathDown, PathUp, Drained, timers
<1> QED
  BY <1>6, <1>7, <1>8, <1>9, <1>10, <1>11, <1>12, <1>13, <1>14 DEF Next, Receive, Timer

\* A session ends once, with its channel.
LEMMA ChannelKept ==
  ASSUME PlainType, ChannelUp, Next
  PROVE  ChannelUp' /\ (alive' = Peer => alive = Peer)
<1>1. ASSUME NEW q \in Peer, NEW w, TearDown(q, w) PROVE ChannelUp' /\ alive' # Peer
  BY <1>1 DEF TearDown, CloseSession, ChannelUp
<1>2. ASSUME NEW q \in Peer, ReceiveClosed(q) \/ Leave(q) \/ RestartFails(q)
      PROVE  ChannelUp' /\ alive' # Peer
  BY <1>1, <1>2 DEF ReceiveClosed, Leave, RestartFails
<1>3. ASSUME NEW q \in Peer, ChannelCloses(q) PROVE ChannelUp' /\ alive # Peer /\ alive' = alive
  BY <1>3, OtherIsPeer DEF ChannelCloses, ChannelUp
<1>4. ASSUME NEW q \in Peer,
             Connected(q) \/ IceLost(q) \/ Beat(q)
               \/ ReceivePing(q) \/ ReceivePong(q) \/ ReceiveOffer(q) \/ ReceiveAnswer(q)
      PROVE  ChannelUp' /\ alive' = alive
  BY <1>4 DEF Connected, IceLost, Beat, ReceivePing, ReceivePong, ReceiveOffer, ReceiveAnswer,
     Received, ChannelUp, link
<1>5. PathDown \/ PathUp \/ Drained => ChannelUp' /\ alive' = alive
  BY DEF PathDown, PathUp, Drained, ChannelUp
<1> QED BY <1>2, <1>3, <1>4, <1>5 DEF Next, Receive, Timer

\* A path that carries what is sent starts no restart, and one that has caught up
\* has ended each.
LEMMA StaysKept ==
  ASSUME PongTimeout # 1, WireType, TimerInv, PlainType, StayInv, Next
  PROVE  LiveSessionStays'
<1>1. PingOut /\ ChannelUp /\ LiveSessionStays
  BY DEF StayInv
<1> SUFFICES ASSUME Calm' PROVE \A p \in Peer : restart'[p] = NoRestart
  BY DEF LiveSessionStays
<1>2. alive = Peer /\ path' = "up" /\ ~backlog'
  BY <1>1, ChannelKept DEF Calm
<1>3. /\ since \in [Peer -> 0 .. Silence] /\ Silence \in Nat
      /\ restart \in [Peer -> NoRestart .. RestartTimeout]
  BY SessionAssumption DEF TimerInv, TimerType, Silence
<1>4. ASSUME NEW p \in Peer, ~Has(wire, Other(p), "ping"), ~Has(wire, p, "pong")
      PROVE  since[p] = 0 /\ restart[p] = NoRestart
  <2>1. since[p] = 0
    BY <1>1, <1>2, <1>4 DEF PingOut
  <2>2. restart[p] # NoRestart => since[p] >= PongTimeout + restart[p]
    BY DEF TimerInv, SilentSince
  <2>3. PongTimeout \in Nat \ {0} /\ restart[p] \in NoRestart .. RestartTimeout /\ RestartTimeout \in Nat
    BY <1>3, SessionAssumption
  <2> QED BY <2>1, <2>2, <2>3 DEF NoRestart
<1>5. CASE Drained
  <2>1. \A p \in Peer : \A m : ~Has(wire, p, m)
    BY <1>5 DEF Drained, Has
  <2>2. restart' = restart
    BY <1>5 DEF Drained, timers
  <2> QED BY <1>4, <2>1, <2>2, OtherIsPeer
<1>6. CASE ~Drained
  <2>1. Calm
    <3>1. backlog' = backlog \/ PathDown
      BY <1>6 DEF Next, PathUp, ChannelCloses, Connected, IceLost, Leave, Receive, ReceivePing,
         ReceivePong, ReceiveOffer, ReceiveAnswer, ReceiveClosed, Received, Timer, Beat, RestartFails,
         TearDown, link
    <3>2. ~PathDown
      BY <1>2 DEF PathDown
    <3>3. path \in {"up", "down"} /\ backlog \in BOOLEAN
      BY DEF PlainType
    <3> QED BY <1>1, <1>2, <3>1, <3>2, <3>3 DEF Calm, ChannelUp
  <2>2. \A p \in Peer : restart[p] = NoRestart
    BY <1>1, <2>1 DEF LiveSessionStays
  <2>3. ASSUME NEW q \in Peer, Beat(q) PROVE \A p \in Peer : restart'[p] = NoRestart
    <3>1. Answered(q)
      BY <2>1, <2>3 DEF Beat
    <3>2. ~Has(wire, Other(q), "ping") /\ ~Has(wire, q, "pong")
      BY <3>1, OtherIsPeer, UnderNone DEF Answered
    <3>3. since[q] = 0
      BY <1>4, <3>2
    <3>4. PICK late \in Late(since[q] + 1) :
             \/ late
             \/ restart' = [restart EXCEPT ![q] = IF @ = NoRestart THEN @ ELSE @ + 1]
      BY <2>3 DEF Beat
    <3>5. ~late
      BY <3>3, LateAfter
    <3> QED BY <1>3, <2>2, <3>4, <3>5
  <2>4. ASSUME NEW q \in Peer, CancelRestart(q) PROVE \A p \in Peer : restart'[p] = NoRestart
    BY <1>3, <2>2, <2>4 DEF CancelRestart, Set
  <2>5. ASSUME NEW q \in Peer,
               Connected(q) \/ Leave(q) \/ ReceivePong(q) \/ ReceiveClosed(q) \/ RestartFails(q)
        PROVE  CancelRestart(q)
    BY <2>5 DEF Connected, Leave, ReceivePong, PongHeard, ReceiveClosed, RestartFails, TearDown,
       StartHeartbeat, StopHeartbeat
  <2>6. ASSUME NEW q \in Peer,
               ChannelCloses(q) \/ IceLost(q) \/ ReceivePing(q) \/ ReceiveOffer(q) \/ ReceiveAnswer(q)
        PROVE  restart' = restart
    BY <2>6 DEF ChannelCloses, IceLost, ReceivePing, ReceiveOffer, ReceiveAnswer, timers
  <2>7. PathDown \/ PathUp => restart' = restart
    BY DEF PathDown, PathUp, timers
  <2> QED BY <1>6, <2>2, <2>3, <2>4, <2>5, <2>6, <2>7 DEF Next, Receive, Timer
<1> QED BY <1>5, <1>6

\* StayInv is inductive, if the pong timeout is not a single beat.
LEMMA StayStep ==
  PongTimeout # 1 /\ WireType /\ TimerInv /\ PlainType /\ StayInv /\ [Next]_vars => StayInv'
<1> SUFFICES ASSUME PongTimeout # 1, WireType, TimerInv, PlainType, StayInv, [Next]_vars PROVE StayInv'
  OBVIOUS
<1>1. CASE UNCHANGED vars
  BY <1>1 DEF vars, timers, link, StayInv, PingOut, ChannelUp, LiveSessionStays, Calm, Has
<1>2. CASE Next
  <2>1. PingOut /\ ChannelUp
    BY DEF StayInv
  <2>2. ChannelUp' /\ (alive' = Peer => alive = Peer)
    BY <1>2, <2>1, ChannelKept
  <2>3. alive' = Peer => PingOut'
    BY <1>2, <2>1, <2>2, PingKept
  <2>4. PingOut'
    BY <2>3 DEF PingOut
  <2> QED BY <1>2, <2>2, <2>4, StaysKept DEF StayInv
<1> QED BY <1>1, <1>2

\* A heartbeat that waits for more than one beat before it calls a pong late starts
\* no ICE restart, and so ends no session, as long as the path carries what is
\* sent and once it has caught up after an outage, for any such timeouts and any
\* offset of the two beats (startHeartbeat: 5 s of beat, 15 s of _pongTimeout).
THEOREM LiveStays ==
  ASSUME PongTimeout # 1
  PROVE  Spec => []LiveSessionStays
<1>1. Init => StayInv
  BY DEF Init, StayInv, PingOut, ChannelUp, LiveSessionStays
<1>2. PongTimeout # 1
  OBVIOUS
<1>3. StayInv /\ TimerInv /\ (PlainType /\ WireType) /\ [Next]_vars => StayInv'
  BY <1>2, StayStep
<1>4. StayInv => LiveSessionStays
  BY DEF StayInv
<1> QED BY <1>1, <1>3, <1>4, SilenceCounted, PlainCorrect, PTL DEF Spec
=============================================================================
