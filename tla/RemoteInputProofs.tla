-------------------------- MODULE RemoteInputProofs -------------------------
(***************************************************************************)
(* Proofs about RemoteInput for any number of keys, buttons, events and    *)
(* consents: consent and its withdrawal, types, and that the last word on  *)
(* a code, wherever it is on its way, is a press only if the viewer holds  *)
(* it, so that nothing stays down on the host but for what the three       *)
(* histories name.                                                         *)
(***************************************************************************)
EXTENDS RemoteInput, FiniteSetTheorems, SequenceTheorems, TLAPS

\* What counts against the one message that may come late: the one injected
\* already, or the one that has passed the check.
Pending == IF handling = NONE THEN 0 ELSE 1

\* Without consent at most one message is injected or about to be; with it none
\* is late; and before the first consent nothing has passed the check.
ConsentInv ==
  /\ late \in Nat /\ consents \in Nat
  /\ ~allowed => late + Pending <= 1
  /\ allowed => late = 0
  /\ consents = 0 => ~allowed /\ handling = NONE /\ down = {} /\ late = 0

\* The strengthening holds at the start.
LEMMA InitConsent == Init => ConsentInv
BY DEF Init, ConsentInv, Pending

\* The viewer and the channel have no part in it.
LEMMA ElsewhereConsent ==
  ASSUME ConsentInv, UNCHANGED <<allowed, handling, down, late, consents>>
  PROVE  ConsentInv'
BY DEF ConsentInv, Pending

\* A message passes the check only with consent.
LEMMA ReceiveConsent == ConsentInv /\ Receive => ConsentInv'
<1> SUFFICES ASSUME ConsentInv, Receive PROVE ConsentInv'
  OBVIOUS
<1>1. CASE allowed
  BY <1>1 DEF ConsentInv, Pending, Receive, Consented
<1>2. CASE ~allowed
  BY <1>2 DEF ConsentInv, Pending, Receive, Consented
<1> QED BY <1>1, <1>2

\* The message that has passed is injected, late if consent is gone.
LEMMA InjectConsent == ConsentInv /\ Inject => ConsentInv'
<1> SUFFICES ASSUME ConsentInv, Inject PROVE ConsentInv'
  OBVIOUS
<1>1. handling # NONE /\ handling' = NONE /\ allowed' = allowed /\ consents' = consents
  BY DEF Inject
<1>2. consents # 0
  BY <1>1 DEF ConsentInv
<1>3. late' = late \/ (~allowed /\ late' = late + 1)
  BY DEF Inject
<1> QED BY <1>1, <1>2, <1>3 DEF ConsentInv, Pending

\* The host allows, or withdraws what it has allowed.
LEMMA HostConsent == ConsentInv /\ (Grant \/ Withdraw) => ConsentInv'
BY DEF ConsentInv, Pending, Grant, Withdraw

\* Consent is kept whatever the viewer sends.
THEOREM ConsentKept == Spec => []ConsentInv
<1>1. ConsentInv /\ [Next]_vars => ConsentInv'
  <2> SUFFICES ASSUME ConsentInv, [Next]_vars PROVE ConsentInv'
    OBVIOUS
  <2>1. CASE ViewerStep
    BY <2>1, ElsewhereConsent
    DEF ViewerStep, KeyDown, KeyUp, PointerDown, PointerUp, Disable, Enable, Dispose, host
  <2>2. CASE (\E i \in DOMAIN calls : SendCall(i)) \/ ChannelCloses \/ WindowCloses \/ RegisterTarget
    BY <2>2, ElsewhereConsent DEF SendCall, ChannelCloses, WindowCloses, RegisterTarget, host
  <2>3. CASE UNCHANGED vars
    BY <2>3, ElsewhereConsent DEF vars, host
  <2> QED BY <2>1, <2>2, <2>3, ReceiveConsent, InjectConsent, HostConsent DEF Next
<1> QED BY <1>1, InitConsent, PTL DEF Spec

\* After a withdrawal at most the message under way is injected, and nothing is
\* before the first consent.
THEOREM WithdrawalIsKept == Spec => []WithdrawalHolds
<1>1. ConsentInv => WithdrawalHolds
  BY DEF ConsentInv, WithdrawalHolds, Pending
<1> QED BY <1>1, ConsentKept, PTL
-----------------------------------------------------------------------------
\* The calls for what is held are messages, in whichever order.
LEMMA ReleaseTypes ==
  ASSUME TypeOK, ReleaseEverything
  PROVE  /\ calls' \in Seq(Message) /\ pressed' \subseteq Key /\ button' \in Button \cup {NONE}
         /\ overtaken' \subseteq Codes
<1>1. Held \subseteq Key \cup Button
  BY DEF TypeOK, Held
<1>2. IsFiniteSet(Held)
  BY <1>1, InputAssumption, FS_Union, FS_Subset
<1>3. Cardinality(Held) \in Nat
  BY <1>2, FS_CardinalityType
<1>4. PICK order \in SetToSeqs(Held) :
        calls' = calls \o [i \in DOMAIN order |-> Release(order[i])]
  BY DEF ReleaseEverything, HeldAtRelease
<1>5. order \in [1 .. Cardinality(Held) -> Held]
  BY <1>4 DEF SetToSeqs
<1>6. [i \in DOMAIN order |-> Release(order[i])] \in Seq(Message)
  <2>1. \A i \in 1 .. Cardinality(Held) : Release(order[i]) \in Message
    BY <1>1, <1>5 DEF Release, Message
  <2>2. [i \in 1 .. Cardinality(Held) |-> Release(order[i])] \in Seq(Message)
    BY <1>3, <2>1
  <2> QED BY <1>5, <2>2
<1> QED BY <1>4, <1>6, ConcatProperties DEF TypeOK, ReleaseEverything

\* What is let go is a button.
LEMMA LiftedType == TypeOK => Lifted \in Button
BY InputAssumption, Zenon DEF TypeOK, Lifted

\* The viewer's events.
LEMMA ViewerTypes == ASSUME TypeOK, ViewerStep PROVE TypeOK'
<1> USE DEF TypeOK, Message, Press, Release, Call, Event
<1>1. events' \in 0 .. MaxEvents
  <2>1. events' = events \/ (events < MaxEvents /\ events' = events + 1)
    BY DEF ViewerStep, KeyDown, KeyUp, PointerDown, PointerUp, Disable, Enable, Dispose
  <2>2. events \in 0 .. MaxEvents /\ MaxEvents \in Nat
    BY InputAssumption
  <2> QED BY <2>1, <2>2
<1>2. UNCHANGED <<channel, host>>
  BY DEF ViewerStep, KeyDown, KeyUp, PointerDown, PointerUp, Disable, Enable, Dispose
<1>3. enabled' \in BOOLEAN
  BY DEF ViewerStep, KeyDown, KeyUp, PointerDown, PointerUp, Disable, Enable, Dispose
<1> DEFINE Typed == /\ calls' \in Seq(Message) /\ pressed' \subseteq Key /\ button' \in Button \cup {NONE}
                    /\ displaced' \subseteq Button /\ overtaken' \subseteq Codes
<1>4. Typed
  <2>1. ASSUME NEW k \in Key, KeyDown(k) \/ KeyUp(k) PROVE Typed
    <3>1. \/ calls' = Append(calls, Press(k)) /\ pressed' = pressed \cup {k}
          \/ calls' = Append(calls, Release(k)) /\ pressed' = pressed \ {k}
      BY <2>1 DEF KeyDown, KeyUp
    <3>2. button' = button /\ displaced' = displaced /\ overtaken' \subseteq overtaken
      BY <2>1 DEF KeyDown, KeyUp
    <3>3. Press(k) \in Message /\ Release(k) \in Message
      OBVIOUS
    <3>4. /\ calls \in Seq(Message) /\ pressed \subseteq Key /\ button \in Button \cup {NONE}
          /\ displaced \subseteq Button /\ overtaken \subseteq Codes
      OBVIOUS
    <3> HIDE DEF TypeOK, Message, Press, Release
    <3>5. calls' \in Seq(Message)
      BY <3>1, <3>3, <3>4, AppendProperties
    <3>6. pressed' \subseteq Key
      BY <3>1, <3>4
    <3> QED BY <3>2, <3>4, <3>5, <3>6
  <2>2. ASSUME NEW b \in Button, PointerDown(b) PROVE Typed
    BY <2>2, AppendProperties DEF PointerDown
  <2>3. CASE PointerUp
    <3>1. Lifted \in Button
      BY LiftedType
    <3>2. Release(Lifted) \in Message
      BY <3>1
    <3> QED BY <2>3, <3>1, <3>2, AppendProperties DEF PointerUp
  <2>4. CASE Disable \/ Dispose
    BY <2>4, ReleaseTypes DEF Disable, Dispose
  <2>5. CASE Enable
    BY <2>5 DEF history, Enable
  <2> QED BY <2>1, <2>2, <2>3, <2>4, <2>5 DEF ViewerStep
<1> QED BY <1>1, <1>2, <1>3, <1>4 DEF channel, host

\* A call that is sent.
LEMMA SendTypes == ASSUME TypeOK, NEW i \in DOMAIN calls, SendCall(i) PROVE TypeOK'
<1>1. calls' \in Seq(Message)
  <2>1. i \in 1 .. Len(calls) /\ calls \in Seq(Message)
    BY DEF TypeOK
  <2>2. SubSeq(calls, 1, i - 1) \in Seq(Message) /\ SubSeq(calls, i + 1, Len(calls)) \in Seq(Message)
    BY <2>1
  <2> QED BY <2>2, ConcatProperties DEF SendCall, RemoveAt
<1>2. calls[i] \in Message
  BY DEF TypeOK
<1>3. wire' \in Seq(Message)
  BY <1>2, AppendProperties DEF TypeOK, SendCall
<1>4. Code(calls[i].what) \in Codes
  BY <1>2 DEF Message, Code, Codes
<1>5. overtaken' \subseteq Codes
  BY <1>4 DEF TypeOK, SendCall
<1> QED BY <1>1, <1>3, <1>5 DEF TypeOK, SendCall, viewer, host

\* The host's steps.
LEMMA HostTypes ==
  ASSUME TypeOK, Receive \/ Inject \/ Grant \/ Withdraw \/ WindowCloses \/ RegisterTarget
  PROVE  TypeOK'
<1>1. CASE Receive
  <2>1. Head(wire) \in Message /\ wire' \in Seq(Message)
    BY <1>1 DEF TypeOK, Receive
  <2>2. Code(Head(wire).what) \in Codes
    BY <2>1 DEF Message, Code, Codes
  <2>3. refused' \subseteq Codes
    BY <1>1, <2>2 DEF TypeOK, Receive, NotInjected
  <2>4. handling' \in Message \cup {NONE}
    BY <1>1, <2>1 DEF TypeOK, Receive
  <2> QED BY <1>1, <2>1, <2>3, <2>4 DEF history, TypeOK, Receive, viewer
<1>2. CASE Inject
  <2>1. handling \in Message
    BY <1>2 DEF TypeOK, Inject
  <2>2. Code(handling.what) \in Codes
    BY <2>1 DEF Message, Code, Codes
  <2>3. refused' \subseteq Codes /\ down' \subseteq Codes /\ late' \in Nat
    BY <1>2, <2>2 DEF TypeOK, Inject, NotInjected, Faked
  <2> QED BY <1>2, <2>3 DEF history, TypeOK, Inject, viewer, channel
<1>3. CASE Grant \/ Withdraw \/ WindowCloses \/ RegisterTarget
  <2>1. late' \in Nat /\ consents' \in 0 .. MaxConsents
    BY <1>3, InputAssumption DEF TypeOK, Grant, Withdraw, WindowCloses, RegisterTarget
  <2>2. allowed' \in BOOLEAN /\ window' \in BOOLEAN
    BY <1>3 DEF TypeOK, Grant, Withdraw, WindowCloses, RegisterTarget
  <2>3. UNCHANGED <<viewer, calls, history, channel, handling, down, refused>>
    BY <1>3 DEF Grant, Withdraw, WindowCloses, RegisterTarget
  <2> QED BY <2>1, <2>2, <2>3 DEF history, TypeOK, viewer, channel
<1> QED BY <1>1, <1>2, <1>3

\* The types hold for any keys, buttons and bounds.
THEOREM TypeCorrect == Spec => []TypeOK
<1>1. Init => TypeOK
  <2> SUFFICES ASSUME Init PROVE TypeOK
    OBVIOUS
  <2>1. calls \in Seq(Message) /\ wire \in Seq(Message)
    BY EmptySeq DEF Init
  <2>2. late \in Nat /\ events \in 0 .. MaxEvents /\ consents \in 0 .. MaxConsents
    BY InputAssumption DEF Init
  <2> QED BY <2>1, <2>2 DEF Init, TypeOK
<1>2. TypeOK /\ [Next]_vars => TypeOK'
  <2> SUFFICES ASSUME TypeOK, [Next]_vars PROVE TypeOK'
    OBVIOUS
  <2>1. CASE ChannelCloses
    <3>1. calls' \in Seq(Message) /\ wire' \in Seq(Message)
      BY <2>1, EmptySeq DEF ChannelCloses
    <3>2. open' \in BOOLEAN /\ UNCHANGED <<viewer, history, host>>
      BY <2>1 DEF ChannelCloses
    <3> QED BY <3>1, <3>2 DEF history, TypeOK, viewer, host
  <2>2. CASE UNCHANGED vars
    BY <2>2 DEF history, TypeOK, vars, viewer, channel, host
  <2> QED BY <2>1, <2>2, ViewerTypes, SendTypes, HostTypes DEF Next
<1> QED BY <1>1, <1>2, PTL DEF Spec
-----------------------------------------------------------------------------
\* The codes the viewer holds, and what a queue says of one: nothing, or that
\* its last word is a press.
HeldCodes     == {Code(w) : w \in Held}
Quiet(q, c)   == \A j \in DOMAIN q : Code(q[j].what) # c
Pressed(q, c) == \E j \in DOMAIN q :
                   /\ Code(q[j].what) = c /\ q[j].press
                   /\ \A k \in DOMAIN q : k > j => Code(q[k].what) # c

\* The last word on a code, on its way or done, is a press only if the viewer
\* holds the code; what is down without it is down for a release that the host
\* did not inject.
HandlingIs(c) == handling # NONE /\ Code(handling.what) = c
Kept(c) ==
  c \notin HeldCodes =>
    /\ ~Pressed(calls, c)
    /\ Quiet(calls, c) =>
         /\ ~Pressed(wire, c)
         /\ Quiet(wire, c) =>
              /\ HandlingIs(c) => ~handling.press
              /\ c \in down => HandlingIs(c) \/ c \in refused

KeptInv == open => \A c \in Codes \ (displaced \cup overtaken) : Kept(c)

\* A message at the end of a queue is its last word.
LEMMA AppendWord ==
  ASSUME NEW q \in Seq(Message), NEW m \in Message, NEW c
  PROVE  /\ Code(m.what) = c => (Pressed(Append(q, m), c) <=> m.press)
         /\ Code(m.what) = c => ~Quiet(Append(q, m), c)
         /\ Code(m.what) # c => (Pressed(Append(q, m), c) <=> Pressed(q, c))
         /\ Code(m.what) # c => (Quiet(Append(q, m), c) <=> Quiet(q, c))
<1> DEFINE r == Append(q, m)
<1>1. /\ Len(q) \in Nat /\ DOMAIN q = 1 .. Len(q) /\ DOMAIN r = 1 .. Len(q) + 1
      /\ \A j \in 1 .. Len(q) : r[j] = q[j]
      /\ r[Len(q) + 1] = m
  BY AppendProperties
<1> HIDE DEF r
<1>2. \A j \in DOMAIN r : j = Len(q) + 1 \/ (j \in DOMAIN q /\ j < Len(q) + 1)
  BY <1>1
<1>3. \A j \in DOMAIN q : j \in DOMAIN r /\ j < Len(q) + 1
  BY <1>1
<1>4. Len(q) + 1 \in DOMAIN r /\ \A j \in DOMAIN r : ~(j > Len(q) + 1)
  BY <1>1
<1>5. CASE Code(m.what) = c
  <2>1. Pressed(r, c) <=> m.press
    <3>1. ASSUME Pressed(r, c) PROVE m.press
      <4>1. PICK j \in DOMAIN r : /\ Code(r[j].what) = c /\ r[j].press
                                  /\ \A k \in DOMAIN r : k > j => Code(r[k].what) # c
        BY <3>1 DEF Pressed
      <4>2. j = Len(q) + 1
        BY <1>1, <1>4, <1>5, <4>1
      <4> QED BY <1>1, <4>1, <4>2
    <3>2. ASSUME m.press PROVE Pressed(r, c)
      BY <1>1, <1>4, <1>5, <3>2 DEF Pressed
    <3> QED BY <3>1, <3>2 DEF Message
  <2>2. ~Quiet(r, c)
    BY <1>1, <1>4, <1>5 DEF Quiet
  <2> QED BY <1>5, <2>1, <2>2 DEF r
<1>6. CASE Code(m.what) # c
  <2>1. ASSUME Pressed(r, c) PROVE Pressed(q, c)
    <3>1. PICK j \in DOMAIN r : /\ Code(r[j].what) = c /\ r[j].press
                                /\ \A k \in DOMAIN r : k > j => Code(r[k].what) # c
      BY <2>1 DEF Pressed
    <3>2. j \in DOMAIN q /\ r[j] = q[j]
      BY <1>1, <1>2, <1>6, <3>1
    <3>3. \A k \in DOMAIN q : k > j => Code(q[k].what) # c
      BY <1>1, <1>3, <3>1
    <3> QED BY <3>1, <3>2, <3>3 DEF Pressed
  <2>2. ASSUME Pressed(q, c) PROVE Pressed(r, c)
    <3>1. PICK j \in DOMAIN q : /\ Code(q[j].what) = c /\ q[j].press
                                /\ \A k \in DOMAIN q : k > j => Code(q[k].what) # c
      BY <2>2 DEF Pressed
    <3>2. j \in DOMAIN r /\ r[j] = q[j]
      BY <1>1, <1>3
    <3>3. \A k \in DOMAIN r : k > j => Code(r[k].what) # c
      BY <1>1, <1>2, <1>6, <3>1
    <3> QED BY <3>1, <3>2, <3>3 DEF Pressed
  <2>3. Quiet(r, c) <=> Quiet(q, c)
    BY <1>1, <1>2, <1>3, <1>6 DEF Quiet
  <2> QED BY <1>6, <2>1, <2>2, <2>3 DEF r
<1> QED BY <1>5, <1>6

\* Taking the head leaves the last word to the rest, or to the head itself.
LEMMA TailWord ==
  ASSUME NEW q \in Seq(Message), q # <<>>, NEW c
  PROVE  /\ Pressed(Tail(q), c) => Pressed(q, c)
         /\ Quiet(Tail(q), c) /\ Code(Head(q).what) # c => Quiet(q, c)
         /\ Quiet(Tail(q), c) /\ Code(Head(q).what) = c /\ Head(q).press => Pressed(q, c)
<1> DEFINE r == Tail(q)
<1>1. /\ Len(q) \in Nat \ {0} /\ DOMAIN q = 1 .. Len(q) /\ DOMAIN r = 1 .. Len(q) - 1
      /\ \A j \in 1 .. Len(q) - 1 : r[j] = q[j + 1]
      /\ Head(q) = q[1]
  BY HeadTailProperties, EmptySeq, LenProperties
<1> HIDE DEF r
<1>2. \A j \in DOMAIN q : j = 1 \/ (j - 1 \in DOMAIN r /\ r[j - 1] = q[j])
  BY <1>1
<1>3. \A j \in DOMAIN r : j + 1 \in DOMAIN q /\ r[j] = q[j + 1]
  BY <1>1
<1>4. ASSUME Pressed(r, c) PROVE Pressed(q, c)
  <2>1. PICK j \in DOMAIN r : /\ Code(r[j].what) = c /\ r[j].press
                              /\ \A k \in DOMAIN r : k > j => Code(r[k].what) # c
    BY <1>4 DEF Pressed
  <2>2. \A k \in DOMAIN q : k > j + 1 => Code(q[k].what) # c
    <3> SUFFICES ASSUME NEW k \in DOMAIN q, k > j + 1 PROVE Code(q[k].what) # c
      OBVIOUS
    <3>1. k # 1 /\ k - 1 > j
      BY <1>1
    <3> QED BY <1>2, <2>1, <3>1
  <2> QED BY <1>3, <2>1, <2>2 DEF Pressed
<1>5. ASSUME Quiet(r, c), Code(Head(q).what) # c PROVE Quiet(q, c)
  BY <1>1, <1>2, <1>5 DEF Quiet
<1>6. ASSUME Quiet(r, c), Code(Head(q).what) = c, Head(q).press PROVE Pressed(q, c)
  <2>1. 1 \in DOMAIN q
    BY <1>1
  <2>2. \A k \in DOMAIN q : k > 1 => Code(q[k].what) # c
    BY <1>1, <1>2, <1>6 DEF Quiet
  <2> QED BY <1>1, <1>6, <2>1, <2>2 DEF Pressed
<1> QED BY <1>4, <1>5, <1>6 DEF r

\* Taking a call that overtakes none of its code leaves the last word to the
\* rest, or to the call itself.
LEMMA RemoveWord ==
  ASSUME NEW q \in Seq(Message), NEW i \in DOMAIN q, NEW c,
         \A j \in 1 .. i - 1 : ~(Code(q[j].what) = c /\ Code(q[i].what) = c)
  PROVE  /\ Pressed(RemoveAt(q, i), c) => Pressed(q, c)
         /\ Quiet(RemoveAt(q, i), c) /\ Code(q[i].what) # c => Quiet(q, c)
         /\ Quiet(RemoveAt(q, i), c) /\ Code(q[i].what) = c /\ q[i].press => Pressed(q, c)
<1> DEFINE r == RemoveAt(q, i)
<1>1. /\ Len(q) \in Nat /\ i \in 1 .. Len(q) /\ DOMAIN q = 1 .. Len(q)
      /\ DOMAIN r = 1 .. Len(q) - 1
      /\ \A j \in 1 .. Len(q) - 1 : r[j] = IF j < i THEN q[j] ELSE q[j + 1]
  <2> DEFINE front == SubSeq(q, 1, i - 1)
             rear  == SubSeq(q, i + 1, Len(q))
  <2>1. Len(q) \in Nat /\ i \in 1 .. Len(q) /\ DOMAIN q = 1 .. Len(q)
    BY LenProperties
  <2>2. front \in Seq(Message) /\ Len(front) = i - 1 /\ \A j \in 1 .. i - 1 : front[j] = q[j]
    BY <2>1
  <2>3. /\ rear \in Seq(Message) /\ Len(rear) = Len(q) - i
        /\ \A j \in 1 .. Len(q) - i : rear[j] = q[j + i]
    BY <2>1
  <2>4. r = front \o rear
    BY DEF RemoveAt
  <2> HIDE DEF front, rear, r
  <2>5. /\ Len(r) = Len(front) + Len(rear) /\ DOMAIN r = 1 .. Len(front) + Len(rear)
        /\ \A j \in 1 .. Len(front) + Len(rear) :
             r[j] = IF j <= Len(front) THEN front[j] ELSE rear[j - Len(front)]
    <3>1. /\ Len(front \o rear) = Len(front) + Len(rear)
          /\ \A j \in 1 .. Len(front) + Len(rear) :
               (front \o rear)[j] = IF j <= Len(front) THEN front[j] ELSE rear[j - Len(front)]
      BY <2>2, <2>3, ConcatProperties
    <3>2. r \in Seq(Message)
      BY <2>2, <2>3, <2>4, ConcatProperties
    <3>3. DOMAIN r = 1 .. Len(r)
      BY <3>2, LenProperties
    <3> QED BY <2>4, <3>1, <3>3
  <2>6. DOMAIN r = 1 .. Len(q) - 1
    BY <2>1, <2>2, <2>3, <2>5
  <2>7. ASSUME NEW j \in 1 .. Len(q) - 1 PROVE r[j] = IF j < i THEN q[j] ELSE q[j + 1]
    <3>1. r[j] = IF j <= i - 1 THEN front[j] ELSE rear[j - (i - 1)]
      BY <2>1, <2>2, <2>3, <2>5
    <3>2. CASE j < i
      BY <2>1, <2>2, <3>1, <3>2
    <3>3. CASE ~(j < i)
      <4>1. j - (i - 1) \in 1 .. Len(q) - i /\ (j - (i - 1)) + i = j + 1 /\ ~(j <= i - 1)
        BY <2>1, <3>3
      <4>2. rear[j - (i - 1)] = q[j + 1]
        BY <2>3, <4>1
      <4> QED BY <3>1, <3>3, <4>1, <4>2
    <3> QED BY <3>2, <3>3
  <2> QED BY <2>1, <2>6, <2>7
<1> HIDE DEF r
<1>2. \A j \in DOMAIN q : \/ j = i
                          \/ j < i /\ j \in DOMAIN r /\ r[j] = q[j]
                          \/ j > i /\ j - 1 \in DOMAIN r /\ r[j - 1] = q[j]
  BY <1>1
<1>3. \A j \in DOMAIN r : \/ j < i /\ j \in DOMAIN q /\ r[j] = q[j]
                          \/ j >= i /\ j + 1 \in DOMAIN q /\ r[j] = q[j + 1]
  BY <1>1
<1>4. ASSUME Pressed(r, c) PROVE Pressed(q, c)
  <2>1. PICK j \in DOMAIN r : /\ Code(r[j].what) = c /\ r[j].press
                              /\ \A k \in DOMAIN r : k > j => Code(r[k].what) # c
    BY <1>4 DEF Pressed
  <2>2. CASE j < i
    <3>1. j \in DOMAIN q /\ r[j] = q[j] /\ j \in 1 .. i - 1
      BY <1>1, <1>3, <2>2
    <3>2. Code(q[i].what) # c
      BY <2>1, <3>1
    <3>3. \A k \in DOMAIN q : k > j => Code(q[k].what) # c
      <4> SUFFICES ASSUME NEW k \in DOMAIN q, k > j PROVE Code(q[k].what) # c
        OBVIOUS
      <4>1. k > i => k - 1 > j
        BY <1>1, <2>2
      <4> QED BY <1>2, <2>1, <3>2, <4>1
    <3> QED BY <2>1, <3>1, <3>3 DEF Pressed
  <2>3. CASE ~(j < i)
    <3>1. j + 1 \in DOMAIN q /\ r[j] = q[j + 1]
      BY <1>1, <1>3, <2>3
    <3>2. \A k \in DOMAIN q : k > j + 1 => Code(q[k].what) # c
      <4> SUFFICES ASSUME NEW k \in DOMAIN q, k > j + 1 PROVE Code(q[k].what) # c
        OBVIOUS
      <4>1. k > i /\ k - 1 > j
        BY <1>1, <2>3
      <4> QED BY <1>1, <1>2, <2>1, <4>1
    <3> QED BY <2>1, <3>1, <3>2 DEF Pressed
  <2> QED BY <2>2, <2>3
<1>5. ASSUME Quiet(r, c), Code(q[i].what) # c PROVE Quiet(q, c)
  BY <1>2, <1>5 DEF Quiet
<1>6. ASSUME Quiet(r, c), Code(q[i].what) = c, q[i].press PROVE Pressed(q, c)
  <2>1. \A k \in DOMAIN q : k > i => Code(q[k].what) # c
    BY <1>1, <1>2, <1>6 DEF Quiet
  <2> QED BY <1>6, <2>1 DEF Pressed
<1> QED BY <1>4, <1>5, <1>6 DEF r

\* Releases of all that is held are the last words on its codes.
LEMMA ReleaseWord ==
  ASSUME TypeOK, ReleaseEverything, NEW c
  PROVE  /\ Pressed(calls', c) => Pressed(calls, c) /\ c \notin HeldCodes
         /\ Quiet(calls', c) => Quiet(calls, c) /\ c \notin HeldCodes
<1>1. Held \subseteq Key \cup Button /\ IsFiniteSet(Held)
  <2>1. Held \subseteq Key \cup Button
    BY DEF TypeOK, Held
  <2> QED BY <2>1, InputAssumption, FS_Union, FS_Subset
<1> DEFINE n == Cardinality(Held)
<1>2. n \in Nat
  BY <1>1, FS_CardinalityType
<1>3. PICK order \in SetToSeqs(Held) :
        calls' = calls \o [i \in DOMAIN order |-> Release(order[i])]
  BY DEF ReleaseEverything, HeldAtRelease
<1>4. order \in [1 .. n -> Held] /\ \A i, j \in 1 .. n : i # j => order[i] # order[j]
  BY <1>3 DEF SetToSeqs
<1> DEFINE rel == [i \in DOMAIN order |-> Release(order[i])]
<1>5. \A w \in Held : \E i \in 1 .. n : order[i] = w
  <2>1. order \in Injection(1 .. n, Held)
    BY <1>4 DEF Injection, IsInjective
  <2>2. IsFiniteSet(1 .. n) /\ Cardinality(1 .. n) = n
    BY <1>2, FS_Interval
  <2>3. order \in Surjection(1 .. n, Held)
    BY <1>1, <2>1, <2>2, FS_Injection
  <2> QED BY <2>3 DEF Surjection
<1>6. rel \in Seq(Message) /\ Len(rel) = n /\ \A i \in 1 .. n : rel[i] = Release(order[i])
  <2>1. \A i \in 1 .. n : Release(order[i]) \in Message
    BY <1>1, <1>4 DEF Release, Message
  <2>2. rel = [i \in 1 .. n |-> Release(order[i])]
    BY <1>4
  <2> HIDE DEF rel, n
  <2> QED BY <1>2, <2>1, <2>2
<1>7. \A i \in 1 .. n : ~rel[i].press /\ rel[i].what = order[i]
  BY <1>6 DEF Release
<1> HIDE DEF rel, n
<1>8. calls \in Seq(Message) /\ Len(calls) \in Nat /\ DOMAIN calls = 1 .. Len(calls)
  BY LenProperties DEF TypeOK
<1>9. /\ DOMAIN calls' = 1 .. Len(calls) + n
      /\ \A j \in 1 .. Len(calls) + n :
           calls'[j] = IF j <= Len(calls) THEN calls[j] ELSE rel[j - Len(calls)]
  <2>1. calls' = calls \o rel
    BY <1>3 DEF rel
  <2> QED BY <1>6, <1>8, <2>1, ConcatProperties
<1>10. \A j \in DOMAIN calls : j \in DOMAIN calls' /\ calls'[j] = calls[j]
  BY <1>2, <1>8, <1>9
<1>11. \A i \in 1 .. n : i + Len(calls) \in DOMAIN calls' /\ calls'[i + Len(calls)] = rel[i]
  BY <1>2, <1>8, <1>9
<1>12. \A j \in DOMAIN calls' : \/ j \in DOMAIN calls
                                \/ \E i \in 1 .. n : j = i + Len(calls)
  <2> SUFFICES ASSUME NEW j \in DOMAIN calls', j \notin DOMAIN calls
               PROVE  \E i \in 1 .. n : j = i + Len(calls)
    OBVIOUS
  <2>1. j - Len(calls) \in 1 .. n /\ j = (j - Len(calls)) + Len(calls)
    BY <1>2, <1>8, <1>9
  <2> QED BY <2>1
<1>13. ASSUME c \in HeldCodes PROVE \E i \in 1 .. n : Code(rel[i].what) = c
  BY <1>5, <1>7, <1>13 DEF HeldCodes
<1>14. ASSUME Pressed(calls', c) PROVE Pressed(calls, c) /\ c \notin HeldCodes
  <2>1. PICK j \in DOMAIN calls' :
          /\ Code(calls'[j].what) = c /\ calls'[j].press
          /\ \A k \in DOMAIN calls' : k > j => Code(calls'[k].what) # c
    BY <1>14 DEF Pressed
  <2>2. j \in DOMAIN calls
    BY <1>7, <1>11, <1>12, <2>1
  <2>3. Pressed(calls, c)
    BY <1>10, <2>1, <2>2 DEF Pressed
  <2>4. \A i \in 1 .. n : Code(rel[i].what) # c
    <3> SUFFICES ASSUME NEW i \in 1 .. n PROVE Code(rel[i].what) # c
      OBVIOUS
    <3>1. i + Len(calls) > j
      BY <1>2, <1>8, <2>2
    <3> QED BY <1>11, <2>1, <3>1
  <2> QED BY <1>13, <2>3, <2>4
<1>15. ASSUME Quiet(calls', c) PROVE Quiet(calls, c) /\ c \notin HeldCodes
  BY <1>10, <1>11, <1>13, <1>15 DEF Quiet
<1> QED BY <1>14, <1>15

\* A call goes to the end: it is the last word on its code, which is held from
\* then on if it is a press, and what else is held stays held.
LEMMA CallKept ==
  ASSUME TypeOK, NEW c \in Codes, NEW m \in Message, Call(m),
         UNCHANGED <<wire, handling, down, refused>>,
         Code(m.what) = c /\ m.press => c \in HeldCodes',
         Code(m.what) # c /\ c \in HeldCodes => c \in HeldCodes',
         Code(m.what) # c => Kept(c)
  PROVE  Kept(c)'
<1>1. calls \in Seq(Message) /\ calls' = Append(calls, m)
  BY DEF TypeOK, Call
<1>2. CASE Code(m.what) = c
  <2>1. c \notin HeldCodes' => ~Pressed(calls', c) /\ ~Quiet(calls', c)
    BY <1>1, <1>2, AppendWord
  <2> QED BY <2>1 DEF Kept
<1>3. CASE Code(m.what) # c
  <2>1. (Pressed(calls', c) <=> Pressed(calls, c)) /\ (Quiet(calls', c) <=> Quiet(calls, c))
    BY <1>1, <1>3, AppendWord
  <2>2. (Pressed(wire, c))' = Pressed(wire, c) /\ (Quiet(wire, c))' = Quiet(wire, c)
    BY DEF Pressed, Quiet
  <2> QED BY <1>3, <2>1, <2>2 DEF Kept, HandlingIs
<1> QED BY <1>2, <1>3

\* The viewer's events: a press is of what is held from then on, what is let go
\* has its release as the last word, and a button that is overwritten counts as
\* displaced.
LEMMA ViewerKept ==
  ASSUME TypeOK, ViewerStep, NEW c \in Codes, c \notin displaced', c \notin overtaken',
         c \notin displaced /\ c \notin overtaken => Kept(c)
  PROVE  Kept(c)'
<1>1. UNCHANGED <<wire, handling, down, refused>>
  BY DEF ViewerStep, KeyDown, KeyUp, PointerDown, PointerUp, Disable, Enable, Dispose,
         channel, host
<1>2. \A w \in Key \cup Button : Press(w) \in Message /\ Release(w) \in Message
  BY DEF Press, Release, Message
<1>3. \A w : Press(w).what = w /\ Release(w).what = w /\ Press(w).press /\ ~Release(w).press
  BY DEF Press, Release
<1>4. NONE \notin Key \cup Button /\ \A b \in Button : Code(b) = b
  BY InputAssumption DEF Code
<1>5. ASSUME NEW k \in Key, KeyDown(k) PROVE Kept(c)'
  <2>1. Call(Press(k)) /\ Held' = Held \cup {k} /\ displaced' = displaced
    BY <1>5 DEF KeyDown, Held
  <2>2. Code(k) \in HeldCodes' /\ (c \in HeldCodes => c \in HeldCodes')
    BY <2>1 DEF HeldCodes
  <2>3. Code(k) # c => Kept(c)
    BY <1>3, <2>1 DEF Call
  <2> QED BY <1>1, <1>2, <1>3, <2>1, <2>2, <2>3, CallKept
<1>6. ASSUME NEW k \in Key, KeyUp(k) PROVE Kept(c)'
  <2>1. Call(Release(k)) /\ Held \subseteq Held' \cup {k} /\ displaced' = displaced
    BY <1>6 DEF KeyUp, Held
  <2>2. Code(k) # c /\ c \in HeldCodes => c \in HeldCodes'
    BY <2>1 DEF HeldCodes
  <2>3. Code(k) # c => Kept(c)
    BY <1>3, <2>1 DEF Call
  <2> QED BY <1>1, <1>2, <1>3, <2>1, <2>2, <2>3, CallKept
<1>7. ASSUME NEW b \in Button, PointerDown(b) PROVE Kept(c)'
  <2>1. /\ Call(Press(b)) /\ Held' = pressed \cup {b} /\ Held = pressed \cup ({button} \ {NONE})
        /\ displaced' = (displaced \cup ({button} \ {NONE})) \ {b}
    BY <1>4, <1>7 DEF PointerDown, Held
  <2>2. Code(b) \in HeldCodes'
    BY <2>1 DEF HeldCodes
  <2>3. c # b => c \notin displaced /\ (button # NONE => c # button)
    BY <2>1
  <2>4. c # b /\ c \in HeldCodes => c \in HeldCodes'
    <3>1. button # NONE => Code(button) = button
      BY <1>4 DEF TypeOK
    <3> QED BY <2>1, <2>3, <3>1 DEF HeldCodes
  <2>5. c # b => Kept(c)
    BY <1>3, <1>4, <2>1, <2>3 DEF Call
  <2> QED BY <1>1, <1>2, <1>3, <1>4, <2>1, <2>2, <2>4, <2>5, CallKept
<1>8. CASE PointerUp
  <2>1. /\ Lifted \in Button /\ Call(Release(Lifted)) /\ Held \subseteq Held' \cup {Lifted}
        /\ displaced' = displaced \ {Lifted}
    BY <1>8, LiftedType DEF PointerUp, Held, Lifted
  <2>2. Code(Lifted) # c /\ c \in HeldCodes => c \in HeldCodes'
    BY <2>1 DEF HeldCodes
  <2>3. Code(Lifted) # c => Kept(c)
    BY <1>3, <1>4, <2>1 DEF Call
  <2> QED BY <1>1, <1>2, <1>3, <2>1, <2>2, <2>3, CallKept
<1>9. CASE Disable \/ Dispose
  <2>1. ReleaseEverything /\ displaced' = displaced
    BY <1>9 DEF Disable, Dispose
  <2>2. /\ Pressed(calls', c) => Pressed(calls, c) /\ c \notin HeldCodes
        /\ Quiet(calls', c) => Quiet(calls, c) /\ c \notin HeldCodes
    BY <2>1, ReleaseWord
  <2>3. c \in HeldCodes \/ Kept(c)
    BY <2>1 DEF ReleaseEverything, HeldAtRelease, HeldCodes
  <2>4. (Pressed(wire, c))' = Pressed(wire, c) /\ (Quiet(wire, c))' = Quiet(wire, c)
    BY <1>1 DEF Pressed, Quiet
  <2> QED BY <1>1, <2>2, <2>3, <2>4 DEF Kept, HandlingIs
<1>10. CASE Enable
  BY <1>1, <1>10 DEF Enable, history, Kept, HandlingIs, Pressed, Quiet, HeldCodes, Held
<1> QED BY <1>5, <1>6, <1>7, <1>8, <1>9, <1>10 DEF ViewerStep

\* A call that is sent overtakes no other of a code that is not overtaken.
LEMMA SendKept ==
  ASSUME TypeOK, NEW i \in DOMAIN calls, SendCall(i), NEW c \in Codes, c \notin overtaken', Kept(c)
  PROVE  Kept(c)'
<1> DEFINE m == calls[i]
<1>1. /\ calls \in Seq(Message) /\ wire \in Seq(Message) /\ m \in Message
      /\ calls' = RemoveAt(calls, i) /\ wire' = Append(wire, m)
      /\ UNCHANGED <<handling, down, refused, HeldCodes>>
  BY DEF TypeOK, SendCall, HeldCodes, Held, viewer, host
<1>2. \A j \in 1 .. i - 1 : ~(Code(calls[j].what) = c /\ Code(m.what) = c)
  BY DEF SendCall
<1>3. /\ Pressed(calls', c) => Pressed(calls, c)
      /\ Quiet(calls', c) /\ Code(m.what) # c => Quiet(calls, c)
      /\ Quiet(calls', c) /\ Code(m.what) = c /\ m.press => Pressed(calls, c)
  BY <1>1, <1>2, RemoveWord
<1>4. /\ Code(m.what) = c => (Pressed(wire', c) <=> m.press) /\ ~Quiet(wire', c)
      /\ Code(m.what) # c => (Pressed(wire', c) <=> Pressed(wire, c))
      /\ Code(m.what) # c => (Quiet(wire', c) <=> Quiet(wire, c))
  BY <1>1, AppendWord
<1> HIDE DEF m
<1> QED BY <1>1, <1>3, <1>4 DEF Kept, HandlingIs

\* The host takes the next message, or leaves it for want of consent.
LEMMA ReceiveKept ==
  ASSUME TypeOK, Receive, NEW c \in Codes, Kept(c) PROVE Kept(c)'
<1> DEFINE m == Head(wire)
<1>1. /\ wire \in Seq(Message) /\ wire # <<>> /\ wire' = Tail(wire) /\ handling = NONE
      /\ UNCHANGED <<calls, down, HeldCodes>>
  BY DEF TypeOK, Receive, HeldCodes, Held, viewer
<1>2. m \in Message /\ m # NONE
  BY <1>1, HeadTailProperties, NoneAssumption
<1>3. /\ handling' = m \/ (handling' = NONE /\ (Code(m.what) = c => m.press \/ c \in refused'))
      /\ refused \subseteq refused'
  BY <1>1 DEF Receive, NotInjected
<1>4. /\ Pressed(wire', c) => Pressed(wire, c)
      /\ Quiet(wire', c) /\ Code(m.what) # c => Quiet(wire, c)
      /\ Quiet(wire', c) /\ Code(m.what) = c /\ m.press => Pressed(wire, c)
  BY <1>1, TailWord
<1>5. (Pressed(calls, c))' = Pressed(calls, c) /\ (Quiet(calls, c))' = Quiet(calls, c)
  BY <1>1 DEF Pressed, Quiet
<1>6. m.press \in BOOLEAN
  BY <1>2 DEF Message
<1> HIDE DEF m
<1>7. HandlingIs(c)' => handling' = m /\ Code(m.what) = c
  BY <1>3 DEF HandlingIs
<1>8. ~HandlingIs(c)
  BY <1>1 DEF HandlingIs
<1>9. SUFFICES ASSUME c \notin HeldCodes
               PROVE  /\ ~Pressed(calls, c)
                      /\ Quiet(calls, c) =>
                           /\ ~Pressed(wire', c)
                           /\ Quiet(wire', c) => /\ HandlingIs(c)' => ~handling'.press
                                                 /\ c \in down => HandlingIs(c)' \/ c \in refused'
  BY <1>1, <1>5 DEF Kept
<1>10. /\ ~Pressed(calls, c)
       /\ Quiet(calls, c) => ~Pressed(wire, c) /\ (Quiet(wire, c) /\ c \in down => c \in refused)
  BY <1>8, <1>9 DEF Kept
<1>11. Quiet(calls, c) /\ Quiet(wire', c) /\ Code(m.what) = c => ~m.press
  BY <1>4, <1>10
<1>12. Code(m.what) = c /\ ~m.press => HandlingIs(c)' \/ c \in refused'
  BY <1>2, <1>3 DEF HandlingIs
<1> QED BY <1>3, <1>4, <1>7, <1>10, <1>11, <1>12

\* The message that has passed the check is injected, or does not reach.
LEMMA InjectKept ==
  ASSUME TypeOK, Inject, NEW c \in Codes, Kept(c) PROVE Kept(c)'
<1>1. handling # NONE /\ handling' = NONE /\ UNCHANGED <<calls, wire, HeldCodes>>
  BY DEF Inject, HeldCodes, Held, viewer, channel
<1>2. handling.press \in BOOLEAN
  BY <1>1 DEF TypeOK, Message
<1>3. /\ (Pressed(calls, c))' = Pressed(calls, c) /\ (Quiet(calls, c))' = Quiet(calls, c)
      /\ (Pressed(wire, c))' = Pressed(wire, c) /\ (Quiet(wire, c))' = Quiet(wire, c)
  BY <1>1 DEF Pressed, Quiet
<1>4. c \in down' => \/ c \in down /\ ~HandlingIs(c) /\ (c \in refused => c \in refused')
                     \/ HandlingIs(c) /\ ~handling.press /\ c \in refused'
                     \/ HandlingIs(c) /\ handling.press
  <2>1. CASE ~Reaches(handling)
    BY <1>1, <1>2, <2>1 DEF Inject, NotInjected, HandlingIs
  <2>2. CASE Reaches(handling)
    BY <1>1, <1>2, <2>2 DEF Inject, Faked, HandlingIs
  <2> QED BY <2>1, <2>2
<1>5. ~HandlingIs(c)'
  BY <1>1 DEF HandlingIs
<1> QED BY <1>1, <1>3, <1>4, <1>5 DEF Kept

\* What the host has is what the viewer holds, for any interleaving of calls,
\* but for buttons that were overwritten, calls that have changed places and
\* releases that the host did not inject.
THEOREM LastWordCounts == Spec => [](TypeOK /\ KeptInv)
<1>1. Init => KeptInv
  <2> SUFFICES ASSUME Init, NEW c \in Codes PROVE Kept(c)
    BY DEF KeptInv
  <2>1. DOMAIN <<>> = {}
    OBVIOUS
  <2> QED BY <2>1 DEF Init, Kept, Pressed, Quiet, HandlingIs
<1>2. TypeOK /\ KeptInv /\ [Next]_vars => KeptInv'
  <2> SUFFICES ASSUME TypeOK, KeptInv, [Next]_vars, open',
                      NEW c \in Codes, c \notin displaced', c \notin overtaken'
               PROVE  Kept(c)'
    BY DEF KeptInv
  <2>1. open /\ ~ChannelCloses
    BY DEF ChannelCloses, Next, ViewerStep, KeyDown, KeyUp, PointerDown, PointerUp, Disable,
           Enable, Dispose, SendCall, Receive, Inject, Grant, Withdraw, WindowCloses,
           RegisterTarget, vars, channel
  <2>2. c \notin displaced /\ c \notin overtaken => Kept(c)
    BY <2>1 DEF KeptInv
  <2>3. CASE ViewerStep
    BY <2>2, <2>3, ViewerKept
  <2>4. ASSUME NEW i \in DOMAIN calls, SendCall(i) PROVE Kept(c)'
    <3>1. displaced' = displaced /\ overtaken \subseteq overtaken'
      BY <2>4 DEF SendCall
    <3> QED BY <2>2, <2>4, <3>1, SendKept
  <2>5. CASE Receive \/ Inject
    <3>1. UNCHANGED history
      BY <2>5 DEF Receive, Inject
    <3> QED BY <2>2, <2>5, <3>1, ReceiveKept, InjectKept DEF history
  <2>6. CASE Grant \/ Withdraw \/ WindowCloses \/ RegisterTarget \/ UNCHANGED vars
    <3>1. UNCHANGED <<pressed, button, calls, history, wire, handling, down, refused>>
      BY <2>6 DEF Grant, Withdraw, WindowCloses, RegisterTarget, vars, viewer, channel, host
    <3> QED BY <2>2, <3>1 DEF history, Kept, HandlingIs, Pressed, Quiet, HeldCodes, Held
  <2> QED BY <2>1, <2>3, <2>4, <2>5, <2>6 DEF Next
<1> QED BY <1>1, <1>2, TypeCorrect, PTL DEF Spec

\* Once all is handled, nothing is down that the viewer does not hold, but for
\* what is displaced, overtaken or refused.
THEOREM NothingStaysDown == Spec => []NothingStuck
<1>1. TypeOK /\ KeptInv => NothingStuck
  <2> SUFFICES ASSUME TypeOK, KeptInv, open, calls = <<>>, wire = <<>>, handling = NONE,
                      NEW c \in down, c \notin displaced, c \notin overtaken, c \notin refused
               PROVE  c \in HeldCodes
    BY DEF NothingStuck, HeldCodes
  <2>1. Quiet(calls, c) /\ Quiet(wire, c)
    BY DEF Quiet
  <2> QED BY <2>1 DEF KeptInv, Kept, HandlingIs, TypeOK
<1> QED BY <1>1, LastWordCounts, PTL
=============================================================================
