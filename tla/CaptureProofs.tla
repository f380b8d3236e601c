---------------------------- MODULE CaptureProofs ---------------------------
(***************************************************************************)
(* Proofs about Capture: types, that a running capture can be stopped and  *)
(* that mute means a closed microphone, for any number of starts, any set  *)
(* of kinds and any number of toggles.                                     *)
(***************************************************************************)
EXTENDS Capture, TLAPS

-----------------------------------------------------------------------------
(* The strengthening of StopReaches.                                       *)

\* A start that has passed the check is the one the page awaits, and nothing
\* has come into the registry since.
OneStart ==
  \A c \in Call : pc[c] \in {"checked", "setup", "ready"} => starting = c /\ handle = NONE

\* Threads that are still opening belong to no started capture.
SetUp ==
  \A c \in Call :
    /\ source[c] = "opening" => pc[c] \in {"setup", "failed"}
    /\ pc[c] \in {"ready", "running"} => source[c] \in {"live", "ended"}

\* Whoever sets a cancel flag asks for the end, but for the bus watch of the
\* first screen path.
Flagged == \A c \in flag : c \in asked \/ (path[c] = "gst" /\ pc[c] = "running")

\* The encode and the writer are there for started captures only.
Tasks == \A c \in encoder \cup writer : pc[c] = "running"

\* The encode of a running capture outlasts its source, unless it was asked.
Encoding == \A c \in Call : pc[c] = "running" => c \in encoder \cup asked \/ source[c] = "ended"

StopInv == OneStart /\ SetUp /\ Flagged /\ Tasks /\ Encoding /\ StopReaches

\* The variables the strengthening speaks of.
relevant == <<pc, path, source, handle, encoder, writer, flag, asked, evicted, starting>>
-----------------------------------------------------------------------------
(* Types.                                                                  *)

Message == {"stop", "mute", "unmute", "source"}

Input   == [allowed: BOOLEAN, target: Call \cup {NONE}]
Toggle  == [pc: {"idle", "call", "show"}, next: BOOLEAN]

\* What the page and the engine do to consent, target and toggle.
LEMMA InputTypes ==
  /\ NoInput \in Input
  /\ \A i \in Input, c \in Call : [i EXCEPT !.target = c] \in Input
  /\ \A i \in Input, b \in BOOLEAN : [i EXCEPT !.allowed = b] \in Input
BY DEF NoInput, Input

LEMMA ToggleTypes ==
  /\ NoToggle \in Toggle
  /\ \A b \in BOOLEAN : [pc |-> "call", next |-> b] \in Toggle
  /\ \A t \in Toggle : [t EXCEPT !.pc = "show"] \in Toggle /\ [t EXCEPT !.pc = "idle"] \in Toggle
  /\ \A t \in Toggle : t.next \in BOOLEAN
BY DEF NoToggle, Toggle

LEMMA InitTypes == Init => TypeOK
<1> SUFFICES ASSUME Init PROVE TypeOK
  OBVIOUS
<1>1. input \in Input /\ toggle \in Toggle
  BY InputTypes, ToggleTypes DEF Init
<1>2. kind \in Kinds /\ path \in [Call -> Kinds]
  BY CaptureAssumption DEF CaptureAssumption, Init
<1>3. control \in [Call -> Seq(Message)]
  <2>1. <<>> \in Seq(Message)
    OBVIOUS
  <2> QED BY <2>1 DEF Init
<1>4. muted \in [Call -> BOOLEAN] /\ active \in BOOLEAN /\ shown \in BOOLEAN
  BY DEF Init
<1>5. toggles \in 0 .. MaxToggles
  BY CaptureAssumption DEF CaptureAssumption, Init
<1>6. kind \in Kind /\ session = "open" /\ handle = NONE /\ starting = NONE /\ stopping = "no"
  BY DEF Init
<1>7. /\ pc \in [Call -> {"idle", "checked", "setup", "ready", "running", "failed"}]
      /\ source \in [Call -> {"none", "opening", "live", "ended"}]
  BY DEF Init
<1>8. /\ encoder \subseteq Call /\ writer \subseteq Call
      /\ flag \subseteq Call /\ asked \subseteq Call /\ evicted \subseteq Call
      /\ mic \subseteq Call /\ failing \subseteq Call /\ broken \subseteq Call
  BY DEF Init
<1> QED BY <1>1, <1>2, <1>3, <1>4, <1>5, <1>6, <1>7, <1>8 DEF TypeOK, Input, Toggle, Message

\* Telling a thread to end keeps flags and queues of their type.
LEMMA CancelTypes ==
  ASSUME TypeOK, NEW c \in Call, Cancel(c)
  PROVE  flag' \subseteq Call /\ control' \in [Call -> Seq(Message)]
<1>1. Append(control[c], "stop") \in Seq(Message)
  BY DEF TypeOK, Message
<1>2. CASE path[c] = "voice"
  <2>1. control \in [Call -> Seq(Message)] /\ flag \subseteq Call
    BY DEF TypeOK, Message
  <2>2. control' = [control EXCEPT ![c] = Append(@, "stop")] /\ flag' = flag
    BY <1>2 DEF Cancel
  <2> QED BY <1>1, <2>1, <2>2
<1>3. CASE path[c] # "voice"
  BY <1>3 DEF TypeOK, Cancel, Message
<1> QED BY <1>2, <1>3

LEMMA StartTypes ==
  ASSUME TypeOK, NEW c \in Call, StartStep(c)
  PROVE  TypeOK'
<1> USE DEF TypeOK, PageFailed, Goto, Source, Register, threads, voice, page, registry, Kinds
<1>1. CASE Start(c)
  BY <1>1 DEF Start
<1>2. CASE Setup(c)
  <2>1. input' \in Input
    BY <1>2, InputTypes DEF Setup, Input
  <2> QED BY <1>2, <2>1 DEF Setup, Input
<1>3. CASE Opened(c)
  BY <1>3 DEF Opened
<1>4. CASE OpenFails(c)
  <2>1. pc' \in [Call -> {"idle", "checked", "setup", "ready", "running", "failed"}]
    BY <1>4 DEF OpenFails
  <2>2. path' \in [Call -> Kinds]
    BY <1>4 DEF OpenFails
  <2>3. source' \in [Call -> {"none", "opening", "live", "ended"}]
    BY <1>4 DEF OpenFails
  <2>4. input' \in Input
    BY <1>4, InputTypes DEF OpenFails, Input
  <2> QED BY <1>4, <2>1, <2>2, <2>3, <2>4, ZenonT(60) DEF OpenFails, Input
<1>5. CASE TimeOut(c)
  BY <1>5, CancelTypes DEF TimeOut, Message
<1>6. CASE Insert(c)
  BY <1>6 DEF Insert
<1>7. CASE Started(c)
  BY <1>7 DEF Started
<1> QED BY <1>1, <1>2, <1>3, <1>4, <1>5, <1>6, <1>7 DEF StartStep

LEMMA ThreadTypes ==
  ASSUME TypeOK, NEW c \in Call, ThreadStep(c) \/ Failure(c)
  PROVE  TypeOK'
<1> USE DEF TypeOK, Source, threads, voice, page, registry
<1>1. CASE SourceEnds(c)
  BY <1>1 DEF SourceEnds
<1>2. CASE EncoderEnds(c)
  BY <1>2 DEF EncoderEnds
<1>3. CASE WriterEnds(c)
  BY <1>3 DEF WriterEnds
<1>4. CASE Apply(c)
  <2>1. control[c] # <<>> /\ control' = [control EXCEPT ![c] = Tail(@)]
    BY <1>4 DEF Apply
  <2>2. Tail(control[c]) \in Seq(Message)
    BY <2>1 DEF Message
  <2>3. control' \in [Call -> Seq(Message)]
    BY <2>1, <2>2 DEF Message
  <2>4. UNCHANGED <<kind, session, registry, pc, path, encoder, writer, flag, asked, failing, input, page>>
    BY <1>4 DEF Apply
  <2>5. source' \in [Call -> {"none", "opening", "live", "ended"}] /\ muted' \in [Call -> BOOLEAN]
    BY <1>4 DEF Apply, Mute, Unmute
  <2>6. mic' \subseteq Call /\ broken' \subseteq Call
    BY <1>4 DEF Apply, Mute, Unmute
  <2> QED BY <2>3, <2>4, <2>5, <2>6 DEF Message
<1>5. CASE MicFailed(c)
  BY <1>5 DEF MicFailed
<1>6. CASE RecorderLost(c)
  BY <1>6 DEF RecorderLost
<1>7. CASE PipelineFails(c)
  BY <1>7 DEF PipelineFails
<1>8. CASE MicFails(c)
  BY <1>8 DEF MicFails
<1> QED BY <1>1, <1>2, <1>3, <1>4, <1>5, <1>6, <1>7, <1>8 DEF ThreadStep, Failure

LEMMA StopAudioTypes ==
  ASSUME TypeOK, StopAudio
  PROVE  flag' \subseteq Call /\ control' \in [Call -> Seq(Message)] /\ asked' \subseteq Call
<1>1. CASE handle = NONE /\ UNCHANGED <<flag, control, asked>>
  BY <1>1 DEF TypeOK, Message
<1>2. CASE handle # NONE /\ Cancel(handle) /\ asked' = asked \cup {handle}
  BY <1>2, CancelTypes DEF TypeOK
<1> QED BY <1>1, <1>2 DEF StopAudio

LEMMA PageTypes ==
  ASSUME TypeOK, PageStep
  PROVE  TypeOK'
<1> USE DEF TypeOK, threads, voice, page, registry
<1>1. CASE Stop
  <2>1. flag' \subseteq Call /\ control' \in [Call -> Seq(Message)] /\ asked' \subseteq Call
    BY <1>1, StopAudioTypes DEF Stop, StopScreen
  <2>2. input' \in Input
    BY <1>1, InputTypes DEF Stop, Input
  <2>3. handle' \in Call \cup {NONE} /\ stopping' \in {"no", "send", "off"}
    BY <1>1 DEF Stop, StopScreen, StopAudio
  <2> QED BY <1>1, <2>1, <2>2, <2>3 DEF Stop, Input, Message
<1>2. CASE Revoke \/ RevokeFails \/ Stopped
  BY <1>2 DEF Revoke, RevokeFails, Stopped
<1>3. CASE TogglePressed \/ ToggleShown
  <2>1. toggle \in Toggle /\ shown \in BOOLEAN /\ active \in BOOLEAN
    BY DEF Toggle
  <2>2. CASE TogglePressed
    <3>1. (~shown) \in BOOLEAN /\ toggle' = [pc |-> "call", next |-> ~shown]
      BY <2>2 DEF TogglePressed
    <3>2. toggle' \in Toggle
      BY <3>1, ToggleTypes
    <3>3. toggles' \in 0 .. MaxToggles
      BY <2>2, CaptureAssumption DEF TogglePressed, CaptureAssumption
    <3>4. UNCHANGED <<kind, session, registry, pc, path, threads, voice, input, starting, stopping, active, shown>>
      BY <2>2 DEF TogglePressed
    <3> QED BY <3>2, <3>3, <3>4 DEF Toggle
  <2>3. CASE ToggleShown
    <3>1. toggle' \in Toggle /\ shown' \in BOOLEAN
      BY <2>1, <2>3, ToggleTypes DEF ToggleShown
    <3>2. UNCHANGED <<kind, session, registry, pc, path, threads, voice, input, starting, stopping, active, toggles>>
      BY <2>3 DEF ToggleShown
    <3> QED BY <3>1, <3>2 DEF Toggle
  <2> QED BY <1>3, <2>2, <2>3
<1>4. CASE ToggleCall
  <2>1. control' \in [Call -> Seq(Message)]
    <3>1. CASE UNCHANGED control
      BY <3>1 DEF Message
    <3>2. CASE handle # NONE /\ control' = [control EXCEPT ![handle] = Append(@, IF toggle.next THEN "mute" ELSE "unmute")]
      <4>1. \A m \in Message : Append(control[handle], m) \in Seq(Message)
        BY <3>2 DEF Message
      <4> QED BY <3>2, <4>1 DEF Message
    <3> QED BY <1>4, <3>1, <3>2 DEF ToggleCall
  <2>2. toggle' \in Toggle /\ toggle.next \in BOOLEAN
    BY <1>4, ToggleTypes DEF ToggleCall, Toggle
  <2>3. input' \in Input /\ muted' \in [Call -> BOOLEAN]
    <3>1. input \in Input /\ muted \in [Call -> BOOLEAN]
      BY DEF Input
    <3>2. UNCHANGED input \/ input' = [input EXCEPT !.allowed = toggle.next]
      BY <1>4 DEF ToggleCall
    <3>3. UNCHANGED muted \/ muted' = [muted EXCEPT ![handle] = toggle.next]
      BY <1>4 DEF ToggleCall
    <3>4. input' \in Input
      BY <2>2, <3>1, <3>2, InputTypes
    <3>5. muted' \in [Call -> BOOLEAN]
      BY <2>2, <3>1, <3>3
    <3> QED BY <3>4, <3>5
  <2> QED BY <1>4, <2>1, <2>2, <2>3 DEF ToggleCall, Toggle, Input, Message
<1>5. CASE SetSource
  <2>1. Append(control[handle], "source") \in Seq(Message)
    BY <1>5 DEF SetSource, Message
  <2> QED BY <1>5, <2>1, CaptureAssumption, SMTT(30) DEF SetSource, Message, CaptureAssumption
<1>6. CASE Close
  <2>1. flag' \subseteq Call /\ control' \in [Call -> Seq(Message)] /\ asked' \subseteq Call
    BY <1>6, StopAudioTypes DEF Close, Message
  <2> QED BY <1>6, <2>1 DEF Close, Message
<1>7. CASE Closed
  BY <1>7 DEF Closed
<1> QED BY <1>1, <1>2, <1>3, <1>4, <1>5, <1>6, <1>7 DEF PageStep

\* Type correctness of the captures of one connection.
THEOREM TypeCorrect == Spec => []TypeOK
<1>1. TypeOK /\ [Next]_vars => TypeOK'
  <2>1. TypeOK /\ UNCHANGED vars => TypeOK'
    BY DEF TypeOK, vars, threads, voice, page, registry
  <2> QED BY <2>1, StartTypes, ThreadTypes, PageTypes DEF Next
<1> QED BY <1>1, InitTypes, PTL DEF Spec
-----------------------------------------------------------------------------
(* The strengthening is inductive.                                         *)

LEMMA InitStop == Init => StopInv
BY DEF Init, StopInv, OneStart, SetUp, Flagged, Tasks, Encoding, StopReaches

\* A start: until Insert the registry stays empty, and Insert fills it.
LEMMA StartStop ==
  ASSUME TypeOK, StopInv, NEW c \in Call, StartStep(c)
  PROVE  StopInv'
<1> USE CaptureAssumption
    DEF CaptureAssumption, TypeOK, StopInv, OneStart, SetUp, Flagged, Tasks, Encoding, StopReaches,
        PageFailed, Goto, Source, threads, registry, page
<1>1. CASE Start(c)
  <2>1. UNCHANGED <<path, source, handle, encoder, writer, flag, asked, evicted>> /\ starting = NONE
    BY <1>1 DEF Start
  <2>2. CASE handle = NONE /\ Goto(c, "idle", "checked") /\ starting' = c
    BY <2>1, <2>2
  <2>3. CASE handle # NONE /\ Goto(c, "idle", "failed") /\ PageFailed
    BY <2>1, <2>3
  <2> QED BY <1>1, <2>2, <2>3 DEF Start, Vacant
<1>2. CASE Setup(c)
  <2>1. CASE Goto(c, "checked", "setup") /\ Source(c, "opening") /\ UNCHANGED page
    BY <1>2, <2>1 DEF Setup
  <2>2. CASE Goto(c, "checked", "failed") /\ PageFailed /\ UNCHANGED <<source, input>>
    BY <1>2, <2>2 DEF Setup
  <2> QED BY <1>2, <2>1, <2>2 DEF Setup
<1>3. CASE Opened(c)
  BY <1>3 DEF Opened
<1>4. CASE OpenFails(c)
  <2>1. CASE path[c] = "gst"
    BY <1>4, <2>1 DEF OpenFails
  <2>2. CASE path[c] # "gst" /\ pc[c] = "setup"
    BY <1>4, <2>2, SMTT(30) DEF OpenFails
  <2>3. CASE path[c] # "gst" /\ pc[c] # "setup"
    <3>1. pc[c] = "failed" /\ pc' = [pc EXCEPT ![c] = "failed"]
      BY <1>4, <2>3 DEF OpenFails
    <3>2. \/ source' = [source EXCEPT ![c] = "ended"]
          \/ source' = [source EXCEPT ![c] = "live"]
      BY <1>4, <2>3 DEF OpenFails
    <3>3. UNCHANGED <<path, handle, encoder, writer, flag, asked, evicted, starting>>
      BY <1>4, <2>3 DEF OpenFails
    <3> QED BY <3>1, <3>2, <3>3
  <2> QED BY <2>1, <2>2, <2>3
<1>5. CASE TimeOut(c)
  <2>1. flag' \subseteq flag \cup {c}
    BY <1>5 DEF TimeOut, Cancel
  <2> QED BY <1>5, <2>1 DEF TimeOut
<1>6. CASE Insert(c)
  BY <1>6 DEF Insert
<1>7. CASE Started(c)
  BY <1>7 DEF Started
<1> QED BY <1>1, <1>2, <1>3, <1>4, <1>5, <1>6, <1>7 DEF StartStep

\* A writer that ends removes its own entry only when the source is over or was
\* asked to end; the entry of another is recorded as evicted.
LEMMA ThreadStop ==
  ASSUME TypeOK, StopInv, NEW c \in Call, ThreadStep(c) \/ Failure(c)
  PROVE  StopInv'
<1> USE DEF TypeOK, StopInv, OneStart, SetUp, Flagged, Tasks, Encoding, StopReaches,
        Source, threads, registry, page
<1>1. CASE SourceEnds(c)
  BY <1>1 DEF SourceEnds
<1>2. CASE EncoderEnds(c)
  BY <1>2 DEF EncoderEnds, Disconnected
<1>3. CASE WriterEnds(c)
  BY <1>3 DEF WriterEnds
<1>4. CASE Apply(c)
  <2>1. UNCHANGED source \/ source' = [source EXCEPT ![c] = "ended"]
    BY <1>4 DEF Apply, Mute, Unmute
  <2> QED BY <1>4, <2>1, ZenonT(60) DEF Apply, Running
<1>5. CASE MicFailed(c) \/ MicFails(c)
  BY <1>5 DEF MicFailed, MicFails
<1>6. CASE RecorderLost(c)
  BY <1>6 DEF RecorderLost
<1>7. CASE PipelineFails(c)
  BY <1>7 DEF PipelineFails
<1> QED BY <1>1, <1>2, <1>3, <1>4, <1>5, <1>6, <1>7 DEF ThreadStep, Failure

\* A stop asks whom it takes out of the registry.
LEMMA StopAudioStop ==
  ASSUME TypeOK, StopInv, StopAudio, handle' \in {handle, NONE},
         UNCHANGED <<pc, path, source, encoder, writer, evicted, starting>>
  PROVE  StopInv'
<1> USE DEF TypeOK, StopInv, OneStart, SetUp, Flagged, Tasks, Encoding, StopReaches
<1>1. flag' \subseteq flag \cup (asked' \ asked) \cup asked' /\ asked \subseteq asked'
  BY DEF StopAudio, Cancel
<1>2. handle # NONE => handle \in asked'
  BY DEF StopAudio
<1> QED BY <1>1, <1>2

LEMMA PageStop ==
  ASSUME TypeOK, StopInv, PageStep
  PROVE  StopInv'
<1>1. CASE UNCHANGED relevant
  BY <1>1 DEF relevant, StopInv, OneStart, SetUp, Flagged, Tasks, Encoding, StopReaches
<1>2. CASE Stop
  BY <1>2, StopAudioStop DEF Stop, StopScreen
<1>3. CASE Close
  <2>1. StopAudio \/ UNCHANGED relevant
    BY <1>3 DEF Close, relevant, registry, page
  <2>2. UNCHANGED <<pc, path, source, encoder, writer, handle, evicted, starting>>
    BY <1>3 DEF Close, registry, page
  <2> QED BY <1>1, <2>1, <2>2, StopAudioStop
<1>4. CASE ~ (Stop \/ Close)
  <2>1. Revoke \/ RevokeFails \/ Stopped => UNCHANGED relevant
    BY DEF Revoke, RevokeFails, Stopped, relevant, registry, threads
  <2>2. TogglePressed \/ ToggleCall \/ ToggleShown => UNCHANGED relevant
    BY DEF TogglePressed, ToggleCall, ToggleShown, relevant, registry, threads
  <2>3. SetSource \/ Closed => UNCHANGED relevant
    BY DEF SetSource, Closed, relevant, registry, threads, page
  <2> QED BY <1>1, <1>4, <2>1, <2>2, <2>3 DEF PageStep
<1> QED BY <1>1, <1>2, <1>3, <1>4 DEF PageStep

\* The strengthening holds in every state.
THEOREM StopInductive == Spec => []StopInv
<1>1. TypeOK /\ StopInv /\ [Next]_vars => StopInv'
  <2>1. StopInv /\ UNCHANGED vars => StopInv'
    BY DEF StopInv, OneStart, SetUp, Flagged, Tasks, Encoding, StopReaches, vars, threads, page, registry
  <2> QED BY <2>1, StartStop, ThreadStop, PageStop DEF Next
<1> QED BY <1>1, InitStop, TypeCorrect, PTL DEF Spec

\* However many starts, stops, failures and ends of writers there are, a live
\* capture is in the registry, or a stop, a close or a timeout was for it, or
\* the writer of an earlier capture has removed its entry.
THEOREM StopAlwaysReaches == Spec => []StopReaches
<1>1. StopInv => StopReaches
  BY DEF StopInv
<1> QED BY <1>1, StopInductive, PTL
-----------------------------------------------------------------------------
(* Mute.                                                                   *)

\* The last word of a queue on m and its opposite is m.
EndsWith(q, m, opposite) ==
  \E i \in DOMAIN q : q[i] = m /\ \A j \in DOMAIN q : j > i => q[j] # opposite

Without(q, m) == \A i \in DOMAIN q : q[i] # m

\* The microphone is on its way to what m, the last word on it, says: it is there
\* already and nothing queued takes it away, or m is queued.
Settles(there, q, m, opposite) == (there /\ Without(q, opposite)) \/ EndsWith(q, m, opposite)

\* A message that is not the opposite disturbs nothing, and m itself settles it.
LEMMA AppendSettles ==
  ASSUME NEW q \in Seq(Message), NEW m, NEW o, m # o, NEW there \in BOOLEAN, NEW x \in Message, x # o,
         x = m \/ Settles(there, q, m, o)
  PROVE  Settles(there, Append(q, x), m, o)
<1> DEFINE r == Append(q, x)
<1>1. DOMAIN r = 1 .. Len(q) + 1 /\ DOMAIN q = 1 .. Len(q) /\ Len(q) \in Nat
  OBVIOUS
<1>2. r[Len(q) + 1] = x /\ \A k \in 1 .. Len(q) : r[k] = q[k]
  OBVIOUS
<1> HIDE DEF r
<1>3. \A k \in DOMAIN r : (k \in DOMAIN q /\ r[k] = q[k]) \/ (k = Len(q) + 1 /\ r[k] = x)
  BY <1>1, <1>2
<1>4. CASE x = m
  <2>1. Len(q) + 1 \in DOMAIN r /\ \A k \in DOMAIN r : ~(k > Len(q) + 1)
    BY <1>1
  <2> QED BY <1>2, <1>4, <2>1 DEF Settles, EndsWith, r
<1>5. CASE there /\ Without(q, o)
  BY <1>3, <1>5 DEF Settles, Without, r
<1>6. CASE EndsWith(q, m, o)
  <2>1. PICK i \in DOMAIN q : q[i] = m /\ \A j \in DOMAIN q : j > i => q[j] # o
    BY <1>6 DEF EndsWith
  <2>2. i \in DOMAIN r /\ r[i] = m
    BY <1>1, <1>2, <2>1
  <2>3. \A j \in DOMAIN r : j > i => r[j] # o
    BY <1>3, <2>1
  <2> QED BY <2>2, <2>3 DEF Settles, EndsWith, r
<1> QED BY <1>4, <1>5, <1>6 DEF Settles

\* Once the first message is done, the rest settles: m puts the microphone where
\* it belongs, and an opposite is followed by m.
LEMMA TailSettles ==
  ASSUME NEW q \in Seq(Message), q # <<>>, NEW m, NEW o, m # o,
         NEW there \in BOOLEAN, Settles(there, q, m, o),
         NEW next \in BOOLEAN, Head(q) = m => next, Head(q) \notin {m, o} /\ there => next
  PROVE  Settles(next, Tail(q), m, o)
<1> DEFINE r == Tail(q)
<1>1. DOMAIN r = 1 .. Len(q) - 1 /\ DOMAIN q = 1 .. Len(q) /\ Len(q) \in Nat /\ Len(q) > 0
  OBVIOUS
<1>2. Head(q) = q[1] /\ \A k \in 1 .. Len(q) - 1 : r[k] = q[k + 1]
  BY <1>1
<1> HIDE DEF r
<1>3. \A k \in DOMAIN r : k + 1 \in DOMAIN q /\ r[k] = q[k + 1] /\ k + 1 > 1
  BY <1>1, <1>2
<1>4. 1 \in DOMAIN q
  BY <1>1
<1>5. CASE there /\ Without(q, o)
  <2>1. Head(q) # o /\ Without(r, o)
    BY <1>2, <1>3, <1>4, <1>5 DEF Without
  <2> QED BY <1>5, <2>1 DEF Settles, r
<1>6. CASE EndsWith(q, m, o)
  <2>1. PICK i \in DOMAIN q : q[i] = m /\ \A j \in DOMAIN q : j > i => q[j] # o
    BY <1>6 DEF EndsWith
  <2>2. CASE i = 1
    <3>1. next /\ Without(r, o)
      BY <1>2, <1>3, <2>1, <2>2 DEF Without
    <3> QED BY <3>1 DEF Settles, r
  <2>3. CASE i # 1
    <3>1. i - 1 \in DOMAIN r /\ r[i - 1] = q[i]
      <4>1. i - 1 \in 1 .. Len(q) - 1 /\ (i - 1) + 1 = i
        BY <1>1, <2>3
      <4> QED BY <1>1, <1>2, <4>1
    <3>2. \A j \in DOMAIN r : j > i - 1 => r[j] # o
      <4> SUFFICES ASSUME NEW j \in DOMAIN r, j > i - 1 PROVE r[j] # o
        OBVIOUS
      <4>1. j + 1 > i
        BY <1>1
      <4> QED BY <1>3, <2>1, <4>1
    <3> QED BY <2>1, <3>1, <3>2 DEF Settles, EndsWith, r
  <2> QED BY <2>2, <2>3
<1> QED BY <1>5, <1>6 DEF Settles

\* A queue without messages settles nothing by itself.
LEMMA EmptySettles ==
  ASSUME NEW m, NEW o, NEW there \in BOOLEAN
  PROVE  Settles(there, <<>>, m, o) <=> there
BY DEF Settles, EndsWith, Without

\* A started capture has a source, and one that is not set up has none yet.
Placed ==
  /\ \A c \in Call : handle = c => source[c] \in {"live", "ended"}
  /\ \A c \in Call : pc[c] \in {"idle", "checked"} => source[c] = "none"

\* A microphone that is not open yet is not muted; one that is open settles where
\* its flag says, but for one that fails, whose flag is about to say so, and for
\* one that has failed, whose flag nobody asked for.
Muting(c) ==
  /\ c \in failing => c \in broken /\ c \notin mic
  /\ path[c] = "voice" /\ source[c] \in {"none", "opening"} =>
       ~muted[c] /\ Without(control[c], "mute") /\ c \notin failing
  /\ path[c] = "voice" /\ source[c] = "live" =>
       /\ ~muted[c] /\ c \notin failing => Settles(c \in mic, control[c], "unmute", "mute")
       /\ muted[c] /\ c \notin broken => Settles(c \notin mic, control[c], "mute", "unmute")

MuteInv == Placed /\ \A c \in Call : Muting(c)

\* The variables Muting speaks of.
sound == <<path, source, muted, mic, failing, control, broken>>

\* Nothing is muted at the start.
LEMMA InitMute == Init => MuteInv
<1> SUFFICES ASSUME Init PROVE MuteInv
  OBVIOUS
<1>1. DOMAIN <<>> = {}
  OBVIOUS
<1>2. Placed
  BY CaptureAssumption DEF Init, Placed, CaptureAssumption
<1>3. \A c \in Call : Muting(c)
  BY <1>1 DEF Init, Muting, Without
<1> QED BY <1>2, <1>3 DEF MuteInv

\* A message comes to a queue, with the flag it stands for.
LEMMA QueuedMute ==
  ASSUME TypeOK, MuteInv, NEW h \in Call, NEW x \in Message,
         control' = [control EXCEPT ![h] = Append(@, x)],
         UNCHANGED <<path, source, mic, failing, broken>>,
         \/ x \in {"stop", "source"} /\ muted' = muted
         \/ source[h] \in {"live", "ended"} /\ x = "mute" /\ muted' = [muted EXCEPT ![h] = TRUE]
         \/ source[h] \in {"live", "ended"} /\ x = "unmute" /\ muted' = [muted EXCEPT ![h] = FALSE]
  PROVE  \A c \in Call : Muting(c)'
<1> SUFFICES ASSUME NEW c \in Call PROVE Muting(c)'
  OBVIOUS
<1>1. control[c] \in Seq(Message) /\ Muting(c) /\ (c \in mic) \in BOOLEAN /\ (c \notin mic) \in BOOLEAN
  BY DEF TypeOK, MuteInv, Message
<1>2. CASE c # h
  <2>1. control'[c] = control[c] /\ muted'[c] = muted[c]
    BY <1>2 DEF TypeOK
  <2> QED BY <1>1, <2>1 DEF Muting
<1>3. CASE c = h
  <2>1. control'[c] = Append(control[c], x)
    BY <1>3 DEF TypeOK
  <2>2. \/ muted'[c] = muted[c] /\ x \in {"stop", "source"}
        \/ source[c] \in {"live", "ended"} /\ x = "mute" /\ muted'[c]
        \/ source[c] \in {"live", "ended"} /\ x = "unmute" /\ ~muted'[c]
    BY <1>3 DEF TypeOK
  <2>3. x # "mute" /\ Without(control[c], "mute") => Without(Append(control[c], x), "mute")
    <3>1. \A k \in DOMAIN Append(control[c], x) :
            \/ k \in DOMAIN control[c] /\ Append(control[c], x)[k] = control[c][k]
            \/ Append(control[c], x)[k] = x
      BY <1>1
    <3> QED BY <3>1 DEF Without
  <2>4. path[c] = "voice" /\ source[c] = "live" /\ ~muted'[c] /\ c \notin failing
          => Settles(c \in mic, Append(control[c], x), "unmute", "mute")
    BY <1>1, <2>2, AppendSettles, ZenonT(60) DEF Muting
  <2>5. path[c] = "voice" /\ source[c] = "live" /\ muted'[c] /\ c \notin broken
          => Settles(c \notin mic, Append(control[c], x), "mute", "unmute")
    BY <1>1, <2>2, AppendSettles DEF Muting
  <2> QED BY <1>1, <2>1, <2>2, <2>3, <2>4, <2>5 DEF Muting
<1> QED BY <1>2, <1>3

\* A thread is told to end.
LEMMA CancelMute ==
  ASSUME TypeOK, MuteInv, NEW c \in Call, Cancel(c), UNCHANGED <<path, source, muted, mic, failing, broken>>
  PROVE  \A d \in Call : Muting(d)'
<1>1. CASE UNCHANGED control
  BY <1>1 DEF MuteInv, Muting
<1>2. CASE path[c] = "voice"
  BY <1>2, QueuedMute DEF Cancel, Message
<1> QED BY <1>1, <1>2 DEF Cancel

\* A start opens its microphone unmuted, and inserts its handle after that.
LEMMA StartMute ==
  ASSUME TypeOK, StopInv, MuteInv, NEW c \in Call, StartStep(c)
  PROVE  MuteInv'
<1>1. Placed'
  <2> USE CaptureAssumption
      DEF CaptureAssumption, TypeOK, StopInv, OneStart, SetUp, MuteInv, Placed, Goto, Source, registry, threads
  <2>1. CASE Start(c)
    BY <2>1 DEF Start
  <2>2. CASE Setup(c)
    BY <2>2 DEF Setup
  <2>3. CASE Opened(c)
    BY <2>3 DEF Opened
  <2>4. CASE OpenFails(c)
    BY <2>4 DEF OpenFails
  <2>5. CASE TimeOut(c)
    BY <2>5 DEF TimeOut
  <2>6. CASE Insert(c)
    BY <2>6 DEF Insert
  <2>7. CASE Started(c)
    BY <2>7 DEF Started
  <2> QED BY <2>1, <2>2, <2>3, <2>4, <2>5, <2>6, <2>7 DEF StartStep
<1>2. \A d \in Call : Muting(d)'
  <2>1. CASE Start(c) \/ Insert(c) \/ Started(c)
    <3>1. UNCHANGED sound
      BY <2>1 DEF Start, Insert, Started, sound, threads, voice
    <3> QED BY <3>1 DEF MuteInv, Muting, sound
  <2>2. CASE Setup(c)
    <3>1. pc[c] = "checked" /\ UNCHANGED <<path, voice>>
          /\ (source' = source \/ source' = [source EXCEPT ![c] = "opening"])
      BY <2>2 DEF Setup, Goto, Source
    <3>2. source[c] = "none"
      BY <3>1 DEF MuteInv, Placed
    <3> QED BY <3>1, <3>2 DEF MuteInv, Muting, voice, TypeOK
  <2>3. CASE Opened(c)
    <3>1. /\ source[c] = "opening" /\ source' = [source EXCEPT ![c] = "live"]
          /\ mic' = IF path[c] = "voice" THEN mic \cup {c} ELSE mic
          /\ UNCHANGED <<path, muted, failing, control, broken>>
      BY <2>3 DEF Opened, Source
    <3>2. path[c] = "voice" => Settles(c \in mic', control[c], "unmute", "mute")
      BY <3>1 DEF MuteInv, Muting, Settles
    <3> QED BY <3>1, <3>2 DEF MuteInv, Muting, TypeOK
  <2>4. CASE OpenFails(c)
    <3>1. source[c] = "opening" /\ UNCHANGED voice
          /\ \/ path[c] = "gst" /\ path' = [path EXCEPT ![c] = "legacy"] /\ UNCHANGED source
             \/ source' = [source EXCEPT ![c] = "ended"] /\ UNCHANGED path
             \/ path[c] = "desktop" /\ source' = [source EXCEPT ![c] = "live"] /\ UNCHANGED path
      BY <2>4 DEF OpenFails, Source
    <3> QED BY <3>1 DEF MuteInv, Muting, voice, TypeOK
  <2>5. CASE TimeOut(c)
    BY <2>5, CancelMute DEF TimeOut
  <2> QED BY <2>1, <2>2, <2>3, <2>4, <2>5 DEF StartStep
<1> QED BY <1>1, <1>2 DEF MuteInv

\* The microphone thread does the first message of its queue.
LEMMA ApplyMute ==
  ASSUME TypeOK, MuteInv, NEW c \in Call, Apply(c)
  PROVE  Muting(c)'
<1> DEFINE q == control[c]
<1>1. /\ path[c] = "voice" /\ source[c] = "live" /\ c \notin failing
      /\ q \in Seq(Message) /\ q # <<>> /\ control'[c] = Tail(q)
      /\ UNCHANGED <<path, failing>>
  BY DEF Apply, Running, TypeOK, Message
<1>2. Muting(c)
  BY DEF MuteInv
<1>3. CASE Head(q) = "stop" /\ source'[c] = "ended"
  BY <1>1, <1>3 DEF Muting
<1>4. CASE /\ Head(q) \in {"mute", "unmute", "source"} /\ source'[c] = "live"
           /\ Head(q) = "mute" => c \notin mic' /\ muted'[c] = muted[c] /\ broken' = broken
           /\ Head(q) = "unmute" => \/ c \in mic' /\ muted'[c] = muted[c] /\ broken' = broken
                                    \/ muted'[c] /\ c \in broken'
           /\ Head(q) = "source" => mic' = mic /\ muted'[c] = muted[c] /\ broken' = broken
  <2>1. ASSUME ~muted'[c] PROVE Settles(c \in mic', Tail(q), "unmute", "mute")
    <3>1. Settles(c \in mic, q, "unmute", "mute")
      BY <1>1, <1>2, <1>4, <2>1 DEF Muting
    <3>2. (Head(q) = "unmute" => c \in mic') /\ (Head(q) \notin {"unmute", "mute"} /\ c \in mic => c \in mic')
      BY <1>4, <2>1
    <3>3. (c \in mic) \in BOOLEAN /\ (c \in mic') \in BOOLEAN
      OBVIOUS
    <3> HIDE DEF q
    <3> QED BY <1>1, <3>1, <3>2, <3>3, TailSettles
  <2>2. ASSUME muted'[c], c \notin broken' PROVE Settles(c \notin mic', Tail(q), "mute", "unmute")
    <3>1. Settles(c \notin mic, q, "mute", "unmute")
      BY <1>1, <1>2, <1>4, <2>2 DEF Muting
    <3>2. (Head(q) = "mute" => c \notin mic') /\ (Head(q) \notin {"mute", "unmute"} /\ c \notin mic => c \notin mic')
      BY <1>4, <2>2
    <3> QED BY <1>1, <3>1, <3>2, TailSettles
  <2> QED BY <1>1, <1>4, <2>1, <2>2 DEF Muting
<1>5. \/ Head(q) = "stop" /\ source' = [source EXCEPT ![c] = "ended"]
      \/ /\ Head(q) \in {"mute", "unmute", "source"} /\ source' = source
         /\ Head(q) = "mute" => c \notin mic' /\ muted' = muted /\ broken' = broken
         /\ Head(q) = "unmute" => \/ c \in mic' /\ muted' = muted /\ broken' = broken
                                  \/ muted' = [muted EXCEPT ![c] = TRUE] /\ c \in broken'
         /\ Head(q) = "source" => mic' = mic /\ muted' = muted /\ broken' = broken
  BY DEF Apply, Mute, Unmute, Source
<1> QED BY <1>1, <1>3, <1>4, <1>5 DEF TypeOK

\* The threads: a microphone is lost together with what the flag has to say.
LEMMA ThreadMute ==
  ASSUME TypeOK, MuteInv, NEW c \in Call, ThreadStep(c) \/ Failure(c)
  PROVE  MuteInv'
<1>1. Placed'
  <2>1. handle' \in {handle, NONE} /\ pc' = pc
    BY DEF ThreadStep, Failure, SourceEnds, EncoderEnds, WriterEnds, Apply, MicFailed, RecorderLost,
           PipelineFails, MicFails, registry
  <2>2. source' = source \/ (source[c] = "live" /\ source' = [source EXCEPT ![c] = "ended"])
    BY DEF ThreadStep, Failure, SourceEnds, EncoderEnds, WriterEnds, Apply, MicFailed, RecorderLost,
           PipelineFails, MicFails, threads, Source, Mute, Unmute, Running
  <2> QED BY <2>1, <2>2, CaptureAssumption DEF MuteInv, Placed, TypeOK, CaptureAssumption
<1>2. \A d \in Call : Muting(d)'
  <2>1. CASE EncoderEnds(c) \/ WriterEnds(c) \/ PipelineFails(c)
    <3>1. UNCHANGED sound
      BY <2>1 DEF EncoderEnds, WriterEnds, PipelineFails, sound, voice
    <3> QED BY <3>1 DEF MuteInv, Muting, sound
  <2>2. CASE SourceEnds(c) \/ RecorderLost(c)
    <3>1. /\ source' = [source EXCEPT ![c] = "ended"] /\ mic' \in {mic, mic \ {c}}
          /\ UNCHANGED <<path, muted, failing, control, broken>>
      BY <2>2 DEF SourceEnds, RecorderLost, Source, voice
    <3> QED BY <3>1 DEF MuteInv, Muting, TypeOK
  <2>3. CASE Apply(c)
    <3>1. \A d \in Call \ {c} :
            /\ control'[d] = control[d] /\ source'[d] = source[d] /\ muted'[d] = muted[d]
            /\ (d \in mic' <=> d \in mic) /\ (d \in broken' <=> d \in broken)
      BY <2>3 DEF Apply, Mute, Unmute, Source, TypeOK
    <3>2. UNCHANGED <<path, failing>>
      BY <2>3 DEF Apply
    <3>3. \A d \in Call \ {c} : Muting(d)'
      BY <3>1, <3>2 DEF MuteInv, Muting
    <3> QED BY <2>3, <3>3, ApplyMute
  <2>4. CASE MicFails(c)
    <3>1. /\ Running(c) /\ mic' = mic \ {c} /\ failing' = failing \cup {c} /\ broken' = broken \cup {c}
          /\ UNCHANGED <<path, source, muted, control>>
      BY <2>4 DEF MicFails, threads
    <3>2. Muting(c)'
      BY <3>1 DEF MuteInv, Muting, Running
    <3>3. \A d \in Call \ {c} : (d \in mic' <=> d \in mic) /\ (d \in failing' <=> d \in failing)
                               /\ (d \in broken' <=> d \in broken)
      BY <3>1
    <3>4. \A d \in Call \ {c} : Muting(d)'
      BY <3>1, <3>3 DEF MuteInv, Muting
    <3> QED BY <3>2, <3>4
  <2>5. CASE MicFailed(c)
    <3>1. /\ c \in failing /\ failing' = failing \ {c} /\ muted' = [muted EXCEPT ![c] = TRUE]
          /\ UNCHANGED <<path, source, mic, control, broken>>
      BY <2>5 DEF MicFailed, threads
    <3> QED BY <3>1 DEF MuteInv, Muting, TypeOK
  <2> QED BY <2>1, <2>2, <2>3, <2>4, <2>5 DEF ThreadStep, Failure
<1> QED BY <1>1, <1>2 DEF MuteInv

\* The page: a flag and its message go together (set_audio_muted).
LEMMA PageMute ==
  ASSUME TypeOK, MuteInv, PageStep
  PROVE  MuteInv'
<1>1. Placed'
  <2>1. handle' \in {handle, NONE} /\ UNCHANGED <<pc, source>>
    BY DEF PageStep, Stop, StopScreen, Revoke, RevokeFails, Stopped, TogglePressed, ToggleCall, ToggleShown,
           SetSource, Close, Closed, registry, threads
  <2> QED BY <2>1, CaptureAssumption DEF MuteInv, Placed, CaptureAssumption
<1>2. CASE UNCHANGED sound
  BY <1>1, <1>2 DEF MuteInv, Muting, sound
<1>3. CASE Stop \/ Close
  <2>1. \/ UNCHANGED sound
        \/ handle \in Call /\ Cancel(handle) /\ UNCHANGED <<path, source, muted, mic, failing, broken>>
    BY <1>3 DEF Stop, StopScreen, StopAudio, Close, sound, TypeOK
  <2> QED BY <1>1, <1>2, <2>1, CancelMute DEF MuteInv
<1>4. CASE ToggleCall
  <2>1. CASE kind = "voice" /\ handle # NONE
    <3> DEFINE x == IF toggle.next THEN "mute" ELSE "unmute"
    <3>1. /\ muted' = [muted EXCEPT ![handle] = toggle.next]
          /\ control' = [control EXCEPT ![handle] = Append(@, x)]
          /\ UNCHANGED <<path, source, mic, failing, broken>>
      BY <1>4, <2>1 DEF ToggleCall, threads, Screen
    <3>2. handle \in Call /\ source[handle] \in {"live", "ended"} /\ toggle.next \in BOOLEAN
      BY <2>1 DEF TypeOK, MuteInv, Placed
    <3>3. CASE toggle.next = TRUE
      BY <1>1, <3>1, <3>2, <3>3, QueuedMute DEF MuteInv, Message
    <3>4. CASE toggle.next = FALSE
      BY <1>1, <3>1, <3>2, <3>4, QueuedMute DEF MuteInv, Message
    <3> QED BY <3>2, <3>3, <3>4
  <2>2. CASE ~(kind = "voice" /\ handle # NONE)
    <3>1. UNCHANGED sound
      BY <1>4, <2>2 DEF ToggleCall, sound, threads, Screen
    <3> QED BY <1>2, <3>1
  <2> QED BY <2>1, <2>2
<1>5. CASE SetSource
  BY <1>1, <1>5, QueuedMute DEF SetSource, MuteInv, Message, threads, TypeOK
<1>6. CASE ~(Stop \/ Close \/ ToggleCall \/ SetSource)
  <2>1. Revoke \/ RevokeFails \/ Stopped \/ TogglePressed \/ ToggleShown \/ Closed => UNCHANGED sound
    BY DEF Revoke, RevokeFails, Stopped, TogglePressed, ToggleShown, Closed, sound, threads, voice
  <2> QED BY <1>2, <1>6, <2>1 DEF PageStep
<1> QED BY <1>3, <1>4, <1>5, <1>6

\* Whatever is queued when a microphone fails or does not reopen, the flag ends up
\* telling what the microphone does (spawn_capture_thread, set_audio_muted).
THEOREM MuteAlwaysHonoured == Spec => []MuteHonoured
<1>1. TypeOK /\ StopInv /\ MuteInv /\ [Next]_vars => MuteInv'
  <2>1. MuteInv /\ UNCHANGED vars => MuteInv'
    BY DEF MuteInv, Placed, Muting, vars, threads, voice, registry
  <2> QED BY <2>1, StartMute, ThreadMute, PageMute DEF Next
<1>2. MuteInv => MuteHonoured
  <2> SUFFICES ASSUME MuteInv, NEW c \in Call, Running(c), control[c] = <<>>
               PROVE  (~muted[c] => c \in mic) /\ (muted[c] /\ c \notin broken => c \notin mic)
    BY DEF MuteHonoured
  <2>1. /\ ~muted[c] => Settles(c \in mic, <<>>, "unmute", "mute")
        /\ muted[c] /\ c \notin broken => Settles(c \notin mic, <<>>, "mute", "unmute")
    BY DEF MuteInv, Muting, Running
  <2>2. (c \in mic) \in BOOLEAN /\ (c \notin mic) \in BOOLEAN
    OBVIOUS
  <2> QED BY <2>1, <2>2, EmptySettles
<1> QED BY <1>1, <1>2, InitMute, TypeCorrect, StopInductive, PTL DEF Spec
=============================================================================
