------------------------------ MODULE Handover ------------------------------
(***************************************************************************)
(* How Rust hands things over to Dart, in three ways that share no state,  *)
(* of which a behaviour exercises one:                                     *)
(*   ring     preview frames in the slots of one process-wide ring         *)
(*            (video_ring.rs), from the writer tasks of the sessions to    *)
(*            the view that decodes them and gives the slot back;          *)
(*   texture  decoded frames in two buffers the engine reads without a     *)
(*            lock (video_texture.rs);                                     *)
(*   events   the events of a session, buffered until the page subscribes  *)
(*            (EventBus, webrtc.rs).                                       *)
(***************************************************************************)
EXTENDS Integers, SequencesExt

CONSTANTS
  Channel,     (* the ways to exercise                                      *)
  Session,     (* the sessions that share the ring                          *)
  Slots,       (* RING_SLOTS: 4                                             *)
  MaxFrames,   (* bound: frames published to the texture                    *)
  MaxEvents    (* bound: events of a session                                *)

ASSUME HandoverAssumption ==
  /\ Channel \subseteq {"ring", "texture", "events"}
  /\ Slots \in Nat \ {0}
  /\ MaxFrames \in Nat /\ MaxEvents \in Nat

Slot == 0 .. Slots - 1
NONE == -1

VARIABLES
  channel,
  states,      (* slot -> free, rust, dart                                  *)
  writer,      (* session -> the slot its writer task works on              *)
  sink,        (* session -> is video_sink set                              *)
  port,        (* session -> frames under way to the Dart listener          *)
  listening,   (* session -> no, yes, cancelled: _videoStreamSub            *)
  mounted,     (* session -> a RawVideoFrameView listens                    *)
  decoding,    (* session -> the slot it decodes                            *)
  lost,        (* history: the slots nobody will give back                  *)
  buffers,     (* the two slots of the texture: the frame each holds        *)
  front,       (* the one the engine is given                               *)
  back,        (* the frame being published, from its write to the flip     *)
  reading,     (* the engine: the slot and frame it looked up, or NoRead    *)
  during,      (* history: publications begun while the engine reads        *)
  buffer,      (* events pushed before there is a sink                      *)
  taken,       (* subscribe_event_stream: what it took from the buffer      *)
  evsub,       (* subscribe_event_stream: no, taken, set, closed            *)
  received,    (* the events the page was given                             *)
  pushed,      (* how many events were pushed                               *)
  stranded     (* history: the events left in the buffer for good           *)

ring    == <<states, writer, sink, port, listening, mounted, decoding, lost>>
texture == <<buffers, front, back, reading, during>>
events  == <<buffer, taken, evsub, received, pushed, stranded>>
vars    == <<channel, ring, texture, events>>

NoRead == [slot |-> NONE, frame |-> NONE]

Init ==
  /\ channel \in Channel
  /\ states = [i \in Slot |-> "free"]
  /\ writer = [s \in Session |-> NONE]
  /\ sink = [s \in Session |-> FALSE]
  /\ port = [s \in Session |-> <<>>]
  /\ listening = [s \in Session |-> "no"]
  /\ mounted = [s \in Session |-> FALSE]
  /\ decoding = [s \in Session |-> NONE]
  /\ lost = {}
  /\ buffers = [i \in {0, 1} |-> NONE] /\ front = 0 /\ back = NONE
  /\ reading = NoRead /\ during = 0
  /\ buffer = <<>> /\ taken = <<>> /\ evsub = "no" /\ received = <<>>
  /\ pushed = 0 /\ stranded = {}
-----------------------------------------------------------------------------
(* The ring.                                                               *)

OnRing == channel = "ring" /\ UNCHANGED <<channel, texture, events>>

Release(i)  == states' = [states EXCEPT ![i] = "free"]
At(f, s, v) == [f EXCEPT ![s] = v]

\* claim: the first free slot; with none the frame is dropped.
Claim(s) ==
  /\ OnRing
  /\ writer[s] = NONE
  /\ \E i \in Slot :
       /\ states[i] = "free"
       /\ \A j \in Slot : j < i => states[j] # "free"
       /\ states' = [states EXCEPT ![i] = "rust"]
       /\ writer' = At(writer, s, i)
  /\ UNCHANGED <<sink, port, listening, mounted, decoding, lost>>

\* push_preview_frame: a picture too large for a slot gives it back.
TooLarge(s) ==
  /\ OnRing
  /\ writer[s] # NONE
  /\ states[writer[s]] = "rust"
  /\ Release(writer[s])
  /\ writer' = At(writer, s, NONE)
  /\ UNCHANGED <<sink, port, listening, mounted, decoding, lost>>

Publish(s) ==
  /\ OnRing
  /\ writer[s] # NONE
  /\ states[writer[s]] = "rust"
  /\ states' = [states EXCEPT ![writer[s]] = "dart"]
  /\ UNCHANGED <<writer, sink, port, listening, mounted, decoding, lost>>

\* push_video_frame_timed: sent, given back, or added to a closed port, whose
\* answer it ignores.
PushFrame(s) ==
  /\ OnRing
  /\ writer[s] # NONE
  /\ states[writer[s]] = "dart"
  /\ \/ ~sink[s] /\ Release(writer[s]) /\ UNCHANGED <<port, lost>>
     \/ /\ sink[s]
        /\ listening[s] # "cancelled"
        /\ port' = At(port, s, Append(port[s], writer[s]))
        /\ UNCHANGED <<states, lost>>
     \/ /\ sink[s]
        /\ listening[s] = "cancelled"
        /\ lost' = lost \cup {writer[s]}
        /\ UNCHANGED <<states, port>>
  /\ writer' = At(writer, s, NONE)
  /\ UNCHANGED <<sink, listening, mounted, decoding>>

\* _subscribeStreams, subscribe_video_stream.
ListenVideo(s) ==
  /\ OnRing
  /\ listening[s] = "no"
  /\ listening' = At(listening, s, "yes")
  /\ UNCHANGED <<states, writer, sink, port, mounted, decoding, lost>>

SetVideoSink(s) ==
  /\ OnRing
  /\ listening[s] = "yes"
  /\ ~sink[s]
  /\ sink' = At(sink, s, TRUE)
  /\ UNCHANGED <<states, writer, port, listening, mounted, decoding, lost>>

\* The view comes and goes with the page's preview; a decode outlives it.
ToggleView(s) ==
  /\ OnRing
  /\ mounted' = At(mounted, s, ~mounted[s])
  /\ UNCHANGED <<states, writer, sink, port, listening, decoding, lost>>

ShownAlways(s) == mounted[s]                  \* mutant: a frame too many replaces the one in decode
Shown(s)       == mounted[s] /\ decoding[s] = NONE

\* The listener and _onFrame: decode it, or give it back at once.
Deliver(s) ==
  /\ OnRing
  /\ listening[s] = "yes"
  /\ port[s] # <<>>
  /\ port' = At(port, s, Tail(port[s]))
  /\ IF Shown(s)
       THEN decoding' = At(decoding, s, Head(port[s])) /\ UNCHANGED states
       ELSE Release(Head(port[s])) /\ UNCHANGED decoding
  /\ UNCHANGED <<writer, sink, listening, mounted, lost>>

GiveBackShown(s) ==                           \* mutant: only while the view is there
  IF mounted[s] THEN Release(decoding[s]) ELSE UNCHANGED states

GiveBack(s) == Release(decoding[s])

\* The image is made: the slot goes back, mounted or not.
Decoded(s) ==
  /\ OnRing
  /\ decoding[s] # NONE
  /\ GiveBack(s)
  /\ decoding' = At(decoding, s, NONE)
  /\ UNCHANGED <<writer, sink, port, listening, mounted, lost>>

\* dispose: the subscription goes first, with what was under way in its port.
CancelVideo(s) ==
  /\ OnRing
  /\ listening[s] = "yes"
  /\ listening' = At(listening, s, "cancelled")
  /\ lost' = lost \cup Range(port[s])
  /\ port' = At(port, s, <<>>)
  /\ UNCHANGED <<states, writer, sink, mounted, decoding>>

\* close_session: whatever the capture still sends is given back at once.
CloseVideo(s) ==
  /\ OnRing
  /\ listening[s] = "cancelled"
  /\ sink[s]
  /\ sink' = At(sink, s, FALSE)
  /\ UNCHANGED <<states, writer, port, listening, mounted, decoding, lost>>
-----------------------------------------------------------------------------
(* The texture.                                                            *)

OnTexture == channel = "texture" /\ UNCHANGED <<channel, ring, events>>

FrontSlot == front                            \* mutant: the slot the engine is given
Rear      == 1 - front

\* publish: the frame replaces the one in the rear slot ...
WriteRear ==
  /\ OnTexture
  /\ back = NONE
  /\ \A i \in {0, 1} : buffers[i] < MaxFrames
  /\ LET f == 1 + Max({buffers[0], buffers[1], 0}) IN
       buffers' = [buffers EXCEPT ![Rear] = f] /\ back' = f
  /\ during' = IF reading = NoRead THEN 0 ELSE during + 1
  /\ UNCHANGED <<front, reading>>

\* ... and then that slot becomes the front one.
Flip ==
  /\ OnTexture
  /\ back # NONE
  /\ front' = IF buffers[1] = back THEN 1 ELSE 0
  /\ back' = NONE
  /\ UNCHANGED <<buffers, reading, during>>

\* current: the engine holds a bare pointer to the front slot's frame.
LookUp ==
  /\ OnTexture
  /\ reading = NoRead
  /\ buffers[front] # NONE
  /\ reading' = [slot |-> front, frame |-> buffers[front]]
  /\ during' = IF back = NONE THEN 0 ELSE 1
  /\ UNCHANGED <<buffers, front, back>>

Uploaded ==
  /\ OnTexture
  /\ reading # NoRead
  /\ reading' = NoRead
  /\ during' = 0
  /\ UNCHANGED <<buffers, front, back>>
-----------------------------------------------------------------------------
(* The events.                                                             *)

OnEvents == channel = "events" /\ UNCHANGED <<channel, ring, texture>>

\* push_event holds the sink's lock while it looks at the buffer.
PushEvent ==
  /\ OnEvents
  /\ pushed < MaxEvents
  /\ pushed' = pushed + 1
  /\ IF evsub = "set"
       THEN received' = Append(received, pushed + 1) /\ UNCHANGED <<buffer, stranded>>
       ELSE /\ buffer' = Append(buffer, pushed + 1)
            /\ stranded' = IF evsub = "no" THEN stranded ELSE stranded \cup {pushed + 1}
            /\ UNCHANGED received
  /\ UNCHANGED <<taken, evsub>>

\* mutant: the sink first, then what was buffered
TakeLate ==
  /\ OnEvents /\ evsub = "no"
  /\ taken' = buffer /\ buffer' = <<>> /\ evsub' = "set"
  /\ UNCHANGED <<received, pushed, stranded>>

\* subscribe_event_stream: the buffer is emptied and its lock given up ...
TakeBuffer ==
  /\ OnEvents
  /\ evsub = "no"
  /\ taken' = buffer
  /\ buffer' = <<>>
  /\ evsub' = "taken"
  /\ UNCHANGED <<received, pushed, stranded>>

\* ... its events are sent one by one ...
Forward ==
  /\ OnEvents
  /\ taken # <<>>
  /\ received' = Append(received, Head(taken))
  /\ taken' = Tail(taken)
  /\ UNCHANGED <<buffer, evsub, pushed, stranded>>

\* ... and only then is the sink set.
SetSink ==
  /\ OnEvents
  /\ evsub = "taken"
  /\ taken = <<>>
  /\ evsub' = "set"
  /\ UNCHANGED <<buffer, taken, received, pushed, stranded>>

\* close_session takes the sink away.
DropSink ==
  /\ OnEvents
  /\ evsub = "set"
  /\ evsub' = "closed"
  /\ UNCHANGED <<buffer, taken, received, pushed, stranded>>
-----------------------------------------------------------------------------
SlotStep(s) ==
  \/ Claim(s) \/ TooLarge(s) \/ Publish(s) \/ PushFrame(s)
  \/ ListenVideo(s) \/ SetVideoSink(s) \/ ToggleView(s) \/ Deliver(s) \/ Decoded(s)
  \/ CancelVideo(s) \/ CloseVideo(s)

Next ==
  \/ \E s \in Session : SlotStep(s)
  \/ WriteRear \/ Flip \/ LookUp \/ Uploaded
  \/ PushEvent \/ TakeBuffer \/ Forward \/ SetSink \/ DropSink

Spec == Init /\ [][Next]_vars

(* Writer tasks and the Dart event loop run, and an image is decoded.      *)
Fairness ==
  \A s \in Session :
    /\ WF_vars(Publish(s)) /\ WF_vars(PushFrame(s)) /\ WF_vars(Deliver(s)) /\ WF_vars(Decoded(s))

FairSpec == Spec /\ Fairness
-----------------------------------------------------------------------------
HeldBy(s) == ({writer[s], decoding[s]} \cup Range(port[s])) \ {NONE}

TypeOK ==
  /\ channel \in Channel
  /\ states \in [Slot -> {"free", "rust", "dart"}]
  /\ writer \in [Session -> Slot \cup {NONE}] /\ decoding \in [Session -> Slot \cup {NONE}]
  /\ sink \in [Session -> BOOLEAN] /\ mounted \in [Session -> BOOLEAN]
  /\ listening \in [Session -> {"no", "yes", "cancelled"}]
  /\ \A s \in Session : IsInjective(port[s]) /\ Range(port[s]) \subseteq Slot
  /\ lost \subseteq Slot
  /\ front \in {0, 1} /\ during \in Nat
  /\ evsub \in {"no", "taken", "set", "closed"} /\ pushed \in 0 .. MaxEvents

(* A slot is read or written by one party at a time: what a task writes,   *)
(* the port carries and the view decodes are different slots, each marked  *)
(* for its owner, and a free slot is nobody's.  Two releases of one frame  *)
(* would break it (video_ring.rs, RawVideoFrameView).                      *)
OneOwner ==
  /\ \A s, t \in Session : s # t => HeldBy(s) \cap HeldBy(t) = {}
  /\ \A s \in Session :
       /\ writer[s] \notin Range(port[s]) \cup ({decoding[s]} \ {NONE})
       /\ decoding[s] \notin Range(port[s])
       /\ \A i \in HeldBy(s) : states[i] = "dart" \/ (i = writer[s] /\ states[i] = "rust")
  /\ \A i \in Slot : states[i] # "free" <=> i \in lost \cup UNION {HeldBy(s) : s \in Session}

(* A slot that is not lost with a cancelled subscription is free again in  *)
(* the end, whichever of the six ways its frame took.                      *)
SlotsComeBack ==
  \A i \in Slot : (states[i] # "free") ~> (states[i] = "free" \/ i \in lost)

(* The frame the engine reads is not overwritten by the next publication;  *)
(* only a second one within the same read gets at it.                      *)
ReadSurvivesOnePublish ==
  reading # NoRead /\ during <= 1 => buffers[reading.slot] = reading.frame

(* The page is given the events in the order they were pushed, each once,  *)
(* and misses none but those pushed while it was subscribing or after the  *)
(* close (push_event, subscribe_event_stream).                             *)
EventsInOrder ==
  /\ \A i, j \in DOMAIN received : i < j => received[i] < received[j]
  /\ \A e \in 1 .. pushed :
       e \in Range(received) \cup Range(taken) \cup Range(buffer) \/ e \in stranded
  /\ evsub = "set" => \A e \in 1 .. pushed : e \in Range(received) \cup stranded
=============================================================================
