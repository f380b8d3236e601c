------------------------------ MODULE Capture -------------------------------
(***************************************************************************)
(* The captures a host runs for one connection: the screen (screen_capture *)
(* and screen_capture_gst), the microphone (audio) and the desktop audio   *)
(* (desktop_audio_pipewire).  All share one shape: a registry with at most *)
(* one handle per connection, a start that checks it, awaits the set-up of *)
(* its threads and then inserts its handle, a writer task that removes the *)
(* entry of the connection when it ends, and a stop that goes through the  *)
(* handle.  What a dropped handle does differs from one to the next.  The  *)
(* page (initiator_page.dart) runs at most one start at a time, beside     *)
(* stops, mutes, consent to remote input and the end of the session.       *)
(***************************************************************************)
EXTENDS Integers, SequencesExt

CONSTANTS
  Call,        (* the start calls of one page, numbered as it makes them    *)
  NONE,
  Kind,        (* what may be captured, a subset of Kinds                   *)
  MaxToggles   (* bound: mutes, consents and source changes of the page     *)

Kinds == {"gst", "legacy", "voice", "desktop"}

ASSUME CaptureAssumption ==
  /\ Call \subseteq Nat
  /\ NONE \notin Call
  /\ Kind \subseteq Kinds
  /\ MaxToggles \in Nat

VARIABLES
  kind,        (* what this behaviour captures                              *)
  session,     (* the WebRTC session: open, closing, closed                 *)
  handle,      (* the registry's entry: the call whose handle it holds      *)
  pc,          (* call -> where its start is                                *)
  path,        (* call -> the kind of capture it runs: gst may turn legacy  *)
  source,      (* call -> its OS capture: none, opening, live, ended        *)
  encoder,     (* call -> what holds the sender of its output channel       *)
  writer,      (* call -> its writer task                                   *)
  flag,        (* the calls whose cancel flag is set or quit message sent   *)
  asked,       (* history: the calls a stop, a close or a timeout was for   *)
  evicted,     (* history: the calls whose entry another's writer removed   *)
  muted,       (* voice: call -> the flag of its handle                     *)
  mic,         (* voice: the calls whose microphone stream is open          *)
  failing,     (* voice: mic ended, the flag not stored yet                 *)
  control,     (* voice: call -> its queue of control messages              *)
  broken,      (* history, voice: microphone lost or not reopened           *)
  input,       (* remote input of the connection: consent and target        *)
  starting,    (* page: the start it awaits                                 *)
  stopping,    (* page: how far its stop is                                 *)
  active,      (* page: _isScreenSharing, _audioActive                      *)
  shown,       (* page: _remoteControlAllowed, _audioMuted                  *)
  toggle,      (* page: the consent or mute call it awaits                  *)
  toggles

registry == <<handle, evicted>>
threads  == <<source, encoder, writer, flag, asked>>
voice    == <<muted, mic, failing, control, broken>>
page     == <<starting, stopping, active, shown, toggle, toggles>>
vars     == <<kind, session, registry, pc, path, threads, voice, input, page>>

NoInput  == [allowed |-> FALSE, target |-> NONE]
NoToggle == [pc |-> "idle", next |-> FALSE]
Screen   == kind \in {"gst", "legacy"}

Init ==
  /\ kind \in Kind
  /\ session = "open"
  /\ handle = NONE
  /\ pc = [c \in Call |-> "idle"]
  /\ path = [c \in Call |-> kind]
  /\ source = [c \in Call |-> "none"]
  /\ encoder = {} /\ writer = {} /\ flag = {} /\ asked = {} /\ evicted = {}
  /\ muted = [c \in Call |-> FALSE]
  /\ control = [c \in Call |-> <<>>]
  /\ mic = {} /\ failing = {} /\ broken = {}
  /\ input = NoInput
  /\ starting = NONE /\ stopping = "no" /\ active = FALSE /\ shown = FALSE
  /\ toggle = NoToggle /\ toggles = 0
-----------------------------------------------------------------------------
(* start_capture, start_audio_capture, start_capture (desktop).            *)

Goto(c, p, q) == pc[c] = p /\ pc' = [pc EXCEPT ![c] = q]
Source(c, s)  == source' = [source EXCEPT ![c] = s]

\* A start that fails: the page of a share says it is over, whatever runs.
PageFailed ==
  /\ starting' = NONE
  /\ active' = (active /\ ~Screen)
  /\ shown' = (shown /\ ~Screen)
  /\ UNCHANGED <<stopping, toggle, toggles>>

Unchecked == TRUE                             \* mutant: no look at the registry
Vacant    == handle = NONE

\* The Screen button is live while sharing; Voice becomes the mute button.
Start(c) ==
  /\ pc[c] = "idle"
  /\ \A d \in Call : d < c => pc[d] # "idle"
  /\ starting = NONE
  /\ stopping = "no"
  /\ session # "closed"
  /\ kind = "voice" => ~active
  /\ \/ /\ Vacant
        /\ Goto(c, "idle", "checked")
        /\ starting' = c
        /\ UNCHANGED <<stopping, active, shown, toggle, toggles>>
     \/ ~Vacant /\ Goto(c, "idle", "failed") /\ PageFailed
  /\ UNCHANGED <<kind, session, registry, path, threads, voice, input>>

\* register_target keeps the consent of the connection.
Register(c) == input' = [input EXCEPT !.target = c]

Setup(c) ==
  /\ \/ /\ session # "closed"
        /\ Goto(c, "checked", "setup")
        /\ Source(c, "opening")
        /\ IF path[c] = "legacy" THEN Register(c) ELSE UNCHANGED input
        /\ UNCHANGED page
     \/ session = "closed" /\ Goto(c, "checked", "failed") /\ PageFailed /\ UNCHANGED <<source, input>>
  /\ UNCHANGED <<kind, session, registry, path, encoder, writer, flag, asked, voice>>

\* The threads are up; a thread whose start has given up finds out later.
Opened(c) ==
  /\ source[c] = "opening"
  /\ Source(c, "live")
  /\ mic' = IF path[c] = "voice" THEN mic \cup {c} ELSE mic
  /\ pc' = [pc EXCEPT ![c] = IF @ = "setup" THEN "ready" ELSE @]
  /\ UNCHANGED <<kind, session, registry, path, encoder, writer, flag, asked, muted, failing, control,
                 broken, input, page>>

\* A bad source, device or portal answer.  The first screen path falls back
\* to the second; a desktop set-up without audio leaves PipeWire running.
OpenFails(c) ==
  /\ source[c] = "opening"
  /\ \/ /\ path[c] = "gst"
        /\ path' = [path EXCEPT ![c] = "legacy"]
        /\ Register(c)
        /\ UNCHANGED <<pc, source, page>>
     \/ /\ path[c] # "gst"
        /\ \/ Source(c, "ended")
           \/ path[c] = "desktop" /\ Source(c, "live")
        /\ pc' = [pc EXCEPT ![c] = "failed"]
        /\ IF pc[c] = "setup" THEN PageFailed ELSE UNCHANGED page
        /\ UNCHANGED <<path, input>>
  /\ UNCHANGED <<kind, session, registry, encoder, writer, flag, asked, voice>>

NoCancel(c) == UNCHANGED <<flag, control>>    \* mutant: the thread is not told

\* cancel_flag and cancel_tx, CaptureControl::Stop, quit.
Cancel(c) ==
  IF path[c] = "voice"
    THEN control' = [control EXCEPT ![c] = Append(@, "stop")] /\ UNCHANGED flag
    ELSE flag' = flag \cup {c} /\ UNCHANGED control

\* 120 s for a screen, 15 s for a microphone.  The desktop thread answers
\* within 9 s and the portal of the first path is awaited without a limit.
TimeOut(c) ==
  /\ path[c] \in {"legacy", "voice"}
  /\ source[c] = "opening"
  /\ Goto(c, "setup", "failed")
  /\ Cancel(c)
  /\ asked' = asked \cup {c}
  /\ PageFailed
  /\ UNCHANGED <<kind, session, registry, path, source, encoder, writer, muted, mic, failing, broken, input>>

\* The handle goes in without another look; the encode and the writer start.
Insert(c) ==
  /\ Goto(c, "ready", "running")
  /\ handle' = c
  /\ encoder' = encoder \cup {c}
  /\ writer' = writer \cup {c}
  /\ UNCHANGED <<kind, session, evicted, path, source, flag, asked, voice, input, page>>

\* A share is shown once the desktop audio, too, has started or failed.
Started(c) ==
  /\ starting = c
  /\ pc[c] = "running"
  /\ starting' = NONE
  /\ active' = TRUE
  /\ shown' = (shown /\ kind # "voice")
  /\ UNCHANGED <<kind, session, registry, pc, path, threads, voice, input, stopping, toggle, toggles>>
-----------------------------------------------------------------------------
(* The threads and tasks of a capture.                                     *)

\* The handle is gone, or was never stored, and its channel ends dropped.
Dropped(c) == pc[c] \in {"running", "failed"} /\ handle # c

FlagOnly(c) == c \in flag                     \* mutant: changed() ends on Ok only

\* The teardown watcher of the first path: a dropped cancel_tx wakes it too.
Woken(c) == c \in flag \/ Dropped(c)

Stops(c) ==
  CASE path[c] = "gst"    -> Woken(c)
    [] path[c] = "voice"  -> control[c] = <<>> /\ Dropped(c) /\ c \notin failing
    [] OTHER              -> c \in flag

SourceEnds(c) ==
  /\ source[c] = "live"
  /\ Stops(c)
  /\ Source(c, "ended")
  /\ mic' = mic \ {c}
  /\ UNCHANGED <<kind, session, registry, pc, path, encoder, writer, flag, asked, muted, failing, control,
                 broken, input, page>>

\* The recorder of the second path disconnects: its thread leaves the rest.
RecorderLost(c) ==
  /\ path[c] = "legacy"
  /\ source[c] = "live"
  /\ Source(c, "ended")
  /\ UNCHANGED <<kind, session, registry, pc, path, encoder, writer, flag, asked, voice, input, page>>

\* The bus watch of the first path sets the flag, which the watcher polls.
PipelineFails(c) ==
  /\ path[c] = "gst"
  /\ c \in encoder
  /\ flag' = flag \cup {c}
  /\ UNCHANGED <<kind, session, registry, pc, path, source, encoder, writer, asked, voice, input, page>>

\* The encode thread of the audio takes what its source has left, and ends.
Disconnected(c) == source[c] = "ended"

\* The last sender of the output channel goes: the encode thread, or the
\* pipeline with its callbacks, which the handle and the watcher hold.
EncoderEnds(c) ==
  /\ c \in encoder
  /\ CASE path[c] = "legacy" -> c \in flag
       [] path[c] = "gst"    -> source[c] = "ended" /\ handle # c
       [] OTHER              -> Disconnected(c)
  /\ encoder' = encoder \ {c}
  /\ UNCHANGED <<kind, session, registry, pc, path, source, writer, flag, asked, voice, input, page>>

\* The writer removes the entry of the connection, whoever it belongs to.
WriterEnds(c) ==
  /\ c \in writer
  /\ c \notin encoder
  /\ writer' = writer \ {c}
  /\ handle' = NONE
  /\ evicted' = evicted \cup ({handle} \ {c, NONE})
  /\ UNCHANGED <<kind, session, pc, path, source, encoder, flag, asked, voice, input, page>>
-----------------------------------------------------------------------------
(* The microphone thread (audio.rs).                                       *)

Running(c) == path[c] = "voice" /\ source[c] = "live" /\ c \notin failing

Mute(c) ==
  /\ mic' = mic \ {c}
  /\ UNCHANGED <<source, muted, broken>>

\* mutant: a microphone that does not reopen leaves the flag alone
ReopenSilently(c) ==
  \/ mic' = mic \cup {c} /\ UNCHANGED <<source, muted, broken>>
  \/ broken' = broken \cup {c} /\ UNCHANGED <<mic, source, muted>>

Unmute(c) ==
  \/ mic' = mic \cup {c} /\ UNCHANGED <<source, muted, broken>>
  \/ /\ c \notin mic
     /\ muted' = [muted EXCEPT ![c] = TRUE]
     /\ broken' = broken \cup {c}
     /\ UNCHANGED <<mic, source>>

\* apply_control: one message, however many are waiting.
Apply(c) ==
  /\ Running(c)
  /\ control[c] # <<>>
  /\ control' = [control EXCEPT ![c] = Tail(@)]
  /\ \/ /\ Head(control[c]) = "stop"
        /\ Source(c, "ended")
        /\ mic' = mic \ {c}
        /\ UNCHANGED <<muted, broken>>
     \/ Head(control[c]) = "mute" /\ Mute(c)
     \/ Head(control[c]) = "unmute" /\ Unmute(c)
     \/ Head(control[c]) = "source" /\ UNCHANGED <<source, mic, muted, broken>>
  /\ UNCHANGED <<kind, session, registry, pc, path, encoder, writer, flag, asked, failing, input, page>>

\* The stream ends unexpectedly: it is dropped, then the flag is stored.
MicFails(c) ==
  /\ Running(c)
  /\ c \in mic
  /\ mic' = mic \ {c}
  /\ failing' = failing \cup {c}
  /\ broken' = broken \cup {c}
  /\ UNCHANGED <<kind, session, registry, pc, path, threads, muted, control, input, page>>

MicFailed(c) ==
  /\ c \in failing
  /\ failing' = failing \ {c}
  /\ muted' = [muted EXCEPT ![c] = TRUE]
  /\ UNCHANGED <<kind, session, registry, pc, path, threads, mic, control, broken, input, page>>
-----------------------------------------------------------------------------
(* The page: stop, mute and consent, the end of the session.               *)

\* stop_capture_for_connection: through the handle, which stays in place.
StopAudio ==
  \/ handle = NONE /\ UNCHANGED <<flag, control, asked>>
  \/ handle # NONE /\ Cancel(handle) /\ asked' = asked \cup {handle}

\* mutant: the entry is left for the writer task to remove
StopKeeps == StopAudio /\ UNCHANGED handle

\* stop_capture: takes the handle out itself.
StopScreen == StopAudio /\ handle' = NONE

Stop ==
  /\ stopping = "no"
  /\ session # "closed"
  /\ \/ /\ Screen /\ active
        /\ StopScreen
        /\ input' = NoInput
        /\ stopping' = "send"
        /\ UNCHANGED <<active, shown>>
     \/ /\ kind = "voice" /\ active
        /\ StopAudio
        /\ active' = FALSE /\ shown' = FALSE
        /\ UNCHANGED <<handle, input, stopping>>
     \/ /\ kind = "desktop" /\ handle # NONE
        /\ StopAudio
        /\ UNCHANGED <<handle, input, stopping, active, shown>>
  /\ UNCHANGED <<kind, session, evicted, pc, path, source, encoder, writer, muted, mic, failing, broken,
                 starting, toggle, toggles>>

\* The viewer is told; a page that showed consent withdraws it.
Revoke ==
  /\ stopping = "send"
  /\ stopping' = "off"
  /\ input' = IF shown THEN [input EXCEPT !.allowed = FALSE] ELSE input
  /\ UNCHANGED <<kind, session, registry, pc, path, threads, voice, starting, active, shown, toggle, toggles>>

\* The viewer cannot be told: the page goes on showing the share.
RevokeFails ==
  /\ stopping = "send"
  /\ stopping' = "no"
  /\ UNCHANGED <<kind, session, registry, pc, path, threads, voice, input, starting, active, shown, toggle, toggles>>

Stopped ==
  /\ stopping = "off"
  /\ stopping' = "no"
  /\ active' = FALSE /\ shown' = FALSE
  /\ UNCHANGED <<kind, session, registry, pc, path, threads, voice, input, starting, toggle, toggles>>

\* _toggleRemoteControl, _handleVoiceAction: the new value is chosen now.
TogglePressed ==
  /\ active
  /\ kind # "desktop"
  /\ session # "closed"
  /\ toggle.pc = "idle"
  /\ toggles < MaxToggles
  /\ toggle' = [pc |-> "call", next |-> ~shown]
  /\ toggles' = toggles + 1
  /\ UNCHANGED <<kind, session, registry, pc, path, threads, voice, input, starting, stopping, active, shown>>

\* set_remote_control_allowed; set_audio_muted, whose flag and message go
\* under one lock and whose error, without a handle, ends the toggle.
ToggleCall ==
  /\ toggle.pc = "call"
  /\ \/ /\ Screen
        /\ input' = [input EXCEPT !.allowed = toggle.next]
        /\ toggle' = [toggle EXCEPT !.pc = "show"]
        /\ UNCHANGED <<muted, control>>
     \/ /\ kind = "voice" /\ handle # NONE
        /\ muted' = [muted EXCEPT ![handle] = toggle.next]
        /\ control' = [control EXCEPT ![handle] = Append(@, IF toggle.next THEN "mute" ELSE "unmute")]
        /\ toggle' = [toggle EXCEPT !.pc = IF source[handle] = "live" THEN "show" ELSE "idle"]
        /\ UNCHANGED input
     \/ /\ kind = "voice" /\ handle = NONE
        /\ toggle' = NoToggle
        /\ UNCHANGED <<muted, control, input>>
  /\ UNCHANGED <<kind, session, registry, pc, path, threads, mic, failing, broken,
                 starting, stopping, active, shown, toggles>>

ToggleShown ==
  /\ toggle.pc = "show"
  /\ shown' = toggle.next
  /\ toggle' = NoToggle
  /\ UNCHANGED <<kind, session, registry, pc, path, threads, voice, input, starting, stopping, active, toggles>>

\* set_audio_source.
SetSource ==
  /\ kind = "voice" /\ active
  /\ handle # NONE
  /\ toggles < MaxToggles
  /\ toggles' = toggles + 1
  /\ control' = [control EXCEPT ![handle] = Append(@, "source")]
  /\ UNCHANGED <<kind, session, registry, pc, path, threads, muted, mic, failing, broken, input,
                 starting, stopping, active, shown, toggle>>

\* close_session: the audio captures are stopped, the screen is not.
Close ==
  /\ session = "open"
  /\ session' = "closing"
  /\ \/ ~Screen /\ StopAudio
     \/ Screen /\ UNCHANGED <<flag, control, asked>>
  /\ UNCHANGED <<kind, registry, pc, path, source, encoder, writer, muted, mic, failing, broken, input, page>>

Closed ==
  /\ session = "closing"
  /\ session' = "closed"
  /\ active' = FALSE /\ shown' = FALSE
  /\ UNCHANGED <<kind, registry, pc, path, threads, voice, input, starting, stopping, toggle, toggles>>
-----------------------------------------------------------------------------
StartStep(c)  == Start(c) \/ Setup(c) \/ Opened(c) \/ OpenFails(c) \/ TimeOut(c) \/ Insert(c) \/ Started(c)
ThreadStep(c) == SourceEnds(c) \/ EncoderEnds(c) \/ WriterEnds(c) \/ Apply(c) \/ MicFailed(c)
Failure(c)    == RecorderLost(c) \/ PipelineFails(c) \/ MicFails(c)
PageStep      == Stop \/ Revoke \/ RevokeFails \/ Stopped \/ TogglePressed \/ ToggleCall \/ ToggleShown
                   \/ SetSource \/ Close \/ Closed

Next == PageStep \/ \E c \in Call : StartStep(c) \/ ThreadStep(c) \/ Failure(c)

\* The operating system runs every thread and the executor every task.
Spec == Init /\ [][Next]_vars /\ \A c \in Call : WF_vars(ThreadStep(c)) /\ WF_vars(Insert(c))
-----------------------------------------------------------------------------
(* Correctness.                                                            *)

TypeOK ==
  /\ kind \in Kind
  /\ session \in {"open", "closing", "closed"}
  /\ handle \in Call \cup {NONE}
  /\ pc \in [Call -> {"idle", "checked", "setup", "ready", "running", "failed"}]
  /\ path \in [Call -> Kinds]
  /\ source \in [Call -> {"none", "opening", "live", "ended"}]
  /\ encoder \subseteq Call /\ writer \subseteq Call
  /\ flag \subseteq Call /\ asked \subseteq Call /\ evicted \subseteq Call
  /\ muted \in [Call -> BOOLEAN]
  /\ mic \subseteq Call /\ failing \subseteq Call /\ broken \subseteq Call
  /\ control \in [Call -> Seq({"stop", "mute", "unmute", "source"})]
  /\ input \in [allowed: BOOLEAN, target: Call \cup {NONE}]
  /\ starting \in Call \cup {NONE}
  /\ stopping \in {"no", "send", "off"}
  /\ active \in BOOLEAN /\ shown \in BOOLEAN
  /\ toggle \in [pc: {"idle", "call", "show"}, next: BOOLEAN]
  /\ toggles \in 0 .. MaxToggles

\* A capture that runs can be stopped through the registry, unless it has
\* been stopped already or the writer of an earlier capture removed its entry:
\* no start replaces the handle of another (start_capture's check, with a page
\* that awaits one start at a time).
StopReaches ==
  \A c \in Call : pc[c] = "running" /\ source[c] = "live" /\ handle # c => c \in asked \cup evicted

\* Once the queue of controls is empty, an unmuted microphone is open: every
\* way to lose it, or not to get it back, ends in the muted flag, whatever mutes
\* were queued meanwhile.  And as long as no microphone failed, a muted one is
\* closed ("Muting drops the input stream entirely", spawn_capture_thread).
MuteHonoured ==
  \A c \in Call : Running(c) /\ control[c] = <<>> =>
    /\ ~muted[c] => c \in mic
    /\ muted[c] /\ c \notin broken => c \notin mic

\* A capture that a stop, the close of the session or a timeout was for ends
\* for good, also when its set-up succeeds after the timeout.
StoppedEnds == \A c \in Call : [](c \in asked => <>[](source[c] # "live"))

\* A handle that is dropped without a stop ends the microphone and the first
\* screen path: the closed channel tells the thread or the watcher.
OrphansEnd ==
  \A c \in Call :
    pc[c] = "running" /\ path[c] \in {"gst", "voice"} /\ handle # c ~> source[c] = "ended"

\* A stop frees the connection for the next start, and ends the writer with
\* what it holds (the track, the portal session of the first path): the entry
\* goes at once, or when the writer has seen the last sender go.
StopFrees == \A c \in Call : c \in asked ~> handle # c /\ c \notin writer
=============================================================================
