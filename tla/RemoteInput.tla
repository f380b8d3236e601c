----------------------------- MODULE RemoteInput ----------------------------
(***************************************************************************)
(* Remote control of one host by its viewer: the widget that turns key and *)
(* pointer events into messages (remote_input_capture.dart), the calls     *)
(* that send them (webrtc_manager.dart, send_control_message), and the     *)
(* host's injector with its consent (input_inject.rs).                     *)
(*                                                                         *)
(* The widget awaits none of its calls: each is a task of its own, so they *)
(* reach the ordered control channel in any order.  The host handles one   *)
(* message of the channel after the other.                                 *)
(***************************************************************************)
EXTENDS Integers, SequencesExt

CONSTANTS
  Key,         (* the keys of the viewer the widget has a name or sign for  *)
  Unmapped,    (* those whose symbol the host's layout has on no key        *)
  Button,      (* mouse buttons                                             *)
  Left,        (* the one _buttonName falls back to                         *)
  Scratch,     (* the keycode bound to unmapped symbols: max_keycode        *)
  NONE,
  MaxEvents,   (* bound: events of the viewer                               *)
  MaxConsents  (* bound: times the host allows remote control               *)

ASSUME InputAssumption ==
  /\ Unmapped \subseteq Key /\ Left \in Button
  /\ IsFiniteSet(Key) /\ IsFiniteSet(Button) /\ Key \cap Button = {}
  /\ Scratch \notin Key \cup Button /\ NONE \notin Key \cup Button
  /\ MaxEvents \in Nat /\ MaxConsents \in Nat

VARIABLES
  enabled,     (* viewer: the widget forwards input                         *)
  pressed,     (* viewer: the keys of _pressed                              *)
  button,      (* viewer: _heldButtons                                      *)
  calls,       (* viewer: the calls that have not sent yet, as issued       *)
  wire,        (* messages of the control channel under way to the host     *)
  open,        (* the control channel is open                               *)
  allowed,     (* host: the consent stored for the connection               *)
  handling,    (* host: the message that has passed the check               *)
  window,      (* host: the shared window, or monitor, exists               *)
  down,        (* X server: keycodes and buttons that are held              *)
  displaced,   (* history: buttons pressed and since then overwritten       *)
  overtaken,   (* history: codes whose calls have changed places            *)
  refused,     (* history: codes whose release the host did not inject      *)
  late,        (* history: messages injected since consent was withdrawn    *)
  events,
  consents

viewer  == <<enabled, pressed, button, events>>
channel == <<wire, open>>
host    == <<allowed, handling, window, down, refused, late, consents>>
history == <<displaced, overtaken>>
vars    == <<viewer, calls, history, channel, host>>

\* named_keysym, unicode_keysym, find_keycode_for_keysym, button_code.
Code(w) == IF w \in Unmapped THEN Scratch ELSE w
Codes   == Key \cup Button \cup {Scratch}

Message == [what: Key \cup Button, press: BOOLEAN]

ASSUME NoneAssumption == NONE \notin Message

Press(w)   == [what |-> w, press |-> TRUE]
Release(w) == [what |-> w, press |-> FALSE]

Held == pressed \cup ({button} \ {NONE})

Init ==
  /\ enabled = FALSE                          \* the viewer opts in
  /\ pressed = {} /\ button = NONE /\ displaced = {}
  /\ calls = <<>> /\ overtaken = {}
  /\ wire = <<>> /\ open = TRUE
  /\ allowed = FALSE                          \* get_or_create: fail-closed
  /\ handling = NONE /\ window = TRUE
  /\ down = {} /\ refused = {} /\ late = 0
  /\ events = 0 /\ consents = 0
-----------------------------------------------------------------------------
(* The widget.                                                             *)

Event == enabled /\ events < MaxEvents /\ events' = events + 1

\* A call for a code is its last one, whichever came before.
Call(m) ==
  /\ calls' = Append(calls, m)
  /\ overtaken' = overtaken \ {Code(m.what)}

\* _onKeyEvent: repeats are left to the X server.
KeyDown(k) ==
  /\ Event
  /\ pressed' = pressed \cup {k}
  /\ Call(Press(k))
  /\ UNCHANGED <<enabled, button, displaced, channel, host>>

KeyUp(k) ==
  /\ Event
  /\ k \in pressed
  /\ pressed' = pressed \ {k}
  /\ Call(Release(k))
  /\ UNCHANGED <<enabled, button, displaced, channel, host>>

\* onPointerDown, onPointerUp: the further buttons of a pointer only move it,
\* but a second pointer goes down on its own, and so does one whose press was
\* cancelled, which the widget does not hear of.  Either overwrites the button
\* that is held.
PointerDown(b) ==
  /\ Event
  /\ button' = b
  /\ displaced' = (displaced \cup ({button} \ {NONE})) \ {b}
  /\ Call(Press(b))
  /\ UNCHANGED <<enabled, pressed, channel, host>>

\* _buttonName: without one held it is the left one.
Lifted == IF button = NONE THEN Left ELSE button

PointerUp ==
  /\ Event
  /\ button' = NONE
  /\ displaced' = displaced \ {Lifted}
  /\ Call(Release(Lifted))
  /\ UNCHANGED <<enabled, pressed, channel, host>>

KeysOnly      == pressed                      \* mutant: the button is forgotten
HeldAtRelease == Held

\* _releaseEverythingHeld.
ReleaseEverything ==
  /\ \E order \in SetToSeqs(HeldAtRelease) :
       calls' = calls \o [i \in DOMAIN order |-> Release(order[i])]
  /\ overtaken' = overtaken \ {Code(w) : w \in HeldAtRelease}
  /\ pressed' = {} /\ button' = NONE

\* didUpdateWidget: the viewer switches input off, or on.
Disable == Event /\ enabled' = FALSE /\ ReleaseEverything /\ UNCHANGED <<displaced, channel, host>>

Enable ==
  /\ ~enabled
  /\ events < MaxEvents
  /\ enabled' = TRUE /\ events' = events + 1
  /\ UNCHANGED <<pressed, button, calls, history, channel, host>>

\* dispose: the video goes, and may come back.
Dispose == Event /\ ReleaseEverything /\ UNCHANGED <<enabled, displaced, channel, host>>

\* send_control_message, one task of the bridge: it looks up the session and
\* the channel, so that a later one may come before it.
SendCall(i) ==
  /\ open
  /\ calls' = RemoveAt(calls, i)
  /\ wire' = Append(wire, calls[i])
  /\ overtaken' =
       overtaken \cup {c \in {Code(calls[i].what)} : \E j \in 1 .. i - 1 : Code(calls[j].what) = c}
  /\ UNCHANGED <<viewer, displaced, open, host>>

\* The session ends: nothing more is sent or received.
ChannelCloses ==
  /\ open
  /\ open' = FALSE
  /\ calls' = <<>> /\ wire' = <<>>
  /\ UNCHANGED <<viewer, history, host>>
-----------------------------------------------------------------------------
(* The host.                                                               *)

\* A release that is not injected leaves its code as it is.
NotInjected(m) == refused' = refused \cup (IF m.press THEN {} ELSE {Code(m.what)})

Unasked   == TRUE                             \* mutant: consent is not asked
Consented == allowed

\* on_message, parse_input_message, handle_input_message up to the check.
Receive ==
  /\ handling = NONE
  /\ wire # <<>>
  /\ wire' = Tail(wire)
  /\ \/ Consented /\ handling' = Head(wire) /\ UNCHANGED refused
     \/ ~Consented /\ NotInjected(Head(wire)) /\ UNCHANGED handling
  /\ UNCHANGED <<viewer, calls, history, open, allowed, window, down, late, consents>>

\* resolve_point: a window that is gone takes no pointer events.
Reaches(m) == m.what \in Key \/ window

\* fake_input: what XTest leaves held.
Faked(m) == IF m.press THEN down \cup {Code(m.what)} ELSE down \ {Code(m.what)}

\* linux::handle, inject_keysym: the scratch keycode is bound anew for each
\* unmapped symbol that is pressed.
Inject ==
  /\ handling # NONE
  /\ \/ /\ ~Reaches(handling)
        /\ NotInjected(handling)
        /\ UNCHANGED <<down, late>>
     \/ /\ Reaches(handling)
        /\ down' = Faked(handling)
        /\ late' = IF allowed THEN late ELSE late + 1
        /\ refused' = refused \ {Code(handling.what)}
  /\ handling' = NONE
  /\ UNCHANGED <<viewer, calls, history, channel, allowed, window, consents>>

\* set_remote_control_allowed.
Grant ==
  /\ ~allowed
  /\ consents < MaxConsents
  /\ allowed' = TRUE /\ consents' = consents + 1
  /\ late' = 0
  /\ UNCHANGED <<viewer, calls, history, channel, handling, window, down, refused>>

\* set_remote_control_allowed, or clear_target when the share stops.
Withdraw ==
  /\ allowed
  /\ allowed' = FALSE
  /\ UNCHANGED <<viewer, calls, history, channel, handling, window, down, refused, late, consents>>

\* The shared window is closed; register_target names another one.
WindowCloses ==
  /\ window
  /\ window' = FALSE
  /\ UNCHANGED <<viewer, calls, history, channel, allowed, handling, down, refused, late, consents>>

RegisterTarget ==
  /\ ~window
  /\ window' = TRUE
  /\ UNCHANGED <<viewer, calls, history, channel, allowed, handling, down, refused, late, consents>>
-----------------------------------------------------------------------------
ViewerStep ==
  \/ \E k \in Key : KeyDown(k) \/ KeyUp(k)
  \/ \E b \in Button : PointerDown(b)
  \/ PointerUp \/ Disable \/ Enable \/ Dispose

Next ==
  \/ ViewerStep
  \/ \E i \in DOMAIN calls : SendCall(i)
  \/ ChannelCloses \/ Receive \/ Inject \/ Grant \/ Withdraw \/ WindowCloses \/ RegisterTarget

Spec == Init /\ [][Next]_vars
-----------------------------------------------------------------------------
(* Correctness.                                                            *)

TypeOK ==
  /\ enabled \in BOOLEAN /\ open \in BOOLEAN /\ allowed \in BOOLEAN /\ window \in BOOLEAN
  /\ pressed \subseteq Key /\ button \in Button \cup {NONE}
  /\ calls \in Seq(Message) /\ wire \in Seq(Message)
  /\ handling \in Message \cup {NONE}
  /\ displaced \subseteq Button
  /\ down \subseteq Codes /\ overtaken \subseteq Codes /\ refused \subseteq Codes
  /\ late \in Nat /\ events \in 0 .. MaxEvents /\ consents \in 0 .. MaxConsents

\* Nothing is left pressed on the host ("must not leave a key or mouse button
\* stuck down", remote_input_capture.dart): once all is handled, what is down is
\* held by the viewer.  There are three ways in which the code does leave a key
\* or button down, until it is used again: the button was overwritten by a
\* second press, its calls changed places on their way to the channel and no
\* other was made since, or the host did not inject its release, for want of
\* consent or of the window, and nothing for it since.
NothingStuck ==
  open /\ calls = <<>> /\ wire = <<>> /\ handling = NONE =>
    down \subseteq {Code(w) : w \in Held} \cup displaced \cup overtaken \cup refused

\* Consent is fail-closed and its withdrawal holds: after it at most the one
\* message is injected that had passed the check already, and none before the
\* host has ever consented.
WithdrawalHolds ==
  /\ ~allowed => late <= 1
  /\ consents = 0 => down = {} /\ late = 0
=============================================================================
