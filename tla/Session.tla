------------------------------ MODULE Session -------------------------------
(***************************************************************************)
(* An established session between the two pages, until both have left it:  *)
(* the heartbeat, the ICE restart and the close with its acknowledgement   *)
(* (session_control_protocol.dart), the messages of the control channel    *)
(* (webrtc.rs) and what the pages and WebRTCManager do with them.  Both    *)
(* pages are the same here.                                                *)
(*                                                                         *)
(* Time passes in beats, the five seconds of a peer's heartbeat: both have *)
(* the same period, at any offset.  The path between them may go down and  *)
(* come back; the control channel is ordered and reliable, so what was     *)
(* under way arrives late rather than never.                               *)
(***************************************************************************)
EXTENDS Integers, SequencesExt

CONSTANTS
  Peer,           (* the two peers                                          *)
  PongTimeout,    (* _pongTimeout, in beats                                 *)
  RestartTimeout, (* _iceRestartTimeout, in beats                           *)
  MaxOutages,     (* bound: times the path goes down                        *)
  MaxSame         (* bound: messages of a kind under way to one peer        *)

ASSUME SessionAssumption ==
  /\ \A p \in Peer : \E q \in Peer : Peer = {p, q} /\ p # q
  /\ PongTimeout \in Nat \ {0} /\ RestartTimeout \in Nat \ {0}
  /\ MaxOutages \in Nat /\ MaxSame \in Nat \ {0}

Silence   == PongTimeout + RestartTimeout + 1   (* bound: since counts no further *)
NoRestart == -1

VARIABLES
  alive,       (* the peers whose session lives; a page may outlive it      *)
  connected,   (* the peers whose _webrtcState is connected                 *)
  beating,     (* the peers whose _heartbeatTimer runs                      *)
  ahead,       (* the peers who have a beat that the other has not had yet  *)
  since,       (* peer -> beats since _lastPongAt                           *)
  restart,     (* peer -> beats of its _iceRestartTimer, or NoRestart       *)
  signaling,   (* peer -> signaling state: stable, offered                  *)
  open,        (* the peers whose control channel is open                   *)
  wire,        (* peer -> the control messages under way to it              *)
  path,        (* up, down                                                  *)
  backlog,     (* what an outage has held up is still under way             *)
  outages      (* times the path went down                                  *)

timers == <<beating, ahead, since, restart>>
link   == <<open, wire, path, backlog, outages>>
vars   == <<alive, connected, timers, signaling, link>>

Message  == {"ping", "pong", "offer", "answer", "session_closed"}
Other(p) == CHOOSE q \in Peer : q # p

Set(f, p, v) == [f EXCEPT ![p] = v]

Init ==
  /\ alive = Peer
  /\ connected = {}
  /\ beating = {} /\ ahead = {}
  /\ since = [p \in Peer |-> 0]
  /\ restart = [p \in Peer |-> NoRestart]
  /\ signaling = [p \in Peer |-> "stable"]
  /\ open = Peer
  /\ wire = [p \in Peer |-> <<>>]
  /\ path = "up" /\ backlog = FALSE /\ outages = 0
-----------------------------------------------------------------------------
(* The control channel.                                                    *)

Under(p, m) == Cardinality({i \in DOMAIN wire[p] : wire[p][i] = m})

\* wait_for_named_data_channel: a channel that has closed fails the call.
MaySend(p, m) == p \in open /\ Under(Other(p), m) < MaxSame

\* What goes to a peer that has left is read by nobody.
Posted(w, p, m) ==
  IF MaySend(p, m) /\ Other(p) \in alive THEN [w EXCEPT ![Other(p)] = Append(@, m)] ELSE w

\* send_control_message: its caller only logs a failure.
SendControl(p, m) == wire' = Posted(wire, p, m)

PathDown ==
  /\ path = "up"
  /\ outages < MaxOutages
  /\ path' = "down"
  /\ backlog' = TRUE
  /\ outages' = outages + 1
  /\ UNCHANGED <<alive, connected, timers, signaling, open, wire>>

PathUp ==
  /\ path = "down"
  /\ path' = "up"
  /\ UNCHANGED <<alive, connected, timers, signaling, open, wire, backlog, outages>>

\* SCTP has retransmitted all it had to.
Drained ==
  /\ backlog
  /\ path = "up"
  /\ \A p \in Peer : wire[p] = <<>>
  /\ backlog' = FALSE
  /\ UNCHANGED <<alive, connected, timers, signaling, open, wire, path, outages>>

\* The peer's DTLS tells that it has closed.
ChannelCloses(p) ==
  /\ p \in open
  /\ path = "up"
  /\ Other(p) \notin alive
  /\ open' = open \ {p}
  /\ UNCHANGED <<alive, connected, timers, signaling, wire, path, backlog, outages>>
-----------------------------------------------------------------------------
(* Heartbeat and ICE restart (SessionControlProtocol).                     *)

CancelRestart(p) == restart' = Set(restart, p, NoRestart)

\* Only the timer reads _lastPongAt.
StopHeartbeat(p) ==
  /\ beating' = beating \ {p}
  /\ ahead' = {}
  /\ since' = Set(since, p, 0)
  /\ CancelRestart(p)

StartHeartbeat(p) ==
  /\ beating' = beating \cup {p}
  /\ ahead' = {}
  /\ since' = Set(since, p, 0)
  /\ CancelRestart(p)

\* onStateChange: every "connected", the first one and those that follow.
Connected(p) ==
  /\ alive = Peer
  /\ path = "up"
  /\ p \notin connected
  /\ signaling[p] = "stable"
  /\ connected' = connected \cup {p}
  /\ StartHeartbeat(p)
  /\ UNCHANGED <<alive, signaling, link>>

\* The state is shown; nothing else follows from it.
IceLost(p) ==
  /\ path = "down" \/ Other(p) \notin alive
  /\ p \in connected
  /\ connected' = connected \ {p}
  /\ UNCHANGED <<alive, timers, signaling, link>>

\* Between two peers that are there a ping is answered within a beat, on a
\* channel that is open and has no backlog.
Calm == path = "up" /\ ~backlog /\ alive = Peer
Answered(p) == Under(Other(p), "ping") = 0 /\ Under(p, "pong") = 0

\* More than 15 s of silence: at the third beat, if it is late, or the fourth.
Late(n) == IF n = PongTimeout THEN BOOLEAN ELSE {n > PongTimeout}

NoTimer(p) == UNCHANGED restart               \* mutant: nobody waits for the restart

\* _handlePongTimeout.
RestartTimer(p) == restart' = Set(restart, p, 0)

\* create_restart_offer: a new local description, and ICE starts again.
CreateRestartOffer(p) ==
  /\ signaling' = Set(signaling, p, "offered")
  /\ connected' = connected \ {p}

\* requestIceRestart: the offer goes over the channel whose path is in doubt.
RequestIceRestart(p) == CreateRestartOffer(p) /\ SendControl(p, "offer")

\* The periodic timer of startHeartbeat.  No ping goes out once it is late.
Beat(p) ==
  /\ p \in beating \ ahead
  /\ ahead' = IF Other(p) \in ahead \/ Other(p) \notin beating THEN {} ELSE {p}
  /\ Calm => Answered(p)
  /\ restart[p] < RestartTimeout
  /\ since' = [since EXCEPT ![p] = IF @ < Silence THEN @ + 1 ELSE @]
  /\ \E late \in Late(since[p] + 1) :
       \/ /\ late /\ restart[p] = NoRestart
          /\ RestartTimer(p)
          /\ RequestIceRestart(p)
       \/ /\ ~(late /\ restart[p] = NoRestart)
          /\ restart' = [restart EXCEPT ![p] = IF @ = NoRestart THEN @ ELSE @ + 1]
          /\ IF late THEN UNCHANGED wire ELSE SendControl(p, "ping")
          /\ UNCHANGED <<signaling, connected>>
  /\ UNCHANGED <<alive, beating, open, path, backlog, outages>>

\* dispose of the manager, close_session: what was under way may be lost.
CloseSession(p) ==
  /\ alive' = alive \ {p}
  /\ connected' = connected \ {p}
  /\ signaling' = Set(signaling, p, "closed")
  /\ open' = open \ {p}

Take(p) == [wire EXCEPT ![p] = Tail(@)]
Cut(w, p) == {[w EXCEPT ![p] = <<>>], [q \in Peer |-> <<>>]}

\* _handlePeerSessionClosed.
TearDown(p, w) ==
  /\ StopHeartbeat(p)
  /\ CloseSession(p)
  /\ wire' \in Cut(w, p)
  /\ UNCHANGED <<path, backlog, outages>>

\* The restart timer: fifteen seconds after the beat that set it.
RestartFails(p) ==
  /\ restart[p] >= RestartTimeout - 1
  /\ TearDown(p, wire)
-----------------------------------------------------------------------------
(* What comes in (attach_data_channel, WebRTCManager._handleEvent).        *)

Reply(p, m) == wire' = Posted(Take(p), p, m)

Incoming(p, m) ==
  /\ p \in alive
  /\ path = "up"
  /\ wire[p] # <<>>
  /\ Head(wire[p]) = m

Received == UNCHANGED <<alive, open, path, backlog, outages>>

ReceivePing(p) ==
  /\ Incoming(p, "ping")
  /\ Reply(p, "pong")
  /\ Received /\ UNCHANGED <<connected, timers, signaling>>

\* mutant: the pong is not the end of the restart
PongNoted(p) == since' = Set(since, p, 0) /\ UNCHANGED restart

\* mutant: the time of the pong is not taken
PongUnheard(p) == CancelRestart(p) /\ UNCHANGED since

\* handlePong.
PongHeard(p) == since' = Set(since, p, 0) /\ CancelRestart(p)

ReceivePong(p) ==
  /\ Incoming(p, "pong")
  /\ wire' = Take(p)
  /\ PongHeard(p)
  /\ Received /\ UNCHANGED <<connected, beating, ahead, signaling>>

\* create_answer: a peer that has an offer of its own out refuses the other's.
ReceiveOffer(p) ==
  /\ Incoming(p, "offer")
  /\ IF signaling[p] = "stable" THEN Reply(p, "answer") ELSE wire' = Take(p)
  /\ Received /\ UNCHANGED <<connected, timers, signaling>>

\* set_remote_answer: an answer nobody waits for is an error.
ReceiveAnswer(p) ==
  /\ Incoming(p, "answer")
  /\ wire' = Take(p)
  /\ signaling' = Set(signaling, p, "stable")
  /\ Received /\ UNCHANGED <<connected, timers>>

\* The acknowledgement is not modelled: it stops a timer that would log.
ReceiveClosed(p) ==
  /\ Incoming(p, "session_closed")
  /\ TearDown(p, Take(p))
-----------------------------------------------------------------------------
(* The end.                                                                *)

\* _showExitConfirmation and dispose of the page: one that shows no
\* connection just goes, and what is sent may be lost with the session.
Leave(p) ==
  /\ p \in alive
  /\ \/ TearDown(p, Posted(wire, p, "session_closed"))
     \/ p \notin connected /\ TearDown(p, wire)
-----------------------------------------------------------------------------
Receive(p) ==
  ReceivePing(p) \/ ReceivePong(p) \/ ReceiveOffer(p) \/ ReceiveAnswer(p) \/ ReceiveClosed(p)

Timer(p) == Beat(p) \/ RestartFails(p)

Next ==
  \/ PathDown \/ PathUp \/ Drained
  \/ \E p \in Peer :
       ChannelCloses(p) \/ Connected(p) \/ IceLost(p) \/ Leave(p)
         \/ Receive(p) \/ Timer(p)

Spec == Init /\ [][Next]_vars

(* Timers fire and what the path carries arrives.  Nothing makes the path  *)
(* come back.                                                              *)
Fairness == \A p \in Peer : WF_vars(Receive(p)) /\ WF_vars(Timer(p))

FairSpec == Spec /\ Fairness
-----------------------------------------------------------------------------
TypeOK ==
  /\ alive \subseteq Peer
  /\ connected \subseteq Peer /\ open \subseteq Peer
  /\ beating \subseteq Peer /\ ahead \subseteq Peer
  /\ since \in [Peer -> 0 .. Silence]
  /\ restart \in [Peer -> NoRestart .. RestartTimeout]
  /\ signaling \in [Peer -> {"stable", "offered", "closed"}]
  /\ wire \in [Peer -> Seq(Message)]
  /\ path \in {"up", "down"} /\ backlog \in BOOLEAN /\ outages \in 0 .. MaxOutages

(* As long as the path carries what is sent, and again once it has caught  *)
(* up after an outage, no restart is under way, and so no heartbeat ends   *)
(* the session: however the two peers' beats fall, fifteen seconds leave   *)
(* room for a ping each five, and a ping is out whenever a restart begins. *)
LiveSessionStays == Calm => \A p \in Peer : restart[p] = NoRestart

(* A heartbeat ends a session only after some twenty-five seconds without  *)
(* a pong or a "connected": a late pong, or a restarted heartbeat, takes   *)
(* back the restart timer that was running (handlePong, stopHeartbeat).    *)
PatientTeardown ==
  [][\A p \in Peer : RestartFails(p) => since[p] >= PongTimeout + RestartTimeout - 1]_vars

(* Once one peer's session has ended, for whatever reason, the other's     *)
(* ends: by the message, or by its heartbeat when that was lost.           *)
EndsTogether ==
  \A p \in Peer : Other(p) \notin alive /\ p \in beating ~> p \notin alive
=============================================================================
