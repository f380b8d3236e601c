------------------------------ MODULE Handshake ------------------------------
(***************************************************************************)
(* The WebRTC handshake of InitiatorPage and ResponderPage over the two    *)
(* mailboxes of an invite link: the incoming dialog and the refresh of an  *)
(* expired link behind it, offer, answer and candidates, the responder's   *)
(* twelve seconds, and the closing of the mailboxes once connected.        *)
(* MailboxPush tells what a subscription delivers (each stored signal once,*)
(* in any order), Rendezvous what the mailboxes do.  Calls that stay on    *)
(* one machine (creating a session, an offer, an answer) are one step with *)
(* what leads to them; every HTTP call is a step of its own.               *)
(***************************************************************************)
EXTENDS Integers, Sequences, FiniteSets

CONSTANTS
  MaxLink,      (* bound: invite links the initiator generates              *)
  MaxAttempt,   (* bound: incoming requests the initiator's user accepts    *)
  MaxFault      (* bound: requests lost after all their retries, or retried *)

ASSUME HandshakeAssumption ==
  /\ MaxLink \in Nat \ {0}
  /\ MaxAttempt \in Nat \ {0}
  /\ MaxFault \in Nat

Link    == 1..MaxLink
AcceptId == 1..MaxAttempt

\* A signal: an offer, its answer and its candidates belong to one accept; the
\* responder's candidates to its session, named by the link it has joined.
PageSignal == [kind: {"hello", "bye"}, of: {0}] \cup [kind: {"offer", "answer", "ice"}, of: AcceptId]
            \cup [kind: {"ice"}, of: {-l : l \in Link}]

VARIABLES
  box,          (* link -> its two mailboxes on the server                  *)
  joined,       (* the links whose token has been redeemed                  *)
  toI, toR,     (* link -> signals stored for a side and not delivered yet  *)
  ini,          (* the state of InitiatorPage                               *)
  posts,        (* sendSignal calls of offers under way                     *)
  res,          (* the state of ResponderPage                               *)
  accepts,      (* handshakes the initiator has started                    *)
  closing,      (* closeConnection calls under way                          *)
  faults,       (* network faults so far                                    *)
  accident,     (* history: a fault, an expiry, a timeout or a user leaving *)
  lost          (* history: the sides whose candidate was refused           *)

pagesVars == <<box, joined, toI, toR, ini, posts, res, accepts, closing, faults, accident, lost>>

\* A peer connection of the initiator (of an accept; 0: none): it holds the
\* answer, a candidate, and has reached the other side.  stale is history: what
\* it reports belongs to an earlier accept, or to an earlier link of the page.
NoPcI == [of |-> 0, answered |-> FALSE, ice |-> FALSE, up |-> FALSE, stale |-> FALSE]
\* One of the responder (open, the accept whose offer it holds).
NoPcR == [open |-> FALSE, remote |-> 0, ice |-> FALSE, up |-> FALSE, stale |-> FALSE]

\* The two pages as they are opened (the first creates a link at once).
FreshI == [link |-> 0, making |-> FALSE, ticking |-> FALSE, expired |-> FALSE, sub |-> 0,
           incoming |-> FALSE, dialogs |-> <<>>, accepted |-> FALSE, pc |-> NoPcI,
           ices |-> {}, connected |-> FALSE, closed |-> FALSE, left |-> FALSE]
FreshR == [link |-> 0, stage |-> "idle", sub |-> 0, timer |-> FALSE,
           giving |-> "no", pc |-> NoPcR, answering |-> 0, ices |-> {},
           connected |-> FALSE, closed |-> FALSE]

PagesInit ==
  /\ accepts = 0
  /\ box = [l \in Link |-> "none"]
  /\ joined = {}
  /\ toI = [l \in Link |-> {}]
  /\ toR = [l \in Link |-> {}]
  /\ ini = [FreshI EXCEPT !.making = TRUE]
  /\ posts = {}
  /\ res = FreshR
  /\ closing = {}
  /\ faults = 0
  /\ accident = FALSE
  /\ lost = {}

Fault == /\ faults < MaxFault
         /\ faults' = faults + 1
         /\ accident' = TRUE
-----------------------------------------------------------------------------
(* The initiator: links.                                                   *)

\* The dialogs that are open, the last on top, and those below it.
Top  == Len(ini.dialogs)
Rest == SubSeq(ini.dialogs, 1, Top - 1)

\* The start of _createInitiatorLink in a page state i: countdown and
\* subscription are cancelled.
Making(i) == [i EXCEPT !.making = TRUE, !.ticking = FALSE, !.sub = 0]

LinkKeepsRequest ==                                     \* mutant: the flag survives the refresh
  LET l == Cardinality({k \in Link : box[k] # "none"}) + 1 IN
  /\ ini.making
  /\ l \in Link
  /\ box' = [box EXCEPT ![l] = "open"]
  /\ ini' = [ini EXCEPT !.link = l, !.making = FALSE, !.ticking = TRUE, !.expired = FALSE,
                        !.sub = l, !.accepted = FALSE, !.pc.stale = ini.pc.of # 0]
  /\ closing' = closing \cup ({ini.link} \ {0})
  /\ UNCHANGED <<joined, toI, toR, posts, res, accepts, faults, accident, lost>>

\* connection/init is answered: the page turns to the new link, and closes the
\* mailbox of the previous one.
LinkMade ==
  LET l == Cardinality({k \in Link : box[k] # "none"}) + 1 IN
  /\ ini.making
  /\ l \in Link
  /\ box' = [box EXCEPT ![l] = "open"]
  /\ ini' = [ini EXCEPT !.link = l, !.making = FALSE, !.ticking = TRUE, !.expired = FALSE,
                        !.sub = l, !.accepted = FALSE, !.incoming = FALSE,
                        !.pc.stale = ini.pc.of # 0]
  /\ closing' = closing \cup ({ini.link} \ {0})
  /\ UNCHANGED <<joined, toI, toR, posts, res, accepts, faults, accident, lost>>

\* It fails: neither countdown nor subscription comes back.
LinkFails ==
  /\ ini.making
  /\ Fault
  /\ ini' = [ini EXCEPT !.making = FALSE]
  /\ UNCHANGED <<box, joined, toI, toR, posts, res, accepts, closing, lost>>

\* The lifetime the page was told for its link is over (taken when something can
\* see it: the countdown or an accept).
LinkExpires ==
  /\ ini.link # 0
  /\ ini.ticking \/ Top # 0
  /\ ~ini.expired
  /\ ini' = [ini EXCEPT !.expired = TRUE]
  /\ UNCHANGED <<box, joined, toI, toR, posts, res, accepts, closing, faults, accident, lost>>

\* _tickMailboxCountdown, whether or not the dialog is open; an accepted peer, or
\* signalling closed, ends it.
Countdown ==
  /\ ini.ticking
  /\ ini.expired
  /\ ~ini.accepted
  /\ ~ini.closed
  /\ ini' = Making(ini)
  /\ UNCHANGED <<box, joined, toI, toR, posts, res, accepts, closing, faults, accident, lost>>
-----------------------------------------------------------------------------
(* The initiator: the incoming dialog.                                     *)

\* The page that listens for a peer: the first event opens the dialog, with the
\* code of the link of that time; while one is open events are dropped.
Announce(s) ==
  /\ ~ini.accepted
  /\ ini' = IF ini.incoming THEN ini
            ELSE [ini EXCEPT !.incoming = TRUE, !.dialogs = Append(@, ini.link)]
  /\ UNCHANGED lost

Reject ==
  /\ Top # 0
  /\ ini' = [ini EXCEPT !.dialogs = Rest, !.incoming = FALSE]
  /\ UNCHANGED <<box, joined, toI, toR, posts, res, accepts, closing, faults, accident, lost>>

\* The accept comes too late: a new link instead of a handshake.
AcceptExpired ==
  /\ Top # 0
  /\ ini.expired
  /\ LET i == [ini EXCEPT !.dialogs = Rest, !.incoming = FALSE, !.accepted = FALSE] IN
     ini' = IF ini.making THEN i ELSE Making(i)
  /\ UNCHANGED <<box, joined, toI, toR, posts, res, accepts, closing, faults, accident, lost>>

\* _startWebRTCHandshake on the link the page has now: a new session, an offer
\* on its way, candidates in their queue.  A manager that was there is dropped,
\* not disposed of: its events still reach the page.
Accept ==
  LET a == accepts + 1 IN
  /\ Top # 0
  /\ ~ini.expired
  /\ a \in AcceptId
  /\ ini' = [ini EXCEPT !.dialogs = Rest, !.incoming = FALSE, !.accepted = TRUE,
                        !.pc = [NoPcI EXCEPT !.of = a, !.up = ini.pc.up, !.stale = ini.pc.up],
                        !.ices = IF ini.closed THEN @ ELSE @ \cup {a}]
  /\ accepts' = a
  /\ posts' = posts \cup {[of |-> a, link |-> ini.link, state |-> "posted"]}
  /\ UNCHANGED <<box, joined, toI, toR, res, closing, faults, accident, lost>>
-----------------------------------------------------------------------------
(* The initiator: the handshake.                                           *)

\* The server takes a signal of link l: its mailbox is there and has a peer.
Takes(l) == box[l] = "open" /\ l \in joined

OfferStored(p) ==
  /\ p.state = "posted"
  /\ Takes(p.link)
  /\ toR' = [toR EXCEPT ![p.link] = @ \cup {[kind |-> "offer", of |-> p.of]}]
  /\ posts' = (posts \ {p}) \cup {[p EXCEPT !.state = "stored"]}
  /\ UNCHANGED <<box, joined, toI, ini, res, accepts, closing, faults, accident, lost>>

\* The answer of the server is lost: sendSignal tries the stored offer again.
OfferRetried(p) ==
  /\ p.state = "stored"
  /\ Fault
  /\ posts' = (posts \ {p}) \cup {[p EXCEPT !.state = "again"]}
  /\ UNCHANGED <<box, joined, toI, toR, ini, res, accepts, closing, lost>>

\* 202: the subscription's deliveredMessages makes of a second copy nothing.
OfferDone(p) ==
  /\ \/ p.state = "stored"
     \/ p.state = "again" /\ Takes(p.link)
  /\ posts' = posts \ {p}
  /\ UNCHANGED <<box, joined, toI, toR, ini, res, accepts, closing, faults, accident, lost>>

StayAccepted(i) == [i EXCEPT !.pc = NoPcI, !.ices = {}]       \* mutant

\* The catch of _startWebRTCHandshake: whatever manager the page has now is
\* disposed of, and the page listens for a peer again.
HandshakeFailed(i) ==
  [i EXCEPT !.pc = NoPcI, !.ices = {}, !.connected = FALSE, !.accepted = FALSE,
            !.incoming = FALSE]

\* sendSignal throws.  A peer that has not joined (409) is recognised and
\* brings a new link; a missing mailbox is not, and the countdown has ended if
\* it has ticked since the accept.
OfferFails(p) ==
  /\ p.state # "stored"
  /\ ~Takes(p.link)
  /\ posts' = posts \ {p}
  /\ \E tick \in {ini.ticking, FALSE} :
       LET i == HandshakeFailed([ini EXCEPT !.ticking = tick]) IN
       ini' = IF box[p.link] = "open" /\ ~ini.making THEN Making(i) ELSE i
  /\ accident' = TRUE
  /\ UNCHANGED <<box, joined, toI, toR, res, accepts, closing, faults, lost>>

DropAll(s) == UNCHANGED <<ini, lost>>               \* mutant: the queue is dropped

\* _handleIncomingSignal of an accepted handshake.
HandleI(s) ==
  \/ (ini.closed \/ ini.pc.of = 0) /\ UNCHANGED <<ini, lost>>
  \/ /\ ~ini.closed
     /\ ini.pc.of # 0
     /\ CASE s.kind = "answer" ->
               /\ ini' = [ini EXCEPT !.pc.answered = @ \/ s.of = ini.pc.of]
               /\ UNCHANGED lost
          [] s.kind = "ice" /\ ini.pc.answered ->
               /\ ini' = [ini EXCEPT !.pc.ice = @ \/ s.of = -ini.link]
               /\ UNCHANGED lost
          [] s.kind = "ice" /\ ~ini.pc.answered ->      \* no remote description yet
               /\ lost' = lost \cup {"responder"}
               /\ UNCHANGED ini
          [] s.kind = "bye" ->
               /\ ini' = [ini EXCEPT !.pc = NoPcI, !.connected = FALSE]
               /\ UNCHANGED lost
          [] OTHER -> UNCHANGED <<ini, lost>>

DeliverI(s) ==
  /\ ini.sub # 0
  /\ s \in toI[ini.sub]
  /\ toI' = [toI EXCEPT ![ini.sub] = @ \ {s}]
  /\ \/ Announce(s)
     \/ ini.accepted /\ HandleI(s)
  /\ UNCHANGED <<box, joined, toR, posts, res, accepts, closing, faults, accident>>

\* The queue of candidates: what the server does not take is only logged.
SendIceI(c) ==
  /\ c \in ini.ices
  /\ ini' = [ini EXCEPT !.ices = @ \ {c}]
  /\ toR' = IF Takes(ini.link)
            THEN [toR EXCEPT ![ini.link] = @ \cup {[kind |-> "ice", of |-> c]}] ELSE toR
  /\ UNCHANGED <<box, joined, toI, posts, res, accepts, closing, faults, accident, lost>>
-----------------------------------------------------------------------------
(* The responder: joining.                                                 *)

\* connection/join redeems the token; the flags of an earlier join stay.
Join(l) ==
  /\ res.stage = "idle"
  /\ box[l] = "open"
  /\ l \notin joined
  /\ joined' = joined \cup {l}
  /\ res' = [res EXCEPT !.stage = "joining", !.link = l]
  /\ UNCHANGED <<box, toI, toR, ini, posts, accepts, closing, faults, accident, lost>>

Hello == [toI EXCEPT ![res.link] = @ \cup {[kind |-> "hello", of |-> 0]}]

\* The hello is stored and acknowledged: the timer first, then the session, then
\* the subscription.
Joined ==
  /\ res.stage = "joining"
  /\ Takes(res.link)
  /\ toI' = Hello
  /\ res' = [res EXCEPT !.stage = "joined", !.sub = res.link, !.timer = TRUE,
                        !.pc = [NoPcR EXCEPT !.open = TRUE]]
  /\ UNCHANGED <<box, joined, toR, ini, posts, accepts, closing, faults, accident, lost>>

\* The mailbox is gone; or the answer to the join, or to the hello, is lost.
JoinFails ==
  /\ res.stage = "joining"
  /\ \/ box[res.link] = "closed" /\ accident' = TRUE /\ UNCHANGED <<toI, faults>>
     \/ Fault /\ UNCHANGED toI
     \/ Fault /\ Takes(res.link) /\ toI' = Hello
  /\ res' = [res EXCEPT !.stage = "idle", !.link = 0]
  /\ UNCHANGED <<box, joined, toR, ini, posts, accepts, closing, lost>>
-----------------------------------------------------------------------------
(* The responder: the handshake.                                           *)

\* _handleIncomingSignal; createAnswer starts the candidates.
HandleR(s) ==
  \/ (res.closed \/ ~res.pc.open) /\ UNCHANGED <<res, lost>>
  \/ /\ ~res.closed
     /\ res.pc.open
     /\ CASE s.kind = "offer" ->
               /\ res' = [res EXCEPT !.pc.remote = s.of, !.pc.stale = @ \/ res.pc.up,
                                     !.answering = s.of,
                                     !.ices = @ \cup {-res.link}]
               /\ UNCHANGED lost
          [] s.kind = "ice" /\ res.pc.remote # 0 ->
               /\ res' = [res EXCEPT !.pc.ice = @ \/ s.of = res.pc.remote]
               /\ UNCHANGED lost
          [] s.kind = "ice" /\ res.pc.remote = 0 ->       \* no remote description yet
               /\ lost' = lost \cup {"initiator"}
               /\ UNCHANGED res
          [] s.kind = "bye" ->
               /\ res' = [res EXCEPT !.pc = NoPcR, !.connected = FALSE]
               /\ UNCHANGED lost
          [] OTHER -> UNCHANGED <<res, lost>>

\* The queue handles the next signal once the answer to the last has been sent.
DeliverR(s) ==
  /\ res.sub # 0
  /\ res.answering = 0
  /\ s \in toR[res.sub]
  /\ toR' = [toR EXCEPT ![res.sub] = @ \ {s}]
  /\ HandleR(s)
  /\ UNCHANGED <<box, joined, toI, ini, posts, accepts, closing, faults, accident>>

\* An answer of a page that has given up meanwhile has no mailbox to go to.
SendAnswer ==
  /\ res.answering # 0
  /\ res' = [res EXCEPT !.answering = 0]
  /\ toI' = IF res.link # 0 /\ Takes(res.link)
            THEN [toI EXCEPT ![res.link] = @ \cup {[kind |-> "answer", of |-> res.answering]}]
            ELSE toI
  /\ UNCHANGED <<box, joined, toR, ini, posts, accepts, closing, faults, accident, lost>>

\* Candidates a session has left in the queue go to the link of the next one.
SendIceR(c) ==
  /\ c \in res.ices
  /\ res' = [res EXCEPT !.ices = @ \ {c}]
  /\ toI' = IF res.link # 0 /\ Takes(res.link)
            THEN [toI EXCEPT ![res.link] = @ \cup {[kind |-> "ice", of |-> c]}] ELSE toI
  /\ UNCHANGED <<box, joined, toR, ini, posts, accepts, closing, faults, accident, lost>>

\* _startHandshakeTimeout: fires unless connected; cancels the subscription ...
TimerFires ==
  /\ res.timer
  /\ res.stage = "joined"
  /\ ~res.connected
  /\ res' = [res EXCEPT !.timer = FALSE, !.giving = "cancel", !.sub = 0]
  /\ accident' = TRUE
  /\ UNCHANGED <<box, joined, toI, toR, ini, posts, accepts, closing, faults, lost>>

\* ... waits for that, then disposes of the manager (no more of its events) ...
TimerDisposes ==
  /\ res.giving = "cancel"
  /\ res' = [res EXCEPT !.giving = "dispose", !.pc = NoPcR]
  /\ UNCHANGED <<box, joined, toI, toR, ini, posts, accepts, closing, faults, accident, lost>>

\* ... and once that is done shows the form for another link.
TimerEnds ==
  /\ res.giving = "dispose"
  /\ res' = [res EXCEPT !.giving = "no", !.stage = "idle", !.link = 0, !.connected = FALSE]
  /\ UNCHANGED <<box, joined, toI, toR, ini, posts, accepts, closing, faults, accident, lost>>
-----------------------------------------------------------------------------
(* The connection.                                                         *)

\* ICE and DTLS: the descriptions of one accept on both sides, and a candidate
\* of either side known to the other.
Reachable(a) ==
  /\ a # 0
  /\ ini.pc.of = a
  /\ ini.pc.answered
  /\ res.pc.remote = a
  /\ ini.pc.ice \/ res.pc.ice

Establish ==
  /\ Reachable(ini.pc.of)
  /\ ini' = [ini EXCEPT !.pc.up = TRUE]
  /\ res' = [res EXCEPT !.pc.up = TRUE]
  /\ UNCHANGED <<box, joined, toI, toR, posts, accepts, closing, faults, accident, lost>>

AnyState(pc) == pc # NoPcI /\ pc # NoPcR      \* mutant: any state taken for "connected"

\* The peer connection reports "connected".
Connected(pc) == pc.up

\* _closeSignalingAfterConnect of either page.
Closed(p) == IF p.closed THEN p ELSE [p EXCEPT !.closed = TRUE, !.sub = 0, !.ices = {}]
CloseCall(p) == IF p.closed \/ p.link = 0 THEN {} ELSE {p.link}

ConnectedI ==
  /\ ~ini.connected
  /\ Connected(ini.pc)
  /\ ini' = [Closed(ini) EXCEPT !.connected = TRUE]
  /\ closing' = closing \cup CloseCall(ini)
  /\ UNCHANGED <<box, joined, toI, toR, posts, res, accepts, faults, accident, lost>>

\* Also while the timeout waits for its subscription to be cancelled.
ConnectedR ==
  /\ ~res.connected
  /\ Connected(res.pc)
  /\ res' = [Closed(res) EXCEPT !.connected = TRUE, !.timer = FALSE]
  /\ closing' = closing \cup CloseCall(res)
  /\ UNCHANGED <<box, joined, toI, toR, ini, posts, accepts, faults, accident, lost>>
-----------------------------------------------------------------------------
(* Leaving, and the server's side.                                         *)

\* While the connection is being made, a user who leaves says so in the mailbox.
Bye(in, l, says) ==
  IF says /\ l # 0 /\ Takes(l) THEN [in EXCEPT ![l] = @ \cup {[kind |-> "bye", of |-> 0]}] ELSE in

LeaveI ==
  /\ ~ini.left
  /\ toR' = Bye(toR, ini.link, ini.pc.answered /\ ~ini.closed)
  /\ ini' = [FreshI EXCEPT !.left = TRUE]
  /\ posts' = {}
  /\ accident' = TRUE
  /\ UNCHANGED <<box, joined, toI, res, accepts, closing, faults, lost>>

LeaveR ==
  /\ res # FreshR
  /\ toI' = Bye(toI, res.link, res.pc.remote # 0 /\ ~res.closed)
  /\ res' = FreshR
  /\ accident' = TRUE
  /\ UNCHANGED <<box, joined, toR, ini, posts, accepts, closing, faults, lost>>

\* The user opens the initiator's page again (bound: while a link is left).
ReopenI ==
  /\ ini.left
  /\ \E l \in Link : box[l] = "none"
  /\ ini' = [FreshI EXCEPT !.making = TRUE]
  /\ UNCHANGED <<box, joined, toI, toR, posts, res, accepts, closing, faults, accident, lost>>

\* close_connection deletes both mailboxes; a call that is lost never arrives.
CloseArrives(l) ==
  /\ l \in closing
  /\ closing' = closing \ {l}
  /\ box' = [box EXCEPT ![l] = "closed"]
  /\ UNCHANGED <<joined, toI, toR, ini, posts, res, accepts, faults, accident, lost>>

BoxExpires(l) ==
  /\ box[l] = "open"
  /\ box' = [box EXCEPT ![l] = "closed"]
  /\ accident' = TRUE
  /\ UNCHANGED <<joined, toI, toR, ini, posts, res, accepts, closing, faults, lost>>
-----------------------------------------------------------------------------
OfferStep == \E p \in posts : OfferStored(p) \/ OfferRetried(p) \/ OfferDone(p) \/ OfferFails(p)
IniStep == LinkMade \/ Countdown \/ ConnectedI
             \/ (\E l \in Link : \E s \in toI[l] : DeliverI(s)) \/ (\E c \in ini.ices : SendIceI(c))
ResStep == Joined \/ SendAnswer \/ TimerDisposes \/ TimerEnds \/ ConnectedR
             \/ (\E l \in Link : \E s \in toR[l] : DeliverR(s)) \/ (\E c \in res.ices : SendIceR(c))
UserStep == Reject \/ AcceptExpired \/ Accept \/ (\E l \in Link : Join(l)) \/ LeaveI \/ ReopenI \/ LeaveR
Mishap == LinkFails \/ LinkExpires \/ JoinFails \/ TimerFires
             \/ \E l \in Link : BoxExpires(l)

PagesNext == OfferStep \/ IniStep \/ ResStep \/ UserStep \/ Mishap \/ Establish
          \/ \E l \in Link : CloseArrives(l)

PagesSpec == PagesInit /\ [][PagesNext]_pagesVars

\* Answered requests return, stored signals are delivered, and what can connect
\* does; users, timers, faults and expiry owe nothing.
PagesFairness == WF_pagesVars(OfferStep) /\ WF_pagesVars(IniStep) /\ WF_pagesVars(ResStep) /\ WF_pagesVars(Establish)

PagesFairSpec == PagesSpec /\ PagesFairness
-----------------------------------------------------------------------------
(* Properties.                                                             *)

Page(l) == l \in 0..MaxLink

PagesTypeOK ==
  /\ box \in [Link -> {"none", "open", "closed"}]
  /\ joined \in SUBSET {l \in Link : box[l] # "none"}
  /\ toI \in [Link -> SUBSET PageSignal]
  /\ toR \in [Link -> SUBSET PageSignal]
  /\ Page(ini.link) /\ ini.sub \in {0, ini.link}
  /\ Page(res.link) /\ res.sub \in {0, res.link}
  /\ ini.pc \in [of: 0..MaxAttempt, answered: BOOLEAN, ice: BOOLEAN, up: BOOLEAN,
                 stale: BOOLEAN]
  /\ res.pc \in [open: BOOLEAN, remote: 0..MaxAttempt, ice: BOOLEAN, up: BOOLEAN,
                 stale: BOOLEAN]
  /\ posts \subseteq [of: AcceptId, link: Link, state: {"posted", "stored", "again"}]
  /\ closing \subseteq {l \in Link : box[l] # "none"}

(* A request that counts as incoming has its dialog on top, with the code of the link the  *)
(* page has now: otherwise a refresh behind the dialog would leave the next peer           *)
(* unannounced (_hasIncomingRequest keeps a second event from opening a dialog).           *)
AnnouncedIsCurrent == ini.incoming /\ ~ini.making => Top # 0 /\ ini.dialogs[Top] = ini.link

(* _closeSignalingAfterConnect takes the mailboxes from nobody who needs them: when either *)
(* page closes those of the link both are on, the two peer connections have reached each   *)
(* other, unless the responder holds the offer of another accept.  Left out is what a      *)
(* connection reports after the page has gone on to another link or accept: that closes    *)
(* the mailboxes of the link the page has by then.                                         *)
InOneAccept(i, r) == /\ i.link = r.link
                     /\ i.pc.of # 0 /\ ~i.pc.stale
                     /\ r.pc.open /\ ~r.pc.stale
                     /\ r.pc.remote \in {0, i.pc.of}

ClosedWhenUp ==
  [][\A l \in closing' \ closing :
       l = ini'.link /\ InOneAccept(ini', res') => ini'.pc.up /\ res'.pc.up]_pagesVars

(* An accepted handshake with the peer that has joined the link connects both pages, in     *)
(* whatever order offer, answer and candidates arrive and mailboxes close, unless there is  *)
(* an accident or each side has refused the only candidate of the other.                    *)
AcceptedConnects ==
  (ini.accepted /\ ini.pc.of # 0 /\ res.stage = "joined" /\ res.link = ini.link)
    ~> (ini.connected /\ res.connected) \/ accident \/ lost = {"initiator", "responder"}

(* Accepting a dialog whose link was replaced behind it starts a handshake with nobody; the *)
(* 409 of the server brings the page back to waiting.                                       *)
NobodyThere == ini.accepted /\ ini.link # 0 /\ ini.link \notin joined
NoPeerRecovers == NobodyThere ~> ~NobodyThere
=============================================================================
