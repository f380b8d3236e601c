----------------------------- MODULE MailboxPush -----------------------------
(***************************************************************************)
(* How a signal stored in a mailbox reaches the page that listens to it:   *)
(* the retries of sendSignal, the push hub and the WebSocket handler of    *)
(* server.rs, and subscribeMailbox of connection_service.dart, which       *)
(* merges pushed messages with fetched history.  Storing and pushing are   *)
(* two steps of a request; a connection opens, lags and drops at any time. *)
(* A mailbox that expires or is closed is the business of Rendezvous.      *)
(***************************************************************************)
EXTENDS Integers, FiniteSets, SequencesExt

CONSTANTS
  Signal,       (* the ciphertexts the peer sends, all distinct             *)
  Retries,      (* signal -> attempts of its sendSignal (8 by default)      *)
  Capacity,     (* ws_push_buffer_capacity                                  *)
  Slot          (* bound: history fetches under way at the same time        *)

Attempt(s)   == 1..Retries[s]
RequestState == {"none", "arrived", "stored", "answered", "acknowledged", "lost"}
SocketState  == {"connecting", "open", "closed"}
Fetch        == [state: {"idle", "asked", "answered"}, upto: Nat]

ASSUME PushAssumption ==
  /\ Retries \in [Signal -> Nat \ {0}]
  /\ Capacity \in Nat \ {0}
  /\ Slot # {}

VARIABLES
  request,      (* signal, attempt -> how far that request has come         *)
  stored,       (* the message list of the mailbox                          *)
  socket,       (* the WebSocket of the subscription                        *)
  rx,           (* broadcast receiver of handle_ws: pushed, not forwarded   *)
  lagged,       (* the broadcast has overwritten what rx has not read       *)
  wire,         (* forwarded by handle_ws, on the way to the client         *)
  fetch,        (* slot -> a syncMailboxHistory under way                   *)
  delivered,    (* what the stream has emitted (and deliveredMessages)      *)
  disposed,     (* the subscription has been cancelled                      *)
  pushed,       (* history: pushed since handle_ws has subscribed           *)
  synced,       (* history: the longest prefix a history sync has emitted   *)
  fetchFailed   (* history: a history fetch has failed                      *)

server  == <<request, stored, rx, lagged, pushed>>
pushVars    == <<request, stored, socket, rx, lagged, wire, fetch, delivered, disposed, pushed,
             synced, fetchFailed>>

Idle == [state |-> "idle", upto |-> 0]

PushInit ==
  /\ request = [s \in Signal |-> [a \in Attempt(s) |-> "none"]]
  /\ stored = <<>>
  /\ socket = "closed"
  /\ rx = <<>>
  /\ lagged = FALSE
  /\ wire = <<>>
  /\ fetch = [k \in Slot |-> Idle]
  /\ delivered = <<>>
  /\ disposed = FALSE
  /\ pushed = {}
  /\ synced = 0
  /\ fetchFailed = FALSE
-----------------------------------------------------------------------------
(* The sender: sendSignal.                                                 *)

\* The attempts of s that have been posted.
Posted(s) == {a \in Attempt(s) : request[s][a] # "none"}

\* The first attempt, or the next one after a back-off: the one before has
\* failed for the sender (a network error, a status that is retried), whatever
\* the server has done, or will do, with it.
Post(s) ==
  LET a == Cardinality(Posted(s)) + 1 IN
  /\ a \in Attempt(s)
  /\ \A b \in Posted(s) : request[s][b] # "acknowledged"
  /\ request' = [request EXCEPT ![s][a] = "arrived"]
  /\ UNCHANGED <<stored, socket, rx, lagged, wire, fetch, delivered, disposed, pushed, synced,
                 fetchFailed>>

\* 202 arrives for the attempt the sender waits for: it sends no other.
Acknowledged(s) ==
  LET a == Cardinality(Posted(s)) IN
  /\ a # 0
  /\ request[s][a] = "answered"
  /\ request' = [request EXCEPT ![s][a] = "acknowledged"]
  /\ UNCHANGED <<stored, socket, rx, lagged, wire, fetch, delivered, disposed, pushed, synced,
                 fetchFailed>>
-----------------------------------------------------------------------------
(* The server: mailbox_send stores, then notifies the hub.                 *)

Store(s, a) ==
  /\ request[s][a] = "arrived"
  /\ request' = [request EXCEPT ![s][a] = "stored"]
  /\ stored' = Append(stored, s)
  /\ UNCHANGED <<socket, rx, lagged, wire, fetch, delivered, disposed, pushed, synced,
                 fetchFailed>>

\* broadcast::Sender::send: a full buffer loses its oldest message.
Broadcast(q, s) == IF Len(q) < Capacity THEN Append(q, s) ELSE Append(Tail(q), s)

\* PushHub::notify: nothing is kept for a mailbox nobody has subscribed to; a
\* receiver that is a whole buffer behind has lagged.
Notify(s, a) ==
  /\ request[s][a] = "stored"
  /\ request' = [request EXCEPT ![s][a] = "answered"]
  /\ \/ socket # "open" /\ UNCHANGED <<rx, lagged, pushed>>
     \/ /\ socket = "open"
        /\ pushed' = pushed \cup {s}
        /\ rx' = Broadcast(rx, s)
        /\ lagged' = (lagged \/ Len(rx) >= Capacity)
  /\ UNCHANGED <<stored, socket, wire, fetch, delivered, disposed, synced, fetchFailed>>

\* The request ends before it is stored, or before it is pushed.
Lost(s, a) ==
  /\ request[s][a] \in {"arrived", "stored"}
  /\ request' = [request EXCEPT ![s][a] = "lost"]
  /\ UNCHANGED <<stored, socket, rx, lagged, wire, fetch, delivered, disposed, pushed,
                 synced, fetchFailed>>

\* ws_upgrade and the start of handle_ws: subscribed from now on.
Subscribe ==
  /\ socket = "connecting"
  /\ socket' = "open"
  /\ UNCHANGED <<server, wire, fetch, delivered, disposed, synced, fetchFailed>>

Unlagged == TRUE                     \* mutant: RecvError::Lagged is skipped over

\* rx.recv() returns no Lagged.
InStep == ~lagged

\* handle_ws forwards what it receives ...
Forward ==
  /\ socket = "open"
  /\ InStep
  /\ rx # <<>>
  /\ rx' = Tail(rx)
  /\ wire' = Append(wire, Head(rx))
  /\ UNCHANGED <<request, stored, socket, lagged, fetch, delivered, disposed, pushed,
                 synced, fetchFailed>>

Hangup ==
  /\ socket' = "closed"
  /\ rx' = <<>>
  /\ lagged' = FALSE
  /\ wire' = <<>>
  /\ pushed' = {}

\* ... until recv returns Lagged: the handler ends, and with it the socket.
EndLagged ==
  /\ socket = "open"
  /\ ~InStep
  /\ Hangup
  /\ UNCHANGED <<request, stored, fetch, delivered, disposed, synced, fetchFailed>>
-----------------------------------------------------------------------------
(* The client: subscribeMailbox.                                           *)

\* mutant: deliveredMessages is not asked.
EmitAll(d, msgs) == IF disposed THEN d ELSE d \o msgs

\* mutant: the key of a message is its sender alone.
EmitFirst(d, msgs) == IF disposed \/ d # <<>> \/ msgs = <<>> THEN d ELSE <<Head(msgs)>>

\* emitIfNew for one message, when d has been emitted ...
EmitOne(d, m) == IF m \in Range(d) THEN d ELSE Append(d, m)

\* ... and for each of msgs, in order.
EmitIfNew(d, msgs) ==
  LET emitted[n \in 0..Len(msgs)] == IF n = 0 THEN d ELSE EmitOne(emitted[n - 1], msgs[n])
  IN IF disposed THEN d ELSE emitted[Len(msgs)]

ConnectOnly ==                       \* mutant: no history after a reconnect
  /\ ~disposed
  /\ socket = "closed"
  /\ socket' = "connecting"
  /\ UNCHANGED <<server, wire, fetch, delivered, disposed, synced, fetchFailed>>

\* connect, at first or from the reconnect timer: the WebSocket is opened and
\* the history asked for, without waiting for either.
Connect ==
  /\ ~disposed
  /\ socket = "closed"
  /\ socket' = "connecting"
  /\ \E k \in Slot : fetch[k] = Idle /\ fetch' = [fetch EXCEPT ![k].state = "asked"]
  /\ UNCHANGED <<server, wire, delivered, disposed, synced, fetchFailed>>

\* recv_messages reads the list ...
FetchRead(k) ==
  /\ fetch[k].state = "asked"
  /\ fetch' = [fetch EXCEPT ![k] = [state |-> "answered", upto |-> Len(stored)]]
  /\ UNCHANGED <<server, socket, wire, delivered, disposed, synced, fetchFailed>>

\* ... and the answer is emitted in one callback.
FetchEmit(k) ==
  LET n == fetch[k].upto IN
  /\ fetch[k].state = "answered"
  /\ fetch' = [fetch EXCEPT ![k] = Idle]
  /\ delivered' = EmitIfNew(delivered, SubSeq(stored, 1, n))
  /\ synced' = IF ~disposed /\ n > synced THEN n ELSE synced
  /\ UNCHANGED <<server, socket, wire, disposed, fetchFailed>>

\* The fetch fails or times out: only a warning, nothing asks again.
FetchFail(k) ==
  /\ fetch[k] # Idle
  /\ fetch' = [fetch EXCEPT ![k] = Idle]
  /\ fetchFailed' = TRUE
  /\ UNCHANGED <<server, socket, wire, delivered, disposed, synced>>

\* A pushed message arrives.
Receive ==
  /\ wire # <<>>
  /\ wire' = Tail(wire)
  /\ delivered' = EmitIfNew(delivered, <<Head(wire)>>)
  /\ UNCHANGED <<server, socket, fetch, disposed, synced, fetchFailed>>

\* The connection drops, or is refused: onDone and onError start the timer.
Drop ==
  /\ socket # "closed"
  /\ Hangup
  /\ UNCHANGED <<request, stored, fetch, delivered, disposed, synced, fetchFailed>>

\* controller.onCancel
Cancel ==
  /\ ~disposed
  /\ disposed' = TRUE
  /\ Hangup
  /\ UNCHANGED <<request, stored, fetch, delivered, synced, fetchFailed>>
-----------------------------------------------------------------------------
SenderStep == \E s \in Signal : Post(s) \/ Acknowledged(s)
ServerStep == \/ \E s \in Signal : \E a \in Attempt(s) : Store(s, a) \/ Notify(s, a) \/ Lost(s, a)
              \/ Subscribe \/ Forward \/ EndLagged
FetchStep(k) == FetchRead(k) \/ FetchEmit(k) \/ FetchFail(k)
ClientStep == Connect \/ Receive \/ Drop \/ Cancel \/ \E k \in Slot : FetchStep(k)

PushNext == SenderStep \/ ServerStep \/ ClientStep

PushSpec == PushInit /\ [][PushNext]_pushVars

\* The reconnect timer fires, and a fetch is answered or times out.
PushFairness == WF_pushVars(Connect) /\ \A k \in Slot : WF_pushVars(FetchStep(k))

PushFairSpec == PushSpec /\ PushFairness
-----------------------------------------------------------------------------
(* Correctness.                                                            *)

PushTypeOK ==
  /\ \A s \in Signal : request[s] \in [Attempt(s) -> RequestState]
  /\ stored \in Seq(Signal)
  /\ socket \in SocketState
  /\ rx \in Seq(Signal) /\ Len(rx) <= Capacity
  /\ lagged \in BOOLEAN
  /\ wire \in Seq(Signal)
  /\ fetch \in [Slot -> Fetch]
  /\ delivered \in Seq(Signal)
  /\ disposed \in BOOLEAN
  /\ pushed \subseteq Signal
  /\ synced \in Nat
  /\ fetchFailed \in BOOLEAN

\* However often a signal is retried, stored, pushed and fetched, the page
\* sees it once, and only if it was stored (messageKey, deliveredMessages).
DeliveredOnce ==
  /\ \A i, j \in DOMAIN delivered : delivered[i] = delivered[j] => i = j
  /\ Range(delivered) \subseteq Range(stored)

\* A history sync that has ended has delivered all that was stored when the
\* server read the list, whatever was pushed, dropped or fetched meanwhile.
RecoveredBySync ==
  synced <= Len(stored) /\ \A i \in 1..synced : stored[i] \in Range(delivered)

\* A subscription that is still open misses nothing that is pushed to it: the
\* handler ends a connection that has fallen behind rather than skip messages.
OpenSocketMissesNothing ==
  socket = "open" /\ rx = <<>> /\ wire = <<>> => pushed \subseteq Range(delivered)

\* A dropped subscription recovers: what was stored when it was down is
\* delivered, unless a history fetch fails or the page stops listening.
DropRecovers ==
  \A s \in Signal :
    socket = "closed" /\ s \in Range(stored) ~>
      s \in Range(delivered) \/ disposed \/ fetchFailed
=============================================================================
