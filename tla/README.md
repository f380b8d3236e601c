# Re:Link in TLA+

Re:Link is a peer-to-peer remote desktop: a Flutter application, a Rust crate
inside it (WebRTC, capture, file transfer) and a small Rust signalling server
with a Redis store.  The server only introduces two applications to each other;
afterwards they talk directly over WebRTC data channels and media tracks.  This
directory holds TLA+ models of the parts whose correctness depends on the order
in which things happen, the TLC runs that check them and TLAPS proofs.

Paths below are relative to `src/`; `server/` is `server/rust/crates/src/`,
`api/` is `client/rust/crates/src/api/`, `lib/` is `client/flutter/lib/src/`.

## 1. Inventory

| part | state it keeps | operations | talks to |
|---|---|---|---|
| Rendezvous service (`server/services/rendezvous_service.rs`, `server/repository/redis_repository.rs`) | none of its own; in Redis: token mappings, mailbox metadata, message lists, each key with a lifetime | init, join, send, recv, close | Redis, push hub |
| Push hub and WebSocket (`server/server.rs`) | mailbox -> broadcast channel | subscribe, notify, handle_ws | pairing client |
| Pairing client (`lib/features/pairing/data/connection_service.dart`) | per subscription: socket, reconnect timer, set of delivered messages | sendSignal with retries, subscribeMailbox, history fetch, close | server, pages |
| Pages (`lib/presentation/pages/initiator_page.dart`, `responder_page.dart`) | link, mailbox, flags of the handshake, queues of signals and candidates | create link, accept, handle a signal, close signalling, tear down | pairing client, WebRTC manager, session control |
| Session control (`lib/features/session/application/session_control_protocol.dart`) | heartbeat, ICE restart and close timers, time of the last pong | start, stop, pong, close and its acknowledgement | pages, control channel |
| Serial task queue (`.../serial_task_queue.dart`) | pending items, three flags | enqueue, clear, dispose, process | pages, transfer service |
| WebRTC session (`api/webrtc.rs`, `lib/features/webrtc/webrtc_manager.dart`) | peer connection, two data channels, tracks, event bus | create, offer, answer, candidates, restart, send, close, event stream | all of the client |
| File transfer actor (`api/file_transfer.rs`) | at most one session, current state and those not yet drained, deadlines; beside it a reader and a writer task per accepted transfer | offer, accept, reject, cancel, tick, drain, incoming control, chunk and end of file | data channels, disk |
| Transfer service (`lib/features/file_transfer/file_transfer_service.dart`) | queue of files, last state seen, whether a poll is in flight | queue, offer, accept, reject, cancel, poll, dispose | actor, queue |
| Screen capture (`api/screen_capture.rs`, `screen_capture_gst.rs`) | connection -> capture handle; frame slot or pipeline, encoder, quality tier | start, stop, end of the source, encode, adapt quality, force a key frame | session, portal, WebRTC track |
| Audio capture (`api/audio.rs`, `desktop_audio_pipewire.rs`) | connection -> capture handle, mute flag | start, stop, mute, change source | session, devices |
| Decoders and texture (`api/webrtc.rs`, `screen_decode_gst.rs`, `video_texture.rs`) | sample builder, decoder, two frame slots and a front index | decode, ask for a key frame, fall back, publish, current | track, engine |
| Video ring (`api/video_ring.rs`, `lib/presentation/widgets/raw_video_frame_view.dart`) | slot states; the frame the view decodes | claim, publish, release | decoder, page, view |
| Remote input (`lib/presentation/widgets/remote_input_capture.dart`, `api/input_inject.rs`) | viewer: keys and buttons held; host: consent, target, scratch keycode | forward, release all, consent, register and clear target, inject | control channel, X server |
| Cryptography, connection registry, settings, widgets, generated code | - | - | - |

**What is hard here.**

* The server handles a request as several Redis commands without a transaction,
  and joins, sends and closes of both peers interleave between any two.  Each key
  has a lifetime of its own.  A crash leaves the store wherever the last command
  left it; the server has no other state to recover.
* The mailbox is read in two ways at once, pushed messages and fetched history,
  over a connection that lags, drops and reconnects, while senders retry what may
  have been stored already.
* The two file transfer actors agree on one transfer by messages that cross, on
  two channels that are ordered each but not with respect to one another, while
  reader and writer tasks outlive the session that started them.  The page learns
  of it only by polling.
* Two peers time each other out over the very channel whose health is in doubt.
* In the client, callbacks, timers and awaits interleave: registries are checked
  before an await and written after it, clean-up tasks remove by name, timers
  race the events they wait for, calls that are not awaited overtake each other.
* A video stream loses frames, changes size under way and depends on feedback
  that may be lost as well; frames are handed on by slot numbers that must be
  given back exactly once.

**What makes each part correct.**  Rendezvous: no message leaves its session or
returns to its sender; an answered token is gone; mailboxes live as long as
promised; lists are append-only.  Mailbox delivery: each signal once, nothing an
open subscription was pushed or a fetch has covered is missing, drops recover.
File transfer: what is delivered is what was offered, whole, in order and only
after it was accepted; one offer prevails; both sides agree on an open offer;
everything ends.  File queue: one file at work, none left behind, every turn
ends.  Handshake: a dialog speaks of the link the page has, an accepted peer
connects or the page recovers, mailboxes are closed only once both peers are
connected.  Session: one that works is not ended, one that does not ends on both
sides.  Capture: a running capture can be stopped and then ends with all it
holds; mute means a closed microphone.  Video: every new size starts with a key
frame, quality does not flap, and a screen at rest is what the viewer sees in the
end.  Hand-over: one owner per slot, every slot comes back, no event out of order.
Remote input: nothing happens without consent, and nothing stays pressed.

## 2. Modules

| module | models | extends / uses |
|---|---|---|
| `Rendezvous` | the five HTTP operations, command by command, over Redis with expiry | - |
| `MailboxPush` | sendSignal, store, push hub, handle_ws, subscribeMailbox | - |
| `Handshake` | the two pages over the mailboxes of an invite link | - |
| `Session` | heartbeat, ICE restart and teardown of two connected peers | - |
| `TransferContract` | what a file transfer promises | - |
| `FileTransfer` | two actors, two channels, sender pipelines | `INSTANCE TransferContract` |
| `TransferQueue` | serial task queue, transfer service and its poll, actor as the service sees it | - |
| `Capture` | screen, microphone and desktop captures of one connection, with the page that starts and stops them | - |
| `QualityLadder` | `step_tier` | - |
| `VideoStream` | a frame's way from the screen to the viewer's texture | `QualityLadder` |
| `Handover` | ring of preview frames, texture buffers, event bus | - |
| `RemoteInput` | keys and buttons from the viewer's widget to the host's X server, and consent | - |
| `RendezvousProofs` | theorems about `Rendezvous`, `MailboxPush` and `Handshake`: how two devices find each other | those three, `TLAPS`, the theorem libraries |
| `SessionProofs`, `FileTransferProofs`, `TransferQueueProofs`, `CaptureProofs`, `VideoStreamProofs`, `HandoverProofs`, `RemoteInputProofs` | theorems about the module of that name | that module, `TLAPS`, the theorem libraries |
| `MCRendezvous`, `MCMailboxPush`, ... | constants and symmetry for TLC | the module of that name |

How they fit together: `MailboxPush` and `Rendezvous` justify what `Handshake`
takes for granted about the mailboxes; `Handshake` ends where `Session` begins,
with a connection; `FileTransfer` and `RemoteInput` use its two data channels;
`TransferQueue` stands on `FileTransfer`'s `SessionsEnd`; `Capture` produces the
frames of `VideoStream`, whose last step is the texture of `Handover`.

`RendezvousProofs` extends three modules with variables of their own, so the
definitions that every module has are prefixed in two of them: `PushInit`,
`PushSpec`, `PushTypeOK`, ... in `MailboxPush`, `PagesInit`, `PagesSpec`,
`PagesTypeOK`, ... in `Handshake`.

Operators marked `mutant:` are not part of a model: each is a definition with a
plausible mistake, and putting it in the place of the definition that follows it
must break the property listed with it in `PROJECT.json`.

### Rendezvous

A request is a process: `pc[r]` is the Redis command it will issue next, and
`token`, `mailbox`, `partner`, `expires` are the locals of its handler.  Every
Redis command is one action (`InitSaveMeta`, `JoinGet`, `JoinDelete`, `Push`,
`PushExpire`, ...); what the handler computes between two commands belongs to the
first of them.  `meta`, `list` and `rendezvous` are the keys of the store, `until`
the moment Redis drops a key; `expires` inside the metadata is the
`expires_at_epoch_ms` the code itself compares.  `Tick` lets time pass and drops
what has run out.  `Abort` ends a request before any command: a Redis error, a
dropped connection or a crash, which for a stateless server are the same.

What clients may send is bounded by what they can know: a token can be joined
once its init has been answered (the link is made from it), a mailbox is named
only by whom an init or join returned it to, an initiator sends only after it has
seen a join marker (`initiator_page.dart` starts the handshake on that event).
Mailbox ids are 16 random bytes, taken to be distinct; tokens are distinct.
`session` is a history variable: the initiator's mailbox a mailbox belongs to.

Abstractions: ciphertexts are the request that carried them; HTTP status codes
are the outcomes; `close`, `recv` and `send` of the same mailbox may overlap.

### MailboxPush

One mailbox seen from its subscriber.  `request[s][a]` is attempt `a` of
`sendSignal` for ciphertext `s`: posted, stored, pushed and answered, each step by
itself, lost in between, or acknowledged.  A retry is posted while the earlier
attempt may still be running, and the last one may never be acknowledged.  `rx` is
the broadcast receiver of `handle_ws` (of `Capacity` messages, then it has
`lagged`), `wire` what is on its way to the client.  `Connect` opens the socket
and asks for the history without waiting for either, as `connect` does;
`FetchRead` is the moment the server reads the list; `FetchEmit` merges the answer
in one callback.  `EmitIfNew` is the loop over the messages of an answer, one
`EmitOne` after the other.  A subscription that is cancelled emits nothing more.  A restart
of the server is a `Drop` together with some `Lost`.

Abstractions: the back-off delays are left out (any delay is possible); a mailbox
that expires or is closed meanwhile is in `Rendezvous`; `isConnecting` is always
false when `connect` starts, as `connect` does not await.

### Handshake

`ini` and `res` are the fields of the two page states that the handshake uses;
`toI` and `toR` the signals stored for each side and not yet handed to its page;
`box` and `joined` what the server knows of a link (`Takes`: a send is accepted).
What the lower layers do is taken from their modules: `MailboxPush` gives each
stored signal to an open subscription once, in any order, which is `DeliverI` and
`DeliverR`; `Rendezvous` gives a link two mailboxes that close together.

* The initiator: `LinkMade`, `LinkFails`, `LinkExpires` and `Countdown` are
  `_createInitiatorLink` and its 200 ms timer, which goes on behind an open dialog;
  `dialogs` is the stack of dialogs with the link whose code each of them shows;
  `Accept`, `AcceptExpired` and `Reject` are its buttons.  An accept creates a peer
  connection and an entry of `posts`, its `sendSignal` of the offer, which may be
  retried although it was stored, or fail with 409 or 404 (`OfferFails`).
* The responder: `Join`, `Joined` (hello stored, timer, session, subscription) and
  `JoinFails`; the timeout is three steps, since it awaits twice: `TimerFires`
  cancels the subscription, `TimerDisposes` disposes of the manager, `TimerEnds`
  shows the form again.  `DeliverR` waits while an answer is being sent, because
  `SerialTaskQueue` takes one item at a time.
* Both: `Establish` is what ICE and DTLS do once both descriptions of one accept
  are set and a candidate of one side is known to the other; `ConnectedI` and
  `ConnectedR` are the state events that reach the pages, each closing the
  mailboxes (`CloseArrives`, which may never happen).  The two sides of one
  connection come up in one step: what is left between them by then goes over the
  path that was found and no longer through the mailboxes.

Abstractions: one candidate for each side of an accept; awaits that stay on one
machine are one step with what leads to them, except where a property depends on
them (the timeout); signals a page has queued but not handled count as not yet
delivered, so they vanish with the subscription (with a new link or a new join
their key no longer fits, and without a manager they are only logged);
`LinkExpires` is taken only when the page can notice it.  `accident` records
that something outside the protocol went wrong, `lost` which side has refused a
candidate that came before the description it needs; both are history variables.
So is the field `stale` of a peer connection: what it reports belongs to an earlier
link or accept of its page (a page that accepts again, or whose link is replaced,
drops its manager without disposing of it, and the manager's events still reach the
page; a responder that takes a second offer keeps its connection).

### FileTransfer

One action per command the actor takes from its queue (it handles one at a time,
so a handler is one step), one per step of the reader and writer tasks.
`control[p]` and `file[p]` are the two data channels towards `p`.  A session
keeps its id, role, `worker_started`, how often it was accepted, the chunks
counted and the chunks written; `status` is the last status pushed; `cancelled` is
the cancel flag a session shares with its pipeline; `source` is what the file on
the sender's disk holds now, `saved` what the receiver's destination holds.

Abstractions: ids are numbers in the order `compare_offer_priority` gives them
(they begin with a time stamp, so the ids of one peer increase); a chunk is a
block of 64 KiB, known by the transfer and place it was read from; the hash of a
file is the file; the accept and inactivity deadlines are derived from the session
(`AwaitsAccept`, `AwaitsActivity`) and may fire whenever they are armed, which
covers every timing of them; progress reports only re-arm a deadline and are left
out; a failure to create the save directory or the temporary file, or a channel
that is not ready, leaves the session as it was and is a stutter; temporary files
that remain are not modelled.  The reader's test of the flag, its read and its
hand-over are one step (nothing else can tell them apart); the writer's test of
the flag and its send are two, since a cancellation between them still sends.
`Faults` names what may go wrong in an instance.

`TransferContract` is the promise: a transfer is offered once, to one peer, may be
accepted, a peer receives one at a time, what is delivered is the content offered,
and what is over stays over.  `FileTransfer!Contract` maps sessions, messages and
files to it: the phase of a transfer is read off the receiving peer.

### Session

Both pages are alike once they are connected, so there is one kind of peer.  Time
is counted in beats, the five seconds of a heartbeat; both peers beat with the same
period at any offset, which is what `ahead` allows.  `Beat` is the periodic timer:
it sends a ping, or finds that the last pong is too old and starts an ICE restart,
or counts the restart that is under way; `RestartFails` is the end of its timer.
The control channel (`wire`) is ordered and reliable: an outage delays it
(`backlog`) and loses nothing, until a session is closed and cuts what was under
way.  `Receive` is `onControlMessage` of the pages with the calls each message
makes; a restart offer sets a local description, so two that cross are both
refused.

Abstractions: pings of both kinds at most `MaxSame` under way; an answered ping is
answered within a beat as long as the path carries (`Calm`); the acknowledgement
of a close only stops a timer that logs and is left out; the candidates of a
restart are part of whether the path carries; the handshake that
precedes and the page that follows a session are in `Handshake`.

### TransferQueue

`items`, `processing`, `scheduled` and `disposed` are the fields of
`SerialTaskQueue`, `microtasks` the calls of `_process` it has scheduled, `stage`
the place in `_runQueuedTransfer` each file has reached: waiting for its channel,
its offer with the actor, taken or refused, polled, awaiting its end.  The actor is
reduced to the session it has, whether that was accepted and its two lists of
states, `current` and `pending`; what the peer and the protocol do to a session is
`TransferEnds`, `FinalizeFails` and `ReceiveOffer`, `ReceiveAccept` at any time.  A
session ends with Completed or Error but for two: `HandleReject` pushes Idle, and a
received file that cannot be finalised (`FinalizeFails`) pushes nothing; `quiet`
notes either when a file waits that has no other end to hear of.  (The limit on
sizes, which would be a third, is the same on both sides and is met before an offer
is sent.)  `Poll`, `Drain`
and `SyncEnds` are the three steps of `_syncFromRust`, between which everything
else may happen.

Abstractions: progress is left out, "final" is Completed or Error and "busy" any
of the others but Idle and the offer that awaits this user.

### Capture

Screen, microphone and desktop captures share one shape: a registry with a handle
per connection, a start that checks it, sets threads up and inserts its handle, and
a writer that removes the entry when it ends.  `kind` chooses one of the four for a
behaviour; `path` differs from it when PipeWire falls back to the second screen
path.  Per start there is the OS source, what holds the sender of its channel
(`encoder`), the writer task and the cancel flag; `control` is the microphone's
queue.  The page awaits one start at a time and runs it beside stops, consent,
mute and the end of the session.  A dropped handle differs by kind (`Dropped`):
the first screen path and the microphone notice, the other two do not.

Abstractions: what is captured; the viewer's notice of a share either arrives or
fails, which is all the page looks at.

### QualityLadder and VideoStream

`StepTier` is `step_tier`, over a table of heights and two limits.  `VideoStream`
follows a frame from the screen to the texture: on the software path through the
one-frame slot, the encode thread and its refresh; on the PipeWire path through
the gate of the appsrc, a leaky queue and the encoder; then the output channel, RTP
with losses, receiver reports and picture loss indications on their way back, the
sample builder that passes over a gap, and the decoder, NVDEC until it fails and
openh264 from then on.  A frame is its scene, its size and whether it is a key
frame.

Abstractions: a frame is one RTP unit; content is a scene number, and what a
decoder makes of a frame without its reference is an error, nothing or `Garbled`;
pacing is left out (a frame that is shed for being early changes nothing); real
limits (group of pictures = frames per second, output channel 9, raw queues 7, 128
packets before a gap is passed over) are constants.

### Handover

Three channels that share no state, of which a behaviour takes one.  `ring`: the
slots, the slot each session's writer works on, the port to Dart, the
subscription and the view that decodes a slot.  `texture`: the two buffers, the
front index and what the engine, which takes no lock, has looked up.  `events`: the
buffer of the event bus, the list a subscription has taken from it and what the
page was given.  `lost` and `stranded` name what a cancelled subscription leaves
behind for good.

### RemoteInput

The widget keeps the keys (`pressed`) and the one button it has told of last, and
gives them up when it is disabled or goes away.  A button that goes down overwrites
the one that is held: a second pointer device, or a pointer whose press Flutter has
cancelled, which the widget does not hear of.  `displaced` records the buttons this
leaves without a release until they are pressed or let go again.  The widget awaits
none of its calls, so `calls` may send in any order; `overtaken` records for which
codes they have, until the next call for the code.  The host's side is `Receive`, which looks up consent, and `Inject`, which
looks up the target and presses or releases a code of the X server (`down`), with
consent free to change between the two; `refused` records the codes whose release
was not injected, until something is injected for them.  Symbols that are on no key of the host's
layout share one keycode (`Scratch`).

Abstractions: pointer moves, scrolling and coordinates, except that a point may
fail to resolve when the window is gone.  External: webrtc-rs handles the messages
of one channel one after the other.

## 3. Runs

All runs bound the number of requests, signals, starts, files or events by a
constant; nothing else is cut off except where a bound is named.

| run | instance | what it shows |
|---|---|---|
| `rendezvous_race` | init, two joins of its token, a send, a close; 3 mailboxes; clock 0..2, token lives 1, mailbox 2 | `RedeemedTokenIsGone`, `HeldUntilExpiry`, `JoinLinksBothSides`, `SessionIsolation`, `ListsAppendOnly` |
| `mailbox_delivery` | two signals, one retried; buffer of 1; one fetch at a time; with fairness | `DeliveredOnce`, `RecoveredBySync`, `OpenSocketMissesNothing`, `DropRecovers` |
| `handshake_pages` | two links, one accept, one fault; with fairness | `AnnouncedIsCurrent`, `ClosedWhenUp`, `AcceptedConnects`, `NoPeerRecovers` |
| `session_life` | pong timeout of 2 beats, restart timeout of 1, one outage; with fairness | `LiveSessionStays`, `PatientTeardown`, `EndsTogether` |
| `transfer_stale_chunks` | two transfers of 2 and 1 chunks, in either direction; cancel, reject | `DeliveredIntact`, `OfferHeldByBoth`, the refinement `ImplementsContract` |
| `transfer_failures` | transfers of 2 and 0 chunks, two accepts each; files edited, I/O errors, disconnection | `OneOfferPrevails`, `CompletedMeansWhole` |
| `transfer_liveness` | two transfers of 1 chunk; cancel, timeout, disconnection; with fairness | `StatusFollowsSession`, `SessionsEnd`, `PipelinesEnd` |
| `file_queue` | three files, one offer of the peer, two presses of a button; with fairness | `OneWorker`, `TurnEnds` |
| `capture_lifecycle` | two starts, all four kinds, two toggles; with fairness | `StopReaches`, `MuteHonoured`, `StoppedEnds`, `OrphansEnd`, `StopFrees` |
| `video_delivery` | both host paths, NVDEC giving way to openh264 at any time; two tiers, two scenes, a loss, an error, three reports; with fairness | `KeyStartsEverySize`, `UpgradeOnlyWhenClean`, `SceneArrives` |
| `handover_owners` | two sessions on 4 slots; 4 publications; 4 events; with fairness | `OneOwner`, `ReadSurvivesOnePublish`, `EventsInOrder`, `SlotsComeBack` |
| `remote_input` | a key of the layout, two that share the scratch keycode, two buttons; 5 events, 2 consents | `NothingStuck`, `WithdrawalHolds` |

Every module of a component has a type invariant `TypeOK` (or `PushTypeOK`,
`PagesTypeOK`); `TransferContract` is reached through its refinement only.  All of
them are proved (section 6); they are kept out of the files above so that every
invariant checked is about behaviour.

**Why the bounds are enough.**  Rendezvous: the actions that matter work on one
mailbox pair; two joins on a token give the race, a third adds no new
interleaving of two commands, and a send and a close cover every writer of the
keys of a session.  `MaxTime` 2 with lifetimes 1 and 2 lets a token expire before
its mailbox, a mailbox expire while its list lives on, and a request straddle
both; isolation between more sessions is proved.  Delivery: one retried signal
gives duplicates, two signals give order and lag in a buffer of one.  Handshake: two
links are what a refresh behind a dialog needs, one accept and one fault what every
error path needs; a second accept and a second join of one page are beyond the
instance (section 5 has what they show).  Session: the code waits three beats for a
pong and three for a restart; two and one are tighter, so a session that survives
here has more room in the code, and a restart, a crossing restart and a close
during either all fit into one outage.
Transfer: two transfers are enough for a collision and for a stale chunk; two
chunks distinguish a prefix from the whole file, and a file of zero chunks ends
without one.  Queue: three files are one at work, one that waits and one that is
picked while the flags change; one offer of the peer collides or comes in between.
Capture: two starts give every clean-up that meets a newer capture, two toggles a
consent or a mute in flight over a stop.  Video: two sizes and two limits of one and
two reports walk the ladder both ways, queues of one are full at once, a
group of two has a key frame and one that is not, and a screen that changes once has
come to rest with any of it still queued.  Hand-over: the four slots of the code and
two sessions that compete for them; three publications are the first that can wrap
around a read.  Remote input: a press and a release of two keys on one keycode are
four events after the one that switches the widget on; so are two buttons that go
down one over the other, and the first of them pressed again and let go.

Peers, mailboxes, tokens and keys without a place in the layout are interchangeable
in their specifications, so symmetry is used in the runs that check safety only; the
contract states no liveness, so its refinement is one of them.

`CHECK_DEADLOCK FALSE` is set wherever a system may come to rest: all requests
answered, all signals sent, no transfer under way, the page gone.  `VideoStream`
never rests while a session lasts, and its run checks deadlock.

### Properties that need a word

`JoinLinksBothSides` and `ListsAppendOnly` hold as long as no token is redeemed
twice; two overlapping joins (section 5) break both, and the condition
`RedeemedOnce` says so.  `OfferHeldByBoth` makes an exception for peers that have
abandoned a started transfer: its late chunks can overrun, and so end, the peer's
next session, without a message to the other side.  `StopReaches` excepts the
captures whose handle a late writer has removed (`evicted`), `SlotsComeBack` the
slots in flight when a subscription is cancelled (`lost`).  `NothingStuck` has
three exceptions, each over as soon as the key or button is used again: buttons
overwritten by a second press, codes whose calls have changed places, and those
whose release the host did not inject.  `TurnEnds` has two, of a session that ends
while a file waits that its end is not told to: this user's Reject, and a received
file that cannot be finalised.  Each
exception is a weakness of the code that section 5 tells of; without it TLC finds
the behaviour.

## 4. Fairness

* `FileTransfer!Fairness`: tokio runs every task that can run (reader, writer,
  report); SCTP delivers what is in a channel; `run_actor` ticks every second, so a
  deadline that stays armed fires; a lost connection is torn down by the page,
  which disposes of the transfer.  A deadline is re-armed by each chunk and
  progress report, of which a file has finitely many.  Users are not fair: nobody
  has to accept, reject or cancel.
* `TransferQueue!Fairness`: microtasks run, awaits end, the poll timer fires, the
  actor answers, and a session ends, which is `SessionsEnd` of `FileTransfer`.
  Neither the user nor the peer is fair.
* `MailboxPush!PushFairness`: the reconnect timer fires and a history fetch is answered
  or times out after ten seconds.  The server, the network and the senders are not
  fair: a socket may never open.
* `Handshake!PagesFairness`: an HTTP request is answered or given up after its retries
  (sendSignal bounds them), a stored signal is delivered while the page listens, the
  serial queues and timeouts of a page go on, ICE connects what it can connect.
  Users, the twelve seconds, the countdown's deadline, closing calls, faults and
  expiry are not fair.
* `Session!Fairness`: timers fire, and what the path carries arrives.  The path
  need not come back, and no user has to leave.
* `Capture!Spec`: OS threads, audio and writer tasks run, and a start whose set-up
  is done inserts its handle.  No user is fair, no source has to open or to end by
  itself, and the page may wait for ever.
* `VideoStream!Fairness`: capture and encode threads, the refresh of a second, the
  output task, the network, RTCP and the decoders go on.  Neither the screen nor
  the reports nor the compositor is fair; `SceneArrives` asks of the compositor to
  go on sending frames, on the PipeWire path alone, because that path has no
  refresh of its own.
* `Handover!Fairness`: writer tasks and the Dart event loop run, an image is
  decoded.  Nobody has to listen or to look.
* `Rendezvous` and `RemoteInput` have no liveness property: every request is a
  bounded sequence of commands, and nothing makes a user let go of a key.

## 5. Seen while modelling

What the models show of the code that its authors might not expect.  The properties
above are stated so that they hold of the code; these are the limits they have.

**Rendezvous and mailbox.**

* A token is read with GET and removed with a later DEL, so overlapping joins are
  both answered and the later link and metadata overwrite the earlier
  (`redis_repository.rs:99`); `docs/final-report/final-report.txt:401` says that a
  redeemed token cannot be reused.
* History is read while the socket is being opened: a signal stored after the one
  and pushed before the other is in neither, until the next reconnection
  (`connection_service.dart:272`; `final-report.txt:289` says that subscribing again
  backfills it).
* A push cut short between RPUSH and EXPIRE leaves a list that never expires
  (`redis_repository.rs:121`), although the keys are said to be all TTL-bounded
  (`docs/final-report/chapter-5-condensed.txt:27`).
* The two metadata records of a pair are written one after the other, so they
  expire one after the other (`rendezvous_service.rs:111-124`); a send renews only
  the list's lifetime, not the mailbox's (`:193`); `recv` and `close` of a mailbox
  whose peer closed first find nothing; a send under way during a close recreates a
  list (`:259`).

**Pages.**

* When "connected" arrives while the timeout handler waits for its subscription to
  end (`responder_page.dart:268`), `_closeSignalingAfterConnect` (`:646`) sets
  `_signalingClosed`, which nothing resets, and the handler still tears down and
  asks for a fresh link (`:280`); a join with that link on the same page drops every
  signal (`:452`).  The heartbeat started by that "connected" outlives the session
  and after some thirty seconds tears down whatever session the page has by then.
* An offer that fails with a missing mailbox is not recognised by
  `_isRendezvousStatusError`, whose text holds no status code
  (`initiator_page.dart:274`); a link refresh that fails is not tried again, so the
  page keeps a dead link (`:639`); a second dialog accepted starts a second
  handshake and leaves the first session in the registry (`:178`); candidates left
  in the responder's queue at a timeout go to the link joined next
  (`responder_page.dart:267`).
* A "connected" is not tied to the link or the accept it was for.  The countdown can
  replace the link behind two dialogs, one below the other; accepting the upper one
  starts a handshake, accepting the lower one when its link has run out
  (`initiator_page.dart:825`) brings another link while that handshake goes on; when
  its connection then comes up, `_closeSignalingAfterConnect` (`:930`) closes the
  mailboxes of the new link.  It takes three links, one more than the run has;
  `ClosedWhenUp` leaves out connections that are `stale` in this way.
* A heartbeat sends no ping once the pong timeout has passed, so only the pong of a
  ping still under way, or a "connected", saves the session.  The restart offer
  goes over the control channel whose path is in doubt.  Two offers that cross are
  both refused, and nothing rolls back.

**File transfer and its queue.**

* Chunks carry no transfer id: a late chunk of a cancelled transfer turns the next
  offer, not accepted yet, into Receiving (`file_transfer.rs:739`; the actor "waits
  for explicit acceptance", `docs/final-report/notes.txt:28`).
* A failing flush or copy ends the session with the status at Receiving
  (`file_transfer.rs:845`; "completed or in error", `final-report.txt:425`).  The
  receiver copies the temporary file to its final name rather than moving it, so a
  part of a file can be seen there (`:264-277`).  An offer that has been received
  has no deadline (`:632`).
* `drain_states` repeats the current state when nothing is pending (`:354`), and a
  final state of an earlier, refused or incoming transfer is heard by the next file:
  its turn ends while its transfer is under way, the offer of the file after it is
  refused ("Transfer already in progress", `:382`) and is lost, although the queue
  is said to advance only "once the current transfer is actually done"
  (`file_transfer_service.dart:101`).  Files queued during an incoming transfer are
  refused one after the other.
* An offer that loses a collision is told no final state; if the user then rejects
  the winning offer, or the file received on it cannot be flushed, moved or copied
  (`file_transfer.rs:803`, `851`), the queue stands still until another transfer
  ends, and Cancel, which finds no session (`:538`), does not help.  A cancel
  while the next file awaits its channel finds no session, and that file is still
  offered.  A Reject pressed on a stale prompt ends an own session.
* Any command that comes after `dispose_transfer` starts a new actor for the old
  connection id, which nobody disposes of (`file_transfer.rs:1225`); not modelled.

**Capture.**

* The Screen button stays live while sharing: a second start is refused, and the
  page then says that nothing is shared and no control allowed while the capture
  and the consent go on.  A toggle in flight over a stop leaves the consent on, and
  a viewer that cannot be told leaves the page showing a share that has ended.
* A writer that ends late removes the handle of the next capture
  (`screen_capture.rs:421`), which can then no longer be stopped.  Closing the
  session does not stop a screen capture by itself.
* A set-up error of the desktop capture, and a format timeout of the PipeWire path,
  leave a PipeWire thread running; a recorder that disconnects freezes the share.
  After a failure that races a mute the flag may say muted with the microphone open
  (`audio.rs:507`).

**Video.**

* The openh264 host takes no notice of picture loss indications although the viewer
  logs "requesting keyframe" (`webrtc.rs:1446`); recovery waits for the next group
  of pictures.  Decode errors of NVDEC send none at all.
* The PipeWire host sends nothing for a still screen, and its gate and throttle can
  drop the last frame (`screen_capture_gst.rs:525`, `571`).  It keeps frame rate and
  key-frame distance of the first tier.
* NVDEC announces sizes from tasks of their own, which may be reordered
  (`screen_decode_gst.rs:333-340`); a failing appsrc ends the inner loop only
  (`:432-435`).
* The engine may read a buffer that is being written if the decoder publishes twice
  during one read (`video_texture.rs:141-144` says otherwise).

**Hand-over.**

* `dispose` cancels the video subscription before `closeSession` clears the sink:
  slots in flight are lost to the process (`webrtc_manager.dart:473-475`,
  `633-639`).  `drain_events` is only used by tests, so an event pushed while the
  page subscribes stays in the buffer (`webrtc.rs:1285`).

**Remote input.**

* The widget awaits none of its sends (`remote_input_capture.dart:70`, `154`, `174`,
  `197`, `207`), so a release can overtake its press and the key stays down on the
  host, which the comment at `:65-67` rules out.
* `onPointerDown` overwrites `_heldButtons` (`:194`) and there is no
  `onPointerCancel`: of two pointers down at once, or after a press that a route or a
  dialog has cancelled, only the later button is ever released, the first stays down
  on the host even when input is switched off, against the same comment.
* The host releases nothing: when consent is withdrawn, the share stopped or the
  session lost while a key is down, it stays down.  Two symbols that are on no key
  share a keycode, and one's release is the other's.

## 6. Proofs

For all values of the constants that meet the assumptions named in the modules
(lifetimes and timeouts positive, the absent value none of the real ones, ...), and
for behaviours of any length:

| module | theorems | strengthening |
|---|---|---|
| `RendezvousProofs` | `Isolation`: `Spec => []SessionIsolation`; `TokensRedeemed`: `Spec => []RedeemedTokenIsGone`; `HeldAsAnswered`: `Spec => []HeldUntilExpiry`; `LinkedBothSides`: `Spec => []JoinLinksBothSides`; `ListsGrow`: `Spec => ListsAppendOnly`; `TypeCorrect`; `Inductive`; `MailboxesMade`; `SilentUntilMarked` | `IInv`, `TokenInv`, `HoldInv`, `MakerInv`, `LinkInv`, `SilentInv` |
| `RendezvousProofs`, of `MailboxPush` | `SignalDeliveredOnce`: `PushSpec => []DeliveredOnce`; `SyncRecovers`: `PushSpec => []RecoveredBySync`; `OpenSocketComplete`: `PushSpec => []OpenSocketMissesNothing`; `PushTypes` | `PushInv` |
| `RendezvousProofs`, of `Handshake` | `IncomingIsAnnounced`: `PagesSpec => []AnnouncedIsCurrent`; `MailboxesCloseWhenUp`: `PagesSpec => ClosedWhenUp`; `PagesTypesHold` | `PagesInv` |
| `SessionProofs` | `Patience`: `Spec => PatientTeardown`; `LiveStays`: `Spec => []LiveSessionStays` (`PongTimeout # 1`); `TypeCorrect`; `SilenceCounted` | `TimerInv`, `StayInv` |
| `FileTransferProofs` | for every set of faults: `CompletedIsWhole`: `Spec => CompletedMeansWhole`; `OfferHeld`: `Spec => []OfferHeldByBoth`; `NeverBothSend`; `TypeCorrect`. Without `"io"`: `IntactDelivery`: `Spec => []DeliveredIntact`; `StatusTellsSession`: `Spec => []StatusFollowsSession`; `ContractImplemented`: `Spec => ImplementsContract`. Without reject, cancel and timeout: `OnePrevails`: `Spec => []OneOfferPrevails` | `OfferInv`, `WorkerStarted`, `OneGranted`, `FirstStands`, `Accepting`, `FileInv`, `Ends`, `Answers` |
| `TransferQueueProofs` | `OneWorkerAlways`: `Spec => []OneWorker`; `FlagsCorrect`; `QueueTypes` | `QueueInv`, `ReportInv`, `ActorInv` |
| `CaptureProofs` | `StopAlwaysReaches`: `Spec => []StopReaches`; `MuteAlwaysHonoured`: `Spec => []MuteHonoured`; `TypeCorrect`; `StopInductive` | `StopInv`, `MuteInv` |
| `VideoStreamProofs` | `NoFlapping`: `Spec => UpgradeOnlyWhenClean`; `SizesStartWithKeys`: `Spec => []KeyStartsEverySize`; `TypeCorrect`, with the capacity of every queue; `LadderCorrect` | `LadderInv`, `KeyInv` |
| `HandoverProofs` | `SlotOwnership`: `Spec => []OneOwner`; `ReadIsSafe`: `Spec => []ReadSurvivesOnePublish`; `EventsAreInOrder`: `Spec => []EventsInOrder`; `RingCorrect`; `HandoverTypes` | `RingInv`, `ReadInv`, `EventInv`, `FlagType` |
| `RemoteInputProofs` | `WithdrawalIsKept`: `Spec => []WithdrawalHolds`; `NothingStaysDown`: `Spec => []NothingStuck`; `TypeCorrect`; `ConsentKept`; `LastWordCounts` | `ConsentInv`, `KeptInv` |

* **Isolation.**  `SessionIsolation` speaks of stored and returned messages only and
  is not inductive: a push goes to a mailbox the request read earlier.  `IInv` adds
  what has to be true at each command.  `RequestOK(r)`: the locals of a request
  belong together; before a push, `mailbox[r]` and `partner[r]` are `Opposite`,
  before a link the fresh mailbox belongs to the initiator's session.  `LinksOK`: a
  peer link in the store, however old, joins opposite mailboxes, and a token maps to
  an initiator's mailbox.  `StoredOK` and `ReceivedOK` are the two halves of the
  property.  `Opposite` is stable because a mailbox gets its session once
  (`SessionEffect`, `OppositeStable`).  The effect of a step on each part of the
  store is one lemma (`RendezvousEffect`, `MetaEffect`, `ListEffect`,
  `ReceivedEffect`), so that each conjunct is preserved by an argument over effects;
  `LocalsStep` alone has a case for every action, and expiry (`TickIInv`) only
  removes.
* **RedeemedTokenIsGone.**  A token is stored by one init only (`OneMaker`), and
  whoever joins with it was handed it by that init's answer (`MakerDone`), after
  which the init stores nothing more: `TokenInv`.
* **HeldUntilExpiry.**  Every write of a mailbox gives it a whole lifetime from now,
  and no expiry that was answered or is stored is later than that (`Bounded`).  So a
  mailbox goes before its expiry only by a delete, and the close that deletes it goes
  on naming it (`Named`, `HeldOn`).
* **JoinLinksBothSides.**  A join writes the initiator's record from a copy it read
  some commands before, so what matters is that nobody else writes that record in
  between.  `MakerInv` says where mailboxes come from: one init or join made each,
  the partner of a join is the mailbox of an answered init, and a token maps to one.
  With that, `LinkInv`: each of the two mailboxes, for as long as it exists, has the
  peer and the expiry that the join gave it (`Linked`), the initiator's once
  `join_link` is done and the responder's once `join_save_meta` is.
* **ListsAppendOnly.**  Pushes, expiries and closes change a list, which the
  property allows for, and the deletes with which init and join clear the lists of
  their new mailboxes.  `SilentInv` says that these find nothing: a mailbox has no
  message, and none on its way, until its init has answered and a join has pushed
  its marker, or the join that makes it has linked it (`ClearsNothing`).
* **DeliveredOnce, RecoveredBySync, OpenSocketMissesNothing.**  Each is a conjunct of
  `PushInv` or follows from it.  `PushedIsStored`: what a request has pushed, what the
  receiver or the wire carries and what a fetch has read is in the list.
  `ConnectionOK`: a socket that is not open carries nothing, and on an open one that
  has not lagged what was pushed is still on its way or has been emitted.  What
  `EmitIfNew` makes of a list of any length is needed for that: it emits the new
  messages of the list, each once (`EmitIfNewEffect`).  The lemma goes by induction
  over the length, on the set of lengths for which it holds (`Induct`), from the
  library's fact that strict inclusion of finite sets is well-founded (`Least`).
* **AnnouncedIsCurrent.**  `DialogOK` is the property without its exception for a link
  that is being made: a new link takes the flag back, and an event that is announced
  puts a dialog with the link of now on top.
* **ClosedWhenUp.**  The mailboxes of a link are closed when the link is replaced,
  which no page is on any more (`LinksInOrder`), or by the page whose connection is
  up; what is to show is that the other's is up too.  `UpTogether` says so of two
  connections of one accept and one link.  What could break it is a responder that
  joins, or takes the offer, when the initiator's connection is up already: a link is
  joined once (`joined`), and the offer of an accept is posted once, to one link, and
  handled once (`OffersOnce`, `OfferOfLink`).  All steps but six leave links, offers
  and connections alone or end them: one lemma serves those (`OffersFrame`, `Quiet`).
* **Patience.**  `PatientTeardown` is about the step that ends a session; what it
  needs is that a restart timer that has run for r beats was set when the pong
  timeout was over and nothing has been heard since (`SilentSince`).  Pong, stop and
  start reset both counters, a beat advances both.
* **LiveSessionStays.**  A peer that has heard no pong since a beat has a ping or its
  pong on the wire (`PingOut`), and while the path works a beat comes after what is
  on the wire has been answered: no peer waits for two beats.  The theorem leaves out
  a `PongTimeout` of a single beat, in which a first ping may count as late; the
  code's is three beats (15 s of 5 s) and the run's two.
* **What the offers hang together by.**  `OfferInv` is what the rest of the proofs
  about `FileTransfer` build on: the metadata of a transfer is on its way before
  anything else that names it and once only (`MetadataFirst`); messages travel in the
  direction their type says (`Traffic`); a session is for an own offer or for one of
  the other peer (`Roles`); the status goes with it (`Statuses`); a destination holds
  what was offered, or what a failed copy left (`Saved`).  Some thirty actions are
  first sorted into the few things they do to sessions, offers and destinations
  (`Quiet`, `Drop`, `Consume`, `Count`, `Save`, `Start`, `Take`, `Refuse`:
  `OfferStepCases`), and the invariant is kept case by case.
* **DeliveredIntact, StatusFollowsSession and the contract** are stated for instances
  whose `Faults` have no `"io"`.  With it they are false, and the program is what
  makes them so: a copy that fails leaves a part of the file at its final name and the
  status at Receiving (section 5).  `CompletedMeansWhole` holds all the same.
* **The refinement.**  `PhaseOf` is a table over the receiver's session, what is under
  way and what has been saved (`PhaseTable`).  Every case of `OfferStepCases` is
  mapped by a lemma of its own: an offer is `Offer` or `FailToOffer`, the user's first
  accept is `Accept`, a refusal, a drop and a lost connection are `GiveUp` of the
  transfers they end, a save is `Deliver`, and the rest are stutters.
* **OneOfferPrevails.**  Of the offers made, the oldest (`First`) stands: its sender
  has it, has made no other, and nothing on its way could end it (`FirstStands`); by
  `compare_offer_priority` it wins every collision.  `Calm` is the premise of
  the property's comment, that nobody rejects, cancels or waits too long.  The second
  conjunct needs no premise: a peer is granted the wire when its worker has started or
  an accept is on its way to it, and two never are (`OneGranted`, `NeverBothSend`).
* **OfferHeldByBoth.**  `Answers` says that an unaccepted offer is held by its
  receiver, or its metadata is on its way, or a word of its end is (`Ended`), and that
  a prompt stands for an offer still held or about to be taken back.  `Ends` says that
  such a word is about a transfer its author no longer holds.  The exception of the
  property, chunks of a transfer that was given up, needs an account of the file
  channel: what it carries was sent by a pipeline to the peer it was offered to, and
  the end of a transfer is the last of it (`FileInv`, `EofLast`), and a transfer lost
  is lost for good (`LostStays`).
* **OneWorker.**  `QueueInv` says what the flags stand for: `_isScheduled` that there
  is exactly one microtask, `_isProcessing` that there is a file at work and no
  other, and that no file waits without one of the two.  The types rest on two more
  facts (`ReportInv`): a file that is heard of is at work, and a sync that was
  answered has a last state to show, since the actor gives its current one when none
  is pending.
* **StopReaches.**  A start that has passed the check is the only one and nothing has
  come into the registry since (`OneStart`), which is where the page's single await
  is needed; a cancel flag is set by who asks for the end (`Flagged`); a running
  capture is fed until its source ends (`Encoding`), so no writer ends, and removes
  the handle, before.
* **MuteHonoured.**  What a queue of controls will do is its last mute or unmute
  (`Settles`): the microphone is where it says, or is already where the flag is and
  nothing queued takes it away.  The flag and the message go together, except for a
  microphone that fails (`failing`, then `broken`): `MuteInv`.
* **UpgradeOnlyWhenClean.**  `LadderInv` keeps the ladder on its tiers and its count
  of clean reports below the history's; `OneStep` is the lemma about `step_tier`.
* **KeyStartsEverySize.**  Frames in the network and those not yet sent are one
  stream, which loses at its head and gains at its end; within a period the encoder
  has the size of the last frame it gave out (`SamePeriod`), so that a frame of another
  size starts a period and is a key frame.
* **OneOwner.**  `RingInv` adds that a port carries no slot twice and that every mark
  in the ring has its holder (`Exclusive`, `Marked`).  The lemmas on `Append` and
  `Tail` say what a port loses and gains.
* **ReadSurvivesOnePublish.**  The slot that is read is the front one until the first
  flip, and only the other one is written before it (`ReadInv`).
* **EventsInOrder.**  What was received comes before what a subscription has taken,
  what comes to the buffer after a subscription stays there, and every pushed event is
  in one of these places (`EventInv`).
* **NothingStuck.**  The last word on a code is looked for among the calls, then on the
  channel, then with the host (`Kept`): it is a press only if the viewer holds the
  code, and what is down without such a word has a release that was not injected.
  A new call is the last word on its code whatever came before it (`CallKept`), which
  is why `displaced` and `overtaken` end with it.  Sending a call leaves it the last
  word as long as none of its code is overtaken (`RemoveWord`), and `_releaseEverythingHeld` puts a release behind every
  code that is held (`ReleaseWord`, which needs that an order of a finite set names
  all of it).
* **WithdrawalHolds.**  After a withdrawal the messages injected and the one that has
  passed the check are together at most one (`ConsentInv`).

Every safety property and every action property that a run checks is proved.  Only
model-checked is liveness: the twelve `~>` and fairness properties of section 3, which
the prover has no means for.

## 7. Plan and what is not modelled

What is left, in this order.

1. A second accept and a second join in the instance of `handshake_pages`, once it is
   small enough for both; the proofs cover any number.
2. A specification of what pairing promises, above `Rendezvous`, `MailboxPush` and
   `Handshake`, which the three would be shown to implement together.

Not modelled, and why:

* Cryptography of the pairing link and the ciphertexts: a library; ciphertexts are
  opaque, distinct values here.
* Playback of the remote sound, the samples of the audio thread, colour conversion
  and scaling, the settings of GStreamer elements: data without an order of steps
  that could go wrong.
* Renegotiation for media tracks: each side adds its tracks before the offer, so no
  offer follows one but the ICE restart, which is in `Session`.
* HTTP timeouts of init, join and close; configuration from the environment (its
  values are constants here); settings and onboarding; the connection registry,
  which is a map; widgets, generated bridge code and platform runners; the
  signalling backend that nothing live uses.
* Actors started again by a command that comes after `dispose_transfer` (section 5).
