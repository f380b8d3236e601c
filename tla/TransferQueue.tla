----------------------------- MODULE TransferQueue --------------------------
(***************************************************************************)
(* The queue of files one page sends: the serial task queue and its flags  *)
(* (serial_task_queue.dart), the service that runs one file after another  *)
(* and polls the actor (file_transfer_service.dart), and the actor as the  *)
(* service sees it: one session, and states that are queued until they are *)
(* drained (file_transfer.rs; the protocol itself is in FileTransfer).     *)
(*                                                                         *)
(* The service is single-threaded; its awaits, the polling timer and the   *)
(* requests to the actor interleave.                                       *)
(***************************************************************************)
EXTENDS Integers, SequencesExt, FiniteSets

CONSTANTS
  MaxFiles,      (* bound: files the user picks, numbered as picked         *)
  Incoming,      (* a transfer the peer has offered                         *)
  NONE,
  MaxIncoming,   (* bound: offers of the peer                               *)
  MaxPressed     (* bound: presses of Cancel, Accept and Reject             *)

File == 1 .. MaxFiles

ASSUME QueueAssumption ==
  /\ MaxFiles \in Nat /\ Incoming \notin File /\ NONE \notin File \cup {Incoming}
  /\ MaxIncoming \in Nat /\ MaxPressed \in Nat

VARIABLES
  items,         (* _items of the queue                                     *)
  processing,    (* _isProcessing                                           *)
  scheduled,     (* _isScheduled                                            *)
  microtasks,    (* _process calls that are scheduled                       *)
  disposed,      (* the service and its queue are disposed of               *)
  stage,         (* where each file is                                      *)
  heard,         (* files at work whose completer is completed              *)
  ui,            (* the status of the page: _currentState                   *)
  sync,          (* _syncFromRust: idle, asked, or given                    *)
  states,        (* the states it was given                                 *)
  session,       (* actor: whose session there is                           *)
  started,       (* actor: the session was accepted                         *)
  current,       (* actor: current_state                                    *)
  pending,       (* actor: pending_states                                   *)
  requests,      (* of the user, on their way to the actor                  *)
  quiet,         (* history: what the file at work waits for ended untold   *)
  incoming, pressed

queue   == <<items, processing, scheduled, microtasks>>
actor   == <<session, started, current, pending>>
history == <<quiet, incoming, pressed>>
poll    == <<sync, states>>
vars    == <<queue, disposed, stage, heard, ui, poll, actor, requests, history>>

\* final stands for Completed and Error, busy for Offering, Transferring and
\* Receiving.
Status == {"idle", "offered", "busy", "final"}

\* A file is picked and waits in the queue, or is dropped from it; at work its
\* channel is awaited, its offer is with the actor, was taken or refused, its
\* states are polled, and its end is awaited.
AtWorkStage == {"channel", "offer", "taken", "refused", "polling", "waiting"}
Stage       == {"new", "queued", "done"} \cup AtWorkStage

AtWork == {f \in File : stage[f] \in AtWorkStage}

\* An offer was taken, and no end was heard of or is on its way.
AwaitsEnd ==
  /\ \E f \in AtWork \ heard : stage[f] \in {"taken", "polling", "waiting"}
  /\ ~Contains(pending, "final") /\ ~Contains(states, "final")

Init ==
  /\ items = <<>> /\ processing = FALSE /\ scheduled = FALSE /\ microtasks = 0
  /\ disposed = FALSE
  /\ stage = [f \in File |-> "new"] /\ heard = {}
  /\ ui = "idle" /\ sync = "asked" /\ states = <<>>   \* the constructor polls at once
  /\ session = NONE /\ started = FALSE /\ current = "idle" /\ pending = <<>>
  /\ requests = {}
  /\ quiet = FALSE /\ incoming = 0 /\ pressed = 0
-----------------------------------------------------------------------------
(* The serial queue.                                                       *)

\* _scheduleProcessing, with the flags as they are at the call.
ScheduleProcessing(isProcessing, isDisposed) ==
  IF isDisposed \/ isProcessing \/ scheduled
  THEN UNCHANGED <<scheduled, microtasks>>
  ELSE scheduled' = TRUE /\ microtasks' = microtasks + 1

\* enqueue.
Enqueue(f) ==
  /\ ~disposed
  /\ stage[f] = "new" /\ \A g \in 1 .. f - 1 : stage[g] # "new"
  /\ items' = Append(items, f)
  /\ stage' = [stage EXCEPT ![f] = "queued"]
  /\ ScheduleProcessing(processing, FALSE)
  /\ UNCHANGED <<processing, disposed, heard, ui, poll, actor, requests, history>>

\* _runQueuedTransfer up to its first await: it listens before it offers.
Turn(f) ==
  /\ items' = Tail(items)
  /\ stage' = [stage EXCEPT ![f] = "channel"]

StaysScheduled == microtasks' = microtasks - 1 /\ UNCHANGED scheduled  \* mutant: never reset
Unscheduled    == microtasks' = microtasks - 1 /\ scheduled' = FALSE

\* The microtask: _process up to its first await.
Process ==
  /\ microtasks > 0
  /\ Unscheduled
  /\ \/ /\ ~disposed /\ ~processing /\ items # <<>>
        /\ processing' = TRUE
        /\ Turn(Head(items))
     \/ /\ disposed \/ processing \/ items = <<>>
        /\ UNCHANGED <<items, processing, stage>>
  /\ UNCHANGED <<disposed, heard, ui, poll, actor, requests, history>>

\* The processor of f returns: the next item, or the finally of _process.
Return(f) ==
  /\ stage[f] = "waiting" /\ f \in heard
  /\ \/ /\ items # <<>> /\ ~disposed
        /\ items' = Tail(items)
        /\ stage' = [stage EXCEPT ![f] = "done", ![Head(items)] = "channel"]
        /\ UNCHANGED <<processing, scheduled, microtasks>>
     \/ /\ items = <<>> \/ disposed
        /\ processing' = FALSE
        /\ stage' = [stage EXCEPT ![f] = "done"]
        /\ ScheduleProcessing(FALSE, disposed)
        /\ UNCHANGED items
  /\ heard' = heard \ {f} /\ quiet' = FALSE
  /\ UNCHANGED <<disposed, ui, poll, actor, requests, incoming, pressed>>

\* The files of the queue are dropped: clear, dispose.
Clear ==
  /\ items' = <<>>
  /\ stage' = [f \in File |-> IF stage[f] = "queued" THEN "done" ELSE stage[f]]
-----------------------------------------------------------------------------
(* The service.                                                            *)

\* _updateState: every file at work listens, and waits for a final state.
UpdateState(s) ==
  IF disposed THEN UNCHANGED <<ui, heard>>
  ELSE /\ ui' = s
       /\ heard' = IF s = "final" THEN heard \cup AtWork ELSE heard

\* sendOffer: the file channel is there, the offer goes to the actor.
ChannelReady(f) ==
  /\ stage[f] = "channel"
  /\ stage' = [stage EXCEPT ![f] = "offer"]
  /\ UNCHANGED <<queue, disposed, heard, ui, poll, actor, requests, history>>

ToldNobody == UNCHANGED <<ui, heard>>          \* mutant: the error is logged only
Told       == UpdateState("final")

\* sendOffer: no connection, no channel, or an offer the actor refused.
OfferFails(f) ==
  /\ stage[f] \in {"channel", "refused"}
  /\ stage' = [stage EXCEPT ![f] = "waiting"]
  /\ Told
  /\ UNCHANGED <<queue, disposed, poll, actor, requests, history>>

\* _syncFromRust: not beside another one.
MaySync == ~disposed /\ sync = "idle"

\* sendOffer: the offer was taken; the states are polled, or are being polled.
OfferAnswered(f) ==
  /\ stage[f] = "taken"
  /\ \/ MaySync /\ sync' = "asked" /\ stage' = [stage EXCEPT ![f] = "polling"]
     \/ ~MaySync /\ UNCHANGED sync /\ stage' = [stage EXCEPT ![f] = "waiting"]
  /\ UNCHANGED <<queue, disposed, heard, ui, states, actor, requests, history>>

\* The timer of the service.
Poll ==
  /\ MaySync
  /\ sync' = "asked"
  /\ UNCHANGED <<queue, disposed, stage, heard, ui, states, actor, requests, history>>

\* The last of the drained states is what the page shows; all of them are heard.
SyncEnds ==
  /\ sync = "given"
  /\ sync' = "idle" /\ states' = <<>>
  /\ IF disposed THEN UNCHANGED <<ui, heard>>
     ELSE /\ ui' = Last(states)
          /\ heard' = IF Contains(states, "final") THEN heard \cup AtWork ELSE heard
  /\ stage' = [f \in File |-> IF stage[f] = "polling" THEN "waiting" ELSE stage[f]]
  /\ UNCHANGED <<queue, disposed, actor, requests, history>>

\* The buttons of the page ask the actor; cancelTransfer clears the queue first.
Press(what, when) ==
  /\ ~disposed /\ pressed < MaxPressed
  /\ ui = when
  /\ what \notin requests
  /\ requests' = requests \cup {what}
  /\ pressed' = pressed + 1
  /\ UNCHANGED <<processing, scheduled, microtasks, disposed, heard, ui, poll, actor, quiet, incoming>>

Cancel == Press("cancel", "busy") /\ Clear
Accept == Press("accept", "offered") /\ UNCHANGED <<items, stage>>
Reject == Press("reject", "offered") /\ UNCHANGED <<items, stage>>

\* dispose: the actor is shut down with the service.
Dispose ==
  /\ ~disposed
  /\ disposed' = TRUE
  /\ Clear
  /\ session' = NONE /\ started' = FALSE
  /\ requests' = {}
  /\ UNCHANGED <<processing, scheduled, microtasks, heard, ui, poll, current, pending, history>>
-----------------------------------------------------------------------------
(* The actor.                                                              *)

\* push_state: states of one kind in a row are not told apart.
Pushed(before, s) == IF before # <<>> /\ Last(before) = s THEN before ELSE Append(before, s)

Push(s) == current' = s /\ pending' = Pushed(pending, s)

\* drain_states: the current state is given when none is pending.
Drain ==
  /\ sync = "asked"
  /\ sync' = "given"
  /\ states' = IF pending = <<>> THEN <<current>> ELSE pending
  /\ pending' = <<>>
  /\ UNCHANGED <<queue, disposed, stage, heard, ui, session, started, current, requests, history>>

\* handle_send_offer: one session at a time.
TakeOffer(f) ==
  /\ ~disposed
  /\ stage[f] = "offer"
  /\ session = NONE
  /\ session' = f /\ started' = FALSE
  /\ Push("busy")
  /\ stage' = [stage EXCEPT ![f] = "taken"]
  /\ UNCHANGED <<queue, disposed, heard, ui, poll, requests, history>>

\* handle_send_offer: a transfer is in progress, the file cannot be read or the
\* offer cannot be sent; the last pushes an error too.
RefuseOffer(f) ==
  /\ stage[f] = "offer"
  /\ \/ UNCHANGED actor
     \/ session = NONE /\ ~disposed /\ Push("final") /\ UNCHANGED <<session, started>>
  /\ stage' = [stage EXCEPT ![f] = "refused"]
  /\ UNCHANGED <<queue, disposed, heard, ui, poll, requests, history>>

\* handle_incoming_message: an offer of the peer; one that crosses an own
\* unanswered offer may win and takes its place without a state for it.
ReceiveOffer ==
  /\ ~disposed /\ incoming < MaxIncoming
  /\ session = NONE \/ (session \in File /\ ~started)
  /\ session' = Incoming /\ started' = FALSE
  /\ Push("offered")
  /\ incoming' = incoming + 1
  /\ UNCHANGED <<queue, disposed, stage, heard, ui, poll, requests, quiet, pressed>>

\* The peer accepts the own offer.
ReceiveAccept ==
  /\ session \in File /\ ~started
  /\ started' = TRUE
  /\ Push("busy")
  /\ UNCHANGED <<queue, disposed, stage, heard, ui, poll, session, requests, history>>

\* The transfer completes, fails, times out, or is rejected or cancelled by the
\* peer: each of these pushes Completed or Error.
TransferEnds ==
  /\ session # NONE
  /\ session' = NONE /\ started' = FALSE
  /\ Push("final")
  /\ UNCHANGED <<queue, disposed, stage, heard, ui, poll, requests, history>>

\* handle_incoming_eof takes the session, and the file it received cannot be
\* flushed, moved or copied: the error is logged and no state is pushed.
FinalizeFails ==
  /\ session = Incoming /\ started
  /\ session' = NONE /\ started' = FALSE
  /\ quiet' = (quiet \/ AwaitsEnd)
  /\ UNCHANGED <<queue, disposed, stage, heard, ui, poll, current, pending, requests, incoming, pressed>>

\* handle_cancel_transfer.
HandleCancel ==
  /\ "cancel" \in requests
  /\ requests' = requests \ {"cancel"}
  /\ \/ session # NONE /\ session' = NONE /\ started' = FALSE /\ Push("final")
     \/ session = NONE /\ UNCHANGED actor
  /\ UNCHANGED <<queue, disposed, stage, heard, ui, poll, history>>

\* The session is accepted and its accept cannot be sent: both states are pushed.
AcceptUnsent ==
  /\ session' = NONE /\ started' = FALSE
  /\ current' = "final" /\ pending' = Pushed(Pushed(pending, "busy"), "final")

\* handle_accept_offer: without the folder, the channel or the offer of a peer
\* the session is left as it is.
HandleAccept ==
  /\ "accept" \in requests
  /\ requests' = requests \ {"accept"}
  /\ \/ session = Incoming /\ started' = TRUE /\ Push("busy") /\ UNCHANGED session
     \/ session = Incoming /\ AcceptUnsent
     \/ UNCHANGED actor
  /\ UNCHANGED <<queue, disposed, stage, heard, ui, poll, history>>

\* handle_reject_offer asks neither whose session it is nor whether there is one,
\* and pushes Idle.
HandleReject ==
  /\ "reject" \in requests
  /\ requests' = requests \ {"reject"}
  /\ session' = NONE /\ started' = FALSE
  /\ Push("idle")
  /\ quiet' = (quiet \/ (session # NONE /\ AwaitsEnd))
  /\ UNCHANGED <<queue, disposed, stage, heard, ui, poll, incoming, pressed>>
-----------------------------------------------------------------------------
FileStep(f) ==
  \/ Enqueue(f) \/ Return(f) \/ ChannelReady(f) \/ OfferFails(f) \/ OfferAnswered(f)
  \/ TakeOffer(f) \/ RefuseOffer(f)

Next ==
  \/ \E f \in File : FileStep(f)
  \/ Process \/ Poll \/ SyncEnds \/ Drain
  \/ Cancel \/ Accept \/ Reject \/ Dispose
  \/ ReceiveOffer \/ ReceiveAccept \/ TransferEnds \/ FinalizeFails
  \/ HandleCancel \/ HandleAccept \/ HandleReject

Spec == Init /\ [][Next]_vars

\* Microtasks and awaits come to an end, the timer fires, the actor answers, and
\* sessions end (SessionsEnd of FileTransfer).
Fairness ==
  /\ WF_vars(Process) /\ WF_vars(Poll) /\ WF_vars(SyncEnds) /\ WF_vars(Drain)
  /\ WF_vars(TransferEnds)
  /\ WF_vars(HandleCancel) /\ WF_vars(HandleAccept) /\ WF_vars(HandleReject)
  /\ \A f \in File :
       /\ WF_vars(Return(f)) /\ WF_vars(OfferAnswered(f))
       /\ WF_vars(ChannelReady(f) \/ OfferFails(f))
       /\ WF_vars(TakeOffer(f) \/ RefuseOffer(f))

FairSpec == Spec /\ Fairness
-----------------------------------------------------------------------------
(* Correctness.                                                            *)

TypeOK ==
  /\ items \in Seq(File) /\ {processing, scheduled, disposed, quiet, started} \subseteq BOOLEAN
  /\ microtasks \in 0 .. 1
  /\ stage \in [File -> Stage] /\ heard \subseteq AtWork
  /\ ui \in Status
  /\ sync \in {"idle", "asked", "given"} /\ states \in Seq(Status)
  /\ session \in File \cup {Incoming, NONE} /\ current \in Status /\ pending \in Seq(Status)
  /\ requests \subseteq {"cancel", "accept", "reject"}
  /\ incoming \in 0 .. MaxIncoming /\ pressed \in 0 .. MaxPressed

\* The flags keep one file at work and leave none behind: a file that waits has
\* one at work before it, or a microtask that will take it.
OneWorker ==
  /\ Cardinality(AtWork) <= 1
  /\ items # <<>> => AtWork # {} \/ microtasks > 0

\* No file holds up the queue for ever: its turn ends however its transfer does.
\* There are two exceptions, both of a session that ended without Completed or
\* Error while the file at work had no other end to hear of: this user's Reject,
\* which is told as Idle, and a received file, whose offer had taken the place of
\* the own one, that could not be finalised, which is not told at all.
TurnEnds ==
  \A f \in File : f \in AtWork ~> f \notin AtWork \/ disposed \/ quiet
=============================================================================
