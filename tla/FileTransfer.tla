----------------------------- MODULE FileTransfer -----------------------------
(***************************************************************************)
(* The file transfer protocol of file_transfer.rs between two connected    *)
(* peers: an actor on each side that handles one command at a time, the    *)
(* control and the file data channel (each ordered and reliable, unordered *)
(* with respect to the other), and the sender pipeline of every accepted   *)
(* transfer: a reader task, a queue of one chunk and a writer task, which  *)
(* run beside the actor and outlive the session that started them.         *)
(***************************************************************************)
EXTENDS Integers, SequencesExt

CONSTANTS
  Peer,        (* the two connected peers                                   *)
  Transfer,    (* transfer ids, in the order compare_offer_priority sees    *)
  Size,        (* transfer -> its chunks                                    *)
  NONE,        (* no session, no pipeline, no peer                          *)
  MaxAccepts,  (* bound: accept commands a user issues for one offer        *)
  Faults       (* what may go wrong in this instance                        *)

Fault == {"cancel", "reject", "timeout", "edit", "io", "disconnect"}

\* Chunk i of transfer t; chunk 0 is one written to the file after the offer.
Chunk == [id: Transfer, part: Nat]

Role == {"sender", "receiver"}

Session == [id: Transfer, role: Role, worker_started: BOOLEAN, accepts: Nat,
            bytes_received: Nat, written: Seq(Chunk)]

Status == {"Idle", "Offering", "Offered", "Transferring", "Receiving", "Completed", "Error"}

Control  == [type: {"metadata", "accept", "reject", "cancel"}, id: Transfer]
FileItem == [type: {"chunk", "eof"}, chunk: Chunk]

Task     == {"running", "finished", "failed"}
Pipeline == [reader: Task, offset: Nat, queue: Seq(Chunk), hand: Seq(Chunk), writer: Task,
             reported: BOOLEAN]

ASSUME TransferAssumption ==
  /\ Peer # {} /\ \A p \in Peer : \E q \in Peer : Peer = {p, q} /\ p # q
  /\ Transfer \subseteq Nat
  /\ Size \in [Transfer -> Nat]
  /\ NONE \notin Peer /\ NONE \notin Session /\ NONE \notin Pipeline /\ NONE \notin Seq(Chunk)
  /\ MaxAccepts \in Nat
  /\ Faults \subseteq Fault

VARIABLES
  session,    (* peer -> current_session                                    *)
  status,     (* peer -> current_state.status                               *)
  control,    (* peer -> messages of the control channel on their way to it *)
  file,       (* peer -> messages of the file channel on their way to it    *)
  pipeline,   (* transfer -> its sender pipeline                            *)
  cancelled,  (* transfer -> its cancel_flag                                *)
  source,     (* transfer -> what the offered file holds now                *)
  saved,      (* peer -> transfer -> what its destination file holds        *)
  sender,     (* history: transfer -> the peer that offered it              *)
  up          (* the data channels are open                                 *)

vars == <<session, status, control, file, pipeline, cancelled, source, saved, sender, up>>

Other(p) == CHOOSE q \in Peer : q # p

\* What the SHA-256 of the offer stands for.
Original(t) == [i \in 1..Size[t] |-> [id |-> t, part |-> i]]

Init ==
  /\ session = [p \in Peer |-> NONE]
  /\ status = [p \in Peer |-> "Idle"]
  /\ control = [p \in Peer |-> <<>>]
  /\ file = [p \in Peer |-> <<>>]
  /\ pipeline = [t \in Transfer |-> NONE]
  /\ cancelled = [t \in Transfer |-> FALSE]
  /\ source = [t \in Transfer |-> Original(t)]
  /\ saved = [p \in Peer |-> [t \in Transfer |-> NONE]]
  /\ sender = [t \in Transfer |-> NONE]
  /\ up = TRUE
-----------------------------------------------------------------------------
Has(p, role)        == session[p] # NONE /\ session[p].role = role
HasId(p, t)         == session[p] # NONE /\ session[p].id = t
HasRole(p, role, t) == Has(p, role) /\ session[p].id = t

\* A session as handle_send_offer, or an incoming offer, creates it.
NewSession(t, role) ==
  [id |-> t, role |-> role, worker_started |-> FALSE, accepts |-> 0,
   bytes_received |-> 0, written |-> <<>>]

SetStatus(p, s) == status' = [status EXCEPT ![p] = s]

Msg(type, t) == [type |-> type, id |-> t]

\* send_control_message to the other peer; it fails once the channel is closed.
Send(p, msg) ==
  control' = IF up THEN [control EXCEPT ![Other(p)] = Append(@, msg)] ELSE control

\* mutant: the answer is never sent.
HandleOnly(p, msgs) == control' = [control EXCEPT ![p] = Tail(@)]

\* p handles the first message on its control channel and sends the others.
HandleAndSend(p, msgs) ==
  control' = [control EXCEPT ![p] = Tail(@), ![Other(p)] = @ \o msgs]

\* cleanup_session_resources raises the cancel flag of a sender session.
RaiseFlag(p) ==
  cancelled' = IF Has(p, "sender") THEN [cancelled EXCEPT ![session[p].id] = TRUE] ELSE cancelled

\* clear_current_session
ClearSession(p) ==
  /\ session' = [session EXCEPT ![p] = NONE]
  /\ RaiseFlag(p)

\* mutant: the session goes, the status stays.
DropSession(p) == ClearSession(p) /\ UNCHANGED status

\* fail_current_session
FailSession(p) == ClearSession(p) /\ SetStatus(p, "Error")
-----------------------------------------------------------------------------
(* Commands of the user.                                                   *)

\* handle_send_offer: ids are time stamps, so a peer's ids increase.
SendOffer(p, t) ==
  /\ session[p] = NONE
  /\ sender[t] = NONE
  /\ \A u \in Transfer : sender[u] = p => u < t
  /\ sender' = [sender EXCEPT ![t] = p]
  /\ Send(p, Msg("metadata", t))
  /\ IF up
     THEN /\ session' = [session EXCEPT ![p] = NewSession(t, "sender")]
          /\ SetStatus(p, "Offering")
          /\ UNCHANGED cancelled
     ELSE /\ SetStatus(p, "Error")
          /\ cancelled' = [cancelled EXCEPT ![t] = TRUE]
          /\ UNCHANGED session
  /\ UNCHANGED <<file, pipeline, source, saved, up>>

\* handle_accept_offer: the temporary file is created, or truncated, and the
\* hasher reset, but not the count of bytes received.
AcceptOffer(p) ==
  /\ Has(p, "receiver")
  /\ session[p].accepts < MaxAccepts
  /\ Send(p, Msg("accept", session[p].id))
  /\ IF up
     THEN /\ session' = [session EXCEPT ![p].accepts = @ + 1, ![p].written = <<>>]
          /\ SetStatus(p, "Receiving")
          /\ UNCHANGED cancelled
     ELSE FailSession(p)
  /\ UNCHANGED <<file, pipeline, source, saved, sender, up>>

\* handle_reject_offer: it asks neither for a session nor for its role.
RejectOffer(p) ==
  /\ "reject" \in Faults
  /\ IF session[p] = NONE THEN UNCHANGED control ELSE Send(p, Msg("reject", session[p].id))
  /\ ClearSession(p)
  /\ SetStatus(p, "Idle")
  /\ UNCHANGED <<file, pipeline, source, saved, sender, up>>

\* handle_cancel_transfer
CancelTransfer(p) ==
  /\ "cancel" \in Faults
  /\ session[p] # NONE
  /\ Send(p, Msg("cancel", session[p].id))
  /\ FailSession(p)
  /\ UNCHANGED <<file, pipeline, source, saved, sender, up>>
-----------------------------------------------------------------------------
(* handle_tick: accept_deadline runs for an offer nobody has answered, and *)
(* inactivity_deadline from the accept, or the first chunk, on.            *)

NoAcceptDeadline(p) == FALSE                 \* mutant: an offer waits for ever
AwaitsAccept(p) == Has(p, "sender") /\ ~session[p].worker_started

AwaitsActivity(p) ==
  \/ Has(p, "sender") /\ session[p].worker_started
  \/ Has(p, "receiver") /\ (session[p].accepts > 0 \/ session[p].bytes_received > 0)

Timeout(p) ==
  /\ "timeout" \in Faults
  /\ AwaitsAccept(p) \/ AwaitsActivity(p)
  /\ Send(p, Msg("cancel", session[p].id))
  /\ FailSession(p)
  /\ UNCHANGED <<file, pipeline, source, saved, sender, up>>
-----------------------------------------------------------------------------
(* handle_incoming_message: the control channel.                           *)

Incoming(p, type) == control[p] # <<>> /\ Head(control[p]).type = type

\* compare_offer_priority: the older offer prevails.
RemoteAlwaysWins(t, u) == FALSE              \* mutant: no tie-break
Outranks(t, u) == t < u

\* An offer arrives: taken when idle, settled by priority when the own offer is
\* still unanswered, refused as busy otherwise.
ReceiveMetadata(p) ==
  LET t         == Head(control[p]).id
      Colliding == Has(p, "sender") /\ status[p] = "Offering"
      Take      == /\ session' = [session EXCEPT ![p] = NewSession(t, "receiver")]
                   /\ SetStatus(p, "Offered")
                   /\ RaiseFlag(p)
      Refuse    == /\ HandleAndSend(p, <<Msg("reject", t)>>)
                   /\ UNCHANGED <<session, status, cancelled>>
  IN
  /\ Incoming(p, "metadata")
  /\ \/ session[p] = NONE /\ Take /\ HandleAndSend(p, <<>>)
     \/ Colliding /\ Outranks(session[p].id, t) /\ Refuse
     \/ /\ Colliding
        /\ ~Outranks(session[p].id, t)
        /\ Take
        /\ HandleAndSend(p, <<Msg("cancel", session[p].id)>>)
     \/ session[p] # NONE /\ ~Colliding /\ Refuse
  /\ UNCHANGED <<file, pipeline, source, saved, sender, up>>

NewPipeline ==
  [reader |-> "running", offset |-> 0, queue |-> <<>>, hand |-> <<>>, writer |-> "running",
   reported |-> FALSE]

\* Only the first accept of the current offer starts a pipeline.
ReceiveAccept(p) ==
  LET t == Head(control[p]).id IN
  /\ Incoming(p, "accept")
  /\ HandleAndSend(p, <<>>)
  /\ IF HasRole(p, "sender", t) /\ ~session[p].worker_started
     THEN /\ session' = [session EXCEPT ![p].worker_started = TRUE]
          /\ SetStatus(p, "Transferring")
          /\ pipeline' = [pipeline EXCEPT ![t] = NewPipeline]
     ELSE UNCHANGED <<session, status, pipeline>>
  /\ UNCHANGED <<file, cancelled, source, saved, sender, up>>

\* A reject or a cancel fails the session it names, whatever its role.
ReceiveEnd(p) ==
  /\ Incoming(p, "reject") \/ Incoming(p, "cancel")
  /\ HandleAndSend(p, <<>>)
  /\ IF HasId(p, Head(control[p]).id)
     THEN FailSession(p)
     ELSE UNCHANGED <<session, status, cancelled>>
  /\ UNCHANGED <<file, pipeline, source, saved, sender, up>>
-----------------------------------------------------------------------------
(* handle_incoming_chunk and handle_incoming_eof: the file channel.        *)

NextItem(p, type) == file[p] # <<>> /\ Head(file[p]).type = type /\ file' = [file EXCEPT ![p] = Tail(@)]

\* A chunk carries no id: any receiver session counts it, and writes and hashes
\* it once accepted.  A progress report of 64 KiB or of the whole file sets the
\* status to Receiving; only the last chunk of a file may be too short for one.
ReceiveChunk(p) ==
  LET s     == session[p]
      c     == Head(file[p]).chunk
      count == s.bytes_received + 1
  IN
  /\ NextItem(p, "chunk")
  /\ \/ ~Has(p, "receiver") /\ UNCHANGED <<session, status, cancelled>>
     \/ Has(p, "receiver") /\ count > Size[s.id] /\ FailSession(p)
     \/ /\ Has(p, "receiver")
        /\ count <= Size[s.id]
        /\ session' = [session EXCEPT ![p].bytes_received = count,
                         ![p].written = IF s.accepts > 0 THEN Append(@, c) ELSE @]
        /\ \/ SetStatus(p, "Receiving")
           \/ count < Size[s.id] /\ c.part = Size[c.id] /\ UNCHANGED status
        /\ UNCHANGED cancelled
     \/ /\ "io" \in Faults                     \* write_all fails
        /\ Has(p, "receiver")
        /\ s.accepts > 0
        /\ UNCHANGED <<session, status, cancelled>>
  /\ UNCHANGED <<control, pipeline, source, saved, sender, up>>

\* Flushing the temporary file, or copying it to its destination, fails: the
\* session has been taken already, no status is pushed, and the destination
\* may hold a part of the file.
FinalizeFails(p) ==
  LET t == session[p].id IN
  /\ "io" \in Faults
  /\ session' = [session EXCEPT ![p] = NONE]
  /\ \/ UNCHANGED saved
     \/ session[p].written # <<>> /\ saved' = [saved EXCEPT ![p][t] = Front(session[p].written)]
  /\ UNCHANGED <<status, cancelled>>

\* The SHA-256 of what was written is that of the offer; there is none to
\* compare before the offer has been accepted.
SameLength(s) == Len(s.written) = Size[s.id] \* mutant: no hash
SameHash(s)   == s.accepts > 0 /\ s.written = Original(s.id)

\* The end of the file: its size and its hash decide.
ReceiveEof(p) ==
  LET s  == session[p]
      t  == Head(file[p]).chunk.id
      ok == s.bytes_received = Size[t] /\ SameHash(s)
  IN
  /\ NextItem(p, "eof")
  /\ \/ ~HasRole(p, "receiver", t) /\ UNCHANGED <<session, status, cancelled, saved>>
     \/ HasRole(p, "receiver", t) /\ ~ok /\ FailSession(p) /\ UNCHANGED saved
     \/ /\ HasRole(p, "receiver", t)
        /\ ok
        /\ saved' = [saved EXCEPT ![p][t] = s.written]
        /\ ClearSession(p)
        /\ SetStatus(p, "Completed")
     \/ HasRole(p, "receiver", t) /\ ok /\ FinalizeFails(p)
  /\ UNCHANGED <<control, pipeline, source, sender, up>>
-----------------------------------------------------------------------------
(* spawn_sender_pipeline.                                                  *)

Running(t, task) == pipeline[t] # NONE /\ pipeline[t][task] = "running"

Pipe(t, field, value) == [pipeline EXCEPT ![t][field] = value]

\* The reader stops at the flag, or when the writer has dropped the queue.
NeverStops(t)  == FALSE                      \* mutant: neither is noticed
ReaderStops(t) == cancelled[t] \/ pipeline[t].writer = "failed"

\* The reader: flag, read, hand over to the queue of one chunk.
ReadChunk(t) ==
  LET next == pipeline[t].offset + 1 IN
  /\ Running(t, "reader")
  /\ \/ /\ ReaderStops(t) \/ "io" \in Faults
        /\ pipeline' = Pipe(t, "reader", "failed")
     \/ /\ ~cancelled[t]
        /\ next > Len(source[t])
        /\ pipeline' = Pipe(t, "reader", "finished")
     \/ /\ ~cancelled[t]
        /\ next <= Len(source[t])
        /\ pipeline[t].queue = <<>>
        /\ pipeline' = [pipeline EXCEPT ![t].offset = next, ![t].queue = <<source[t][next]>>]
  /\ UNCHANGED <<session, status, control, file, cancelled, source, saved, sender, up>>

\* The writer takes a chunk and looks at the flag ...
TakeChunk(t) ==
  /\ Running(t, "writer")
  /\ pipeline[t].hand = <<>>
  /\ pipeline[t].queue # <<>>
  /\ pipeline' = IF cancelled[t]
                 THEN [pipeline EXCEPT ![t].queue = <<>>, ![t].writer = "failed"]
                 ELSE [pipeline EXCEPT ![t].queue = <<>>, ![t].hand = pipeline[t].queue]
  /\ UNCHANGED <<session, status, control, file, cancelled, source, saved, sender, up>>

\* ... waits for room, where it looks at the flag again, and sends the chunk.
SendChunk(t) ==
  LET p == sender[t] IN
  /\ Running(t, "writer")
  /\ pipeline[t].hand # <<>>
  /\ \/ /\ up
        /\ file' = [file EXCEPT ![Other(p)] =
                      Append(@, [type |-> "chunk", chunk |-> Head(pipeline[t].hand)])]
        /\ pipeline' = Pipe(t, "hand", <<>>)
     \/ /\ ~up \/ cancelled[t]
        /\ pipeline' = [pipeline EXCEPT ![t].hand = <<>>, ![t].writer = "failed"]
        /\ UNCHANGED file
  /\ UNCHANGED <<session, status, control, cancelled, source, saved, sender, up>>

\* The queue is closed and empty, however the reader ended: the writer sends
\* the end of the file without looking at the flag.
SendEof(t) ==
  LET p == sender[t] IN
  /\ Running(t, "writer")
  /\ pipeline[t].reader # "running"
  /\ pipeline[t].queue = <<>>
  /\ pipeline[t].hand = <<>>
  /\ IF up
     THEN /\ file' = [file EXCEPT ![Other(p)] =
                        Append(@, [type |-> "eof", chunk |-> [id |-> t, part |-> 0]])]
          /\ pipeline' = Pipe(t, "writer", "finished")
     ELSE pipeline' = Pipe(t, "writer", "failed") /\ UNCHANGED file
  /\ UNCHANGED <<session, status, control, cancelled, source, saved, sender, up>>

\* The pipeline reports as soon as the reader has failed or both have ended;
\* handle_sender_finished and handle_sender_failed end the session it was for,
\* without a word to the peer.
Report(t) ==
  LET p  == sender[t]
      pl == pipeline[t]
      ok == pl.reader = "finished" /\ pl.writer = "finished"
  IN
  /\ pl # NONE
  /\ ~pl.reported
  /\ pl.reader = "failed" \/ (pl.reader = "finished" /\ pl.writer # "running")
  /\ pipeline' = Pipe(t, "reported", TRUE)
  /\ IF HasRole(p, "sender", t)
     THEN ClearSession(p) /\ SetStatus(p, IF ok THEN "Completed" ELSE "Error")
     ELSE UNCHANGED <<session, status, cancelled>>
  /\ UNCHANGED <<control, file, source, saved, sender, up>>
-----------------------------------------------------------------------------
(* The environment.                                                        *)

\* The offered file is changed, cut short or grows while it is being sent.
Edit(t) ==
  LET extra == [id |-> t, part |-> 0] IN
  /\ "edit" \in Faults
  /\ sender[t] # NONE
  /\ source[t] = Original(t)
  /\ \E other \in {Append(source[t], extra)} \cup
                  (IF Size[t] = 0 THEN {}
                   ELSE {Front(source[t]), Append(Front(source[t]), extra)}) :
       source' = [source EXCEPT ![t] = other]
  /\ UNCHANGED <<session, status, control, file, pipeline, cancelled, saved, sender, up>>

\* The connection is lost for good, with everything in flight.
Disconnect ==
  /\ "disconnect" \in Faults
  /\ up
  /\ up' = FALSE
  /\ control' = [p \in Peer |-> <<>>]
  /\ file' = [p \in Peer |-> <<>>]
  /\ UNCHANGED <<session, status, pipeline, cancelled, source, saved, sender>>

\* dispose_transfer, when the page of a lost connection goes: Shutdown ends the
\* actor, and the next command to this connection finds a new one.
Dispose(p) ==
  /\ ~up
  /\ ClearSession(p)
  /\ SetStatus(p, "Idle")
  /\ UNCHANGED <<control, file, pipeline, source, saved, sender, up>>

UserStep(p) ==
  (\E t \in Transfer : SendOffer(p, t)) \/ AcceptOffer(p) \/ RejectOffer(p) \/ CancelTransfer(p)

ReceiveControl(p) == ReceiveMetadata(p) \/ ReceiveAccept(p) \/ ReceiveEnd(p)
ReceiveFile(p)    == ReceiveChunk(p) \/ ReceiveEof(p)
ReaderStep(t)     == ReadChunk(t)
WriterStep(t)     == TakeChunk(t) \/ SendChunk(t) \/ SendEof(t)

Next ==
  \/ \E p \in Peer : UserStep(p) \/ Timeout(p) \/ ReceiveControl(p) \/ ReceiveFile(p) \/ Dispose(p)
  \/ \E t \in Transfer : ReaderStep(t) \/ WriterStep(t) \/ Report(t) \/ Edit(t)
  \/ Disconnect

Spec == Init /\ [][Next]_vars

\* The scheduling the code relies on: tokio runs every task that can run, the
\* channels deliver, the tick runs every second, and a lost connection is torn
\* down.  A deadline is re-armed by finitely many chunks and accepts only.
Fairness ==
  /\ \A p \in Peer : /\ WF_vars(Timeout(p))
                     /\ WF_vars(ReceiveControl(p))
                     /\ WF_vars(ReceiveFile(p))
                     /\ WF_vars(Dispose(p))
  /\ \A t \in Transfer : WF_vars(ReaderStep(t)) /\ WF_vars(WriterStep(t)) /\ WF_vars(Report(t))

FairSpec == Spec /\ Fairness
-----------------------------------------------------------------------------
(* Correctness.                                                            *)

TypeOK ==
  /\ session \in [Peer -> Session \cup {NONE}]
  /\ status \in [Peer -> Status]
  /\ control \in [Peer -> Seq(Control)]
  /\ file \in [Peer -> Seq(FileItem)]
  /\ pipeline \in [Transfer -> Pipeline \cup {NONE}]
  /\ cancelled \in [Transfer -> BOOLEAN]
  /\ source \in [Transfer -> Seq(Chunk)]
  /\ saved \in [Peer -> [Transfer -> Seq(Chunk) \cup {NONE}]]
  /\ sender \in [Transfer -> Peer \cup {NONE}]
  /\ up \in BOOLEAN

\* Whatever is left in the file channel of cancelled transfers, accepted twice,
\* or changed on disk after the offer: a file that reaches its destination is
\* the one the other peer offered, whole and in order.
DeliveredIntact ==
  \A p \in Peer, t \in Transfer :
    saved[p][t] # NONE => saved[p][t] = Original(t) /\ sender[t] = Other(p)

\* A receiver shows Completed only with the whole file at its destination, also
\* when reading, writing or copying it may fail.
CompletedMeansWhole ==
  [][\A p \in Peer :
       Has(p, "receiver") /\ status'[p] = "Completed" =>
         saved'[p][session[p].id] = Original(session[p].id)]_vars

ControlDrained == up /\ \A p \in Peer : control[p] = <<>>

\* p has started sending a transfer that was never delivered: its chunks may
\* still be on their way, or have been counted in a later session.
Abandoned(p) ==
  \E u \in Transfer :
    /\ sender[u] = p
    /\ pipeline[u] # NONE
    /\ ~HasRole(p, "sender", u)
    /\ saved[Other(p)][u] = NONE

\* Once the control channel is drained, an offer nobody has accepted is held
\* by both peers or by none: collisions, rejections, cancellations and timeouts
\* crossing on the wire leave neither an offer without an answer nor a prompt
\* without an offer.  Chunks of an abandoned transfer, which may end the
\* peer's session without a word, are the exception.
OfferHeldByBoth ==
  ControlDrained =>
    \A p \in Peer :
      /\ AwaitsAccept(p) /\ ~Abandoned(p) => HasRole(Other(p), "receiver", session[p].id)
      /\ Has(p, "receiver") /\ session[p].accepts = 0 => HasRole(Other(p), "sender", session[p].id)

\* The status tells whether a session is there, and an own offer that is still
\* unanswered is Offering, which is how ReceiveMetadata knows a collision.
StatusFollowsSession ==
  \A p \in Peer :
    /\ session[p] = NONE => status[p] \in {"Idle", "Completed", "Error"}
    /\ AwaitsAccept(p) => status[p] = "Offering"
    /\ Has(p, "sender") /\ session[p].worker_started => status[p] = "Transferring"

\* Offers that cross leave one: with nobody rejecting, cancelling or waiting
\* too long, an offer is held by somebody whenever nothing is in flight, until
\* the first is accepted; and never are two started, one in each direction.
OneOfferPrevails ==
  /\ /\ ControlDrained
     /\ \E t \in Transfer : sender[t] # NONE
     /\ \A t \in Transfer : pipeline[t] = NONE
     => \E p \in Peer : session[p] # NONE
  /\ ~ \A p \in Peer : Has(p, "sender") /\ session[p].worker_started

\* No session lasts for ever: every offer is answered, completed, refused,
\* cancelled or times out, on both sides, also when the connection is lost.
SessionsEnd == \A p \in Peer : session[p] # NONE ~> session[p] = NONE

\* No task of a sender pipeline runs for ever, cancelled, blocked on its queue
\* or cut off from the peer.
PipelinesEnd ==
  \A t \in Transfer :
    pipeline[t] # NONE ~>
      /\ ~Running(t, "reader")
      /\ ~Running(t, "writer")
      /\ pipeline[t] # NONE
      /\ pipeline[t].reported
-----------------------------------------------------------------------------
(* Refinement: how far a transfer has come, seen from the peer it is       *)
(* offered to.                                                             *)

Holds(p, t) == HasRole(p, "receiver", t)

PhaseOf(t) ==
  LET p == Other(sender[t]) IN
  CASE sender[t] = NONE -> "new"
    [] sender[t] # NONE /\ saved[p][t] # NONE -> "delivered"
    [] sender[t] # NONE /\ saved[p][t] = NONE /\ Holds(p, t) ->
         IF session[p].accepts > 0 THEN "accepted" ELSE "offered"
    [] OTHER -> IF \E k \in DOMAIN control[p] : control[p][k] = Msg("metadata", t)
                THEN "offered" ELSE "over"

Contract == INSTANCE TransferContract WITH
  Content <- [t \in Transfer |-> Original(t)],
  phase <- [t \in Transfer |-> PhaseOf(t)],
  to <- [t \in Transfer |-> IF sender[t] = NONE THEN NONE ELSE Other(sender[t])],
  got <- [t \in Transfer |-> IF sender[t] = NONE THEN NONE ELSE saved[Other(sender[t])][t]]

\* Sessions, messages and pipelines implement the contract: a transfer is
\* delivered only to the peer that accepted it, intact, and once it has been
\* given up no late message, chunk or end of file brings it back.
ImplementsContract == Contract!Spec
=============================================================================
