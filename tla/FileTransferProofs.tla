------------------------- MODULE FileTransferProofs -------------------------
(***************************************************************************)
(* Proofs about FileTransfer: its types, its safety invariants and the     *)
(* refinement of TransferContract, for any two peers, any transfers of any *)
(* size, any number of accepts and any set of faults a theorem does not    *)
(* exclude by name.                                                        *)
(***************************************************************************)
EXTENDS FileTransfer, SequenceTheorems, TLAPS

-----------------------------------------------------------------------------
(* Peers, files and sequences.                                             *)

\* There are two peers, each the other of the other.
LEMMA OtherIsPeer ==
  ASSUME NEW p \in Peer
  PROVE  Other(p) \in Peer /\ Other(p) # p /\ Other(Other(p)) = p
<1>1. PICK q \in Peer : Peer = {p, q} /\ p # q
  BY TransferAssumption
<1>2. \E r \in Peer : r # p
  BY <1>1
<1>3. Other(p) # p /\ Other(p) \in Peer
  BY <1>2 DEF Other
<1>4. \E r \in Peer : r # Other(p)
  BY <1>3
<1>5. Other(Other(p)) # Other(p) /\ Other(Other(p)) \in Peer
  BY <1>4 DEF Other
<1> QED BY <1>1, <1>3, <1>5

\* A peer that is not p is the other one.
LEMMA OnlyTwoPeers ==
  ASSUME NEW p \in Peer, NEW q \in Peer, q # p
  PROVE  q = Other(p)
<1>1. PICK r \in Peer : Peer = {p, r} /\ p # r
  BY TransferAssumption
<1>2. Other(p) \in Peer /\ Other(p) # p
  BY OtherIsPeer
<1> QED BY <1>1, <1>2

\* What Front leaves of a sequence.
LEMMA FrontProperties ==
  ASSUME NEW S, NEW s \in Seq(S), s # <<>>
  PROVE  /\ Front(s) \in Seq(S)
         /\ Len(Front(s)) = Len(s) - 1
         /\ \A i \in 1 .. Len(s) - 1 : Front(s)[i] = s[i]
<1>1. Len(s) \in Nat /\ Len(s) >= 1
  BY EmptySeq, LenProperties
<1>2. \A i \in 1 .. Len(s) - 1 : s[i] \in S
  BY <1>1, ElementOfSeq
<1>3. /\ SubSeq(s, 1, Len(s) - 1) \in Seq(S)
      /\ Len(SubSeq(s, 1, Len(s) - 1)) = IF 1 <= Len(s) - 1 THEN Len(s) - 1 - 1 + 1 ELSE 0
      /\ \A i \in 1 .. Len(s) - 1 - 1 + 1 : SubSeq(s, 1, Len(s) - 1)[i] = s[1 + i - 1]
  <2>1. 1 \in Int /\ Len(s) - 1 \in Int
    BY <1>1
  <2> QED BY ONLY <1>2, <2>1, SubSeqProperties
<1>4. Len(Front(s)) = Len(s) - 1 /\ Front(s) \in Seq(S)
  <2>1. \A n \in Nat : n >= 1 => (IF 1 <= n - 1 THEN n - 1 - 1 + 1 ELSE 0) = n - 1
    OBVIOUS
  <2>2. Front(s) = SubSeq(s, 1, Len(s) - 1)
    BY DEF Front
  <2> QED BY ONLY <1>1, <1>3, <2>1, <2>2
<1>5. ASSUME NEW i \in 1 .. Len(s) - 1
      PROVE  Front(s)[i] = s[i]
  <2>1. i \in 1 .. Len(s) - 1 - 1 + 1 /\ 1 + i - 1 = i
    BY <1>1, <1>5
  <2> QED BY <1>3, <2>1 DEF Front
<1> QED BY <1>4, <1>5

\* The offered file is a sequence of as many chunks as it is long.
LEMMA OriginalTyped ==
  ASSUME NEW t \in Transfer
  PROVE  Original(t) \in Seq(Chunk) /\ Len(Original(t)) = Size[t]
<1>1. Size[t] \in Nat
  BY TransferAssumption
<1>2. \A i \in 1 .. Size[t] : [id |-> t, part |-> i] \in Chunk
  BY <1>1 DEF Chunk
<1>3. Original(t) \in [1 .. Size[t] -> Chunk]
  BY <1>2 DEF Original
<1>4. Original(t) \in Seq(Chunk)
  BY <1>1, <1>3, SeqDef
<1> QED BY <1>1, <1>3, <1>4, LenProperties
\* A lost connection stays lost.
LEMMA UpStays == [Next]_vars /\ up' => up
<1>1. ASSUME NEW p \in Peer, UserStep(p) \/ Timeout(p) \/ Dispose(p)
      PROVE  UNCHANGED up
  BY <1>1 DEF UserStep, SendOffer, AcceptOffer, RejectOffer, CancelTransfer, Timeout, Dispose
<1>2. ASSUME NEW p \in Peer, ReceiveControl(p) \/ ReceiveFile(p)
      PROVE  UNCHANGED up
  BY <1>2 DEF ReceiveControl, ReceiveMetadata, ReceiveAccept, ReceiveEnd, ReceiveFile, ReceiveChunk, ReceiveEof
<1>3. ASSUME NEW t \in Transfer, ReaderStep(t) \/ WriterStep(t) \/ Report(t) \/ Edit(t)
      PROVE  UNCHANGED up
  BY <1>3 DEF ReaderStep, WriterStep, ReadChunk, TakeChunk, SendChunk, SendEof, Report, Edit
<1>4. Disconnect => ~up'
  BY DEF Disconnect
<1> QED BY <1>1, <1>2, <1>3, <1>4 DEF Next, vars
-----------------------------------------------------------------------------
(* Types.                                                                  *)

MessageType == {"metadata", "accept", "reject", "cancel"}

\* Msg makes a control message.
LEMMA MsgTyped ==
  ASSUME NEW type \in MessageType, NEW t \in Transfer
  PROVE  Msg(type, t) \in Control
BY DEF Msg, Control, MessageType

\* send_control_message leaves channels of control messages.
LEMMA SendTyped ==
  ASSUME TypeOK, NEW p \in Peer, NEW m \in Control, Send(p, m)
  PROVE  control' \in [Peer -> Seq(Control)]
<1>1. control \in [Peer -> Seq(Control)]
  BY DEF TypeOK
<1>2. Append(control[Other(p)], m) \in Seq(Control)
  BY <1>1, OtherIsPeer, AppendProperties
<1> QED BY <1>1, <1>2 DEF Send

\* So does handling the first message and answering it.
LEMMA HandleTyped ==
  ASSUME TypeOK, NEW p \in Peer, NEW msgs \in Seq(Control), control[p] # <<>>,
         HandleAndSend(p, msgs)
  PROVE  control' \in [Peer -> Seq(Control)]
<1>1. control \in [Peer -> Seq(Control)]
  BY DEF TypeOK
<1>2. Tail(control[p]) \in Seq(Control)
  BY <1>1, HeadTailProperties
<1>3. control[Other(p)] \o msgs \in Seq(Control)
  BY <1>1, OtherIsPeer, ConcatProperties
<1> QED BY <1>1, <1>2, <1>3, OtherIsPeer DEF HandleAndSend

\* A session that is there is for a transfer.
LEMMA SessionTyped ==
  ASSUME TypeOK, NEW p \in Peer, session[p] # NONE
  PROVE  session[p] \in Session /\ session[p].id \in Transfer
BY DEF TypeOK, Session

\* A new session is a session.
LEMMA NewSessionTyped ==
  ASSUME NEW t \in Transfer, NEW role \in Role
  PROVE  NewSession(t, role) \in Session /\ NewSession(t, role) # NONE
<1>1. <<>> \in Seq(Chunk)
  BY EmptySeq
<1>2. NewSession(t, role) \in Session
  BY <1>1 DEF NewSession, Session
<1> QED BY <1>2, TransferAssumption

\* A session remains one when its user accepts: the destination is opened anew.
LEMMA AcceptedTyped ==
  ASSUME NEW s \in Session
  PROVE  [s EXCEPT !.accepts = @ + 1, !.written = <<>>] \in Session
<1> DEFINE n == s.accepts + 1
<1>1. n \in Nat /\ <<>> \in Seq(Chunk)
  BY EmptySeq DEF Session
<1>2. [s EXCEPT !.accepts = @ + 1, !.written = <<>>] = [s EXCEPT !.accepts = n, !.written = <<>>]
  OBVIOUS
<1> HIDE DEF n
<1>3. [s EXCEPT !.accepts = n, !.written = <<>>] \in Session
  BY <1>1 DEF Session
<1> QED BY <1>2, <1>3

\* The first message and the first item of a channel name a transfer.
LEMMA HeadTyped ==
  ASSUME TypeOK, NEW p \in Peer
  PROVE  /\ control[p] # <<>> => Head(control[p]) \in Control /\ Head(control[p]).id \in Transfer
         /\ file[p] # <<>> => Head(file[p]) \in FileItem /\ Tail(file[p]) \in Seq(FileItem)
<1>1. control[p] \in Seq(Control) /\ file[p] \in Seq(FileItem)
  BY DEF TypeOK
<1>2. control[p] # <<>> => Head(control[p]) \in Control
  BY <1>1, HeadTailProperties
<1>3. file[p] # <<>> => Head(file[p]) \in FileItem /\ Tail(file[p]) \in Seq(FileItem)
  BY <1>1, HeadTailProperties
<1> QED BY <1>2, <1>3 DEF Control

\* fail_current_session clears the session and cancels the worker it has.
LEMMA FailTyped ==
  ASSUME TypeOK, NEW p \in Peer, ClearSession(p)
  PROVE  session' \in [Peer -> Session \cup {NONE}] /\ cancelled' \in [Transfer -> BOOLEAN]
<1>1. Has(p, "sender") => session[p].id \in Transfer
  BY SessionTyped DEF Has
<1> QED BY <1>1 DEF ClearSession, RaiseFlag, TypeOK

\* A change to the pipeline, the channels and files of a transfer, the actors standing still.
LEMMA PipelineTyped ==
  ASSUME TypeOK, NEW t \in Transfer, pipeline[t] # NONE
  PROVE  /\ pipeline[t] \in Pipeline
         /\ \A e \in Task : /\ Pipe(t, "reader", e) \in [Transfer -> Pipeline \cup {NONE}]
                            /\ Pipe(t, "writer", e) \in [Transfer -> Pipeline \cup {NONE}]
         /\ Pipe(t, "reported", TRUE) \in [Transfer -> Pipeline \cup {NONE}]
         /\ Pipe(t, "hand", <<>>) \in [Transfer -> Pipeline \cup {NONE}]
<1>1. pipeline \in [Transfer -> Pipeline \cup {NONE}] /\ pipeline[t] \in Pipeline
  BY DEF TypeOK
<1>2. <<>> \in Seq(Chunk)
  BY EmptySeq
<1>3. \A e \in Task : /\ [pipeline[t] EXCEPT !["reader"] = e] \in Pipeline
                      /\ [pipeline[t] EXCEPT !["writer"] = e] \in Pipeline
  BY <1>1 DEF Pipeline
<1>4. [pipeline[t] EXCEPT !["reported"] = TRUE] \in Pipeline
  BY <1>1 DEF Pipeline
<1>5. [pipeline[t] EXCEPT !["hand"] = <<>>] \in Pipeline
  BY <1>1, <1>2 DEF Pipeline
<1> QED BY <1>1, <1>3, <1>4, <1>5 DEF Pipe

\* Both actors start idle, with empty channels.
LEMMA InitTyped == Init => TypeOK
<1> SUFFICES ASSUME Init PROVE TypeOK
  OBVIOUS
<1>1. \A t \in Transfer : Original(t) \in Seq(Chunk)
  BY OriginalTyped
<1>2. <<>> \in Seq(Control) /\ <<>> \in Seq(FileItem)
  BY EmptySeq
<1> QED BY <1>1, <1>2 DEF Init, TypeOK, Status

\* The user's commands, a deadline and the tear-down: at most a session ends.
LEMMA CommandTyped ==
  ASSUME TypeOK, NEW p \in Peer, UserStep(p) \/ Timeout(p) \/ Dispose(p)
  PROVE  TypeOK'
<1>1. ASSUME NEW t \in Transfer, SendOffer(p, t)
      PROVE  TypeOK'
  <2>1. control' \in [Peer -> Seq(Control)]
    BY <1>1, MsgTyped, SendTyped DEF SendOffer, MessageType
  <2>2. NewSession(t, "sender") \in Session
    BY NewSessionTyped DEF Role
  <2> QED BY <1>1, <2>1, <2>2 DEF SendOffer, TypeOK, SetStatus, Status
<1>2. CASE AcceptOffer(p)
  <2>1. session[p] \in Session /\ session[p].id \in Transfer
    BY <1>2, SessionTyped DEF AcceptOffer, Has
  <2>2. control' \in [Peer -> Seq(Control)]
    BY <1>2, <2>1, MsgTyped, SendTyped DEF AcceptOffer, MessageType
  <2>3. session' \in [Peer -> Session \cup {NONE}] /\ cancelled' \in [Transfer -> BOOLEAN]
    <3>1. CASE up
      <4>1. [session[p] EXCEPT !.accepts = @ + 1, !.written = <<>>] \in Session
        BY <2>1, AcceptedTyped
      <4>2. session' = [session EXCEPT ![p].accepts = @ + 1, ![p].written = <<>>] /\ UNCHANGED cancelled
        BY <1>2, <3>1 DEF AcceptOffer
      <4> QED BY <4>1, <4>2 DEF TypeOK
    <3>2. CASE ~up
      BY <1>2, <3>2, FailTyped DEF AcceptOffer, FailSession
    <3> QED BY <3>1, <3>2
  <2>4. status' \in [Peer -> Status]
    BY <1>2 DEF AcceptOffer, FailSession, SetStatus, Status, TypeOK
  <2> QED BY <1>2, <2>2, <2>3, <2>4 DEF AcceptOffer, TypeOK
<1>3. CASE RejectOffer(p)
  <2>1. control' \in [Peer -> Seq(Control)]
    <3>1. CASE session[p] = NONE
      BY <1>3, <3>1 DEF RejectOffer, TypeOK
    <3>2. CASE session[p] # NONE
      BY <1>3, <3>2, SessionTyped, MsgTyped, SendTyped DEF RejectOffer, MessageType
    <3> QED BY <3>1, <3>2
  <2> QED BY <1>3, <2>1, FailTyped DEF RejectOffer, TypeOK, SetStatus, Status
<1>4. CASE CancelTransfer(p)
  <2>1. control' \in [Peer -> Seq(Control)]
    BY <1>4, SessionTyped, MsgTyped, SendTyped DEF CancelTransfer, MessageType
  <2> QED BY <1>4, <2>1, FailTyped DEF CancelTransfer, FailSession, TypeOK, SetStatus, Status
<1>5. CASE Timeout(p)
  <2>1. control' \in [Peer -> Seq(Control)]
    BY <1>5, SessionTyped, MsgTyped, SendTyped
       DEF Timeout, AwaitsAccept, AwaitsActivity, Has, MessageType
  <2> QED BY <1>5, <2>1, FailTyped DEF Timeout, FailSession, TypeOK, SetStatus, Status
<1>6. CASE Dispose(p)
  BY <1>6, FailTyped DEF Dispose, TypeOK, SetStatus, Status
<1> QED BY <1>1, <1>2, <1>3, <1>4, <1>5, <1>6 DEF UserStep

\* The types survive a control message.
LEMMA MessageTyped ==
  ASSUME TypeOK, NEW p \in Peer, ReceiveControl(p)
  PROVE  TypeOK'
<1>1. control[p] # <<>>
  BY DEF ReceiveControl, ReceiveMetadata, ReceiveAccept, ReceiveEnd, Incoming
<1>2. Head(control[p]) \in Control /\ Head(control[p]).id \in Transfer
  BY <1>1, HeadTyped
<1>3. <<>> \in Seq(Control)
  BY EmptySeq
<1>4. CASE ReceiveMetadata(p)
  <2> DEFINE t == Head(control[p]).id
  <2>1. PICK msgs \in Seq(Control) : HandleAndSend(p, msgs)
    <3>1. <<Msg("reject", t)>> \in Seq(Control)
      BY <1>2, MsgTyped DEF MessageType
    <3>2. session[p] # NONE => <<Msg("cancel", session[p].id)>> \in Seq(Control)
      BY SessionTyped, MsgTyped DEF MessageType
    <3> QED BY <1>3, <1>4, <3>1, <3>2 DEF ReceiveMetadata, Has
  <2>2. control' \in [Peer -> Seq(Control)]
    BY <1>1, <2>1, HandleTyped
  <2>3. \/ UNCHANGED <<session, status, cancelled>>
        \/ /\ session' = [session EXCEPT ![p] = NewSession(t, "receiver")]
           /\ SetStatus(p, "Offered")
           /\ RaiseFlag(p)
    BY <1>4 DEF ReceiveMetadata
  <2>4. NewSession(t, "receiver") \in Session
    BY <1>2, NewSessionTyped DEF Role
  <2>5. Has(p, "sender") => session[p].id \in Transfer
    BY SessionTyped DEF Has
  <2> HIDE DEF t
  <2>6. /\ session' \in [Peer -> Session \cup {NONE}]
        /\ status' \in [Peer -> Status]
        /\ cancelled' \in [Transfer -> BOOLEAN]
    BY <2>3, <2>4, <2>5 DEF TypeOK, SetStatus, Status, RaiseFlag
  <2> QED BY <1>4, <2>2, <2>6 DEF ReceiveMetadata, TypeOK
<1>5. CASE ReceiveAccept(p)
  <2> DEFINE t == Head(control[p]).id
  <2>1. control' \in [Peer -> Seq(Control)]
    BY <1>1, <1>3, <1>5, HandleTyped DEF ReceiveAccept
  <2>2. CASE HasRole(p, "sender", t) /\ ~session[p].worker_started
    <3>1. session[p] \in Session
      BY <2>2, SessionTyped DEF HasRole, Has
    <3>2. [session[p] EXCEPT !.worker_started = TRUE] \in Session
      BY <3>1 DEF Session
    <3>3. <<>> \in Seq(Chunk)
      BY EmptySeq
    <3>4. NewPipeline \in Pipeline
      BY <3>3 DEF NewPipeline, Pipeline, Task
    <3> QED BY <1>2, <1>5, <2>1, <2>2, <3>2, <3>4 DEF ReceiveAccept, TypeOK, SetStatus, Status
  <2>3. CASE ~ (HasRole(p, "sender", t) /\ ~session[p].worker_started)
    BY <1>5, <2>1, <2>3 DEF ReceiveAccept, TypeOK
  <2> QED BY <2>2, <2>3
<1>6. CASE ReceiveEnd(p)
  <2>1. control' \in [Peer -> Seq(Control)]
    BY <1>1, <1>3, <1>6, HandleTyped DEF ReceiveEnd
  <2>2. CASE HasId(p, Head(control[p]).id)
    BY <1>6, <2>1, <2>2, FailTyped DEF ReceiveEnd, FailSession, TypeOK, SetStatus, Status
  <2>3. CASE ~HasId(p, Head(control[p]).id)
    BY <1>6, <2>1, <2>3 DEF ReceiveEnd, TypeOK
  <2> QED BY <2>2, <2>3
<1> QED BY <1>4, <1>5, <1>6 DEF ReceiveControl

\* The types survive a chunk and the end of a file.
LEMMA ItemTyped ==
  ASSUME TypeOK, NEW p \in Peer, ReceiveFile(p)
  PROVE  TypeOK'
<1>1. Head(file[p]) \in FileItem /\ Tail(file[p]) \in Seq(FileItem)
  BY HeadTyped DEF ReceiveFile, ReceiveChunk, ReceiveEof, NextItem
<1>2. file' \in [Peer -> Seq(FileItem)]
  BY <1>1 DEF ReceiveFile, ReceiveChunk, ReceiveEof, NextItem, TypeOK
<1>3. Head(file[p]).chunk \in Chunk
  BY <1>1 DEF FileItem
<1>4. CASE ReceiveChunk(p)
  <2> DEFINE c == Head(file[p]).chunk
             count == session[p].bytes_received + 1
  <2>1. CASE UNCHANGED <<session, status, cancelled>>
    BY <1>2, <1>4, <2>1 DEF ReceiveChunk, TypeOK
  <2>2. CASE FailSession(p)
    BY <1>2, <1>4, <2>2, FailTyped DEF ReceiveChunk, FailSession, TypeOK, SetStatus, Status
  <2>3. CASE /\ Has(p, "receiver")
             /\ session' = [session EXCEPT ![p].bytes_received = count,
                              ![p].written = IF session[p].accepts > 0 THEN Append(@, c) ELSE @]
             /\ SetStatus(p, "Receiving") \/ UNCHANGED status
             /\ UNCHANGED cancelled
    <3>1. session[p] \in Session
      BY <2>3, SessionTyped DEF Has
    <3>2. count \in Nat
      BY <3>1 DEF Session
    <3>3. Append(session[p].written, c) \in Seq(Chunk)
      BY <1>3, <3>1, AppendProperties DEF Session
    <3> HIDE DEF c, count
    <3>4. [session[p] EXCEPT !.bytes_received = count,
              !.written = IF session[p].accepts > 0 THEN Append(@, c) ELSE @] \in Session
      BY <3>1, <3>2, <3>3 DEF Session
    <3>5. session' \in [Peer -> Session \cup {NONE}]
      BY <2>3, <3>4 DEF TypeOK
    <3> QED BY <1>2, <1>4, <2>3, <3>5 DEF ReceiveChunk, TypeOK, SetStatus, Status
  <2> QED BY <1>4, <2>1, <2>2, <2>3 DEF ReceiveChunk
<1>5. CASE ReceiveEof(p)
  <2> DEFINE t == Head(file[p]).chunk.id
  <2>1. CASE UNCHANGED <<session, status, cancelled, saved>>
    BY <1>2, <1>5, <2>1 DEF ReceiveEof, TypeOK
  <2>2. CASE FailSession(p) /\ UNCHANGED saved
    BY <1>2, <1>5, <2>2, FailTyped DEF ReceiveEof, FailSession, TypeOK, SetStatus, Status
  <2>3. CASE /\ HasRole(p, "receiver", t)
             /\ saved' = [saved EXCEPT ![p][t] = session[p].written]
             /\ ClearSession(p)
             /\ SetStatus(p, "Completed")
    <3>1. session[p].written \in Seq(Chunk)
      BY <2>3, SessionTyped DEF HasRole, Has, Session
    <3>2. saved' \in [Peer -> [Transfer -> Seq(Chunk) \cup {NONE}]]
      BY <2>3, <3>1 DEF TypeOK
    <3> QED BY <1>2, <1>5, <2>3, <3>2, FailTyped DEF ReceiveEof, TypeOK, SetStatus, Status
  <2>4. CASE HasRole(p, "receiver", t) /\ FinalizeFails(p)
    <3>1. session[p].written \in Seq(Chunk)
      BY <2>4, SessionTyped DEF HasRole, Has, Session
    <3>2. session[p].written # <<>> => Front(session[p].written) \in Seq(Chunk)
      BY <3>1, FrontProperties
    <3>3. saved' \in [Peer -> [Transfer -> Seq(Chunk) \cup {NONE}]]
      <4>1. \/ UNCHANGED saved
            \/ /\ session[p].written # <<>>
               /\ saved' = [saved EXCEPT ![p][session[p].id] = Front(session[p].written)]
        BY <2>4 DEF FinalizeFails
      <4> DEFINE w == Front(session[p].written)
      <4>2. session[p].written # <<>> => w \in Seq(Chunk)
        BY <3>2
      <4> HIDE DEF w
      <4>3. UNCHANGED saved \/ (w \in Seq(Chunk) /\ saved' = [saved EXCEPT ![p][session[p].id] = w])
        BY <4>1, <4>2 DEF w
      <4>4. saved \in [Peer -> [Transfer -> Seq(Chunk) \cup {NONE}]]
        BY DEF TypeOK
      <4>5. w \in Seq(Chunk) => [saved[p] EXCEPT ![session[p].id] = w] \in [Transfer -> Seq(Chunk) \cup {NONE}]
        BY <4>4
      <4> QED BY <4>3, <4>4, <4>5
    <3>4. session' \in [Peer -> Session \cup {NONE}]
      BY <2>4 DEF FinalizeFails, TypeOK
    <3> QED BY <1>2, <1>5, <2>4, <3>3, <3>4 DEF ReceiveEof, FinalizeFails, TypeOK
  <2> QED BY <1>5, <2>1, <2>2, <2>3, <2>4 DEF ReceiveEof
<1> QED BY <1>4, <1>5 DEF ReceiveFile

\* The types survive a step of the reader or of the writer, and their report.
LEMMA PipelineStepTyped ==
  ASSUME TypeOK, NEW t \in Transfer, ReaderStep(t) \/ WriterStep(t) \/ Report(t)
  PROVE  TypeOK'
<1>1. pipeline[t] # NONE
  BY DEF ReaderStep, WriterStep, ReadChunk, TakeChunk, SendChunk, SendEof, Report, Running
<1>2. pipeline[t] \in Pipeline
  BY <1>1, PipelineTyped
<1>3. <<>> \in Seq(Chunk)
  BY EmptySeq
<1>4. CASE ReadChunk(t)
  <2> DEFINE next == pipeline[t].offset + 1
  <2>1. CASE pipeline' = Pipe(t, "reader", "failed") \/ pipeline' = Pipe(t, "reader", "finished")
    <3>1. pipeline' \in [Transfer -> Pipeline \cup {NONE}]
      BY <1>1, <2>1, PipelineTyped DEF Task
    <3> QED BY <1>4, <3>1 DEF ReadChunk, TypeOK
  <2>2. CASE /\ next <= Len(source[t])
             /\ pipeline' = [pipeline EXCEPT ![t].offset = next, ![t].queue = <<source[t][next]>>]
    <3>1. next \in Nat /\ next >= 1
      BY <1>2 DEF Pipeline
    <3>2. source[t] \in Seq(Chunk)
      BY DEF TypeOK
    <3>3. Len(source[t]) \in Nat
      BY <3>2, LenProperties
    <3>4. source[t][next] \in Chunk
      BY <2>2, <3>1, <3>2, <3>3, ElementOfSeq
    <3>5. <<source[t][next]>> \in Seq(Chunk)
      BY <3>4
    <3> HIDE DEF next
    <3>6. [pipeline[t] EXCEPT !.offset = next, !.queue = <<source[t][next]>>] \in Pipeline
      BY <1>2, <3>1, <3>5 DEF Pipeline
    <3>7. pipeline' \in [Transfer -> Pipeline \cup {NONE}]
      BY <2>2, <3>6 DEF TypeOK
    <3> QED BY <1>4, <3>7 DEF ReadChunk, TypeOK
  <2> QED BY <1>4, <2>1, <2>2 DEF ReadChunk
<1>5. CASE TakeChunk(t)
  <2>1. /\ [pipeline[t] EXCEPT !.queue = <<>>, !.writer = "failed"] \in Pipeline
        /\ [pipeline[t] EXCEPT !.queue = <<>>, !.hand = pipeline[t].queue] \in Pipeline
    BY <1>2, <1>3 DEF Pipeline, Task
  <2>2. pipeline' \in [Transfer -> Pipeline \cup {NONE}]
    BY <1>5, <2>1 DEF TakeChunk, TypeOK
  <2> QED BY <1>5, <2>2 DEF TakeChunk, TypeOK
<1>6. ASSUME NEW item \in FileItem, NEW q
      PROVE  [file EXCEPT ![q] = Append(@, item)] \in [Peer -> Seq(FileItem)]
  <2>1. file \in [Peer -> Seq(FileItem)]
    BY DEF TypeOK
  <2>2. q \in Peer => Append(file[q], item) \in Seq(FileItem)
    BY <1>6, <2>1, AppendProperties
  <2> QED BY <2>1, <2>2
<1>7. CASE SendChunk(t)
  <2>1. pipeline[t].hand \in Seq(Chunk) /\ pipeline[t].hand # <<>>
    BY <1>2, <1>7 DEF SendChunk, Pipeline
  <2>2. Head(pipeline[t].hand) \in Chunk
    BY <2>1, HeadTailProperties
  <2>3. [type |-> "chunk", chunk |-> Head(pipeline[t].hand)] \in FileItem
    BY <2>2 DEF FileItem
  <2>4. file' \in [Peer -> Seq(FileItem)]
    <3> DEFINE item == [type |-> "chunk", chunk |-> Head(pipeline[t].hand)]
               q == Other(sender[t])
    <3>1. UNCHANGED file \/ file' = [file EXCEPT ![q] = Append(@, item)]
      BY <1>7 DEF SendChunk
    <3>2. item \in FileItem
      BY <2>3
    <3> HIDE DEF item, q
    <3>3. file \in [Peer -> Seq(FileItem)]
      BY DEF TypeOK
    <3>4. [file EXCEPT ![q] = Append(@, item)] \in [Peer -> Seq(FileItem)]
      BY <1>6, <3>2, <3>3
    <3> QED BY <3>1, <3>3, <3>4
  <2>5. [pipeline[t] EXCEPT !.hand = <<>>, !.writer = "failed"] \in Pipeline
    BY <1>2, <1>3 DEF Pipeline, Task
  <2>6. pipeline' \in [Transfer -> Pipeline \cup {NONE}]
    <3>1. pipeline \in [Transfer -> Pipeline \cup {NONE}]
      BY DEF TypeOK
    <3>2. \/ pipeline' = Pipe(t, "hand", <<>>)
          \/ pipeline' = [pipeline EXCEPT ![t].hand = <<>>, ![t].writer = "failed"]
      BY <1>7 DEF SendChunk
    <3>3. Pipe(t, "hand", <<>>) \in [Transfer -> Pipeline \cup {NONE}]
      BY <1>1, PipelineTyped
    <3>4. [pipeline EXCEPT ![t].hand = <<>>, ![t].writer = "failed"] \in [Transfer -> Pipeline \cup {NONE}]
      BY <2>5, <3>1
    <3> QED BY <3>2, <3>3, <3>4
  <2>7. UNCHANGED <<session, status, control, cancelled, source, saved, sender, up>>
    BY <1>7 DEF SendChunk
  <2> QED BY <2>4, <2>6, <2>7 DEF TypeOK
<1>8. CASE SendEof(t)
  <2>1. [type |-> "eof", chunk |-> [id |-> t, part |-> 0]] \in FileItem
    BY DEF FileItem, Chunk
  <2>2. file' \in [Peer -> Seq(FileItem)]
    <3> DEFINE item == [type |-> "eof", chunk |-> [id |-> t, part |-> 0]]
               q == Other(sender[t])
    <3>1. UNCHANGED file \/ file' = [file EXCEPT ![q] = Append(@, item)]
      BY <1>8 DEF SendEof
    <3>2. item \in FileItem
      BY <2>1
    <3> HIDE DEF item, q
    <3>3. [file EXCEPT ![q] = Append(@, item)] \in [Peer -> Seq(FileItem)]
      BY <1>6, <3>2
    <3>4. file \in [Peer -> Seq(FileItem)]
      BY DEF TypeOK
    <3> QED BY <3>1, <3>3, <3>4
  <2>3. pipeline' \in [Transfer -> Pipeline \cup {NONE}]
    BY <1>1, <1>8, PipelineTyped DEF SendEof, Task
  <2> QED BY <1>8, <2>2, <2>3 DEF SendEof, TypeOK
<1>9. CASE Report(t)
  <2>1. pipeline' \in [Transfer -> Pipeline \cup {NONE}]
    BY <1>1, <1>9, PipelineTyped DEF Report
  <2>2. CASE HasRole(sender[t], "sender", t) /\ sender[t] \in Peer
    BY <1>9, <2>1, <2>2, FailTyped DEF Report, TypeOK, SetStatus, Status
  <2>3. CASE HasRole(sender[t], "sender", t) /\ sender[t] \notin Peer
    BY <1>9, <2>1, <2>3 DEF Report, TypeOK, ClearSession, SetStatus, RaiseFlag
  <2>4. CASE ~HasRole(sender[t], "sender", t)
    BY <1>9, <2>1, <2>4 DEF Report, TypeOK
  <2> QED BY <2>2, <2>3, <2>4
<1> QED BY <1>4, <1>5, <1>7, <1>8, <1>9 DEF ReaderStep, WriterStep

\* The types survive an edit of the source and the loss of the connection.
LEMMA EnvironmentTyped ==
  ASSUME TypeOK, (\E t \in Transfer : Edit(t)) \/ Disconnect
  PROVE  TypeOK'
<1>1. ASSUME NEW t \in Transfer, Edit(t)
      PROVE  TypeOK'
  <2> DEFINE extra == [id |-> t, part |-> 0]
  <2>1. source[t] \in Seq(Chunk) /\ extra \in Chunk
    BY DEF TypeOK, Chunk
  <2>2. source[t] = Original(t) /\ Len(source[t]) = Size[t] /\ Size[t] \in Nat
    BY <1>1, OriginalTyped, TransferAssumption DEF Edit
  <2>3. Size[t] # 0 => source[t] # <<>>
    BY <2>2, EmptySeq
  <2>4. Size[t] # 0 => Front(source[t]) \in Seq(Chunk)
    BY <2>1, <2>3, FrontProperties
  <2>5. /\ Append(source[t], extra) \in Seq(Chunk)
        /\ Size[t] # 0 => Append(Front(source[t]), extra) \in Seq(Chunk)
    <3> HIDE DEF extra
    <3> QED BY <2>1, <2>4, AppendProperties
  <2>6. \E other \in Seq(Chunk) : source' = [source EXCEPT ![t] = other]
    BY <1>1, <2>4, <2>5 DEF Edit
  <2>7. source' \in [Transfer -> Seq(Chunk)]
    BY <2>6 DEF TypeOK
  <2> QED BY <1>1, <2>7 DEF Edit, TypeOK
<1>2. CASE Disconnect
  <2>1. <<>> \in Seq(Control) /\ <<>> \in Seq(FileItem)
    BY EmptySeq
  <2> QED BY <1>2, <2>1 DEF Disconnect, TypeOK
<1> QED BY <1>1, <1>2

\* One case per actor, for a step of the specification.
LEMMA StepCases ==
  ASSUME [Next]_vars
  PROVE  \/ \E p \in Peer : UserStep(p) \/ Timeout(p) \/ Dispose(p)
         \/ \E p \in Peer : ReceiveControl(p)
         \/ \E p \in Peer : ReceiveFile(p)
         \/ \E t \in Transfer : ReaderStep(t) \/ WriterStep(t) \/ Report(t)
         \/ (\E t \in Transfer : Edit(t)) \/ Disconnect
         \/ UNCHANGED vars
BY DEF Next

\* Every step keeps the types.
LEMMA TypeStep == TypeOK /\ [Next]_vars => TypeOK'
<1> SUFFICES ASSUME TypeOK, [Next]_vars PROVE TypeOK'
  OBVIOUS
<1>1. CASE UNCHANGED vars
  BY <1>1 DEF vars, TypeOK
<1> QED BY <1>1, StepCases, CommandTyped, MessageTyped, ItemTyped, PipelineStepTyped, EnvironmentTyped

\* Sessions, channels, files and pipelines have the shapes the actors rely on:
\* in particular every message and every chunk names a transfer.
THEOREM TypeCorrect == Spec => []TypeOK
BY InitTyped, TypeStep, PTL DEF Spec
-----------------------------------------------------------------------------
(* What is under way on a control channel, and what a step does to it.     *)

UnderWay(p, type, t) == \E k \in DOMAIN control[p] : control[p][k] = Msg(type, t)

\* A control channel carries the metadata of a transfer once, before anything
\* else that names it.
MetadataFirst ==
  \A p \in Peer : \A j, k \in DOMAIN control[p] :
    control[p][j].type = "metadata" /\ control[p][k].id = control[p][j].id => j <= k

\* A control message is its type and its transfer.
LEMMA MsgEqual ==
  ASSUME NEW m \in Control, NEW type \in MessageType, NEW t \in Transfer
  PROVE  m = Msg(type, t) <=> m.type = type /\ m.id = t
BY DEF Msg, Control, MessageType

\* A control channel is a finite sequence of control messages.
LEMMA QueueFacts ==
  ASSUME TypeOK, NEW p \in Peer
  PROVE  /\ control[p] \in Seq(Control)
         /\ DOMAIN control[p] = 1 .. Len(control[p])
         /\ Len(control[p]) \in Nat
         /\ \A k \in DOMAIN control[p] : control[p][k] \in Control
<1>1. control[p] \in Seq(Control)
  BY DEF TypeOK
<1> QED BY <1>1, LenProperties, ElementOfSeq

\* A message handed to send_control_message is the last on its way, if the
\* channel is open.
LEMMA SendEffect ==
  ASSUME TypeOK, NEW p \in Peer, NEW type \in MessageType, NEW t \in Transfer,
         Send(p, Msg(type, t))
  PROVE  /\ \A q \in Peer, y \in MessageType, u \in Transfer :
              UnderWay(q, y, u)' <=>
                UnderWay(q, y, u) \/ (up /\ q = Other(p) /\ y = type /\ u = t)
         /\ MetadataFirst /\ (type = "metadata" => \A y \in MessageType : ~UnderWay(Other(p), y, t))
              => MetadataFirst'
<1> DEFINE o == Other(p)
           m == Msg(type, t)
<1>1. o \in Peer /\ m \in Control
  BY OtherIsPeer, MsgTyped
<1>2. CASE ~up
  <2>1. control' = control
    BY <1>2 DEF Send
  <2> QED BY <1>2, <2>1 DEF UnderWay, MetadataFirst
<1>3. CASE up
  <2>1. control' = [control EXCEPT ![o] = Append(@, m)]
    BY <1>3 DEF Send
  <2>2. /\ control[o] \in Seq(Control) /\ Len(control[o]) \in Nat
        /\ DOMAIN control[o] = 1 .. Len(control[o])
        /\ \A k \in DOMAIN control[o] : control[o][k] \in Control
    BY <1>1, QueueFacts
  <2> HIDE DEF o
  <2>3. control'[o] = Append(control[o], m) /\ \A q \in Peer : q # o => control'[q] = control[q]
    BY <1>1, <2>1 DEF TypeOK
  <2> DEFINE n == Len(control[o])
  <2> HIDE DEF m
  <2>4. /\ Append(control[o], m) \in Seq(Control) /\ Len(Append(control[o], m)) = n + 1
        /\ \A i \in 1 .. n : Append(control[o], m)[i] = control[o][i]
        /\ Append(control[o], m)[n + 1] = m
    BY <1>1, <2>2, AppendProperties
  <2>5. DOMAIN control'[o] = 1 .. n + 1
    BY <2>3, <2>4, LenProperties
  <2>6. /\ \A i \in 1 .. n : control'[o][i] = control[o][i]
        /\ control'[o][n + 1] = m
    BY <2>3, <2>4
  <2> HIDE DEF n
  <2>7. n \in Nat /\ DOMAIN control[o] = 1 .. n
    BY <2>2 DEF n
  <2>8. ASSUME NEW q \in Peer, NEW y \in MessageType, NEW u \in Transfer
        PROVE  UnderWay(q, y, u)' <=>
                 UnderWay(q, y, u) \/ (q = o /\ y = type /\ u = t)
    <3>1. CASE q # o
      BY <2>3, <3>1 DEF UnderWay
    <3>2. CASE q = o
      <4>1. m = Msg(y, u) <=> y = type /\ u = t
        BY DEF m, Msg
      <4>2. UnderWay(o, y, u)' <=> (\E i \in 1 .. n + 1 : control'[o][i] = Msg(y, u))
        BY <2>5 DEF UnderWay
      <4>3. UnderWay(o, y, u) <=> (\E i \in 1 .. n : control[o][i] = Msg(y, u))
        BY <2>7 DEF UnderWay
      <4>4. 1 .. n + 1 = (1 .. n) \cup {n + 1}
        BY <2>7
      <4> QED BY <2>6, <3>2, <4>1, <4>2, <4>3, <4>4
    <3> QED BY <3>1, <3>2
  <2>9. ASSUME MetadataFirst, type = "metadata" => \A y \in MessageType : ~UnderWay(o, y, t)
        PROVE  MetadataFirst'
    <3> SUFFICES ASSUME NEW q \in Peer, NEW j \in DOMAIN control'[q], NEW k \in DOMAIN control'[q],
                        control'[q][j].type = "metadata", control'[q][k].id = control'[q][j].id
                 PROVE  j <= k
      BY DEF MetadataFirst
    <3>1. CASE q # o
      BY <2>3, <2>9, <3>1 DEF MetadataFirst
    <3>2. CASE q = o
      <4>1. j \in 1 .. n + 1 /\ k \in 1 .. n + 1
        BY <2>5, <3>2
      <4>2. CASE k = n + 1
        BY <2>7, <4>1, <4>2
      <4>3. CASE k \in 1 .. n /\ j \in 1 .. n
        <5>1. control'[o][j] = control[o][j] /\ control'[o][k] = control[o][k]
          BY <2>6, <4>3
        <5> QED BY <1>1, <2>7, <2>9, <3>2, <4>3, <5>1 DEF MetadataFirst
      <4>4. CASE k \in 1 .. n /\ j = n + 1
        <5>1. m.type = "metadata" /\ control[o][k].id = m.id
          BY <2>6, <3>2, <4>4
        <5>2. type = "metadata" /\ control[o][k].id = t /\ control[o][k] \in Control
          BY <2>2, <2>7, <4>4, <5>1 DEF m, Msg
        <5>3. control[o][k] = Msg(control[o][k].type, t) /\ control[o][k].type \in MessageType
          BY <5>2, MsgEqual DEF Control, MessageType
        <5>4. UnderWay(o, control[o][k].type, t)
          BY <2>7, <4>4, <5>3 DEF UnderWay
        <5> QED BY <2>9, <5>2, <5>3, <5>4
      <4> QED BY <2>7, <4>1, <4>2, <4>3, <4>4
    <3> QED BY <3>1, <3>2
  <2> QED BY <1>3, <2>8, <2>9 DEF o
<1> QED BY <1>2, <1>3

\* Handling the first message removes it from its channel, and it alone; what is
\* answered is added to the other channel.
LEMMA HandleEffect ==
  ASSUME TypeOK, MetadataFirst, NEW p \in Peer, NEW msgs \in Seq(Control), control[p] # <<>>,
         HandleAndSend(p, msgs), \A i \in DOMAIN msgs : msgs[i].type # "metadata"
  PROVE  /\ \A y \in MessageType, u \in Transfer :
              /\ UnderWay(p, y, u)' => UnderWay(p, y, u)
              /\ UnderWay(p, y, u) => UnderWay(p, y, u)' \/ Head(control[p]) = Msg(y, u)
              /\ UnderWay(Other(p), y, u)' <=>
                   UnderWay(Other(p), y, u) \/ \E i \in DOMAIN msgs : msgs[i] = Msg(y, u)
         /\ \A u \in Transfer : Head(control[p]).id = u => ~UnderWay(p, "metadata", u)'
         /\ Head(control[p]).type # "metadata" => ~UnderWay(p, "metadata", Head(control[p]).id)
         /\ UnderWay(p, Head(control[p]).type, Head(control[p]).id)
         /\ MetadataFirst'
<1> DEFINE o == Other(p)
           n == Len(control[p])
           l == Len(control[o])
           h == Head(control[p])
<1>1. o \in Peer /\ o # p /\ \A q \in Peer : q = p \/ q = o
  BY OtherIsPeer, OnlyTwoPeers
<1>2. /\ control'[p] = Tail(control[p]) /\ control'[o] = control[o] \o msgs
  <2>1. control' = [control EXCEPT ![p] = Tail(@), ![o] = @ \o msgs]
    BY DEF HandleAndSend
  <2> HIDE DEF o
  <2> QED BY <1>1, <2>1 DEF TypeOK
<1>3. /\ control[p] \in Seq(Control) /\ n \in Nat /\ DOMAIN control[p] = 1 .. n
      /\ control[o] \in Seq(Control) /\ l \in Nat /\ DOMAIN control[o] = 1 .. l
      /\ \A k \in DOMAIN control[p] : control[p][k] \in Control
  BY <1>1, QueueFacts
<1>4. n >= 1 /\ h = control[p][1] /\ h \in Control
  <2>1. n # 0
    BY <1>3, EmptySeq
  <2> QED BY <1>3, <2>1 DEF h
<1>5. DOMAIN control'[p] = 1 .. n - 1 /\ \A i \in 1 .. n - 1 : control'[p][i] = control[p][i + 1]
  <2>1. /\ Tail(control[p]) \in Seq(Control) /\ Len(Tail(control[p])) = n - 1
        /\ \A i \in 1 .. Len(Tail(control[p])) : Tail(control[p])[i] = control[p][i + 1]
    BY <1>3, HeadTailProperties
  <2>2. DOMAIN Tail(control[p]) = 1 .. n - 1
    BY <2>1, LenProperties
  <2> HIDE DEF n
  <2> QED BY <1>2, <2>1, <2>2
<1> DEFINE c == Len(msgs)
<1>6. /\ c \in Nat /\ DOMAIN msgs = 1 .. c
      /\ DOMAIN control'[o] = 1 .. l + c
      /\ \A i \in 1 .. l : control'[o][i] = control[o][i]
      /\ \A i \in 1 .. c : control'[o][l + i] = msgs[i]
  <2>1. c \in Nat /\ DOMAIN msgs = 1 .. c
    BY LenProperties
  <2>2. /\ control[o] \o msgs \in Seq(Control) /\ Len(control[o] \o msgs) = l + c
        /\ \A i \in 1 .. l + c : (control[o] \o msgs)[i] = IF i <= l THEN control[o][i] ELSE msgs[i - l]
    BY <1>3, ConcatProperties
  <2>3. DOMAIN (control[o] \o msgs) = 1 .. l + c
    BY <2>2, LenProperties
  <2> HIDE DEF l, c, o
  <2>4. ASSUME NEW i \in 1 .. l PROVE control'[o][i] = control[o][i]
    <3>1. i \in 1 .. l + c /\ i <= l
      BY <1>3, <2>1
    <3> QED BY <1>2, <2>2, <3>1
  <2>5. ASSUME NEW i \in 1 .. c PROVE control'[o][l + i] = msgs[i]
    <3> DEFINE k == l + i
    <3>1. k \in 1 .. l + c /\ ~(k <= l) /\ k - l = i
      BY <1>3, <2>1
    <3> HIDE DEF k
    <3>2. control'[o][k] = msgs[k - l]
      BY <1>2, <2>2, <3>1
    <3> QED BY <3>1, <3>2 DEF k
  <2> QED BY <1>2, <2>1, <2>3, <2>4, <2>5
<1> HIDE DEF o, n, l, h, c
<1>7. ASSUME NEW y \in MessageType, NEW u \in Transfer
      PROVE  /\ UnderWay(p, y, u)' => UnderWay(p, y, u)
             /\ UnderWay(p, y, u) => UnderWay(p, y, u)' \/ h = Msg(y, u)
             /\ UnderWay(o, y, u)' <=> UnderWay(o, y, u) \/ \E i \in DOMAIN msgs : msgs[i] = Msg(y, u)
  <2>1. UnderWay(p, y, u)' => UnderWay(p, y, u)
    <3> SUFFICES ASSUME NEW k \in 1 .. n - 1, control'[p][k] = Msg(y, u)
                 PROVE  UnderWay(p, y, u)
      BY <1>5 DEF UnderWay
    <3>1. k + 1 \in 1 .. n /\ control[p][k + 1] = Msg(y, u)
      BY <1>3, <1>5
    <3> QED BY <1>3, <3>1 DEF UnderWay
  <2>2. UnderWay(p, y, u) => UnderWay(p, y, u)' \/ h = Msg(y, u)
    <3> SUFFICES ASSUME NEW k \in 1 .. n, control[p][k] = Msg(y, u), k # 1
                 PROVE  UnderWay(p, y, u)'
      BY <1>3, <1>4 DEF UnderWay
    <3>1. k - 1 \in 1 .. n - 1 /\ control'[p][k - 1] = control[p][k]
      <4>1. k - 1 \in 1 .. n - 1 /\ k - 1 + 1 = k
        BY <1>3
      <4> QED BY <1>5, <4>1
    <3> QED BY <1>5, <3>1 DEF UnderWay
  <2>3. UnderWay(o, y, u)' => UnderWay(o, y, u) \/ \E i \in DOMAIN msgs : msgs[i] = Msg(y, u)
    <3> SUFFICES ASSUME NEW k \in 1 .. l + c, control'[o][k] = Msg(y, u), k \notin 1 .. l
                 PROVE  \E i \in DOMAIN msgs : msgs[i] = Msg(y, u)
      BY <1>3, <1>6 DEF UnderWay
    <3>1. k - l \in 1 .. c /\ l + (k - l) = k
      BY <1>3, <1>6
    <3>2. msgs[k - l] = Msg(y, u)
      BY <1>6, <3>1
    <3> QED BY <1>6, <3>1, <3>2
  <2>4. UnderWay(o, y, u) => UnderWay(o, y, u)'
    <3> SUFFICES ASSUME NEW k \in 1 .. l, control[o][k] = Msg(y, u)
                 PROVE  UnderWay(o, y, u)'
      BY <1>3 DEF UnderWay
    <3>1. k \in 1 .. l + c
      BY <1>3, <1>6
    <3> QED BY <1>6, <3>1 DEF UnderWay
  <2>5. ASSUME NEW i \in DOMAIN msgs, msgs[i] = Msg(y, u)
        PROVE  UnderWay(o, y, u)'
    <3>1. l + i \in 1 .. l + c /\ control'[o][l + i] = msgs[i]
      BY <1>3, <1>6
    <3> QED BY <1>6, <2>5, <3>1 DEF UnderWay
  <2> QED BY <2>1, <2>2, <2>3, <2>4, <2>5
<1>8. ASSUME NEW u \in Transfer, h.id = u PROVE ~UnderWay(p, "metadata", u)'
  <2> SUFFICES ASSUME NEW k \in 1 .. n - 1, control'[p][k] = Msg("metadata", u)
               PROVE  FALSE
    BY <1>5 DEF UnderWay
  <2>1. k + 1 \in 1 .. n /\ control[p][k + 1] = Msg("metadata", u) /\ 1 \in 1 .. n
    BY <1>3, <1>4, <1>5
  <2>2. control[p][k + 1].type = "metadata" /\ control[p][1].id = control[p][k + 1].id
    BY <1>4, <1>8, <2>1 DEF Msg
  <2>3. k + 1 <= 1
    BY <1>3, <2>1, <2>2 DEF MetadataFirst
  <2> QED BY <2>3
<1>9. h.type # "metadata" => ~UnderWay(p, "metadata", h.id)
  <2> SUFFICES ASSUME NEW k \in 1 .. n, control[p][k] = Msg("metadata", h.id), h.type # "metadata"
               PROVE  FALSE
    BY <1>3 DEF UnderWay
  <2>1. control[p][k].type = "metadata" /\ control[p][1].id = control[p][k].id /\ 1 \in 1 .. n
    BY <1>3, <1>4 DEF Msg
  <2>2. k <= 1
    BY <1>3, <2>1 DEF MetadataFirst
  <2> QED BY <1>3, <1>4, <2>1, <2>2
<1>10. UnderWay(p, h.type, h.id)
  <2>1. h = Msg(h.type, h.id) /\ 1 \in 1 .. n
    BY <1>3, <1>4 DEF Control, Msg
  <2> QED BY <1>3, <1>4, <2>1 DEF UnderWay
<1>11. MetadataFirst'
  <2> SUFFICES ASSUME NEW q \in Peer, NEW j \in DOMAIN control'[q], NEW k \in DOMAIN control'[q],
                      control'[q][j].type = "metadata", control'[q][k].id = control'[q][j].id
               PROVE  j <= k
    BY DEF MetadataFirst
  <2>1. CASE q = p
    <3>1. j \in 1 .. n - 1 /\ k \in 1 .. n - 1
      BY <1>5, <2>1
    <3>2. /\ j + 1 \in 1 .. n /\ k + 1 \in 1 .. n
          /\ control'[p][j] = control[p][j + 1] /\ control'[p][k] = control[p][k + 1]
      BY <1>3, <1>5, <3>1
    <3>3. j + 1 <= k + 1
      BY <1>3, <2>1, <3>2 DEF MetadataFirst
    <3> QED BY <3>1, <3>3
  <2>2. CASE q = o
    <3>1. j \in 1 .. l + c /\ k \in 1 .. l + c
      BY <1>6, <2>2
    <3>2. j \in 1 .. l
      <4> SUFFICES ASSUME j \notin 1 .. l PROVE FALSE
        OBVIOUS
      <4>1. j - l \in 1 .. c /\ l + (j - l) = j
        BY <1>3, <1>6, <3>1
      <4>2. control'[o][j] = msgs[j - l] /\ j - l \in DOMAIN msgs
        BY <1>6, <4>1
      <4> QED BY <2>2, <4>2
    <3>3. CASE k \in 1 .. l
      <4>1. control'[o][j] = control[o][j] /\ control'[o][k] = control[o][k]
        BY <1>6, <3>2, <3>3
      <4> QED BY <1>1, <1>3, <2>2, <3>2, <3>3, <4>1 DEF MetadataFirst
    <3>4. CASE k \notin 1 .. l
      BY <1>3, <1>6, <3>1, <3>2, <3>4
    <3> QED BY <3>3, <3>4
  <2> QED BY <1>1, <2>1, <2>2
<1> QED BY <1>7, <1>8, <1>9, <1>10, <1>11 DEF o, h
-----------------------------------------------------------------------------
(* The invariant of the offers.                                            *)

\* An offer is under way only before its peer has it, an accept only to the
\* peer that offered, and nothing names a transfer nobody has offered.
Traffic ==
  \A p \in Peer, t \in Transfer :
    /\ UnderWay(p, "metadata", t) => sender[t] = Other(p) /\ saved[p][t] = NONE /\ ~Holds(p, t)
    /\ UnderWay(p, "accept", t) => sender[t] = p
    /\ \A y \in MessageType : UnderWay(p, y, t) => sender[t] # NONE

\* A sender session is for an own offer, a receiver session for one of the
\* other peer that has not been saved yet.
Roles ==
  \A p \in Peer :
    /\ Has(p, "sender") => sender[session[p].id] = p
    /\ Has(p, "receiver") => sender[session[p].id] = Other(p) /\ saved[p][session[p].id] = NONE

\* What the status tells of the session.
Statuses ==
  \A p \in Peer :
    /\ "io" \notin Faults /\ session[p] = NONE => status[p] \in {"Idle", "Completed", "Error"}
    /\ Has(p, "receiver") => status[p] \in {"Offered", "Receiving"}
    /\ AwaitsAccept(p) => status[p] = "Offering"
    /\ Has(p, "sender") /\ session[p].worker_started => status[p] = "Transferring"

\* A destination file holds the offered file, or what a failed copy left of it.
Saved ==
  \A p \in Peer, t \in Transfer :
    saved[p][t] # NONE =>
      /\ sender[t] = Other(p)
      /\ saved[p][t] = Original(t) \/ ("io" \in Faults /\ saved[p][t] = Front(Original(t)))

\* A pipeline was started for an offer somebody made.
Owned == \A t \in Transfer : pipeline[t] # NONE => sender[t] # NONE

OfferInv == MetadataFirst /\ Traffic /\ Roles /\ Statuses /\ Saved /\ Owned

\* OfferInv holds before anything is offered.
LEMMA InitOffers == Init => OfferInv
<1> SUFFICES ASSUME Init PROVE OfferInv
  OBVIOUS
<1>1. \A p \in Peer : DOMAIN control[p] = {}
  BY DEF Init
<1>2. \A p \in Peer, y \in MessageType, t \in Transfer : ~UnderWay(p, y, t)
  BY <1>1 DEF UnderWay
<1>3. MetadataFirst
  BY <1>1 DEF MetadataFirst
<1>4. \A p \in Peer : session[p] = NONE /\ status[p] = "Idle" /\ \A t \in Transfer : saved[p][t] = NONE
  BY DEF Init
<1>5. Owned
  BY DEF Init, Owned
<1> QED BY <1>2, <1>3, <1>4, <1>5
        DEF OfferInv, Traffic, Roles, Statuses, Saved, Has, AwaitsAccept, MessageType

\* The steps that leave sessions, offers and destinations alone.
NoPipelineStarted == \A t \in Transfer : pipeline'[t] # NONE => pipeline[t] # NONE

Quiet == UNCHANGED <<session, status, control, saved, sender>> /\ NoPipelineStarted

\* OfferInv survives a step that leaves sessions, offers and destinations alone.
LEMMA QuietOffers == ASSUME OfferInv, Quiet PROVE OfferInv'
<1>1. UNCHANGED <<session, status, control, saved, sender>> /\ NoPipelineStarted
  BY DEF Quiet
<1>2. Owned'
  BY <1>1 DEF OfferInv, Owned, NoPipelineStarted
<1> QED BY <1>1, <1>2 DEF OfferInv, MetadataFirst, Traffic, Roles, Statuses, Saved, UnderWay, Has,
                    AwaitsAccept, Holds, HasRole

Ended(p, t) == UnderWay(p, "reject", t) \/ UnderWay(p, "cancel", t)

\* Why a session ends without a delivery: the peer is told, or has told, the item
\* at hand is not for it, or its own pipeline has ended; or there is none to end.
Cause(p) ==
  \/ ~up \/ session[p] = NONE
  \/ Has(p, "receiver") /\ file[p] # <<>>
  \/ \E t \in Transfer :
       /\ HasId(p, t)
       /\ Ended(Other(p), t)' \/ Ended(p, t) \/ (Has(p, "sender") /\ pipeline[t] # NONE)

\* The steps that end the session of p and deliver nothing, with what they may
\* add to the control channels, or take from them.
Drop(p) ==
  /\ Cause(p)
  /\ session' = [session EXCEPT ![p] = NONE]
  /\ \A q \in Peer : q # p => status'[q] = status[q]
  /\ "io" \in Faults \/ status'[p] \in {"Idle", "Completed", "Error"}
  /\ UNCHANGED <<saved, sender>>
  /\ NoPipelineStarted
  /\ MetadataFirst'
  /\ \A q \in Peer, y \in MessageType, u \in Transfer :
       UnderWay(q, y, u)' =>
         \/ UnderWay(q, y, u)
         \/ q = Other(p) /\ y \in {"reject", "cancel"} /\ session[p] # NONE /\ u = session[p].id
  /\ \A q \in Peer, y \in MessageType, u \in Transfer :
       UnderWay(q, y, u) => UnderWay(q, y, u)' \/ (q = p /\ session[p] # NONE /\ u = session[p].id)
  /\ \A q \in Peer, u \in Transfer : UnderWay(q, "metadata", u)' <=> UnderWay(q, "metadata", u)

\* OfferInv survives the end of a session without a delivery.
LEMMA DropOffers ==
  ASSUME TypeOK, OfferInv, NEW p \in Peer, Drop(p)
  PROVE  OfferInv'
<1>1. session'[p] = NONE /\ \A q \in Peer : q # p => session'[q] = session[q]
  BY DEF Drop, TypeOK
<1>2. \A q \in Peer : Has(q, "sender")' => Has(q, "sender") /\ q # p
  BY <1>1 DEF Has
<1>3. \A q \in Peer : Has(q, "receiver")' => Has(q, "receiver") /\ q # p
  BY <1>1 DEF Has
<1>4. Traffic'
  <2>1. session[p] # NONE => sender[session[p].id] # NONE
    <3>1. session[p] # NONE => session[p].role \in Role
      BY SessionTyped DEF Session
    <3>2. Other(p) # NONE /\ p # NONE
      BY OtherIsPeer, TransferAssumption
    <3> QED BY <3>1, <3>2 DEF OfferInv, Roles, Has, Role
  <2>2. \A q \in Peer, t \in Transfer : Holds(q, t)' => Holds(q, t)
    BY <1>1 DEF Holds, HasRole, Has
  <2> QED BY <2>1, <2>2 DEF OfferInv, Traffic, Drop, MessageType
<1>5. Roles'
  BY <1>1, <1>2, <1>3 DEF OfferInv, Roles, Drop
<1>6. Statuses'
  BY <1>1, <1>2, <1>3 DEF OfferInv, Statuses, Drop, AwaitsAccept
<1>7. Saved'
  BY DEF OfferInv, Saved, Drop
<1>8. Owned'
  BY DEF OfferInv, Owned, Drop, NoPipelineStarted
<1> QED BY <1>4, <1>5, <1>6, <1>7, <1>8 DEF OfferInv, Drop

\* An empty channel carries nothing.
LEMMA NoMessages == <<>> \in Seq(Control) /\ DOMAIN <<>> = {}
<1>1. <<>> \in Seq(Control) /\ Len(<<>>) = 0
  BY EmptySeq
<1>2. DOMAIN <<>> = 1 .. 0
  BY <1>1, LenProperties
<1> QED BY <1>1, <1>2

\* HandleEffect for a message that is not answered.
LEMMA ConsumeEffect ==
  ASSUME TypeOK, MetadataFirst, NEW p \in Peer, control[p] # <<>>, HandleAndSend(p, <<>>)
  PROVE  /\ \A y \in MessageType, u \in Transfer :
              /\ UnderWay(p, y, u)' => UnderWay(p, y, u)
              /\ UnderWay(p, y, u) => UnderWay(p, y, u)' \/ Head(control[p]) = Msg(y, u)
              /\ UnderWay(Other(p), y, u)' <=> UnderWay(Other(p), y, u)
         /\ \A u \in Transfer : Head(control[p]).id = u => ~UnderWay(p, "metadata", u)'
         /\ Head(control[p]).type # "metadata" => ~UnderWay(p, "metadata", Head(control[p]).id)
         /\ UnderWay(p, Head(control[p]).type, Head(control[p]).id)
         /\ MetadataFirst'
<1> DEFINE none == <<>>
<1>1. none \in Seq(Control) /\ DOMAIN none = {}
  BY NoMessages
<1>2. HandleAndSend(p, none)
  OBVIOUS
<1> HIDE DEF none
<1>3. \A i \in DOMAIN none : none[i].type # "metadata"
  BY <1>1
<1>4. \A y \in MessageType, u \in Transfer : ~ \E i \in DOMAIN none : none[i] = Msg(y, u)
  BY <1>1
<1>5. /\ \A y \in MessageType, u \in Transfer :
           /\ UnderWay(p, y, u)' => UnderWay(p, y, u)
           /\ UnderWay(p, y, u) => UnderWay(p, y, u)' \/ Head(control[p]) = Msg(y, u)
           /\ UnderWay(Other(p), y, u)' <=>
                UnderWay(Other(p), y, u) \/ \E i \in DOMAIN none : none[i] = Msg(y, u)
      /\ \A u \in Transfer : Head(control[p]).id = u => ~UnderWay(p, "metadata", u)'
      /\ Head(control[p]).type # "metadata" => ~UnderWay(p, "metadata", Head(control[p]).id)
      /\ UnderWay(p, Head(control[p]).type, Head(control[p]).id)
      /\ MetadataFirst'
  BY <1>1, <1>2, <1>3, HandleEffect
<1> QED BY <1>4, <1>5

\* HandleEffect for a message that is answered.
LEMMA AnswerEffect ==
  ASSUME TypeOK, MetadataFirst, NEW p \in Peer, control[p] # <<>>,
         NEW type \in MessageType \ {"metadata"}, NEW t \in Transfer,
         HandleAndSend(p, <<Msg(type, t)>>)
  PROVE  /\ \A y \in MessageType, u \in Transfer :
              /\ UnderWay(p, y, u)' => UnderWay(p, y, u)
              /\ UnderWay(p, y, u) => UnderWay(p, y, u)' \/ Head(control[p]) = Msg(y, u)
              /\ UnderWay(Other(p), y, u)' <=> UnderWay(Other(p), y, u) \/ (y = type /\ u = t)
         /\ \A u \in Transfer : Head(control[p]).id = u => ~UnderWay(p, "metadata", u)'
         /\ Head(control[p]).type # "metadata" => ~UnderWay(p, "metadata", Head(control[p]).id)
         /\ UnderWay(p, Head(control[p]).type, Head(control[p]).id)
         /\ MetadataFirst'
<1> DEFINE m == Msg(type, t)
           one == <<m>>
<1>1. m \in Control /\ m.type = type /\ m.type # "metadata"
  BY MsgTyped DEF Msg
<1>2. \A y \in MessageType, u \in Transfer : m = Msg(y, u) <=> y = type /\ u = t
  BY DEF Msg
<1>3. HandleAndSend(p, one)
  OBVIOUS
<1> HIDE DEF m
<1>4. one \in Seq(Control) /\ DOMAIN one = {1} /\ one[1] = m
  BY <1>1
<1> HIDE DEF one
<1>5. \A i \in DOMAIN one : one[i].type # "metadata"
  BY <1>1, <1>4
<1>6. \A y \in MessageType, u \in Transfer :
        (\E i \in DOMAIN one : one[i] = Msg(y, u)) <=> y = type /\ u = t
  BY <1>2, <1>4
<1> QED BY <1>3, <1>4, <1>5, <1>6, HandleEffect

\* Channels that stand still carry what they carried.
LEMMA KeepControl ==
  ASSUME UNCHANGED control
  PROVE  /\ \A q \in Peer, y \in MessageType, u \in Transfer : UnderWay(q, y, u)' <=> UnderWay(q, y, u)
         /\ MetadataFirst => MetadataFirst'
BY DEF UnderWay, MetadataFirst

\* The session of p ends with a word to the peer.
LEMMA DropWithNotice ==
  ASSUME TypeOK, OfferInv, NEW p \in Peer, NEW type \in {"accept", "reject", "cancel"},
         session[p] # NONE, Send(p, Msg(type, session[p].id)), type = "accept" => ~up,
         ClearSession(p), UNCHANGED <<saved, sender, pipeline>>,
         SetStatus(p, "Error") \/ SetStatus(p, "Idle")
  PROVE  Drop(p)
<1>1. session[p].id \in Transfer /\ type \in MessageType /\ type # "metadata"
  BY SessionTyped DEF MessageType
<1>2. /\ \A q \in Peer, y \in MessageType, u \in Transfer :
           UnderWay(q, y, u)' <=> UnderWay(q, y, u) \/ (up /\ q = Other(p) /\ y = type /\ u = session[p].id)
      /\ MetadataFirst'
  BY <1>1, SendEffect DEF OfferInv
<1>3. status' \in [Peer -> Status] /\ status'[p] \in {"Error", "Idle"}
      /\ \A q \in Peer : q # p => status'[q] = status[q]
  BY DEF SetStatus, TypeOK, Status
<1>4. "metadata" \in MessageType
  BY DEF MessageType
<1>5. Cause(p)
  BY <1>1, <1>2, OtherIsPeer DEF Cause, HasId, Ended, MessageType
<1> QED BY <1>1, <1>2, <1>3, <1>4, <1>5 DEF Drop, ClearSession, NoPipelineStarted

\* The session of p ends silently, or because of the message p handles.
LEMMA DropInSilence ==
  ASSUME TypeOK, OfferInv, NEW p \in Peer, ClearSession(p), UNCHANGED <<saved, sender>>,
         NoPipelineStarted, Cause(p),
         \E s \in {"Error", "Idle", "Completed"} : SetStatus(p, s),
         \/ UNCHANGED control
         \/ /\ control[p] # <<>> /\ Head(control[p]).type \in {"accept", "reject", "cancel"}
            /\ HasId(p, Head(control[p]).id) /\ HandleAndSend(p, <<>>)
  PROVE  Drop(p)
<1>1. status'[p] \in {"Error", "Idle", "Completed"} /\ \A q \in Peer : q # p => status'[q] = status[q]
  BY DEF SetStatus, TypeOK, Status
<1>2. /\ \A q \in Peer, y \in MessageType, u \in Transfer :
           /\ UnderWay(q, y, u)' => UnderWay(q, y, u)
           /\ UnderWay(q, y, u) => UnderWay(q, y, u)' \/ (q = p /\ session[p] # NONE /\ u = session[p].id)
      /\ \A q \in Peer, u \in Transfer : UnderWay(q, "metadata", u)' <=> UnderWay(q, "metadata", u)
      /\ MetadataFirst'
  <2>1. CASE UNCHANGED control
    BY <2>1, KeepControl DEF OfferInv, MessageType
  <2>2. CASE /\ control[p] # <<>> /\ Head(control[p]).type \in {"accept", "reject", "cancel"}
             /\ HasId(p, Head(control[p]).id) /\ HandleAndSend(p, <<>>)
    <3>3. /\ \A y \in MessageType, u \in Transfer :
               /\ UnderWay(p, y, u)' => UnderWay(p, y, u)
               /\ UnderWay(p, y, u) => UnderWay(p, y, u)' \/ Head(control[p]) = Msg(y, u)
               /\ UnderWay(Other(p), y, u)' <=> UnderWay(Other(p), y, u)
          /\ MetadataFirst'
      BY <2>2, ConsumeEffect DEF OfferInv
    <3>4. \A q \in Peer : q = p \/ q = Other(p)
      BY OnlyTwoPeers
    <3>5. \A u \in Transfer : Head(control[p]) # Msg("metadata", u)
      BY <2>2 DEF Msg
    <3>6. "metadata" \in MessageType
      BY DEF MessageType
    <3>7. session[p] # NONE /\ \A y \in MessageType, u \in Transfer :
            Head(control[p]) = Msg(y, u) => u = session[p].id
      BY <2>2 DEF Msg, HasId
    <3> QED BY <3>3, <3>4, <3>5, <3>6, <3>7
  <2> QED BY <2>1, <2>2
<1> QED BY <1>1, <1>2 DEF Drop, ClearSession

\* A command, a deadline or a tear-down that ends a session is a Drop.
LEMMA CommandDrops ==
  ASSUME TypeOK, OfferInv, NEW p \in Peer,
         (AcceptOffer(p) /\ ~up) \/ RejectOffer(p) \/ CancelTransfer(p) \/ Timeout(p) \/ Dispose(p)
  PROVE  Drop(p)
<1>1. CASE AcceptOffer(p) /\ ~up
  BY <1>1, DropWithNotice DEF AcceptOffer, FailSession, Has
<1>2. CASE RejectOffer(p)
  <2>1. CASE session[p] = NONE
    BY <1>2, <2>1, DropInSilence DEF RejectOffer, NoPipelineStarted, Cause
  <2>2. CASE session[p] # NONE
    BY <1>2, <2>2, DropWithNotice DEF RejectOffer
  <2> QED BY <2>1, <2>2
<1>3. CASE CancelTransfer(p)
  BY <1>3, DropWithNotice DEF CancelTransfer, FailSession
<1>4. CASE Timeout(p)
  BY <1>4, DropWithNotice DEF Timeout, FailSession, AwaitsAccept, AwaitsActivity, Has
<1>5. CASE Dispose(p)
  BY <1>5, DropInSilence DEF Dispose, NoPipelineStarted, Cause
<1> QED BY <1>1, <1>2, <1>3, <1>4, <1>5

\* A message that is handled and changes nothing else.
Consume(p) ==
  /\ control[p] # <<>> /\ Head(control[p]).type \in {"accept", "reject", "cancel"}
  /\ Head(control[p]).type = "accept" \/ ~HasId(p, Head(control[p]).id)
  /\ HandleAndSend(p, <<>>)
  /\ UNCHANGED <<session, status, pipeline, saved, sender>>

\* A reject or a cancel ends the session it names, or none.
LEMMA EndDrops ==
  ASSUME TypeOK, OfferInv, NEW p \in Peer, ReceiveEnd(p)
  PROVE  (HasId(p, Head(control[p]).id) /\ Drop(p)) \/ Consume(p)
<1>1. control[p] # <<>> /\ Head(control[p]).type \in {"accept", "reject", "cancel"}
  BY DEF ReceiveEnd, Incoming
<1>2. CASE HasId(p, Head(control[p]).id)
  <2>1. Cause(p)
    <3>1. UnderWay(p, Head(control[p]).type, Head(control[p]).id) /\ Head(control[p]).id \in Transfer
      BY <1>1, ConsumeEffect, HeadTyped DEF ReceiveEnd, OfferInv
    <3>2. Head(control[p]).type \in {"reject", "cancel"}
      BY DEF ReceiveEnd, Incoming
    <3> QED BY <1>2, <3>1, <3>2 DEF Cause, Ended
  <2> QED BY <1>1, <1>2, <2>1, DropInSilence DEF ReceiveEnd, FailSession, NoPipelineStarted
<1>3. CASE ~HasId(p, Head(control[p]).id)
  BY <1>1, <1>3 DEF ReceiveEnd, Consume
<1> QED BY <1>2, <1>3

\* A chunk is counted.
Count(p) ==
  /\ Has(p, "receiver") /\ file[p] # <<>>
  /\ session' = [session EXCEPT ![p].bytes_received = session[p].bytes_received + 1,
                   ![p].written = IF session[p].accepts > 0
                                  THEN Append(@, Head(file[p]).chunk) ELSE @]
  /\ SetStatus(p, "Receiving") \/ UNCHANGED status
  /\ UNCHANGED <<control, pipeline, saved, sender>>

\* What receiving a chunk comes to: ignored, counted, or the end of the session.
LEMMA ChunkCases ==
  ASSUME TypeOK, OfferInv, NEW p \in Peer, ReceiveChunk(p)
  PROVE  Quiet \/ Count(p) \/ (Has(p, "receiver") /\ Drop(p) /\ FailSession(p))
<1>1. UNCHANGED <<control, pipeline, saved, sender>> /\ file[p] # <<>>
  BY DEF ReceiveChunk, NextItem
<1>2. CASE UNCHANGED <<session, status, cancelled>>
  BY <1>1, <1>2 DEF Quiet, NoPipelineStarted
<1>3. CASE Has(p, "receiver") /\ FailSession(p)
  <2>1. Cause(p)
    BY <1>1, <1>3 DEF Cause
  <2> QED BY <1>1, <1>3, <2>1, DropInSilence DEF FailSession, NoPipelineStarted
<1>4. CASE ~UNCHANGED <<session, status, cancelled>> /\ ~(Has(p, "receiver") /\ FailSession(p))
  BY <1>1, <1>4 DEF ReceiveChunk, Count
<1> QED BY <1>2, <1>3, <1>4

\* A destination file is written, whole or in part.
Save(p) ==
  LET t == session[p].id IN
  /\ Has(p, "receiver")
  /\ session[p].accepts > 0
  /\ file[p] # <<>> /\ Head(file[p]).type = "eof" /\ Head(file[p]).chunk.id = t
  /\ session' = [session EXCEPT ![p] = NONE]
  /\ \/ saved' = [saved EXCEPT ![p][t] = Original(t)] /\ SetStatus(p, "Completed")
     \/ /\ "io" \in Faults
        /\ saved' = [saved EXCEPT ![p][t] = Front(Original(t))]
        /\ UNCHANGED status
  /\ UNCHANGED <<control, pipeline, sender>>

\* What the end of a file comes to: ignored, saved, or the end of the session.
LEMMA EofCases ==
  ASSUME TypeOK, OfferInv, NEW p \in Peer, ReceiveEof(p)
  PROVE  Quiet \/ Save(p) \/ (HasRole(p, "receiver", Head(file[p]).chunk.id) /\ Drop(p))
<1> DEFINE t == Head(file[p]).chunk.id
           ok == session[p].bytes_received = Size[t] /\ SameHash(session[p])
<1>1. UNCHANGED <<control, pipeline, sender>> /\ file[p] # <<>> /\ Head(file[p]).type = "eof"
  BY DEF ReceiveEof, NextItem
<1>2. CASE UNCHANGED <<session, status, cancelled, saved>>
  BY <1>1, <1>2 DEF Quiet, NoPipelineStarted
<1>3. CASE HasRole(p, "receiver", t) /\ FailSession(p) /\ UNCHANGED saved
  <2>1. Cause(p)
    BY <1>1, <1>3 DEF Cause, HasRole
  <2> QED BY <1>1, <1>3, <2>1, DropInSilence DEF FailSession, NoPipelineStarted
<1>4. CASE /\ HasRole(p, "receiver", t)
           /\ ok
           /\ saved' = [saved EXCEPT ![p][t] = session[p].written]
           /\ ClearSession(p)
           /\ SetStatus(p, "Completed")
  <2>1. Save(p)
    BY <1>1, <1>4 DEF Save, SameHash, HasRole, ClearSession
  <2> QED BY <2>1
<1>5. CASE HasRole(p, "receiver", t) /\ ok /\ FinalizeFails(p)
  <2>1. CASE UNCHANGED saved
    <3>1. /\ MetadataFirst'
          /\ \A q \in Peer, y \in MessageType, u \in Transfer : UnderWay(q, y, u)' <=> UnderWay(q, y, u)
          /\ "metadata" \in MessageType
      BY <1>1, KeepControl DEF OfferInv, MessageType
    <3>2. Drop(p)
      BY <1>1, <1>5, <2>1, <3>1 DEF Drop, FinalizeFails, NoPipelineStarted, Cause, HasRole
    <3> QED BY <1>5, <3>2
  <2>2. CASE ~UNCHANGED saved
    BY <1>1, <1>5, <2>2 DEF FinalizeFails, Save, SameHash, HasRole
  <2> QED BY <2>1, <2>2
<1> QED BY <1>2, <1>3, <1>4, <1>5 DEF ReceiveEof

\* A pipeline's report ends the session it belongs to, and no other.
LEMMA ReportCases ==
  ASSUME TypeOK, OfferInv, NEW t \in Transfer, Report(t)
  PROVE  /\ sender[t] \in Peer /\ pipeline[t] # NONE
         /\ \/ ~HasRole(sender[t], "sender", t) /\ Quiet
            \/ HasRole(sender[t], "sender", t) /\ Drop(sender[t])
<1>1. pipeline[t] # NONE
  BY DEF Report
<1>2. sender[t] \in Peer
  BY <1>1 DEF OfferInv, Owned, TypeOK
<1>3. UNCHANGED <<control, saved, sender>> /\ NoPipelineStarted
  BY DEF Report, Pipe, NoPipelineStarted, TypeOK
<1>4. CASE HasRole(sender[t], "sender", t)
  <2>1. ClearSession(sender[t]) /\ (SetStatus(sender[t], "Completed") \/ SetStatus(sender[t], "Error"))
    BY <1>4 DEF Report
  <2>2. Cause(sender[t])
    BY <1>1, <1>4 DEF Cause, HasId, HasRole, Has
  <2> QED BY <1>1, <1>2, <1>3, <1>4, <2>1, <2>2, DropInSilence
<1>5. CASE ~HasRole(sender[t], "sender", t)
  BY <1>1, <1>2, <1>3, <1>5 DEF Report, Quiet
<1> QED BY <1>4, <1>5

\* What the pipeline tasks and an edit of the source file leave alone.
LEMMA PipelineQuiet ==
  ASSUME TypeOK, NEW t \in Transfer, ReaderStep(t) \/ WriterStep(t) \/ Edit(t)
  PROVE  Quiet
<1>1. UNCHANGED <<session, status, control, saved, sender>>
  BY DEF ReaderStep, WriterStep, ReadChunk, TakeChunk, SendChunk, SendEof, Edit
<1>2. CASE Edit(t)
  BY <1>1, <1>2 DEF Edit, Quiet, NoPipelineStarted
<1>3. CASE ReaderStep(t) \/ WriterStep(t)
  <2>1. pipeline[t] # NONE
    BY <1>3 DEF ReaderStep, WriterStep, ReadChunk, TakeChunk, SendChunk, SendEof, Running
  <2>2. \A u \in Transfer : u # t => pipeline'[u] = pipeline[u]
    BY <1>3 DEF ReaderStep, WriterStep, ReadChunk, TakeChunk, SendChunk, SendEof, Pipe, TypeOK
  <2> QED BY <1>1, <2>1, <2>2 DEF Quiet, NoPipelineStarted
<1> QED BY <1>2, <1>3

\* OfferInv survives an offer.
LEMMA SendOfferKeeps ==
  ASSUME TypeOK, OfferInv, NEW p \in Peer, NEW t \in Transfer, SendOffer(p, t)
  PROVE  OfferInv'
<1>1. sender[t] = NONE /\ sender' = [sender EXCEPT ![t] = p] /\ p # NONE
  BY TransferAssumption DEF SendOffer
<1>2. /\ \A q \in Peer, y \in MessageType, u \in Transfer :
           UnderWay(q, y, u)' <=>
             UnderWay(q, y, u) \/ (up /\ q = Other(p) /\ y = "metadata" /\ u = t)
      /\ MetadataFirst'
  <2>1. \A y \in MessageType : ~UnderWay(Other(p), y, t)
    BY <1>1, OtherIsPeer DEF OfferInv, Traffic
  <2> QED BY <2>1, SendEffect DEF SendOffer, OfferInv, MessageType
<1>3. /\ session[p] = NONE /\ UNCHANGED <<saved, pipeline>>
      /\ \/ up /\ session' = [session EXCEPT ![p] = NewSession(t, "sender")] /\ SetStatus(p, "Offering")
         \/ ~up /\ UNCHANGED session /\ SetStatus(p, "Error")
  BY DEF SendOffer
<1>4. /\ \A q \in Peer : q # p => session'[q] = session[q] /\ status'[q] = status[q]
      /\ up => session'[p] = NewSession(t, "sender") /\ status'[p] = "Offering"
      /\ ~up => session'[p] = NONE /\ status'[p] = "Error"
  BY <1>3 DEF TypeOK, SetStatus
<1>5. NewSession(t, "sender") # NONE
  BY NewSessionTyped DEF Role
<1>6. \A u \in Transfer : sender[u] # NONE => sender'[u] = sender[u]
  BY <1>1 DEF TypeOK
<1>7. sender'[t] = p
  BY <1>1 DEF TypeOK
<1>8. \A q \in Peer : saved[q][t] = NONE /\ session[q] # NONE => session[q].id # t
  <2>1. \A q \in Peer : session[q] # NONE => session[q].role \in Role
    BY SessionTyped DEF Session
  <2>2. \A q \in Peer : Other(q) # NONE /\ q # NONE
    BY OtherIsPeer, TransferAssumption
  <2> QED BY <1>1, <2>1, <2>2 DEF OfferInv, Roles, Has, Role
<1>9. \A q \in Peer : saved[q][t] = NONE
  <2>1. \A q \in Peer : Other(q) # NONE
    BY OtherIsPeer, TransferAssumption
  <2> QED BY <1>1, <2>1 DEF OfferInv, Saved
<1>10. \A q \in Peer : Has(q, "receiver")' => q # p /\ Has(q, "receiver")
  BY <1>3, <1>4 DEF Has, NewSession
<1>11. \A q \in Peer, u \in Transfer : Holds(q, u)' => q # p /\ Holds(q, u)
  BY <1>4, <1>10 DEF Holds, HasRole, Has
<1>12. Traffic'
  <2>1. ASSUME NEW q \in Peer, NEW u \in Transfer, UnderWay(q, "metadata", u)'
        PROVE  sender'[u] = Other(q) /\ saved'[q][u] = NONE /\ ~Holds(q, u)'
    <3>1. "metadata" \in MessageType
      BY DEF MessageType
    <3>2. CASE UnderWay(q, "metadata", u)
      <4>1. sender[u] = Other(q) /\ Other(q) # NONE /\ saved[q][u] = NONE /\ ~Holds(q, u)
        BY <3>2, OtherIsPeer, TransferAssumption DEF OfferInv, Traffic
      <4> QED BY <1>3, <1>6, <1>11, <4>1
    <3>3. CASE q = Other(p) /\ u = t
      <4>1. Other(q) = p
        BY <3>3, OtherIsPeer
      <4>2. ~Holds(q, t)
        BY <1>8, <1>9 DEF Holds, HasRole, Has
      <4> QED BY <1>3, <1>7, <1>9, <1>11, <3>3, <4>1, <4>2
    <3> QED BY <1>2, <2>1, <3>1, <3>2, <3>3
  <2>2. ASSUME NEW q \in Peer, NEW u \in Transfer, UnderWay(q, "accept", u)'
        PROVE  sender'[u] = q
    <3>1. UnderWay(q, "accept", u)
      BY <1>2, <2>2 DEF MessageType
    <3>2. sender[u] = q /\ q # NONE
      BY <3>1, TransferAssumption DEF OfferInv, Traffic
    <3> QED BY <1>6, <3>2
  <2>3. ASSUME NEW q \in Peer, NEW u \in Transfer, NEW y \in MessageType, UnderWay(q, y, u)'
        PROVE  sender'[u] # NONE
    BY <1>1, <1>2, <1>6, <1>7, <2>3 DEF OfferInv, Traffic
  <2> QED BY <2>1, <2>2, <2>3 DEF Traffic
<1>13. Roles'
  <2>1. \A q \in Peer : q # p /\ session[q] # NONE => sender'[session[q].id] = sender[session[q].id]
    BY <1>1, <1>8, <1>9, SessionTyped DEF TypeOK
  <2> QED BY <1>3, <1>4, <1>7, <1>10, <2>1 DEF OfferInv, Roles, Has, NewSession
<1>14. Statuses'
  BY <1>3, <1>4, <1>5, <1>10 DEF OfferInv, Statuses, Has, AwaitsAccept, NewSession
<1>15. Saved'
  <2>1. \A q \in Peer : Other(q) # NONE
    BY OtherIsPeer, TransferAssumption
  <2> QED BY <1>3, <1>6, <2>1 DEF OfferInv, Saved
<1>16. Owned'
  BY <1>3, <1>6, <1>7, <1>1 DEF OfferInv, Owned
<1> QED BY <1>2, <1>12, <1>13, <1>14, <1>15, <1>16 DEF OfferInv

\* What accepting changes while the channel is open.
LEMMA AcceptFacts ==
  ASSUME TypeOK, OfferInv, NEW p \in Peer, AcceptOffer(p), up
  PROVE  /\ Has(p, "receiver") /\ session[p].id \in Transfer
         /\ UNCHANGED <<saved, sender, pipeline>>
         /\ session'[p] # NONE
         /\ session'[p].id = session[p].id /\ session'[p].role = session[p].role
         /\ session'[p].accepts = session[p].accepts + 1 /\ session[p].accepts \in Nat
         /\ status'[p] = "Receiving"
         /\ \A q \in Peer : q # p => session'[q] = session[q] /\ status'[q] = status[q]
         /\ \A q \in Peer, y \in MessageType, u \in Transfer :
              UnderWay(q, y, u)' <=>
                UnderWay(q, y, u) \/ (q = Other(p) /\ y = "accept" /\ u = session[p].id)
         /\ MetadataFirst'
<1>1. /\ Has(p, "receiver") /\ session[p].id \in Transfer /\ session[p] \in Session
      /\ session' = [session EXCEPT ![p].accepts = @ + 1, ![p].written = <<>>]
      /\ status' = [status EXCEPT ![p] = "Receiving"]
      /\ UNCHANGED <<saved, sender, pipeline>>
  BY SessionTyped DEF AcceptOffer, SetStatus, Has
<1>2. /\ \A q \in Peer, y \in MessageType, u \in Transfer :
           UnderWay(q, y, u)' <=>
             UnderWay(q, y, u) \/ (q = Other(p) /\ y = "accept" /\ u = session[p].id)
      /\ MetadataFirst'
  <2>1. Send(p, Msg("accept", session[p].id)) /\ "accept" \in MessageType /\ "accept" # "metadata"
    BY DEF AcceptOffer, MessageType
  <2> QED BY <1>1, <2>1, SendEffect DEF OfferInv
<1>3. session'[p] = [session[p] EXCEPT !.accepts = @ + 1, !.written = <<>>]
  BY <1>1 DEF TypeOK
<1>4. session'[p] # NONE
  BY <1>1, <1>3, AcceptedTyped, TransferAssumption
<1>5. /\ session'[p].id = session[p].id /\ session'[p].role = session[p].role
      /\ session'[p].accepts = session[p].accepts + 1 /\ session[p].accepts \in Nat
  <2>1. session[p] \in Session
    BY <1>1
  <2>2. session[p].accepts \in Nat
    BY <2>1 DEF Session
  <2>3. session'[p].id = session[p].id
    BY <1>3, <2>1 DEF Session
  <2>4. session'[p].role = session[p].role
    BY <1>3, <2>1 DEF Session
  <2>5. session'[p].accepts = session[p].accepts + 1
    BY <1>3, <2>1 DEF Session
  <2> QED BY <2>2, <2>3, <2>4, <2>5
<1>6. /\ status'[p] = "Receiving"
      /\ \A q \in Peer : q # p => session'[q] = session[q] /\ status'[q] = status[q]
  BY <1>1 DEF TypeOK
<1> QED BY <1>1, <1>2, <1>4, <1>5, <1>6

\* OfferInv survives an accept of the user.
LEMMA AcceptKeeps ==
  ASSUME TypeOK, OfferInv, NEW p \in Peer, AcceptOffer(p), up
  PROVE  OfferInv'
<1>1. /\ Has(p, "receiver") /\ session[p].id \in Transfer
      /\ UNCHANGED <<saved, sender, pipeline>>
      /\ session'[p] # NONE
      /\ session'[p].id = session[p].id /\ session'[p].role = session[p].role
      /\ status'[p] = "Receiving"
      /\ \A q \in Peer : q # p => session'[q] = session[q] /\ status'[q] = status[q]
  BY AcceptFacts
<1>2. /\ \A q \in Peer, y \in MessageType, u \in Transfer :
           UnderWay(q, y, u)' <=>
             UnderWay(q, y, u) \/ (q = Other(p) /\ y = "accept" /\ u = session[p].id)
      /\ MetadataFirst'
  BY AcceptFacts
<1>3. \A q \in Peer : /\ Has(q, "receiver")' => Has(q, "receiver") /\ session'[q].id = session[q].id
                      /\ Has(q, "sender")' => Has(q, "sender") /\ q # p
  BY <1>1 DEF Has
<1>4. \A q \in Peer, u \in Transfer : Holds(q, u)' => Holds(q, u)
  BY <1>1, <1>3 DEF Holds, HasRole
<1>5. sender[session[p].id] = Other(p) /\ Other(p) \in Peer /\ Other(p) # NONE
  BY <1>1, OtherIsPeer, TransferAssumption DEF OfferInv, Roles
<1>6. Traffic'
  BY <1>1, <1>2, <1>4, <1>5 DEF OfferInv, Traffic, MessageType
<1>7. Roles'
  BY <1>1, <1>3 DEF OfferInv, Roles
<1>8. Statuses'
  BY <1>1, <1>3 DEF OfferInv, Statuses, AwaitsAccept
<1>9. Saved' /\ Owned'
  BY <1>1 DEF OfferInv, Saved, Owned
<1> QED BY <1>2, <1>6, <1>7, <1>8, <1>9 DEF OfferInv

\* An offer is taken: p becomes its receiver, cancelling its own if it had one.
Take(p, t) ==
  /\ ~Has(p, "receiver")
  /\ session' = [session EXCEPT ![p] = NewSession(t, "receiver")]
  /\ SetStatus(p, "Offered")
  /\ UNCHANGED <<pipeline, saved, sender>>
  /\ \/ session[p] = NONE /\ HandleAndSend(p, <<>>)
     \/ AwaitsAccept(p) /\ ~Outranks(session[p].id, t) /\ HandleAndSend(p, <<Msg("cancel", session[p].id)>>)

\* An offer is refused by a peer that is busy.
Refuse(p, t) ==
  /\ session[p] # NONE
  /\ AwaitsAccept(p) => Outranks(session[p].id, t)
  /\ UNCHANGED <<session, status, pipeline, saved, sender>>
  /\ HandleAndSend(p, <<Msg("reject", t)>>)

\* An offer that arrives is taken or refused.
LEMMA MetadataCases ==
  ASSUME TypeOK, OfferInv, NEW p \in Peer, ReceiveMetadata(p)
  PROVE  /\ control[p] # <<>> /\ Head(control[p]).type = "metadata" /\ Head(control[p]).id \in Transfer
         /\ Take(p, Head(control[p]).id) \/ Refuse(p, Head(control[p]).id)
<1> DEFINE t == Head(control[p]).id
           Colliding == Has(p, "sender") /\ status[p] = "Offering"
<1>1. control[p] # <<>> /\ Head(control[p]).type = "metadata" /\ t \in Transfer
  BY HeadTyped DEF ReceiveMetadata, Incoming
<1>2. Colliding <=> AwaitsAccept(p)
  BY DEF OfferInv, Statuses, AwaitsAccept
<1>3. Has(p, "sender") => session[p] # NONE /\ ~Has(p, "receiver")
  BY DEF Has
<1>4. UNCHANGED <<pipeline, saved, sender>>
  BY DEF ReceiveMetadata
<1>5. \/ /\ session[p] = NONE /\ HandleAndSend(p, <<>>)
         /\ session' = [session EXCEPT ![p] = NewSession(t, "receiver")] /\ SetStatus(p, "Offered")
      \/ /\ Colliding /\ ~Outranks(session[p].id, t) /\ HandleAndSend(p, <<Msg("cancel", session[p].id)>>)
         /\ session' = [session EXCEPT ![p] = NewSession(t, "receiver")] /\ SetStatus(p, "Offered")
      \/ /\ Colliding /\ Outranks(session[p].id, t)
         /\ HandleAndSend(p, <<Msg("reject", t)>>) /\ UNCHANGED <<session, status>>
      \/ /\ session[p] # NONE /\ ~Colliding
         /\ HandleAndSend(p, <<Msg("reject", t)>>) /\ UNCHANGED <<session, status>>
  BY DEF ReceiveMetadata
<1> HIDE DEF t, Colliding
<1>6. Take(p, t) \/ Refuse(p, t)
  <2>1. session[p] = NONE => ~Has(p, "receiver")
    BY DEF Has
  <2>2. Colliding => Has(p, "sender")
    BY DEF Colliding
  <2> QED BY <1>2, <1>3, <1>4, <1>5, <2>1, <2>2 DEF Take, Refuse
<1> QED BY <1>1, <1>6 DEF t

\* The metadata of t is handled: it is gone, and nothing but a reject of t or a
\* cancel of the own offer comes instead.
MetadataHandled(p, t) ==
  /\ UnderWay(p, "metadata", t)
  /\ ~UnderWay(p, "metadata", t)'
  /\ MetadataFirst'
  /\ \A y \in MessageType, u \in Transfer :
       /\ UnderWay(p, y, u)' => UnderWay(p, y, u)
       /\ UnderWay(p, y, u) => UnderWay(p, y, u)' \/ (y = "metadata" /\ u = t)
       /\ UnderWay(Other(p), y, u) => UnderWay(Other(p), y, u)'
       /\ UnderWay(Other(p), y, u)' /\ ~UnderWay(Other(p), y, u) =>
            \/ y = "reject" /\ u = t /\ Refuse(p, t)
            \/ y = "cancel" /\ session[p] # NONE /\ u = session[p].id

\* What either does to the messages under way.
LEMMA MetadataEffect ==
  ASSUME TypeOK, OfferInv, NEW p \in Peer, NEW t \in Transfer, control[p] # <<>>,
         Head(control[p]).type = "metadata", Head(control[p]).id = t,
         Take(p, t) \/ Refuse(p, t)
  PROVE  /\ MetadataHandled(p, t)
         /\ Refuse(p, t) => UnderWay(Other(p), "reject", t)'
         /\ AwaitsAccept(p) /\ Take(p, t) =>
              \A u \in Transfer : u = session[p].id => UnderWay(Other(p), "cancel", u)'
<1>1. \A y \in MessageType, u \in Transfer : Head(control[p]) = Msg(y, u) => y = "metadata" /\ u = t
  BY DEF Msg
<1>2. CASE HandleAndSend(p, <<>>) /\ ~AwaitsAccept(p) /\ ~Refuse(p, t)
  <2>1. /\ \A y \in MessageType, u \in Transfer :
             /\ UnderWay(p, y, u)' => UnderWay(p, y, u)
             /\ UnderWay(p, y, u) => UnderWay(p, y, u)' \/ Head(control[p]) = Msg(y, u)
             /\ UnderWay(Other(p), y, u)' <=> UnderWay(Other(p), y, u)
        /\ ~UnderWay(p, "metadata", t)'
        /\ UnderWay(p, "metadata", t)
        /\ MetadataFirst'
    BY <1>2, ConsumeEffect DEF OfferInv
  <2> QED BY <1>1, <1>2, <2>1 DEF MetadataHandled
<1>3. CASE Refuse(p, t)
  <2>5. HandleAndSend(p, <<Msg("reject", t)>>) /\ "reject" \in MessageType \ {"metadata"}
    BY <1>3 DEF Refuse, MessageType
  <2>1. /\ \A y \in MessageType, u \in Transfer :
             /\ UnderWay(p, y, u)' => UnderWay(p, y, u)
             /\ UnderWay(p, y, u) => UnderWay(p, y, u)' \/ Head(control[p]) = Msg(y, u)
             /\ UnderWay(Other(p), y, u)' <=> UnderWay(Other(p), y, u) \/ (y = "reject" /\ u = t)
        /\ ~UnderWay(p, "metadata", t)'
        /\ UnderWay(p, "metadata", t)
        /\ MetadataFirst'
    BY <2>5, AnswerEffect DEF OfferInv
  <2>2. Take(p, t) => session'[p] # session[p]
    <3>1. Take(p, t) => session'[p] = NewSession(t, "receiver") /\ ~Has(p, "receiver")
      BY DEF Take, TypeOK
    <3>2. NewSession(t, "receiver") # NONE /\ NewSession(t, "receiver").role = "receiver"
      BY NewSessionTyped DEF NewSession, Role
    <3> QED BY <3>1, <3>2 DEF Has
  <2>3. ~Take(p, t)
    BY <1>3, <2>2 DEF Refuse
  <2>4. "reject" \in MessageType
    BY DEF MessageType
  <2> QED BY <1>1, <2>1, <2>3, <2>4 DEF MetadataHandled
<1>4. CASE ~Refuse(p, t) /\ session[p] # NONE /\ HandleAndSend(p, <<Msg("cancel", session[p].id)>>)
  <2> DEFINE own == session[p].id
  <2>1. own \in Transfer
    BY <1>4, SessionTyped
  <2>2. HandleAndSend(p, <<Msg("cancel", own)>>)
    BY <1>4
  <2> HIDE DEF own
  <2>3. /\ \A y \in MessageType, u \in Transfer :
             /\ UnderWay(p, y, u)' => UnderWay(p, y, u)
             /\ UnderWay(p, y, u) => UnderWay(p, y, u)' \/ Head(control[p]) = Msg(y, u)
             /\ UnderWay(Other(p), y, u)' <=> UnderWay(Other(p), y, u) \/ (y = "cancel" /\ u = own)
        /\ ~UnderWay(p, "metadata", t)'
        /\ UnderWay(p, "metadata", t)
        /\ MetadataFirst'
    BY <2>1, <2>2, AnswerEffect DEF OfferInv, MessageType
  <2>4. "cancel" \in MessageType
    BY DEF MessageType
  <2>5. \A u \in Transfer : u = own => UnderWay(Other(p), "cancel", u)'
    BY <2>3, <2>4
  <2> QED BY <1>1, <1>4, <2>1, <2>3, <2>5 DEF MetadataHandled, own
<1>5. session[p] = NONE => ~AwaitsAccept(p)
  BY DEF AwaitsAccept, Has
<1>6. AwaitsAccept(p) => session[p] # NONE
  BY DEF AwaitsAccept, Has
<1> QED BY <1>2, <1>3, <1>4, <1>5, <1>6 DEF Take

\* OfferInv survives an offer that is taken.
LEMMA TakeKeeps ==
  ASSUME TypeOK, OfferInv, NEW p \in Peer, NEW t \in Transfer, control[p] # <<>>,
         Head(control[p]).type = "metadata", Head(control[p]).id = t, Take(p, t)
  PROVE  OfferInv'
<1>1. MetadataHandled(p, t)
  BY MetadataEffect
<1>2. /\ UNCHANGED <<pipeline, saved, sender>> /\ ~Has(p, "receiver")
      /\ session'[p] = NewSession(t, "receiver") /\ status'[p] = "Offered"
      /\ \A q \in Peer : q # p => session'[q] = session[q] /\ status'[q] = status[q]
  BY DEF Take, SetStatus, TypeOK
<1>3. sender[t] = Other(p) /\ Other(p) # NONE /\ saved[p][t] = NONE
  BY <1>1, OtherIsPeer, TransferAssumption DEF MetadataHandled, OfferInv, Traffic
<1>4. \A q \in Peer : q = p \/ q = Other(p)
  BY OnlyTwoPeers
<1>5. NewSession(t, "receiver") # NONE
  BY NewSessionTyped DEF Role
<1>6. session[p] # NONE => session[p].id \in Transfer /\ sender[session[p].id] # NONE
  <2>1. session[p] # NONE => session[p].role \in Role /\ session[p].id \in Transfer
    BY SessionTyped DEF Session
  <2>2. p # NONE
    BY TransferAssumption
  <2> QED BY <1>3, <2>1, <2>2 DEF OfferInv, Roles, Has, Role
<1>7. \A q \in Peer, u \in Transfer : Holds(q, u)' => Holds(q, u) \/ (q = p /\ u = t)
  BY <1>2 DEF Holds, HasRole, Has, NewSession
<1>8. Traffic'
  <2>1. ASSUME NEW q \in Peer, NEW u \in Transfer, UnderWay(q, "metadata", u)'
        PROVE  sender'[u] = Other(q) /\ saved'[q][u] = NONE /\ ~Holds(q, u)'
    <3>1. UnderWay(q, "metadata", u) /\ ~(q = p /\ u = t)
      BY <1>1, <1>4, <2>1 DEF MetadataHandled, MessageType
    <3> QED BY <1>2, <1>7, <3>1 DEF OfferInv, Traffic
  <2>2. ASSUME NEW q \in Peer, NEW u \in Transfer, UnderWay(q, "accept", u)'
        PROVE  sender'[u] = q
    <3>1. UnderWay(q, "accept", u)
      BY <1>1, <1>4, <2>2 DEF MetadataHandled, MessageType
    <3> QED BY <1>2, <3>1 DEF OfferInv, Traffic
  <2>3. ASSUME NEW q \in Peer, NEW u \in Transfer, NEW y \in MessageType, UnderWay(q, y, u)'
        PROVE  sender'[u] # NONE
    <3>1. UnderWay(q, y, u) \/ u = t \/ (session[p] # NONE /\ u = session[p].id)
      BY <1>1, <1>4, <2>3 DEF MetadataHandled
    <3> QED BY <1>2, <1>3, <1>6, <3>1 DEF OfferInv, Traffic
  <2> QED BY <2>1, <2>2, <2>3 DEF Traffic
<1>9. Roles'
  BY <1>2, <1>3 DEF OfferInv, Roles, Has, NewSession
<1>10. Statuses'
  BY <1>2, <1>5 DEF OfferInv, Statuses, Has, AwaitsAccept, NewSession
<1>11. Saved' /\ Owned'
  BY <1>2 DEF OfferInv, Saved, Owned
<1> QED BY <1>1, <1>8, <1>9, <1>10, <1>11 DEF OfferInv, MetadataHandled

\* OfferInv survives an offer that is refused.
LEMMA RefuseKeeps ==
  ASSUME TypeOK, OfferInv, NEW p \in Peer, NEW t \in Transfer, control[p] # <<>>,
         Head(control[p]).type = "metadata", Head(control[p]).id = t, Refuse(p, t)
  PROVE  OfferInv'
<1>1. MetadataHandled(p, t)
  BY MetadataEffect
<1>2. UNCHANGED <<session, status, pipeline, saved, sender>>
  BY DEF Refuse
<1>3. sender[t] = Other(p) /\ Other(p) # NONE
  BY <1>1, OtherIsPeer, TransferAssumption DEF MetadataHandled, OfferInv, Traffic
<1>4. \A q \in Peer : q = p \/ q = Other(p)
  BY OnlyTwoPeers
<1>5. session[p] # NONE => session[p].id \in Transfer /\ sender[session[p].id] # NONE
  <2>1. session[p] # NONE => session[p].role \in Role /\ session[p].id \in Transfer
    BY SessionTyped DEF Session
  <2>2. p # NONE
    BY TransferAssumption
  <2> QED BY <1>3, <2>1, <2>2 DEF OfferInv, Roles, Has, Role
<1>6. \A q \in Peer, y \in MessageType, u \in Transfer :
        UnderWay(q, y, u)' => \/ UnderWay(q, y, u)
                              \/ y \in {"reject", "cancel"} /\ sender[u] # NONE
  BY <1>1, <1>3, <1>4, <1>5 DEF MetadataHandled
<1>7. Traffic'
  BY <1>2, <1>6 DEF OfferInv, Traffic, Holds, HasRole, Has, MessageType
<1>8. Roles' /\ Statuses' /\ Saved' /\ Owned'
  BY <1>2 DEF OfferInv, Roles, Statuses, Saved, Owned, Has, AwaitsAccept
<1> QED BY <1>1, <1>7, <1>8 DEF OfferInv, MetadataHandled

\* The first accept of the offer p has under way starts its pipeline.
Start(p, t) ==
  /\ HasRole(p, "sender", t) /\ ~session[p].worker_started
  /\ session' = [session EXCEPT ![p].worker_started = TRUE]
  /\ SetStatus(p, "Transferring")
  /\ pipeline' = [pipeline EXCEPT ![t] = NewPipeline]
  /\ UNCHANGED <<saved, sender>>
  /\ control[p] # <<>> /\ Head(control[p]) = Msg("accept", t)
  /\ HandleAndSend(p, <<>>)

\* An accept that arrives starts a pipeline, or is one too many.
LEMMA AcceptCases ==
  ASSUME TypeOK, OfferInv, NEW p \in Peer, ReceiveAccept(p)
  PROVE  Consume(p) \/ \E t \in Transfer : Start(p, t)
<1> DEFINE t == Head(control[p]).id
<1>1. control[p] # <<>> /\ Head(control[p]).type = "accept" /\ t \in Transfer
      /\ Head(control[p]) \in Control
  BY HeadTyped DEF ReceiveAccept, Incoming
<1>2. Head(control[p]) = Msg("accept", t)
  BY <1>1, MsgEqual DEF MessageType
<1>3. CASE HasRole(p, "sender", t) /\ ~session[p].worker_started
  <2>1. Start(p, t)
    BY <1>1, <1>2, <1>3 DEF ReceiveAccept, Start
  <2> QED BY <1>1, <2>1
<1>4. CASE ~ (HasRole(p, "sender", t) /\ ~session[p].worker_started)
  BY <1>1, <1>4 DEF ReceiveAccept, Consume
<1> QED BY <1>3, <1>4

\* Handling anything but metadata takes one message away, and no offer with it.
LEMMA ConsumeFacts ==
  ASSUME TypeOK, OfferInv, NEW p \in Peer, control[p] # <<>>,
         Head(control[p]).type \in {"accept", "reject", "cancel"}, HandleAndSend(p, <<>>)
  PROVE  /\ \A q \in Peer, y \in MessageType, u \in Transfer :
              /\ UnderWay(q, y, u)' => UnderWay(q, y, u)
              /\ UnderWay(q, y, u) => \/ UnderWay(q, y, u)'
                                      \/ q = p /\ Head(control[p]) = Msg(y, u)
         /\ \A q \in Peer, u \in Transfer : UnderWay(q, "metadata", u)' <=> UnderWay(q, "metadata", u)
         /\ MetadataFirst'
<1>1. /\ \A y \in MessageType, u \in Transfer :
           /\ UnderWay(p, y, u)' => UnderWay(p, y, u)
           /\ UnderWay(p, y, u) => UnderWay(p, y, u)' \/ Head(control[p]) = Msg(y, u)
           /\ UnderWay(Other(p), y, u)' <=> UnderWay(Other(p), y, u)
      /\ MetadataFirst'
  BY ConsumeEffect DEF OfferInv
<1>2. \A q \in Peer : q = p \/ q = Other(p)
  BY OnlyTwoPeers
<1>3. \A u \in Transfer : Head(control[p]) # Msg("metadata", u)
  BY DEF Msg
<1>4. "metadata" \in MessageType
  BY DEF MessageType
<1> QED BY <1>1, <1>2, <1>3, <1>4

\* OfferInv survives a message that changes nothing else.
LEMMA ConsumeKeeps ==
  ASSUME TypeOK, OfferInv, NEW p \in Peer, Consume(p)
  PROVE  OfferInv'
<1>1. UNCHANGED <<session, status, pipeline, saved, sender>>
  BY DEF Consume
<1>2. /\ \A q \in Peer, y \in MessageType, u \in Transfer : UnderWay(q, y, u)' => UnderWay(q, y, u)
      /\ MetadataFirst'
  BY ConsumeFacts DEF Consume
<1>3. Traffic'
  BY <1>1, <1>2 DEF OfferInv, Traffic, Holds, HasRole, Has, MessageType
<1>4. Roles' /\ Statuses' /\ Saved' /\ Owned'
  BY <1>1 DEF OfferInv, Roles, Statuses, Saved, Owned, Has, AwaitsAccept
<1> QED BY <1>2, <1>3, <1>4 DEF OfferInv

\* What the start of a pipeline changes, apart from the messages under way.
Started(p, t) ==
  /\ AwaitsAccept(p) /\ session[p].id = t /\ sender[t] = p
  /\ UNCHANGED <<saved, sender>>
  /\ \A u \in Transfer : u # t => pipeline'[u] = pipeline[u]
  /\ session'[p] # NONE
  /\ session'[p].worker_started = TRUE /\ session'[p].role = "sender" /\ session'[p].id = t
  /\ status'[p] = "Transferring"
  /\ \A q \in Peer : q # p => session'[q] = session[q] /\ status'[q] = status[q]

\* The first accept starts the worker of the offer it names.
LEMMA StartSession ==
  ASSUME TypeOK, OfferInv, NEW p \in Peer, NEW t \in Transfer, Start(p, t)
  PROVE  Started(p, t)
<1>1. /\ session[p] \in Session /\ Has(p, "sender") /\ AwaitsAccept(p)
      /\ session[p].id = t /\ sender[t] = p
  BY SessionTyped DEF Start, HasRole, Has, AwaitsAccept, OfferInv, Roles
<1>2. /\ \A q \in Peer : q # p => session'[q] = session[q] /\ status'[q] = status[q]
      /\ session'[p] = [session[p] EXCEPT !.worker_started = TRUE]
      /\ status'[p] = "Transferring"
      /\ \A u \in Transfer : u # t => pipeline'[u] = pipeline[u]
      /\ UNCHANGED <<saved, sender>>
  BY DEF Start, SetStatus, TypeOK
<1>3. session'[p] \in Session
  BY <1>1, <1>2 DEF Session
<1>4. session'[p].worker_started = TRUE /\ session'[p].role = session[p].role /\ session'[p].id = session[p].id
  BY <1>1, <1>2 DEF Session
<1>5. session'[p] # NONE /\ session'[p].role = "sender" /\ session'[p].id = t
  BY <1>1, <1>3, <1>4, TransferAssumption DEF Has
<1> QED BY <1>1, <1>2, <1>4, <1>5 DEF Started

\* It takes the accept from the channel, and nothing else with it.
LEMMA StartTraffic ==
  ASSUME TypeOK, OfferInv, NEW p \in Peer, NEW t \in Transfer, Start(p, t)
  PROVE  /\ \A q \in Peer, y \in MessageType, u \in Transfer :
              /\ UnderWay(q, y, u)' => UnderWay(q, y, u)
              /\ UnderWay(q, y, u) => \/ UnderWay(q, y, u)'
                                      \/ q = p /\ y = "accept" /\ u = t
         /\ \A q \in Peer, u \in Transfer : UnderWay(q, "metadata", u)' <=> UnderWay(q, "metadata", u)
         /\ UnderWay(p, "accept", t)
         /\ MetadataFirst'
<1>1. Head(control[p]).type = "accept" /\ Head(control[p]).id = t
      /\ \A y \in MessageType, u \in Transfer : Head(control[p]) = Msg(y, u) => y = "accept" /\ u = t
  BY DEF Start, Msg
<1>2. /\ \A q \in Peer, y \in MessageType, u \in Transfer :
           /\ UnderWay(q, y, u)' => UnderWay(q, y, u)
           /\ UnderWay(q, y, u) => \/ UnderWay(q, y, u)'
                                   \/ q = p /\ Head(control[p]) = Msg(y, u)
      /\ \A q \in Peer, u \in Transfer : UnderWay(q, "metadata", u)' <=> UnderWay(q, "metadata", u)
      /\ MetadataFirst'
  BY <1>1, ConsumeFacts DEF Start
<1>3. UnderWay(p, "accept", t)
  BY <1>1, ConsumeEffect DEF Start, OfferInv
<1>4. \A q \in Peer, y \in MessageType, u \in Transfer :
        /\ UnderWay(q, y, u)' => UnderWay(q, y, u)
        /\ UnderWay(q, y, u) => \/ UnderWay(q, y, u)'
                                \/ q = p /\ y = "accept" /\ u = t
  BY <1>1, <1>2
<1> QED BY <1>2, <1>3, <1>4

\* OfferInv survives the start of a pipeline.
LEMMA StartKeeps ==
  ASSUME TypeOK, OfferInv, NEW p \in Peer, NEW t \in Transfer, Start(p, t)
  PROVE  OfferInv'
<1>1. /\ \A q \in Peer, y \in MessageType, u \in Transfer : UnderWay(q, y, u)' => UnderWay(q, y, u)
      /\ MetadataFirst'
  BY StartTraffic
<1>2. AwaitsAccept(p) /\ session[p].id = t /\ sender[t] = p /\ p # NONE
  <2>1. Started(p, t)
    BY StartSession
  <2> QED BY <2>1, TransferAssumption DEF Started
<1>3. /\ \A q \in Peer : q # p => session'[q] = session[q] /\ status'[q] = status[q]
      /\ status'[p] = "Transferring"
      /\ \A u \in Transfer : u # t => pipeline'[u] = pipeline[u]
      /\ UNCHANGED <<saved, sender>>
      /\ session'[p].worker_started = TRUE /\ session'[p].role = "sender" /\ session'[p].id = t
      /\ session'[p] # NONE
  <2>1. Started(p, t)
    BY StartSession
  <2> QED BY <2>1 DEF Started
<1>4. \A q \in Peer : /\ Has(q, "receiver")' => q # p /\ Has(q, "receiver")
                      /\ q # p /\ Has(q, "sender")' => Has(q, "sender")
  BY <1>3 DEF Has
<1>5. \A q \in Peer, u \in Transfer : Holds(q, u)' => Holds(q, u)
  BY <1>3, <1>4 DEF Holds, HasRole
<1>6. Traffic'
  BY <1>1, <1>3, <1>5 DEF OfferInv, Traffic, MessageType
<1>7. Roles'
  <2> SUFFICES ASSUME NEW q \in Peer
               PROVE  /\ Has(q, "sender")' => sender'[session'[q].id] = q
                      /\ Has(q, "receiver")' => /\ sender'[session'[q].id] = Other(q)
                                               /\ saved'[q][session'[q].id] = NONE
    BY DEF Roles
  <2>1. CASE q = p
    BY <1>2, <1>3, <1>4, <2>1
  <2>2. CASE q # p
    BY <1>3, <1>4, <2>2 DEF OfferInv, Roles
  <2> QED BY <2>1, <2>2
<1>8. Statuses'
  BY <1>3, <1>4 DEF OfferInv, Statuses, AwaitsAccept
<1>9. Saved' /\ Owned'
  BY <1>2, <1>3 DEF OfferInv, Saved, Owned
<1> QED BY <1>1, <1>6, <1>7, <1>8, <1>9 DEF OfferInv

\* What counting a chunk changes.
LEMMA CountFacts ==
  ASSUME TypeOK, NEW p \in Peer, Count(p)
  PROVE  /\ Has(p, "receiver") /\ UNCHANGED <<control, pipeline, saved, sender>>
         /\ session'[p] # NONE
         /\ session'[p].id = session[p].id /\ session'[p].role = session[p].role
         /\ session'[p].accepts = session[p].accepts
         /\ \A q \in Peer : q # p => session'[q] = session[q] /\ status'[q] = status[q]
         /\ status'[p] = "Receiving" \/ status'[p] = status[p]
<1> DEFINE n == session[p].bytes_received + 1
           w == IF session[p].accepts > 0 THEN Append(session[p].written, Head(file[p]).chunk)
                ELSE session[p].written
<1>1. /\ session' = [session EXCEPT ![p].bytes_received = n, ![p].written = w]
      /\ Has(p, "receiver") /\ UNCHANGED <<control, pipeline, saved, sender>>
      /\ status' = [status EXCEPT ![p] = "Receiving"] \/ UNCHANGED status
  BY DEF Count, SetStatus
<1>2. session[p] \in Session
  BY <1>1, SessionTyped DEF Has
<1>3. n \in Nat
  BY <1>2 DEF Session
<1>4. Head(file[p]).chunk \in Chunk
  BY HeadTyped DEF Count, FileItem
<1>5. w \in Seq(Chunk)
  BY <1>2, <1>4, AppendProperties DEF Session
<1> HIDE DEF n, w
<1>6. session'[p] = [session[p] EXCEPT !.bytes_received = n, !.written = w]
  BY <1>1 DEF TypeOK
<1>7. session'[p] \in Session
  BY <1>2, <1>3, <1>5, <1>6 DEF Session
<1>8. /\ session'[p].id = session[p].id /\ session'[p].role = session[p].role
      /\ session'[p].accepts = session[p].accepts
  BY <1>2, <1>6 DEF Session
<1> QED BY <1>1, <1>7, <1>8, TransferAssumption DEF TypeOK

\* OfferInv survives a chunk.
LEMMA CountKeeps ==
  ASSUME TypeOK, OfferInv, NEW p \in Peer, Count(p)
  PROVE  OfferInv'
<1>1. /\ Has(p, "receiver") /\ UNCHANGED <<control, pipeline, saved, sender>>
      /\ session'[p] # NONE
      /\ session'[p].id = session[p].id /\ session'[p].role = session[p].role
      /\ \A q \in Peer : q # p => session'[q] = session[q] /\ status'[q] = status[q]
      /\ status'[p] = "Receiving" \/ status'[p] = status[p]
  BY CountFacts
<1>2. \A q \in Peer : /\ Has(q, "receiver")' => Has(q, "receiver") /\ session'[q].id = session[q].id
                      /\ Has(q, "sender")' => q # p /\ Has(q, "sender")
  BY <1>1 DEF Has
<1>3. \A q \in Peer, u \in Transfer : Holds(q, u)' => Holds(q, u)
  BY <1>1, <1>2 DEF Holds, HasRole
<1>4. MetadataFirst' /\ \A q \in Peer, y \in MessageType, u \in Transfer : UnderWay(q, y, u)' <=> UnderWay(q, y, u)
  BY <1>1, KeepControl DEF OfferInv
<1>5. Traffic'
  BY <1>1, <1>3, <1>4 DEF OfferInv, Traffic, MessageType
<1>6. Roles'
  BY <1>1, <1>2 DEF OfferInv, Roles
<1>7. Statuses'
  BY <1>1, <1>2 DEF OfferInv, Statuses, AwaitsAccept
<1>8. Saved' /\ Owned'
  BY <1>1 DEF OfferInv, Saved, Owned
<1> QED BY <1>4, <1>5, <1>6, <1>7, <1>8 DEF OfferInv

\* OfferInv survives the writing of the destination.
LEMMA SaveKeeps ==
  ASSUME TypeOK, OfferInv, NEW p \in Peer, Save(p)
  PROVE  OfferInv'
<1> DEFINE t == session[p].id
<1>1. /\ Has(p, "receiver") /\ session'[p] = NONE /\ t \in Transfer
      /\ \A q \in Peer : q # p => session'[q] = session[q] /\ status'[q] = status[q] /\ saved'[q] = saved[q]
      /\ \A u \in Transfer : u # t => saved'[p][u] = saved[p][u]
      /\ saved'[p][t] = Original(t) \/ ("io" \in Faults /\ saved'[p][t] = Front(Original(t)))
      /\ "io" \in Faults \/ status'[p] = "Completed"
      /\ UNCHANGED <<control, pipeline, sender>>
  <2>1. Has(p, "receiver") /\ session[p] # NONE /\ t \in Transfer
    BY SessionTyped DEF Save, Has
  <2> QED BY <2>1 DEF Save, SetStatus, TypeOK
<1>2. sender[t] = Other(p) /\ saved[p][t] = NONE
  BY <1>1 DEF OfferInv, Roles
<1>3. ~UnderWay(p, "metadata", t)
  BY <1>1 DEF OfferInv, Traffic, Holds, HasRole
<1> HIDE DEF t
<1>4. MetadataFirst' /\ \A q \in Peer, y \in MessageType, u \in Transfer : UnderWay(q, y, u)' <=> UnderWay(q, y, u)
  BY <1>1, KeepControl DEF OfferInv
<1>5. \A q \in Peer : q = p => ~Has(q, "receiver")' /\ ~Has(q, "sender")'
  BY <1>1 DEF Has
<1>6. \A q \in Peer, u \in Transfer : Holds(q, u)' => Holds(q, u)
  BY <1>1, <1>5 DEF Holds, HasRole, Has
<1>7. \A q \in Peer, u \in Transfer : saved'[q][u] = saved[q][u] \/ (q = p /\ u = t)
  BY <1>1
<1>8. Traffic'
  BY <1>1, <1>3, <1>4, <1>6, <1>7 DEF OfferInv, Traffic, MessageType
<1>9. Roles'
  BY <1>1, <1>5 DEF OfferInv, Roles, Has
<1>10. Statuses'
  BY <1>1, <1>5 DEF OfferInv, Statuses, Has, AwaitsAccept
<1>11. Saved'
  BY <1>1, <1>2, <1>7 DEF OfferInv, Saved
<1>12. Owned'
  BY <1>1 DEF OfferInv, Owned
<1> QED BY <1>4, <1>8, <1>9, <1>10, <1>11, <1>12 DEF OfferInv

\* OfferInv survives the loss of the connection, after which nothing is under way.
LEMMA DisconnectKeeps ==
  ASSUME TypeOK, OfferInv, Disconnect
  PROVE  OfferInv' /\ \A q \in Peer, y \in MessageType, u \in Transfer : ~UnderWay(q, y, u)'
<1>1. \A q \in Peer : DOMAIN control'[q] = {}
  BY NoMessages DEF Disconnect
<1>2. \A q \in Peer, y \in MessageType, u \in Transfer : ~UnderWay(q, y, u)'
  BY <1>1 DEF UnderWay
<1>3. MetadataFirst'
  BY <1>1 DEF MetadataFirst
<1>4. UNCHANGED <<session, status, pipeline, saved, sender>>
  BY DEF Disconnect
<1> QED BY <1>2, <1>3, <1>4 DEF OfferInv, Traffic, Roles, Statuses, Saved, Owned, Has, AwaitsAccept,
                                MessageType

\* One case per kind of step: what a step of the actors and of their
\* environment may do to sessions, offers and destinations.
LEMMA OfferStepCases ==
  ASSUME TypeOK, OfferInv, [Next]_vars
  PROVE  \/ Quiet
         \/ \E p \in Peer : \/ Drop(p) \/ Consume(p) \/ Count(p) \/ Save(p)
                            \/ AcceptOffer(p) /\ up
                            \/ \E t \in Transfer : SendOffer(p, t) \/ Start(p, t)
         \/ \E p \in Peer, t \in Transfer :
              /\ control[p] # <<>> /\ Head(control[p]).type = "metadata" /\ Head(control[p]).id = t
              /\ Take(p, t) \/ Refuse(p, t)
         \/ Disconnect
<1>1. ASSUME NEW p \in Peer, UserStep(p) \/ Timeout(p) \/ Dispose(p)
      PROVE  Drop(p) \/ (AcceptOffer(p) /\ up) \/ \E t \in Transfer : SendOffer(p, t)
  BY <1>1, CommandDrops DEF UserStep
<1>2. ASSUME NEW p \in Peer, ReceiveControl(p)
      PROVE  \/ Drop(p) \/ Consume(p) \/ \E t \in Transfer : Start(p, t)
             \/ \E t \in Transfer :
                  /\ control[p] # <<>> /\ Head(control[p]).type = "metadata" /\ Head(control[p]).id = t
                  /\ Take(p, t) \/ Refuse(p, t)
  BY <1>2, MetadataCases, AcceptCases, EndDrops DEF ReceiveControl
<1>3. ASSUME NEW p \in Peer, ReceiveFile(p)
      PROVE  Quiet \/ Drop(p) \/ Count(p) \/ Save(p)
  BY <1>3, ChunkCases, EofCases DEF ReceiveFile
<1>4. ASSUME NEW t \in Transfer, ReaderStep(t) \/ WriterStep(t) \/ Report(t) \/ Edit(t)
      PROVE  Quiet \/ \E p \in Peer : Drop(p)
  BY <1>4, PipelineQuiet, ReportCases
<1>5. CASE UNCHANGED vars
  BY <1>5 DEF vars, Quiet, NoPipelineStarted
<1> QED BY <1>1, <1>2, <1>3, <1>4, <1>5, StepCases

\* OfferInv is inductive.
LEMMA StepOffers == TypeOK /\ OfferInv /\ [Next]_vars => OfferInv'
BY OfferStepCases, QuietOffers, DropOffers, ConsumeKeeps, CountKeeps, SaveKeeps, AcceptKeeps,
   SendOfferKeeps, StartKeeps, TakeKeeps, RefuseKeeps, DisconnectKeeps

\* Offers, roles, statuses and destinations agree in every state.
LEMMA OffersHold == Spec => []OfferInv
BY InitOffers, StepOffers, TypeCorrect, PTL DEF Spec

\* What reaches a destination is the offered file, whole and in order, and was
\* offered by the other peer, for any transfers, collisions, timeouts, edits and
\* lost connections, unless writing the destination itself fails.
THEOREM IntactDelivery ==
  ASSUME "io" \notin Faults
  PROVE  Spec => []DeliveredIntact
<1>1. OfferInv => DeliveredIntact
  BY DEF OfferInv, Saved, DeliveredIntact
<1> QED BY <1>1, OffersHold, PTL

\* The status shown tells whether a session is there, and an own unanswered
\* offer is Offering, which is what the tie-break of ReceiveMetadata reads.
THEOREM StatusTellsSession ==
  ASSUME "io" \notin Faults
  PROVE  Spec => []StatusFollowsSession
<1>1. OfferInv => StatusFollowsSession
  BY DEF OfferInv, Statuses, StatusFollowsSession
<1> QED BY <1>1, OffersHold, PTL

\* A receiver is shown Completed only with the whole file at its destination,
\* whatever fails: reading, writing, copying, the connection or the user.
THEOREM CompletedIsWhole == Spec => CompletedMeansWhole
<1>1. TypeOK /\ OfferInv /\ [Next]_vars =>
        [\A p \in Peer :
           Has(p, "receiver") /\ status'[p] = "Completed" =>
             saved'[p][session[p].id] = Original(session[p].id)]_vars
  <2> SUFFICES ASSUME TypeOK, OfferInv, [Next]_vars, NEW p \in Peer,
                      Has(p, "receiver"), status'[p] = "Completed"
               PROVE  saved'[p][session[p].id] = Original(session[p].id)
    OBVIOUS
  <2>1. status[p] # "Completed" /\ session[p].id \in Transfer /\ ~Has(p, "sender")
    BY SessionTyped DEF OfferInv, Statuses, Has
  <2>2. \A q \in Peer : \A s : SetStatus(q, s) => (q = p /\ s = "Completed") \/ status'[p] # "Completed"
    BY <2>1 DEF SetStatus, TypeOK
  <2>3. ASSUME NEW q \in Peer, UserStep(q) \/ Timeout(q) \/ Dispose(q)
        PROVE  FALSE
    BY <2>2, <2>3 DEF UserStep, SendOffer, AcceptOffer, RejectOffer, CancelTransfer, Timeout, Dispose,
                      FailSession
  <2>4. ASSUME NEW q \in Peer, ReceiveControl(q)
        PROVE  FALSE
    <3>1. UNCHANGED status \/ \E s \in Status \ {"Completed"} : SetStatus(q, s)
      BY <2>4 DEF ReceiveControl, ReceiveMetadata, ReceiveAccept, ReceiveEnd, FailSession, Status
    <3> QED BY <2>1, <2>2, <3>1
  <2>5. ASSUME NEW q \in Peer, ReceiveChunk(q)
        PROVE  FALSE
    <3>1. UNCHANGED status \/ \E s \in Status \ {"Completed"} : SetStatus(q, s)
      BY <2>5 DEF ReceiveChunk, FailSession, Status
    <3> QED BY <2>1, <2>2, <3>1
  <2>6. ASSUME NEW q \in Peer, ReceiveEof(q)
        PROVE  saved'[p][session[p].id] = Original(session[p].id)
    <3>1. Save(q) \/ UNCHANGED status \/ \E s \in Status \ {"Completed"} : SetStatus(q, s)
      BY <2>6 DEF ReceiveEof, NextItem, Save, SameHash, HasRole, ClearSession, FailSession, FinalizeFails, Status
    <3>2. q = p /\ Save(p)
      <4>1. Save(q)
        BY <2>1, <2>2, <3>1
      <4>2. UNCHANGED status \/ SetStatus(q, "Completed")
        BY <4>1 DEF Save
      <4> QED BY <2>1, <2>2, <4>1, <4>2
    <3>3. saved' = [saved EXCEPT ![p][session[p].id] = Original(session[p].id)]
      BY <2>1, <3>2 DEF Save
    <3> QED BY <2>1, <3>3 DEF TypeOK
  <2>7. ASSUME NEW t \in Transfer, ReaderStep(t) \/ WriterStep(t) \/ Edit(t)
        PROVE  FALSE
    BY <2>1, <2>7, PipelineQuiet DEF Quiet
  <2>8. ASSUME NEW t \in Transfer, Report(t)
        PROVE  FALSE
    <3>1. sender[t] \in Peer /\ (HasRole(sender[t], "sender", t) => sender[t] # p)
      BY <2>1, <2>8, ReportCases DEF HasRole
    <3>2. UNCHANGED status \/ (sender[t] # p /\ \E s : SetStatus(sender[t], s))
      BY <2>8, <3>1 DEF Report
    <3> QED BY <2>1, <2>2, <3>1, <3>2
  <2>9. CASE Disconnect \/ UNCHANGED vars
    BY <2>1, <2>9 DEF Disconnect, vars
  <2> QED BY <2>3, <2>4, <2>5, <2>6, <2>7, <2>8, <2>9, StepCases DEF ReceiveFile
<1> QED BY <1>1, TypeCorrect, OffersHold, PTL DEF Spec, CompletedMeansWhole
-----------------------------------------------------------------------------
(* Refinement of TransferContract, step by step.                           *)

\* The contract's variables, transfer by transfer.
To(t)  == IF sender[t] = NONE THEN NONE ELSE Other(sender[t])
Got(t) == IF sender[t] = NONE THEN NONE ELSE saved[Other(sender[t])][t]

\* The cases of PhaseOf.
PhaseTable(t) ==
  LET o == Other(sender[t]) IN
  /\ sender[t] = NONE => PhaseOf(t) = "new"
  /\ sender[t] # NONE =>
       /\ saved[o][t] # NONE => PhaseOf(t) = "delivered"
       /\ saved[o][t] = NONE =>
            /\ Holds(o, t) /\ session[o].accepts > 0 => PhaseOf(t) = "accepted"
            /\ Holds(o, t) /\ ~(session[o].accepts > 0) => PhaseOf(t) = "offered"
            /\ ~Holds(o, t) /\ UnderWay(o, "metadata", t) => PhaseOf(t) = "offered"
            /\ ~Holds(o, t) /\ ~UnderWay(o, "metadata", t) => PhaseOf(t) = "over"

\* What PhaseOf says, case by case.
LEMMA PhaseNow == \A t \in Transfer : PhaseTable(t)
<1> SUFFICES ASSUME NEW t \in Transfer PROVE PhaseTable(t)
  OBVIOUS
<1> DEFINE o == Other(sender[t])
<1>1. PhaseOf(t) =
        CASE sender[t] = NONE -> "new"
          [] sender[t] # NONE /\ saved[o][t] # NONE -> "delivered"
          [] sender[t] # NONE /\ saved[o][t] = NONE /\ Holds(o, t) ->
               IF session[o].accepts > 0 THEN "accepted" ELSE "offered"
          [] OTHER -> IF UnderWay(o, "metadata", t) THEN "offered" ELSE "over"
  BY DEF PhaseOf, UnderWay
<1> HIDE DEF o
<1>2. /\ sender[t] = NONE => PhaseOf(t) = "new"
      /\ sender[t] # NONE =>
           /\ saved[o][t] # NONE => PhaseOf(t) = "delivered"
           /\ saved[o][t] = NONE =>
                /\ Holds(o, t) /\ session[o].accepts > 0 => PhaseOf(t) = "accepted"
                /\ Holds(o, t) /\ ~(session[o].accepts > 0) => PhaseOf(t) = "offered"
                /\ ~Holds(o, t) /\ UnderWay(o, "metadata", t) => PhaseOf(t) = "offered"
                /\ ~Holds(o, t) /\ ~UnderWay(o, "metadata", t) => PhaseOf(t) = "over"
  BY <1>1
<1> QED BY <1>2 DEF PhaseTable, o

\* The same after a step.
LEMMA PhaseNext == (\A t \in Transfer : PhaseTable(t))'
BY PhaseNow, PTL

\* The contract's state, and its GiveUp, transfer by transfer.
LEMMA ContractVars ==
  /\ (\A t \in Transfer : PhaseOf(t)' = PhaseOf(t) /\ To(t)' = To(t) /\ Got(t)' = Got(t))
       => UNCHANGED Contract!vars
  /\ \A S \in SUBSET Transfer :
       /\ S # {}
       /\ \A t \in Transfer : To(t)' = To(t) /\ Got(t)' = Got(t)
       /\ \A t \in S : PhaseOf(t) \in {"offered", "accepted"} /\ PhaseOf(t)' = "over"
       /\ \A t \in Transfer : t \notin S => PhaseOf(t)' = PhaseOf(t)
       => Contract!GiveUp(S)
<1>1. (\A t \in Transfer : PhaseOf(t)' = PhaseOf(t) /\ To(t)' = To(t) /\ Got(t)' = Got(t))
       => UNCHANGED Contract!vars
  BY DEF Contract!vars, To, Got
<1>2. ASSUME NEW S \in SUBSET Transfer, S # {},
             \A t \in Transfer : To(t)' = To(t) /\ Got(t)' = Got(t),
             \A t \in S : PhaseOf(t) \in {"offered", "accepted"} /\ PhaseOf(t)' = "over",
             \A t \in Transfer : t \notin S => PhaseOf(t)' = PhaseOf(t)
      PROVE  Contract!GiveUp(S)
  BY <1>2 DEF Contract!GiveUp, To, Got
<1> QED BY <1>1, <1>2

\* The step shows the contract nothing of transfer t.
Unseen(t) ==
  /\ sender'[t] = sender[t]
  /\ sender[t] # NONE =>
       LET o == Other(sender[t]) IN
       /\ saved'[o][t] = saved[o][t]
       /\ Holds(o, t)' <=> Holds(o, t)
       /\ Holds(o, t) => (session'[o].accepts > 0 <=> session[o].accepts > 0)
       /\ UnderWay(o, "metadata", t)' <=> UnderWay(o, "metadata", t)

\* A step that shows nothing of t leaves the contract's view of it.
LEMMA UnseenKeeps ==
  ASSUME NEW t \in Transfer, Unseen(t)
  PROVE  PhaseOf(t)' = PhaseOf(t) /\ To(t)' = To(t) /\ Got(t)' = Got(t)
<1> DEFINE o == Other(sender[t])
<1>1. PhaseTable(t) /\ PhaseTable(t)'
  BY PhaseNow, PhaseNext
<1>2. sender'[t] = sender[t]
  BY DEF Unseen
<1>3. CASE sender[t] = NONE
  BY <1>1, <1>2, <1>3 DEF PhaseTable, To, Got
<1>4. CASE sender[t] # NONE
  <2>1. /\ saved'[o][t] = saved[o][t]
        /\ Holds(o, t)' <=> Holds(o, t)
        /\ Holds(o, t) => (session'[o].accepts > 0 <=> session[o].accepts > 0)
        /\ UnderWay(o, "metadata", t)' <=> UnderWay(o, "metadata", t)
    BY <1>4 DEF Unseen
  <2>2. To(t)' = To(t) /\ Got(t)' = Got(t)
    BY <1>2, <2>1 DEF To, Got
  <2>3. CASE saved[o][t] # NONE
    BY <1>1, <1>2, <1>4, <2>1, <2>2, <2>3 DEF PhaseTable
  <2>4. CASE saved[o][t] = NONE /\ Holds(o, t) /\ session[o].accepts > 0
    BY <1>1, <1>2, <1>4, <2>1, <2>2, <2>4 DEF PhaseTable
  <2>5. CASE saved[o][t] = NONE /\ Holds(o, t) /\ ~(session[o].accepts > 0)
    BY <1>1, <1>2, <1>4, <2>1, <2>2, <2>5 DEF PhaseTable
  <2>6. CASE saved[o][t] = NONE /\ ~Holds(o, t)
    BY <1>1, <1>2, <1>4, <2>1, <2>2, <2>6 DEF PhaseTable
  <2> QED BY <2>3, <2>4, <2>5, <2>6
<1> QED BY <1>3, <1>4

\* A transfer its receiver holds, or is still to hear of, is over once that is no longer so.
LEMMA GivenUp ==
  ASSUME OfferInv, NEW p \in Peer, NEW t \in Transfer,
         Holds(p, t) \/ UnderWay(p, "metadata", t),
         sender'[t] = sender[t], saved'[p][t] = saved[p][t],
         ~Holds(p, t)', ~UnderWay(p, "metadata", t)'
  PROVE  /\ PhaseOf(t) \in {"offered", "accepted"} /\ PhaseOf(t)' = "over"
         /\ To(t)' = To(t) /\ Got(t)' = Got(t)
<1>1. sender[t] = Other(p) /\ saved[p][t] = NONE
  BY DEF OfferInv, Traffic, Roles, Holds, HasRole
<1>2. Other(sender[t]) = p /\ sender[t] # NONE
  BY <1>1, OtherIsPeer, TransferAssumption
<1>3. PhaseTable(t) /\ PhaseTable(t)'
  BY PhaseNow, PhaseNext
<1>4. PhaseOf(t) \in {"offered", "accepted"}
  BY <1>1, <1>2, <1>3 DEF PhaseTable
<1>5. PhaseOf(t)' = "over"
  BY <1>1, <1>2, <1>3 DEF PhaseTable
<1> QED BY <1>1, <1>2, <1>4, <1>5 DEF To, Got

\* A quiet step is a stutter of the contract.
LEMMA ContractOfQuiet ==
  ASSUME Quiet
  PROVE  UNCHANGED Contract!vars
<1>1. ASSUME NEW t \in Transfer PROVE Unseen(t)
  BY DEF Quiet, Unseen, Holds, HasRole, Has, UnderWay
<1> QED BY <1>1, UnseenKeeps, ContractVars

\* So is a message that changes nothing else,
LEMMA ContractOfConsume ==
  ASSUME TypeOK, OfferInv, NEW p \in Peer, Consume(p)
  PROVE  UNCHANGED Contract!vars
<1>1. \A q \in Peer, u \in Transfer : UnderWay(q, "metadata", u)' <=> UnderWay(q, "metadata", u)
  BY ConsumeFacts DEF Consume
<1>2. ASSUME NEW t \in Transfer PROVE Unseen(t)
  <2>1. sender[t] # NONE => Other(sender[t]) \in Peer
    BY OtherIsPeer DEF TypeOK
  <2> QED BY <1>1, <2>1 DEF Consume, Unseen, Holds, HasRole, Has
<1> QED BY <1>2, UnseenKeeps, ContractVars

\* a chunk that is counted,
LEMMA ContractOfCount ==
  ASSUME TypeOK, OfferInv, NEW p \in Peer, Count(p)
  PROVE  UNCHANGED Contract!vars
<1>1. /\ UNCHANGED <<control, saved, sender>>
      /\ Has(p, "receiver") /\ session'[p] # NONE
      /\ session'[p].id = session[p].id /\ session'[p].role = session[p].role
      /\ session'[p].accepts = session[p].accepts
      /\ \A q \in Peer : q # p => session'[q] = session[q]
  BY CountFacts
<1>2. ASSUME NEW t \in Transfer PROVE Unseen(t)
  <2>1. sender[t] # NONE => Other(sender[t]) \in Peer
    BY OtherIsPeer DEF TypeOK
  <2>2. \A q \in Peer : /\ Holds(q, t)' <=> Holds(q, t)
                        /\ Holds(q, t) => session'[q].accepts = session[q].accepts
    BY <1>1 DEF Holds, HasRole, Has
  <2> QED BY <1>1, <2>1, <2>2 DEF Unseen, UnderWay
<1> QED BY <1>2, UnseenKeeps, ContractVars

\* and the start of a pipeline.
LEMMA ContractOfStart ==
  ASSUME TypeOK, OfferInv, NEW p \in Peer, NEW s \in Transfer, Start(p, s)
  PROVE  UNCHANGED Contract!vars
<1>1. /\ UNCHANGED <<saved, sender>>
      /\ AwaitsAccept(p) /\ session'[p].role = "sender"
      /\ \A q \in Peer : q # p => session'[q] = session[q]
  <2>1. Started(p, s)
    BY StartSession
  <2> QED BY <2>1 DEF Started
<1>3. \A q \in Peer, u \in Transfer : UnderWay(q, "metadata", u)' <=> UnderWay(q, "metadata", u)
  BY StartTraffic
<1>2. ASSUME NEW t \in Transfer PROVE Unseen(t)
  <2>1. sender[t] # NONE => Other(sender[t]) \in Peer
    BY OtherIsPeer DEF TypeOK
  <2>2. \A q \in Peer : /\ Holds(q, t)' <=> Holds(q, t)
                        /\ Holds(q, t) => session'[q].accepts = session[q].accepts
    BY <1>1 DEF Holds, HasRole, Has, AwaitsAccept
  <2> QED BY <1>1, <1>3, <2>1, <2>2 DEF Unseen
<1> QED BY <1>2, UnseenKeeps, ContractVars

\* A session that ends without a delivery gives up the transfer it received,
\* and nothing when it was a sender's.
LEMMA ContractOfDrop ==
  ASSUME TypeOK, OfferInv, NEW p \in Peer, Drop(p)
  PROVE  UNCHANGED Contract!vars \/ \E S \in SUBSET Transfer : Contract!GiveUp(S)
<1>1. /\ session'[p] = NONE /\ \A q \in Peer : q # p => session'[q] = session[q]
      /\ UNCHANGED <<saved, sender>>
      /\ \A q \in Peer, u \in Transfer : UnderWay(q, "metadata", u)' <=> UnderWay(q, "metadata", u)
  BY DEF Drop, TypeOK
<1>2. \A t \in Transfer : sender[t] # NONE => Other(sender[t]) \in Peer
  BY OtherIsPeer DEF TypeOK
<1>3. ASSUME NEW t \in Transfer, ~Holds(p, t)
      PROVE  Unseen(t)
  <2>1. \A q \in Peer : /\ Holds(q, t)' <=> Holds(q, t)
                        /\ Holds(q, t) => session'[q] = session[q]
    BY <1>1, <1>3 DEF Holds, HasRole, Has
  <2> QED BY <1>1, <1>2, <2>1 DEF Unseen
<1>4. CASE \A t \in Transfer : ~Holds(p, t)
  BY <1>3, <1>4, UnseenKeeps, ContractVars
<1>5. ASSUME NEW s \in Transfer, Holds(p, s)
      PROVE  Contract!GiveUp({s})
  <2>1. \A t \in Transfer : t # s => ~Holds(p, t)
    BY <1>5 DEF Holds, HasRole
  <2>2. ~UnderWay(p, "metadata", s) /\ ~Holds(p, s)'
    BY <1>1, <1>5 DEF OfferInv, Traffic, Holds, HasRole, Has
  <2>3. /\ PhaseOf(s) \in {"offered", "accepted"} /\ PhaseOf(s)' = "over"
        /\ To(s)' = To(s) /\ Got(s)' = Got(s)
    BY <1>1, <1>5, <2>2, GivenUp
  <2>4. \A t \in Transfer : t # s => PhaseOf(t)' = PhaseOf(t) /\ To(t)' = To(t) /\ Got(t)' = Got(t)
    BY <1>3, <2>1, UnseenKeeps
  <2> QED BY <2>3, <2>4, ContractVars
<1> QED BY <1>4, <1>5

\* The step changes the contract's view of transfer t alone.
OnlySeen(t) ==
  \A u \in Transfer : u # t => PhaseOf(u)' = PhaseOf(u) /\ To(u)' = To(u) /\ Got(u)' = Got(u)

\* What the contract's actions are, for a step that shows it one transfer.
LEMMA ContractStep ==
  ASSUME NEW t \in Transfer, OnlySeen(t)
  PROVE  /\ \A o \in Peer :
              PhaseOf(t) = "new" /\ PhaseOf(t)' = "offered" /\ To(t)' = o /\ Got(t)' = Got(t)
                => Contract!Offer(t, o)
         /\ \A o \in Peer :
              PhaseOf(t) = "new" /\ PhaseOf(t)' = "over" /\ To(t)' = o /\ Got(t)' = Got(t)
                => Contract!FailToOffer(t, o)
         /\ /\ PhaseOf(t) = "offered" /\ PhaseOf(t)' = "accepted" /\ To(t)' = To(t) /\ Got(t)' = Got(t)
            /\ \A u \in Transfer : PhaseOf(u) = "accepted" => To(u) # To(t)
            => Contract!Accept(t)
         /\ /\ PhaseOf(t) = "accepted" /\ PhaseOf(t)' = "delivered" /\ To(t)' = To(t)
            /\ Got(t)' = Original(t)
            => Contract!Deliver(t)
<1>1. ASSUME NEW o \in Peer, PhaseOf(t) = "new", PhaseOf(t)' = "offered", To(t)' = o, Got(t)' = Got(t)
      PROVE  Contract!Offer(t, o)
  BY <1>1 DEF OnlySeen, Contract!Offer, To, Got
<1>2. ASSUME NEW o \in Peer, PhaseOf(t) = "new", PhaseOf(t)' = "over", To(t)' = o, Got(t)' = Got(t)
      PROVE  Contract!FailToOffer(t, o)
  BY <1>2 DEF OnlySeen, Contract!FailToOffer, To, Got
<1>3. ASSUME PhaseOf(t) = "offered", PhaseOf(t)' = "accepted", To(t)' = To(t), Got(t)' = Got(t),
             \A u \in Transfer : PhaseOf(u) = "accepted" => To(u) # To(t)
      PROVE  Contract!Accept(t)
  BY <1>3 DEF OnlySeen, Contract!Accept, To, Got
<1>4. ASSUME PhaseOf(t) = "accepted", PhaseOf(t)' = "delivered", To(t)' = To(t), Got(t)' = Original(t)
      PROVE  Contract!Deliver(t)
  BY <1>4 DEF OnlySeen, Contract!Deliver, To, Got
<1> QED BY <1>1, <1>2, <1>3, <1>4

\* An offer is the contract's Offer, or its FailToOffer once the channel is closed.
LEMMA ContractOfSendOffer ==
  ASSUME TypeOK, OfferInv, NEW p \in Peer, NEW t \in Transfer, SendOffer(p, t)
  PROVE  \E o \in Peer : Contract!Offer(t, o) \/ Contract!FailToOffer(t, o)
<1> DEFINE o == Other(p)
<1>1. o \in Peer /\ o # p /\ o # NONE /\ p # NONE /\ Other(o) = p
  BY OtherIsPeer, TransferAssumption
<1>2. /\ sender[t] = NONE /\ sender'[t] = p /\ UNCHANGED saved
      /\ \A u \in Transfer : u # t => sender'[u] = sender[u]
      /\ session[p] = NONE /\ \A q \in Peer : q # p => session'[q] = session[q]
      /\ session'[p] = NONE \/ session'[p] = NewSession(t, "sender")
  BY DEF SendOffer, TypeOK
<1>3. \A q \in Peer, u \in Transfer :
        UnderWay(q, "metadata", u)' <=> UnderWay(q, "metadata", u) \/ (up /\ q = o /\ u = t)
  <2>1. Send(p, Msg("metadata", t)) /\ "metadata" \in MessageType
    BY DEF SendOffer, MessageType
  <2> QED BY <2>1, SendEffect
<1>4. \A q \in Peer, u \in Transfer : (Holds(q, u)' <=> Holds(q, u)) /\ (Holds(q, u) => session'[q] = session[q])
  BY <1>2 DEF Holds, HasRole, Has, NewSession
<1>5. saved[o][t] = NONE /\ ~Holds(o, t) /\ ~UnderWay(o, "metadata", t)
  BY <1>1, <1>2 DEF OfferInv, Saved, Roles, Traffic, Holds, HasRole
<1>6. OnlySeen(t)
  <2> SUFFICES ASSUME NEW u \in Transfer, u # t PROVE Unseen(u)
    BY UnseenKeeps DEF OnlySeen
  <2>1. sender[u] # NONE => Other(sender[u]) \in Peer
    BY OtherIsPeer DEF TypeOK
  <2> QED BY <1>2, <1>3, <1>4, <2>1 DEF Unseen
<1>7. PhaseTable(t) /\ PhaseTable(t)'
  BY PhaseNow, PhaseNext
<1>8. PhaseOf(t) = "new" /\ To(t)' = o /\ Got(t) = NONE /\ Got(t)' = NONE
  BY <1>1, <1>2, <1>5, <1>7 DEF PhaseTable, To, Got
<1>9. PhaseOf(t)' = IF up THEN "offered" ELSE "over"
  BY <1>1, <1>2, <1>3, <1>4, <1>5, <1>7 DEF PhaseTable
<1> HIDE DEF o
<1> QED BY <1>1, <1>6, <1>8, <1>9, ContractStep

\* The first accept is the contract's Accept: p holds no other transfer.
LEMMA ContractOfAccept ==
  ASSUME TypeOK, OfferInv, NEW p \in Peer, AcceptOffer(p), up
  PROVE  UNCHANGED Contract!vars \/ \E t \in Transfer : Contract!Accept(t)
<1> SUFFICES ASSUME NEW t \in Transfer, session[p].id = t
             PROVE  UNCHANGED Contract!vars \/ Contract!Accept(t)
  BY AcceptFacts
<1>1. /\ Has(p, "receiver") /\ t \in Transfer /\ UNCHANGED <<saved, sender>>
      /\ session'[p] # NONE /\ session'[p].id = t /\ session'[p].role = session[p].role
      /\ session'[p].accepts = session[p].accepts + 1 /\ session[p].accepts \in Nat
      /\ \A q \in Peer : q # p => session'[q] = session[q]
  BY AcceptFacts
<1>2. \A q \in Peer, u \in Transfer : UnderWay(q, "metadata", u)' <=> UnderWay(q, "metadata", u)
  <2>1. \A q \in Peer, y \in MessageType, u \in Transfer :
          UnderWay(q, y, u)' <=>
            UnderWay(q, y, u) \/ (q = Other(p) /\ y = "accept" /\ u = session[p].id)
    BY AcceptFacts
  <2> QED BY <2>1 DEF MessageType
<1>3. Holds(p, t) /\ Holds(p, t)' /\ \A u \in Transfer : Holds(p, u) => u = t
  BY <1>1 DEF Holds, HasRole, Has
<1>4. sender[t] = Other(p) /\ saved[p][t] = NONE
  BY <1>1 DEF OfferInv, Roles
<1>5. Other(sender[t]) = p /\ sender[t] # NONE /\ \A u \in Transfer : sender[u] # NONE => Other(sender[u]) \in Peer
  BY <1>4, OtherIsPeer, TransferAssumption DEF TypeOK
<1>6. \A q \in Peer, u \in Transfer : Holds(q, u)' <=> Holds(q, u)
  BY <1>1, <1>3 DEF Holds, HasRole, Has
<1>7. ASSUME NEW u \in Transfer, u # t PROVE Unseen(u)
  <2>1. \A q \in Peer : Holds(q, u) => session'[q] = session[q]
    BY <1>1, <1>3, <1>7 DEF Holds
  <2> QED BY <1>1, <1>2, <1>5, <1>6, <2>1 DEF Unseen
<1>8. CASE session[p].accepts > 0
  <2>1. Unseen(t)
    BY <1>1, <1>2, <1>5, <1>6, <1>8 DEF Unseen
  <2> QED BY <1>1, <1>7, <2>1, UnseenKeeps, ContractVars
<1>9. CASE ~(session[p].accepts > 0)
  <2>1. PhaseTable(t) /\ PhaseTable(t)' /\ \A u \in Transfer : PhaseTable(u)
    BY <1>1, PhaseNow, PhaseNext
  <2>2. PhaseOf(t) = "offered" /\ PhaseOf(t)' = "accepted" /\ To(t)' = To(t) /\ To(t) = p /\ Got(t)' = Got(t)
    BY <1>1, <1>3, <1>4, <1>5, <1>9, <2>1 DEF PhaseTable, To, Got
  <2>3. ASSUME NEW u \in Transfer, PhaseOf(u) = "accepted" PROVE To(u) # p
    <3>1. sender[u] # NONE /\ Holds(Other(sender[u]), u) /\ session[Other(sender[u])].accepts > 0
      BY <2>1, <2>3 DEF PhaseTable
    <3> QED BY <1>3, <1>9, <3>1 DEF To
  <2>4. OnlySeen(t)
    BY <1>7, UnseenKeeps DEF OnlySeen
  <2> QED BY <1>1, <2>2, <2>3, <2>4, ContractStep
<1> QED BY <1>8, <1>9

\* The contract does not see an offer arrive: it was offered, and is until it is accepted.
LEMMA ContractOfTake ==
  ASSUME TypeOK, OfferInv, NEW p \in Peer, NEW t \in Transfer, control[p] # <<>>,
         Head(control[p]).type = "metadata", Head(control[p]).id = t, Take(p, t)
  PROVE  UNCHANGED Contract!vars
<1>1. MetadataHandled(p, t)
  BY MetadataEffect
<1>2. /\ ~Has(p, "receiver") /\ UNCHANGED <<saved, sender>>
      /\ session'[p] = NewSession(t, "receiver")
      /\ \A q \in Peer : q # p => session'[q] = session[q]
  BY DEF Take, TypeOK
<1>3. NewSession(t, "receiver") # NONE
  BY NewSessionTyped DEF Role
<1>4. \A u \in Transfer : sender[u] # NONE => Other(sender[u]) \in Peer
  BY OtherIsPeer DEF TypeOK
<1>5. \A q \in Peer, u \in Transfer :
        u # t => (UnderWay(q, "metadata", u)' <=> UnderWay(q, "metadata", u))
  <2>1. \A q \in Peer : q = p \/ q = Other(p)
    BY OnlyTwoPeers
  <2> QED BY <1>1, <2>1 DEF MetadataHandled, MessageType
<1>6. ASSUME NEW u \in Transfer, u # t PROVE Unseen(u)
  <2>1. \A q \in Peer : /\ Holds(q, u)' <=> Holds(q, u)
                        /\ Holds(q, u) => session'[q] = session[q]
    BY <1>2, <1>3, <1>6 DEF Holds, HasRole, Has, NewSession
  <2> QED BY <1>2, <1>4, <1>5, <1>6, <2>1 DEF Unseen
<1>7. PhaseOf(t)' = PhaseOf(t) /\ To(t)' = To(t) /\ Got(t)' = Got(t)
  <2>1. sender[t] = Other(p) /\ saved[p][t] = NONE /\ ~Holds(p, t) /\ UnderWay(p, "metadata", t)
    BY <1>1 DEF MetadataHandled, OfferInv, Traffic
  <2>2. Other(sender[t]) = p /\ sender[t] # NONE
    BY <2>1, OtherIsPeer, TransferAssumption
  <2>3. Holds(p, t)' /\ session'[p].accepts = 0
    BY <1>2, <1>3 DEF Holds, HasRole, Has, NewSession
  <2>4. PhaseTable(t) /\ PhaseTable(t)'
    BY PhaseNow, PhaseNext
  <2>5. PhaseOf(t) = "offered"
    BY <2>1, <2>2, <2>4 DEF PhaseTable
  <2>6. PhaseOf(t)' = "offered"
    BY <1>2, <2>1, <2>2, <2>3, <2>4 DEF PhaseTable
  <2> QED BY <1>2, <2>5, <2>6 DEF To, Got
<1> QED BY <1>6, <1>7, UnseenKeeps, ContractVars

\* An offer that is refused is over.
LEMMA ContractOfRefuse ==
  ASSUME TypeOK, OfferInv, NEW p \in Peer, NEW t \in Transfer, control[p] # <<>>,
         Head(control[p]).type = "metadata", Head(control[p]).id = t, Refuse(p, t)
  PROVE  \E S \in SUBSET Transfer : Contract!GiveUp(S)
<1>1. MetadataHandled(p, t)
  BY MetadataEffect
<1>2. UNCHANGED <<session, saved, sender>>
  BY DEF Refuse
<1>3. \A u \in Transfer : sender[u] # NONE => Other(sender[u]) \in Peer
  BY OtherIsPeer DEF TypeOK
<1>4. \A q \in Peer, u \in Transfer :
        u # t => (UnderWay(q, "metadata", u)' <=> UnderWay(q, "metadata", u))
  <2>1. \A q \in Peer : q = p \/ q = Other(p)
    BY OnlyTwoPeers
  <2> QED BY <1>1, <2>1 DEF MetadataHandled, MessageType
<1>5. ASSUME NEW u \in Transfer, u # t PROVE Unseen(u)
  BY <1>2, <1>3, <1>4, <1>5 DEF Unseen, Holds, HasRole, Has
<1>6. /\ PhaseOf(t) \in {"offered", "accepted"} /\ PhaseOf(t)' = "over"
      /\ To(t)' = To(t) /\ Got(t)' = Got(t)
  <2>1. UnderWay(p, "metadata", t) /\ ~UnderWay(p, "metadata", t)' /\ ~Holds(p, t)'
    BY <1>1, <1>2 DEF MetadataHandled, OfferInv, Traffic, Holds, HasRole, Has
  <2> QED BY <1>2, <2>1, GivenUp
<1>7. Contract!GiveUp({t})
  <2>1. \A u \in Transfer : u # t => PhaseOf(u)' = PhaseOf(u) /\ To(u)' = To(u) /\ Got(u)' = Got(u)
    BY <1>5, UnseenKeeps
  <2> QED BY <1>6, <2>1, ContractVars
<1> QED BY <1>7

\* A file that reaches its destination is the contract's Deliver.
LEMMA ContractOfSave ==
  ASSUME TypeOK, OfferInv, "io" \notin Faults, NEW p \in Peer, Save(p)
  PROVE  \E t \in Transfer : Contract!Deliver(t)
<1> SUFFICES ASSUME NEW t \in Transfer, session[p].id = t
             PROVE  Contract!Deliver(t)
  BY SessionTyped DEF Save, Has
<1>1. /\ Has(p, "receiver") /\ session[p].accepts > 0 /\ session'[p] = NONE
      /\ \A q \in Peer : q # p => session'[q] = session[q] /\ saved'[q] = saved[q]
      /\ \A u \in Transfer : u # t => saved'[p][u] = saved[p][u]
      /\ saved'[p][t] = Original(t)
      /\ UNCHANGED <<control, sender>>
  BY DEF Save, TypeOK
<1>2. sender[t] = Other(p) /\ saved[p][t] = NONE
  BY <1>1 DEF OfferInv, Roles
<1>3. Other(sender[t]) = p /\ sender[t] # NONE /\ \A u \in Transfer : sender[u] # NONE => Other(sender[u]) \in Peer
  BY <1>2, OtherIsPeer, TransferAssumption DEF TypeOK
<1>4. Holds(p, t) /\ \A u \in Transfer : Holds(p, u) => u = t
  BY <1>1 DEF Holds, HasRole
<1>5. ASSUME NEW u \in Transfer, u # t PROVE Unseen(u)
  <2>1. \A q \in Peer : /\ Holds(q, u)' <=> Holds(q, u)
                        /\ Holds(q, u) => session'[q] = session[q]
                        /\ saved'[q][u] = saved[q][u]
    BY <1>1, <1>4, <1>5 DEF Holds, HasRole, Has
  <2> QED BY <1>1, <1>3, <2>1 DEF Unseen, UnderWay
<1>6. OnlySeen(t)
  BY <1>5, UnseenKeeps DEF OnlySeen
<1>7. Original(t) # NONE
  BY OriginalTyped, TransferAssumption
<1>8. PhaseTable(t) /\ PhaseTable(t)'
  BY PhaseNow, PhaseNext
<1>9. PhaseOf(t) = "accepted"
  BY <1>1, <1>2, <1>3, <1>4, <1>8 DEF PhaseTable
<1>10. PhaseOf(t)' = "delivered"
  BY <1>1, <1>3, <1>7, <1>8 DEF PhaseTable
<1>11. To(t)' = To(t) /\ Got(t)' = Original(t)
  BY <1>1, <1>3 DEF To, Got
<1> QED BY <1>6, <1>9, <1>10, <1>11, ContractStep

\* A lost connection is the end of every offer that was still under way.
LEMMA ContractOfDisconnect ==
  ASSUME TypeOK, OfferInv, Disconnect
  PROVE  UNCHANGED Contract!vars \/ \E S \in SUBSET Transfer : Contract!GiveUp(S)
<1> DEFINE S == {t \in Transfer : \E q \in Peer : UnderWay(q, "metadata", t)}
<1>1. UNCHANGED <<session, saved, sender>> /\ \A q \in Peer : DOMAIN control'[q] = {}
  BY DEF Disconnect
<1>2. \A q \in Peer, t \in Transfer : ~UnderWay(q, "metadata", t)'
  BY <1>1 DEF UnderWay
<1>3. ASSUME NEW t \in S
      PROVE  /\ PhaseOf(t) \in {"offered", "accepted"} /\ PhaseOf(t)' = "over"
             /\ To(t)' = To(t) /\ Got(t)' = Got(t)
  <2>1. PICK q \in Peer : UnderWay(q, "metadata", t)
    OBVIOUS
  <2>2. t \in Transfer /\ ~Holds(q, t)'
    BY <1>1, <2>1 DEF OfferInv, Traffic, Holds, HasRole, Has
  <2> QED BY <1>1, <1>2, <2>1, <2>2, GivenUp
<1>4. ASSUME NEW t \in Transfer, t \notin S
      PROVE  PhaseOf(t)' = PhaseOf(t) /\ To(t)' = To(t) /\ Got(t)' = Got(t)
  <2>1. sender[t] # NONE => Other(sender[t]) \in Peer
    BY OtherIsPeer DEF TypeOK
  <2>2. Unseen(t)
    BY <1>1, <1>2, <1>4, <2>1 DEF Unseen, Holds, HasRole, Has
  <2> QED BY <2>2, UnseenKeeps
<1> HIDE DEF S
<1>5. CASE S = {}
  BY <1>4, <1>5, ContractVars
<1>6. CASE S # {}
  <2>1. S \in SUBSET Transfer
    BY DEF S
  <2>2. \A t \in Transfer : To(t)' = To(t) /\ Got(t)' = Got(t)
    BY <1>3, <1>4
  <2> QED BY <1>3, <1>4, <1>6, <2>1, <2>2, ContractVars
<1> QED BY <1>5, <1>6

\* Nothing is offered at first, in either specification.
LEMMA ContractInit == Init => Contract!Init
<1> SUFFICES ASSUME Init PROVE Contract!Init
  OBVIOUS
<1>1. \A t \in Transfer : sender[t] = NONE
  BY DEF Init
<1>2. \A t \in Transfer : PhaseOf(t) = "new"
  BY <1>1, PhaseNow DEF PhaseTable
<1> QED BY <1>1, <1>2 DEF Contract!Init

\* Every step is one of the contract's, or a stutter.
LEMMA ContractNext ==
  ASSUME TypeOK, OfferInv, "io" \notin Faults, [Next]_vars
  PROVE  [Contract!Next]_Contract!vars
<1>1. ASSUME NEW p \in Peer, Drop(p) \/ Consume(p) \/ Count(p) \/ Save(p) \/ (AcceptOffer(p) /\ up)
      PROVE  \/ UNCHANGED Contract!vars
             \/ \E S \in SUBSET Transfer : Contract!GiveUp(S)
             \/ \E t \in Transfer : Contract!Accept(t) \/ Contract!Deliver(t)
  BY <1>1, ContractOfDrop, ContractOfConsume, ContractOfCount, ContractOfSave, ContractOfAccept
<1>2. ASSUME NEW p \in Peer, NEW t \in Transfer, SendOffer(p, t) \/ Start(p, t)
      PROVE  \/ UNCHANGED Contract!vars
             \/ \E u \in Transfer, o \in Peer : Contract!Offer(u, o) \/ Contract!FailToOffer(u, o)
  BY <1>2, ContractOfSendOffer, ContractOfStart
<1>3. ASSUME NEW p \in Peer, NEW t \in Transfer,
             control[p] # <<>>, Head(control[p]).type = "metadata", Head(control[p]).id = t,
             Take(p, t) \/ Refuse(p, t)
      PROVE  UNCHANGED Contract!vars \/ \E S \in SUBSET Transfer : Contract!GiveUp(S)
  BY <1>3, ContractOfTake, ContractOfRefuse
<1> QED BY <1>1, <1>2, <1>3, OfferStepCases, ContractOfQuiet, ContractOfDisconnect DEF Contract!Next

\* The protocol implements its contract: a transfer is delivered only to the
\* peer that accepted it, intact and while it holds no other, and whatever
\* crosses on the wire, is refused, cancelled, timed out or lost, nothing that
\* is over comes back; unless writing the destination itself fails.
THEOREM ContractImplemented ==
  ASSUME "io" \notin Faults
  PROVE  Spec => ImplementsContract
<1>1. TypeOK /\ OfferInv /\ [Next]_vars => [Contract!Next]_Contract!vars
  BY ContractNext
<1> QED BY <1>1, ContractInit, TypeCorrect, OffersHold, PTL DEF Spec, ImplementsContract, Contract!Spec
-----------------------------------------------------------------------------
(* Offers that cross: what the pipelines do.                               *)

\* A step of a pipeline's tasks, or its report, seen from the outside.
PipelineMoves(t) ==
  /\ pipeline[t] \in Pipeline /\ pipeline'[t] \in Pipeline
  /\ \A u \in Transfer : u # t => pipeline'[u] = pipeline[u]
  /\ pipeline[t].writer # "running" => pipeline'[t].writer # "running"
  /\ \/ pipeline'[t].queue \in {pipeline[t].queue, <<>>}
     \/ \E k \in DOMAIN source[t] : pipeline'[t].queue = <<source[t][k]>>
  /\ pipeline'[t].hand \in {pipeline[t].hand, <<>>, pipeline[t].queue}

\* The tasks of a pipeline do only that.
LEMMA StepMoves ==
  ASSUME TypeOK, NEW t \in Transfer, ReaderStep(t) \/ WriterStep(t) \/ Report(t)
  PROVE  PipelineMoves(t)
<1>1. pipeline[t] # NONE
  BY DEF ReaderStep, WriterStep, ReadChunk, TakeChunk, SendChunk, SendEof, Report, Running
<1>2. pipeline[t] \in Pipeline /\ <<>> \in Seq(Chunk)
  BY <1>1, PipelineTyped, EmptySeq
<1> DEFINE pl == pipeline[t]
           none == <<>>
<1>3. ASSUME NEW e \in Task, pipeline' = Pipe(t, "reader", e)
      PROVE  PipelineMoves(t)
  <2>1. /\ pipeline'[t] = [pl EXCEPT !["reader"] = e]
        /\ \A u \in Transfer : u # t => pipeline'[u] = pipeline[u]
    BY <1>3 DEF Pipe, TypeOK
  <2>2. pipeline'[t] \in Pipeline /\ pipeline'[t].writer = pl.writer
        /\ pipeline'[t].queue = pl.queue /\ pipeline'[t].hand = pl.hand
    BY <1>2, <2>1 DEF Pipeline
  <2> QED BY <1>2, <2>1, <2>2 DEF PipelineMoves
<1>4. ASSUME NEW e \in {"finished", "failed"}, pipeline' = Pipe(t, "writer", e)
      PROVE  PipelineMoves(t)
  <2>1. /\ pipeline'[t] = [pl EXCEPT !["writer"] = e]
        /\ \A u \in Transfer : u # t => pipeline'[u] = pipeline[u]
    BY <1>4 DEF Pipe, TypeOK
  <2>2. pipeline'[t] \in Pipeline /\ pipeline'[t].writer = e
        /\ pipeline'[t].queue = pl.queue /\ pipeline'[t].hand = pl.hand
    BY <1>2, <2>1 DEF Pipeline, Task
  <2> QED BY <1>2, <2>1, <2>2 DEF PipelineMoves
<1>5. CASE Report(t)
  <2>1. /\ pipeline'[t] = [pl EXCEPT !["reported"] = TRUE]
        /\ \A u \in Transfer : u # t => pipeline'[u] = pipeline[u]
    BY <1>5 DEF Report, Pipe, TypeOK
  <2>2. pipeline'[t] \in Pipeline /\ pipeline'[t].writer = pl.writer
        /\ pipeline'[t].queue = pl.queue /\ pipeline'[t].hand = pl.hand
    BY <1>2, <2>1 DEF Pipeline
  <2> QED BY <1>2, <2>1, <2>2 DEF PipelineMoves
<1>6. CASE ReaderStep(t)
  <2> DEFINE next == pl.offset + 1
             one == <<source[t][next]>>
  <2>1. CASE pipeline' = Pipe(t, "reader", "failed") \/ pipeline' = Pipe(t, "reader", "finished")
    BY <1>3, <2>1 DEF Task
  <2>2. CASE /\ next <= Len(source[t])
             /\ pipeline' = [pipeline EXCEPT ![t].offset = next, ![t].queue = one]
    <3>1. next \in Nat /\ next >= 1
      BY <1>2 DEF Pipeline
    <3>2. source[t] \in Seq(Chunk) /\ Len(source[t]) \in Nat /\ DOMAIN source[t] = 1 .. Len(source[t])
      BY LenProperties DEF TypeOK
    <3>3. next \in DOMAIN source[t] /\ source[t][next] \in Chunk
      BY <2>2, <3>1, <3>2, ElementOfSeq
    <3>4. one \in Seq(Chunk)
      BY <3>3
    <3>5. \E k \in DOMAIN source[t] : one = <<source[t][k]>>
      BY <3>3
    <3> HIDE DEF next, one
    <3>6. /\ pipeline'[t] = [pl EXCEPT !.offset = next, !.queue = one]
          /\ \A u \in Transfer : u # t => pipeline'[u] = pipeline[u]
      BY <2>2 DEF TypeOK
    <3>7. pipeline'[t] \in Pipeline /\ pipeline'[t].writer = pl.writer
          /\ pipeline'[t].queue = one /\ pipeline'[t].hand = pl.hand
      BY <1>2, <3>1, <3>4, <3>6 DEF Pipeline
    <3> QED BY <1>2, <3>5, <3>6, <3>7 DEF PipelineMoves
  <2> QED BY <1>6, <2>1, <2>2 DEF ReaderStep, ReadChunk
<1>7. CASE TakeChunk(t)
  <2> HIDE DEF none
  <2>1. CASE pipeline' = [pipeline EXCEPT ![t].queue = none, ![t].writer = "failed"]
    <3>1. /\ pipeline'[t] = [pl EXCEPT !.queue = none, !.writer = "failed"]
          /\ \A u \in Transfer : u # t => pipeline'[u] = pipeline[u]
      BY <2>1 DEF TypeOK
    <3>2. pipeline'[t] \in Pipeline /\ pipeline'[t].writer = "failed"
          /\ pipeline'[t].queue = none /\ pipeline'[t].hand = pl.hand
      BY <1>2, <3>1 DEF Pipeline, Task, none
    <3> QED BY <1>2, <3>1, <3>2 DEF PipelineMoves, none
  <2>2. CASE pipeline' = [pipeline EXCEPT ![t].queue = none, ![t].hand = pl.queue]
    <3>1. /\ pipeline'[t] = [pl EXCEPT !.queue = none, !.hand = pl.queue]
          /\ \A u \in Transfer : u # t => pipeline'[u] = pipeline[u]
      BY <2>2 DEF TypeOK
    <3>2. pipeline'[t] \in Pipeline /\ pipeline'[t].writer = pl.writer
          /\ pipeline'[t].queue = none /\ pipeline'[t].hand = pl.queue
      BY <1>2, <3>1 DEF Pipeline, none
    <3> QED BY <1>2, <3>1, <3>2 DEF PipelineMoves, none
  <2> QED BY <1>7, <2>1, <2>2 DEF TakeChunk, none
<1>8. CASE SendChunk(t)
  <2> HIDE DEF none
  <2>1. CASE pipeline' = [pipeline EXCEPT ![t]["hand"] = none]
    <3>1. /\ pipeline'[t] = [pl EXCEPT !["hand"] = none]
          /\ \A u \in Transfer : u # t => pipeline'[u] = pipeline[u]
      BY <2>1 DEF TypeOK
    <3>2. pipeline'[t] \in Pipeline /\ pipeline'[t].writer = pl.writer
          /\ pipeline'[t].queue = pl.queue /\ pipeline'[t].hand = none
      BY <1>2, <3>1 DEF Pipeline, none
    <3> QED BY <1>2, <3>1, <3>2 DEF PipelineMoves, none
  <2>2. CASE pipeline' = [pipeline EXCEPT ![t].hand = none, ![t].writer = "failed"]
    <3>1. /\ pipeline'[t] = [pl EXCEPT !.hand = none, !.writer = "failed"]
          /\ \A u \in Transfer : u # t => pipeline'[u] = pipeline[u]
      BY <2>2 DEF TypeOK
    <3>2. pipeline'[t] \in Pipeline /\ pipeline'[t].writer = "failed"
          /\ pipeline'[t].queue = pl.queue /\ pipeline'[t].hand = none
      BY <1>2, <3>1 DEF Pipeline, Task, none
    <3> QED BY <1>2, <3>1, <3>2 DEF PipelineMoves, none
  <2> QED BY <1>8, <2>1, <2>2 DEF SendChunk, Pipe, none
<1>9. CASE SendEof(t)
  BY <1>4, <1>9 DEF SendEof
<1> QED BY <1>5, <1>6, <1>7, <1>8, <1>9 DEF WriterStep

\* A pipeline never disappears, and only an accept starts one.
LEMMA PipelinesStay ==
  ASSUME TypeOK, [Next]_vars
  PROVE  \A t \in Transfer : pipeline[t] # NONE => pipeline'[t] # NONE
<1>1. ASSUME NEW t \in Transfer, ReaderStep(t) \/ WriterStep(t) \/ Report(t)
      PROVE  \A u \in Transfer : pipeline[u] # NONE => pipeline'[u] # NONE
  BY <1>1, StepMoves, TransferAssumption DEF PipelineMoves
<1>2. ASSUME NEW p \in Peer, ReceiveControl(p)
      PROVE  \A u \in Transfer : pipeline[u] # NONE => pipeline'[u] # NONE
  <2>1. \/ UNCHANGED pipeline
        \/ \E t \in Transfer : pipeline' = [pipeline EXCEPT ![t] = NewPipeline]
    <3>1. ReceiveAccept(p) => Head(control[p]).id \in Transfer
      BY HeadTyped DEF ReceiveAccept, Incoming
    <3> QED BY <1>2, <3>1 DEF ReceiveControl, ReceiveMetadata, ReceiveAccept, ReceiveEnd
  <2>2. <<>> \in Seq(Chunk)
    BY EmptySeq
  <2>3. NewPipeline \in Pipeline
    BY <2>2 DEF NewPipeline, Pipeline, Task
  <2> QED BY <2>1, <2>3, TransferAssumption DEF TypeOK
<1>3. ASSUME NEW p \in Peer, UserStep(p) \/ Timeout(p) \/ Dispose(p) \/ ReceiveFile(p)
      PROVE  UNCHANGED pipeline
  BY <1>3 DEF UserStep, SendOffer, AcceptOffer, RejectOffer, CancelTransfer, Timeout, Dispose, ReceiveFile,
              ReceiveChunk, ReceiveEof
<1> QED BY <1>1, <1>2, <1>3, StepCases DEF Edit, Disconnect, vars
-----------------------------------------------------------------------------
(* Offers that cross: one prevails.                                        *)

\* p sends, or the accept that will make it send is on its way.
Granted(p) ==
  \E t \in Transfer : HasRole(p, "sender", t) /\ (session[p].worker_started \/ UnderWay(p, "accept", t))

OneGranted == \A p, q \in Peer : Granted(p) /\ Granted(q) => p = q

WorkerStarted ==
  \A p \in Peer : Has(p, "sender") /\ session[p].worker_started => pipeline[session[p].id] # NONE

\* What makes a peer a sender, or starts its worker.
LEMMA SenderSteps ==
  ASSUME TypeOK, OfferInv, [Next]_vars, NEW p \in Peer, NEW t \in Transfer, HasRole(p, "sender", t)'
  PROVE  \/ HasRole(p, "sender", t) /\ session'[p].worker_started = session[p].worker_started
         \/ /\ SendOffer(p, t) /\ up /\ session'[p] = NewSession(t, "sender")
            /\ \A u \in Transfer : UnderWay(p, "accept", u)' => UnderWay(p, "accept", u)
         \/ Start(p, t)
<1>1. CASE Quiet
  BY <1>1 DEF Quiet, HasRole, Has
<1>2. ASSUME NEW q \in Peer, Drop(q)
      PROVE  HasRole(p, "sender", t) /\ session'[p] = session[p]
  <2>1. session'[q] = NONE /\ \A r \in Peer : r # q => session'[r] = session[r]
    BY <1>2 DEF Drop, TypeOK
  <2> QED BY <2>1 DEF HasRole, Has
<1>3. ASSUME NEW q \in Peer, Consume(q) \/ Disconnect
      PROVE  HasRole(p, "sender", t) /\ session'[p] = session[p]
  BY <1>3 DEF Consume, Disconnect, HasRole, Has
<1>4. ASSUME NEW q \in Peer, Count(q) \/ (AcceptOffer(q) /\ up)
      PROVE  HasRole(p, "sender", t) /\ session'[p] = session[p]
  <2>1. Has(q, "receiver") /\ session'[q].role = session[q].role
        /\ \A r \in Peer : r # q => session'[r] = session[r]
    BY <1>4, CountFacts, AcceptFacts
  <2> QED BY <2>1 DEF HasRole, Has
<1>5. ASSUME NEW q \in Peer, Save(q)
      PROVE  HasRole(p, "sender", t) /\ session'[p] = session[p]
  <2>1. session'[q] = NONE /\ \A r \in Peer : r # q => session'[r] = session[r]
    BY <1>5 DEF Save, TypeOK
  <2> QED BY <2>1 DEF HasRole, Has
<1>6. ASSUME NEW q \in Peer, NEW u \in Transfer, Take(q, u) \/ Refuse(q, u)
      PROVE  HasRole(p, "sender", t) /\ session'[p] = session[p]
  <2>1. \/ session' = session
        \/ session'[q].role = "receiver" /\ \A r \in Peer : r # q => session'[r] = session[r]
    BY <1>6 DEF Take, Refuse, NewSession, TypeOK
  <2> QED BY <2>1 DEF HasRole, Has
<1>7. ASSUME NEW q \in Peer, NEW u \in Transfer, SendOffer(q, u)
      PROVE  \/ HasRole(p, "sender", t) /\ session'[p] = session[p]
             \/ /\ SendOffer(p, t) /\ up /\ session'[p] = NewSession(t, "sender")
                /\ \A v \in Transfer : UnderWay(p, "accept", v)' => UnderWay(p, "accept", v)
  <2>1. /\ \A r \in Peer : r # q => session'[r] = session[r]
        /\ session[q] = NONE
        /\ session'[q] = NONE \/ (up /\ session'[q] = NewSession(u, "sender"))
    BY <1>7 DEF SendOffer, TypeOK
  <2>2. \A r \in Peer, v \in Transfer : UnderWay(r, "accept", v)' => UnderWay(r, "accept", v)
    <3>1. Send(q, Msg("metadata", u)) /\ "metadata" \in MessageType /\ "accept" \in MessageType
      BY <1>7 DEF SendOffer, MessageType
    <3> QED BY <3>1, SendEffect
  <2>3. CASE p # q
    BY <2>1, <2>3 DEF HasRole, Has
  <2>4. CASE p = q
    <3>1. up /\ session'[p] = NewSession(u, "sender") /\ u = t
      BY <2>1, <2>4 DEF HasRole, Has, NewSession
    <3> QED BY <1>7, <2>2, <2>4, <3>1
  <2> QED BY <2>3, <2>4
<1>8. ASSUME NEW q \in Peer, NEW u \in Transfer, Start(q, u)
      PROVE  (HasRole(p, "sender", t) /\ session'[p] = session[p]) \/ Start(p, t)
  <2>1. Started(q, u)
    BY <1>8, StartSession
  <2>2. CASE p # q
    BY <2>1, <2>2 DEF Started, HasRole, Has
  <2>3. CASE p = q
    BY <1>8, <2>1, <2>3 DEF Started, HasRole, Has
  <2> QED BY <2>2, <2>3
<1>9. \E q \in Peer : q = p
  OBVIOUS
<1> QED BY <1>1, <1>2, <1>3, <1>4, <1>5, <1>6, <1>7, <1>8, <1>9, OfferStepCases

\* A worker that has started has a pipeline: kept by every step.
LEMMA WorkerStartedKept == TypeOK /\ OfferInv /\ WorkerStarted /\ [Next]_vars => WorkerStarted'
<1> SUFFICES ASSUME TypeOK, OfferInv, WorkerStarted, [Next]_vars, NEW p \in Peer,
                    Has(p, "sender")', session'[p].worker_started
             PROVE  pipeline'[session'[p].id] # NONE
  BY DEF WorkerStarted
<1>1. TypeOK'
  BY TypeStep
<1>2. session'[p].id \in Transfer
  BY <1>1 DEF TypeOK, Session, Has
<1> SUFFICES ASSUME NEW t \in Transfer, session'[p].id = t
             PROVE  pipeline'[t] # NONE
  BY <1>2
<1>3. HasRole(p, "sender", t)'
  BY DEF HasRole
<1>4. CASE HasRole(p, "sender", t) /\ session'[p].worker_started = session[p].worker_started
  BY <1>4, PipelinesStay DEF WorkerStarted, HasRole
<1>5. CASE session'[p] = NewSession(t, "sender")
  BY <1>5 DEF NewSession
<1>6. CASE Start(p, t)
  <2>1. <<>> \in Seq(Chunk)
    BY EmptySeq
  <2>2. NewPipeline \in Pipeline
    BY <2>1 DEF NewPipeline, Pipeline, Task
  <2> QED BY <1>6, <2>2, TransferAssumption DEF Start, TypeOK
<1> QED BY <1>3, <1>4, <1>5, <1>6, SenderSteps

\* Only a user who accepts puts an accept under way.
LEMMA AcceptSteps ==
  ASSUME TypeOK, OfferInv, [Next]_vars, NEW p \in Peer, NEW t \in Transfer,
         UnderWay(p, "accept", t)', ~UnderWay(p, "accept", t)
  PROVE  AcceptOffer(Other(p)) /\ up /\ HasRole(Other(p), "receiver", t)
<1>1. "accept" \in MessageType /\ "metadata" \in MessageType
  BY DEF MessageType
<1>2. CASE Quiet
  BY <1>2 DEF Quiet, UnderWay
<1>3. ~ \E q \in Peer : Drop(q)
  BY <1>1 DEF Drop
<1>4. ~ \E q \in Peer : Consume(q)
  BY <1>1, ConsumeFacts DEF Consume
<1>5. ~ \E q \in Peer : Count(q) \/ Save(q)
  BY DEF Count, Save, UnderWay
<1>6. ~Disconnect
  BY DEF Disconnect, UnderWay
<1>7. ASSUME NEW q \in Peer, NEW u \in Transfer, SendOffer(q, u)
      PROVE  FALSE
  <2>1. Send(q, Msg("metadata", u))
    BY <1>7 DEF SendOffer
  <2> QED BY <1>1, <2>1, SendEffect
<1>8. ~ \E q \in Peer, u \in Transfer : Start(q, u)
  BY <1>1, StartTraffic
<1>9. ASSUME NEW q \in Peer, NEW u \in Transfer, control[q] # <<>>,
             Head(control[q]).type = "metadata", Head(control[q]).id = u,
             Take(q, u) \/ Refuse(q, u)
      PROVE  FALSE
  <2>1. MetadataHandled(q, u)
    BY <1>9, MetadataEffect
  <2>2. p = q \/ p = Other(q)
    BY OnlyTwoPeers
  <2> QED BY <1>1, <2>1, <2>2 DEF MetadataHandled
<1>10. ASSUME NEW q \in Peer, AcceptOffer(q), up
       PROVE  q = Other(p) /\ HasRole(q, "receiver", t)
  <2>1. Has(q, "receiver") /\ p = Other(q) /\ t = session[q].id
    <3>1. /\ Has(q, "receiver")
          /\ \A r \in Peer, y \in MessageType, u \in Transfer :
              UnderWay(r, y, u)' <=>
                UnderWay(r, y, u) \/ (r = Other(q) /\ y = "accept" /\ u = session[q].id)
      BY <1>10, AcceptFacts
    <3> QED BY <1>1, <3>1
  <2>2. Other(Other(q)) = q
    BY OtherIsPeer
  <2> QED BY <2>1, <2>2 DEF HasRole
<1> QED BY <1>2, <1>3, <1>4, <1>5, <1>6, <1>7, <1>8, <1>9, <1>10, OfferStepCases

\* Who comes to be granted the wire finds that the other is not.
LEMMA GrantedSteps ==
  ASSUME TypeOK, OfferInv, [Next]_vars, NEW p \in Peer, Granted(p)', ~Granted(p)
  PROVE  ~Granted(Other(p))'
<1>1. PICK t \in Transfer : HasRole(p, "sender", t)' /\ (session'[p].worker_started \/ UnderWay(p, "accept", t)')
  BY DEF Granted
<1>2. CASE HasRole(p, "sender", t) /\ session'[p].worker_started = session[p].worker_started
  <2>1. UnderWay(p, "accept", t)' /\ ~UnderWay(p, "accept", t)
    BY <1>1, <1>2 DEF Granted
  <2>2. AcceptOffer(Other(p)) /\ up /\ Other(p) \in Peer
    BY <2>1, AcceptSteps, OtherIsPeer
  <2>3. ~Has(Other(p), "sender")'
    BY <2>2, AcceptFacts DEF Has
  <2> QED BY <2>3 DEF Granted, HasRole
<1>3. ~ (/\ SendOffer(p, t) /\ up /\ session'[p] = NewSession(t, "sender")
         /\ \A u \in Transfer : UnderWay(p, "accept", u)' => UnderWay(p, "accept", u))
  BY <1>1, TransferAssumption DEF NewSession, SendOffer, OfferInv, Traffic
<1>4. ~Start(p, t)
  BY StartTraffic DEF Start, Granted
<1> QED BY <1>1, <1>2, <1>3, <1>4, SenderSteps

\* At most one peer is granted the wire: kept by every step.
LEMMA OneGrantedKept == TypeOK /\ OfferInv /\ OneGranted /\ [Next]_vars => OneGranted'
<1> SUFFICES ASSUME TypeOK, OfferInv, OneGranted, [Next]_vars, NEW p \in Peer, NEW q \in Peer,
                    Granted(p)', Granted(q)', p # q
             PROVE  FALSE
  BY DEF OneGranted
<1>1. q = Other(p) /\ p = Other(q)
  BY OnlyTwoPeers, OtherIsPeer
<1>2. Granted(p) /\ Granted(q)
  BY <1>1, GrantedSteps
<1> QED BY <1>2 DEF OneGranted

\* And so in every state.
LEMMA OneGrantedHolds == Spec => [](OneGranted /\ WorkerStarted)
<1>1. Init => OneGranted /\ WorkerStarted
  BY DEF Init, OneGranted, WorkerStarted, Granted, HasRole, Has
<1> QED BY <1>1, OneGrantedKept, WorkerStartedKept, TypeCorrect, OffersHold, PTL DEF Spec

\* The oldest offer made.
First(t) == sender[t] # NONE /\ \A u \in Transfer : sender[u] # NONE => t <= u

\* Offer t of p waits for its accept, is the only one p has made, and nothing
\* that could end it is on its way to p.
Standing(p, t) ==
  /\ sender[t] = p /\ \A u \in Transfer : sender[u] = p => u = t
  /\ HasRole(p, "sender", t) /\ ~session[p].worker_started
  /\ ~Ended(p, t)

\* Nobody rejects or cancels, and no deadline passes.
Calm == Faults \cap {"cancel", "reject", "timeout"} = {}

NoPipelines == \A t \in Transfer : pipeline[t] = NONE

FirstStands ==
  up /\ NoPipelines /\ (\E t \in Transfer : sender[t] # NONE)
    => \E p \in Peer, t \in Transfer : First(t) /\ Standing(p, t)

\* An offer that stands goes on standing when nothing touches it.
LEMMA StandingStays ==
  ASSUME NEW p \in Peer, NEW t \in Transfer, First(t), Standing(p, t),
         session'[p] = session[p], UNCHANGED sender, Ended(p, t)' => Ended(p, t)
  PROVE  First(t)' /\ Standing(p, t)'
<1>1. First(t)'
  BY DEF First
<1>2. HasRole(p, "sender", t)' /\ ~session'[p].worker_started
  BY DEF Standing, HasRole, Has
<1> QED BY <1>1, <1>2 DEF Standing

\* A new offer stands, or leaves the oldest one standing.
LEMMA FirstAfterOffer ==
  ASSUME TypeOK, OfferInv, up, NEW q \in Peer, NEW u \in Transfer, SendOffer(q, u),
         \/ \A t \in Transfer : sender[t] = NONE
         \/ \E p \in Peer, t \in Transfer : First(t) /\ Standing(p, t)
  PROVE  \E p \in Peer, t \in Transfer : First(t)' /\ Standing(p, t)'
<1>1. /\ session[q] = NONE /\ session'[q] = NewSession(u, "sender")
      /\ \A r \in Peer : r # q => session'[r] = session[r]
      /\ sender[u] = NONE /\ sender'[u] = q
      /\ \A t \in Transfer : t # u => sender'[t] = sender[t]
      /\ \A t \in Transfer : sender[t] = q => t < u
      /\ q # NONE
  BY TransferAssumption DEF SendOffer, TypeOK
<1>2. \A r \in Peer, y \in {"reject", "cancel"}, t \in Transfer : UnderWay(r, y, t)' <=> UnderWay(r, y, t)
  <2>1. Send(q, Msg("metadata", u)) /\ {"metadata", "reject", "cancel"} \subseteq MessageType
    BY DEF SendOffer, MessageType
  <2> QED BY <2>1, SendEffect
<1>3. HasRole(q, "sender", u)' /\ ~session'[q].worker_started
  <2>1. NewSession(u, "sender") # NONE
    BY NewSessionTyped DEF Role
  <2>2. /\ NewSession(u, "sender").role = "sender" /\ NewSession(u, "sender").id = u
        /\ NewSession(u, "sender").worker_started = FALSE
    BY DEF NewSession
  <2> QED BY <1>1, <2>1, <2>2 DEF HasRole, Has
<1>4. ~Ended(q, u)'
  BY <1>1, <1>2 DEF Ended, OfferInv, Traffic, MessageType
<1>5. \A t, v \in Transfer : (t < v \/ v < t \/ t = v) /\ (t < v => t <= v /\ ~(v <= t))
  BY TransferAssumption
<1>6. CASE \A t \in Transfer : sender[t] = NONE
  <2>1. \A t \in Transfer : sender'[t] # NONE => t = u
    BY <1>1, <1>6
  <2>2. First(u)'
    BY <1>1, <2>1, TransferAssumption DEF First
  <2>3. Standing(q, u)'
    BY <1>1, <1>3, <1>4, <2>1 DEF Standing
  <2> QED BY <2>2, <2>3
<1>7. ASSUME NEW p \in Peer, NEW t \in Transfer, First(t), Standing(p, t)
      PROVE  \E r \in Peer, v \in Transfer : First(v)' /\ Standing(r, v)'
  <2>1. p # q /\ t # u /\ sender[t] = p /\ sender[t] # NONE
    BY <1>1, <1>7 DEF Standing, First, HasRole, Has
  <2>2. CASE t < u
    <3>1. First(t)'
      BY <1>1, <1>7, <2>1, <2>2, <1>5 DEF First
    <3>2. Standing(p, t)'
      BY <1>1, <1>2, <1>7, <2>1 DEF Standing, HasRole, Has, Ended
    <3> QED BY <3>1, <3>2
  <2>3. CASE u < t
    <3>1. \A v \in Transfer : sender[v] # NONE => u <= v
      BY <1>5, <1>7, <2>3, TransferAssumption DEF First
    <3>2. First(u)'
      BY <1>1, <3>1, TransferAssumption DEF First
    <3>3. \A v \in Transfer : sender[v] # q
      BY <1>1, <1>5, <3>1
    <3>4. Standing(q, u)'
      BY <1>1, <1>3, <1>4, <3>3 DEF Standing
    <3> QED BY <3>2, <3>4
  <2> QED BY <1>5, <2>1, <2>2, <2>3
<1> QED BY <1>6, <1>7

\* The oldest offer wins every collision, and nobody is busy enough to refuse it.
LEMMA FirstAfterMetadata ==
  ASSUME TypeOK, OfferInv, WorkerStarted, NoPipelines, NEW p \in Peer, NEW t \in Transfer,
         First(t), Standing(p, t), NEW q \in Peer, NEW u \in Transfer, control[q] # <<>>,
         Head(control[q]).type = "metadata", Head(control[q]).id = u, Take(q, u) \/ Refuse(q, u)
  PROVE  First(t)' /\ Standing(p, t)'
<1>1. MetadataHandled(q, u)
  BY MetadataEffect
<1>2. sender[u] = Other(q) /\ Other(q) # NONE /\ Other(q) # q /\ Other(q) \in Peer /\ ~Holds(q, u)
  BY <1>1, OtherIsPeer, TransferAssumption DEF MetadataHandled, OfferInv, Traffic
<1>3. sender[t] = p /\ HasRole(p, "sender", t) /\ ~session[p].worker_started /\ t <= u
  BY <1>2 DEF Standing, First
<1>4. UNCHANGED sender
  BY DEF Take, Refuse
<1>5. p = q \/ (p = Other(q) /\ p # q)
  BY <1>2, OnlyTwoPeers
<1>6. CASE p = q
  <2>1. u # t
    BY <1>2, <1>3, <1>6
  <2>2. AwaitsAccept(p) /\ Outranks(session[p].id, u) /\ ~Has(p, "receiver")
    BY <1>3, <2>1, TransferAssumption DEF AwaitsAccept, HasRole, Has, Outranks
  <2>3. Refuse(q, u)
    BY <1>6, <2>2 DEF Take, AwaitsAccept, Has
  <2>4. session' = session
    BY <2>3 DEF Refuse
  <2>5. Ended(p, t)' => Ended(p, t)
    BY <1>1, <1>6 DEF MetadataHandled, Ended, MessageType
  <2> QED BY <1>4, <2>4, <2>5, StandingStays
<1>7. CASE p = Other(q) /\ p # q
  <2>1. u = t
    BY <1>2, <1>7 DEF Standing
  <2>2. session[q] # NONE => AwaitsAccept(q) /\ t < session[q].id /\ sender[session[q].id] = q
    <3> SUFFICES ASSUME session[q] # NONE PROVE AwaitsAccept(q) /\ t < session[q].id /\ sender[session[q].id] = q
      OBVIOUS
    <3>1. session[q].role \in Role /\ session[q].id \in Transfer
      BY SessionTyped DEF Session
    <3>2. ~Has(q, "receiver")
      <4>1. Has(q, "receiver") => sender[session[q].id] = p
        BY <1>7 DEF OfferInv, Roles
      <4>2. Has(q, "receiver") => session[q].id = t
        BY <3>1, <4>1 DEF Standing
      <4> QED BY <1>2, <2>1, <4>2 DEF Holds, HasRole
    <3>3. Has(q, "sender")
      BY <3>1, <3>2 DEF Has, Role
    <3>4. ~session[q].worker_started
      BY <3>1, <3>3 DEF WorkerStarted, NoPipelines
    <3>5. sender[session[q].id] = q /\ q # NONE
      BY <3>3, TransferAssumption DEF OfferInv, Roles
    <3>6. t # session[q].id
      BY <1>3, <1>7, <3>5
    <3>7. t <= session[q].id
      BY <3>1, <3>5 DEF First
    <3>8. \A a, b \in Nat : a <= b /\ a # b => a < b
      OBVIOUS
    <3>9. t \in Nat /\ session[q].id \in Nat
      BY <3>1, TransferAssumption
    <3>10. t < session[q].id
      BY <3>6, <3>7, <3>8, <3>9
    <3> QED BY <3>3, <3>4, <3>5, <3>10 DEF AwaitsAccept
  <2>3. ~Refuse(q, u)
    <3>1. session[q] # NONE => session[q].id \in Transfer
      BY SessionTyped
    <3> QED BY <2>1, <2>2, <3>1, TransferAssumption DEF Refuse, Outranks
  <2>4. session'[p] = session[p]
    BY <1>7, <2>3 DEF Take, TypeOK
  <2>5. Ended(p, t)' => Ended(p, t)
    <3>1. ASSUME NEW y \in {"reject", "cancel"}, UnderWay(Other(q), y, t)', ~UnderWay(Other(q), y, t)
          PROVE  FALSE
      <4>1. session[q] # NONE /\ t = session[q].id
        BY <1>1, <2>3, <3>1 DEF MetadataHandled, MessageType
      <4> QED BY <1>3, <1>7, <2>2, <4>1
    <3> QED BY <1>7, <3>1 DEF Ended
  <2> QED BY <1>4, <2>4, <2>5, StandingStays
<1> QED BY <1>5, <1>6, <1>7

\* Nothing else ends an offer that stands, while nobody is disturbed.
LEMMA FirstAfterOthers ==
  ASSUME TypeOK, OfferInv, Calm, up, NoPipelines, NoPipelines', up', [Next]_vars,
         NEW p \in Peer, NEW t \in Transfer, First(t), Standing(p, t),
         ~ \E q \in Peer : ReceiveMetadata(q) \/ \E u \in Transfer : SendOffer(q, u)
  PROVE  First(t)' /\ Standing(p, t)'
<1>1. HasRole(p, "sender", t) /\ ~Has(p, "receiver") /\ ~Ended(p, t)
  BY DEF Standing, HasRole, Has
<1>2. {"accept", "reject", "cancel"} \subseteq MessageType
  BY DEF MessageType
<1>3. ASSUME NEW q \in Peer, UserStep(q) \/ Timeout(q) \/ Dispose(q)
      PROVE  session'[p] = session[p] /\ UNCHANGED sender /\ (Ended(p, t)' => Ended(p, t))
  <2>1. AcceptOffer(q)
    BY <1>3 DEF Calm, UserStep, Timeout, Dispose, RejectOffer, CancelTransfer
  <2>2. /\ Has(q, "receiver") /\ UNCHANGED sender
        /\ \A r \in Peer : r # q => session'[r] = session[r]
    BY <2>1, AcceptFacts
  <2>3. \A r \in Peer, y \in MessageType, u \in Transfer :
          UnderWay(r, y, u)' <=>
            UnderWay(r, y, u) \/ (r = Other(q) /\ y = "accept" /\ u = session[q].id)
    BY <2>1, AcceptFacts
  <2> QED BY <1>1, <1>2, <2>2, <2>3 DEF Ended
<1>4. ASSUME NEW q \in Peer, ReceiveControl(q)
      PROVE  session'[p] = session[p] /\ UNCHANGED sender /\ (Ended(p, t)' => Ended(p, t))
  <2>1. ReceiveEnd(q) \/ Consume(q)
    <3>1. ~ \E u \in Transfer : Start(q, u)
      <4>1. <<>> \in Seq(Chunk)
        BY EmptySeq
      <4>2. NewPipeline \in Pipeline
        BY <4>1 DEF NewPipeline, Pipeline, Task
      <4> QED BY <4>2, TransferAssumption DEF Start, NoPipelines, TypeOK
    <3> QED BY <1>4, <3>1, AcceptCases DEF ReceiveControl
  <2>2. /\ control[q] # <<>> /\ HandleAndSend(q, <<>>) /\ UNCHANGED sender
        /\ Head(control[q]).type \in {"accept", "reject", "cancel"}
    BY <2>1 DEF ReceiveEnd, Incoming, Consume
  <2>3. \A r \in Peer, y \in MessageType, u \in Transfer : UnderWay(r, y, u)' => UnderWay(r, y, u)
    BY <2>2, ConsumeFacts
  <2>4. session'[p] = session[p]
    <3>1. CASE ReceiveEnd(q)
      <4>1. \/ UNCHANGED session
            \/ HasId(q, Head(control[q]).id) /\ session' = [session EXCEPT ![q] = NONE]
        BY <3>1 DEF ReceiveEnd, FailSession, ClearSession
      <4>2. p = q => Head(control[q]).id # t
        <5>1. UnderWay(q, Head(control[q]).type, Head(control[q]).id)
          BY <2>2, ConsumeEffect DEF OfferInv
        <5>2. Head(control[q]).type \in {"reject", "cancel"}
          BY <3>1 DEF ReceiveEnd, Incoming
        <5> QED BY <1>1, <5>1, <5>2 DEF Ended
      <4> QED BY <1>1, <4>1, <4>2 DEF HasId, HasRole, Has, TypeOK
    <3>2. CASE Consume(q)
      BY <3>2 DEF Consume
    <3> QED BY <2>1, <3>1, <3>2
  <2> QED BY <1>2, <2>2, <2>3, <2>4 DEF Ended
<1>5. ASSUME NEW q \in Peer, ReceiveFile(q)
      PROVE  session'[p] = session[p] /\ UNCHANGED sender /\ (Ended(p, t)' => Ended(p, t))
  <2>1. UNCHANGED <<control, sender>>
    BY <1>5 DEF ReceiveFile, ReceiveChunk, ReceiveEof
  <2>2. Quiet \/ Count(q) \/ Save(q) \/ (Has(q, "receiver") /\ Drop(q))
    BY <1>5, ChunkCases, EofCases DEF ReceiveFile, HasRole
  <2>3. UNCHANGED session \/ (Has(q, "receiver") /\ \A r \in Peer : r # q => session'[r] = session[r])
    BY <2>2, CountFacts DEF Quiet, Save, Drop, TypeOK
  <2>4. session'[p] = session[p]
    BY <1>1, <2>3
  <2>5. Ended(p, t)' => Ended(p, t)
    BY <2>1 DEF Ended, UnderWay
  <2> QED BY <2>1, <2>4, <2>5
<1>6. ASSUME NEW u \in Transfer, ReaderStep(u) \/ WriterStep(u) \/ Report(u) \/ Edit(u)
      PROVE  session'[p] = session[p] /\ UNCHANGED sender /\ (Ended(p, t)' => Ended(p, t))
  <2>1. ~Report(u)
    BY DEF Report, NoPipelines
  <2>2. Quiet
    BY <1>6, <2>1, PipelineQuiet
  <2>3. UNCHANGED <<session, control, sender>>
    BY <2>2 DEF Quiet
  <2>4. Ended(p, t)' => Ended(p, t)
    BY <2>3 DEF Ended, UnderWay
  <2> QED BY <2>3, <2>4
<1>7. ASSUME UNCHANGED vars
      PROVE  session'[p] = session[p] /\ UNCHANGED sender /\ (Ended(p, t)' => Ended(p, t))
  <2>1. UNCHANGED <<session, control, sender>>
    BY <1>7 DEF vars
  <2>2. Ended(p, t)' => Ended(p, t)
    BY <2>1 DEF Ended, UnderWay
  <2> QED BY <2>1, <2>2
<1>8. ~Disconnect
  BY DEF Disconnect
<1> QED BY <1>3, <1>4, <1>5, <1>6, <1>7, <1>8, StepCases, StandingStays

\* The oldest offer stands until it is started, while nobody is disturbed.
LEMMA FirstStandsKept ==
  ASSUME TypeOK, OfferInv, WorkerStarted, FirstStands, Calm, [Next]_vars
  PROVE  FirstStands'
<1> SUFFICES ASSUME up', NoPipelines', \E t \in Transfer : sender'[t] # NONE
             PROVE  \E p \in Peer, t \in Transfer : First(t)' /\ Standing(p, t)'
  BY DEF FirstStands
<1>1. up
  BY UpStays
<1>2. NoPipelines
  BY PipelinesStay DEF NoPipelines
<1>3. (\E t \in Transfer : sender[t] # NONE) => \E p \in Peer, t \in Transfer : First(t) /\ Standing(p, t)
  BY <1>1, <1>2 DEF FirstStands
<1>4. ASSUME NEW q \in Peer, NEW u \in Transfer, SendOffer(q, u)
      PROVE  \E p \in Peer, t \in Transfer : First(t)' /\ Standing(p, t)'
  BY <1>1, <1>3, <1>4, FirstAfterOffer
<1>5. CASE ~ \E q \in Peer, u \in Transfer : SendOffer(q, u)
  <2>1. UNCHANGED sender
    BY <1>5 DEF Next, UserStep, AcceptOffer, RejectOffer, CancelTransfer, Timeout, ReceiveControl,
         ReceiveMetadata, ReceiveAccept, ReceiveEnd, ReceiveFile, ReceiveChunk, ReceiveEof, Dispose,
         ReaderStep, WriterStep, ReadChunk, TakeChunk, SendChunk, SendEof, Report, Edit, Disconnect, vars
  <2>2. PICK p \in Peer, t \in Transfer : First(t) /\ Standing(p, t)
    BY <1>3, <2>1
  <2>3. CASE \E q \in Peer : ReceiveMetadata(q)
    BY <1>2, <2>2, <2>3, MetadataCases, FirstAfterMetadata
  <2>4. CASE ~ \E q \in Peer : ReceiveMetadata(q)
    BY <1>1, <1>2, <1>5, <2>2, <2>4, FirstAfterOthers
  <2> QED BY <2>3, <2>4
<1> QED BY <1>4, <1>5

\* Two peers never send at once, whatever goes wrong.
THEOREM NeverBothSend == Spec => []~(\A p \in Peer : Has(p, "sender") /\ session[p].worker_started)
<1>1. TypeOK /\ OneGranted => ~(\A p \in Peer : Has(p, "sender") /\ session[p].worker_started)
  <2> SUFFICES ASSUME TypeOK, OneGranted,
                      \A p \in Peer : Has(p, "sender") /\ session[p].worker_started
               PROVE  FALSE
    OBVIOUS
  <2>1. \A p \in Peer : Granted(p)
    BY SessionTyped DEF Granted, HasRole, Has
  <2> QED BY <2>1, TransferAssumption DEF OneGranted
<1> QED BY <1>1, OneGrantedHolds, TypeCorrect, PTL

\* Of offers that cross one prevails: while nobody rejects, cancels or waits too
\* long, an offer is held by somebody whenever nothing is in flight, until the
\* first is accepted; and never are two started, one in each direction.
THEOREM OnePrevails ==
  ASSUME Calm
  PROVE  Spec => []OneOfferPrevails
<1>1. Init => FirstStands
  BY DEF Init, FirstStands
<1>2. FirstStands => (ControlDrained /\ (\E t \in Transfer : sender[t] # NONE) /\ NoPipelines
                        => \E p \in Peer : session[p] # NONE)
  BY DEF FirstStands, ControlDrained, Standing, HasRole, Has
<1>3. FirstStands /\ ~(\A p \in Peer : Has(p, "sender") /\ session[p].worker_started) => OneOfferPrevails
  BY <1>2 DEF OneOfferPrevails, NoPipelines
<1>4. TypeOK /\ OfferInv /\ WorkerStarted /\ FirstStands /\ [Next]_vars => FirstStands'
  BY FirstStandsKept
<1> QED BY <1>1, <1>3, <1>4, TypeCorrect, OffersHold, OneGrantedHolds, NeverBothSend, PTL DEF Spec
-----------------------------------------------------------------------------
(* What is on its way in a file channel.                                   *)

ItemOf(p, t) == \E k \in DOMAIN file[p] : file[p][k].chunk.id = t

EofOf(p, t) == \E k \in DOMAIN file[p] : file[p][k].type = "eof" /\ file[p][k].chunk.id = t

\* The end of a transfer is the last that a file channel carries of it.
EofLast ==
  \A p \in Peer : \A j, k \in DOMAIN file[p] :
    file[p][k].type = "eof" /\ file[p][j].chunk.id = file[p][k].chunk.id => j <= k

\* An item that is sent comes last.
ItemSent(o, item) ==
  /\ \A q \in Peer, u \in Transfer :
       /\ ItemOf(q, u)' <=> ItemOf(q, u) \/ (q = o /\ item.chunk.id = u)
       /\ EofOf(q, u)' <=> EofOf(q, u) \/ (q = o /\ item.type = "eof" /\ item.chunk.id = u)
  /\ EofLast /\ ~EofOf(o, item.chunk.id) => EofLast'

\* An item appended to a file channel is all that is new there.
LEMMA SendItem ==
  ASSUME TypeOK, NEW o \in Peer, NEW item \in FileItem, item.chunk.id \in Transfer,
         file' = [file EXCEPT ![o] = Append(@, item)]
  PROVE  ItemSent(o, item)
<1> DEFINE n == Len(file[o])
<1>1. file[o] \in Seq(FileItem) /\ n \in Nat /\ DOMAIN file[o] = 1 .. n
      /\ \A k \in 1 .. n : file[o][k] \in FileItem
  <2>1. file[o] \in Seq(FileItem)
    BY DEF TypeOK
  <2> QED BY <2>1, LenProperties, ElementOfSeq
<1>2. file'[o] = Append(file[o], item) /\ \A q \in Peer : q # o => file'[q] = file[q]
  BY DEF TypeOK
<1>3. /\ Append(file[o], item) \in Seq(FileItem) /\ Len(Append(file[o], item)) = n + 1
      /\ \A i \in 1 .. n : Append(file[o], item)[i] = file[o][i]
      /\ Append(file[o], item)[n + 1] = item
  BY <1>1, AppendProperties
<1>4. /\ DOMAIN file'[o] = 1 .. n + 1 /\ file'[o][n + 1] = item
      /\ \A i \in 1 .. n : file'[o][i] = file[o][i]
  BY <1>2, <1>3, LenProperties
<1> HIDE DEF n
<1>5. 1 .. n + 1 = (1 .. n) \cup {n + 1} /\ \A i \in 1 .. n : i <= n + 1 /\ i # n + 1
  BY <1>1
<1>6. ASSUME NEW q \in Peer, NEW u \in Transfer
      PROVE  /\ ItemOf(q, u)' <=> ItemOf(q, u) \/ (q = o /\ item.chunk.id = u)
             /\ EofOf(q, u)' <=> EofOf(q, u) \/ (q = o /\ item.type = "eof" /\ item.chunk.id = u)
  <2>1. CASE q # o
    BY <1>2, <2>1 DEF ItemOf, EofOf
  <2>2. CASE q = o
    <3>1. /\ ItemOf(o, u)' <=> \E k \in 1 .. n + 1 : file'[o][k].chunk.id = u
          /\ EofOf(o, u)' <=> \E k \in 1 .. n + 1 : file'[o][k].type = "eof" /\ file'[o][k].chunk.id = u
      BY <1>4 DEF ItemOf, EofOf
    <3>2. /\ ItemOf(o, u) <=> \E k \in 1 .. n : file[o][k].chunk.id = u
          /\ EofOf(o, u) <=> \E k \in 1 .. n : file[o][k].type = "eof" /\ file[o][k].chunk.id = u
      BY <1>1 DEF ItemOf, EofOf
    <3> QED BY <1>4, <1>5, <2>2, <3>1, <3>2
  <2> QED BY <2>1, <2>2
<1>7. ASSUME EofLast, ~EofOf(o, item.chunk.id)
      PROVE  EofLast'
  <2> SUFFICES ASSUME NEW q \in Peer, NEW j \in DOMAIN file'[q], NEW k \in DOMAIN file'[q],
                      file'[q][k].type = "eof", file'[q][j].chunk.id = file'[q][k].chunk.id
               PROVE  j <= k
    BY DEF EofLast
  <2>1. CASE q # o
    BY <1>2, <1>7, <2>1 DEF EofLast
  <2>2. CASE q = o
    <3>1. j \in 1 .. n + 1 /\ k \in 1 .. n + 1
      BY <1>4, <2>2
    <3>2. CASE k = n + 1
      BY <1>1, <3>1, <3>2
    <3>3. CASE k \in 1 .. n /\ j \in 1 .. n
      <4>1. file'[o][j] = file[o][j] /\ file'[o][k] = file[o][k]
        BY <1>4, <3>3
      <4> QED BY <1>1, <1>7, <2>2, <3>3, <4>1 DEF EofLast
    <3>4. CASE k \in 1 .. n /\ j = n + 1
      <4>1. file[o][k].type = "eof" /\ file[o][k].chunk.id = item.chunk.id
        BY <1>4, <2>2, <3>4
      <4> QED BY <1>1, <1>7, <3>4, <4>1 DEF EofOf
    <3> QED BY <1>5, <3>1, <3>2, <3>3, <3>4
  <2> QED BY <2>1, <2>2
<1> QED BY <1>6, <1>7 DEF ItemSent

\* The first item is taken; nothing of a transfer follows its end.
ItemTaken(p) ==
  /\ \A q \in Peer, u \in Transfer : (ItemOf(q, u)' => ItemOf(q, u)) /\ (EofOf(q, u)' => EofOf(q, u))
  /\ ItemOf(p, Head(file[p]).chunk.id)
  /\ Head(file[p]).chunk.id \in Transfer
  /\ \A u \in Transfer :
       Head(file[p]).type = "eof" /\ Head(file[p]).chunk.id = u => EofOf(p, u) /\ ~ItemOf(p, u)'
  /\ EofLast'

\* An item taken from it is all that goes.
LEMMA TakeItem ==
  ASSUME TypeOK, EofLast, NEW p \in Peer, file[p] # <<>>, file' = [file EXCEPT ![p] = Tail(@)]
  PROVE  ItemTaken(p)
<1> DEFINE n == Len(file[p])
           h == Head(file[p])
<1>1. file[p] \in Seq(FileItem) /\ n \in Nat /\ DOMAIN file[p] = 1 .. n
  <2>1. file[p] \in Seq(FileItem)
    BY DEF TypeOK
  <2> QED BY <2>1, LenProperties
<1>2. n >= 1 /\ h = file[p][1] /\ h.chunk.id \in Transfer
  <2>1. n # 0
    BY <1>1, EmptySeq
  <2>2. h \in FileItem
    BY HeadTyped
  <2>3. h = file[p][1]
    OBVIOUS
  <2>4. h.chunk.id \in Transfer
    BY <2>2 DEF FileItem, Chunk
  <2> QED BY <1>1, <2>1, <2>3, <2>4
<1>3. file'[p] = Tail(file[p]) /\ \A q \in Peer : q # p => file'[q] = file[q]
  BY DEF TypeOK
<1>4. DOMAIN file'[p] = 1 .. n - 1 /\ \A i \in 1 .. n - 1 : file'[p][i] = file[p][i + 1]
  <2>1. /\ Tail(file[p]) \in Seq(FileItem) /\ Len(Tail(file[p])) = n - 1
        /\ \A i \in 1 .. Len(Tail(file[p])) : Tail(file[p])[i] = file[p][i + 1]
    BY <1>1, HeadTailProperties
  <2>2. DOMAIN Tail(file[p]) = 1 .. n - 1
    BY <2>1, LenProperties
  <2> HIDE DEF n
  <2> QED BY <1>3, <2>1, <2>2
<1> HIDE DEF n, h
<1>5. \A i \in 1 .. n - 1 : i + 1 \in 1 .. n /\ i + 1 > 1
  BY <1>1
<1>6. ASSUME NEW q \in Peer, NEW u \in Transfer
      PROVE  (ItemOf(q, u)' => ItemOf(q, u)) /\ (EofOf(q, u)' => EofOf(q, u))
  <2>1. CASE q # p
    BY <1>3, <2>1 DEF ItemOf, EofOf
  <2>2. CASE q = p
    <3>1. ASSUME NEW i \in 1 .. n - 1 PROVE i + 1 \in DOMAIN file[p] /\ file'[p][i] = file[p][i + 1]
      BY <1>1, <1>4, <1>5
    <3>2. ItemOf(p, u)' => ItemOf(p, u)
      BY <1>4, <3>1 DEF ItemOf
    <3>3. EofOf(p, u)' => EofOf(p, u)
      BY <1>4, <3>1 DEF EofOf
    <3> QED BY <2>2, <3>2, <3>3
  <2> QED BY <2>1, <2>2
<1>7. 1 \in DOMAIN file[p]
  BY <1>1, <1>2
<1>8. ASSUME NEW u \in Transfer, h.type = "eof", h.chunk.id = u
      PROVE  EofOf(p, u) /\ ~ItemOf(p, u)'
  <2>1. EofOf(p, u)
    BY <1>2, <1>7, <1>8 DEF EofOf
  <2>2. ASSUME NEW i \in 1 .. n - 1, file'[p][i].chunk.id = u
        PROVE  FALSE
    <3>1. i + 1 \in DOMAIN file[p] /\ file[p][i + 1].chunk.id = file[p][1].chunk.id /\ file[p][1].type = "eof"
      BY <1>1, <1>2, <1>4, <1>5, <1>8, <2>2
    <3>2. i + 1 <= 1
      BY <1>7, <3>1 DEF EofLast
    <3> QED BY <1>1, <3>2
  <2> QED BY <1>4, <2>1, <2>2 DEF ItemOf
<1>9. EofLast'
  <2> SUFFICES ASSUME NEW q \in Peer, NEW j \in DOMAIN file'[q], NEW k \in DOMAIN file'[q],
                      file'[q][k].type = "eof", file'[q][j].chunk.id = file'[q][k].chunk.id
               PROVE  j <= k
    BY DEF EofLast
  <2>1. CASE q # p
    BY <1>3, <2>1 DEF EofLast
  <2>2. CASE q = p
    <3>1. j \in 1 .. n - 1 /\ k \in 1 .. n - 1
      BY <1>4, <2>2
    <3>2. /\ j + 1 \in DOMAIN file[p] /\ k + 1 \in DOMAIN file[p]
          /\ file'[p][j] = file[p][j + 1] /\ file'[p][k] = file[p][k + 1]
      BY <1>1, <1>4, <1>5, <3>1
    <3>3. j + 1 <= k + 1
      BY <2>2, <3>2 DEF EofLast
    <3> QED BY <1>1, <3>1, <3>3
  <2> QED BY <2>1, <2>2
<1>10. ItemOf(p, h.chunk.id)
  BY <1>2, <1>7 DEF ItemOf
<1> QED BY <1>2, <1>6, <1>8, <1>9, <1>10 DEF ItemTaken, h
-----------------------------------------------------------------------------
(* What a step may begin, and what it may end.                             *)

\* A peer comes to hold a transfer by taking its offer.
LEMMA HolderSteps ==
  ASSUME TypeOK, OfferInv, [Next]_vars, NEW p \in Peer, NEW t \in Transfer, Holds(p, t)'
  PROVE  \/ Holds(p, t) /\ (session[p].accepts > 0 => session'[p].accepts > 0)
         \/ Take(p, t) /\ MetadataHandled(p, t)
<1>1. CASE UNCHANGED session
  BY <1>1 DEF Holds, HasRole, Has
<1>2. ASSUME NEW q \in Peer, Drop(q) \/ Save(q)
      PROVE  Holds(p, t) /\ session'[p] = session[p]
  <2>1. session'[q] = NONE /\ \A r \in Peer : r # q => session'[r] = session[r]
    BY <1>2 DEF Drop, Save, TypeOK
  <2> QED BY <2>1 DEF Holds, HasRole, Has
<1>3. ASSUME NEW q \in Peer, Count(q)
      PROVE  Holds(p, t) /\ (session[p].accepts > 0 => session'[p].accepts > 0)
  <2>1. /\ Has(q, "receiver") /\ session'[q].id = session[q].id /\ session'[q].accepts = session[q].accepts
        /\ \A r \in Peer : r # q => session'[r] = session[r]
    BY <1>3, CountFacts
  <2> QED BY <2>1 DEF Holds, HasRole, Has
<1>4. ASSUME NEW q \in Peer, AcceptOffer(q), up
      PROVE  Holds(p, t) /\ (session[p].accepts > 0 => session'[p].accepts > 0)
  <2>1. /\ Has(q, "receiver") /\ session'[q].id = session[q].id
        /\ session'[q].accepts = session[q].accepts + 1 /\ session[q].accepts \in Nat
        /\ \A r \in Peer : r # q => session'[r] = session[r]
    BY <1>4, AcceptFacts
  <2> QED BY <2>1 DEF Holds, HasRole, Has
<1>5. ASSUME NEW q \in Peer, NEW u \in Transfer, SendOffer(q, u)
      PROVE  Holds(p, t) /\ session'[p] = session[p]
  <2>1. /\ \A r \in Peer : r # q => session'[r] = session[r]
        /\ session'[q] = NONE \/ session'[q] = NewSession(u, "sender")
    BY <1>5 DEF SendOffer, TypeOK
  <2> QED BY <2>1 DEF Holds, HasRole, Has, NewSession
<1>6. ASSUME NEW q \in Peer, NEW u \in Transfer, Start(q, u)
      PROVE  Holds(p, t) /\ session'[p] = session[p]
  <2>1. Started(q, u)
    BY <1>6, StartSession
  <2> QED BY <2>1 DEF Started, Holds, HasRole, Has
<1>7. ASSUME NEW q \in Peer, NEW u \in Transfer, control[q] # <<>>,
             Head(control[q]).type = "metadata", Head(control[q]).id = u, Take(q, u)
      PROVE  (Holds(p, t) /\ session'[p] = session[p]) \/ (Take(p, t) /\ MetadataHandled(p, t))
  <2>1. /\ MetadataHandled(q, u) /\ session'[q] = NewSession(u, "receiver")
        /\ \A r \in Peer : r # q => session'[r] = session[r]
    BY <1>7, MetadataEffect DEF Take, TypeOK
  <2>2. CASE p # q
    BY <2>1, <2>2 DEF Holds, HasRole, Has
  <2>3. CASE p = q
    <3>1. u = t
      BY <2>1, <2>3 DEF Holds, HasRole, NewSession
    <3> QED BY <1>7, <2>1, <2>3, <3>1
  <2> QED BY <2>2, <2>3
<1>8. (Quiet \/ Disconnect \/ (\E q \in Peer : Consume(q)) \/ \E q \in Peer, u \in Transfer : Refuse(q, u))
        => UNCHANGED session
  BY DEF Quiet, Disconnect, Consume, Refuse
<1> QED BY <1>1, <1>2, <1>3, <1>4, <1>5, <1>6, <1>7, <1>8, OfferStepCases

\* A session ends by Drop or Save, or because its own offer gives way.
LEMMA SessionEnds ==
  ASSUME TypeOK, OfferInv, [Next]_vars, NEW p \in Peer, NEW t \in Transfer, NEW role \in Role,
         HasRole(p, role, t), ~HasRole(p, role, t)'
  PROVE  \/ Drop(p) \/ Save(p)
         \/ role = "sender" /\ Ended(Other(p), t)'
<1>1. CASE UNCHANGED session
  BY <1>1 DEF HasRole, Has
<1>2. ASSUME NEW q \in Peer, Drop(q) \/ Save(q)
      PROVE  Drop(p) \/ Save(p)
  <2>1. \A r \in Peer : r # q => session'[r] = session[r]
    BY <1>2 DEF Drop, Save, TypeOK
  <2> QED BY <1>2, <2>1 DEF HasRole, Has
<1>3. ASSUME NEW q \in Peer, Count(q) \/ (AcceptOffer(q) /\ up)
      PROVE  FALSE
  <2>1. /\ session'[q].id = session[q].id /\ session'[q].role = session[q].role /\ session'[q] # NONE
        /\ \A r \in Peer : r # q => session'[r] = session[r]
    BY <1>3, CountFacts, AcceptFacts
  <2> QED BY <2>1 DEF HasRole, Has
<1>4. ASSUME NEW q \in Peer, NEW u \in Transfer, SendOffer(q, u)
      PROVE  FALSE
  <2>1. session[q] = NONE /\ \A r \in Peer : r # q => session'[r] = session[r]
    BY <1>4 DEF SendOffer, TypeOK
  <2> QED BY <2>1 DEF HasRole, Has
<1>5. ASSUME NEW q \in Peer, NEW u \in Transfer, Start(q, u)
      PROVE  FALSE
  <2>1. Started(q, u)
    BY <1>5, StartSession
  <2> QED BY <2>1 DEF Started, AwaitsAccept, HasRole, Has
<1>6. ASSUME NEW q \in Peer, NEW u \in Transfer, control[q] # <<>>,
             Head(control[q]).type = "metadata", Head(control[q]).id = u, Take(q, u)
      PROVE  role = "sender" /\ Ended(Other(p), t)'
  <2>1. \A r \in Peer : r # q => session'[r] = session[r]
    BY <1>6 DEF Take, TypeOK
  <2>2. p = q
    BY <2>1 DEF HasRole, Has
  <2>3. AwaitsAccept(p) /\ role = "sender" /\ session[p].id = t
    BY <1>6, <2>2 DEF Take, HasRole, Has, AwaitsAccept, Role
  <2>4. UnderWay(Other(p), "cancel", t)'
    BY <1>6, <2>2, <2>3, MetadataEffect
  <2> QED BY <2>3, <2>4 DEF Ended
<1>7. (Quiet \/ Disconnect \/ (\E q \in Peer : Consume(q)) \/ \E q \in Peer, u \in Transfer : Refuse(q, u))
        => UNCHANGED session
  BY DEF Quiet, Disconnect, Consume, Refuse
<1> QED BY <1>1, <1>2, <1>3, <1>4, <1>5, <1>6, <1>7, OfferStepCases

\* A transfer gets its sender, its metadata its way, from SendOffer alone.
LEMMA OfferSteps ==
  ASSUME TypeOK, OfferInv, [Next]_vars, NEW p \in Peer, NEW t \in Transfer
  PROVE  /\ sender[t] # NONE => sender'[t] = sender[t]
         /\ sender'[t] = p /\ sender[t] # p => SendOffer(p, t)
         /\ UnderWay(p, "metadata", t)' /\ ~UnderWay(p, "metadata", t) => SendOffer(Other(p), t) /\ up
         /\ UnderWay(p, "metadata", t) /\ ~UnderWay(p, "metadata", t)' /\ up' =>
              Holds(p, t)' \/ Ended(Other(p), t)'
<1> DEFINE Here == /\ UNCHANGED sender
                   /\ UnderWay(p, "metadata", t)' <=> UnderWay(p, "metadata", t)
<1>1. "metadata" \in MessageType
  BY DEF MessageType
<1>2. ASSUME NEW q \in Peer, Drop(q) \/ Consume(q) \/ Count(q) \/ Save(q)
      PROVE  Here
  BY <1>1, <1>2, ConsumeFacts DEF Drop, Consume, Count, Save, UnderWay
<1>3. ASSUME NEW q \in Peer, AcceptOffer(q), up
      PROVE  Here
  <2>1. \A r \in Peer, y \in MessageType, u \in Transfer :
          UnderWay(r, y, u)' <=>
            UnderWay(r, y, u) \/ (r = Other(q) /\ y = "accept" /\ u = session[q].id)
    BY <1>3, AcceptFacts
  <2>2. UNCHANGED sender
    BY <1>3, AcceptFacts
  <2> QED BY <1>1, <2>1, <2>2
<1>4. ASSUME NEW q \in Peer, NEW u \in Transfer, Start(q, u)
      PROVE  Here
  BY <1>4, StartTraffic DEF Start
<1>5. CASE Quiet
  BY <1>5 DEF Quiet, UnderWay
<1>6. CASE Here
  BY <1>6, TransferAssumption
<1>7. CASE Disconnect
  BY <1>7 DEF Disconnect, UnderWay
<1>8. ASSUME NEW q \in Peer, NEW u \in Transfer, SendOffer(q, u)
      PROVE  /\ sender[t] # NONE => sender'[t] = sender[t]
             /\ sender'[t] = p /\ sender[t] # p => SendOffer(p, t)
             /\ UnderWay(p, "metadata", t)' /\ ~UnderWay(p, "metadata", t) => SendOffer(Other(p), t) /\ up
             /\ UnderWay(p, "metadata", t) => UnderWay(p, "metadata", t)'
  <2>1. /\ sender[u] = NONE /\ sender'[u] = q /\ \A v \in Transfer : v # u => sender'[v] = sender[v]
        /\ Send(q, Msg("metadata", u))
    BY <1>8 DEF SendOffer, TypeOK
  <2>2. UnderWay(p, "metadata", t)' <=> UnderWay(p, "metadata", t) \/ (up /\ p = Other(q) /\ t = u)
    BY <1>1, <2>1, SendEffect
  <2>3. Other(Other(q)) = q
    BY OtherIsPeer
  <2> QED BY <1>8, <2>1, <2>2, <2>3
<1>9. ASSUME NEW q \in Peer, NEW u \in Transfer, control[q] # <<>>,
             Head(control[q]).type = "metadata", Head(control[q]).id = u, Take(q, u) \/ Refuse(q, u)
      PROVE  /\ UNCHANGED sender
             /\ UnderWay(p, "metadata", t)' => UnderWay(p, "metadata", t)
             /\ UnderWay(p, "metadata", t) /\ ~UnderWay(p, "metadata", t)' =>
                  Holds(p, t)' \/ Ended(Other(p), t)'
  <2>1. MetadataHandled(q, u) /\ (Refuse(q, u) => UnderWay(Other(q), "reject", u)') /\ UNCHANGED sender
    BY <1>9, MetadataEffect DEF Take, Refuse
  <2>2. p = q \/ p = Other(q)
    BY OnlyTwoPeers
  <2>3. UnderWay(p, "metadata", t)' => UnderWay(p, "metadata", t)
    BY <1>1, <2>1, <2>2 DEF MetadataHandled
  <2>4. UnderWay(p, "metadata", t) /\ ~UnderWay(p, "metadata", t)' => p = q /\ t = u
    BY <1>1, <2>1, <2>2 DEF MetadataHandled
  <2>5. Take(q, u) => Holds(q, u)'
    <3>1. Take(q, u) => session'[q] = NewSession(u, "receiver")
      BY DEF Take, TypeOK
    <3>2. NewSession(u, "receiver") # NONE
      BY NewSessionTyped DEF Role
    <3> QED BY <3>1, <3>2 DEF Holds, HasRole, Has, NewSession
  <2> QED BY <1>9, <2>1, <2>3, <2>4, <2>5 DEF Ended
<1>10. \E q \in Peer : q = p
  OBVIOUS
<1> HIDE DEF Here
<1> QED BY <1>2, <1>3, <1>4, <1>5, <1>6, <1>7, <1>8, <1>9, TransferAssumption, OfferStepCases

\* An accept that arrives is all that starts a pipeline.
LEMMA PipelineSteps ==
  ASSUME TypeOK, OfferInv, [Next]_vars, NEW t \in Transfer, pipeline'[t] # NONE, pipeline[t] = NONE
  PROVE  Start(sender[t], t) /\ sender[t] \in Peer
<1>1. ASSUME NEW p \in Peer, NEW u \in Transfer, Start(p, u)
      PROVE  Start(sender[t], t) /\ sender[t] \in Peer
  <2>1. Started(p, u)
    BY <1>1, StartSession
  <2>2. u = t
    BY <2>1 DEF Started
  <2> QED BY <1>1, <2>1, <2>2 DEF Started
<1>2. ~ \E p \in Peer : Drop(p)
  BY DEF Drop, NoPipelineStarted
<1>3. ~ \E p \in Peer : AcceptOffer(p) /\ up
  BY DEF AcceptOffer
<1> QED BY <1>1, <1>2, <1>3, OfferStepCases
        DEF Quiet, NoPipelineStarted, Consume, Count, Save, SendOffer, Take, Refuse, Disconnect

\* A word that ends t is sent by the peer whose session for t ends, or by one that refuses t.
LEMMA EndSteps ==
  ASSUME TypeOK, OfferInv, [Next]_vars, NEW p \in Peer, NEW t \in Transfer,
         Ended(p, t)', ~Ended(p, t)
  PROVE  /\ \/ HasId(Other(p), t) /\ ~HasId(Other(p), t)'
            \/ HasRole(Other(p), "sender", t) /\ ~Has(Other(p), "sender")'
            \/ /\ UnderWay(Other(p), "metadata", t) /\ ~UnderWay(Other(p), "metadata", t)'
               /\ UNCHANGED session
<1>1. {"metadata", "accept", "reject", "cancel"} = MessageType /\ Other(p) \in Peer /\ Other(Other(p)) = p
  BY OtherIsPeer DEF MessageType
<1>2. CASE Quiet
  BY <1>2 DEF Quiet, UnderWay, Ended
<1>3. ASSUME NEW q \in Peer, Drop(q)
      PROVE  HasId(Other(p), t) /\ ~HasId(Other(p), t)'
  <2>1. p = Other(q) /\ session[q] # NONE /\ t = session[q].id /\ session'[q] = NONE
    BY <1>1, <1>3 DEF Drop, Ended, TypeOK
  <2>2. Other(p) = q
    BY <2>1, OtherIsPeer
  <2> QED BY <2>1, <2>2 DEF HasId
<1>4. ~ \E q \in Peer : Consume(q)
  BY <1>1, ConsumeFacts DEF Consume, Ended
<1>5. ~ \E q \in Peer : Count(q) \/ Save(q)
  BY DEF Count, Save, UnderWay, Ended
<1>6. ASSUME NEW q \in Peer, AcceptOffer(q), up
      PROVE  FALSE
  <2>1. \A r \in Peer, y \in MessageType, u \in Transfer :
          UnderWay(r, y, u)' <=>
            UnderWay(r, y, u) \/ (r = Other(q) /\ y = "accept" /\ u = session[q].id)
    BY <1>6, AcceptFacts
  <2> QED BY <1>1, <2>1 DEF Ended
<1>7. ASSUME NEW q \in Peer, NEW u \in Transfer, SendOffer(q, u)
      PROVE  FALSE
  <2>1. Send(q, Msg("metadata", u)) /\ "metadata" \in MessageType
    BY <1>7 DEF SendOffer, MessageType
  <2>2. \A r \in Peer, y \in MessageType, v \in Transfer :
          UnderWay(r, y, v)' => UnderWay(r, y, v) \/ y = "metadata"
    BY <2>1, SendEffect
  <2> QED BY <1>1, <2>2 DEF Ended
<1>8. ~ \E q \in Peer, u \in Transfer : Start(q, u)
  BY <1>1, StartTraffic DEF Ended
<1>9. ~Disconnect
  BY DEF Disconnect, UnderWay, Ended
<1>10. ASSUME NEW q \in Peer, NEW u \in Transfer, control[q] # <<>>,
              Head(control[q]).type = "metadata", Head(control[q]).id = u, Take(q, u) \/ Refuse(q, u)
       PROVE  \/ HasRole(Other(p), "sender", t) /\ ~Has(Other(p), "sender")'
              \/ /\ UnderWay(Other(p), "metadata", t) /\ ~UnderWay(Other(p), "metadata", t)'
                 /\ UNCHANGED session
              \/ HasId(Other(p), t) /\ ~HasId(Other(p), t)'
  <2>1. MetadataHandled(q, u)
    BY <1>10, MetadataEffect
  <2>2. p = Other(q) /\ q = Other(p)
    BY <1>1, <2>1, OnlyTwoPeers DEF MetadataHandled, Ended
  <2>3. (t = u /\ Refuse(q, u)) \/ (session[q] # NONE /\ t = session[q].id)
    BY <1>1, <2>1, <2>2 DEF MetadataHandled, Ended
  <2>4. CASE Refuse(q, u)
    <3>1. UNCHANGED session
      BY <2>4 DEF Refuse
    <3>2. CASE t = u
      BY <2>1, <2>2, <3>1, <3>2 DEF MetadataHandled
    <3>3. CASE t # u
      <4>1. "cancel" \in MessageType /\ "reject" \in MessageType
        BY <1>1
      <4>2. HandleAndSend(q, <<Msg("reject", u)>>) /\ "reject" \in MessageType \ {"metadata"}
        BY <1>1, <2>4 DEF Refuse
      <4>3. \A y \in MessageType, v \in Transfer :
              UnderWay(Other(q), y, v)' <=> UnderWay(Other(q), y, v) \/ (y = "reject" /\ v = u)
        BY <1>10, <4>2, AnswerEffect DEF OfferInv
      <4> QED BY <2>2, <3>3, <4>1, <4>3 DEF Ended
    <3> QED BY <3>2, <3>3
  <2>5. CASE Take(q, u) /\ ~Refuse(q, u)
    <3>1. session[q] # NONE /\ t = session[q].id
      BY <2>3, <2>5
    <3>2. HasRole(q, "sender", t) /\ session'[q] = NewSession(u, "receiver")
      BY <2>5, <3>1 DEF Take, AwaitsAccept, HasRole, Has, TypeOK
    <3>3. ~Has(q, "sender")'
      BY <3>2 DEF Has, NewSession
    <3> QED BY <2>2, <3>2, <3>3
  <2> QED BY <1>10, <2>4, <2>5
<1> QED BY <1>2, <1>3, <1>4, <1>5, <1>6, <1>7, <1>8, <1>9, <1>10, OfferStepCases

\* Such a word is heard once: it ends the session for t, or there is none and
\* the offer of t is not on its way.
LEMMA EndsHeard ==
  ASSUME TypeOK, OfferInv, [Next]_vars, up', NEW p \in Peer, NEW t \in Transfer,
         Ended(p, t), ~Ended(p, t)'
  PROVE  /\ ~HasId(p, t)'
         /\ ~HasId(p, t) => ~UnderWay(p, "metadata", t)
<1>1. {"metadata", "accept", "reject", "cancel"} = MessageType
  BY DEF MessageType
<1>2. CASE Quiet
  BY <1>2 DEF Quiet, UnderWay, Ended
<1>3. ASSUME NEW q \in Peer, Drop(q)
      PROVE  HasId(p, t) /\ ~HasId(p, t)'
  <2>1. p = q /\ session[q] # NONE /\ t = session[q].id /\ session'[q] = NONE
    BY <1>1, <1>3 DEF Drop, Ended, TypeOK
  <2> QED BY <2>1 DEF HasId
<1>4. ASSUME NEW q \in Peer, Consume(q)
      PROVE  ~HasId(p, t)' /\ ~UnderWay(p, "metadata", t)
  <2>1. control[q] # <<>> /\ HandleAndSend(q, <<>>) /\ Head(control[q]).type \in {"accept", "reject", "cancel"}
    BY <1>4 DEF Consume
  <2>2. PICK y \in {"reject", "cancel"} : q = p /\ Head(control[q]) = Msg(y, t)
    BY <1>1, <2>1, ConsumeFacts DEF Ended
  <2>3. Head(control[q]).id = t /\ Head(control[q]).type = y
    BY <2>2 DEF Msg
  <2>4. ~UnderWay(q, "metadata", Head(control[q]).id)
    BY <2>1, ConsumeEffect DEF OfferInv
  <2>5. ~HasId(q, t) /\ UNCHANGED session
    BY <1>4, <2>3 DEF Consume
  <2> QED BY <2>2, <2>3, <2>4, <2>5 DEF HasId
<1>5. ~ \E q \in Peer : Count(q) \/ Save(q)
  BY DEF Count, Save, UnderWay, Ended
<1>6. ASSUME NEW q \in Peer, AcceptOffer(q), up
      PROVE  FALSE
  <2>1. \A r \in Peer, y \in MessageType, u \in Transfer :
          UnderWay(r, y, u)' <=>
            UnderWay(r, y, u) \/ (r = Other(q) /\ y = "accept" /\ u = session[q].id)
    BY <1>6, AcceptFacts
  <2> QED BY <1>1, <2>1 DEF Ended
<1>7. ASSUME NEW q \in Peer, NEW u \in Transfer, SendOffer(q, u)
      PROVE  FALSE
  <2>1. Send(q, Msg("metadata", u)) /\ "metadata" \in MessageType
    BY <1>7 DEF SendOffer, MessageType
  <2>2. \A r \in Peer, y \in MessageType, v \in Transfer : UnderWay(r, y, v) => UnderWay(r, y, v)'
    BY <2>1, SendEffect
  <2> QED BY <1>1, <2>2 DEF Ended
<1>8. ~ \E q \in Peer, u \in Transfer : Start(q, u)
  BY <1>1, StartTraffic DEF Ended
<1>9. ~Disconnect
  BY DEF Disconnect
<1>10. ASSUME NEW q \in Peer, NEW u \in Transfer, control[q] # <<>>,
              Head(control[q]).type = "metadata", Head(control[q]).id = u, Take(q, u) \/ Refuse(q, u)
       PROVE  FALSE
  <2>1. MetadataHandled(q, u)
    BY <1>10, MetadataEffect
  <2>2. p = q \/ p = Other(q)
    BY OnlyTwoPeers
  <2> QED BY <1>1, <2>1, <2>2 DEF MetadataHandled, Ended
<1> QED BY <1>2, <1>3, <1>4, <1>5, <1>6, <1>7, <1>8, <1>9, <1>10, OfferStepCases
-----------------------------------------------------------------------------
(* What an accept, and the pipeline it starts, rule out.                   *)

\* An offer that has been accepted is no longer under way, its receiver knows
\* that it accepted, and its sender that its worker has started.
Accepting ==
  \A p \in Peer, t \in Transfer : sender[t] = p =>
    /\ pipeline[t] # NONE /\ HasRole(p, "sender", t) => session[p].worker_started
    /\ pipeline[t] # NONE \/ UnderWay(p, "accept", t) =>
         /\ ~UnderWay(Other(p), "metadata", t)
         /\ Holds(Other(p), t) => session[Other(p)].accepts > 0

\* Accepting is inductive.
LEMMA AcceptingKept == TypeOK /\ OfferInv /\ Accepting /\ [Next]_vars => Accepting'
<1> SUFFICES ASSUME TypeOK, OfferInv, Accepting, [Next]_vars,
                    NEW p \in Peer, NEW t \in Transfer, sender'[t] = p
             PROVE  /\ pipeline'[t] # NONE /\ HasRole(p, "sender", t)' => session'[p].worker_started
                    /\ pipeline'[t] # NONE \/ UnderWay(p, "accept", t)' =>
                         /\ ~UnderWay(Other(p), "metadata", t)'
                         /\ Holds(Other(p), t)' => session'[Other(p)].accepts > 0
  BY DEF Accepting
<1> DEFINE o == Other(p)
<1>1. o \in Peer /\ Other(o) = p
  BY OtherIsPeer
<1> HIDE DEF o
<1>2. CASE sender[t] # p
  <2>1. SendOffer(p, t) /\ sender[t] = NONE
    <3>1. SendOffer(p, t)
      BY <1>2, OfferSteps
    <3> QED BY <3>1 DEF SendOffer
  <2>2. pipeline'[t] = NONE
    BY <2>1 DEF SendOffer, OfferInv, Owned
  <2>3. ~UnderWay(p, "accept", t)'
    <3>1. ~UnderWay(p, "accept", t)
      BY <1>2 DEF OfferInv, Traffic
    <3>2. ~HasRole(o, "receiver", t)
      BY <1>1, <1>2 DEF OfferInv, Roles, HasRole
    <3> QED BY <3>1, <3>2, AcceptSteps DEF o
  <2> QED BY <2>2, <2>3
<1>3. CASE sender[t] = p
  <2>1. ~SendOffer(p, t)
    BY <1>3, TransferAssumption DEF SendOffer
  <2>2. pipeline'[t] # NONE /\ pipeline[t] = NONE => Start(p, t)
    BY <1>3, PipelineSteps
  <2>3. Start(p, t) => session'[p].worker_started
    BY StartSession DEF Started
  <2>4. pipeline'[t] # NONE /\ HasRole(p, "sender", t)' => session'[p].worker_started
    BY <1>3, <2>1, <2>2, <2>3, SenderSteps DEF Accepting
  <2>5. ASSUME pipeline'[t] # NONE \/ UnderWay(p, "accept", t)'
        PROVE  ~UnderWay(o, "metadata", t)' /\ (Holds(o, t)' => session'[o].accepts > 0)
    <3>1. UnderWay(o, "metadata", t)' => UnderWay(o, "metadata", t)
      BY <1>1, <2>1, OfferSteps
    <3>2. CASE pipeline[t] # NONE \/ UnderWay(p, "accept", t)
      <4>1. ~UnderWay(o, "metadata", t) /\ (Holds(o, t) => session[o].accepts > 0)
        BY <1>3, <3>2 DEF Accepting, o
      <4>2. ASSUME Holds(o, t)' PROVE session'[o].accepts > 0
        <5>1. ~MetadataHandled(o, t)
          BY <4>1 DEF MetadataHandled
        <5> QED BY <1>1, <4>1, <4>2, <5>1, HolderSteps
      <4> QED BY <3>1, <4>1, <4>2
    <3>3. CASE pipeline[t] = NONE /\ ~UnderWay(p, "accept", t)
      <4>1. ~Start(p, t)
        BY <3>3, StartTraffic
      <4>2. AcceptOffer(o) /\ up /\ HasRole(o, "receiver", t)
        BY <2>2, <2>5, <3>3, <4>1, AcceptSteps DEF o
      <4>3. ~UnderWay(o, "metadata", t)
        BY <1>1, <4>2 DEF OfferInv, Traffic, Holds
      <4>4. session'[o].accepts = session[o].accepts + 1 /\ session[o].accepts \in Nat
        BY <1>1, <4>2, AcceptFacts
      <4> QED BY <3>1, <4>3, <4>4
    <3> QED BY <3>2, <3>3
  <2> QED BY <2>4, <2>5 DEF o
<1> QED BY <1>2, <1>3

\* What an accept rules out, in every state.
LEMMA AcceptingHolds == Spec => []Accepting
<1>1. Init => Accepting
  BY TransferAssumption DEF Init, Accepting
<1> QED BY <1>1, AcceptingKept, TypeCorrect, OffersHold, PTL DEF Spec
-----------------------------------------------------------------------------
(* What the file channel says of the pipelines.                            *)

OnlyOf(t, chunks) == \A k \in DOMAIN chunks : chunks[k].id = t

\* A pipeline reads, and sends, chunks of its own transfer.
Contents ==
  \A t \in Transfer :
    /\ OnlyOf(t, source[t])
    /\ pipeline[t] # NONE => OnlyOf(t, pipeline[t].queue) /\ OnlyOf(t, pipeline[t].hand)

\* What is on its way was sent by a pipeline, to the peer it was offered to,
\* which has not saved it; the end of it, and a file that has been saved, tell
\* that the writer is done.
Sent ==
  \A p \in Peer, t \in Transfer :
    /\ ItemOf(p, t) => pipeline[t] # NONE /\ sender[t] = Other(p) /\ saved[p][t] = NONE
    /\ EofOf(p, t) => pipeline[t].writer # "running"
    /\ saved[p][t] # NONE => pipeline[t] # NONE /\ pipeline[t].writer # "running"

FileInv == Contents /\ Sent /\ EofLast

\* A pipeline that is there stays, and a writer that is done stays done.
PipelinesKept ==
  \A t \in Transfer : pipeline[t] # NONE =>
    /\ pipeline'[t] # NONE
    /\ pipeline[t].writer # "running" => pipeline'[t].writer # "running"

SendersKept == \A t \in Transfer : sender[t] # NONE => sender'[t] = sender[t]

\* The end of a file is an item of it.
LEMMA EofIsItem == \A p \in Peer, t \in Transfer : EofOf(p, t) => ItemOf(p, t)
BY DEF EofOf, ItemOf

\* Nothing new on the wire: what was sent stays accounted for.
LEMMA SentKept ==
  ASSUME Sent, PipelinesKept, SendersKept, UNCHANGED saved,
         \A q \in Peer, u \in Transfer : (ItemOf(q, u)' => ItemOf(q, u)) /\ (EofOf(q, u)' => EofOf(q, u))
  PROVE  Sent'
<1> SUFFICES ASSUME NEW p \in Peer, NEW t \in Transfer
             PROVE  /\ ItemOf(p, t)' => pipeline'[t] # NONE /\ sender'[t] = Other(p) /\ saved'[p][t] = NONE
                    /\ EofOf(p, t)' => pipeline'[t].writer # "running"
                    /\ saved'[p][t] # NONE => pipeline'[t] # NONE /\ pipeline'[t].writer # "running"
  BY DEF Sent
<1>1. Other(p) # NONE
  BY OtherIsPeer, TransferAssumption
<1> QED BY <1>1, EofIsItem DEF Sent, PipelinesKept, SendersKept

\* A step of a pipeline's tasks reads and sends its own file.
LEMMA ContentsKept ==
  ASSUME TypeOK, Contents, UNCHANGED source, NEW t \in Transfer, PipelineMoves(t)
  PROVE  Contents' /\ PipelinesKept
<1>1. pipeline[t] # NONE /\ pipeline'[t] # NONE /\ \A u \in Transfer : u # t => pipeline'[u] = pipeline[u]
  BY TransferAssumption DEF PipelineMoves
<1>2. PipelinesKept
  BY <1>1 DEF PipelinesKept, PipelineMoves
<1>3. OnlyOf(t, pipeline[t].queue) /\ OnlyOf(t, pipeline[t].hand) /\ OnlyOf(t, source[t])
  BY <1>1 DEF Contents
<1>4. OnlyOf(t, <<>>)
  BY DEF OnlyOf
<1>5. OnlyOf(t, pipeline'[t].hand)
  BY <1>3, <1>4 DEF PipelineMoves
<1>6. OnlyOf(t, pipeline'[t].queue)
  <2>1. CASE pipeline'[t].queue \in {pipeline[t].queue, <<>>}
    BY <1>3, <1>4, <2>1
  <2>2. CASE \E k \in DOMAIN source[t] : pipeline'[t].queue = <<source[t][k]>>
    <3>1. PICK k \in DOMAIN source[t] : pipeline'[t].queue = <<source[t][k]>>
      BY <2>2
    <3>2. source[t][k].id = t
      BY <1>3 DEF OnlyOf
    <3> DEFINE c == source[t][k]
    <3> HIDE DEF c
    <3>3. OnlyOf(t, <<c>>)
      BY <3>2 DEF OnlyOf, c
    <3> QED BY <3>1, <3>3 DEF c
  <2> QED BY <2>1, <2>2 DEF PipelineMoves
<1>7. \A u \in Transfer : u # t /\ pipeline'[u] # NONE =>
        OnlyOf(u, pipeline'[u].queue) /\ OnlyOf(u, pipeline'[u].hand)
  BY <1>1 DEF Contents
<1>8. \A u \in Transfer : OnlyOf(u, source'[u])
  BY DEF Contents
<1>9. \A u \in Transfer : pipeline'[u] # NONE => OnlyOf(u, pipeline'[u].queue) /\ OnlyOf(u, pipeline'[u].hand)
  BY <1>5, <1>6, <1>7
<1> QED BY <1>2, <1>8, <1>9 DEF Contents, OnlyOf

\* The steps that leave the file channel alone, or take from it.
LEMMA FileKept ==
  ASSUME FileInv, Contents', PipelinesKept, SendersKept, UNCHANGED <<file, saved>>
  PROVE  FileInv'
<1>1. \A q \in Peer, u \in Transfer : (ItemOf(q, u)' <=> ItemOf(q, u)) /\ (EofOf(q, u)' <=> EofOf(q, u))
  BY DEF ItemOf, EofOf
<1>2. EofLast'
  BY DEF FileInv, EofLast
<1>3. Sent'
  BY <1>1, SentKept DEF FileInv
<1> QED BY <1>2, <1>3 DEF FileInv

\* FileInv survives the start of a pipeline,
LEMMA FileAfterStart ==
  ASSUME TypeOK, OfferInv, Accepting, FileInv, NEW p \in Peer, NEW t \in Transfer, Start(p, t),
         UNCHANGED <<file, source>>
  PROVE  FileInv'
<1>1. /\ pipeline[t] = NONE /\ UNCHANGED <<saved, sender>>
      /\ pipeline'[t] = NewPipeline /\ \A u \in Transfer : u # t => pipeline'[u] = pipeline[u]
  <2>1. sender[t] = p
    BY DEF Start, HasRole, OfferInv, Roles
  <2> QED BY <2>1 DEF Start, Accepting, TypeOK
<1>2. Contents'
  <2>1. OnlyOf(t, NewPipeline.queue) /\ OnlyOf(t, NewPipeline.hand)
    BY DEF NewPipeline, OnlyOf
  <2>2. \A u \in Transfer : OnlyOf(u, source'[u])
    BY DEF FileInv, Contents
  <2>3. \A u \in Transfer : pipeline'[u] # NONE => OnlyOf(u, pipeline'[u].queue) /\ OnlyOf(u, pipeline'[u].hand)
    BY <1>1, <2>1 DEF FileInv, Contents
  <2> QED BY <2>2, <2>3 DEF Contents, OnlyOf
<1>3. PipelinesKept /\ SendersKept
  BY <1>1 DEF PipelinesKept, SendersKept
<1> QED BY <1>1, <1>2, <1>3, FileKept

\* an item that is received,
LEMMA FileAfterReceive ==
  ASSUME TypeOK, OfferInv, FileInv, NEW p \in Peer, ReceiveFile(p)
  PROVE  FileInv'
<1>1. /\ file[p] # <<>> /\ file' = [file EXCEPT ![p] = Tail(@)]
      /\ UNCHANGED <<pipeline, source, sender>>
  BY DEF ReceiveFile, ReceiveChunk, ReceiveEof, NextItem
<1>2. ItemTaken(p)
  BY <1>1, TakeItem DEF FileInv
<1>3. Contents' /\ PipelinesKept /\ SendersKept
  BY <1>1 DEF FileInv, Contents, OnlyOf, PipelinesKept, SendersKept
<1>4. CASE UNCHANGED saved
  <2>1. Sent'
    BY <1>2, <1>3, <1>4, SentKept DEF FileInv, ItemTaken
  <2> QED BY <1>2, <1>3, <2>1 DEF FileInv, ItemTaken
<1>5. CASE Save(p)
  <2> PICK t \in Transfer : t = Head(file[p]).chunk.id
    BY <1>2 DEF ItemTaken
  <2>1. EofOf(p, t) /\ ~ItemOf(p, t)' /\ ItemOf(p, t)
    BY <1>2, <1>5 DEF ItemTaken, Save
  <2>2. \A q \in Peer, u \in Transfer : q # p \/ u # t => saved'[q][u] = saved[q][u]
    BY <1>5 DEF Save, TypeOK
  <2>3. pipeline[t] # NONE /\ pipeline[t].writer # "running"
    BY <2>1 DEF FileInv, Sent
  <2>4. Sent'
    <3> SUFFICES ASSUME NEW q \in Peer, NEW u \in Transfer
                 PROVE  /\ ItemOf(q, u)' => pipeline'[u] # NONE /\ sender'[u] = Other(q) /\ saved'[q][u] = NONE
                        /\ EofOf(q, u)' => pipeline'[u].writer # "running"
                        /\ saved'[q][u] # NONE => pipeline'[u] # NONE /\ pipeline'[u].writer # "running"
      BY DEF Sent
    <3>1. ItemOf(q, u)' => ItemOf(q, u) /\ (q # p \/ u # t)
      BY <1>2, <2>1 DEF ItemTaken
    <3>2. EofOf(q, u)' => EofOf(q, u)
      BY <1>2 DEF ItemTaken
    <3> QED BY <1>1, <2>2, <2>3, <3>1, <3>2 DEF FileInv, Sent
  <2> QED BY <1>2, <1>3, <2>4 DEF FileInv, ItemTaken
<1>6. UNCHANGED saved \/ Save(p)
  BY ChunkCases, EofCases DEF ReceiveFile, Quiet, Drop, Count
<1> QED BY <1>4, <1>5, <1>6

\* a step of a pipeline,
LEMMA FileAfterSend ==
  ASSUME TypeOK, OfferInv, FileInv, NEW t \in Transfer, ReaderStep(t) \/ WriterStep(t) \/ Report(t)
  PROVE  FileInv'
<1>1. UNCHANGED <<source, saved, sender>> /\ PipelineMoves(t)
  BY StepMoves DEF ReaderStep, WriterStep, ReadChunk, TakeChunk, SendChunk, SendEof, Report
<1>2. Contents' /\ PipelinesKept /\ SendersKept
  BY <1>1, ContentsKept DEF FileInv, SendersKept
<1>3. CASE UNCHANGED file
  BY <1>1, <1>2, <1>3, FileKept
<1> DEFINE o == Other(sender[t])
<1>4. ASSUME NEW item \in FileItem, item.chunk.id = t, pipeline[t].writer = "running",
             item.type = "eof" => pipeline'[t].writer # "running",
             file' = [file EXCEPT ![o] = Append(@, item)]
      PROVE  FileInv'
  <2>1. pipeline[t] # NONE /\ sender[t] \in Peer
    <3>1. pipeline[t] # NONE
      BY <1>1, TransferAssumption DEF PipelineMoves
    <3> QED BY <3>1 DEF OfferInv, Owned, TypeOK
  <2>2. o \in Peer /\ sender[t] = Other(o)
    BY <2>1, OtherIsPeer
  <2> HIDE DEF o
  <2>3. ItemSent(o, item)
    BY <1>4, <2>2, SendItem
  <2>4. ~EofOf(o, t) /\ \A q \in Peer : saved[q][t] = NONE
    BY <1>4, <2>2 DEF FileInv, Sent
  <2>5. EofLast'
    BY <1>4, <2>3, <2>4 DEF ItemSent, FileInv
  <2>6. Sent'
    <3> SUFFICES ASSUME NEW q \in Peer, NEW u \in Transfer
                 PROVE  /\ ItemOf(q, u)' => pipeline'[u] # NONE /\ sender'[u] = Other(q) /\ saved'[q][u] = NONE
                        /\ EofOf(q, u)' => pipeline'[u].writer # "running"
                        /\ saved'[q][u] # NONE => pipeline'[u] # NONE /\ pipeline'[u].writer # "running"
      BY DEF Sent
    <3>1. /\ ItemOf(q, u)' => ItemOf(q, u) \/ (q = o /\ u = t)
          /\ EofOf(q, u)' => EofOf(q, u) \/ (item.type = "eof" /\ u = t)
      BY <1>4, <2>3 DEF ItemSent
    <3>2. EofOf(q, u) => ItemOf(q, u)
      BY EofIsItem
    <3>3. ItemOf(q, u)' => pipeline'[u] # NONE /\ sender'[u] = Other(q) /\ saved'[q][u] = NONE
      BY <1>1, <1>2, <2>1, <2>2, <2>4, <3>1 DEF PipelinesKept, FileInv, Sent
    <3>4. EofOf(q, u)' => pipeline'[u].writer # "running"
      BY <1>2, <1>4, <3>1, <3>2 DEF PipelinesKept, FileInv, Sent
    <3>5. saved'[q][u] # NONE => pipeline'[u] # NONE /\ pipeline'[u].writer # "running"
      BY <1>1, <1>2 DEF PipelinesKept, FileInv, Sent
    <3> QED BY <3>3, <3>4, <3>5
  <2> QED BY <1>2, <2>5, <2>6 DEF FileInv
<1>5. ASSUME SendChunk(t), ~UNCHANGED file
      PROVE  FileInv'
  <2> DEFINE c == Head(pipeline[t].hand)
             item == [type |-> "chunk", chunk |-> c]
  <2>1. /\ pipeline[t].writer = "running" /\ pipeline[t] # NONE /\ pipeline[t].hand # <<>>
        /\ file' = [file EXCEPT ![o] = Append(@, item)]
    BY <1>5 DEF SendChunk, Running
  <2>2. pipeline[t].hand \in Seq(Chunk)
    BY <1>1 DEF PipelineMoves, Pipeline
  <2>3. c \in Chunk
    BY <2>1, <2>2, HeadTailProperties
  <2>4. 1 \in DOMAIN pipeline[t].hand /\ c = pipeline[t].hand[1]
    BY <2>1, <2>2, LenProperties, EmptySeq
  <2>5. c.id = t
    BY <2>1, <2>4 DEF FileInv, Contents, OnlyOf
  <2> HIDE DEF c, o
  <2>6. item \in FileItem /\ item.chunk.id = t /\ item.type # "eof"
    BY <2>3, <2>5 DEF FileItem
  <2> QED BY <1>4, <2>1, <2>6
<1>6. ASSUME SendEof(t), ~UNCHANGED file
      PROVE  FileInv'
  <2> DEFINE c == [id |-> t, part |-> 0]
             item == [type |-> "eof", chunk |-> c]
  <2>1. /\ pipeline[t].writer = "running"
        /\ file' = [file EXCEPT ![o] = Append(@, item)]
        /\ pipeline' = Pipe(t, "writer", "finished")
    BY <1>6 DEF SendEof, Running
  <2>2. pipeline'[t].writer # "running"
    <3>1. pipeline'[t] = [pipeline[t] EXCEPT !["writer"] = "finished"]
      BY <2>1 DEF Pipe, TypeOK
    <3> QED BY <1>1, <3>1 DEF PipelineMoves, Pipeline
  <2>3. item \in FileItem /\ item.chunk.id = t
    BY DEF FileItem, Chunk
  <2> HIDE DEF item, o
  <2> QED BY <1>4, <2>1, <2>2, <2>3
<1>7. SendChunk(t) \/ SendEof(t) \/ UNCHANGED file
  BY DEF ReaderStep, WriterStep, ReadChunk, TakeChunk, Report
<1> QED BY <1>3, <1>5, <1>6, <1>7

\* and an edit of the source.
LEMMA FileAfterEdit ==
  ASSUME TypeOK, FileInv, NEW t \in Transfer, Edit(t)
  PROVE  FileInv'
<1>1. UNCHANGED <<file, pipeline, saved, sender>> /\ PipelinesKept /\ SendersKept
  BY DEF Edit, PipelinesKept, SendersKept
<1>2. OnlyOf(t, source'[t])
  <2> DEFINE extra == [id |-> t, part |-> 0]
             s == source[t]
  <2>1. s \in Seq(Chunk) /\ OnlyOf(t, s) /\ extra \in Chunk /\ extra.id = t
    BY DEF TypeOK, FileInv, Contents, Chunk
  <2> HIDE DEF extra, s
  <2>2. ASSUME NEW f \in Seq(Chunk), OnlyOf(t, f)
        PROVE  OnlyOf(t, Append(f, extra))
    <3>1. Len(f) \in Nat /\ DOMAIN f = 1 .. Len(f)
      BY LenProperties
    <3>2. /\ Append(f, extra) \in Seq(Chunk) /\ Len(Append(f, extra)) = Len(f) + 1
          /\ \A i \in 1 .. Len(f) : Append(f, extra)[i] = f[i]
          /\ Append(f, extra)[Len(f) + 1] = extra
      BY <2>1, AppendProperties
    <3>3. DOMAIN Append(f, extra) = 1 .. Len(f) + 1
      BY <3>2, LenProperties
    <3>4. 1 .. Len(f) + 1 = (1 .. Len(f)) \cup {Len(f) + 1}
      BY <3>1
    <3> QED BY <2>1, <2>2, <3>1, <3>2, <3>3, <3>4 DEF OnlyOf
  <2>3. ASSUME s # <<>>
        PROVE  Front(s) \in Seq(Chunk) /\ OnlyOf(t, Front(s))
    <3>1. /\ Front(s) \in Seq(Chunk) /\ Len(Front(s)) = Len(s) - 1
          /\ \A i \in 1 .. Len(s) - 1 : Front(s)[i] = s[i]
      BY <2>1, <2>3, FrontProperties
    <3>2. Len(s) \in Nat /\ DOMAIN s = 1 .. Len(s) /\ DOMAIN Front(s) = 1 .. Len(s) - 1
      BY <2>1, <3>1, LenProperties
    <3>3. \A i \in 1 .. Len(s) - 1 : i \in 1 .. Len(s)
      BY <3>2
    <3> QED BY <2>1, <3>1, <3>2, <3>3 DEF OnlyOf
  <2>4. Size[t] # 0 => s # <<>>
    <3>1. s = Original(t) /\ Len(s) = Size[t]
      BY OriginalTyped DEF Edit, s
    <3> QED BY <3>1, EmptySeq
  <2>5. \E f \in Seq(Chunk) : OnlyOf(t, f) /\ source' = [source EXCEPT ![t] = f]
    <3> DEFINE ok(f) == f \in Seq(Chunk) /\ OnlyOf(t, f)
    <3>1. ok(Append(s, extra))
      <4>1. Append(s, extra) \in Seq(Chunk)
        BY <2>1, AppendProperties
      <4> QED BY <2>1, <2>2, <4>1
    <3>2. Size[t] # 0 => ok(Front(s)) /\ ok(Append(Front(s), extra))
      <4>1. Size[t] # 0 => Append(Front(s), extra) \in Seq(Chunk)
        BY <2>1, <2>3, <2>4, AppendProperties
      <4> QED BY <2>2, <2>3, <2>4, <4>1
    <3> HIDE DEF ok
    <3>3. PICK f \in {Append(s, extra)} \cup
                     (IF Size[t] = 0 THEN {} ELSE {Front(s), Append(Front(s), extra)}) :
            source' = [source EXCEPT ![t] = f]
      BY DEF Edit, s, extra
    <3>4. ok(f)
      BY <3>1, <3>2, <3>3
    <3> QED BY <3>3, <3>4 DEF ok
  <2> QED BY <2>5 DEF TypeOK
<1>3. \A u \in Transfer : u # t => source'[u] = source[u]
  BY DEF Edit, TypeOK
<1>4. \A u \in Transfer : OnlyOf(u, source'[u])
  BY <1>2, <1>3 DEF FileInv, Contents
<1>5. Contents'
  BY <1>1, <1>4 DEF FileInv, Contents, OnlyOf
<1> QED BY <1>1, <1>5, FileKept

\* FileInv is inductive.
LEMMA FileInvKept == TypeOK /\ OfferInv /\ Accepting /\ FileInv /\ [Next]_vars => FileInv'
<1> SUFFICES ASSUME TypeOK, OfferInv, Accepting, FileInv, [Next]_vars
             PROVE  FileInv'
  OBVIOUS
<1>1. SendersKept
  <2>1. \E p \in Peer : TRUE
    BY TransferAssumption
  <2> QED BY <2>1, OfferSteps DEF SendersKept
<1>2. ASSUME UNCHANGED <<file, pipeline, source, saved>>
      PROVE  FileInv'
  <2>1. PipelinesKept /\ Contents'
    BY <1>2 DEF PipelinesKept, FileInv, Contents
  <2> QED BY <1>1, <1>2, <2>1, FileKept
<1>3. ASSUME NEW p \in Peer, UserStep(p) \/ Timeout(p) \/ Dispose(p)
      PROVE  UNCHANGED <<file, pipeline, source, saved>>
  BY <1>3 DEF UserStep, SendOffer, AcceptOffer, RejectOffer, CancelTransfer, Timeout, Dispose
<1>4. ASSUME NEW p \in Peer, ReceiveControl(p)
      PROVE  FileInv'
  <2>1. UNCHANGED <<file, source, saved>>
    BY <1>4 DEF ReceiveControl, ReceiveMetadata, ReceiveAccept, ReceiveEnd
  <2>2. CASE \E t \in Transfer : Start(p, t)
    BY <2>1, <2>2, FileAfterStart
  <2>3. CASE UNCHANGED pipeline
    BY <1>2, <2>1, <2>3
  <2>4. ReceiveAccept(p) => UNCHANGED pipeline \/ \E t \in Transfer : Start(p, t)
    BY AcceptCases DEF Consume
  <2> QED BY <1>4, <2>2, <2>3, <2>4 DEF ReceiveControl, ReceiveMetadata, ReceiveEnd
<1>5. CASE Disconnect
  <2>1. UNCHANGED <<pipeline, source, saved, sender>> /\ \A q \in Peer : file'[q] = <<>>
    BY <1>5 DEF Disconnect
  <2>2. \A q \in Peer : DOMAIN file'[q] = {}
    BY <2>1
  <2>3. /\ \A q \in Peer, u \in Transfer : ~ItemOf(q, u)' /\ ~EofOf(q, u)'
        /\ EofLast'
    BY <2>2 DEF ItemOf, EofOf, EofLast
  <2>4. PipelinesKept /\ Contents'
    BY <2>1 DEF PipelinesKept, FileInv, Contents
  <2>5. Sent'
    BY <1>1, <2>1, <2>3, <2>4, SentKept DEF FileInv
  <2> QED BY <2>3, <2>4, <2>5 DEF FileInv
<1>6. CASE UNCHANGED vars
  BY <1>2, <1>6 DEF vars
<1> QED BY <1>2, <1>3, <1>4, <1>5, <1>6, FileAfterReceive, FileAfterSend, FileAfterEdit, StepCases

\* File channels and pipelines agree in every state.
LEMMA FileInvHolds == Spec => []FileInv
<1>1. Init => FileInv
  <2> SUFFICES ASSUME Init PROVE FileInv
    OBVIOUS
  <2>1. Contents
    <3>1. \A t \in Transfer : source[t] = Original(t) /\ pipeline[t] = NONE
      BY DEF Init
    <3>2. \A t \in Transfer : OnlyOf(t, Original(t))
      BY DEF OnlyOf, Original
    <3> QED BY <3>1, <3>2 DEF Contents
  <2>2. \A p \in Peer : DOMAIN file[p] = {} /\ \A t \in Transfer : saved[p][t] = NONE
    BY DEF Init
  <2> QED BY <2>1, <2>2 DEF FileInv, Sent, EofLast, ItemOf, EofOf
<1> QED BY <1>1, FileInvKept, TypeCorrect, OffersHold, AcceptingHolds, PTL DEF Spec
-----------------------------------------------------------------------------
(* An offer that has ended is not held by the peer the word is about.      *)

\* A peer that has given a transfer up, or refused it, does not hold it, and
\* a word of its end on its way finds the session of its sender or nothing.
Ends ==
  \A p \in Peer, t \in Transfer : sender[t] = p =>
    /\ Ended(p, t) => ~Holds(Other(p), t) /\ ~UnderWay(Other(p), "metadata", t)
    /\ Ended(Other(p), t) => ~HasRole(p, "sender", t)

\* Ends is inductive.
LEMMA EndsKept == TypeOK /\ OfferInv /\ Ends /\ [Next]_vars => Ends'
<1> SUFFICES ASSUME TypeOK, OfferInv, Ends, [Next]_vars,
                    NEW p \in Peer, NEW t \in Transfer, sender'[t] = p
             PROVE  /\ Ended(p, t)' => ~Holds(Other(p), t)' /\ ~UnderWay(Other(p), "metadata", t)'
                    /\ Ended(Other(p), t)' => ~HasRole(p, "sender", t)'
  BY DEF Ends
<1> DEFINE o == Other(p)
<1>1. o \in Peer /\ Other(o) = p /\ o # p /\ p # NONE /\ o # NONE
  BY OtherIsPeer, TransferAssumption
<1>2. {"reject", "cancel", "metadata"} \subseteq MessageType
  BY DEF MessageType
<1> HIDE DEF o
<1>3. CASE sender[t] # p
  <2>1. sender[t] = NONE
    <3>1. SendOffer(p, t)
      BY <1>3, OfferSteps
    <3> QED BY <3>1 DEF SendOffer
  <2>2. \A q \in Peer : ~Ended(q, t) /\ ~HasId(q, t) /\ ~HasRole(q, "sender", t) /\ ~UnderWay(q, "metadata", t)
    <3>1. \A q \in Peer : ~UnderWay(q, "reject", t) /\ ~UnderWay(q, "cancel", t) /\ ~UnderWay(q, "metadata", t)
      BY <1>2, <2>1 DEF OfferInv, Traffic
    <3>2. ASSUME NEW q \in Peer, HasId(q, t)
          PROVE  FALSE
      <4>1. session[q].role \in Role
        BY <3>2, SessionTyped DEF HasId, Session
      <4>2. q # NONE /\ Other(q) # NONE
        BY OtherIsPeer, TransferAssumption
      <4> QED BY <2>1, <3>2, <4>1, <4>2 DEF HasId, Has, Role, OfferInv, Roles
    <3> QED BY <3>1, <3>2 DEF Ended, HasId, HasRole, Has
  <2>3. \A q \in Peer : ~Ended(q, t)'
    <3> SUFFICES ASSUME NEW q \in Peer, Ended(q, t)' PROVE FALSE
      OBVIOUS
    <3>1. Other(q) \in Peer
      BY OtherIsPeer
    <3> QED BY <2>2, <3>1, EndSteps
  <2> QED BY <1>1, <2>3 DEF o
<1>4. CASE sender[t] = p
  <2>1. ~SendOffer(p, t)
    BY <1>1, <1>4 DEF SendOffer
  <2>2. HasId(o, t) => Holds(o, t)
    <3>1. HasId(o, t) => session[o].role \in Role
      BY <1>1, SessionTyped DEF HasId, Session
    <3> QED BY <1>1, <1>4, <3>1 DEF HasId, Holds, HasRole, Has, Role, OfferInv, Roles
  <2>3. Holds(o, t) => ~UnderWay(o, "metadata", t)
    BY <1>1 DEF OfferInv, Traffic
  <2>4. UnderWay(o, "metadata", t)' => UnderWay(o, "metadata", t)
    BY <1>1, <2>1, OfferSteps
  <2>5. ~HasRole(o, "sender", t) /\ ~UnderWay(p, "metadata", t)
    BY <1>1, <1>4 DEF OfferInv, Roles, Traffic, HasRole, o
  <2>6. ASSUME Ended(p, t)'
        PROVE  ~Holds(o, t)' /\ ~UnderWay(o, "metadata", t)'
    <3>1. CASE Ended(p, t)
      <4>1. ~Holds(o, t) /\ ~UnderWay(o, "metadata", t)
        BY <1>4, <3>1 DEF Ends, o
      <4>2. ~Holds(o, t)'
        BY <1>1, <4>1, HolderSteps DEF MetadataHandled
      <4> QED BY <2>4, <4>1, <4>2
    <3>2. CASE ~Ended(p, t)
      <4>1. \/ HasId(o, t) /\ ~HasId(o, t)'
            \/ HasRole(o, "sender", t)
            \/ /\ UnderWay(o, "metadata", t) /\ ~UnderWay(o, "metadata", t)'
               /\ UNCHANGED session
        BY <2>6, <3>2, EndSteps DEF o
      <4>2. CASE HasId(o, t) /\ ~HasId(o, t)'
        BY <2>2, <2>3, <2>4, <4>2 DEF HasId, Holds, HasRole, Has
      <4>3. CASE /\ UnderWay(o, "metadata", t) /\ ~UnderWay(o, "metadata", t)'
                 /\ UNCHANGED session
        BY <2>3, <4>3 DEF Holds, HasRole, Has
      <4> QED BY <2>5, <4>1, <4>2, <4>3
    <3> QED BY <3>1, <3>2
  <2>7. ASSUME Ended(o, t)'
        PROVE  ~HasRole(p, "sender", t)'
    <3>1. CASE Ended(o, t)
      <4>1. ~HasRole(p, "sender", t)
        BY <1>4, <3>1 DEF Ends, o
      <4>2. ~Start(p, t)
        BY <4>1 DEF Start
      <4> QED BY <2>1, <4>1, <4>2, SenderSteps
    <3>2. CASE ~Ended(o, t)
      <4>1. \/ HasId(p, t) /\ ~HasId(p, t)'
            \/ HasRole(p, "sender", t) /\ ~Has(p, "sender")'
            \/ UnderWay(p, "metadata", t)
        BY <1>1, <2>7, <3>2, EndSteps
      <4> QED BY <2>5, <4>1 DEF HasId, HasRole, Has
    <3> QED BY <3>1, <3>2
  <2> QED BY <2>6, <2>7 DEF o
<1> QED BY <1>3, <1>4

\* A transfer that has ended is held by nobody the word is about, in every state.
LEMMA EndsHold == Spec => []Ends
<1>1. Init => Ends
  BY TransferAssumption DEF Init, Ends
<1> QED BY <1>1, EndsKept, TypeCorrect, OffersHold, PTL DEF Spec
-----------------------------------------------------------------------------
(* A transfer that was started and given up stays so.                      *)

\* p has started to send a transfer it has given up, and so has the other peer.
Lost(p) ==
  \E u \in Transfer :
    /\ sender[u] = p /\ pipeline[u] # NONE
    /\ ~HasRole(p, "sender", u)
    /\ saved[Other(p)][u] = NONE /\ ~Holds(Other(p), u)

\* Only Save writes a destination, and for the transfer the receiver holds.
LEMMA SavedSteps ==
  ASSUME TypeOK, OfferInv, [Next]_vars, NEW p \in Peer, NEW t \in Transfer,
         saved'[p][t] # saved[p][t]
  PROVE  Save(p) /\ Holds(p, t)
<1>1. UNCHANGED saved \/ \E q \in Peer : Save(q)
  BY OfferStepCases, AcceptFacts DEF Quiet, Drop, Consume, Count, SendOffer, Start, Take, Refuse, Disconnect
<1>2. PICK q \in Peer : Save(q)
  BY <1>1
<1>3. session[q].id = t /\ q = p
  BY <1>2 DEF Save, TypeOK
<1> QED BY <1>2, <1>3 DEF Save, Holds, HasRole

\* A transfer that was started and given up stays so.
LEMMA LostStays ==
  ASSUME TypeOK, OfferInv, Accepting, [Next]_vars, NEW p \in Peer, Lost(p)
  PROVE  Lost(p)'
<1>1. PICK u \in Transfer : /\ sender[u] = p /\ pipeline[u] # NONE
                            /\ ~HasRole(p, "sender", u)
                            /\ saved[Other(p)][u] = NONE /\ ~Holds(Other(p), u)
  BY DEF Lost
<1> DEFINE o == Other(p)
<1>2. o \in Peer /\ p # NONE
  BY OtherIsPeer, TransferAssumption
<1>3. sender'[u] = p /\ pipeline'[u] # NONE
  BY <1>1, <1>2, OfferSteps, PipelinesStay
<1>4. ~HasRole(p, "sender", u)'
  <2>1. ~Start(p, u) /\ ~SendOffer(p, u)
    BY <1>1, <1>2 DEF Start, SendOffer
  <2> QED BY <1>1, <2>1, SenderSteps
<1>5. ~Holds(o, u)'
  <2>1. ~UnderWay(o, "metadata", u)
    BY <1>1 DEF Accepting
  <2> HIDE DEF o
  <2>2. ~Holds(o, u)
    BY <1>1 DEF o
  <2> QED BY <1>2, <2>1, <2>2, HolderSteps DEF MetadataHandled
<1>6. saved'[o][u] = NONE
  BY <1>1, <1>2, SavedSteps
<1> QED BY <1>3, <1>4, <1>5, <1>6 DEF Lost
-----------------------------------------------------------------------------
(* Every offer has its answer on the way.                                  *)

\* While the channels are open, an offer nobody has accepted is known to the
\* other peer, or about to be, or a word of its end is on its way; the peer it
\* is offered to has no prompt but for an offer that stands or that such a word
\* takes back.
Answers ==
  up =>
    \A p \in Peer, t \in Transfer : sender[t] = p =>
      /\ HasRole(p, "sender", t) /\ ~session[p].worker_started /\ ~Lost(p) =>
           Holds(Other(p), t) \/ UnderWay(Other(p), "metadata", t) \/ Ended(p, t)
      /\ Holds(Other(p), t) /\ session[Other(p)].accepts = 0 =>
           HasRole(p, "sender", t) \/ Ended(Other(p), t)
      /\ UnderWay(Other(p), "metadata", t) => HasRole(p, "sender", t) \/ Ended(Other(p), t)

\* The sender of t gives it up: it says so, or was told, or has sent it.
LEMMA Withdrawn ==
  ASSUME TypeOK, OfferInv, [Next]_vars, up, NEW p \in Peer, NEW t \in Transfer,
         HasRole(p, "sender", t), ~HasRole(p, "sender", t)'
  PROVE  Ended(Other(p), t)' \/ Ended(p, t) \/ pipeline[t] # NONE
<1>1. "sender" \in Role
  BY DEF Role
<1>2. Drop(p) \/ Save(p) \/ Ended(Other(p), t)'
  BY <1>1, SessionEnds
<1>3. ~Save(p)
  BY DEF Save, HasRole, Has
<1>4. CASE Drop(p)
  <2>1. Cause(p)
    BY <1>4 DEF Drop
  <2>2. PICK v \in Transfer : /\ HasId(p, v)
                              /\ Ended(Other(p), v)' \/ Ended(p, v) \/ pipeline[v] # NONE
    BY <2>1 DEF Cause, HasRole, Has
  <2>3. v = t
    BY <2>2 DEF HasId, HasRole
  <2> QED BY <2>2, <2>3
<1> QED BY <1>2, <1>3, <1>4

\* The peer that holds t, not yet accepted, gives it up.
LEMMA Declined ==
  ASSUME TypeOK, OfferInv, Accepting, FileInv, [Next]_vars, up, NEW p \in Peer, NEW t \in Transfer,
         sender[t] = p, HasRole(p, "sender", t), ~session[p].worker_started, ~Lost(p),
         Holds(Other(p), t), ~Holds(Other(p), t)'
  PROVE  Ended(p, t)' \/ Ended(Other(p), t)
<1> DEFINE o == Other(p)
<1>1. o \in Peer /\ Other(o) = p
  BY OtherIsPeer
<1>2. pipeline[t] = NONE
  BY DEF Accepting
<1>3. Holds(o, t) /\ ~Holds(o, t)' /\ session[o].id = t /\ session[p].id = t
  BY DEF Holds, HasRole
<1>4. ASSUME file[o] # <<>>
      PROVE  FALSE
  <2>1. PICK u \in Transfer : ItemOf(o, u)
    <3>1. file[o] \in Seq(FileItem)
      BY <1>1 DEF TypeOK
    <3>2. 1 \in DOMAIN file[o] /\ file[o][1] \in FileItem
      BY <1>4, <3>1, LenProperties, EmptySeq, ElementOfSeq
    <3> QED BY <3>2 DEF ItemOf, FileItem, Chunk
  <2>2. pipeline[u] # NONE /\ sender[u] = Other(o) /\ saved[o][u] = NONE
    BY <1>1, <2>1 DEF FileInv, Sent
  <2>3. u # t
    BY <1>2, <2>2
  <2>4. ~HasRole(p, "sender", u) /\ ~Holds(o, u)
    BY <1>3, <2>3 DEF HasRole, Holds
  <2> QED BY <1>1, <2>2, <2>4 DEF Lost
<1>5. "receiver" \in Role /\ HasRole(o, "receiver", t) /\ ~HasRole(o, "receiver", t)'
  BY <1>3 DEF Role, Holds
<1> HIDE DEF o
<1>6. Drop(o) \/ Save(o)
  BY <1>1, <1>5, SessionEnds
<1>7. ~Save(o)
  BY <1>4 DEF Save
<1>8. Cause(o)
  BY <1>6, <1>7 DEF Drop
<1>9. PICK v \in Transfer : HasId(o, v) /\ (Ended(p, v)' \/ Ended(o, v))
  BY <1>1, <1>4, <1>5, <1>8 DEF Cause, HasRole, Has
<1>10. v = t
  BY <1>3, <1>9 DEF HasId
<1> QED BY <1>9, <1>10 DEF o

\* Answers is inductive.
LEMMA AnswersKept ==
  TypeOK /\ OfferInv /\ Accepting /\ FileInv /\ Ends /\ Answers /\ [Next]_vars => Answers'
<1> SUFFICES ASSUME TypeOK, OfferInv, Accepting, FileInv, Ends, Answers, [Next]_vars, up',
                    NEW p \in Peer, NEW t \in Transfer, sender'[t] = p
             PROVE  /\ HasRole(p, "sender", t)' /\ ~session'[p].worker_started /\ ~Lost(p)' =>
                         Holds(Other(p), t)' \/ UnderWay(Other(p), "metadata", t)' \/ Ended(p, t)'
                    /\ Holds(Other(p), t)' /\ session'[Other(p)].accepts = 0 =>
                         HasRole(p, "sender", t)' \/ Ended(Other(p), t)'
                    /\ UnderWay(Other(p), "metadata", t)' => HasRole(p, "sender", t)' \/ Ended(Other(p), t)'
  BY DEF Answers
<1> DEFINE o == Other(p)
<1>1. o \in Peer /\ Other(o) = p /\ o # p /\ p # NONE /\ o # NONE
  BY OtherIsPeer, TransferAssumption
<1>2. up
  BY UpStays
<1>3. HasRole(p, "sender", t) => sender[t] = p
  BY DEF OfferInv, Roles, HasRole
<1>4. Holds(o, t) => sender[t] = p
  BY <1>1 DEF OfferInv, Roles, Holds, HasRole
<1>5. UnderWay(o, "metadata", t) => sender[t] = p /\ ~Holds(o, t)
  BY <1>1 DEF OfferInv, Traffic
<1> HIDE DEF o
<1>6. ASSUME HasRole(p, "sender", t)', ~session'[p].worker_started, ~Lost(p)'
      PROVE  Holds(o, t)' \/ UnderWay(o, "metadata", t)' \/ Ended(p, t)'
  <2>1. ~Start(p, t)
    <3>1. Start(p, t) => Started(p, t)
      BY StartSession
    <3> QED BY <1>6, <3>1 DEF Started
  <2>2. CASE SendOffer(p, t)
    <3>1. Send(p, Msg("metadata", t)) /\ "metadata" \in MessageType
      BY <2>2 DEF SendOffer, MessageType
    <3> QED BY <1>1, <1>2, <3>1, SendEffect DEF o
  <2>3. CASE HasRole(p, "sender", t) /\ session'[p].worker_started = session[p].worker_started
    <3>1. ~session[p].worker_started /\ ~Lost(p) /\ sender[t] = p
      BY <1>3, <1>6, <2>3, LostStays
    <3>2. Holds(o, t) \/ UnderWay(o, "metadata", t) \/ Ended(p, t)
      BY <1>2, <2>3, <3>1 DEF Answers, o
    <3>3. ~Ended(o, t)
      BY <2>3, <3>1 DEF Ends, o
    <3>4. CASE Holds(o, t)
      BY <1>2, <2>3, <3>1, <3>3, <3>4, Declined DEF o
    <3>5. CASE UnderWay(o, "metadata", t)
      BY <1>1, <3>5, OfferSteps
    <3>6. CASE Ended(p, t)
      <4>1. HasId(p, t)'
        BY <1>6 DEF HasId, HasRole, Has
      <4> QED BY <3>6, <4>1, EndsHeard
    <3> QED BY <3>2, <3>4, <3>5, <3>6
  <2> QED BY <1>6, <2>1, <2>2, <2>3, SenderSteps
<1>7. ASSUME HasRole(p, "sender", t) \/ Ended(o, t), sender[t] = p,
             UnderWay(o, "metadata", t) \/ (Holds(o, t) /\ session[o].accepts = 0),
             UnderWay(o, "metadata", t)' \/ Holds(o, t)'
      PROVE  HasRole(p, "sender", t)' \/ Ended(o, t)'
  <2>1. pipeline[t] = NONE /\ ~Ended(p, t)
    BY <1>7 DEF Accepting, Ends, o
  <2>2. CASE HasRole(p, "sender", t)
    BY <1>2, <2>1, <2>2, Withdrawn DEF o
  <2>3. CASE Ended(o, t)
    <3> SUFFICES ASSUME ~Ended(o, t)' PROVE FALSE
      OBVIOUS
    <3>1. ~HasId(o, t)' /\ (~HasId(o, t) => ~UnderWay(o, "metadata", t))
      BY <1>1, <2>3, EndsHeard
    <3>2. UnderWay(o, "metadata", t)'
      BY <1>7, <3>1 DEF HasId, Holds, HasRole, Has
    <3>3. ~SendOffer(p, t)
      BY <1>1, <1>7 DEF SendOffer
    <3>4. UnderWay(o, "metadata", t)
      BY <1>1, <3>2, <3>3, OfferSteps
    <3>5. HasId(o, t) => Holds(o, t)
      <4>1. HasId(o, t) => session[o].role \in Role
        BY <1>1, SessionTyped DEF HasId, Session
      <4> QED BY <1>1, <1>7, <4>1 DEF HasId, Holds, HasRole, Has, Role, OfferInv, Roles
    <3> QED BY <1>5, <3>1, <3>4, <3>5
  <2> QED BY <1>7, <2>2, <2>3
<1>8. ASSUME Holds(o, t)', session'[o].accepts = 0
      PROVE  HasRole(p, "sender", t)' \/ Ended(o, t)'
  <2>1. CASE Holds(o, t) /\ (session[o].accepts > 0 => session'[o].accepts > 0)
    <3>1. session[o].accepts \in Nat
      BY <1>1, <2>1, SessionTyped DEF Holds, HasRole, Has, Session
    <3>2. session[o].accepts = 0
      BY <1>8, <2>1, <3>1
    <3>3. HasRole(p, "sender", t) \/ Ended(o, t)
      BY <1>2, <1>4, <2>1, <3>2 DEF Answers, o
    <3> QED BY <1>4, <1>7, <1>8, <2>1, <3>2, <3>3
  <2>2. CASE MetadataHandled(o, t)
    <3>1. UnderWay(o, "metadata", t)
      BY <2>2 DEF MetadataHandled
    <3>2. HasRole(p, "sender", t) \/ Ended(o, t)
      BY <1>2, <1>5, <3>1 DEF Answers, o
    <3> QED BY <1>5, <1>7, <1>8, <3>1, <3>2
  <2> QED BY <1>1, <1>8, <2>1, <2>2, HolderSteps
<1>9. ASSUME UnderWay(o, "metadata", t)'
      PROVE  HasRole(p, "sender", t)' \/ Ended(o, t)'
  <2>1. CASE UnderWay(o, "metadata", t)
    <3>1. HasRole(p, "sender", t) \/ Ended(o, t)
      BY <1>2, <1>5, <2>1 DEF Answers, o
    <3> QED BY <1>5, <1>7, <1>9, <2>1, <3>1
  <2>2. CASE ~UnderWay(o, "metadata", t)
    <3>1. SendOffer(p, t) /\ up
      BY <1>1, <1>9, <2>2, OfferSteps
    <3>2. session'[p] = NewSession(t, "sender")
      BY <3>1 DEF SendOffer, TypeOK
    <3>3. NewSession(t, "sender") # NONE
      BY NewSessionTyped DEF Role
    <3> QED BY <3>2, <3>3 DEF HasRole, Has, NewSession
  <2> QED BY <2>1, <2>2
<1> QED BY <1>6, <1>8, <1>9 DEF o

\* Once the control channels are drained, an offer nobody has accepted is held
\* by both peers or by none, whatever was rejected, cancelled or timed out and
\* whatever crossed on the wire: only chunks of a transfer that was started and
\* given up, which end the peer's session without a word, come between.
THEOREM OfferHeld == Spec => []OfferHeldByBoth
<1>1. Init => Answers
  BY TransferAssumption DEF Init, Answers
<1>2. TypeOK /\ OfferInv /\ Answers => OfferHeldByBoth
  <2> SUFFICES ASSUME TypeOK, OfferInv, Answers, up, \A p \in Peer : control[p] = <<>>, NEW p \in Peer
               PROVE  /\ AwaitsAccept(p) /\ ~Abandoned(p) => HasRole(Other(p), "receiver", session[p].id)
                      /\ Has(p, "receiver") /\ session[p].accepts = 0 => HasRole(Other(p), "sender", session[p].id)
    BY DEF OfferHeldByBoth, ControlDrained
  <2>1. \A q \in Peer, u \in Transfer : ~UnderWay(q, "metadata", u) /\ ~Ended(q, u)
    <3>1. \A q \in Peer : DOMAIN control[q] = {}
      BY NoMessages
    <3> QED BY <3>1 DEF UnderWay, Ended
  <2>2. Other(p) \in Peer /\ Other(Other(p)) = p
    BY OtherIsPeer
  <2>3. session[p] # NONE => session[p].id \in Transfer
    BY SessionTyped DEF Session
  <2>4. Lost(p) => Abandoned(p)
    BY DEF Lost, Abandoned
  <2>5. AwaitsAccept(p) /\ ~Abandoned(p) => HasRole(Other(p), "receiver", session[p].id)
    <3> SUFFICES ASSUME AwaitsAccept(p), ~Abandoned(p) PROVE Holds(Other(p), session[p].id)
      BY DEF Holds
    <3>1. HasRole(p, "sender", session[p].id) /\ ~session[p].worker_started /\ session[p].id \in Transfer
      BY <2>3 DEF AwaitsAccept, HasRole, Has
    <3>2. sender[session[p].id] = p
      BY <3>1 DEF OfferInv, Roles, HasRole
    <3> QED BY <2>1, <2>2, <2>4, <3>1, <3>2 DEF Answers
  <2>6. Has(p, "receiver") /\ session[p].accepts = 0 => HasRole(Other(p), "sender", session[p].id)
    <3> SUFFICES ASSUME Has(p, "receiver"), session[p].accepts = 0
                 PROVE  HasRole(Other(p), "sender", session[p].id)
      OBVIOUS
    <3>1. Holds(p, session[p].id) /\ session[p].id \in Transfer
      BY <2>3 DEF Holds, HasRole, Has
    <3>2. sender[session[p].id] = Other(p)
      BY DEF OfferInv, Roles
    <3> QED BY <2>1, <2>2, <3>1, <3>2 DEF Answers
  <2> QED BY <2>5, <2>6
<1> QED BY <1>1, <1>2, AnswersKept, TypeCorrect, OffersHold, AcceptingHolds, FileInvHolds, EndsHold, PTL DEF Spec
=============================================================================
