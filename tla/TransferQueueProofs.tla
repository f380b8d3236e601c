------------------------- MODULE TransferQueueProofs ------------------------
(***************************************************************************)
(* Proofs about TransferQueue: the flags of the serial queue keep one file *)
(* at work and leave none behind, for any number of files.                 *)
(***************************************************************************)
EXTENDS TransferQueue, FiniteSetTheorems, SequenceTheorems, TLAPS

\* The flags say what there is: a microtask when scheduled, a file at work, and
\* no other, when processing; and no file waits without one of them.
QueueInv ==
  /\ items \in Seq(File) /\ stage \in [File -> Stage]
  /\ processing \in BOOLEAN /\ scheduled \in BOOLEAN
  /\ microtasks = IF scheduled THEN 1 ELSE 0
  /\ processing <=> AtWork # {}
  /\ \A f, g \in AtWork : f = g
  /\ items # <<>> => processing \/ scheduled
  /\ disposed => items = <<>>

\* The flags hold at the start.
LEMMA InitQueue == Init => QueueInv
<1> SUFFICES ASSUME Init PROVE QueueInv
  OBVIOUS
<1>1. items \in Seq(File) /\ items = <<>>
  BY EmptySeq DEF Init
<1>2. stage \in [File -> Stage] /\ AtWork = {}
  BY DEF Init, AtWork, Stage, AtWorkStage
<1> QED BY <1>1, <1>2 DEF Init, QueueInv

\* A file at work that goes from one await to the next disturbs nothing.
LEMMA AwaitQueue ==
  ASSUME QueueInv, UNCHANGED <<queue, disposed>>, stage' \in [File -> Stage],
         \A f \in File : stage'[f] \in AtWorkStage <=> stage[f] \in AtWorkStage
  PROVE  QueueInv'
<1>1. AtWork' = AtWork
  BY DEF AtWork
<1> QED BY <1>1 DEF QueueInv, queue

\* The queue is cleared.
LEMMA ClearQueue ==
  ASSUME QueueInv, Clear, UNCHANGED <<processing, scheduled, microtasks>>
  PROVE  QueueInv'
<1>1. items' \in Seq(File) /\ items' = <<>>
  BY EmptySeq DEF Clear
<1>2. stage' \in [File -> Stage]
  BY DEF QueueInv, Clear, Stage
<1>3. AtWork' = AtWork
  BY DEF QueueInv, Clear, AtWork, AtWorkStage
<1> QED BY <1>1, <1>2, <1>3 DEF QueueInv

\* A picked file waits with a microtask, or behind the one at work.
LEMMA EnqueueQueue == ASSUME QueueInv, NEW f \in File, Enqueue(f) PROVE QueueInv'
<1>1. items' \in Seq(File)
  BY AppendProperties DEF QueueInv, Enqueue
<1>2. stage' \in [File -> Stage] /\ AtWork' = AtWork
  BY DEF QueueInv, Enqueue, AtWork, AtWorkStage, Stage
<1>3. disposed' = disposed /\ ~disposed /\ processing' = processing
  BY DEF Enqueue
<1>4. CASE processing \/ scheduled
  <2>1. UNCHANGED <<scheduled, microtasks>>
    BY <1>4 DEF Enqueue, ScheduleProcessing
  <2> QED BY <1>1, <1>2, <1>3, <1>4, <2>1 DEF QueueInv
<1>5. CASE ~processing /\ ~scheduled
  <2>1. scheduled' = TRUE /\ microtasks' = microtasks + 1
    BY <1>5 DEF Enqueue, ScheduleProcessing
  <2> QED BY <1>1, <1>2, <1>3, <1>5, <2>1 DEF QueueInv
<1> QED BY <1>4, <1>5

\* The microtask takes the first file when none is at work.
LEMMA ProcessQueue == ASSUME QueueInv, Process PROVE QueueInv'
<1>1. microtasks' = 0 /\ scheduled' = FALSE
  BY DEF QueueInv, Process, Unscheduled
<1> disposed' = disposed
  BY DEF Process
<1>2. CASE ~disposed /\ ~processing /\ items # <<>>
  <2>1. processing' = TRUE /\ Turn(Head(items))
    BY <1>2 DEF Process
  <2>2. Head(items) \in File /\ items' \in Seq(File)
    BY <1>2, <2>1, HeadTailProperties DEF QueueInv, Turn
  <2>3. stage' \in [File -> Stage] /\ AtWork' = {Head(items)}
    BY <1>2, <2>1, <2>2 DEF QueueInv, Turn, AtWork, AtWorkStage, Stage
  <2> QED BY <1>1, <1>2, <2>1, <2>2, <2>3 DEF QueueInv
<1>3. CASE disposed \/ processing \/ items = <<>>
  <2>1. UNCHANGED <<items, processing, stage>>
    BY <1>3 DEF Process
  <2>2. AtWork' = AtWork
    BY <2>1 DEF AtWork
  <2>3. items' = items /\ processing' = processing /\ stage' = stage
    BY <2>1
  <2>4. items' # <<>> => processing'
    BY <1>3, <2>3 DEF QueueInv
  <2>5. processing' <=> AtWork' # {}
    BY <2>2, <2>3 DEF QueueInv
  <2>6. items' \in Seq(File) /\ stage' \in [File -> Stage] /\ processing' \in BOOLEAN
    BY <2>3 DEF QueueInv
  <2>7. (\A f, g \in AtWork' : f = g) /\ (disposed' => items' = <<>>)
    BY <2>2, <2>3 DEF QueueInv
  <2> QED BY <1>1, <2>4, <2>5, <2>6, <2>7 DEF QueueInv
<1> QED BY <1>2, <1>3 DEF Process

\* A file that is done gives way to the next, or to a microtask.
LEMMA ReturnQueue == ASSUME QueueInv, NEW f \in File, Return(f) PROVE QueueInv'
<1>1. AtWork = {f} /\ processing
  BY DEF QueueInv, Return, AtWork, AtWorkStage
<1> disposed' = disposed
  BY DEF Return
<1>2. CASE items # <<>> /\ ~disposed
  <2>1. Head(items) \in File /\ Tail(items) \in Seq(File)
    BY <1>2, HeadTailProperties DEF QueueInv
  <2>2. /\ items' = Tail(items) /\ UNCHANGED <<processing, scheduled, microtasks>>
        /\ stage' = [stage EXCEPT ![f] = "done", ![Head(items)] = "channel"]
    BY <1>2 DEF Return
  <2>3. stage' \in [File -> Stage] /\ AtWork' = {Head(items)}
    BY <1>1, <2>1, <2>2 DEF QueueInv, AtWork, AtWorkStage, Stage
  <2> QED BY <1>1, <2>1, <2>2, <2>3 DEF QueueInv
<1>3. CASE items = <<>> \/ disposed
  <2>1. processing' = FALSE /\ stage' = [stage EXCEPT ![f] = "done"] /\ items' = items
        /\ ScheduleProcessing(FALSE, disposed) /\ items = <<>>
    BY <1>3 DEF Return, QueueInv
  <2>2. stage' \in [File -> Stage] /\ AtWork' = {}
    BY <1>1, <2>1 DEF QueueInv, AtWork, AtWorkStage, Stage
  <2>3. \/ UNCHANGED <<scheduled, microtasks>>
        \/ ~scheduled /\ scheduled' = TRUE /\ microtasks' = microtasks + 1
    BY <2>1 DEF ScheduleProcessing
  <2>4. (scheduled' = TRUE /\ microtasks' = 1) \/ (scheduled' = scheduled /\ microtasks' = microtasks)
    BY <2>3 DEF QueueInv
  <2>5. scheduled' \in BOOLEAN /\ microtasks' = IF scheduled' THEN 1 ELSE 0
    <3>1. CASE scheduled' = TRUE /\ microtasks' = 1
      BY <3>1
    <3>2. CASE scheduled' = scheduled /\ microtasks' = microtasks
      BY <3>2 DEF QueueInv
    <3> QED BY <2>4, <3>1, <3>2
  <2>6. items' = <<>> /\ items' \in Seq(File) /\ processing' = FALSE
    BY <2>1 DEF QueueInv
  <2> QED BY <2>2, <2>5, <2>6 DEF QueueInv
<1> QED BY <1>2, <1>3 DEF Return

\* The steps between a file's awaits.
LEMMA FileQueue == ASSUME QueueInv, NEW f \in File, FileStep(f) PROVE QueueInv'
<1>1. CASE ChannelReady(f)
  BY <1>1, AwaitQueue DEF QueueInv, ChannelReady, Stage, AtWorkStage
<1>2. CASE OfferFails(f)
  BY <1>2, AwaitQueue DEF QueueInv, OfferFails, Stage, AtWorkStage
<1>3. CASE OfferAnswered(f)
  BY <1>3, AwaitQueue DEF QueueInv, OfferAnswered, Stage, AtWorkStage
<1>4. CASE TakeOffer(f)
  BY <1>4, AwaitQueue DEF QueueInv, TakeOffer, Stage, AtWorkStage
<1>5. CASE RefuseOffer(f)
  BY <1>5, AwaitQueue DEF QueueInv, RefuseOffer, Stage, AtWorkStage
<1> QED BY <1>1, <1>2, <1>3, <1>4, <1>5, EnqueueQueue, ReturnQueue DEF FileStep

\* The flags stay true to what there is.
THEOREM FlagsCorrect == Spec => []QueueInv
<1>1. QueueInv /\ [Next]_vars => QueueInv'
  <2> SUFFICES ASSUME QueueInv, [Next]_vars PROVE QueueInv'
    OBVIOUS
  <2>1. CASE Cancel
    BY <2>1, ClearQueue DEF Cancel, Press
  <2>2. CASE Dispose
    BY <2>2, ClearQueue DEF Dispose
  <2>3. CASE SyncEnds
    BY <2>3, AwaitQueue DEF QueueInv, SyncEnds, Stage, AtWorkStage
  <2>4. CASE Poll \/ Drain \/ Accept \/ Reject
    BY <2>4, AwaitQueue DEF QueueInv, Poll, Drain, Accept, Reject, Press, queue
  <2>5. CASE ReceiveOffer \/ ReceiveAccept \/ TransferEnds \/ FinalizeFails
    BY <2>5, AwaitQueue DEF QueueInv, ReceiveOffer, ReceiveAccept, TransferEnds, FinalizeFails
  <2>6. CASE HandleCancel \/ HandleAccept \/ HandleReject
    BY <2>6, AwaitQueue DEF QueueInv, HandleCancel, HandleAccept, HandleReject
  <2>7. CASE UNCHANGED vars
    BY <2>7, AwaitQueue DEF QueueInv, vars
  <2> QED BY <2>1, <2>2, <2>3, <2>4, <2>5, <2>6, <2>7, FileQueue, ProcessQueue DEF Next
<1> QED BY <1>1, InitQueue, PTL DEF Spec

\* At most one file is at work, and no file that waits is left behind.
THEOREM OneWorkerAlways == Spec => []OneWorker
<1>1. QueueInv => OneWorker
  <2> SUFFICES ASSUME QueueInv PROVE OneWorker
    OBVIOUS
  <2>1. CASE AtWork = {}
    <3>1. items # <<>> => microtasks > 0
      BY <2>1 DEF QueueInv
    <3> QED BY <2>1, <3>1, FS_EmptySet DEF OneWorker
  <2>2. CASE AtWork # {}
    <3>1. PICK f \in AtWork : TRUE
      BY <2>2
    <3>2. AtWork = {f}
      BY <3>1 DEF QueueInv
    <3> QED BY <3>2, <2>2, FS_Singleton DEF OneWorker
  <2> QED BY <2>1, <2>2
<1> QED BY <1>1, FlagsCorrect, PTL
-----------------------------------------------------------------------------
(* Types.                                                                  *)

\* Completers are completed of files at work only, and the states that are given
\* are not none: the page shows the last of them.
ReportInv ==
  /\ heard \subseteq AtWork /\ ui \in Status
  /\ sync \in {"idle", "asked", "given"} /\ states \in Seq(Status)
  /\ sync = "given" => states # <<>>

\* The actor's side, and the user's.
ActorInv ==
  /\ session \in File \cup {Incoming, NONE} /\ started \in BOOLEAN
  /\ current \in Status /\ pending \in Seq(Status)
  /\ requests \subseteq {"cancel", "accept", "reject"}
  /\ quiet \in BOOLEAN /\ incoming \in 0 .. MaxIncoming /\ pressed \in 0 .. MaxPressed
  /\ disposed \in BOOLEAN

\* The types hold at the start.
LEMMA InitReports == Init => ReportInv /\ ActorInv
<1> SUFFICES ASSUME Init PROVE ReportInv /\ ActorInv
  OBVIOUS
<1>1. <<>> \in Seq(Status)
  BY EmptySeq
<1>2. ReportInv
  BY <1>1 DEF Init, ReportInv, Status
<1>3. 0 \in 0 .. MaxIncoming /\ 0 \in 0 .. MaxPressed
  BY QueueAssumption DEF QueueAssumption
<1>4. ActorInv
  BY <1>1, <1>3 DEF Init, ActorInv, Status
<1> QED BY <1>2, <1>4

\* push_state keeps a queue of states.
LEMMA PushedTypes ==
  ASSUME NEW before \in Seq(Status), NEW s \in Status
  PROVE  Pushed(before, s) \in Seq(Status)
BY AppendProperties DEF Pushed

\* And the current state is a status, as those that wait are.
LEMMA PushTypes ==
  ASSUME ActorInv, NEW s \in Status, Push(s)
  PROVE  current' \in Status /\ pending' \in Seq(Status)
BY PushedTypes DEF ActorInv, Push

\* A file that stays at work stays heard of, when a step hears of no other.
LEMMA KeepReports ==
  ASSUME ReportInv, UNCHANGED <<heard, ui, poll>>, AtWork \subseteq AtWork'
  PROVE  ReportInv'
BY DEF ReportInv, poll

\* A step of the actor leaves the queue and the reports alone.
LEMMA ActorReports ==
  ASSUME ReportInv, UNCHANGED <<stage, heard, ui, poll>>
  PROVE  ReportInv'
BY KeepReports DEF AtWork

\* A step of the queue leaves the actor alone.
LEMMA KeepActor ==
  ASSUME ActorInv, UNCHANGED <<disposed, actor, requests, history>>
  PROVE  ActorInv'
BY DEF ActorInv, actor, history

\* A file at work goes from one await to another.
LEMMA AwaitWork ==
  ASSUME QueueInv, NEW f \in File, NEW s \in AtWorkStage, stage[f] \in AtWorkStage,
         stage' = [stage EXCEPT ![f] = s]
  PROVE  AtWork' = AtWork
BY DEF QueueInv, AtWork

\* Dropping the queue drops no file at work.
LEMMA ClearWork == ASSUME QueueInv, Clear PROVE AtWork' = AtWork
BY DEF QueueInv, Clear, AtWork, AtWorkStage

\* A step of a file keeps the reports and the actor's state in their types.
LEMMA FileReports ==
  ASSUME QueueInv, ReportInv, ActorInv, NEW f \in File, FileStep(f)
  PROVE  ReportInv' /\ ActorInv'
<1>1. CASE Enqueue(f)
  <2>1. AtWork' = AtWork
    BY <1>1 DEF QueueInv, Enqueue, AtWork, AtWorkStage
  <2> QED BY <1>1, <2>1, KeepReports, KeepActor DEF Enqueue
<1>2. CASE Return(f)
  <2>1. AtWork \ {f} \subseteq AtWork'
    <3>1. CASE items # <<>> /\ ~disposed
      <4>1. Head(items) \in File /\ stage' = [stage EXCEPT ![f] = "done", ![Head(items)] = "channel"]
        BY <1>2, <3>1, HeadTailProperties DEF QueueInv, Return
      <4> QED BY <4>1 DEF QueueInv, AtWork, AtWorkStage
    <3>2. CASE items = <<>> \/ disposed
      <4>1. stage' = [stage EXCEPT ![f] = "done"]
        BY <1>2, <3>2 DEF Return
      <4> QED BY <4>1 DEF QueueInv, AtWork
    <3> QED BY <3>1, <3>2
  <2>2. heard' = heard \ {f} /\ UNCHANGED <<disposed, ui, poll, actor, requests, incoming, pressed>>
        /\ quiet' = FALSE
    BY <1>2 DEF Return
  <2>3. ReportInv'
    BY <2>1, <2>2 DEF ReportInv, poll
  <2> QED BY <2>2, <2>3 DEF ActorInv, actor
<1>3. CASE ChannelReady(f)
  <2>1. AtWork' = AtWork
    BY <1>3, AwaitWork DEF ChannelReady, AtWorkStage
  <2> QED BY <1>3, <2>1, KeepReports, KeepActor DEF ChannelReady
<1>4. CASE OfferFails(f)
  <2>1. AtWork' = AtWork
    BY <1>4, AwaitWork DEF OfferFails, AtWorkStage
  <2>2. heard' \in {heard, heard \cup AtWork} /\ ui' \in {ui, "final"} /\ UNCHANGED poll
    BY <1>4 DEF OfferFails, Told, UpdateState
  <2>3. ReportInv'
    BY <2>1, <2>2 DEF ReportInv, Status, poll
  <2> QED BY <1>4, <2>3, KeepActor DEF OfferFails
<1>5. CASE OfferAnswered(f)
  <2>1. AtWork' = AtWork
    BY <1>5, AwaitWork DEF OfferAnswered, AtWorkStage
  <2>2. UNCHANGED <<heard, ui, states>> /\ sync' \in {sync, "asked"}
    BY <1>5 DEF OfferAnswered
  <2>3. ReportInv'
    BY <2>1, <2>2 DEF ReportInv
  <2> QED BY <1>5, <2>3, KeepActor DEF OfferAnswered
<1>6. CASE TakeOffer(f)
  <2>1. AtWork' = AtWork
    BY <1>6, AwaitWork DEF TakeOffer, AtWorkStage
  <2>2. current' \in Status /\ pending' \in Seq(Status)
    BY <1>6, PushTypes DEF TakeOffer, Status
  <2>3. ActorInv'
    BY <1>6, <2>2 DEF ActorInv, TakeOffer, history
  <2> QED BY <1>6, <2>1, <2>3, KeepReports DEF TakeOffer
<1>7. CASE RefuseOffer(f)
  <2>1. AtWork' = AtWork
    BY <1>7, AwaitWork DEF RefuseOffer, AtWorkStage
  <2>2. current' \in Status /\ pending' \in Seq(Status)
    BY <1>7, PushTypes DEF RefuseOffer, Status, ActorInv, actor
  <2>3. ActorInv'
    BY <1>7, <2>2 DEF ActorInv, RefuseOffer, actor, history
  <2> QED BY <1>7, <2>1, <2>3, KeepReports DEF RefuseOffer
<1> QED BY <1>1, <1>2, <1>3, <1>4, <1>5, <1>6, <1>7 DEF FileStep

\* The polled states are heard by the file at work, whatever it awaits.
LEMMA SyncReports ==
  ASSUME QueueInv, ReportInv, ActorInv, Poll \/ Drain \/ SyncEnds
  PROVE  ReportInv' /\ ActorInv'
<1>1. CASE Poll
  <2>1. AtWork' = AtWork
    BY <1>1 DEF Poll, AtWork
  <2> QED BY <1>1, <2>1, KeepActor DEF Poll, ReportInv
<1>2. CASE Drain
  <2>1. AtWork' = AtWork
    BY <1>2 DEF Drain, AtWork
  <2>2. states' \in Seq(Status) /\ states' # <<>>
    <3>1. CASE pending = <<>>
      <4>1. states' = <<current>> /\ current \in Status
        BY <1>2, <3>1 DEF Drain, ActorInv
      <4> QED BY <4>1
    <3>2. CASE pending # <<>>
      BY <1>2, <3>2 DEF Drain, ActorInv
    <3> QED BY <3>1, <3>2
  <2>3. pending' \in Seq(Status)
    BY <1>2, EmptySeq DEF Drain
  <2>4. ReportInv'
    BY <1>2, <2>1, <2>2 DEF Drain, ReportInv
  <2>5. ActorInv'
    BY <1>2, <2>3 DEF Drain, ActorInv, history
  <2> QED BY <2>4, <2>5
<1>3. CASE SyncEnds
  <2>1. AtWork' = AtWork
    BY <1>3 DEF QueueInv, SyncEnds, AtWork, AtWorkStage
  <2>2. sync' = "idle" /\ states' = <<>> /\ states' \in Seq(Status)
    BY <1>3, EmptySeq DEF SyncEnds
  <2>3. Last(states) \in Status
    <3>1. states \in Seq(Status) /\ states # <<>>
      BY <1>3 DEF SyncEnds, ReportInv
    <3>2. Len(states) \in 1 .. Len(states)
      BY <3>1, EmptySeq, LenProperties
    <3> QED BY <3>1, <3>2, ElementOfSeq DEF Last
  <2>4. ui' \in Status /\ heard' \subseteq AtWork
    BY <1>3, <2>3 DEF SyncEnds, ReportInv
  <2>5. ReportInv'
    BY <2>1, <2>2, <2>4 DEF ReportInv
  <2> QED BY <1>3, <2>5, KeepActor DEF SyncEnds
<1> QED BY <1>1, <1>2, <1>3

\* The user's requests keep the types.
LEMMA PressReports ==
  ASSUME QueueInv, ReportInv, ActorInv, Cancel \/ Accept \/ Reject \/ Dispose
  PROVE  ReportInv' /\ ActorInv'
<1>1. AtWork' = AtWork
  BY ClearWork DEF Cancel, Accept, Reject, Dispose, AtWork
<1>2. UNCHANGED <<heard, ui, poll>>
  BY DEF Cancel, Accept, Reject, Dispose, Press
<1>3. ReportInv'
  BY <1>1, <1>2, KeepReports
<1>4. ASSUME NEW what \in {"cancel", "accept", "reject"}, NEW when, Press(what, when)
      PROVE  ActorInv'
  BY <1>4, QueueAssumption DEF Press, ActorInv, actor, QueueAssumption
<1>5. CASE Dispose
  BY <1>3, <1>5 DEF Dispose, ActorInv, history
<1>6. CASE Cancel \/ Accept \/ Reject
  <2>1. \/ Press("cancel", "busy")
        \/ Press("accept", "offered")
        \/ Press("reject", "offered")
    BY <1>6 DEF Cancel, Accept, Reject
  <2> QED BY <2>1, <1>3, <1>4
<1> QED BY <1>3, <1>5, <1>6

\* The actor's answers and the peer's messages keep the types.
LEMMA ActorTypes ==
  ASSUME ReportInv, ActorInv,
         \/ ReceiveOffer \/ ReceiveAccept \/ TransferEnds \/ FinalizeFails
         \/ HandleCancel \/ HandleAccept \/ HandleReject
  PROVE  ReportInv' /\ ActorInv'
<1>1. ReportInv'
  BY ActorReports
  DEF ReceiveOffer, ReceiveAccept, TransferEnds, FinalizeFails, HandleCancel, HandleAccept, HandleReject
<1>2. \A s \in {"idle", "offered", "busy", "final"} :
        Push(s) => current' \in Status /\ pending' \in Seq(Status)
  BY PushTypes DEF Status
<1>3. CASE ReceiveOffer
  <2>1. incoming' \in 0 .. MaxIncoming
    BY <1>3, QueueAssumption DEF ReceiveOffer, ActorInv, QueueAssumption
  <2>2. current' \in Status /\ pending' \in Seq(Status)
    BY <1>2, <1>3 DEF ReceiveOffer
  <2>3. ActorInv'
    BY <1>3, <2>1, <2>2 DEF ReceiveOffer, ActorInv
  <2> QED BY <1>1, <2>3
<1>4. CASE ReceiveAccept
  BY <1>1, <1>2, <1>4 DEF ReceiveAccept, ActorInv, history
<1>5. CASE TransferEnds
  BY <1>1, <1>2, <1>5 DEF TransferEnds, ActorInv, history
<1>6. CASE HandleCancel
  BY <1>1, <1>2, <1>6 DEF HandleCancel, ActorInv, actor, history
<1>7. CASE HandleAccept
  <2>1. CASE AcceptUnsent
    <3>1. pending' \in Seq(Status)
      BY <2>1, PushedTypes DEF AcceptUnsent, ActorInv, Status
    <3> QED BY <1>1, <1>7, <2>1, <3>1 DEF HandleAccept, AcceptUnsent, ActorInv, Status, history
  <2>2. CASE ~AcceptUnsent
    BY <1>1, <1>2, <1>7, <2>2 DEF HandleAccept, ActorInv, actor, history
  <2> QED BY <2>1, <2>2
<1>8. CASE HandleReject
  BY <1>1, <1>2, <1>8 DEF HandleReject, ActorInv
<1>9. CASE FinalizeFails
  BY <1>1, <1>9 DEF FinalizeFails, ActorInv, AwaitsEnd
<1> QED BY <1>1, <1>3, <1>4, <1>5, <1>6, <1>7, <1>8, <1>9

\* The variables keep their types, and only files at work are heard of.
THEOREM QueueTypes == Spec => []TypeOK
<1>1. QueueInv /\ ReportInv /\ ActorInv => TypeOK
  <2> SUFFICES ASSUME QueueInv, ReportInv, ActorInv PROVE TypeOK
    OBVIOUS
  <2>1. microtasks \in 0 .. 1
    BY DEF QueueInv
  <2> QED BY <2>1 DEF QueueInv, ReportInv, ActorInv, TypeOK
<1>2. QueueInv /\ ReportInv /\ ActorInv /\ [Next]_vars => (ReportInv /\ ActorInv)'
  <2> SUFFICES ASSUME QueueInv, ReportInv, ActorInv, [Next]_vars PROVE (ReportInv /\ ActorInv)'
    OBVIOUS
  <2>1. CASE \E f \in File : FileStep(f)
    BY <2>1, FileReports
  <2>2. CASE Process
    <3>1. AtWork \subseteq AtWork'
      <4>1. CASE ~disposed /\ ~processing /\ items # <<>>
        BY <4>1 DEF QueueInv
      <4>2. CASE disposed \/ processing \/ items = <<>>
        BY <2>2, <4>2 DEF Process, AtWork
      <4> QED BY <4>1, <4>2
    <3> QED BY <2>2, <3>1, KeepReports, KeepActor DEF Process
  <2>3. CASE Poll \/ Drain \/ SyncEnds
    BY <2>3, SyncReports
  <2>4. CASE Cancel \/ Accept \/ Reject \/ Dispose
    BY <2>4, PressReports
  <2>5. CASE \/ ReceiveOffer \/ ReceiveAccept \/ TransferEnds \/ FinalizeFails
             \/ HandleCancel \/ HandleAccept \/ HandleReject
    BY <2>5, ActorTypes
  <2>6. CASE UNCHANGED vars
    BY <2>6, ActorReports, KeepActor DEF vars
  <2> QED BY <2>1, <2>2, <2>3, <2>4, <2>5, <2>6 DEF Next
<1> QED BY <1>1, <1>2, InitReports, FlagsCorrect, PTL DEF Spec
=============================================================================
