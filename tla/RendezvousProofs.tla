-------------------------- MODULE RendezvousProofs --------------------------
(***************************************************************************)
(* How two devices find each other, for any set of requests, mailboxes,    *)
(* tokens, signals, links and any lifetimes.  Of the signalling server     *)
(* (Rendezvous): session isolation, tokens that are gone once redeemed,    *)
(* mailboxes held until the expiry that was answered, joins that link both *)
(* sides, and lists that only grow.  Of the push (MailboxPush): every      *)
(* signal is delivered once, a sync recovers what was missed, an open      *)
(* socket misses nothing.  Of the two pages (Handshake): what counts as    *)
(* incoming is announced, and mailboxes close only when both sides are up. *)
(***************************************************************************)
EXTENDS Rendezvous, MailboxPush, Handshake, FiniteSetTheorems, SequenceTheorems, TLAPS

\* What the locals of request r hold when it is about to issue a command.
RequestOK(r) ==
  /\ pc[r] \in {"init_save_meta", "init_clear", "init_save_rendezvous"} =>
       /\ token[r] \in Token
       /\ mailbox[r] \in Mailbox
       /\ session[mailbox[r]] = mailbox[r]
  /\ pc[r] \in {"join_get", "join_delete"} => token[r] \in Token
  /\ pc[r] \in {"join_delete", "join_get_meta"} =>
       partner[r] \in Mailbox /\ session[partner[r]] = partner[r]
  /\ pc[r] \in {"join_link", "join_save_meta", "join_clear", "push", "expire"} =>
       /\ mailbox[r] \in Mailbox
       /\ partner[r] \in Mailbox
       /\ Opposite(mailbox[r], partner[r])
  /\ pc[r] \in {"send_get_meta", "recv_get_meta", "recv_get_list", "close_get_meta",
                "close_delete_own", "close_delete_peer"} => mailbox[r] \in Mailbox
  /\ pc[r] = "close_delete_peer" => partner[r] \in Mailbox
  /\ pc[r] # "done" => received[r] = <<>>

\* The links of the store stay within one session.
LinksOK ==
  /\ \A m \in Mailbox : session[m] # NONE => session[session[m]] = session[m]
  /\ \A t \in Token : rendezvous[t] # NONE =>
       session[rendezvous[t].mailbox] = rendezvous[t].mailbox
  /\ \A m \in Mailbox : meta[m] # NONE /\ meta[m].peer # NONE => Opposite(meta[m].peer, m)

StoredOK == \A m \in Mailbox : \A k \in DOMAIN list[m].msgs : Opposite(list[m].msgs[k].from, m)

ReceivedOK ==
  \A r \in Request : \A k \in DOMAIN received[r] :
    mailbox[r] \in Mailbox /\ Opposite(received[r][k].from, mailbox[r])

IInv ==
  /\ TypeOK
  /\ \A r \in Request : RequestOK(r)
  /\ LinksOK
  /\ StoredOK
  /\ ReceivedOK
-----------------------------------------------------------------------------
\* RPUSH and EXPIRE keep the type of the lists.
LEMMA AppendTyped ==
  ASSUME NEW l \in [Mailbox -> MessageList], NEW m \in Mailbox, NEW msg \in Message
  PROVE  [l EXCEPT ![m].msgs = Append(@, msg)] \in [Mailbox -> MessageList]
<1>1. l[m].msgs \in Seq(Message)  BY DEF MessageList
<1>2. Append(l[m].msgs, msg) \in Seq(Message)  BY <1>1
<1>3. QED  BY <1>2 DEF MessageList

\* EXPIRE renews the lifetime of a list, and only of one that is there.
LEMMA ExpireTyped ==
  ASSUME NEW l \in [Mailbox -> MessageList], NEW m \in Mailbox, now \in Nat
  PROVE  [l EXCEPT ![m].until = IF l[m].msgs = <<>> THEN @ ELSE now + MailboxTtl]
           \in [Mailbox -> MessageList]
<1>1. now + MailboxTtl \in Nat  BY ConstantAssumption
<1>2. l[m].until \in Nat \cup {NoTtl}  BY DEF MessageList
<1>3. QED  BY <1>1, <1>2 DEF MessageList

\* The empty store satisfies the invariant.
LEMMA InitIInv == Init => IInv
  BY ConstantAssumption
  DEF Init, IInv, TypeOK, RequestOK, LinksOK, StoredOK, ReceivedOK, EmptyList, MessageList, NoTtl,
      Command, Outcome

\* Every step of every request keeps the types.
LEMMA RequestKeepsTypes ==
  ASSUME IInv, NEW r \in Request, RequestStep(r)
  PROVE  TypeOK'
<1> USE ConstantAssumption DEF TypeOK, Continue, Answer, Goto, Command, Outcome
<1>1. TypeOK /\ RequestOK(r)  BY DEF IInv
<1>2. CASE InitStep(r)
  <2>1. ASSUME NEW t \in Token, NEW m \in Mailbox, StartInit(r, t, m) PROVE TypeOK'
    BY <1>1, <2>1 DEF StartInit, Arrive, store
  <2>2. CASE InitSaveMeta(r)
    BY <1>1, <2>2 DEF RequestOK, InitSaveMeta, SaveMailboxMeta, Metadata, locals
  <2>3. CASE InitClear(r)
    BY <1>1, <2>3 DEF RequestOK, InitClear, ClearMailboxMessages, EmptyList, MessageList, NoTtl, locals
  <2>4. CASE InitSaveRendezvous(r)
    BY <1>1, <2>4 DEF RequestOK, InitSaveRendezvous, Mapping, locals
  <2>5. QED  BY <1>2, <2>1, <2>2, <2>3, <2>4 DEF InitStep
<1>3. CASE JoinStep(r)
  <2>1. ASSUME NEW t \in Token, StartJoin(r, t) PROVE TypeOK'
    BY <1>1, <2>1 DEF StartJoin, Arrive, store
  <2>2. CASE JoinGet(r)
    BY <1>1, <2>2 DEF RequestOK, JoinGet, Mapping, store
  <2>3. CASE JoinDelete(r)
    BY <1>1, <2>3 DEF RequestOK, JoinDelete, locals
  <2>4. ASSUME NEW m \in Mailbox, JoinGetMeta(r, m) PROVE TypeOK'
    <3>1. partner[r] \in Mailbox
      BY <1>1, <2>4 DEF RequestOK, JoinGetMeta
    <3>2. CASE UNCHANGED <<mailbox, expires, session>>
      BY <1>1, <2>4, <3>2 DEF JoinGetMeta, store
    <3>3. CASE meta[partner[r]] # NONE /\ ~UNCHANGED <<mailbox, expires, session>>
      <4>1. meta[partner[r]] \in Metadata
        BY <1>1, <3>1, <3>3
      <4>2. meta[partner[r]].expires \in Nat
        BY <4>1 DEF Metadata
      <4>3. /\ mailbox' = [mailbox EXCEPT ![r] = m]
            /\ expires' = [expires EXCEPT ![r] = meta[partner[r]].expires]
            /\ session' = [session EXCEPT ![m] = partner[r]]
            /\ UNCHANGED <<now, store, token, partner, received, reply>>
            /\ pc' = [pc EXCEPT ![r] = "join_link"]
        BY <2>4, <3>3 DEF JoinGetMeta
      <4>4. QED  BY <1>1, <3>1, <4>2, <4>3 DEF store
    <3>4. QED  BY <2>4, <3>2, <3>3 DEF JoinGetMeta
  <2>5. CASE JoinLink(r)
    BY <1>1, <2>5 DEF RequestOK, JoinLink, SaveMailboxMeta, Metadata, locals
  <2>6. CASE JoinSaveMeta(r)
    BY <1>1, <2>6 DEF RequestOK, JoinSaveMeta, SaveMailboxMeta, Metadata, locals
  <2>7. CASE JoinClear(r)
    BY <1>1, <2>7 DEF RequestOK, JoinClear, ClearMailboxMessages, EmptyList, MessageList, NoTtl, locals
  <2>8. QED  BY <1>3, <2>1, <2>2, <2>3, <2>4, <2>5, <2>6, <2>7 DEF JoinStep
<1>4. CASE SendStep(r)
  <2>1. ASSUME NEW m \in Mailbox, StartSend(r, m) PROVE TypeOK'
    BY <1>1, <2>1 DEF StartSend, Arrive, store
  <2>2. CASE SendGetMeta(r)
    BY <1>1, <2>2 DEF RequestOK, SendGetMeta, Metadata, store
  <2>3. CASE Push(r)
    <3>1. /\ partner[r] \in Mailbox
          /\ [from |-> mailbox[r], request |-> r] \in Message
      BY <1>1, <2>3 DEF RequestOK, Push, Message
    <3>2. list' \in [Mailbox -> MessageList]
      BY <1>1, <2>3, <3>1, AppendTyped DEF Push, Rpush
    <3>3. QED  BY <1>1, <2>3, <3>2 DEF Push, locals
  <2>4. CASE PushExpire(r)
    <3>1. partner[r] \in Mailbox
      BY <1>1, <2>4 DEF RequestOK, PushExpire
    <3>2. list' \in [Mailbox -> MessageList]
      BY <1>1, <2>4, <3>1, ExpireTyped DEF PushExpire, Expire
    <3>3. QED  BY <1>1, <2>4, <3>2 DEF PushExpire, locals
  <2>5. QED  BY <1>4, <2>1, <2>2, <2>3, <2>4 DEF SendStep
<1>5. CASE RecvStep(r)
  <2>1. ASSUME NEW m \in Mailbox, StartRecv(r, m) PROVE TypeOK'
    BY <1>1, <2>1 DEF StartRecv, Arrive, store
  <2>2. CASE RecvGetMeta(r)
    BY <1>1, <2>2 DEF RecvGetMeta, store, locals
  <2>3. CASE RecvGetList(r)
    BY <1>1, <2>3 DEF RequestOK, RecvGetList, MessageList, store, locals
  <2>4. QED  BY <1>5, <2>1, <2>2, <2>3 DEF RecvStep
<1>6. CASE CloseStep(r)
  <2>1. ASSUME NEW m \in Mailbox, StartClose(r, m) PROVE TypeOK'
    BY <1>1, <2>1 DEF StartClose, Arrive, store
  <2>2. CASE CloseGetMeta(r)
    BY <1>1, <2>2 DEF RequestOK, CloseGetMeta, Metadata, store
  <2>3. CASE CloseDeleteOwn(r)
    BY <1>1, <2>3 DEF RequestOK, CloseDeleteOwn, DeleteMailbox, EmptyList, MessageList, NoTtl, locals
  <2>4. CASE CloseDeletePeer(r)
    BY <1>1, <2>4 DEF RequestOK, CloseDeletePeer, DeleteMailbox, EmptyList, MessageList, NoTtl, locals
  <2>5. QED  BY <1>6, <2>1, <2>2, <2>3, <2>4 DEF CloseStep
<1>7. CASE Abort(r)
  BY <1>1, <1>7 DEF Abort, store, locals
<1>8. QED  BY <1>2, <1>3, <1>4, <1>5, <1>6, <1>7 DEF RequestStep
-----------------------------------------------------------------------------
\* A step of r leaves the locals of the other requests alone, and the session
\* a mailbox was generated for never changes.
LEMMA Frame ==
  ASSUME IInv, NEW r \in Request, RequestStep(r)
  PROVE  /\ \A q \in Request \ {r} :
              /\ pc'[q] = pc[q]
              /\ token'[q] = token[q]
              /\ mailbox'[q] = mailbox[q]
              /\ partner'[q] = partner[q]
              /\ received'[q] = received[q]
         /\ \A m \in Mailbox : session[m] # NONE => session'[m] = session[m]
<1> USE DEF TypeOK, Continue, Answer, Goto
<1>1. TypeOK  BY DEF IInv
<1>2. CASE InitStep(r)
  BY <1>1, <1>2 DEF InitStep, StartInit, InitSaveMeta, InitClear, InitSaveRendezvous,
                    Arrive, Fresh, locals
<1>3. CASE JoinStep(r)
  <2>1. ASSUME NEW m \in Mailbox, JoinGetMeta(r, m)
        PROVE  /\ pc' = [pc EXCEPT ![r] = pc'[r]]
               /\ mailbox' = [mailbox EXCEPT ![r] = mailbox'[r]]
               /\ UNCHANGED <<token, partner, received>>
               /\ \A n \in Mailbox : session[n] # NONE => session'[n] = session[n]
    BY <1>1, <2>1 DEF JoinGetMeta, Fresh
  <2>2. ASSUME NEW m \in Mailbox, JoinGetMeta(r, m)
        PROVE  \A q \in Request \ {r} : /\ pc'[q] = pc[q]
                                         /\ mailbox'[q] = mailbox[q]
    BY <1>1, <2>1, <2>2
  <2>3. CASE JoinGet(r)
    BY <1>1, <2>3 DEF JoinGet
  <2>4. CASE (\E t \in Token : StartJoin(r, t)) \/ JoinDelete(r) \/ JoinLink(r)
               \/ JoinSaveMeta(r) \/ JoinClear(r)
    BY <1>1, <2>4 DEF StartJoin, JoinDelete, JoinLink, JoinSaveMeta, JoinClear, Arrive, locals
  <2>5. QED  BY <1>3, <2>1, <2>2, <2>3, <2>4 DEF JoinStep
<1>4. CASE SendStep(r)
  BY <1>1, <1>4 DEF SendStep, StartSend, SendGetMeta, Push, PushExpire, Arrive, locals
<1>5. CASE RecvStep(r)
  BY <1>1, <1>5 DEF RecvStep, StartRecv, RecvGetMeta, RecvGetList, Arrive, locals
<1>6. CASE CloseStep(r)
  BY <1>1, <1>6 DEF CloseStep, StartClose, CloseGetMeta, CloseDeleteOwn, CloseDeletePeer,
                    Arrive, locals
<1>7. CASE Abort(r)
  BY <1>1, <1>7 DEF Abort, locals
<1>8. QED  BY <1>2, <1>3, <1>4, <1>5, <1>6, <1>7 DEF RequestStep

\* Two mailboxes on opposite sides of a session stay so.
LEMMA OppositeStable ==
  ASSUME \A m \in Mailbox : session[m] # NONE => session'[m] = session[m],
         NEW a \in Mailbox, NEW b \in Mailbox, Opposite(a, b)
  PROVE  Opposite(a, b)'
  BY DEF Opposite

\* Opposite is symmetric.
LEMMA OppositeSymmetric ==
  ASSUME NEW a, NEW b, Opposite(a, b)
  PROVE  Opposite(b, a)
  BY DEF Opposite

\* The locals of every request keep what its next command relies on.
LEMMA LocalsStep ==
  ASSUME IInv, NEW r \in Request, RequestStep(r)
  PROVE  \A q \in Request : RequestOK(q)'
<1> USE ConstantAssumption DEF TypeOK
<1>1. TypeOK /\ TypeOK' /\ RequestOK(r) /\ LinksOK
  BY RequestKeepsTypes DEF IInv
<1>2. \A m \in Mailbox : session[m] # NONE => session'[m] = session[m]
  BY Frame
<1>3. ASSUME NEW q \in Request, q # r PROVE RequestOK(q)'
  <2>1. RequestOK(q)  BY DEF IInv
  <2>2. /\ pc'[q] = pc[q]
        /\ token'[q] = token[q]
        /\ mailbox'[q] = mailbox[q]
        /\ partner'[q] = partner[q]
        /\ received'[q] = received[q]
    BY <1>3, Frame
  <2>3. mailbox[q] \in Mailbox /\ partner[q] \in Mailbox /\ Opposite(mailbox[q], partner[q])
          => Opposite(mailbox[q], partner[q])'
    BY <1>2, <2>2 DEF Opposite
  <2>4. QED  BY <1>2, <2>1, <2>2, <2>3 DEF RequestOK
<1>4. RequestOK(r)'
  <2> USE DEF Continue, Answer, Goto, RequestOK
  <2>1. CASE InitStep(r)
    BY <1>1, <2>1 DEF InitStep, StartInit, InitSaveMeta, InitClear, InitSaveRendezvous,
                      Arrive, locals
  <2>2. CASE JoinStep(r)
    <3>1. ASSUME NEW t \in Token, StartJoin(r, t) PROVE RequestOK(r)'
      BY <1>1, <3>1 DEF StartJoin, Arrive
    <3>2. CASE JoinGet(r)
      <4>1. CASE rendezvous[token[r]] = NONE
        BY <1>1, <3>2, <4>1 DEF JoinGet
      <4>2. CASE rendezvous[token[r]] # NONE
        <5>1. token[r] \in Token  BY <1>1, <3>2 DEF JoinGet
        <5>2. rendezvous[token[r]] \in Mapping  BY <1>1, <4>2, <5>1
        <5>3. /\ rendezvous[token[r]].mailbox \in Mailbox
              /\ session[rendezvous[token[r]].mailbox] = rendezvous[token[r]].mailbox
          BY <1>1, <4>2, <5>1, <5>2 DEF LinksOK, Mapping
        <5>4. QED  BY <1>1, <3>2, <4>2, <5>1, <5>3 DEF JoinGet
      <4>3. QED  BY <4>1, <4>2
    <3>3. CASE JoinDelete(r)
      BY <1>1, <3>3 DEF JoinDelete, locals
    <3>4. ASSUME NEW m \in Mailbox, JoinGetMeta(r, m) PROVE RequestOK(r)'
      <4>1. CASE pc'[r] = "done"
        BY <1>1, <3>4, <4>1 DEF JoinGetMeta
      <4>2. CASE pc'[r] # "done"
        <5>1. /\ pc'[r] = "join_link"
              /\ Fresh(m)
              /\ mailbox'[r] = m
              /\ session' = [session EXCEPT ![m] = partner[r]]
              /\ UNCHANGED <<partner, token, received>>
          BY <1>1, <3>4, <4>2 DEF JoinGetMeta
        <5>2. partner[r] \in Mailbox /\ session[partner[r]] = partner[r]
          BY <1>1, <3>4 DEF JoinGetMeta
        <5>3. Opposite(m, partner[r])'
          BY <1>1, <5>1, <5>2 DEF Opposite, Fresh
        <5>4. Opposite(mailbox[r], partner[r])'
          BY <5>1, <5>3
        <5>5. received[r] = <<>>
          BY <1>1, <3>4 DEF JoinGetMeta
        <5>6. QED  BY <5>1, <5>2, <5>4, <5>5
      <4>3. QED  BY <4>1, <4>2
    <3>5. CASE JoinLink(r) \/ JoinSaveMeta(r) \/ JoinClear(r)
      BY <1>1, <3>5 DEF JoinLink, JoinSaveMeta, JoinClear, locals, Opposite
    <3>6. QED  BY <2>2, <3>1, <3>2, <3>3, <3>4, <3>5 DEF JoinStep
  <2>3. CASE SendStep(r)
    <3>1. CASE SendGetMeta(r)
      <4>1. CASE pc'[r] = "done"
        BY <1>1, <3>1, <4>1 DEF SendGetMeta
      <4>2. CASE pc'[r] # "done"
        <5>1. /\ pc'[r] = "push"
              /\ mailbox[r] \in Mailbox
              /\ meta[mailbox[r]] # NONE
              /\ meta[mailbox[r]].peer # NONE
              /\ partner'[r] = meta[mailbox[r]].peer
              /\ UNCHANGED <<mailbox, token, received, session>>
          BY <1>1, <3>1, <4>2 DEF SendGetMeta
        <5>2. meta[mailbox[r]] \in Metadata  BY <1>1, <5>1
        <5>3. meta[mailbox[r]].peer \in Mailbox  BY <5>1, <5>2 DEF Metadata
        <5>4. Opposite(mailbox[r], meta[mailbox[r]].peer)
          BY <1>1, <5>1, OppositeSymmetric DEF LinksOK
        <5>5. Opposite(mailbox[r], partner[r])'
          BY <5>1, <5>4 DEF Opposite
        <5>6. received[r] = <<>>
          BY <1>1, <3>1 DEF SendGetMeta
        <5>7. QED  BY <5>1, <5>3, <5>5, <5>6
      <4>3. QED  BY <4>1, <4>2
    <3>2. CASE (\E m \in Mailbox : StartSend(r, m)) \/ Push(r) \/ PushExpire(r)
      BY <1>1, <3>2 DEF StartSend, Push, PushExpire, Arrive, locals, Opposite
    <3>3. QED  BY <2>3, <3>1, <3>2 DEF SendStep
  <2>4. CASE RecvStep(r)
    BY <1>1, <2>4 DEF RecvStep, StartRecv, RecvGetMeta, RecvGetList, Arrive, locals
  <2>5. CASE CloseStep(r)
    <3>1. CASE CloseDeleteOwn(r)
      BY <1>1, <3>1 DEF CloseDeleteOwn, locals
    <3>2. CASE CloseStep(r) /\ ~CloseDeleteOwn(r)
      BY <1>1, <3>2 DEF CloseStep, StartClose, CloseGetMeta, CloseDeletePeer, Arrive, locals
    <3>3. QED  BY <2>5, <3>1, <3>2
  <2>6. CASE Abort(r)
    BY <1>1, <2>6 DEF Abort, locals
  <2>7. QED  BY <2>1, <2>2, <2>3, <2>4, <2>5, <2>6 DEF RequestStep
<1>5. QED  BY <1>3, <1>4
-----------------------------------------------------------------------------
(* What one step of a request may do to each part of the state.            *)

\* A mailbox is generated as the root of a session, or for an existing root.
LEMMA SessionEffect ==
  ASSUME IInv, NEW r \in Request, RequestStep(r)
  PROVE  \/ session' = session
         \/ \E m \in Mailbox, root \in Mailbox :
              /\ session[m] = NONE
              /\ root = m \/ session[root] = root
              /\ session' = [session EXCEPT ![m] = root]
<1> USE DEF TypeOK
<1>1. TypeOK /\ RequestOK(r)  BY DEF IInv
<1>2. CASE InitStep(r)
  BY <1>1, <1>2 DEF InitStep, StartInit, InitSaveMeta, InitClear, InitSaveRendezvous, Fresh
<1>3. CASE JoinStep(r)
  <2>1. ASSUME NEW m \in Mailbox, JoinGetMeta(r, m)
        PROVE  \/ session' = session
               \/ /\ session[m] = NONE
                  /\ partner[r] \in Mailbox
                  /\ session[partner[r]] = partner[r]
                  /\ session' = [session EXCEPT ![m] = partner[r]]
    BY <1>1, <2>1 DEF JoinGetMeta, Fresh, RequestOK
  <2>2. QED
    BY <1>3, <2>1 DEF JoinStep, StartJoin, JoinGet, JoinDelete, JoinLink, JoinSaveMeta, JoinClear
<1>4. CASE SendStep(r)
  BY <1>4 DEF SendStep, StartSend, SendGetMeta, Push, PushExpire
<1>5. CASE RecvStep(r)
  BY <1>5 DEF RecvStep, StartRecv, RecvGetMeta, RecvGetList
<1>6. CASE CloseStep(r)
  BY <1>6 DEF CloseStep, StartClose, CloseGetMeta, CloseDeleteOwn, CloseDeletePeer
<1>7. CASE Abort(r)
  BY <1>7 DEF Abort
<1>8. QED  BY <1>2, <1>3, <1>4, <1>5, <1>6, <1>7 DEF RequestStep

\* A mapping is written for the root of a session.
LEMMA RendezvousEffect ==
  ASSUME IInv, NEW r \in Request, RequestStep(r)
  PROVE  \A t \in Token :
           \/ rendezvous'[t] = rendezvous[t]
           \/ rendezvous'[t] = NONE
           \/ /\ rendezvous'[t].mailbox \in Mailbox
              /\ session[rendezvous'[t].mailbox] = rendezvous'[t].mailbox
<1> USE DEF TypeOK
<1>1. TypeOK /\ RequestOK(r)  BY DEF IInv
<1>2. CASE InitStep(r)
  <2>1. CASE InitSaveRendezvous(r)
    BY <1>1, <2>1 DEF InitSaveRendezvous, Answer, Goto, RequestOK
  <2>2. CASE InitStep(r) /\ ~InitSaveRendezvous(r)
    BY <2>2 DEF InitStep, StartInit, InitSaveMeta, InitClear, store
  <2>3. QED  BY <1>2, <2>1, <2>2
<1>3. CASE JoinStep(r)
  <2>1. CASE JoinDelete(r)
    BY <1>1, <2>1 DEF JoinDelete, Continue, Goto, RequestOK
  <2>2. CASE JoinStep(r) /\ ~JoinDelete(r)
    BY <2>2 DEF JoinStep, StartJoin, JoinGet, JoinGetMeta, JoinLink, JoinSaveMeta, JoinClear, store
  <2>3. QED  BY <1>3, <2>1, <2>2
<1>4. CASE SendStep(r)
  BY <1>4 DEF SendStep, StartSend, SendGetMeta, Push, PushExpire, store
<1>5. CASE RecvStep(r)
  BY <1>5 DEF RecvStep, StartRecv, RecvGetMeta, RecvGetList, store
<1>6. CASE CloseStep(r)
  BY <1>6 DEF CloseStep, StartClose, CloseGetMeta, CloseDeleteOwn, CloseDeletePeer, store
<1>7. CASE Abort(r)
  BY <1>7 DEF Abort, store
<1>8. QED  BY <1>2, <1>3, <1>4, <1>5, <1>6, <1>7 DEF RequestStep

\* Metadata is written without a peer, or with one on the opposite side.
LEMMA MetaEffect ==
  ASSUME IInv, NEW r \in Request, RequestStep(r)
  PROVE  \A m \in Mailbox :
           \/ meta'[m] = meta[m]
           \/ meta'[m] = NONE
           \/ meta'[m].peer = NONE
           \/ Opposite(meta'[m].peer, m)
<1> USE DEF TypeOK
<1>1. TypeOK /\ RequestOK(r)  BY DEF IInv
<1>2. CASE InitStep(r)
  <2>1. CASE InitSaveMeta(r)
    BY <1>1, <2>1 DEF InitSaveMeta, SaveMailboxMeta, Continue, Goto, RequestOK
  <2>2. CASE InitStep(r) /\ ~InitSaveMeta(r)
    BY <2>2 DEF InitStep, StartInit, InitClear, InitSaveRendezvous, store
  <2>3. QED  BY <1>2, <2>1, <2>2
<1>3. CASE JoinStep(r)
  <2>1. CASE JoinLink(r)
    <3>1. partner[r] \in Mailbox /\ Opposite(mailbox[r], partner[r])
      BY <1>1, <2>1 DEF JoinLink, Continue, Goto, RequestOK
    <3>2. QED  BY <1>1, <2>1, <3>1 DEF JoinLink, SaveMailboxMeta
  <2>2. CASE JoinSaveMeta(r)
    <3>1. mailbox[r] \in Mailbox /\ Opposite(partner[r], mailbox[r])
      BY <1>1, <2>2, OppositeSymmetric DEF JoinSaveMeta, Continue, Goto, RequestOK
    <3>2. QED  BY <1>1, <2>2, <3>1 DEF JoinSaveMeta, SaveMailboxMeta
  <2>3. CASE JoinStep(r) /\ ~JoinLink(r) /\ ~JoinSaveMeta(r)
    BY <2>3 DEF JoinStep, StartJoin, JoinGet, JoinDelete, JoinGetMeta, JoinClear, store
  <2>4. QED  BY <1>3, <2>1, <2>2, <2>3
<1>4. CASE SendStep(r)
  BY <1>4 DEF SendStep, StartSend, SendGetMeta, Push, PushExpire, store
<1>5. CASE RecvStep(r)
  BY <1>5 DEF RecvStep, StartRecv, RecvGetMeta, RecvGetList, store
<1>6. CASE CloseStep(r)
  <2>1. CASE CloseDeleteOwn(r)
    BY <1>1, <2>1 DEF CloseDeleteOwn, DeleteMailbox, Continue, Answer, Goto, RequestOK
  <2>2. CASE CloseDeletePeer(r)
    BY <1>1, <2>2 DEF CloseDeletePeer, DeleteMailbox, Answer, Goto, RequestOK
  <2>3. CASE CloseStep(r) /\ ~CloseDeleteOwn(r) /\ ~CloseDeletePeer(r)
    BY <2>3 DEF CloseStep, StartClose, CloseGetMeta, store
  <2>4. QED  BY <1>6, <2>1, <2>2, <2>3
<1>7. CASE Abort(r)
  BY <1>7 DEF Abort, store
<1>8. QED  BY <1>2, <1>3, <1>4, <1>5, <1>6, <1>7 DEF RequestStep

\* A list is left alone, emptied, or appended to from the opposite side.
LEMMA ListEffect ==
  ASSUME IInv, NEW r \in Request, RequestStep(r)
  PROVE  \A m \in Mailbox :
           \/ list'[m].msgs = list[m].msgs
           \/ list'[m].msgs = <<>>
           \/ \E msg \in Message : /\ list'[m].msgs = Append(list[m].msgs, msg)
                                   /\ Opposite(msg.from, m)
<1> USE DEF TypeOK
<1>1. TypeOK /\ RequestOK(r)  BY DEF IInv
<1>2. ASSUME NEW n \in Mailbox, ClearMailboxMessages(n)
      PROVE  \A m \in Mailbox : list'[m].msgs = list[m].msgs \/ list'[m].msgs = <<>>
  BY <1>1, <1>2 DEF ClearMailboxMessages, EmptyList
<1>3. ASSUME NEW n \in Mailbox, DeleteMailbox(n)
      PROVE  \A m \in Mailbox : list'[m].msgs = list[m].msgs \/ list'[m].msgs = <<>>
  BY <1>1, <1>3 DEF DeleteMailbox, EmptyList
<1>4. CASE InitStep(r)
  <2>1. CASE InitClear(r)
    BY <1>1, <1>2, <2>1 DEF InitClear, Continue, Goto, RequestOK
  <2>2. CASE InitStep(r) /\ ~InitClear(r)
    BY <2>2 DEF InitStep, StartInit, InitSaveMeta, InitSaveRendezvous, store
  <2>3. QED  BY <1>4, <2>1, <2>2
<1>5. CASE JoinStep(r)
  <2>1. CASE JoinClear(r)
    BY <1>1, <1>2, <2>1 DEF JoinClear, Continue, Goto, RequestOK
  <2>2. CASE JoinStep(r) /\ ~JoinClear(r)
    BY <2>2 DEF JoinStep, StartJoin, JoinGet, JoinDelete, JoinGetMeta, JoinLink, JoinSaveMeta, store
  <2>3. QED  BY <1>5, <2>1, <2>2
<1>6. CASE SendStep(r)
  <2>1. CASE Push(r)
    <3> DEFINE sent == [from |-> mailbox[r], request |-> r]
    <3>1. /\ mailbox[r] \in Mailbox
          /\ partner[r] \in Mailbox
          /\ Opposite(mailbox[r], partner[r])
      BY <1>1, <2>1 DEF Push, Continue, Goto, RequestOK
    <3>2. sent \in Message /\ sent.from = mailbox[r]  BY <3>1 DEF Message
    <3>3. list' = [list EXCEPT ![partner[r]].msgs = Append(@, sent)]
      BY <2>1 DEF Push, Rpush
    <3>4. list[partner[r]].msgs \in Seq(Message)  BY <1>1, <3>1 DEF MessageList
    <3> HIDE DEF sent
    <3>5. ASSUME NEW m \in Mailbox, m # partner[r] PROVE list'[m].msgs = list[m].msgs
      BY <1>1, <3>3, <3>5
    <3>6. list'[partner[r]].msgs = Append(list[partner[r]].msgs, sent)
      BY <1>1, <3>1, <3>3 DEF MessageList
    <3>7. QED  BY <3>1, <3>2, <3>5, <3>6
  <2>2. CASE PushExpire(r)
    <3>1. partner[r] \in Mailbox
      BY <1>1, <2>2 DEF PushExpire, Answer, Goto, RequestOK
    <3>2. list[partner[r]] \in MessageList  BY <1>1, <3>1
    <3>3. ASSUME NEW m \in Mailbox PROVE list'[m].msgs = list[m].msgs
      BY <1>1, <2>2, <3>1, <3>2 DEF PushExpire, Expire, MessageList
    <3>4. QED  BY <3>3
  <2>3. CASE SendStep(r) /\ ~Push(r) /\ ~PushExpire(r)
    BY <2>3 DEF SendStep, StartSend, SendGetMeta, store
  <2>4. QED  BY <1>6, <2>1, <2>2, <2>3
<1>7. CASE RecvStep(r)
  BY <1>7 DEF RecvStep, StartRecv, RecvGetMeta, RecvGetList, store
<1>8. CASE CloseStep(r)
  <2>1. CASE CloseDeleteOwn(r)
    <3>1. mailbox[r] \in Mailbox
      BY <1>1, <2>1 DEF CloseDeleteOwn, Continue, Answer, Goto, RequestOK
    <3>2. QED  BY <1>3, <2>1, <3>1 DEF CloseDeleteOwn
  <2>2. CASE CloseDeletePeer(r)
    BY <1>1, <1>3, <2>2 DEF CloseDeletePeer, Answer, Goto, RequestOK
  <2>3. CASE CloseStep(r) /\ ~CloseDeleteOwn(r) /\ ~CloseDeletePeer(r)
    BY <2>3 DEF CloseStep, StartClose, CloseGetMeta, store
  <2>4. QED  BY <1>8, <2>1, <2>2, <2>3
<1>9. CASE Abort(r)
  BY <1>9 DEF Abort, store
<1>10. QED  BY <1>4, <1>5, <1>6, <1>7, <1>8, <1>9 DEF RequestStep

\* A recv is handed a copy of the list of the mailbox it named.
LEMMA ReceivedEffect ==
  ASSUME IInv, NEW r \in Request, RequestStep(r)
  PROVE  \/ received'[r] = received[r] /\ (mailbox'[r] = mailbox[r] \/ received[r] = <<>>)
         \/ /\ mailbox[r] \in Mailbox
            /\ mailbox'[r] = mailbox[r]
            /\ received'[r] = list[mailbox[r]].msgs
<1> USE DEF TypeOK
<1>1. TypeOK /\ RequestOK(r)  BY DEF IInv
<1>2. CASE InitStep(r)
  BY <1>1, <1>2 DEF InitStep, StartInit, InitSaveMeta, InitClear, InitSaveRendezvous, Arrive,
                    RequestOK, locals
<1>3. CASE JoinStep(r)
  <2>1. ASSUME NEW m \in Mailbox, JoinGetMeta(r, m)
        PROVE  received'[r] = received[r] /\ received[r] = <<>>
    BY <1>1, <2>1 DEF JoinGetMeta, RequestOK
  <2>2. CASE JoinStep(r) /\ ~\E m \in Mailbox : JoinGetMeta(r, m)
    BY <2>2 DEF JoinStep, StartJoin, JoinGet, JoinDelete, JoinLink, JoinSaveMeta, JoinClear, locals
  <2>3. QED  BY <1>3, <2>1, <2>2
<1>4. CASE SendStep(r)
  BY <1>1, <1>4 DEF SendStep, StartSend, SendGetMeta, Push, PushExpire, Arrive, RequestOK, locals
<1>5. CASE RecvStep(r)
  <2>1. CASE RecvGetList(r)
    BY <1>1, <2>1 DEF RecvGetList, Answer, Goto, RequestOK, locals
  <2>2. CASE RecvStep(r) /\ ~RecvGetList(r)
    BY <1>1, <2>2 DEF RecvStep, StartRecv, RecvGetMeta, Arrive, RequestOK, locals
  <2>3. QED  BY <1>5, <2>1, <2>2
<1>6. CASE CloseStep(r)
  BY <1>1, <1>6 DEF CloseStep, StartClose, CloseGetMeta, CloseDeleteOwn, CloseDeletePeer, Arrive,
                    RequestOK, locals
<1>7. CASE Abort(r)
  BY <1>7 DEF Abort, locals
<1>8. QED  BY <1>2, <1>3, <1>4, <1>5, <1>6, <1>7 DEF RequestStep
-----------------------------------------------------------------------------
(* A request step preserves the invariant.                                 *)

\* Every command keeps the links of the store within their sessions,
LEMMA LinksStep ==
  ASSUME IInv, NEW r \in Request, RequestStep(r)
  PROVE  LinksOK'
<1> USE ConstantAssumption
<1>1. TypeOK /\ TypeOK' /\ LinksOK  BY RequestKeepsTypes DEF IInv
<1>2. \A m \in Mailbox : session[m] # NONE => session'[m] = session[m]  BY Frame
<1>3. ASSUME NEW m \in Mailbox, session'[m] # NONE PROVE session'[session'[m]] = session'[m]
  <2>1. CASE session' = session
    BY <1>1, <1>3, <2>1 DEF LinksOK
  <2>2. ASSUME NEW n \in Mailbox, NEW root \in Mailbox,
               session[n] = NONE,
               root = n \/ session[root] = root,
               session' = [session EXCEPT ![n] = root]
        PROVE  session'[session'[m]] = session'[m]
    <3>1. CASE m = n  BY <1>1, <2>2, <3>1 DEF TypeOK
    <3>2. CASE m # n
      <4>1. session'[m] = session[m]  BY <1>1, <2>2, <3>2 DEF TypeOK
      <4>2. session[m] \in Mailbox /\ session[session[m]] = session[m]
        BY <1>1, <1>3, <4>1 DEF LinksOK, TypeOK
      <4>3. session'[session[m]] = session[session[m]]  BY <1>2, <4>2
      <4>4. QED  BY <4>1, <4>2, <4>3
    <3>3. QED  BY <3>1, <3>2
  <2>3. QED  BY <2>1, <2>2, SessionEffect
<1>4. ASSUME NEW t \in Token, rendezvous'[t] # NONE
      PROVE  session'[rendezvous'[t].mailbox] = rendezvous'[t].mailbox
  <2>1. rendezvous'[t].mailbox \in Mailbox  BY <1>1, <1>4 DEF TypeOK, Mapping
  <2>2. session[rendezvous'[t].mailbox] = rendezvous'[t].mailbox
    BY <1>1, <1>4, RendezvousEffect DEF LinksOK
  <2>3. QED  BY <1>2, <2>1, <2>2
<1>5. ASSUME NEW m \in Mailbox, meta'[m] # NONE, meta'[m].peer # NONE
      PROVE  Opposite(meta[m].peer, m)'
  <2>1. meta'[m].peer \in Mailbox  BY <1>1, <1>5 DEF TypeOK, Metadata
  <2>2. Opposite(meta'[m].peer, m)  BY <1>1, <1>5, MetaEffect DEF LinksOK
  <2>3. QED  BY <1>2, <2>1, <2>2 DEF Opposite
<1>6. QED  BY <1>3, <1>4, <1>5 DEF LinksOK

\* Appending keeps a sequence of messages from the opposite side.
LEMMA AppendFrom ==
  ASSUME NEW s \in Seq(Message), NEW msg \in Message, NEW m \in Mailbox,
         Opposite(msg.from, m),
         \A k \in DOMAIN s : Opposite(s[k].from, m)
  PROVE  \A k \in DOMAIN Append(s, msg) : Opposite(Append(s, msg)[k].from, m)
<1> SUFFICES ASSUME NEW k \in DOMAIN Append(s, msg)
             PROVE  Opposite(Append(s, msg)[k].from, m)
  OBVIOUS
<1>1. CASE k \in DOMAIN s  BY <1>1
<1>2. CASE k = Len(s) + 1  BY <1>2
<1>3. QED  BY <1>1, <1>2

\* the messages stored,
LEMMA StoredStep ==
  ASSUME IInv, NEW r \in Request, RequestStep(r)
  PROVE  StoredOK'
<1>1. TypeOK /\ TypeOK' /\ StoredOK  BY RequestKeepsTypes DEF IInv
<1>2. \A m \in Mailbox : session[m] # NONE => session'[m] = session[m]  BY Frame
<1>3. SUFFICES ASSUME NEW m \in Mailbox, NEW k \in DOMAIN list'[m].msgs
               PROVE  Opposite(list[m].msgs[k].from, m)'
  BY DEF StoredOK
<1>4. list[m].msgs \in Seq(Message) /\ list'[m].msgs \in Seq(Message)
  BY <1>1 DEF TypeOK, MessageList
<1>5. Opposite(list'[m].msgs[k].from, m)
  <2>1. CASE list'[m].msgs = list[m].msgs  BY <1>1, <1>3, <2>1 DEF StoredOK
  <2>2. CASE list'[m].msgs = <<>>  BY <1>3, <2>2
  <2>3. ASSUME NEW msg \in Message, list'[m].msgs = Append(list[m].msgs, msg),
               Opposite(msg.from, m)
        PROVE  Opposite(list'[m].msgs[k].from, m)
    BY <1>1, <1>3, <1>4, <2>3, AppendFrom DEF StoredOK
  <2>4. QED  BY <2>1, <2>2, <2>3, ListEffect
<1>6. list'[m].msgs[k].from \in Mailbox
  <2>1. list'[m].msgs[k] \in Message  BY <1>3, <1>4
  <2>2. QED  BY <2>1 DEF Message
<1>7. QED  BY <1>2, <1>5, <1>6 DEF Opposite

\* and the messages returned.
LEMMA ReceivedStep ==
  ASSUME IInv, NEW r \in Request, RequestStep(r)
  PROVE  ReceivedOK'
<1>1. TypeOK /\ TypeOK' /\ StoredOK /\ ReceivedOK  BY RequestKeepsTypes DEF IInv
<1>2. \A m \in Mailbox : session[m] # NONE => session'[m] = session[m]  BY Frame
<1>3. SUFFICES ASSUME NEW q \in Request, NEW k \in DOMAIN received'[q]
               PROVE  mailbox'[q] \in Mailbox /\ Opposite(received[q][k].from, mailbox[q])'
  BY DEF ReceivedOK
<1>4. mailbox'[q] \in Mailbox /\ Opposite(received'[q][k].from, mailbox'[q])
  <2>1. CASE q # r
    <3>1. mailbox'[q] = mailbox[q] /\ received'[q] = received[q]  BY <2>1, Frame
    <3>2. QED  BY <1>1, <1>3, <3>1 DEF ReceivedOK
  <2>2. CASE received'[q] = <<>>  BY <1>3, <2>2
  <2>3. CASE q = r /\ received'[q] = received[q] /\ mailbox'[q] = mailbox[q]
    BY <1>1, <1>3, <2>3 DEF ReceivedOK
  <2>4. CASE q = r /\ mailbox[q] \in Mailbox /\ mailbox'[q] = mailbox[q]
               /\ received'[q] = list[mailbox[q]].msgs
    BY <1>1, <1>3, <2>4 DEF StoredOK
  <2>5. QED  BY <2>1, <2>2, <2>3, <2>4, ReceivedEffect
<1>5. received'[q][k].from \in Mailbox
  <2>1. received'[q] \in Seq(Message)  BY <1>1, <1>3 DEF TypeOK
  <2>2. received'[q][k] \in Message  BY <1>3, <2>1
  <2>3. QED  BY <2>2 DEF Message
<1>6. QED  BY <1>2, <1>4, <1>5 DEF Opposite

\* IInv survives every command.
LEMMA RequestStepIInv ==
  ASSUME IInv, NEW r \in Request, RequestStep(r)
  PROVE  IInv'
  BY RequestKeepsTypes, LocalsStep, LinksStep, StoredStep, ReceivedStep DEF IInv

\* The passing of time only removes keys.
LEMMA TickIInv ==
  ASSUME IInv, Tick
  PROVE  IInv'
<1> USE ConstantAssumption
<1>1. /\ TypeOK
      /\ \A r \in Request : RequestOK(r)
      /\ LinksOK
      /\ StoredOK
      /\ ReceivedOK
  BY DEF IInv
<1>2. UNCHANGED <<token, mailbox, partner, expires, pc, reply, received, session>>
  BY DEF Tick, locals
<1>3. \A t \in Token : rendezvous'[t] = NONE \/ rendezvous'[t] = rendezvous[t]
  BY DEF Tick
<1>4. \A m \in Mailbox : meta'[m] = NONE \/ meta'[m] = meta[m]
  BY DEF Tick
<1>5. \A m \in Mailbox : list'[m] = EmptyList \/ list'[m] = list[m]
  BY DEF Tick
<1>6. TypeOK'
  <2>1. now' \in Nat  BY <1>1 DEF Tick, TypeOK
  <2>2. rendezvous' \in [Token -> Mapping \cup {NONE}]
    BY <1>1 DEF Tick, TypeOK
  <2>3. meta' \in [Mailbox -> Metadata \cup {NONE}]
    BY <1>1 DEF Tick, TypeOK
  <2>4. list' \in [Mailbox -> MessageList]
    <3>1. EmptyList \in MessageList  BY DEF EmptyList, MessageList, NoTtl
    <3>2. QED  BY <1>1, <3>1 DEF Tick, TypeOK
  <2>5. QED  BY <1>1, <1>2, <2>1, <2>2, <2>3, <2>4 DEF TypeOK
<1>7. \A r \in Request : RequestOK(r)'
  BY <1>1, <1>2 DEF RequestOK, Opposite
<1>8. LinksOK'
  BY <1>1, <1>2, <1>3, <1>4 DEF LinksOK, Opposite
<1>9. StoredOK'
  <2>1. ASSUME NEW m \in Mailbox, NEW k \in DOMAIN list'[m].msgs
        PROVE  Opposite(list'[m].msgs[k].from, m)
    <3>1. CASE list'[m] = EmptyList  BY <2>1, <3>1 DEF EmptyList
    <3>2. CASE list'[m] = list[m]  BY <1>1, <2>1, <3>2 DEF StoredOK
    <3>3. QED  BY <1>5, <3>1, <3>2
  <2>2. QED  BY <1>2, <2>1 DEF StoredOK, Opposite
<1>10. ReceivedOK'
  BY <1>1, <1>2 DEF ReceivedOK, Opposite
<1>11. QED  BY <1>6, <1>7, <1>8, <1>9, <1>10 DEF IInv

\* IInv survives a stutter.
LEMMA StutterIInv ==
  ASSUME IInv, UNCHANGED vars
  PROVE  IInv'
  BY DEF vars, IInv, TypeOK, RequestOK, LinksOK, StoredOK, ReceivedOK, Opposite
-----------------------------------------------------------------------------
\* The strengthened invariant holds in every reachable state.
THEOREM Inductive == Spec => []IInv
<1>1. IInv /\ [Next]_vars => IInv'
  BY RequestStepIInv, TickIInv, StutterIInv DEF Next
<1>2. QED  BY InitIInv, <1>1, PTL DEF Spec

\* Every variable keeps its type, for every set of requests, mailboxes and
\* tokens and every lifetime.
THEOREM TypeCorrect == Spec => []TypeOK
<1>1. IInv => TypeOK  BY DEF IInv
<1>2. QED  BY Inductive, <1>1, PTL

\* No interleaving, crash or expiry of any number of requests lets a message
\* be stored in, or returned from, a mailbox of another session or of its own
\* side: the server relays only along the links a join made.
THEOREM Isolation == Spec => []SessionIsolation
<1>1. IInv => SessionIsolation
  BY DEF IInv, StoredOK, ReceivedOK, SessionIsolation
<1>2. QED  BY Inductive, <1>1, PTL
-----------------------------------------------------------------------------
(* A redeemed token is gone.                                               *)

\* Each operation keeps to its own commands.
InitCommands == {"init_save_meta", "init_clear", "init_save_rendezvous"}
JoinCommands == {"join_get", "join_delete", "join_get_meta", "join_link", "join_save_meta",
                 "join_clear"}
MailCommands == {"send_get_meta", "recv_get_meta", "recv_get_list"}
CloseCommands == {"close_get_meta", "close_delete_own", "close_delete_peer"}

KindOK(r) ==
  /\ pc[r] \in InitCommands => Kind[r] = "init"
  /\ pc[r] \in JoinCommands => Kind[r] = "join"
  /\ pc[r] \in MailCommands => Kind[r] = "mail"
  /\ pc[r] \in CloseCommands => Kind[r] = "close"
  /\ pc[r] \in {"push", "expire"} => Kind[r] \in {"join", "mail"}
  /\ reply[r] = "ok" => pc[r] = "done"
  /\ pc[r] = "idle" => token[r] = NONE
  /\ Kind[r] = "join" /\ pc[r] # "idle" => token[r] \in Token

\* A join past its DEL.
Redeemed(r) ==
  /\ Kind[r] = "join"
  /\ \/ pc[r] \in {"join_get_meta", "join_link", "join_save_meta", "join_clear", "push", "expire"}
     \/ reply[r] = "ok"

\* One initiator made each token, a joined one has been answered by then, and so
\* nothing stores a redeemed one again.
OneMaker == \A p, q \in Request :
  Kind[p] = "init" /\ Kind[q] = "init" /\ token[p] = token[q] /\ token[p] # NONE => p = q
MakerDone == \A q \in Request :
  Kind[q] = "join" /\ token[q] # NONE =>
    \E p \in Request : Kind[p] = "init" /\ token[p] = token[q] /\ reply[p] = "ok"

TokenInv ==
  /\ \A r \in Request : KindOK(r)
  /\ OneMaker /\ MakerDone
  /\ \A r \in Request : Redeemed(r) => rendezvous[token[r]] = NONE

\* The steps that make, take, store or delete a token.
TokenStep(r) ==
  \/ \E t \in Token, m \in Mailbox : StartInit(r, t, m)
  \/ \E t \in Token : StartJoin(r, t)
  \/ InitSaveRendezvous(r) \/ JoinDelete(r)

\* A step changes the answer of its own request only, which is not done yet, and
\* leads to a command of the same operation.
LEMMA Progress ==
  ASSUME TypeOK, NEW r \in Request, KindOK(r), RequestStep(r)
  PROVE  /\ \A q \in Request \ {r} : pc'[q] = pc[q] /\ reply'[q] = reply[q]
         /\ pc[r] # "done" /\ pc'[r] # "idle"
         /\ pc'[r] \in InitCommands => Kind[r] = "init"
         /\ pc'[r] \in JoinCommands => Kind[r] = "join"
         /\ pc'[r] \in MailCommands => Kind[r] = "mail"
         /\ pc'[r] \in CloseCommands => Kind[r] = "close"
         /\ pc'[r] \in {"push", "expire"} => Kind[r] \in {"join", "mail"}
         /\ reply'[r] = "ok" => pc'[r] = "done"
<1> USE DEF TypeOK, KindOK, InitCommands, JoinCommands, MailCommands, CloseCommands,
            Arrive, Continue, Answer, Goto
<1>1. CASE InitStep(r)
  BY <1>1 DEF InitStep, StartInit, InitSaveMeta, InitClear, InitSaveRendezvous
<1>2. CASE JoinStep(r)
  BY <1>2 DEF JoinStep, StartJoin, JoinGet, JoinDelete, JoinGetMeta, JoinLink, JoinSaveMeta, JoinClear
<1>3. CASE SendStep(r) \/ RecvStep(r)
  BY <1>3 DEF SendStep, StartSend, SendGetMeta, Push, PushExpire,
              RecvStep, StartRecv, RecvGetMeta, RecvGetList
<1>4. CASE CloseStep(r)
  BY <1>4 DEF CloseStep, StartClose, CloseGetMeta, CloseDeleteOwn, CloseDeletePeer
<1>5. CASE Abort(r)
  BY <1>5 DEF Abort, InFlight
<1> QED BY <1>1, <1>2, <1>3, <1>4, <1>5 DEF RequestStep

\* Every other step leaves tokens and mappings alone and redeems nothing.
LEMMA Elsewhere ==
  ASSUME TypeOK, NEW r \in Request, KindOK(r), RequestStep(r), ~TokenStep(r)
  PROVE  /\ token' = token /\ rendezvous' = rendezvous
         /\ Redeemed(r)' => Redeemed(r)
         /\ Kind[r] \in {"init", "join"} => pc[r] # "idle"
<1> USE DEF TypeOK, KindOK, InitCommands, JoinCommands, MailCommands, CloseCommands,
            Arrive, Continue, Answer, Goto, TokenStep, Redeemed, locals, store
<1>1. CASE InitStep(r)
  BY <1>1 DEF InitStep, InitSaveMeta, InitClear
<1>2. CASE JoinStep(r)
  BY <1>2 DEF JoinStep, JoinGet, JoinGetMeta, JoinLink, JoinSaveMeta, JoinClear
<1>3. CASE SendStep(r) \/ RecvStep(r)
  BY <1>3 DEF SendStep, StartSend, SendGetMeta, Push, PushExpire,
              RecvStep, StartRecv, RecvGetMeta, RecvGetList
<1>4. CASE CloseStep(r)
  BY <1>4 DEF CloseStep, StartClose, CloseGetMeta, CloseDeleteOwn, CloseDeletePeer
<1>5. CASE Abort(r)
  BY <1>5 DEF Abort, InFlight
<1> QED BY <1>1, <1>2, <1>3, <1>4, <1>5 DEF RequestStep

\* A step of a request keeps tokens redeemed.
LEMMA TokenKept ==
  ASSUME TypeOK, TokenInv, NEW r \in Request, RequestStep(r) PROVE TokenInv'
<1>1. /\ \A q \in Request : KindOK(q)
      /\ OneMaker /\ MakerDone
      /\ \A q \in Request : Redeemed(q) => rendezvous[token[q]] = NONE
  BY DEF TokenInv
<1>2. /\ \A q \in Request \ {r} : pc'[q] = pc[q] /\ reply'[q] = reply[q]
      /\ pc[r] # "done" /\ pc'[r] # "idle"
      /\ pc'[r] \in InitCommands => Kind[r] = "init"
      /\ pc'[r] \in JoinCommands => Kind[r] = "join"
      /\ pc'[r] \in MailCommands => Kind[r] = "mail"
      /\ pc'[r] \in CloseCommands => Kind[r] = "close"
      /\ pc'[r] \in {"push", "expire"} => Kind[r] \in {"join", "mail"}
      /\ reply'[r] = "ok" => pc'[r] = "done"
  BY <1>1, Progress
<1>3. \A q \in Request : reply[q] = "ok" => q # r /\ reply'[q] = "ok"
  BY <1>1, <1>2 DEF KindOK
<1>4. \A q \in Request : Kind[q] = "join" /\ (pc[q] # "idle" \/ reply[q] = "ok") => token[q] \in Token
  BY <1>1 DEF KindOK
<1>5. NONE \notin Token
  BY ConstantAssumption
<1>6. CASE ~TokenStep(r)
  <2>1. /\ token' = token /\ rendezvous' = rendezvous
        /\ Redeemed(r)' => Redeemed(r)
        /\ Kind[r] \in {"init", "join"} => pc[r] # "idle"
    BY <1>1, <1>6, Elsewhere
  <2>2. \A q \in Request : KindOK(q)'
    <3> SUFFICES ASSUME NEW q \in Request PROVE KindOK(q)'
      OBVIOUS
    <3>1. KindOK(q)
      BY <1>1
    <3> QED BY <1>2, <2>1, <3>1 DEF KindOK
  <2>3. OneMaker'
    BY <1>1, <2>1 DEF OneMaker
  <2>4. MakerDone'
    BY <1>1, <1>3, <2>1 DEF MakerDone
  <2>5. \A q \in Request : Redeemed(q)' => rendezvous'[token'[q]] = NONE
    <3> SUFFICES ASSUME NEW q \in Request, Redeemed(q)' PROVE Redeemed(q)
      BY <1>1, <2>1
    <3>1. CASE q = r
      BY <2>1, <3>1
    <3>2. CASE q # r
      BY <1>2, <3>2 DEF Redeemed
    <3> QED BY <3>1, <3>2
  <2> QED BY <2>2, <2>3, <2>4, <2>5 DEF TokenInv
<1>7. ASSUME NEW t \in Token, NEW m \in Mailbox, StartInit(r, t, m) PROVE TokenInv'
  <2>1. /\ Kind[r] = "init" /\ token' = [token EXCEPT ![r] = t] /\ rendezvous' = rendezvous
        /\ \A q \in Request : Kind[q] = "init" => token[q] # t
    BY <1>7 DEF StartInit, Arrive, store
  <2>2. token'[r] = t /\ \A q \in Request \ {r} : token'[q] = token[q]
    BY <2>1 DEF TypeOK
  <2>3. \A q \in Request : KindOK(q)'
    <3> SUFFICES ASSUME NEW q \in Request PROVE KindOK(q)'
      OBVIOUS
    <3>1. KindOK(q)
      BY <1>1
    <3>2. CASE q = r
      BY <1>2, <2>1, <3>1, <3>2 DEF KindOK
    <3>3. CASE q # r
      BY <1>2, <2>2, <3>1, <3>3 DEF KindOK
    <3> QED BY <3>2, <3>3
  <2>4. OneMaker'
    BY <1>1, <2>1, <2>2 DEF OneMaker
  <2>5. MakerDone'
    BY <1>1, <1>3, <2>1, <2>2 DEF MakerDone
  <2>6. \A q \in Request : Redeemed(q)' => rendezvous'[token'[q]] = NONE
    BY <1>1, <1>2, <2>1, <2>2 DEF Redeemed
  <2> QED BY <2>3, <2>4, <2>5, <2>6 DEF TokenInv
<1>8. ASSUME NEW t \in Token, StartJoin(r, t) PROVE TokenInv'
  <2>1. /\ Kind[r] = "join" /\ token' = [token EXCEPT ![r] = t] /\ rendezvous' = rendezvous
        /\ pc'[r] = "join_get" /\ pc[r] = "idle" /\ reply' = reply
        /\ \E p \in Request : Kind[p] = "init" /\ token[p] = t /\ reply[p] = "ok"
    BY <1>8 DEF StartJoin, Arrive, store, TypeOK
  <2>2. token'[r] = t /\ \A q \in Request \ {r} : token'[q] = token[q]
    BY <2>1 DEF TypeOK
  <2>3. \A q \in Request : KindOK(q)'
    <3> SUFFICES ASSUME NEW q \in Request PROVE KindOK(q)'
      OBVIOUS
    <3>1. KindOK(q)
      BY <1>1
    <3>2. CASE q = r
      BY <1>2, <2>1, <2>2, <3>1, <3>2 DEF KindOK
    <3>3. CASE q # r
      BY <1>2, <2>2, <3>1, <3>3 DEF KindOK
    <3> QED BY <3>2, <3>3
  <2>4. OneMaker'
    BY <1>1, <2>1, <2>2 DEF OneMaker
  <2>5. MakerDone'
    BY <1>1, <1>3, <2>1, <2>2 DEF MakerDone
  <2>6. \A q \in Request : Redeemed(q)' => rendezvous'[token'[q]] = NONE
    BY <1>1, <1>2, <2>1, <2>2 DEF Redeemed, KindOK
  <2> QED BY <2>3, <2>4, <2>5, <2>6 DEF TokenInv
<1>9. CASE InitSaveRendezvous(r)
  <2>1. /\ pc[r] = "init_save_rendezvous" /\ token' = token
        /\ \A t \in Token : t # token[r] => rendezvous'[t] = rendezvous[t]
    BY <1>9 DEF InitSaveRendezvous, Answer, Goto, locals, TypeOK
  <2>2. Kind[r] = "init"
    BY <1>1, <2>1 DEF KindOK, InitCommands
  <2>3. \A q \in Request : KindOK(q)'
    <3> SUFFICES ASSUME NEW q \in Request PROVE KindOK(q)'
      OBVIOUS
    <3>1. KindOK(q)
      BY <1>1
    <3> QED BY <1>2, <2>1, <2>2, <3>1 DEF KindOK
  <2>4. \A q \in Request : Redeemed(q)' => rendezvous'[token'[q]] = NONE
    <3> SUFFICES ASSUME NEW q \in Request, Redeemed(q)' PROVE rendezvous'[token'[q]] = NONE
      OBVIOUS
    <3>1. q # r /\ Redeemed(q)
      BY <1>2, <2>2 DEF Redeemed
    <3>2. token[q] \in Token /\ rendezvous[token[q]] = NONE
      BY <1>1, <3>1 DEF Redeemed, KindOK
    <3>3. PICK p \in Request : Kind[p] = "init" /\ token[p] = token[q] /\ reply[p] = "ok"
      BY <1>1, <1>5, <3>1, <3>2 DEF MakerDone, Redeemed
    <3>4. token[r] # token[q]
      BY <1>1, <1>3, <1>5, <2>2, <3>2, <3>3 DEF OneMaker
    <3> QED BY <2>1, <3>2, <3>4
  <2> QED BY <1>1, <1>3, <2>1, <2>3, <2>4 DEF TokenInv, OneMaker, MakerDone
<1>10. CASE JoinDelete(r)
  <2>1. /\ pc[r] = "join_delete" /\ token' = token
        /\ \A t \in Token : rendezvous'[t] = IF t = token[r] THEN NONE ELSE rendezvous[t]
    BY <1>10 DEF JoinDelete, Continue, Goto, locals, TypeOK
  <2>2. Kind[r] = "join" /\ token[r] \in Token
    BY <1>1, <2>1 DEF KindOK, JoinCommands
  <2>3. \A q \in Request : KindOK(q)'
    <3> SUFFICES ASSUME NEW q \in Request PROVE KindOK(q)'
      OBVIOUS
    <3>1. KindOK(q)
      BY <1>1
    <3> QED BY <1>2, <2>1, <2>2, <3>1 DEF KindOK
  <2>4. \A q \in Request : Redeemed(q)' => rendezvous'[token'[q]] = NONE
    <3> SUFFICES ASSUME NEW q \in Request, Redeemed(q)' PROVE rendezvous'[token'[q]] = NONE
      OBVIOUS
    <3>1. CASE q = r
      BY <2>1, <2>2, <3>1
    <3>2. CASE q # r
      <4>1. Redeemed(q)
        BY <1>2, <3>2 DEF Redeemed
      <4>2. token[q] \in Token /\ rendezvous[token[q]] = NONE
        BY <1>1, <4>1 DEF Redeemed, KindOK
      <4> QED BY <2>1, <4>2
    <3> QED BY <3>1, <3>2
  <2> QED BY <1>1, <1>3, <2>1, <2>3, <2>4 DEF TokenInv, OneMaker, MakerDone
<1> QED BY <1>6, <1>7, <1>8, <1>9, <1>10 DEF TokenStep

\* Time and stuttering store no token.
LEMMA TokenIdle ==
  ASSUME TypeOK, TokenInv, Tick \/ UNCHANGED vars PROVE TokenInv'
<1>1. UNCHANGED <<token, pc, reply>>
  BY DEF Tick, vars, locals
<1>2. \A t \in Token : rendezvous[t] = NONE => rendezvous'[t] = NONE
  BY DEF Tick, vars
<1>3. \A q \in Request : KindOK(q)' /\ (Redeemed(q)' => Redeemed(q) /\ token[q] \in Token)
  BY <1>1 DEF TokenInv, KindOK, Redeemed
<1>4. OneMaker' /\ MakerDone'
  BY <1>1 DEF TokenInv, OneMaker, MakerDone
<1>5. \A q \in Request : Redeemed(q)' => rendezvous'[token'[q]] = NONE
  BY <1>1, <1>2, <1>3 DEF TokenInv
<1> QED BY <1>3, <1>4, <1>5 DEF TokenInv

\* Only its maker ever stores a token, and not once it has been redeemed.
THEOREM TokensMadeOnce == Spec => []TokenInv
<1>1. Init => TokenInv
  BY NoAnswerAssumption DEF Init, TokenInv, KindOK, OneMaker, MakerDone, Redeemed,
     InitCommands, JoinCommands, MailCommands, CloseCommands
<1>2. TypeOK /\ TokenInv /\ [Next]_vars => TokenInv'
  BY TokenKept, TokenIdle DEF Next
<1> QED BY <1>1, <1>2, TypeCorrect, PTL DEF Spec

\* Once a join is answered its token is gone for good, for any requests.
THEOREM TokensRedeemed == Spec => []RedeemedTokenIsGone
<1>1. TokenInv => RedeemedTokenIsGone
  BY DEF TokenInv, Redeemed, RedeemedTokenIsGone
<1> QED BY <1>1, TokensMadeOnce, PTL
-----------------------------------------------------------------------------
(* A mailbox is held until its expiry.                                     *)

\* The mailbox q was given is stored, or has been.
Stored(q) ==
  \/ pc[q] \in {"init_clear", "init_save_rendezvous"}
  \/ Kind[q] = "join" /\ pc[q] \in {"join_clear", "push", "expire"}
  \/ Kind[q] \in {"init", "join"} /\ reply[q] = "ok"

\* It stays until its expiry, or a close has reached it.
HeldOn(q) ==
  \/ now >= expires[q]
  \/ meta[mailbox[q]] # NONE /\ meta[mailbox[q]].until >= expires[q]
  \/ \E c \in Request : Closes(c, mailbox[q])

\* No answered or stored expiry is later than what a write gives from now on.
Bounded ==
  /\ \A q \in Request : expires[q] <= now + MailboxTtl
  /\ \A m \in Mailbox : meta[m] # NONE => meta[m].expires <= now + MailboxTtl

\* A request that has not read a mailbox yet has none.
Unset(r) ==
  /\ pc[r] = "idle" => mailbox[r] = NONE
  /\ pc[r] \in {"idle", "close_get_meta"} => partner[r] = NONE
  /\ reply[r] = "ok" => mailbox[r] \in Mailbox

HoldInv ==
  /\ \A r \in Request : Unset(r)
  /\ Bounded
  /\ \A q \in Request : Stored(q) => HeldOn(q)

\* A mailbox is written for a whole lifetime, or deleted by a close that names it.
LEMMA MetaWritten ==
  ASSUME IInv, TokenInv, HoldInv, NEW r \in Request, RequestStep(r), NEW m \in Mailbox
  PROVE  \/ meta'[m] = meta[m]
         \/ /\ meta'[m] # NONE
            /\ meta'[m].until = now + MailboxTtl
            /\ meta'[m].expires <= now + MailboxTtl
         \/ meta'[m] = NONE /\ Kind[r] = "close" /\ m \in {mailbox'[r], partner'[r]}
<1> USE DEF TypeOK
<1>1. TypeOK /\ TypeOK' /\ RequestOK(r) /\ KindOK(r) /\ expires[r] <= now + MailboxTtl
  BY RequestKeepsTypes DEF IInv, TokenInv, HoldInv, Bounded
<1>2. ASSUME NEW n \in Mailbox, NEW p \in Mailbox \cup {NONE}, SaveMailboxMeta(n, p, expires[r])
      PROVE  \/ meta'[m] = meta[m]
             \/ /\ meta'[m] # NONE
                /\ meta'[m].until = now + MailboxTtl
                /\ meta'[m].expires <= now + MailboxTtl
  <2>1. [peer |-> p, expires |-> expires[r], until |-> now + MailboxTtl] # NONE
    BY <1>1, ConstantAssumption DEF Metadata
  <2> QED BY <1>1, <1>2, <2>1 DEF SaveMailboxMeta
<1>3. CASE InitSaveMeta(r)
  <2>1. mailbox[r] \in Mailbox
    BY <1>1, <1>3 DEF InitSaveMeta, Continue, Goto, RequestOK
  <2> QED BY <1>2, <1>3, <2>1 DEF InitSaveMeta
<1>4. CASE JoinLink(r) \/ JoinSaveMeta(r)
  <2>1. mailbox[r] \in Mailbox /\ partner[r] \in Mailbox
    BY <1>1, <1>4 DEF JoinLink, JoinSaveMeta, Continue, Goto, RequestOK
  <2> QED BY <1>2, <1>4, <2>1 DEF JoinLink, JoinSaveMeta
<1>5. CASE CloseDeleteOwn(r) \/ CloseDeletePeer(r)
  <2>1. Kind[r] = "close" /\ mailbox'[r] = mailbox[r] /\ partner'[r] = partner[r]
    BY <1>1, <1>5 DEF CloseDeleteOwn, CloseDeletePeer, Continue, Answer, Goto, KindOK, CloseCommands, locals
  <2>2. meta'[m] = meta[m] \/ (meta'[m] = NONE /\ m \in {mailbox[r], partner[r]})
    BY <1>1, <1>5 DEF CloseDeleteOwn, CloseDeletePeer, DeleteMailbox
  <2> QED BY <2>1, <2>2
<1>6. CASE /\ ~InitSaveMeta(r) /\ ~JoinLink(r) /\ ~JoinSaveMeta(r)
           /\ ~CloseDeleteOwn(r) /\ ~CloseDeletePeer(r)
  <2>1. meta' = meta
    BY <1>6 DEF RequestStep, InitStep, StartInit, InitClear, InitSaveRendezvous,
       JoinStep, StartJoin, JoinGet, JoinDelete, JoinGetMeta, JoinClear,
       SendStep, StartSend, SendGetMeta, Push, PushExpire,
       RecvStep, StartRecv, RecvGetMeta, RecvGetList, CloseStep, StartClose, CloseGetMeta,
       Abort, store
  <2> QED BY <2>1
<1> QED BY <1>3, <1>4, <1>5, <1>6

\* What a request names it names for good, and others name nothing for it.
LEMMA Named ==
  ASSUME IInv, TokenInv, HoldInv, NEW r \in Request, RequestStep(r)
  PROVE  /\ \A q \in Request \ {r} : expires'[q] = expires[q]
         /\ now' = now
         /\ mailbox[r] # NONE /\ Kind[r] # "join" => mailbox'[r] = mailbox[r]
         /\ partner[r] # NONE /\ Kind[r] = "close" => partner'[r] = partner[r]
         /\ expires'[r] <= now + MailboxTtl
         /\ Unset(r)'
<1> USE DEF TypeOK, Unset, KindOK, InitCommands, JoinCommands, MailCommands, CloseCommands,
            Arrive, Continue, Answer, Goto, RequestOK, locals
<1>1. /\ TypeOK /\ TypeOK' /\ RequestOK(r) /\ KindOK(r) /\ Unset(r)
      /\ expires[r] <= now + MailboxTtl
  BY RequestKeepsTypes DEF IInv, TokenInv, HoldInv, Bounded
<1>2. CASE InitStep(r)
  BY <1>1, <1>2, ConstantAssumption, NoAnswerAssumption
  DEF InitStep, StartInit, InitSaveMeta, InitClear, InitSaveRendezvous
<1>3. CASE JoinStep(r)
  <2>1. ASSUME NEW m \in Mailbox, JoinGetMeta(r, m)
        PROVE  /\ \A q \in Request \ {r} : expires'[q] = expires[q]
               /\ now' = now /\ Kind[r] = "join"
               /\ expires'[r] <= now + MailboxTtl
               /\ pc'[r] \in {"join_link", "done"} /\ reply'[r] # "ok"
    <3>1. partner[r] \in Mailbox /\ Kind[r] = "join" /\ reply[r] # "ok"
      BY <1>1, <2>1 DEF JoinGetMeta
    <3>2. meta[partner[r]] # NONE => meta[partner[r]].expires <= now + MailboxTtl
      BY <3>1 DEF HoldInv, Bounded
    <3>3. now' = now /\ \/ expires' = expires
                        \/ /\ meta[partner[r]] # NONE
                           /\ expires' = [expires EXCEPT ![r] = meta[partner[r]].expires]
      BY <2>1 DEF JoinGetMeta
    <3>4. pc'[r] \in {"join_link", "done"} /\ reply'[r] # "ok"
      BY <1>1, <2>1, <3>1 DEF JoinGetMeta
    <3>5. expires'[r] <= now + MailboxTtl /\ \A q \in Request \ {r} : expires'[q] = expires[q]
      BY <1>1, <3>2, <3>3
    <3> QED BY <3>1, <3>3, <3>4, <3>5
  <2>2. ASSUME NEW m \in Mailbox, JoinGetMeta(r, m) PROVE Unset(r)'
    BY <2>1, <2>2
  <2>3. CASE (\E t \in Token : StartJoin(r, t)) \/ JoinGet(r) \/ JoinDelete(r)
    BY <1>1, <2>3, NoAnswerAssumption DEF StartJoin, JoinGet, JoinDelete
  <2>4. CASE JoinLink(r) \/ JoinSaveMeta(r) \/ JoinClear(r)
    BY <1>1, <2>4 DEF JoinLink, JoinSaveMeta, JoinClear
  <2> QED BY <1>3, <2>1, <2>2, <2>3, <2>4 DEF JoinStep
<1>4. CASE SendStep(r) \/ RecvStep(r)
  BY <1>1, <1>4, ConstantAssumption, NoAnswerAssumption
  DEF SendStep, StartSend, SendGetMeta, Push, PushExpire,
      RecvStep, StartRecv, RecvGetMeta, RecvGetList
<1>5. CASE CloseStep(r)
  BY <1>1, <1>5, ConstantAssumption, NoAnswerAssumption
  DEF CloseStep, StartClose, CloseGetMeta, CloseDeleteOwn, CloseDeletePeer
<1>6. CASE Abort(r)
  BY <1>1, <1>6 DEF Abort, InFlight
<1> QED BY <1>2, <1>3, <1>4, <1>5, <1>6 DEF RequestStep

\* A mailbox becomes stored with a whole lifetime.
LEMMA StoredEffect ==
  ASSUME IInv, TokenInv, HoldInv, NEW r \in Request, RequestStep(r), Stored(r)'
  PROVE  \/ Stored(r) /\ mailbox'[r] = mailbox[r] /\ expires'[r] = expires[r]
         \/ /\ meta'[mailbox'[r]] # NONE
            /\ meta'[mailbox'[r]].until = now + MailboxTtl
<1> USE DEF TypeOK, KindOK, InitCommands, JoinCommands, MailCommands, CloseCommands,
            Arrive, Continue, Answer, Goto, RequestOK, locals, Stored
<1>1. TypeOK /\ TypeOK' /\ RequestOK(r) /\ KindOK(r)
  BY RequestKeepsTypes DEF IInv, TokenInv
<1>2. CASE InitSaveMeta(r) \/ JoinSaveMeta(r)
  <2>1. mailbox'[r] = mailbox[r] /\ mailbox[r] \in Mailbox
    BY <1>1, <1>2 DEF InitSaveMeta, JoinSaveMeta
  <2>2. PICK p \in Mailbox \cup {NONE} : SaveMailboxMeta(mailbox[r], p, expires[r])
    BY <1>1, <1>2 DEF InitSaveMeta, JoinSaveMeta
  <2>3. [peer |-> p, expires |-> expires[r], until |-> now + MailboxTtl] # NONE
    BY <1>1, ConstantAssumption DEF Metadata
  <2> QED BY <1>1, <2>1, <2>2, <2>3 DEF SaveMailboxMeta
<1>3. CASE InitStep(r) /\ ~InitSaveMeta(r)
  BY <1>1, <1>3 DEF InitStep, StartInit, InitClear, InitSaveRendezvous
<1>4. CASE JoinStep(r) /\ ~JoinSaveMeta(r)
  <2>1. ASSUME NEW m \in Mailbox, JoinGetMeta(r, m) PROVE FALSE
    <3>1. pc'[r] \in {"join_link", "done"} /\ reply'[r] # "ok"
      BY <1>1, <2>1 DEF JoinGetMeta
    <3> QED BY <3>1
  <2>2. CASE JoinClear(r)
    BY <1>1, <2>2 DEF JoinClear
  <2>3. CASE (\E t \in Token : StartJoin(r, t)) \/ JoinGet(r) \/ JoinDelete(r) \/ JoinLink(r)
    BY <1>1, <2>3 DEF StartJoin, JoinGet, JoinDelete, JoinLink
  <2> QED BY <1>4, <2>1, <2>2, <2>3 DEF JoinStep
<1>5. CASE SendStep(r) \/ RecvStep(r)
  BY <1>1, <1>5
  DEF SendStep, StartSend, SendGetMeta, Push, PushExpire,
      RecvStep, StartRecv, RecvGetMeta, RecvGetList
<1>6. CASE CloseStep(r)
  BY <1>1, <1>6 DEF CloseStep, StartClose, CloseGetMeta, CloseDeleteOwn, CloseDeletePeer
<1>7. CASE Abort(r)
  BY <1>1, <1>7 DEF Abort, InFlight
<1> QED BY <1>2, <1>3, <1>4, <1>5, <1>6, <1>7 DEF RequestStep

\* A stored mailbox is one.
LEMMA StoredMailbox ==
  ASSUME IInv, HoldInv, NEW q \in Request, Stored(q) PROVE mailbox[q] \in Mailbox
BY DEF IInv, HoldInv, Stored, Unset, RequestOK

\* A step of a request holds every mailbox that is not closed.
LEMMA HoldKept ==
  ASSUME IInv, TokenInv, HoldInv, NEW r \in Request, RequestStep(r) PROVE HoldInv'
<1>1. TypeOK /\ TypeOK' /\ IInv' /\ \A q \in Request : KindOK(q)
  BY RequestStepIInv DEF IInv, TokenInv
<1>2. /\ \A q \in Request \ {r} : expires'[q] = expires[q]
      /\ now' = now
      /\ mailbox[r] # NONE /\ Kind[r] # "join" => mailbox'[r] = mailbox[r]
      /\ partner[r] # NONE /\ Kind[r] = "close" => partner'[r] = partner[r]
      /\ expires'[r] <= now + MailboxTtl
      /\ Unset(r)'
  BY Named
<1>3. \A q \in Request \ {r} : /\ mailbox'[q] = mailbox[q] /\ partner'[q] = partner[q]
                               /\ pc'[q] = pc[q] /\ reply'[q] = reply[q]
  BY <1>1, Frame, Progress
<1>4. \A q \in Request : Unset(q)'
  BY <1>2, <1>3 DEF HoldInv, Unset
<1>5. Bounded'
  BY <1>2, MetaWritten DEF HoldInv, Bounded
<1>6. NONE \notin Mailbox /\ MailboxTtl \in Nat
  BY ConstantAssumption
<1>7. ASSUME NEW c \in Request, NEW m \in Mailbox, Closes(c, m) PROVE Closes(c, m)'
  BY <1>2, <1>3, <1>6, <1>7 DEF Closes
<1>8. ASSUME NEW q \in Request, Stored(q)' PROVE HeldOn(q)'
  <2>1. CASE Stored(q) /\ mailbox'[q] = mailbox[q] /\ expires'[q] = expires[q]
    <3>1. mailbox[q] \in Mailbox /\ HeldOn(q)
      BY <2>1, StoredMailbox DEF HoldInv
    <3> DEFINE m == mailbox[q]
    <3>2. expires[q] <= now + MailboxTtl /\ expires[q] \in Nat
      BY <1>1 DEF HoldInv, Bounded, TypeOK
    <3>3. CASE \E c \in Request : Closes(c, m)
      BY <1>7, <2>1, <3>1, <3>3 DEF HeldOn
    <3>4. CASE now >= expires[q]
      BY <1>2, <2>1, <3>4 DEF HeldOn
    <3>5. CASE meta[m] # NONE /\ meta[m].until >= expires[q]
      <4>1. CASE meta'[m] = meta[m]
        BY <2>1, <3>5, <4>1 DEF HeldOn
      <4>2. CASE meta'[m] # NONE /\ meta'[m].until = now + MailboxTtl
        BY <2>1, <3>2, <4>2 DEF HeldOn
      <4>3. CASE Kind[r] = "close" /\ m \in {mailbox'[r], partner'[r]}
        BY <2>1, <4>3 DEF HeldOn, Closes
      <4> QED BY <3>1, <4>1, <4>2, <4>3, MetaWritten
    <3> QED BY <3>1, <3>3, <3>4, <3>5 DEF HeldOn
  <2>2. CASE q = r /\ meta'[mailbox'[r]] # NONE /\ meta'[mailbox'[r]].until = now + MailboxTtl
    BY <1>1, <1>2, <2>2 DEF HeldOn, TypeOK
  <2>3. q # r => Stored(q) /\ mailbox'[q] = mailbox[q] /\ expires'[q] = expires[q]
    BY <1>2, <1>3, <1>8 DEF Stored
  <2> QED BY <1>8, <2>1, <2>2, <2>3, StoredEffect
<1> QED BY <1>4, <1>5, <1>8 DEF HoldInv

\* A mailbox that expires does so after its expiry has been reached.
LEMMA HoldTick ==
  ASSUME IInv, HoldInv, Tick PROVE HoldInv'
<1>1. TypeOK /\ MailboxTtl \in Nat
  BY ConstantAssumption DEF IInv
<1>2. now' = now + 1 /\ UNCHANGED <<mailbox, partner, expires, pc, reply>>
  BY DEF Tick, locals
<1>3. \A m \in Mailbox : \/ meta'[m] = meta[m]
                         \/ meta'[m] = NONE /\ meta[m] # NONE /\ meta[m].until <= now + 1
  BY DEF Tick
<1>4. \A q \in Request : Unset(q)'
  BY <1>2 DEF HoldInv, Unset
<1>5. Bounded'
  <2>1. \A q \in Request : expires'[q] <= now' + MailboxTtl
    BY <1>1, <1>2 DEF HoldInv, Bounded, TypeOK
  <2>2. ASSUME NEW m \in Mailbox, meta'[m] # NONE PROVE meta'[m].expires <= now' + MailboxTtl
    <3>1. meta'[m] = meta[m] /\ meta[m].expires <= now + MailboxTtl
      BY <1>3, <2>2 DEF HoldInv, Bounded
    <3>2. meta[m].expires \in Nat
      BY <1>1, <2>2, <3>1 DEF TypeOK, Metadata
    <3> QED BY <1>1, <1>2, <3>1, <3>2 DEF TypeOK
  <2> QED BY <2>1, <2>2 DEF Bounded
<1>6. ASSUME NEW q \in Request, Stored(q)' PROVE HeldOn(q)'
  <2>1. Stored(q) /\ mailbox[q] \in Mailbox /\ HeldOn(q)
    BY <1>2, <1>6, StoredMailbox DEF HoldInv, Stored
  <2>2. now \in Nat /\ expires[q] \in Nat
    BY <1>1 DEF TypeOK
  <2>3. CASE now >= expires[q]
    BY <1>2, <2>2, <2>3 DEF HeldOn
  <2>4. CASE \E c \in Request : Closes(c, mailbox[q])
    BY <1>2, <2>4 DEF HeldOn, Closes
  <2>5. CASE meta[mailbox[q]] # NONE /\ meta[mailbox[q]].until >= expires[q]
    <3>1. meta[mailbox[q]].until \in Nat
      BY <1>1, <2>1, <2>5 DEF TypeOK, Metadata
    <3>2. CASE meta'[mailbox[q]] = meta[mailbox[q]]
      BY <1>2, <2>5, <3>2 DEF HeldOn
    <3>3. CASE meta[mailbox[q]].until <= now + 1
      BY <1>2, <2>2, <2>5, <3>1, <3>3 DEF HeldOn
    <3> QED BY <1>3, <2>1, <3>2, <3>3
  <2> QED BY <2>1, <2>3, <2>4, <2>5 DEF HeldOn
<1> QED BY <1>4, <1>5, <1>6 DEF HoldInv

\* A stored mailbox is held, for any lifetimes and requests.
THEOREM MailboxesHeld == Spec => []HoldInv
<1>1. Init => HoldInv
  BY ConstantAssumption, NoAnswerAssumption
  DEF Init, HoldInv, Unset, Bounded, Stored
<1>2. IInv /\ TokenInv /\ HoldInv /\ [Next]_vars => HoldInv'
  <2>1. ASSUME HoldInv, UNCHANGED vars PROVE HoldInv'
    BY <2>1 DEF vars, HoldInv, Unset, Bounded, Stored, HeldOn, Closes
  <2> QED BY <2>1, HoldKept, HoldTick DEF Next
<1> QED BY <1>1, <1>2, Inductive, TokensMadeOnce, PTL DEF Spec

\* Until the expiry the server has answered, the mailbox exists or was closed.
THEOREM HeldAsAnswered == Spec => []HeldUntilExpiry
<1>1. IInv /\ HoldInv => HeldUntilExpiry
  <2> SUFFICES ASSUME IInv, HoldInv, NEW q \in Request,
                      Kind[q] \in {"init", "join"}, reply[q] = "ok",
                      now < expires[q], meta[mailbox[q]] = NONE
               PROVE  \E c \in Request : Closes(c, mailbox[q])
    BY DEF HeldUntilExpiry
  <2>1. HeldOn(q)
    BY DEF HoldInv, Stored
  <2>2. ~(now >= expires[q])
    BY DEF IInv, TypeOK
  <2> QED BY <2>1, <2>2 DEF HeldOn
<1> QED BY <1>1, Inductive, MailboxesHeld, PTL
-----------------------------------------------------------------------------
(* Whose mailbox is whose.                                                 *)

Makes(r) == Kind[r] \in {"init", "join"}

\* Mailbox i was returned by an init.
Answered(i) == \E p \in Request : Kind[p] = "init" /\ reply[p] = "ok" /\ mailbox[p] = i

\* What an init or a join has made, and what a send was given.
MakerOK(r) ==
  /\ Kind[r] = "init" /\ mailbox[r] # NONE => session[mailbox[r]] = mailbox[r]
  /\ Kind[r] = "join" =>
       /\ pc[r] \in {"idle", "join_get"} => partner[r] = NONE
       /\ pc[r] \in {"idle", "join_get", "join_delete", "join_get_meta"} => mailbox[r] = NONE
       /\ partner[r] # NONE => Answered(partner[r])
       /\ mailbox[r] # NONE => /\ partner[r] # NONE
                               /\ mailbox[r] # partner[r]
                               /\ session[mailbox[r]] = partner[r]
  /\ pc[r] = "send_get_meta" => Held(mailbox[r])

\* One request made each mailbox.
OneMakerEach == \A p, q \in Request :
  Makes(p) /\ Makes(q) /\ mailbox[p] = mailbox[q] /\ mailbox[p] # NONE => p = q

MappedDone == \A t \in Token : rendezvous[t] # NONE => Answered(rendezvous[t].mailbox)

MakerInv ==
  /\ \A r \in Request : MakerOK(r)
  /\ OneMakerEach
  /\ MappedDone

\* The mailboxes of an init and a join are set once, and answers are kept.
LEMMA MadeOnce ==
  ASSUME IInv, TokenInv, HoldInv, MakerInv, NEW r \in Request, RequestStep(r)
  PROVE  /\ Makes(r) /\ mailbox[r] # NONE => mailbox'[r] = mailbox[r]
         /\ Kind[r] = "join" /\ partner[r] # NONE => partner'[r] = partner[r]
         /\ \A i : Answered(i) => Answered(i)'
         /\ \A m : Held(m) => Held(m)'
<1>1. TypeOK /\ KindOK(r) /\ MakerOK(r) /\ \A q \in Request : KindOK(q)
  BY DEF IInv, TokenInv, MakerInv
<1>2. \A q \in Request \ {r} : mailbox'[q] = mailbox[q] /\ reply'[q] = reply[q]
  BY <1>1, Frame, Progress
<1>3. \A q \in Request : reply[q] = "ok" => q # r
  BY <1>1, Progress DEF KindOK
<1>4. (\A i : Answered(i) => Answered(i)') /\ (\A m : Held(m) => Held(m)')
  BY <1>2, <1>3 DEF Answered, Held
<1>5. CASE Kind[r] # "join"
  BY <1>4, <1>5, Named
<1>6. CASE Kind[r] = "join"
  <2> USE DEF TypeOK, KindOK, MakerOK, InitCommands, JoinCommands, MailCommands, CloseCommands,
              Arrive, Continue, Answer, Goto, locals
  <2>1. CASE InitStep(r) \/ RecvStep(r) \/ CloseStep(r)
    BY <1>1, <1>6, <2>1 DEF InitStep, StartInit, InitSaveMeta, InitClear, InitSaveRendezvous,
       RecvStep, StartRecv, RecvGetMeta, RecvGetList,
       CloseStep, StartClose, CloseGetMeta, CloseDeleteOwn, CloseDeletePeer
  <2>2. CASE SendStep(r)
    BY <1>1, <1>4, <1>6, <2>2 DEF SendStep, StartSend, SendGetMeta, Push, PushExpire
  <2>3. CASE Abort(r)
    BY <1>4, <2>3 DEF Abort
  <2>4. CASE JoinStep(r)
    <3>1. ASSUME NEW m \in Mailbox, JoinGetMeta(r, m)
          PROVE  mailbox[r] = NONE /\ partner' = partner
      BY <1>1, <1>6, <3>1 DEF JoinGetMeta
    <3>2. CASE JoinGet(r)
      BY <1>1, <1>4, <1>6, <3>2 DEF JoinGet
    <3>3. CASE (\E t \in Token : StartJoin(r, t)) \/ JoinDelete(r) \/ JoinLink(r)
                 \/ JoinSaveMeta(r) \/ JoinClear(r)
      BY <1>4, <3>3 DEF StartJoin, JoinDelete, JoinLink, JoinSaveMeta, JoinClear
    <3> QED BY <1>4, <2>4, <3>1, <3>2, <3>3 DEF JoinStep
  <2> QED BY <2>1, <2>2, <2>3, <2>4 DEF RequestStep
<1> QED BY <1>5, <1>6

\* A mailbox of a maker is in a session.
LEMMA MadeInSession ==
  ASSUME MakerInv, NEW q \in Request, Makes(q), mailbox[q] # NONE
  PROVE  session[mailbox[q]] # NONE
BY DEF MakerInv, MakerOK, Makes

\* A mailbox is made for its request, which keeps what it has read.
LEMMA MakerEffect ==
  ASSUME IInv, TokenInv, HoldInv, MakerInv, NEW r \in Request, RequestStep(r)
  PROVE  /\ MakerOK(r)'
         /\ Makes(r) => mailbox'[r] = mailbox[r] \/ session[mailbox'[r]] = NONE
<1>1. /\ TypeOK /\ KindOK(r) /\ RequestOK(r) /\ MakerOK(r) /\ LinksOK /\ MappedDone
      /\ \A m \in Mailbox : session[m] # NONE => session'[m] = session[m]
      /\ \A i : Answered(i) => Answered(i)'
      /\ \A m : Held(m) => Held(m)'
  BY MadeOnce, Frame DEF IInv, TokenInv, MakerInv
<1>2. NONE \notin Mailbox
  BY ConstantAssumption
<1>3. CASE /\ UNCHANGED <<mailbox, partner>>
           /\ pc'[r] \notin {"idle", "join_get", "send_get_meta"}
           /\ pc'[r] = "join_get_meta" => pc[r] = "join_delete"
           /\ pc'[r] # "join_delete"
  <2>1. mailbox[r] # NONE /\ Makes(r) => session'[mailbox[r]] = session[mailbox[r]]
    BY <1>1, MadeInSession DEF TypeOK
  <2>2. Answered(partner[r]) => Answered(partner[r])'
    BY <1>1, <1>3
  <2> QED BY <1>1, <1>3, <2>1, <2>2 DEF MakerOK, Makes
<1> USE DEF TypeOK, KindOK, InitCommands, JoinCommands, MailCommands, CloseCommands,
            Arrive, Continue, Answer, Goto, locals
<1>4. CASE InitStep(r)
  <2>1. ASSUME NEW t \in Token, NEW m \in Mailbox, StartInit(r, t, m)
        PROVE  MakerOK(r)' /\ session[mailbox'[r]] = NONE
    BY <1>1, <1>2, <2>1 DEF StartInit, Fresh, MakerOK
  <2> QED BY <1>1, <1>3, <1>4, <2>1 DEF InitStep, InitSaveMeta, InitClear, InitSaveRendezvous
<1>5. CASE JoinStep(r)
  <2>1. ASSUME NEW t \in Token, StartJoin(r, t) PROVE MakerOK(r)' /\ mailbox'[r] = mailbox[r]
    BY <1>1, <1>2, <2>1 DEF StartJoin, MakerOK
  <2>2. CASE JoinGet(r)
    <3>1. Kind[r] = "join" /\ mailbox' = mailbox /\ mailbox[r] = NONE /\ token[r] \in Token
      BY <1>1, <2>2 DEF JoinGet, MakerOK, RequestOK
    <3>2. CASE rendezvous[token[r]] = NONE
      BY <1>1, <1>2, <2>2, <3>1, <3>2 DEF JoinGet, MakerOK
    <3>3. CASE rendezvous[token[r]] # NONE
      <4>1. Answered(rendezvous[token[r]].mailbox)
        BY <1>1, <3>1, <3>3 DEF MappedDone
      <4>2. partner'[r] = rendezvous[token[r]].mailbox /\ pc'[r] = "join_delete"
        BY <1>1, <2>2, <3>3 DEF JoinGet
      <4>3. PICK i : i = rendezvous[token[r]].mailbox
        OBVIOUS
      <4>4. Answered(i)' /\ partner'[r] = i
        BY <1>1, <4>1, <4>2, <4>3
      <4> QED BY <3>1, <4>2, <4>4 DEF MakerOK
    <3> QED BY <3>2, <3>3
  <2>3. ASSUME NEW m \in Mailbox, JoinGetMeta(r, m)
        PROVE  MakerOK(r)' /\ (mailbox'[r] = mailbox[r] \/ session[mailbox'[r]] = NONE)
    <3>1. /\ Kind[r] = "join" /\ partner' = partner /\ mailbox[r] = NONE
          /\ partner[r] \in Mailbox /\ session[partner[r]] = partner[r]
          /\ Answered(partner[r])
      BY <1>1, <1>2, <2>3 DEF JoinGetMeta, MakerOK, RequestOK
    <3>2. \/ pc'[r] = "done" /\ mailbox' = mailbox
          \/ /\ pc'[r] = "join_link" /\ mailbox'[r] = m
             /\ session[m] = NONE /\ session'[m] = partner[r]
      BY <1>1, <2>3 DEF JoinGetMeta, Fresh
    <3>3. Answered(partner[r])'
      BY <1>1, <3>1
    <3> QED BY <1>2, <3>1, <3>2, <3>3 DEF MakerOK
  <2>4. CASE JoinDelete(r) \/ JoinLink(r) \/ JoinSaveMeta(r) \/ JoinClear(r)
    BY <1>1, <1>3, <2>4 DEF JoinDelete, JoinLink, JoinSaveMeta, JoinClear
  <2> QED BY <1>5, <2>1, <2>2, <2>3, <2>4 DEF JoinStep
<1>6. CASE SendStep(r)
  <2>1. ASSUME NEW m \in Mailbox, StartSend(r, m) PROVE MakerOK(r)' /\ ~Makes(r)
    BY <1>1, <2>1 DEF StartSend, MaySend, MakerOK, Makes
  <2>2. CASE SendGetMeta(r)
    BY <1>1, <2>2 DEF SendGetMeta, MakerOK, Makes
  <2>3. CASE Push(r) \/ PushExpire(r)
    BY <1>1, <1>3, <2>3 DEF Push, PushExpire
  <2> QED BY <1>6, <2>1, <2>2, <2>3 DEF SendStep
<1>7. CASE RecvStep(r)
  BY <1>1, <1>7 DEF RecvStep, StartRecv, RecvGetMeta, RecvGetList, MakerOK, Makes
<1>8. CASE CloseStep(r)
  BY <1>1, <1>8 DEF CloseStep, StartClose, CloseGetMeta, CloseDeleteOwn, CloseDeletePeer,
                    MakerOK, Makes
<1>9. CASE Abort(r)
  BY <1>1, <1>3, <1>9 DEF Abort, InFlight
<1> QED BY <1>4, <1>5, <1>6, <1>7, <1>8, <1>9 DEF RequestStep

\* A mapping is stored by the init that is answered with it.
LEMMA MappedEffect ==
  ASSUME IInv, TokenInv, NEW r \in Request, RequestStep(r), NEW t \in Token
  PROVE  \/ rendezvous'[t] \in {rendezvous[t], NONE}
         \/ /\ Kind[r] = "init" /\ reply'[r] = "ok"
            /\ rendezvous'[t].mailbox = mailbox'[r]
<1> USE DEF TypeOK, KindOK, InitCommands, Continue, Answer, Goto, locals, store
<1>1. TypeOK /\ KindOK(r)
  BY DEF IInv, TokenInv
<1>2. CASE InitSaveRendezvous(r)
  BY <1>1, <1>2 DEF InitSaveRendezvous
<1>3. CASE JoinDelete(r)
  BY <1>1, <1>3 DEF JoinDelete
<1>4. CASE ~InitSaveRendezvous(r) /\ ~JoinDelete(r)
  BY <1>4 DEF RequestStep, InitStep, StartInit, InitSaveMeta, InitClear,
     JoinStep, StartJoin, JoinGet, JoinGetMeta, JoinLink, JoinSaveMeta, JoinClear,
     SendStep, StartSend, SendGetMeta, Push, PushExpire,
     RecvStep, StartRecv, RecvGetMeta, RecvGetList,
     CloseStep, StartClose, CloseGetMeta, CloseDeleteOwn, CloseDeletePeer, Abort
<1> QED BY <1>2, <1>3, <1>4

\* MakerInv survives every command.
LEMMA MakerKept ==
  ASSUME IInv, TokenInv, HoldInv, MakerInv, NEW r \in Request, RequestStep(r)
  PROVE  MakerInv'
<1>1. /\ TypeOK /\ \A q \in Request : KindOK(q) /\ MakerOK(q)
      /\ OneMakerEach /\ MappedDone
  BY DEF IInv, TokenInv, MakerInv
<1>2. /\ \A q \in Request \ {r} : /\ mailbox'[q] = mailbox[q] /\ partner'[q] = partner[q]
                                  /\ pc'[q] = pc[q] /\ reply'[q] = reply[q]
      /\ \A m \in Mailbox : session[m] # NONE => session'[m] = session[m]
  BY <1>1, Frame, Progress
<1>3. /\ \A i : Answered(i) => Answered(i)'
      /\ \A m : Held(m) => Held(m)'
  BY MadeOnce
<1>4. NONE \notin Mailbox
  BY ConstantAssumption
<1>5. ASSUME NEW q \in Request, q # r PROVE MakerOK(q)'
  <2>1. MakerOK(q) /\ mailbox[q] \in Mailbox \cup {NONE}
    BY <1>1 DEF TypeOK
  <2>2. mailbox[q] # NONE /\ Makes(q) => session'[mailbox[q]] = session[mailbox[q]]
    BY <1>2, <2>1, MadeInSession
  <2>3. Answered(partner[q]) => Answered(partner[q])'
    BY <1>2, <1>3, <1>5
  <2>4. Held(mailbox[q]) => Held(mailbox[q])'
    BY <1>2, <1>3, <1>5
  <2> QED BY <1>2, <1>5, <2>1, <2>2, <2>3, <2>4 DEF MakerOK, Makes
<1>6. OneMakerEach'
  <2> SUFFICES ASSUME NEW p \in Request, NEW q \in Request, Makes(p), Makes(q),
                      mailbox'[p] = mailbox'[q], mailbox'[p] # NONE, p # q
               PROVE  FALSE
    BY DEF OneMakerEach, Makes
  <2>1. CASE mailbox'[p] = mailbox[p] /\ mailbox'[q] = mailbox[q]
    BY <1>1, <2>1 DEF OneMakerEach
  <2>2. CASE p = r /\ session[mailbox'[p]] = NONE
    BY <1>2, <2>2, MadeInSession
  <2>3. CASE q = r /\ session[mailbox'[q]] = NONE
    BY <1>2, <2>3, MadeInSession
  <2> QED BY <1>2, <2>1, <2>2, <2>3, MakerEffect
<1>7. MappedDone'
  <2> SUFFICES ASSUME NEW t \in Token, rendezvous'[t] # NONE
               PROVE  Answered(rendezvous[t].mailbox)'
    BY DEF MappedDone
  <2>1. CASE rendezvous'[t] = rendezvous[t]
    <3>1. Answered(rendezvous[t].mailbox)
      BY <1>1, <2>1 DEF MappedDone
    <3> DEFINE i == rendezvous[t].mailbox
    <3>2. PICK j : j = i
      OBVIOUS
    <3>3. Answered(j)'
      BY <1>3, <3>1, <3>2
    <3> QED BY <2>1, <3>2, <3>3
  <2>2. CASE Kind[r] = "init" /\ reply'[r] = "ok" /\ rendezvous'[t].mailbox = mailbox'[r]
    BY <2>2 DEF Answered
  <2> QED BY <2>1, <2>2, MappedEffect
<1> QED BY <1>5, <1>6, <1>7, MakerEffect DEF MakerInv

\* Time and stuttering make nothing.
LEMMA MakerIdle ==
  ASSUME MakerInv, Tick \/ UNCHANGED vars PROVE MakerInv'
<1>1. UNCHANGED <<mailbox, partner, pc, reply, session>>
  BY DEF Tick, vars, locals
<1>2. \A t \in Token : rendezvous'[t] \in {rendezvous[t], NONE}
  BY DEF Tick, vars
<1>3. (\A r \in Request : MakerOK(r)') /\ OneMakerEach'
  BY <1>1 DEF MakerInv, MakerOK, OneMakerEach, Answered, Held
<1>4. MappedDone'
  BY <1>1, <1>2 DEF MakerInv, MappedDone, Answered
<1> QED BY <1>3, <1>4 DEF MakerInv

\* Every mailbox comes from the one request that made it.
THEOREM MailboxesMade == Spec => []MakerInv
<1>1. Init => MakerInv
  BY DEF Init, MakerInv, MakerOK, OneMakerEach, MappedDone, Answered
<1>2. IInv /\ TokenInv /\ HoldInv /\ MakerInv /\ [Next]_vars => MakerInv'
  BY MakerKept, MakerIdle DEF Next
<1> QED BY <1>1, <1>2, Inductive, TokensMadeOnce, MailboxesHeld, PTL DEF Spec

\* What an init returned no join made, and its init has written it.
LEMMA AnsweredApart ==
  ASSUME TypeOK, TokenInv, MakerInv, NEW i, i # NONE, Answered(i), NEW r \in Request, mailbox[r] = i
  PROVE  Kind[r] # "join" /\ pc[r] \notin InitCommands
<1>1. PICK p \in Request : Kind[p] = "init" /\ reply[p] = "ok" /\ mailbox[p] = i
  BY DEF Answered
<1>2. Makes(r) => p = r
  BY <1>1 DEF MakerInv, OneMakerEach, Makes
<1>3. KindOK(r)
  BY DEF TokenInv
<1> QED BY <1>1, <1>2, <1>3 DEF KindOK, Makes, InitCommands
-----------------------------------------------------------------------------
(* A join links both sides.                                                *)

\* Join q has linked the initiator's mailbox, and then its own.
First(q)  == pc[q] \in {"join_save_meta", "join_clear", "push", "expire"} \/ reply[q] = "ok"
Second(q) == pc[q] \in {"join_clear", "push", "expire"} \/ reply[q] = "ok"

\* As long as mailbox n exists it has the link join q gave it.
Linked(q, n, peer) == meta[n] # NONE => meta[n].peer = peer /\ meta[n].expires = expires[q]

LinkOK(q) ==
  /\ First(q) => Linked(q, partner[q], mailbox[q])
  /\ Second(q) => Linked(q, mailbox[q], partner[q])

LinkInv == RedeemedOnce => \A q \in Request : Kind[q] = "join" => LinkOK(q)

\* Two joins of one token stay two.
LEMMA RedeemedBefore ==
  ASSUME IInv, TokenInv, HoldInv, MakerInv, NEW r \in Request, RequestStep(r), RedeemedOnce'
  PROVE  RedeemedOnce
<1>1. \A q \in Request : Kind[q] = "join" /\ partner[q] # NONE => partner'[q] = partner[q]
  BY Frame, MadeOnce
<1> QED BY <1>1 DEF RedeemedOnce

\* Who writes the metadata of which mailbox.
LEMMA MetaWriters ==
  ASSUME IInv, NEW r \in Request, RequestStep(r), NEW m \in Mailbox
  PROVE  \/ meta'[m] \in {meta[m], NONE}
         \/ InitSaveMeta(r) /\ m = mailbox[r]
         \/ JoinLink(r) /\ m = partner[r]
         \/ JoinSaveMeta(r) /\ m = mailbox[r]
<1>1. meta \in [Mailbox -> Metadata \cup {NONE}]
  BY DEF IInv, TypeOK
<1>2. CASE InitSaveMeta(r) \/ JoinLink(r) \/ JoinSaveMeta(r)
  BY <1>1, <1>2 DEF InitSaveMeta, JoinLink, JoinSaveMeta, SaveMailboxMeta
<1>3. CASE CloseDeleteOwn(r) \/ CloseDeletePeer(r)
  BY <1>1, <1>3 DEF CloseDeleteOwn, CloseDeletePeer, DeleteMailbox
<1>4. CASE /\ ~InitSaveMeta(r) /\ ~JoinLink(r) /\ ~JoinSaveMeta(r)
           /\ ~CloseDeleteOwn(r) /\ ~CloseDeletePeer(r)
  BY <1>4 DEF RequestStep, InitStep, StartInit, InitClear, InitSaveRendezvous,
     JoinStep, StartJoin, JoinGet, JoinDelete, JoinGetMeta, JoinClear,
     SendStep, StartSend, SendGetMeta, Push, PushExpire,
     RecvStep, StartRecv, RecvGetMeta, RecvGetList, CloseStep, StartClose, CloseGetMeta,
     Abort, store
<1> QED BY <1>2, <1>3, <1>4

\* A join that has linked a side did so with what it still holds.
LEMMA LinkEffect ==
  ASSUME IInv, TokenInv, NEW r \in Request, Kind[r] = "join", RequestStep(r)
  PROVE  /\ First(r)' => JoinLink(r) \/ (First(r) /\ UNCHANGED <<mailbox, partner, expires>>)
         /\ Second(r)' => JoinSaveMeta(r) \/ (Second(r) /\ UNCHANGED <<mailbox, partner, expires>>)
<1> USE DEF TypeOK, KindOK, InitCommands, JoinCommands, MailCommands, CloseCommands,
            Arrive, Continue, Answer, Goto, locals, First, Second
<1>1. TypeOK /\ KindOK(r)
  BY DEF IInv, TokenInv
<1>2. CASE InitStep(r) \/ RecvStep(r) \/ CloseStep(r)
  BY <1>1, <1>2 DEF InitStep, StartInit, InitSaveMeta, InitClear, InitSaveRendezvous,
     RecvStep, StartRecv, RecvGetMeta, RecvGetList,
     CloseStep, StartClose, CloseGetMeta, CloseDeleteOwn, CloseDeletePeer
<1>3. CASE SendStep(r)
  BY <1>1, <1>3 DEF SendStep, StartSend, SendGetMeta, Push, PushExpire
<1>4. CASE JoinStep(r)
  <2>1. ASSUME NEW m \in Mailbox, JoinGetMeta(r, m) PROVE ~First(r)'
    <3>1. pc'[r] \in {"join_link", "done"} /\ reply'[r] # "ok"
      BY <1>1, <2>1 DEF JoinGetMeta
    <3> QED BY <3>1
  <2>2. CASE (\E t \in Token : StartJoin(r, t)) \/ JoinGet(r) \/ JoinDelete(r)
    BY <1>1, <2>2 DEF StartJoin, JoinGet, JoinDelete
  <2>3. CASE JoinLink(r) \/ JoinSaveMeta(r) \/ JoinClear(r)
    BY <1>1, <2>3 DEF JoinLink, JoinSaveMeta, JoinClear
  <2>4. Second(r)' => First(r)'
    OBVIOUS
  <2> QED BY <1>4, <2>1, <2>2, <2>3, <2>4 DEF JoinStep
<1>5. CASE Abort(r)
  BY <1>1, <1>5 DEF Abort, InFlight
<1> QED BY <1>2, <1>3, <1>4, <1>5 DEF RequestStep

\* A linking join has two mailboxes, the first of which an init returned.
LEMMA LinkedMailboxes ==
  ASSUME IInv, HoldInv, MakerInv, NEW q \in Request, Kind[q] = "join", First(q)
  PROVE  /\ mailbox[q] \in Mailbox /\ partner[q] \in Mailbox
         /\ mailbox[q] # partner[q]
         /\ Answered(partner[q])
<1>1. TypeOK /\ RequestOK(q) /\ Unset(q) /\ MakerOK(q) /\ NONE \notin Mailbox
  BY ConstantAssumption DEF IInv, HoldInv, MakerInv
<1>2. mailbox[q] \in Mailbox
  BY <1>1 DEF First, RequestOK, Unset
<1> QED BY <1>1, <1>2 DEF MakerOK, TypeOK

\* What join q has linked only its own commands rewrite, as long as no other
\* join has its partner.
LEMMA MetaKept ==
  ASSUME IInv, TokenInv, HoldInv, MakerInv, NEW r \in Request, RequestStep(r), RedeemedOnce',
         NEW q \in Request, Kind[q] = "join", First(q)
  PROVE  /\ meta'[partner[q]] \in {meta[partner[q]], NONE}
         /\ (JoinSaveMeta(r) /\ r = q) \/ meta'[mailbox[q]] \in {meta[mailbox[q]], NONE}
<1>1. /\ TypeOK /\ RedeemedOnce /\ KindOK(r) /\ KindOK(q) /\ RequestOK(r)
      /\ mailbox[q] \in Mailbox /\ partner[q] \in Mailbox
      /\ mailbox[q] # partner[q]
      /\ Answered(partner[q])
      /\ NONE \notin Mailbox
  BY RedeemedBefore, LinkedMailboxes, ConstantAssumption DEF IInv, TokenInv
<1>2. CASE InitSaveMeta(r)
  <2>1. Kind[r] = "init" /\ pc[r] \in InitCommands
    BY <1>1, <1>2 DEF InitSaveMeta, Continue, Goto, KindOK, InitCommands
  <2>2. mailbox[r] # partner[q]
    BY <1>1, <2>1, AnsweredApart
  <2>3. mailbox[r] # mailbox[q]
    BY <1>1, <2>1 DEF MakerInv, OneMakerEach, Makes
  <2> QED BY <1>1, <1>2, <2>2, <2>3, MetaWriters DEF JoinLink, JoinSaveMeta, InitSaveMeta, Continue, Goto
<1>3. CASE JoinLink(r)
  <2>1. Kind[r] = "join" /\ pc[r] = "join_link" /\ mailbox[r] \in Mailbox /\ partner[r] \in Mailbox
    BY <1>1, <1>3 DEF JoinLink, Continue, Goto, KindOK, JoinCommands, RequestOK
  <2>2. r # q
    BY <1>1, <2>1 DEF First, KindOK
  <2>3. partner[r] # partner[q]
    BY <1>1, <2>1, <2>2 DEF RedeemedOnce
  <2>4. Answered(partner[r])
    BY <1>1, <2>1 DEF MakerInv, MakerOK
  <2>5. partner[r] # mailbox[q]
    BY <1>1, <2>1, <2>4, AnsweredApart
  <2> QED BY <1>1, <1>3, <2>3, <2>5, MetaWriters DEF JoinLink, JoinSaveMeta, InitSaveMeta, Continue, Goto
<1>4. CASE JoinSaveMeta(r)
  <2>1. Kind[r] = "join" /\ pc[r] = "join_save_meta"
    BY <1>1, <1>4 DEF JoinSaveMeta, Continue, Goto, KindOK, JoinCommands
  <2>2. mailbox[r] # partner[q]
    BY <1>1, <2>1, AnsweredApart
  <2>3. r = q \/ mailbox[r] # mailbox[q]
    BY <1>1, <2>1 DEF MakerInv, OneMakerEach, Makes
  <2> QED BY <1>1, <1>4, <2>2, <2>3, MetaWriters DEF JoinLink, JoinSaveMeta, InitSaveMeta, Continue, Goto
<1>5. CASE ~InitSaveMeta(r) /\ ~JoinLink(r) /\ ~JoinSaveMeta(r)
  BY <1>1, <1>5, MetaWriters
<1> QED BY <1>2, <1>3, <1>4, <1>5

\* LinkInv survives every command.
LEMMA LinkKept ==
  ASSUME IInv, TokenInv, HoldInv, MakerInv, LinkInv, NEW r \in Request, RequestStep(r)
  PROVE  LinkInv'
<1> SUFFICES ASSUME RedeemedOnce', NEW q \in Request, Kind[q] = "join" PROVE LinkOK(q)'
  BY DEF LinkInv
<1>1. TypeOK /\ RedeemedOnce /\ LinkOK(q) /\ \A p \in Request : KindOK(p)
  BY RedeemedBefore DEF IInv, TokenInv, LinkInv
<1>2. /\ First(q)' => (r = q /\ JoinLink(r)) \/ (First(q) /\ mailbox'[q] = mailbox[q]
                          /\ partner'[q] = partner[q] /\ expires'[q] = expires[q])
      /\ Second(q)' => (r = q /\ JoinSaveMeta(r)) \/ (Second(q) /\ mailbox'[q] = mailbox[q]
                          /\ partner'[q] = partner[q] /\ expires'[q] = expires[q])
  <2>1. CASE q = r
    BY <2>1, LinkEffect
  <2>2. CASE q # r
    BY <1>1, <2>2, Frame, Progress, Named DEF First, Second
  <2> QED BY <2>1, <2>2
<1>3. ASSUME First(q)' PROVE Linked(q, partner[q], mailbox[q])'
  <2>1. CASE r = q /\ JoinLink(r)
    <3>1. partner[r] \in Mailbox
      BY <2>1 DEF IInv, RequestOK, JoinLink, Continue, Goto
    <3>2. /\ meta' = [meta EXCEPT ![partner[r]] =
                        [peer |-> mailbox[r], expires |-> expires[r], until |-> now + MailboxTtl]]
          /\ UNCHANGED <<mailbox, partner, expires>>
      BY <2>1 DEF JoinLink, SaveMailboxMeta, locals
    <3>3. meta'[partner[r]] = [peer |-> mailbox[r], expires |-> expires[r], until |-> now + MailboxTtl]
      BY <1>1, <3>1, <3>2 DEF TypeOK
    <3> QED BY <2>1, <3>2, <3>3 DEF Linked
  <2>2. CASE First(q) /\ mailbox'[q] = mailbox[q] /\ partner'[q] = partner[q] /\ expires'[q] = expires[q]
    BY <1>1, <2>2, MetaKept DEF LinkOK, Linked
  <2> QED BY <1>2, <1>3, <2>1, <2>2
<1>4. ASSUME Second(q)' PROVE Linked(q, mailbox[q], partner[q])'
  <2>1. CASE r = q /\ JoinSaveMeta(r)
    <3>1. mailbox[r] \in Mailbox
      BY <2>1 DEF IInv, RequestOK, JoinSaveMeta, Continue, Goto
    <3>2. /\ meta' = [meta EXCEPT ![mailbox[r]] =
                        [peer |-> partner[r], expires |-> expires[r], until |-> now + MailboxTtl]]
          /\ UNCHANGED <<mailbox, partner, expires>>
      BY <2>1 DEF JoinSaveMeta, SaveMailboxMeta, locals
    <3>3. meta'[mailbox[r]] = [peer |-> partner[r], expires |-> expires[r], until |-> now + MailboxTtl]
      BY <1>1, <3>1, <3>2 DEF TypeOK
    <3> QED BY <2>1, <3>2, <3>3 DEF Linked
  <2>2. CASE Second(q) /\ mailbox'[q] = mailbox[q] /\ partner'[q] = partner[q] /\ expires'[q] = expires[q]
    <3>1. First(q) /\ ~(JoinSaveMeta(r) /\ r = q)
      BY <1>1, <2>2 DEF First, Second, JoinSaveMeta, Continue, Goto, KindOK
    <3> QED BY <1>1, <2>2, <3>1, MetaKept DEF LinkOK, Linked
  <2> QED BY <1>2, <1>4, <2>1, <2>2
<1> QED BY <1>3, <1>4 DEF LinkOK

\* An expired link is no link.
LEMMA LinkIdle ==
  ASSUME IInv, HoldInv, MakerInv, LinkInv, Tick \/ UNCHANGED vars PROVE LinkInv'
<1>1. UNCHANGED <<mailbox, partner, expires, pc, reply>>
  BY DEF Tick, vars, locals
<1>2. \A m \in Mailbox : meta'[m] \in {meta[m], NONE}
  BY DEF Tick, vars
<1> SUFFICES ASSUME RedeemedOnce, NEW q \in Request, Kind[q] = "join" PROVE LinkOK(q)'
  BY <1>1 DEF LinkInv, RedeemedOnce
<1>3. LinkOK(q) /\ (Second(q) => First(q))
      /\ (First(q) => mailbox[q] \in Mailbox /\ partner[q] \in Mailbox)
  BY LinkedMailboxes DEF LinkInv, First, Second
<1> QED BY <1>1, <1>2, <1>3 DEF LinkOK, First, Second, Linked

\* For any requests, crashes and lifetimes, the join that alone has redeemed a
\* token leaves two mailboxes that name each other and expire together
\* (join_connection writes the initiator's from a copy it read before).
THEOREM LinkedBothSides == Spec => []JoinLinksBothSides
<1>1. Init => LinkInv
  BY NoAnswerAssumption DEF Init, LinkInv, LinkOK, First, Second
<1>2. IInv /\ TokenInv /\ HoldInv /\ MakerInv /\ LinkInv /\ [Next]_vars => LinkInv'
  BY LinkKept, LinkIdle DEF Next
<1>3. LinkInv => JoinLinksBothSides
  BY DEF LinkInv, LinkOK, First, Second, Linked, JoinLinksBothSides
<1> QED BY <1>1, <1>2, <1>3, Inductive, TokensMadeOnce, MailboxesHeld, MailboxesMade, PTL DEF Spec
-----------------------------------------------------------------------------
(* Lists only grow.                                                        *)

\* Nothing is stored in mailbox m and no message from or to it is on its way.
Silent(m) ==
  /\ list[m].msgs = <<>>
  /\ \A r \in Request : /\ pc[r] \in {"send_get_meta", "push", "expire"} => mailbox[r] # m
                        /\ pc[r] \in {"push", "expire"} => partner[r] # m

\* A join that has read its token and not pushed its marker.
Early == {"join_delete", "join_get_meta", "join_link", "join_save_meta", "join_clear"}

Untouched(i) == \A q \in Request : Kind[q] = "join" /\ partner[q] = i => pc[q] \in Early

\* An initiator waits for its marker and a responder for its answer.
RootsSilent == \A p \in Request :
  Kind[p] = "init" /\ mailbox[p] # NONE /\ Untouched(mailbox[p]) => Silent(mailbox[p])
JoinsSilent == \A q \in Request : pc[q] \in Early /\ mailbox[q] # NONE => Silent(mailbox[q])

SilentInv == RootsSilent /\ (RedeemedOnce => JoinsSilent)

\* Who writes which list, and how.
LEMMA ListWriters ==
  ASSUME IInv, NEW r \in Request, RequestStep(r), NEW m \in Mailbox
  PROVE  \/ list'[m] = list[m]
         \/ InitClear(r) /\ m = mailbox[r] /\ list'[m] = EmptyList
         \/ JoinClear(r) /\ m = mailbox[r] /\ list'[m] = EmptyList
         \/ CloseDeletes(r) /\ list'[m] = EmptyList
         \/ Push(r) /\ m = partner[r] /\ list'[m].msgs = Append(list[m].msgs, [from |-> mailbox[r], request |-> r])
         \/ PushExpire(r) /\ list'[m].msgs = list[m].msgs
<1>1. list \in [Mailbox -> MessageList] /\ pc \in [Request -> Command] /\ list[m] \in MessageList
  BY DEF IInv, TypeOK
<1>2. CASE InitClear(r) \/ JoinClear(r)
  BY <1>1, <1>2 DEF InitClear, JoinClear, ClearMailboxMessages
<1>3. CASE CloseDeleteOwn(r) \/ CloseDeletePeer(r)
  <2>1. list'[m] = list[m] \/ list'[m] = EmptyList
    BY <1>1, <1>3 DEF CloseDeleteOwn, CloseDeletePeer, DeleteMailbox
  <2>2. CloseDeletes(r)
    BY <1>1, <1>3 DEF CloseDeleteOwn, CloseDeletePeer, CloseDeletes, Continue, Answer, Goto
  <2> QED BY <2>1, <2>2
<1>4. CASE Push(r)
  <2> DEFINE sent == [from |-> mailbox[r], request |-> r]
  <2>1. list' = [list EXCEPT ![partner[r]].msgs = Append(@, sent)]
    BY <1>4 DEF Push, Rpush
  <2> HIDE DEF sent
  <2>2. m # partner[r] => list'[m] = list[m]
    BY <1>1, <2>1
  <2>3. m = partner[r] => list'[m].msgs = Append(list[m].msgs, sent)
    BY <1>1, <2>1 DEF MessageList
  <2> QED BY <1>4, <2>2, <2>3 DEF sent
<1>5. CASE PushExpire(r)
  <2>1. list'[m].msgs = list[m].msgs
    BY <1>1, <1>5 DEF PushExpire, Expire, MessageList
  <2> QED BY <1>5, <2>1
<1>6. CASE /\ ~InitClear(r) /\ ~JoinClear(r) /\ ~Push(r) /\ ~PushExpire(r)
           /\ ~CloseDeleteOwn(r) /\ ~CloseDeletePeer(r)
  <2>1. list' = list
    BY <1>6 DEF RequestStep, InitStep, StartInit, InitSaveMeta, InitSaveRendezvous,
       JoinStep, StartJoin, JoinGet, JoinDelete, JoinGetMeta, JoinLink, JoinSaveMeta,
       SendStep, StartSend, SendGetMeta,
       RecvStep, StartRecv, RecvGetMeta, RecvGetList, CloseStep, StartClose, CloseGetMeta,
       Abort, store
  <2> QED BY <2>1
<1> QED BY <1>2, <1>3, <1>4, <1>5, <1>6

\* Who comes to send, from where and to whom.
LEMMA SendEffect ==
  ASSUME IInv, NEW r \in Request, RequestStep(r)
  PROVE  /\ pc'[r] \in {"send_get_meta", "push", "expire"} =>
              \/ \E n \in Mailbox : StartSend(r, n) /\ mailbox'[r] = n
              \/ JoinClear(r) /\ mailbox'[r] = mailbox[r]
              \/ pc[r] \in {"send_get_meta", "push", "expire"} /\ mailbox'[r] = mailbox[r]
         /\ pc'[r] \in {"push", "expire"} =>
              \/ JoinClear(r) /\ partner'[r] = partner[r]
              \/ SendGetMeta(r) /\ meta[mailbox[r]] # NONE /\ partner'[r] = meta[mailbox[r]].peer
              \/ pc[r] \in {"push", "expire"} /\ partner'[r] = partner[r]
<1> USE DEF TypeOK, Arrive, Continue, Answer, Goto, locals
<1>1. TypeOK
  BY DEF IInv
<1>2. CASE InitStep(r) \/ RecvStep(r) \/ CloseStep(r)
  BY <1>1, <1>2 DEF InitStep, StartInit, InitSaveMeta, InitClear, InitSaveRendezvous,
     RecvStep, StartRecv, RecvGetMeta, RecvGetList,
     CloseStep, StartClose, CloseGetMeta, CloseDeleteOwn, CloseDeletePeer
<1>3. CASE SendStep(r)
  <2>1. ASSUME NEW n \in Mailbox, StartSend(r, n)
        PROVE  pc'[r] = "send_get_meta" /\ mailbox'[r] = n
    BY <1>1, <2>1 DEF StartSend
  <2>2. CASE SendGetMeta(r)
    BY <1>1, <2>2 DEF SendGetMeta
  <2>3. CASE Push(r) \/ PushExpire(r)
    BY <1>1, <2>3 DEF Push, PushExpire
  <2> QED BY <1>3, <2>1, <2>2, <2>3 DEF SendStep
<1>4. CASE JoinStep(r)
  <2>1. ASSUME NEW m \in Mailbox, JoinGetMeta(r, m) PROVE pc'[r] \in {"done", "join_link"}
    BY <1>1, <2>1 DEF JoinGetMeta
  <2>2. CASE (\E t \in Token : StartJoin(r, t)) \/ JoinGet(r) \/ JoinDelete(r) \/ JoinLink(r)
               \/ JoinSaveMeta(r)
    BY <1>1, <2>2 DEF StartJoin, JoinGet, JoinDelete, JoinLink, JoinSaveMeta
  <2>3. CASE JoinClear(r)
    BY <1>1, <2>3 DEF JoinClear
  <2> QED BY <1>4, <2>1, <2>2, <2>3 DEF JoinStep
<1>5. CASE Abort(r)
  BY <1>1, <1>5 DEF Abort
<1> QED BY <1>2, <1>3, <1>4, <1>5 DEF RequestStep

\* A mailbox stays silent until someone sends from it or to it.
LEMMA SilentStep ==
  ASSUME IInv, TokenInv, NEW r \in Request, RequestStep(r), NEW m \in Mailbox, Silent(m),
         ~StartSend(r, m),
         SendGetMeta(r) /\ meta[mailbox[r]] # NONE => meta[mailbox[r]].peer # m,
         JoinClear(r) => m \notin {mailbox[r], partner[r]}
  PROVE  Silent(m)'
<1>1. TypeOK /\ \A q \in Request : KindOK(q)
  BY DEF IInv, TokenInv
<1>2. list'[m].msgs = <<>>
  <2>1. Push(r) => pc[r] = "push"
    BY DEF Push, Continue, Goto
  <2>2. ~(Push(r) /\ m = partner[r])
    BY <2>1 DEF Silent
  <2>3. list'[m] = list[m] \/ list'[m] = EmptyList \/ list'[m].msgs = list[m].msgs
    BY <2>2, ListWriters
  <2> QED BY <2>3 DEF Silent, EmptyList
<1>3. ASSUME NEW q \in Request, q # r
      PROVE  /\ pc'[q] \in {"send_get_meta", "push", "expire"} => mailbox'[q] # m
             /\ pc'[q] \in {"push", "expire"} => partner'[q] # m
  BY <1>3, Frame DEF Silent
<1>4. /\ pc'[r] \in {"send_get_meta", "push", "expire"} => mailbox'[r] # m
      /\ pc'[r] \in {"push", "expire"} => partner'[r] # m
  BY SendEffect DEF Silent
<1> QED BY <1>2, <1>3, <1>4 DEF Silent

\* A mailbox of no session is silent.
LEMMA FreshSilent ==
  ASSUME IInv, MakerInv, NEW m \in Mailbox, session[m] = NONE PROVE Silent(m)
<1>1. TypeOK /\ StoredOK /\ \A q \in Request : RequestOK(q) /\ MakerOK(q)
  BY DEF IInv, MakerInv
<1>2. list[m].msgs = <<>>
  <2>1. list[m].msgs \in Seq(Message)
    BY <1>1 DEF TypeOK, MessageList
  <2>2. \A k \in DOMAIN list[m].msgs : FALSE
    BY <1>1 DEF StoredOK, Opposite
  <2>3. Len(list[m].msgs) = 0
    <3>1. Len(list[m].msgs) \in Nat /\ DOMAIN list[m].msgs = 1 .. Len(list[m].msgs)
      BY <2>1
    <3>2. 1 \notin 1 .. Len(list[m].msgs)
      BY <2>2, <3>1
    <3> QED BY <3>1, <3>2
  <2> QED BY <2>1, <2>3, EmptySeq
<1>3. \A a : Held(a) /\ a # NONE => session[a] # NONE
  BY MadeInSession DEF Held, Makes
<1>4. ASSUME NEW r \in Request
      PROVE  /\ pc[r] \in {"send_get_meta", "push", "expire"} => mailbox[r] # m
             /\ pc[r] \in {"push", "expire"} => partner[r] # m
  <2>1. RequestOK(r) /\ MakerOK(r) /\ NONE \notin Mailbox
    BY <1>1, ConstantAssumption
  <2>2. CASE pc[r] = "send_get_meta"
    BY <1>3, <2>1, <2>2 DEF MakerOK, RequestOK
  <2>3. CASE pc[r] \in {"push", "expire"}
    BY <2>1, <2>3 DEF RequestOK, Opposite
  <2> QED BY <2>2, <2>3
<1> QED BY <1>2, <1>4 DEF Silent

\* The step of a join before its marker, and of its tokens.
LEMMA EarlyEffect ==
  ASSUME IInv, TokenInv, MakerInv, NEW r \in Request, RequestStep(r), pc'[r] \in Early
  PROVE  /\ Kind[r] = "join"
         /\ ~JoinClear(r) /\ ~SendGetMeta(r) /\ \A m \in Mailbox : ~StartSend(r, m)
         /\ pc[r] \in Early \/ (partner[r] = NONE /\ mailbox'[r] = NONE)
<1> USE DEF TypeOK, KindOK, InitCommands, JoinCommands, MailCommands, CloseCommands,
            Arrive, Continue, Answer, Goto, locals, Early
<1>1. TypeOK /\ KindOK(r) /\ MakerOK(r)
  BY DEF IInv, TokenInv, MakerInv
<1>2. Kind[r] = "join"
  BY <1>1, Progress
<1>3. ~JoinClear(r) /\ ~SendGetMeta(r) /\ \A m \in Mailbox : ~StartSend(r, m)
  BY <1>1, <1>2 DEF JoinClear, SendGetMeta, StartSend
<1>4. pc[r] \in Early \/ (partner[r] = NONE /\ mailbox'[r] = NONE)
  <2>1. CASE InitStep(r) \/ RecvStep(r) \/ CloseStep(r)
    BY <1>1, <1>2, <2>1 DEF InitStep, StartInit, InitSaveMeta, InitClear, InitSaveRendezvous,
       RecvStep, StartRecv, RecvGetMeta, RecvGetList,
       CloseStep, StartClose, CloseGetMeta, CloseDeleteOwn, CloseDeletePeer
  <2>2. CASE SendStep(r)
    BY <1>1, <1>2, <1>3, <2>2 DEF SendStep, Push, PushExpire
  <2>3. CASE Abort(r)
    BY <1>1, <2>3 DEF Abort
  <2>4. CASE JoinStep(r)
    <3>1. ASSUME NEW t \in Token, StartJoin(r, t) PROVE FALSE
      BY <1>1, <3>1 DEF StartJoin
    <3>2. ASSUME NEW m \in Mailbox, JoinGetMeta(r, m) PROVE pc[r] \in Early
      BY <3>2 DEF JoinGetMeta
    <3>3. CASE JoinGet(r)
      BY <1>1, <1>2, <3>3 DEF JoinGet, MakerOK
    <3>4. CASE JoinDelete(r) \/ JoinLink(r) \/ JoinSaveMeta(r) \/ JoinClear(r)
      BY <1>1, <3>4 DEF JoinDelete, JoinLink, JoinSaveMeta, JoinClear
    <3> QED BY <2>4, <3>1, <3>2, <3>3, <3>4 DEF JoinStep
  <2> QED BY <2>1, <2>2, <2>3, <2>4 DEF RequestStep
<1> QED BY <1>2, <1>3, <1>4

\* A mailbox no join has reached had not been reached before.
LEMMA UntouchedBefore ==
  ASSUME IInv, TokenInv, HoldInv, MakerInv, NEW r \in Request, RequestStep(r),
         NEW i \in Mailbox, Untouched(i)'
  PROVE  Untouched(i)
<1> SUFFICES ASSUME NEW q \in Request, Kind[q] = "join", partner[q] = i PROVE pc[q] \in Early
  BY DEF Untouched
<1>1. i # NONE /\ TypeOK /\ KindOK(r)
  BY ConstantAssumption DEF IInv, TokenInv
<1>2. CASE q # r
  BY <1>1, <1>2, Frame, Progress DEF Untouched
<1>3. CASE q = r
  <2>1. partner'[r] = i
    BY <1>1, <1>3, MadeOnce
  <2>2. pc'[r] \in Early
    BY <1>3, <2>1 DEF Untouched
  <2> QED BY <1>1, <1>3, <2>2, EarlyEffect
<1> QED BY <1>2, <1>3

\* Every step keeps the mailbox of an init silent until a join is past clearing
\* its own: nobody sends from it, and no link leads to it.
LEMMA RootSilent ==
  ASSUME IInv, TokenInv, HoldInv, MakerInv, SilentInv, NEW r \in Request, RequestStep(r),
         NEW p \in Request, Kind[p] = "init", mailbox'[p] # NONE, Untouched(mailbox[p])'
  PROVE  Silent(mailbox[p])'
<1>1. PICK i \in Mailbox : mailbox'[p] = i
  BY RequestKeepsTypes DEF TypeOK
<1>2. /\ TypeOK /\ LinksOK /\ \A q \in Request : KindOK(q) /\ MakerOK(q) /\ RequestOK(q)
      /\ NONE \notin Mailbox
  BY ConstantAssumption DEF IInv, TokenInv, MakerInv
<1>3. Untouched(i)'
  BY <1>1
<1>4. Untouched(i)
  BY <1>3, UntouchedBefore
<1>5. Silent(i)'
  <2>1. CASE mailbox[p] # i
    <3>1. p = r /\ session[i] = NONE
      BY <1>1, <2>1, Frame, MakerEffect DEF Makes
    <3>2. ~JoinClear(r) /\ ~SendGetMeta(r) /\ ~StartSend(r, i)
      BY <1>2, <3>1 DEF JoinClear, SendGetMeta, StartSend, Arrive, Continue, Goto, KindOK,
         JoinCommands, MailCommands
    <3> QED BY <3>1, <3>2, FreshSilent, SilentStep
  <2>2. CASE mailbox[p] = i
    <3>1. Silent(i) /\ session[i] = i
      BY <1>2, <1>4, <2>2 DEF SilentInv, RootsSilent, MakerOK
    <3>2. \A q \in Request : Kind[q] = "join" /\ partner[q] = i => reply[q] # "ok"
      BY <1>2, <1>4 DEF Untouched, Early, KindOK
    <3>3. ~StartSend(r, i)
      BY <3>1, <3>2 DEF StartSend, MaySend, MarkerSeen, Silent
    <3>4. ASSUME SendGetMeta(r), meta[mailbox[r]] # NONE, meta[mailbox[r]].peer = i PROVE FALSE
      <4>1. pc[r] = "send_get_meta" /\ mailbox[r] \in Mailbox /\ Held(mailbox[r])
        BY <1>2, <3>4 DEF SendGetMeta, RequestOK, MakerOK
      <4>2. Opposite(i, mailbox[r])
        BY <1>2, <3>4, <4>1 DEF LinksOK
      <4>3. session[mailbox[r]] = i /\ mailbox[r] # i
        BY <3>1, <4>2 DEF Opposite
      <4>4. PICK q \in Request : Makes(q) /\ reply[q] = "ok" /\ mailbox[q] = mailbox[r]
        BY <4>1 DEF Held, Makes
      <4>5. Kind[q] = "join" /\ partner[q] = i
        BY <1>2, <4>1, <4>3, <4>4 DEF MakerOK, Makes
      <4> QED BY <3>2, <4>4, <4>5
    <3>5. ASSUME JoinClear(r) PROVE i \notin {mailbox[r], partner[r]}
      <4>1. Kind[r] = "join" /\ partner'[r] = partner[r] /\ pc'[r] = "push"
        BY <1>2, <3>5 DEF JoinClear, Continue, Goto, KindOK, JoinCommands, locals, TypeOK
      <4>2. partner[r] # i
        BY <1>3, <4>1 DEF Untouched, Early
      <4>3. mailbox[r] # i
        BY <1>2, <2>2, <4>1 DEF MakerInv, OneMakerEach, Makes
      <4> QED BY <4>2, <4>3
    <3> QED BY <3>1, <3>3, <3>4, <3>5, SilentStep
  <2> QED BY <2>1, <2>2
<1> QED BY <1>1, <1>5

\* The same of the mailbox of the only join of a token.
LEMMA JoinSilent ==
  ASSUME IInv, TokenInv, HoldInv, MakerInv, SilentInv, NEW r \in Request, RequestStep(r),
         RedeemedOnce, NEW q \in Request, pc'[q] \in Early, mailbox'[q] # NONE
  PROVE  Silent(mailbox[q])'
<1>1. PICK s \in Mailbox : mailbox'[q] = s
  BY RequestKeepsTypes DEF TypeOK
<1>2. /\ TypeOK /\ LinksOK /\ \A p \in Request : KindOK(p) /\ MakerOK(p) /\ RequestOK(p)
      /\ NONE \notin Mailbox /\ JoinsSilent /\ RootsSilent
  BY ConstantAssumption DEF IInv, TokenInv, MakerInv, SilentInv
<1>3. Kind[q] = "join" /\ pc[q] \in Early
  <2>1. CASE q = r
    BY <1>1, <1>2, <2>1, EarlyEffect
  <2>2. CASE q # r
    <3>1. pc[q] \in Early
      BY <1>2, <2>2, Progress
    <3> QED BY <1>2, <3>1 DEF Early, KindOK, JoinCommands
  <2> QED BY <2>1, <2>2
<1>4. q = r => ~JoinClear(r) /\ ~SendGetMeta(r) /\ ~StartSend(r, s)
  BY EarlyEffect
<1>5. Silent(s)'
  <2>1. CASE mailbox[q] # s
    <3>1. q = r /\ session[s] = NONE
      BY <1>1, <1>3, <2>1, Frame, MakerEffect DEF Makes
    <3> QED BY <1>4, <3>1, FreshSilent, SilentStep
  <2>2. CASE mailbox[q] = s
    <3>1. PICK i : partner[q] = i
      OBVIOUS
    <3>2. Silent(s) /\ session[s] = i /\ s # i /\ i # NONE /\ Answered(i)
      BY <1>2, <1>3, <2>2, <3>1 DEF JoinsSilent, MakerOK
    <3>3. reply[q] # "ok"
      BY <1>2, <1>3 DEF Early, KindOK
    <3>4. ~StartSend(r, s)
      <4>1. ~Held(s)
        BY <1>2, <1>3, <2>2, <3>3 DEF Held, MakerInv, OneMakerEach, Makes
      <4> QED BY <4>1 DEF StartSend, MaySend
    <3>5. Silent(i)
      <4>1. PICK p \in Request : Kind[p] = "init" /\ mailbox[p] = i
        BY <3>2 DEF Answered
      <4>2. Untouched(i)
        BY <1>3, <3>1, <3>2 DEF Untouched, RedeemedOnce
      <4> QED BY <1>2, <3>2, <4>1, <4>2 DEF RootsSilent
    <3>6. ASSUME SendGetMeta(r), meta[mailbox[r]] # NONE, meta[mailbox[r]].peer = s PROVE FALSE
      <4>1. pc[r] = "send_get_meta" /\ mailbox[r] \in Mailbox
        BY <1>2, <3>6 DEF SendGetMeta, RequestOK
      <4>2. Opposite(s, mailbox[r])
        BY <1>2, <3>6, <4>1 DEF LinksOK
      <4>3. mailbox[r] = i
        BY <3>2, <4>2 DEF Opposite
      <4> QED BY <3>5, <4>1, <4>3 DEF Silent
    <3>7. ASSUME JoinClear(r) PROVE s \notin {mailbox[r], partner[r]}
      <4>1. Kind[r] = "join" /\ r # q /\ pc[r] = "join_clear"
        BY <1>2, <1>4, <3>7 DEF JoinClear, Continue, Goto, KindOK, JoinCommands
      <4>2. mailbox[r] # s
        BY <1>2, <1>3, <2>2, <4>1 DEF MakerInv, OneMakerEach, Makes
      <4>3. partner[r] # s
        BY <1>2, <1>3, <2>2, <4>1, AnsweredApart DEF MakerOK
      <4> QED BY <4>2, <4>3
    <3> QED BY <3>2, <3>4, <3>6, <3>7, SilentStep
  <2> QED BY <2>1, <2>2
<1> QED BY <1>1, <1>5

\* SilentInv survives every command.
LEMMA SilentKept ==
  ASSUME IInv, TokenInv, HoldInv, MakerInv, SilentInv, NEW r \in Request, RequestStep(r)
  PROVE  SilentInv'
<1>1. RootsSilent'
  BY RootSilent DEF RootsSilent
<1>2. RedeemedOnce' => JoinsSilent'
  BY RedeemedBefore, JoinSilent DEF JoinsSilent
<1> QED BY <1>1, <1>2 DEF SilentInv

\* Expiry empties lists.
LEMMA SilentIdle ==
  ASSUME IInv, SilentInv, Tick \/ UNCHANGED vars PROVE SilentInv'
<1>1. UNCHANGED <<mailbox, partner, pc, reply>>
  BY DEF Tick, vars, locals
<1>2. \A m \in Mailbox : list'[m] = list[m] \/ list'[m] = EmptyList
  BY DEF Tick, vars
<1>3. ASSUME NEW m \in Mailbox, Silent(m) PROVE Silent(m)'
  <2>1. list'[m].msgs = <<>>
    BY <1>2, <1>3 DEF Silent, EmptyList
  <2> QED BY <1>1, <1>3, <2>1 DEF Silent
<1>4. \A q \in Request : mailbox[q] # NONE => mailbox[q] \in Mailbox
  BY DEF IInv, TypeOK
<1>5. RootsSilent'
  <2> SUFFICES ASSUME NEW p \in Request, Kind[p] = "init", mailbox[p] # NONE, Untouched(mailbox[p])'
               PROVE  Silent(mailbox[p])'
    BY <1>1 DEF RootsSilent
  <2>1. PICK m \in Mailbox : mailbox[p] = m
    BY <1>4
  <2>2. Untouched(m)
    BY <1>1, <2>1 DEF Untouched
  <2>3. Silent(m)'
    BY <1>3, <2>1, <2>2 DEF SilentInv, RootsSilent
  <2> QED BY <1>1, <2>1, <2>3
<1>6. RedeemedOnce' => JoinsSilent'
  <2> SUFFICES ASSUME RedeemedOnce, NEW q \in Request, pc[q] \in Early, mailbox[q] # NONE
               PROVE  Silent(mailbox[q])'
    BY <1>1 DEF RedeemedOnce, JoinsSilent
  <2>1. PICK m \in Mailbox : mailbox[q] = m
    BY <1>4
  <2>2. Silent(m)'
    BY <1>3, <2>1 DEF SilentInv, JoinsSilent
  <2> QED BY <1>1, <2>1, <2>2
<1> QED BY <1>5, <1>6 DEF SilentInv

\* A mailbox is silent until its init has answered and the join's marker is in.
THEOREM SilentUntilMarked == Spec => []SilentInv
<1>1. Init => SilentInv
  BY DEF Init, SilentInv, RootsSilent, JoinsSilent, Early
<1>2. IInv /\ TokenInv /\ HoldInv /\ MakerInv /\ SilentInv /\ [Next]_vars => SilentInv'
  BY SilentKept, SilentIdle DEF Next
<1> QED BY <1>1, <1>2, Inductive, TokensMadeOnce, MailboxesHeld, MailboxesMade, PTL DEF Spec

\* What a list holds stays in front of what is appended.
LEMMA PrefixOfAppend ==
  ASSUME NEW s \in Seq(Message), NEW t, t = s \/ \E e \in Message : t = Append(s, e)
  PROVE  IsPrefix(s, t)
<1>1. Len(s) \in Nat /\ s = SubSeq(s, 1, Len(s))
  BY SubSeqFull
<1>2. CASE t = s
  BY <1>1, <1>2 DEF IsPrefix
<1>3. ASSUME NEW e \in Message, t = Append(s, e) PROVE IsPrefix(s, t)
  <2>1. Len(t) = Len(s) + 1 /\ t \in Seq(Message)
    BY <1>3
  <2>2. SubSeq(t, 1, Len(s)) = s
    <3> DEFINE u == SubSeq(t, 1, Len(s))
    <3>1. u \in Seq(Message) /\ Len(u) = Len(s) /\ \A k \in 1 .. Len(s) : u[k] = t[k]
      <4>1. \A k \in 1 .. Len(s) : t[k] \in Message
        BY <1>1, <2>1
      <4>2. /\ u \in Seq(Message)
            /\ Len(u) = IF 1 <= Len(s) THEN Len(s) - 1 + 1 ELSE 0
            /\ \A k \in 1 .. Len(s) - 1 + 1 : u[k] = t[1 + k - 1]
        BY <1>1, <4>1, SubSeqProperties
      <4> HIDE DEF u
      <4> QED BY <1>1, <4>2
    <3>2. \A k \in 1 .. Len(s) : t[k] = s[k]
      BY <1>3, AppendProperties
    <3> HIDE DEF u
    <3>3. u = s
      BY <1>1, <3>1, <3>2, SeqEqual
    <3> QED BY <3>3 DEF u
  <2> QED BY <1>1, <2>1, <2>2 DEF IsPrefix
<1> QED BY <1>2, <1>3

\* The two commands that clear a list find it empty.
LEMMA ClearsNothing ==
  ASSUME IInv, TokenInv, MakerInv, SilentInv, RedeemedOnce, NEW r \in Request,
         InitClear(r) \/ JoinClear(r)
  PROVE  mailbox[r] \in Mailbox /\ list[mailbox[r]].msgs = <<>>
<1>1. /\ TypeOK /\ \A q \in Request : KindOK(q) /\ MakerOK(q) /\ RequestOK(q)
      /\ NONE \notin Mailbox /\ JoinsSilent /\ RootsSilent
  BY ConstantAssumption DEF IInv, TokenInv, MakerInv, SilentInv
<1>2. CASE InitClear(r)
  <2>1. Kind[r] = "init" /\ pc[r] \in InitCommands /\ mailbox[r] \in Mailbox
    BY <1>1, <1>2 DEF InitClear, Continue, Goto, KindOK, InitCommands, RequestOK
  <2>2. Untouched(mailbox[r])
    BY <1>1, <2>1, AnsweredApart DEF Untouched, MakerOK
  <2> QED BY <1>1, <2>1, <2>2 DEF RootsSilent, Silent
<1>3. CASE JoinClear(r)
  BY <1>1, <1>3 DEF JoinClear, Continue, Goto, RequestOK, JoinsSilent, Early, Silent
<1> QED BY <1>2, <1>3

\* For any requests, crashes and lifetimes, while each token is redeemed once a
\* stored message stays where it is until its list expires or is closed: init and
\* join clear their lists before anyone can have written to them.
THEOREM ListsGrow == Spec => ListsAppendOnly
<1> DEFINE Grows(m) ==
      \/ IsPrefix(list[m].msgs, list'[m].msgs)
      \/ list'[m] = EmptyList /\ (now' # now \/ \E r \in Request : CloseDeletes(r))
<1>1. ASSUME IInv, TokenInv, MakerInv, SilentInv, RedeemedOnce, Next, NEW m \in Mailbox
      PROVE  Grows(m)
  <2>1. list[m].msgs \in Seq(Message) /\ now \in Nat
    BY <1>1 DEF IInv, TypeOK, MessageList
  <2>2. list'[m].msgs = list[m].msgs => Grows(m)
    BY <2>1, PrefixOfAppend
  <2>3. CASE Tick
    <3>1. now' # now /\ (list'[m] = list[m] \/ list'[m] = EmptyList)
      BY <2>1, <2>3 DEF Tick
    <3> QED BY <2>2, <3>1
  <2>4. ASSUME NEW r \in Request, RequestStep(r) PROVE Grows(m)
    <3>1. CASE m = mailbox[r] /\ (InitClear(r) \/ JoinClear(r)) /\ list'[m] = EmptyList
      <4>1. list'[m].msgs = list[m].msgs
        BY <1>1, <3>1, ClearsNothing DEF EmptyList
      <4> QED BY <2>2, <4>1
    <3>2. CASE Push(r) /\ m = partner[r]
                 /\ list'[m].msgs = Append(list[m].msgs, [from |-> mailbox[r], request |-> r])
      <4>1. [from |-> mailbox[r], request |-> r] \in Message
        BY <1>1, <3>2 DEF IInv, RequestOK, Push, Continue, Goto, Message
      <4> QED BY <2>1, <3>2, <4>1, PrefixOfAppend
    <3>3. CASE CloseDeletes(r) /\ list'[m] = EmptyList
      BY <3>3
    <3> HIDE DEF Grows
    <3> QED BY <1>1, <2>2, <2>4, <3>1, <3>2, <3>3, ListWriters
  <2> QED BY <1>1, <2>3, <2>4 DEF Next
<1>2. IInv /\ TokenInv /\ MakerInv /\ SilentInv /\ [Next]_vars =>
        [RedeemedOnce => \A m \in Mailbox :
           \/ IsPrefix(list[m].msgs, list'[m].msgs)
           \/ list'[m] = EmptyList /\ (now' # now \/ \E r \in Request : CloseDeletes(r))]_vars
  BY <1>1
<1> QED
  BY <1>2, Inductive, TokensMadeOnce, MailboxesMade, SilentUntilMarked, PTL DEF Spec, ListsAppendOnly
-----------------------------------------------------------------------------
(* MailboxPush: induction, and what EmitIfNew makes of a list of messages. *)

\* A set of naturals has a least element: the intervals up to its elements are
\* finite sets, and strict inclusion of those is well-founded.
LEMMA Least ==
  ASSUME NEW T, T \subseteq Nat, T # {}
  PROVE  \E x \in T : \A y \in T : ~(y < x)
<1> DEFINE F == {1..x : x \in T}
<1>1. F \subseteq FiniteSubsetsOf(Nat) /\ F # {}
  <2>1. \A x \in T : 1..x \in SUBSET Nat /\ IsFiniteSet(1..x)
    BY FS_Interval
  <2> QED BY <2>1 DEF FiniteSubsetsOf
<1>2. PICK X \in F : \A Y \in F : <<Y, X>> \notin StrictSubsetOrdering(Nat)
  <2> HIDE DEF F
  <2> QED BY <1>1, FS_StrictSubsetOrderingWellFounded, WFMin
<1>3. PICK x \in T : X = 1..x
  OBVIOUS
<1> SUFFICES ASSUME NEW y \in T, y < x PROVE FALSE
  OBVIOUS
<1>4. 1..y \subseteq 1..x /\ 1..y # 1..x
  OBVIOUS
<1>5. 1..y \in SUBSET Nat /\ 1..x \in SUBSET Nat
  OBVIOUS
<1>6. <<1..y, 1..x>> \in StrictSubsetOrdering(Nat)
  BY <1>4, <1>5 DEF StrictSubsetOrdering
<1>7. 1..y \in F
  OBVIOUS
<1> QED BY <1>2, <1>3, <1>6, <1>7

\* Induction over the naturals, for a set.
LEMMA Induct ==
  ASSUME NEW S, 0 \in S, \A n \in Nat : n \in S => n + 1 \in S
  PROVE  Nat \subseteq S
<1> DEFINE T == Nat \ S
<1> SUFFICES ASSUME T # {} PROVE FALSE
  OBVIOUS
<1>1. PICK x \in T : \A y \in T : ~(y < x)
  <2> HIDE DEF T
  <2>1. T \subseteq Nat BY DEF T
  <2> QED BY <2>1, Least
<1>2. x # 0 /\ x \in Nat
  OBVIOUS
<1>3. x - 1 \in Nat /\ x - 1 < x /\ x - 1 + 1 = x
  BY <1>2
<1>4. x - 1 \in S
  BY <1>1, <1>3
<1> QED BY <1>2, <1>3, <1>4

\* The equation of the function that EmitIfNew defines.
EmitsOn(f, d, msgs, m) ==
  f = [n \in 0..m |-> IF n = 0 THEN d ELSE EmitOne(f[n - 1], msgs[n])]

\* One message more.
LEMMA EmitsNext ==
  ASSUME NEW g, NEW d, NEW msgs, NEW m \in Nat, EmitsOn(g, d, msgs, m)
  PROVE  \E f : EmitsOn(f, d, msgs, m + 1)
<1> DEFINE f == [n \in 0..(m + 1) |-> IF n <= m THEN g[n] ELSE EmitOne(g[m], msgs[m + 1])]
<1>1. SUFFICES EmitsOn(f, d, msgs, m + 1)
  OBVIOUS
<1>2. ASSUME NEW n \in 0..(m + 1)
      PROVE  f[n] = IF n = 0 THEN d ELSE EmitOne(f[n - 1], msgs[n])
  <2>1. CASE n = 0
    BY <2>1 DEF EmitsOn
  <2>2. CASE n # 0 /\ n <= m
    <3>1. n \in 0..m /\ n - 1 \in 0..m /\ n - 1 <= m
      BY <2>2
    <3>2. g[n] = EmitOne(g[n - 1], msgs[n])
      BY <2>2, <3>1 DEF EmitsOn
    <3>3. f[n] = g[n] /\ f[n - 1] = g[n - 1]
      BY <2>2, <3>1
    <3> QED BY <2>2, <3>2, <3>3
  <2>3. CASE n = m + 1
    <3>1. f[n] = EmitOne(g[m], msgs[m + 1])
      BY <2>3
    <3>2. f[n - 1] = g[m] /\ n # 0
      BY <2>3
    <3> QED BY <2>3, <3>1, <3>2
  <2> QED BY <2>1, <2>2, <2>3
<1>3. f = [n \in 0..(m + 1) |-> f[n]]
  OBVIOUS
<1> HIDE DEF f
<1> QED BY <1>2, <1>3 DEF EmitsOn

\* There is such a function, whatever the number of messages.
LEMMA EmitsExists ==
  ASSUME NEW d, NEW msgs, NEW m \in Nat
  PROVE  \E f : EmitsOn(f, d, msgs, m)
<1> DEFINE T == {n \in Nat : \E f : EmitsOn(f, d, msgs, n)}
<1>1. 0 \in T
  <2>1. EmitsOn([n \in 0..0 |-> d], d, msgs, 0)
    BY DEF EmitsOn
  <2> QED BY <2>1
<1>2. \A n \in Nat : n \in T => n + 1 \in T
  BY EmitsNext
<1>3. Nat \subseteq T
  <2> HIDE DEF T
  <2> QED BY <1>1, <1>2, Induct
<1> QED BY <1>3

\* EmitIfNew is the last value of that function.
LEMMA EmitIfNewIs ==
  ASSUME NEW d, NEW msgs, Len(msgs) \in Nat, ~disposed
  PROVE  \E f : EmitsOn(f, d, msgs, Len(msgs)) /\ EmitIfNew(d, msgs) = f[Len(msgs)]
<1> DEFINE E(f) == EmitsOn(f, d, msgs, Len(msgs))
<1> DEFINE g == CHOOSE f : E(f)
<1>1. \E f : E(f)
  BY EmitsExists
<1>2. E(g)
  <2> HIDE DEF E
  <2> QED BY <1>1
<1>3. EmitIfNew(d, msgs) = g[Len(msgs)]
  BY DEF EmitIfNew, EmitsOn
<1> QED BY <1>2, <1>3

\* No element twice.
Distinct(d) == \A i, j \in DOMAIN d : d[i] = d[j] => i = j

\* One element more in a sequence is one more in its range.
LEMMA RangeAppend ==
  ASSUME NEW S, NEW q \in Seq(S), NEW e \in S
  PROVE  Range(Append(q, e)) = Range(q) \cup {e}
<1>1. Append(q, e) \in Seq(S) /\ Len(Append(q, e)) = Len(q) + 1
  BY AppendProperties
<1>2. /\ \A i \in 1..Len(q) : Append(q, e)[i] = q[i]
      /\ Append(q, e)[Len(q) + 1] = e
  BY AppendProperties
<1>3. Range(q) = {q[i] : i \in 1..Len(q)}
  BY RangeEquality
<1>4. Range(Append(q, e)) = {Append(q, e)[i] : i \in 1..(Len(q) + 1)}
  BY <1>1, RangeEquality
<1>5. 1..(Len(q) + 1) = 1..Len(q) \cup {Len(q) + 1}
  OBVIOUS
<1> QED BY <1>2, <1>3, <1>4, <1>5

\* The head of a sequence and the range of its tail are its range.
LEMMA RangeHeadTail ==
  ASSUME NEW S, NEW q \in Seq(S), q # <<>>
  PROVE  /\ Head(q) \in S /\ Tail(q) \in Seq(S) /\ Len(Tail(q)) = Len(q) - 1
         /\ Range(q) = {Head(q)} \cup Range(Tail(q))
<1>1. /\ Head(q) \in S /\ Tail(q) \in Seq(S) /\ Len(Tail(q)) = Len(q) - 1
      /\ \A i \in 1..Len(Tail(q)) : Tail(q)[i] = q[i + 1]
  BY HeadTailProperties
<1>2. Head(q) = q[1] /\ Len(q) \in Nat \ {0}
  OBVIOUS
<1>3. Range(q) = {q[i] : i \in 1..Len(q)}
  BY RangeEquality
<1>4. Range(Tail(q)) = {Tail(q)[i] : i \in 1..Len(Tail(q))}
  BY <1>1, RangeEquality
<1>5. ASSUME NEW z \in Range(q) PROVE z \in {Head(q)} \cup Range(Tail(q))
  <2>1. PICK i \in 1..Len(q) : z = q[i]
    BY <1>3
  <2>2. CASE i = 1
    BY <1>2, <2>1, <2>2
  <2>3. CASE i # 1
    <3>1. i - 1 \in 1..Len(Tail(q)) /\ (i - 1) + 1 = i
      BY <1>1, <1>2, <2>3
    <3>2. Tail(q)[i - 1] = z
      BY <1>1, <2>1, <3>1
    <3> QED BY <1>4, <3>1, <3>2
  <2> QED BY <2>2, <2>3
<1>6. ASSUME NEW z \in Range(Tail(q)) PROVE z \in Range(q)
  <2>1. PICK i \in 1..Len(Tail(q)) : z = Tail(q)[i]
    BY <1>4
  <2>2. i + 1 \in 1..Len(q) /\ z = q[i + 1]
    BY <1>1, <1>2, <2>1
  <2> QED BY <1>3, <2>2
<1>7. Head(q) \in Range(q)
  <2>1. 1 \in 1..Len(q)
    BY <1>2
  <2> QED BY <1>2, <1>3, <2>1
<1> QED BY <1>1, <1>5, <1>6, <1>7

\* A message that is emitted is one more, at the end, or is there already.
LEMMA EmitOneEffect ==
  ASSUME NEW S, NEW d \in Seq(S), NEW m \in S, Distinct(d)
  PROVE  /\ EmitOne(d, m) \in Seq(S)
         /\ Distinct(EmitOne(d, m))
         /\ Range(EmitOne(d, m)) = Range(d) \cup {m}
<1>1. CASE m \in Range(d)
  BY <1>1 DEF EmitOne
<1>2. CASE m \notin Range(d)
  <2>1. EmitOne(d, m) = Append(d, m)
    BY <1>2 DEF EmitOne
  <2>2. /\ Append(d, m) \in Seq(S) /\ Len(Append(d, m)) = Len(d) + 1
        /\ \A i \in 1..Len(d) : Append(d, m)[i] = d[i]
        /\ Append(d, m)[Len(d) + 1] = m
    BY AppendProperties
  <2>3. DOMAIN Append(d, m) = 1..(Len(d) + 1) /\ DOMAIN d = 1..Len(d)
    BY <2>2
  <2>4. \A i \in 1..Len(d) : d[i] # m
    BY <1>2, RangeEquality
  <2>5. Distinct(Append(d, m))
    <3>1. SUFFICES ASSUME NEW i \in 1..(Len(d) + 1), NEW j \in 1..(Len(d) + 1),
                          Append(d, m)[i] = Append(d, m)[j]
                   PROVE  i = j
      BY <2>3 DEF Distinct
    <3>2. (i \in 1..Len(d) \/ i = Len(d) + 1) /\ (j \in 1..Len(d) \/ j = Len(d) + 1)
      OBVIOUS
    <3>3. CASE i \in 1..Len(d) /\ j \in 1..Len(d)
      BY <2>2, <2>3, <3>1, <3>3 DEF Distinct
    <3> QED BY <2>2, <2>4, <3>1, <3>2, <3>3
  <2>6. Range(Append(d, m)) = Range(d) \cup {m}
    BY RangeAppend
  <2> QED BY <2>1, <2>2, <2>5, <2>6
<1> QED BY <1>1, <1>2

\* emitIfNew for a list: what has been emitted is extended by what is new in the
\* list, and nothing is there twice.
LEMMA EmitIfNewEffect ==
  ASSUME NEW S, NEW d \in Seq(S), NEW msgs \in Seq(S), Distinct(d), ~disposed
  PROVE  /\ EmitIfNew(d, msgs) \in Seq(S)
         /\ Distinct(EmitIfNew(d, msgs))
         /\ Range(EmitIfNew(d, msgs)) = Range(d) \cup Range(msgs)
<1>1. Len(msgs) \in Nat /\ Range(msgs) = {msgs[i] : i \in 1..Len(msgs)}
  BY RangeEquality
<1>2. PICK f : EmitsOn(f, d, msgs, Len(msgs)) /\ EmitIfNew(d, msgs) = f[Len(msgs)]
  BY <1>1, EmitIfNewIs
<1> DEFINE P(e, n) == /\ e \in Seq(S)
                      /\ Distinct(e)
                      /\ Range(e) = Range(d) \cup {msgs[i] : i \in 1..n}
<1> DEFINE T == {n \in Nat : n <= Len(msgs) => P(f[n], n)}
<1>3. 0 \in T
  <2>1. f[0] = d
    BY <1>1, <1>2 DEF EmitsOn
  <2>2. {msgs[i] : i \in 1..0} = {}
    OBVIOUS
  <2> QED BY <2>1, <2>2
<1>4. ASSUME NEW n \in Nat, n \in T PROVE n + 1 \in T
  <2>1. SUFFICES ASSUME n + 1 <= Len(msgs) PROVE P(f[n + 1], n + 1)
    OBVIOUS
  <2>2. P(f[n], n)
    BY <1>1, <1>4, <2>1
  <2>3. n + 1 \in 0..Len(msgs) /\ n + 1 # 0 /\ (n + 1) - 1 = n /\ n + 1 \in 1..Len(msgs)
    BY <1>1, <2>1
  <2>4. f[n + 1] = EmitOne(f[n], msgs[n + 1])
    BY <1>2, <2>3 DEF EmitsOn
  <2>5. msgs[n + 1] \in S
    BY <2>3
  <2>6. /\ EmitOne(f[n], msgs[n + 1]) \in Seq(S)
        /\ Distinct(EmitOne(f[n], msgs[n + 1]))
        /\ Range(EmitOne(f[n], msgs[n + 1])) = Range(f[n]) \cup {msgs[n + 1]}
    <3>1. PICK e \in Seq(S) : e = f[n] /\ Distinct(e)
      BY <2>2
    <3>2. PICK m \in S : m = msgs[n + 1]
      BY <2>5
    <3>3. /\ EmitOne(e, m) \in Seq(S)
          /\ Distinct(EmitOne(e, m))
          /\ Range(EmitOne(e, m)) = Range(e) \cup {m}
      BY <3>1, EmitOneEffect
    <3> HIDE DEF T, P
    <3> QED BY <3>1, <3>2, <3>3
  <2>7. {msgs[i] : i \in 1..(n + 1)} = {msgs[i] : i \in 1..n} \cup {msgs[n + 1]}
    <3>1. 1..(n + 1) = 1..n \cup {n + 1}
      OBVIOUS
    <3> QED BY <3>1
  <2> QED BY <2>2, <2>4, <2>6, <2>7
<1>5. Nat \subseteq T
  <2> HIDE DEF T
  <2> QED BY <1>3, <1>4, Induct
<1>6. P(f[Len(msgs)], Len(msgs))
  <2>1. Len(msgs) \in T
    BY <1>1, <1>5, Zenon
  <2> HIDE DEF P
  <2> QED BY <1>1, <2>1
<1>7. /\ f[Len(msgs)] \in Seq(S)
      /\ Distinct(f[Len(msgs)])
      /\ Range(f[Len(msgs)]) = Range(d) \cup {msgs[i] : i \in 1..Len(msgs)}
  BY <1>6
<1> HIDE DEF T, P
<1>8. Range(f[Len(msgs)]) = Range(d) \cup Range(msgs)
  BY <1>1, <1>7, Zenon
<1> QED BY <1>2, <1>7, <1>8, Zenon

-----------------------------------------------------------------------------
(* MailboxPush: the invariant and the steps.                               *)

\* What is pushed, forwarded or answered has been stored.
PushedIsStored ==
  /\ \A s \in Signal : \A a \in Attempt(s) :
       request[s][a] \in {"stored", "answered", "acknowledged"} => s \in Range(stored)
  /\ Range(rx) \subseteq Range(stored)
  /\ Range(wire) \subseteq Range(stored)
  /\ \A k \in Slot : fetch[k].upto <= Len(stored)

\* A connection that is not open carries nothing; on an open one that has not
\* lagged, what was pushed is still on its way or has been emitted.
ConnectionOK ==
  /\ disposed => socket = "closed"
  /\ socket # "open" => rx = <<>> /\ wire = <<>> /\ ~lagged /\ pushed = {}
  /\ lagged => rx # <<>>
  /\ ~lagged => pushed \subseteq Range(delivered) \cup Range(wire) \cup Range(rx)

\* The inductive invariant of MailboxPush.
PushInv ==
  /\ PushTypeOK
  /\ DOMAIN request = Signal
  /\ PushedIsStored
  /\ DeliveredOnce
  /\ RecoveredBySync
  /\ ConnectionOK

\* One request goes on to the state v.
GoesOn(s, a, v) == request' = [request EXCEPT ![s][a] = v]

\* The other requests, and the types, are left as they are.
LEMMA RequestGoesOn ==
  ASSUME PushTypeOK, DOMAIN request = Signal,
         NEW s \in Signal, NEW a \in Attempt(s), NEW v \in RequestState,
         GoesOn(s, a, v)
  PROVE  /\ DOMAIN request' = Signal
         /\ \A t \in Signal : request'[t] \in [Attempt(t) -> RequestState]
         /\ \A t \in Signal : \A b \in Attempt(t) :
              request'[t][b] = IF t = s /\ b = a THEN v ELSE request[t][b]
<1>1. request' = [request EXCEPT ![s] = [request[s] EXCEPT ![a] = v]]
  BY DEF GoesOn
<1>2. DOMAIN request' = Signal
  BY <1>1
<1>3. \A t \in Signal : request[t] \in [Attempt(t) -> RequestState]
  BY DEF PushTypeOK
<1>4. request'[s] = [request[s] EXCEPT ![a] = v]
  BY <1>1
<1>5. \A t \in Signal : t # s => request'[t] = request[t]
  BY <1>1
<1>6. /\ request'[s] \in [Attempt(s) -> RequestState]
      /\ \A b \in Attempt(s) : request'[s][b] = IF b = a THEN v ELSE request[s][b]
  BY <1>3, <1>4
<1> QED BY <1>2, <1>3, <1>5, <1>6

\* The attempts posted are among the attempts there are.
LEMMA PostedCount ==
  ASSUME NEW s \in Signal
  PROVE  Cardinality(Posted(s)) \in 0..Retries[s]
<1>1. Retries[s] \in Nat
  BY PushAssumption
<1>2. IsFiniteSet(1..Retries[s]) /\ Cardinality(1..Retries[s]) = Retries[s]
  BY <1>1, FS_Interval, SMTT(30)
<1>3. Posted(s) \subseteq 1..Retries[s]
  BY DEF Posted, Attempt
<1>4. IsFiniteSet(Posted(s)) /\ Cardinality(Posted(s)) <= Cardinality(1..Retries[s])
  BY <1>2, <1>3, FS_Subset
<1> QED BY <1>1, <1>2, <1>4, FS_CardinalityType

\* What a step of a sender does to the requests.
LEMMA SenderEffect ==
  ASSUME PushInv, NEW s \in Signal, Post(s) \/ Acknowledged(s)
  PROVE  /\ UNCHANGED <<stored, socket, rx, lagged, wire, fetch, delivered, disposed, pushed,
                        synced, fetchFailed>>
         /\ \E a \in Attempt(s) : \E v \in {"arrived", "acknowledged"} :
              /\ GoesOn(s, a, v)
              /\ v = "acknowledged" => request[s][a] = "answered"
<1>1. CASE Post(s)
  BY <1>1 DEF Post, GoesOn
<1>2. CASE Acknowledged(s)
  <2>1. Cardinality(Posted(s)) \in Attempt(s)
    BY <1>2, PostedCount DEF Acknowledged, Attempt
  <2> QED BY <1>2, <2>1 DEF Acknowledged, GoesOn
<1> QED BY <1>1, <1>2

\* What has been stored stays stored.
LEMMA StoredGrows ==
  ASSUME stored \in Seq(Signal), NEW s \in Signal, stored' = Append(stored, s)
  PROVE  /\ stored' \in Seq(Signal)
         /\ Len(stored') = Len(stored) + 1
         /\ Range(stored') = Range(stored) \cup {s}
         /\ \A i \in 1..Len(stored) : stored'[i] = stored[i]
<1> PICK q \in Seq(Signal) : q = stored
  OBVIOUS
<1>1. Append(q, s) \in Seq(Signal) /\ Len(Append(q, s)) = Len(q) + 1
      /\ \A i \in 1..Len(q) : Append(q, s)[i] = q[i]
  BY AppendProperties
<1>2. Range(Append(q, s)) = Range(q) \cup {s}
  BY RangeAppend
<1>3. stored' = Append(q, s)
  OBVIOUS
<1> QED BY <1>1, <1>2, <1>3

\* The buffer of the broadcast: the new message, and of the old ones all when
\* there is room.
LEMMA BroadcastEffect ==
  ASSUME NEW q \in Seq(Signal), Len(q) <= Capacity, NEW s \in Signal
  PROVE  /\ Broadcast(q, s) \in Seq(Signal)
         /\ Len(Broadcast(q, s)) <= Capacity
         /\ Broadcast(q, s) # <<>>
         /\ Range(Broadcast(q, s)) \subseteq Range(q) \cup {s}
         /\ Len(q) < Capacity => Range(Broadcast(q, s)) = Range(q) \cup {s}
<1>1. Capacity \in Nat \ {0}
  BY PushAssumption
<1>2. CASE Len(q) < Capacity
  <2>1. Append(q, s) \in Seq(Signal) /\ Len(Append(q, s)) = Len(q) + 1 /\ Append(q, s) # <<>>
    BY AppendProperties
  <2>2. Range(Append(q, s)) = Range(q) \cup {s}
    BY RangeAppend
  <2>3. Broadcast(q, s) = Append(q, s)
    BY <1>2 DEF Broadcast
  <2>4. Len(q) + 1 <= Capacity
    BY <1>1, <1>2
  <2> QED BY <2>1, <2>2, <2>3, <2>4
<1>3. CASE ~(Len(q) < Capacity)
  <2>1. Len(q) = Capacity /\ q # <<>>
    BY <1>1, <1>3
  <2>2. Tail(q) \in Seq(Signal) /\ Len(Tail(q)) = Len(q) - 1
        /\ Range(Tail(q)) \subseteq Range(q)
    BY <2>1, RangeHeadTail
  <2>3. /\ Append(Tail(q), s) \in Seq(Signal) /\ Append(Tail(q), s) # <<>>
        /\ Len(Append(Tail(q), s)) = Len(Tail(q)) + 1
    BY <2>2, AppendProperties
  <2>4. Range(Append(Tail(q), s)) = Range(Tail(q)) \cup {s}
    <3>1. PICK t \in Seq(Signal) : t = Tail(q)
      BY <2>2
    <3>2. Range(Append(t, s)) = Range(t) \cup {s}
      BY RangeAppend
    <3> QED BY <3>1, <3>2
  <2>5. Broadcast(q, s) = Append(Tail(q), s)
    BY <1>3 DEF Broadcast
  <2>6. Len(Append(Tail(q), s)) <= Capacity
    BY <1>1, <2>1, <2>2, <2>3
  <2> QED BY <1>3, <2>2, <2>3, <2>4, <2>5, <2>6, Zenon
<1> QED BY <1>2, <1>3

\* What a history sync emits is a prefix of the list.
LEMMA PrefixRange ==
  ASSUME NEW q \in Seq(Signal), NEW n \in Nat, n <= Len(q)
  PROVE  /\ SubSeq(q, 1, n) \in Seq(Signal)
         /\ Range(SubSeq(q, 1, n)) \subseteq Range(q)
         /\ \A i \in 1..n : q[i] \in Range(SubSeq(q, 1, n))
<1> DEFINE p == SubSeq(q, 1, n)
<1>1. \A i \in 1..n : i \in 1..Len(q) /\ q[i] \in Signal
  OBVIOUS
<1>2. p \in Seq(Signal) /\ Len(p) = n /\ \A i \in 1..n : p[i] = q[i]
  <2>1. /\ p \in Seq(Signal)
        /\ Len(p) = IF 1 <= n THEN n - 1 + 1 ELSE 0
        /\ \A i \in 1..(n - 1 + 1) : p[i] = q[1 + i - 1]
    BY <1>1, SubSeqProperties
  <2>2. n - 1 + 1 = n /\ \A i \in 1..n : 1 + i - 1 = i
    OBVIOUS
  <2> HIDE DEF p
  <2> QED BY <2>1, <2>2
<1> HIDE DEF p
<1>3. Range(p) = {p[i] : i \in 1..n} /\ Range(q) = {q[i] : i \in 1..Len(q)}
  BY <1>2, RangeEquality
<1> QED BY <1>1, <1>2, <1>3 DEF p

\* What the page has emitted changes only by a message that arrives and by the
\* answer of a history sync; both are messages that have been stored.
LEMMA EmitStep ==
  ASSUME PushInv, NEW msgs \in Seq(Signal), Range(msgs) \subseteq Range(stored),
         delivered' = EmitIfNew(delivered, msgs), UNCHANGED stored
  PROVE  /\ delivered' \in Seq(Signal)
         /\ DeliveredOnce'
         /\ Range(delivered) \subseteq Range(delivered')
         /\ ~disposed => Range(msgs) \subseteq Range(delivered')
<1>1. delivered \in Seq(Signal) /\ Distinct(delivered) /\ Range(delivered) \subseteq Range(stored)
  BY DEF PushInv, PushTypeOK, DeliveredOnce, Distinct
<1>2. CASE disposed
  <2>1. delivered' = delivered
    BY <1>2 DEF EmitIfNew
  <2> QED BY <1>1, <1>2, <2>1 DEF DeliveredOnce, Distinct
<1>3. CASE ~disposed
  <2>1. PICK d \in Seq(Signal) : d = delivered
    BY <1>1
  <2>2. PICK e : e = EmitIfNew(d, msgs)
    OBVIOUS
  <2>3. e \in Seq(Signal) /\ Distinct(e) /\ Range(e) = Range(d) \cup Range(msgs)
    BY <1>1, <1>3, <2>1, <2>2, EmitIfNewEffect
  <2>4. delivered' = e
    BY <2>1, <2>2
  <2>5. DeliveredOnce'
    BY <1>1, <2>1, <2>3, <2>4 DEF DeliveredOnce, Distinct
  <2> QED BY <2>1, <2>3, <2>4, <2>5
<1> QED BY <1>2, <1>3

\* The start.
LEMMA InitPush == PushInit => PushInv
<1> SUFFICES ASSUME PushInit PROVE PushInv
  OBVIOUS
<1>1. <<>> \in Seq(Signal) /\ Len(<<>>) = 0 /\ Range(<<>>) = {}
  BY EmptySeq DEF Range
<1>2. Capacity \in Nat \ {0}
  BY PushAssumption
<1>3. \A s \in Signal : request[s] \in [Attempt(s) -> RequestState]
  BY DEF PushInit, RequestState
<1>4. fetch \in [Slot -> Fetch]
  BY DEF PushInit, Idle, Fetch
<1>5. PushTypeOK
  <2>1. /\ stored \in Seq(Signal) /\ wire \in Seq(Signal) /\ delivered \in Seq(Signal)
        /\ rx \in Seq(Signal) /\ Len(rx) = 0
    BY <1>1 DEF PushInit
  <2>2. Len(rx) <= Capacity
    BY <1>2, <2>1
  <2>3. /\ socket \in SocketState /\ lagged \in BOOLEAN /\ disposed \in BOOLEAN
        /\ pushed \subseteq Signal /\ synced \in Nat /\ fetchFailed \in BOOLEAN
    BY DEF PushInit, SocketState
  <2> QED BY <1>3, <1>4, <2>1, <2>2, <2>3 DEF PushTypeOK
<1>6. DOMAIN request = Signal
  BY DEF PushInit
<1>7. PushedIsStored
  BY <1>1 DEF PushInit, PushedIsStored, Idle
<1>8. DeliveredOnce /\ RecoveredBySync
  BY <1>1 DEF PushInit, DeliveredOnce, RecoveredBySync
<1>9. ConnectionOK
  BY <1>1 DEF PushInit, ConnectionOK
<1> QED BY <1>5, <1>6, <1>7, <1>8, <1>9 DEF PushInv

\* A step of a sender: nothing is stored or pushed by it.
LEMMA SenderPush == ASSUME PushInv, SenderStep PROVE PushInv'
<1>1. PICK s \in Signal : Post(s) \/ Acknowledged(s)
  BY DEF SenderStep
<1>2. UNCHANGED <<stored, socket, rx, lagged, wire, fetch, delivered, disposed, pushed,
                  synced, fetchFailed>>
  BY <1>1, SenderEffect
<1>3. PICK a \in Attempt(s), v \in {"arrived", "acknowledged"} :
        /\ GoesOn(s, a, v)
        /\ v = "acknowledged" => request[s][a] = "answered"
  BY <1>1, SenderEffect
<1>4. PushTypeOK /\ DOMAIN request = Signal /\ v \in RequestState
  BY DEF PushInv, RequestState
<1>5. /\ DOMAIN request' = Signal
      /\ \A t \in Signal : request'[t] \in [Attempt(t) -> RequestState]
      /\ \A t \in Signal : \A b \in Attempt(t) :
           request'[t][b] = IF t = s /\ b = a THEN v ELSE request[t][b]
  BY <1>3, <1>4, RequestGoesOn
<1>6. PushTypeOK'
  BY <1>2, <1>4, <1>5 DEF PushTypeOK
<1>7. PushedIsStored'
  BY <1>2, <1>3, <1>5 DEF PushInv, PushedIsStored
<1>8. DeliveredOnce' /\ RecoveredBySync' /\ ConnectionOK'
  BY <1>2 DEF PushInv, DeliveredOnce, RecoveredBySync, ConnectionOK
<1> QED BY <1>5, <1>6, <1>7, <1>8 DEF PushInv

\* The list grows by the signal of the request.
LEMMA StorePush ==
  ASSUME PushInv, NEW s \in Signal, NEW a \in Attempt(s), Store(s, a)
  PROVE  PushInv'
<1>1. /\ UNCHANGED <<socket, rx, lagged, wire, fetch, delivered, disposed, pushed, synced,
                     fetchFailed>>
      /\ GoesOn(s, a, "stored")
  BY DEF Store, GoesOn
<1>2. PushTypeOK /\ DOMAIN request = Signal /\ "stored" \in RequestState
  BY DEF PushInv, RequestState
<1>3. /\ DOMAIN request' = Signal
      /\ \A t \in Signal : request'[t] \in [Attempt(t) -> RequestState]
      /\ \A t \in Signal : \A b \in Attempt(t) :
           request'[t][b] = IF t = s /\ b = a THEN "stored" ELSE request[t][b]
  BY <1>1, <1>2, RequestGoesOn
<1>4. stored \in Seq(Signal) /\ Len(stored) \in Nat
  BY <1>2 DEF PushTypeOK
<1>5. /\ stored' \in Seq(Signal)
      /\ Len(stored') = Len(stored) + 1
      /\ Range(stored') = Range(stored) \cup {s}
      /\ \A i \in 1..Len(stored) : stored'[i] = stored[i]
  BY <1>4, StoredGrows DEF Store
<1>6. PushTypeOK'
  BY <1>1, <1>2, <1>3, <1>5 DEF PushTypeOK
<1>7. PushedIsStored'
  <2>1. \A k \in Slot : fetch'[k].upto <= Len(stored')
    <3>1. \A k \in Slot : fetch[k].upto <= Len(stored) /\ fetch[k].upto \in Nat
      BY <1>2 DEF PushInv, PushedIsStored, PushTypeOK, Fetch
    <3> QED BY <1>1, <1>4, <1>5, <3>1
  <2> QED BY <1>1, <1>3, <1>5, <2>1 DEF PushInv, PushedIsStored
<1>8. DeliveredOnce'
  BY <1>1, <1>5 DEF PushInv, DeliveredOnce
<1>9. RecoveredBySync'
  <2>1. synced \in Nat /\ synced <= Len(stored)
    BY <1>2 DEF PushTypeOK, PushInv, RecoveredBySync
  <2>2. synced <= Len(stored')
    BY <1>4, <1>5, <2>1
  <2>3. \A i \in 1..synced : i \in 1..Len(stored)
    BY <1>4, <2>1
  <2> QED BY <1>1, <1>5, <2>2, <2>3 DEF PushInv, RecoveredBySync
<1>10. ConnectionOK'
  BY <1>1 DEF PushInv, ConnectionOK
<1> QED BY <1>3, <1>6, <1>7, <1>8, <1>9, <1>10 DEF PushInv

\* A push reaches the buffer of an open connection, or nothing.
LEMMA NotifyPush ==
  ASSUME PushInv, NEW s \in Signal, NEW a \in Attempt(s), Notify(s, a)
  PROVE  PushInv'
<1>1. /\ UNCHANGED <<stored, socket, wire, fetch, delivered, disposed, synced, fetchFailed>>
      /\ GoesOn(s, a, "answered") /\ request[s][a] = "stored"
  BY DEF Notify, GoesOn
<1>2. PushTypeOK /\ DOMAIN request = Signal /\ "answered" \in RequestState
  BY DEF PushInv, RequestState
<1>3. /\ DOMAIN request' = Signal
      /\ \A t \in Signal : request'[t] \in [Attempt(t) -> RequestState]
      /\ \A t \in Signal : \A b \in Attempt(t) :
           request'[t][b] = IF t = s /\ b = a THEN "answered" ELSE request[t][b]
  BY <1>1, <1>2, RequestGoesOn
<1>4. s \in Range(stored)
  BY <1>1 DEF PushInv, PushedIsStored
<1>5. PICK q \in Seq(Signal) : q = rx /\ Len(q) <= Capacity
  BY <1>2 DEF PushTypeOK
<1>6. /\ Broadcast(q, s) \in Seq(Signal) /\ Len(Broadcast(q, s)) <= Capacity
      /\ Broadcast(q, s) # <<>> /\ Range(Broadcast(q, s)) \subseteq Range(q) \cup {s}
      /\ Len(q) < Capacity => Range(Broadcast(q, s)) = Range(q) \cup {s}
  BY <1>5, BroadcastEffect
<1>7. \/ socket # "open" /\ UNCHANGED <<rx, lagged, pushed>>
      \/ /\ socket = "open"
         /\ pushed' = pushed \cup {s}
         /\ rx' = Broadcast(q, s)
         /\ lagged' = (lagged \/ Len(q) >= Capacity)
  BY <1>5 DEF Notify
<1>8. /\ rx' \in Seq(Signal) /\ Len(rx') <= Capacity /\ Range(rx') \subseteq Range(rx) \cup {s}
      /\ lagged' \in BOOLEAN /\ pushed' \subseteq Signal
  <2>1. CASE socket # "open"
    BY <1>2, <1>7, <2>1 DEF PushTypeOK
  <2>2. CASE socket = "open"
    BY <1>2, <1>5, <1>6, <1>7, <2>2 DEF PushTypeOK
  <2> QED BY <2>1, <2>2
<1>9. PushTypeOK'
  BY <1>1, <1>2, <1>3, <1>8 DEF PushTypeOK
<1>10. PushedIsStored'
  <2>1. Range(rx') \subseteq Range(stored)
    BY <1>4, <1>8 DEF PushInv, PushedIsStored
  <2> QED BY <1>1, <1>3, <1>4, <2>1 DEF PushInv, PushedIsStored
<1>11. DeliveredOnce' /\ RecoveredBySync'
  BY <1>1 DEF PushInv, DeliveredOnce, RecoveredBySync
<1>12. ConnectionOK'
  <2>1. CASE socket # "open"
    BY <1>1, <1>7, <2>1 DEF PushInv, ConnectionOK
  <2>2. CASE socket = "open"
    <3>1. rx' # <<>>
      BY <1>6, <1>7, <2>2
    <3>2. ASSUME ~lagged' PROVE pushed' \subseteq Range(delivered') \cup Range(wire') \cup Range(rx')
      <4>1. ~lagged /\ Len(q) < Capacity
        <5>1. Len(q) \in Nat /\ Capacity \in Nat
          BY <1>5, PushAssumption
        <5>2. lagged' = (lagged \/ Len(q) >= Capacity)
          BY <1>7, <2>2, Zenon
        <5>3. ~lagged /\ ~(Len(q) >= Capacity)
          BY <3>2, <5>2, Zenon
        <5> QED BY <5>1, <5>3
      <4>2. pushed \subseteq Range(delivered) \cup Range(wire) \cup Range(q)
        BY <1>5, <4>1 DEF PushInv, ConnectionOK
      <4>3. Range(rx') = Range(q) \cup {s} /\ pushed' = pushed \cup {s}
        BY <1>6, <1>7, <2>2, <4>1
      <4> QED BY <1>1, <4>2, <4>3
    <3>3. (disposed => socket = "closed")' /\ (socket = "open")'
      BY <1>1, <2>2 DEF PushInv, ConnectionOK
    <3> QED BY <3>1, <3>2, <3>3 DEF ConnectionOK
  <2> QED BY <2>1, <2>2
<1> QED BY <1>3, <1>9, <1>10, <1>11, <1>12 DEF PushInv

\* A request that is lost changes nothing else.
LEMMA LostPush ==
  ASSUME PushInv, NEW s \in Signal, NEW a \in Attempt(s), Lost(s, a)
  PROVE  PushInv'
<1>1. /\ UNCHANGED <<stored, socket, rx, lagged, wire, fetch, delivered, disposed, pushed,
                     synced, fetchFailed>>
      /\ GoesOn(s, a, "lost")
  BY DEF Lost, GoesOn
<1>2. PushTypeOK /\ DOMAIN request = Signal /\ "lost" \in RequestState
  BY DEF PushInv, RequestState
<1>3. /\ DOMAIN request' = Signal
      /\ \A t \in Signal : request'[t] \in [Attempt(t) -> RequestState]
      /\ \A t \in Signal : \A b \in Attempt(t) :
           request'[t][b] = IF t = s /\ b = a THEN "lost" ELSE request[t][b]
  BY <1>1, <1>2, RequestGoesOn
<1>4. PushTypeOK'
  BY <1>1, <1>2, <1>3 DEF PushTypeOK
<1>5. PushedIsStored'
  BY <1>1, <1>3 DEF PushInv, PushedIsStored
<1>6. DeliveredOnce' /\ RecoveredBySync' /\ ConnectionOK'
  BY <1>1 DEF PushInv, DeliveredOnce, RecoveredBySync, ConnectionOK
<1> QED BY <1>3, <1>4, <1>5, <1>6 DEF PushInv

\* A connection that opens carries nothing yet.
LEMMA SubscribePush == ASSUME PushInv, Subscribe PROVE PushInv'
<1>1. /\ UNCHANGED <<request, stored, rx, lagged, pushed, wire, fetch, delivered, disposed,
                     synced, fetchFailed>>
      /\ socket = "connecting" /\ socket' = "open"
  BY DEF Subscribe, server
<1>2. PushTypeOK'
  BY <1>1 DEF PushInv, PushTypeOK, SocketState
<1>3. PushedIsStored' /\ DeliveredOnce' /\ RecoveredBySync' /\ (DOMAIN request = Signal)'
  BY <1>1 DEF PushInv, PushedIsStored, DeliveredOnce, RecoveredBySync
<1>4. ConnectionOK'
  BY <1>1 DEF PushInv, ConnectionOK
<1> QED BY <1>2, <1>3, <1>4 DEF PushInv

\* What is forwarded goes from the buffer to the wire.
LEMMA ForwardPush == ASSUME PushInv, Forward PROVE PushInv'
<1>1. /\ UNCHANGED <<request, stored, socket, lagged, fetch, delivered, disposed, pushed,
                     synced, fetchFailed>>
      /\ socket = "open" /\ ~lagged /\ rx # <<>>
      /\ rx' = Tail(rx) /\ wire' = Append(wire, Head(rx))
  BY DEF Forward, InStep
<1>2. PICK q \in Seq(Signal), w \in Seq(Signal) : q = rx /\ w = wire /\ Len(q) <= Capacity
  BY DEF PushInv, PushTypeOK
<1>3. /\ Head(q) \in Signal /\ Tail(q) \in Seq(Signal) /\ Len(Tail(q)) = Len(q) - 1
      /\ Range(q) = {Head(q)} \cup Range(Tail(q))
  BY <1>1, <1>2, RangeHeadTail
<1>4. PICK h \in Signal : h = Head(q)
  BY <1>3
<1>5. Append(w, h) \in Seq(Signal) /\ Range(Append(w, h)) = Range(w) \cup {h}
  BY AppendProperties, RangeAppend
<1>6. /\ rx' \in Seq(Signal) /\ wire' \in Seq(Signal)
      /\ Range(rx) = {h} \cup Range(rx') /\ Range(wire') = Range(wire) \cup {h}
  BY <1>1, <1>2, <1>3, <1>4, <1>5, Zenon
<1>7. Len(rx') <= Capacity
  <2>1. Capacity \in Nat /\ Len(q) \in Nat
    BY PushAssumption
  <2> QED BY <1>1, <1>2, <1>3, <2>1
<1>8. PushTypeOK'
  BY <1>1, <1>6, <1>7 DEF PushInv, PushTypeOK
<1>9. PushedIsStored'
  <2>1. Range(rx') \subseteq Range(stored) /\ Range(wire') \subseteq Range(stored)
    BY <1>6 DEF PushInv, PushedIsStored
  <2> QED BY <1>1, <2>1 DEF PushInv, PushedIsStored
<1>10. DeliveredOnce' /\ RecoveredBySync' /\ (DOMAIN request = Signal)'
  BY <1>1 DEF PushInv, DeliveredOnce, RecoveredBySync
<1>11. ConnectionOK'
  <2>1. pushed \subseteq Range(delivered) \cup Range(wire) \cup Range(rx)
    BY <1>1 DEF PushInv, ConnectionOK
  <2>2. pushed \subseteq Range(delivered) \cup Range(wire') \cup Range(rx')
    BY <1>6, <2>1
  <2>3. disposed => socket = "closed"
    BY DEF PushInv, ConnectionOK
  <2> QED BY <1>1, <2>2, <2>3 DEF ConnectionOK
<1> QED BY <1>8, <1>9, <1>10, <1>11 DEF PushInv

\* A connection that ends takes with it what it carried.
LEMMA HangupPush ==
  ASSUME PushInv, Hangup, UNCHANGED <<request, stored, fetch, delivered, synced, fetchFailed>>,
         disposed' \in BOOLEAN
  PROVE  PushInv'
<1>1. <<>> \in Seq(Signal) /\ Len(<<>>) = 0 /\ Range(<<>>) = {} /\ 0 <= Capacity
  BY EmptySeq, PushAssumption DEF Range
<1>2. /\ socket' = "closed" /\ rx' = <<>> /\ wire' = <<>> /\ lagged' = FALSE /\ pushed' = {}
  BY DEF Hangup
<1>3. PushTypeOK'
  BY <1>1, <1>2 DEF PushInv, PushTypeOK, SocketState
<1>4. PushedIsStored'
  BY <1>1, <1>2 DEF PushInv, PushedIsStored
<1>5. DeliveredOnce' /\ RecoveredBySync' /\ (DOMAIN request = Signal)'
  BY DEF PushInv, DeliveredOnce, RecoveredBySync
<1>6. ConnectionOK'
  BY <1>2 DEF ConnectionOK
<1> QED BY <1>3, <1>4, <1>5, <1>6 DEF PushInv

\* A sync that is asked for, read or given up emits nothing; what it has read is a
\* prefix of the list.
LEMMA FetchPush ==
  ASSUME PushInv, NEW k \in Slot, NEW f \in Fetch, f.upto <= Len(stored),
         fetch' = [fetch EXCEPT ![k] = f], UNCHANGED <<server, wire, delivered, disposed, synced>>,
         socket' = socket \/ (socket = "closed" /\ socket' = "connecting" /\ ~disposed),
         fetchFailed' \in BOOLEAN
  PROVE  PushInv'
<1>1. UNCHANGED <<request, stored, rx, lagged, pushed>>
  BY DEF server
<1>2. fetch \in [Slot -> Fetch] /\ fetch' \in [Slot -> Fetch]
  BY DEF PushInv, PushTypeOK
<1>3. PushTypeOK'
  BY <1>1, <1>2 DEF PushInv, PushTypeOK, SocketState
<1>4. PushedIsStored'
  <2>1. \A j \in Slot : fetch[j].upto <= Len(stored)
    BY DEF PushInv, PushedIsStored
  <2>2. \A j \in Slot : fetch'[j].upto <= Len(stored)
    BY <1>2, <2>1
  <2> QED BY <1>1, <2>2 DEF PushInv, PushedIsStored
<1>5. DeliveredOnce' /\ RecoveredBySync' /\ (DOMAIN request = Signal)'
  BY <1>1 DEF PushInv, DeliveredOnce, RecoveredBySync
<1>6. ConnectionOK'
  BY <1>1 DEF PushInv, ConnectionOK
<1> QED BY <1>3, <1>4, <1>5, <1>6 DEF PushInv

\* The answer of a sync is emitted.
LEMMA FetchEmitPush == ASSUME PushInv, NEW k \in Slot, FetchEmit(k) PROVE PushInv'
<1>1. /\ UNCHANGED <<request, stored, rx, lagged, pushed, socket, wire, disposed, fetchFailed>>
      /\ fetch' = [fetch EXCEPT ![k] = Idle]
  BY DEF FetchEmit, server
<1>2. PICK q \in Seq(Signal) : q = stored
  BY DEF PushInv, PushTypeOK
<1>3. PICK n \in Nat : n = fetch[k].upto /\ n <= Len(q)
  BY <1>2 DEF PushInv, PushTypeOK, PushedIsStored, Fetch
<1>4. /\ SubSeq(q, 1, n) \in Seq(Signal) /\ Range(SubSeq(q, 1, n)) \subseteq Range(q)
      /\ \A i \in 1..n : q[i] \in Range(SubSeq(q, 1, n))
  BY <1>3, PrefixRange
<1>5. PICK p \in Seq(Signal) : p = SubSeq(q, 1, n)
  BY <1>4
<1>6. /\ delivered' = EmitIfNew(delivered, p)
      /\ synced' = IF ~disposed /\ n > synced THEN n ELSE synced
  BY <1>2, <1>3, <1>5 DEF FetchEmit
<1>7. Range(p) \subseteq Range(stored) /\ \A i \in 1..n : stored[i] \in Range(p)
  BY <1>2, <1>4, <1>5
<1>8. /\ delivered' \in Seq(Signal) /\ DeliveredOnce'
      /\ Range(delivered) \subseteq Range(delivered')
      /\ ~disposed => Range(p) \subseteq Range(delivered')
  BY <1>1, <1>6, <1>7, EmitStep
<1>9. Idle \in Fetch /\ Idle.upto = 0
  BY DEF Idle, Fetch
<1>10. synced \in Nat /\ synced <= Len(stored) /\ \A i \in 1..synced : stored[i] \in Range(delivered)
  BY DEF PushInv, PushTypeOK, RecoveredBySync
<1>11. PushTypeOK'
  BY <1>1, <1>6, <1>8, <1>9, <1>10 DEF PushInv, PushTypeOK
<1>12. PushedIsStored'
  <2>1. fetch \in [Slot -> Fetch] /\ Len(stored) \in Nat
    BY DEF PushInv, PushTypeOK
  <2>2. \A j \in Slot : fetch'[j].upto <= Len(stored)
    BY <1>1, <1>9, <2>1 DEF PushInv, PushedIsStored
  <2> QED BY <1>1, <2>2 DEF PushInv, PushedIsStored
<1>13. RecoveredBySync'
  <2>1. CASE ~disposed /\ n > synced
    <3>1. synced' = n /\ n <= Len(stored)
      BY <1>2, <1>3, <1>6, <2>1
    <3>2. \A i \in 1..n : stored[i] \in Range(delivered')
      BY <1>7, <1>8, <2>1
    <3> QED BY <1>1, <3>1, <3>2 DEF RecoveredBySync
  <2>2. CASE ~(~disposed /\ n > synced)
    <3>1. synced' = synced
      BY <1>6, <2>2
    <3> QED BY <1>1, <1>8, <1>10, <3>1 DEF RecoveredBySync
  <2> QED BY <2>1, <2>2
<1>14. ConnectionOK'
  BY <1>1, <1>8 DEF PushInv, ConnectionOK
<1> QED BY <1>1, <1>8, <1>11, <1>12, <1>13, <1>14 DEF PushInv

\* A pushed message that arrives is emitted; a page that listens no more has no
\* connection it could arrive on.
LEMMA ReceivePush == ASSUME PushInv, Receive PROVE PushInv'
<1>1. /\ UNCHANGED <<request, stored, rx, lagged, pushed, socket, fetch, disposed, synced,
                     fetchFailed>>
      /\ wire # <<>> /\ wire' = Tail(wire) /\ delivered' = EmitIfNew(delivered, <<Head(wire)>>)
  BY DEF Receive, server
<1>2. PICK w \in Seq(Signal) : w = wire
  BY DEF PushInv, PushTypeOK
<1>3. Head(w) \in Signal /\ Tail(w) \in Seq(Signal) /\ Range(w) = {Head(w)} \cup Range(Tail(w))
  BY <1>1, <1>2, RangeHeadTail
<1>4. PICK h \in Signal : h = Head(w)
  BY <1>3
<1>5. PICK p \in Seq(Signal) : p = <<h>> /\ Range(p) = {h}
  <2>1. <<h>> \in Seq(Signal) /\ Len(<<h>>) = 1 /\ <<h>>[1] = h
    OBVIOUS
  <2>2. Range(<<h>>) = {<<h>>[i] : i \in 1..1}
    BY <2>1, RangeEquality
  <2>3. 1..1 = {1}
    OBVIOUS
  <2> QED BY <2>1, <2>2, <2>3
<1>6. /\ delivered' = EmitIfNew(delivered, p) /\ wire' \in Seq(Signal)
      /\ Range(wire) = {h} \cup Range(wire')
  BY <1>1, <1>2, <1>3, <1>4, <1>5
<1>7. Range(p) \subseteq Range(stored)
  BY <1>5, <1>6 DEF PushInv, PushedIsStored
<1>8. /\ delivered' \in Seq(Signal) /\ DeliveredOnce'
      /\ Range(delivered) \subseteq Range(delivered')
      /\ ~disposed => Range(p) \subseteq Range(delivered')
  BY <1>1, <1>6, <1>7, EmitStep
<1>9. socket = "open" /\ ~disposed
  BY <1>1 DEF PushInv, ConnectionOK
<1>10. PushTypeOK'
  BY <1>1, <1>6, <1>8 DEF PushInv, PushTypeOK
<1>11. PushedIsStored'
  BY <1>1, <1>6 DEF PushInv, PushedIsStored
<1>12. RecoveredBySync'
  BY <1>1, <1>8 DEF PushInv, RecoveredBySync
<1>13. ConnectionOK'
  <2>1. Range(delivered) \cup Range(wire) \subseteq Range(delivered') \cup Range(wire')
    BY <1>5, <1>6, <1>8, <1>9
  <2> QED BY <1>1, <1>9, <2>1 DEF PushInv, ConnectionOK
<1> QED BY <1>1, <1>8, <1>10, <1>11, <1>12, <1>13 DEF PushInv

\* The strengthening is inductive.
LEMMA StepPush == PushInv /\ [PushNext]_pushVars => PushInv'
<1> SUFFICES ASSUME PushInv, [PushNext]_pushVars PROVE PushInv'
  OBVIOUS
<1>1. CASE SenderStep
  BY <1>1, SenderPush
<1>2. ASSUME NEW s \in Signal, NEW a \in Attempt(s), Store(s, a) \/ Notify(s, a) \/ Lost(s, a)
      PROVE  PushInv'
  BY <1>2, StorePush, NotifyPush, LostPush
<1>3. CASE Subscribe \/ Forward
  BY <1>3, SubscribePush, ForwardPush
<1>4. CASE EndLagged \/ Drop \/ Cancel
  <2>1. disposed \in BOOLEAN
    BY DEF PushInv, PushTypeOK
  <2>2. Hangup /\ UNCHANGED <<request, stored, fetch, delivered, synced, fetchFailed>>
    BY <1>4 DEF EndLagged, Drop, Cancel
  <2>3. disposed' \in BOOLEAN
    BY <1>4, <2>1 DEF EndLagged, Drop, Cancel
  <2> QED BY <2>2, <2>3, HangupPush
<1>5. CASE Connect
  <2>1. PICK k \in Slot : fetch[k] = Idle /\ fetch' = [fetch EXCEPT ![k].state = "asked"]
    BY <1>5 DEF Connect
  <2>2. PICK f \in Fetch : f = [state |-> "asked", upto |-> 0]
    BY DEF Fetch
  <2>3. fetch' = [fetch EXCEPT ![k] = f]
    <3>1. fetch' = [fetch EXCEPT ![k] = [fetch[k] EXCEPT !.state = "asked"]]
      BY <2>1
    <3>2. [Idle EXCEPT !.state = "asked"] = f
      BY <2>2 DEF Idle
    <3> QED BY <2>1, <3>1, <3>2, Zenon
  <2>4. f.upto <= Len(stored)
    BY <2>2 DEF PushInv, PushTypeOK
  <2>5. /\ UNCHANGED <<server, wire, delivered, disposed, synced>> /\ fetchFailed' \in BOOLEAN
        /\ socket = "closed" /\ socket' = "connecting" /\ ~disposed
    BY <1>5 DEF Connect, PushInv, PushTypeOK
  <2> QED BY <2>3, <2>4, <2>5, FetchPush
<1>6. ASSUME NEW k \in Slot, FetchRead(k) \/ FetchFail(k)
      PROVE  PushInv'
  <2>1. Len(stored) \in Nat /\ fetchFailed \in BOOLEAN
    BY DEF PushInv, PushTypeOK
  <2>2. PICK n \in Nat : n = Len(stored)
    BY <2>1
  <2>3. PICK f \in Fetch : f.upto <= Len(stored) /\ fetch' = [fetch EXCEPT ![k] = f]
    <3>1. CASE FetchRead(k)
      <4>1. PICK f \in Fetch : f = [state |-> "answered", upto |-> n]
        BY DEF Fetch
      <4>2. fetch' = [fetch EXCEPT ![k] = f]
        BY <2>2, <3>1, <4>1 DEF FetchRead
      <4>3. f.upto <= Len(stored)
        BY <2>1, <2>2, <4>1
      <4> QED BY <4>2, <4>3
    <3>2. CASE FetchFail(k)
      <4>1. Idle \in Fetch /\ Idle.upto <= Len(stored)
        BY <2>1 DEF Fetch, Idle
      <4> QED BY <3>2, <4>1 DEF FetchFail
    <3> QED BY <1>6, <3>1, <3>2
  <2>4. /\ UNCHANGED <<server, wire, delivered, disposed, synced>> /\ fetchFailed' \in BOOLEAN
        /\ socket' = socket
    BY <1>6, <2>1 DEF FetchRead, FetchFail
  <2> QED BY <2>3, <2>4, FetchPush
<1>7. ASSUME NEW k \in Slot, FetchEmit(k) PROVE PushInv'
  BY <1>7, FetchEmitPush
<1>8. CASE Receive
  BY <1>8, ReceivePush
<1>9. CASE UNCHANGED pushVars
  BY <1>9 DEF pushVars, PushInv, PushTypeOK, PushedIsStored, DeliveredOnce, RecoveredBySync,
              ConnectionOK
<1> QED BY <1>1, <1>2, <1>3, <1>4, <1>5, <1>6, <1>7, <1>8, <1>9
        DEF PushNext, ServerStep, ClientStep, FetchStep

\* The invariant of MailboxPush.
LEMMA PushInvariant == PushSpec => []PushInv
<1>1. PushInit => PushInv
  BY InitPush
<1>2. PushInv /\ [PushNext]_pushVars => PushInv'
  BY StepPush
<1> QED BY <1>1, <1>2, PTL DEF PushSpec

\* The variables of MailboxPush keep to their types, for any signals, retries,
\* buffer and number of syncs under way.
THEOREM PushTypes == PushSpec => []PushTypeOK
<1>1. PushInv => PushTypeOK
  BY DEF PushInv
<1> QED BY <1>1, PushInvariant, PTL

\* emitIfNew: however often a signal is retried, pushed and fetched, the page sees
\* it once, and only if mailbox_send has stored it.
THEOREM SignalDeliveredOnce == PushSpec => []DeliveredOnce
<1>1. PushInv => DeliveredOnce
  BY DEF PushInv
<1> QED BY <1>1, PushInvariant, PTL

\* syncMailboxHistory: a sync that has ended has delivered all that was stored when
\* the server read the list.
THEOREM SyncRecovers == PushSpec => []RecoveredBySync
<1>1. PushInv => RecoveredBySync
  BY DEF PushInv
<1> QED BY <1>1, PushInvariant, PTL

\* handle_ws: on a connection that is open everything pushed is on its way or
\* delivered, since a handler that has lagged ends the connection.
THEOREM OpenSocketComplete == PushSpec => []OpenSocketMissesNothing
<1>1. PushInv => OpenSocketMissesNothing
  <2> SUFFICES ASSUME PushInv, socket = "open", rx = <<>>, wire = <<>>
               PROVE  pushed \subseteq Range(delivered)
    BY DEF OpenSocketMissesNothing
  <2>1. Range(rx) = {} /\ Range(wire) = {}
    BY DEF Range
  <2>2. ~lagged
    BY DEF PushInv, ConnectionOK
  <2> QED BY <2>1, <2>2 DEF PushInv, ConnectionOK
<1> QED BY <1>1, PushInvariant, PTL

-----------------------------------------------------------------------------
(* Handshake: the invariant.                                               *)

\* The records of the two pages.
InitiatorState ==
  [link: 0..MaxLink, making: BOOLEAN, ticking: BOOLEAN, expired: BOOLEAN, sub: 0..MaxLink,
   incoming: BOOLEAN, dialogs: Seq(0..MaxLink), accepted: BOOLEAN,
   pc: [of: 0..MaxAttempt, answered: BOOLEAN, ice: BOOLEAN, up: BOOLEAN, stale: BOOLEAN],
   ices: SUBSET AcceptId, connected: BOOLEAN, closed: BOOLEAN, left: BOOLEAN]

ResponderState ==
  [link: 0..MaxLink, stage: {"idle", "joining", "joined"}, sub: 0..MaxLink, timer: BOOLEAN,
   giving: {"no", "cancel", "dispose"},
   pc: [open: BOOLEAN, remote: 0..MaxAttempt, ice: BOOLEAN, up: BOOLEAN, stale: BOOLEAN],
   answering: 0..MaxAttempt, ices: SUBSET {-l : l \in Link}, connected: BOOLEAN,
   closed: BOOLEAN]

PagesTypes ==
  /\ PagesTypeOK
  /\ ini \in InitiatorState
  /\ res \in ResponderState
  /\ accepts \in 0..MaxAttempt

\* The links are made one after the other, and a page is on one of them.
LinksInOrder ==
  /\ \E n \in 0..MaxLink : \A l \in Link : box[l] # "none" <=> l <= n
  /\ ini.link # 0 => box[ini.link] # "none"
  /\ res.link # 0 => res.link \in joined

\* A dialog speaks of a link, and the one of an incoming request of the page's.
DialogOK ==
  /\ ini.incoming => Top # 0 /\ ini.dialogs[Top] = ini.link
  /\ Top # 0 => ini.link # 0

\* The responder has a peer connection between the hello and the end of a join.
SessionOfJoin ==
  /\ res.stage = "idle" <=> res.link = 0
  /\ res.sub # 0 => res.stage = "joined"
  /\ res.pc.open => res.stage = "joined"
  /\ res.pc.remote # 0 => res.pc.open
  /\ res.giving # "no" => res.stage = "joined" /\ res.sub = 0
  /\ res.giving = "dispose" => ~res.pc.open

Offer(a) == [kind |-> "offer", of |-> a]

\* The offer of an accept is on its way: to be stored, or to be delivered.
UnderWay(a) == \/ \E p \in posts : p.of = a /\ p.state = "posted"
               \/ \E l \in Link : Offer(a) \in toR[l]

\* An accept posts one offer, to one link, and it is delivered once.
OffersOnce ==
  /\ \A p \in posts : p.of \in 1..accepts
  /\ \A p, q \in posts : p.of = q.of => p = q
  /\ \A l \in Link : \A a \in AcceptId : Offer(a) \in toR[l] =>
       /\ a <= accepts
       /\ \A p \in posts : p.of = a => p.state # "posted"
       /\ \A m \in Link : Offer(a) \in toR[m] => m = l
  /\ ini.pc.of <= accepts
  /\ res.pc.remote <= accepts
  /\ \A a \in AcceptId : res.pc.remote = a => ~UnderWay(a)

\* The offer of the accept the initiator is at goes to the link it is on.
OfferOfLink ==
  \A a \in AcceptId : ini.pc.of = a /\ ~ini.pc.stale =>
    /\ \A p \in posts : p.of = a => p.link = ini.link
    /\ \A l \in Link : Offer(a) \in toR[l] => l = ini.link
    /\ res.pc.remote = a => res.link = ini.link

\* A connection of an accept of this link that is up.
UpHere == ini.pc.up /\ ~ini.pc.stale

\* A connection that is up on one side, and is not a thing of the past, is up on
\* the other, for as long as that side is there.
UpTogether ==
  /\ ini.pc.up => ini.pc.of # 0
  /\ res.pc.up => res.pc.remote # 0
  /\ UpHere => ini.link \in joined
  /\ UpHere /\ res.stage = "joining" => res.link # ini.link
  /\ \A a \in AcceptId : UpHere /\ ini.pc.of = a => ~UnderWay(a)
  /\ UpHere /\ res.pc.open /\ ~res.pc.stale /\ res.link = ini.link
       /\ res.pc.remote \in {0, ini.pc.of} => res.pc.up
  /\ res.pc.up /\ ~res.pc.stale /\ ini.pc.of # 0 /\ res.pc.remote = ini.pc.of => ini.pc.up

\* The inductive invariant of Handshake.
PagesInv ==
  /\ PagesTypes
  /\ LinksInOrder
  /\ DialogOK
  /\ SessionOfJoin
  /\ OffersOnce
  /\ OfferOfLink
  /\ UpTogether

\* What the steps below leave alone of a page: its link and its peer connection.
SameI == /\ ini'.link = ini.link
         /\ ini'.pc.of = ini.pc.of /\ ini'.pc.up = ini.pc.up /\ ini'.pc.stale = ini.pc.stale
SameR == /\ res'.link = res.link /\ res'.stage = res.stage
         /\ res'.pc.open = res.pc.open /\ res'.pc.remote = res.pc.remote
         /\ res'.pc.up = res.pc.up /\ res'.pc.stale = res.pc.stale
\* What they leave of it that end a join, or the connection of one.
GoneR == /\ ~res'.pc.open /\ res'.pc.remote = 0 /\ ~res'.pc.up
         /\ res'.stage # "joining"

\* No offer comes to be under way: posts end or are tried again, and offers are
\* taken from a mailbox or get from a post to the mailbox of its link.
Arrives(l, a) ==
  /\ \E p \in posts : p.of = a /\ p.link = l /\ p.state = "posted"
  /\ \A p \in posts' : p.of = a => p.state # "posted"

OffersMove ==
  /\ accepts' = accepts
  /\ \A p \in posts' : \E q \in posts : p.of = q.of /\ p.link = q.link
                                        /\ (p.state = "posted" => q.state = "posted")
  /\ \A p, q \in posts' : p.of = q.of => p = q
  /\ \A l \in Link : \A a \in AcceptId :
       Offer(a) \in toR'[l] => Offer(a) \in toR[l] \/ Arrives(l, a)

\* Neither page goes on to another accept or session, though it may lose the
\* connection it has.
LEMMA OffersFrame ==
  ASSUME PagesInv, OffersMove, joined \subseteq joined',
         SameI \/ ini'.pc = NoPcI,
         SameR \/ GoneR
  PROVE  OffersOnce' /\ OfferOfLink' /\ UpTogether'
<1>1. /\ ini.pc.of \in 0..MaxAttempt /\ res.pc.remote \in 0..MaxAttempt
      /\ accepts \in 0..MaxAttempt /\ MaxAttempt \in Nat \ {0}
  BY HandshakeAssumption DEF PagesInv, PagesTypes, InitiatorState, ResponderState
<1>2. \A a \in AcceptId : UnderWay(a)' => UnderWay(a)
  BY DEF OffersMove, Arrives, UnderWay
<1>3. /\ ini'.pc.of # 0 => SameI
      /\ ini'.pc.up => SameI
  BY DEF NoPcI, SameI
<1>4. /\ res'.pc.remote # 0 => SameR
      /\ res'.pc.up \/ res'.pc.open \/ res'.stage = "joining" => SameR
  BY DEF GoneR, SameR
<1>5. 0 \notin AcceptId
  BY DEF AcceptId
<1>6. OffersOnce'
  <2>1. ini'.pc.of <= accepts' /\ res'.pc.remote <= accepts'
    <3>1. ini.pc.of <= accepts /\ res.pc.remote <= accepts /\ 0 <= accepts
      BY <1>1 DEF PagesInv, OffersOnce
    <3>2. accepts' = accepts /\ (ini'.pc.of = ini.pc.of \/ ini'.pc.of = 0)
          /\ (res'.pc.remote = res.pc.remote \/ res'.pc.remote = 0)
      BY <1>3, <1>4 DEF OffersMove, SameI, SameR
    <3> QED BY <3>1, <3>2
  <2>2. \A a \in AcceptId : res'.pc.remote = a => ~UnderWay(a)'
    BY <1>2, <1>4, <1>5 DEF PagesInv, OffersOnce, SameR
  <2>3. /\ \A p \in posts' : p.of \in 1..accepts'
        /\ \A p, q \in posts' : p.of = q.of => p = q
    BY DEF PagesInv, OffersOnce, OffersMove
  <2>4. ASSUME NEW l \in Link, NEW a \in AcceptId, Offer(a) \in toR'[l]
        PROVE  /\ a <= accepts'
               /\ \A p \in posts' : p.of = a => p.state # "posted"
               /\ \A m \in Link : Offer(a) \in toR'[m] => m = l
    <3>1. \/ Offer(a) \in toR[l]
          \/ \E p \in posts : p.of = a /\ p.link = l /\ p.state = "posted"
      BY <2>4 DEF OffersMove, Arrives
    <3>2. a <= accepts'
      <4>1. \A p \in posts : p.of \in 1..accepts
        BY DEF PagesInv, OffersOnce
      <4> QED BY <1>1, <3>1, <4>1 DEF PagesInv, OffersOnce, OffersMove
    <3>3. ASSUME NEW p \in posts', p.of = a PROVE p.state # "posted"
      BY <2>4, <3>3 DEF PagesInv, OffersOnce, OffersMove, Arrives
    <3>4. ASSUME NEW m \in Link, Offer(a) \in toR'[m] PROVE m = l
      <4>1. \/ Offer(a) \in toR[m]
            \/ \E p \in posts : p.of = a /\ p.link = m /\ p.state = "posted"
        BY <3>4 DEF OffersMove, Arrives
      <4> QED BY <3>1, <4>1 DEF PagesInv, OffersOnce
    <3> QED BY <3>2, <3>3, <3>4
  <2> QED BY <2>1, <2>2, <2>3, <2>4 DEF OffersOnce
<1>7. OfferOfLink'
  <2>1. SUFFICES ASSUME NEW a \in AcceptId, ini'.pc.of = a, ~ini'.pc.stale
                 PROVE  /\ \A p \in posts' : p.of = a => p.link = ini'.link
                        /\ \A l \in Link : Offer(a) \in toR'[l] => l = ini'.link
                        /\ res'.pc.remote = a => res'.link = ini'.link
    BY DEF OfferOfLink
  <2>2. ini'.link = ini.link /\ ini.pc.of = a /\ ~ini.pc.stale
    BY <1>3, <1>5, <2>1 DEF SameI
  <2>3. res'.pc.remote = a => res'.link = res.link /\ res.pc.remote = a
    BY <1>4, <1>5 DEF SameR
  <2>4. \A p \in posts' : p.of = a => p.link = ini'.link
    BY <2>2 DEF PagesInv, OfferOfLink, OffersMove
  <2>5. \A l \in Link : Offer(a) \in toR'[l] => l = ini'.link
    BY <2>2 DEF PagesInv, OfferOfLink, OffersMove, Arrives
  <2> QED BY <2>2, <2>3, <2>4, <2>5 DEF PagesInv, OfferOfLink
<1>8. UpTogether'
  <2>1. ini'.pc.up => ini'.pc.of # 0
    BY <1>3 DEF PagesInv, UpTogether, SameI
  <2>2. res'.pc.up => res'.pc.remote # 0
    BY <1>4 DEF PagesInv, UpTogether, SameR
  <2>3. ASSUME UpHere' PROVE UpHere /\ ini'.link = ini.link /\ ini'.pc.of = ini.pc.of
    BY <1>3, <2>3 DEF UpHere, SameI
  <2>4. UpHere' => ini'.link \in joined'
    BY <2>3 DEF PagesInv, UpTogether
  <2>5. UpHere' /\ res'.stage = "joining" => res'.link # ini'.link
    BY <1>4, <2>3 DEF PagesInv, UpTogether, SameR
  <2>6. \A a \in AcceptId : UpHere' /\ ini'.pc.of = a => ~UnderWay(a)'
    BY <1>2, <2>3 DEF PagesInv, UpTogether
  <2>7. UpHere' /\ res'.pc.open /\ ~res'.pc.stale /\ res'.link = ini'.link
          /\ res'.pc.remote \in {0, ini'.pc.of} => res'.pc.up
    BY <1>4, <2>3 DEF PagesInv, UpTogether, SameR
  <2>8. res'.pc.up /\ ~res'.pc.stale /\ ini'.pc.of # 0 /\ res'.pc.remote = ini'.pc.of => ini'.pc.up
    BY <1>3, <1>4 DEF PagesInv, UpTogether, SameI, SameR
  <2> QED BY <2>1, <2>2, <2>4, <2>5, <2>6, <2>7, <2>8 DEF UpTogether
<1> QED BY <1>6, <1>7, <1>8

\* The links stay in order when none is made and the pages stay on theirs, or leave.
LEMMA LinksFrame ==
  ASSUME PagesInv, \A l \in Link : box'[l] # "none" <=> box[l] # "none",
         ini'.link \in {0, ini.link}, res'.link \in {0, res.link}, joined \subseteq joined'
  PROVE  LinksInOrder'
<1>1. ini.link \in 0..MaxLink
  BY DEF PagesInv, PagesTypes, InitiatorState
<1>2. ini'.link # 0 => ini'.link \in Link /\ ini'.link = ini.link
  BY <1>1, HandshakeAssumption DEF Link
<1> QED BY <1>2 DEF PagesInv, LinksInOrder

\* The dialogs when the page stays on its link: as they are, or one less and none
\* of them that of an incoming request.
LEMMA DialogFrame ==
  ASSUME PagesInv, ini'.link = ini.link,
         \/ ini'.dialogs = ini.dialogs /\ (ini'.incoming => ini.incoming)
         \/ Top # 0 /\ ~ini'.incoming
  PROVE  DialogOK'
<1> QED BY DEF PagesInv, DialogOK, Top

\* The state of a join when the responder stays in it.
LEMMA JoinFrame ==
  ASSUME PagesInv, SameR, res'.sub \in {0, res.sub}, res'.giving \in {"no", res.giving}
  PROVE  SessionOfJoin'
<1> QED BY DEF PagesInv, SessionOfJoin, SameR

\* The types after a step, taken together.
LEMMA TypesNext ==
  ASSUME box' \in [Link -> {"none", "open", "closed"}],
         joined' \subseteq {l \in Link : box'[l] # "none"},
         toI' \in [Link -> SUBSET PageSignal], toR' \in [Link -> SUBSET PageSignal],
         ini' \in InitiatorState, ini'.sub \in {0, ini'.link},
         res' \in ResponderState, res'.sub \in {0, res'.link},
         posts' \subseteq [of: AcceptId, link: Link, state: {"posted", "stored", "again"}],
         closing' \subseteq {l \in Link : box'[l] # "none"},
         accepts' \in 0..MaxAttempt
  PROVE  PagesTypes'
<1>1. InitiatorState' = InitiatorState /\ ResponderState' = ResponderState
  BY DEF InitiatorState, ResponderState
<1>2. /\ ini'.link \in 0..MaxLink /\ res'.link \in 0..MaxLink
      /\ ini'.pc \in [of: 0..MaxAttempt, answered: BOOLEAN, ice: BOOLEAN, up: BOOLEAN,
                      stale: BOOLEAN]
      /\ res'.pc \in [open: BOOLEAN, remote: 0..MaxAttempt, ice: BOOLEAN, up: BOOLEAN,
                      stale: BOOLEAN]
  BY DEF InitiatorState, ResponderState
<1> QED BY <1>1, <1>2 DEF PagesTypes, PagesTypeOK, Page

\* What the types say, one by one.
LEMMA TypesAre ==
  ASSUME PagesTypes
  PROVE  /\ box \in [Link -> {"none", "open", "closed"}]
         /\ joined \subseteq {l \in Link : box[l] # "none"}
         /\ toI \in [Link -> SUBSET PageSignal] /\ toR \in [Link -> SUBSET PageSignal]
         /\ ini \in InitiatorState /\ ini.sub \in {0, ini.link}
         /\ res \in ResponderState /\ res.sub \in {0, res.link}
         /\ posts \subseteq [of: AcceptId, link: Link, state: {"posted", "stored", "again"}]
         /\ closing \subseteq {l \in Link : box[l] # "none"}
         /\ accepts \in 0..MaxAttempt
<1> QED BY DEF PagesTypes, PagesTypeOK

\* The number of the next link is that of one that has not been made.
LEMMA NextLink ==
  ASSUME PagesInv, NEW n, n = Cardinality({k \in Link : box[k] # "none"}) + 1
  PROVE  n \in Nat /\ \A l \in Link : box[l] # "none" <=> l < n
<1>1. PICK m \in 0..MaxLink : \A l \in Link : box[l] # "none" <=> l <= m
  BY DEF PagesInv, LinksInOrder
<1>2. {k \in Link : box[k] # "none"} = 1..m
  BY <1>1, HandshakeAssumption DEF Link
<1>3. Cardinality(1..m) = m
  BY <1>1, FS_Interval, HandshakeAssumption
<1>4. n = m + 1
  BY <1>2, <1>3
<1> QED BY <1>1, <1>4, HandshakeAssumption DEF Link

\* A link is made: the next one, which nobody has joined and nothing was sent to.
LEMMA LinkMadeInv == ASSUME PagesInv, LinkMade PROVE PagesInv'
<1>1. PICK n \in Link : n = Cardinality({k \in Link : box[k] # "none"}) + 1
  BY DEF LinkMade
<1>2. n \in Nat \ {0} /\ \A l \in Link : box[l] # "none" <=> l < n
  BY <1>1, NextLink, HandshakeAssumption DEF Link
<1>3. /\ box' = [box EXCEPT ![n] = "open"]
      /\ ini' = [ini EXCEPT !.link = n, !.making = FALSE, !.ticking = TRUE, !.expired = FALSE,
                            !.sub = n, !.accepted = FALSE, !.incoming = FALSE,
                            !.pc.stale = ini.pc.of # 0]
      /\ closing' = closing \cup ({ini.link} \ {0})
      /\ UNCHANGED <<joined, toI, toR, posts, res, accepts>>
  BY <1>1 DEF LinkMade
<1>4. PagesTypes
  BY DEF PagesInv
<1>5. ini' \in InitiatorState /\ ini'.sub = ini'.link
  <2>1. ini \in InitiatorState /\ n \in 0..MaxLink
    BY <1>2, <1>4, TypesAre, HandshakeAssumption DEF Link
  <2>2. ini' = [ini EXCEPT !.link = n, !.making = FALSE, !.ticking = TRUE, !.expired = FALSE,
                            !.sub = n, !.accepted = FALSE, !.incoming = FALSE,
                            !.pc = [ini.pc EXCEPT !.stale = ini.pc.of # 0]]
    BY <1>3, <2>1 DEF InitiatorState
  <2> QED BY <2>1, <2>2, ZenonT(60) DEF InitiatorState
<1>6. box' \in [Link -> {"none", "open", "closed"}] /\ \A l \in Link : box'[l] # "none" <=> l <= n
  <2>1. box \in [Link -> {"none", "open", "closed"}]
    BY <1>4, TypesAre
  <2>2. box' \in [Link -> {"none", "open", "closed"}]
    BY <1>3, <2>1
  <2>3. ASSUME NEW l \in Link PROVE box'[l] # "none" <=> l <= n
    <3>1. l \in Nat
      BY HandshakeAssumption DEF Link
    <3>2. box'[l] = IF l = n THEN "open" ELSE box[l]
      BY <1>3, <2>1
    <3>3. l <= n <=> (l < n \/ l = n)
      BY <1>2, <3>1
    <3> QED BY <1>2, <3>2, <3>3, Zenon
  <2> QED BY <2>2, <2>3
<1>7. /\ ini'.link = n /\ ini'.incoming = FALSE /\ ini'.pc.of = ini.pc.of
      /\ ini'.pc.up = ini.pc.up /\ ini'.pc.stale = (ini.pc.of # 0)
  BY <1>3, <1>4, TypesAre DEF InitiatorState
<1>8. \A l \in Link : box[l] # "none" => box'[l] # "none" /\ l # n
  BY <1>2, <1>6, HandshakeAssumption DEF Link
<1>9. ini.link \in 0..MaxLink /\ (ini.link # 0 => ini.link \in Link /\ box[ini.link] # "none")
  BY <1>4, TypesAre, HandshakeAssumption DEF InitiatorState, PagesInv, LinksInOrder, Link
<1>10. PagesTypes'
  <2>1. closing' \subseteq {l \in Link : box'[l] # "none"}
    BY <1>3, <1>4, <1>8, <1>9, TypesAre
  <2>2. joined' \subseteq {l \in Link : box'[l] # "none"}
    BY <1>3, <1>4, <1>8, TypesAre
  <2> QED BY <1>3, <1>4, <1>5, <1>6, <2>1, <2>2, TypesAre, TypesNext
<1>11. LinksInOrder'
  <2>1. n \in 0..MaxLink /\ box'[n] # "none"
    BY <1>2, <1>6, HandshakeAssumption DEF Link
  <2> QED BY <1>3, <1>6, <1>7, <2>1 DEF PagesInv, LinksInOrder
<1>12. DialogOK'
  BY <1>2, <1>7 DEF DialogOK
<1>13. SessionOfJoin'
  BY <1>3 DEF PagesInv, SessionOfJoin
<1>14. OffersOnce'
  BY <1>3, <1>7 DEF PagesInv, OffersOnce, UnderWay
<1>15. OfferOfLink'
  <2>1. 0 \notin AcceptId
    BY DEF AcceptId
  <2> QED BY <1>7, <2>1, Zenon DEF OfferOfLink
<1>16. UpTogether'
  <2>1. ~UpHere'
    BY <1>7 DEF PagesInv, UpTogether, UpHere
  <2> QED BY <1>3, <1>7, <2>1 DEF PagesInv, UpTogether
<1> QED BY <1>10, <1>11, <1>12, <1>13, <1>14, <1>15, <1>16 DEF PagesInv

\* A step that makes no link, posts no offer and opens no peer connection.
LEMMA Quiet ==
  ASSUME PagesInv, OffersMove, joined' = joined,
         ini' \in InitiatorState, ini'.sub \in {0, ini'.link},
         res' \in ResponderState, res'.sub \in {0, res'.link},
         SameI \/ (ini'.pc = NoPcI /\ ini'.link \in {0, ini.link}),
         SameR \/ (GoneR /\ res'.link \in {0, res.link}),
         box' \in [Link -> {"none", "open", "closed"}],
         \A l \in Link : box'[l] # "none" <=> box[l] # "none",
         toI' \in [Link -> SUBSET PageSignal], toR' \in [Link -> SUBSET PageSignal],
         posts' \subseteq [of: AcceptId, link: Link, state: {"posted", "stored", "again"}],
         closing' \subseteq {l \in Link : box[l] # "none"},
         DialogOK', SessionOfJoin'
  PROVE  PagesInv'
<1>1. PagesTypes'
  <2>1. /\ closing' \subseteq {l \in Link : box'[l] # "none"}
        /\ joined' \subseteq {l \in Link : box'[l] # "none"}
        /\ accepts' \in 0..MaxAttempt
    BY TypesAre DEF PagesInv, OffersMove
  <2> QED BY <2>1, TypesNext
<1>2. LinksInOrder'
  <2>1. ini'.link \in {0, ini.link} /\ res'.link \in {0, res.link}
    BY DEF SameI, SameR
  <2> QED BY <2>1, LinksFrame
<1>3. OffersOnce' /\ OfferOfLink' /\ UpTogether'
  BY OffersFrame
<1> QED BY <1>1, <1>2, <1>3 DEF PagesInv

\* Nothing of the network changes.
LEMMA NetworkSame ==
  ASSUME PagesInv, UNCHANGED <<accepts, posts, toR>>
  PROVE  OffersMove
<1> QED BY DEF PagesInv, OffersOnce, OffersMove

\* A step of the initiator's page alone, or with the mailboxes.
LEMMA QuietI ==
  ASSUME PagesInv, OffersMove, UNCHANGED <<box, joined, res>>,
         ini' \in InitiatorState, ini'.sub \in {0, ini'.link}, DialogOK',
         SameI \/ (ini'.pc = NoPcI /\ ini'.link \in {0, ini.link}),
         toI' \in [Link -> SUBSET PageSignal], toR' \in [Link -> SUBSET PageSignal],
         posts' \subseteq [of: AcceptId, link: Link, state: {"posted", "stored", "again"}],
         closing' \subseteq {l \in Link : box[l] # "none"}
  PROVE  PagesInv'
<1>1. PagesTypes /\ SessionOfJoin
  BY DEF PagesInv
<1>2. /\ res' \in ResponderState /\ res'.sub \in {0, res'.link}
      /\ box' \in [Link -> {"none", "open", "closed"}]
      /\ \A l \in Link : box'[l] # "none" <=> box[l] # "none"
  BY <1>1, TypesAre
<1>3. SameR /\ SessionOfJoin'
  BY <1>1 DEF SameR, SessionOfJoin
<1> QED BY <1>2, <1>3, Quiet

\* A step of the responder's page alone, or with the mailboxes.
LEMMA QuietR ==
  ASSUME PagesInv, OffersMove, UNCHANGED <<box, joined, ini, posts>>,
         res' \in ResponderState, res'.sub \in {0, res'.link}, SessionOfJoin',
         SameR \/ (GoneR /\ res'.link \in {0, res.link}),
         toI' \in [Link -> SUBSET PageSignal], toR' \in [Link -> SUBSET PageSignal],
         closing' \subseteq {l \in Link : box[l] # "none"}
  PROVE  PagesInv'
<1>1. PagesTypes /\ DialogOK
  BY DEF PagesInv
<1>2. /\ ini' \in InitiatorState /\ ini'.sub \in {0, ini'.link}
      /\ box' \in [Link -> {"none", "open", "closed"}]
      /\ \A l \in Link : box'[l] # "none" <=> box[l] # "none"
      /\ posts' \subseteq [of: AcceptId, link: Link, state: {"posted", "stored", "again"}]
  BY <1>1, TypesAre
<1>3. SameI /\ DialogOK'
  BY <1>1 DEF SameI, DialogOK, Top
<1> QED BY <1>2, <1>3, Quiet

\* The types of what the initiator's steps leave alone.
LEMMA SameTypes ==
  ASSUME PagesInv
  PROVE  /\ UNCHANGED toI => toI' \in [Link -> SUBSET PageSignal]
         /\ UNCHANGED toR => toR' \in [Link -> SUBSET PageSignal]
         /\ UNCHANGED posts =>
              posts' \subseteq [of: AcceptId, link: Link, state: {"posted", "stored", "again"}]
         /\ UNCHANGED closing => closing' \subseteq {l \in Link : box[l] # "none"}
<1> QED BY TypesAre DEF PagesInv

\* The countdown, and a link that cannot be made or has expired.
LEMMA LinkTimesInv ==
  ASSUME PagesInv, LinkFails \/ LinkExpires \/ Countdown
  PROVE  PagesInv'
<1>1. UNCHANGED <<box, joined, toI, toR, posts, res, accepts, closing>>
  BY DEF LinkFails, LinkExpires, Countdown
<1>2. ini \in InitiatorState /\ ini.sub \in {0, ini.link}
  BY TypesAre DEF PagesInv
<1>3. /\ ini' \in InitiatorState /\ ini'.sub \in {0, ini.link} /\ SameI
      /\ ini'.dialogs = ini.dialogs /\ ini'.incoming = ini.incoming
  <2>1. CASE LinkFails
    <3>1. ini' = [ini EXCEPT !.making = FALSE]
      BY <2>1 DEF LinkFails
    <3> QED BY <1>2, <3>1 DEF InitiatorState, SameI
  <2>2. CASE LinkExpires
    <3>1. ini' = [ini EXCEPT !.expired = TRUE]
      BY <2>2 DEF LinkExpires
    <3> QED BY <1>2, <3>1 DEF InitiatorState, SameI
  <2>3. CASE Countdown
    <3>1. ini' = [ini EXCEPT !.making = TRUE, !.ticking = FALSE, !.sub = 0]
      BY <2>3 DEF Countdown, Making
    <3>2. 0 \in 0..MaxLink
      BY HandshakeAssumption
    <3> QED BY <1>2, <3>1, <3>2 DEF InitiatorState, SameI
  <2> QED BY <2>1, <2>2, <2>3
<1>4. DialogOK'
  BY <1>3, DialogFrame DEF SameI
<1>5. OffersMove
  BY <1>1, NetworkSame
<1>6. ini'.sub \in {0, ini'.link}
  BY <1>3 DEF SameI
<1> QED BY <1>1, <1>3, <1>4, <1>5, <1>6, SameTypes, QuietI

-----------------------------------------------------------------------------
(* Handshake: the initiator.                                               *)

\* The dialogs below the top one.
LEMMA RestType ==
  ASSUME ini \in InitiatorState
  PROVE  Rest \in Seq(0..MaxLink)
<1>1. PICK d \in Seq(0..MaxLink) : d = ini.dialogs
  BY DEF InitiatorState
<1>2. ASSUME NEW i \in 1..(Len(d) - 1) PROVE d[i] \in 0..MaxLink
  <2>1. Len(d) \in Nat /\ i \in 1..Len(d)
    BY <1>1, <1>2, LenProperties
  <2> QED BY <2>1, ElementOfSeq
<1>3. SubSeq(d, 1, Len(d) - 1) \in Seq(0..MaxLink)
  BY <1>2, SubSeqProperties
<1> QED BY <1>1, <1>3 DEF Rest, Top

\* A dialog is answered with no handshake.
LEMMA DialogEndsInv == ASSUME PagesInv, Reject \/ AcceptExpired PROVE PagesInv'
<1>1. UNCHANGED <<box, joined, toI, toR, posts, res, accepts, closing>> /\ Top # 0
  BY DEF Reject, AcceptExpired
<1>2. ini \in InitiatorState /\ ini.sub \in {0, ini.link} /\ 0 \in 0..MaxLink
  BY TypesAre, HandshakeAssumption DEF PagesInv
<1>3. PICK d \in Seq(0..MaxLink) : d = Rest
  BY <1>2, RestType
<1>4. ini' \in InitiatorState /\ ini'.sub \in {0, ini'.link} /\ SameI /\ ini'.incoming = FALSE
  <2>1. CASE Reject
    <3>1. ini' = [ini EXCEPT !.dialogs = d, !.incoming = FALSE]
      BY <1>3, <2>1 DEF Reject
    <3> QED BY <1>2, <3>1 DEF InitiatorState, SameI
  <2>2. CASE AcceptExpired
    <3>1. \/ ini' = [ini EXCEPT !.dialogs = d, !.incoming = FALSE, !.accepted = FALSE]
          \/ ini' = [ini EXCEPT !.dialogs = d, !.incoming = FALSE, !.accepted = FALSE,
                                !.making = TRUE, !.ticking = FALSE, !.sub = 0]
      BY <1>2, <1>3, <2>2 DEF AcceptExpired, Making, InitiatorState
    <3>2. CASE ini' = [ini EXCEPT !.dialogs = d, !.incoming = FALSE, !.accepted = FALSE]
      BY <1>2, <3>2 DEF InitiatorState, SameI
    <3>3. CASE ini' = [ini EXCEPT !.dialogs = d, !.incoming = FALSE, !.accepted = FALSE,
                                  !.making = TRUE, !.ticking = FALSE, !.sub = 0]
      BY <1>2, <3>3 DEF InitiatorState, SameI
    <3> QED BY <3>1, <3>2, <3>3
  <2> QED BY <1>1, <2>1, <2>2
<1>5. DialogOK'
  BY <1>1, <1>4, DialogFrame DEF SameI
<1>6. OffersMove
  BY <1>1, NetworkSame
<1> QED BY <1>1, <1>4, <1>5, <1>6, SameTypes, QuietI

\* A handshake starts: a new accept, whose offer nobody has.
LEMMA AcceptInv == ASSUME PagesInv, Accept PROVE PagesInv'
<1>1. PICK a \in AcceptId : a = accepts + 1
  BY DEF Accept
<1>2. /\ UNCHANGED <<box, joined, toI, toR, res, closing>> /\ Top # 0 /\ accepts' = a
      /\ posts' = posts \cup {[of |-> a, link |-> ini.link, state |-> "posted"]}
  BY <1>1 DEF Accept
<1>3. ini \in InitiatorState /\ ini.sub \in {0, ini.link} /\ accepts \in 0..MaxAttempt
  BY TypesAre DEF PagesInv
<1>4. PICK d \in Seq(0..MaxLink) : d = Rest
  BY <1>3, RestType
<1>5. PICK c \in SUBSET AcceptId : c = IF ini.closed THEN ini.ices ELSE ini.ices \cup {a}
  BY <1>3 DEF InitiatorState
<1>6. a \in 0..MaxAttempt /\ a \in Nat \ {0} /\ a <= a /\ accepts < a /\ 1..accepts \subseteq 1..a
  BY <1>1, <1>3, HandshakeAssumption DEF AcceptId
<1>7. PICK k \in [of: 0..MaxAttempt, answered: BOOLEAN, ice: BOOLEAN, up: BOOLEAN, stale: BOOLEAN] :
        /\ k = [NoPcI EXCEPT !.of = a, !.up = ini.pc.up, !.stale = ini.pc.up]
        /\ k.of = a /\ k.up = ini.pc.up /\ k.stale = ini.pc.up
  <2>1. NoPcI \in [of: 0..MaxAttempt, answered: BOOLEAN, ice: BOOLEAN, up: BOOLEAN, stale: BOOLEAN]
    BY HandshakeAssumption DEF NoPcI
  <2>2. ini.pc.up \in BOOLEAN
    BY <1>3 DEF InitiatorState
  <2>3. PICK e : e = [NoPcI EXCEPT !.of = a, !.up = ini.pc.up, !.stale = ini.pc.up]
    OBVIOUS
  <2>4. e \in [of: 0..MaxAttempt, answered: BOOLEAN, ice: BOOLEAN, up: BOOLEAN, stale: BOOLEAN]
    BY <1>6, <2>1, <2>2, <2>3
  <2>5. e.of = a /\ e.up = ini.pc.up /\ e.stale = ini.pc.up
    BY <2>1, <2>3
  <2> QED BY <2>3, <2>4, <2>5
<1>8. /\ ini' \in InitiatorState /\ ini'.sub = ini.sub /\ ini'.link = ini.link
      /\ ini'.incoming = FALSE /\ ini'.pc.of = a /\ ini'.pc.up = ini.pc.up
      /\ ini'.pc.stale = ini.pc.up
  <2>1. ini' = [ini EXCEPT !.dialogs = d, !.incoming = FALSE, !.accepted = TRUE, !.pc = k, !.ices = c]
    BY <1>1, <1>3, <1>4, <1>5, <1>7 DEF Accept, InitiatorState
  <2> QED BY <1>3, <1>7, <2>1, ZenonT(60) DEF InitiatorState
<1>9. ini.link \in Link
  BY <1>2, <1>3, HandshakeAssumption DEF PagesInv, DialogOK, InitiatorState, Link
<1>10. PagesTypes'
  <2>1. posts' \subseteq [of: AcceptId, link: Link, state: {"posted", "stored", "again"}]
    BY <1>1, <1>2, <1>9, TypesAre DEF PagesInv
  <2>2. accepts' \in 0..MaxAttempt
    BY <1>2, <1>6
  <2>3. res' \in ResponderState /\ res'.sub \in {0, res'.link}
        /\ box' \in [Link -> {"none", "open", "closed"}]
        /\ joined' \subseteq {l \in Link : box'[l] # "none"}
        /\ toI' \in [Link -> SUBSET PageSignal] /\ toR' \in [Link -> SUBSET PageSignal]
        /\ closing' \subseteq {l \in Link : box'[l] # "none"}
    BY <1>2, TypesAre DEF PagesInv
  <2> QED BY <1>3, <1>8, <2>1, <2>2, <2>3, TypesNext
<1>11. LinksInOrder'
  BY <1>2, <1>8 DEF PagesInv, LinksInOrder
<1>12. DialogOK'
  BY <1>2, <1>8, DialogFrame
<1>13. SessionOfJoin'
  BY <1>2 DEF PagesInv, SessionOfJoin
<1>14. res.pc.remote # a /\ ~UnderWay(a) /\ \A p \in posts : p.of # a
  <2>1. res.pc.remote <= accepts /\ res.pc.remote \in 0..MaxAttempt
    BY TypesAre DEF PagesInv, OffersOnce, ResponderState
  <2>2. \A p \in posts : p.of \in 1..accepts
    BY DEF PagesInv, OffersOnce
  <2>3. \A l \in Link : Offer(a) \in toR[l] => a <= accepts
    BY <1>1 DEF PagesInv, OffersOnce
  <2> QED BY <1>3, <1>6, <2>1, <2>2, <2>3 DEF UnderWay
<1>15. OffersOnce'
  <2>1. /\ \A p \in posts' : p.of \in 1..accepts'
        /\ \A p, q \in posts' : p.of = q.of => p = q
    BY <1>2, <1>6, <1>14 DEF PagesInv, OffersOnce
  <2>2. ASSUME NEW l \in Link, NEW b \in AcceptId, Offer(b) \in toR'[l]
        PROVE  /\ b <= accepts'
               /\ \A p \in posts' : p.of = b => p.state # "posted"
               /\ \A m \in Link : Offer(b) \in toR'[m] => m = l
    <3>1. Offer(b) \in toR[l] /\ b # a
      BY <1>2, <1>14, <2>2 DEF UnderWay
    <3>2. b <= accepts /\ b \in Nat
      BY <3>1, HandshakeAssumption DEF PagesInv, OffersOnce, AcceptId
    <3>3. b <= accepts'
      BY <1>2, <1>3, <1>6, <3>2
    <3> QED BY <1>2, <3>1, <3>3 DEF PagesInv, OffersOnce
  <2>3. ini'.pc.of <= accepts'
    BY <1>2, <1>6, <1>8
  <2>4. res'.pc.remote <= accepts'
    <3>1. res.pc.remote <= accepts /\ res.pc.remote \in 0..MaxAttempt
      BY TypesAre DEF PagesInv, OffersOnce, ResponderState
    <3> QED BY <1>2, <1>3, <1>6, <3>1
  <2>5. \A b \in AcceptId : res'.pc.remote = b => ~UnderWay(b)'
    BY <1>2, <1>14 DEF PagesInv, OffersOnce, UnderWay
  <2> QED BY <2>1, <2>2, <2>3, <2>4, <2>5 DEF OffersOnce
<1>16. OfferOfLink'
  BY <1>2, <1>8, <1>14 DEF OfferOfLink, UnderWay
<1>17. UpTogether'
  <2>1. ~UpHere'
    BY <1>8 DEF UpHere
  <2>2. res'.pc.remote # ini'.pc.of /\ ini'.pc.of # 0
    BY <1>2, <1>6, <1>8, <1>14
  <2> QED BY <1>2, <2>1, <2>2 DEF PagesInv, UpTogether
<1> QED BY <1>10, <1>11, <1>12, <1>13, <1>15, <1>16, <1>17 DEF PagesInv

\* A signal put into a mailbox, or taken from it.
LEMMA SignalsType ==
  ASSUME NEW f \in [Link -> SUBSET PageSignal], NEW l \in Link
  PROVE  /\ \A s \in PageSignal : [f EXCEPT ![l] = @ \cup {s}] \in [Link -> SUBSET PageSignal]
         /\ \A s : [f EXCEPT ![l] = @ \ {s}] \in [Link -> SUBSET PageSignal]
<1> QED OBVIOUS

\* The kinds of signals the pages put there.
LEMMA SignalsAre ==
  /\ \A a \in AcceptId : /\ Offer(a) \in PageSignal
                         /\ [kind |-> "answer", of |-> a] \in PageSignal
                         /\ [kind |-> "ice", of |-> a] \in PageSignal
  /\ \A l \in Link : [kind |-> "ice", of |-> -l] \in PageSignal
  /\ [kind |-> "hello", of |-> 0] \in PageSignal
  /\ [kind |-> "bye", of |-> 0] \in PageSignal
<1> QED BY DEF PageSignal, Offer

\* A post of an offer, and what it becomes.
LEMMA PostsAre ==
  ASSUME PagesInv, NEW p \in posts
  PROVE  /\ p \in [of: AcceptId, link: Link, state: {"posted", "stored", "again"}]
         /\ \A s \in {"posted", "stored", "again"} :
              /\ [p EXCEPT !.state = s] \in [of: AcceptId, link: Link, state: {"posted", "stored", "again"}]
              /\ [p EXCEPT !.state = s].of = p.of
              /\ [p EXCEPT !.state = s].link = p.link
              /\ [p EXCEPT !.state = s].state = s
<1>1. p \in [of: AcceptId, link: Link, state: {"posted", "stored", "again"}]
  BY TypesAre DEF PagesInv
<1> QED BY <1>1

\* A post that goes on, or ends.
LEMMA PostGoesOn ==
  ASSUME PagesInv, NEW p \in posts, NEW q,
         q.of = p.of, q.link = p.link, q.state # "posted",
         posts' = (posts \ {p}) \cup {q} \/ posts' = posts \ {p}
  PROVE  /\ \A r \in posts' : \E s \in posts : r.of = s.of /\ r.link = s.link
                                               /\ (r.state = "posted" => s.state = "posted")
         /\ \A r, s \in posts' : r.of = s.of => r = s
         /\ \A r \in posts' : r.of = p.of => r.state # "posted"
<1>1. \A r, s \in posts : r.of = s.of => r = s
  BY DEF PagesInv, OffersOnce
<1> QED BY <1>1

\* What the page leaves alone of the initiator's state.
LEMMA PageSame ==
  ASSUME PagesInv, UNCHANGED ini
  PROVE  /\ ini' \in InitiatorState /\ ini'.sub \in {0, ini'.link}
         /\ DialogOK' /\ SameI
<1> QED BY TypesAre DEF PagesInv, DialogOK, Top, SameI

\* An offer is stored, in the mailbox of the link it was made for.
LEMMA OfferStoredInv ==
  ASSUME PagesInv, NEW p \in posts, OfferStored(p)
  PROVE  PagesInv'
<1>1. /\ UNCHANGED <<box, joined, toI, ini, res, accepts, closing>>
      /\ p.state = "posted"
      /\ toR' = [toR EXCEPT ![p.link] = @ \cup {Offer(p.of)}]
      /\ posts' = (posts \ {p}) \cup {[p EXCEPT !.state = "stored"]}
  BY DEF OfferStored, Offer
<1>2. PICK q \in [of: AcceptId, link: Link, state: {"posted", "stored", "again"}] :
        /\ q = [p EXCEPT !.state = "stored"]
        /\ q.of = p.of /\ q.link = p.link /\ q.state = "stored"
  BY PostsAre
<1>3. p.of \in AcceptId /\ p.link \in Link
  BY PostsAre
<1>4. toR \in [Link -> SUBSET PageSignal] /\ toR' \in [Link -> SUBSET PageSignal]
  <2>1. toR \in [Link -> SUBSET PageSignal] /\ Offer(p.of) \in PageSignal
    BY <1>3, TypesAre, SignalsAre DEF PagesInv
  <2> QED BY <1>1, <1>3, <2>1, SignalsType
<1>5. OffersMove
  <2>1. ASSUME NEW l \in Link, NEW a \in AcceptId, Offer(a) \in toR'[l]
        PROVE  Offer(a) \in toR[l] \/ (l = p.link /\ a = p.of)
    BY <1>1, <1>3, <1>4, <2>1 DEF Offer
  <2>2. /\ \A r \in posts' : \E s \in posts : r.of = s.of /\ r.link = s.link
                                               /\ (r.state = "posted" => s.state = "posted")
        /\ \A r, s \in posts' : r.of = s.of => r = s
        /\ \A r \in posts' : r.of = p.of => r.state # "posted"
    BY <1>1, <1>2, PostGoesOn
  <2>3. \A l \in Link : \A a \in AcceptId :
          Offer(a) \in toR'[l] => Offer(a) \in toR[l] \/ Arrives(l, a)
    BY <1>1, <2>1, <2>2 DEF Arrives
  <2> QED BY <1>1, <2>2, <2>3 DEF OffersMove
<1>6. posts' \subseteq [of: AcceptId, link: Link, state: {"posted", "stored", "again"}]
  BY <1>1, <1>2, TypesAre DEF PagesInv
<1> QED BY <1>1, <1>4, <1>5, <1>6, PageSame, SameTypes, QuietI

\* An offer is tried again, or done with.
LEMMA OfferGoesOnInv ==
  ASSUME PagesInv, NEW p \in posts, OfferRetried(p) \/ OfferDone(p)
  PROVE  PagesInv'
<1>1. UNCHANGED <<box, joined, toI, toR, ini, res, accepts, closing>>
  BY DEF OfferRetried, OfferDone
<1>2. PICK q \in [of: AcceptId, link: Link, state: {"posted", "stored", "again"}] :
        /\ q = [p EXCEPT !.state = "again"]
        /\ q.of = p.of /\ q.link = p.link /\ q.state = "again"
  BY PostsAre
<1>3. posts' = (posts \ {p}) \cup {q} \/ posts' = posts \ {p}
  BY <1>2 DEF OfferRetried, OfferDone
<1>4. OffersMove
  <2>1. /\ \A r \in posts' : \E s \in posts : r.of = s.of /\ r.link = s.link
                                               /\ (r.state = "posted" => s.state = "posted")
        /\ \A r, s \in posts' : r.of = s.of => r = s
    BY <1>2, <1>3, PostGoesOn
  <2> QED BY <1>1, <2>1 DEF OffersMove
<1>5. posts' \subseteq [of: AcceptId, link: Link, state: {"posted", "stored", "again"}]
  BY <1>2, <1>3, TypesAre DEF PagesInv
<1> QED BY <1>1, <1>4, <1>5, PageSame, SameTypes, QuietI

\* An offer fails: the page gives up the handshake it is at.
LEMMA OfferFailsInv ==
  ASSUME PagesInv, NEW p \in posts, OfferFails(p)
  PROVE  PagesInv'
<1>1. UNCHANGED <<box, joined, toI, toR, res, accepts, closing>> /\ posts' = posts \ {p}
  BY DEF OfferFails
<1>2. ini \in InitiatorState /\ ini.sub \in {0, ini.link} /\ 0 \in 0..MaxLink
  BY TypesAre, HandshakeAssumption DEF PagesInv
<1>3. PICK t \in BOOLEAN :
        \/ ini' = HandshakeFailed([ini EXCEPT !.ticking = t])
        \/ ini' = Making(HandshakeFailed([ini EXCEPT !.ticking = t]))
  BY <1>2 DEF OfferFails, InitiatorState
<1>4. PICK i \in InitiatorState :
        /\ i = HandshakeFailed([ini EXCEPT !.ticking = t])
        /\ i.sub = ini.sub /\ i.link = ini.link /\ i.pc = NoPcI /\ i.incoming = FALSE
        /\ i.dialogs = ini.dialogs
  <2>1. NoPcI \in [of: 0..MaxAttempt, answered: BOOLEAN, ice: BOOLEAN, up: BOOLEAN, stale: BOOLEAN]
    BY HandshakeAssumption DEF NoPcI
  <2>2. PICK j \in InitiatorState : j = [ini EXCEPT !.ticking = t] /\ j.sub = ini.sub
                                    /\ j.link = ini.link /\ j.dialogs = ini.dialogs
    <3>1. [ini EXCEPT !.ticking = t] \in InitiatorState
      BY <1>2 DEF InitiatorState
    <3> QED BY <1>2, <3>1 DEF InitiatorState
  <2>3. PICK k : k = [j EXCEPT !.pc = NoPcI, !.ices = {}, !.connected = FALSE,
                               !.accepted = FALSE, !.incoming = FALSE]
    OBVIOUS
  <2>4. k \in InitiatorState
    <3>1. {} \in SUBSET AcceptId
      OBVIOUS
    <3>2. PICK m \in InitiatorState : m = [j EXCEPT !.pc = NoPcI]
      BY <2>1, <2>2 DEF InitiatorState
    <3>3. k = [m EXCEPT !.ices = {}, !.connected = FALSE, !.accepted = FALSE, !.incoming = FALSE]
      BY <2>2, <2>3, <3>2 DEF InitiatorState
    <3> QED BY <3>1, <3>2, <3>3, ZenonT(60) DEF InitiatorState
  <2>5. /\ k.sub = j.sub /\ k.link = j.link /\ k.pc = NoPcI /\ k.incoming = FALSE
        /\ k.dialogs = j.dialogs
    BY <2>2, <2>3 DEF InitiatorState
  <2> QED BY <2>2, <2>3, <2>4, <2>5 DEF HandshakeFailed
<1>5. /\ ini' \in InitiatorState /\ ini'.sub \in {0, ini'.link} /\ ini'.link = ini.link
      /\ ini'.pc = NoPcI /\ ini'.incoming = FALSE /\ ini'.dialogs = ini.dialogs
  <2>1. CASE ini' = i
    BY <1>2, <1>4, <2>1
  <2>2. CASE ini' = Making(i)
    BY <1>2, <1>4, <2>2, ZenonT(60) DEF Making, InitiatorState
  <2> QED BY <1>3, <1>4, <2>1, <2>2
<1>6. OffersMove
  BY <1>1 DEF PagesInv, OffersOnce, OffersMove
<1>7. DialogOK'
  BY <1>5, DialogFrame
<1>8. posts' \subseteq [of: AcceptId, link: Link, state: {"posted", "stored", "again"}]
  BY <1>1, TypesAre DEF PagesInv
<1> QED BY <1>1, <1>5, <1>6, <1>7, <1>8, SameTypes, QuietI

\* What handling a signal leaves of the initiator's page.
LEMMA HandleIPage ==
  ASSUME PagesInv, NEW s, HandleI(s)
  PROVE  /\ ini' \in InitiatorState /\ ini'.sub = ini.sub /\ ini'.link = ini.link
         /\ ini'.dialogs = ini.dialogs /\ ini'.incoming = ini.incoming
         /\ SameI \/ ini'.pc = NoPcI
<1>1. ini \in InitiatorState
  BY TypesAre DEF PagesInv
<1>2. CASE UNCHANGED ini
  BY <1>1, <1>2 DEF SameI
<1>3. ASSUME NEW b \in BOOLEAN, ini' = [ini EXCEPT !.pc = [ini.pc EXCEPT !.answered = b]]
      PROVE  ini' \in InitiatorState /\ ini'.sub = ini.sub /\ SameI
             /\ ini'.dialogs = ini.dialogs /\ ini'.incoming = ini.incoming
  BY <1>1, <1>3 DEF InitiatorState, SameI
<1>4. ASSUME NEW b \in BOOLEAN, ini' = [ini EXCEPT !.pc = [ini.pc EXCEPT !.ice = b]]
      PROVE  ini' \in InitiatorState /\ ini'.sub = ini.sub /\ SameI
             /\ ini'.dialogs = ini.dialogs /\ ini'.incoming = ini.incoming
  BY <1>1, <1>4 DEF InitiatorState, SameI
<1>5. CASE ini' = [ini EXCEPT !.pc = NoPcI, !.connected = FALSE]
  <2>1. NoPcI \in [of: 0..MaxAttempt, answered: BOOLEAN, ice: BOOLEAN, up: BOOLEAN, stale: BOOLEAN]
    BY HandshakeAssumption DEF NoPcI
  <2> QED BY <1>1, <1>5, <2>1 DEF InitiatorState
<1>6. \/ UNCHANGED ini
      \/ \E b \in BOOLEAN : ini' = [ini EXCEPT !.pc = [ini.pc EXCEPT !.answered = b]]
      \/ \E b \in BOOLEAN : ini' = [ini EXCEPT !.pc = [ini.pc EXCEPT !.ice = b]]
      \/ ini' = [ini EXCEPT !.pc = NoPcI, !.connected = FALSE]
  <2>1. ini.pc.answered \in BOOLEAN /\ ini.pc.ice \in BOOLEAN
    BY <1>1 DEF InitiatorState
  <2>2. PICK b \in BOOLEAN : b = (ini.pc.answered \/ s.of = ini.pc.of)
    BY <2>1
  <2>3. PICK c \in BOOLEAN : c = (ini.pc.ice \/ s.of = -ini.link)
    BY <2>1
  <2>4. ini' = [ini EXCEPT !.pc.answered = ini.pc.answered \/ s.of = ini.pc.of] =>
          ini' = [ini EXCEPT !.pc = [ini.pc EXCEPT !.answered = b]]
    BY <1>1, <2>2 DEF InitiatorState
  <2>5. ini' = [ini EXCEPT !.pc.ice = ini.pc.ice \/ s.of = -ini.link] =>
          ini' = [ini EXCEPT !.pc = [ini.pc EXCEPT !.ice = c]]
    BY <1>1, <2>3 DEF InitiatorState
  <2>6. \/ UNCHANGED ini
        \/ ini' = [ini EXCEPT !.pc.answered = ini.pc.answered \/ s.of = ini.pc.of]
        \/ ini' = [ini EXCEPT !.pc.ice = ini.pc.ice \/ s.of = -ini.link]
        \/ ini' = [ini EXCEPT !.pc = NoPcI, !.connected = FALSE]
    BY DEF HandleI
  <2> QED BY <2>4, <2>5, <2>6
<1> QED BY <1>2, <1>3, <1>4, <1>5, <1>6 DEF SameI

\* What announcing a peer leaves of it.
LEMMA AnnouncePage ==
  ASSUME PagesInv, NEW s, Announce(s), ini.link # 0
  PROVE  ini' \in InitiatorState /\ ini'.sub = ini.sub /\ SameI /\ DialogOK'
<1>1. ini \in InitiatorState /\ DialogOK
  BY TypesAre DEF PagesInv
<1>2. CASE UNCHANGED ini
  BY <1>1, <1>2 DEF SameI, DialogOK, Top
<1>3. CASE ini' = [ini EXCEPT !.incoming = TRUE, !.dialogs = Append(@, ini.link)]
  <2>1. PICK d \in Seq(0..MaxLink) : d = ini.dialogs
    BY <1>1 DEF InitiatorState
  <2>2. ini.link \in 0..MaxLink
    BY <1>1 DEF InitiatorState
  <2>3. PICK e \in Seq(0..MaxLink) : e = Append(d, ini.link)
    BY <2>1, <2>2, AppendProperties
  <2>4. ini' = [ini EXCEPT !.incoming = TRUE, !.dialogs = e]
    BY <1>3, <2>1, <2>3
  <2>5. ini' \in InitiatorState /\ ini'.sub = ini.sub /\ SameI /\ ini'.dialogs = e
    BY <1>1, <2>4 DEF InitiatorState, SameI
  <2>6. Len(e) = Len(d) + 1 /\ Len(e) # 0 /\ e[Len(e)] = ini.link
    BY <2>1, <2>2, <2>3, LenProperties, AppendProperties
  <2> QED BY <2>5, <2>6 DEF DialogOK, Top, SameI
<1> QED BY <1>2, <1>3 DEF Announce

\* The initiator takes a signal from its subscription.
LEMMA DeliverIInv ==
  ASSUME PagesInv, NEW s, DeliverI(s)
  PROVE  PagesInv'
<1>1. /\ UNCHANGED <<box, joined, toR, posts, res, accepts, closing>>
      /\ ini.sub # 0 /\ toI' = [toI EXCEPT ![ini.sub] = @ \ {s}]
      /\ Announce(s) \/ HandleI(s)
  BY DEF DeliverI
<1>2. ini \in InitiatorState /\ ini.sub = ini.link /\ ini.link # 0 /\ toI \in [Link -> SUBSET PageSignal]
  BY <1>1, TypesAre DEF PagesInv
<1>3. ini.sub \in Link
  BY <1>2, HandshakeAssumption DEF InitiatorState, Link
<1>4. toI' \in [Link -> SUBSET PageSignal]
  BY <1>1, <1>2, <1>3, SignalsType
<1>5. /\ ini' \in InitiatorState /\ ini'.sub = ini.sub /\ ini'.link = ini.link /\ DialogOK'
      /\ SameI \/ ini'.pc = NoPcI
  <2>1. CASE Announce(s)
    BY <1>2, <2>1, AnnouncePage DEF SameI
  <2>2. CASE HandleI(s)
    BY <2>2, HandleIPage, DialogFrame
  <2> QED BY <1>1, <2>1, <2>2
<1>6. OffersMove
  BY <1>1, NetworkSame
<1> QED BY <1>1, <1>2, <1>4, <1>5, <1>6, SameTypes, QuietI

\* A candidate of the initiator is sent.
LEMMA SendIceIInv ==
  ASSUME PagesInv, NEW c, SendIceI(c)
  PROVE  PagesInv'
<1>1. /\ UNCHANGED <<box, joined, toI, posts, res, accepts, closing>>
      /\ c \in ini.ices /\ ini' = [ini EXCEPT !.ices = @ \ {c}]
      /\ \/ toR' = toR
         \/ ini.link \in joined
            /\ toR' = [toR EXCEPT ![ini.link] = @ \cup {[kind |-> "ice", of |-> c]}]
  BY DEF SendIceI, Takes
<1>2. ini \in InitiatorState /\ ini.sub \in {0, ini.link} /\ toR \in [Link -> SUBSET PageSignal]
      /\ joined \subseteq Link
  BY TypesAre DEF PagesInv
<1>3. c \in AcceptId
  BY <1>1, <1>2 DEF InitiatorState
<1>4. /\ ini' \in InitiatorState /\ ini'.sub \in {0, ini'.link} /\ SameI
      /\ ini'.dialogs = ini.dialogs /\ ini'.incoming = ini.incoming
  BY <1>1, <1>2 DEF InitiatorState, SameI
<1>5. toR' \in [Link -> SUBSET PageSignal]
  <2>1. [kind |-> "ice", of |-> c] \in PageSignal
    BY <1>3, SignalsAre
  <2>2. CASE toR' = toR
    BY <1>2, <2>2
  <2>3. CASE ini.link \in joined
             /\ toR' = [toR EXCEPT ![ini.link] = @ \cup {[kind |-> "ice", of |-> c]}]
    BY <1>2, <2>1, <2>3, SignalsType
  <2> QED BY <1>1, <2>2, <2>3
<1>6. OffersMove
  <2>1. \A l \in Link : \A a \in AcceptId : Offer(a) \in toR'[l] => Offer(a) \in toR[l]
    BY <1>1, <1>2 DEF Offer
  <2> QED BY <1>1, <2>1 DEF PagesInv, OffersOnce, OffersMove
<1>7. DialogOK'
  BY <1>4, DialogFrame DEF SameI
<1> QED BY <1>1, <1>4, <1>5, <1>6, <1>7, SameTypes, QuietI

\* A bye is no offer.
LEMMA ByePut ==
  ASSUME NEW f \in [Link -> SUBSET PageSignal], NEW l, NEW says, joined \subseteq Link
  PROVE  /\ Bye(f, l, says) \in [Link -> SUBSET PageSignal]
         /\ \A m \in Link : \A a \in AcceptId : Offer(a) \in Bye(f, l, says)[m] => Offer(a) \in f[m]
<1>1. \/ Bye(f, l, says) = f
      \/ l \in Link /\ Bye(f, l, says) = [f EXCEPT ![l] = @ \cup {[kind |-> "bye", of |-> 0]}]
  BY DEF Bye, Takes
<1>2. [kind |-> "bye", of |-> 0] \in PageSignal
  BY SignalsAre
<1>3. CASE Bye(f, l, says) = f
  BY <1>3
<1>4. CASE l \in Link /\ Bye(f, l, says) = [f EXCEPT ![l] = @ \cup {[kind |-> "bye", of |-> 0]}]
  BY <1>2, <1>4, SignalsType DEF Offer
<1> QED BY <1>1, <1>3, <1>4

\* The page of the initiator as it is opened.
LEMMA FreshITypes ==
  /\ FreshI \in InitiatorState /\ FreshI.link = 0 /\ FreshI.sub = 0 /\ FreshI.pc = NoPcI
  /\ FreshI.incoming = FALSE /\ Len(FreshI.dialogs) = 0
  /\ NoPcI \in [of: 0..MaxAttempt, answered: BOOLEAN, ice: BOOLEAN, up: BOOLEAN, stale: BOOLEAN]
<1>1. NoPcI \in [of: 0..MaxAttempt, answered: BOOLEAN, ice: BOOLEAN, up: BOOLEAN, stale: BOOLEAN]
  BY HandshakeAssumption DEF NoPcI
<1>2. 0 \in 0..MaxLink /\ <<>> \in Seq(0..MaxLink) /\ {} \in SUBSET AcceptId
  BY HandshakeAssumption
<1> QED BY <1>1, <1>2 DEF FreshI, InitiatorState

\* The initiator's user leaves, or opens the page again.
LEMMA LeaveIInv == ASSUME PagesInv, LeaveI \/ ReopenI PROVE PagesInv'
<1>1. UNCHANGED <<box, joined, toI, res, accepts, closing>>
  BY DEF LeaveI, ReopenI
<1>2. toR \in [Link -> SUBSET PageSignal] /\ joined \subseteq Link
  BY TypesAre DEF PagesInv
<1>3. /\ ini' \in InitiatorState /\ ini'.link = 0 /\ ini'.sub = 0 /\ ini'.pc = NoPcI
      /\ ini'.incoming = FALSE /\ Len(ini'.dialogs) = 0
  <2>1. CASE LeaveI
    <3>1. ini' = [FreshI EXCEPT !.left = TRUE]
      BY <2>1 DEF LeaveI
    <3> QED BY <3>1, FreshITypes DEF InitiatorState
  <2>2. CASE ReopenI
    <3>1. ini' = [FreshI EXCEPT !.making = TRUE]
      BY <2>2 DEF ReopenI
    <3> QED BY <3>1, FreshITypes DEF InitiatorState
  <2> QED BY <2>1, <2>2
<1>4. /\ toR' \in [Link -> SUBSET PageSignal]
      /\ \A l \in Link : \A a \in AcceptId : Offer(a) \in toR'[l] => Offer(a) \in toR[l]
      /\ posts' \subseteq posts
  BY <1>2, ByePut DEF LeaveI, ReopenI
<1>5. OffersMove
  BY <1>1, <1>4 DEF PagesInv, OffersOnce, OffersMove
<1>6. DialogOK'
  BY <1>3 DEF DialogOK, Top
<1>7. posts' \subseteq [of: AcceptId, link: Link, state: {"posted", "stored", "again"}]
  BY <1>4, TypesAre DEF PagesInv
<1> QED BY <1>1, <1>3, <1>4, <1>5, <1>6, <1>7, SameTypes, QuietI

\* The initiator's connection reports that it is up.
LEMMA ConnectedIInv == ASSUME PagesInv, ConnectedI PROVE PagesInv'
<1>1. /\ UNCHANGED <<box, joined, toI, toR, posts, res, accepts>>
      /\ ini' = [Closed(ini) EXCEPT !.connected = TRUE]
      /\ closing' = closing \cup CloseCall(ini)
  BY DEF ConnectedI
<1>2. ini \in InitiatorState /\ ini.sub \in {0, ini.link} /\ 0 \in 0..MaxLink /\ {} \in SUBSET AcceptId
  BY TypesAre, HandshakeAssumption DEF PagesInv
<1>3. /\ ini' \in InitiatorState /\ ini'.sub \in {0, ini'.link} /\ SameI
      /\ ini'.dialogs = ini.dialogs /\ ini'.incoming = ini.incoming
  <2>1. \/ ini' = [ini EXCEPT !.connected = TRUE]
        \/ ini' = [ini EXCEPT !.closed = TRUE, !.sub = 0, !.ices = {}, !.connected = TRUE]
    BY <1>1, <1>2 DEF Closed, InitiatorState
  <2>2. CASE ini' = [ini EXCEPT !.connected = TRUE]
    BY <1>2, <2>2 DEF InitiatorState, SameI
  <2>3. CASE ini' = [ini EXCEPT !.closed = TRUE, !.sub = 0, !.ices = {}, !.connected = TRUE]
    BY <1>2, <2>3 DEF InitiatorState, SameI
  <2> QED BY <2>1, <2>2, <2>3
<1>4. closing' \subseteq {l \in Link : box[l] # "none"}
  <2>1. CloseCall(ini) \subseteq {l \in Link : box[l] # "none"}
    BY <1>2, HandshakeAssumption DEF CloseCall, PagesInv, LinksInOrder, InitiatorState, Link
  <2> QED BY <1>1, <2>1, TypesAre DEF PagesInv
<1>5. DialogOK'
  BY <1>3, DialogFrame DEF SameI
<1>6. OffersMove
  BY <1>1, NetworkSame
<1> QED BY <1>1, <1>3, <1>4, <1>5, <1>6, SameTypes, QuietI

\* The mailboxes of a link are deleted.
LEMMA MailboxesGoInv ==
  ASSUME PagesInv, NEW l \in Link, CloseArrives(l) \/ BoxExpires(l)
  PROVE  PagesInv'
<1>1. /\ UNCHANGED <<joined, toI, toR, ini, posts, res, accepts>> /\ closing' \subseteq closing
      /\ box' = [box EXCEPT ![l] = "closed"] /\ box[l] # "none"
  <2>1. CloseArrives(l) => box[l] # "none"
    BY TypesAre DEF PagesInv, CloseArrives
  <2> QED BY <2>1 DEF CloseArrives, BoxExpires
<1>2. /\ box' \in [Link -> {"none", "open", "closed"}]
      /\ \A m \in Link : box'[m] # "none" <=> box[m] # "none"
  BY <1>1, TypesAre DEF PagesInv
<1>3. closing' \subseteq {m \in Link : box[m] # "none"}
  BY <1>1, TypesAre DEF PagesInv
<1>4. res' \in ResponderState /\ res'.sub \in {0, res'.link} /\ SameR /\ SessionOfJoin'
  BY <1>1, TypesAre DEF PagesInv, SameR, SessionOfJoin
<1>5. OffersMove
  BY <1>1, NetworkSame
<1> QED BY <1>1, <1>2, <1>3, <1>4, <1>5, PageSame, SameTypes, Quiet

-----------------------------------------------------------------------------
(* Handshake: the responder, and the theorems.                             *)

\* A peer connection of the responder, and its page as it is opened.
LEMMA FreshRTypes ==
  /\ FreshR \in ResponderState /\ FreshR.link = 0 /\ FreshR.sub = 0 /\ FreshR.pc = NoPcR
  /\ FreshR.stage = "idle" /\ FreshR.giving = "no"
  /\ NoPcR \in [open: BOOLEAN, remote: 0..MaxAttempt, ice: BOOLEAN, up: BOOLEAN, stale: BOOLEAN]
  /\ ~NoPcR.open /\ NoPcR.remote = 0 /\ ~NoPcR.up /\ ~NoPcR.stale
<1>1. /\ NoPcR \in [open: BOOLEAN, remote: 0..MaxAttempt, ice: BOOLEAN, up: BOOLEAN, stale: BOOLEAN]
      /\ ~NoPcR.open /\ NoPcR.remote = 0 /\ ~NoPcR.up /\ ~NoPcR.stale
  BY HandshakeAssumption DEF NoPcR
<1>2. 0 \in 0..MaxLink /\ 0 \in 0..MaxAttempt /\ {} \in SUBSET {-l : l \in Link}
  BY HandshakeAssumption
<1> QED BY <1>1, <1>2 DEF FreshR, ResponderState

\* The peer connection goes with the session.
LEMMA NoSession ==
  ASSUME PagesInv, ~res.pc.open
  PROVE  res.pc.remote = 0 /\ ~res.pc.up
<1> QED BY DEF PagesInv, SessionOfJoin, UpTogether

\* A token is redeemed: the responder is on a link nobody was on.
LEMMA JoinInv == ASSUME PagesInv, NEW l \in Link, Join(l) PROVE PagesInv'
<1>1. /\ UNCHANGED <<box, toI, toR, ini, posts, accepts, closing>>
      /\ joined' = joined \cup {l} /\ l \notin joined /\ box[l] = "open"
      /\ res' = [res EXCEPT !.stage = "joining", !.link = l] /\ res.stage = "idle"
  BY DEF Join
<1>2. res \in ResponderState /\ res.sub \in {0, res.link} /\ l \in 0..MaxLink /\ l # 0
  BY TypesAre, HandshakeAssumption DEF PagesInv, Link
<1>3. /\ res.link = 0 /\ res.sub = 0 /\ ~res.pc.open /\ res.giving = "no"
      /\ res.pc.remote = 0 /\ ~res.pc.up
  BY <1>1, <1>2, NoSession DEF PagesInv, SessionOfJoin
<1>4. /\ res' \in ResponderState /\ res'.sub = 0 /\ res'.link = l /\ res'.stage = "joining"
      /\ res'.pc = res.pc /\ res'.giving = "no"
  BY <1>1, <1>2, <1>3 DEF ResponderState
<1>5. PagesTypes'
  <2>1. /\ box' \in [Link -> {"none", "open", "closed"}]
        /\ joined' \subseteq {m \in Link : box'[m] # "none"}
        /\ closing' \subseteq {m \in Link : box'[m] # "none"}
    BY <1>1, TypesAre DEF PagesInv
  <2>2. /\ ini' \in InitiatorState /\ ini'.sub \in {0, ini'.link}
        /\ toI' \in [Link -> SUBSET PageSignal] /\ toR' \in [Link -> SUBSET PageSignal]
        /\ posts' \subseteq [of: AcceptId, link: Link, state: {"posted", "stored", "again"}]
        /\ accepts' \in 0..MaxAttempt
    BY <1>1, TypesAre DEF PagesInv
  <2> QED BY <1>4, <2>1, <2>2, TypesNext
<1>6. LinksInOrder' /\ DialogOK'
  BY <1>1, <1>4 DEF PagesInv, LinksInOrder, DialogOK, Top
<1>7. SessionOfJoin'
  BY <1>2, <1>3, <1>4 DEF SessionOfJoin
<1>8. OffersOnce'
  BY <1>1, <1>4 DEF PagesInv, OffersOnce, UnderWay
<1>9. OfferOfLink'
  <2>1. 0 \notin AcceptId
    BY DEF AcceptId
  <2> QED BY <1>1, <1>3, <1>4, <2>1 DEF PagesInv, OfferOfLink
<1>10. UpTogether'
  BY <1>1, <1>3, <1>4 DEF PagesInv, UpTogether, UpHere, UnderWay
<1> QED BY <1>5, <1>6, <1>7, <1>8, <1>9, <1>10 DEF PagesInv

\* The hello is acknowledged: the responder has a peer connection, which has no
\* offer yet, on a link whose connection of the initiator is not up.
LEMMA JoinedInv == ASSUME PagesInv, Joined PROVE PagesInv'
<1>1. /\ UNCHANGED <<box, joined, toR, ini, posts, accepts, closing>>
      /\ res.stage = "joining" /\ toI' = [toI EXCEPT ![res.link] = @ \cup {[kind |-> "hello", of |-> 0]}]
      /\ res' = [res EXCEPT !.stage = "joined", !.sub = res.link, !.timer = TRUE,
                            !.pc = [NoPcR EXCEPT !.open = TRUE]]
  BY DEF Joined, Hello
<1>2. res \in ResponderState /\ toI \in [Link -> SUBSET PageSignal]
  BY TypesAre DEF PagesInv
<1>3. res.link \in Link /\ res.link # 0 /\ res.giving = "no"
  BY <1>1, <1>2, HandshakeAssumption DEF PagesInv, SessionOfJoin, ResponderState, Link
<1>4. PICK q \in [open: BOOLEAN, remote: 0..MaxAttempt, ice: BOOLEAN, up: BOOLEAN, stale: BOOLEAN] :
        q = [NoPcR EXCEPT !.open = TRUE] /\ q.remote = 0 /\ ~q.up
  <2>1. PICK e : e = [NoPcR EXCEPT !.open = TRUE]
    OBVIOUS
  <2>2. e \in [open: BOOLEAN, remote: 0..MaxAttempt, ice: BOOLEAN, up: BOOLEAN, stale: BOOLEAN]
    BY <2>1, FreshRTypes
  <2>3. e.remote = 0 /\ ~e.up
    BY <2>1, FreshRTypes
  <2> QED BY <2>1, <2>2, <2>3
<1>5. /\ res' \in ResponderState /\ res'.sub = res.link /\ res'.link = res.link
      /\ res'.stage = "joined" /\ res'.pc = q /\ res'.giving = "no"
  BY <1>1, <1>2, <1>3, <1>4 DEF ResponderState
<1>6. PagesTypes'
  <2>1. toI' \in [Link -> SUBSET PageSignal]
    BY <1>1, <1>2, <1>3, SignalsType, SignalsAre
  <2>2. /\ box' \in [Link -> {"none", "open", "closed"}]
        /\ joined' \subseteq {m \in Link : box'[m] # "none"}
        /\ closing' \subseteq {m \in Link : box'[m] # "none"}
    BY <1>1, TypesAre DEF PagesInv
  <2>3. /\ ini' \in InitiatorState /\ ini'.sub \in {0, ini'.link}
        /\ toR' \in [Link -> SUBSET PageSignal]
        /\ posts' \subseteq [of: AcceptId, link: Link, state: {"posted", "stored", "again"}]
        /\ accepts' \in 0..MaxAttempt
    BY <1>1, TypesAre DEF PagesInv
  <2> QED BY <1>5, <2>1, <2>2, <2>3, TypesNext
<1>7. LinksInOrder' /\ DialogOK'
  BY <1>1, <1>5 DEF PagesInv, LinksInOrder, DialogOK, Top
<1>8. SessionOfJoin'
  BY <1>3, <1>4, <1>5 DEF SessionOfJoin
<1>9. 0 \notin AcceptId
  BY DEF AcceptId
<1>10. OffersOnce'
  <2>1. accepts \in 0..MaxAttempt
    BY TypesAre DEF PagesInv
  <2>2. 0 <= accepts
    BY <2>1, HandshakeAssumption
  <2> QED BY <1>1, <1>4, <1>5, <1>9, <2>2 DEF PagesInv, OffersOnce, UnderWay
<1>11. OfferOfLink'
  BY <1>1, <1>4, <1>5, <1>9 DEF PagesInv, OfferOfLink
<1>12. UpTogether'
  BY <1>1, <1>4, <1>5 DEF PagesInv, UpTogether, UpHere, UnderWay
<1> QED BY <1>6, <1>7, <1>8, <1>10, <1>11, <1>12 DEF PagesInv

\* A join fails: the form is back.
LEMMA JoinFailsInv == ASSUME PagesInv, JoinFails PROVE PagesInv'
<1>1. /\ UNCHANGED <<box, joined, toR, ini, posts, accepts, closing>> /\ res.stage = "joining"
      /\ res' = [res EXCEPT !.stage = "idle", !.link = 0]
      /\ \/ toI' = toI
         \/ toI' = [toI EXCEPT ![res.link] = @ \cup {[kind |-> "hello", of |-> 0]}]
  BY DEF JoinFails, Hello
<1>2. res \in ResponderState /\ toI \in [Link -> SUBSET PageSignal] /\ 0 \in 0..MaxLink
  BY TypesAre, HandshakeAssumption DEF PagesInv
<1>3. res.link \in Link /\ ~res.pc.open /\ res.sub = 0 /\ res.giving = "no"
  BY <1>1, <1>2, HandshakeAssumption DEF PagesInv, SessionOfJoin, ResponderState, Link
<1>4. /\ res' \in ResponderState /\ res'.sub = 0 /\ res'.link = 0 /\ res'.stage = "idle"
      /\ res'.pc = res.pc /\ res'.giving = "no"
  BY <1>1, <1>2, <1>3 DEF ResponderState
<1>5. GoneR /\ SessionOfJoin'
  BY <1>3, <1>4, NoSession DEF GoneR, SessionOfJoin
<1>6. toI' \in [Link -> SUBSET PageSignal]
  <2>1. [toI EXCEPT ![res.link] = @ \cup {[kind |-> "hello", of |-> 0]}] \in [Link -> SUBSET PageSignal]
    BY <1>2, <1>3, SignalsType, SignalsAre
  <2> QED BY <1>1, <1>2, <2>1
<1>7. OffersMove
  BY <1>1, NetworkSame
<1> QED BY <1>1, <1>4, <1>5, <1>6, <1>7, SameTypes, QuietR

\* What handling a signal that is no offer leaves of the responder's page.
LEMMA HandleRPage ==
  ASSUME PagesInv, NEW s, HandleR(s), s.kind # "offer"
  PROVE  /\ res' \in ResponderState /\ res'.sub = res.sub /\ res'.link = res.link
         /\ SameR \/ GoneR
         /\ SessionOfJoin'
<1>1. res \in ResponderState /\ SessionOfJoin
  BY TypesAre DEF PagesInv
<1>2. CASE UNCHANGED res
  BY <1>1, <1>2 DEF SameR, SessionOfJoin
<1>3. ASSUME NEW b \in BOOLEAN, res' = [res EXCEPT !.pc = [res.pc EXCEPT !.ice = b]]
      PROVE  res' \in ResponderState /\ res'.sub = res.sub /\ SameR /\ res'.giving = res.giving
  BY <1>1, <1>3 DEF ResponderState, SameR
<1>4. ASSUME res' = [res EXCEPT !.pc = NoPcR, !.connected = FALSE], res.pc.open
      PROVE  /\ res' \in ResponderState /\ res'.sub = res.sub /\ res'.link = res.link
             /\ GoneR /\ SessionOfJoin'
  <2>1. /\ res' \in ResponderState /\ res'.sub = res.sub /\ res'.link = res.link
        /\ res'.stage = res.stage /\ res'.pc = NoPcR /\ res'.giving = res.giving
    BY <1>1, <1>4, FreshRTypes DEF ResponderState
  <2> QED BY <1>1, <1>4, <2>1, FreshRTypes DEF GoneR, SessionOfJoin
<1>5. \/ UNCHANGED res
      \/ \E b \in BOOLEAN : res' = [res EXCEPT !.pc = [res.pc EXCEPT !.ice = b]]
      \/ res.pc.open /\ res' = [res EXCEPT !.pc = NoPcR, !.connected = FALSE]
  <2>1. res.pc.ice \in BOOLEAN
    BY <1>1 DEF ResponderState
  <2>2. PICK b \in BOOLEAN : b = (res.pc.ice \/ s.of = res.pc.remote)
    BY <2>1
  <2>3. res' = [res EXCEPT !.pc.ice = res.pc.ice \/ s.of = res.pc.remote] =>
          res' = [res EXCEPT !.pc = [res.pc EXCEPT !.ice = b]]
    BY <1>1, <2>2 DEF ResponderState
  <2>4. \/ UNCHANGED res
        \/ res' = [res EXCEPT !.pc.ice = res.pc.ice \/ s.of = res.pc.remote]
        \/ res.pc.open /\ res' = [res EXCEPT !.pc = NoPcR, !.connected = FALSE]
    BY DEF HandleR
  <2> QED BY <2>3, <2>4
<1>6. ASSUME NEW b \in BOOLEAN, res' = [res EXCEPT !.pc = [res.pc EXCEPT !.ice = b]]
      PROVE  /\ res' \in ResponderState /\ res'.sub = res.sub /\ res'.link = res.link
             /\ SameR /\ SessionOfJoin'
  BY <1>3, <1>6, JoinFrame DEF SameR
<1> QED BY <1>1, <1>2, <1>4, <1>5, <1>6 DEF SameR

\* The responder takes a signal that is no offer.
LEMMA DeliverRInv ==
  ASSUME PagesInv, NEW s, DeliverR(s), s.kind # "offer"
  PROVE  PagesInv'
<1>1. /\ UNCHANGED <<box, joined, toI, ini, posts, accepts, closing>>
      /\ res.sub # 0 /\ toR' = [toR EXCEPT ![res.sub] = @ \ {s}] /\ HandleR(s)
  BY DEF DeliverR
<1>2. res \in ResponderState /\ res.sub \in {0, res.link} /\ toR \in [Link -> SUBSET PageSignal]
  BY TypesAre DEF PagesInv
<1>3. res.sub \in Link
  BY <1>1, <1>2, HandshakeAssumption DEF ResponderState, Link
<1>4. toR' \in [Link -> SUBSET PageSignal]
  BY <1>1, <1>2, <1>3, SignalsType
<1>5. OffersMove
  <2>1. \A l \in Link : \A a \in AcceptId : Offer(a) \in toR'[l] => Offer(a) \in toR[l]
    BY <1>1, <1>2
  <2> QED BY <1>1, <2>1 DEF PagesInv, OffersOnce, OffersMove
<1>6. /\ res' \in ResponderState /\ res'.sub \in {0, res'.link} /\ res'.link = res.link
      /\ SameR \/ GoneR
      /\ SessionOfJoin'
  BY <1>1, <1>2, HandleRPage
<1> QED BY <1>1, <1>4, <1>5, <1>6, SameTypes, QuietR

\* An offer handled by a page with no connection, or with signalling closed, is
\* taken from its mailbox and that is all.
LEMMA OfferDropped ==
  ASSUME PagesInv, NEW s, DeliverR(s), UNCHANGED res
  PROVE  PagesInv'
<1>1. /\ UNCHANGED <<box, joined, toI, ini, posts, accepts, closing>>
      /\ res.sub # 0 /\ toR' = [toR EXCEPT ![res.sub] = @ \ {s}]
  BY DEF DeliverR
<1>2. res \in ResponderState /\ res.sub \in {0, res.link} /\ toR \in [Link -> SUBSET PageSignal]
  BY TypesAre DEF PagesInv
<1>3. res.sub \in Link
  BY <1>1, <1>2, HandshakeAssumption DEF ResponderState, Link
<1>4. toR' \in [Link -> SUBSET PageSignal]
  BY <1>1, <1>2, <1>3, SignalsType
<1>5. OffersMove
  <2>1. \A l \in Link : \A a \in AcceptId : Offer(a) \in toR'[l] => Offer(a) \in toR[l]
    BY <1>1, <1>2
  <2> QED BY <1>1, <2>1 DEF PagesInv, OffersOnce, OffersMove
<1>6. /\ res' \in ResponderState /\ res'.sub \in {0, res'.link}
      /\ SameR /\ SessionOfJoin'
  BY <1>2 DEF PagesInv, SameR, SessionOfJoin
<1> QED BY <1>1, <1>4, <1>5, <1>6, SameTypes, QuietR

\* The responder takes an offer: the accept of the initiator, if it is still at
\* that one, is not up yet.
LEMMA OfferTakenInv ==
  ASSUME PagesInv, NEW s, DeliverR(s), s.kind = "offer", res.pc.open,
         res' = [res EXCEPT !.pc.remote = s.of, !.pc.stale = @ \/ res.pc.up,
                            !.answering = s.of, !.ices = @ \cup {-res.link}]
  PROVE  PagesInv'
<1>1. /\ UNCHANGED <<box, joined, toI, ini, posts, accepts, closing>>
      /\ res.sub # 0 /\ toR' = [toR EXCEPT ![res.sub] = @ \ {s}] /\ s \in toR[res.sub]
  BY DEF DeliverR
<1>2. res \in ResponderState /\ res.sub \in {0, res.link} /\ toR \in [Link -> SUBSET PageSignal]
      /\ accepts \in 0..MaxAttempt
  BY TypesAre DEF PagesInv
<1>3. res.sub \in Link /\ res.link = res.sub
  BY <1>1, <1>2, HandshakeAssumption DEF ResponderState, Link
<1>4. PICK a \in AcceptId : s = Offer(a) /\ s.of = a
  <2>1. s \in PageSignal
    BY <1>1, <1>2, <1>3
  <2> QED BY <2>1 DEF PageSignal, Offer
<1>5. a \in 0..MaxAttempt /\ a # 0
  BY HandshakeAssumption DEF AcceptId
<1>6. PICK b \in BOOLEAN : b = (res.pc.stale \/ res.pc.up)
  BY <1>2 DEF ResponderState
<1>7. /\ res' \in ResponderState /\ res'.sub = res.sub /\ res'.link = res.link
      /\ res'.stage = res.stage /\ res'.giving = res.giving
      /\ res'.pc.open = res.pc.open /\ res'.pc.remote = a /\ res'.pc.up = res.pc.up
      /\ res'.pc.stale = (res.pc.stale \/ res.pc.up)
  <2>1. PICK c \in SUBSET {-l : l \in Link} : c = res.ices \cup {-res.link}
    BY <1>2, <1>3 DEF ResponderState
  <2>2. PICK q \in [open: BOOLEAN, remote: 0..MaxAttempt, ice: BOOLEAN, up: BOOLEAN, stale: BOOLEAN] :
          /\ q = [res.pc EXCEPT !.remote = a, !.stale = b]
          /\ q.open = res.pc.open /\ q.remote = a /\ q.up = res.pc.up /\ q.stale = b
    <3>1. PICK e : e = [res.pc EXCEPT !.remote = a, !.stale = b]
      OBVIOUS
    <3>2. res.pc \in [open: BOOLEAN, remote: 0..MaxAttempt, ice: BOOLEAN, up: BOOLEAN, stale: BOOLEAN]
      BY <1>2 DEF ResponderState
    <3>3. e \in [open: BOOLEAN, remote: 0..MaxAttempt, ice: BOOLEAN, up: BOOLEAN, stale: BOOLEAN]
      BY <1>5, <3>1, <3>2
    <3>4. e.open = res.pc.open /\ e.remote = a /\ e.up = res.pc.up /\ e.stale = b
      BY <3>1, <3>2
    <3> QED BY <3>1, <3>3, <3>4
  <2>3. res' = [res EXCEPT !.pc = q, !.answering = a, !.ices = c]
    BY <1>2, <1>4, <1>6, <2>1, <2>2, ZenonT(60) DEF ResponderState
  <2>4. res' \in ResponderState
    BY <1>2, <1>5, <2>3, ZenonT(60) DEF ResponderState
  <2>5. /\ res'.sub = res.sub /\ res'.link = res.link /\ res'.stage = res.stage
        /\ res'.giving = res.giving /\ res'.pc = q
    BY <1>2, <2>3 DEF ResponderState
  <2> QED BY <1>6, <2>2, <2>4, <2>5
<1>8. toR' \in [Link -> SUBSET PageSignal]
  BY <1>1, <1>2, <1>3, SignalsType
<1>9. PagesTypes'
  <2>1. /\ box' \in [Link -> {"none", "open", "closed"}]
        /\ joined' \subseteq {m \in Link : box'[m] # "none"}
        /\ closing' \subseteq {m \in Link : box'[m] # "none"}
    BY <1>1, TypesAre DEF PagesInv
  <2>2. /\ ini' \in InitiatorState /\ ini'.sub \in {0, ini'.link}
        /\ toI' \in [Link -> SUBSET PageSignal]
        /\ posts' \subseteq [of: AcceptId, link: Link, state: {"posted", "stored", "again"}]
        /\ accepts' \in 0..MaxAttempt
    BY <1>1, TypesAre DEF PagesInv
  <2> QED BY <1>2, <1>7, <1>8, <2>1, <2>2, TypesNext
<1>10. LinksInOrder' /\ DialogOK'
  BY <1>1, <1>7 DEF PagesInv, LinksInOrder, DialogOK, Top
<1>11. SessionOfJoin'
  BY <1>7 DEF PagesInv, SessionOfJoin
<1>12. /\ \A l \in Link : \A c \in AcceptId :
            Offer(c) \in toR'[l] => Offer(c) \in toR[l] /\ (c = a => l # res.sub)
       /\ Offer(a) \in toR[res.sub]
  BY <1>1, <1>2, <1>3, <1>4
<1>13. /\ a <= accepts /\ \A p \in posts : p.of = a => p.state # "posted"
       /\ \A m \in Link : Offer(a) \in toR[m] => m = res.sub
  BY <1>3, <1>12 DEF PagesInv, OffersOnce
<1>14. UnderWay(a) /\ ~UnderWay(a)' /\ \A c \in AcceptId : UnderWay(c)' => UnderWay(c)
  BY <1>1, <1>3, <1>12, <1>13 DEF UnderWay
<1>15. OffersOnce'
  <2>1. /\ \A p \in posts' : p.of \in 1..accepts'
        /\ \A p, q \in posts' : p.of = q.of => p = q
        /\ ini'.pc.of <= accepts'
    BY <1>1 DEF PagesInv, OffersOnce
  <2>2. ASSUME NEW l \in Link, NEW c \in AcceptId, Offer(c) \in toR'[l]
        PROVE  /\ c <= accepts'
               /\ \A p \in posts' : p.of = c => p.state # "posted"
               /\ \A m \in Link : Offer(c) \in toR'[m] => m = l
    BY <1>1, <1>12, <2>2 DEF PagesInv, OffersOnce
  <2>3. res'.pc.remote <= accepts'
    BY <1>1, <1>7, <1>13
  <2>4. \A c \in AcceptId : res'.pc.remote = c => ~UnderWay(c)'
    BY <1>7, <1>14
  <2> QED BY <2>1, <2>2, <2>3, <2>4 DEF OffersOnce
<1>16. OfferOfLink'
  <2>1. ASSUME NEW c \in AcceptId, ini.pc.of = c, ~ini.pc.stale
        PROVE  /\ \A p \in posts : p.of = c => p.link = ini.link
               /\ \A l \in Link : Offer(c) \in toR[l] => l = ini.link
    BY <2>1 DEF PagesInv, OfferOfLink
  <2> QED BY <1>1, <1>3, <1>7, <1>12, <2>1 DEF OfferOfLink
<1>17. UpTogether'
  <2>1. UpHere => ini.pc.of # a
    BY <1>14 DEF PagesInv, UpTogether
  <2>2. UpHere' <=> UpHere
    BY <1>1 DEF UpHere
  <2>3. \A c \in AcceptId : UpHere' /\ ini'.pc.of = c => ~UnderWay(c)'
    BY <1>1, <1>14, <2>2 DEF PagesInv, UpTogether
  <2>4. /\ ini'.pc.up => ini'.pc.of # 0
        /\ res'.pc.up => res'.pc.remote # 0
        /\ UpHere' => ini'.link \in joined'
        /\ UpHere' /\ res'.stage = "joining" => res'.link # ini'.link
    BY <1>1, <1>5, <1>7, <2>2 DEF PagesInv, UpTogether
  <2>5. UpHere' => res'.pc.remote \notin {0, ini'.pc.of}
    BY <1>1, <1>5, <1>7, <2>1, <2>2
  <2>6. ~(res'.pc.up /\ ~res'.pc.stale)
    BY <1>7
  <2> QED BY <2>3, <2>4, <2>5, <2>6 DEF UpTogether
<1> QED BY <1>9, <1>10, <1>11, <1>15, <1>16, <1>17 DEF PagesInv

\* The responder sends an answer or a candidate.
LEMMA SendRInv ==
  ASSUME PagesInv, SendAnswer \/ \E c \in res.ices : SendIceR(c)
  PROVE  PagesInv'
<1>1. UNCHANGED <<box, joined, toR, ini, posts, accepts, closing>>
  BY DEF SendAnswer, SendIceR
<1>2. res \in ResponderState /\ res.sub \in {0, res.link} /\ toI \in [Link -> SUBSET PageSignal]
      /\ joined \subseteq Link /\ 0 \in 0..MaxAttempt
  BY TypesAre, HandshakeAssumption DEF PagesInv
<1>3. /\ res' \in ResponderState /\ res'.sub = res.sub /\ SameR /\ res'.giving = res.giving
      /\ \/ toI' = toI
         \/ res.link \in Link
            /\ \E s \in PageSignal : toI' = [toI EXCEPT ![res.link] = @ \cup {s}]
  <2>1. CASE SendAnswer
    <3>1. res' = [res EXCEPT !.answering = 0]
      BY <2>1 DEF SendAnswer
    <3>2. [kind |-> "answer", of |-> res.answering] \in PageSignal
      <4>1. res.answering \in AcceptId
        BY <1>2, <2>1, HandshakeAssumption DEF SendAnswer, ResponderState, AcceptId
      <4> QED BY <4>1, SignalsAre
    <3>3. \/ toI' = toI
          \/ res.link \in Link
             /\ \E s \in PageSignal : toI' = [toI EXCEPT ![res.link] = @ \cup {s}]
      BY <1>2, <2>1, <3>2 DEF SendAnswer, Takes
    <3>4. res' \in ResponderState /\ res'.sub = res.sub /\ SameR /\ res'.giving = res.giving
      BY <1>2, <3>1 DEF ResponderState, SameR
    <3> QED BY <3>3, <3>4
  <2>2. ASSUME NEW c \in res.ices, SendIceR(c)
        PROVE  /\ res' \in ResponderState /\ res'.sub = res.sub /\ SameR /\ res'.giving = res.giving
               /\ \/ toI' = toI
                  \/ res.link \in Link
                     /\ \E s \in PageSignal : toI' = [toI EXCEPT ![res.link] = @ \cup {s}]
    <3>1. res' = [res EXCEPT !.ices = @ \ {c}]
      BY <2>2 DEF SendIceR
    <3>2. [kind |-> "ice", of |-> c] \in PageSignal
      <4>1. \E l \in Link : c = -l
        BY <1>2 DEF ResponderState
      <4> QED BY <4>1, SignalsAre
    <3>3. \/ toI' = toI
          \/ res.link \in Link
             /\ \E s \in PageSignal : toI' = [toI EXCEPT ![res.link] = @ \cup {s}]
      BY <1>2, <2>2, <3>2 DEF SendIceR, Takes
    <3>4. res' \in ResponderState /\ res'.sub = res.sub /\ SameR /\ res'.giving = res.giving
      BY <1>2, <3>1 DEF ResponderState, SameR
    <3> QED BY <3>3, <3>4
  <2> QED BY <2>1, <2>2
<1>4. toI' \in [Link -> SUBSET PageSignal]
  BY <1>2, <1>3, SignalsType
<1>5. OffersMove
  BY <1>1, NetworkSame
<1>6. SessionOfJoin'
  BY <1>3, JoinFrame
<1>7. res'.sub \in {0, res'.link}
  BY <1>2, <1>3 DEF SameR
<1> QED BY <1>1, <1>3, <1>4, <1>5, <1>6, <1>7, SameTypes, QuietR

\* The three steps of the responder's timeout, and a user who leaves.
LEMMA GivesUpInv ==
  ASSUME PagesInv, TimerFires \/ TimerDisposes \/ TimerEnds \/ LeaveR
  PROVE  PagesInv'
<1>1. UNCHANGED <<box, joined, toR, ini, posts, accepts, closing>>
  BY DEF TimerFires, TimerDisposes, TimerEnds, LeaveR
<1>2. /\ res \in ResponderState /\ res.sub \in {0, res.link} /\ 0 \in 0..MaxLink
      /\ toI \in [Link -> SUBSET PageSignal] /\ joined \subseteq Link /\ SessionOfJoin
  BY TypesAre, HandshakeAssumption DEF PagesInv
<1>3. /\ res' \in ResponderState /\ res'.sub \in {0, res'.link} /\ SessionOfJoin'
      /\ SameR \/ (GoneR /\ res'.link \in {0, res.link})
  <2>1. CASE TimerFires
    <3>1. res' = [res EXCEPT !.timer = FALSE, !.giving = "cancel", !.sub = 0] /\ res.stage = "joined"
      BY <2>1 DEF TimerFires
    <3>2. res' \in ResponderState /\ res'.sub = 0 /\ SameR /\ res'.giving = "cancel"
      BY <1>2, <3>1 DEF ResponderState, SameR
    <3> QED BY <1>2, <3>1, <3>2 DEF SessionOfJoin, SameR
  <2>2. CASE TimerDisposes
    <3>1. res' = [res EXCEPT !.giving = "dispose", !.pc = NoPcR] /\ res.giving = "cancel"
      BY <2>2 DEF TimerDisposes
    <3>2. /\ res' \in ResponderState /\ res'.sub = res.sub /\ res'.link = res.link
          /\ res'.stage = res.stage /\ res'.giving = "dispose" /\ res'.pc = NoPcR
      BY <1>2, <3>1, FreshRTypes DEF ResponderState
    <3> QED BY <1>2, <3>1, <3>2, FreshRTypes DEF SessionOfJoin, GoneR
  <2>3. CASE TimerEnds
    <3>1. res' = [res EXCEPT !.giving = "no", !.stage = "idle", !.link = 0, !.connected = FALSE]
          /\ res.giving = "dispose"
      BY <2>3 DEF TimerEnds
    <3>2. ~res.pc.open /\ res.pc.remote = 0 /\ ~res.pc.up /\ res.sub = 0
      BY <1>2, <3>1, NoSession DEF SessionOfJoin
    <3>3. /\ res' \in ResponderState /\ res'.sub = res.sub /\ res'.link = 0
          /\ res'.stage = "idle" /\ res'.giving = "no" /\ res'.pc = res.pc
      BY <1>2, <3>1 DEF ResponderState
    <3> QED BY <3>2, <3>3 DEF SessionOfJoin, GoneR
  <2>4. CASE LeaveR
    <3>1. res' = FreshR
      BY <2>4 DEF LeaveR
    <3> QED BY <3>1, FreshRTypes DEF SessionOfJoin, GoneR
  <2> QED BY <2>1, <2>2, <2>3, <2>4
<1>4. toI' \in [Link -> SUBSET PageSignal]
  BY <1>2, ByePut DEF TimerFires, TimerDisposes, TimerEnds, LeaveR
<1>5. OffersMove
  BY <1>1, NetworkSame
<1> QED BY <1>1, <1>3, <1>4, <1>5, SameTypes, QuietR

\* The responder's connection reports that it is up.
LEMMA ConnectedRInv == ASSUME PagesInv, ConnectedR PROVE PagesInv'
<1>1. /\ UNCHANGED <<box, joined, toI, toR, posts, ini, accepts>>
      /\ res' = [Closed(res) EXCEPT !.connected = TRUE, !.timer = FALSE]
      /\ closing' = closing \cup CloseCall(res)
  BY DEF ConnectedR
<1>2. /\ res \in ResponderState /\ res.sub \in {0, res.link} /\ 0 \in 0..MaxLink
      /\ {} \in SUBSET {-l : l \in Link}
  BY TypesAre, HandshakeAssumption DEF PagesInv
<1>3. /\ res' \in ResponderState /\ res'.sub \in {0, res.sub} /\ SameR
      /\ res'.giving = res.giving
  <2>1. \/ res' = [res EXCEPT !.connected = TRUE, !.timer = FALSE]
        \/ res' = [res EXCEPT !.closed = TRUE, !.sub = 0, !.ices = {}, !.connected = TRUE,
                              !.timer = FALSE]
    BY <1>1, <1>2 DEF Closed, ResponderState
  <2>2. CASE res' = [res EXCEPT !.connected = TRUE, !.timer = FALSE]
    BY <1>2, <2>2 DEF ResponderState, SameR
  <2>3. CASE res' = [res EXCEPT !.closed = TRUE, !.sub = 0, !.ices = {}, !.connected = TRUE,
                                !.timer = FALSE]
    BY <1>2, <2>3 DEF ResponderState, SameR
  <2> QED BY <2>1, <2>2, <2>3
<1>4. closing' \subseteq {l \in Link : box[l] # "none"}
  <2>1. CloseCall(res) \subseteq {l \in Link : box[l] # "none"}
    BY TypesAre DEF CloseCall, PagesInv, LinksInOrder
  <2> QED BY <1>1, <2>1, TypesAre DEF PagesInv
<1>5. SessionOfJoin'
  BY <1>3, JoinFrame
<1>6. OffersMove
  BY <1>1, NetworkSame
<1>7. res'.sub \in {0, res'.link}
  BY <1>2, <1>3 DEF SameR
<1> QED BY <1>1, <1>3, <1>4, <1>5, <1>6, <1>7, SameTypes, QuietR

\* The two peer connections reach each other, of one accept and of the link both
\* pages were on when its offer was taken.
LEMMA EstablishInv == ASSUME PagesInv, Establish PROVE PagesInv'
<1>1. /\ UNCHANGED <<box, joined, toI, toR, posts, accepts, closing>>
      /\ ini' = [ini EXCEPT !.pc.up = TRUE] /\ res' = [res EXCEPT !.pc.up = TRUE]
      /\ ini.pc.of # 0 /\ res.pc.remote = ini.pc.of
  BY DEF Establish, Reachable
<1>2. /\ ini \in InitiatorState /\ ini.sub \in {0, ini.link}
      /\ res \in ResponderState /\ res.sub \in {0, res.link}
  BY TypesAre DEF PagesInv
<1>3. /\ ini' \in InitiatorState /\ ini'.sub = ini.sub /\ ini'.link = ini.link
      /\ ini'.dialogs = ini.dialogs /\ ini'.incoming = ini.incoming
      /\ ini'.pc.of = ini.pc.of /\ ini'.pc.up /\ ini'.pc.stale = ini.pc.stale
  <2>1. ini' = [ini EXCEPT !.pc = [ini.pc EXCEPT !.up = TRUE]]
    BY <1>1, <1>2 DEF InitiatorState
  <2> QED BY <1>2, <2>1 DEF InitiatorState
<1>4. /\ res' \in ResponderState /\ res'.sub = res.sub /\ res'.link = res.link
      /\ res'.stage = res.stage /\ res'.giving = res.giving
      /\ res'.pc.open = res.pc.open /\ res'.pc.remote = res.pc.remote /\ res'.pc.up
      /\ res'.pc.stale = res.pc.stale
  <2>1. res' = [res EXCEPT !.pc = [res.pc EXCEPT !.up = TRUE]]
    BY <1>1, <1>2 DEF ResponderState
  <2> QED BY <1>2, <2>1 DEF ResponderState
<1>5. PICK a \in AcceptId : a = ini.pc.of
  BY <1>1, <1>2, HandshakeAssumption DEF InitiatorState, AcceptId
<1>6. PagesTypes'
  <2>1. /\ box' \in [Link -> {"none", "open", "closed"}]
        /\ joined' \subseteq {m \in Link : box'[m] # "none"}
        /\ closing' \subseteq {m \in Link : box'[m] # "none"}
        /\ toI' \in [Link -> SUBSET PageSignal] /\ toR' \in [Link -> SUBSET PageSignal]
        /\ posts' \subseteq [of: AcceptId, link: Link, state: {"posted", "stored", "again"}]
        /\ accepts' \in 0..MaxAttempt
    BY <1>1, TypesAre DEF PagesInv
  <2> QED BY <1>2, <1>3, <1>4, <2>1, TypesNext
<1>7. LinksInOrder' /\ DialogOK' /\ SessionOfJoin'
  BY <1>1, <1>3, <1>4 DEF PagesInv, LinksInOrder, DialogOK, Top, SessionOfJoin
<1>8. OffersOnce' /\ OfferOfLink'
  <2>1. OffersOnce'
    BY <1>1, <1>3, <1>4, ZenonT(60) DEF PagesInv, OffersOnce, UnderWay
  <2>2. OfferOfLink'
    BY <1>1, <1>3, <1>4 DEF PagesInv, OfferOfLink
  <2> QED BY <2>1, <2>2
<1>9. UpTogether'
  <2>1. UpHere' => res.link = ini.link
    BY <1>1, <1>3, <1>5 DEF PagesInv, OfferOfLink, UpHere
  <2>2. res.pc.open /\ res.stage = "joined" /\ res.link # 0 /\ res.link \in joined
    BY <1>1 DEF PagesInv, SessionOfJoin, LinksInOrder
  <2>3. \A c \in AcceptId : ini'.pc.of = c => ~UnderWay(c)'
    BY <1>1, <1>3 DEF PagesInv, OffersOnce, UnderWay
  <2>4. ini'.pc.of # 0 /\ res'.pc.remote # 0 /\ res'.stage = "joined"
    BY <1>1, <1>3, <1>4, <2>2
  <2>5. UpHere' => ini'.link \in joined'
    BY <1>1, <1>3, <2>1, <2>2 DEF UpHere
  <2> QED BY <1>3, <1>4, <2>3, <2>4, <2>5 DEF UpTogether
<1> QED BY <1>6, <1>7, <1>8, <1>9 DEF PagesInv

\* The responder takes a signal.
LEMMA DeliverRAllInv ==
  ASSUME PagesInv, NEW s, DeliverR(s)
  PROVE  PagesInv'
<1>1. CASE s.kind # "offer"
  BY <1>1, DeliverRInv
<1>2. CASE s.kind = "offer"
  <2>1. \/ UNCHANGED res
        \/ /\ res.pc.open
           /\ res' = [res EXCEPT !.pc.remote = s.of, !.pc.stale = @ \/ res.pc.up,
                                 !.answering = s.of, !.ices = @ \cup {-res.link}]
    BY <1>2 DEF DeliverR, HandleR
  <2> QED BY <1>2, <2>1, OfferDropped, OfferTakenInv
<1> QED BY <1>1, <1>2

\* The pages as they are opened, with no link yet.
LEMMA InitPages == PagesInit => PagesInv
<1> SUFFICES ASSUME PagesInit PROVE PagesInv
  OBVIOUS
<1>1. /\ accepts = 0 /\ box = [l \in Link |-> "none"] /\ joined = {} /\ posts = {}
      /\ toI = [l \in Link |-> {}] /\ toR = [l \in Link |-> {}] /\ closing = {}
      /\ ini = [FreshI EXCEPT !.making = TRUE] /\ res = FreshR
  BY DEF PagesInit
<1>2. /\ ini \in InitiatorState /\ ini.link = 0 /\ ini.sub = 0 /\ ini.pc = NoPcI
      /\ ini.incoming = FALSE /\ Len(ini.dialogs) = 0
  BY <1>1, FreshITypes DEF InitiatorState
<1>3. /\ NoPcI.of = 0 /\ ~NoPcI.up
  BY DEF NoPcI
<1>4. PagesTypes
  <2>1. /\ box \in [Link -> {"none", "open", "closed"}]
        /\ joined \subseteq {l \in Link : box[l] # "none"}
        /\ toI \in [Link -> SUBSET PageSignal] /\ toR \in [Link -> SUBSET PageSignal]
        /\ posts \subseteq [of: AcceptId, link: Link, state: {"posted", "stored", "again"}]
        /\ closing \subseteq {l \in Link : box[l] # "none"}
        /\ accepts \in 0..MaxAttempt /\ 0 \in 0..MaxLink
    BY <1>1, HandshakeAssumption
  <2>2. /\ ini.pc \in [of: 0..MaxAttempt, answered: BOOLEAN, ice: BOOLEAN, up: BOOLEAN, stale: BOOLEAN]
        /\ res.pc \in [open: BOOLEAN, remote: 0..MaxAttempt, ice: BOOLEAN, up: BOOLEAN, stale: BOOLEAN]
    BY <1>1, <1>2, FreshITypes, FreshRTypes
  <2> QED BY <1>1, <1>2, <2>1, <2>2, FreshRTypes DEF PagesTypes, PagesTypeOK, Page
<1>5. LinksInOrder
  <2>1. \A l \in Link : box[l] # "none" <=> l <= 0
    BY <1>1, HandshakeAssumption DEF Link
  <2>2. 0 \in 0..MaxLink
    BY HandshakeAssumption
  <2> QED BY <1>1, <1>2, <2>1, <2>2, FreshRTypes DEF LinksInOrder
<1>6. DialogOK
  BY <1>2 DEF DialogOK, Top
<1>7. SessionOfJoin
  BY <1>1, FreshRTypes DEF SessionOfJoin
<1>8. OffersOnce
  BY <1>1, <1>2, <1>3, FreshRTypes DEF OffersOnce, UnderWay
<1>9. OfferOfLink
  BY <1>2, <1>3 DEF OfferOfLink, AcceptId
<1>10. UpTogether
  BY <1>1, <1>2, <1>3, FreshRTypes DEF UpTogether, UpHere
<1> QED BY <1>4, <1>5, <1>6, <1>7, <1>8, <1>9, <1>10 DEF PagesInv

\* A step that changes nothing.
LEMMA PagesStutter == ASSUME PagesInv, UNCHANGED pagesVars PROVE PagesInv'
<1>1. UNCHANGED <<box, joined, toI, toR, ini, posts, res, accepts, closing>>
  BY DEF pagesVars
<1>2. OffersMove
  BY <1>1, NetworkSame
<1> QED BY <1>1, <1>2, PageSame, SameTypes, QuietI

\* Every step of the two pages, of their users and of the server keeps the invariant.
LEMMA StepPages == PagesInv /\ [PagesNext]_pagesVars => PagesInv'
<1> SUFFICES ASSUME PagesInv, [PagesNext]_pagesVars PROVE PagesInv'
  OBVIOUS
<1>1. CASE OfferStep
  BY <1>1, OfferStoredInv, OfferGoesOnInv, OfferFailsInv DEF OfferStep
<1>2. CASE IniStep
  BY <1>2, LinkMadeInv, LinkTimesInv, ConnectedIInv, DeliverIInv, SendIceIInv DEF IniStep
<1>3. CASE ResStep
  BY <1>3, JoinedInv, SendRInv, GivesUpInv, ConnectedRInv, DeliverRAllInv DEF ResStep
<1>4. CASE UserStep
  BY <1>4, DialogEndsInv, AcceptInv, JoinInv, LeaveIInv, GivesUpInv DEF UserStep
<1>5. CASE Mishap
  BY <1>5, LinkTimesInv, JoinFailsInv, GivesUpInv, MailboxesGoInv DEF Mishap
<1>6. CASE Establish
  BY <1>6, EstablishInv
<1>7. CASE \E l \in Link : CloseArrives(l)
  BY <1>7, MailboxesGoInv
<1>8. CASE UNCHANGED pagesVars
  BY <1>8, PagesStutter
<1> QED BY <1>1, <1>2, <1>3, <1>4, <1>5, <1>6, <1>7, <1>8 DEF PagesNext

\* It holds of every state of the handshake.
LEMMA PagesInvariant == PagesSpec => []PagesInv
<1> QED BY InitPages, StepPages, PTL DEF PagesSpec

\* What the two pages and the mailboxes hold (PagesTypeOK).
THEOREM PagesTypesHold == PagesSpec => []PagesTypeOK
<1>1. PagesInv => PagesTypeOK
  BY DEF PagesInv, PagesTypes
<1> QED BY <1>1, PagesInvariant, PTL

\* A request that counts as incoming has its dialog on top, with the code of the
\* link the page has now, however links are refreshed behind it
\* (_hasIncomingRequest of InitiatorPage).
THEOREM IncomingIsAnnounced == PagesSpec => []AnnouncedIsCurrent
<1>1. PagesInv => AnnouncedIsCurrent
  BY DEF PagesInv, DialogOK, AnnouncedIsCurrent
<1> QED BY <1>1, PagesInvariant, PTL

\* The mailboxes a step asks to have closed: those of the link that is replaced,
\* or of the link of a page whose connection is up.
LEMMA WhatIsClosed ==
  ASSUME PagesInv, PagesNext, NEW l \in closing' \ closing
  PROVE  \/ ini'.link # l
         \/ UNCHANGED res /\ ini'.pc = ini.pc /\ ini'.link = ini.link /\ ini.pc.up
         \/ UNCHANGED ini /\ res'.pc = res.pc /\ res'.link = res.link /\ res.pc.up
<1>1. \/ LinkMade \/ ConnectedI \/ ConnectedR
      \/ closing' \subseteq closing
  BY DEF PagesNext, OfferStep, OfferStored, OfferRetried, OfferDone, OfferFails, IniStep,
         Countdown, DeliverI, SendIceI, ResStep, Joined, SendAnswer, TimerDisposes, TimerEnds,
         DeliverR, SendIceR, UserStep, Reject, AcceptExpired, Accept, Join, LeaveI, ReopenI,
         LeaveR, Mishap, LinkFails, LinkExpires, JoinFails, TimerFires, BoxExpires, Establish,
         CloseArrives
<1>2. CASE LinkMade
  <2>1. PICK n \in Link : n = Cardinality({k \in Link : box[k] # "none"}) + 1
    BY <1>2 DEF LinkMade
  <2>2. box[n] = "none"
    <3>1. ~(n < n)
      BY HandshakeAssumption, <2>1 DEF Link
    <3> QED BY <2>1, <3>1, NextLink
  <2>3. ini \in InitiatorState
    BY TypesAre DEF PagesInv
  <2>4. ini'.link = n
    BY <1>2, <2>1, <2>3 DEF LinkMade, InitiatorState
  <2>5. l = ini.link /\ l # 0
    BY <1>2 DEF LinkMade
  <2>6. box[l] # "none"
    BY <2>5 DEF PagesInv, LinksInOrder
  <2> QED BY <2>2, <2>4, <2>6
<1>3. CASE ConnectedI
  <2>1. ini \in InitiatorState
    BY TypesAre DEF PagesInv
  <2>2. ini'.pc = ini.pc /\ ini'.link = ini.link
    BY <1>3, <2>1 DEF ConnectedI, Closed, InitiatorState
  <2> QED BY <1>3, <2>2 DEF ConnectedI, Connected
<1>4. CASE ConnectedR
  <2>1. res \in ResponderState
    BY TypesAre DEF PagesInv
  <2>2. res'.pc = res.pc /\ res'.link = res.link
    BY <1>4, <2>1 DEF ConnectedR, Closed, ResponderState
  <2> QED BY <1>4, <2>2 DEF ConnectedR, Connected
<1> QED BY <1>1, <1>2, <1>3, <1>4

\* When either page closes the mailboxes of the link both are on, in one accept,
\* the two peer connections have reached each other (_closeSignalingAfterConnect).
THEOREM MailboxesCloseWhenUp == PagesSpec => ClosedWhenUp
<1>1. ASSUME PagesInv, [PagesNext]_pagesVars
      PROVE  [\A l \in closing' \ closing :
                l = ini'.link /\ InOneAccept(ini', res') => ini'.pc.up /\ res'.pc.up]_pagesVars
  <2>1. SUFFICES ASSUME PagesNext, NEW l \in closing' \ closing,
                        l = ini'.link, InOneAccept(ini', res')
                 PROVE  ini'.pc.up /\ res'.pc.up
    BY <1>1
  <2>2. /\ ini'.link = res'.link /\ ini'.pc.of # 0 /\ ~ini'.pc.stale
        /\ res'.pc.open /\ ~res'.pc.stale /\ res'.pc.remote \in {0, ini'.pc.of}
    BY <2>1 DEF InOneAccept
  <2>3. CASE UNCHANGED res /\ ini'.pc = ini.pc /\ ini'.link = ini.link /\ ini.pc.up
    BY <1>1, <2>2, <2>3 DEF PagesInv, UpTogether, UpHere
  <2>4. CASE UNCHANGED ini /\ res'.pc = res.pc /\ res'.link = res.link /\ res.pc.up
    BY <1>1, <2>2, <2>4 DEF PagesInv, UpTogether
  <2> QED BY <1>1, <2>1, <2>3, <2>4, WhatIsClosed
<1> QED BY <1>1, PagesInvariant, PTL DEF PagesSpec, ClosedWhenUp
=============================================================================
