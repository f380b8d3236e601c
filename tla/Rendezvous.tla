----------------------------- MODULE Rendezvous -----------------------------
(***************************************************************************)
(* The blind rendezvous of the signalling server: every HTTP request of    *)
(* rendezvous_service.rs as a process whose steps are its Redis commands.  *)
(* Requests interleave between any two commands, time passes and keys      *)
(* expire between any two commands, and a request may be cut short before  *)
(* any command (Redis error, dropped connection, crash of the server: the  *)
(* server itself is stateless, so the effect on the store is the same).    *)
(***************************************************************************)
EXTENDS Integers, SequencesExt

CONSTANTS
  Request,        (* the requests the server may be sent, each handled once *)
  Mailbox,        (* the ids gen_mailbox_id may return                      *)
  Token,          (* the rendezvous ids initiators may generate             *)
  NONE,           (* an absent key, peer or argument                        *)
  MailboxTtl,     (* lifetime of a mailbox and of a message list            *)
  RendezvousTtl,  (* lifetime of a rendezvous mapping                       *)
  MaxTime,        (* bound: the clock stops here                            *)
  Kind            (* request -> the operation it carries                    *)

\* "mail": a send or a recv, whichever the client makes of it.
Operation == {"init", "join", "mail", "close"}

Metadata == [peer: Mailbox \cup {NONE}, expires: Nat, until: Nat]
Mapping  == [mailbox: Mailbox, until: Nat]
Message  == [from: Mailbox, request: Request]

ASSUME ConstantAssumption ==
  /\ NONE \notin Mailbox
  /\ NONE \notin Token
  /\ NONE \notin Metadata
  /\ NONE \notin Mapping
  /\ MailboxTtl \in Nat \ {0}
  /\ RendezvousTtl \in Nat \ {0}
  /\ MaxTime \in Nat
  /\ Kind \in [Request -> Operation]

VARIABLES
  now,         (* the clock                                                 *)
  rendezvous,  (* Redis: token -> mailbox of the initiator                  *)
  meta,        (* Redis: mailbox -> its metadata                            *)
  list,        (* Redis: mailbox -> its message list, empty when absent     *)
  pc,          (* request -> the Redis command it is about to issue         *)
  token,       (* request -> its rendezvous id                              *)
  mailbox,     (* request -> the mailbox it names or has generated          *)
  partner,     (* request -> the other mailbox it has read                  *)
  expires,     (* request -> the expires_at it has computed or read         *)
  reply,       (* request -> what the client is answered                    *)
  received,    (* request -> the messages a recv returned                   *)
  session      (* history: the initiator mailbox a mailbox was made for     *)

store   == <<rendezvous, meta, list>>
locals  == <<token, mailbox, partner, expires>>
vars    == <<now, rendezvous, meta, list, pc, token, mailbox, partner,
             expires, reply, received, session>>

Command == {"idle", "init_save_meta", "init_clear", "init_save_rendezvous",
            "join_get", "join_delete", "join_get_meta", "join_link",
            "join_save_meta", "join_clear", "send_get_meta", "push", "expire",
            "recv_get_meta", "recv_get_list", "close_get_meta",
            "close_delete_own", "close_delete_peer", "done"}

Outcome == {NONE, "ok", "invalid_token", "mailbox_not_found", "session_expired",
            "already_paired", "no_peer", "aborted"}

ASSUME NoAnswerAssumption == NONE # "ok"

NoTtl       == -1                \* the TTL of a list that has never got one
MessageList == [msgs: Seq(Message), until: Nat \cup {NoTtl}]
EmptyList   == [msgs |-> <<>>, until |-> NoTtl]

-----------------------------------------------------------------------------
Init ==
  /\ now = 0
  /\ rendezvous = [t \in Token |-> NONE]
  /\ meta = [m \in Mailbox |-> NONE]
  /\ list = [m \in Mailbox |-> EmptyList]
  /\ pc = [r \in Request |-> "idle"]
  /\ token = [r \in Request |-> NONE]
  /\ mailbox = [r \in Request |-> NONE]
  /\ partner = [r \in Request |-> NONE]
  /\ expires = [r \in Request |-> 0]
  /\ reply = [r \in Request |-> NONE]
  /\ received = [r \in Request |-> <<>>]
  /\ session = [m \in Mailbox |-> NONE]

InFlight(r) == pc[r] \notin {"idle", "done"}

\* Request r, of operation o, arrives: its first Redis command is c.
Arrive(r, o, c) ==
  /\ Kind[r] = o
  /\ pc[r] = "idle"
  /\ pc' = [pc EXCEPT ![r] = c]

\* Request r goes on from command c to command d.
Goto(r, c, d) == pc[r] = c /\ pc' = [pc EXCEPT ![r] = d]

Continue(r, c, d) == Goto(r, c, d) /\ UNCHANGED reply

\* Request r ends after command c with outcome o.
Answer(r, c, o) == Goto(r, c, "done") /\ reply' = [reply EXCEPT ![r] = o]

\* gen_mailbox_id: 16 random bytes, taken to be unused.
Fresh(m) == session[m] = NONE

\* The client holds mailbox m: an init or a join returned it.
Held(m) == \E q \in Request : Kind[q] \in {"init", "join"} /\ reply[q] = "ok" /\ mailbox[q] = m

-----------------------------------------------------------------------------
(* Redis commands (redis_repository.rs).                                   *)

SaveShort(m, peer, exp) ==                    \* mutant: the rendezvous lifetime
  meta' = [meta EXCEPT ![m] = [peer |-> peer, expires |-> exp, until |-> now + RendezvousTtl]]

SaveMailboxMeta(m, peer, exp) ==
  meta' = [meta EXCEPT ![m] = [peer |-> peer, expires |-> exp, until |-> now + MailboxTtl]]

ClearMailboxMessages(m) == list' = [list EXCEPT ![m] = EmptyList]

DeleteMailbox(m) ==
  /\ meta' = [meta EXCEPT ![m] = NONE]
  /\ list' = [list EXCEPT ![m] = EmptyList]

\* mutant: LPUSH.
Lpush(m, msg) == list' = [list EXCEPT ![m].msgs = <<msg>> \o @]

\* push_message is two commands: RPUSH, which leaves a TTL alone ...
Rpush(m, msg) == list' = [list EXCEPT ![m].msgs = Append(@, msg)]

\* ... and EXPIRE, which does nothing to a key that is gone.
Expire(m) ==
  list' = [list EXCEPT ![m].until = IF list[m].msgs = <<>> THEN @ ELSE now + MailboxTtl]
-----------------------------------------------------------------------------
(* POST /connection/init: init_connection.                                 *)

StartInit(r, t, m) ==
  /\ Arrive(r, "init", "init_save_meta")
  /\ \A q \in Request : Kind[q] = "init" => token[q] # t
  /\ Fresh(m)
  /\ token' = [token EXCEPT ![r] = t]
  /\ mailbox' = [mailbox EXCEPT ![r] = m]
  /\ expires' = [expires EXCEPT ![r] = now + MailboxTtl]
  /\ session' = [session EXCEPT ![m] = m]
  /\ UNCHANGED <<now, store, partner, reply, received>>

InitSaveMeta(r) ==
  /\ Continue(r, "init_save_meta", "init_clear")
  /\ SaveMailboxMeta(mailbox[r], NONE, expires[r])
  /\ UNCHANGED <<now, rendezvous, list, locals, received, session>>

InitClear(r) ==
  /\ Continue(r, "init_clear", "init_save_rendezvous")
  /\ ClearMailboxMessages(mailbox[r])
  /\ UNCHANGED <<now, rendezvous, meta, locals, received, session>>

InitSaveRendezvous(r) ==
  /\ Answer(r, "init_save_rendezvous", "ok")
  /\ rendezvous' = [rendezvous EXCEPT ![token[r]] =
                      [mailbox |-> mailbox[r], until |-> now + RendezvousTtl]]
  /\ UNCHANGED <<now, meta, list, locals, received, session>>
-----------------------------------------------------------------------------
(* POST /connection/join: join_connection.                                 *)

\* The invite link, and so the token, exists once init has answered.
StartJoin(r, t) ==
  /\ Arrive(r, "join", "join_get")
  /\ \E q \in Request : Kind[q] = "init" /\ token[q] = t /\ reply[q] = "ok"
  /\ token' = [token EXCEPT ![r] = t]
  /\ UNCHANGED <<now, store, mailbox, partner, expires, reply, received, session>>

\* get_and_delete_rendezvous, first command.
JoinGet(r) ==
  LET mapping == rendezvous[token[r]] IN
  /\ pc[r] = "join_get"
  /\ \/ /\ mapping = NONE
        /\ Answer(r, "join_get", "invalid_token")
        /\ UNCHANGED partner
     \/ /\ mapping # NONE
        /\ Continue(r, "join_get", "join_delete")
        /\ partner' = [partner EXCEPT ![r] = mapping.mailbox]
  /\ UNCHANGED <<now, store, token, mailbox, expires, received, session>>

JoinKeeps(r) ==                               \* mutant: the token stays
  /\ Continue(r, "join_delete", "join_get_meta")
  /\ UNCHANGED <<now, store, locals, received, session>>

\* get_and_delete_rendezvous, second command.
JoinDelete(r) ==
  /\ Continue(r, "join_delete", "join_get_meta")
  /\ rendezvous' = [rendezvous EXCEPT ![token[r]] = NONE]
  /\ UNCHANGED <<now, meta, list, locals, received, session>>

\* The responder's mailbox is generated once the initiator's has been read.
JoinGetMeta(r, m) ==
  LET initiator == meta[partner[r]] IN
  /\ pc[r] = "join_get_meta"
  /\ \/ /\ initiator = NONE
        /\ Answer(r, "join_get_meta", "mailbox_not_found")
        /\ UNCHANGED <<mailbox, expires, session>>
     \/ /\ initiator # NONE
        /\ initiator.peer # NONE
        /\ Answer(r, "join_get_meta", "already_paired")
        /\ UNCHANGED <<mailbox, expires, session>>
     \/ /\ initiator # NONE
        /\ initiator.peer = NONE
        /\ Fresh(m)
        /\ Continue(r, "join_get_meta", "join_link")
        /\ mailbox' = [mailbox EXCEPT ![r] = m]
        /\ expires' = [expires EXCEPT ![r] = initiator.expires]
        /\ session' = [session EXCEPT ![m] = partner[r]]
  /\ UNCHANGED <<now, store, token, partner, received>>

\* The initiator's metadata is written back from the copy read before.
JoinLink(r) ==
  /\ Continue(r, "join_link", "join_save_meta")
  /\ SaveMailboxMeta(partner[r], mailbox[r], expires[r])
  /\ UNCHANGED <<now, rendezvous, list, locals, received, session>>

JoinOneSide(r) ==                             \* mutant: no link back
  /\ Continue(r, "join_save_meta", "join_clear")
  /\ SaveMailboxMeta(mailbox[r], NONE, expires[r])
  /\ UNCHANGED <<now, rendezvous, list, locals, received, session>>

JoinSaveMeta(r) ==
  /\ Continue(r, "join_save_meta", "join_clear")
  /\ SaveMailboxMeta(mailbox[r], partner[r], expires[r])
  /\ UNCHANGED <<now, rendezvous, list, locals, received, session>>

JoinClear(r) ==
  /\ Continue(r, "join_clear", "push")
  /\ ClearMailboxMessages(mailbox[r])
  /\ UNCHANGED <<now, rendezvous, meta, locals, received, session>>
-----------------------------------------------------------------------------
(* POST /connection/send: send_message.  A join ends with the same two     *)
(* commands, its message being the empty join marker.                      *)

\* A responder sends once it has its mailbox; an initiator only once a join
\* marker has come (initiator_page.dart starts the handshake on that event).
MarkerSeen(m) ==
  \/ list[m].msgs # <<>>
  \/ \E q \in Request : Kind[q] = "join" /\ partner[q] = m /\ reply[q] = "ok"

MaySend(m) == Held(m) /\ (session[m] = m => MarkerSeen(m))

StartSend(r, m) ==
  /\ Arrive(r, "mail", "send_get_meta")
  /\ MaySend(m)
  /\ mailbox' = [mailbox EXCEPT ![r] = m]
  /\ UNCHANGED <<now, store, token, partner, expires, reply, received, session>>

SendGetMeta(r) ==
  LET own == meta[mailbox[r]] IN
  /\ pc[r] = "send_get_meta"
  /\ \/ /\ own = NONE
        /\ Answer(r, "send_get_meta", "mailbox_not_found")
        /\ UNCHANGED partner
     \/ /\ own # NONE
        /\ own.peer = NONE
        /\ Answer(r, "send_get_meta", "no_peer")
        /\ UNCHANGED partner
     \/ /\ own # NONE
        /\ own.peer # NONE
        /\ now >= own.expires
        /\ Answer(r, "send_get_meta", "session_expired")
        /\ UNCHANGED partner
     \/ /\ own # NONE
        /\ own.peer # NONE
        /\ now < own.expires
        /\ Continue(r, "send_get_meta", "push")
        /\ partner' = [partner EXCEPT ![r] = own.peer]
  /\ UNCHANGED <<now, store, token, mailbox, expires, received, session>>

PushOwn(r) ==                                 \* mutant: the sender's own list
  /\ Continue(r, "push", "expire")
  /\ Rpush(mailbox[r], [from |-> mailbox[r], request |-> r])
  /\ UNCHANGED <<now, rendezvous, meta, locals, received, session>>

Push(r) ==
  /\ Continue(r, "push", "expire")
  /\ Rpush(partner[r], [from |-> mailbox[r], request |-> r])
  /\ UNCHANGED <<now, rendezvous, meta, locals, received, session>>

PushExpire(r) ==
  /\ Answer(r, "expire", "ok")
  /\ Expire(partner[r])
  /\ UNCHANGED <<now, rendezvous, meta, locals, received, session>>
-----------------------------------------------------------------------------
(* POST /connection/recv: recv_messages, which removes nothing.            *)

StartRecv(r, m) ==
  /\ Arrive(r, "mail", "recv_get_meta")
  /\ Held(m)
  /\ mailbox' = [mailbox EXCEPT ![r] = m]
  /\ UNCHANGED <<now, store, token, partner, expires, reply, received, session>>

RecvGetMeta(r) ==
  /\ pc[r] = "recv_get_meta"
  /\ \/ meta[mailbox[r]] = NONE /\ Answer(r, "recv_get_meta", "mailbox_not_found")
     \/ meta[mailbox[r]] # NONE /\ Continue(r, "recv_get_meta", "recv_get_list")
  /\ UNCHANGED <<now, store, locals, received, session>>

RecvGetList(r) ==
  /\ Answer(r, "recv_get_list", "ok")
  /\ received' = [received EXCEPT ![r] = list[mailbox[r]].msgs]
  /\ UNCHANGED <<now, store, locals, session>>
-----------------------------------------------------------------------------
(* POST /connection/close: close_connection.                               *)

StartClose(r, m) ==
  /\ Arrive(r, "close", "close_get_meta")
  /\ Held(m)
  /\ mailbox' = [mailbox EXCEPT ![r] = m]
  /\ UNCHANGED <<now, store, token, partner, expires, reply, received, session>>

CloseGetMeta(r) ==
  LET own == meta[mailbox[r]] IN
  /\ pc[r] = "close_get_meta"
  /\ \/ own = NONE /\ Answer(r, "close_get_meta", "ok") /\ UNCHANGED partner
     \/ /\ own # NONE
        /\ Continue(r, "close_get_meta", "close_delete_own")
        /\ partner' = [partner EXCEPT ![r] = own.peer]
  /\ UNCHANGED <<now, store, token, mailbox, expires, received, session>>

CloseDeleteOwn(r) ==
  /\ \/ partner[r] = NONE /\ Answer(r, "close_delete_own", "ok")
     \/ partner[r] # NONE /\ Continue(r, "close_delete_own", "close_delete_peer")
  /\ DeleteMailbox(mailbox[r])
  /\ UNCHANGED <<now, rendezvous, locals, received, session>>

CloseDeletePeer(r) ==
  /\ Answer(r, "close_delete_peer", "ok")
  /\ DeleteMailbox(partner[r])
  /\ UNCHANGED <<now, rendezvous, locals, received, session>>
-----------------------------------------------------------------------------
\* A Redis error, a dropped connection or a crash ends request r early.
Abort(r) ==
  /\ InFlight(r)
  /\ pc' = [pc EXCEPT ![r] = "done"]
  /\ reply' = [reply EXCEPT ![r] = "aborted"]
  /\ UNCHANGED <<now, store, locals, received, session>>

\* Time passes and Redis drops every key whose TTL has run out.
Tick ==
  LET t1 == now + 1 IN
  /\ now < MaxTime
  /\ now' = t1
  /\ rendezvous' = [t \in Token |->
       IF rendezvous[t] # NONE /\ rendezvous[t].until <= t1 THEN NONE ELSE rendezvous[t]]
  /\ meta' = [m \in Mailbox |->
       IF meta[m] # NONE /\ meta[m].until <= t1 THEN NONE ELSE meta[m]]
  /\ list' = [m \in Mailbox |->
       IF list[m].until # NoTtl /\ list[m].until <= t1 THEN EmptyList ELSE list[m]]
  /\ UNCHANGED <<locals, pc, reply, received, session>>

InitStep(r) ==
  \/ \E t \in Token, m \in Mailbox : StartInit(r, t, m)
  \/ InitSaveMeta(r) \/ InitClear(r) \/ InitSaveRendezvous(r)

JoinStep(r) ==
  \/ \E t \in Token : StartJoin(r, t)
  \/ JoinGet(r) \/ JoinDelete(r)
  \/ \E m \in Mailbox : JoinGetMeta(r, m)
  \/ JoinLink(r) \/ JoinSaveMeta(r) \/ JoinClear(r)

SendStep(r) ==
  \/ \E m \in Mailbox : StartSend(r, m)
  \/ SendGetMeta(r) \/ Push(r) \/ PushExpire(r)

RecvStep(r) ==
  \/ \E m \in Mailbox : StartRecv(r, m)
  \/ RecvGetMeta(r) \/ RecvGetList(r)

CloseStep(r) ==
  \/ \E m \in Mailbox : StartClose(r, m)
  \/ CloseGetMeta(r) \/ CloseDeleteOwn(r) \/ CloseDeletePeer(r)

RequestStep(r) ==
  InitStep(r) \/ JoinStep(r) \/ SendStep(r) \/ RecvStep(r) \/ CloseStep(r) \/ Abort(r)

Next == Tick \/ \E r \in Request : RequestStep(r)

Spec == Init /\ [][Next]_vars
-----------------------------------------------------------------------------
(* Correctness.                                                            *)

TypeOK ==
  /\ now \in Nat
  /\ rendezvous \in [Token -> Mapping \cup {NONE}]
  /\ meta \in [Mailbox -> Metadata \cup {NONE}]
  /\ list \in [Mailbox -> MessageList]
  /\ pc \in [Request -> Command]
  /\ token \in [Request -> Token \cup {NONE}]
  /\ mailbox \in [Request -> Mailbox \cup {NONE}]
  /\ partner \in [Request -> Mailbox \cup {NONE}]
  /\ expires \in [Request -> Nat]
  /\ reply \in [Request -> Outcome]
  /\ received \in [Request -> Seq(Message)]
  /\ session \in [Mailbox -> Mailbox \cup {NONE}]

\* a and b are the two sides of one session: the initiator's mailbox and one
\* made by joining it.
Opposite(a, b) ==
  /\ session[a] = session[b]
  /\ session[a] # NONE
  /\ session[a] = a <=> session[b] # b

\* Whatever requests interleave, crash or outlive their keys, a message is
\* only ever stored in, and returned from, a mailbox on the other side of the
\* session it was sent in: no session reads another's signals, and nobody is
\* handed back its own (the peer links send_message follows).
SessionIsolation ==
  /\ \A m \in Mailbox : \A k \in DOMAIN list[m].msgs : Opposite(list[m].msgs[k].from, m)
  /\ \A r \in Request : \A k \in DOMAIN received[r] :
       Opposite(received[r][k].from, mailbox[r])

\* Once a join has been answered, its token is gone for good: a later join
\* finds nothing (get_and_delete_rendezvous; two joins that overlap between its
\* GET and its DEL may both be answered).
RedeemedTokenIsGone ==
  \A q \in Request : Kind[q] = "join" /\ reply[q] = "ok" => rendezvous[token[q]] = NONE

\* A request that closes m, or the peer of the mailbox it closes.
Closes(c, m) == Kind[c] = "close" /\ m \in {mailbox[c], partner[c]}

\* The server answered init and join with an expiry time: until then the
\* mailbox exists, whatever TTL join_connection rewrites, unless a close has
\* reached it.
HeldUntilExpiry ==
  \A q \in Request :
    /\ Kind[q] \in {"init", "join"}
    /\ reply[q] = "ok"
    /\ now < expires[q]
    /\ meta[mailbox[q]] = NONE
    => \E c \in Request : Closes(c, mailbox[q])

\* No two joins have redeemed the same token.
RedeemedOnce ==
  \A p, q \in Request :
    Kind[p] = "join" /\ Kind[q] = "join" /\ partner[p] # NONE /\ partner[p] = partner[q] => p = q

\* As long as the token is redeemed once, an answered join has linked the two
\* mailboxes to each other, with the same expiry, whatever else interleaves
\* with its commands.
JoinLinksBothSides ==
  RedeemedOnce =>
    \A q \in Request :
      LET i == meta[partner[q]]
          s == meta[mailbox[q]]
      IN Kind[q] = "join" /\ reply[q] = "ok" /\ i # NONE /\ s # NONE
           => i.peer = mailbox[q] /\ s.peer = partner[q] /\ i.expires = s.expires

\* A step of a close request, the only one that may empty a list early.
CloseDeletes(r) == pc[r] \in {"close_delete_own", "close_delete_peer"} /\ pc'[r] # pc[r]

\* As long as the token is redeemed once, stored messages are never reordered,
\* rewritten or cleared: lists grow at the end, and vanish only by expiry or
\* close, so init and join clear their lists before anyone can have written.
ListsAppendOnly ==
  [][RedeemedOnce => \A m \in Mailbox :
       \/ IsPrefix(list[m].msgs, list'[m].msgs)
       \/ list'[m] = EmptyList /\ (now' # now \/ \E r \in Request : CloseDeletes(r))]_vars
=============================================================================
