--------------------------- MODULE TransferContract ---------------------------
(***************************************************************************)
(* What the file transfer promises, whatever its messages do: a transfer   *)
(* is offered once, to one peer; the peer may accept it; a peer receives   *)
(* one transfer at a time; what is delivered is exactly what was offered,  *)
(* and only after it was accepted; what is over never comes back.          *)
(***************************************************************************)
CONSTANTS Peer, Transfer, NONE,
          Content      (* transfer -> the content that was offered          *)

VARIABLES
  phase,   (* transfer -> how far it has come              *)
  to,      (* transfer -> the peer it is offered to        *)
  got      (* transfer -> the content delivered            *)

vars == <<phase, to, got>>

Phase == {"new", "offered", "accepted", "delivered", "over"}

Init ==
  /\ phase = [t \in Transfer |-> "new"]
  /\ to = [t \in Transfer |-> NONE]
  /\ got = [t \in Transfer |-> NONE]

Offer(t, p) ==
  /\ phase[t] = "new"
  /\ phase' = [phase EXCEPT ![t] = "offered"]
  /\ to' = [to EXCEPT ![t] = p]
  /\ UNCHANGED got

\* An offer that could not even be sent.
FailToOffer(t, p) ==
  /\ phase[t] = "new"
  /\ phase' = [phase EXCEPT ![t] = "over"]
  /\ to' = [to EXCEPT ![t] = p]
  /\ UNCHANGED got

Accept(t) ==
  /\ phase[t] = "offered"
  /\ \A u \in Transfer : phase[u] = "accepted" => to[u] # to[t]
  /\ phase' = [phase EXCEPT ![t] = "accepted"]
  /\ UNCHANGED <<to, got>>

Deliver(t) ==
  /\ phase[t] = "accepted"
  /\ phase' = [phase EXCEPT ![t] = "delivered"]
  /\ got' = [got EXCEPT ![t] = Content[t]]
  /\ UNCHANGED to

\* A rejection, cancellation, collision, timeout or error; a lost connection
\* may end several transfers at once.
GiveUp(S) ==
  /\ S # {}
  /\ \A t \in S : phase[t] \in {"offered", "accepted"}
  /\ phase' = [t \in Transfer |-> IF t \in S THEN "over" ELSE phase[t]]
  /\ UNCHANGED <<to, got>>

Next ==
  \/ \E t \in Transfer, p \in Peer : Offer(t, p) \/ FailToOffer(t, p)
  \/ \E t \in Transfer : Accept(t) \/ Deliver(t)
  \/ \E S \in SUBSET Transfer : GiveUp(S)

Spec == Init /\ [][Next]_vars
=============================================================================
