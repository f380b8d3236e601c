---------------------------- MODULE MCRendezvous ----------------------------
(* Instances of Rendezvous for TLC.                                        *)
EXTENDS Rendezvous, TLC

CONSTANTS i1, j1, j2, s1, c1

\* The loads: i is an init, j a join, s a send or a recv, c a close.
KindOf(r) == CASE r = i1 -> "init" [] r \in {j1, j2} -> "join"
               [] r = s1 -> "mail" [] OTHER -> "close"

KindOfRequest == [r \in Request |-> KindOf(r)]

\* Mailboxes, tokens and the two joins are interchangeable.
Interchangeable == Permutations(Mailbox) \cup Permutations(Token) \cup Permutations({j1, j2})
=============================================================================
