---------------------------- MODULE MCMailboxPush ----------------------------
(* Instances of MailboxPush for TLC: signal x may be retried once.         *)
EXTENDS MailboxPush

CONSTANTS x, y

RetriesOf == [s \in Signal |-> IF s = x THEN 2 ELSE 1]
=============================================================================
