----------------------------- MODULE MCHandshake -----------------------------
(* Instances of Handshake for TLC: the bounds are in the cfg files.        *)
EXTENDS Handshake
=============================================================================
