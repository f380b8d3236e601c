---------------------------- MODULE MCRemoteInput ---------------------------
(* Instances of RemoteInput for TLC.                                       *)
EXTENDS RemoteInput, TLC

\* Keys that are on no key of the host are interchangeable.
Interchangeable == Permutations(Unmapped)
=============================================================================
