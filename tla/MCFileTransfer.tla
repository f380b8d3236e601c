--------------------------- MODULE MCFileTransfer ---------------------------
(* Instances of FileTransfer for TLC.                                      *)
EXTENDS FileTransfer, TLC

CONSTANTS SizeOfFirst, SizeOfSecond, SizeOfThird

SizeOf == [t \in Transfer |-> CASE t = 1 -> SizeOfFirst [] t = 2 -> SizeOfSecond
                                [] OTHER -> SizeOfThird]

\* The two peers are interchangeable.
Interchangeable == Permutations(Peer)
=============================================================================
