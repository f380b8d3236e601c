--------------------------- MODULE MCTransferQueue --------------------------
(* Instances of TransferQueue for TLC.                                     *)
EXTENDS TransferQueue, TLC
=============================================================================
