--------------------------- MODULE MCTimedTransfer ---------------------------
(***************************************************************************)
(* A file for the run of TimedTransfer, one block longer than the numbers  *)
(* and the window of the sender allow.                                     *)
(***************************************************************************)
EXTENDS TimedTransfer, TransferInvariant

Blocks == [k \in 1 .. M + W + 1 |-> <<100 + k>>]
Zeros == {<<>>}
=============================================================================
