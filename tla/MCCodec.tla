------------------------------ MODULE MCCodec ------------------------------
(***************************************************************************)
(* Inputs for the runs of Codec.                                           *)
(***************************************************************************)
EXTENDS Codec

\* A payload of one byte and one of two
SomePayloads == {<<1>>, <<255, 2>>}
=============================================================================
