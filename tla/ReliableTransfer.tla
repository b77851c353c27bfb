-------------------------- MODULE ReliableTransfer --------------------------
(***************************************************************************)
(* What the protocol promises to whoever runs the two programs: the        *)
(* payloads handed over by the sender come out of the receiver once each   *)
(* and in order, at most Outstanding of them on the way, and the end of    *)
(* the file is seen when everything has come out.                          *)
(***************************************************************************)
EXTENDS Naturals, Sequences

CONSTANTS
  Payloads,      \* what a block of the file may send
  Outstanding    \* how many payloads may be on the way

VARIABLES sent, delivered, closed

vars == <<sent, delivered, closed>>

Init == sent = <<>> /\ delivered = <<>> /\ closed = FALSE

Submit == /\ ~closed
          /\ Len(sent) - Len(delivered) < Outstanding
          /\ \E p \in Payloads : sent' = Append(sent, p)
          /\ UNCHANGED <<delivered, closed>>

Deliver == /\ ~closed
           /\ Len(delivered) < Len(sent)
           /\ delivered' = Append(delivered, sent[Len(delivered) + 1])
           /\ UNCHANGED <<sent, closed>>

Close == /\ ~closed
         /\ Len(delivered) = Len(sent)
         /\ closed' = TRUE
         /\ UNCHANGED <<sent, delivered>>

Next == Submit \/ Deliver \/ Close

Spec == Init /\ [][Next]_vars
=============================================================================
