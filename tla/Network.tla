------------------------------ MODULE Network -------------------------------
(***************************************************************************)
(* What the sender, the receiver and the link simulator share: the queues  *)
(* the datagrams travel through and whether each program still runs.       *)
(*                                                                         *)
(*   sender --- up ---> link_sim --- r_sock ---> receiver                  *)
(*          <-- s_sock ---        <--- down ----                           *)
(***************************************************************************)
EXTENDS Datagram

VARIABLES
  s_pc,     \* where the sender is in its main loop
  r_pc,     \* whether the receiver is in its main loop
  up,       \* datagrams of the sender not yet relayed by the link
  r_sock,   \* datagrams in the socket of the receiver
  down,     \* datagrams of the receiver not yet relayed by the link
  s_sock    \* datagrams in the socket of the sender

SenderPlaces == {"read", "wait", "fin", "fin_block", "done", "failed", "crashed"}
SenderEnded == {"done", "failed", "crashed"}
ReceiverPlaces == {"run", "done", "full", "failed"}
=============================================================================
