-------------------------------- MODULE Link --------------------------------
(***************************************************************************)
(* src/linksim/link_sim.c as a channel: what simulate_link and             *)
(* deliver_delayed_pkt may do to a datagram of either direction.  The      *)
(* random draws are choices, and a delay that differs from one datagram to *)
(* the next (jitter) is the relaying of any datagram held, not of the      *)
(* first; so is the exchange of two that have the same date.  What is sent *)
(* to a program that has exited is lost.                                   *)
(***************************************************************************)
EXTENDS Network

CONSTANTS
  Directions,   \* the directions simulated: neither option, -r or -R
  Faults        \* what the rates given on the command line make possible

ASSUME LinkConstants == /\ Directions \subseteq {"forward", "reverse"}
                        /\ Faults \subseteq {"loss", "cut", "err", "jitter"}

LinkTypeOK ==
  /\ up \in Seq(PacketType)
  /\ r_sock \in Seq(PacketType)
  /\ down \in Seq(AckType)
  /\ s_sock \in Seq(AckType)

LinkInit == up = <<>> /\ r_sock = <<>> /\ down = <<>> /\ s_sock = <<>>

-----------------------------------------------------------------------------
May(fault, direction) == fault \in Faults /\ direction \in Directions

\* The positions of the datagrams that may leave the link next
Due(queue, direction) ==
  {i \in DOMAIN queue : i = 1 \/ May("jitter", direction)}

\* A queue without its i-th datagram
Without(queue, i) ==
  [j \in 1 .. Len(queue) - 1 |-> IF j < i THEN queue[j] ELSE queue[j + 1]]

-----------------------------------------------------------------------------
\* Datagram i of a direction leaves the link: `out` is <<>> when it is dropped
Forward(i, out) ==
  /\ up' = Without(up, i)
  /\ r_sock' = IF r_pc = "run" THEN r_sock \o out ELSE r_sock
  /\ UNCHANGED <<down, s_sock>>

Reverse(i, out) ==
  /\ down' = Without(down, i)
  /\ s_sock' = IF s_pc \in SenderEnded THEN s_sock ELSE s_sock \o out
  /\ UNCHANGED <<up, r_sock>>

RelayPacket == \E i \in Due(up, "forward") : Forward(i, <<up[i]>>)

DropPacket == /\ May("loss", "forward")
              /\ \E i \in Due(up, "forward") : Forward(i, <<>>)

CutPacket == /\ May("cut", "forward")
             /\ \E i \in Due(up, "forward") : Forward(i, <<Cut(up[i])>>)

AlterPacket == /\ May("err", "forward")
               /\ \E i \in Due(up, "forward") :
                    \E p \in CorruptPacket(up[i]) : Forward(i, <<p>>)

RelayAck == \E i \in Due(down, "reverse") : Reverse(i, <<down[i]>>)

DropAck == /\ May("loss", "reverse")
           /\ \E i \in Due(down, "reverse") : Reverse(i, <<>>)

CutAck == /\ May("cut", "reverse")
          /\ \E i \in Due(down, "reverse") :
               CutApplies(down[i]) /\ Reverse(i, <<Cut(down[i])>>)

AlterAck == /\ May("err", "reverse")
            /\ \E i \in Due(down, "reverse") :
                 \E a \in CorruptHeader(down[i]) : Reverse(i, <<a>>)

LinkNext == \/ RelayPacket \/ DropPacket \/ CutPacket \/ AlterPacket
            \/ RelayAck \/ DropAck \/ CutAck \/ AlterAck
=============================================================================
