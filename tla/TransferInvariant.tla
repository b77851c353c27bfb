-------------------------- MODULE TransferInvariant --------------------------
(***************************************************************************)
(* Why a transfer whose numbers do not wrap is safe whatever the link does *)
(* and whenever the timers expire: the inductive invariant behind the      *)
(* safety properties of Transfer.  A receiver that meets a repeated packet *)
(* gives up, so each payload is acknowledged once, and the one ACK under   *)
(* way is always that of the packet that waits.                            *)
(***************************************************************************)
EXTENDS Transfer, FiniteSets

\* The numbers of the packets, of the disconnection and of the window that follows
\* stay below M: the precondition of the safety theorems.
NoWrap == Len(Input) + W < M

Sent == Len(s_sent)

\* The sender has no more to send and all that it sent is written.
Closing == /\ s_pc \notin {"read", "wait"}
           /\ EndOfInput
           /\ Len(r_written) = Len(s_sent)

\* The packets that may be in the link: those of the payloads handed over, and the
\* disconnection once the sender is closing.
GoodPackets ==
  {p \in PacketType :
     \/ /\ p.seq < Sent
        /\ p.payload = s_sent[p.seq + 1]
     \/ /\ p.seq = Sent
        /\ p.payload = <<>>
        /\ Closing}

SentPackets == {p \in GoodPackets : ~p.tr}

\* In the socket of the receiver a packet may be damaged, but then it does not decode.
ReceivedPackets == {p \in PacketType : PktDecodes(p) => p \in GoodPackets}

\* An ACK can be under way only for a packet that the receiver has taken.
AckDue == \/ s_pc = "wait" /\ Len(r_written) = Sent
          \/ s_pc \in {"fin", "fin_block"} /\ r_pc = "done"

GoodAcks == {a \in AckType : \/ a.type = "nack" /\ a.seq < Sent
                             \/ a.type = "ack" /\ AckDue /\ a.seq = s_packet.seq + 1}

ReceivedAcks == {a \in AckType : /\ a.type = "ack" => AckDue
                                 /\ AckDecodes(a) => a \in GoodAcks}

NoAck(q) == \A i \in DOMAIN q : q[i].type # "ack"
OneAck(q) == \A i, j \in DOMAIN q : q[i].type = "ack" /\ q[j].type = "ack" => i = j

-----------------------------------------------------------------------------
PacketsInv == up \in Seq(SentPackets) /\ r_sock \in Seq(ReceivedPackets)

\* While the sender runs, one ACK at most is under way, and it is the awaited one.
AcksInv == s_pc \notin SenderEnded =>
             /\ down \in Seq(GoodAcks)
             /\ s_sock \in Seq(ReceivedAcks)
             /\ OneAck(down) /\ OneAck(s_sock)
             /\ NoAck(down) \/ NoAck(s_sock)

SenderInv ==
  /\ Sent <= s_pos
  /\ \A i \in 1 .. W : s_buf[i] = "uninit"
  /\ s_pc = "read" =>
       /\ s_seqnum = Sent /\ s_min = Sent /\ s_window = W /\ s_buf[0] # "packet"
       /\ Len(r_written) = Sent
  /\ s_pc = "wait" =>
       /\ Sent >= 1
       /\ s_seqnum = Sent /\ s_min = Sent - 1 /\ s_window = W - 1
       /\ s_buf[0] = "packet"
       /\ s_packet = [seq |-> Sent - 1, payload |-> s_sent[Sent]]
  /\ s_pc \in {"fin", "fin_block", "done"} =>
       /\ s_min = Sent /\ s_window = W /\ s_buf[0] # "packet"
       /\ s_packet = [seq |-> Sent, payload |-> <<>>]
       /\ Closing
  /\ s_pc = "done" => r_pc = "done"

ReceiverInv ==
  /\ Len(r_written) <= Sent
  /\ Sent <= Len(r_written) + 1
  /\ \A k \in 1 .. Len(r_written) : r_written[k] = s_sent[k]
  /\ r_min = Len(r_written)
  /\ r_buf = {}
  /\ r_pc # "full"
  /\ r_pc = "done" => Closing

\* With the types and the spans of the windows it is inductive: the packets and the
\* ACKs under way, the fields of the sender and the window of the receiver agree on
\* the one packet that waits.
Inductive == PacketsInv /\ AcksInv /\ SenderInv /\ ReceiverInv
-----------------------------------------------------------------------------
(* The blocks and their payloads.  A file without a terminator is sent whole,
   whatever the memory holds after the bytes read (sender.c:319): what follows
   them may be sent too, but nothing that was read is missing. *)
PlainFile == \A k \in 1 .. Len(Input) :
               \A i \in 1 .. Len(Input[k]) : Input[k][i] \notin Terminators

BeginsWith(payload, block) == /\ Len(payload) >= Len(block)
                              /\ SubSeq(payload, 1, Len(block)) = block

\* No block is skipped, and each payload handed over begins with its block.
BlocksSent == /\ s_pc \in {"read", "wait"} => s_pos = Sent
              /\ Sent <= Len(Input)
              /\ \A k \in 1 .. Sent : BeginsWith(s_sent[k], Input[k])

\* Nothing that was read is missing from the file: each payload begins with its block.
BlocksKept == \A k \in DOMAIN r_written : BeginsWith(r_written[k], Input[k])

\* What a block may become, with what the memory holds after it; the first n blocks less
\* those that are never sent (sender.c:318); how many these are.
PayloadsOf(k) == {Payload(Input[k] \o tail) : tail \in Tails}
Sendable(n) == {k \in 1 .. n : \E payload \in PayloadsOf(k) : payload # <<>>}
Rank(n) == Cardinality(Sendable(n))

\* Of any file, each block that is not skipped is handed over once, in its turn.
LinesSent == /\ s_pc \notin {"failed", "crashed"} => Sent = Rank(s_pos)
             /\ \A k \in Sendable(s_pos) : Rank(k) <= Sent => s_sent[Rank(k)] \in PayloadsOf(k)

\* ... and comes out in its turn, all of them when the sender exits with 0.
LinesWritten ==
  /\ \A k \in Sendable(s_pos) :
       Rank(k) <= Len(r_written) => r_written[Rank(k)] \in PayloadsOf(k)
  /\ s_pc = "done" => Len(r_written) = Rank(Len(Input))
-----------------------------------------------------------------------------
(* When no timer expires before the answer (Spurious = FALSE, or TimedTransfer), one
   datagram is under way at the most, and both sides agree on it: whatever the link
   does to it, in either direction, for every file. *)

\* The number of packet k, counted from 0, and min_window of the sender when the k packets
\* before it are acknowledged: it stops at M - 1, since the loop on the ACK that carries 0,
\* and on those that follow, does not turn.
Number(k) == IF k < M THEN k ELSE k - M
Stuck(k) == IF k < M THEN k ELSE M - 1

\* So packet M + W is out of the window of the sender, whose loop takes the number the
\* window starts with.
Taken(k) == IF k < M + W THEN Number(k) ELSE M - 1

Awaiting == {p \in PacketType : /\ p.seq = s_packet.seq
                                /\ p.payload = s_packet.payload}
Answers == {a \in AckType : /\ AckDecodes(a)
                            /\ a.type = "ack" => a.seq = AckSeq(s_packet)
                            /\ a.type = "nack" => s_pc = "wait" /\ a.seq = s_packet.seq}

OneDatagram ==
  /\ InFlight <= 1
  /\ up \in Seq({p \in Awaiting : ~p.tr})
  /\ r_sock \in Seq({p \in PacketType : PktDecodes(p) => p \in Awaiting})
  /\ down \in Seq(Answers)
  /\ s_sock \in Seq({a \in AckType : AckDecodes(a) => a \in Answers})

\* No ACK is under way
Unanswered == NoAck(down) /\ NoAck(s_sock)

SenderAgrees ==
  /\ s_pc \in {"read", "wait", "fin", "done", "failed"}
  /\ s_pc \in {"read", "done", "failed"} => InFlight = 0
  /\ s_pc = "read" =>
       /\ Sent <= M + W
       /\ s_seqnum \in {Number(Sent), Taken(Sent)} /\ s_min = Stuck(Sent)
       /\ Sent >= M => s_buf[0] = "packet"
  /\ s_pc = "wait" =>
       /\ Sent >= 1 /\ Sent <= M + W + 1
       /\ s_packet = [seq |-> Taken(Sent - 1), payload |-> s_sent[Sent]]
       /\ s_seqnum = SeqnumInc(s_packet.seq) /\ s_min = Stuck(Sent - 1)
       /\ s_buf[0] = "packet"
  /\ s_pc = "fin" => s_packet.payload = <<>> /\ EndOfInput
  /\ s_pc = "done" => r_pc = "done"
  /\ Sent < M + W => s_buf[W] = "uninit"

ReceiverAgrees ==
  /\ r_pc \in {"run", "done", "failed"}
  /\ r_min = Number(Len(r_written)) /\ r_buf = {}
  /\ Len(r_written) <= M + W
  /\ \A k \in 1 .. Len(r_written) : r_written[k] = s_sent[k]
  /\ s_pc \in {"read", "fin", "done"} => Len(r_written) = Sent
  /\ s_pc = "wait" => /\ r_pc # "done"
                      /\ \/ Len(r_written) = Sent - 1 /\ Unanswered
                         \/ Len(r_written) = Sent
  /\ s_pc = "failed" => Len(r_written) \in {Sent - 1, Sent}
  /\ s_pc = "read" => r_pc = "run"
  /\ s_pc = "fin" /\ r_pc = "run" => down = <<>> /\ s_sock = <<>>
  /\ r_pc = "done" => EndOfInput /\ Len(r_written) = Sent
  /\ r_pc = "failed" => /\ s_pc = "wait"
                        /\ r_sock = <<>> /\ down = <<>> /\ s_sock = <<>>

StopAndWait == OneDatagram /\ SenderAgrees /\ ReceiverAgrees

\* A step in which a timer expires only when nothing is under way
PromptSender == /\ \/ SkipBlock \/ SendBlock \/ PayloadTooLong \/ SendFin \/ RecvUndecodable
                   \/ RecvAck \/ RecvNack \/ RecvStaleNack \/ RecvFinAck \/ RecvFinOther
                   \/ Resend /\ InFlight = 0
                /\ UNCHANGED <<r_pc, receiverVars, r_sock, down>>
PromptNext == PromptSender \/ ReceiverStep \/ LinkStep
PromptSpec == Init /\ [][PromptNext]_vars

\* No more than M + W packets are ever accepted: the next one is given the number M - 1
\* again (sender.c:164), which is not the one awaited, and the sender never exits with 0.
StandsStill ==
  /\ Len(r_written) <= M + W
  /\ Rank(Len(Input)) > M + W => s_pc # "done"

\* The receiver gives up only when the sender still waits for the answer to a packet that
\* is written and no answer is under way (the ACK is lost), or on packet M + W.
GivesUpOnLostAck ==
  [][r_pc = "run" /\ r_pc' = "failed" =>
       /\ s_pc = "wait" /\ InFlight = Len(r_sock)
       /\ r_written = s_sent \/ Len(s_sent) = M + W + 1]_vars

-----------------------------------------------------------------------------
(* When besides the link harms the packets only (OneWay), every packet that is
   written has its ACK under way until the sender takes it, and nobody gives up. *)
OneWay == Directions \subseteq {"forward"}

NeverTooLong ==
  \A k \in 1 .. Len(Input), tail \in Tails : Len(Payload(Input[k] \o tail)) <= MaxPayload

\* The numbers may wrap, once: the last number the window of the sender allows is that of
\* packet M + W - 1.
WrapsOnce == Rank(Len(Input)) <= M + W

\* The one ACK is under way
Answered == /\ up = <<>> /\ r_sock = <<>>
            /\ \/ down # <<>> /\ Head(down).type = "ack"
               \/ s_sock # <<>> /\ Head(s_sock).type = "ack"

NothingLost ==
  /\ s_pc # "failed" /\ r_pc # "failed"
  /\ s_sock \in Seq(Answers)
  /\ s_pc = "wait" /\ Len(r_written) = Sent => Answered
  /\ s_pc = "fin" /\ r_pc = "done" => Answered

Forwarding == StopAndWait /\ NothingLost
=============================================================================
