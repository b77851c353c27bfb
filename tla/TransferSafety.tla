--------------------------- MODULE TransferSafety ---------------------------
(***************************************************************************)
(* A transfer, for every file, every window and every behaviour of the     *)
(* link: its types and windows, for all sizes of the sequence numbers; its *)
(* safety when the numbers do not wrap, whenever the timers expire; its    *)
(* safety for a file of any length when no timer expires before the        *)
(* answer; and its success when the link harms the packets only.           *)
(***************************************************************************)
EXTENDS MCTransfer, QueueProofs, FiniteSetTheorems

-----------------------------------------------------------------------------
\* Types and windows.

\* The upper bound of each window stays W numbers after its lower bound: what makes
\* the slot of a packet that passed in_window one of 0..W.
Spans == /\ s_max = DecaleBy(s_min, W)
         /\ r_max = DecaleBy(r_min, W)

TypeInv == TypeOK /\ Spans

\* A block of the file, with what memory holds after it, gives a payload of bytes.
LEMMA InputBlock ==
  ASSUME NEW k \in 1 .. Len(Input), NEW tail \in Tails
  PROVE  Payload(Input[k] \o tail) \in Seq(Byte)
<1>1. Input[k] \in Seq(Byte) \ {<<>>} /\ tail \in Seq(Byte)
  BY SenderConstants, ElementOfSeq
<1>2. Input[k] \o tail \in Seq(Byte)
  BY <1>1, ConcatProperties
<1> QED
  BY <1>2, PayloadType

\* pkt_encode gives a packet.
LEMMA PacketTyped ==
  ASSUME NEW seq \in SeqNum, NEW payload \in Seq(Byte)
  PROVE  Packet(seq, payload) \in PacketType
  BY DEF Packet, PacketType

\* ack_encode gives an ACK: the window is cut to its field.
LEMMA AckTyped ==
  ASSUME NEW type \in {"ack", "nack"}, NEW seq \in SeqNum, NEW window \in SeqNum
  PROVE  Ack(type, seq, window) \in AckType
  BY WindowField DEF Ack, AckType

\* The faults of the link make packets of packets and ACKs of ACKs.
LEMMA FaultsTyped ==
  /\ \A p \in PacketType : Cut(p) \in PacketType /\ CorruptPacket(p) \subseteq PacketType
  /\ \A a \in AckType : Cut(a) \in AckType /\ CorruptHeader(a) \subseteq AckType
<1>1. ASSUME NEW p \in PacketType
      PROVE  Cut(p) \in PacketType /\ CorruptPacket(p) \subseteq PacketType
  <2>1. Cut(p) \in PacketType
    BY <1>1 DEF Cut, PacketType
  <2>2. M - 1 - p.seq \in SeqNum
    BY <1>1, WindowSizes DEF PacketType, SeqNum
  <2>3. CorruptHeader(p) \subseteq PacketType
    BY <1>1, <2>2 DEF CorruptHeader, PacketType
  <2>4. [p EXCEPT !.crc2 = FALSE] \in PacketType
    BY <1>1 DEF PacketType
  <2>5. ASSUME NEW k \in DOMAIN p.payload
        PROVE  [p EXCEPT !.crc2 = FALSE, !.payload[k] = 255 - p.payload[k]] \in PacketType
    <3>1. p.payload \in Seq(Byte)
      BY <1>1 DEF PacketType
    <3>2. k \in 1 .. Len(p.payload) /\ p.payload[k] \in Byte
      BY <3>1, LenProperties, ElementOfSeq
    <3>3. \A b \in Byte : 255 - b \in Byte
      BY DEF Byte
    <3>4. [p.payload EXCEPT ![k] = 255 - p.payload[k]] \in Seq(Byte)
      BY <3>1, <3>2, <3>3, ExceptSeq
    <3> QED
      BY <1>1, <3>4 DEF PacketType
  <2> QED
    BY <2>1, <2>3, <2>4, <2>5 DEF CorruptPacket
<1>2. ASSUME NEW a \in AckType
      PROVE  Cut(a) \in AckType /\ CorruptHeader(a) \subseteq AckType
  <2>1. Cut(a) \in AckType
    BY <1>2 DEF Cut, AckType
  <2>2. M - 1 - a.seq \in SeqNum
    BY <1>2, WindowSizes DEF AckType, SeqNum
  <2>3. CorruptHeader(a) \subseteq AckType
    BY <1>2, <2>2 DEF CorruptHeader, AckType
  <2> QED
    BY <2>1, <2>3
<1> QED
  BY <1>1, <1>2

-----------------------------------------------------------------------------
\* The state after the set-up of the programs is in its types.
LEMMA InitTyped == Init => TypeInv
<1> SUFFICES ASSUME Init PROVE TypeInv
  OBVIOUS
<1> USE WindowSizes
<1>1. W \in SeqNum /\ 0 \in SeqNum /\ DecaleBy(0, W) = W
  BY DEF SeqNum, DecaleBy
<1>2. Len(Input) \in Nat
  BY SenderConstants, LenProperties
<1>3. SenderTypeOK
  BY <1>1, <1>2 DEF Init, SenderInit, SenderTypeOK, SenderPlaces
<1>4. ReceiverTypeOK
  BY <1>1 DEF Init, ReceiverInit, ReceiverTypeOK, ReceiverPlaces
<1>5. LinkTypeOK
  BY DEF Init, LinkInit, LinkTypeOK
<1> QED
  BY <1>1, <1>3, <1>4, <1>5 DEF Init, SenderInit, ReceiverInit, TypeInv, TypeOK, Spans

\* Every step of the sender.
LEMMA SenderTyped == TypeInv /\ SenderStep => TypeInv'
<1> SUFFICES ASSUME TypeInv, SenderStep PROVE TypeInv'
  OBVIOUS
<1>0. /\ SenderTypeOK /\ ReceiverTypeOK /\ LinkTypeOK /\ Spans
      /\ UNCHANGED <<r_pc, receiverVars, r_sock, down>>
      /\ ReceiverTypeOK' /\ r_max' = DecaleBy(r_min', W)
      /\ r_sock' \in Seq(PacketType) /\ down' \in Seq(AckType)
  BY DEF TypeInv, TypeOK, SenderStep, ReceiverTypeOK, LinkTypeOK, receiverVars, Spans
<1> SUFFICES /\ SenderTypeOK' /\ s_max' = DecaleBy(s_min', W)
             /\ up' \in Seq(PacketType) /\ s_sock' \in Seq(AckType)
  BY <1>0 DEF TypeInv, TypeOK, LinkTypeOK, Spans
<1>1. /\ s_seqnum \in SeqNum /\ s_min \in SeqNum /\ s_max \in SeqNum
      /\ s_window \in SeqNum /\ s_max = DecaleBy(s_min, W)
      /\ s_packet.seq \in SeqNum /\ s_packet.payload \in Seq(Byte)
      /\ up \in Seq(PacketType) /\ s_sock \in Seq(AckType)
      /\ Len(Input) \in Nat /\ s_pos \in 0 .. Len(Input)
  BY <1>0, SenderConstants, LenProperties DEF SenderTypeOK, Spans, LinkTypeOK
<1>2. SkipToWindow(s_seqnum, s_min, s_max) \in SeqNum
  BY <1>1, SkipIsInWindow
<1>3. 1 \in SeqNum /\ <<>> \in Seq(Byte)
  BY WindowSizes DEF SeqNum
<1>4. s_sock # <<>> => Head(s_sock) \in AckType /\ Tail(s_sock) \in Seq(AckType)
  BY <1>1, TailStays
<1>5. CASE SkipBlock
  <2>1. s_pos' \in 0 .. Len(Input)
    BY <1>1, <1>5 DEF SkipBlock, EndOfInput
  <2> QED
    BY <1>0, <1>1, <1>2, <1>5, <2>1 DEF SkipBlock, SenderTypeOK
<1>6. CASE SendBlock
  <2> DEFINE seq == SkipToWindow(s_seqnum, s_min, s_max)
  <2>0. PICK tail \in Tails :
          LET payload == Payload(Input[s_pos + 1] \o tail)
          IN /\ payload # <<>>
             /\ s_packet' = [seq |-> seq, payload |-> payload]
             /\ up' = Append(up, Packet(seq, payload))
             /\ s_sent' = Append(s_sent, payload)
    BY <1>6 DEF SendBlock
  <2> DEFINE payload == Payload(Input[s_pos + 1] \o tail)
  <2>1. s_pos' \in 0 .. Len(Input) /\ s_pos + 1 \in 1 .. Len(Input)
    BY <1>1, <1>6 DEF SendBlock, EndOfInput
  <2>2. payload \in Seq(Byte) \ {<<>>}
    BY <2>0, <2>1, InputBlock
  <2>3. SeqnumInc(seq) \in SeqNum /\ U8Sub(s_window, 1) \in SeqNum
    BY <1>1, <1>2, <1>3, U8Type
  <2>4. up' \in Seq(PacketType)
    BY <1>1, <1>2, <2>0, <2>2, PacketTyped, AppendStays
  <2>5. s_sent' \in Seq(Seq(Byte) \ {<<>>})
    BY <1>0, <2>0, <2>2, AppendStays DEF SenderTypeOK
  <2>6. s_buf' \in [0 .. W -> {"uninit", "null", "packet"}]
    BY <1>0, <1>6 DEF SendBlock, SenderTypeOK
  <2>7. s_packet' \in [seq : SeqNum, payload : Seq(Byte)]
    BY <1>2, <2>0, <2>2
  <2>8. s_seqnum' \in SeqNum /\ s_window' \in SeqNum /\ s_pc' \in SenderPlaces
    BY <1>6, <2>3 DEF SendBlock, SenderPlaces
  <2> QED
    BY <1>1, <1>6, <2>1, <2>4, <2>5, <2>6, <2>7, <2>8 DEF SendBlock, SenderTypeOK
<1>7. CASE SendFin
  <2>1. up' \in Seq(PacketType)
    BY <1>1, <1>2, <1>3, <1>7, PacketTyped, AppendStays DEF SendFin
  <2> QED
    BY <1>0, <1>1, <1>2, <1>3, <1>7, <2>1 DEF SendFin, SenderTypeOK, SenderPlaces
<1>8. CASE Resend
  <2>1. up' \in Seq(PacketType)
    BY <1>1, <1>8, PacketTyped, AppendStays DEF Resend
  <2> QED
    BY <1>0, <1>1, <1>8, <2>1 DEF Resend, SenderTypeOK, senderVars
<1>9. CASE RecvUndecodable
  BY <1>0, <1>1, <1>9 DEF RecvUndecodable, SenderTypeOK, SenderPlaces, senderVars
<1>10. CASE RecvAck
  <2> DEFINE ack == Head(s_sock).seq
             n == IF ack > s_min THEN ack - s_min ELSE 0
  <2>1. ack \in SeqNum /\ Tail(s_sock) \in Seq(AckType)
    BY <1>4, <1>10 DEF RecvAck, Received, AckType
  <2>2. n \in SeqNum
    BY <1>1, <2>1, WindowSizes DEF SeqNum
  <2>3. /\ s_min' = DecaleBy(s_min, n)
        /\ s_max' = DecaleBy(s_max, n)
        /\ s_window' = U8Add(s_window, n)
    BY <1>10 DEF RecvAck
  <2>4. s_min' \in SeqNum /\ s_max' \in SeqNum /\ s_window' \in SeqNum
    BY <1>1, <2>2, <2>3, U8Type
  <2>5. s_max' = DecaleBy(s_min', W)
    BY <1>1, <2>2, <2>3, DecaleByKeepsSpan
  <2>6. s_buf' \in [0 .. W -> {"uninit", "null", "packet"}]
    BY <1>0, <1>10 DEF RecvAck, SenderTypeOK
  <2>7. s_packet' \in [seq : SeqNum, payload : Seq(Byte)]
    BY <1>0, <1>3, <1>10 DEF RecvAck, SenderTypeOK
  <2>8. s_pc' \in SenderPlaces
    BY <1>10 DEF RecvAck, SenderPlaces
  <2>9. s_sock' \in Seq(AckType)
    BY <1>10, <2>1 DEF RecvAck
  <2> QED
    BY <1>0, <1>1, <1>10, <2>4, <2>5, <2>6, <2>7, <2>8, <2>9
    DEF RecvAck, SenderTypeOK
<1>11. CASE RecvNack
  <2>1. up' \in Seq(PacketType)
    BY <1>1, <1>11, PacketTyped, AppendStays DEF RecvNack
  <2> QED
    BY <1>0, <1>1, <1>4, <1>11, <2>1 DEF RecvNack, Received, SenderTypeOK, senderVars
<1>12. CASE RecvStaleNack
  BY <1>0, <1>1, <1>12 DEF RecvStaleNack, SenderTypeOK, SenderPlaces, senderVars
<1>13. CASE RecvFinAck
  BY <1>0, <1>1, <1>13 DEF RecvFinAck, SenderTypeOK, SenderPlaces, senderVars
<1>14. CASE RecvFinOther
  BY <1>0, <1>1, <1>4, <1>14
  DEF RecvFinOther, Received, SenderTypeOK, SenderPlaces, senderVars
<1>15. CASE PayloadTooLong
  <2>1. s_pos' \in 0 .. Len(Input)
    BY <1>1, <1>15 DEF PayloadTooLong, EndOfInput
  <2> QED
    BY <1>0, <1>1, <1>2, <1>15, <2>1 DEF PayloadTooLong, SenderTypeOK, SenderPlaces
<1> QED
  BY <1>5, <1>6, <1>7, <1>8, <1>9, <1>10, <1>11, <1>12, <1>13, <1>14, <1>15
  DEF SenderStep, SenderNext

\* Every step of the receiver.
LEMMA ReceiverTyped == TypeInv /\ ReceiverStep => TypeInv'
<1> SUFFICES ASSUME TypeInv, ReceiverStep PROVE TypeInv'
  OBVIOUS
<1>0. /\ SenderTypeOK /\ ReceiverTypeOK /\ LinkTypeOK /\ Spans
      /\ UNCHANGED <<s_pc, senderVars, up, s_sock>>
      /\ SenderTypeOK' /\ s_max' = DecaleBy(s_min', W)
      /\ up' \in Seq(PacketType) /\ s_sock' \in Seq(AckType)
  BY DEF TypeInv, TypeOK, ReceiverStep, SenderTypeOK, LinkTypeOK, senderVars, Spans
<1> SUFFICES /\ ReceiverTypeOK' /\ r_max' = DecaleBy(r_min', W)
             /\ r_sock' \in Seq(PacketType) /\ down' \in Seq(AckType)
  BY <1>0 DEF TypeInv, TypeOK, LinkTypeOK, Spans
<1>1. /\ r_min \in SeqNum /\ r_max \in SeqNum /\ r_window \in SeqNum
      /\ r_max = DecaleBy(r_min, W)
      /\ r_err \in 0 .. W /\ r_buf \in SUBSET (0 .. W)
      /\ r_written \in Seq(Seq(Byte))
      /\ r_sock \in Seq(PacketType) /\ down \in Seq(AckType)
  BY <1>0 DEF ReceiverTypeOK, Spans, LinkTypeOK
<1>2. 0 .. W \subseteq SeqNum /\ 1 \in SeqNum
  BY WindowSizes DEF SeqNum
<1>3. ReceiverNext => /\ Datagram \in PacketType /\ Datagram.seq \in SeqNum
                      /\ Datagram.payload \in Seq(Byte)
                      /\ AckSeq(Datagram) \in SeqNum
                      /\ Tail(r_sock) \in Seq(PacketType)
  <2> SUFFICES ASSUME ReceiverNext
               PROVE  /\ Datagram \in PacketType /\ Datagram.seq \in SeqNum
                      /\ Datagram.payload \in Seq(Byte)
                      /\ AckSeq(Datagram) \in SeqNum
                      /\ Tail(r_sock) \in Seq(PacketType)
    OBVIOUS
  <2>1. r_sock # <<>>
    BY DEF ReceiverNext, RecvIgnored, RecvFin, RecvOutOfWindow, RecvTruncated,
           RecvData, Decoded, Arrives
  <2>2. Datagram \in PacketType /\ Tail(r_sock) \in Seq(PacketType)
    BY <1>1, <2>1, TailStays DEF Datagram
  <2>3. Datagram.seq \in SeqNum /\ Datagram.payload \in Seq(Byte)
    BY <2>2 DEF PacketType
  <2> QED
    BY <2>2, <2>3, <1>2, U8Type DEF AckSeq
<1>4. ReceiverNext
  BY DEF ReceiverStep
<1>5. CASE RecvIgnored
  BY <1>0, <1>1, <1>3, <1>4, <1>5 DEF RecvIgnored, ReceiverTypeOK, receiverVars
<1>6. CASE RecvFin
  <2>1. r_window' \in SeqNum
    BY <1>1, <1>2, <1>6, U8Type DEF RecvFin
  <2>2. down' \in Seq(AckType)
    BY <1>1, <1>3, <1>4, <1>6, <2>1, AckTyped, AppendStays DEF RecvFin
  <2> QED
    BY <1>0, <1>1, <1>6, <2>1, <2>2 DEF RecvFin, ReceiverTypeOK, ReceiverPlaces
<1>7. CASE RecvOutOfWindow
  BY <1>0, <1>1, <1>7 DEF RecvOutOfWindow, ReceiverTypeOK, ReceiverPlaces, receiverVars
<1>8. CASE RecvTruncated
  <2>1. down' \in Seq(AckType)
    BY <1>1, <1>3, <1>4, <1>8, AckTyped, AppendStays DEF RecvTruncated
  <2> QED
    BY <1>0, <1>1, <1>3, <1>4, <1>8, <2>1
    DEF RecvTruncated, ReceiverTypeOK, receiverVars
<1>9. CASE RecvData /\ BufferPlein
  <2>1. r_pc' = "full" /\ r_sock' = <<>> /\ UNCHANGED <<receiverVars, down>>
    BY <1>9 DEF RecvData
  <2> QED
    BY <1>0, <1>1, <2>1 DEF ReceiverTypeOK, ReceiverPlaces, receiverVars
<1>10. CASE RecvData /\ ~BufferPlein
  <2> DEFINE slots == r_buf \cup {SlotIndex(Datagram.seq, r_min)}
             n == Written(slots)
  <2>1. /\ InWindow(Datagram.seq, r_min, r_max)
        /\ r_buf' = slots \ (0 .. n - 1)
        /\ r_written' = r_written \o [k \in 1 .. n |-> Datagram.payload]
        /\ r_min' = DecaleBy(r_min, n)
        /\ r_max' = DecaleBy(r_max, n)
        /\ r_err' = n
        /\ r_window' = U8Sub(U8Sub(r_window, 1), n)
        /\ down' = Append(down, Ack("ack", AckSeq(Datagram), r_window'))
        /\ r_sock' = Tail(r_sock)
        /\ r_pc' = "run"
    BY <1>10 DEF RecvData
  <2>2. SlotIndex(Datagram.seq, r_min) \in 0 .. W
    BY <1>1, <1>3, <1>4, <2>1, SlotOfWindow
  <2>3. slots \in SUBSET (0 .. W)
    BY <1>1, <2>2
  <2>4. n \in 0 .. W /\ n \in SeqNum
    BY <1>2, <2>3, WrittenIsFirstEmpty
  <2>5. r_min' \in SeqNum /\ r_max' \in SeqNum /\ r_window' \in SeqNum
    BY <1>1, <1>2, <2>1, <2>4, U8Type
  <2>6. r_max' = DecaleBy(r_min', W)
    BY <1>1, <2>1, <2>4, DecaleByKeepsSpan
  <2>7. r_written' \in Seq(Seq(Byte))
    <3>1. [k \in 1 .. n |-> Datagram.payload] \in Seq(Seq(Byte))
      <4>1. n \in Nat
        BY <2>4
      <4> QED
        BY <1>3, <1>4, <4>1, ConstantSeq
    <3> QED
      BY <1>1, <2>1, <3>1, ConcatProperties
  <2>8. down' \in Seq(AckType)
    BY <1>1, <1>3, <1>4, <2>1, <2>5, AckTyped, AppendStays
  <2>9. r_buf' \subseteq 0 .. W
    BY <2>1, <2>3
  <2>10. r_sock' \in Seq(PacketType) /\ r_pc' \in ReceiverPlaces /\ r_err' \in 0 .. W
    BY <1>3, <1>4, <2>1, <2>4 DEF ReceiverPlaces
  <2> QED
    BY <2>5, <2>6, <2>7, <2>8, <2>9, <2>10 DEF ReceiverTypeOK
<1> QED
  BY <1>4, <1>5, <1>6, <1>7, <1>8, <1>9, <1>10 DEF ReceiverNext

\* What leaves the link, in either direction.
LEMMA ForwardTyped ==
  ASSUME up \in Seq(PacketType), r_sock \in Seq(PacketType),
         NEW i \in DOMAIN up, NEW p \in PacketType,
         Forward(i, <<p>>) \/ Forward(i, <<>>)
  PROVE  up' \in Seq(PacketType) /\ r_sock' \in Seq(PacketType)
<1>1. r_sock \o <<p>> \in Seq(PacketType) /\ r_sock \o <<>> = r_sock
  BY AppendStays, ConcatEmptySeq
<1> QED
  BY <1>1, WithoutStays DEF Forward

\* What the link does to a datagram of the receiver leaves ACKs in the queues.
LEMMA ReverseTyped ==
  ASSUME down \in Seq(AckType), s_sock \in Seq(AckType),
         NEW i \in DOMAIN down, NEW a \in AckType,
         Reverse(i, <<a>>) \/ Reverse(i, <<>>)
  PROVE  down' \in Seq(AckType) /\ s_sock' \in Seq(AckType)
<1>1. s_sock \o <<a>> \in Seq(AckType) /\ s_sock \o <<>> = s_sock
  BY AppendStays, ConcatEmptySeq
<1> QED
  BY <1>1, WithoutStays DEF Reverse

\* Every step of the link.
LEMMA LinkTyped == TypeInv /\ LinkStep => TypeInv'
<1> SUFFICES ASSUME TypeInv, LinkStep PROVE TypeInv'
  OBVIOUS
<1>0. /\ SenderTypeOK /\ ReceiverTypeOK /\ LinkTypeOK /\ Spans
      /\ UNCHANGED <<s_pc, senderVars, r_pc, receiverVars>>
      /\ SenderTypeOK' /\ ReceiverTypeOK' /\ Spans'
      /\ up \in Seq(PacketType) /\ r_sock \in Seq(PacketType)
      /\ down \in Seq(AckType) /\ s_sock \in Seq(AckType)
  BY DEF TypeInv, TypeOK, LinkStep, SenderTypeOK, ReceiverTypeOK, LinkTypeOK,
         senderVars, receiverVars, Spans
<1> SUFFICES /\ up' \in Seq(PacketType) /\ r_sock' \in Seq(PacketType)
             /\ down' \in Seq(AckType) /\ s_sock' \in Seq(AckType)
  BY <1>0 DEF TypeInv, TypeOK, LinkTypeOK
<1>1. ASSUME NEW i \in Due(up, "forward"), NEW p \in PacketType,
             Forward(i, <<p>>) \/ Forward(i, <<>>)
      PROVE  /\ up' \in Seq(PacketType) /\ r_sock' \in Seq(PacketType)
             /\ down' \in Seq(AckType) /\ s_sock' \in Seq(AckType)
  BY <1>0, <1>1, ForwardTyped DEF Due, Forward
<1>2. ASSUME NEW i \in Due(down, "reverse"), NEW a \in AckType,
             Reverse(i, <<a>>) \/ Reverse(i, <<>>)
      PROVE  /\ up' \in Seq(PacketType) /\ r_sock' \in Seq(PacketType)
             /\ down' \in Seq(AckType) /\ s_sock' \in Seq(AckType)
  BY <1>0, <1>2, ReverseTyped DEF Due, Reverse
<1>3. \A i \in Due(up, "forward") : up[i] \in PacketType
  BY <1>0, LenProperties, ElementOfSeq DEF Due
<1>4. \A i \in Due(down, "reverse") : down[i] \in AckType
  BY <1>0, LenProperties, ElementOfSeq DEF Due
<1>5. CASE RelayPacket
  BY <1>1, <1>3, <1>5 DEF RelayPacket
<1>6. CASE DropPacket
  BY <1>1, <1>3, <1>6 DEF DropPacket
<1>7. CASE CutPacket
  BY <1>1, <1>3, <1>7, FaultsTyped DEF CutPacket
<1>8. CASE AlterPacket
  BY <1>1, <1>3, <1>8, FaultsTyped DEF AlterPacket
<1>9. CASE RelayAck
  BY <1>2, <1>4, <1>9 DEF RelayAck
<1>10. CASE DropAck
  BY <1>2, <1>4, <1>10 DEF DropAck
<1>11. CASE CutAck
  BY <1>2, <1>4, <1>11, FaultsTyped DEF CutAck
<1>12. CASE AlterAck
  BY <1>2, <1>4, <1>12, FaultsTyped DEF AlterAck
<1> QED
  BY <1>5, <1>6, <1>7, <1>8, <1>9, <1>10, <1>11, <1>12 DEF LinkStep, LinkNext

-----------------------------------------------------------------------------
\* Types, and windows of W + 1 numbers, along every transfer.
THEOREM TypeInvariant == Spec => []TypeInv
<1>1. TypeInv /\ UNCHANGED vars => TypeInv'
  BY DEF TypeInv, TypeOK, Spans, SenderTypeOK, ReceiverTypeOK, LinkTypeOK, vars,
         senderVars, receiverVars
<1>2. TypeInv /\ [Next]_vars => TypeInv'
  BY <1>1, SenderTyped, ReceiverTyped, LinkTyped DEF Next
<1> QED
  BY <1>2, InitTyped, PTL DEF Spec

\* Whatever the file, the faults and the timers: every number, window and datagram
\* keeps its type, and no packet is ever stored past the word after a buffer.
THEOREM TypeCorrect == Spec => []TypeOK
<1>1. TypeInv => TypeOK
  BY DEF TypeInv
<1> QED
  BY <1>1, TypeInvariant, PTL

-----------------------------------------------------------------------------
\* The invariant from which the safety of a transfer follows.
IInv == TypeInv /\ Inductive

-----------------------------------------------------------------------------
\* Queues with no ACK and with one.

\* A sequence whose members are all in T is a sequence over T.
LEMMA SeqWithin ==
  ASSUME NEW S, NEW T, NEW q \in Seq(S), \A i \in DOMAIN q : q[i] \in T
  PROVE  q \in Seq(T)
<1>1. Len(q) \in Nat /\ DOMAIN q = 1 .. Len(q) /\ q \in [1 .. Len(q) -> S]
  BY LenProperties
<1>2. q \in [1 .. Len(q) -> T]
  BY <1>1
<1> QED
  BY <1>1, <1>2

\* A datagram appended to a queue: an ACK when there was none, or a NACK.
LEMMA AppendAck ==
  ASSUME NEW q \in Seq(AckType), NEW a \in AckType
  PROVE  /\ q \o <<a>> = Append(q, a)
         /\ NoAck(q) => OneAck(Append(q, a))
         /\ a.type # "ack" => /\ NoAck(q) => NoAck(Append(q, a))
                              /\ OneAck(q) => OneAck(Append(q, a))
<1> DEFINE r == Append(q, a)
<1>1. q \o <<a>> = r
  BY AppendIsConcat
<1>2. /\ r \in Seq(AckType) /\ Len(r) = Len(q) + 1
      /\ \A i \in 1 .. Len(q) : r[i] = q[i]
      /\ r[Len(q) + 1] = a
  BY AppendProperties
<1> HIDE DEF r
<1>3. Len(q) \in Nat /\ DOMAIN q = 1 .. Len(q) /\ DOMAIN r = 1 .. Len(q) + 1
  BY <1>2, LenProperties
<1>4. \A i \in DOMAIN r : \/ i \in DOMAIN q /\ r[i] = q[i]
                          \/ i = Len(q) + 1 /\ r[i] = a
  BY <1>2, <1>3
<1>5. NoAck(q) => OneAck(r)
  BY <1>4 DEF NoAck, OneAck
<1>6. ASSUME a.type # "ack" PROVE NoAck(q) => NoAck(r)
  BY <1>4, <1>6 DEF NoAck
<1>7. ASSUME a.type # "ack" PROVE OneAck(q) => OneAck(r)
  BY <1>4, <1>7 DEF OneAck
<1> QED
  BY <1>1, <1>5, <1>6, <1>7 DEF r

\* A datagram taken from a queue takes its ACK with it.
LEMMA TailAck ==
  ASSUME NEW q \in Seq(AckType), q # <<>>
  PROVE  /\ NoAck(q) => NoAck(Tail(q))
         /\ OneAck(q) => OneAck(Tail(q))
         /\ OneAck(q) /\ Head(q).type = "ack" => NoAck(Tail(q))
<1>1. /\ Len(q) \in Nat /\ DOMAIN q = 1 .. Len(q) /\ Len(q) # 0
      /\ Tail(q) \in Seq(AckType) /\ Len(Tail(q)) = Len(q) - 1
      /\ \A i \in 1 .. Len(Tail(q)) : Tail(q)[i] = q[i + 1]
      /\ Head(q) = q[1]
  BY LenProperties, HeadTailProperties, EmptySeq
<1>2. DOMAIN Tail(q) = 1 .. Len(q) - 1
  BY <1>1, LenProperties
<1>3. \A i \in DOMAIN Tail(q) : /\ i + 1 \in DOMAIN q /\ i + 1 # 1
                                /\ Tail(q)[i] = q[i + 1]
  BY <1>1, <1>2
<1>4. 1 \in DOMAIN q
  BY <1>1
<1>5. \A i, j \in DOMAIN Tail(q) : i + 1 = j + 1 => i = j
  BY <1>2
<1> QED
  BY <1>1, <1>3, <1>4, <1>5 DEF NoAck, OneAck

\* The same of a datagram taken from the middle of a queue.
LEMMA WithoutAck ==
  ASSUME NEW q \in Seq(AckType), NEW i \in DOMAIN q
  PROVE  /\ NoAck(q) => NoAck(Without(q, i))
         /\ OneAck(q) => OneAck(Without(q, i))
         /\ OneAck(q) /\ q[i].type = "ack" => NoAck(Without(q, i))
<1> DEFINE r == Without(q, i)
           At(j) == IF j < i THEN j ELSE j + 1
<1>1. Len(q) \in Nat /\ DOMAIN q = 1 .. Len(q) /\ i \in 1 .. Len(q)
  BY LenProperties
<1>2. /\ r \in Seq(AckType) /\ Len(r) = Len(q) - 1
      /\ \A j \in 1 .. Len(q) - 1 : r[j] = IF j < i THEN q[j] ELSE q[j + 1]
  BY WithoutStays
<1>3. DOMAIN r = 1 .. Len(q) - 1
  BY <1>2, LenProperties
<1> HIDE DEF r
<1>4. ASSUME NEW j \in DOMAIN r
      PROVE  At(j) \in DOMAIN q /\ At(j) # i /\ r[j] = q[At(j)]
  <2>1. j \in 1 .. Len(q) - 1 /\ (r[j] = IF j < i THEN q[j] ELSE q[j + 1])
    BY <1>2, <1>3
  <2>2. CASE j < i
    BY <1>1, <2>1, <2>2
  <2>3. CASE ~(j < i)
    BY <1>1, <2>1, <2>3
  <2> QED
    BY <2>2, <2>3
<1>5. \A j, k \in DOMAIN r : At(j) = At(k) => j = k
  BY <1>1, <1>3
<1> HIDE DEF At
<1>6. NoAck(q) => NoAck(r)
  BY <1>4 DEF NoAck
<1>7. OneAck(q) => OneAck(r)
  BY <1>4, <1>5 DEF OneAck
<1>8. OneAck(q) /\ q[i].type = "ack" => NoAck(r)
  BY <1>4 DEF NoAck, OneAck
<1> QED
  BY <1>6, <1>7, <1>8 DEF r

-----------------------------------------------------------------------------
\* What the invariant says of the numbers.
LEMMA Numbers ==
  ASSUME NoWrap, TypeInv, Inductive
  PROVE  /\ Sent \in Nat /\ Len(r_written) \in Nat /\ Len(Input) \in Nat
         /\ Sent <= s_pos /\ s_pos <= Len(Input) /\ s_pos \in Nat
         /\ Sent + W < M /\ M \in Nat /\ W \in Nat \ {0}
         /\ s_min \in SeqNum /\ r_min \in SeqNum /\ s_seqnum \in SeqNum
         /\ s_max = DecaleBy(s_min, W) /\ r_max = DecaleBy(r_min, W)
         /\ s_sent \in Seq(Seq(Byte) \ {<<>>}) /\ r_written \in Seq(Seq(Byte))
         /\ \A k \in 1 .. Sent : s_sent[k] \in Seq(Byte) /\ s_sent[k] # <<>>
         /\ up \in Seq(PacketType) /\ r_sock \in Seq(PacketType)
         /\ down \in Seq(AckType) /\ s_sock \in Seq(AckType)
<1>1. s_sent \in Seq(Seq(Byte) \ {<<>>}) /\ r_written \in Seq(Seq(Byte))
  BY DEF TypeInv, TypeOK, SenderTypeOK, ReceiverTypeOK
<1>2. Sent \in Nat /\ Len(r_written) \in Nat /\ Len(Input) \in Nat
  BY <1>1, SenderConstants, LenProperties DEF Sent
<1>3. \A k \in 1 .. Sent : s_sent[k] \in Seq(Byte) \ {<<>>}
  BY <1>1, ElementOfSeq DEF Sent
<1>4. Sent <= s_pos /\ s_pos \in 0 .. Len(Input)
  BY DEF Inductive, SenderInv, TypeInv, TypeOK, SenderTypeOK
<1>5. M \in Nat /\ W \in Nat \ {0} /\ Len(Input) + W < M
  BY WindowSizes DEF NoWrap
<1> QED
  BY <1>1, <1>2, <1>3, <1>4, <1>5
  DEF TypeInv, TypeOK, Spans, SenderTypeOK, ReceiverTypeOK, LinkTypeOK

\* A packet that the receiver decodes is one of the payloads handed over, or the
\* disconnection.
LEMMA DecodedIsGood ==
  ASSUME NoWrap, TypeInv, Inductive, Decoded
  PROVE  /\ Datagram \in GoodPackets
         /\ Tail(r_sock) \in Seq(ReceivedPackets)
         /\ Disconnects(Datagram) => Closing /\ Datagram.seq = Sent
         /\ ~Disconnects(Datagram) => /\ Datagram.seq \in 0 .. Sent - 1
                                      /\ Datagram.payload = s_sent[Datagram.seq + 1]
<1>1. r_sock # <<>> /\ PktDecodes(Datagram)
  BY DEF Decoded, Arrives
<1>2. Datagram \in ReceivedPackets /\ Tail(r_sock) \in Seq(ReceivedPackets)
  BY <1>1, TailStays DEF Datagram, Inductive, PacketsInv
<1>3. Datagram \in GoodPackets
  BY <1>1, <1>2 DEF ReceivedPackets
<1>4. Sent \in Nat /\ \A k \in 1 .. Sent : s_sent[k] # <<>>
  BY Numbers
<1>5. Datagram.seq \in Nat
  BY <1>3 DEF GoodPackets, PacketType, SeqNum
<1>6. Datagram.seq < Sent => s_sent[Datagram.seq + 1] # <<>>
  BY <1>4, <1>5
<1> QED
  BY <1>2, <1>3, <1>4, <1>5, <1>6 DEF GoodPackets, Disconnects

\* The sender, while it runs, decodes a NACK of a packet it has sent, or the awaited
\* ACK; what remains in its socket is as before, less that one.
LEMMA ReceivedIsGood ==
  ASSUME TypeInv, Inductive, s_pc \notin SenderEnded, s_sock # <<>>
  PROVE  /\ Head(s_sock) \in ReceivedAcks
         /\ Tail(s_sock) \in Seq(ReceivedAcks)
         /\ AckDecodes(Head(s_sock)) => Head(s_sock) \in GoodAcks
         /\ OneAck(Tail(s_sock))
         /\ NoAck(down) \/ NoAck(Tail(s_sock))
         /\ Head(s_sock).type = "ack" => NoAck(down) /\ NoAck(Tail(s_sock))
<1>1. /\ s_sock \in Seq(ReceivedAcks) /\ OneAck(s_sock)
      /\ NoAck(down) \/ NoAck(s_sock)
  BY DEF Inductive, AcksInv
<1>2. Head(s_sock) \in ReceivedAcks /\ Tail(s_sock) \in Seq(ReceivedAcks)
  BY <1>1, TailStays
<1>3. s_sock \in Seq(AckType)
  BY DEF TypeInv, TypeOK, LinkTypeOK
<1>4. Head(s_sock).type = "ack" => ~NoAck(s_sock)
  <2>1. 1 \in DOMAIN s_sock /\ s_sock[1] = Head(s_sock)
    BY <1>3, LenProperties, EmptySeq, HeadTailProperties
  <2> QED
    BY <2>1 DEF NoAck
<1> QED
  BY <1>1, <1>2, <1>3, <1>4, TailAck DEF ReceivedAcks

-----------------------------------------------------------------------------
\* The packets allowed in the link stay allowed while payloads are only added and
\* the sender, once closing, hands over nothing.
LEMMA PacketsKept ==
  ASSUME NoWrap, TypeInv, Inductive,
         Sent' \in Nat, Sent <= Sent', \A k \in 1 .. Sent : s_sent'[k] = s_sent[k],
         Closing => Closing' /\ Sent' = Sent
  PROVE  /\ GoodPackets \subseteq GoodPackets'
         /\ up \in Seq(SentPackets')
         /\ r_sock \in Seq(ReceivedPackets')
<1>1. Sent \in Nat
  BY Numbers
<1>2. ASSUME NEW p \in GoodPackets PROVE p \in GoodPackets'
  <2>1. p \in PacketType /\ p.seq \in Nat
    BY DEF GoodPackets, PacketType, SeqNum
  <2>2. CASE p.seq < Sent /\ p.payload = s_sent[p.seq + 1]
    <3>1. p.seq + 1 \in 1 .. Sent
      BY <1>1, <2>1, <2>2
    <3>2. p.seq < Sent' /\ p.payload = s_sent'[p.seq + 1]
      BY <1>1, <2>1, <2>2, <3>1
    <3> QED
      BY <2>1, <3>2 DEF GoodPackets
  <2>3. CASE p.seq = Sent /\ p.payload = <<>> /\ Closing
    BY <2>1, <2>3 DEF GoodPackets
  <2> QED
    BY <2>2, <2>3 DEF GoodPackets
<1>3. SentPackets \subseteq SentPackets' /\ ReceivedPackets \subseteq ReceivedPackets'
  BY <1>2 DEF SentPackets, ReceivedPackets
<1> QED
  BY <1>2, <1>3, SeqMonotone DEF Inductive, PacketsInv

\* The ACKs allowed under way stay allowed while one that is due stays due.
LEMMA AcksKept ==
  ASSUME NoWrap, TypeInv, Inductive, Sent' \in Nat, Sent <= Sent',
         AckDue => AckDue' /\ s_packet'.seq = s_packet.seq
  PROVE  /\ GoodAcks \subseteq GoodAcks'
         /\ ReceivedAcks \subseteq ReceivedAcks'
         /\ s_pc \notin SenderEnded => /\ down \in Seq(GoodAcks')
                                       /\ s_sock \in Seq(ReceivedAcks')
<1>1. Sent \in Nat
  BY Numbers
<1>2. GoodAcks \subseteq GoodAcks'
  <2>1. ASSUME NEW a \in GoodAcks PROVE a \in GoodAcks'
    <3>1. a \in AckType /\ a.seq \in Nat
      BY DEF GoodAcks, AckType, SeqNum
    <3>2. a.seq < Sent => a.seq < Sent'
      BY <1>1, <3>1
    <3> QED
      BY <3>1, <3>2 DEF GoodAcks
  <2> QED
    BY <2>1
<1>3. ReceivedAcks \subseteq ReceivedAcks'
  BY <1>2 DEF ReceivedAcks
<1> QED
  BY <1>2, <1>3, SeqMonotone DEF Inductive, AcksInv

\* A step of the sender that hands over no payload and forgets no end of file
\* leaves what is said of the receiver and of its socket.
LEMMA ReceiverUndisturbed ==
  ASSUME NoWrap, TypeInv, Inductive, UNCHANGED <<r_pc, receiverVars, r_sock, s_sent>>,
         Closing => Closing'
  PROVE  ReceiverInv' /\ r_sock' \in Seq(ReceivedPackets') /\ up \in Seq(SentPackets')
<1>1. Sent' = Sent /\ Sent \in Nat
  BY Numbers DEF Sent
<1>2. ReceiverInv'
  BY <1>1 DEF Inductive, ReceiverInv, receiverVars
<1> QED
  BY <1>1, <1>2, PacketsKept

\* The invariant holds when the programs start.
LEMMA InitSafe == NoWrap /\ Init => Inductive
<1> SUFFICES ASSUME NoWrap, Init PROVE Inductive
  OBVIOUS
<1>1. Sent = 0 /\ Len(r_written) = 0
  BY DEF Init, SenderInit, ReceiverInit, Sent
<1>2. PacketsInv
  BY DEF Init, LinkInit, PacketsInv
<1>3. AcksInv
  BY DEF Init, LinkInit, AcksInv, NoAck, OneAck
<1>4. SenderInv
  <2>1. \A i \in 0 .. W : s_buf[i] = "uninit"
    BY DEF Init, SenderInit
  <2>2. 0 \in 0 .. W /\ \A i \in 1 .. W : i \in 0 .. W
    BY WindowSizes
  <2> QED
    BY <1>1, <2>1, <2>2 DEF Init, SenderInit, SenderInv
<1>5. ReceiverInv
  BY <1>1 DEF Init, ReceiverInit, ReceiverInv
<1> QED
  BY <1>2, <1>3, <1>4, <1>5 DEF Inductive

\* What the sender finds at the top of its loop, and its window of numbers.
LEMMA AtRead ==
  ASSUME NoWrap, TypeInv, Inductive, s_pc = "read"
  PROVE  /\ SkipToWindow(s_seqnum, s_min, s_max) = Sent
         /\ SlotIndex(Sent, s_min) = 0
         /\ SeqnumInc(Sent) = Sent + 1
         /\ U8Sub(s_window, 1) = W - 1
         /\ ~Closing /\ ~AckDue /\ r_pc # "done"
<1>1. /\ s_seqnum = Sent /\ s_min = Sent /\ s_window = W
      /\ s_max = DecaleBy(Sent, W) /\ Sent \in Nat /\ Sent + W < M /\ M \in Nat
  BY Numbers DEF Inductive, SenderInv
<1>2. Sent \in SeqNum
  BY <1>1, WindowSizes DEF SeqNum
<1>3. InWindow(Sent, Sent, DecaleBy(Sent, W))
  BY <1>1, WindowSizes DEF InWindow, DecaleBy
<1>4. SeqnumInc(Sent) = Sent + 1 /\ U8Sub(W, 1) = W - 1 /\ SlotIndex(Sent, Sent) = 0
  BY <1>1, WindowSizes DEF SeqnumInc, U8Sub, SlotIndex
<1>5. ~Closing /\ ~AckDue
  BY DEF Closing, AckDue
<1> QED
  BY <1>1, <1>3, <1>4, <1>5 DEF SkipToWindow, Inductive, ReceiverInv

\* The steps of the sender, in the order of SenderNext.
LEMMA SkipBlockSafe ==
  ASSUME NoWrap, TypeInv, Inductive, SkipBlock, UNCHANGED <<r_pc, receiverVars, r_sock, down>>
  PROVE  Inductive'
<1>1. /\ s_pc = "read" /\ s_pc' = "read" /\ s_seqnum' = SkipToWindow(s_seqnum, s_min, s_max)
      /\ s_pos' = s_pos + 1
      /\ UNCHANGED <<s_min, s_window, s_packet, s_buf, s_sent, up, s_sock>>
  BY DEF SkipBlock
<1>2. Sent' = Sent /\ Sent \in Nat /\ s_pos \in Nat /\ Sent <= s_pos
  BY <1>1, Numbers DEF Sent
<1>3. s_seqnum' = Sent /\ ~Closing /\ ~AckDue
  BY <1>1, AtRead
<1>4. ReceiverInv' /\ PacketsInv'
  BY <1>1, <1>3, ReceiverUndisturbed DEF PacketsInv
<1>5. AcksInv'
  BY <1>1, <1>2, <1>3, AcksKept DEF Inductive, AcksInv, SenderEnded, NoAck, OneAck
<1>6. SenderInv'
  BY <1>1, <1>2, <1>3 DEF Inductive, SenderInv, receiverVars
<1> QED
  BY <1>4, <1>5, <1>6 DEF Inductive

\* Sending a block (sender.c:318): one more payload sent, and nothing under way but its packet.
LEMMA SendBlockSafe ==
  ASSUME NoWrap, TypeInv, Inductive, SendBlock, UNCHANGED <<r_pc, receiverVars, r_sock, down>>
  PROVE  Inductive'
<1>0. PICK tail \in Tails :
        LET payload == Payload(Input[s_pos + 1] \o tail)
        IN /\ payload # <<>>
           /\ s_packet' = [seq |-> Sent, payload |-> payload]
           /\ up' = Append(up, Packet(Sent, payload))
           /\ s_sent' = Append(s_sent, payload)
  BY AtRead DEF SendBlock
<1> DEFINE payload == Payload(Input[s_pos + 1] \o tail)
<1>1. /\ s_pc = "read" /\ s_pc' = "wait" /\ payload # <<>>
      /\ s_packet' = [seq |-> Sent, payload |-> payload]
      /\ s_seqnum' = Sent + 1
      /\ s_buf' = [s_buf EXCEPT ![0] = "packet"]
      /\ up' = Append(up, Packet(Sent, payload))
      /\ s_sent' = Append(s_sent, payload)
      /\ s_window' = W - 1
      /\ s_pos' = s_pos + 1
      /\ UNCHANGED <<s_min, s_sock>>
      /\ ~Closing /\ ~AckDue /\ r_pc # "done"
  BY <1>0, AtRead DEF SendBlock
<1>2. /\ Sent \in Nat /\ s_pos \in Nat /\ Sent <= s_pos /\ Sent + W < M
      /\ M \in Nat /\ W \in Nat \ {0} /\ Len(r_written) \in Nat
      /\ s_sent \in Seq(Seq(Byte) \ {<<>>}) /\ s_min = Sent
      /\ Len(r_written) = Sent
  BY <1>1, Numbers DEF Inductive, SenderInv
<1>3. s_pos + 1 \in 1 .. Len(Input)
  <2>1. s_pos \in 0 .. Len(Input) /\ s_pos # Len(Input) /\ Len(Input) \in Nat
    BY Numbers DEF SendBlock, EndOfInput
  <2> QED
    BY <2>1
<1>4. payload \in Seq(Byte) \ {<<>>}
  BY <1>1, <1>3, InputBlock
<1> HIDE DEF payload
<1>5. /\ Sent' = Sent + 1
      /\ \A k \in 1 .. Sent : s_sent'[k] = s_sent[k]
      /\ s_sent'[Sent + 1] = payload
  BY <1>1, <1>2, <1>4, AppendProperties DEF Sent
<1>6. PacketsInv'
  <2>0. Sent' \in Nat /\ Sent <= Sent'
    BY <1>2, <1>5
  <2>1. up \in Seq(SentPackets') /\ r_sock \in Seq(ReceivedPackets')
    BY <1>1, <1>5, <2>0, PacketsKept
  <2>2. Packet(Sent, payload) \in SentPackets'
    <3>1. Sent \in SeqNum
      BY <1>2 DEF SeqNum
    <3>2. Packet(Sent, payload) \in PacketType
      BY <1>4, <3>1, PacketTyped
    <3>3. /\ Packet(Sent, payload).seq = Sent /\ Packet(Sent, payload).payload = payload
          /\ ~Packet(Sent, payload).tr
      BY DEF Packet
    <3>4. Sent < Sent'
      BY <1>2, <1>5
    <3> QED
      BY <1>5, <3>2, <3>3, <3>4 DEF SentPackets, GoodPackets
  <2> QED
    BY <1>1, <2>1, <2>2, AppendStays DEF PacketsInv
<1>7. AcksInv'
  BY <1>1, <1>2, <1>5, AcksKept DEF Inductive, AcksInv, SenderEnded, NoAck, OneAck
<1>8. SenderInv'
  <2>1. s_buf \in [0 .. W -> {"uninit", "null", "packet"}]
    BY DEF TypeInv, TypeOK, SenderTypeOK
  <2>2. s_buf'[0] = "packet" /\ \A i \in 1 .. W : s_buf'[i] = "uninit"
    BY <1>1, <1>2, <2>1 DEF Inductive, SenderInv
  <2>3. Sent' <= s_pos' /\ Sent' >= 1 /\ Sent' - 1 = Sent
    BY <1>1, <1>2, <1>5
  <2> QED
    BY <1>1, <1>2, <1>5, <2>2, <2>3 DEF SenderInv
<1>9. ReceiverInv'
  <2>1. UNCHANGED <<r_pc, r_written, r_min, r_buf>>
    BY DEF receiverVars
  <2>2. /\ \A k \in 1 .. Len(r_written) : r_written[k] = s_sent'[k]
        /\ r_min = Len(r_written) /\ r_buf = {} /\ r_pc # "full" /\ r_pc # "done"
    BY <1>1, <1>2, <1>5 DEF Inductive, ReceiverInv
  <2>3. Len(r_written) <= Sent' /\ Sent' <= Len(r_written) + 1
    BY <1>2, <1>5
  <2> QED
    BY <2>1, <2>2, <2>3 DEF ReceiverInv
<1> QED
  BY <1>6, <1>7, <1>8, <1>9 DEF Inductive

\* Sending the disconnection (sender.c:189): everything sent has been written.
LEMMA SendFinSafe ==
  ASSUME NoWrap, TypeInv, Inductive, SendFin, UNCHANGED <<r_pc, receiverVars, r_sock, down>>
  PROVE  Inductive'
<1>1. /\ s_pc = "read" /\ s_pc' = "fin" /\ EndOfInput
      /\ s_packet' = [seq |-> Sent, payload |-> <<>>]
      /\ up' = Append(up, Packet(Sent, <<>>))
      /\ UNCHANGED <<s_pos, s_min, s_window, s_buf, s_sent, s_sock>>
      /\ ~Closing /\ ~AckDue
  BY AtRead DEF SendFin
<1>2. /\ Sent' = Sent /\ Sent \in Nat /\ Sent + W < M /\ M \in Nat /\ W \in Nat \ {0}
      /\ Len(r_written) = Sent /\ UNCHANGED r_written
  BY <1>1, Numbers DEF Inductive, SenderInv, Sent, receiverVars
<1>3. Closing'
  BY <1>1, <1>2 DEF Closing, EndOfInput, Sent
<1>4. ReceiverInv' /\ r_sock' \in Seq(ReceivedPackets') /\ up \in Seq(SentPackets')
  BY <1>1, <1>3, ReceiverUndisturbed
<1>5. PacketsInv'
  <2>0. Sent \in SeqNum /\ <<>> \in Seq(Byte)
    BY <1>2 DEF SeqNum
  <2>1. Packet(Sent, <<>>) \in PacketType
    BY <2>0, PacketTyped
  <2>2. Packet(Sent, <<>>) \in SentPackets'
    BY <1>2, <1>3, <2>1 DEF Packet, SentPackets, GoodPackets
  <2> QED
    BY <1>1, <1>4, <2>2, AppendStays DEF PacketsInv
<1>6. AcksInv'
  BY <1>1, <1>2, AcksKept DEF Inductive, AcksInv, SenderEnded, NoAck, OneAck
<1>7. SenderInv'
  BY <1>1, <1>2, <1>3 DEF Inductive, SenderInv
<1> QED
  BY <1>4, <1>5, <1>6, <1>7 DEF Inductive

\* The packet that waits, sent again by a timer or for a NACK.
LEMMA AgainSafe ==
  ASSUME NoWrap, TypeInv, Inductive, s_pc \in {"wait", "fin"},
         up' = Append(up, Packet(s_packet.seq, s_packet.payload)),
         s_sock' = s_sock \/ (s_sock # <<>> /\ s_sock' = Tail(s_sock)),
         UNCHANGED <<s_pc, senderVars, r_pc, receiverVars, r_sock, down>>
  PROVE  Inductive'
<1>1. UNCHANGED <<s_pos, s_min, s_seqnum, s_packet, s_window, s_buf, s_sent>>
  BY DEF senderVars
<1>2. /\ Sent' = Sent /\ Sent \in Nat /\ Sent + W < M /\ M \in Nat /\ W \in Nat \ {0}
      /\ UNCHANGED r_written
  BY <1>1, Numbers DEF Sent, receiverVars
<1>3. Closing' = Closing /\ AckDue' = AckDue
  BY <1>1, <1>2 DEF Closing, EndOfInput, AckDue, Sent
<1>4. ReceiverInv' /\ r_sock' \in Seq(ReceivedPackets') /\ up \in Seq(SentPackets')
  BY <1>1, <1>3, ReceiverUndisturbed
<1>5. PacketsInv'
  <2>1. \/ s_packet = [seq |-> Sent - 1, payload |-> s_sent[Sent]] /\ Sent >= 1
        \/ s_packet = [seq |-> Sent, payload |-> <<>>] /\ Closing
    BY DEF Inductive, SenderInv
  <2>2. Packet(s_packet.seq, s_packet.payload) \in PacketType
    BY PacketTyped DEF TypeInv, TypeOK, SenderTypeOK
  <2>3. Packet(s_packet.seq, s_packet.payload) \in SentPackets'
    <3>1. CASE s_packet = [seq |-> Sent - 1, payload |-> s_sent[Sent]] /\ Sent >= 1
      <4>1. Sent - 1 < Sent /\ Sent - 1 + 1 = Sent
        BY <1>2
      <4> QED
        BY <1>1, <1>2, <2>2, <3>1, <4>1 DEF Packet, SentPackets, GoodPackets
    <3>2. CASE s_packet = [seq |-> Sent, payload |-> <<>>] /\ Closing
      BY <1>2, <1>3, <2>2, <3>2 DEF Packet, SentPackets, GoodPackets
    <3> QED
      BY <2>1, <3>1, <3>2
  <2> QED
    BY <1>4, <2>3, AppendStays DEF PacketsInv
<1>6. AcksInv'
  <2>1. /\ GoodAcks \subseteq GoodAcks' /\ ReceivedAcks \subseteq ReceivedAcks'
        /\ down \in Seq(GoodAcks') /\ s_sock \in Seq(ReceivedAcks')
    BY <1>1, <1>2, <1>3, AcksKept DEF SenderEnded
  <2>2. /\ s_sock' \in Seq(ReceivedAcks') /\ OneAck(s_sock')
        /\ NoAck(down) \/ NoAck(s_sock')
    <3>1. CASE s_sock' = s_sock
      BY <2>1, <3>1 DEF Inductive, AcksInv, SenderEnded
    <3>2. CASE s_sock # <<>> /\ s_sock' = Tail(s_sock)
      BY <2>1, <3>2, ReceivedIsGood, SeqMonotone DEF SenderEnded
    <3> QED
      BY <3>1, <3>2
  <2> QED
    BY <2>1, <2>2 DEF Inductive, AcksInv, SenderEnded, NoAck, OneAck
<1>7. SenderInv'
  BY <1>1, <1>2, <1>3 DEF Inductive, SenderInv
<1> QED
  BY <1>4, <1>5, <1>6, <1>7 DEF Inductive

\* The sender gives up or crashes: nothing more is said of the ACKs.
LEMMA StopsSafe ==
  ASSUME NoWrap, TypeInv, Inductive, s_pc' \in {"failed", "crashed"},
         UNCHANGED <<s_sent, up, r_pc, receiverVars, r_sock, down>>,
         UNCHANGED s_pos \/ (s_pc = "read" /\ s_pos' = s_pos + 1),
         \A i \in 1 .. W : s_buf'[i] = "uninit"
  PROVE  Inductive'
<1>1. Sent' = Sent /\ UNCHANGED r_written /\ Sent' <= s_pos'
  BY Numbers DEF Sent, receiverVars
<1>2. Closing => Closing'
  BY <1>1 DEF Closing, EndOfInput, Sent
<1>3. ReceiverInv' /\ PacketsInv'
  BY <1>2, ReceiverUndisturbed DEF PacketsInv
<1>4. AcksInv' /\ SenderInv'
  BY <1>1 DEF Inductive, AcksInv, SenderInv, SenderEnded
<1> QED
  BY <1>3, <1>4 DEF Inductive

\* An ACK (sender.c:445) says that the payload that waits is written: there is no other ACK.
LEMMA RecvAckSafe ==
  ASSUME NoWrap, TypeInv, Inductive, RecvAck, UNCHANGED <<r_pc, receiverVars, r_sock, down>>
  PROVE  Inductive'
<1> DEFINE ack == Head(s_sock).seq
<1>1. /\ s_pc = "wait" /\ s_sock # <<>> /\ AckDecodes(Head(s_sock))
      /\ Head(s_sock).type = "ack"
      /\ s_min' = DecaleBy(s_min, IF ack > s_min THEN ack - s_min ELSE 0)
      /\ s_window' = U8Add(s_window, IF ack > s_min THEN ack - s_min ELSE 0)
      /\ s_buf' = IF s_packet.seq \in Retired(ack) /\ Matches(s_packet.seq) # {}
                  THEN [s_buf EXCEPT ![First(Matches(s_packet.seq))] = "null"]
                  ELSE s_buf
      /\ s_pc' \in {"read"} \cup {c \in {"crashed"} : \E i \in Retired(ack) : ReadsUninit(i)}
      /\ s_sock' = IF s_pc' = "read" THEN Tail(s_sock) ELSE <<>>
      /\ UNCHANGED <<s_pos, s_seqnum, s_sent, up>>
  BY DEF RecvAck, Received, Acknowledges
<1>2. /\ Sent \in Nat /\ Sent + W < M /\ M \in Nat /\ W \in Nat \ {0} /\ Sent >= 1
      /\ s_seqnum = Sent /\ s_min = Sent - 1 /\ s_window = W - 1
      /\ s_buf[0] = "packet" /\ \A i \in 1 .. W : s_buf[i] = "uninit"
      /\ s_packet = [seq |-> Sent - 1, payload |-> s_sent[Sent]]
      /\ Sent <= s_pos /\ s_buf \in [0 .. W -> {"uninit", "null", "packet"}]
  BY <1>1, Numbers DEF Inductive, SenderInv, TypeInv, TypeOK, SenderTypeOK
\* It is the awaited one, and the receiver has written the packet.
<1>3. /\ ack = Sent /\ Len(r_written) = Sent
      /\ NoAck(down) /\ NoAck(Tail(s_sock))
      /\ Tail(s_sock) \in Seq(ReceivedAcks)
  <2>1. s_pc \notin SenderEnded
    BY <1>1 DEF SenderEnded
  <2>2. Head(s_sock) \in GoodAcks /\ NoAck(down) /\ NoAck(Tail(s_sock))
        /\ Tail(s_sock) \in Seq(ReceivedAcks)
    BY <1>1, <2>1, ReceivedIsGood
  <2>3. AckDue /\ ack = s_packet.seq + 1
    BY <1>1, <2>2 DEF GoodAcks
  <2> QED
    BY <1>1, <1>2, <2>2, <2>3 DEF AckDue
<1>4. s_min' = Sent /\ s_window' = W
  BY <1>1, <1>2, <1>3 DEF DecaleBy, U8Add
\* The scan of the buffer finds the packet in its first slot.
<1>5. Retired(ack) = {Sent - 1} /\ Matches(Sent - 1) = {0}
  <2>1. Retired(ack) = {Sent - 1}
    BY <1>2, <1>3 DEF Retired
  <2>2. \A i \in 0 .. W - 1 : s_buf[i] = "packet" <=> i = 0
    BY <1>2
  <2> QED
    BY <1>2, <2>1, <2>2 DEF Matches
<1>6. s_pc' = "read"
  <2>1. ~ReadsUninit(Sent - 1)
    BY <1>2, <1>5 DEF ReadsUninit
  <2> QED
    BY <1>1, <1>5, <2>1
<1>7. s_buf' = [s_buf EXCEPT ![0] = "null"]
  <2>1. First(Matches(Sent - 1)) = 0
    BY <1>5 DEF First
  <2> QED
    BY <1>1, <1>2, <1>5, <2>1
<1>8. s_buf'[0] = "null" /\ \A i \in 1 .. W : s_buf'[i] = "uninit"
  BY <1>2, <1>7
<1>9. Sent' = Sent /\ UNCHANGED r_written /\ ~Closing /\ ~AckDue'
  BY <1>1, <1>6 DEF Sent, receiverVars, Closing, AckDue
<1>10. ReceiverInv' /\ PacketsInv'
  BY <1>1, <1>9, ReceiverUndisturbed DEF PacketsInv
<1>11. AcksInv'
  <2>1. ASSUME NEW a \in GoodAcks, a.type # "ack" PROVE a \in GoodAcks'
    BY <1>9, <2>1 DEF GoodAcks
  <2>2. ASSUME NEW a \in ReceivedAcks, a.type # "ack" PROVE a \in ReceivedAcks'
    BY <2>1, <2>2 DEF ReceivedAcks
  <2>3. down \in Seq(GoodAcks)
    BY <1>1 DEF Inductive, AcksInv, SenderEnded
  <2>4. \A i \in DOMAIN down : down[i] \in GoodAcks'
    BY <1>3, <2>1, <2>3, LenProperties, ElementOfSeq DEF NoAck
  <2>5. \A i \in DOMAIN Tail(s_sock) : Tail(s_sock)[i] \in ReceivedAcks'
    BY <1>3, <2>2, LenProperties, ElementOfSeq DEF NoAck
  <2>6. down \in Seq(GoodAcks') /\ Tail(s_sock) \in Seq(ReceivedAcks')
    BY <1>3, <2>3, <2>4, <2>5, SeqWithin
  <2> QED
    BY <1>1, <1>3, <1>6, <2>6 DEF AcksInv, NoAck, OneAck
<1>12. SenderInv'
  BY <1>1, <1>2, <1>3, <1>4, <1>6, <1>8, <1>9 DEF SenderInv
<1> QED
  BY <1>10, <1>11, <1>12 DEF Inductive

\* The ACK of the disconnection (sender.c:288): the receiver has ended.
LEMMA RecvFinAckSafe ==
  ASSUME NoWrap, TypeInv, Inductive, RecvFinAck, UNCHANGED <<r_pc, receiverVars, r_sock, down>>
  PROVE  Inductive'
<1>1. /\ s_pc \in {"fin", "fin_block"} /\ s_sock # <<>> /\ AckDecodes(Head(s_sock))
      /\ Head(s_sock).seq = SeqnumInc(s_packet.seq)
      /\ s_pc' = "done"
      /\ UNCHANGED <<s_pos, s_min, s_packet, s_window, s_buf, s_sent, up>>
  BY DEF RecvFinAck, Received, IsFinAck, senderVars
<1>2. /\ Sent \in Nat /\ Sent + W < M /\ M \in Nat /\ W \in Nat \ {0}
      /\ s_packet.seq = Sent /\ Closing
  BY <1>1, Numbers DEF Inductive, SenderInv
<1>3. r_pc = "done"
  <2>1. Head(s_sock) \in GoodAcks
    BY <1>1, ReceivedIsGood DEF SenderEnded
  <2>2. Head(s_sock).seq = Sent + 1
    BY <1>1, <1>2 DEF SeqnumInc
  <2>3. ~(Head(s_sock).seq < Sent)
    BY <1>2, <2>2
  <2> QED
    BY <1>1, <2>1, <2>3 DEF GoodAcks, AckDue
<1>4. Sent' = Sent /\ UNCHANGED r_written /\ Closing'
  BY <1>1, <1>2 DEF Sent, receiverVars, Closing, EndOfInput
<1>5. ReceiverInv' /\ PacketsInv'
  BY <1>1, <1>4, ReceiverUndisturbed DEF PacketsInv
<1>6. AcksInv' /\ SenderInv'
  BY <1>1, <1>3, <1>4 DEF Inductive, AcksInv, SenderInv, SenderEnded
<1> QED
  BY <1>5, <1>6 DEF Inductive

\* Any other answer during the disconnection (sender.c:239) changes nothing but the place.
LEMMA RecvFinOtherSafe ==
  ASSUME NoWrap, TypeInv, Inductive, RecvFinOther, UNCHANGED <<r_pc, receiverVars, r_sock, down>>
  PROVE  Inductive'
<1>1. /\ s_pc \in {"fin", "fin_block"} /\ s_pc' = "fin_block" /\ s_sock # <<>>
      /\ s_sock' = Tail(s_sock)
      /\ UNCHANGED <<s_pos, s_min, s_packet, s_window, s_buf, s_sent, up>>
  BY DEF RecvFinOther, Received, senderVars
<1>2. Sent' = Sent /\ Sent \in Nat /\ UNCHANGED r_written
  BY <1>1, Numbers DEF Sent, receiverVars
<1>3. (Closing => Closing') /\ (AckDue => AckDue')
  BY <1>1, <1>2 DEF Closing, EndOfInput, AckDue
<1>4. ReceiverInv' /\ PacketsInv'
  BY <1>1, <1>3, ReceiverUndisturbed DEF PacketsInv
<1>5. AcksInv'
  <2>1. ReceivedAcks \subseteq ReceivedAcks' /\ down \in Seq(GoodAcks')
    BY <1>1, <1>2, <1>3, AcksKept DEF SenderEnded
  <2> QED
    BY <1>1, <2>1, ReceivedIsGood, SeqMonotone
    DEF Inductive, AcksInv, SenderEnded, NoAck, OneAck
<1>6. SenderInv'
  BY <1>1, <1>2, <1>3 DEF Inductive, SenderInv
<1> QED
  BY <1>4, <1>5, <1>6 DEF Inductive

\* Every step of the sender keeps the invariant.
LEMMA SenderSafe == NoWrap /\ TypeInv /\ Inductive /\ SenderStep => Inductive'
<1> SUFFICES ASSUME NoWrap, TypeInv, Inductive, SenderStep PROVE Inductive'
  OBVIOUS
<1>1. UNCHANGED <<r_pc, receiverVars, r_sock, down>> /\ SenderNext
  BY DEF SenderStep
<1>2. \A i \in 1 .. W : s_buf[i] = "uninit"
  BY DEF Inductive, SenderInv
<1>3. CASE SkipBlock \/ SendBlock \/ SendFin
  BY <1>1, <1>3, SkipBlockSafe, SendBlockSafe, SendFinSafe
<1>4. CASE Resend
  BY <1>1, <1>4, AgainSafe DEF Resend
<1>5. CASE RecvUndecodable \/ RecvStaleNack \/ PayloadTooLong
  BY <1>1, <1>2, <1>5, StopsSafe
  DEF RecvUndecodable, RecvStaleNack, PayloadTooLong, senderVars
<1>6. CASE RecvNack
  BY <1>1, <1>6, AgainSafe DEF RecvNack, Received
<1>7. CASE RecvAck \/ RecvFinAck \/ RecvFinOther
  BY <1>1, <1>7, RecvAckSafe, RecvFinAckSafe, RecvFinOtherSafe
<1> QED
  BY <1>1, <1>3, <1>4, <1>5, <1>6, <1>7 DEF SenderNext

-----------------------------------------------------------------------------
\* The steps of the receiver, in the order of ReceiverNext.

\* No ACK is under way while none is due.
LEMMA NotDue ==
  ASSUME Inductive, ~AckDue, s_pc \notin SenderEnded
  PROVE  NoAck(down) /\ NoAck(s_sock)
<1>1. down \in Seq(GoodAcks) /\ s_sock \in Seq(ReceivedAcks)
  BY DEF Inductive, AcksInv
<1>2. /\ \A i \in DOMAIN down : down[i] \in GoodAcks
      /\ \A i \in DOMAIN s_sock : s_sock[i] \in ReceivedAcks
  BY <1>1, LenProperties, ElementOfSeq
<1> QED
  BY <1>2 DEF NoAck, GoodAcks, ReceivedAcks

\* A step of the receiver that writes nothing leaves what is said of the sender and
\* of the packets.
LEMMA SenderUndisturbed ==
  ASSUME NoWrap, TypeInv, Inductive, r_pc = "run", UNCHANGED <<s_pc, senderVars, up>>,
         UNCHANGED r_written
  PROVE  /\ SenderInv' /\ Sent' = Sent /\ Closing' = Closing
         /\ up' \in Seq(SentPackets') /\ r_sock \in Seq(ReceivedPackets')
         /\ ~AckDue => \/ s_pc \in SenderEnded
                       \/ NoAck(down) /\ NoAck(s_sock)
<1>1. UNCHANGED <<s_pos, s_min, s_seqnum, s_packet, s_window, s_buf, s_sent>>
  BY DEF senderVars
<1>2. Sent' = Sent /\ Sent \in Nat /\ Closing' = Closing
  BY <1>1, Numbers DEF Sent, Closing, EndOfInput
<1>3. SenderInv'
  BY <1>1, <1>2 DEF Inductive, SenderInv
<1> QED
  BY <1>1, <1>2, <1>3, PacketsKept, NotDue

\* A step of the receiver that takes a datagram and answers nothing keeps the invariant.
LEMMA QuietSafe ==
  ASSUME NoWrap, TypeInv, Inductive, r_pc = "run", r_pc' \in {"run", "failed"},
         r_sock' = <<>> \/ (r_sock # <<>> /\ r_sock' = Tail(r_sock)),
         UNCHANGED <<receiverVars, down>>, UNCHANGED <<s_pc, senderVars, up, s_sock>>
  PROVE  Inductive'
<1>1. UNCHANGED <<r_written, r_min, r_buf, s_packet, s_sent>>
  BY DEF receiverVars, senderVars
<1>2. /\ SenderInv' /\ Sent' = Sent /\ Closing' = Closing
      /\ up' \in Seq(SentPackets') /\ r_sock \in Seq(ReceivedPackets')
  BY <1>1, SenderUndisturbed
<1>3. PacketsInv'
  <2>1. r_sock # <<>> => Tail(r_sock) \in Seq(ReceivedPackets')
    BY <1>2, TailStays
  <2>2. <<>> \in Seq(ReceivedPackets')
    BY EmptySeq
  <2>3. r_sock' \in Seq(ReceivedPackets')
    BY <2>1, <2>2
  <2> QED
    BY <1>2, <2>3 DEF PacketsInv
<1>4. AckDue' = AckDue /\ Sent \in Nat
  BY <1>1, <1>2, Numbers DEF AckDue
<1>5. AcksInv'
  BY <1>1, <1>2, <1>4, AcksKept DEF Inductive, AcksInv, NoAck, OneAck
<1>6. ReceiverInv'
  BY <1>1, <1>2 DEF Inductive, ReceiverInv
<1> QED
  BY <1>2, <1>3, <1>5, <1>6 DEF Inductive

\* The disconnection reaches the receiver (receiver.c:190) when all is written.
LEMMA RecvFinSafe ==
  ASSUME NoWrap, TypeInv, Inductive, RecvFin, UNCHANGED <<s_pc, senderVars, up, s_sock>>
  PROVE  Inductive'
<1>1. /\ r_pc = "run" /\ r_pc' = "done" /\ r_sock' = <<>>
      /\ down' = Append(down, Ack("ack", AckSeq(Datagram), r_window'))
      /\ UNCHANGED <<r_written, r_min, r_buf, s_packet, s_sent>>
      /\ Closing /\ Datagram.seq = Sent
  BY DecodedIsGood DEF RecvFin, Decoded, Arrives, senderVars
<1>2. /\ SenderInv' /\ Sent' = Sent /\ Closing'
      /\ up' \in Seq(SentPackets')
  BY <1>1, SenderUndisturbed
<1>3. PacketsInv'
  BY <1>1, <1>2 DEF PacketsInv
<1>4. /\ Sent \in Nat /\ M \in Nat /\ Sent + W < M /\ W \in Nat \ {0}
      /\ down \in Seq(AckType) /\ r_window' \in SeqNum
  <2>1. r_window' \in SeqNum
    BY ReceiverTyped DEF TypeInv, TypeOK, ReceiverTypeOK, ReceiverStep, ReceiverNext
  <2> QED
    BY <2>1, Numbers
<1>5. AckSeq(Datagram) = Sent + 1 /\ Sent + 1 \in SeqNum
  BY <1>1, <1>4 DEF AckSeq, SeqnumInc, SeqNum
<1>6. AcksInv'
  <2> SUFFICES ASSUME s_pc \notin SenderEnded PROVE AcksInv'
    BY DEF AcksInv
  <2>1. s_pc \in {"fin", "fin_block"} /\ ~AckDue /\ s_packet.seq = Sent
    BY <1>1 DEF Closing, TypeInv, TypeOK, SenderTypeOK, SenderPlaces, SenderEnded, AckDue,
                Inductive, SenderInv
  <2>2. NoAck(down) /\ NoAck(s_sock)
    BY <2>1, NotDue
  <2>3. down \in Seq(GoodAcks') /\ s_sock \in Seq(ReceivedAcks')
    BY <1>2, <1>4, <2>1, AcksKept
  <2>4. Ack("ack", Sent + 1, r_window') \in AckType
    BY <1>4, <1>5, AckTyped
  <2>5. Ack("ack", Sent + 1, r_window') \in GoodAcks'
    <3>1. AckDue'
      BY <1>1, <2>1 DEF AckDue
    <3> QED
      BY <1>1, <2>1, <2>4, <3>1 DEF GoodAcks, Ack
  <2>6. down' \in Seq(GoodAcks') /\ OneAck(down')
    <3>1. down' = Append(down, Ack("ack", Sent + 1, r_window'))
      BY <1>1, <1>5
    <3>2. Append(down, Ack("ack", Sent + 1, r_window')) \in Seq(GoodAcks')
      BY <2>3, <2>5, AppendStays
    <3>3. OneAck(Append(down, Ack("ack", Sent + 1, r_window')))
      BY <1>4, <2>2, <2>4, AppendAck
    <3> QED
      BY <3>1, <3>2, <3>3
  <2> QED
    BY <2>2, <2>3, <2>6 DEF AcksInv, NoAck, OneAck
<1>7. ReceiverInv'
  BY <1>1, <1>2 DEF Inductive, ReceiverInv
<1> QED
  BY <1>2, <1>3, <1>6, <1>7 DEF Inductive

\* A cut packet (receiver.c:243) is answered by a NACK and not written.
LEMMA RecvTruncatedSafe ==
  ASSUME NoWrap, TypeInv, Inductive, RecvTruncated, UNCHANGED <<s_pc, senderVars, up, s_sock>>
  PROVE  Inductive'
<1>1. /\ r_pc = "run" /\ r_pc' = "run" /\ r_sock # <<>> /\ r_sock' = Tail(r_sock)
      /\ down' = Append(down, Ack("nack", Datagram.seq, r_window))
      /\ UNCHANGED <<r_written, r_min, r_buf, s_packet, s_sent>>
      /\ Datagram \in GoodPackets /\ Datagram.seq \in 0 .. Sent - 1
  BY DecodedIsGood DEF RecvTruncated, Decoded, Arrives, senderVars, receiverVars
<1>2. /\ SenderInv' /\ Sent' = Sent /\ Closing' = Closing
      /\ up' \in Seq(SentPackets') /\ r_sock \in Seq(ReceivedPackets')
  BY <1>1, SenderUndisturbed
<1>3. PacketsInv'
  BY <1>1, <1>2, TailStays DEF PacketsInv
<1>4. /\ Sent \in Nat /\ down \in Seq(AckType) /\ r_window \in SeqNum
      /\ AckDue' = AckDue
  BY <1>1, <1>2, Numbers DEF AckDue, TypeInv, TypeOK, ReceiverTypeOK
<1>5. AcksInv'
  <2> SUFFICES ASSUME s_pc \notin SenderEnded PROVE AcksInv'
    BY DEF AcksInv
  <2>1. down \in Seq(GoodAcks') /\ s_sock \in Seq(ReceivedAcks')
    BY <1>1, <1>2, <1>4, AcksKept
  <2>2. Ack("nack", Datagram.seq, r_window) \in AckType
    BY <1>1, <1>4, AckTyped DEF GoodPackets, PacketType
  <2>3. Ack("nack", Datagram.seq, r_window) \in GoodAcks'
    <3>1. Datagram.seq < Sent
      BY <1>1, <1>4
    <3> QED
      BY <1>2, <2>2, <3>1 DEF GoodAcks, Ack
  <2>4. /\ down' \in Seq(GoodAcks')
        /\ NoAck(down) => NoAck(down')
        /\ OneAck(down) => OneAck(down')
    <3>1. Ack("nack", Datagram.seq, r_window).type # "ack"
      BY DEF Ack
    <3>2. Append(down, Ack("nack", Datagram.seq, r_window)) \in Seq(GoodAcks')
      BY <2>1, <2>3, AppendStays
    <3>3. /\ NoAck(down) => NoAck(Append(down, Ack("nack", Datagram.seq, r_window)))
          /\ OneAck(down) => OneAck(Append(down, Ack("nack", Datagram.seq, r_window)))
      BY <1>4, <2>2, <3>1, AppendAck
    <3> QED
      BY <1>1, <3>2, <3>3
  <2> QED
    BY <2>1, <2>4 DEF Inductive, AcksInv, NoAck, OneAck
<1>6. ReceiverInv'
  BY <1>1, <1>2 DEF Inductive, ReceiverInv
<1> QED
  BY <1>2, <1>3, <1>5, <1>6 DEF Inductive

\* The packet accepted is the one that waits: it goes to the first slot, is written
\* at once, and the buffer is empty again.
LEMMA RecvDataWrites ==
  ASSUME NoWrap, TypeInv, Inductive, RecvData, UNCHANGED <<s_pc, senderVars, up, s_sock>>
  PROVE  /\ r_pc = "run" /\ r_pc' = "run" /\ r_sock' = Tail(r_sock)
         /\ Datagram \in GoodPackets /\ Datagram.seq = Len(r_written)
         /\ Sent = Len(r_written) + 1
         /\ r_written' = Append(r_written, s_sent[Sent])
         /\ Len(r_written') = Len(r_written) + 1
         /\ \A j \in 1 .. Len(r_written) : r_written'[j] = r_written[j]
         /\ r_written'[Sent] = s_sent[Sent]
         /\ r_buf' = {} /\ r_min' = DecaleBy(Len(r_written), 1)
         /\ down' = Append(down, Ack("ack", AckSeq(Datagram), r_window'))
         /\ UNCHANGED <<s_pos, s_seqnum, s_min, s_window, s_packet, s_buf, s_sent>>
<1> DEFINE k == Len(r_written)
           d == Datagram
<1>1. /\ k \in Nat /\ Sent \in Nat /\ M \in Nat /\ W \in Nat \ {0} /\ Sent + W < M
      /\ k <= Sent /\ Sent <= k + 1 /\ r_min = k /\ r_max = DecaleBy(k, W)
      /\ r_buf = {}
  BY Numbers DEF Inductive, ReceiverInv
<1>2. /\ d \in GoodPackets /\ d.seq \in 0 .. Sent - 1 /\ d.payload = s_sent[d.seq + 1]
      /\ InWindow(d.seq, k, DecaleBy(k, W))
      /\ Tail(r_sock) \in Seq(ReceivedPackets)
  BY <1>1, DecodedIsGood DEF RecvData
<1>3. d.seq = k /\ Sent = k + 1
  BY <1>1, <1>2 DEF InWindow, DecaleBy
<1>4. ~BufferPlein /\ SlotIndex(d.seq, r_min) = 0
  BY <1>1, <1>3 DEF BufferPlein, SlotIndex
<1>5. Written(r_buf \cup {SlotIndex(d.seq, r_min)}) = 1
  <2>1. r_buf \cup {SlotIndex(d.seq, r_min)} = {0} /\ {0} \in SUBSET (0 .. W)
    BY <1>1, <1>4
  <2>2. /\ Written({0}) \in 0 .. W
        /\ 0 .. Written({0}) - 1 \subseteq {0}
        /\ Written({0}) = W \/ Written({0}) \notin {0}
    BY <2>1, WrittenIsFirstEmpty
  <2>3. ~(1 \in 0 .. Written({0}) - 1)
    BY <2>2
  <2>4. Written({0}) = 1
    BY <1>1, <2>2, <2>3
  <2> QED
    BY <2>1, <2>4
<1>6. /\ r_pc = "run" /\ r_pc' = "run"
      /\ r_buf' = {0} \ (0 .. 0)
      /\ r_written' = r_written \o [j \in 1 .. 1 |-> d.payload]
      /\ r_min' = DecaleBy(k, 1)
      /\ down' = Append(down, Ack("ack", AckSeq(d), r_window'))
      /\ r_sock' = Tail(r_sock)
      /\ UNCHANGED <<s_pos, s_seqnum, s_min, s_window, s_packet, s_buf, s_sent>>
  <2>1. r_buf \cup {SlotIndex(d.seq, r_min)} = {0}
    BY <1>1, <1>4
  <2> DEFINE n == Written(r_buf \cup {SlotIndex(d.seq, r_min)})
  <2>2. /\ r_pc = "run" /\ r_pc' = "run"
        /\ r_buf' = (r_buf \cup {SlotIndex(d.seq, r_min)}) \ (0 .. n - 1)
        /\ r_written' = r_written \o [j \in 1 .. n |-> d.payload]
        /\ r_min' = DecaleBy(r_min, n)
        /\ down' = Append(down, Ack("ack", AckSeq(d), r_window'))
        /\ r_sock' = Tail(r_sock)
    BY <1>4 DEF RecvData, Decoded, Arrives
  <2>3. n = 1 /\ n - 1 = 0
    BY <1>5
  <2> HIDE DEF n, d
  <2> QED
    BY <1>1, <2>1, <2>2, <2>3 DEF senderVars
<1>7. /\ r_written' = Append(r_written, d.payload)
      /\ Len(r_written') = k + 1
      /\ \A j \in 1 .. k : r_written'[j] = r_written[j]
      /\ r_written'[k + 1] = d.payload
  <2>1. [j \in 1 .. 1 |-> d.payload] = <<d.payload>>
    OBVIOUS
  <2>2. r_written \in Seq(Seq(Byte)) /\ d.payload \in Seq(Byte)
    BY <1>2, Numbers DEF GoodPackets, PacketType
  <2>3. r_written' = Append(r_written, d.payload)
    BY <1>6, <2>1, <2>2, AppendIsConcat
  <2> QED
    BY <2>2, <2>3, AppendProperties
<1>8. {0} \ (0 .. 0) = {} /\ d.payload = s_sent[Sent]
  BY <1>2, <1>3
<1> QED
  BY <1>2, <1>3, <1>6, <1>7, <1>8

\* A packet accepted (receiver.c:281) is the payload that waits, and its ACK the only one.
LEMMA RecvDataSafe ==
  ASSUME NoWrap, TypeInv, Inductive, RecvData, UNCHANGED <<s_pc, senderVars, up, s_sock>>
  PROVE  Inductive'
<1> DEFINE k == Len(r_written)
           d == Datagram
<1>1. /\ k \in Nat /\ Sent \in Nat /\ M \in Nat /\ W \in Nat \ {0} /\ Sent + W < M
  BY Numbers
<1>2. /\ r_pc = "run" /\ r_pc' = "run" /\ r_sock' = Tail(r_sock)
      /\ d \in GoodPackets /\ d.seq = k /\ Sent = k + 1
      /\ Len(r_written') = k + 1
      /\ \A j \in 1 .. k : r_written'[j] = r_written[j]
      /\ r_written'[Sent] = s_sent[Sent]
      /\ r_buf' = {} /\ r_min' = DecaleBy(k, 1)
      /\ down' = Append(down, Ack("ack", AckSeq(d), r_window'))
      /\ UNCHANGED <<s_pos, s_seqnum, s_min, s_window, s_packet, s_buf, s_sent>>
  BY RecvDataWrites
<1>3. /\ s_pc \in {"wait", "failed", "crashed"} /\ ~Closing /\ ~AckDue /\ Sent' = Sent
      /\ r_pc \notin {"done", "full"}
  <2>1. Len(r_written) # Sent
    BY <1>1, <1>2
  <2>2. ~Closing
    BY <2>1 DEF Closing, Sent
  <2> QED
    BY <1>2, <2>1, <2>2
    DEF Inductive, SenderInv, AckDue, Sent, TypeInv, TypeOK, SenderTypeOK, SenderPlaces
<1> HIDE DEF k, d
<1>4. PacketsInv'
  <2>1. up \in Seq(SentPackets') /\ r_sock \in Seq(ReceivedPackets') /\ r_sock # <<>>
    BY <1>1, <1>2, <1>3, PacketsKept DEF RecvData, Decoded, Arrives
  <2> QED
    BY <1>2, <2>1, TailStays DEF PacketsInv
<1>5. AcksInv'
  <2> SUFFICES ASSUME s_pc = "wait" PROVE AcksInv'
    BY <1>3 DEF AcksInv, SenderEnded
  <2>1. NoAck(down) /\ NoAck(s_sock)
    BY <1>3, NotDue DEF SenderEnded
  <2>2. down \in Seq(GoodAcks') /\ s_sock \in Seq(ReceivedAcks')
    BY <1>1, <1>3, AcksKept DEF SenderEnded
  <2>3. AckSeq(d) = Sent /\ Sent \in SeqNum
    BY <1>1, <1>2 DEF AckSeq, SeqnumInc, SeqNum
  <2>4. Ack("ack", Sent, r_window') \in AckType /\ down \in Seq(AckType)
    <3>1. r_window' \in SeqNum
      BY ReceiverTyped DEF TypeInv, TypeOK, ReceiverTypeOK, ReceiverStep, ReceiverNext
    <3> QED
      BY <2>3, <3>1, AckTyped, Numbers
  <2>5. Ack("ack", Sent, r_window') \in GoodAcks'
    <3>1. AckDue'
      BY <1>1, <1>2, <1>3 DEF AckDue
    <3>2. s_packet'.seq + 1 = Sent
      <4>1. s_packet'.seq = Sent - 1
        BY <1>2 DEF Inductive, SenderInv
      <4> QED
        BY <1>1, <4>1
    <3> QED
      BY <2>4, <3>1, <3>2 DEF GoodAcks, Ack
  <2>6. down' \in Seq(GoodAcks') /\ OneAck(down')
    <3>1. down' = Append(down, Ack("ack", Sent, r_window'))
      BY <1>2, <2>3
    <3>2. Append(down, Ack("ack", Sent, r_window')) \in Seq(GoodAcks')
      BY <2>2, <2>5, AppendStays
    <3>3. OneAck(Append(down, Ack("ack", Sent, r_window')))
      BY <2>1, <2>4, AppendAck
    <3> QED
      BY <3>1, <3>2, <3>3
  <2> QED
    BY <2>1, <2>2, <2>6 DEF AcksInv, NoAck, OneAck
<1>6. SenderInv'
  BY <1>2, <1>3 DEF Inductive, SenderInv
<1>7. ReceiverInv'
  <2>1. Len(r_written') = Sent
    BY <1>2
  <2>2. r_buf' = {}
    BY <1>2
  <2>3. r_min' = Len(r_written')
    BY <1>1, <1>2, <2>1 DEF DecaleBy
  <2>4. \A j \in 1 .. Sent : r_written'[j] = s_sent'[j]
    <3>1. \A j \in 1 .. k : r_written'[j] = s_sent[j]
      BY <1>2 DEF Inductive, ReceiverInv, k
    <3>2. r_written'[k + 1] = s_sent[k + 1]
      BY <1>2
    <3>3. \A j \in 1 .. Sent : j \in 1 .. k \/ j = k + 1
      BY <1>1, <1>2
    <3> QED
      BY <1>2, <3>1, <3>2, <3>3
  <2>5. Sent <= Sent /\ Sent <= Sent + 1
    BY <1>1
  <2> QED
    BY <1>2, <1>3, <2>1, <2>2, <2>3, <2>4, <2>5 DEF ReceiverInv
<1> QED
  BY <1>4, <1>5, <1>6, <1>7 DEF Inductive

\* Every step of the receiver keeps the invariant.
LEMMA ReceiverSafe == NoWrap /\ TypeInv /\ Inductive /\ ReceiverStep => Inductive'
<1> SUFFICES ASSUME NoWrap, TypeInv, Inductive, ReceiverStep PROVE Inductive'
  OBVIOUS
<1>1. UNCHANGED <<s_pc, senderVars, up, s_sock>> /\ ReceiverNext
  BY DEF ReceiverStep
<1>2. CASE RecvIgnored
  BY <1>1, <1>2, QuietSafe DEF RecvIgnored, Arrives
<1>3. CASE RecvFin
  BY <1>1, <1>3, RecvFinSafe
<1>4. CASE RecvOutOfWindow
  BY <1>1, <1>4, QuietSafe DEF RecvOutOfWindow, Decoded, Arrives
<1>5. CASE RecvTruncated
  BY <1>1, <1>5, RecvTruncatedSafe
<1>6. CASE RecvData
  BY <1>1, <1>6, RecvDataSafe
<1> QED
  BY <1>1, <1>2, <1>3, <1>4, <1>5, <1>6 DEF ReceiverNext

-----------------------------------------------------------------------------
\* The steps of the link.

\* What the faults make of a packet that was sent is undamaged or does not decode;
\* what they make of an ACK is still an ACK, and does not decode when damaged.
LEMMA FaultsSafe ==
  ASSUME NoWrap, TypeInv, Inductive
  PROVE  /\ \A p \in SentPackets : /\ p \in ReceivedPackets
                                   /\ Cut(p) \in ReceivedPackets
                                   /\ CorruptPacket(p) \subseteq ReceivedPackets
         /\ \A a \in GoodAcks : \A b \in {a, Cut(a)} \cup CorruptHeader(a) :
              b \in ReceivedAcks /\ b.type = a.type
<1>1. ASSUME NEW p \in SentPackets
      PROVE  /\ p \in ReceivedPackets
             /\ Cut(p) \in ReceivedPackets
             /\ CorruptPacket(p) \subseteq ReceivedPackets
  <2>1. p \in PacketType /\ p \in GoodPackets /\ ~p.tr
    BY DEF SentPackets, GoodPackets
  <2>2. Cut(p) \in PacketType /\ CorruptPacket(p) \subseteq PacketType
    BY <2>1, FaultsTyped
  <2>3. PktDecodes(Cut(p)) => Cut(p) \in GoodPackets
    <3>1. Cut(p).seq = p.seq /\ Cut(p).payload = p.payload
      BY <2>1 DEF Cut, PacketType
    <3> QED
      BY <2>1, <2>2, <3>1 DEF GoodPackets
  <2>4. \A c \in CorruptHeader(p) : ~PktDecodes(c)
    BY <2>1 DEF CorruptHeader, PktDecodes, PacketType
  <2>5. \A c \in CorruptPacket(p) : ~PktDecodes(c)
    BY <2>1, <2>4 DEF CorruptPacket, PktDecodes, PacketType
  <2> QED
    BY <2>1, <2>2, <2>3, <2>5 DEF ReceivedPackets
<1>2. ASSUME NEW a \in GoodAcks, NEW b \in {a, Cut(a)} \cup CorruptHeader(a)
      PROVE  b \in ReceivedAcks /\ b.type = a.type
  <2>1. a \in AckType /\ (a.type = "ack" => AckDue)
    BY DEF GoodAcks
  <2>2. b \in AckType
    BY <2>1, FaultsTyped
  <2>3. b.type = a.type
    BY <2>1 DEF Cut, CorruptHeader, AckType
  <2>4. AckDecodes(b) => b \in GoodAcks
    BY <2>1 DEF Cut, CorruptHeader, AckType, AckDecodes
  <2> QED
    BY <2>1, <2>2, <2>3, <2>4 DEF ReceivedAcks
<1> QED
  BY <1>1, <1>2

\* The link, towards the receiver: what is under way remains what the sender sent, harmed or not.
LEMMA ForwardSafe ==
  ASSUME NoWrap, TypeInv, Inductive, NEW i \in DOMAIN up, NEW p \in ReceivedPackets,
         Forward(i, <<p>>) \/ Forward(i, <<>>)
  PROVE  up' \in Seq(SentPackets) /\ r_sock' \in Seq(ReceivedPackets)
<1>1. up \in Seq(SentPackets) /\ r_sock \in Seq(ReceivedPackets)
  BY DEF Inductive, PacketsInv
<1>2. Without(up, i) \in Seq(SentPackets)
  BY <1>1, WithoutStays
<1>3. r_sock \o <<p>> \in Seq(ReceivedPackets) /\ r_sock \o <<>> = r_sock
  BY <1>1, AppendStays, ConcatEmptySeq
<1> QED
  BY <1>1, <1>2, <1>3 DEF Forward

\* The link, towards the sender: at most one ACK is under way, and in one queue.
LEMMA ReverseSafe ==
  ASSUME NoWrap, TypeInv, Inductive, s_pc \notin SenderEnded,
         NEW i \in DOMAIN down, NEW b \in ReceivedAcks, b.type = down[i].type,
         Reverse(i, <<b>>) \/ Reverse(i, <<>>)
  PROVE  /\ down' \in Seq(GoodAcks) /\ s_sock' \in Seq(ReceivedAcks)
         /\ OneAck(down') /\ OneAck(s_sock')
         /\ NoAck(down') \/ NoAck(s_sock')
<1>1. /\ down \in Seq(GoodAcks) /\ s_sock \in Seq(ReceivedAcks)
      /\ OneAck(down) /\ OneAck(s_sock)
      /\ NoAck(down) \/ NoAck(s_sock)
  BY DEF Inductive, AcksInv
<1>2. /\ down \in Seq(AckType) /\ s_sock \in Seq(AckType) /\ b \in AckType
  BY Numbers DEF ReceivedAcks
<1>3. /\ Without(down, i) \in Seq(GoodAcks) /\ OneAck(Without(down, i))
      /\ NoAck(down) => NoAck(Without(down, i))
      /\ b.type = "ack" => NoAck(Without(down, i)) /\ NoAck(s_sock)
  <2>1. b.type = "ack" => ~NoAck(down)
    BY DEF NoAck
  <2> QED
    BY <1>1, <1>2, <2>1, WithoutStays, WithoutAck
<1>4. s_sock \o <<b>> \in Seq(ReceivedAcks) /\ s_sock \o <<>> = s_sock
  BY <1>1, AppendStays, ConcatEmptySeq
<1>5. /\ OneAck(s_sock \o <<b>>)
      /\ NoAck(Without(down, i)) \/ NoAck(s_sock \o <<b>>)
  BY <1>1, <1>2, <1>3, AppendAck
<1>6. down' = Without(down, i) /\ (s_sock' = s_sock \o <<b>> \/ s_sock' = s_sock \o <<>>)
  BY DEF Reverse
<1> QED
  BY <1>1, <1>3, <1>4, <1>5, <1>6

\* Every step of the link keeps the invariant.
LEMMA LinkSafe == NoWrap /\ TypeInv /\ Inductive /\ LinkStep => Inductive'
<1> SUFFICES ASSUME NoWrap, TypeInv, Inductive, LinkStep PROVE Inductive'
  OBVIOUS
<1>1. /\ UNCHANGED <<s_pc, s_pos, s_seqnum, s_min, s_window, s_packet, s_buf, s_sent>>
      /\ UNCHANGED <<r_pc, r_min, r_buf, r_written>>
  BY DEF LinkStep, senderVars, receiverVars
<1>2. /\ Sent' = Sent /\ Closing' = Closing /\ AckDue' = AckDue
  BY <1>1 DEF Sent, Closing, EndOfInput, AckDue
<1>3. GoodPackets' = GoodPackets /\ GoodAcks' = GoodAcks
  BY <1>1, <1>2 DEF GoodPackets, GoodAcks
<1>4. /\ SentPackets' = SentPackets /\ ReceivedPackets' = ReceivedPackets
      /\ ReceivedAcks' = ReceivedAcks
  BY <1>2, <1>3 DEF SentPackets, ReceivedPackets, ReceivedAcks
<1>5. SenderInv' /\ ReceiverInv'
  BY <1>1, <1>2 DEF Inductive, SenderInv, ReceiverInv
<1>6. CASE RelayPacket \/ DropPacket \/ CutPacket \/ AlterPacket
  <2>1. UNCHANGED <<down, s_sock>>
    BY <1>6 DEF RelayPacket, DropPacket, CutPacket, AlterPacket, Forward
  <2>2. AcksInv'
    BY <1>1, <1>3, <1>4, <2>1 DEF Inductive, AcksInv, NoAck, OneAck
  <2>3. \A i \in Due(up, "forward") : i \in DOMAIN up /\ up[i] \in SentPackets
    BY LenProperties, ElementOfSeq DEF Due, Inductive, PacketsInv
  <2>4. \E i \in Due(up, "forward") : \E p \in ReceivedPackets :
          Forward(i, <<p>>) \/ Forward(i, <<>>)
    <3>1. CASE RelayPacket
      BY <2>3, <3>1, FaultsSafe DEF RelayPacket
    <3>2. CASE DropPacket
      BY <2>3, <3>2, FaultsSafe DEF DropPacket
    <3>3. CASE CutPacket
      BY <2>3, <3>3, FaultsSafe DEF CutPacket
    <3>4. CASE AlterPacket
      BY <2>3, <3>4, FaultsSafe DEF AlterPacket
    <3> QED
      BY <1>6, <3>1, <3>2, <3>3, <3>4
  <2>5. PacketsInv'
    BY <1>4, <2>3, <2>4, ForwardSafe DEF PacketsInv
  <2> QED
    BY <1>5, <2>2, <2>5 DEF Inductive
<1>7. CASE RelayAck \/ DropAck \/ CutAck \/ AlterAck
  <2>1. UNCHANGED <<up, r_sock>>
    BY <1>7 DEF RelayAck, DropAck, CutAck, AlterAck, Reverse
  <2>2. PacketsInv'
    BY <1>4, <2>1 DEF Inductive, PacketsInv
  <2>3. AcksInv'
    <3> SUFFICES ASSUME s_pc \notin SenderEnded PROVE AcksInv'
      BY <1>1 DEF AcksInv
    <3>1. \A i \in Due(down, "reverse") : i \in DOMAIN down /\ down[i] \in GoodAcks
      BY LenProperties, ElementOfSeq DEF Due, Inductive, AcksInv
    <3>2. \E i \in Due(down, "reverse") : \E b \in ReceivedAcks :
            b.type = down[i].type /\ (Reverse(i, <<b>>) \/ Reverse(i, <<>>))
      <4>1. CASE RelayAck
        BY <3>1, <4>1, FaultsSafe DEF RelayAck
      <4>2. CASE DropAck
        BY <3>1, <4>2, FaultsSafe DEF DropAck
      <4>3. CASE CutAck
        BY <3>1, <4>3, FaultsSafe DEF CutAck
      <4>4. CASE AlterAck
        BY <3>1, <4>4, FaultsSafe DEF AlterAck
      <4> QED
        BY <1>7, <4>1, <4>2, <4>3, <4>4
    <3> QED
      BY <1>3, <1>4, <3>1, <3>2, ReverseSafe DEF AcksInv
  <2> QED
    BY <1>5, <2>2, <2>3 DEF Inductive
<1> QED
  BY <1>6, <1>7 DEF LinkStep, LinkNext

-----------------------------------------------------------------------------
\* The inductive invariant holds along every transfer whose numbers do not wrap.
THEOREM Safety == ASSUME NoWrap PROVE Spec => []IInv
<1>1. Init => IInv
  BY InitTyped, InitSafe DEF IInv
<1>2. IInv /\ UNCHANGED vars => IInv'
  <2> SUFFICES ASSUME IInv, UNCHANGED vars PROVE IInv'
    OBVIOUS
  <2>1. TypeInv'
    BY DEF IInv, TypeInv, TypeOK, Spans, SenderTypeOK, ReceiverTypeOK, LinkTypeOK,
           vars, senderVars, receiverVars
  <2>2. UNCHANGED <<s_pc, s_pos, s_seqnum, s_min, s_window, s_packet, s_buf, s_sent,
                    r_pc, r_min, r_buf, r_written, up, r_sock, down, s_sock>>
    BY DEF vars, senderVars, receiverVars
  <2>3. Sent' = Sent /\ Closing' = Closing /\ AckDue' = AckDue
    BY <2>2 DEF Sent, Closing, EndOfInput, AckDue
  <2>4. GoodPackets' = GoodPackets /\ GoodAcks' = GoodAcks
    BY <2>2, <2>3 DEF GoodPackets, GoodAcks
  <2>5. PacketsInv' /\ AcksInv'
    BY <2>2, <2>3, <2>4
    DEF IInv, Inductive, PacketsInv, AcksInv, SentPackets, ReceivedPackets, ReceivedAcks,
        NoAck, OneAck
  <2>6. SenderInv' /\ ReceiverInv'
    BY <2>2, <2>3 DEF IInv, Inductive, SenderInv, ReceiverInv
  <2> QED
    BY <2>1, <2>5, <2>6 DEF IInv, Inductive
<1>3. IInv /\ [Next]_vars => IInv'
  BY <1>2, SenderTyped, ReceiverTyped, LinkTyped, SenderSafe, ReceiverSafe, LinkSafe
  DEF IInv, Next
<1> QED
  BY <1>1, <1>3, PTL DEF Spec

\* The part of it that TLC checks: sender, receiver and the datagrams between them agree.
THEOREM InductiveCorrect == ASSUME NoWrap PROVE Spec => []Inductive
<1>1. IInv => Inductive
  BY DEF IInv
<1> QED
  BY <1>1, Safety, PTL

\* The file of the receiver is at every moment a prefix of what was handed over,
\* without a loss, a repetition or an alteration, whatever the link does.
THEOREM PrefixCorrect == ASSUME NoWrap PROVE Spec => []PrefixWritten
<1>1. IInv => PrefixWritten
  <2> SUFFICES ASSUME IInv PROVE PrefixWritten
    OBVIOUS
  <2>1. DOMAIN r_written = 1 .. Len(r_written)
    BY LenProperties DEF IInv, TypeInv, TypeOK, ReceiverTypeOK
  <2> QED
    BY <2>1 DEF IInv, Inductive, ReceiverInv, PrefixWritten, Sent
<1> QED
  BY <1>1, Safety, PTL

\* A block is read only when the one before has been written.
THEOREM LockstepCorrect == ASSUME NoWrap PROVE Spec => []Lockstep
<1>1. IInv => Lockstep
  BY DEF IInv, Inductive, SenderInv, ReceiverInv, Closing, Sent, Lockstep
<1> QED
  BY <1>1, Safety, PTL

\* An exit with 0, on either side, means that the whole file has arrived.
THEOREM EndCorrect == ASSUME NoWrap PROVE Spec => []EndMeansComplete
<1>1. IInv => EndMeansComplete
  <2> SUFFICES ASSUME IInv, "done" \in {r_pc, s_pc}
               PROVE  s_pos = Len(Input) /\ r_written = s_sent
    BY DEF EndMeansComplete
  <2>1. r_pc = "done"
    BY DEF IInv, Inductive, SenderInv
  <2>2. s_pos = Len(Input) /\ Len(r_written) = Len(s_sent)
    BY <2>1 DEF IInv, Inductive, ReceiverInv, Closing, EndOfInput
  <2>3. /\ r_written \in Seq(Seq(Byte)) /\ s_sent \in Seq(Seq(Byte))
        /\ \A k \in 1 .. Len(r_written) : r_written[k] = s_sent[k]
    <3>1. Seq(Byte) \ {<<>>} \subseteq Seq(Byte)
      OBVIOUS
    <3> QED
      BY <3>1, SeqMonotone
      DEF IInv, Inductive, ReceiverInv, TypeInv, TypeOK, SenderTypeOK, ReceiverTypeOK
  <2> QED
    BY <2>2, <2>3, SeqEqual
<1> QED
  BY <1>1, Safety, PTL

\* The sender's count of free places is right, and what is acknowledged has left
\* its buffer.
THEOREM WindowCorrect == ASSUME NoWrap PROVE Spec => []WindowConserved
<1>1. IInv => WindowConserved
  <2> SUFFICES ASSUME IInv PROVE WindowConserved
    OBVIOUS
  <2>1. \A i \in 0 .. W : i = 0 \/ i \in 1 .. W
    BY WindowSizes
  <2> QED
    BY <2>1 DEF IInv, Inductive, SenderInv, WindowConserved
<1> QED
  BY <1>1, Safety, PTL

\* No packet is stored past the slots allocated.
THEOREM SlotsCorrect == ASSUME NoWrap PROVE Spec => []SlotsInBounds
<1>1. IInv => SlotsInBounds
  BY WindowSizes DEF IInv, Inductive, SenderInv, ReceiverInv, SlotsInBounds
<1> QED
  BY <1>1, Safety, PTL

-----------------------------------------------------------------------------
(* What is sent of a file. *)

\* Counting the blocks that may be sent.
LEMMA SendableCounts ==
  ASSUME NEW n \in Nat, NEW m \in Nat, n <= m
  PROVE  /\ Rank(n) \in Nat
         /\ Rank(n) <= Rank(m)
         /\ n + 1 \in Sendable(n + 1)
              => Rank(n + 1) = Rank(n) + 1
<1>1. \A i \in Nat : IsFiniteSet(Sendable(i))
  <2> TAKE i \in Nat
  <2>1. IsFiniteSet(1 .. i)
    BY FS_Interval
  <2> QED
    BY <2>1, FS_Subset DEF Sendable
<1>2. Sendable(n) \subseteq Sendable(m)
  BY DEF Sendable
<1>3. Rank(n) <= Rank(m)
  BY <1>1, <1>2, FS_Subset DEF Rank
<1>4. ASSUME n + 1 \in Sendable(n + 1)
      PROVE  Rank(n + 1) = Rank(n) + 1
  <2>1. Sendable(n + 1) = Sendable(n) \cup {n + 1} /\ n + 1 \notin Sendable(n)
    BY <1>4 DEF Sendable
  <2> QED
    BY <1>1, <2>1, FS_AddElement DEF Rank
<1> QED
  BY <1>1, <1>3, <1>4, FS_CardinalityType DEF Rank

\* What is taken of a block without a terminator, and of the memory after it, is the
\* block first.
LEMMA PayloadBegins ==
  ASSUME NEW block \in Seq(Byte), NEW tail \in Seq(Byte),
         \A i \in 1 .. Len(block) : block[i] \notin Terminators
  PROVE  BeginsWith(Payload(block \o tail), block)
<1> DEFINE whole == block \o tail
           n == StrLen(whole)
<1>1. /\ whole \in Seq(Byte) /\ Len(block) \in Nat /\ Len(tail) \in Nat
      /\ Len(whole) = Len(block) + Len(tail)
      /\ \A i \in 1 .. Len(block) : whole[i] = block[i]
  BY ConcatProperties, LenProperties
<1> HIDE DEF whole
<1>2. n \in 0 .. Len(whole) /\ (n < Len(whole) => whole[n + 1] \in Terminators)
  BY <1>1, StrLenIsFirst
<1> HIDE DEF n
<1>3. Len(block) <= n
  <2>1. SUFFICES ASSUME n < Len(block) PROVE FALSE
    BY <1>1, <1>2
  <2>2. n + 1 \in 1 .. Len(block) /\ n < Len(whole)
    BY <1>1, <1>2, <2>1
  <2> QED
    BY <1>1, <1>2, <2>2
<1> DEFINE payload == SubSeq(whole, 1, n)
<1>4. /\ payload \in Seq(Byte) /\ Len(payload) = n
      /\ \A i \in 1 .. n : payload[i] = whole[i]
  <2>1. \A i \in 1 .. n : whole[i] \in Byte
    BY <1>1, <1>2, ElementOfSeq
  <2> QED
    BY <1>1, <1>2, <2>1, SubSeqProperties
<1>5. payload = Payload(whole)
  BY DEF Payload, n
<1> HIDE DEF payload
<1> DEFINE kept == SubSeq(payload, 1, Len(block))
<1>6. /\ kept \in Seq(Byte) /\ Len(kept) = Len(block)
      /\ \A i \in 1 .. Len(block) : kept[i] = payload[i]
  <2>1. \A i \in 1 .. Len(block) : payload[i] \in Byte
    BY <1>1, <1>2, <1>3, <1>4, ElementOfSeq
  <2> QED
    BY <1>1, <1>2, <1>3, <1>4, <2>1, SubSeqProperties
<1>7. kept = block
  <2>1. \A i \in 1 .. Len(block) : kept[i] = block[i]
    BY <1>1, <1>2, <1>3, <1>4, <1>6
  <2> HIDE DEF kept
  <2> QED
    BY <1>6, <2>1, SeqEqual
<1> QED
  BY <1>1, <1>2, <1>3, <1>4, <1>5, <1>7 DEF BeginsWith, whole

\* No block of a plain file is skipped, cut or lost before it is handed over, whatever the
\* link, the timers and the memory do, and however often the numbers wrap.
LEMMA BlocksSentKept ==
  ASSUME PlainFile, TypeInv, BlocksSent, [Next]_vars
  PROVE  BlocksSent'
<1>1. /\ s_sent \in Seq(Seq(Byte) \ {<<>>}) /\ Sent \in Nat /\ Len(Input) \in Nat
      /\ Len(s_sent) \in Nat /\ s_pos \in 0 .. Len(Input)
  BY SenderConstants, LenProperties DEF TypeInv, TypeOK, SenderTypeOK, Sent
<1>2. CASE SendBlock
  <2>1. PICK tail \in Tails :
          LET payload == Payload(Input[s_pos + 1] \o tail)
          IN payload # <<>> /\ s_sent' = Append(s_sent, payload)
    BY <1>2 DEF SendBlock
  <2> DEFINE k == s_pos + 1
             payload == Payload(Input[k] \o tail)
  <2>2. s_pos = Sent /\ k \in 1 .. Len(Input) /\ k = Sent + 1 /\ s_pos' = k
    BY <1>1, <1>2 DEF SendBlock, EndOfInput, BlocksSent
  <2>3. Input[k] \in Seq(Byte) /\ tail \in Seq(Byte)
    BY <2>2, SenderConstants, ElementOfSeq
  <2>4. BeginsWith(payload, Input[k])
    BY <2>2, <2>3, PayloadBegins DEF PlainFile
  <2>5. payload \in Seq(Byte) \ {<<>>}
    BY <2>1, <2>2, InputBlock
  <2>6. s_sent' = Append(s_sent, payload)
    BY <2>1
  <2> HIDE DEF payload, k
  <2>7. /\ Len(s_sent') = Len(s_sent) + 1 /\ s_sent'[Len(s_sent) + 1] = payload
        /\ \A i \in 1 .. Len(s_sent) : s_sent'[i] = s_sent[i]
    BY <1>1, <2>5, <2>6, AppendProperties
  <2>8. Sent' = k /\ Sent' <= Len(Input)
    BY <2>2, <2>7 DEF Sent
  <2>9. \A i \in 1 .. Sent' : BeginsWith(s_sent'[i], Input[i])
    <3> SUFFICES ASSUME NEW i \in 1 .. Sent' PROVE BeginsWith(s_sent'[i], Input[i])
      OBVIOUS
    <3>1. i = k \/ i \in 1 .. Sent
      BY <1>1, <2>2, <2>8
    <3>2. CASE i = k
      BY <2>2, <2>4, <2>7, <3>2 DEF Sent
    <3>3. CASE i \in 1 .. Sent
      BY <2>7, <3>3 DEF BlocksSent, Sent
    <3> QED
      BY <3>1, <3>2, <3>3
  <2> QED
    BY <2>2, <2>8, <2>9 DEF BlocksSent, BeginsWith
<1>3. ~SkipBlock
  <2>1. SUFFICES ASSUME SkipBlock PROVE FALSE
    OBVIOUS
  <2> DEFINE k == s_pos + 1
  <2>2. k \in 1 .. Len(Input) /\ Payload(Input[k]) = <<>>
    BY <1>1, <2>1 DEF SkipBlock, EndOfInput
  <2>3. Input[k] \in Seq(Byte) /\ Input[k] # <<>>
    BY <2>2, SenderConstants, ElementOfSeq
  <2>4. <<>> \in Seq(Byte) /\ Len(<<>>) = 0
    OBVIOUS
  <2>5. BeginsWith(Payload(Input[k] \o <<>>), Input[k])
    BY <2>2, <2>3, <2>4, PayloadBegins DEF PlainFile
  <2>6. Input[k] \o <<>> = Input[k]
    BY <2>3, ConcatEmptySeq
  <2>7. Len(<<>>) >= Len(Input[k]) /\ Len(Input[k]) \in Nat
    BY <2>2, <2>3, <2>5, <2>6, LenProperties DEF BeginsWith
  <2> QED
    BY <2>3, <2>4, <2>7, EmptySeq
<1>4. CASE ~SendBlock
  <2>1. /\ s_sent' = s_sent
        /\ s_pc' \in {"read", "wait"} => s_pc \in {"read", "wait"} /\ s_pos' = s_pos
    <3>1. CASE SenderStep
      BY <1>3, <1>4, <3>1
      DEF SenderStep, SenderNext, SkipBlock, SendBlock, PayloadTooLong, SendFin, Resend,
          RecvUndecodable, RecvAck, RecvNack, RecvStaleNack, RecvFinAck, RecvFinOther,
          senderVars
    <3>2. CASE ReceiverStep \/ LinkStep \/ UNCHANGED vars
      BY <3>2 DEF ReceiverStep, LinkStep, vars, senderVars
    <3> QED
      BY <3>1, <3>2 DEF Next
  <2> QED
    BY <2>1 DEF BlocksSent, Sent, BeginsWith
<1> QED
  BY <1>2, <1>4

\* A plain file is handed over whole: no block is skipped, and each payload begins with its
\* block.
THEOREM BlocksSentCorrect == ASSUME PlainFile PROVE Spec => []BlocksSent
<1>1. Init => BlocksSent
  <2> SUFFICES ASSUME Init PROVE BlocksSent
    OBVIOUS
  <2>1. s_sent = <<>> /\ s_pos = 0 /\ Len(Input) \in Nat
    BY SenderConstants, LenProperties DEF Init, SenderInit
  <2>2. Sent = 0
    BY <2>1 DEF Sent
  <2> QED
    BY <2>1, <2>2 DEF BlocksSent
<1>2. TypeInv /\ BlocksSent /\ [Next]_vars => BlocksSent'
  BY BlocksSentKept
<1> QED
  BY <1>1, <1>2, TypeInvariant, PTL DEF Spec

\* Nothing that was read of a plain file is missing from the file of the receiver, whatever
\* the memory holds after the bytes read: each payload written begins with its block.
THEOREM BlocksKeptCorrect == ASSUME NoWrap, PlainFile PROVE Spec => []BlocksKept
<1>1. PrefixWritten /\ BlocksSent /\ TypeInv => BlocksKept
  <2> SUFFICES ASSUME PrefixWritten, BlocksSent, TypeInv, NEW k \in DOMAIN r_written
               PROVE  BeginsWith(r_written[k], Input[k])
    BY DEF BlocksKept
  <2>1. Len(r_written) \in Nat /\ Len(s_sent) \in Nat /\ DOMAIN r_written = 1 .. Len(r_written)
    BY LenProperties DEF TypeInv, TypeOK, ReceiverTypeOK, SenderTypeOK
  <2>2. k \in 1 .. Sent /\ r_written[k] = s_sent[k]
    BY <2>1 DEF PrefixWritten, Sent
  <2> QED
    BY <2>2 DEF BlocksSent
<1> QED
  BY <1>1, PrefixCorrect, BlocksSentCorrect, TypeInvariant, PTL

\* A block that gives nothing to send gives nothing whatever follows it in memory.
LEMMA SkippedWhole ==
  ASSUME NEW block \in Seq(Byte), NEW tail \in Seq(Byte),
         block # <<>>, Payload(block) = <<>>
  PROVE  Payload(block \o tail) = <<>>
<1> DEFINE whole == block \o tail
           n == StrLen(whole)
<1>1. /\ whole \in Seq(Byte) /\ Len(block) \in Nat /\ Len(tail) \in Nat
      /\ Len(whole) = Len(block) + Len(tail)
      /\ \A i \in 1 .. Len(block) : whole[i] = block[i]
      /\ Len(block) # 0
  BY ConcatProperties, LenProperties, EmptySeq
<1> HIDE DEF whole
<1>2. /\ StrLen(block) \in 0 .. Len(block)
      /\ StrLen(block) < Len(block) => block[StrLen(block) + 1] \in Terminators
  BY StrLenIsFirst
<1>3. StrLen(block) = 0
  <2>1. \A i \in 1 .. StrLen(block) : block[i] \in Byte
    BY <1>1, <1>2, ElementOfSeq
  <2>2. Len(SubSeq(block, 1, StrLen(block))) = StrLen(block)
    BY <1>1, <1>2, <2>1, SubSeqProperties
  <2>3. Len(<<>>) = 0
    OBVIOUS
  <2> QED
    BY <2>2, <2>3 DEF Payload
<1>4. whole[1] \in Terminators
  BY <1>1, <1>2, <1>3
<1>5. n \in 0 .. Len(whole) /\ \A i \in 1 .. n : whole[i] \notin Terminators
  BY <1>1, StrLenIsFirst
<1> HIDE DEF n
<1>6. n = 0
  BY <1>1, <1>4, <1>5
<1>7. SubSeq(whole, 1, 0) = <<>>
  BY <1>1, SubSeqProperties
<1> QED
  BY <1>6, <1>7 DEF Payload, whole, n

\* A file is handed over block by block, each that is not skipped once, in its turn,
\* whatever the link, the timers and the memory do, and however often the numbers wrap.
LEMMA LinesSentKept ==
  ASSUME TypeInv, LinesSent, [Next]_vars
  PROVE  LinesSent'
<1> DEFINE next == s_pos + 1
<1>1. /\ s_sent \in Seq(Seq(Byte) \ {<<>>}) /\ Sent \in Nat /\ Len(Input) \in Nat
      /\ Len(s_sent) \in Nat /\ s_pos \in 0 .. Len(Input) /\ s_pos \in Nat
  BY SenderConstants, LenProperties DEF TypeInv, TypeOK, SenderTypeOK, Sent
<1>2. \A k \in Sendable(next) : k \in Sendable(s_pos) \/ k = next
  BY <1>1 DEF Sendable
<1>3. \A k \in Sendable(s_pos) : k \in Nat /\ Rank(k) \in Nat /\ Rank(k) <= Rank(s_pos)
  <2>1. \A k \in Sendable(s_pos) : k \in Nat /\ k <= s_pos
    BY <1>1 DEF Sendable
  <2> QED
    BY <1>1, <2>1, SendableCounts
<1>4. /\ Rank(s_pos) \in Nat /\ Rank(next) \in Nat
      /\ next \in Sendable(next) => Rank(next) = Rank(s_pos) + 1
  BY <1>1, SendableCounts
<1>5. CASE SendBlock
  <2>1. PICK tail \in Tails :
          LET payload == Payload(Input[next] \o tail)
          IN payload # <<>> /\ s_sent' = Append(s_sent, payload)
    BY <1>5 DEF SendBlock
  <2> DEFINE payload == Payload(Input[next] \o tail)
  <2>2. /\ next \in 1 .. Len(Input) /\ s_pos' = next /\ s_pc = "read" /\ Sent = Rank(s_pos)
    BY <1>1, <1>5 DEF SendBlock, EndOfInput, LinesSent
  <2>3. payload \in PayloadsOf(next) /\ payload # <<>> /\ payload \in Seq(Byte) \ {<<>>}
    BY <2>1, <2>2, InputBlock DEF PayloadsOf
  <2>4. next \in Sendable(next)
    BY <2>2, <2>3 DEF Sendable
  <2>5. s_sent' = Append(s_sent, payload)
    BY <2>1
  <2> HIDE DEF payload
  <2>6. /\ Len(s_sent') = Len(s_sent) + 1 /\ s_sent'[Len(s_sent) + 1] = payload
        /\ \A i \in 1 .. Len(s_sent) : s_sent'[i] = s_sent[i]
    BY <1>1, <2>3, <2>5, AppendProperties
  <2>7. Sent' = Sent + 1 /\ Sent' = Rank(next) /\ Rank(next) = Rank(s_pos) + 1
    BY <1>4, <2>2, <2>4, <2>6 DEF Sent
  <2>8. ASSUME NEW k \in Sendable(next), Rank(k) <= Sent'
        PROVE  s_sent'[Rank(k)] \in PayloadsOf(k)
    <3>1. CASE k = next
      BY <2>2, <2>3, <2>6, <2>7, <3>1 DEF Sent
    <3>2. CASE k \in Sendable(s_pos)
      <4>1. Rank(k) <= Sent /\ Rank(k) \in Nat
        BY <1>3, <2>2, <3>2
      <4>2. s_sent[Rank(k)] \in PayloadsOf(k)
        BY <3>2, <4>1 DEF LinesSent
      <4>3. Rank(k) # 0
        <5>1. k \in Nat \ {0} /\ k \in Sendable(k)
          BY <1>1, <3>2 DEF Sendable
        <5>2. k - 1 \in Nat /\ k - 1 + 1 = k
          BY <5>1
        <5>3. Rank(k - 1 + 1) = Rank(k - 1) + 1 /\ Rank(k - 1) \in Nat
          BY <5>1, <5>2, SendableCounts
        <5> QED
          BY <5>2, <5>3
      <4>4. s_sent'[Rank(k)] = s_sent[Rank(k)]
        BY <1>1, <2>6, <4>1, <4>3 DEF Sent
      <4> QED
        BY <4>2, <4>4
    <3> QED
      BY <1>2, <3>1, <3>2
  <2> QED
    BY <2>2, <2>7, <2>8 DEF LinesSent
<1>6. CASE SkipBlock
  <2>1. /\ next \in 1 .. Len(Input) /\ s_pos' = next /\ s_pc = "read" /\ s_pc' = s_pc
        /\ s_sent' = s_sent /\ Payload(Input[next]) = <<>>
    BY <1>1, <1>6 DEF SkipBlock, EndOfInput
  <2>2. Input[next] \in Seq(Byte) /\ Input[next] # <<>>
    BY <2>1, SenderConstants, ElementOfSeq
  <2>3. next \notin Sendable(next)
    <3>1. \A tail \in Tails : Payload(Input[next] \o tail) = <<>>
      BY <2>1, <2>2, SenderConstants, SkippedWhole
    <3> QED
      BY <3>1 DEF Sendable, PayloadsOf
  <2>4. Sendable(next) = Sendable(s_pos)
    BY <1>1, <1>2, <2>3 DEF Sendable
  <2>5. Rank(next) = Rank(s_pos)
    BY <2>4 DEF Rank
  <2> HIDE DEF next
  <2> QED
    BY <2>1, <2>4, <2>5 DEF LinesSent, Sent
<1>7. CASE PayloadTooLong
  <2>1. /\ s_pos' = next /\ s_pc = "read" /\ s_pc' = "failed" /\ s_sent' = s_sent
        /\ Sent = Rank(s_pos)
    BY <1>7 DEF PayloadTooLong, LinesSent
  <2>2. ASSUME NEW k \in Sendable(next), Rank(k) <= Sent
        PROVE  s_sent[Rank(k)] \in PayloadsOf(k)
    <3>1. k # next
      BY <1>1, <1>4, <2>1, <2>2
    <3> QED
      BY <1>2, <2>2, <3>1 DEF LinesSent
  <2> QED
    BY <2>1, <2>2 DEF LinesSent, Sent
<1>8. CASE ~SendBlock /\ ~SkipBlock /\ ~PayloadTooLong
  <2>1. /\ s_sent' = s_sent /\ s_pos' = s_pos
        /\ s_pc \in {"failed", "crashed"} => s_pc' \in {"failed", "crashed"}
    <3>1. CASE SenderStep
      BY <1>8, <3>1
      DEF SenderStep, SenderNext, SendFin, Resend, RecvUndecodable, RecvAck, RecvNack,
          RecvStaleNack, RecvFinAck, RecvFinOther, senderVars
    <3>2. CASE ReceiverStep \/ LinkStep \/ UNCHANGED vars
      BY <3>2 DEF ReceiverStep, LinkStep, vars, senderVars
    <3> QED
      BY <3>1, <3>2 DEF Next
  <2> QED
    BY <2>1 DEF LinesSent, Sent
<1> QED
  BY <1>5, <1>6, <1>7, <1>8

\* At the start nothing is handed over.
LEMMA InitLines == Init => LinesSent
<1> SUFFICES ASSUME Init PROVE LinesSent
  OBVIOUS
<1>1. s_sent = <<>> /\ s_pos = 0 /\ Sent = 0
  BY DEF Init, SenderInit, Sent
<1>2. Sendable(0) = {}
  BY DEF Sendable
<1>3. Rank(0) = 0
  BY <1>2, FS_EmptySet DEF Rank
<1> QED
  BY <1>1, <1>2, <1>3 DEF LinesSent

\* Every transfer hands over each block that is not skipped, once, in its turn.
THEOREM LinesSentCorrect == Spec => []LinesSent
<1>1. Init => LinesSent
  BY InitLines
<1>2. TypeInv /\ LinesSent /\ [Next]_vars => LinesSent'
  BY LinesSentKept
<1> QED
  BY <1>1, <1>2, TypeInvariant, PTL DEF Spec

\* What is written is what the sender took of each block that is not skipped, in its turn,
\* and when the sender exits with 0 of all of them: from the prefix and the end alone.
LEMMA WrittenFromSent ==
  PrefixWritten /\ EndMeansComplete /\ LinesSent /\ TypeInv => LinesWritten
<1> SUFFICES ASSUME PrefixWritten, EndMeansComplete, LinesSent, TypeInv PROVE LinesWritten
  OBVIOUS
<1>1. /\ Len(r_written) \in Nat /\ Len(s_sent) \in Nat
      /\ DOMAIN r_written = 1 .. Len(r_written) /\ s_pos \in Nat
  BY LenProperties, SenderConstants DEF TypeInv, TypeOK, ReceiverTypeOK, SenderTypeOK
<1>2. ASSUME NEW k \in Sendable(s_pos), Rank(k) <= Len(r_written)
      PROVE  r_written[Rank(k)] \in PayloadsOf(k)
  <2>1. k \in Nat /\ k - 1 \in Nat /\ k - 1 + 1 = k /\ k \in Sendable(k)
    BY <1>1 DEF Sendable
  <2>2. Rank(k - 1 + 1) = Rank(k - 1) + 1 /\ Rank(k - 1) \in Nat
    BY <2>1, SendableCounts
  <2>3. Rank(k) \in 1 .. Len(r_written)
    BY <1>1, <1>2, <2>1, <2>2
  <2>4. Rank(k) <= Sent /\ r_written[Rank(k)] = s_sent[Rank(k)]
    BY <1>1, <2>3 DEF PrefixWritten, Sent
  <2> QED
    BY <2>4 DEF LinesSent
<1>3. ASSUME s_pc = "done" PROVE Len(r_written) = Rank(Len(Input))
  BY <1>3 DEF EndMeansComplete, LinesSent, Sent
<1> QED
  BY <1>2, <1>3 DEF LinesWritten

\* Of any file, with terminators or not (sender.c:307-319), the receiver gets each block that
\* is not skipped, up to its terminator, once and in order.
THEOREM LinesWrittenCorrect == ASSUME NoWrap PROVE Spec => []LinesWritten
BY WrittenFromSent, PrefixCorrect, EndCorrect, LinesSentCorrect, TypeInvariant, PTL

-----------------------------------------------------------------------------
(* What a step may do, from the invariant: the receiver gives up on a
   repetition only, and every step is a step of the promise (ReliableTransfer)
   or leaves it alone. *)

\* The receiver gives up on no packet but one whose payload is already in the file.
THEOREM DiesOnRepetitionCorrect == ASSUME NoWrap PROVE Spec => DiesOnRepetition
<1>1. ASSUME IInv, Next, r_pc = "run", r_pc' = "failed"
      PROVE  Head(r_sock).seq < Len(r_written)
  <2>1. RecvOutOfWindow
    BY <1>1
    DEF Next, SenderStep, LinkStep, ReceiverStep, ReceiverNext, RecvIgnored, RecvFin,
        RecvTruncated, RecvData
  <2>2. /\ Datagram.seq \in 0 .. Sent - 1
        /\ ~InWindow(Datagram.seq, r_min, r_max)
    BY <1>1, <2>1, DecodedIsGood DEF RecvOutOfWindow, IInv
  <2>3. /\ Sent \in Nat /\ Len(r_written) \in Nat /\ W \in Nat \ {0} /\ M \in Nat
        /\ Sent + W < M /\ r_max = DecaleBy(r_min, W)
        /\ r_min = Len(r_written) /\ Sent <= Len(r_written) + 1
        /\ Len(r_written) <= Sent
    BY <1>1, Numbers DEF IInv, Inductive, ReceiverInv
  <2> QED
    BY <2>2, <2>3 DEF InWindow, DecaleBy, Datagram
<1>2. IInv /\ [Next]_vars =>
        [r_pc = "run" /\ r_pc' = "failed" => Head(r_sock).seq < Len(r_written)]_vars
  BY <1>1
<1> QED
  BY <1>2, Safety, PTL DEF Spec, DiesOnRepetition

-----------------------------------------------------------------------------
\* The promise, seen from the transfer.
LEMMA PromiseInit == Init => Promise!Init
  BY DEF Init, SenderInit, ReceiverInit, Promise!Init

\* Of the sender, only a block that is sent is seen; of the receiver, a payload
\* written and the disconnection; of the link, nothing.
LEMMA PromiseStep ==
  ASSUME NoWrap, IInv, Next
  PROVE  Promise!Next \/ UNCHANGED Promise!vars
<1> USE DEF Promise!vars
<1>0. TypeInv /\ Inductive
  BY DEF IInv
<1>1. /\ Sent \in Nat /\ Len(r_written) \in Nat /\ Len(r_written) <= Sent
      /\ Sent <= Len(r_written) + 1 /\ Sent = Len(s_sent)
  BY <1>0, Numbers DEF Inductive, ReceiverInv, Sent
<1>2. CASE SenderStep
  <2>1. CASE SendBlock
    <3>0. PICK tail \in Tails :
            LET payload == Payload(Input[s_pos + 1] \o tail)
            IN payload # <<>> /\ s_sent' = Append(s_sent, payload)
      BY <2>1 DEF SendBlock
    <3> DEFINE payload == Payload(Input[s_pos + 1] \o tail)
    <3>1. /\ payload # <<>> /\ s_sent' = Append(s_sent, payload)
          /\ UNCHANGED <<r_pc, r_written>> /\ r_pc # "done" /\ Len(r_written) = Sent
      BY <1>0, <1>2, <2>1, <3>0, AtRead
      DEF SendBlock, SenderStep, receiverVars, Inductive, SenderInv
    <3>2. s_pos + 1 \in DOMAIN Input
      <4>1. s_pos \in 0 .. Len(Input) /\ s_pos # Len(Input)
        BY <1>0, <2>1 DEF SendBlock, EndOfInput, TypeInv, TypeOK, SenderTypeOK
      <4>2. Len(Input) \in Nat /\ DOMAIN Input = 1 .. Len(Input)
        BY SenderConstants, LenProperties
      <4>3. s_pos + 1 \in 1 .. Len(Input)
        <5>1. Len(Input) \in Nat
          BY <4>2
        <5> QED
          BY <4>1, <5>1
      <4> QED
        BY <4>2, <4>3
    <3>3. payload \in {Payload(Input[k] \o t) : k \in DOMAIN Input, t \in Tails} \ {<<>>}
      BY <3>1, <3>2
    <3>4. Len(s_sent) - Len(r_written) < 1
      BY <1>1, <3>1
    <3>5. Promise!Submit
      BY <3>1, <3>3, <3>4 DEF Promise!Submit
    <3> QED
      BY <3>5 DEF Promise!Next
  <2>2. CASE ~SendBlock
    <3>1. UNCHANGED s_sent
      BY <1>2, <2>2
      DEF SenderStep, SenderNext, SkipBlock, PayloadTooLong, SendFin, Resend, RecvUndecodable, RecvAck,
          RecvNack, RecvStaleNack, RecvFinAck, RecvFinOther, senderVars
    <3> QED
      BY <1>2, <3>1 DEF SenderStep, receiverVars
  <2> QED
    BY <2>1, <2>2
<1>3. CASE ReceiverStep
  <2>1. UNCHANGED s_sent
    BY <1>3 DEF ReceiverStep, senderVars
  <2>2. CASE RecvData
    <3>1. /\ r_pc = "run" /\ r_pc' \in {"run", "full"}
          /\ Inductive' /\ TypeInv' /\ Sent' = Sent
      BY <1>0, <1>3, <2>1, <2>2, ReceiverTyped, ReceiverSafe
      DEF RecvData, Decoded, Arrives, Sent
    <3>2. CASE UNCHANGED r_written
      BY <2>1, <3>1, <3>2
    <3>3. CASE r_written' # r_written
      <4>1. Len(r_written') = Len(r_written) + 1 /\ Sent = Len(r_written) + 1
            /\ r_written' = Append(r_written, s_sent[Len(r_written) + 1])
        BY <1>0, <1>3, <2>2, <3>3, RecvDataWrites DEF ReceiverStep
      <4>2. Promise!Deliver
        BY <1>1, <2>1, <3>1, <4>1 DEF Promise!Deliver
      <4> QED
        BY <4>2 DEF Promise!Next
    <3> QED
      BY <3>2, <3>3
  <2>3. CASE RecvFin
    <3>1. Len(r_written) = Len(s_sent) /\ r_pc # "done" /\ r_pc' = "done"
          /\ UNCHANGED r_written
      BY <1>0, <2>3, DecodedIsGood DEF RecvFin, Decoded, Arrives, Closing
    <3>2. Promise!Close
      BY <2>1, <3>1 DEF Promise!Close
    <3> QED
      BY <3>2 DEF Promise!Next
  <2>4. CASE RecvIgnored \/ RecvOutOfWindow \/ RecvTruncated
    BY <2>1, <2>4
    DEF RecvIgnored, RecvOutOfWindow, RecvTruncated, Decoded, Arrives, receiverVars
  <2> QED
    BY <1>3, <2>2, <2>3, <2>4 DEF ReceiverStep, ReceiverNext
<1>4. CASE LinkStep
  BY <1>4 DEF LinkStep, senderVars, receiverVars
<1> QED
  BY <1>2, <1>3, <1>4 DEF Next

\* The two programs and the link keep the promise of a reliable transfer with one
\* payload on the way, as far as safety goes.
THEOREM Refinement == ASSUME NoWrap PROVE Spec => ImplementsPromise
<1>1. UNCHANGED vars => UNCHANGED Promise!vars
  BY DEF vars, senderVars, receiverVars, Promise!vars
<1>2. IInv /\ [Next]_vars => [Promise!Next]_Promise!vars
  BY <1>1, PromiseStep
<1> QED
  BY <1>2, PromiseInit, Safety, PTL DEF Spec, ImplementsPromise, Promise!Spec
-----------------------------------------------------------------------------
(* No timer expires before the answer: one datagram is under way at the most,
   for every file, every window and everything the link may do to a datagram,
   in either direction. *)
SInv == TypeInv /\ StopAndWait

-----------------------------------------------------------------------------
\* The numbers on both sides of the wrap: packet k is in both windows as long as it is not
\* written, and out of the receiver's once it is; its ACK is the number of the next.
LEMMA NumberOfPacket ==
  ASSUME NEW k \in Nat, k < M + W
  PROVE  /\ Number(k) \in SeqNum /\ Stuck(k) \in SeqNum /\ Taken(k) = Number(k)
         /\ InWindow(Number(k), Stuck(k), DecaleBy(Stuck(k), W))
         /\ InWindow(Number(k), Number(k), DecaleBy(Number(k), W))
         /\ ~InWindow(Number(k), Number(k + 1), DecaleBy(Number(k + 1), W))
         /\ SlotIndex(Number(k), Number(k)) = 0
         /\ k < M => SlotIndex(Number(k), Stuck(k)) = 0
         /\ k + 1 < M + W => SlotIndex(Number(k), Stuck(k)) # W
         /\ SeqnumInc(Number(k)) = Number(k + 1)
         /\ DecaleBy(Number(k), 1) = Number(k + 1)
  BY WindowSizes
  DEF Number, Stuck, Taken, SeqNum, InWindow, DecaleBy, SlotIndex, SeqnumInc

\* Packet M + W, the first that the window of the sender does not allow, takes the number
\* M - 1 again, which the receiver does not await.
LEMMA NumberTwice ==
  LET k == M + W
  IN  /\ k \in Nat /\ Taken(k) = M - 1 /\ Taken(k) \in SeqNum /\ Stuck(k) = M - 1
      /\ Number(k) \in SeqNum
      /\ ~InWindow(Number(k), Stuck(k), DecaleBy(Stuck(k), W))
      /\ InWindow(Taken(k), Stuck(k), DecaleBy(Stuck(k), W))
      /\ ~InWindow(Taken(k), Number(k), DecaleBy(Number(k), W))
      /\ SlotIndex(Taken(k), Stuck(k)) = 0
  BY WindowSizes DEF Number, Stuck, Taken, SeqNum, InWindow, DecaleBy, SlotIndex

\* What the loop at the top (sender.c:164) makes of the number.
LEMMA NumberTaken ==
  ASSUME NEW k \in Nat, k <= M + W, NEW s \in {Number(k), Taken(k)}
  PROVE  /\ SkipToWindow(s, Stuck(k), DecaleBy(Stuck(k), W)) = Taken(k)
         /\ Taken(k) \in SeqNum /\ Number(k) \in SeqNum /\ Stuck(k) \in SeqNum
<1>1. CASE k < M + W
  BY <1>1, NumberOfPacket DEF SkipToWindow
<1>2. CASE k = M + W
  <2>1. Stuck(k) \in SeqNum
    BY <1>2, NumberTwice
  <2> QED
    BY <1>2, <2>1, NumberTwice DEF SkipToWindow
<1> QED
  BY <1>1, <1>2, WindowSizes

\* The loop of the sender on the ACK of packet k (sender.c:450): it takes one turn, or none
\* from the wrap on.
LEMMA LoopOnAck ==
  ASSUME NEW k \in Nat, k < M + W
  PROVE  LET ack == Number(k + 1)
             n == IF ack > Stuck(k) THEN ack - Stuck(k) ELSE 0
         IN /\ n \in Nat
            /\ DecaleBy(Stuck(k), n) = Stuck(k + 1)
            /\ \A i \in Stuck(k) .. ack - 1 : i = Number(k)
            /\ k + 1 >= M => Stuck(k) .. ack - 1 = {}
  BY WindowSizes DEF Number, Stuck, DecaleBy

-----------------------------------------------------------------------------
\* What the types say of the lengths and of the data.
LEMMA Lengths ==
  ASSUME TypeInv
  PROVE  /\ Sent \in Nat /\ Sent = Len(s_sent) /\ Len(r_written) \in Nat
         /\ s_pos \in Nat /\ Len(Input) \in Nat /\ s_pos <= Len(Input)
         /\ s_max = DecaleBy(s_min, W) /\ r_max = DecaleBy(r_min, W)
         /\ r_min \in SeqNum /\ r_max \in SeqNum /\ r_window \in SeqNum /\ r_err \in SeqNum
         /\ s_sent \in Seq(Seq(Byte) \ {<<>>}) /\ r_written \in Seq(Seq(Byte))
         /\ \A k \in 1 .. Sent : s_sent[k] \in Seq(Byte) /\ s_sent[k] # <<>>
         /\ s_packet \in [seq : SeqNum, payload : Seq(Byte)]
         /\ s_buf \in [0 .. W -> {"uninit", "null", "packet"}]
         /\ M \in Nat /\ W \in Nat \ {0}
<1>1. /\ s_sent \in Seq(Seq(Byte) \ {<<>>}) /\ r_written \in Seq(Seq(Byte))
      /\ s_pos \in 0 .. Len(Input)
      /\ s_packet \in [seq : SeqNum, payload : Seq(Byte)]
      /\ s_buf \in [0 .. W -> {"uninit", "null", "packet"}]
      /\ r_min \in SeqNum /\ r_max \in SeqNum /\ r_window \in SeqNum /\ r_err \in 0 .. W
  BY DEF TypeInv, TypeOK, SenderTypeOK, ReceiverTypeOK
<1>2. Sent \in Nat /\ Len(r_written) \in Nat /\ Len(Input) \in Nat
  BY <1>1, SenderConstants, LenProperties DEF Sent
<1>3. \A k \in 1 .. Sent : s_sent[k] \in Seq(Byte) \ {<<>>}
  BY <1>1, ElementOfSeq DEF Sent
<1>4. r_err \in SeqNum
  BY <1>1, WindowSizes DEF SeqNum
<1> QED
  BY <1>1, <1>2, <1>3, <1>4, WindowSizes DEF TypeInv, Spans, Sent

\* A queue of one datagram is empty without it.
LEMMA LastOne ==
  ASSUME NEW S, NEW q \in Seq(S), q # <<>>, Len(q) <= 1
  PROVE  /\ Len(q) = 1 /\ Tail(q) = <<>> /\ Head(q) = q[1] /\ q[1] \in S
         /\ \A i \in DOMAIN q : i = 1 /\ Without(q, i) = <<>>
<1>0. Len(q) \in Nat /\ Len(q) # 0 /\ DOMAIN q = 1 .. Len(q) /\ Head(q) = q[1]
  BY LenProperties, EmptySeq, HeadTailProperties
<1>1. Len(q) = 1 /\ DOMAIN q = 1 .. 1 /\ Head(q) = q[1] /\ q[1] \in S
  BY <1>0, ElementOfSeq
<1>2. Tail(q) \in Seq(S) /\ Len(Tail(q)) = 0
  BY <1>1, HeadTailProperties
<1>3. Tail(q) = <<>>
  BY <1>2, EmptySeq
<1>4. ASSUME NEW i \in DOMAIN q PROVE i = 1 /\ Without(q, i) = <<>>
  <2>1. Without(q, i) \in Seq(S) /\ Len(Without(q, i)) = 0
    BY <1>1, WithoutStays
  <2> QED
    BY <1>1, <2>1, EmptySeq
<1> QED
  BY <1>1, <1>3, <1>4

\* A queue of one datagram.
LEMMA Single ==
  ASSUME NEW S, NEW d \in S
  PROVE  /\ Append(<<>>, d) = <<d>> /\ <<>> \o <<d>> = <<d>> /\ <<>> \o <<>> = <<>>
         /\ <<d>> \in Seq(S) /\ Len(<<d>>) = 1 /\ Head(<<d>>) = d /\ <<d>> # <<>>
         /\ <<d>>[1] = d /\ DOMAIN <<d>> = {1}
  OBVIOUS

\* Where the datagram under way is, there is no other.
LEMMA Alone ==
  ASSUME SInv
  PROVE  /\ up \in Seq(Awaiting) /\ down \in Seq(Answers)
         /\ up \in Seq({p \in Awaiting : ~p.tr})
         /\ r_sock \in Seq({p \in PacketType : PktDecodes(p) => p \in Awaiting})
         /\ s_sock \in Seq({a \in AckType : AckDecodes(a) => a \in Answers})
         /\ Len(up) <= 1 /\ Len(r_sock) <= 1 /\ Len(down) <= 1 /\ Len(s_sock) <= 1
         /\ up # <<>> => r_sock = <<>> /\ down = <<>> /\ s_sock = <<>>
         /\ r_sock # <<>> => up = <<>> /\ down = <<>> /\ s_sock = <<>>
         /\ down # <<>> => up = <<>> /\ r_sock = <<>> /\ s_sock = <<>>
         /\ s_sock # <<>> => up = <<>> /\ r_sock = <<>> /\ down = <<>>
         /\ InFlight = 0 => up = <<>> /\ r_sock = <<>> /\ down = <<>> /\ s_sock = <<>>
         /\ InFlight \in 0 .. 1
<1>1. /\ up \in Seq({p \in Awaiting : ~p.tr})
      /\ r_sock \in Seq({p \in PacketType : PktDecodes(p) => p \in Awaiting})
      /\ down \in Seq(Answers)
      /\ s_sock \in Seq({a \in AckType : AckDecodes(a) => a \in Answers})
      /\ InFlight <= 1
  BY DEF SInv, StopAndWait, OneDatagram
<1>2. up \in Seq(Awaiting)
  BY <1>1, SeqMonotone
<1>3. /\ Len(up) \in Nat /\ Len(r_sock) \in Nat /\ Len(down) \in Nat /\ Len(s_sock) \in Nat
      /\ Len(up) = 0 => up = <<>>
      /\ Len(r_sock) = 0 => r_sock = <<>>
      /\ Len(down) = 0 => down = <<>>
      /\ Len(s_sock) = 0 => s_sock = <<>>
  BY <1>1, LenProperties, EmptySeq
<1> QED
  BY <1>1, <1>2, <1>3 DEF InFlight

\* The queues after a step, without a datagram and with one: what OneDatagram asks for.
LEMMA NoDatagram ==
  up' = <<>> /\ r_sock' = <<>> /\ down' = <<>> /\ s_sock' = <<>> =>
    OneDatagram' /\ InFlight' = 0 /\ Unanswered'
  BY DEF OneDatagram, InFlight, Unanswered, NoAck

LEMMA OnePacket ==
  ASSUME NEW d \in {p \in Awaiting' : ~p.tr}, up' = Append(<<>>, d),
         r_sock' = <<>>, down' = <<>>, s_sock' = <<>>
  PROVE  OneDatagram' /\ Unanswered'
<1>1. /\ up' = <<d>> /\ <<d>> \in Seq({p \in Awaiting' : ~p.tr})
      /\ Len(<<d>>) = 1
  BY Single
<1>2. InFlight' <= 1
  BY <1>1 DEF InFlight
<1> QED
  BY <1>1, <1>2 DEF OneDatagram, Unanswered, NoAck

LEMMA OneAnswer ==
  ASSUME NEW a \in Answers', down' = Append(<<>>, a),
         up' = <<>>, r_sock' = <<>>, s_sock' = <<>>
  PROVE  /\ OneDatagram' /\ down' = <<a>> /\ Head(down') = a /\ down' # <<>>
         /\ a.type # "ack" => Unanswered'
<1>1. /\ down' = <<a>> /\ <<a>> \in Seq(Answers') /\ Len(<<a>>) = 1 /\ Head(<<a>>) = a
      /\ <<a>> # <<>> /\ DOMAIN <<a>> = {1} /\ <<a>>[1] = a
  BY Single
<1>2. InFlight' <= 1
  BY <1>1 DEF InFlight
<1>3. OneDatagram'
  BY <1>1, <1>2 DEF OneDatagram
<1>4. a.type # "ack" => Unanswered'
  BY <1>1 DEF NoAck, Unanswered
<1> QED
  BY <1>1, <1>3, <1>4

\* The invariant holds when the programs start.
LEMMA InitAgrees == Init => StopAndWait
<1> SUFFICES ASSUME Init PROVE StopAndWait
  OBVIOUS
<1>1. Sent = 0 /\ Len(r_written) = 0
  BY DEF Init, SenderInit, ReceiverInit, Sent
<1>2. OneDatagram /\ InFlight = 0
  BY DEF Init, LinkInit, OneDatagram, InFlight
<1>3. Number(0) = 0 /\ Stuck(0) = 0 /\ ~(0 >= M) /\ 0 <= M + W /\ W \in 0 .. W
  BY WindowSizes DEF Number, Stuck
<1>4. SenderAgrees
  BY <1>1, <1>2, <1>3 DEF SenderAgrees, Init, SenderInit
<1>5. ReceiverAgrees
  BY <1>1, <1>3 DEF ReceiverAgrees, Init, SenderInit, ReceiverInit
<1> QED
  BY <1>2, <1>4, <1>5 DEF StopAndWait

-----------------------------------------------------------------------------
\* The steps of the sender, in the order of SenderNext; the receiver, its socket and what
\* it sends are as they were.
\* What the sender finds at the top of its loop: no datagram under way.
LEMMA AtTheTop ==
  ASSUME SInv, s_pc = "read"
  PROVE  /\ up = <<>> /\ r_sock = <<>> /\ down = <<>> /\ s_sock = <<>>
         /\ Sent \in Nat /\ Sent <= M + W
         /\ s_min = Stuck(Sent) /\ SkipToWindow(s_seqnum, s_min, s_max) = Taken(Sent)
         /\ Sent >= M => s_buf[0] = "packet"
         /\ r_pc = "run" /\ Len(r_written) = Sent /\ Taken(Sent) \in SeqNum
<1>1. /\ s_min = Stuck(Sent) /\ s_seqnum \in {Number(Sent), Taken(Sent)} /\ InFlight = 0
      /\ Sent >= M => s_buf[0] = "packet"
      /\ r_pc = "run" /\ Len(r_written) = Sent /\ Sent <= M + W
  BY DEF SInv, StopAndWait, SenderAgrees, ReceiverAgrees
<1>2. Sent \in Nat /\ s_max = DecaleBy(s_min, W)
  BY Lengths DEF SInv
<1>3. SkipToWindow(s_seqnum, s_min, s_max) = Taken(Sent) /\ Taken(Sent) \in SeqNum
  BY <1>1, <1>2, NumberTaken
<1> QED
  BY <1>1, <1>2, <1>3, Alone

\* SkipBlock: the window stays, and so does the number while it is in the window.
LEMMA SkipBlockAgrees ==
  ASSUME SInv, SkipBlock, UNCHANGED <<r_pc, receiverVars, r_sock, down>>
  PROVE  StopAndWait'
<1>1. /\ s_pc = "read" /\ s_pc' = "read" /\ s_seqnum' = Taken(Sent)
      /\ UNCHANGED <<s_min, s_packet, s_buf, s_sent, up, s_sock>>
      /\ UNCHANGED <<r_pc, r_min, r_buf, r_written, r_sock, down>>
  BY AtTheTop DEF SkipBlock, receiverVars
<1>2. /\ up = <<>> /\ r_sock = <<>> /\ down = <<>> /\ s_sock = <<>> /\ Sent' = Sent
      /\ r_pc = "run"
  BY <1>1, AtTheTop DEF Sent
<1>3. OneDatagram' /\ InFlight' = 0
  <2>1. up' = <<>> /\ r_sock' = <<>> /\ down' = <<>> /\ s_sock' = <<>>
    BY <1>1, <1>2
  <2> QED
    BY <2>1, NoDatagram
<1>4. SenderAgrees'
  BY <1>1, <1>2, <1>3 DEF SInv, StopAndWait, SenderAgrees
<1>5. ReceiverAgrees'
  BY <1>1, <1>2 DEF SInv, StopAndWait, ReceiverAgrees
<1> QED
  BY <1>3, <1>4, <1>5 DEF StopAndWait

\* SendBlock: the packet is alone under way.
LEMMA SendBlockAgrees ==
  ASSUME SInv, SendBlock, UNCHANGED <<r_pc, receiverVars, r_sock, down>>
  PROVE  StopAndWait'
<1>0. PICK tail \in Tails :
        LET payload == Payload(Input[s_pos + 1] \o tail)
        IN /\ payload # <<>>
           /\ s_packet' = [seq |-> Taken(Sent), payload |-> payload]
           /\ s_seqnum' = SeqnumInc(Taken(Sent))
           /\ s_buf' = [s_buf EXCEPT ![SlotIndex(Taken(Sent), s_min)] = "packet"]
           /\ up' = Append(up, Packet(Taken(Sent), payload))
           /\ s_sent' = Append(s_sent, payload)
  BY AtTheTop DEF SendBlock
<1> DEFINE payload == Payload(Input[s_pos + 1] \o tail)
           d == Packet(Taken(Sent), payload)
<1>1. /\ s_pc = "read" /\ s_pc' = "wait" /\ payload # <<>>
      /\ s_packet' = [seq |-> Taken(Sent), payload |-> payload]
      /\ s_seqnum' = SeqnumInc(Taken(Sent))
      /\ s_buf' = [s_buf EXCEPT ![SlotIndex(Taken(Sent), Stuck(Sent))] = "packet"]
      /\ up' = Append(<<>>, d)
      /\ s_sent' = Append(s_sent, payload)
      /\ UNCHANGED <<s_min, s_sock>>
      /\ UNCHANGED <<r_pc, r_min, r_buf, r_written, r_sock, down>>
      /\ r_sock = <<>> /\ down = <<>> /\ s_sock = <<>>
      /\ s_min = Stuck(Sent) /\ r_pc = "run" /\ Len(r_written) = Sent
      /\ Sent >= M => s_buf[0] = "packet"
      /\ Taken(Sent) \in SeqNum /\ Sent <= M + W
  BY <1>0, AtTheTop DEF SendBlock, receiverVars
<1>2. /\ Sent \in Nat /\ M \in Nat /\ W \in Nat \ {0}
      /\ s_sent \in Seq(Seq(Byte) \ {<<>>}) /\ s_pos \in Nat /\ Len(Input) \in Nat
      /\ s_pos <= Len(Input) /\ s_buf \in [0 .. W -> {"uninit", "null", "packet"}]
  BY Lengths DEF SInv
<1>3. s_pos + 1 \in 1 .. Len(Input)
  BY <1>2 DEF SendBlock, EndOfInput
<1>4. payload \in Seq(Byte) \ {<<>>}
  BY <1>1, <1>3, InputBlock
<1> HIDE DEF payload
<1>6. /\ Sent' = Sent + 1
      /\ \A k \in 1 .. Sent : s_sent'[k] = s_sent[k]
      /\ s_sent'[Sent + 1] = payload
  BY <1>1, <1>2, <1>4, AppendProperties DEF Sent
<1>7. s_buf'[0] = "packet"
  <2>1. 0 \in 0 .. W /\ 0 \in Nat
    BY <1>2
  <2>2. Sent < M => SlotIndex(Taken(Sent), Stuck(Sent)) = 0
    BY <1>2, NumberOfPacket
  <2>3. CASE Sent < M
    BY <1>1, <1>2, <2>1, <2>2, <2>3
  <2>4. CASE Sent >= M
    BY <1>1, <1>2, <2>1, <2>4
  <2> QED
    BY <1>2, <2>3, <2>4
<1>8. Sent' < M + W => s_buf'[W] = "uninit"
  <2> SUFFICES ASSUME Sent + 1 < M + W PROVE s_buf'[W] = "uninit"
    BY <1>6
  <2>1. Sent < M + W /\ W \in 0 .. W
    BY <1>2
  <2>2. s_buf[W] = "uninit"
    BY <2>1 DEF SInv, StopAndWait, SenderAgrees
  <2>3. SlotIndex(Taken(Sent), Stuck(Sent)) # W
    BY <1>2, <2>1, NumberOfPacket
  <2> QED
    BY <1>1, <1>2, <2>1, <2>2, <2>3
<1>9. d \in {p \in Awaiting' : ~p.tr}
  <2>1. d \in PacketType
    BY <1>1, <1>4, PacketTyped
  <2> QED
    BY <1>1, <2>1 DEF Packet, Awaiting
<1> HIDE DEF d
<1>10. OneDatagram' /\ Unanswered'
  <2>1. r_sock' = <<>> /\ down' = <<>> /\ s_sock' = <<>>
    BY <1>1
  <2> QED
    BY <1>1, <1>9, <2>1, OnePacket
<1>11. SenderAgrees'
  <2>1. Sent' >= 1 /\ Sent' - 1 = Sent /\ Sent' <= M + W + 1
    BY <1>1, <1>2, <1>6
  <2> QED
    BY <1>1, <1>6, <1>7, <1>8, <2>1 DEF SenderAgrees
<1>12. ReceiverAgrees'
  <2>1. /\ r_min = Number(Len(r_written)) /\ r_buf = {} /\ Len(r_written) <= M + W
        /\ \A k \in 1 .. Len(r_written) : r_written[k] = s_sent[k]
    BY DEF SInv, StopAndWait, ReceiverAgrees
  <2>2. \A k \in 1 .. Len(r_written) : r_written[k] = s_sent'[k]
    BY <1>1, <1>6, <2>1
  <2>3. Len(r_written) = Sent' - 1
    BY <1>1, <1>2, <1>6
  <2> QED
    BY <1>1, <1>10, <2>1, <2>2, <2>3 DEF ReceiverAgrees
<1> QED
  BY <1>10, <1>11, <1>12 DEF StopAndWait

\* SendFin: the disconnection is alone under way, and everything sent is written.
LEMMA SendFinAgrees ==
  ASSUME SInv, SendFin, UNCHANGED <<r_pc, receiverVars, r_sock, down>>
  PROVE  StopAndWait'
<1> DEFINE d == Packet(Taken(Sent), <<>>)
<1>1. /\ s_pc = "read" /\ s_pc' = "fin" /\ EndOfInput
      /\ s_packet' = [seq |-> Taken(Sent), payload |-> <<>>]
      /\ up' = Append(<<>>, d)
      /\ UNCHANGED <<s_pos, s_min, s_buf, s_sent, s_sock>>
      /\ UNCHANGED <<r_pc, r_min, r_buf, r_written, r_sock, down>>
      /\ r_sock = <<>> /\ down = <<>> /\ s_sock = <<>> /\ up = <<>>
      /\ r_pc = "run" /\ Len(r_written) = Sent /\ Taken(Sent) \in SeqNum
  BY AtTheTop DEF SendFin, receiverVars
<1>2. Sent' = Sent /\ EndOfInput'
  BY <1>1 DEF Sent, EndOfInput
<1>3. d \in {p \in Awaiting' : ~p.tr}
  <2>0. <<>> \in Seq(Byte)
    OBVIOUS
  <2>1. d \in PacketType
    BY <1>1, <2>0, PacketTyped
  <2> QED
    BY <1>1, <2>1 DEF Packet, Awaiting
<1> HIDE DEF d
<1>4. OneDatagram'
  <2>1. r_sock' = <<>> /\ down' = <<>> /\ s_sock' = <<>>
    BY <1>1
  <2> QED
    BY <1>1, <1>3, <2>1, OnePacket
<1>5. SenderAgrees'
  BY <1>1, <1>2 DEF SenderAgrees, SInv, StopAndWait
<1>6. ReceiverAgrees'
  BY <1>1, <1>2 DEF ReceiverAgrees, SInv, StopAndWait
<1> QED
  BY <1>4, <1>5, <1>6 DEF StopAndWait

\* The packet that waits is sent again, when nothing is under way (Resend) or instead of
\* the NACK that is taken (RecvNack).
LEMMA AgainAgrees ==
  ASSUME SInv, s_pc \in {"wait", "fin"}, UNCHANGED <<s_pc, senderVars>>,
         up' = Append(up, Packet(s_packet.seq, s_packet.payload)), up = <<>>,
         r_sock = <<>>, down = <<>>, s_sock' = <<>>,
         UNCHANGED <<r_pc, receiverVars, r_sock, down>>
  PROVE  StopAndWait'
<1> DEFINE d == Packet(s_packet.seq, s_packet.payload)
<1>1. /\ UNCHANGED <<s_pc, s_pos, s_seqnum, s_min, s_packet, s_buf, s_sent>>
      /\ UNCHANGED <<r_pc, r_min, r_buf, r_written, r_sock, down>>
      /\ up' = Append(<<>>, d)
  BY DEF senderVars, receiverVars
<1>2. d \in {p \in Awaiting' : ~p.tr}
  <2>1. d \in PacketType
    BY Lengths, PacketTyped DEF SInv
  <2> QED
    BY <1>1, <2>1 DEF Packet, Awaiting
<1> HIDE DEF d
<1>3. OneDatagram' /\ Unanswered'
  <2>1. r_sock' = <<>> /\ down' = <<>> /\ s_sock' = <<>>
    BY <1>1
  <2> QED
    BY <1>1, <1>2, <2>1, OnePacket
<1>4. Sent' = Sent /\ EndOfInput' = EndOfInput
  BY <1>1 DEF Sent, EndOfInput
<1>5. SenderAgrees'
  BY <1>1, <1>4 DEF SenderAgrees, SInv, StopAndWait
<1>6. ReceiverAgrees'
  BY <1>1, <1>3, <1>4 DEF ReceiverAgrees, SInv, StopAndWait
<1> QED
  BY <1>3, <1>5, <1>6 DEF StopAndWait

\* Resend: nothing is under way.
LEMMA ResendAgrees ==
  ASSUME SInv, Resend, InFlight = 0, UNCHANGED <<r_pc, receiverVars, r_sock, down>>
  PROVE  StopAndWait'
<1>1. /\ s_pc \in {"wait", "fin"} /\ UNCHANGED <<s_pc, senderVars>>
      /\ up' = Append(up, Packet(s_packet.seq, s_packet.payload)) /\ s_sock' = s_sock
  BY DEF Resend
<1>2. up = <<>> /\ r_sock = <<>> /\ down = <<>> /\ s_sock = <<>>
  BY Alone
<1> QED
  BY <1>1, <1>2, AgainAgrees

\* What the sender finds in its socket, when it decodes: the awaited ACK, or a NACK of the
\* packet that waits.
LEMMA ReceivedAnswer ==
  ASSUME SInv, s_sock # <<>>
  PROVE  /\ up = <<>> /\ r_sock = <<>> /\ down = <<>> /\ Tail(s_sock) = <<>>
         /\ s_pc \in {"wait", "fin"} /\ r_pc # "failed"
         /\ s_pc = "fin" => r_pc = "done"
         /\ Head(s_sock) \in AckType /\ Head(s_sock).type \in {"ack", "nack"}
         /\ AckDecodes(Head(s_sock)) =>
              /\ Head(s_sock).type = "ack" => Head(s_sock).seq = AckSeq(s_packet)
              /\ Head(s_sock).type = "nack" => /\ s_pc = "wait"
                                               /\ Head(s_sock).seq = s_packet.seq
         /\ Unanswered => Head(s_sock).type # "ack"
<1>1. /\ up = <<>> /\ r_sock = <<>> /\ down = <<>> /\ InFlight # 0
      /\ s_sock \in Seq({a \in AckType : AckDecodes(a) => a \in Answers})
      /\ Len(s_sock) <= 1
  BY Alone
<1>2. /\ Tail(s_sock) = <<>> /\ Head(s_sock) = s_sock[1] /\ Len(s_sock) = 1
      /\ s_sock[1] \in {a \in AckType : AckDecodes(a) => a \in Answers}
  BY <1>1, LastOne
<1>3. s_pc \in {"wait", "fin"}
  BY <1>1 DEF SInv, StopAndWait, SenderAgrees
<1>4. r_pc # "failed" /\ (s_pc = "fin" => r_pc = "done")
  BY DEF SInv, StopAndWait, ReceiverAgrees
<1>5. Head(s_sock) \in AckType /\ Head(s_sock).type \in {"ack", "nack"}
  BY <1>2 DEF AckType
<1>6. AckDecodes(Head(s_sock)) =>
        /\ Head(s_sock).type = "ack" => Head(s_sock).seq = AckSeq(s_packet)
        /\ Head(s_sock).type = "nack" => /\ s_pc = "wait"
                                         /\ Head(s_sock).seq = s_packet.seq
  BY <1>2 DEF Answers
<1>7. 1 \in DOMAIN s_sock
  BY <1>1, <1>2, LenProperties
<1>8. Unanswered => Head(s_sock).type # "ack"
  BY <1>2, <1>7 DEF Unanswered, NoAck
<1> QED
  BY <1>1, <1>2, <1>3, <1>4, <1>5, <1>6, <1>8

\* A sender that ends, at the top of its loop or on an answer: nothing is left under way.
LEMMA SenderFails ==
  ASSUME SInv, s_pc \in {"read", "wait", "fin"}, s_pc' = "failed", r_pc # "failed",
         up = <<>>, r_sock = <<>>, down = <<>>, s_sock' = <<>>,
         UNCHANGED <<s_min, s_buf, s_sent, up>>, s_pos' = s_pos \/ r_pc = "run",
         UNCHANGED <<r_pc, receiverVars, r_sock, down>>
  PROVE  StopAndWait'
<1>1. /\ UNCHANGED <<s_buf, s_sent>> /\ UNCHANGED <<r_pc, r_min, r_buf, r_written>>
      /\ up' = <<>> /\ r_sock' = <<>> /\ down' = <<>> /\ s_sock' = <<>>
      /\ r_pc = "done" => EndOfInput' = EndOfInput
  BY DEF receiverVars, EndOfInput
<1>2. OneDatagram' /\ InFlight' = 0
  BY <1>1, NoDatagram
<1>3. Sent' = Sent
  BY <1>1 DEF Sent
<1>4. SenderAgrees'
  BY <1>1, <1>2, <1>3 DEF SInv, StopAndWait, SenderAgrees
<1>5. ReceiverAgrees'
  BY <1>1, <1>3 DEF SInv, StopAndWait, ReceiverAgrees
<1> QED
  BY <1>2, <1>4, <1>5 DEF StopAndWait

\* RecvUndecodable and PayloadTooLong end the sender.
LEMMA SenderFailsAgrees ==
  ASSUME SInv, RecvUndecodable \/ PayloadTooLong,
         UNCHANGED <<r_pc, receiverVars, r_sock, down>>
  PROVE  StopAndWait'
<1>1. CASE RecvUndecodable
  <2>1. /\ s_sock # <<>> /\ s_pc' = "failed" /\ s_sock' = <<>>
        /\ UNCHANGED <<s_pos, s_min, s_buf, s_sent, up>>
    BY <1>1 DEF RecvUndecodable, senderVars
  <2> QED
    BY <2>1, ReceivedAnswer, SenderFails
<1>2. CASE PayloadTooLong
  <2>1. /\ s_pc = "read" /\ s_pc' = "failed" /\ s_sock' = <<>>
        /\ UNCHANGED <<s_min, s_buf, s_sent, up>>
    BY <1>2 DEF PayloadTooLong
  <2> QED
    BY <2>1, AtTheTop, SenderFails
<1> QED
  BY <1>1, <1>2

\* The slot of the packet that waits is found, before any that is uninitialized.
LEMMA SlotFound ==
  ASSUME SInv, s_pc = "wait"
  PROVE  /\ Matches(s_packet.seq) # {} /\ ~ReadsUninit(s_packet.seq)
         /\ First(Matches(s_packet.seq)) \in 0 .. W - 1
<1>1. s_buf[0] = "packet" /\ W \in Nat \ {0}
  BY WindowSizes DEF SInv, StopAndWait, SenderAgrees
<1>2. 0 \in Matches(s_packet.seq) /\ Matches(s_packet.seq) \subseteq 0 .. W - 1
  BY <1>1 DEF Matches
<1>3. ~ReadsUninit(s_packet.seq)
  <2>1. SUFFICES ASSUME NEW i \in 0 .. W - 1, i < 0 PROVE FALSE
    BY <1>2 DEF ReadsUninit
  <2> QED
    BY <1>1, <2>1
<1>4. First(Matches(s_packet.seq)) \in 0 .. W - 1
  <2>1. \A j \in Matches(s_packet.seq) : 0 <= j
    BY <1>1, <1>2
  <2> QED
    BY <1>2, <2>1 DEF First
<1> QED
  BY <1>2, <1>3, <1>4

\* RecvStaleNack never happens: a NACK is one of the packet that waits.
LEMMA NoneStale ==
  ASSUME SInv PROVE ~RecvStaleNack
<1> SUFFICES ASSUME RecvStaleNack PROVE FALSE
  OBVIOUS
<1>1. /\ s_pc = "wait" /\ s_sock # <<>> /\ AckDecodes(Head(s_sock))
      /\ Head(s_sock).type # "ack"
  BY DEF RecvStaleNack, Received, Acknowledges
<1>2. Head(s_sock).seq = s_packet.seq
  BY <1>1, ReceivedAnswer
<1> QED
  BY <1>1, <1>2, SlotFound DEF RecvStaleNack

\* RecvFinOther never happens: the sender that waits for its last ACK receives that one.
LEMMA NoneOther ==
  ASSUME SInv PROVE ~RecvFinOther
<1> SUFFICES ASSUME RecvFinOther PROVE FALSE
  OBVIOUS
<1>1. /\ s_pc # "wait" /\ s_sock # <<>> /\ AckDecodes(Head(s_sock))
      /\ Head(s_sock).seq # AckSeq(s_packet)
  BY DEF RecvFinOther, Received, IsFinAck, AckSeq
<1> QED
  BY <1>1, ReceivedAnswer

\* RecvAck: what was sent is written, and nothing is under way any more.
LEMMA RecvAckAgrees ==
  ASSUME SInv, RecvAck, UNCHANGED <<r_pc, receiverVars, r_sock, down>>
  PROVE  StopAndWait'
<1> DEFINE ack == Head(s_sock).seq
           n == IF ack > s_min THEN ack - s_min ELSE 0
           k == Sent - 1
<1>1. /\ s_pc = "wait" /\ s_sock # <<>> /\ Head(s_sock).type = "ack"
      /\ AckDecodes(Head(s_sock))
      /\ s_min' = DecaleBy(s_min, n)
      /\ s_buf' = IF s_packet.seq \in Retired(ack) /\ Matches(s_packet.seq) # {}
                  THEN [s_buf EXCEPT ![First(Matches(s_packet.seq))] = "null"]
                  ELSE s_buf
      /\ s_pc' \in {"read"} \cup {c \in {"crashed"} :
                                    \E i \in Retired(ack) : ReadsUninit(i)}
      /\ s_sock' = IF s_pc' = "read" THEN Tail(s_sock) ELSE <<>>
      /\ UNCHANGED <<s_seqnum, s_sent, up>>
      /\ UNCHANGED <<r_pc, r_min, r_buf, r_written, r_sock, down>>
  BY DEF RecvAck, Received, Acknowledges, receiverVars
<1>2. /\ Sent \in Nat /\ M \in Nat /\ W \in Nat \ {0} /\ Len(r_written) \in Nat
      /\ s_buf \in [0 .. W -> {"uninit", "null", "packet"}]
  BY Lengths DEF SInv
<1>3. /\ up = <<>> /\ r_sock = <<>> /\ down = <<>> /\ Tail(s_sock) = <<>>
      /\ ack = AckSeq(s_packet) /\ ~Unanswered
  BY <1>1, ReceivedAnswer
<1>4. /\ Sent >= 1 /\ s_min = Stuck(Sent - 1) /\ s_buf[0] = "packet"
      /\ s_packet.seq = Taken(Sent - 1) /\ s_seqnum = SeqnumInc(s_packet.seq)
      /\ Sent < M + W => s_buf[W] = "uninit"
  BY <1>1 DEF SInv, StopAndWait, SenderAgrees
<1>5. Len(r_written) = Sent /\ Sent <= M + W /\ r_pc = "run"
  <2>1. Len(r_written) = Sent /\ Len(r_written) <= M + W /\ r_pc \notin {"done", "failed"}
    BY <1>1, <1>3 DEF SInv, StopAndWait, ReceiverAgrees
  <2> QED
    BY <2>1 DEF SInv, StopAndWait, ReceiverAgrees
<1>6. k \in Nat /\ k + 1 = Sent /\ k < M + W
  BY <1>2, <1>4, <1>5
<1>7. s_packet.seq = Number(k) /\ ack = Number(Sent) /\ s_seqnum = Number(Sent)
  BY <1>3, <1>4, <1>6, NumberOfPacket DEF AckSeq
<1>8. /\ s_min' = Stuck(Sent)
      /\ \A i \in Retired(ack) : i = s_packet.seq
      /\ Sent >= M => Retired(ack) = {}
  <2> HIDE DEF k, ack
  <2>1. LET a == Number(k + 1)
            m == IF a > Stuck(k) THEN a - Stuck(k) ELSE 0
        IN /\ m \in Nat
           /\ DecaleBy(Stuck(k), m) = Stuck(k + 1)
           /\ \A i \in Stuck(k) .. a - 1 : i = Number(k)
           /\ k + 1 >= M => Stuck(k) .. a - 1 = {}
    BY <1>6, LoopOnAck
  <2>2. ack = Number(k + 1) /\ s_min = Stuck(k) /\ s_packet.seq = Number(k)
    BY <1>4, <1>6, <1>7 DEF k
  <2> QED
    BY <1>1, <1>6, <2>1, <2>2 DEF Retired
<1> HIDE DEF k, ack, n
<1>9. s_pc' = "read" /\ s_sock' = <<>>
  BY <1>1, <1>3, <1>8, SlotFound
<1>10. Sent >= M => s_buf'[0] = "packet"
  BY <1>1, <1>4, <1>8
<1>11. Sent < M + W => s_buf'[W] = "uninit"
  <2>1. First(Matches(s_packet.seq)) # W /\ W \in 0 .. W
    BY <1>1, <1>2, SlotFound
  <2> QED
    BY <1>1, <1>2, <1>4, <2>1
<1>12. Sent' = Sent
  BY <1>1 DEF Sent
<1>13. OneDatagram' /\ InFlight' = 0
  <2>1. up' = <<>> /\ r_sock' = <<>> /\ down' = <<>> /\ s_sock' = <<>>
    BY <1>1, <1>3, <1>9
  <2> QED
    BY <2>1, NoDatagram
<1>14. SenderAgrees'
  BY <1>1, <1>5, <1>7, <1>8, <1>9, <1>10, <1>11, <1>12, <1>13 DEF SenderAgrees
<1>15. ReceiverAgrees'
  BY <1>1, <1>5, <1>9, <1>12 DEF ReceiverAgrees, SInv, StopAndWait
<1> QED
  BY <1>13, <1>14, <1>15 DEF StopAndWait

\* RecvNack: the packet that was cut is sent again.
LEMMA RecvNackAgrees ==
  ASSUME SInv, RecvNack, UNCHANGED <<r_pc, receiverVars, r_sock, down>>
  PROVE  StopAndWait'
<1>1. /\ s_pc = "wait" /\ s_sock # <<>> /\ UNCHANGED <<s_pc, senderVars>>
      /\ up' = Append(up, Packet(s_packet.seq, s_packet.payload)) /\ s_sock' = Tail(s_sock)
  BY DEF RecvNack, Received
<1>2. up = <<>> /\ r_sock = <<>> /\ down = <<>> /\ s_sock' = <<>>
  BY <1>1, ReceivedAnswer
<1> QED
  BY <1>1, <1>2, AgainAgrees

\* RecvFinAck: the receiver has exited before.
LEMMA RecvFinAckAgrees ==
  ASSUME SInv, RecvFinAck, UNCHANGED <<r_pc, receiverVars, r_sock, down>>
  PROVE  StopAndWait'
<1>1. /\ s_pc \in {"fin", "fin_block"} /\ s_sock # <<>> /\ s_pc' = "done" /\ s_sock' = <<>>
      /\ UNCHANGED <<s_pos, s_buf, s_sent, up>>
      /\ UNCHANGED <<r_pc, r_min, r_buf, r_written, r_sock, down>>
  BY DEF RecvFinAck, Received, senderVars, receiverVars
<1>2. s_pc = "fin" /\ r_pc = "done" /\ up = <<>> /\ r_sock = <<>> /\ down = <<>>
  BY <1>1, ReceivedAnswer
<1>3. Sent' = Sent /\ EndOfInput' = EndOfInput
  BY <1>1 DEF Sent, EndOfInput
<1>4. OneDatagram' /\ InFlight' = 0
  <2>1. up' = <<>> /\ r_sock' = <<>> /\ down' = <<>> /\ s_sock' = <<>>
    BY <1>1, <1>2
  <2> QED
    BY <2>1, NoDatagram
<1>5. SenderAgrees'
  BY <1>1, <1>2, <1>3, <1>4 DEF SenderAgrees, SInv, StopAndWait
<1>6. ReceiverAgrees'
  BY <1>1, <1>2, <1>3 DEF ReceiverAgrees, SInv, StopAndWait
<1> QED
  BY <1>4, <1>5, <1>6 DEF StopAndWait

\* Every step of a sender whose timers are prompt keeps the invariant.
LEMMA SenderStopsAndWaits ==
  ASSUME SInv, PromptSender PROVE StopAndWait'
<1>1. UNCHANGED <<r_pc, receiverVars, r_sock, down>>
  BY DEF PromptSender
<1>2. CASE SkipBlock
  BY <1>1, <1>2, SkipBlockAgrees
<1>3. CASE SendBlock
  BY <1>1, <1>3, SendBlockAgrees
<1>4. CASE RecvUndecodable \/ PayloadTooLong
  BY <1>1, <1>4, SenderFailsAgrees
<1>5. CASE SendFin
  BY <1>1, <1>5, SendFinAgrees
<1>6. CASE Resend /\ InFlight = 0
  BY <1>1, <1>6, ResendAgrees
<1>7. CASE RecvAck
  BY <1>1, <1>7, RecvAckAgrees
<1>8. CASE RecvNack
  BY <1>1, <1>8, RecvNackAgrees
<1>9. CASE RecvFinAck
  BY <1>1, <1>9, RecvFinAckAgrees
<1> QED
  BY <1>1, <1>2, <1>3, <1>4, <1>5, <1>6, <1>7, <1>8, <1>9, NoneStale, NoneOther
  DEF PromptSender

-----------------------------------------------------------------------------
\* The steps of the receiver; the sender, its socket and what it sends are as they were.
\* What the receiver finds in its socket: the packet that waits, or one that does not
\* decode.
LEMMA ArrivesAgrees ==
  ASSUME SInv, Arrives
  PROVE  /\ up = <<>> /\ down = <<>> /\ s_sock = <<>> /\ Tail(r_sock) = <<>>
         /\ Len(r_sock) = 1
         /\ s_pc \in {"wait", "fin"} /\ r_pc = "run" /\ r_sock # <<>>
         /\ Datagram \in PacketType
         /\ s_pc = "wait" => /\ Len(r_written) \in {Sent - 1, Sent}
                             /\ Sent >= 1 /\ Sent <= M + W + 1
                             /\ s_packet.seq = Taken(Sent - 1)
                             /\ s_packet.payload = s_sent[Sent] /\ s_sent[Sent] # <<>>
         /\ s_pc = "fin" => s_packet.payload = <<>> /\ EndOfInput /\ Len(r_written) = Sent
         /\ r_min = Number(Len(r_written)) /\ Len(r_written) <= M + W
         /\ PktDecodes(Datagram) => /\ Datagram.seq = s_packet.seq
                                    /\ Datagram.payload = s_packet.payload
<1>1. r_pc = "run" /\ r_sock # <<>>
  BY DEF Arrives
<1>2. /\ up = <<>> /\ down = <<>> /\ s_sock = <<>> /\ Len(r_sock) <= 1 /\ InFlight # 0
      /\ r_sock \in Seq({p \in PacketType : PktDecodes(p) => p \in Awaiting})
  BY <1>1, Alone
<1>3. /\ Tail(r_sock) = <<>> /\ Len(r_sock) = 1
      /\ Datagram \in {p \in PacketType : PktDecodes(p) => p \in Awaiting}
  BY <1>1, <1>2, LastOne DEF Datagram
<1>4. s_pc \in {"wait", "fin"}
  BY <1>2 DEF SInv, StopAndWait, SenderAgrees
<1>5. /\ r_min = Number(Len(r_written)) /\ Len(r_written) <= M + W
      /\ s_pc = "wait" => Len(r_written) \in {Sent - 1, Sent}
      /\ s_pc = "fin" => Len(r_written) = Sent
  BY DEF SInv, StopAndWait, ReceiverAgrees
<1>6. /\ s_pc = "wait" => /\ Sent >= 1 /\ Sent <= M + W + 1
                          /\ s_packet.seq = Taken(Sent - 1)
                          /\ s_packet.payload = s_sent[Sent]
      /\ s_pc = "fin" => s_packet.payload = <<>> /\ EndOfInput
  BY DEF SInv, StopAndWait, SenderAgrees
<1>7. s_pc = "wait" => s_sent[Sent] # <<>>
  <2>1. Sent \in Nat /\ \A k \in 1 .. Sent : s_sent[k] # <<>>
    BY Lengths DEF SInv
  <2> QED
    BY <1>6, <2>1
<1> QED
  BY <1>1, <1>2, <1>3, <1>4, <1>5, <1>6, <1>7 DEF Awaiting

\* A packet that passes the window is the one that waits, not yet written.
LEMMA AcceptedIsAwaited ==
  ASSUME SInv, Decoded, ~Disconnects(Datagram), InWindow(Datagram.seq, r_min, r_max)
  PROVE  /\ s_pc = "wait" /\ Len(r_written) = Sent - 1 /\ Sent <= M + W
         /\ Datagram.seq = s_packet.seq /\ Datagram.seq = r_min
         /\ Datagram.payload = s_sent[Sent]
<1> DEFINE k == Sent - 1
<1>1. Arrives /\ PktDecodes(Datagram) /\ Datagram.payload # <<>>
  BY DEF Decoded, Disconnects
<1>2. /\ s_pc = "wait" /\ Len(r_written) \in {Sent - 1, Sent} /\ Sent >= 1
      /\ Sent <= M + W + 1 /\ Datagram.seq = Taken(k) /\ r_min = Number(Len(r_written))
      /\ Len(r_written) <= M + W
      /\ Datagram.seq = s_packet.seq /\ Datagram.payload = s_sent[Sent]
  BY <1>1, ArrivesAgrees
<1>3. Sent \in Nat /\ M \in Nat /\ W \in Nat \ {0} /\ r_max = DecaleBy(r_min, W)
  BY Lengths DEF SInv
<1>4. k \in Nat /\ k + 1 = Sent /\ (k < M + W \/ k = M + W)
  BY <1>2, <1>3
<1> HIDE DEF k
<1>5. k # M + W
  <2>1. k = M + W => Len(r_written) = k
    BY <1>2, <1>3, <1>4
  <2> QED
    BY <1>2, <1>3, <2>1, NumberTwice
<1>6. Datagram.seq = Number(k) /\ Len(r_written) # k + 1
  BY <1>2, <1>3, <1>4, <1>5, NumberOfPacket
<1> QED
  BY <1>2, <1>3, <1>4, <1>5, <1>6

\* A packet that does not is one already written, or the first that the window of the sender
\* does not allow.
LEMMA RejectedIsRepeated ==
  ASSUME SInv, RecvOutOfWindow
  PROVE  s_pc = "wait" /\ (Len(r_written) = Sent \/ Sent = M + W + 1)
<1> DEFINE k == Sent - 1
<1>1. /\ Arrives /\ PktDecodes(Datagram) /\ Datagram.payload # <<>>
      /\ ~InWindow(Datagram.seq, r_min, r_max)
  BY DEF RecvOutOfWindow, Decoded, Disconnects
<1>2. /\ s_pc = "wait" /\ Len(r_written) \in {Sent - 1, Sent} /\ Sent >= 1
      /\ Sent <= M + W + 1 /\ Datagram.seq = Taken(k) /\ r_min = Number(Len(r_written))
  BY <1>1, ArrivesAgrees
<1>3. Sent \in Nat /\ M \in Nat /\ W \in Nat \ {0} /\ r_max = DecaleBy(r_min, W)
  BY Lengths DEF SInv
<1>4. k \in Nat /\ k + 1 = Sent /\ (k < M + W \/ k = M + W)
  BY <1>2, <1>3
<1> HIDE DEF k
<1>5. k < M + W => Len(r_written) # k
  BY <1>1, <1>2, <1>3, <1>4, NumberOfPacket
<1> QED
  BY <1>2, <1>3, <1>4, <1>5

\* A datagram that is not answered: the receiver goes on, or gives up on the packet that
\* waits.
LEMMA NotAnswered ==
  ASSUME SInv, Arrives, r_sock' = <<>>, UNCHANGED <<receiverVars, down>>,
         r_pc' = r_pc \/ (r_pc' = "failed" /\ s_pc = "wait"),
         UNCHANGED <<s_pc, senderVars, up, s_sock>>
  PROVE  StopAndWait'
<1>1. /\ UNCHANGED <<r_min, r_buf, r_written, down>>
      /\ UNCHANGED <<s_pc, s_pos, s_seqnum, s_min, s_packet, s_buf, s_sent, up, s_sock>>
  BY DEF receiverVars, senderVars
<1>2. /\ up' = <<>> /\ r_sock' = <<>> /\ down' = <<>> /\ s_sock' = <<>>
      /\ s_pc \in {"wait", "fin"} /\ r_pc = "run"
  BY <1>1, ArrivesAgrees
<1>3. OneDatagram' /\ InFlight' = 0 /\ Unanswered'
  BY <1>2, NoDatagram
<1>4. Sent' = Sent /\ EndOfInput' = EndOfInput
  BY <1>1 DEF Sent, EndOfInput
<1>5. SenderAgrees'
  BY <1>1, <1>2, <1>4 DEF SInv, StopAndWait, SenderAgrees
<1>6. ReceiverAgrees'
  BY <1>1, <1>2, <1>3, <1>4 DEF SInv, StopAndWait, ReceiverAgrees
<1> QED
  BY <1>3, <1>5, <1>6 DEF StopAndWait

\* RecvFin: the disconnection is answered once.
LEMMA RecvFinAgrees ==
  ASSUME SInv, RecvFin, UNCHANGED <<s_pc, senderVars, up, s_sock>>
  PROVE  StopAndWait' /\ s_pc = "fin" /\ Len(r_written) = Sent
<1> DEFINE a == Ack("ack", AckSeq(Datagram), r_window')
<1>1. /\ Arrives /\ PktDecodes(Datagram) /\ Datagram.payload = <<>>
      /\ down' = Append(down, a) /\ r_pc' = "done" /\ r_sock' = <<>>
      /\ UNCHANGED <<r_min, r_buf, r_written>>
      /\ UNCHANGED <<s_pc, s_pos, s_seqnum, s_min, s_packet, s_buf, s_sent, up, s_sock>>
      /\ r_window' = U8Sub(r_window, r_err)
  BY DEF RecvFin, Decoded, Disconnects, receiverVars, senderVars
<1>2. /\ up' = <<>> /\ down = <<>> /\ s_sock' = <<>> /\ s_pc = "fin" /\ EndOfInput
      /\ Datagram.seq = s_packet.seq /\ Len(r_written) = Sent
  BY <1>1, ArrivesAgrees
<1>3. a \in Answers'
  <2>1. a \in AckType
    <3>1. Datagram.seq \in SeqNum
      BY <1>1, ArrivesAgrees DEF PacketType
    <3>2. AckSeq(Datagram) \in SeqNum
      BY <3>1, WindowSizes DEF AckSeq, SeqnumInc, SeqNum
    <3>3. r_window' \in SeqNum
      BY <1>1, Lengths, U8Type DEF SInv
    <3> QED
      BY <3>2, <3>3, AckTyped
  <2>2. AckSeq(Datagram) = AckSeq(s_packet')
    BY <1>1, <1>2 DEF AckSeq
  <2> QED
    BY <2>1, <2>2 DEF Ack, Answers, AckDecodes
<1> HIDE DEF a
<1>4. OneDatagram'
  BY <1>1, <1>2, <1>3, OneAnswer
<1>5. Sent' = Sent /\ EndOfInput'
  BY <1>1, <1>2 DEF Sent, EndOfInput
<1>6. SenderAgrees'
  BY <1>1, <1>2, <1>5 DEF SenderAgrees, SInv, StopAndWait
<1>7. ReceiverAgrees'
  BY <1>1, <1>2, <1>5 DEF ReceiverAgrees, SInv, StopAndWait
<1> QED
  BY <1>2, <1>4, <1>6, <1>7 DEF StopAndWait

\* RecvTruncated: a NACK of the packet that waits.
LEMMA RecvTruncatedAgrees ==
  ASSUME SInv, RecvTruncated, UNCHANGED <<s_pc, senderVars, up, s_sock>>
  PROVE  StopAndWait'
<1> DEFINE a == Ack("nack", Datagram.seq, r_window)
<1>1. /\ Arrives /\ Decoded /\ ~Disconnects(Datagram)
      /\ InWindow(Datagram.seq, r_min, r_max)
      /\ down' = Append(down, a) /\ r_sock' = Tail(r_sock)
      /\ UNCHANGED <<r_pc, r_min, r_buf, r_written>>
      /\ UNCHANGED <<s_pc, s_pos, s_seqnum, s_min, s_packet, s_buf, s_sent, up, s_sock>>
  BY DEF RecvTruncated, Decoded, receiverVars, senderVars
<1>2. /\ up' = <<>> /\ down = <<>> /\ s_sock' = <<>> /\ r_sock' = <<>> /\ s_pc = "wait"
      /\ r_pc = "run" /\ Datagram.seq = s_packet.seq /\ Len(r_written) = Sent - 1
  BY <1>1, ArrivesAgrees, AcceptedIsAwaited
<1>3. a \in Answers'
  <2>1. Datagram.seq \in SeqNum /\ r_window \in SeqNum
    BY <1>1, ArrivesAgrees, Lengths DEF PacketType, SInv
  <2>2. a \in AckType
    BY <2>1, AckTyped
  <2>3. Datagram.seq = s_packet'.seq /\ s_pc' = "wait"
    BY <1>1, <1>2
  <2> QED
    BY <2>2, <2>3 DEF Ack, Answers, AckDecodes
<1>4. a.type # "ack"
  BY DEF Ack
<1> HIDE DEF a
<1>5. OneDatagram' /\ Unanswered'
  BY <1>1, <1>2, <1>3, <1>4, OneAnswer
<1>6. Sent' = Sent
  BY <1>1 DEF Sent
<1>7. SenderAgrees'
  BY <1>1, <1>2, <1>6 DEF SenderAgrees, SInv, StopAndWait
<1>8. ReceiverAgrees'
  BY <1>1, <1>2, <1>5, <1>6 DEF ReceiverAgrees, SInv, StopAndWait
<1> QED
  BY <1>5, <1>7, <1>8 DEF StopAndWait

\* RecvData: the payload that waits is written, at the first slot, and acknowledged.
LEMMA RecvDataAgrees ==
  ASSUME SInv, RecvData, UNCHANGED <<s_pc, senderVars, up, s_sock>>
  PROVE  /\ StopAndWait' /\ r_pc' = "run"
         /\ s_pc = "wait" /\ Len(r_written) = Sent - 1
         /\ r_written' = Append(r_written, s_sent[Sent])
         /\ up' = <<>> /\ r_sock' = <<>> /\ down' # <<>> /\ Head(down').type = "ack"
<1> DEFINE a == Ack("ack", AckSeq(Datagram), r_window')
           slots == r_buf \cup {SlotIndex(Datagram.seq, r_min)}
           n == Written(slots)
<1>1. /\ Arrives /\ Decoded /\ ~Disconnects(Datagram)
      /\ InWindow(Datagram.seq, r_min, r_max)
      /\ UNCHANGED <<s_pc, s_pos, s_seqnum, s_min, s_packet, s_buf, s_sent, up, s_sock>>
  BY DEF RecvData, Decoded, senderVars
<1>2. /\ up' = <<>> /\ down = <<>> /\ s_sock' = <<>> /\ Tail(r_sock) = <<>>
      /\ s_pc = "wait" /\ r_pc = "run"
      /\ Datagram \in PacketType /\ Datagram.seq = s_packet.seq
      /\ Datagram.payload = s_sent[Sent] /\ Sent <= M + W /\ Sent >= 1
      /\ Len(r_written) = Sent - 1 /\ Datagram.seq = r_min
  BY <1>1, ArrivesAgrees, AcceptedIsAwaited
<1>3. /\ r_buf = {} /\ r_min = Number(Len(r_written)) /\ r_min \in SeqNum
      /\ r_window \in SeqNum /\ Sent \in Nat /\ Len(r_written) \in Nat
      /\ Len(r_written) < M + W /\ W \in Nat \ {0} /\ M \in Nat /\ Datagram.seq \in SeqNum
      /\ Datagram.payload \in Seq(Byte) /\ r_written \in Seq(Seq(Byte))
  BY <1>2, Lengths DEF SInv, StopAndWait, ReceiverAgrees, PacketType
<1>4. slots = {0} /\ ~BufferPlein
  <2>1. SlotIndex(Datagram.seq, r_min) = 0
    BY <1>2, <1>3, NumberOfPacket
  <2>2. 0 \in 0 .. W - 1
    BY <1>3
  <2> QED
    BY <1>3, <2>1, <2>2 DEF BufferPlein
<1>5. n = 1
  <2>1. {0} \in SUBSET (0 .. W)
    BY <1>3
  <2>2. /\ Written({0}) \in 0 .. W
        /\ 0 .. Written({0}) - 1 \subseteq {0}
        /\ Written({0}) = W \/ Written({0}) \notin {0}
    BY <2>1, WrittenIsFirstEmpty
  <2>3. ~(1 \in 0 .. Written({0}) - 1)
    BY <2>2
  <2>4. Written({0}) = 1
    BY <1>3, <2>2, <2>3
  <2> QED
    BY <1>4, <2>4
<1>6. /\ r_buf' = slots \ (0 .. n - 1)
      /\ r_written' = r_written \o [j \in 1 .. n |-> Datagram.payload]
      /\ r_min' = DecaleBy(r_min, n)
      /\ r_window' = U8Sub(U8Sub(r_window, 1), n)
      /\ down' = Append(down, a)
      /\ r_sock' = Tail(r_sock)
      /\ r_pc' = "run"
  BY <1>4 DEF RecvData
<1> HIDE DEF a, slots, n
<1>7. /\ r_buf' = {} /\ r_min' = Number(Len(r_written) + 1)
      /\ r_window' \in SeqNum
      /\ down' = Append(<<>>, a) /\ r_sock' = <<>>
  <2>1. {0} \ (0 .. 1 - 1) = {}
    OBVIOUS
  <2>2. DecaleBy(r_min, 1) = Number(Len(r_written) + 1)
    BY <1>3, NumberOfPacket
  <2>3. r_window' \in SeqNum
    <3>1. 1 \in SeqNum
      BY WindowSizes DEF SeqNum
    <3> QED
      BY <1>3, <1>5, <1>6, <3>1, U8Type
  <2> QED
    BY <1>2, <1>4, <1>5, <1>6, <2>1, <2>2, <2>3
<1>8. /\ r_written' = Append(r_written, Datagram.payload)
      /\ Len(r_written') = Len(r_written) + 1
      /\ \A j \in 1 .. Len(r_written) : r_written'[j] = r_written[j]
      /\ r_written'[Len(r_written) + 1] = Datagram.payload
  <2>1. [j \in 1 .. 1 |-> Datagram.payload] = <<Datagram.payload>>
    OBVIOUS
  <2>2. r_written' = Append(r_written, Datagram.payload)
    BY <1>3, <1>5, <1>6, <2>1, AppendIsConcat
  <2> QED
    BY <1>3, <2>2, AppendProperties
<1>9. a \in Answers' /\ a.type = "ack"
  <2>1. AckSeq(Datagram) \in SeqNum
    BY <1>3, WindowSizes DEF AckSeq, SeqnumInc, SeqNum
  <2>2. a \in AckType
    BY <1>7, <2>1, AckTyped DEF a
  <2>3. AckSeq(Datagram) = AckSeq(s_packet')
    BY <1>1, <1>2 DEF AckSeq
  <2> QED
    BY <2>2, <2>3 DEF a, Ack, Answers, AckDecodes
<1>10. OneDatagram' /\ down' # <<>> /\ Head(down') = a
  BY <1>1, <1>2, <1>7, <1>9, OneAnswer
<1>11. Sent' = Sent /\ Len(r_written') = Sent
  <2>1. s_sent' = s_sent
    BY <1>1
  <2>2. Len(r_written) + 1 = Sent
    BY <1>2, <1>3
  <2> QED
    BY <1>8, <2>1, <2>2 DEF Sent
<1>12. SenderAgrees'
  BY <1>1, <1>2, <1>11 DEF SenderAgrees, SInv, StopAndWait
<1>13. ReceiverAgrees'
  <2>1. \A j \in 1 .. Len(r_written') : r_written'[j] = s_sent'[j]
    <3>1. \A j \in 1 .. Len(r_written) : r_written'[j] = s_sent[j]
      BY <1>8 DEF SInv, StopAndWait, ReceiverAgrees
    <3>2. /\ Len(r_written') = Len(r_written) + 1 /\ Len(r_written) + 1 = Sent
          /\ r_written'[Sent] = s_sent[Sent]
      BY <1>2, <1>3, <1>8, <1>11
    <3>3. \A j \in 1 .. Len(r_written') : j \in 1 .. Len(r_written) \/ j = Sent
      BY <1>3, <3>2
    <3> QED
      BY <1>1, <3>1, <3>2, <3>3
  <2>2. r_min' = Number(Len(r_written'))
    BY <1>7, <1>8
  <2> QED
    BY <1>1, <1>2, <1>6, <1>7, <1>11, <2>1, <2>2 DEF ReceiverAgrees
<1> QED
  BY <1>2, <1>6, <1>7, <1>8, <1>9, <1>10, <1>12, <1>13 DEF StopAndWait

\* Every step of the receiver keeps the invariant.
LEMMA ReceiverStopsAndWaits ==
  ASSUME SInv, ReceiverStep PROVE StopAndWait'
<1>1. ReceiverNext /\ UNCHANGED <<s_pc, senderVars, up, s_sock>>
  BY DEF ReceiverStep
<1>2. CASE RecvIgnored
  <2>1. Arrives /\ r_sock' = Tail(r_sock) /\ UNCHANGED <<r_pc, receiverVars, down>>
    BY <1>2 DEF RecvIgnored
  <2> QED
    BY <1>1, <2>1, ArrivesAgrees, NotAnswered
<1>3. CASE RecvFin
  BY <1>1, <1>3, RecvFinAgrees
<1>4. CASE RecvOutOfWindow
  <2>1. Arrives /\ r_sock' = <<>> /\ r_pc' = "failed" /\ UNCHANGED <<receiverVars, down>>
    BY <1>4 DEF RecvOutOfWindow, Decoded
  <2> QED
    BY <1>1, <1>4, <2>1, RejectedIsRepeated, NotAnswered
<1>5. CASE RecvTruncated
  BY <1>1, <1>5, RecvTruncatedAgrees
<1>6. CASE RecvData
  BY <1>1, <1>6, RecvDataAgrees
<1> QED
  BY <1>1, <1>2, <1>3, <1>4, <1>5, <1>6 DEF ReceiverNext

-----------------------------------------------------------------------------
\* The steps of the link.
\* A packet that was corrupted does not decode.
LEMMA CorruptFails ==
  ASSUME NEW p \in PacketType, ~p.tr
  PROVE  \A x \in CorruptPacket(p) : ~PktDecodes(x)
<1>1. \A x \in CorruptHeader(p) : ~PktDecodes(x)
  BY DEF CorruptHeader, PktDecodes, PacketType
<1> QED
  BY <1>1 DEF CorruptPacket, PktDecodes, PacketType

\* A harmed packet is the one that waits, or does not decode.
LEMMA FaultsForward ==
  ASSUME NEW p \in Awaiting, ~p.tr, NEW c \in {p, Cut(p)} \cup CorruptPacket(p)
  PROVE  c \in {x \in PacketType : PktDecodes(x) => x \in Awaiting}
<1>1. p \in PacketType /\ p.seq = s_packet.seq /\ p.payload = s_packet.payload
  BY DEF Awaiting
<1>2. Cut(p) \in PacketType /\ CorruptPacket(p) \subseteq PacketType
  BY <1>1, FaultsTyped
<1>3. Cut(p).seq = p.seq /\ Cut(p).payload = p.payload
  BY <1>1 DEF Cut, PacketType
<1>4. \A x \in CorruptPacket(p) : ~PktDecodes(x)
  BY <1>1, CorruptFails
<1> QED
  BY <1>1, <1>2, <1>3, <1>4 DEF Awaiting

\* An answer that is harmed does not decode, and is an ACK if it was one.
LEMMA FaultsReverse ==
  ASSUME NEW a \in Answers, NEW c \in {a, Cut(a)} \cup CorruptHeader(a)
  PROVE  /\ c \in {x \in AckType : AckDecodes(x) => x \in Answers}
         /\ c.type = a.type
<1>1. a \in AckType
  BY DEF Answers
<1>2. Cut(a) \in AckType /\ CorruptHeader(a) \subseteq AckType
  BY <1>1, FaultsTyped
<1>3. Cut(a).type = a.type /\ Cut(a).tr
  BY <1>1 DEF Cut, AckType
<1>4. \A x \in CorruptHeader(a) : x.type = a.type /\ ~x.crc1
  BY <1>1 DEF CorruptHeader, AckType
<1> QED
  BY <1>1, <1>2, <1>3, <1>4 DEF AckDecodes

\* Nothing in a step of the link changes the two programs.
LEMMA ProgramsAgree ==
  ASSUME SInv, UNCHANGED <<s_pc, senderVars, r_pc, receiverVars>>,
         InFlight = 0 => InFlight' = 0, Unanswered => Unanswered',
         down = <<>> /\ s_sock = <<>> /\ s_pc = "fin" => down' = <<>> /\ s_sock' = <<>>,
         r_pc = "failed" => r_sock' = <<>> /\ down' = <<>> /\ s_sock' = <<>>
  PROVE  /\ SenderAgrees' /\ ReceiverAgrees'
         /\ Awaiting' = Awaiting /\ Answers' = Answers
<1>1. /\ UNCHANGED <<s_pc, s_pos, s_seqnum, s_min, s_packet, s_buf, s_sent>>
      /\ UNCHANGED <<r_pc, r_min, r_buf, r_written>>
  BY DEF senderVars, receiverVars
<1>2. Sent' = Sent /\ EndOfInput' = EndOfInput
  BY <1>1 DEF Sent, EndOfInput
<1>3. SenderAgrees'
  BY <1>1, <1>2 DEF SInv, StopAndWait, SenderAgrees
<1>4. ReceiverAgrees'
  BY <1>1, <1>2 DEF SInv, StopAndWait, ReceiverAgrees
<1> QED
  BY <1>1, <1>3, <1>4 DEF Awaiting, Answers

\* A packet leaves the link, for the socket of the receiver or for nowhere.
LEMMA PacketAgrees ==
  ASSUME SInv, UNCHANGED <<s_pc, senderVars, r_pc, receiverVars>>,
         NEW i \in DOMAIN up,
         NEW c \in {x \in PacketType : PktDecodes(x) => x \in Awaiting},
         Forward(i, <<c>>) \/ Forward(i, <<>>)
  PROVE  StopAndWait' /\ down' = <<>> /\ s_sock' = <<>> /\ up # <<>>
<1>1. up # <<>>
  BY EmptySeq
<1>2. /\ up \in Seq(Awaiting) /\ Len(up) <= 1
      /\ r_sock = <<>> /\ down = <<>> /\ s_sock = <<>>
  BY <1>1, Alone
<1>3. Without(up, i) = <<>> /\ Len(up) = 1
  BY <1>1, <1>2, LastOne
<1>4. /\ up' = <<>> /\ down' = <<>> /\ s_sock' = <<>>
      /\ r_sock' = <<>> \/ r_sock' = <<c>>
      /\ r_pc = "failed" => r_sock' = <<>>
  BY <1>2, <1>3, Single DEF Forward
<1>5. InFlight' <= 1 /\ InFlight # 0
  <2>1. Len(<<>>) = 0 /\ Len(<<c>>) = 1
    BY Single
  <2>2. Len(r_sock') \in {0, 1} /\ Len(up') = 0 /\ Len(down') = 0 /\ Len(s_sock') = 0
    BY <1>4, <2>1
  <2>3. Len(up) = 1 /\ Len(r_sock) = 0 /\ Len(down) = 0 /\ Len(s_sock) = 0
    BY <1>2, <1>3, <2>1
  <2> QED
    BY <2>2, <2>3 DEF InFlight
<1>6. Unanswered'
  BY <1>4 DEF Unanswered, NoAck
<1>7. /\ SenderAgrees' /\ ReceiverAgrees'
      /\ Awaiting' = Awaiting /\ Answers' = Answers
  BY <1>4, <1>5, <1>6, ProgramsAgree
<1>8. r_sock' \in Seq({x \in PacketType : PktDecodes(x) => x \in Awaiting})
  <2> DEFINE S == {x \in PacketType : PktDecodes(x) => x \in Awaiting}
  <2>1. c \in S
    OBVIOUS
  <2> HIDE DEF S
  <2>2. <<c>> \in Seq(S) /\ <<>> \in Seq(S)
    BY <2>1, Single
  <2>3. r_sock' \in Seq(S)
    BY <1>4, <2>2
  <2> QED
    BY <2>3 DEF S
<1>9. OneDatagram'
  BY <1>4, <1>5, <1>7, <1>8 DEF OneDatagram
<1> QED
  BY <1>1, <1>4, <1>7, <1>9 DEF StopAndWait

\* An answer leaves the link, for the socket of the sender or for nowhere.
LEMMA AnswerAgrees ==
  ASSUME SInv, UNCHANGED <<s_pc, senderVars, r_pc, receiverVars>>,
         NEW i \in DOMAIN down,
         NEW c \in {x \in AckType : AckDecodes(x) => x \in Answers}, c.type = down[i].type,
         Reverse(i, <<c>>) \/ Reverse(i, <<>>)
  PROVE  /\ StopAndWait' /\ up' = <<>> /\ r_sock' = <<>>
         /\ Head(down).type = c.type /\ down[i] = Head(down) /\ down[i] \in Answers
         /\ down # <<>> /\ up = <<>> /\ r_sock = <<>> /\ s_sock = <<>>
         /\ Reverse(i, <<c>>) => s_sock' = <<c>> /\ Head(<<c>>) = c /\ <<c>> # <<>>
<1>1. down # <<>>
  BY EmptySeq
<1>2. /\ down \in Seq(Answers) /\ Len(down) <= 1 /\ InFlight # 0
      /\ r_sock = <<>> /\ up = <<>> /\ s_sock = <<>>
  BY <1>1, Alone
<1>3. /\ Without(down, i) = <<>> /\ Len(down) = 1 /\ down[i] = Head(down)
      /\ down[1] = Head(down) /\ down[i] \in Answers /\ 1 \in DOMAIN down
  BY <1>1, <1>2, LastOne, LenProperties
<1>4. s_pc \in {"wait", "fin"} /\ r_pc # "failed"
  BY <1>1, <1>2 DEF SInv, StopAndWait, SenderAgrees, ReceiverAgrees
<1>5. /\ up' = <<>> /\ down' = <<>> /\ r_sock' = <<>>
      /\ s_sock' = <<>> \/ s_sock' = <<c>>
      /\ Reverse(i, <<c>>) => s_sock' = <<c>>
  BY <1>2, <1>3, <1>4, Single DEF Reverse, SenderEnded
<1>6. /\ Len(<<c>>) = 1 /\ DOMAIN <<c>> = {1} /\ <<c>>[1] = c
      /\ Head(<<c>>) = c /\ <<c>> # <<>>
  BY Single
<1>7. InFlight' <= 1
  <2>1. Len(<<>>) = 0
    OBVIOUS
  <2>2. Len(s_sock') \in {0, 1} /\ Len(up') = 0 /\ Len(down') = 0 /\ Len(r_sock') = 0
    BY <1>5, <1>6, <2>1
  <2>3. InFlight' = Len(up') + Len(r_sock') + Len(down') + Len(s_sock')
    BY DEF InFlight
  <2> QED
    BY <2>2, <2>3
<1>8. Unanswered => Unanswered'
  BY <1>3, <1>5, <1>6 DEF Unanswered, NoAck
<1>9. /\ SenderAgrees' /\ ReceiverAgrees'
      /\ Awaiting' = Awaiting /\ Answers' = Answers
  BY <1>1, <1>2, <1>4, <1>8, ProgramsAgree
<1>10. s_sock' \in Seq({x \in AckType : AckDecodes(x) => x \in Answers})
  <2> DEFINE S == {x \in AckType : AckDecodes(x) => x \in Answers}
  <2>1. c \in S
    OBVIOUS
  <2> HIDE DEF S
  <2>2. <<c>> \in Seq(S) /\ <<>> \in Seq(S)
    BY <2>1, Single
  <2>3. s_sock' \in Seq(S)
    BY <1>5, <2>2
  <2> QED
    BY <2>3 DEF S
<1>11. OneDatagram'
  BY <1>5, <1>7, <1>9, <1>10 DEF OneDatagram
<1> QED
  BY <1>1, <1>2, <1>3, <1>5, <1>6, <1>9, <1>11 DEF StopAndWait

\* Every step of the link keeps the invariant.
LEMMA LinkStopsAndWaits ==
  ASSUME SInv, LinkStep PROVE StopAndWait'
<1>1. LinkNext /\ UNCHANGED <<s_pc, senderVars, r_pc, receiverVars>>
  BY DEF LinkStep
<1>2. \A i \in Due(up, "forward") : /\ i \in DOMAIN up /\ up[i] \in Awaiting
                                    /\ ~up[i].tr
  BY Alone, LenProperties, ElementOfSeq DEF Due
<1>3. \A i \in Due(down, "reverse") : i \in DOMAIN down /\ down[i] \in Answers
  BY Alone, LenProperties, ElementOfSeq DEF Due
<1>4. CASE RelayPacket
  BY <1>1, <1>2, <1>4, FaultsForward, PacketAgrees DEF RelayPacket
<1>5. CASE DropPacket
  BY <1>1, <1>2, <1>5, FaultsForward, PacketAgrees DEF DropPacket
<1>6. CASE CutPacket
  BY <1>1, <1>2, <1>6, FaultsForward, PacketAgrees DEF CutPacket
<1>7. CASE AlterPacket
  BY <1>1, <1>2, <1>7, FaultsForward, PacketAgrees DEF AlterPacket
<1>8. CASE RelayAck
  BY <1>1, <1>3, <1>8, FaultsReverse, AnswerAgrees DEF RelayAck
<1>9. CASE DropAck
  BY <1>1, <1>3, <1>9, FaultsReverse, AnswerAgrees DEF DropAck
<1>10. CASE CutAck
  BY <1>1, <1>3, <1>10, FaultsReverse, AnswerAgrees DEF CutAck
<1>11. CASE AlterAck
  BY <1>1, <1>3, <1>11, FaultsReverse, AnswerAgrees DEF AlterAck
<1> QED
  BY <1>1, <1>4, <1>5, <1>6, <1>7, <1>8, <1>9, <1>10, <1>11 DEF LinkNext

-----------------------------------------------------------------------------
\* A step of the programs or of the link, or none, keeps the invariant.
LEMMA StopAndWaitStep ==
  ASSUME SInv, [PromptNext]_vars
  PROVE  SInv'
<1>1. CASE UNCHANGED vars
  <2>1. TypeInv'
    BY <1>1
    DEF SInv, TypeInv, TypeOK, Spans, SenderTypeOK, ReceiverTypeOK, LinkTypeOK,
        vars, senderVars, receiverVars
  <2>2. /\ UNCHANGED <<s_pc, senderVars, r_pc, receiverVars>>
        /\ UNCHANGED <<up, r_sock, down, s_sock>>
    BY <1>1 DEF vars
  <2>3. InFlight' = InFlight /\ (Unanswered => Unanswered')
    BY <2>2 DEF InFlight, Unanswered, NoAck
  <2>4. r_pc = "failed" => r_sock = <<>> /\ down = <<>> /\ s_sock = <<>>
    BY DEF SInv, StopAndWait, ReceiverAgrees
  <2>5. /\ SenderAgrees' /\ ReceiverAgrees'
        /\ Awaiting' = Awaiting /\ Answers' = Answers
    BY <2>2, <2>3, <2>4, ProgramsAgree
  <2>6. OneDatagram'
    BY <2>2, <2>3, <2>5 DEF SInv, StopAndWait, OneDatagram
  <2> QED
    BY <2>1, <2>5, <2>6 DEF SInv, StopAndWait
<1>2. CASE PromptNext
  <2>1. SenderStep \/ ReceiverStep \/ LinkStep
    BY <1>2 DEF PromptNext, PromptSender, SenderStep, SenderNext
  <2>2. TypeInv'
    BY <2>1, SenderTyped, ReceiverTyped, LinkTyped DEF SInv
  <2>3. StopAndWait'
    BY <1>2, SenderStopsAndWaits, ReceiverStopsAndWaits, LinkStopsAndWaits DEF PromptNext
  <2> QED
    BY <2>2, <2>3 DEF SInv
<1> QED
  BY <1>1, <1>2

\* The invariant holds along every transfer whose timers are prompt.
LEMMA PromptInvariant == PromptSpec => []SInv
<1>1. Init => SInv
  BY InitTyped, InitAgrees DEF SInv
<1> QED
  BY <1>1, StopAndWaitStep, PTL DEF PromptSpec

-----------------------------------------------------------------------------
(* What follows of every transfer whose timers are prompt, and so of Spec when no
   timer expires before the answer, and of TimedTransfer (module TimersProofs). *)

\* A transfer whose timers are prompt is a transfer.
LEMMA PromptIsNext == PromptNext => Next
  BY DEF PromptNext, PromptSender, Next, SenderStep, SenderNext

LEMMA PromptIsSpec == PromptSpec => Spec
<1>1. [PromptNext]_vars => [Next]_vars
  BY PromptIsNext
<1> QED
  BY <1>1, PTL DEF PromptSpec, Spec

\* Without Spurious the timers are prompt.
LEMMA QuietIsPrompt == ASSUME ~Spurious PROVE Spec => PromptSpec
<1>1. Next => PromptNext
  BY DEF Next, SenderStep, SenderNext, PromptNext, PromptSender, Resend, TimerExpires
<1>2. [Next]_vars => [PromptNext]_vars
  BY <1>1
<1> QED
  BY <1>2, PTL DEF PromptSpec, Spec

\* What the invariant says of the file: the payloads written are the first that were sent,
\* and all of them when a program exits with 0.
LEMMA PrefixFromStops ==
  SInv => PrefixWritten /\ EndMeansComplete
<1> SUFFICES ASSUME SInv PROVE PrefixWritten /\ EndMeansComplete
  BY Zenon
<1>1. /\ r_written \in Seq(Seq(Byte)) /\ s_sent \in Seq(Seq(Byte))
      /\ Len(r_written) \in Nat /\ Sent \in Nat /\ Sent = Len(s_sent)
      /\ DOMAIN r_written = 1 .. Len(r_written)
      /\ \A k \in 1 .. Len(r_written) : r_written[k] = s_sent[k]
  <2>1. r_written \in Seq(Seq(Byte)) /\ s_sent \in Seq(Seq(Byte) \ {<<>>})
        /\ Len(r_written) \in Nat /\ Sent \in Nat /\ Sent = Len(s_sent)
    BY Lengths DEF SInv
  <2>2. Seq(Byte) \ {<<>>} \subseteq Seq(Byte)
    OBVIOUS
  <2>3. s_sent \in Seq(Seq(Byte))
    BY <2>1, <2>2, SeqMonotone
  <2>4. DOMAIN r_written = 1 .. Len(r_written)
    BY <2>1, LenProperties
  <2>5. \A k \in 1 .. Len(r_written) : r_written[k] = s_sent[k]
    BY DEF SInv, StopAndWait, ReceiverAgrees
  <2> QED
    BY ONLY <2>1, <2>3, <2>4, <2>5, Zenon
<1>2. Len(r_written) <= Sent
  <2>1. Len(r_written) \in {Sent - 1, Sent}
    BY DEF SInv, StopAndWait, SenderAgrees, ReceiverAgrees
  <2>2. Sent \in Nat
    BY <1>1
  <2> QED
    BY <2>1, <2>2
<1>3. ASSUME "done" \in {r_pc, s_pc} PROVE EndOfInput /\ Len(r_written) = Sent
  <2>1. r_pc = "done" => EndOfInput /\ Len(r_written) = Sent
    BY Zenon DEF SInv, StopAndWait, ReceiverAgrees
  <2>2. s_pc = "done" => r_pc = "done"
    BY DEF SInv, StopAndWait, SenderAgrees
  <2> QED
    BY ONLY <1>3, <2>1, <2>2
<1>4. EndMeansComplete
  BY <1>1, <1>3, SeqEqual DEF EndMeansComplete, EndOfInput
<1> QED
  BY <1>1, <1>2, <1>4 DEF PrefixWritten

\* With the lines that were sent: nobody ends with 0 when more than M + W are to be sent.
LEMMA StillFromStops ==
  SInv /\ LinesSent => StandsStill
<1> SUFFICES ASSUME SInv, LinesSent PROVE StandsStill
  OBVIOUS
<1>1. Len(r_written) <= M + W /\ Len(r_written) \in Nat /\ M + W \in Nat
  BY Lengths DEF SInv, StopAndWait, ReceiverAgrees
<1>2. ASSUME s_pc = "done" PROVE Rank(Len(Input)) = Len(r_written)
  BY <1>2 DEF SInv, StopAndWait, SenderAgrees, ReceiverAgrees, LinesSent, EndOfInput
<1> QED
  BY <1>1, <1>2 DEF StandsStill

LEMMA PromptSafety ==
  PromptSpec => [](SInv /\ LinesSent /\ PrefixWritten /\ EndMeansComplete
                     /\ LinesWritten /\ StandsStill)
<1>1. SInv => TypeInv
  BY DEF SInv
<1> QED
  BY <1>1, PromptInvariant, PromptIsSpec, LinesSentCorrect, PrefixFromStops,
     StillFromStops, WrittenFromSent, PTL

\* One datagram is under way at most, whatever the link does to it, and both sides agree on
\* it, for a file of any length: the number, the window and the slot of the packet that waits
\* and the number of its ACK, on both sides of the wrap (sender.c:164, sender.c:448-461,
\* receiver.c:237).
THEOREM StopAndWaitCorrect == ASSUME ~Spurious PROVE Spec => []StopAndWait
<1>1. SInv => StopAndWait
  BY DEF SInv
<1> QED
  BY <1>1, QuietIsPrompt, PromptInvariant, PTL

\* A file of more than M + W packets never arrives: no more are accepted, and the sender
\* never exits with 0 (sender.c:164, sender.c:448).
THEOREM StandsStillCorrect == ASSUME ~Spurious PROVE Spec => []StandsStill
BY QuietIsPrompt, PromptSafety, PTL

\* For a file of any length and any link, the file is a prefix of what was handed over
THEOREM PromptPrefix == ASSUME ~Spurious PROVE Spec => []PrefixWritten
BY QuietIsPrompt, PromptSafety, PTL

\* ... an exit with 0 means that the whole file has arrived
THEOREM PromptEnd == ASSUME ~Spurious PROVE Spec => []EndMeansComplete
BY QuietIsPrompt, PromptSafety, PTL

\* ... and what is written is each block that is not skipped, in its turn.
THEOREM PromptLines == ASSUME ~Spurious PROVE Spec => []LinesWritten
BY QuietIsPrompt, PromptSafety, PTL

-----------------------------------------------------------------------------
\* The receiver gives up only on a packet that is written and whose answer is lost, or on
\* packet M + W.
LEMMA GivesUpStep ==
  ASSUME SInv, Next, r_pc = "run", r_pc' = "failed"
  PROVE  /\ s_pc = "wait" /\ InFlight = Len(r_sock)
         /\ r_written = s_sent \/ Len(s_sent) = M + W + 1
<1>1. RecvOutOfWindow
  BY DEF Next, SenderStep, LinkStep, ReceiverStep, ReceiverNext, RecvIgnored, RecvFin,
         RecvTruncated, RecvData
<1>2. Arrives
  BY <1>1 DEF RecvOutOfWindow, Decoded
<1>3. InFlight = Len(r_sock)
  <2>1. Len(up) = 0 /\ Len(down) = 0 /\ Len(s_sock) = 0 /\ Len(r_sock) = 1
    BY <1>2, ArrivesAgrees
  <2> QED
    BY <2>1 DEF InFlight
<1>4. s_pc = "wait" /\ (Len(r_written) = Sent \/ Sent = M + W + 1)
  BY <1>1, RejectedIsRepeated
<1>5. Len(r_written) = Sent => r_written = s_sent
  <2>1. /\ r_written \in Seq(Seq(Byte)) /\ s_sent \in Seq(Seq(Byte) \ {<<>>})
        /\ Sent = Len(s_sent)
    BY Lengths DEF SInv
  <2>2. s_sent \in Seq(Seq(Byte))
    <3>1. Seq(Byte) \ {<<>>} \subseteq Seq(Byte)
      OBVIOUS
    <3> QED
      BY <2>1, <3>1, SeqMonotone
  <2>3. \A k \in 1 .. Len(r_written) : r_written[k] = s_sent[k]
    BY DEF SInv, StopAndWait, ReceiverAgrees
  <2> QED
    BY <2>1, <2>2, <2>3, SeqEqual
<1> QED
  BY <1>3, <1>4, <1>5 DEF Sent

LEMMA PromptGivesUp == PromptSpec => GivesUpOnLostAck
<1>1. SInv /\ [PromptNext]_vars =>
        [r_pc = "run" /\ r_pc' = "failed" =>
           /\ s_pc = "wait" /\ InFlight = Len(r_sock)
           /\ r_written = s_sent \/ Len(s_sent) = M + W + 1]_vars
  BY GivesUpStep, PromptIsNext
<1> QED
  BY <1>1, PromptInvariant, PTL DEF PromptSpec, GivesUpOnLostAck

\* When no timer expires before the answer, the receiver gives up (receiver.c:237) only
\* after the loss of an ACK, on the packet that the sender repeats, or on packet M + W: never
\* while an answer is under way, and never on a packet sent for the first time before that.
THEOREM GivesUpCorrect == ASSUME ~Spurious PROVE Spec => GivesUpOnLostAck
BY QuietIsPrompt, PromptGivesUp, PTL

-----------------------------------------------------------------------------
\* No more is sent than the blocks read give.
LEMMA SentWithinStep ==
  ASSUME TypeInv, TypeInv', LinesSent', Sent <= Rank(s_pos), [Next]_vars
  PROVE  Sent' <= Rank(s_pos')
<1>1. /\ s_pos \in Nat /\ s_pos' \in Nat /\ Sent \in Nat
      /\ Rank(s_pos) \in Nat /\ Rank(s_pos') \in Nat
  <2>1. s_pos \in Nat /\ s_pos' \in Nat /\ Sent \in Nat
    BY SenderConstants, LenProperties DEF TypeInv, TypeOK, SenderTypeOK, Sent
  <2> QED
    BY <2>1, SendableCounts
<1>2. CASE s_pc' \notin {"failed", "crashed"}
  <2>1. Sent' = Rank(s_pos')
    BY <1>2 DEF LinesSent
  <2> QED
    BY <1>1, <2>1
<1>3. CASE s_pc' \in {"failed", "crashed"}
  <2>1. s_sent' = s_sent /\ s_pos' \in {s_pos, s_pos + 1}
    <3>1. CASE SenderNext
      BY <1>3, <3>1
      DEF SenderNext, SkipBlock, SendBlock, PayloadTooLong, SendFin, Resend, RecvUndecodable,
          RecvAck, RecvNack, RecvStaleNack, RecvFinAck, RecvFinOther, senderVars
    <3>2. CASE UNCHANGED senderVars
      BY <3>2 DEF senderVars
    <3> QED
      BY <3>1, <3>2 DEF Next, SenderStep, ReceiverStep, LinkStep, vars, senderVars
  <2>2. Rank(s_pos) <= Rank(s_pos')
    BY <1>1, <2>1, SendableCounts
  <2> QED
    BY <1>1, <2>1, <2>2 DEF Sent
<1> QED
  BY <1>2, <1>3

\* ... along every transfer
LEMMA SentWithin == Spec => [](Sent <= Rank(s_pos))
<1>1. Init => Sent <= Rank(s_pos)
  <2> SUFFICES ASSUME Init PROVE Sent <= Rank(s_pos)
    OBVIOUS
  <2>1. Sent = 0 /\ s_pos = 0 /\ Rank(0) \in Nat
    BY SendableCounts DEF Init, SenderInit, Sent
  <2> QED
    BY <2>1
<1>2. TypeInv /\ TypeInv' /\ LinesSent' /\ Sent <= Rank(s_pos) /\ [Next]_vars =>
        (Sent <= Rank(s_pos))'
  BY SentWithinStep
<1> QED
  BY <1>1, <1>2, TypeInvariant, LinesSentCorrect, PTL DEF Spec

\* The slot past the last of buffer_envoi is written by packet M + W - 1 only, which the file
\* has not.
LEMMA PromptSlotsSafe ==
  ASSUME Rank(Len(Input)) < M + W, SInv, Sent <= Rank(s_pos)
  PROVE  SlotsInBounds
<1>1. /\ Sent \in Nat /\ s_pos \in Nat /\ Len(Input) \in Nat /\ s_pos <= Len(Input)
      /\ M \in Nat /\ W \in Nat
  BY Lengths DEF SInv
<1>2. Rank(s_pos) <= Rank(Len(Input)) /\ Rank(s_pos) \in Nat /\ Rank(Len(Input)) \in Nat
  BY <1>1, SendableCounts
<1>3. Sent < M + W
  BY <1>1, <1>2
<1> QED
  BY <1>3 DEF SInv, StopAndWait, SenderAgrees, ReceiverAgrees, SlotsInBounds

\* Whatever the link does, no packet of a file of fewer than M + W is stored past the slots of
\* the buffers (lib.c:1069), and the receiver is never full.
THEOREM PromptSlots ==
  ASSUME ~Spurious, Rank(Len(Input)) < M + W PROVE Spec => []SlotsInBounds
<1>1. SInv /\ Sent <= Rank(s_pos) => SlotsInBounds
  BY PromptSlotsSafe
<1> QED
  BY <1>1, QuietIsPrompt, PromptInvariant, SentWithin, PTL

-----------------------------------------------------------------------------
\* What the promise sees of a step whose timers are prompt: a block sent, a payload written,
\* the disconnection.
LEMMA PromptPromiseStep ==
  ASSUME SInv, Next
  PROVE  Promise!Next \/ UNCHANGED Promise!vars
<1> USE DEF Promise!vars
<1>1. Sent \in Nat /\ Len(r_written) \in Nat /\ Sent = Len(s_sent)
  BY Lengths DEF SInv
<1>2. CASE SenderStep
  <2>1. CASE SendBlock
    <3>0. PICK tail \in Tails :
            LET payload == Payload(Input[s_pos + 1] \o tail)
            IN payload # <<>> /\ s_sent' = Append(s_sent, payload)
      BY <2>1 DEF SendBlock
    <3> DEFINE payload == Payload(Input[s_pos + 1] \o tail)
    <3>1. /\ payload # <<>> /\ s_sent' = Append(s_sent, payload)
          /\ UNCHANGED <<r_pc, r_written>> /\ r_pc # "done" /\ Len(r_written) = Sent
      BY <1>2, <2>1, <3>0, AtTheTop DEF SendBlock, SenderStep, receiverVars
    <3>2. s_pos + 1 \in DOMAIN Input
      <4>1. s_pos \in Nat /\ s_pos <= Len(Input) /\ s_pos # Len(Input) /\ Len(Input) \in Nat
        BY <2>1, Lengths DEF SendBlock, EndOfInput, SInv
      <4>2. s_pos + 1 \in 1 .. Len(Input)
        BY <4>1
      <4> QED
        BY <4>2, SenderConstants, LenProperties
    <3>3. payload \in {Payload(Input[k] \o t) : k \in DOMAIN Input, t \in Tails} \ {<<>>}
      BY <3>1, <3>2
    <3>4. Len(s_sent) - Len(r_written) < 1
      BY <1>1, <3>1
    <3>5. Promise!Submit
      BY <3>1, <3>3, <3>4 DEF Promise!Submit
    <3> QED
      BY <3>5 DEF Promise!Next
  <2>2. CASE ~SendBlock
    <3>1. UNCHANGED s_sent
      BY <1>2, <2>2
      DEF SenderStep, SenderNext, SkipBlock, PayloadTooLong, SendFin, Resend,
          RecvUndecodable, RecvAck, RecvNack, RecvStaleNack, RecvFinAck, RecvFinOther,
          senderVars
    <3> QED
      BY <1>2, <3>1 DEF SenderStep, receiverVars
  <2> QED
    BY <2>1, <2>2
<1>3. CASE ReceiverStep
  <2>0. UNCHANGED <<s_pc, senderVars, up, s_sock>> /\ ReceiverNext
    BY <1>3 DEF ReceiverStep
  <2>1. UNCHANGED s_sent
    BY <2>0 DEF senderVars
  <2>2. CASE RecvData
    <3>1. /\ Len(r_written) = Sent - 1 /\ r_written' = Append(r_written, s_sent[Sent])
          /\ r_pc = "run" /\ r_pc' = "run"
      BY <2>0, <2>2, RecvDataAgrees DEF RecvData, Decoded, Arrives
    <3>2. Len(r_written) + 1 = Sent /\ Len(r_written) < Len(s_sent)
      BY <1>1, <3>1
    <3>3. Promise!Deliver
      BY <2>1, <3>1, <3>2 DEF Promise!Deliver
    <3> QED
      BY <3>3 DEF Promise!Next
  <2>3. CASE RecvFin
    <3>1. Len(r_written) = Len(s_sent) /\ r_pc # "done" /\ r_pc' = "done"
          /\ UNCHANGED r_written
      BY <1>1, <2>0, <2>3, RecvFinAgrees DEF RecvFin, Decoded, Arrives
    <3>2. Promise!Close
      BY <2>1, <3>1 DEF Promise!Close
    <3> QED
      BY <3>2 DEF Promise!Next
  <2>4. CASE RecvIgnored \/ RecvTruncated \/ RecvOutOfWindow
    BY <2>1, <2>4
    DEF RecvIgnored, RecvTruncated, RecvOutOfWindow, Decoded, Arrives, receiverVars
  <2> QED
    BY <2>0, <2>2, <2>3, <2>4 DEF ReceiverNext
<1>4. CASE LinkStep
  BY <1>4 DEF LinkStep, senderVars, receiverVars
<1> QED
  BY <1>2, <1>3, <1>4 DEF Next

LEMMA PromptPromise == PromptSpec => ImplementsPromise
<1>1. UNCHANGED vars => UNCHANGED Promise!vars
  BY DEF vars, senderVars, receiverVars, Promise!vars
<1>2. SInv /\ [PromptNext]_vars => [Promise!Next]_Promise!vars
  BY <1>1, PromptPromiseStep, PromptIsNext
<1> QED
  BY <1>2, PromiseInit, PromptInvariant, PTL DEF PromptSpec, ImplementsPromise, Promise!Spec

\* The promise of a reliable transfer is kept for a file of any length and any link, as far
\* as safety goes.
THEOREM PromptRefinement == ASSUME ~Spurious PROVE Spec => ImplementsPromise
BY QuietIsPrompt, PromptPromise, PTL

-----------------------------------------------------------------------------
(* The link harms the packets only: no ACK is lost, and nobody gives up, up to
   the last packet that the windows allow. *)
LEMMA Losses ==
  ASSUME SInv, NothingLost
  PROVE  /\ up # <<>> \/ r_sock # <<>> \/ InFlight = 0 => ~Answered
         /\ s_pc = "wait" /\ ~Answered => Len(r_written) = Sent - 1 /\ Len(r_written) # Sent
         /\ s_pc = "fin" /\ ~Answered => r_pc = "run"
         /\ s_sock # <<>> => /\ Head(s_sock) \in Answers /\ AckDecodes(Head(s_sock))
                             /\ Head(s_sock).type # "ack" => ~Answered
<1>1. up # <<>> \/ r_sock # <<>> \/ InFlight = 0 => ~Answered
  BY Alone DEF Answered
<1>2. s_pc = "wait" /\ ~Answered => Len(r_written) = Sent - 1 /\ Len(r_written) # Sent
  BY DEF SInv, StopAndWait, ReceiverAgrees, NothingLost
<1>3. s_pc = "fin" /\ ~Answered => r_pc = "run"
  BY DEF SInv, StopAndWait, ReceiverAgrees, NothingLost
<1>4. ASSUME s_sock # <<>>
      PROVE  /\ Head(s_sock) \in Answers /\ AckDecodes(Head(s_sock))
             /\ Head(s_sock).type # "ack" => ~Answered
  <2>1. Len(s_sock) <= 1 /\ s_sock \in Seq(Answers) /\ down = <<>>
    BY <1>4, Alone DEF NothingLost
  <2>2. Head(s_sock) \in Answers
    BY <1>4, <2>1, LastOne
  <2> QED
    BY <2>1, <2>2 DEF Answers, Answered
<1> QED
  BY <1>1, <1>2, <1>3, <1>4

\* PayloadTooLong never happens when no block gives a payload too long.
LEMMA NoneTooLong ==
  ASSUME NeverTooLong, SInv PROVE ~PayloadTooLong
<1> SUFFICES ASSUME PayloadTooLong PROVE FALSE
  OBVIOUS
<1>1. s_pos + 1 \in 1 .. Len(Input)
  <2>1. s_pos \in Nat /\ Len(Input) \in Nat /\ s_pos <= Len(Input) /\ s_pos # Len(Input)
    BY Lengths DEF SInv, PayloadTooLong, EndOfInput
  <2> QED
    BY <2>1
<1>2. PICK tail \in Tails : Len(Payload(Input[s_pos + 1] \o tail)) > MaxPayload
  BY DEF PayloadTooLong
<1>3. Payload(Input[s_pos + 1] \o tail) \in Seq(Byte)
  BY <1>1, InputBlock
<1>4. Len(Payload(Input[s_pos + 1] \o tail)) \in Nat
  BY <1>3, LenProperties
<1>5. Len(Payload(Input[s_pos + 1] \o tail)) <= MaxPayload
  BY <1>1 DEF NeverTooLong
<1> QED
  BY <1>2, <1>4, <1>5, SenderConstants

\* A step of the sender loses nothing.
LEMMA SenderLosesNothing ==
  ASSUME NeverTooLong, SInv, SInv', NothingLost, PromptSender
  PROVE  NothingLost'
<1>1. UNCHANGED <<r_pc, r_written, r_sock, down>>
  BY DEF PromptSender, receiverVars
<1>2. Sent \in Nat /\ r_pc # "failed"
  BY Lengths DEF SInv, NothingLost
<1>3. ~PayloadTooLong /\ ~RecvUndecodable /\ ~RecvStaleNack /\ ~RecvFinOther
  BY NoneTooLong, NoneStale, NoneOther, Losses DEF RecvUndecodable
<1>4. <<>> \in Seq(Answers')
  OBVIOUS
<1>5. CASE SkipBlock
  <2>1. s_pc' = "read" /\ s_sock' = <<>>
    BY <1>5, AtTheTop DEF SkipBlock
  <2> QED
    BY <1>1, <1>2, <1>4, <2>1 DEF NothingLost
<1>6. CASE SendBlock
  <2>1. s_pc' = "wait" /\ s_sock' = <<>> /\ Len(r_written') = Sent
    BY <1>1, <1>6, AtTheTop DEF SendBlock
  <2>2. Sent' = Sent + 1
    <3>1. PICK payload : s_sent' = Append(s_sent, payload)
      BY <1>6 DEF SendBlock
    <3>2. Len(s_sent') = Len(s_sent) + 1
      <4>1. s_sent \in Seq(Seq(Byte) \ {<<>>}) /\ s_sent' \in Seq(Seq(Byte) \ {<<>>})
        BY DEF SInv, TypeInv, TypeOK, SenderTypeOK
      <4> QED
        BY <3>1, <4>1
    <3> QED
      BY <3>2 DEF Sent
  <2>3. Len(r_written') # Sent'
    BY <1>2, <2>1, <2>2
  <2> QED
    BY <1>1, <1>2, <1>4, <2>1, <2>3 DEF NothingLost
<1>7. CASE SendFin
  <2>1. s_pc' = "fin" /\ s_sock' = <<>> /\ r_pc = "run"
    BY <1>7, AtTheTop DEF SendFin
  <2> QED
    BY <1>1, <1>2, <1>4, <2>1 DEF NothingLost
<1>8. CASE RecvAck
  <2>1. s_pc' \in {"read", "crashed"} /\ (s_sock' = <<>> \/ s_sock' = Tail(s_sock))
        /\ s_sock # <<>>
    BY <1>8 DEF RecvAck, Received
  <2>2. s_sock' = <<>>
    BY <2>1, ReceivedAnswer
  <2> QED
    BY <1>1, <1>2, <1>4, <2>1, <2>2 DEF NothingLost
<1>9. CASE RecvFinAck
  <2>1. s_pc' = "done" /\ s_sock' = <<>>
    BY <1>9 DEF RecvFinAck
  <2> QED
    BY <1>1, <1>2, <1>4, <2>1 DEF NothingLost
<1>10. CASE RecvNack \/ (Resend /\ InFlight = 0)
  <2>1. /\ s_pc \in {"wait", "fin"} /\ UNCHANGED <<s_pc, senderVars>>
        /\ s_sock' = <<>> /\ ~Answered
    <3>1. CASE RecvNack
      <4>1. /\ s_pc = "wait" /\ UNCHANGED <<s_pc, senderVars>> /\ s_sock' = Tail(s_sock)
            /\ s_sock # <<>> /\ Head(s_sock).type # "ack"
        BY <3>1 DEF RecvNack, Received, Acknowledges
      <4> QED
        BY <4>1, ReceivedAnswer, Losses
    <3>2. CASE Resend /\ InFlight = 0
      BY <3>2, Losses DEF Resend, TimerExpires
    <3> QED
      BY <1>10, <3>1, <3>2
  <2>2. Sent' = Sent
    BY <2>1 DEF senderVars, Sent
  <2> QED
    BY <1>1, <1>2, <1>4, <2>1, <2>2, Losses DEF NothingLost
<1> QED
  BY <1>3, <1>5, <1>6, <1>7, <1>8, <1>9, <1>10 DEF PromptSender

\* RecvOutOfWindow never happens: the packet that waits is the first of the window.
LEMMA NoneOutOfWindow ==
  ASSUME WrapsOnce, SInv, LinesSent, NothingLost PROVE ~RecvOutOfWindow
<1> SUFFICES ASSUME RecvOutOfWindow PROVE FALSE
  OBVIOUS
<1>1. r_sock # <<>>
  BY DEF RecvOutOfWindow, Decoded, Arrives
<1>2. s_pc = "wait" /\ (Len(r_written) = Sent \/ Sent = M + W + 1)
  BY RejectedIsRepeated
<1>3. Sent = M + W + 1
  BY <1>1, <1>2, Losses
<1>4. /\ Sent \in Nat /\ s_pos \in Nat /\ Len(Input) \in Nat /\ s_pos <= Len(Input)
      /\ M \in Nat /\ W \in Nat
  BY Lengths DEF SInv
<1>5. Sent = Rank(s_pos)
  BY <1>2 DEF LinesSent
<1>6. Rank(s_pos) <= Rank(Len(Input)) /\ Rank(Len(Input)) \in Nat
  BY <1>4, SendableCounts
<1> QED
  BY <1>3, <1>4, <1>5, <1>6 DEF WrapsOnce

\* A step of the receiver loses nothing.
LEMMA ReceiverLosesNothing ==
  ASSUME WrapsOnce, SInv, LinesSent, NothingLost, ReceiverStep
  PROVE  NothingLost'
<1>1. ReceiverNext /\ UNCHANGED <<s_pc, senderVars, up, s_sock>>
  BY DEF ReceiverStep
<1>2. ~RecvOutOfWindow /\ Arrives
  BY <1>1, NoneOutOfWindow
  DEF ReceiverNext, RecvIgnored, RecvFin, RecvTruncated, RecvData, Decoded
<1>3. /\ s_sock' = <<>> /\ s_pc' = s_pc /\ Sent' = Sent /\ ~Answered /\ r_sock # <<>>
      /\ s_pc # "failed" /\ r_pc = "run" /\ up' = <<>> /\ down = <<>>
  BY <1>1, <1>2, ArrivesAgrees, Losses DEF senderVars, Sent, NothingLost
<1>4. <<>> \in Seq(Answers')
  OBVIOUS
<1>5. CASE RecvIgnored \/ RecvTruncated
  <2>1. UNCHANGED <<r_pc, r_written>>
    BY <1>5 DEF RecvIgnored, RecvTruncated, receiverVars
  <2> QED
    BY <1>3, <1>4, <2>1, Losses DEF NothingLost
<1>6. CASE RecvFin
  <2>1. /\ r_pc' = "done" /\ r_sock' = <<>> /\ s_pc = "fin"
        /\ down' = Append(down, Ack("ack", AckSeq(Datagram), r_window'))
    BY <1>1, <1>6, RecvFinAgrees DEF RecvFin
  <2>2. down' # <<>> /\ Head(down').type = "ack"
    BY <1>3, <2>1 DEF Ack
  <2> QED
    BY <1>3, <1>4, <2>1, <2>2 DEF NothingLost, Answered
<1>7. CASE RecvData
  <2>1. /\ r_pc' = "run" /\ s_pc = "wait"
        /\ up' = <<>> /\ r_sock' = <<>> /\ down' # <<>> /\ Head(down').type = "ack"
    BY <1>1, <1>7, RecvDataAgrees
  <2> QED
    BY <1>3, <1>4, <2>1 DEF NothingLost, Answered
<1> QED
  BY <1>1, <1>2, <1>5, <1>6, <1>7 DEF ReceiverNext

\* A step of a link that harms the packets only loses no answer.
LEMMA LinkLosesNothing ==
  ASSUME OneWay, SInv, NothingLost, LinkStep
  PROVE  NothingLost'
<1>1. LinkNext /\ UNCHANGED <<s_pc, senderVars, r_pc, receiverVars>>
  BY DEF LinkStep
<1>2. /\ UNCHANGED <<s_pc, r_pc, r_written, s_packet>> /\ Sent' = Sent
      /\ Answers' = Answers
  <2>1. UNCHANGED <<s_pc, r_pc, r_written, s_packet, s_sent>>
    BY <1>1 DEF senderVars, receiverVars
  <2> QED
    BY <2>1 DEF Sent, Answers
<1>3. ~DropAck /\ ~CutAck /\ ~AlterAck
  BY DEF DropAck, CutAck, AlterAck, May, OneWay
<1>4. \A i \in Due(up, "forward") : /\ i \in DOMAIN up /\ up[i] \in Awaiting
                                    /\ ~up[i].tr
  BY Alone, LenProperties, ElementOfSeq DEF Due
<1>5. CASE RelayPacket \/ DropPacket \/ CutPacket \/ AlterPacket
  <2>1. PICK i \in DOMAIN up, c \in {x \in PacketType : PktDecodes(x) => x \in Awaiting} :
          Forward(i, <<c>>) \/ Forward(i, <<>>)
    BY <1>4, <1>5, FaultsForward DEF RelayPacket, DropPacket, CutPacket, AlterPacket
  <2>2. s_sock' = <<>> /\ up # <<>>
    BY <1>1, <2>1, PacketAgrees
  <2>3. <<>> \in Seq(Answers')
    OBVIOUS
  <2> QED
    BY <1>2, <2>2, <2>3, Losses DEF NothingLost
<1>6. CASE RelayAck
  <2>1. PICK i \in DOMAIN down : Reverse(i, <<down[i]>>)
    BY <1>6 DEF RelayAck, Due
  <2> DEFINE c == down[i]
  <2>2. c \in Answers
    BY Alone, LenProperties, ElementOfSeq
  <2>3. c \in {x \in AckType : AckDecodes(x) => x \in Answers}
    BY <2>2 DEF Answers
  <2>4. /\ up' = <<>> /\ r_sock' = <<>> /\ Head(down) = c /\ s_sock = <<>>
        /\ s_sock' = <<c>> /\ Head(<<c>>) = c /\ <<c>> # <<>>
    BY <1>1, <2>1, <2>3, AnswerAgrees
  <2> HIDE DEF c
  <2>5. <<c>> \in Seq(Answers')
    BY <1>2, <2>2, Single
  <2>6. Answered => Answered'
    BY <2>4 DEF Answered
  <2> QED
    BY <1>2, <2>4, <2>5, <2>6 DEF NothingLost
<1> QED
  BY <1>1, <1>3, <1>5, <1>6 DEF LinkNext

\* The invariant holds along every transfer over such a link.
LEMMA ForwardingInvariant ==
  ASSUME OneWay, NeverTooLong, WrapsOnce PROVE PromptSpec => []Forwarding
<1>1. Init => NothingLost
  <2> SUFFICES ASSUME Init PROVE NothingLost
    OBVIOUS
  <2>1. s_pc = "read" /\ r_pc = "run" /\ s_sock = <<>>
    BY DEF Init, SenderInit, ReceiverInit, LinkInit
  <2>2. <<>> \in Seq(Answers)
    OBVIOUS
  <2> QED
    BY <2>1, <2>2 DEF NothingLost
<1>2. SInv /\ SInv' /\ LinesSent /\ NothingLost /\ [PromptNext]_vars => NothingLost'
  <2> SUFFICES ASSUME SInv, SInv', LinesSent, NothingLost, [PromptNext]_vars
               PROVE  NothingLost'
    OBVIOUS
  <2>1. CASE PromptNext
    BY <2>1, SenderLosesNothing, ReceiverLosesNothing, LinkLosesNothing DEF PromptNext
  <2>2. CASE UNCHANGED vars
    <3>1. /\ UNCHANGED <<s_pc, r_pc, r_written, s_packet, s_sent>>
          /\ UNCHANGED <<up, r_sock, down, s_sock>>
      BY <2>2 DEF vars, senderVars, receiverVars
    <3>2. Answers' = Answers /\ Answered' = Answered /\ Sent' = Sent
      BY <3>1 DEF Answers, Answered, Sent
    <3> QED
      BY <3>1, <3>2 DEF NothingLost
  <2> QED
    BY <2>1, <2>2
<1>3. SInv /\ NothingLost => Forwarding
  BY DEF SInv, Forwarding
<1>4. PromptSpec => []LinesSent
  BY PromptIsSpec, LinesSentCorrect, PTL
<1> QED
  BY <1>1, <1>2, <1>3, <1>4, PromptInvariant, PTL DEF PromptSpec

\* Over such a link each packet that is written has its ACK under way until the sender takes
\* it, through one wrap of the numbers (sender.c:448-461).
THEOREM ForwardingCorrect ==
  ASSUME OneWay, ~Spurious, NeverTooLong, WrapsOnce PROVE Spec => []Forwarding
BY QuietIsPrompt, ForwardingInvariant, PTL

\* Neither program gives up or crashes (sender.c:389, sender.c:430, receiver.c:237), and the
\* sender never waits without a timer (sender.c:212), up to the last packet of its window.
LEMMA PromptSucceeds ==
  ASSUME OneWay, NeverTooLong, WrapsOnce PROVE PromptSpec => []NobodyFails
<1>1. Forwarding => NobodyFails
  BY DEF Forwarding, StopAndWait, SenderAgrees, ReceiverAgrees, NothingLost, NobodyFails
<1> QED
  BY <1>1, ForwardingInvariant, PTL

\* When the link harms the packets only and the timers are longer than a round trip,
\* neither program gives up or crashes, also once the numbers have wrapped.
THEOREM NobodyFailsCorrect ==
  ASSUME OneWay, ~Spurious, NeverTooLong, WrapsOnce PROVE Spec => []NobodyFails
BY QuietIsPrompt, PromptSucceeds, PTL

-----------------------------------------------------------------------------
(* The file of the runs, of any number of blocks: which block of the standard
   input is the k-th line, and what is taken of it. *)

\* A block is taken up to its first terminator.
LEMMA TakenWhole ==
  ASSUME NEW f \in Seq(Byte), NEW t \in Seq(Byte), t # <<>>, t[1] \in Terminators,
         \A i \in 1 .. Len(f) : f[i] \notin Terminators
  PROVE  Payload(f \o t) = f
<1> DEFINE whole == f \o t
           n == StrLen(whole)
<1>1. /\ whole \in Seq(Byte) /\ Len(f) \in Nat /\ Len(t) \in Nat /\ Len(t) # 0
      /\ Len(whole) = Len(f) + Len(t)
      /\ \A i \in 1 .. Len(f) : whole[i] = f[i]
      /\ whole[Len(f) + 1] = t[1]
  <2>1. Len(f) \in Nat /\ Len(t) \in Nat /\ Len(t) # 0
    BY LenProperties, EmptySeq
  <2> QED
    BY <2>1, ConcatProperties
<1> HIDE DEF whole
<1>2. /\ n \in 0 .. Len(whole)
      /\ \A i \in 1 .. n : whole[i] \notin Terminators
      /\ n < Len(whole) => whole[n + 1] \in Terminators
  BY <1>1, StrLenIsFirst
<1> HIDE DEF n
<1>3. n = Len(f)
  <2>1. CASE n < Len(f)
    <3>1. n + 1 \in 1 .. Len(f) /\ n < Len(whole)
      BY <1>1, <1>2, <2>1
    <3> QED
      BY <1>1, <1>2, <3>1
  <2>2. CASE n > Len(f)
    <3>1. Len(f) + 1 \in 1 .. n
      BY <1>1, <1>2, <2>2
    <3> QED
      BY <1>1, <1>2, <3>1
  <2> QED
    BY <1>1, <1>2, <2>1, <2>2
<1>4. /\ SubSeq(whole, 1, n) \in Seq(Byte) /\ Len(SubSeq(whole, 1, n)) = n
      /\ \A i \in 1 .. n : SubSeq(whole, 1, n)[i] = whole[i]
  <2>1. \A i \in 1 .. n : whole[i] \in Byte
    BY <1>1, <1>2, ElementOfSeq
  <2> QED
    BY <1>1, <1>2, <2>1, SubSeqProperties
<1>5. SubSeq(whole, 1, n) = f
  BY <1>1, <1>3, <1>4, SeqEqual
<1> QED
  BY <1>5 DEF Payload, whole, n

\* The blocks of the file, and those that are typed.
LEMMA FileBlocks ==
  ASSUME FileLength \in Nat, FileLength < 15600, Stdin, NEW k \in 1 .. FileLength
  PROVE  /\ File[k] \in Seq(Byte) /\ File[k] # <<>>
         /\ Line(k) \in Seq(Byte) /\ Payload(Line(k)) = File[k]
<1>1. Terminators = {0, 10} /\ 0 \in Byte /\ 10 \in Byte /\ 67 \in Byte /\ 99 \in Byte
  BY DEF Terminators, Byte
<1>2. 100 + k \div 100 \in 100 .. 255 /\ 11 + (k % 100) \in 11 .. 110
  <2>1. k \in Nat /\ k < 15600
    OBVIOUS
  <2>2. k \div 100 \in 0 .. 155 /\ k % 100 \in 0 .. 99
    BY <2>1, SMTT(30)
  <2> QED
    BY <2>2
<1>3. \/ File[k] = <<99>>
      \/ File[k] = <<100 + k \div 100, 11 + (k % 100)>>
  BY DEF File, FileOf
<1>4. /\ File[k] \in Seq(Byte) /\ File[k] # <<>>
      /\ \A i \in 1 .. Len(File[k]) : File[k][i] \notin Terminators
  <2> DEFINE a == 100 + k \div 100
             b == 11 + (k % 100)
  <2>1. a \in 11 .. 255 /\ b \in 11 .. 255
    BY <1>2
  <2> HIDE DEF a, b
  <2>2. <<a, b>> \in Seq(Byte) /\ <<99>> \in Seq(Byte)
    BY <2>1 DEF Byte
  <2>3. \A i \in 1 .. Len(<<a, b>>) : <<a, b>>[i] \notin Terminators
    BY <1>1, <2>1
  <2>4. \A i \in 1 .. Len(<<99>>) : <<99>>[i] \notin Terminators
    BY <1>1
  <2>5. File[k] = <<99>> \/ File[k] = <<a, b>>
    BY <1>3 DEF a, b
  <2>6. <<99>> # <<>> /\ <<a, b>> # <<>>
    OBVIOUS
  <2>7. CASE File[k] = <<99>>
    BY ONLY <2>2, <2>4, <2>6, <2>7
  <2>8. CASE File[k] = <<a, b>>
    BY ONLY <2>2, <2>3, <2>6, <2>8
  <2> QED
    BY <2>5, <2>7, <2>8
<1>5. /\ <<10>> \in Seq(Byte) /\ <<10>> # <<>> /\ <<10>>[1] \in Terminators
      /\ <<0, 67>> \in Seq(Byte) /\ <<0, 67>> # <<>> /\ <<0, 67>>[1] \in Terminators
  <2>1. <<10>>[1] = 10 /\ <<0, 67>>[1] = 0 /\ <<10>> # <<>> /\ <<0, 67>> # <<>>
    OBVIOUS
  <2>2. <<10>> \in Seq(Byte) /\ <<0, 67>> \in Seq(Byte)
    BY <1>1
  <2> QED
    BY <1>1, <2>1, <2>2
<1>6. Line(k) = File[k] \o <<10>> \/ Line(k) = File[k] \o <<0, 67>>
  BY ONLY DEF Line
<1> HIDE DEF File
<1>7. ASSUME NEW t \in Seq(Byte), t # <<>>, t[1] \in Terminators
      PROVE  Payload(File[k] \o t) = File[k] /\ File[k] \o t \in Seq(Byte)
  BY <1>4, <1>7, TakenWhole, ConcatProperties
<1>8. /\ Payload(File[k] \o <<10>>) = File[k] /\ File[k] \o <<10>> \in Seq(Byte)
      /\ Payload(File[k] \o <<0, 67>>) = File[k] /\ File[k] \o <<0, 67>> \in Seq(Byte)
  BY ONLY <1>5, <1>7
<1> QED
  BY ONLY <1>4, <1>6, <1>8, Zenon

LEMMA BlankBlocks ==
  ASSUME Stdin
  PROVE  /\ Blank \in Seq(Seq(Byte)) /\ Len(Blank) = 2
         /\ \A i \in 1 .. 2 : Blank[i] # <<>> /\ Payload(Blank[i]) = <<>>
<1>1. Terminators = {0, 10} /\ 0 \in Byte /\ 10 \in Byte /\ 66 \in Byte
  BY DEF Terminators, Byte
<1>2. \A t \in {<<10>>, <<0, 66>>} : /\ t \in Seq(Byte) /\ t # <<>> /\ t[1] \in Terminators
                                     /\ <<>> \o t = t
  <2>1. /\ <<10>>[1] = 10 /\ <<0, 66>>[1] = 0 /\ <<10>> # <<>> /\ <<0, 66>> # <<>>
        /\ <<>> \o <<10>> = <<10>> /\ <<>> \o <<0, 66>> = <<0, 66>>
    OBVIOUS
  <2>2. <<10>> \in Seq(Byte) /\ <<0, 66>> \in Seq(Byte)
    BY <1>1
  <2>3. <<10>>[1] \in Terminators /\ <<0, 66>>[1] \in Terminators
    BY <1>1, <2>1
  <2> TAKE t \in {<<10>>, <<0, 66>>}
  <2>4. CASE t = <<10>>
    BY ONLY <2>1, <2>2, <2>3, <2>4
  <2>5. CASE t = <<0, 66>>
    BY ONLY <2>1, <2>2, <2>3, <2>5
  <2> QED
    BY <2>4, <2>5
<1>3. \A t \in {<<10>>, <<0, 66>>} : Payload(t) = <<>>
  <2> TAKE t \in {<<10>>, <<0, 66>>}
  <2>1. <<>> \in Seq(Byte) /\ \A i \in 1 .. Len(<<>>) : <<>>[i] \notin Terminators
    OBVIOUS
  <2>2. Payload(<<>> \o t) = <<>>
    BY <1>2, <2>1, TakenWhole
  <2> QED
    BY <1>2, <2>2
<1>4. Blank = <<<<10>>, <<0, 66>>>> /\ Len(Blank) = 2
      /\ Blank[1] = <<10>> /\ Blank[2] = <<0, 66>>
  BY DEF Blank
<1>5. Blank \in Seq(Seq(Byte))
  BY <1>2, <1>4
<1> QED
  BY <1>2, <1>3, <1>4, <1>5

Half == FileLength \div 2

\* The place of the k-th line in what is typed
Place(k) == IF k <= Half THEN k + 2 ELSE k + 4

\* The lines among the first n blocks typed
LinesAmong(n) == (3 .. (IF n <= Half + 2 THEN n ELSE Half + 2))
                   \cup (Half + 5 .. (IF n <= FileLength + 4 THEN n ELSE FileLength + 4))

\* c is the sequence a with b after it
IsJoined(T, c, a, b) == /\ c \in Seq(T) /\ Len(c) = Len(a) + Len(b)
                        /\ \A i \in 1 .. Len(a) : c[i] = a[i]
                        /\ \A i \in 1 .. Len(b) : c[Len(a) + i] = b[i]

LEMMA Joined ==
  ASSUME NEW T, NEW a \in Seq(T), NEW b \in Seq(T)
  PROVE  IsJoined(T, a \o b, a, b)
<1>1. Len(a) \in Nat /\ Len(b) \in Nat
  BY LenProperties
<1>2. /\ a \o b \in Seq(T) /\ Len(a \o b) = Len(a) + Len(b)
      /\ \A i \in 1 .. Len(a) + Len(b) :
           (a \o b)[i] = IF i <= Len(a) THEN a[i] ELSE b[i - Len(a)]
  BY ConcatProperties
<1>3. ASSUME NEW i \in 1 .. Len(b) PROVE (a \o b)[Len(a) + i] = b[i]
  <2>1. /\ Len(a) + i \in 1 .. Len(a) + Len(b) /\ ~(Len(a) + i <= Len(a))
        /\ Len(a) + i - Len(a) = i
    BY <1>1
  <2> QED
    BY <1>2, <2>1
<1> QED
  BY <1>1, <1>2, <1>3 DEF IsJoined

LEMMA TypedBlocks ==
  ASSUME FileLength \in Nat, FileLength < 15600, Stdin
  PROVE  /\ Len(Typed) = FileLength + 6 /\ Half \in Nat /\ Half <= FileLength
         /\ \A i \in 1 .. FileLength + 6 : i \notin LinesAmong(FileLength + 6) =>
              Typed[i] # <<>> /\ Payload(Typed[i]) = <<>>
         /\ \A k \in 1 .. FileLength : Typed[Place(k)] = Line(k)
<1> DEFINE S == Seq(Byte)
           B == Lines(1, Half)
           C == Lines(Half + 1, FileLength)
           t1 == Blank \o B
           t2 == t1 \o Blank
           t3 == t2 \o C
<1>1. Half \in Nat /\ Half <= FileLength /\ FileLength \in Nat
  BY DEF Half
<1>2. /\ Blank \in Seq(S) /\ Len(Blank) = 2
      /\ \A i \in 1 .. 2 : Blank[i] # <<>> /\ Payload(Blank[i]) = <<>>
  BY BlankBlocks
<1>3. /\ B \in Seq(S) /\ Len(B) = Half
      /\ \A i \in 1 .. Half : B[i] = Line(i)
  <2>1. \A i \in 1 .. Half : Line(i) \in S /\ 1 + i - 1 = i
    BY <1>1, FileBlocks
  <2>2. B = [i \in 1 .. Half |-> Line(1 + i - 1)]
    BY <1>1 DEF Lines
  <2> QED
    BY <1>1, <2>1, <2>2
<1>4. /\ C \in Seq(S) /\ Len(C) = FileLength - Half
      /\ \A i \in 1 .. FileLength - Half : C[i] = Line(Half + i)
  <2>1. \A i \in 1 .. FileLength - Half : Line(Half + i) \in S /\ Half + 1 + i - 1 = Half + i
    <3> TAKE i \in 1 .. FileLength - Half
    <3>1. Half + i \in 1 .. FileLength /\ Half + 1 + i - 1 = Half + i
      BY <1>1
    <3> QED
      BY <3>1, FileBlocks
  <2>2. C = [i \in 1 .. FileLength - Half |-> Line(Half + 1 + i - 1)]
    <3>1. FileLength - (Half + 1) + 1 = FileLength - Half
      BY <1>1
    <3> QED
      BY <3>1 DEF Lines
  <2>3. \A i \in 1 .. FileLength - Half : Line(Half + 1 + i - 1) = Line(Half + i)
    BY <2>1
  <2>4. FileLength - Half \in Nat
    BY <1>1
  <2> HIDE DEF C, S
  <2> QED
    BY ONLY <2>1, <2>2, <2>3, <2>4
<1> HIDE DEF S, B, C
<1>5. /\ t1 \in Seq(S) /\ Len(t1) = Half + 2
      /\ \A i \in 1 .. 2 : t1[i] = Blank[i]
      /\ \A i \in 1 .. Half : t1[2 + i] = B[i]
  <2>1. 2 \in Nat /\ 2 + Half = Half + 2
    BY <1>1
  <2>2. IsJoined(S, Blank \o B, Blank, B)
    BY ONLY <1>2, <1>3, Joined
  <2> QED
    BY ONLY <1>2, <1>3, <2>1, <2>2 DEF t1, IsJoined
<1> HIDE DEF t1
<1>6. /\ t2 \in Seq(S) /\ Len(t2) = Half + 4
      /\ \A i \in 1 .. Half + 2 : t2[i] = t1[i]
      /\ \A i \in 1 .. 2 : t2[Half + 2 + i] = Blank[i]
  <2>1. Half + 2 \in Nat /\ Half + 2 + 2 = Half + 4
    BY <1>1
  <2>2. IsJoined(S, t1 \o Blank, t1, Blank)
    BY ONLY <1>2, <1>5, Joined
  <2> QED
    BY ONLY <1>2, <1>5, <2>1, <2>2 DEF t2, IsJoined
<1> HIDE DEF t2
<1>7. /\ t3 \in Seq(S) /\ Len(t3) = FileLength + 4
      /\ \A i \in 1 .. Half + 4 : t3[i] = t2[i]
      /\ \A i \in 1 .. FileLength - Half : t3[Half + 4 + i] = C[i]
  <2>1. Half + 4 \in Nat /\ Half + 4 + (FileLength - Half) = FileLength + 4
    BY <1>1
  <2>2. IsJoined(S, t2 \o C, t2, C)
    BY ONLY <1>4, <1>6, Joined
  <2> QED
    BY ONLY <1>4, <1>6, <2>1, <2>2 DEF t3, IsJoined
<1> HIDE DEF t3
<1>8. /\ Len(Typed) = FileLength + 6
      /\ \A i \in 1 .. FileLength + 4 : Typed[i] = t3[i]
      /\ \A i \in 1 .. 2 : Typed[FileLength + 4 + i] = Blank[i]
  <2>1. Typed = t3 \o Blank
    BY DEF Typed, t3, t2, t1, B, C, Half
  <2>2. FileLength + 4 \in Nat /\ FileLength + 4 + 2 = FileLength + 6
    BY <1>1
  <2>3. IsJoined(S, t3 \o Blank, t3, Blank)
    BY ONLY <1>2, <1>7, Joined
  <2> QED
    BY ONLY <1>2, <1>7, <2>1, <2>2, <2>3 DEF IsJoined
<1>9. ASSUME NEW i \in 1 .. FileLength + 6, i \notin LinesAmong(FileLength + 6)
      PROVE  Typed[i] # <<>> /\ Payload(Typed[i]) = <<>>
  <2>1. \/ i \in 1 .. 2
        \/ i \in {Half + 3, Half + 4}
        \/ i \in {FileLength + 5, FileLength + 6}
    BY <1>1, <1>9 DEF LinesAmong
  <2>2. CASE i \in 1 .. 2
    <3>1. i \in 1 .. Half + 2 /\ i \in 1 .. Half + 4 /\ i \in 1 .. FileLength + 4
      BY <1>1, <2>2
    <3>2. Typed[i] = Blank[i]
      BY ONLY <1>5, <1>6, <1>7, <1>8, <2>2, <3>1
    <3> QED
      BY ONLY <1>2, <2>2, <3>2
  <2>3. CASE i \in {Half + 3, Half + 4}
    <3>1. PICK j \in 1 .. 2 : i = Half + 2 + j
      <4>1. Half + 3 = Half + 2 + 1 /\ Half + 4 = Half + 2 + 2 /\ 1 \in 1 .. 2 /\ 2 \in 1 .. 2
        BY <1>1
      <4> QED
        BY <2>3, <4>1
    <3>2. i \in 1 .. Half + 4 /\ i \in 1 .. FileLength + 4
      BY <1>1, <2>3
    <3>3. Typed[i] = Blank[j]
      BY <1>6, <1>7, <1>8, <3>1, <3>2
    <3> QED
      BY <1>2, <3>3
  <2>4. CASE i \in {FileLength + 5, FileLength + 6}
    <3>1. PICK j \in 1 .. 2 : i = FileLength + 4 + j
      <4>1. /\ FileLength + 5 = FileLength + 4 + 1 /\ FileLength + 6 = FileLength + 4 + 2
            /\ 1 \in 1 .. 2 /\ 2 \in 1 .. 2
        BY <1>1
      <4> QED
        BY <2>4, <4>1
    <3>2. Typed[i] = Blank[j]
      BY <1>8, <3>1
    <3> QED
      BY <1>2, <3>2
  <2> QED
    BY <2>1, <2>2, <2>3, <2>4
<1>10. ASSUME NEW k \in 1 .. FileLength PROVE Typed[Place(k)] = Line(k)
  <2>1. CASE k <= Half
    <3>1. /\ Place(k) = 2 + k /\ k \in 1 .. Half
          /\ 2 + k \in 1 .. FileLength + 4 /\ 2 + k \in 1 .. Half + 4 /\ 2 + k \in 1 .. Half + 2
      BY <1>1, <2>1 DEF Place
    <3> QED
      BY <1>3, <1>5, <1>6, <1>7, <1>8, <3>1
  <2>2. CASE k > Half
    <3>1. /\ Place(k) = Half + 4 + (k - Half) /\ Half + 4 + (k - Half) \in 1 .. FileLength + 4
          /\ k - Half \in 1 .. FileLength - Half /\ Half + (k - Half) = k
      BY <1>1, <2>2 DEF Place
    <3> QED
      BY <1>4, <1>7, <1>8, <3>1
  <2> QED
    BY <1>1, <2>1, <2>2
<1> QED
  BY <1>1, <1>8, <1>9, <1>10

\* The line that a block typed is, and how many lines are typed up to it.
LEMMA LinesCounted ==
  ASSUME FileLength \in Nat, FileLength < 15600, Stdin, Input = Typed, Tails = Zeros,
         NEW n \in 0 .. Len(Input)
  PROVE  Sendable(n) = LinesAmong(n) /\ Rank(n) = Cardinality(LinesAmong(n))
<1>1. /\ Len(Input) = FileLength + 6 /\ Half \in Nat /\ Half <= FileLength
      /\ FileLength \in Nat /\ n \in Nat
  BY TypedBlocks
<1>2. \A i \in 1 .. n : PayloadsOf(i) = {Payload(Input[i])}
  <2> TAKE i \in 1 .. n
  <2>1. Input[i] \in Seq(Byte)
    BY <1>1, SenderConstants, ElementOfSeq
  <2>2. Input[i] \o <<>> = Input[i]
    BY <2>1, ConcatEmptySeq
  <2> QED
    BY <2>2 DEF PayloadsOf, Zeros
<1>3. \A i \in 1 .. n : i \in LinesAmong(FileLength + 6) <=> Payload(Input[i]) # <<>>
  <2> TAKE i \in 1 .. n
  <2>1. CASE i \in LinesAmong(FileLength + 6)
    <3>1. \E k \in 1 .. FileLength : i = Place(k)
      <4>1. CASE i <= Half + 2
        <5>1. i - 2 \in 1 .. FileLength /\ i = Place(i - 2)
          BY <1>1, <2>1, <4>1 DEF LinesAmong, Place
        <5> QED
          BY <5>1
      <4>2. CASE i > Half + 2
        <5>1. i - 4 \in 1 .. FileLength /\ i = Place(i - 4)
          BY <1>1, <2>1, <4>2 DEF LinesAmong, Place
        <5> QED
          BY <5>1
      <4> QED
        BY <1>1, <4>1, <4>2
    <3>2. PICK k \in 1 .. FileLength : i = Place(k)
      BY <3>1
    <3>3. Input[i] = Line(k)
      BY <3>2, TypedBlocks
    <3>4. Payload(Line(k)) = File[k] /\ File[k] # <<>>
      BY FileBlocks
    <3> QED
      BY ONLY <2>1, <3>3, <3>4
  <2>2. CASE i \notin LinesAmong(FileLength + 6)
    BY <1>1, <2>2, TypedBlocks
  <2> QED
    BY <2>1, <2>2
<1>4. Sendable(n) = {i \in 1 .. n : i \in LinesAmong(FileLength + 6)}
  <2>1. \A i \in 1 .. n : (\E payload \in PayloadsOf(i) : payload # <<>>)
                             <=> i \in LinesAmong(FileLength + 6)
    BY ONLY <1>2, <1>3
  <2> QED
    BY ONLY <2>1 DEF Sendable
<1>5. {i \in 1 .. n : i \in LinesAmong(FileLength + 6)} = LinesAmong(n)
  BY <1>1 DEF LinesAmong
<1>6. Sendable(n) = LinesAmong(n)
  BY ONLY <1>4, <1>5
<1> QED
  BY ONLY <1>6 DEF Rank

\* So many lines are sent as the file has blocks, each line in its turn.
LEMMA LinesPlaced ==
  ASSUME FileLength \in Nat, FileLength < 15600, Stdin, Input = Typed, Tails = Zeros
  PROVE  /\ Rank(Len(Input)) = FileLength
         /\ \A k \in 1 .. FileLength :
              /\ Place(k) \in 1 .. Len(Input)
              /\ Place(k) \in Sendable(Place(k))
              /\ Rank(Place(k)) = k /\ Rank(Place(k) - 1) = k - 1
              /\ PayloadsOf(Place(k)) = {File[k]}
<1>1. /\ Len(Input) = FileLength + 6 /\ Half \in Nat /\ Half <= FileLength
      /\ FileLength \in Nat
      /\ \A k \in 1 .. FileLength : Typed[Place(k)] = Line(k)
  BY TypedBlocks
<1>2. ASSUME NEW n \in 0 .. FileLength + 6
      PROVE  Rank(n) = IF n < 2 THEN 0
                       ELSE IF n <= Half + 2 THEN n - 2
                       ELSE IF n <= Half + 4 THEN Half
                       ELSE IF n <= FileLength + 4 THEN n - 4
                       ELSE FileLength
  <2> DEFINE a == IF n <= Half + 2 THEN n ELSE Half + 2
             b == IF n <= FileLength + 4 THEN n ELSE FileLength + 4
  <2>1. a \in Int /\ b \in Int /\ 3 \in Int /\ Half + 5 \in Int /\ a <= Half + 2
    BY <1>1
  <2> HIDE DEF a, b
  <2>2. /\ IsFiniteSet(3 .. a) /\ Cardinality(3 .. a) = IF 3 > a THEN 0 ELSE a - 3 + 1
        /\ IsFiniteSet(Half + 5 .. b)
        /\ Cardinality(Half + 5 .. b) = IF Half + 5 > b THEN 0 ELSE b - (Half + 5) + 1
    BY ONLY <2>1, FS_Interval
  <2>3. (3 .. a) \cap (Half + 5 .. b) = {}
    BY <1>1, <2>1
  <2>4. Cardinality((3 .. a) \cup (Half + 5 .. b))
          = Cardinality(3 .. a) + Cardinality(Half + 5 .. b)
    <3> DEFINE X == 3 .. a
               Y == Half + 5 .. b
    <3>1. IsFiniteSet(X) /\ IsFiniteSet(Y) /\ X \cap Y = {}
      BY <2>2, <2>3
    <3>2. Cardinality(X) \in Nat /\ Cardinality(Y) \in Nat /\ Cardinality({}) = 0
      BY <3>1, FS_CardinalityType, FS_EmptySet
    <3> HIDE DEF X, Y
    <3>3. Cardinality(X \cup Y) = Cardinality(X) + Cardinality(Y) - Cardinality(X \cap Y)
      BY ONLY <3>1, FS_Union
    <3>4. Cardinality(X \cap Y) = 0
      BY ONLY <3>1, <3>2
    <3>5. Cardinality(X \cup Y) = Cardinality(X) + Cardinality(Y)
      BY ONLY <3>2, <3>3, <3>4
    <3> QED
      BY ONLY <3>5 DEF X, Y
  <2>5. Rank(n) = Cardinality((3 .. a) \cup (Half + 5 .. b))
    <3>1. n \in 0 .. Len(Input)
      BY <1>1
    <3> QED
      BY <3>1, LinesCounted DEF LinesAmong, a, b
  <2> QED
    BY <1>1, <2>2, <2>4, <2>5 DEF a, b
<1>3. ASSUME NEW k \in 1 .. FileLength
      PROVE  /\ Place(k) \in 1 .. Len(Input)
             /\ Place(k) \in Sendable(Place(k))
             /\ Rank(Place(k)) = k /\ Rank(Place(k) - 1) = k - 1
             /\ PayloadsOf(Place(k)) = {File[k]}
  <2>1. /\ Place(k) \in 1 .. Len(Input) /\ Place(k) \in 0 .. FileLength + 6
        /\ Place(k) - 1 \in 0 .. FileLength + 6
    BY <1>1 DEF Place
  <2>2. Place(k) \in LinesAmong(Place(k))
    BY <1>1 DEF Place, LinesAmong
  <2>3. Place(k) \in 0 .. Len(Input)
    BY <1>1, <2>1
  <2>4. Place(k) \in Sendable(Place(k))
    BY <2>2, <2>3, LinesCounted
  <2>5. Rank(Place(k)) = k
    BY <1>1, <1>2, <2>1 DEF Place
  <2>6. Rank(Place(k) - 1) = k - 1
    BY <1>1, <1>2, <2>1 DEF Place
  <2>7. PayloadsOf(Place(k)) = {File[k]}
    <3>1. Input[Place(k)] = Line(k) /\ Line(k) \in Seq(Byte) /\ Payload(Line(k)) = File[k]
      BY <1>1, FileBlocks
    <3>2. Input[Place(k)] \o <<>> = Line(k)
      BY <3>1, ConcatEmptySeq
    <3> QED
      BY <3>1, <3>2 DEF PayloadsOf, Zeros
  <2> QED
    BY <2>1, <2>4, <2>5, <2>6, <2>7
<1>4. Rank(Len(Input)) = FileLength
  <2>1. FileLength + 6 \in 0 .. FileLength + 6
    BY <1>1
  <2> QED
    BY <1>1, <1>2, <2>1
<1> QED
  BY <1>3, <1>4

-----------------------------------------------------------------------------
\* The receiver exits with 0 once all that the blocks read give is sent.
DoneInv == r_pc = "done" => Sent = Rank(s_pos)

LEMMA DoneStep ==
  ASSUME SInv, SInv', LinesSent, DoneInv, [PromptNext]_vars
  PROVE  DoneInv'
<1> SUFFICES ASSUME r_pc' = "done" PROVE Sent' = Rank(s_pos')
  BY DEF DoneInv
<1>1. CASE r_pc = "done"
  <2>1. s_pc \notin {"read", "wait"}
    BY <1>1 DEF SInv, StopAndWait, ReceiverAgrees
  <2>2. UNCHANGED <<s_sent, s_pos>>
    <3>1. CASE PromptSender
      BY <2>1, <3>1
      DEF PromptSender, SkipBlock, SendBlock, PayloadTooLong, SendFin, Resend,
          RecvUndecodable, RecvAck, RecvNack, RecvStaleNack, RecvFinAck, RecvFinOther,
          senderVars
    <3>2. CASE ReceiverStep \/ LinkStep \/ UNCHANGED vars
      BY <3>2 DEF ReceiverStep, LinkStep, senderVars, vars
    <3> QED
      BY <3>1, <3>2 DEF PromptNext
  <2> QED
    BY <1>1, <2>2 DEF DoneInv, Sent
<1>2. CASE r_pc # "done"
  <2>1. RecvFin /\ UNCHANGED <<s_pc, senderVars, up, s_sock>>
    <3>1. ReceiverStep
      BY <1>2 DEF PromptNext, PromptSender, LinkStep, vars
    <3> QED
      BY <1>2, <3>1
      DEF ReceiverStep, ReceiverNext, RecvIgnored, RecvTruncated, RecvData, RecvOutOfWindow
  <2>2. s_pc = "fin"
    BY <2>1, RecvFinAgrees
  <2> QED
    BY <2>1, <2>2 DEF LinesSent, senderVars, Sent
<1> QED
  BY <1>1, <1>2

LEMMA DoneInvariant == PromptSpec => []DoneInv
<1>1. Init => DoneInv
  BY DEF Init, ReceiverInit, DoneInv
<1>2. SInv /\ SInv' /\ LinesSent /\ DoneInv /\ [PromptNext]_vars => DoneInv'
  BY DoneStep
<1> QED
  BY <1>1, <1>2, PromptInvariant, PromptIsSpec, LinesSentCorrect, PTL DEF PromptSpec

LEMMA LinesFromWritten ==
  ASSUME FileLength \in Nat, FileLength < 15600, Stdin, Input = Typed, Tails = Zeros,
         SInv, LinesWritten, PrefixWritten, EndMeansComplete, DoneInv, Sent <= Rank(s_pos)
  PROVE  LinesReceived
<1>1. /\ r_written \in Seq(Seq(Byte)) /\ Len(r_written) \in Nat /\ Sent \in Nat
      /\ Sent = Len(s_sent) /\ s_pos \in Nat /\ Len(Input) \in Nat /\ s_pos <= Len(Input)
  BY Lengths DEF SInv
<1>2. /\ Rank(Len(Input)) = FileLength
      /\ \A k \in 1 .. FileLength :
           /\ Place(k) \in 1 .. Len(Input)
           /\ Place(k) \in Sendable(Place(k))
           /\ Rank(Place(k)) = k /\ Rank(Place(k) - 1) = k - 1
           /\ PayloadsOf(Place(k)) = {File[k]}
  BY LinesPlaced
<1>3. Len(r_written) <= Rank(s_pos) /\ Rank(s_pos) \in Nat /\ Len(r_written) <= FileLength
  <2>1. Rank(s_pos) <= Rank(Len(Input)) /\ Rank(s_pos) \in Nat
    BY <1>1, SendableCounts
  <2> QED
    BY <1>1, <1>2, <2>1 DEF PrefixWritten
<1>4. ASSUME NEW k \in 1 .. Len(r_written) PROVE r_written[k] = File[k]
  <2>1. k \in 1 .. FileLength
    BY <1>1, <1>3
  <2> DEFINE p == Place(k)
  <2>2. /\ p \in 1 .. Len(Input) /\ p \in Sendable(p)
        /\ Rank(p) = k /\ Rank(p - 1) = k - 1 /\ PayloadsOf(p) = {File[k]}
    BY <1>2, <2>1
  <2> HIDE DEF p
  <2>3. p <= s_pos
    <3>1. CASE s_pos <= p - 1
      <4>1. Rank(s_pos) <= Rank(p - 1)
        <5>1. p - 1 \in Nat
          BY <1>1, <2>2
        <5> QED
          BY <1>1, <3>1, <5>1, SendableCounts
      <4> QED
        BY <1>1, <1>3, <2>2, <4>1
    <3> QED
      BY <1>1, <2>2, <3>1
  <2>4. p \in Sendable(s_pos)
    BY <1>1, <2>2, <2>3 DEF Sendable
  <2>5. r_written[Rank(p)] \in PayloadsOf(p)
    BY <1>1, <2>2, <2>4 DEF LinesWritten
  <2> QED
    BY <2>2, <2>5
<1>5. r_written = SubSeq(File, 1, Len(r_written))
  <2> DEFINE g == SubSeq(File, 1, Len(r_written))
  <2>1. File \in Seq(Seq(Byte)) /\ Len(File) = FileLength
    <3>1. File = [k \in 1 .. FileLength |-> IF k = FileLength THEN <<99>>
                                            ELSE <<100 + k \div 100, 11 + (k % 100)>>]
      BY DEF File, FileOf
    <3>2. DOMAIN File = 1 .. FileLength
      BY <3>1
    <3>3. File = [k \in 1 .. FileLength |-> File[k]]
      BY <3>1, <3>2
    <3>4. \A k \in 1 .. FileLength : File[k] \in Seq(Byte)
      BY FileBlocks
    <3> QED
      BY ONLY <3>3, <3>4, FileLength \in Nat
  <2>2. \A i \in 1 .. Len(r_written) : File[i] \in Seq(Byte)
    BY <1>1, <1>3, <2>1, ElementOfSeq
  <2>3. /\ g \in Seq(Seq(Byte)) /\ Len(g) = Len(r_written)
        /\ \A i \in 1 .. Len(r_written) : g[i] = File[i]
    BY <1>1, <1>3, <2>1, <2>2, SubSeqProperties
  <2> HIDE DEF g
  <2>4. r_written = g
    <3>1. /\ r_written \in Seq(Seq(Byte)) /\ g \in Seq(Seq(Byte)) /\ Len(r_written) = Len(g)
          /\ \A i \in 1 .. Len(r_written) : r_written[i] = g[i]
      BY ONLY <1>1, <1>4, <2>3
    <3> QED
      BY ONLY <3>1, SeqEqual
  <2> QED
    BY <2>4 DEF g
<1>6. ASSUME r_pc = "done" PROVE Len(r_written) = FileLength
  BY <1>1, <1>2, <1>6 DEF EndMeansComplete, DoneInv
<1> QED
  BY ONLY <1>5, <1>6, Zenon DEF LinesReceived

\* Of the text typed for the runs, with empty lines and NULs and of any number of lines up to
\* 15599, and on any link, the receiver gets each line up to its linefeed or first NUL, in
\* its turn, and all of them when it exits with 0 (sender.c:307-323).
THEOREM LinesReceivedCorrect ==
  ASSUME FileLength \in Nat, FileLength < 15600, Stdin, Input = Typed, Tails = Zeros,
         ~Spurious
  PROVE  Spec => []LinesReceived
<1>1. SInv /\ LinesWritten /\ PrefixWritten /\ EndMeansComplete /\ DoneInv
        /\ Sent <= Rank(s_pos) => LinesReceived
  BY LinesFromWritten
<1> QED
  BY <1>1, QuietIsPrompt, PromptInvariant, PromptSafety, DoneInvariant, SentWithin, PTL
=============================================================================
