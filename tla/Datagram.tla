------------------------------ MODULE Datagram ------------------------------
(***************************************************************************)
(* The datagrams as the two programs and the link see them, without their  *)
(* bytes: the fields that some later step depends on, what decoding them   *)
(* tells (pkt_decode, ack_decode of src/src/lib.c), and what the link may  *)
(* do to one.  A block of the file is a sequence of bytes.  A CRC is a     *)
(* Boolean, "the CRC in the datagram is still that of the bytes it         *)
(* covers".  Codec.tla checks this view against the fields as encoded.     *)
(***************************************************************************)
EXTENDS Window, Sequences

Byte == 0 .. 255

-----------------------------------------------------------------------------
\* pkt_encode of a DATA packet of the given sequence number; an empty payload
\* (length 0) is the disconnection packet.
Packet(seq, payload) ==
  [seq |-> seq, payload |-> payload, tr |-> FALSE, crc1 |-> TRUE, crc2 |-> TRUE]

PacketType == [seq : SeqNum, payload : Seq(Byte), tr : BOOLEAN,
               crc1 : BOOLEAN, crc2 : BOOLEAN]

\* ack_encode; the window travels in a field of 5 bits (W + 1 values)
Ack(type, seq, window) ==
  [type |-> type, seq |-> seq, window |-> window % (W + 1),
   tr |-> FALSE, crc1 |-> TRUE]

AckType == [type : {"ack", "nack"}, seq : SeqNum, window : 0 .. W,
            tr : BOOLEAN, crc1 : BOOLEAN]

\* Mutated forms: a decoder that forgets CRC1 or CRC2
PktDecodesNoCrc1(p) == p.tr \/ p.crc2
PktDecodesNoCrc2(p) == p.crc1

\* pkt_decode returns PKT_OK: it clears TR before it computes CRC1, and checks
\* CRC2 (and reads the payload) only when TR was 0.
PktDecodes(p) == p.crc1 /\ (p.tr \/ p.crc2)

\* ack_decode returns PKT_OK: it computes CRC1 on the header as received, and
\* the CRC1 was computed with TR = 0.
AckDecodes(a) == a.crc1 /\ ~a.tr

-----------------------------------------------------------------------------
\* Cut after the header: 528 bytes of a packet or 16 of an ACK are more than the
\* 12 of the header, the 12 of a NACK are not.
Cut(d) == [d EXCEPT !.tr = TRUE]
CutApplies(a) == a.type = "ack"

\* One byte inverted: in the header (the sequence number or another field), in the
\* payload, in CRC2; the bytes that no CRC covers leave the datagram as it was.
CorruptHeader(d) == {[d EXCEPT !.crc1 = FALSE],
                     [d EXCEPT !.crc1 = FALSE, !.seq = M - 1 - d.seq]}
CorruptPacket(p) ==
  CorruptHeader(p) \cup {[p EXCEPT !.crc2 = FALSE]}
    \cup {[p EXCEPT !.crc2 = FALSE, !.payload[k] = 255 - p.payload[k]] :
            k \in DOMAIN p.payload}
=============================================================================
