------------------------------- MODULE Codec -------------------------------
(***************************************************************************)
(* The codec of src/src/lib.c field by field: the structs, the setters the *)
(* programs call, pkt_encode and ack_encode, the one harm the link may do  *)
(* to the encoded datagram, pkt_decode and ack_decode.  It shows that the  *)
(* datagrams of Datagram.tla, where a CRC is a Boolean, tell what the      *)
(* codec tells.                                                            *)
(*                                                                         *)
(* The first byte is packed as in the code; of the others, the fields are  *)
(* kept apart.  crc32 is an external function that distinguishes any two   *)
(* byte strings of which one is the other with a byte inverted: it is the  *)
(* identity here.  No payload has a NUL, as strlen gave its length.        *)
(***************************************************************************)
EXTENDS Datagram

CONSTANTS
  Seqs,         \* sequence numbers, among SeqNum
  Windows,      \* values of the uint8_t `window` of the programs
  Payloads      \* payloads: not empty, without a NUL

ASSUME CodecConstants ==
  /\ M = 256 /\ W = 31
  /\ Seqs \subseteq SeqNum
  /\ Windows \subseteq Byte
  /\ Payloads \subseteq Seq(1 .. 255) \ {<<>>}
  /\ \A p \in Payloads : Len(p) <= 512

VARIABLES
  stage,      \* which kind of datagram is under way, and what has harmed it
  pkt,        \* the struct pkt of the sender
  ack,        \* the struct ack of the receiver
  wire,       \* the datagram
  pkt_recv,   \* the struct pkt of the receiver
  ack_recv,   \* the struct ack of the sender
  ok          \* whether the last function called returned PKT_OK

vars == <<stage, pkt, ack, wire, pkt_recv, ack_recv, ok>>

PTYPE_DATA == 1
PTYPE_ACK == 2
PTYPE_NACK == 3
Types == {PTYPE_DATA, PTYPE_ACK, PTYPE_NACK}

AckKind(struct) == IF struct.type = PTYPE_ACK THEN "ack" ELSE "nack"

Idle == [of |-> "none", harm |-> "none"]
Stages == [of : {"none", "pkt", "ack"}, harm : {"none", "cut", "err"}]

\* pkt_new, ack_new: the fields that the codec looks at; a struct pkt after the setters
PktWith(seq, payload) == [type |-> PTYPE_DATA, tr |-> 0, window |-> 0, seq |-> seq,
                          length |-> Len(payload), payload |-> payload]
NewPkt == PktWith(0, <<>>)
NewAck == [type |-> PTYPE_ACK, tr |-> 0, window |-> 0, seq |-> 0, length |-> 0]
NoWire == [first |-> 0, seq |-> 0, length |-> 0, time |-> 0, crc1 |-> <<>>,
           payload |-> <<>>, crc2 |-> <<>>]

Init == /\ stage = Idle
        /\ pkt = NewPkt /\ ack = NewAck /\ wire = NoWire
        /\ pkt_recv = NewPkt /\ ack_recv = NewAck
        /\ ok = TRUE

-----------------------------------------------------------------------------
\* The bits of the first byte
FirstByte(type, tr, window) == type * 64 + tr * 32 + window
TypeOf(first) == first \div 64
TrOf(first) == (first \div 32) % 2
WindowOf(first) == first % 32

\* Mutated forms of the definitions below
ClearTrNever(first) == first
SetWindowAlways(struct, window) == [struct EXCEPT !.window = window]
PayloadValidAlways(w) == TRUE

ClearTr(first) == first - 32 * TrOf(first)

Crc(bytes) == bytes
Header(first, w) == <<first, w.seq, w.length, w.time>>

HeaderValid(first, w) ==
  /\ TypeOf(first) \in Types
  /\ w.length <= 512
  /\ w.crc1 = Crc(Header(first, w))

PayloadValid(w) == w.crc2 = Crc(w.payload)

-----------------------------------------------------------------------------
\* pkt_set_window refuses a window too large, and its error is not looked at; a window
\* of struct ack is cut to its 5 bits.
SetWindow(struct, window) ==
  IF window > 31 THEN struct ELSE [struct EXCEPT !.window = window]
Bits5(window) == window % 32

\* pkt_encode and ack_encode write the same header
Encode(struct, data) ==
  LET first == FirstByte(struct.type, struct.tr, struct.window)
  IN [first |-> first, seq |-> struct.seq, length |-> struct.length, time |-> 0,
      crc1 |-> Crc(<<first, struct.seq, struct.length, 0>>),
      payload |-> data, crc2 |-> Crc(data)]

PktEncode(struct) == Encode(struct, SubSeq(struct.payload, 1, struct.length))
AckEncode(struct) == Encode(struct, <<>>)

\* The sender prepares a packet and encodes it.  After each acknowledgement it has put
\* the fields of its struct back to those of a new one.
EncodePkt ==
  /\ stage = Idle
  /\ \E seq \in Seqs, payload \in Payloads, window \in Windows :
       pkt' = SetWindow(PktWith(seq, payload), window)
  /\ wire' = PktEncode(pkt')
  /\ stage' = [of |-> "pkt", harm |-> "none"]
  /\ ok' = TRUE
  /\ UNCHANGED <<ack, pkt_recv, ack_recv>>

\* The disconnection: only the number and the length are set.
EncodeFin ==
  /\ stage = Idle
  /\ \E seq \in Seqs : pkt' = PktWith(seq, <<>>)
  /\ wire' = PktEncode(pkt')
  /\ stage' = [of |-> "pkt", harm |-> "none"]
  /\ ok' = TRUE
  /\ UNCHANGED <<ack, pkt_recv, ack_recv>>

\* The receiver answers with an ACK or a NACK
EncodeAck ==
  /\ stage = Idle
  /\ \E type \in {PTYPE_ACK, PTYPE_NACK}, seq \in Seqs, window \in Windows :
       ack' = [NewAck EXCEPT !.type = type, !.seq = seq, !.window = Bits5(window)]
  /\ wire' = AckEncode(ack')
  /\ stage' = [of |-> "ack", harm |-> "none"]
  /\ ok' = TRUE
  /\ UNCHANGED <<pkt, pkt_recv, ack_recv>>

-----------------------------------------------------------------------------
\* simulate_link: cut (TR is set, what follows the header is not sent) or one byte
\* inverted.  The two bytes of the length are told apart.
CutBytes(w) == [w EXCEPT !.first = @ + 32, !.payload = <<>>, !.crc2 = <<>>]

Inverted(bytes) == {[bytes EXCEPT ![k] = 255 - @] : k \in DOMAIN bytes}

Inversions(w) ==
  {[w EXCEPT !.first = 255 - @],
   [w EXCEPT !.seq = 255 - @],
   [w EXCEPT !.length = 256 * (255 - (@ \div 256)) + (@ % 256)],
   [w EXCEPT !.length = 256 * (@ \div 256) + (255 - (@ % 256))],
   [w EXCEPT !.time = 255 - @],
   [w EXCEPT !.crc2 = Append(@, 0)]}
    \cup {[w EXCEPT !.crc1 = c] : c \in Inverted(w.crc1)}
    \cup {[w EXCEPT !.payload = p] : p \in Inverted(w.payload)}

UnderWay == stage.of # "none" /\ stage.harm = "none"

\* Of an ACK, 16 bytes are sent and can be cut; of a NACK, 12.
CutWire ==
  /\ UnderWay
  /\ stage.of = "ack" => CutApplies([type |-> AckKind(ack)])
  /\ wire' = CutBytes(wire)
  /\ stage' = [stage EXCEPT !.harm = "cut"]
  /\ UNCHANGED <<pkt, ack, pkt_recv, ack_recv, ok>>

InvertByte ==
  /\ UnderWay
  /\ wire' \in Inversions(wire)
  /\ stage' = [stage EXCEPT !.harm = "err"]
  /\ UNCHANGED <<pkt, ack, pkt_recv, ack_recv, ok>>

-----------------------------------------------------------------------------
\* (The struct encoded is forgotten after the decoding: the programs put it back.)
\* pkt_decode: the header goes to the struct before CRC2 is checked, so a packet
\* refused for its payload, or a cut one, leaves the payload of an earlier one.
DecodePkt ==
  /\ stage.of = "pkt"
  /\ LET first == ClearTr(wire.first)
         tr == TrOf(wire.first)
         reads == TypeOf(first) = PTYPE_DATA /\ tr = 0
     IN /\ ok' = (HeaderValid(first, wire) /\ (reads => PayloadValid(wire)))
        /\ pkt_recv' =
             IF ~HeaderValid(first, wire) THEN pkt_recv
             ELSE [type |-> TypeOf(first), tr |-> tr, window |-> WindowOf(first),
                   seq |-> wire.seq, length |-> wire.length,
                   payload |-> IF reads /\ ok' THEN wire.payload ELSE pkt_recv.payload]
  /\ stage' = Idle /\ pkt' = NewPkt /\ wire' = NoWire
  /\ UNCHANGED <<ack, ack_recv>>

\* ack_decode: CRC1 is computed on the header with its TR bit
DecodeAck ==
  /\ stage.of = "ack"
  /\ ok' = HeaderValid(wire.first, wire)
  /\ ack_recv' = IF ~ok' THEN ack_recv
                 ELSE [type |-> TypeOf(wire.first), tr |-> TrOf(wire.first),
                       window |-> WindowOf(wire.first), seq |-> wire.seq,
                       length |-> wire.length]
  /\ stage' = Idle /\ ack' = NewAck /\ wire' = NoWire
  /\ UNCHANGED <<pkt, pkt_recv>>

Next == \/ EncodePkt \/ EncodeFin \/ EncodeAck
        \/ CutWire \/ InvertByte \/ DecodePkt \/ DecodeAck

Spec == Init /\ [][Next]_vars

-----------------------------------------------------------------------------
\* The fields fit the widths of the structs and of the datagram, the window its 5 bits:
\* no setter and no decoder stores more.
TypeOK ==
  /\ stage \in Stages
  /\ {pkt.window, pkt_recv.window, ack.window, ack_recv.window} \subseteq 0 .. W
  /\ {pkt.type, pkt_recv.type, ack.type, ack_recv.type} \subseteq Types
  /\ {pkt.seq, pkt_recv.seq, ack.seq, ack_recv.seq} \subseteq SeqNum
  /\ {wire.first, wire.seq, wire.time} \subseteq Byte
  /\ ok \in BOOLEAN

\* What a datagram of Datagram.tla may have become after one harm.
HarmedPkts(p) == CASE stage.harm = "none" -> {p}
                   [] stage.harm = "cut" -> {Cut(p)}
                   [] stage.harm = "err" -> {p} \cup CorruptPacket(p)
HarmedAcks(a) == CASE stage.harm = "none" -> {a}
                   [] stage.harm = "cut" -> {Cut(a)}
                   [] stage.harm = "err" -> {a} \cup CorruptHeader(a)

\* What a decoder tells of it: nothing, or the number and, unless cut, the payload.
Refused == [decoded |-> FALSE]
PktView(p) ==
  IF PktDecodes(p)
  THEN [decoded |-> TRUE, seq |-> p.seq, tr |-> p.tr, end |-> p.payload = <<>>,
        payload |-> IF p.tr THEN <<>> ELSE p.payload]
  ELSE Refused
AckView(a) ==
  IF AckDecodes(a) THEN [decoded |-> TRUE, type |-> a.type, seq |-> a.seq, window |-> a.window]
  ELSE Refused

\* What pkt_decode makes of an encoded packet that the link has harmed, once at most,
\* is what Datagram says: with CRC1 over a header whose TR is cleared and CRC2 over a
\* payload that is there only when TR is 0.
PktAsModelled ==
  DecodePkt =>
    LET view == IF ok' THEN [decoded |-> TRUE, seq |-> pkt_recv'.seq,
                             tr |-> pkt_recv'.tr = 1, end |-> pkt_recv'.length = 0,
                             payload |-> IF pkt_recv'.tr = 1 THEN <<>> ELSE pkt_recv'.payload]
                ELSE Refused
        sent == Packet(pkt.seq, SubSeq(pkt.payload, 1, pkt.length))
    IN view \in {PktView(p) : p \in HarmedPkts(sent)}

\* The same of ack_decode: an ACK that is cut or corrupted does not decode, one that is
\* not tells its type, its number and the window, modulo 32.
AckAsModelled ==
  DecodeAck =>
    LET view == IF ok' THEN [decoded |-> TRUE,
                             type |-> AckKind(ack_recv'),
                             seq |-> ack_recv'.seq, window |-> ack_recv'.window]
                ELSE Refused
        sent == Ack(AckKind(ack), ack.seq, ack.window)
    IN view \in {AckView(a) : a \in HarmedAcks(sent)}

\* Both, of every datagram that is decoded.
DecodesAsModelled == [][PktAsModelled /\ AckAsModelled]_vars

\* A receiver never uses a payload that does not go with the header it was told: when
\* pkt_decode returns PKT_OK and TR is 0, number, length and payload are those of the
\* packet just encoded, whatever the struct held before.
DecodedIsSent ==
  [][DecodePkt /\ ok' =>
       /\ pkt_recv'.seq = pkt.seq /\ pkt_recv'.length = pkt.length
       /\ pkt_recv'.window = pkt.window
       /\ pkt_recv'.tr = 0 => /\ pkt_recv'.payload = SubSeq(pkt.payload, 1, pkt.length)
                              /\ Len(pkt_recv'.payload) = pkt_recv'.length]_vars
=============================================================================
