---------------------------- MODULE CodecProofs ----------------------------
(***************************************************************************)
(* For every number, window and payload: the codec tells what Datagram     *)
(* says it tells, and what pkt_decode accepts is what was encoded,         *)
(* although the link may have cut the datagram or inverted a byte of it.   *)
(***************************************************************************)
EXTENDS Codec, SequenceTheorems, TLAPS

\* A packet that the sender may have encoded
Encodable(p) == /\ p \in [type : {PTYPE_DATA}, tr : {0}, window : 0 .. 31, seq : SeqNum,
                          length : 0 .. 512, payload : Seq(1 .. 255)]
                /\ Len(p.payload) = p.length

\* An acknowledgement that the receiver may have encoded
Answerable(a) == a \in [type : {PTYPE_ACK, PTYPE_NACK}, tr : {0}, window : 0 .. 31,
                        seq : SeqNum, length : {0}]

\* What is under way is the datagram as encoded, cut, or with a byte inverted
Harmed(encoded) == \/ stage.harm = "none" /\ wire = encoded
                   \/ stage.harm = "cut" /\ wire = CutBytes(encoded)
                   \/ stage.harm = "err" /\ wire \in Inversions(encoded)

WireInv ==
  /\ stage \in Stages
  /\ Encodable(pkt)
  /\ Answerable(ack)
  /\ stage.of = "none" => wire = NoWire
  /\ stage.of = "pkt" => Harmed(PktEncode(pkt))
  /\ stage.of = "ack" => Harmed(AckEncode(ack))

\* What a decoder stores fits the bit fields of the struct
StructOK(struct) ==
  struct.window \in 0 .. W /\ struct.type \in Types /\ struct.seq \in SeqNum

\* The inductive invariant
IInv == WireInv /\ StructOK(pkt_recv) /\ StructOK(ack_recv) /\ ok \in BOOLEAN

-----------------------------------------------------------------------------
\* The bytes that pkt_encode copies, as many as the length, are the payload
LEMMA SameSeq == ASSUME NEW s \in Seq(1 .. 255) PROVE SubSeq(s, 1, Len(s)) = s
  OBVIOUS

LEMMA Widths == SeqNum = 0 .. 255 /\ Byte = 0 .. 255 /\ W = 31
  BY CodecConstants DEF SeqNum, Byte

\* The three fields packed in the first byte come back, whatever the link has done to
\* TR: clearing TR after the cut gives the byte as it was encoded.
THEOREM FirstByteFields ==
  ASSUME NEW type \in Types, NEW tr \in {0, 1}, NEW window \in 0 .. 31
  PROVE  LET first == FirstByte(type, tr, window)
         IN /\ TypeOf(first) = type /\ TrOf(first) = tr /\ WindowOf(first) = window
            /\ ClearTr(first) = FirstByte(type, 0, window)
  BY DEF FirstByte, TypeOf, TrOf, WindowOf, ClearTr, Types, PTYPE_DATA, PTYPE_ACK,
         PTYPE_NACK

\* A first byte with TR unset, that no inversion of it, TR cleared or not, gives again
Told(first) == /\ ClearTr(first) = first
               /\ 255 - first # first /\ ClearTr(255 - first) # first

\* A datagram with its first byte, its number, its length, what follows the header, and CRCs
Written(first, seq, length, data) ==
  [first |-> first, seq |-> seq, length |-> length, time |-> 0,
   crc1 |-> <<first, seq, length, 0>>, payload |-> data, crc2 |-> data]

\* The fields of an encoded packet
LEMMA Encoded ==
  ASSUME NEW p, Encodable(p)
  PROVE  PktEncode(p) =
           Written(FirstByte(PTYPE_DATA, 0, p.window), p.seq, p.length, p.payload)
  <1>1. SubSeq(p.payload, 1, p.length) = p.payload
    BY SameSeq DEF Encodable
  <1>2. p.type = PTYPE_DATA /\ p.tr = 0
    BY DEF Encodable
  <1> QED
    BY <1>1, <1>2 DEF PktEncode, Encode, Crc, Written

\* The fields of an encoded acknowledgement
LEMMA EncodedAck ==
  ASSUME NEW a, Answerable(a)
  PROVE  AckEncode(a) = Written(FirstByte(a.type, 0, a.window), a.seq, 0, <<>>)
  <1>1. a.length = 0 /\ a.tr = 0
    BY DEF Answerable
  <1> QED
    BY <1>1 DEF AckEncode, Encode, Crc, Written

\* The first byte of an encoded datagram: its type, TR unset, its window
LEMMA FirstBytes ==
  ASSUME NEW type \in Types, NEW window \in 0 .. 31
  PROVE  LET first == FirstByte(type, 0, window)
         IN /\ first \in Byte /\ 255 - first \in Byte /\ first + 32 \in Byte
            /\ TypeOf(first) = type /\ TrOf(first) = 0 /\ WindowOf(first) = window
            /\ ClearTr(first) = first /\ ClearTr(first + 32) = first
            /\ TrOf(first + 32) = 1 /\ first + 32 # first /\ Told(first)
  BY DEF FirstByte, Told, Byte, TypeOf, TrOf, WindowOf, ClearTr, Types, PTYPE_DATA, PTYPE_ACK, PTYPE_NACK

LEMMA NewStructs == Encodable(NewPkt) /\ Answerable(NewAck)
  <1>1. <<>> \in Seq(1 .. 255) /\ Len(<<>>) = 0 /\ 0 \in SeqNum
    BY Widths
  <1>2. NewPkt = [type |-> PTYPE_DATA, tr |-> 0, window |-> 0, seq |-> 0, length |-> 0,
                  payload |-> <<>>]
    BY <1>1 DEF NewPkt, PktWith
  <1> QED
    BY <1>1, <1>2 DEF NewAck, Encodable, Answerable

\* Whatever the programs encode and the link harms, WireInv holds
LEMMA WireKept == Spec => []WireInv
  <1>1. Init => WireInv
    <2>1. ASSUME Init PROVE stage = Idle /\ wire = NoWire /\ Encodable(pkt) /\ Answerable(ack)
      BY <2>1, NewStructs DEF Init
    <2> QED
      BY <2>1 DEF WireInv, Idle, Stages
  <1>2. WireInv /\ [Next]_vars => WireInv'
    <2> SUFFICES ASSUME WireInv, [Next]_vars PROVE WireInv'
      OBVIOUS
    <2>1. CASE EncodePkt
      <3>1. PICK seq \in Seqs, payload \in Payloads, window \in Windows :
              pkt' = SetWindow(PktWith(seq, payload), window)
        BY <2>1 DEF EncodePkt
      <3>2. Encodable(pkt')
        <4>1. payload \in Seq(1 .. 255) /\ seq \in SeqNum
          BY CodecConstants
        <4>2. Len(payload) \in 0 .. 512
          <5>1. Len(payload) <= 512
            BY CodecConstants
          <5>2. Len(payload) \in Nat
            BY <4>1
          <5>3. \A n \in Nat : n <= 512 => n \in 0 .. 512
            OBVIOUS
          <5> QED
            BY <5>1, <5>2, <5>3, Zenon
        <4>3. window \in Nat
          BY CodecConstants DEF Byte
        <4> DEFINE n == Len(payload)
        <4>4. n \in 0 .. 512 /\ n = Len(payload)
          BY <4>2
        <4>5. PICK set \in 0 .. 31 :
                pkt' = [type |-> PTYPE_DATA, tr |-> 0, window |-> set, seq |-> seq,
                        length |-> n, payload |-> payload]
          <5> HIDE DEF n
          <5> DEFINE new == [type |-> PTYPE_DATA, tr |-> 0, window |-> 0, seq |-> seq,
                             length |-> n, payload |-> payload]
          <5>1. pkt' = SetWindow(new, window)
            BY <3>1, <4>4 DEF PktWith
          <5>2. CASE window > 31
            <6>1. pkt' = new
              BY <5>1, <5>2 DEF SetWindow
            <6> QED
              BY <6>1
          <5>3. CASE ~(window > 31)
            <6>1. pkt' = [new EXCEPT !.window = window]
              BY <5>1, <5>3 DEF SetWindow
            <6>2. window \in 0 .. 31
              BY <4>3, <5>3
            <6> QED
              BY <6>1, <6>2
          <5> QED
            BY <5>2, <5>3
        <4> HIDE DEF n
        <4> QED
          BY <4>1, <4>4, <4>5 DEF Encodable
      <3> QED
        BY <2>1, <3>2 DEF EncodePkt, WireInv, Harmed, Stages
    <2>2. CASE EncodeFin
      <3>1. Encodable(pkt')
        <4>1. PICK seq \in Seqs : pkt' = PktWith(seq, <<>>)
          BY <2>2 DEF EncodeFin
        <4>2. seq \in SeqNum /\ <<>> \in Seq(1 .. 255) /\ Len(<<>>) = 0
          BY CodecConstants
        <4>3. pkt' = [type |-> PTYPE_DATA, tr |-> 0, window |-> 0, seq |-> seq,
                      length |-> 0, payload |-> <<>>]
          BY <4>1 DEF PktWith
        <4> QED
          BY <4>2, <4>3 DEF Encodable
      <3> QED
        BY <2>2, <3>1 DEF EncodeFin, WireInv, Harmed, Stages
    <2>3. CASE EncodeAck
      <3>1. PICK type \in {PTYPE_ACK, PTYPE_NACK}, seq \in Seqs, window \in Windows :
              ack' = [NewAck EXCEPT !.type = type, !.seq = seq, !.window = Bits5(window)]
        BY <2>3 DEF EncodeAck
      <3>2. Bits5(window) \in 0 .. 31 /\ seq \in SeqNum
        <4>1. window \in 0 .. 255 /\ seq \in SeqNum
          BY CodecConstants DEF Byte
        <4> QED
          BY <4>1 DEF Bits5
      <3>3. ack' = [type |-> type, tr |-> 0, window |-> Bits5(window), seq |-> seq, length |-> 0]
        BY <3>1 DEF NewAck
      <3>4. Answerable(ack')
        BY <3>2, <3>3 DEF Answerable
      <3> QED
        BY <2>3, <3>4 DEF EncodeAck, WireInv, Harmed, Stages
    <2>4. CASE CutWire
      BY <2>4 DEF CutWire, UnderWay, WireInv, Harmed, Stages
    <2>5. CASE InvertByte
      BY <2>5 DEF InvertByte, UnderWay, WireInv, Harmed, Stages
    <2>6. CASE DecodePkt \/ DecodeAck
      <3>1. stage' = Idle /\ wire' = NoWire /\ Encodable(pkt') /\ Answerable(ack')
        BY <2>6, NewStructs DEF DecodePkt, DecodeAck, WireInv
      <3> QED
        BY <3>1 DEF WireInv, Idle, Stages
    <2>7. CASE UNCHANGED vars
      BY <2>7 DEF vars, WireInv, Harmed
    <2> QED
      BY <2>1, <2>2, <2>3, <2>4, <2>5, <2>6, <2>7 DEF Next
  <1> QED
    BY <1>1, <1>2, PTL DEF Spec

-----------------------------------------------------------------------------
\* The lengths that HeaderValid accepts
Lengths == 0 .. 512

\* The fields of a datagram, all of them
Reads(w, first, seq, length, time, crc1, data, crc2) ==
  /\ w.first = first /\ w.seq = seq /\ w.length = length /\ w.time = time
  /\ w.crc1 = crc1 /\ w.payload = data /\ w.crc2 = crc2

\* The datagrams that one inversion may make of one
LEMMA InversionCases ==
  ASSUME NEW first, NEW seq, NEW length, length \in Lengths, NEW data,
         NEW w, w \in Inversions(Written(first, seq, length, data))
  PROVE  LET header == <<first, seq, length, 0>>
         IN \/ Reads(w, 255 - first, seq, length, 0, header, data, data)
            \/ Reads(w, first, 255 - seq, length, 0, header, data, data)
            \/ \E l \in Int \ {length} : Reads(w, first, seq, l, 0, header, data, data)
            \/ Reads(w, first, seq, length, 255, header, data, data)
            \/ \E c \in Inverted(header) : Reads(w, first, seq, length, 0, c, data, data)
            \/ Reads(w, first, seq, length, 0, header, data, Append(data, 0))
            \/ \E s \in Inverted(data) : Reads(w, first, seq, length, 0, header, s, data)
  <1> DEFINE header == <<first, seq, length, 0>>
             e == [first |-> first, seq |-> seq, length |-> length, time |-> 0,
                   crc1 |-> header, payload |-> data, crc2 |-> data]
  <1>1. /\ 256 * (255 - (length \div 256)) + (length % 256) \in Int \ {length}
        /\ 256 * (length \div 256) + (255 - (length % 256)) \in Int \ {length}
    BY DEF Lengths
  <1>2. w \in Inversions(e)
    BY DEF Written
  <1>3. /\ e.first = first /\ e.seq = seq /\ e.length = length /\ e.time = 0
        /\ e.crc1 = header /\ e.payload = data /\ e.crc2 = data
    OBVIOUS
  <1>4. \/ w = [e EXCEPT !.first = 255 - first]
        \/ w = [e EXCEPT !.seq = 255 - seq]
        \/ \E l \in Int \ {length} : w = [e EXCEPT !.length = l]
        \/ w = [e EXCEPT !.time = 255 - 0]
        \/ w = [e EXCEPT !.crc2 = Append(data, 0)]
        \/ \E c \in Inverted(header) : w = [e EXCEPT !.crc1 = c]
        \/ \E s \in Inverted(data) : w = [e EXCEPT !.payload = s]
    <2> HIDE DEF e, header
    <2>1. \/ w = [e EXCEPT !.first = 255 - e.first]
          \/ w = [e EXCEPT !.seq = 255 - e.seq]
          \/ w = [e EXCEPT !.length = 256 * (255 - (e.length \div 256)) + (e.length % 256)]
          \/ w = [e EXCEPT !.length = 256 * (e.length \div 256) + (255 - (e.length % 256))]
          \/ w = [e EXCEPT !.time = 255 - e.time]
          \/ w = [e EXCEPT !.crc2 = Append(e.crc2, 0)]
          \/ \E c \in Inverted(e.crc1) : w = [e EXCEPT !.crc1 = c]
          \/ \E s \in Inverted(e.payload) : w = [e EXCEPT !.payload = s]
      BY <1>2 DEF Inversions
    <2> QED
      BY <1>1, <1>3, <2>1
  <1> HIDE DEF header
  <1>5. CASE w = [e EXCEPT !.first = 255 - first]
    BY <1>5 DEF Reads, header
  <1>6. CASE w = [e EXCEPT !.seq = 255 - seq]
    BY <1>6 DEF Reads, header
  <1>7. CASE \E l \in Int \ {length} : w = [e EXCEPT !.length = l]
    BY <1>7 DEF Reads, header
  <1>8. CASE w = [e EXCEPT !.time = 255 - 0]
    BY <1>8 DEF Reads, header
  <1>9. CASE w = [e EXCEPT !.crc2 = Append(data, 0)]
    BY <1>9 DEF Reads, header
  <1>10. CASE \E c \in Inverted(header) : w = [e EXCEPT !.crc1 = c]
    BY <1>10 DEF Reads, header
  <1>11. CASE \E s \in Inverted(data) : w = [e EXCEPT !.payload = s]
    BY <1>11 DEF Reads, header
  <1> HIDE DEF e
  <1> QED
    BY <1>4, <1>5, <1>6, <1>7, <1>8, <1>9, <1>10, <1>11

\* An inverted byte of the header, or of CRC1, makes CRC1 wrong, whether the decoder
\* clears TR before it computes CRC1 (pkt_decode) or not (ack_decode)
LEMMA HeaderHarmed ==
  ASSUME NEW first, first \in Byte, Told(first), NEW seq, seq \in Byte,
         NEW length, length \in Lengths, NEW data,
         NEW w, w \in Inversions(Written(first, seq, length, data)),
         NEW f, f = w.first \/ f = ClearTr(w.first), HeaderValid(f, w)
  PROVE  /\ w.first = first /\ w.seq = seq /\ w.length = length
         /\ \/ w.payload = data /\ w.crc2 = Append(data, 0)
            \/ w.payload \in Inverted(data) /\ w.crc2 = data
  <1> DEFINE header == <<first, seq, length, 0>>
  <1>1. /\ ClearTr(first) = first
        /\ 255 - first # first /\ ClearTr(255 - first) # first
    BY DEF Told
  <1>2. w.crc1 = <<f, w.seq, w.length, w.time>>
    BY DEF HeaderValid, Crc, Header
  <1>3. ~Reads(w, 255 - first, seq, length, 0, header, data, data)
    BY <1>1, <1>2 DEF Reads
  <1>4. ~Reads(w, first, 255 - seq, length, 0, header, data, data)
    <2>1. 255 - seq # seq
      BY DEF Byte
    <2> QED
      BY <1>2, <2>1 DEF Reads
  <1>5. ASSUME NEW l \in Int \ {length} PROVE ~Reads(w, first, seq, l, 0, header, data, data)
    BY <1>2 DEF Reads
  <1>6. ~Reads(w, first, seq, length, 255, header, data, data)
    BY <1>2 DEF Reads
  <1>7. ASSUME NEW c \in Inverted(header) PROVE ~Reads(w, first, seq, length, 0, c, data, data)
    <2> SUFFICES ASSUME Reads(w, first, seq, length, 0, c, data, data) PROVE FALSE
      OBVIOUS
    <2>1. c = header
      BY <1>1, <1>2 DEF Reads
    <2>2. \A x \in Nat : 255 - x # x
      OBVIOUS
    <2>3. \A k \in 1 .. 4 : header[k] \in Nat
      BY DEF Byte, Lengths
    <2>4. PICK k \in 1 .. 4 : c = [header EXCEPT ![k] = 255 - @]
      BY DEF Inverted
    <2> QED
      BY <2>1, <2>2, <2>3, <2>4
  <1>8. \/ Reads(w, first, seq, length, 0, header, data, Append(data, 0))
        \/ \E s \in Inverted(data) : Reads(w, first, seq, length, 0, header, s, data)
    BY <1>3, <1>4, <1>5, <1>6, <1>7, InversionCases
  <1> QED
    BY <1>8 DEF Reads

\* An inverted byte of the payload, or of CRC2, makes CRC2 wrong
LEMMA PayloadHarmed ==
  ASSUME NEW s \in Seq(1 .. 255)
  PROVE  Append(s, 0) # s /\ s \notin Inverted(s)
  <1>1. Append(s, 0) # s
    BY Len(Append(s, 0)) = Len(s) + 1, Len(s) \in Nat
  <1>2. ASSUME NEW k \in DOMAIN s PROVE [s EXCEPT ![k] = 255 - @] # s
    <2>1. s[k] \in 1 .. 255
      BY k \in 1 .. Len(s), ElementOfSeq
    <2>2. \A x \in 1 .. 255 : 255 - x # x
      OBVIOUS
    <2> QED
      BY <2>1, <2>2
  <1> QED
    BY <1>1, <1>2 DEF Inverted

-----------------------------------------------------------------------------
\* What pkt_decode finds: a packet as encoded or cut passes CRC1 with its own fields; one
\* with a byte inverted fails CRC1 or CRC2.
LEMMA PktArrives ==
  ASSUME WireInv, stage.of = "pkt"
  PROVE  LET first == ClearTr(wire.first)
             same == /\ HeaderValid(first, wire) /\ TypeOf(first) = PTYPE_DATA
                     /\ WindowOf(first) = pkt.window
                     /\ wire.seq = pkt.seq /\ wire.length = pkt.length
         IN /\ stage.harm = "none" => /\ same /\ TrOf(wire.first) = 0
                                      /\ wire.payload = pkt.payload /\ PayloadValid(wire)
            /\ stage.harm = "cut" => same /\ TrOf(wire.first) = 1
            /\ stage.harm = "err" /\ HeaderValid(first, wire) =>
                 same /\ TrOf(wire.first) = 0 /\ ~PayloadValid(wire)
  <1> DEFINE b == FirstByte(PTYPE_DATA, 0, pkt.window)
             e == Written(b, pkt.seq, pkt.length, pkt.payload)
  <1>1. PktEncode(pkt) = e
    BY Encoded DEF WireInv
  <1>2. /\ pkt.window \in 0 .. 31 /\ pkt.seq \in Byte /\ pkt.length \in Lengths
        /\ pkt.payload \in Seq(1 .. 255)
    <2>1. Encodable(pkt)
      BY DEF WireInv
    <2> QED
      BY <2>1, Widths DEF Encodable, Lengths
  <1>3. /\ b \in Byte /\ TypeOf(b) = PTYPE_DATA /\ TrOf(b) = 0 /\ WindowOf(b) = pkt.window
        /\ ClearTr(b) = b /\ ClearTr(b + 32) = b /\ TrOf(b + 32) = 1
        /\ Told(b)
    <2>1. PTYPE_DATA \in Types /\ pkt.window \in 0 .. 31
      BY <1>2 DEF Types
    <2> QED
      BY <2>1, FirstBytes
  <1>4. PTYPE_DATA \in Types
    BY DEF Types
  <1>5. CASE stage.harm = "none"
    <2>1. wire = e
      BY <1>1, <1>5 DEF WireInv, Harmed
    <2>2. /\ wire.first = b /\ wire.seq = pkt.seq /\ wire.length = pkt.length /\ wire.time = 0
          /\ wire.crc1 = <<b, pkt.seq, pkt.length, 0>>
          /\ wire.payload = pkt.payload /\ wire.crc2 = pkt.payload
      BY <2>1 DEF Written
    <2>3. pkt.length <= 512
      BY <1>2, \A n \in 0 .. 512 : n <= 512, Zenon DEF Lengths
    <2> HIDE DEF b, e
    <2> QED
      BY <1>3, <1>4, <1>5, <2>2, <2>3 DEF HeaderValid, PayloadValid, Crc, Header
  <1>6. CASE stage.harm = "cut"
    <2>1. wire = CutBytes(e)
      BY <1>1, <1>6 DEF WireInv, Harmed
    <2>2. /\ wire.first = b + 32 /\ wire.seq = pkt.seq /\ wire.length = pkt.length
          /\ wire.time = 0 /\ wire.crc1 = <<b, pkt.seq, pkt.length, 0>>
      BY <2>1 DEF CutBytes, Written
    <2>3. pkt.length <= 512
      BY <1>2, \A n \in 0 .. 512 : n <= 512, Zenon DEF Lengths
    <2> HIDE DEF b, e
    <2> QED
      BY <1>3, <1>4, <1>6, <2>2, <2>3 DEF HeaderValid, Crc, Header
  <1>7. CASE stage.harm = "err" /\ HeaderValid(ClearTr(wire.first), wire)
    <2>1. wire \in Inversions(e)
      BY <1>1, <1>7 DEF WireInv, Harmed
    <2> HIDE DEF b
    <2>2. /\ wire.first = b /\ wire.seq = pkt.seq /\ wire.length = pkt.length
          /\ \/ wire.payload = pkt.payload /\ wire.crc2 = Append(pkt.payload, 0)
             \/ wire.payload \in Inverted(pkt.payload) /\ wire.crc2 = pkt.payload
      BY <1>2, <1>3, <1>7, <2>1, HeaderHarmed
    <2>3. wire.crc2 # wire.payload
      BY <1>2, <2>2, PayloadHarmed
    <2> QED
      BY <1>3, <1>7, <2>2, <2>3 DEF PayloadValid, Crc
  <1>8. stage.harm \in {"none", "cut", "err"}
    BY DEF WireInv, Stages
  <1> HIDE DEF b, e
  <1> QED
    BY <1>5, <1>6, <1>7, <1>8

\* What ack_decode finds: one as encoded passes CRC1, one that is cut never does, and one
\* with a byte inverted only when that byte is of no field.
LEMMA AckArrives ==
  ASSUME WireInv, stage.of = "ack"
  PROVE  LET valid == HeaderValid(wire.first, wire)
         IN /\ stage.harm = "none" => valid
            /\ stage.harm = "cut" => ~valid
            /\ stage.harm # "cut" /\ valid =>
                 /\ TypeOf(wire.first) = ack.type /\ WindowOf(wire.first) = ack.window
                 /\ wire.seq = ack.seq
  <1> DEFINE b == FirstByte(ack.type, 0, ack.window)
             e == Written(b, ack.seq, 0, <<>>)
  <1>1. AckEncode(ack) = e
    BY EncodedAck DEF WireInv
  <1>2. ack.window \in 0 .. 31 /\ ack.seq \in Byte /\ ack.type \in Types
    <2>1. Answerable(ack)
      BY DEF WireInv
    <2> QED
      BY <2>1, Widths DEF Answerable, Types, Lengths
  <1>3. /\ b \in Byte /\ TypeOf(b) = ack.type /\ TrOf(b) = 0 /\ WindowOf(b) = ack.window
        /\ ClearTr(b) = b /\ b + 32 # b /\ Told(b)
    BY <1>2, FirstBytes
  <1>4. CASE stage.harm = "none"
    <2>1. wire = e
      BY <1>1, <1>4 DEF WireInv, Harmed
    <2>2. /\ wire.first = b /\ wire.seq = ack.seq /\ wire.length = 0 /\ wire.time = 0
          /\ wire.crc1 = <<b, ack.seq, 0, 0>>
      BY <2>1 DEF Written
    <2>3. 0 <= 512
      OBVIOUS
    <2> HIDE DEF b, e
    <2> QED
      BY <1>2, <1>3, <1>4, <2>2, <2>3 DEF HeaderValid, Crc, Header
  <1>5. CASE stage.harm = "cut"
    <2>1. wire = CutBytes(e)
      BY <1>1, <1>5 DEF WireInv, Harmed
    <2>2. /\ wire.first = b + 32 /\ wire.crc1 = <<b, ack.seq, 0, 0>>
      BY <2>1 DEF CutBytes, Written
    <2> HIDE DEF b, e
    <2>3. <<wire.first, wire.seq, wire.length, wire.time>> # <<b, ack.seq, 0, 0>>
      BY <1>3, <2>2
    <2> QED
      BY <1>5, <2>2, <2>3 DEF HeaderValid, Crc, Header
  <1>6. CASE stage.harm = "err" /\ HeaderValid(wire.first, wire)
    <2>1. wire \in Inversions(e)
      BY <1>1, <1>6 DEF WireInv, Harmed
    <2> HIDE DEF b
    <2>2. 0 \in Lengths
      BY DEF Lengths
    <2>3. wire.first = b /\ wire.seq = ack.seq
      BY <1>2, <1>3, <1>6, <2>1, <2>2, HeaderHarmed
    <2> QED
      BY <1>3, <1>6, <2>3
  <1>7. stage.harm \in {"none", "cut", "err"}
    BY DEF WireInv, Stages
  <1> HIDE DEF b, e
  <1> QED
    BY <1>4, <1>5, <1>6, <1>7

\* The bytes of what is under way are bytes
LEMMA WireBytes ==
  ASSUME WireInv
  PROVE  wire.first \in Byte /\ wire.seq \in Byte /\ wire.time \in Byte
  <1>1. ASSUME NEW b, b \in Byte, 255 - b \in Byte, b + 32 \in Byte,
               NEW seq, seq \in Byte, NEW length, length \in Lengths, NEW data,
               Harmed(Written(b, seq, length, data))
        PROVE  wire.first \in Byte /\ wire.seq \in Byte /\ wire.time \in Byte
    <2> DEFINE e == Written(b, seq, length, data)
    <2>0. Harmed(e)
      BY <1>1
    <2>1. 0 \in Byte /\ 255 \in Byte /\ 255 - seq \in Byte
      BY <1>1 DEF Byte
    <2>2. CASE wire = e \/ wire = CutBytes(e)
      <3>1. wire.seq = seq /\ wire.time = 0 /\ (wire.first = b \/ wire.first = b + 32)
        <4>1. CASE wire = e
          BY <4>1 DEF Written
        <4>2. CASE wire = CutBytes(e)
          BY <4>2 DEF CutBytes, Written
        <4> QED
          BY <2>2, <4>1, <4>2
      <3> HIDE DEF e
      <3> QED
        BY <1>1, <2>1, <3>1
    <2>3. CASE wire \in Inversions(e)
      <3>1. \/ wire.first = 255 - b /\ wire.seq = seq /\ wire.time = 0
            \/ wire.first = b /\ wire.seq = 255 - seq /\ wire.time = 0
            \/ wire.first = b /\ wire.seq = seq /\ wire.time = 255
            \/ wire.first = b /\ wire.seq = seq /\ wire.time = 0
        <4> DEFINE header == <<b, seq, length, 0>>
        <4>1. \/ Reads(wire, 255 - b, seq, length, 0, header, data, data)
              \/ Reads(wire, b, 255 - seq, length, 0, header, data, data)
              \/ \E l \in Int \ {length} : Reads(wire, b, seq, l, 0, header, data, data)
              \/ Reads(wire, b, seq, length, 255, header, data, data)
              \/ \E c \in Inverted(header) : Reads(wire, b, seq, length, 0, c, data, data)
              \/ Reads(wire, b, seq, length, 0, header, data, Append(data, 0))
              \/ \E s \in Inverted(data) : Reads(wire, b, seq, length, 0, header, s, data)
          BY <1>1, <2>3, InversionCases
        <4> HIDE DEF header, e
        <4> QED
          BY <4>1 DEF Reads
      <3> HIDE DEF e
      <3> QED
        BY <1>1, <2>1, <3>1
    <2> HIDE DEF e
    <2> QED
      BY <2>0, <2>2, <2>3 DEF Harmed
  <1>2. CASE stage.of = "pkt"
    <2>1. Encodable(pkt) /\ Harmed(PktEncode(pkt))
      BY <1>2 DEF WireInv
    <2>2. pkt.window \in 0 .. 31 /\ pkt.seq \in Byte /\ pkt.length \in Lengths
      BY <2>1, Widths DEF Encodable, Lengths
    <2> DEFINE b == FirstByte(PTYPE_DATA, 0, pkt.window)
    <2>3. b \in Byte /\ 255 - b \in Byte /\ b + 32 \in Byte
      <3>1. PTYPE_DATA \in Types
        BY DEF Types
      <3> QED
        BY <2>2, <3>1, FirstBytes
    <2>4. PktEncode(pkt) = Written(b, pkt.seq, pkt.length, pkt.payload)
      BY <2>1, Encoded
    <2> HIDE DEF b
    <2>5. Harmed(Written(b, pkt.seq, pkt.length, pkt.payload))
      BY <2>1, <2>4
    <2> QED
      BY <1>1, <2>2, <2>3, <2>5
  <1>3. CASE stage.of = "ack"
    <2>1. Answerable(ack) /\ Harmed(AckEncode(ack))
      BY <1>3 DEF WireInv
    <2>2. /\ ack.window \in 0 .. 31 /\ ack.seq \in Byte /\ ack.type \in Types
          /\ 0 \in Lengths
      BY <2>1, Widths DEF Answerable, Types, Lengths
    <2> DEFINE b == FirstByte(ack.type, 0, ack.window)
    <2>3. b \in Byte /\ 255 - b \in Byte /\ b + 32 \in Byte
      BY <2>2, FirstBytes
    <2>4. AckEncode(ack) = Written(b, ack.seq, 0, <<>>)
      BY <2>1, EncodedAck
    <2> HIDE DEF b
    <2>5. Harmed(Written(b, ack.seq, 0, <<>>))
      BY <2>1, <2>4
    <2> QED
      BY <1>1, <2>2, <2>3, <2>5
  <1>4. CASE stage.of = "none"
    BY <1>4 DEF WireInv, NoWire, Byte
  <1> QED
    BY <1>2, <1>3, <1>4 DEF WireInv, Stages

-----------------------------------------------------------------------------
\* A window taken from a first byte fits 5 bits
LEMMA WindowFits == ASSUME NEW b, b \in Byte PROVE WindowOf(b) \in 0 .. 31
  BY DEF Byte, WindowOf

LEMMA ClearedFits == ASSUME NEW b, b \in Byte PROVE ClearTr(b) \in Byte
  BY DEF Byte, ClearTr, TrOf

\* The invariant of the codec: WireInv, and structs of the decoders that fit their fields
THEOREM CodecInvariant == Spec => []IInv
  <1> DEFINE Structs == StructOK(pkt_recv) /\ StructOK(ack_recv) /\ ok \in BOOLEAN
  <1>1. Init => Structs
    <2> SUFFICES ASSUME Init PROVE Structs
      OBVIOUS
    <2>1. /\ pkt_recv.window = 0 /\ pkt_recv.type = PTYPE_DATA /\ pkt_recv.seq = 0
          /\ ack_recv.window = 0 /\ ack_recv.type = PTYPE_ACK /\ ack_recv.seq = 0
      BY DEF Init, NewPkt, PktWith, NewAck
    <2>2. 0 \in 0 .. W /\ 0 \in SeqNum
      BY Widths
    <2> QED
      BY <2>1, <2>2 DEF Init, StructOK, Types
  <1>2. WireInv /\ Structs /\ [Next]_vars => Structs'
    <2> SUFFICES ASSUME WireInv, Structs, [Next]_vars PROVE Structs'
      OBVIOUS
    <2>1. wire.first \in Byte /\ wire.seq \in SeqNum
      BY WireBytes, Widths
    <2>2. CASE DecodePkt
      <3>1. StructOK(pkt_recv')
        <4>1. CASE HeaderValid(ClearTr(wire.first), wire)
          <5>1. /\ pkt_recv'.type = TypeOf(ClearTr(wire.first)) /\ pkt_recv'.seq = wire.seq
                /\ pkt_recv'.window = WindowOf(ClearTr(wire.first))
            BY <2>2, <4>1 DEF DecodePkt
          <5>2. TypeOf(ClearTr(wire.first)) \in Types
            BY <4>1 DEF HeaderValid
          <5>3. WindowOf(ClearTr(wire.first)) \in 0 .. W
            BY <2>1, ClearedFits, WindowFits, Widths
          <5> QED
            BY <2>1, <5>1, <5>2, <5>3 DEF StructOK
        <4>2. CASE ~HeaderValid(ClearTr(wire.first), wire)
          <5>1. pkt_recv' = pkt_recv
            BY <2>2, <4>2 DEF DecodePkt
          <5> QED
            BY <5>1
        <4> QED
          BY <4>1, <4>2
      <3>2. ack_recv' = ack_recv /\ ok' \in BOOLEAN
        BY <2>2 DEF DecodePkt
      <3> QED
        BY <3>1, <3>2 DEF StructOK
    <2>3. CASE DecodeAck
      <3>1. StructOK(ack_recv')
        <4>1. CASE HeaderValid(wire.first, wire)
          <5>1. /\ ack_recv'.type = TypeOf(wire.first) /\ ack_recv'.seq = wire.seq
                /\ ack_recv'.window = WindowOf(wire.first)
            BY <2>3, <4>1 DEF DecodeAck
          <5>2. TypeOf(wire.first) \in Types
            BY <4>1 DEF HeaderValid
          <5>3. WindowOf(wire.first) \in 0 .. W
            BY <2>1, WindowFits, Widths
          <5> QED
            BY <2>1, <5>1, <5>2, <5>3 DEF StructOK
        <4>2. CASE ~HeaderValid(wire.first, wire)
          <5>1. ack_recv' = ack_recv
            BY <2>3, <4>2 DEF DecodeAck
          <5> QED
            BY <5>1
        <4> QED
          BY <4>1, <4>2
      <3>2. pkt_recv' = pkt_recv /\ ok' \in BOOLEAN
        BY <2>3 DEF DecodeAck, HeaderValid
      <3> QED
        BY <3>1, <3>2 DEF StructOK
    <2>4. CASE EncodePkt \/ EncodeFin \/ EncodeAck \/ CutWire \/ InvertByte \/ UNCHANGED vars
      <3>1. pkt_recv' = pkt_recv /\ ack_recv' = ack_recv /\ (ok' = ok \/ ok' = TRUE)
        BY <2>4 DEF EncodePkt, EncodeFin, EncodeAck, CutWire, InvertByte, vars
      <3> QED
        BY <3>1 DEF StructOK
    <2> QED
      BY <2>2, <2>3, <2>4 DEF Next
  <1> QED
    BY <1>1, <1>2, WireKept, PTL DEF Spec, IInv

\* No setter and no decoder stores more than the widths of the structs and of the datagram:
\* the type invariant, for every number, window and payload.
THEOREM CodecTypeCorrect == Spec => []TypeOK
  <1>1. IInv => TypeOK
    <2> SUFFICES ASSUME IInv PROVE TypeOK
      OBVIOUS
    <2>1. WireInv /\ StructOK(pkt_recv) /\ StructOK(ack_recv) /\ ok \in BOOLEAN
      BY DEF IInv
    <2>2. stage \in Stages /\ Encodable(pkt) /\ Answerable(ack)
      BY <2>1 DEF WireInv
    <2>3. pkt.window \in 0 .. W /\ pkt.type \in Types /\ pkt.seq \in SeqNum
      BY <2>2, Widths DEF Encodable, Types
    <2>4. ack.window \in 0 .. W /\ ack.type \in Types /\ ack.seq \in SeqNum
      BY <2>2, Widths DEF Answerable, Types
    <2>5. wire.first \in Byte /\ wire.seq \in Byte /\ wire.time \in Byte
      BY <2>1, WireBytes
    <2> QED
      BY <2>1, <2>2, <2>3, <2>4, <2>5 DEF TypeOK, StructOK
  <1> QED
    BY <1>1, CodecInvariant, PTL

-----------------------------------------------------------------------------
\* What pkt_decode accepts is what was encoded: the fields always, the payload unless TR
\* says that it was cut.
THEOREM DecodedIsSentCorrect == Spec => DecodedIsSent
  <1> DEFINE Sent ==
        /\ pkt_recv'.seq = pkt.seq /\ pkt_recv'.length = pkt.length
        /\ pkt_recv'.window = pkt.window
        /\ pkt_recv'.tr = 0 => /\ pkt_recv'.payload = SubSeq(pkt.payload, 1, pkt.length)
                               /\ Len(pkt_recv'.payload) = pkt_recv'.length
  <1>1. ASSUME WireInv, DecodePkt, ok' PROVE Sent
    <2> DEFINE first == ClearTr(wire.first)
               tr == TrOf(wire.first)
    <2>1. /\ SubSeq(pkt.payload, 1, pkt.length) = pkt.payload
          /\ Len(pkt.payload) = pkt.length /\ pkt.payload \in Seq(1 .. 255)
      BY <1>1, SameSeq DEF WireInv, Encodable
    <2>2. /\ stage.of = "pkt" /\ HeaderValid(first, wire)
          /\ TypeOf(first) = PTYPE_DATA /\ tr = 0 => PayloadValid(wire)
          /\ pkt_recv'.seq = wire.seq /\ pkt_recv'.length = wire.length
          /\ pkt_recv'.window = WindowOf(first) /\ pkt_recv'.tr = tr
          /\ TypeOf(first) = PTYPE_DATA /\ tr = 0 => pkt_recv'.payload = wire.payload
      BY <1>1 DEF DecodePkt
    <2>3. stage.harm \in {"none", "cut", "err"}
      BY <1>1 DEF WireInv, Stages
    <2> HIDE DEF first, tr
    <2>4. /\ WindowOf(first) = pkt.window /\ wire.seq = pkt.seq /\ wire.length = pkt.length
          /\ TypeOf(first) = PTYPE_DATA
          /\ tr = 0 => wire.payload = pkt.payload
      BY <1>1, <2>2, <2>3, PktArrives, 0 # 1 DEF first, tr
    <2> QED
      BY <2>1, <2>2, <2>4
  <1>2. WireInv /\ [Next]_vars => [DecodePkt /\ ok' => Sent]_vars
    BY <1>1
  <1> QED
    BY <1>2, WireKept, PTL DEF Spec, DecodedIsSent

\* The datagrams of Datagram.tla tell of a packet what pkt_decode tells: the same when it
\* arrives as sent, only its number when it is cut, nothing when a byte is inverted.
LEMMA PktDecodesCorrect == WireInv => PktAsModelled
  <1> DEFINE view == IF ok' THEN [decoded |-> TRUE, seq |-> pkt_recv'.seq,
                                  tr |-> pkt_recv'.tr = 1, end |-> pkt_recv'.length = 0,
                                  payload |-> IF pkt_recv'.tr = 1 THEN <<>>
                                              ELSE pkt_recv'.payload]
                     ELSE Refused
             sent == Packet(pkt.seq, SubSeq(pkt.payload, 1, pkt.length))
             Modelled == view \in {PktView(p) : p \in HarmedPkts(sent)}
  <1>1. ASSUME WireInv, DecodePkt PROVE Modelled
    <2> DEFINE first == ClearTr(wire.first)
               tr == TrOf(wire.first)
    <2>1. /\ stage.of = "pkt"
          /\ ok' = (HeaderValid(first, wire) /\
                      (TypeOf(first) = PTYPE_DATA /\ tr = 0 => PayloadValid(wire)))
          /\ ok' => /\ pkt_recv'.seq = wire.seq /\ pkt_recv'.length = wire.length
                    /\ pkt_recv'.tr = tr
                    /\ TypeOf(first) = PTYPE_DATA /\ tr = 0 => pkt_recv'.payload = wire.payload
      BY <1>1 DEF DecodePkt
    <2>2. sent = [seq |-> pkt.seq, payload |-> pkt.payload, tr |-> FALSE,
                  crc1 |-> TRUE, crc2 |-> TRUE]
      BY <1>1, SameSeq DEF WireInv, Encodable, Packet
    <2>3. pkt.length = 0 <=> pkt.payload = <<>>
      <3>1. Len(pkt.payload) = pkt.length /\ pkt.payload \in Seq(1 .. 255)
        BY <1>1 DEF WireInv, Encodable
      <3> QED
        BY <3>1
    <2>4. CASE stage.harm = "none"
      <3>1. /\ ok' /\ pkt_recv'.seq = pkt.seq /\ pkt_recv'.length = pkt.length
            /\ pkt_recv'.tr = 0 /\ pkt_recv'.payload = pkt.payload
        BY <1>1, <2>1, <2>4, PktArrives
      <3>2. view = [decoded |-> TRUE, seq |-> pkt.seq, tr |-> FALSE,
                    end |-> pkt.payload = <<>>, payload |-> pkt.payload]
        <4>1. (pkt_recv'.tr = 1) = FALSE /\ (pkt_recv'.length = 0) = (pkt.payload = <<>>)
          BY <2>3, <3>1
        <4> QED
          BY <3>1, <4>1
      <3>3. view = PktView(sent)
        <4>1. PktView(sent) = [decoded |-> TRUE, seq |-> pkt.seq, tr |-> FALSE,
                               end |-> pkt.payload = <<>>, payload |-> pkt.payload]
          <5>1. /\ PktDecodes(sent) /\ sent.seq = pkt.seq /\ sent.payload = pkt.payload
                /\ sent.tr = FALSE
            BY <2>2 DEF PktDecodes
          <5> HIDE DEF sent
          <5> QED
            BY <5>1 DEF PktView
        <4> HIDE DEF view, sent
        <4> QED
          BY <3>2, <4>1
      <3>4. HarmedPkts(sent) = {sent}
        BY <2>4 DEF HarmedPkts
      <3> HIDE DEF view, sent
      <3> QED
        BY <3>3, <3>4
    <2>5. CASE stage.harm = "cut"
      <3>1. /\ ok' /\ pkt_recv'.seq = pkt.seq /\ pkt_recv'.length = pkt.length
            /\ pkt_recv'.tr = 1
        <4>1. /\ HeaderValid(first, wire) /\ tr = 1
              /\ wire.seq = pkt.seq /\ wire.length = pkt.length
          BY <1>1, <2>1, <2>5, PktArrives
        <4> HIDE DEF first, tr
        <4> QED
          BY <2>1, <4>1, 0 # 1
      <3>2. view = [decoded |-> TRUE, seq |-> pkt.seq, tr |-> TRUE,
                    end |-> pkt.payload = <<>>, payload |-> <<>>]
        <4>1. (pkt_recv'.tr = 1) = TRUE /\ (pkt_recv'.length = 0) = (pkt.payload = <<>>)
          BY <2>3, <3>1
        <4> QED
          BY <3>1, <4>1
      <3>3. view = PktView(Cut(sent))
        <4>1. PktView(Cut(sent)) = [decoded |-> TRUE, seq |-> pkt.seq, tr |-> TRUE,
                                    end |-> pkt.payload = <<>>, payload |-> <<>>]
          <5> DEFINE cut == Cut(sent)
          <5>1. /\ PktDecodes(cut) /\ cut.seq = pkt.seq /\ cut.payload = pkt.payload
                /\ cut.tr = TRUE
            BY <2>2 DEF PktDecodes, Cut
          <5> HIDE DEF cut
          <5>2. PktView(cut) = [decoded |-> TRUE, seq |-> pkt.seq, tr |-> TRUE,
                                end |-> pkt.payload = <<>>, payload |-> <<>>]
            BY <5>1 DEF PktView
          <5> QED
            BY <5>2 DEF cut
        <4> HIDE DEF view, sent
        <4> QED
          BY <3>2, <4>1
      <3>4. HarmedPkts(sent) = {Cut(sent)}
        BY <2>5 DEF HarmedPkts
      <3> HIDE DEF view, sent
      <3> QED
        BY <3>3, <3>4
    <2>6. CASE stage.harm = "err"
      <3>1. ~ok'
        BY <1>1, <2>1, <2>6, PktArrives
      <3>2. view = Refused
        BY <3>1
      <3>3. PktView([sent EXCEPT !.crc1 = FALSE]) = Refused
        BY <2>2 DEF PktView, PktDecodes
      <3>4. [sent EXCEPT !.crc1 = FALSE] \in HarmedPkts(sent)
        BY <2>6 DEF HarmedPkts, CorruptPacket, CorruptHeader
      <3> HIDE DEF view, sent
      <3> QED
        BY <3>2, <3>3, <3>4
    <2>7. stage.harm \in {"none", "cut", "err"}
      BY <1>1 DEF WireInv, Stages
    <2> QED
      BY <2>4, <2>5, <2>6, <2>7
  <1> QED
    BY <1>1 DEF PktAsModelled

\* The same of ack_decode: an acknowledgement that is cut does not decode; one that does
\* has the type, the number and the window that were sent.
LEMMA AckDecodesCorrect == WireInv => AckAsModelled
  <1> DEFINE view == IF ok' THEN [decoded |-> TRUE, type |-> AckKind(ack_recv'),
                                  seq |-> ack_recv'.seq, window |-> ack_recv'.window]
                     ELSE Refused
             sent == Ack(AckKind(ack), ack.seq, ack.window)
             Modelled == view \in {AckView(a) : a \in HarmedAcks(sent)}
  <1>1. ASSUME WireInv, DecodeAck PROVE Modelled
    <2>1. /\ stage.of = "ack" /\ ok' = HeaderValid(wire.first, wire)
          /\ ok' => /\ ack_recv'.type = TypeOf(wire.first) /\ ack_recv'.seq = wire.seq
                    /\ ack_recv'.window = WindowOf(wire.first)
      BY <1>1 DEF DecodeAck
    <2>2. sent = [type |-> AckKind(ack), seq |-> ack.seq, window |-> ack.window,
                  tr |-> FALSE, crc1 |-> TRUE]
      <3>1. ack.window \in 0 .. 31 /\ W + 1 = 32
        BY <1>1, Widths DEF WireInv, Answerable
      <3>2. ack.window % (W + 1) = ack.window
        BY <3>1
      <3> QED
        BY <3>2 DEF Ack
    <2>3. ASSUME stage.harm # "cut", ok' PROVE view = AckView(sent)
      <3>1. ack_recv'.type = ack.type /\ ack_recv'.seq = ack.seq /\ ack_recv'.window = ack.window
        BY <1>1, <2>1, <2>3, AckArrives
      <3>2. view = [decoded |-> TRUE, type |-> AckKind(ack), seq |-> ack.seq,
                    window |-> ack.window]
        BY <2>3, <3>1 DEF AckKind
      <3> QED
        BY <2>2, <3>2 DEF AckView, AckDecodes
    <2>4. CASE stage.harm = "none"
      <3>1. view = AckView(sent)
        BY <1>1, <2>1, <2>3, <2>4, AckArrives
      <3>2. HarmedAcks(sent) = {sent}
        BY <2>4 DEF HarmedAcks
      <3> HIDE DEF view, sent
      <3> QED
        BY <3>1, <3>2
    <2>5. CASE stage.harm = "cut"
      <3>1. view = Refused
        BY <1>1, <2>1, <2>5, AckArrives
      <3>2. AckView(Cut(sent)) = Refused
        BY <2>2 DEF AckView, AckDecodes, Cut
      <3>3. HarmedAcks(sent) = {Cut(sent)}
        BY <2>5 DEF HarmedAcks
      <3> HIDE DEF view, sent
      <3> QED
        BY <3>1, <3>2, <3>3
    <2>6. CASE stage.harm = "err" /\ ok'
      <3>1. view = AckView(sent)
        BY <2>3, <2>6
      <3>2. sent \in HarmedAcks(sent)
        BY <2>6 DEF HarmedAcks
      <3> HIDE DEF view, sent
      <3> QED
        BY <3>1, <3>2
    <2>7. CASE stage.harm = "err" /\ ~ok'
      <3>1. view = Refused
        BY <2>7
      <3>2. AckView([sent EXCEPT !.crc1 = FALSE]) = Refused
        BY <2>2 DEF AckView, AckDecodes
      <3>3. [sent EXCEPT !.crc1 = FALSE] \in HarmedAcks(sent)
        BY <2>7 DEF HarmedAcks, CorruptHeader
      <3> HIDE DEF view, sent
      <3> QED
        BY <3>1, <3>2, <3>3
    <2>8. stage.harm \in {"none", "cut", "err"}
      BY <1>1 DEF WireInv, Stages
    <2> QED
      BY <2>4, <2>5, <2>6, <2>7, <2>8
  <1> QED
    BY <1>1 DEF AckAsModelled

\* What pkt_decode and ack_decode make of an encoded datagram that was harmed once is, for
\* every field, what Datagram says of it.
THEOREM DecodesCorrect == Spec => DecodesAsModelled
<1>1. WireInv /\ [Next]_vars => [PktAsModelled /\ AckAsModelled]_vars
  BY PktDecodesCorrect, AckDecodesCorrect
<1> QED
  BY <1>1, WireKept, PTL DEF Spec, DecodesAsModelled
=============================================================================
