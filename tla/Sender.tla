------------------------------- MODULE Sender -------------------------------
(***************************************************************************)
(* src/src/sender.c after its sockets and buffers are set up: the main     *)
(* loop, which sends one block and waits for its acknowledgement before it *)
(* reads the next, and the disconnection loop.  One struct (`packet`) is   *)
(* reused for every block, so every slot of buffer_envoi that is neither   *)
(* NULL nor uninitialized points to that same struct.                      *)
(***************************************************************************)
EXTENDS Network

CONSTANTS
  Input,        \* the blocks that the successive calls of read return
  Tails,        \* what the memory may hold after the bytes read: uninitialized
  MaxPayload,   \* MAX_PAYLOAD_SIZE
  Stdin,        \* TRUE: fd = STDIN; FALSE: -f was given
  Spurious,     \* TRUE: a timer may expire while datagrams are under way
  MaxInFlight   \* bound on the datagrams under way when a timer expires

ASSUME SenderConstants == /\ Input \in Seq(Seq(Byte) \ {<<>>})
                          /\ Tails \subseteq Seq(Byte)
                          /\ MaxPayload \in Nat
                          /\ Stdin \in BOOLEAN
                          /\ Spurious \in BOOLEAN
                          /\ MaxInFlight \in Nat \ {0}

VARIABLES
  s_pos,      \* number of blocks read
  s_seqnum,   \* seqnum
  s_min,      \* min_window
  s_max,      \* max_window
  s_window,   \* window
  s_packet,   \* the sequence number and the payload in *packet
  s_buf,      \* buffer_envoi, and the word after its last slot
  s_sent      \* history: the payloads handed to sendto, without the repetitions

senderVars == <<s_pos, s_seqnum, s_min, s_max, s_window, s_packet, s_buf, s_sent>>

SenderTypeOK ==
  /\ s_pc \in SenderPlaces
  /\ s_pos \in 0 .. Len(Input)
  /\ {s_seqnum, s_min, s_max, s_window} \subseteq SeqNum
  /\ s_packet \in [seq : SeqNum, payload : Seq(Byte)]
  /\ s_buf \in [0 .. W -> {"uninit", "null", "packet"}]
  /\ s_sent \in Seq(Seq(Byte) \ {<<>>})

SenderInit ==
  /\ s_pc = "read"
  /\ s_pos = 0
  /\ s_seqnum = 0
  /\ s_min = 0
  /\ s_max = W
  /\ s_window = W
  /\ s_packet = [seq |-> 0, payload |-> <<>>]
  /\ s_buf = [i \in 0 .. W |-> "uninit"]
  /\ s_sent = <<>>

-----------------------------------------------------------------------------
\* Mutated forms of the definitions below
TerminatorsNul == {0}
MatchesFromOne(seq) == {i \in 1 .. W - 1 : s_buf[i] = "packet" /\ s_packet.seq = seq}
AcknowledgesAlways(a) == a.crc1
IsFinAckAlways(a) == a.crc1

-----------------------------------------------------------------------------
\* What is sent of the memory: its bytes before the first NUL, and before the first
\* linefeed on the standard input (strlen, and the loop that replaces '\n').
Terminators == {0} \cup (IF Stdin THEN {10} ELSE {})

StrLen(block) ==
  CHOOSE n \in 0 .. Len(block) :
    /\ \A i \in 1 .. n : block[i] \notin Terminators
    /\ n < Len(block) => block[n + 1] \in Terminators

\* Mutated form: a length counted from 0
PayloadShort(block) == SubSeq(block, 1, StrLen(block) - 1)

Payload(block) == SubSeq(block, 1, StrLen(block))

\* The scans of get_from_buffer and retire_buffer: the slots that match, and
\* whether an uninitialized slot is dereferenced before the first match.
Matches(seq) == {i \in 0 .. W - 1 : s_buf[i] = "packet" /\ s_packet.seq = seq}
First(slots) == CHOOSE i \in slots : \A j \in slots : i <= j
ReadsUninit(seq) ==
  \E i \in 0 .. W - 1 : /\ s_buf[i] = "uninit"
                        /\ \A j \in Matches(seq) : i < j

\* A timer of select can expire: the first is longer than a round trip, so unless
\* Spurious, only when nothing is under way.
InFlight == Len(up) + Len(r_sock) + Len(down) + Len(s_sock)
TimerExpires == /\ s_sock = <<>>
                /\ InFlight = 0 \/ (Spurious /\ InFlight < MaxInFlight)

-----------------------------------------------------------------------------
\* The numbers the ACK loop goes through: for(i = min_window; i <= ack - 1; i++)
Retired(ack) == s_min .. ack - 1

Acknowledges(a) == a.type = "ack"

\* The end of the disconnection loop: any datagram with this number, ACK or NACK
IsFinAck(a) == a.seq = SeqnumInc(s_packet.seq)

EndOfInput == s_pos = Len(Input)

-----------------------------------------------------------------------------
\* A block that starts with a terminator is read and not sent.
SkipBlock ==
  /\ s_pc = "read"
  /\ ~EndOfInput
  /\ Payload(Input[s_pos + 1]) = <<>>
  /\ s_pos' = s_pos + 1
  /\ s_seqnum' = SkipToWindow(s_seqnum, s_min, s_max)
  /\ UNCHANGED <<s_pc, s_min, s_max, s_window, s_packet, s_buf, s_sent,
                 up, s_sock>>

\* strlen runs past the bytes read, to the first NUL that follows them in memory.
SendBlock ==
  /\ s_pc = "read"
  /\ ~EndOfInput
  /\ \E tail \in Tails :
     LET payload == Payload(Input[s_pos + 1] \o tail)
         seq == SkipToWindow(s_seqnum, s_min, s_max)
     IN /\ payload # <<>>
        /\ Len(payload) <= MaxPayload
        /\ s_packet' = [seq |-> seq, payload |-> payload]
        /\ s_seqnum' = SeqnumInc(seq)
        /\ s_buf' = [s_buf EXCEPT ![SlotIndex(seq, s_min)] = "packet"]
        /\ up' = Append(up, Packet(seq, payload))
        /\ s_sent' = Append(s_sent, payload)
  /\ s_window' = U8Sub(s_window, 1)
  /\ s_pos' = s_pos + 1
  /\ s_pc' = "wait"
  /\ UNCHANGED <<s_min, s_max, s_sock>>

\* pkt_set_payload refuses the length: the sender exits with -1.
PayloadTooLong ==
  /\ s_pc = "read"
  /\ ~EndOfInput
  /\ \E tail \in Tails : Len(Payload(Input[s_pos + 1] \o tail)) > MaxPayload
  /\ s_pos' = s_pos + 1
  /\ s_seqnum' = SkipToWindow(s_seqnum, s_min, s_max)
  /\ s_pc' = "failed"
  /\ s_sock' = <<>>
  /\ UNCHANGED <<s_min, s_max, s_window, s_packet, s_buf, s_sent, up>>

\* read returns 0: the disconnection packet.
SendFin ==
  /\ s_pc = "read"
  /\ EndOfInput
  /\ s_seqnum' = SkipToWindow(s_seqnum, s_min, s_max)
  /\ s_packet' = [seq |-> s_seqnum', payload |-> <<>>]
  /\ up' = Append(up, Packet(s_seqnum', <<>>))
  /\ s_pc' = "fin"
  /\ UNCHANGED <<s_pos, s_min, s_max, s_window, s_buf, s_sent, s_sock>>

\* select returns 0 in one of the three loops that send the packet again.
Resend ==
  /\ s_pc \in {"wait", "fin"}
  /\ TimerExpires
  /\ up' = Append(up, Packet(s_packet.seq, s_packet.payload))
  /\ UNCHANGED <<s_pc, s_sock, senderVars>>

\* ack_decode reports an error: the sender exits with -1.
RecvUndecodable ==
  /\ s_pc \in {"wait", "fin", "fin_block"}
  /\ s_sock # <<>>
  /\ ~AckDecodes(Head(s_sock))
  /\ s_pc' = "failed"
  /\ s_sock' = <<>>
  /\ UNCHANGED <<senderVars, up>>

Received == s_sock # <<>> /\ AckDecodes(Head(s_sock))

\* An ACK: the numbers below it are retired and the next block is read, whatever
\* the number acknowledged.  A scan that dereferences an uninitialized slot may
\* crash or go on.
RecvAck ==
  /\ s_pc = "wait"
  /\ Received
  /\ Acknowledges(Head(s_sock))
  /\ LET ack == Head(s_sock).seq
         n == IF ack > s_min THEN ack - s_min ELSE 0
     IN /\ s_min' = DecaleBy(s_min, n)
        /\ s_max' = DecaleBy(s_max, n)
        /\ s_window' = U8Add(s_window, n)
        /\ s_buf' = IF s_packet.seq \in Retired(ack) /\ Matches(s_packet.seq) # {}
                    THEN [s_buf EXCEPT ![First(Matches(s_packet.seq))] = "null"]
                    ELSE s_buf
        /\ s_pc' \in {"read"} \cup {c \in {"crashed"} :
                                      \E i \in Retired(ack) : ReadsUninit(i)}
  /\ s_packet' = [s_packet EXCEPT !.payload = <<>>]
  /\ s_sock' = IF s_pc' = "read" THEN Tail(s_sock) ELSE <<>>
  /\ UNCHANGED <<s_pos, s_seqnum, s_sent, up>>

\* A NACK: the packet of that number is looked up in the buffer and sent again.
RecvNack ==
  /\ s_pc = "wait"
  /\ Received
  /\ ~Acknowledges(Head(s_sock))
  /\ Matches(Head(s_sock).seq) # {}
  /\ up' = Append(up, Packet(s_packet.seq, s_packet.payload))
  /\ s_sock' = Tail(s_sock)
  /\ UNCHANGED <<s_pc, senderVars>>

\* A NACK for another packet: get_from_buffer dereferences the uninitialized slots
\* or returns NULL, which pkt_encode dereferences; the sender crashes.
RecvStaleNack ==
  /\ s_pc = "wait"
  /\ Received
  /\ ~Acknowledges(Head(s_sock))
  /\ LET seq == Head(s_sock).seq IN Matches(seq) = {} \/ ReadsUninit(seq)
  /\ s_pc' = "crashed"
  /\ s_sock' = <<>>
  /\ UNCHANGED <<senderVars, up>>

\* The acknowledgement of the disconnection: the sender exits with 0.
RecvFinAck ==
  /\ s_pc \in {"fin", "fin_block"}
  /\ Received
  /\ IsFinAck(Head(s_sock))
  /\ s_pc' = "done"
  /\ s_sock' = <<>>
  /\ UNCHANGED <<senderVars, up>>

\* Anything else in the disconnection loop: recvfrom again, without a select and
\* so without a timer.
RecvFinOther ==
  /\ s_pc \in {"fin", "fin_block"}
  /\ Received
  /\ ~IsFinAck(Head(s_sock))
  /\ s_pc' = "fin_block"
  /\ s_sock' = Tail(s_sock)
  /\ UNCHANGED <<senderVars, up>>

SenderNext == \/ SkipBlock \/ SendBlock \/ PayloadTooLong \/ SendFin \/ Resend
              \/ RecvUndecodable \/ RecvAck \/ RecvNack \/ RecvStaleNack
              \/ RecvFinAck \/ RecvFinOther
=============================================================================
