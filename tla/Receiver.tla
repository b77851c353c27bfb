------------------------------ MODULE Receiver ------------------------------
(***************************************************************************)
(* src/src/receiver.c after its socket and buffers are set up, with the    *)
(* output in a file (-f): one iteration of the main loop is one action.    *)
(* pkt_decode always fills the same struct, so every slot of buffer_recept *)
(* that is not NULL points to the packet just received.                    *)
(***************************************************************************)
EXTENDS Network

VARIABLES
  r_min,      \* min_window
  r_max,      \* max_window
  r_window,   \* window
  r_err,      \* err: what the last write_buffer returned, 0 before
  r_buf,      \* the slots of buffer_recept, and the word after the last, in use
  r_written   \* the payloads written to the file

receiverVars == <<r_min, r_max, r_window, r_err, r_buf, r_written>>

ReceiverTypeOK ==
  /\ r_pc \in ReceiverPlaces
  /\ {r_min, r_max, r_window} \subseteq SeqNum
  /\ r_err \in 0 .. W
  /\ r_buf \subseteq 0 .. W
  /\ r_written \in Seq(Seq(Byte))

ReceiverInit ==
  /\ r_pc = "run"
  /\ r_min = 0
  /\ r_max = W
  /\ r_window = W
  /\ r_err = 0
  /\ r_buf = {}
  /\ r_written = <<>>

-----------------------------------------------------------------------------
\* Mutated forms of the definitions below
AckSeqSame(p) == p.seq
AckSeqTwice(p) == SeqnumInc(SeqnumInc(p.seq))
DisconnectsWhenCut(p) == p.payload = <<>> \/ p.tr
BufferPleinFromOne == 1 .. W - 1 \subseteq r_buf
WrittenPastGaps(slots) ==
  CHOOSE n \in 0 .. W : slots \cap (n .. W - 1) = {} /\ (n = 0 \/ n - 1 \in slots)

-----------------------------------------------------------------------------
BufferPlein == 0 .. W - 1 \subseteq r_buf

\* write_buffer: how many slots it writes, from slot 0 to the first empty one
Written(slots) ==
  CHOOSE n \in 0 .. W : /\ 0 .. n - 1 \subseteq slots
                        /\ n = W \/ n \notin slots

\* The length of the disconnection packet is 0, whatever its TR bit.
Disconnects(p) == p.payload = <<>>

Truncated(p) == p.tr

\* The number of the ACK of a packet
AckSeq(p) == SeqnumInc(p.seq)

\* A datagram is received (recvfrom) and decoded
Datagram == Head(r_sock)
Arrives == r_pc = "run" /\ r_sock # <<>>
Decoded == Arrives /\ PktDecodes(Datagram)

-----------------------------------------------------------------------------
\* "Paquet ignoré"
RecvIgnored ==
  /\ Arrives
  /\ ~PktDecodes(Datagram)
  /\ r_sock' = Tail(r_sock)
  /\ UNCHANGED <<r_pc, receiverVars, down>>

\* "Déconnexion": accepted before any check of the window, acknowledged once.
RecvFin ==
  /\ Decoded
  /\ Disconnects(Datagram)
  /\ r_window' = U8Sub(r_window, r_err)
  /\ down' = Append(down, Ack("ack", AckSeq(Datagram), r_window'))
  /\ r_pc' = "done"
  /\ r_sock' = <<>>
  /\ UNCHANGED <<r_min, r_max, r_err, r_buf, r_written>>

\* Outside the window: return -1.
RecvOutOfWindow ==
  /\ Decoded
  /\ ~Disconnects(Datagram)
  /\ ~InWindow(Datagram.seq, r_min, r_max)
  /\ r_pc' = "failed"
  /\ r_sock' = <<>>
  /\ UNCHANGED <<receiverVars, down>>

\* Cut by the link: a NACK with the number of the packet.
RecvTruncated ==
  /\ Decoded
  /\ ~Disconnects(Datagram)
  /\ InWindow(Datagram.seq, r_min, r_max)
  /\ Truncated(Datagram)
  /\ down' = Append(down, Ack("nack", Datagram.seq, r_window))
  /\ r_sock' = Tail(r_sock)
  /\ UNCHANGED <<r_pc, receiverVars>>

\* Stored, then write_buffer, then acknowledged; the retire_buffer that follows
\* looks for the number after the packet's, which no slot has.
RecvData ==
  /\ Decoded
  /\ ~Disconnects(Datagram)
  /\ InWindow(Datagram.seq, r_min, r_max)
  /\ ~Truncated(Datagram)
  /\ IF BufferPlein
     THEN /\ r_pc' = "full"
          /\ r_sock' = <<>>
          /\ UNCHANGED <<receiverVars, down>>
     ELSE LET slots == r_buf \cup {SlotIndex(Datagram.seq, r_min)}
              n == Written(slots)
          IN /\ r_buf' = slots \ (0 .. n - 1)
             /\ r_written' = r_written \o [k \in 1 .. n |-> Datagram.payload]
             /\ r_min' = DecaleBy(r_min, n)
             /\ r_max' = DecaleBy(r_max, n)
             /\ r_err' = n
             /\ r_window' = U8Sub(U8Sub(r_window, 1), n)
             /\ down' = Append(down, Ack("ack", AckSeq(Datagram), r_window'))
             /\ r_sock' = Tail(r_sock)
             /\ r_pc' = "run"

ReceiverNext == RecvIgnored \/ RecvFin \/ RecvOutOfWindow \/ RecvTruncated \/ RecvData
=============================================================================
