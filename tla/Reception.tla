------------------------------ MODULE Reception ------------------------------
(***************************************************************************)
(* The receiver against any sender of the protocol: one that fills its     *)
(* window instead of waiting for each acknowledgement, whose packets the   *)
(* network reorders, repeats, cuts or corrupts.  Packet k of such a sender *)
(* has number k % M; its window is that of the receiver, from the first    *)
(* packet that is not written.  The sender of this repository never sends  *)
(* ahead: in Transfer the receiver meets packets in order only.            *)
(***************************************************************************)
EXTENDS Receiver

CONSTANT MaxPackets   \* bound: how many packets are accepted
ASSUME ReceptionConstants == MaxPackets \in Nat

VARIABLES
  accepted,   \* how many packets have entered the buffer
  ahead       \* whether one of them was not the packet awaited

history == <<accepted, ahead>>
vars == <<r_pc, receiverVars, r_sock, down, s_pc, up, s_sock, history>>

Init == /\ ReceiverInit
        /\ r_sock = <<>> /\ down = <<>>
        /\ s_pc = "read" /\ up = <<>> /\ s_sock = <<>>
        /\ accepted = 0
        /\ ahead = FALSE

-----------------------------------------------------------------------------
\* The packet awaited, counted from 0, and those of the windows before and after it
Awaited == Len(r_written)
Sendable == {k \in Awaited - W .. Awaited + W : k >= 0}

Data(k) == Packet(k % M, <<k % 256>>)
Fin(k) == Packet(k % M, <<>>)

\* What may come of packet k
Copies(k) == {Data(k), Cut(Data(k)), [Data(k) EXCEPT !.crc2 = FALSE], Fin(k)}

PeerSends ==
  /\ r_pc = "run" /\ r_sock = <<>>
  /\ accepted < MaxPackets
  /\ \E k \in Sendable : \E p \in Copies(k) : r_sock' = <<p>>
  /\ down' = <<>>
  /\ UNCHANGED <<r_pc, receiverVars, s_pc, up, s_sock, history>>

\* One iteration of the receiver's loop
ReceiverAnswers ==
  /\ \/ /\ RecvIgnored \/ RecvFin \/ RecvOutOfWindow \/ RecvTruncated
        /\ UNCHANGED history
     \/ /\ RecvData
        /\ IF r_pc' = "run"
           THEN accepted' = accepted + 1 /\ ahead' = (ahead \/ Datagram.seq # r_min)
           ELSE UNCHANGED history
  /\ UNCHANGED <<s_pc, up, s_sock>>

Next == PeerSends \/ ReceiverAnswers

Spec == Init /\ [][Next]_vars

-----------------------------------------------------------------------------
\* The state of the receiver between two packets.  Slot 0 is empty, whatever has been
\* received: write_buffer empties it as soon as it is filled.
ReceptionInv ==
  /\ ReceiverTypeOK
  /\ accepted \in Nat /\ ahead \in BOOLEAN
  /\ 0 \notin r_buf
  /\ ~ahead => r_buf = {} /\ accepted = Awaited

\* "Le buffer est plein" (receiver.c:343) is never reached, however many packets are
\* received ahead of the one awaited: the receiver never exits with 0 before the
\* disconnection.
NeverFull == r_pc # "full"

\* The bounds of the window count the payloads written, modulo M, whatever the order of
\* the packets and however often a bound has wrapped.
WindowFollowsFile == r_min = Awaited % M /\ r_max = (Awaited + W) % M

\* The window advertised loses a place when a packet enters the buffer and another when
\* its payload is written, and gets none back: it counts down, modulo M.
WindowCountsDown == r_pc # "done" => (r_window + accepted + Awaited) % M = W

\* As long as the packets accepted came in order (repetitions cut, corrupted or outside
\* the window notwithstanding) the file holds their payloads, each one once.
OrderedPeerServed ==
  ~ahead => r_written = [k \in 1 .. accepted |-> Data(k - 1).payload]

\* Only the packet awaited makes the receiver write, and the first payload it then writes
\* is that packet's.  (With packets ahead of it in the buffer, the others are copies of
\* it: every slot points to the one struct.)
WritesFromAwaited ==
  [][r_written' # r_written =>
       /\ Datagram.seq = r_min
       /\ r_written'[Awaited + 1] = Data(Awaited).payload]_vars
=============================================================================
