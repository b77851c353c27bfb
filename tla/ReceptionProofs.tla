--------------------------- MODULE ReceptionProofs ---------------------------
(***************************************************************************)
(* The receiver against any sender of the protocol, for every size of the  *)
(* numbers and of the window, and however long the transfer.               *)
(***************************************************************************)
EXTENDS Reception, QueueProofs

\* A remainder is the one of its class.
LEMMA Remainder ==
  ASSUME NEW q \in Int, NEW r \in 0 .. M - 1
  PROVE  (M * q + r) % M = r
<1> DEFINE x == M * q + r
           d == x \div M
           m == x % M
<1>1. M \in Nat /\ M > 0
  BY WindowSizes
<1>2. x \in Int /\ d \in Int /\ m \in 0 .. M - 1 /\ x = M * d + m
  BY <1>1
<1>3. M * (q - d) = m - r
  BY <1>1, <1>2
<1>4. ASSUME q - d >= 1 PROVE FALSE
  <2>1. M * (q - d) >= M
    BY <1>1, <1>2, <1>4
  <2> QED
    BY <1>1, <1>2, <1>3, <2>1
<1>5. ASSUME d - q >= 1 PROVE FALSE
  <2>1. M * (d - q) >= M
    BY <1>1, <1>2, <1>5
  <2>2. M * (d - q) = r - m
    BY <1>1, <1>2
  <2> QED
    BY <1>1, <1>2, <2>1, <2>2
<1>6. q = d
  BY <1>2, <1>4, <1>5
<1> QED
  BY <1>1, <1>2, <1>3, <1>6

\* DecaleBy adds modulo M.
LEMMA DecaleByIsSum ==
  ASSUME NEW x \in Nat, NEW n \in 0 .. M - 1
  PROVE  x % M \in SeqNum /\ DecaleBy(x % M, n) = (x + n) % M
<1> DEFINE q == x \div M
           r == x % M
<1>1. M \in Nat /\ M > 0
  BY WindowSizes
<1>2. q \in Int /\ r \in 0 .. M - 1 /\ x = M * q + r
  BY <1>1
<1>3. CASE r + n < M
  <2>1. r + n \in 0 .. M - 1 /\ x + n = M * q + (r + n)
    BY <1>1, <1>2, <1>3
  <2>2. (M * q + (r + n)) % M = r + n
    BY <1>2, <2>1, Remainder
  <2> QED
    BY <1>2, <1>3, <2>1, <2>2 DEF DecaleBy, SeqNum
<1>4. CASE r + n >= M
  <2>1. r + n - M \in 0 .. M - 1 /\ x + n = M * (q + 1) + (r + n - M)
    BY <1>1, <1>2, <1>4
  <2>2. (M * (q + 1) + (r + n - M)) % M = r + n - M
    BY <1>2, <2>1, Remainder
  <2> QED
    BY <1>1, <1>2, <1>4, <2>1, <2>2 DEF DecaleBy, SeqNum
<1> QED
  BY <1>1, <1>2, <1>3, <1>4

\* Two packets less than M apart that have the same number are the same packet.
LEMMA SameNumber ==
  ASSUME NEW x \in Nat, NEW y \in Nat, x % M = y % M, x - y \in 1 - M .. M - 1
  PROVE  x = y
<1>1. M \in Nat /\ M > 0
  BY WindowSizes
<1>2. ASSUME NEW a \in Nat, NEW n \in 0 .. M - 1, (a + n) % M = a % M PROVE n = 0
  <2>1. a % M \in SeqNum /\ DecaleBy(a % M, n) = a % M
    BY <1>2, DecaleByIsSum
  <2> QED
    BY <1>1, <2>1 DEF DecaleBy, SeqNum
<1>3. CASE x >= y
  <2>1. x - y \in 0 .. M - 1 /\ y + (x - y) = x
    BY <1>1, <1>3
  <2> QED
    BY <1>2, <2>1
<1>4. CASE y >= x
  <2>1. y - x \in 0 .. M - 1 /\ x + (y - x) = y
    BY <1>1, <1>4
  <2> QED
    BY <1>2, <2>1
<1> QED
  BY <1>3, <1>4

\* Adding M changes no remainder.
LEMMA PlusM ==
  ASSUME NEW x \in Nat
  PROVE  (x + M) % M = x % M
<1>1. M \in Nat /\ M > 0
  BY WindowSizes
<1> DEFINE q == x \div M
           r == x % M
<1>2. q \in Int /\ r \in 0 .. M - 1 /\ x = M * q + r
  BY <1>1
<1>3. x + M = M * (q + 1) + r
  BY <1>1, <1>2
<1>4. (M * (q + 1) + r) % M = r
  BY <1>2, Remainder
<1> QED
  BY <1>3, <1>4

\* The uint8_t `window`, decremented once and then by the number of slots written,
\* against two counts that grow by as much.
LEMMA CountedDown ==
  ASSUME NEW w \in SeqNum, NEW n \in SeqNum, NEW a \in Nat, NEW b \in Nat,
         (w + a + b) % M = W
  PROVE  (U8Sub(U8Sub(w, 1), n) + (a + 1) + (b + n)) % M = W
<1> DEFINE x == w + a + b
           y == U8Sub(U8Sub(w, 1), n) + (a + 1) + (b + n)
<1>1. M \in Nat /\ M > 1
  BY WindowSizes
<1>2. x \in Nat /\ x % M = W /\ x + M \in Nat
  BY <1>1 DEF SeqNum
<1>3. y = x \/ y = x + M \/ y = x + M + M
  BY <1>1 DEF SeqNum, U8Sub
<1> HIDE DEF x, y
<1>4. (x + M) % M = W
  BY <1>2, PlusM
<1>5. (x + M + M) % M = W
  BY <1>2, <1>4, PlusM
<1>6. y % M = W
  BY <1>2, <1>3, <1>4, <1>5
<1> QED
  BY <1>6 DEF y

-----------------------------------------------------------------------------
\* One packet of the sender's window at most is in the socket.
SocketInv ==
  r_sock # <<>> => \E k \in Sendable : \E p \in Copies(k) : r_sock = <<p>>

IInv == /\ ReceptionInv
        /\ NeverFull
        /\ WindowFollowsFile
        /\ WindowCountsDown
        /\ OrderedPeerServed
        /\ SocketInv

\* The slots in use when the packet received is stored, and how many are written
Slots == r_buf \cup {SlotIndex(Datagram.seq, r_min)}
Count == Written(Slots)

\* What may come of a packet has its number; only the packet itself is stored.
LEMMA CopyOf ==
  ASSUME NEW k \in Nat, NEW p \in Copies(k)
  PROVE  /\ p.seq = k % M /\ p.seq \in SeqNum
         /\ p.payload \in Seq(Byte)
         /\ PktDecodes(p) /\ ~Disconnects(p) /\ ~Truncated(p) => p = Data(k)
<1>1. k % M \in SeqNum
  BY WindowSizes DEF SeqNum
<1>2. k % 256 \in Byte
  BY DEF Byte
<1>3. <<k % 256>> \in Seq(Byte) /\ <<>> \in Seq(Byte)
  BY <1>2
<1>4. CASE p = Data(k)
  BY <1>1, <1>3, <1>4 DEF Data, Packet
<1>5. CASE p = Cut(Data(k))
  BY <1>1, <1>3, <1>5 DEF Cut, Data, Packet, Truncated
<1>6. CASE p = [Data(k) EXCEPT !.crc2 = FALSE]
  BY <1>1, <1>3, <1>6 DEF Data, Packet, PktDecodes
<1>7. CASE p = Fin(k)
  BY <1>1, <1>3, <1>7 DEF Fin, Packet, Disconnects
<1> QED
  BY <1>4, <1>5, <1>6, <1>7 DEF Copies

\* The numbers of the invariant, and where the window is.
LEMMA Numbers ==
  ASSUME IInv
  PROVE  /\ Awaited \in Nat /\ r_written \in Seq(Seq(Byte))
         /\ r_min \in SeqNum /\ r_max = DecaleBy(r_min, W)
         /\ r_window \in SeqNum /\ r_buf \in SUBSET (0 .. W) /\ 0 \notin r_buf
         /\ accepted \in Nat /\ ahead \in BOOLEAN
<1>1. Awaited \in Nat /\ r_written \in Seq(Seq(Byte))
  BY LenProperties DEF IInv, ReceptionInv, ReceiverTypeOK, Awaited
<1>2. W \in 0 .. M - 1
  BY WindowSizes
<1>3. DecaleBy(Awaited % M, W) = (Awaited + W) % M
  BY <1>1, <1>2, DecaleByIsSum
<1> QED
  BY <1>1, <1>3 DEF IInv, ReceptionInv, ReceiverTypeOK, WindowFollowsFile

\* A packet that is stored: its slot is within the buffer and the word after it, slot 0
\* is that of the packet awaited, and only that packet makes write_buffer write.
LEMMA Stored ==
  ASSUME IInv, Decoded, ~Disconnects(Datagram), ~Truncated(Datagram),
         InWindow(Datagram.seq, r_min, r_max)
  PROVE  /\ Datagram.payload \in Seq(Byte)
         /\ Datagram.seq = r_min => Datagram.payload = Data(Awaited).payload
         /\ Slots \in SUBSET (0 .. W) /\ Count \in 0 .. W
         /\ 0 \in Slots <=> Datagram.seq = r_min
         /\ Count > 0 <=> Datagram.seq = r_min
         /\ Count > 0 => 0 .. Count - 1 \subseteq Slots
         /\ ~ahead /\ Datagram.seq = r_min => Slots = {0} /\ Count = 1
         /\ ~BufferPlein
<1>0. W \in Nat \ {0} /\ M \in Nat /\ 2 * W + 1 < M
  BY WindowSizes
<1>1. PICK k \in Sendable : \E p \in Copies(k) : r_sock = <<p>>
  BY DEF IInv, SocketInv, Decoded, Arrives
<1>2. PICK p \in Copies(k) : r_sock = <<p>>
  BY <1>1
<1>3. Datagram = p
  BY <1>2 DEF Datagram
<1>4. k \in Nat /\ k - Awaited \in 1 - M .. M - 1
  BY <1>0, <1>1, Numbers DEF Sendable
<1>5. /\ Datagram.seq = k % M /\ Datagram.seq \in SeqNum
      /\ Datagram.payload \in Seq(Byte) /\ Datagram = Data(k)
  BY <1>3, <1>4, CopyOf DEF Decoded
<1>6. ASSUME Datagram.seq = r_min PROVE k = Awaited
  <2>1. k % M = Awaited % M
    BY <1>5, <1>6 DEF IInv, WindowFollowsFile
  <2> QED
    BY <1>4, <2>1, SameNumber, Numbers
<1>7. SlotIndex(Datagram.seq, r_min) \in 0 .. W
  BY <1>5, Numbers, SlotOfWindow
<1>8. SlotIndex(Datagram.seq, r_min) = 0 <=> Datagram.seq = r_min
  BY <1>0, <1>5, Numbers DEF SlotIndex, SeqNum
<1>9. Slots \in SUBSET (0 .. W)
  BY <1>7, Numbers DEF Slots
<1>10. /\ Count \in 0 .. W /\ 0 .. Count - 1 \subseteq Slots
       /\ Count = W \/ Count \notin Slots
  BY <1>9, WrittenIsFirstEmpty DEF Count
<1>11. 0 \in Slots <=> Datagram.seq = r_min
  BY <1>8, Numbers DEF Slots
<1>12. Count > 0 <=> Datagram.seq = r_min
  <2>1. Count > 0 => 0 \in 0 .. Count - 1
    BY <1>10
  <2> QED
    BY <1>0, <1>10, <1>11, <2>1
<1>13. ASSUME ~ahead, Datagram.seq = r_min PROVE Slots = {0} /\ Count = 1
  <2>1. Slots = {0}
    BY <1>8, <1>13 DEF Slots, IInv, ReceptionInv
  <2>2. Count > 1 => 1 \in 0 .. Count - 1
    BY <1>10
  <2> QED
    BY <1>10, <1>12, <1>13, <2>1, <2>2
<1>14. ~BufferPlein
  BY <1>0, Numbers DEF BufferPlein
<1> QED
  BY <1>5, <1>6, <1>9, <1>10, <1>11, <1>12, <1>13, <1>14

\* ... and what becomes of the receiver.
LEMMA Accepts ==
  ASSUME IInv, RecvData, UNCHANGED <<s_pc, up, s_sock>>,
         IF r_pc' = "run"
           THEN accepted' = accepted + 1 /\ ahead' = (ahead \/ Datagram.seq # r_min)
           ELSE UNCHANGED history
  PROVE  /\ Decoded /\ ~Disconnects(Datagram) /\ ~Truncated(Datagram)
         /\ InWindow(Datagram.seq, r_min, r_max)
         /\ r_buf' = Slots \ (0 .. Count - 1)
         /\ r_written' = r_written \o [k \in 1 .. Count |-> Datagram.payload]
         /\ r_min' = DecaleBy(r_min, Count)
         /\ r_max' = DecaleBy(r_max, Count)
         /\ r_err' = Count
         /\ r_window' = U8Sub(U8Sub(r_window, 1), Count)
         /\ r_sock' = Tail(r_sock)
         /\ r_pc' = "run"
         /\ accepted' = accepted + 1
         /\ ahead' = (ahead \/ Datagram.seq # r_min)
<1>1. /\ Decoded /\ ~Disconnects(Datagram) /\ ~Truncated(Datagram)
      /\ InWindow(Datagram.seq, r_min, r_max)
  BY DEF RecvData
<1>2. ~BufferPlein
  BY <1>1, Stored
<1> QED
  BY <1>1, <1>2 DEF RecvData, Slots, Count

-----------------------------------------------------------------------------
\* What a step may change: the packet in the socket and nothing else, for a sender; ...
LEMMA SendsKeeps ==
  ASSUME IInv, PeerSends
  PROVE  IInv'
<1>1. /\ UNCHANGED <<r_pc, receiverVars, history>> /\ Awaited' = Awaited
      /\ \E k \in Sendable : \E p \in Copies(k) : r_sock' = <<p>>
  BY DEF PeerSends, Awaited, receiverVars
<1>2. SocketInv'
  BY <1>1 DEF SocketInv, Sendable
<1> QED
  BY <1>1, <1>2
  DEF IInv, ReceptionInv, ReceiverTypeOK, NeverFull, WindowFollowsFile, WindowCountsDown,
      OrderedPeerServed, receiverVars, history, Awaited

\* ... the packet consumed and the place in the program, for one that is ignored, refused
\* or answered by a NACK, ...
LEMMA RefusesKeeps ==
  ASSUME IInv, RecvIgnored \/ RecvOutOfWindow \/ RecvTruncated, UNCHANGED history
  PROVE  IInv'
<1>1. /\ UNCHANGED <<receiverVars, history>> /\ Awaited' = Awaited
      /\ r_pc = "run" /\ r_pc' \in {"run", "failed"}
      /\ r_sock' = <<>> \/ r_sock' = Tail(r_sock)
  BY DEF RecvIgnored, RecvOutOfWindow, RecvTruncated, Decoded, Arrives, Awaited,
         receiverVars
<1>2. \E p : r_sock = <<p>>
  BY DEF IInv, SocketInv, RecvIgnored, RecvOutOfWindow, RecvTruncated, Decoded, Arrives
<1>3. r_sock' = <<>>
  BY <1>1, <1>2
<1> QED
  BY <1>1, <1>3
  DEF IInv, ReceptionInv, ReceiverTypeOK, NeverFull, WindowFollowsFile, WindowCountsDown,
      OrderedPeerServed, SocketInv, ReceiverPlaces, receiverVars, history, Awaited

\* ... the window advertised too, for the disconnection, ...
LEMMA FinKeeps ==
  ASSUME IInv, RecvFin, UNCHANGED history
  PROVE  IInv'
<1>1. /\ UNCHANGED <<r_min, r_max, r_err, r_buf, r_written, history>>
      /\ Awaited' = Awaited /\ r_pc' = "done" /\ r_sock' = <<>>
      /\ r_window' = U8Sub(r_window, r_err)
  BY DEF RecvFin, Awaited
<1>2. r_window' \in SeqNum
  <2>1. r_err \in SeqNum
    BY WindowSizes DEF IInv, ReceptionInv, ReceiverTypeOK, SeqNum
  <2> QED
    BY <1>1, <2>1, U8Type, Numbers
<1> QED
  BY <1>1, <1>2
  DEF IInv, ReceptionInv, ReceiverTypeOK, NeverFull, WindowFollowsFile, WindowCountsDown,
      OrderedPeerServed, SocketInv, ReceiverPlaces, history, Awaited

\* ... and all of it, for a packet that is stored.
Accepted == /\ RecvData
            /\ UNCHANGED <<s_pc, up, s_sock>>
            /\ IF r_pc' = "run"
               THEN accepted' = accepted + 1 /\ ahead' = (ahead \/ Datagram.seq # r_min)
               ELSE UNCHANGED history

\* The file grows by as many copies of the payload as slots are written.
LEMMA FileGrows ==
  ASSUME IInv, Accepted
  PROVE  /\ r_written' \in Seq(Seq(Byte))
         /\ Awaited' = Awaited + Count
         /\ \A k \in 1 .. Awaited : r_written'[k] = r_written[k]
         /\ \A k \in Awaited + 1 .. Awaited + Count : r_written'[k] = Datagram.payload
<1> DEFINE copies == [k \in 1 .. Count |-> Datagram.payload]
<1>1. /\ r_written' = r_written \o copies
      /\ Datagram.payload \in Seq(Byte) /\ Count \in Nat
  BY Accepts, Stored, WindowSizes DEF Accepted
<1>2. /\ copies \in Seq(Seq(Byte)) /\ Len(copies) = Count
      /\ \A k \in 1 .. Count : copies[k] = Datagram.payload
  BY <1>1, ConstantSeq
<1>3. r_written \in Seq(Seq(Byte)) /\ Len(r_written) = Awaited /\ Awaited \in Nat
  BY Numbers DEF Awaited
<1> HIDE DEF copies
<1>4. /\ r_written \o copies \in Seq(Seq(Byte))
      /\ Len(r_written \o copies) = Awaited + Count
      /\ \A k \in 1 .. Awaited + Count :
           (r_written \o copies)[k] =
             IF k <= Awaited THEN r_written[k] ELSE copies[k - Awaited]
  BY <1>2, <1>3, ConcatProperties
<1>5. \A k \in Awaited + 1 .. Awaited + Count :
        k - Awaited \in 1 .. Count /\ ~(k <= Awaited) /\ k \in 1 .. Awaited + Count
  BY <1>1, <1>3
<1> QED
  BY <1>1, <1>2, <1>3, <1>4, <1>5 DEF Awaited

\* Such a step keeps every part of the invariant.
LEMMA DataKeeps ==
  ASSUME IInv, Accepted
  PROVE  IInv'
<1>0. W \in Nat \ {0} /\ M \in Nat /\ 2 * W + 1 < M
  BY WindowSizes
<1>1. /\ Count \in 0 .. W /\ Slots \in SUBSET (0 .. W)
      /\ 0 \in Slots <=> Datagram.seq = r_min
      /\ Count > 0 <=> Datagram.seq = r_min
      /\ Count > 0 => 0 .. Count - 1 \subseteq Slots
      /\ ~ahead /\ Datagram.seq = r_min =>
           Slots = {0} /\ Count = 1 /\ Datagram.payload = Data(Awaited).payload
  BY Accepts, Stored DEF Accepted
<1>2. /\ r_buf' = Slots \ (0 .. Count - 1)
      /\ r_min' = DecaleBy(r_min, Count) /\ r_max' = DecaleBy(r_max, Count)
      /\ r_err' = Count /\ r_window' = U8Sub(U8Sub(r_window, 1), Count)
      /\ r_sock' = Tail(r_sock) /\ r_pc = "run" /\ r_pc' = "run"
      /\ accepted' = accepted + 1 /\ ahead' = (ahead \/ Datagram.seq # r_min)
  BY Accepts DEF Accepted, Decoded, Arrives
<1>3. SocketInv'
  <2>1. \E p : r_sock = <<p>>
    BY DEF IInv, SocketInv, Accepted, RecvData, Decoded, Arrives
  <2> QED
    BY <1>2, <2>1 DEF SocketInv
<1>4. WindowFollowsFile'
  <2>1. Count \in 0 .. M - 1 /\ Awaited \in Nat /\ Awaited + W \in Nat
    BY <1>0, <1>1, Numbers
  <2>2. r_min = Awaited % M /\ r_max = (Awaited + W) % M
    BY DEF IInv, WindowFollowsFile
  <2>3. r_min' = (Awaited + Count) % M /\ r_max' = (Awaited + W + Count) % M
    BY <1>2, <2>1, <2>2, DecaleByIsSum
  <2>4. Awaited + W + Count = Awaited' + W
    BY <1>0, <2>1, FileGrows
  <2> QED
    BY <2>3, <2>4, FileGrows DEF WindowFollowsFile
<1>5. ReceptionInv' /\ NeverFull'
  <2>1. {r_min', r_max', r_window'} \subseteq SeqNum
    <3>1. Count \in SeqNum /\ 1 \in SeqNum /\ W \in SeqNum
      BY <1>0, <1>1 DEF SeqNum
    <3>2. r_min \in SeqNum /\ r_max = DecaleBy(r_min, W) /\ r_window \in SeqNum
      BY Numbers
    <3>3. r_max \in SeqNum /\ U8Sub(r_window, 1) \in SeqNum
      BY <3>1, <3>2, U8Type
    <3>4. r_min' \in SeqNum /\ r_max' \in SeqNum
      BY <1>2, <3>1, <3>2, <3>3, U8Type
    <3>5. r_window' \in SeqNum
      BY <1>2, <3>1, <3>3, U8Type
    <3> QED
      BY <3>4, <3>5
  <2>2. 0 \notin r_buf'
    <3>1. CASE Count = 0
      BY <1>1, <1>2, <3>1
    <3>2. CASE Count > 0
      BY <1>1, <1>2, <3>2
    <3> QED
      BY <1>1, <3>1, <3>2
  <2>3. ~ahead' => r_buf' = {} /\ accepted' = Awaited'
    <3>1. SUFFICES ASSUME ~ahead' PROVE r_buf' = {} /\ accepted' = Awaited'
      OBVIOUS
    <3>2. ~ahead /\ Slots = {0} /\ Count = 1
      BY <1>1, <1>2, <3>1
    <3>3. accepted = Awaited /\ Awaited' = Awaited + 1
      BY <3>2, FileGrows DEF IInv, ReceptionInv
    <3> QED
      BY <1>2, <3>2, <3>3
  <2> QED
    BY <1>1, <1>2, <2>1, <2>2, <2>3, Numbers, FileGrows
    DEF ReceptionInv, ReceiverTypeOK, NeverFull, ReceiverPlaces
<1>6. WindowCountsDown'
  <2>1. Count \in SeqNum
    BY <1>0, <1>1 DEF SeqNum
  <2>2. (r_window + accepted + Awaited) % M = W
    BY <1>2 DEF IInv, WindowCountsDown
  <2>3. (U8Sub(U8Sub(r_window, 1), Count) + (accepted + 1) + (Awaited + Count)) % M = W
    BY <2>1, <2>2, Numbers, CountedDown
  <2>4. Awaited' = Awaited + Count
    BY FileGrows
  <2> QED
    BY <1>2, <2>3, <2>4 DEF WindowCountsDown
<1>7. OrderedPeerServed'
  <2>1. SUFFICES ASSUME ~ahead'
                 PROVE  r_written' = [k \in 1 .. accepted' |-> Data(k - 1).payload]
    BY DEF OrderedPeerServed
  <2>2. /\ ~ahead /\ Count = 1 /\ Datagram.payload = Data(Awaited).payload
    BY <1>1, <1>2, <2>1
  <2>3. /\ accepted = Awaited /\ Awaited \in Nat
        /\ r_written = [k \in 1 .. accepted |-> Data(k - 1).payload]
    BY <2>2, Numbers DEF IInv, ReceptionInv, OrderedPeerServed
  <2>4. /\ r_written' \in Seq(Seq(Byte)) /\ Len(r_written') = Awaited + 1
        /\ accepted' = Awaited + 1
    BY <1>2, <2>2, <2>3, FileGrows DEF Awaited
  <2>5. r_written' = [k \in 1 .. Awaited + 1 |-> r_written'[k]]
    BY <2>4, LenProperties
  <2>6. ASSUME NEW k \in 1 .. Awaited + 1 PROVE r_written'[k] = Data(k - 1).payload
    <3>1. CASE k <= Awaited
      BY <2>3, <3>1, FileGrows
    <3>2. CASE k = Awaited + 1
      BY <2>2, <2>3, <3>2, FileGrows
    <3> QED
      BY <2>3, <3>1, <3>2
  <2> QED
    BY <2>4, <2>5, <2>6
<1> QED
  BY <1>3, <1>4, <1>5, <1>6, <1>7 DEF IInv

\* The invariant is inductive.
LEMMA InitIInv == Init => IInv
<1>1. SUFFICES ASSUME Init PROVE IInv
  OBVIOUS
<1>2. Len(<<>>) = 0 /\ <<>> \in Seq(Seq(Byte)) /\ 0 % M = 0 /\ W % M = W
  BY WindowSizes
<1>3. Awaited = 0 /\ accepted = 0 /\ r_written = <<>>
  BY <1>1, <1>2 DEF Init, ReceiverInit, Awaited
<1>4. OrderedPeerServed
  <2>1. [k \in 1 .. 0 |-> Data(k - 1).payload] = <<>>
    OBVIOUS
  <2> QED
    BY <1>3, <2>1 DEF OrderedPeerServed
<1>5. WindowFollowsFile /\ WindowCountsDown
  BY <1>1, <1>2, <1>3, WindowSizes
  DEF Init, ReceiverInit, WindowFollowsFile, WindowCountsDown
<1>6. ReceiverTypeOK
  <2>1. 0 \in SeqNum /\ W \in SeqNum /\ 0 \in 0 .. W /\ {} \subseteq 0 .. W
    BY WindowSizes DEF SeqNum
  <2> QED
    BY <1>1, <1>2, <2>1 DEF Init, ReceiverInit, ReceiverTypeOK, ReceiverPlaces
<1>7. ReceptionInv
  <2>1. /\ r_buf = {} /\ accepted = 0 /\ accepted \in Nat /\ accepted = Awaited
        /\ ahead = FALSE
    BY <1>1, <1>3 DEF Init, ReceiverInit
  <2> QED
    BY <1>6, <2>1 DEF ReceptionInv
<1>8. NeverFull /\ SocketInv
  BY <1>1 DEF Init, ReceiverInit, NeverFull, SocketInv
<1> QED
  BY <1>4, <1>5, <1>7, <1>8 DEF IInv

LEMMA NextIInv == IInv /\ [Next]_vars => IInv'
<1>1. CASE UNCHANGED vars
  BY <1>1
  DEF vars, history, receiverVars, IInv, ReceptionInv, ReceiverTypeOK, NeverFull,
      WindowFollowsFile, WindowCountsDown, OrderedPeerServed, SocketInv, Awaited, Sendable
<1>2. IInv /\ Next => IInv'
  BY SendsKeeps, RefusesKeeps, FinKeeps, DataKeeps DEF Next, ReceiverAnswers, Accepted
<1> QED
  BY <1>1, <1>2

\* The invariant behind the theorems below
THEOREM Reliable == Spec => []IInv
  BY InitIInv, NextIInv, PTL DEF Spec

\* The receiver never finds its buffer full (receiver.c:284, 343-346), whatever the order
\* of the packets: it exits with 0 on the disconnection only.
THEOREM NeverFullCorrect == Spec => []NeverFull
<1>1. IInv => NeverFull
  BY DEF IInv
<1> QED
  BY <1>1, Reliable, PTL

\* Its window is where the file ends (lib.c:1037-1050, write_buffer), however long it is.
THEOREM WindowFollowsFileCorrect == Spec => []WindowFollowsFile
<1>1. IInv => WindowFollowsFile
  BY DEF IInv
<1> QED
  BY <1>1, Reliable, PTL

\* What it advertises loses two places per payload (receiver.c:286, 294).
THEOREM WindowCountsDownCorrect == Spec => []WindowCountsDown
<1>1. IInv => WindowCountsDown
  BY DEF IInv
<1> QED
  BY <1>1, Reliable, PTL

\* A sender whose packets come in order is served: its payloads are in the file.
THEOREM OrderedPeerServedCorrect == Spec => []OrderedPeerServed
<1>1. IInv => OrderedPeerServed
  BY DEF IInv
<1> QED
  BY <1>1, Reliable, PTL

\* write_buffer writes nothing before the packet awaited is there, and that packet first.
THEOREM WritesFromAwaitedCorrect == Spec => WritesFromAwaited
<1>1. ASSUME IInv, Next, r_written' # r_written
      PROVE  /\ Datagram.seq = r_min
             /\ r_written'[Awaited + 1] = Data(Awaited).payload
  <2>1. Accepted
    BY <1>1
    DEF Next, PeerSends, ReceiverAnswers, RecvIgnored, RecvFin, RecvOutOfWindow,
        RecvTruncated, receiverVars, Accepted
  <2>2. /\ Count \in 0 .. W /\ Awaited \in Nat
        /\ Datagram.seq = r_min => Datagram.payload = Data(Awaited).payload
        /\ Count > 0 <=> Datagram.seq = r_min
    BY <1>1, <2>1, Accepts, Stored, Numbers DEF Accepted
  <2>3. Count > 0
    <3>1. SUFFICES ASSUME Count = 0 PROVE r_written' = r_written
      BY <1>1, <2>2, WindowSizes
    <3>2. r_written' \in Seq(Seq(Byte)) /\ r_written \in Seq(Seq(Byte))
      BY <1>1, <2>1, FileGrows, Numbers
    <3>3. Len(r_written') = Len(r_written) /\ Len(r_written) \in Nat
      BY <1>1, <2>1, <2>2, <3>1, FileGrows DEF Awaited
    <3>4. \A k \in 1 .. Len(r_written) : r_written'[k] = r_written[k]
      BY <1>1, <2>1, FileGrows DEF Awaited
    <3> QED
      BY <3>2, <3>3, <3>4, SeqEqual
  <2>4. Awaited + 1 \in Awaited + 1 .. Awaited + Count
    BY <2>2, <2>3
  <2>5. r_written'[Awaited + 1] = Datagram.payload
    BY <1>1, <2>1, <2>4, FileGrows
  <2> QED
    BY <2>2, <2>3, <2>5
<1>2. IInv /\ [Next]_vars =>
        [r_written' # r_written =>
           /\ Datagram.seq = r_min
           /\ r_written'[Awaited + 1] = Data(Awaited).payload]_vars
  BY <1>1
<1> QED
  BY <1>2, Reliable, PTL DEF Spec, WritesFromAwaited
=============================================================================
