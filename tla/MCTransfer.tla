----------------------------- MODULE MCTransfer -----------------------------
(***************************************************************************)
(* Files and inputs for the runs of Transfer, and the end of a run.        *)
(***************************************************************************)
EXTENDS TransferInvariant

CONSTANT FileLength

\* A file of n blocks, all different, none with a NUL; of a block of 512 bytes
\* two are kept, and one of the last block, which is shorter.
FileOf(n) == [k \in 1 .. n |-> IF k = n THEN <<99>> ELSE <<100 + k \div 100, 11 + (k % 100)>>]

File == FileOf(FileLength)

\* Text on the standard input: each block of the file ends with a linefeed, or with a NUL
\* and what follows it, and blocks that start with either come first, last and between.
Line(k) == File[k] \o (IF k % 2 = 0 THEN <<10>> ELSE <<0, 67>>)
Blank == <<<<10>>, <<0, 66>>>>
Lines(from, to) == [k \in 1 .. to - from + 1 |-> Line(from + k - 1)]
Typed == Blank \o Lines(1, FileLength \div 2) \o Blank
           \o Lines(FileLength \div 2 + 1, FileLength) \o Blank

\* The memory after the bytes read: zeros, or one byte that an earlier use of the
\* memory left before them.
Zeros == {<<>>}
Remains == {<<>>, <<7>>}

\* Both programs have exited: nothing more is to happen.
Terminated == /\ s_pc \in SenderEnded
              /\ r_pc # "run"
              /\ UNCHANGED vars

EndingSpec == Init /\ [][Next \/ Terminated]_vars /\ Fairness

\* Of what is typed on the standard input, the receiver gets each line up to its
\* linefeed or first NUL, without the lines that are empty (sender.c:318).
LinesReceived ==
  /\ r_written = SubSeq(File, 1, Len(r_written))
  /\ r_pc = "done" => Len(r_written) = FileLength

-----------------------------------------------------------------------------
(* What the comments, the interfaces and the test of the repository say of the
   two programs, where the code does otherwise. *)

\* receiver.c:235: a packet outside the reception window is ignored.
OutOfWindowIgnored == [][RecvOutOfWindow => r_pc' = "run"]_vars

\* lib.h:319-320: the CRC of the header of an ACK is checked with TR taken as 0, so
\* an ACK that was cut after its header is decoded.
CutAckDecoded ==
  [][RecvUndecodable => ~Head(s_sock).crc1]_vars

\* sender.c:447: an ACK takes the packets it acknowledges out of buffer_envoi.
AckRetires == [][RecvAck => \A i \in 0 .. W : s_buf'[i] # "packet"]_vars

\* test.sh:28-44: the transfer of a file ends and neither program crashes, on a
\* perfect link as on one that loses datagrams.
TransferEnds == <>(s_pc = "done" /\ r_pc = "done")
=============================================================================
