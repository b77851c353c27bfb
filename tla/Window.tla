------------------------------- MODULE Window -------------------------------
(***************************************************************************)
(* The sequence-number arithmetic of src/src/lib.c: seqnum_inc, in_window, *)
(* decale_window and the slot computed by ajout_buffer.  Sequence numbers  *)
(* and window bounds are uint8_t in the code; M is their number of values. *)
(* The window is the closed interval min..max (cyclic), so it holds W + 1  *)
(* numbers while the buffers that go with it have W slots, 0..W-1.         *)
(***************************************************************************)
EXTENDS Integers

CONSTANTS
  M,    \* number of values of a uint8_t: 256
  W     \* MAX_WINDOW_SIZE = LENGTH_BUF_REC: 31

ASSUME WindowSizes == /\ M \in Nat
                      /\ W \in Nat \ {0}
                      /\ 2 * W + 1 < M

SeqNum == 0 .. (M - 1)

\* Mutated forms: a window that is not a uint8_t, or that stops at 0
U8SubSigned(x, y) == x - y
U8SubStops(x, y) == IF y <= x THEN x - y ELSE 0

\* uint8_t subtraction, and addition of a number below M
U8Sub(x, y) == IF y <= x THEN x - y ELSE M + x - y
U8Add(x, y) == IF x + y < M THEN x + y ELSE x + y - M

-----------------------------------------------------------------------------
\* Mutated forms of the definitions below
SeqnumIncNoWrap(s) == IF s < M - 2 THEN s + 1 ELSE 0
InWindowHalfOpen(s, min, max) ==
  IF min < max THEN min <= s /\ s < max ELSE min <= s \/ s < max
InWindowLinear(s, min, max) == min <= s /\ s <= max
SlotIndexFromOne(s, min) == IF min <= s THEN s - min + 1 ELSE M - min + s
SkipNever(s, min, max) == s
SkipToNext(s, min, max) == IF InWindowLinear(s, min, max) THEN s ELSE min
DecaleByShort(x, n) == IF x + n <= M THEN x + n ELSE x + n - M

-----------------------------------------------------------------------------
SeqnumInc(s) == IF s <= M - 2 THEN s + 1 ELSE 0

\* in_window(s, min, max) = 0
InWindow(s, min, max) ==
  IF min < max THEN min <= s /\ s <= max
               ELSE min <= s \/ s <= max

\* decale_window: the new min and the new max, branch by branch
MinAfter(min, max) == IF max # M - 1 /\ min = M - 1 THEN 0 ELSE U8Add(min, 1)
MaxAfter(min, max) == IF max = M - 1 THEN 0 ELSE max + 1

\* A bound after n calls of decale_window
DecaleBy(x, n) == IF x + n < M THEN x + n ELSE x + n - M

\* The index ajout_buffer writes to
SlotIndex(s, min) == IF min <= s THEN s - min ELSE M - min + s

\* The loop of the sender that increments seqnum until it is in the window
SkipToWindow(s, min, max) == IF InWindow(s, min, max) THEN s ELSE min
=============================================================================
