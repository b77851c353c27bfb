----------------------------- MODULE QueueProofs -----------------------------
(***************************************************************************)
(* What the proofs about the hosts share, for every size of the numbers    *)
(* and of the window: the window arithmetic, the queues (sequences from    *)
(* which any datagram may leave) and the scans of the code, which stop at  *)
(* the first slot or byte of a kind.                                       *)
(***************************************************************************)
EXTENDS Sender, Receiver, Link, SequenceTheorems, NaturalsInduction,
        WellFoundedInduction, TLAPS

-----------------------------------------------------------------------------
\* The window arithmetic.

\* The distance from min to s, going up modulo M: the reference the operators of
\* the code are compared with.
Distance(s, min) == IF min <= s THEN s - min ELSE s + M - min

\* Sequence numbers stay sequence numbers.
LEMMA U8Type ==
  ASSUME NEW x \in SeqNum, NEW y \in SeqNum
  PROVE  /\ U8Sub(x, y) \in SeqNum
         /\ U8Add(x, y) \in SeqNum
         /\ DecaleBy(x, y) \in SeqNum
         /\ SeqnumInc(x) \in SeqNum
  BY WindowSizes DEF SeqNum, U8Sub, U8Add, DecaleBy, SeqnumInc

\* The initial window is 0..W and every decale_window keeps its upper bound W
\* numbers after its lower bound.
THEOREM DecaleKeepsSpan ==
  ASSUME NEW min \in SeqNum, NEW max \in SeqNum, max = DecaleBy(min, W)
  PROVE  MaxAfter(min, max) = DecaleBy(MinAfter(min, max), W)
  BY WindowSizes DEF SeqNum, DecaleBy, MinAfter, MaxAfter, U8Add

\* Several decale_window in a row keep it too.
LEMMA DecaleByKeepsSpan ==
  ASSUME NEW min \in SeqNum, NEW n \in SeqNum
  PROVE  DecaleBy(DecaleBy(min, W), n) = DecaleBy(DecaleBy(min, n), W)
  BY WindowSizes DEF SeqNum, DecaleBy

\* One decale_window moves each bound by one number: DecaleBy is its repetition.
THEOREM DecaleByStep ==
  ASSUME NEW min \in SeqNum, NEW max \in SeqNum, max = DecaleBy(min, W),
         NEW n \in 0 .. M - 2
  PROVE  /\ DecaleBy(min, n + 1) = MinAfter(DecaleBy(min, n), DecaleBy(max, n))
         /\ DecaleBy(max, n + 1) = MaxAfter(DecaleBy(min, n), DecaleBy(max, n))
  BY WindowSizes DEF SeqNum, DecaleBy, MinAfter, MaxAfter, U8Add

\* in_window accepts the numbers at distance 0..W from the lower bound, no other,
\* wherever the window is.
THEOREM InWindowIsDistance ==
  ASSUME NEW s \in SeqNum, NEW min \in SeqNum
  PROVE  InWindow(s, min, DecaleBy(min, W)) <=> Distance(s, min) <= W
  BY WindowSizes DEF SeqNum, DecaleBy, InWindow, Distance

\* The slot of ajout_buffer is that distance: two numbers of a window have two
\* slots, and the last number of every window has slot W, one past the W slots
\* that sender.c:152 and receiver.c:86 allocate.
THEOREM SlotOfWindow ==
  ASSUME NEW s \in SeqNum, NEW min \in SeqNum, InWindow(s, min, DecaleBy(min, W))
  PROVE  /\ SlotIndex(s, min) = Distance(s, min)
         /\ SlotIndex(s, min) \in 0 .. W
         /\ SlotIndex(s, min) = W <=> s = DecaleBy(min, W)
         /\ \A t \in SeqNum : /\ InWindow(t, min, DecaleBy(min, W))
                              /\ SlotIndex(t, min) = SlotIndex(s, min)
                              => t = s
  BY WindowSizes DEF SeqNum, DecaleBy, InWindow, Distance, SlotIndex

\* The sender's loop on seqnum_inc ends on a number of its window.
LEMMA SkipIsInWindow ==
  ASSUME NEW s \in SeqNum, NEW min \in SeqNum
  PROVE  /\ SkipToWindow(s, min, DecaleBy(min, W)) \in SeqNum
         /\ InWindow(SkipToWindow(s, min, DecaleBy(min, W)), min, DecaleBy(min, W))
  BY WindowSizes DEF SeqNum, DecaleBy, InWindow, SkipToWindow

-----------------------------------------------------------------------------
\* The queues and the scans.

\* What is in a queue stays within a set when a datagram is added, received from the
\* head or taken out by the link.
LEMMA AppendStays ==
  ASSUME NEW S, NEW q \in Seq(S), NEW d \in S
  PROVE  Append(q, d) \in Seq(S) /\ q \o <<d>> \in Seq(S)
<1>1. <<d>> \in Seq(S)
  OBVIOUS
<1> QED
  BY <1>1, AppendProperties, ConcatProperties

\* Taking the head of a queue leaves a queue.
LEMMA TailStays ==
  ASSUME NEW S, NEW q \in Seq(S), q # <<>>
  PROVE  Head(q) \in S /\ Tail(q) \in Seq(S)
  BY HeadTailProperties

\* A queue without its i-th datagram is a queue, one shorter, in the same order.
LEMMA WithoutStays ==
  ASSUME NEW S, NEW q \in Seq(S), NEW i \in DOMAIN q
  PROVE  /\ Without(q, i) \in Seq(S)
         /\ Len(Without(q, i)) = Len(q) - 1
         /\ \A j \in 1 .. Len(q) - 1 :
              Without(q, i)[j] = IF j < i THEN q[j] ELSE q[j + 1]
<1>1. Len(q) \in Nat /\ DOMAIN q = 1 .. Len(q) /\ \A j \in 1 .. Len(q) : q[j] \in S
  BY LenProperties, ElementOfSeq
<1>2. Len(q) - 1 \in Nat
  BY <1>1
<1>3. \A j \in 1 .. Len(q) - 1 : (IF j < i THEN q[j] ELSE q[j + 1]) \in S
  BY <1>1
<1> QED
  BY <1>1, <1>2, <1>3 DEF Without

\* A sequence over a set is one over any larger set.
LEMMA SeqMonotone ==
  ASSUME NEW S, NEW T, S \subseteq T, NEW q \in Seq(S)
  PROVE  q \in Seq(T)
  BY SeqMonotonic

\* The queue of n copies of a datagram.
LEMMA ConstantSeq ==
  ASSUME NEW S, NEW d \in S, NEW n \in Nat
  PROVE  /\ [k \in 1 .. n |-> d] \in Seq(S)
         /\ Len([k \in 1 .. n |-> d]) = n
  OBVIOUS

\* A set of natural numbers that is not empty has a least element.
LEMMA LeastNatural ==
  ASSUME NEW S, S \subseteq Nat, S # {}
  PROVE  \E n \in S : \A m \in S : n <= m
<1> DEFINE R == OpToRel(<, Nat)
<1>1. IsWellFoundedOn(R, Nat)
  BY NatLessThanWellFounded
<1>2. PICK n \in S : \A m \in S : ~(<<m, n>> \in R)
  BY <1>1, WFMin, Zenon
<1>3. ASSUME NEW m \in S PROVE n <= m
  <2>1. ~(m < n)
    BY <1>2 DEF OpToRel
  <2> QED
    BY <2>1
<1> QED
  BY <1>2, <1>3

\* strlen finds the first terminator of a block, or its end: what is sent of a
\* block has no terminator and stops at one or at the end of the block.
THEOREM StrLenIsFirst ==
  ASSUME NEW block \in Seq(Byte)
  PROVE  /\ StrLen(block) \in 0 .. Len(block)
         /\ \A i \in 1 .. StrLen(block) : block[i] \notin Terminators
         /\ StrLen(block) < Len(block) => block[StrLen(block) + 1] \in Terminators
<1>1. Len(block) \in Nat
  BY LenProperties
<1> DEFINE Stops == {n \in 0 .. Len(block) :
                       n < Len(block) => block[n + 1] \in Terminators}
<1>2. Len(block) \in Stops /\ Stops \subseteq Nat
  BY <1>1
<1>3. PICK n \in Stops : \A m \in Stops : n <= m
  BY <1>2, LeastNatural
<1>4. \A i \in 1 .. n : block[i] \notin Terminators
  <2>1. SUFFICES ASSUME NEW i \in 1 .. n, block[i] \in Terminators PROVE FALSE
    OBVIOUS
  <2>2. i - 1 \in 0 .. Len(block) /\ i - 1 + 1 = i
    BY <1>1, <1>3
  <2>3. i - 1 \in Stops
    BY <2>1, <2>2
  <2>4. n <= i - 1
    BY <1>3, <2>3
  <2> QED
    BY <1>1, <2>4
<1>5. \E k \in 0 .. Len(block) :
        /\ \A i \in 1 .. k : block[i] \notin Terminators
        /\ k < Len(block) => block[k + 1] \in Terminators
  BY <1>3, <1>4
<1> QED
  BY <1>5 DEF StrLen

\* What the sender takes of a block (strlen, linefeed) is a sequence of bytes.
LEMMA PayloadType ==
  ASSUME NEW block \in Seq(Byte)
  PROVE  Payload(block) \in Seq(Byte)
<1>1. StrLen(block) \in 0 .. Len(block) /\ Len(block) \in Nat
  BY StrLenIsFirst, LenProperties
<1>2. \A i \in 1 .. StrLen(block) : block[i] \in Byte
  BY <1>1, ElementOfSeq
<1> QED
  BY <1>1, <1>2, SubSeqProperties DEF Payload

\* write_buffer writes the slots from 0 to the first empty one.
THEOREM WrittenIsFirstEmpty ==
  ASSUME NEW slots \in SUBSET (0 .. W)
  PROVE  /\ Written(slots) \in 0 .. W
         /\ 0 .. Written(slots) - 1 \subseteq slots
         /\ Written(slots) = W \/ Written(slots) \notin slots
<1> DEFINE Stops == {n \in 0 .. W : n = W \/ n \notin slots}
<1>1. W \in Stops /\ Stops \subseteq Nat
  BY WindowSizes
<1>2. PICK n \in Stops : \A m \in Stops : n <= m
  BY <1>1, LeastNatural
<1>3. 0 .. n - 1 \subseteq slots
  <2>1. SUFFICES ASSUME NEW i \in 0 .. n - 1, i \notin slots PROVE FALSE
    OBVIOUS
  <2>2. i \in Stops
    BY <1>2, <2>1, WindowSizes
  <2> QED
    BY <1>2, <2>2, WindowSizes
<1>4. \E k \in 0 .. W : /\ 0 .. k - 1 \subseteq slots
                        /\ k = W \/ k \notin slots
  BY <1>2, <1>3
<1> QED
  BY <1>4 DEF Written

\* The 5 bits of the window field.
LEMMA WindowField ==
  ASSUME NEW x \in SeqNum
  PROVE  x % (W + 1) \in 0 .. W
  BY WindowSizes DEF SeqNum
=============================================================================
