----------------------------- MODULE WindowProofs -----------------------------
(***************************************************************************)
(* A window that slides and a number that goes round, for every size of    *)
(* both: the operators of Window are modular arithmetic, and its closed    *)
(* forms are what the loops of the code compute.                           *)
(***************************************************************************)
EXTENDS MCWindow, NaturalsInduction, WellFoundedInduction, TLAPS

\* The distance in the uint8_t is the difference, or M more when it is negative.
LEMMA DistanceBothSides ==
  ASSUME NEW s \in SeqNum, NEW lo \in SeqNum
  PROVE  (s - lo) % M = IF lo <= s THEN s - lo ELSE s - lo + M
<1> DEFINE x == s - lo
<1>1. M \in Nat /\ M > 0 /\ x \in Int /\ x < M /\ x > -M
  BY WindowSizes DEF SeqNum
<1>2. \A k \in Int : (k >= 1 => M * k >= M) /\ (k <= -2 => M * k <= -(2 * M))
  <2>1. \A k \in Int : k >= 1 => M * k >= M
    BY <1>1
  <2>2. \A k \in Int : k <= -2 => M * k <= M * (-2)
    BY <1>1
  <2> QED
    BY <1>1, <2>1, <2>2
<1>3. x \div M \in Int /\ x % M \in 0 .. M - 1 /\ x = M * (x \div M) + (x % M)
  BY <1>1
<1>4. PICK q \in Int : x = M * q + (x % M)
  BY <1>3
<1> HIDE DEF x
<1>5. q = 0 \/ q = -1
  BY <1>1, <1>2, <1>3, <1>4
<1>6. x % M = x \/ x % M = x + M
  BY <1>1, <1>3, <1>4, <1>5
<1>7. x % M = IF x >= 0 THEN x ELSE x + M
  BY <1>1, <1>3, <1>6
<1> QED
  BY <1>7 DEF x, SeqNum

\* A set of natural numbers that is not empty has a least element.
LEMMA LeastNatural ==
  ASSUME NEW S, S \subseteq Nat, S # {}
  PROVE  \E n \in S : \A m \in Nat : m < n => m \notin S
<1> DEFINE R == OpToRel(<, Nat)
<1>1. IsWellFoundedOn(R, Nat)
  BY NatLessThanWellFounded
<1>2. PICK n \in S : \A m \in S : ~(<<m, n>> \in R)
  BY <1>1, WFMin, Zenon
<1> QED
  BY <1>2 DEF OpToRel

-----------------------------------------------------------------------------
\* The upper bound of the window stays W numbers after the lower one, and the number and
\* the bounds stay in the uint8_t: the invariant the others follow from.
THEOREM WindowInvariant == Spec => []WindowInv
<1>1. Init => WindowInv
  BY WindowSizes DEF Init, WindowInv, SeqNum, DecaleBy
<1>2. WindowInv /\ [Next]_vars => WindowInv'
  <2> SUFFICES ASSUME WindowInv, [Next]_vars PROVE WindowInv'
    OBVIOUS
  <2>1. CASE Increment
    BY <2>1, WindowSizes DEF Increment, WindowInv, SeqNum, SeqnumInc
  <2>2. CASE Decale
    BY <2>2, WindowSizes
    DEF Decale, WindowInv, SeqNum, DecaleBy, MinAfter, MaxAfter, U8Add
  <2>3. CASE UNCHANGED vars
    BY <2>3 DEF vars, WindowInv
  <2> QED
    BY <2>1, <2>2, <2>3 DEF Next
<1> QED
  BY <1>1, <1>2, PTL DEF Spec

\* in_window accepts exactly the numbers at distance 0..W of the lower bound, and the slot
\* of ajout_buffer is that distance, wherever the window has slid to: two numbers of a
\* window never share a slot.
THEOREM WindowIsDistanceCorrect == Spec => []WindowIsDistance
<1>1. WindowInv => (InWindow(seq, min, max) <=> Distance <= W)
  BY DistanceBothSides, WindowSizes
  DEF WindowInv, InWindow, Distance, DecaleBy, SeqNum
<1>2. WindowInv => SlotIndex(seq, min) = Distance
  BY DistanceBothSides, WindowSizes
  DEF WindowInv, SlotIndex, Distance, SeqNum
<1>3. WindowInv => WindowIsDistance
  BY <1>1, <1>2 DEF WindowIsDistance
<1> QED
  BY <1>3, WindowInvariant, PTL

-----------------------------------------------------------------------------
\* The loop on in_window stops on the number it starts from, or else on the lower bound:
\* the number goes round and meets the lower bound before any other of the window.
LEMMA SkipLoopStops ==
  ASSUME WindowInv
  PROVE  \A s \in SeqNum : SkipLoop[s] = SkipToWindow(s, min, max)
<1> DEFINE Turn(f) == [s \in SeqNum |-> IF InWindow(s, min, max) THEN s ELSE f[SeqnumInc(s)]]
           closed == [s \in SeqNum |-> SkipToWindow(s, min, max)]
<1>1. /\ \A s \in SeqNum : SeqnumInc(s) \in SeqNum
      /\ min \in SeqNum /\ max = DecaleBy(min, W)
      /\ InWindow(min, min, max)
  BY WindowSizes DEF WindowInv, SeqNum, SeqnumInc, InWindow, DecaleBy
<1>2. \A s \in SeqNum : InWindow(SeqnumInc(s), min, max) /\ ~InWindow(s, min, max)
                          => SeqnumInc(s) = min
  BY <1>1, WindowSizes DEF SeqNum, SeqnumInc, InWindow, DecaleBy
<1>3. closed = Turn(closed)
  BY <1>1, <1>2 DEF SkipToWindow
<1>4. SkipLoop = Turn(SkipLoop)
  <2>1. SkipLoop = CHOOSE f : f = Turn(f)
    BY DEF SkipLoop
  <2> HIDE DEF Turn, closed
  <2> QED
    BY <1>3, <2>1
<1>5. \A s \in SeqNum : SkipLoop[s] = IF InWindow(s, min, max) THEN s
                                                  ELSE SkipLoop[SeqnumInc(s)]
  BY <1>4
<1> HIDE DEF Turn, closed
\* How many turns are left
<1> DEFINE Left(s) == IF s <= min THEN min - s ELSE min - s + M
           Wrong == {s \in SeqNum : SkipLoop[s] # SkipToWindow(s, min, max)}
           Turns == {Left(s) : s \in Wrong}
<1>6. ASSUME Wrong # {} PROVE FALSE
  <2>1. Turns \subseteq Nat /\ Turns # {}
    BY <1>1, <1>6, WindowSizes DEF SeqNum
  <2>2. PICK n \in Turns : \A m \in Nat : m < n => m \notin Turns
    BY <2>1, LeastNatural
  <2>3. PICK s \in Wrong : n = Left(s)
    OBVIOUS
  <2>4. s \in SeqNum /\ ~InWindow(s, min, max)
    BY <1>5, <2>3 DEF SkipToWindow
  <2>5. SkipLoop[s] = SkipLoop[SeqnumInc(s)] /\ SeqnumInc(s) \in SeqNum
    BY <1>1, <1>5, <2>4
  <2>6. Left(SeqnumInc(s)) \in Nat /\ Left(SeqnumInc(s)) < Left(s)
    BY <1>1, <2>4, WindowSizes DEF SeqNum, SeqnumInc, InWindow, DecaleBy
  <2>7. SeqnumInc(s) \notin Wrong
    BY <2>2, <2>3, <2>6
  <2>8. SkipLoop[SeqnumInc(s)] = SkipToWindow(SeqnumInc(s), min, max)
    BY <2>5, <2>7
  <2>9. SkipToWindow(SeqnumInc(s), min, max) = SkipToWindow(s, min, max)
    BY <1>2, <2>4 DEF SkipToWindow
  <2> QED
    BY <2>3, <2>5, <2>8, <2>9
<1> QED
  BY <1>6

\* n successive calls of decale_window add n to each bound, modulo M.
LEMMA DecaleLoopAdds ==
  ASSUME WindowInv
  PROVE  \A n \in 0 .. W : DecaleLoop[n] = <<DecaleBy(min, n), DecaleBy(max, n)>>
<1> DEFINE Closed(n) == <<DecaleBy(min, n), DecaleBy(max, n)>>
           Call(w) == <<MinAfter(w[1], w[2]), MaxAfter(w[1], w[2])>>
           Calls(f) == [n \in 0 .. W |-> IF n = 0 THEN <<min, max>> ELSE Call(f[n - 1])]
           closed == [n \in 0 .. W |-> Closed(n)]
<1>1. Closed(0) = <<min, max>>
  BY WindowSizes DEF WindowInv, SeqNum, DecaleBy
<1>2. \A n \in 1 .. W : Closed(n) = Call(Closed(n - 1))
  BY WindowSizes DEF WindowInv, SeqNum, DecaleBy, MinAfter, MaxAfter, U8Add
<1>3. closed = Calls(closed)
  <2> HIDE DEF Closed, Call
  <2> QED
    BY <1>1, <1>2, WindowSizes
<1>4. DecaleLoop = Calls(DecaleLoop)
  <2>1. DecaleLoop = CHOOSE f : f = Calls(f)
    BY DEF DecaleLoop
  <2> HIDE DEF Calls, closed
  <2> QED
    BY <1>3, <2>1
<1>5. \A n \in 0 .. W : DecaleLoop[n] = IF n = 0 THEN <<min, max>>
                                                 ELSE Call(DecaleLoop[n - 1])
  <2> HIDE DEF Call
  <2> QED
    BY <1>4
<1> HIDE DEF Closed, Call, Calls, closed
<1> DEFINE Wrong == {n \in 0 .. W : DecaleLoop[n] # Closed(n)}
<1>6. ASSUME Wrong # {} PROVE FALSE
  <2>1. PICK n \in Wrong : \A m \in Nat : m < n => m \notin Wrong
    <3>1. Wrong \subseteq Nat
      BY WindowSizes
    <3> HIDE DEF Wrong
    <3> QED
      BY <1>6, <3>1, LeastNatural
  <2>2. n \in 1 .. W
    BY <1>1, <1>5, <2>1, WindowSizes
  <2>3. DecaleLoop[n - 1] = Closed(n - 1)
    BY <2>1, <2>2, WindowSizes
  <2> QED
    BY <1>2, <1>5, <2>1, <2>2, <2>3, WindowSizes
<1> QED
  BY <1>6 DEF Closed

\* The closed forms of Window are where the loops of the code stop.
THEOREM LoopsClosedCorrect == Spec => []LoopsClosed
<1>1. ASSUME WindowInv PROVE LoopsClosed
  <2>1. SkipToWindow(seq, min, max) = SkipLoop[seq]
    BY <1>1, SkipLoopStops DEF WindowInv
  <2>2. {0, 1, W, Distance % (W + 1)} \subseteq 0 .. W
    <3>1. Distance \in Int
      BY <1>1, DistanceBothSides, WindowSizes DEF WindowInv, Distance, SeqNum
    <3>2. Distance % (W + 1) \in 0 .. W
      BY <3>1, WindowSizes
    <3> QED
      BY <3>2, WindowSizes
  <2> QED
    BY <1>1, <2>1, <2>2, DecaleLoopAdds DEF LoopsClosed
<1> QED
  BY <1>1, WindowInvariant, PTL
=============================================================================
