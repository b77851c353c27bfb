------------------------------ MODULE MCWindow ------------------------------
(***************************************************************************)
(* The window arithmetic at its real size: every position of the window    *)
(* against every sequence number, with the operators of Window compared to *)
(* modular arithmetic and to the loops of the code run step by step.       *)
(***************************************************************************)
EXTENDS Window

VARIABLES seq, min, max

vars == <<seq, min, max>>

Init == seq = 0 /\ min = 0 /\ max = W

Increment == /\ seq' = SeqnumInc(seq)
             /\ UNCHANGED <<min, max>>

Decale == /\ min' = MinAfter(min, max)
          /\ max' = MaxAfter(min, max)
          /\ UNCHANGED seq

Next == Increment \/ Decale

Spec == Init /\ [][Next]_vars

Distance == (seq - min) % M

\* However far the window has slid (decale_window), its upper bound is W numbers
\* after its lower bound.  The two properties below follow from it.
WindowInv == seq \in SeqNum /\ min \in SeqNum /\ max = DecaleBy(min, W)

\* in_window accepts exactly the numbers at distance 0..W of the lower bound, on
\* both sides of the wrap of the uint8_t; and the slot of ajout_buffer is that distance,
\* so two numbers of a window never share a slot, and the last one gets slot W.
WindowIsDistance == /\ InWindow(seq, min, max) <=> Distance <= W
                    /\ SlotIndex(seq, min) = Distance

\* The loops of the code, one turn after another: the sender's `while(in_window(...) == -1)
\* seqnum_inc`, and n successive calls of decale_window.
SkipLoop[s \in SeqNum] == IF InWindow(s, min, max) THEN s ELSE SkipLoop[SeqnumInc(s)]

DecaleLoop[n \in 0 .. W] ==
  IF n = 0 THEN <<min, max>>
  ELSE LET w == DecaleLoop[n - 1] IN <<MinAfter(w[1], w[2]), MaxAfter(w[1], w[2])>>

\* The closed forms of Window are where the loops stop.
LoopsClosed ==
  /\ SkipToWindow(seq, min, max) = SkipLoop[seq]
  /\ \A n \in {0, 1, W, Distance % (W + 1)} :
       DecaleLoop[n] = <<DecaleBy(min, n), DecaleBy(max, n)>>
=============================================================================
