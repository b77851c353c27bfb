------------------------------- MODULE MCRelay -------------------------------
(***************************************************************************)
(* Command lines for the run of Relay.  The rate of cuts is 50 unless -c   *)
(* is given (link_sim.c:72), in test.sh too.                               *)
(***************************************************************************)
EXTENDS Relay

Forwards == {"forward"}
Reverses == {"reverse"}
BothWays == {"forward", "reverse"}

Line(l, c, e, d, j, direction) ==
  [l |-> l, c |-> c, e |-> e, d |-> d, j |-> j, direction |-> direction]

SomeLines ==
  {Line(0, 50, 0, 0, 0, Forwards),      \* no option
   Line(10, 50, 0, 50, 0, BothWays),    \* -l 10 -d 50 -R, that of test.sh
   Line(0, 0, 0, 50, 20, BothWays),     \* -c 0 -d 50 -j 20 -R
   Line(101, 0, 10, 50, 0, Reverses),   \* -l 101 -c 0 -e 10 -d 50 -r: no loss
   Line(0, -1, 10, 50, 0, Forwards)}    \* -c -1 -e 10 -d 50: cut when long enough
=============================================================================
