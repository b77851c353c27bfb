------------------------------ MODULE Timeval -------------------------------
(***************************************************************************)
(* The arithmetic of src/linksim/link_sim.c on struct timeval, in which    *)
(* tv_usec of an expiration date may reach two seconds.                    *)
(***************************************************************************)
EXTENDS Integers

CONSTANTS
  MsPerSecond,   \* 1000
  UsPerMs,       \* 1000
  Cap            \* 10000, the longest delay plus one, in ms

ASSUME TimevalConstants == /\ MsPerSecond \in Nat \ {0}
                           /\ UsPerMs \in Nat \ {0}
                           /\ Cap \in Nat \ {0}

Second == MsPerSecond * UsPerMs

\* What clock_gettime gives
ClockReading == [sec : Nat, usec : 0 .. Second - 1]

\* An expiration date: the sum of a reading and of a delay, field by field
Date == [sec : Nat, usec : 0 .. 2 * Second - 1]

\* The microseconds that a struct timeval stands for
Microseconds(t) == t.sec * Second + t.usec
Reading(us) == [sec |-> us \div Second, usec |-> us % Second]

-----------------------------------------------------------------------------
\* Mutated forms of the definitions below
LaterByUsec(left, right) == left.usec > right.usec
DiffNoBorrow(a, b) ==
  [sec |-> a.sec - b.sec,
   usec |-> IF a.usec < b.usec THEN a.usec - b.usec + Second ELSE a.usec - b.usec]
ExpirationNoSeconds(clock, delay) ==
  [sec |-> clock.sec, usec |-> clock.usec + (delay % MsPerSecond) * UsPerMs]
ExpirationNoModulo(clock, delay) ==
  [sec |-> clock.sec + delay \div MsPerSecond, usec |-> clock.usec + delay * UsPerMs]

\* timeval_cmp: left > right, second against second first
Later(left, right) ==
  IF left.sec = right.sec THEN left.usec > right.usec ELSE left.sec > right.sec

\* timeval_diff: the borrow adds a second to tv_usec only when seconds are left
Diff(a, b) ==
  LET sec == a.sec - b.sec
      usec == a.usec - b.usec
  IN IF usec >= 0 THEN [sec |-> sec, usec |-> usec]
     ELSE [sec |-> sec - 1, usec |-> IF sec - 1 # 0 THEN usec + Second ELSE usec]

\* The expiration date of a datagram: the date is not normalised
Expiration(clock, delay) ==
  [sec |-> clock.sec + delay \div MsPerSecond,
   usec |-> clock.usec + (delay % MsPerSecond) * UsPerMs]

\* get_queue_timeout: until the date, or 1 ms when it seems to be past
Timeout(date, clock) ==
  LET d == Diff(date, clock)
  IN IF d.sec < 0 \/ (d.sec = 0 /\ d.usec <= 0)
     THEN [sec |-> 0, usec |-> UsPerMs]
     ELSE d

\* simulate_link: what the options -d and -j make of a random draw
AppliedDelays(delay, jitter) ==
  {d % Cap : d \in IF jitter = 0 THEN {delay}
                   ELSE IF jitter > delay THEN 0 .. delay + jitter - 1
                   ELSE delay - jitter .. delay + jitter - 1}
=============================================================================
