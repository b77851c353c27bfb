-------------------------- MODULE DelayedLinkProofs --------------------------
(***************************************************************************)
(* The delayed datagrams of the link for every clock, every delay and any  *)
(* number of datagrams: the dates are sums whose comparison is off by less *)
(* than a second, the heap is a priority queue of any size, and so the     *)
(* loop keeps the order of different readings, is early by less than a     *)
(* second and does not oversleep.                                          *)
(***************************************************************************)
EXTENDS DelayedLink, FiniteSetTheorems, NaturalsInduction, WellFoundedInduction, TLAPS

-----------------------------------------------------------------------------
\* The dates.

\* A second is a positive number of microseconds
LEMMA SecondType == Second \in Nat /\ Second >= 1
  <1>1. \A m, n \in Nat \ {0} : m * n \in Nat /\ m * n >= 1
    OBVIOUS
  <1> QED
    BY <1>1, TimevalConstants DEF Second

\* Seconds compare as their multiples do
LEMMA SecondsMonotone ==
  ASSUME NEW s \in Nat \ {0}, NEW a \in Int, NEW b \in Int, a > b
  PROVE  a * s >= b * s + s
  <1>1. PICK d \in Nat : a = b + 1 + d
    BY a - b - 1 \in Nat
  <1>2. a * s = b * s + s + d * s
    BY <1>1
  <1>3. d * s >= 0 /\ d * s \in Int /\ b * s \in Int
    OBVIOUS
  <1> QED
    BY <1>2, <1>3

\* timeval_cmp compares two readings of the clock as times.
THEOREM LaterIsOrder ==
  ASSUME NEW a \in ClockReading, NEW b \in ClockReading
  PROVE  Later(a, b) <=> Microseconds(a) > Microseconds(b)
  <1>1. /\ a.sec \in Nat /\ b.sec \in Nat /\ Second \in Nat \ {0}
        /\ a.usec \in 0 .. Second - 1 /\ b.usec \in 0 .. Second - 1
    BY SecondType DEF ClockReading
  <1>2. a.sec * Second \in Int /\ b.sec * Second \in Int
    BY <1>1
  <1>3. CASE a.sec = b.sec
    BY <1>1, <1>2, <1>3 DEF Later, Microseconds
  <1>4. CASE a.sec > b.sec
    <2>1. a.sec * Second >= b.sec * Second + Second
      BY <1>1, <1>4, SecondsMonotone
    <2> QED
      BY <1>1, <1>2, <1>4, <2>1 DEF Later, Microseconds
  <1>5. CASE b.sec > a.sec
    <2>1. b.sec * Second >= a.sec * Second + Second
      BY <1>1, <1>5, SecondsMonotone
    <2> QED
      BY <1>1, <1>2, <1>5, <2>1 DEF Later, Microseconds
  <1> QED
    BY <1>1, <1>3, <1>4, <1>5

\* The same added on both sides
LEMMA BothSides ==
  \A a, b, c \in Int : (a + c = b + c <=> a = b) /\ (a + c > b + c <=> a > b)
  OBVIOUS

\* Whole seconds, and what is left
LEMMA Division ==
  ASSUME NEW m \in Nat \ {0}, NEW a \in Nat
  PROVE  a \div m \in Nat /\ a % m \in 0 .. m - 1 /\ a = (a \div m) * m + (a % m)
  OBVIOUS

\* A date is the reading plus the delay, and its tv_usec is below two seconds.
THEOREM ExpirationIsSum ==
  ASSUME NEW clock \in ClockReading, NEW ms \in Nat
  PROVE  /\ Expiration(clock, ms) \in Date
         /\ Microseconds(Expiration(clock, ms)) = Microseconds(clock) + ms * UsPerMs
  <1> DEFINE q == ms \div MsPerSecond
             r == ms % MsPerSecond
  <1>1. /\ MsPerSecond \in Nat \ {0} /\ UsPerMs \in Nat \ {0}
        /\ Second = MsPerSecond * UsPerMs /\ Second \in Nat \ {0}
    BY TimevalConstants, SecondType DEF Second
  <1>2. /\ q \in Nat /\ r \in 0 .. MsPerSecond - 1
        /\ ms = q * MsPerSecond + r
    BY <1>1, Division
  <1>3. clock.sec \in Nat /\ clock.usec \in 0 .. Second - 1
    BY DEF ClockReading
  <1> HIDE DEF q, r
  <1>4. r * UsPerMs \in 0 .. Second - 1
    <2>1. MsPerSecond * UsPerMs >= r * UsPerMs + UsPerMs
      BY <1>1, <1>2, SecondsMonotone
    <2>2. r * UsPerMs \in Nat
      BY <1>1, <1>2
    <2> QED
      BY <1>1, <2>1, <2>2
  <1>5. Expiration(clock, ms) = [sec |-> clock.sec + q, usec |-> clock.usec + r * UsPerMs]
    BY DEF Expiration, q, r
  <1>6. Expiration(clock, ms) \in Date
    BY <1>1, <1>2, <1>3, <1>4, <1>5 DEF Date
  <1>7. ms * UsPerMs = q * Second + r * UsPerMs
    BY <1>1, <1>2
  <1>8. (clock.sec + q) * Second = clock.sec * Second + q * Second
    BY <1>1, <1>2, <1>3
  <1>9. /\ clock.sec * Second \in Int /\ q * Second \in Int
        /\ Microseconds(Expiration(clock, ms))
             = (clock.sec + q) * Second + (clock.usec + r * UsPerMs)
        /\ Microseconds(clock) = clock.sec * Second + clock.usec
    BY <1>1, <1>2, <1>3, <1>5 DEF Microseconds
  <1> QED
    BY <1>3, <1>4, <1>6, <1>7, <1>8, <1>9

\* Without jitter the dates compare like the readings at which the datagrams arrived,
\* although they are not normalised: the link keeps the order.
THEOREM SameDelayKeepsOrder ==
  ASSUME NEW a \in ClockReading, NEW b \in ClockReading, NEW ms \in Nat
  PROVE  Later(Expiration(a, ms), Expiration(b, ms)) <=> Later(a, b)
  <1> DEFINE q == ms \div MsPerSecond
             u == (ms % MsPerSecond) * UsPerMs
  <1>1. /\ a.sec \in Int /\ b.sec \in Int /\ a.usec \in Int /\ b.usec \in Int
        /\ q \in Int /\ u \in Int
    BY TimevalConstants, SecondType DEF ClockReading
  <1>2. /\ Expiration(a, ms).sec = a.sec + q /\ Expiration(a, ms).usec = a.usec + u
        /\ Expiration(b, ms).sec = b.sec + q /\ Expiration(b, ms).usec = b.usec + u
    BY DEF Expiration
  <1> HIDE DEF q, u
  <1>3. /\ a.sec + q = b.sec + q <=> a.sec = b.sec
        /\ a.sec + q > b.sec + q <=> a.sec > b.sec
        /\ a.usec + u > b.usec + u <=> a.usec > b.usec
    BY <1>1, BothSides
  <1> QED
    BY <1>2, <1>3 DEF Later

\* A datagram that deliver_delayed_pkt takes for expired is early by less than a second,
\* and only when its date goes into the next second.
THEOREM EarlyByLess ==
  ASSUME NEW clock \in ClockReading, NEW date \in Date, Later(clock, date)
  PROVE  /\ Microseconds(clock) > Microseconds(date) - Second
         /\ date.usec < Second => Microseconds(clock) > Microseconds(date)
  <1>1. /\ clock.sec \in Nat /\ date.sec \in Nat /\ Second \in Nat \ {0}
        /\ clock.usec \in 0 .. Second - 1 /\ date.usec \in 0 .. 2 * Second - 1
    BY SecondType DEF ClockReading, Date
  <1>2. clock.sec * Second \in Int /\ date.sec * Second \in Int
    BY <1>1
  <1>3. CASE clock.sec = date.sec
    BY <1>1, <1>2, <1>3 DEF Later, Microseconds
  <1>4. CASE clock.sec > date.sec
    <2>1. clock.sec * Second >= date.sec * Second + Second
      BY <1>1, <1>4, SecondsMonotone
    <2> QED
      BY <1>1, <1>2, <2>1 DEF Microseconds
  <1> QED
    BY <1>1, <1>3, <1>4 DEF Later

\* select never waits past the first date: what get_queue_timeout gives is the time left
\* or 1 ms, although timeval_diff forgets a second when its borrow leaves none.
THEOREM TimeoutIsLeft ==
  ASSUME NEW clock \in ClockReading, NEW date \in Date
  PROVE  LET wait == Microseconds(Timeout(date, clock))
         IN wait = UsPerMs \/ wait = Microseconds(date) - Microseconds(clock)
  <1> DEFINE sec == date.sec - clock.sec
             usec == date.usec - clock.usec
             d == Diff(date, clock)
  <1>1. /\ date.sec \in Nat /\ clock.sec \in Nat /\ Second \in Nat \ {0}
        /\ UsPerMs \in Nat /\ date.usec \in Int /\ clock.usec \in Int
    BY SecondType, TimevalConstants DEF ClockReading, Date
  <1>2. CASE d.sec < 0 \/ (d.sec = 0 /\ d.usec <= 0)
    <2>1. Timeout(date, clock) = [sec |-> 0, usec |-> UsPerMs]
      BY <1>2 DEF Timeout
    <2> QED
      BY <1>1, <2>1 DEF Microseconds
  <1>3. CASE ~(d.sec < 0 \/ (d.sec = 0 /\ d.usec <= 0))
    <2>1. Timeout(date, clock) = d
      BY <1>3 DEF Timeout
    <2>2. CASE usec >= 0
      <3>1. d = [sec |-> sec, usec |-> usec]
        BY <2>2 DEF Diff
      <3>2. sec * Second = date.sec * Second - clock.sec * Second
        BY <1>1
      <3>3. date.sec * Second \in Int /\ clock.sec * Second \in Int
        BY <1>1
      <3> QED
        BY <1>1, <2>1, <3>1, <3>2, <3>3 DEF Microseconds
    <2>3. CASE ~(usec >= 0)
      <3>1. d = [sec |-> sec - 1, usec |-> IF sec - 1 # 0 THEN usec + Second ELSE usec]
        BY <2>3 DEF Diff
      <3>2. sec - 1 # 0
        BY <1>1, <1>3, <2>3, <3>1
      <3>3. d.sec = sec - 1 /\ d.usec = usec + Second
        BY <3>1, <3>2
      <3>4. (sec - 1) * Second = date.sec * Second - clock.sec * Second - Second
        BY <1>1
      <3>5. date.sec * Second \in Int /\ clock.sec * Second \in Int
        BY <1>1
      <3> QED
        BY <1>1, <2>1, <3>3, <3>4, <3>5 DEF Microseconds
    <2> QED
      BY <2>2, <2>3
  <1> QED
    BY <1>2, <1>3

\* Of two dates, one that is not later is later by less than a second.
LEMMA NotLaterByMuch ==
  ASSUME NEW a \in Date, NEW b \in Date, ~Later(a, b)
  PROVE  Microseconds(a) < Microseconds(b) + Second
  <1>1. /\ a.sec \in Nat /\ b.sec \in Nat /\ Second \in Nat \ {0}
        /\ a.usec \in 0 .. 2 * Second - 1 /\ b.usec \in 0 .. 2 * Second - 1
    BY SecondType DEF Date
  <1>2. a.sec * Second \in Int /\ b.sec * Second \in Int
    BY <1>1
  <1>3. CASE a.sec = b.sec
    BY <1>1, <1>2, <1>3 DEF Later, Microseconds
  <1>4. CASE a.sec # b.sec
    <2>1. b.sec > a.sec
      BY <1>1, <1>4 DEF Later
    <2>2. b.sec * Second >= a.sec * Second + Second
      BY <1>1, <2>1, SecondsMonotone
    <2> QED
      BY <1>1, <1>2, <2>2 DEF Microseconds
  <1> QED
    BY <1>3, <1>4

\* update_time reads a time of which the microseconds are below a second.
LEMMA ReadingType ==
  ASSUME NEW us \in Nat
  PROVE  Reading(us) \in ClockReading
  <1>1. Second \in Nat \ {0}
    BY SecondType
  <1>2. us \div Second \in Nat /\ us % Second \in 0 .. Second - 1
    BY <1>1
  <1> QED
    BY <1>2 DEF Reading, ClockReading

\* A reading of the clock and a date are natural numbers of microseconds.
LEMMA MicrosecondsType ==
  /\ \A t \in ClockReading : Microseconds(t) \in Nat
  /\ \A t \in Date : Microseconds(t) \in Nat
  <1>1. Second \in Nat \ {0}
    BY SecondType
  <1>2. \A s \in Nat : s * Second \in Nat
    BY <1>1
  <1> QED
    BY <1>1, <1>2 DEF ClockReading, Date, Microseconds

-----------------------------------------------------------------------------
\* The loops of the heap.

\* A set of naturals has a least member: how a loop is followed to its end.
LEMMA Least ==
  ASSUME NEW S, S \subseteq Nat, S # {}
  PROVE  \E n \in S : \A m \in S : n <= m
<1> DEFINE R == OpToRel(<, Nat)
<1>1. IsWellFoundedOn(R, Nat)
  BY NatLessThanWellFounded
<1>2. PICK n \in S : \A m \in S : ~(<<m, n>> \in R)
  BY <1>1, WFMin, Zenon
<1>3. ASSUME NEW m \in S PROVE n <= m
  <2>1. ~(m < n)
    BY <1>2 DEF OpToRel
  <2> QED
    BY <2>1
<1> QED
  BY <1>2, <1>3

\* The parent of a slot is before it, and later slots have later parents.
LEMMA Parents ==
  /\ \A i \in Nat \ {0} : i \div 2 \in Nat /\ i \div 2 < i
  /\ \A i, j \in Nat : i <= j => i \div 2 <= j \div 2
OBVIOUS

\* What minq_push does at slot i, when f is what it does at the slots before.
Risen(f, grown, v, i) ==
  IF i # 0 /\ SlotGreater(grown[i \div 2], v)
  THEN [f[i \div 2] EXCEPT ![i] = grown[i \div 2]]
  ELSE [grown EXCEPT ![i] = v]

\* The loop of minq_push comes to an end.
LEMMA RiseEnds ==
  ASSUME NEW grown, NEW v, NEW n \in Nat
  PROVE  \E f : f = [i \in 0 .. n |-> Risen(f, grown, v, i)]
<1> DEFINE Ends(m) == \E f : f = [i \in 0 .. m |-> Risen(f, grown, v, i)]
           Bad == {m \in Nat : ~Ends(m)}
<1> HIDE DEF Ends
<1>1. SUFFICES ASSUME Bad # {} PROVE FALSE
  BY DEF Ends
<1>2. PICK m \in Bad : \A k \in Bad : m <= k
  BY <1>1, Least
<1>3. m \in Nat /\ ~Ends(m)
  OBVIOUS
<1>4. CASE m = 0
  <2> DEFINE g == [i \in 0 .. 0 |-> [grown EXCEPT ![0] = v]]
  <2>1. \A i \in 0 .. 0 : Risen(g, grown, v, i) = g[i]
    BY DEF Risen
  <2>2. g = [i \in 0 .. 0 |-> Risen(g, grown, v, i)]
    BY <2>1
  <2> QED
    BY <1>3, <1>4, <2>2 DEF Ends
<1>5. CASE m # 0
  <2>1. m - 1 \in Nat /\ ~(m <= m - 1)
    BY <1>3, <1>5
  <2>2. PICK f : f = [i \in 0 .. m - 1 |-> Risen(f, grown, v, i)]
    BY <1>2, <2>1 DEF Ends
  <2> DEFINE g == [i \in 0 .. m |-> IF i < m THEN f[i] ELSE Risen(f, grown, v, i)]
  <2>3. ASSUME NEW i \in 0 .. m
        PROVE  g[i] = Risen(g, grown, v, i)
    <3>1. g[i] = Risen(f, grown, v, i)
      <4>1. CASE i < m
        <5>1. i \in 0 .. m - 1
          BY <1>3, <4>1
        <5>2. f[i] = Risen(f, grown, v, i)
          BY <2>2, <5>1
        <5> QED
          BY <4>1, <5>2
      <4>2. CASE ~(i < m)
        BY <4>2
      <4> QED
        BY <4>1, <4>2
    <3>2. i # 0 => i \div 2 \in 0 .. m /\ i \div 2 < m
      BY <1>3, Parents
    <3>3. i # 0 => g[i \div 2] = f[i \div 2]
      BY <3>2
    <3> HIDE DEF g
    <3>4. Risen(g, grown, v, i) = Risen(f, grown, v, i)
      BY <3>3 DEF Risen
    <3> QED
      BY <3>1, <3>4
  <2>4. g = [i \in 0 .. m |-> g[i]]
    OBVIOUS
  <2> HIDE DEF g
  <2>5. g = [i \in 0 .. m |-> Risen(g, grown, v, i)]
    BY <2>3, <2>4
  <2> QED
    BY <1>3, <2>5 DEF Ends
<1> QED
  BY <1>4, <1>5

\* What the loop of minq_push leaves.
LEMMA Rises ==
  ASSUME NEW grown, NEW v, NEW n \in Nat
  PROVE  \E f : /\ \A i \in 0 .. n : f[i] = Risen(f, grown, v, i)
                /\ Q!HeapifyUp(grown, n, v) = f[n]
<1> DEFINE Rise == CHOOSE f : f = [i \in 0 .. n |-> Risen(f, grown, v, i)]
<1>1. Rise = [i \in 0 .. n |-> Risen(Rise, grown, v, i)]
  BY RiseEnds
<1>2. Q!HeapifyUp(grown, n, v) = Rise[n]
  BY DEF Q!HeapifyUp, Q!Parent, Risen
<1> HIDE DEF Rise
<1>3. \A i \in 0 .. n : Rise[i] = Risen(Rise, grown, v, i)
  BY <1>1
<1> QED
  BY <1>2, <1>3

-----------------------------------------------------------------------------
\* Entries compare as their dates do, which is a total preorder.
LEMMA SlotOrder ==
  /\ \A a \in Slots : ~SlotGreater(a, a)
  /\ \A a, b \in Slots : SlotGreater(a, b) => ~SlotGreater(b, a)
  /\ \A a, b, c \in Slots : ~SlotGreater(a, b) /\ ~SlotGreater(b, c) => ~SlotGreater(a, c)
<1>1. \A a \in Slots : a.ts.sec \in Int /\ a.ts.usec \in Int
  BY DEF Slots, Date
<1> QED
  BY <1>1 DEF SlotGreater, Later

\* Slot i and the slots before it when the loop of minq_push has passed slot i: the
\* heap is in order, and nothing there has become greater.
RisenWell(R, grown, v, n, i) ==
  /\ R \in [0 .. n -> Slots]
  /\ \A k \in 0 .. n : k > i => R[k] = grown[k]
  /\ \A k \in 1 .. n : k <= i => ~SlotGreater(R[k \div 2], R[k])
  /\ \A k \in 0 .. n : k < i => ~SlotGreater(R[k], grown[k])
  /\ R[i] = v \/ (i # 0 /\ R[i] = grown[i \div 2])

\* ... and they hold v and what the slots before i held.
RisenSame(R, grown, v, n, i) ==
  /\ \A k \in 0 .. n : k <= i => R[k] = v \/ \E l \in 0 .. n : l < i /\ R[k] = grown[l]
  /\ \E k \in 0 .. n : k <= i /\ R[k] = v
  /\ \A l \in 0 .. n : l < i => \E k \in 0 .. n : k <= i /\ R[k] = grown[l]
  /\ \A k, l \in 0 .. n : k < l /\ l <= i => R[k] # R[l]

\* A queue with a free slot at its end, whose heap is in order and whose entries differ.
Grown(grown, v, n) ==
  /\ n \in Nat /\ v \in Slots /\ grown \in [0 .. n -> Slots]
  /\ \A k \in 1 .. n : k < n => ~SlotGreater(grown[k \div 2], grown[k])
  /\ \A k, l \in 0 .. n : k < l /\ l < n => grown[k] # grown[l]
  /\ \A k \in 0 .. n : k < n => grown[k] # v

\* v stays at slot i.
LEMMA RiseStops ==
  ASSUME NEW grown, NEW v, NEW n, Grown(grown, v, n), NEW i \in 0 .. n,
         i # 0 => ~SlotGreater(grown[i \div 2], v)
  PROVE  /\ RisenWell([grown EXCEPT ![i] = v], grown, v, n, i)
         /\ RisenSame([grown EXCEPT ![i] = v], grown, v, n, i)
<1> DEFINE R == [grown EXCEPT ![i] = v]
<1>1. /\ n \in Nat /\ v \in Slots /\ grown \in [0 .. n -> Slots]
      /\ \A k \in 1 .. n : k < n => ~SlotGreater(grown[k \div 2], grown[k])
      /\ \A k, l \in 0 .. n : k < l /\ l < n => grown[k] # grown[l]
      /\ \A k \in 0 .. n : k < n => grown[k] # v
  BY DEF Grown
<1>2. R \in [0 .. n -> Slots] /\ R[i] = v /\ \A k \in 0 .. n : k # i => R[k] = grown[k]
  BY <1>1
<1> HIDE DEF R
<1>3. RisenWell(R, grown, v, n, i)
  <2>1. ASSUME NEW k \in 1 .. n, k <= i
        PROVE  ~SlotGreater(R[k \div 2], R[k])
    <3>1. k \div 2 \in 0 .. n /\ k \div 2 < k /\ k \in 0 .. n
      BY <1>1, Parents
    <3>2. R[k \div 2] = grown[k \div 2]
      BY <1>2, <2>1, <3>1
    <3>3. CASE k = i
      BY <1>2, <3>2, <3>3
    <3>4. CASE k # i
      <4>1. k < n /\ R[k] = grown[k]
        BY <1>1, <1>2, <2>1, <3>1, <3>4
      <4> QED
        BY <1>1, <3>2, <4>1
    <3> QED
      BY <3>3, <3>4
  <2>2. ASSUME NEW k \in 0 .. n, k < i
        PROVE  ~SlotGreater(R[k], grown[k])
    <3>1. R[k] = grown[k] /\ grown[k] \in Slots
      BY <1>1, <1>2, <2>2
    <3> QED
      BY <3>1, SlotOrder
  <2>3. \A k \in 0 .. n : k > i => R[k] = grown[k]
    BY <1>1, <1>2
  <2> QED
    BY <1>2, <2>1, <2>2, <2>3 DEF RisenWell
<1>4. RisenSame(R, grown, v, n, i)
  <2>1. i \in Nat /\ i <= n
    BY <1>1
  <2>2. \A k \in 0 .. n : k <= i => R[k] = v \/ \E l \in 0 .. n : l < i /\ R[k] = grown[l]
    BY <1>2, <2>1
  <2>3. \A l \in 0 .. n : l < i => \E k \in 0 .. n : k <= i /\ R[k] = grown[l]
    BY <1>2, <2>1
  <2>4. ASSUME NEW k \in 0 .. n, NEW l \in 0 .. n, k < l, l <= i
        PROVE  R[k] # R[l]
    <3>1. k < n /\ k # i /\ R[k] = grown[k]
      BY <1>1, <1>2, <2>1, <2>4
    <3>2. CASE l = i
      BY <1>1, <1>2, <3>1, <3>2
    <3>3. CASE l # i
      <4>1. l < n /\ R[l] = grown[l]
        BY <1>1, <1>2, <2>1, <2>4, <3>3
      <4> QED
        BY <1>1, <2>4, <3>1, <4>1
    <3> QED
      BY <3>2, <3>3
  <2>5. \E k \in 0 .. n : k <= i /\ R[k] = v
    BY <1>2, <2>1
  <2> QED
    BY <2>2, <2>3, <2>4, <2>5 DEF RisenSame
<1> QED
  BY <1>3, <1>4 DEF R

\* The parent of slot i moves down to it.
LEMMA RiseGoesOn ==
  ASSUME NEW grown, NEW v, NEW n, Grown(grown, v, n), NEW i \in 1 .. n, NEW P,
         SlotGreater(grown[i \div 2], v),
         RisenWell(P, grown, v, n, i \div 2), RisenSame(P, grown, v, n, i \div 2)
  PROVE  /\ RisenWell([P EXCEPT ![i] = grown[i \div 2]], grown, v, n, i)
         /\ RisenSame([P EXCEPT ![i] = grown[i \div 2]], grown, v, n, i)
<1> DEFINE p == i \div 2
           R == [P EXCEPT ![i] = grown[p]]
<1>1. /\ n \in Nat /\ v \in Slots /\ grown \in [0 .. n -> Slots]
      /\ \A k \in 1 .. n : k < n => ~SlotGreater(grown[k \div 2], grown[k])
      /\ \A k, l \in 0 .. n : k < l /\ l < n => grown[k] # grown[l]
      /\ \A k \in 0 .. n : k < n => grown[k] # v
  BY DEF Grown
<1>2. p \in 0 .. n /\ p < i /\ i \in 0 .. n /\ i <= n /\ i \in Nat /\ p < n
  BY <1>1, Parents
<1>3. /\ P \in [0 .. n -> Slots]
      /\ \A k \in 0 .. n : k > p => P[k] = grown[k]
      /\ \A k \in 1 .. n : k <= p => ~SlotGreater(P[k \div 2], P[k])
      /\ \A k \in 0 .. n : k < p => ~SlotGreater(P[k], grown[k])
      /\ P[p] = v \/ (p # 0 /\ P[p] = grown[p \div 2])
  BY DEF RisenWell
<1>4. /\ \A k \in 0 .. n : k <= p => P[k] = v \/ \E l \in 0 .. n : l < p /\ P[k] = grown[l]
      /\ \E k \in 0 .. n : k <= p /\ P[k] = v
      /\ \A l \in 0 .. n : l < p => \E k \in 0 .. n : k <= p /\ P[k] = grown[l]
      /\ \A k, l \in 0 .. n : k < l /\ l <= p => P[k] # P[l]
  BY DEF RisenSame
<1>5. /\ R \in [0 .. n -> Slots] /\ R[i] = grown[p]
      /\ \A k \in 0 .. n : k # i => R[k] = P[k]
  BY <1>1, <1>2, <1>3
<1>6. SlotGreater(grown[p], v)
  OBVIOUS
<1> HIDE DEF R
\* What has come to slot p is not greater than what it held.
<1>7. ~SlotGreater(P[p], grown[p]) /\ P[p] \in Slots /\ grown[p] \in Slots
  <2>1. P[p] \in Slots /\ grown[p] \in Slots
    BY <1>1, <1>2, <1>3
  <2>2. CASE P[p] = v
    BY <1>1, <1>6, <2>1, <2>2, SlotOrder
  <2>3. CASE p # 0 /\ P[p] = grown[p \div 2]
    <3>1. p \in 1 .. n /\ p < n
      BY <1>2, <2>3
    <3> QED
      BY <1>1, <2>1, <2>3, <3>1
  <2> QED
    BY <1>3, <2>1, <2>2, <2>3
<1>8. ASSUME NEW k \in 0 .. n, k < i
      PROVE  ~SlotGreater(R[k], grown[k]) /\ R[k] = P[k]
  <2>1. R[k] = P[k]
    BY <1>2, <1>5, <1>8
  <2>2. CASE k < p
    BY <1>3, <2>1, <2>2
  <2>3. CASE k = p
    BY <1>7, <2>1, <2>3
  <2>4. CASE k > p
    <3>1. R[k] = grown[k] /\ grown[k] \in Slots
      BY <1>1, <1>3, <2>1, <2>4
    <3> QED
      BY <2>1, <3>1, SlotOrder
  <2> QED
    BY <1>2, <2>2, <2>3, <2>4
<1>9. ASSUME NEW k \in 1 .. n, k <= i
      PROVE  ~SlotGreater(R[k \div 2], R[k])
  <2>1. /\ k \in 0 .. n /\ k \div 2 \in 0 .. n /\ k \div 2 < i /\ k \div 2 <= p
        /\ k \div 2 < k
    BY <1>1, <1>2, <1>9, Parents
  <2>2. /\ R[k \div 2] \in Slots /\ grown[k \div 2] \in Slots /\ R[k \div 2] = P[k \div 2]
        /\ ~SlotGreater(R[k \div 2], grown[k \div 2])
    BY <1>1, <1>5, <1>8, <2>1
  <2>3. CASE k = i
    BY <1>5, <2>2, <2>3
  <2>4. CASE k <= p
    <3>1. R[k] = P[k]
      BY <1>2, <1>5, <2>1, <2>4
    <3> QED
      BY <1>3, <2>2, <2>4, <3>1
  <2>5. CASE p < k /\ k < i
    <3>1. R[k] = grown[k] /\ k < n /\ grown[k] \in Slots
      BY <1>1, <1>2, <1>3, <1>5, <2>1, <2>5
    <3>2. ~SlotGreater(grown[k \div 2], grown[k])
      BY <1>1, <3>1
    <3> QED
      BY <2>2, <3>1, <3>2, SlotOrder
  <2> QED
    BY <1>2, <1>9, <2>3, <2>4, <2>5
<1>10. RisenWell(R, grown, v, n, i)
  <2>1. \A k \in 0 .. n : k > i => R[k] = grown[k]
    BY <1>2, <1>3, <1>5
  <2>2. i # 0
    OBVIOUS
  <2> QED
    BY <1>5, <1>8, <1>9, <2>1, <2>2 DEF RisenWell
<1>11. RisenSame(R, grown, v, n, i)
  <2>1. ASSUME NEW k \in 0 .. n, k <= i
        PROVE  R[k] = v \/ \E l \in 0 .. n : l < i /\ R[k] = grown[l]
    <3>1. CASE k = i
      BY <1>2, <1>5, <3>1
    <3>2. CASE k <= p
      <4>1. R[k] = P[k]
        BY <1>2, <1>5, <3>2
      <4>2. R[k] = v \/ \E l \in 0 .. n : l < p /\ R[k] = grown[l]
        BY <1>4, <3>2, <4>1
      <4>3. \A l \in 0 .. n : l < p => l < i
        BY <1>2
      <4> QED
        BY <4>2, <4>3
    <3>3. CASE p < k /\ k < i
      BY <1>2, <1>3, <1>5, <3>3
    <3> QED
      BY <1>2, <2>1, <3>1, <3>2, <3>3
  <2>2. \E k \in 0 .. n : k <= i /\ R[k] = v
    <3>1. PICK k \in 0 .. n : k <= p /\ P[k] = v
      BY <1>4
    <3>2. k <= i /\ R[k] = v
      BY <1>2, <1>5, <3>1
    <3> QED
      BY <3>2
  <2>3. ASSUME NEW l \in 0 .. n, l < i
        PROVE  \E k \in 0 .. n : k <= i /\ R[k] = grown[l]
    <3>1. CASE l < p
      <4>1. PICK k \in 0 .. n : k <= p /\ P[k] = grown[l]
        BY <1>4, <3>1
      <4>2. k <= i /\ R[k] = grown[l]
        BY <1>2, <1>5, <4>1
      <4> QED
        BY <4>2
    <3>2. CASE l = p
      BY <1>2, <1>5, <3>2
    <3>3. CASE p < l
      <4>1. R[l] = grown[l] /\ l <= i
        BY <1>2, <1>3, <1>5, <2>3, <3>3
      <4> QED
        BY <4>1
    <3> QED
      BY <1>2, <3>1, <3>2, <3>3
  <2>4. ASSUME NEW k \in 0 .. n, NEW l \in 0 .. n, k < l, l <= i
        PROVE  R[k] # R[l]
    \* What is at slot k comes from a slot other than p and from no slot after k.
    <3>1. k < i /\ R[k] = P[k] /\ k < n
      BY <1>1, <1>2, <1>5, <2>4
    <3>2. CASE k <= p /\ l <= p
      BY <1>2, <1>4, <1>5, <2>4, <3>1, <3>2
    <3>3. CASE k <= p /\ p < l
      <4>1. R[k] = v \/ \E j \in 0 .. n : j < p /\ R[k] = grown[j]
        BY <1>4, <3>1, <3>3
      <4>2. PICK m \in 0 .. n : p <= m /\ m < n /\ R[l] = grown[m]
        <5>1. CASE l = i
          BY <1>2, <1>5, <5>1
        <5>2. CASE l # i
          <6>1. l < n /\ p <= l /\ p < l
            BY <1>1, <1>2, <2>4, <3>3, <5>2
          <6>2. R[l] = grown[l]
            BY <1>3, <1>5, <5>2, <6>1
          <6> QED
            BY <6>1, <6>2
        <5> QED
          BY <5>1, <5>2
      <4>3. \A j \in 0 .. n : j < p => j < m
        BY <1>2, <4>2
      <4> QED
        BY <1>1, <4>1, <4>2, <4>3
    <3>4. CASE p < k
      <4>1. R[k] = grown[k]
        BY <1>3, <3>1, <3>4
      <4>2. CASE l = i
        BY <1>1, <1>2, <1>5, <3>1, <3>4, <4>1, <4>2
      <4>3. CASE l # i
        <5>1. l < n /\ l > p
          BY <1>1, <1>2, <2>4, <3>4, <4>3
        <5>2. R[l] = grown[l]
          BY <1>3, <1>5, <4>3, <5>1
        <5> QED
          BY <1>1, <2>4, <4>1, <5>1, <5>2
      <4> QED
        BY <4>2, <4>3
    <3> QED
      BY <1>2, <3>2, <3>3, <3>4
  <2> QED
    BY <2>1, <2>2, <2>3, <2>4 DEF RisenSame
<1> QED
  BY <1>10, <1>11 DEF R

\* The loop of minq_push, from any slot.
LEMMA RiseWell ==
  ASSUME NEW grown, NEW v, NEW n, Grown(grown, v, n),
         NEW f, \A i \in 0 .. n : f[i] = Risen(f, grown, v, i)
  PROVE  RisenWell(f[n], grown, v, n, n) /\ RisenSame(f[n], grown, v, n, n)
<1> DEFINE Well(i) == RisenWell(f[i], grown, v, n, i) /\ RisenSame(f[i], grown, v, n, i)
           Bad == {i \in 0 .. n : ~Well(i)}
<1>1. n \in Nat /\ Bad \subseteq Nat
  BY DEF Grown
<1> HIDE DEF Well
<1>2. SUFFICES ASSUME Bad # {} PROVE FALSE
  BY <1>1 DEF Well
<1>3. PICK i \in Bad : \A k \in Bad : i <= k
  <2> HIDE DEF Bad
  <2> QED
    BY <1>1, <1>2, Least
<1>4. i \in 0 .. n /\ ~Well(i)
  OBVIOUS
<1>5. f[i] = Risen(f, grown, v, i)
  BY <1>4
<1>6. CASE i = 0 \/ ~SlotGreater(grown[i \div 2], v)
  <2>1. f[i] = [grown EXCEPT ![i] = v]
    BY <1>5, <1>6 DEF Risen
  <2> QED
    BY <1>4, <1>6, <2>1, RiseStops DEF Well
<1>7. CASE i # 0 /\ SlotGreater(grown[i \div 2], v)
  <2>1. i \in 1 .. n /\ i \div 2 \in 0 .. n /\ ~(i <= i \div 2)
    BY <1>1, <1>4, <1>7, Parents
  <2>2. Well(i \div 2)
    BY <1>3, <2>1
  <2>3. f[i] = [f[i \div 2] EXCEPT ![i] = grown[i \div 2]]
    BY <1>5, <1>7 DEF Risen
  <2>4. Well(i)
    BY <1>7, <2>1, <2>2, <2>3, RiseGoesOn DEF Well
  <2> QED
    BY <1>4, <2>4
<1> QED
  BY <1>6, <1>7

-----------------------------------------------------------------------------
\* The root and the slots that follow: what has_child finds at slot i is a later slot of
\* which i is the parent, the smaller when there are two.
LEMMA Children ==
  ASSUME NEW q, NEW L \in Nat, q \in [0 .. L - 1 -> Slots], Q!Size(q) = L, NEW i \in 0 .. L
  PROVE  LET c == Q!HasChild(q, i)
         IN /\ c # 0 => c \in 1 .. L - 1 /\ i < c /\ c \div 2 = i
            /\ c # 0 => \A k \in 1 .. L - 1 : k \div 2 = i => ~SlotGreater(q[c], q[k])
            /\ c = 0 => \A k \in 1 .. L - 1 :
                 k \div 2 = i => i = 0 /\ k = 1 /\ ~SlotGreater(q[0], q[1])
<1> DEFINE c == Q!HasChild(q, i)
<1>1. i \in Nat /\ 2 * i \in Nat
  OBVIOUS
<1>2. ASSUME NEW k \in 1 .. L - 1, k \div 2 = i
      PROVE  (k = 2 * i \/ k = 2 * i + 1) /\ (i = 0 => k = 1) /\ k < L
  BY <1>2
<1>3. CASE 2 * i >= L
  <2>1. c = 0
    BY <1>3 DEF Q!HasChild
  <2> QED
    BY <1>2, <1>3, <2>1
<1>4. CASE ~(2 * i >= L) /\ 2 * i + 1 < L /\ SlotGreater(q[2 * i], q[2 * i + 1])
  <2>1. c = 2 * i + 1
    BY <1>4 DEF Q!HasChild
  <2>2. c \in 1 .. L - 1 /\ i < c /\ c \div 2 = i
    BY <1>1, <1>4, <2>1
  <2>3. q[2 * i] \in Slots /\ q[2 * i + 1] \in Slots
    BY <1>1, <1>4
  <2>4. ~SlotGreater(q[2 * i + 1], q[2 * i]) /\ ~SlotGreater(q[2 * i + 1], q[2 * i + 1])
    BY <1>4, <2>3, SlotOrder
  <2> QED
    BY <1>2, <2>1, <2>2, <2>4
<1>5. CASE ~(2 * i >= L) /\ ~(2 * i + 1 < L /\ SlotGreater(q[2 * i], q[2 * i + 1]))
  <2>1. c = 2 * i
    BY <1>5 DEF Q!HasChild
  <2>2. c # 0 => c \in 1 .. L - 1 /\ i < c /\ c \div 2 = i
    BY <1>1, <1>5, <2>1
  <2>3. q[2 * i] \in Slots
    BY <1>1, <1>5
  <2>4. ~SlotGreater(q[2 * i], q[2 * i])
    BY <2>3, SlotOrder
  <2>5. ASSUME NEW k \in 1 .. L - 1, k \div 2 = i
        PROVE  ~SlotGreater(q[c], q[k])
    BY <1>2, <1>5, <2>1, <2>4, <2>5
  <2>6. c = 0 => i = 0
    BY <2>1
  <2> QED
    BY <1>2, <2>1, <2>2, <2>5, <2>6
<1> QED
  BY <1>3, <1>4, <1>5

\* What minq_pop does at slot i, when f is what it does at the slots after.
Sunk(f, q, v, i) ==
  LET child == Q!HasChild(q, i)
  IN IF child # 0 /\ SlotGreater(v, q[child])
     THEN [f[child] EXCEPT ![i] = q[child]]
     ELSE [k \in DOMAIN q |-> IF k = i THEN v ELSE q[k]]

\* The loop of minq_pop comes to an end.
LEMMA SinkEnds ==
  ASSUME NEW q, NEW v, NEW L \in Nat, q \in [0 .. L - 1 -> Slots], Q!Size(q) = L
  PROVE  \E f : f = [i \in 0 .. L |-> Sunk(f, q, v, i)]
<1> DEFINE Ends(m) == \E f : f = [i \in L - m .. L |-> Sunk(f, q, v, i)]
           Bad == {m \in 0 .. L : ~Ends(m)}
<1> HIDE DEF Ends
<1>1. ASSUME Bad = {} PROVE \E f : f = [i \in 0 .. L |-> Sunk(f, q, v, i)]
  <2>1. Ends(L) /\ L - L = 0
    BY <1>1
  <2> QED
    BY <2>1 DEF Ends
<1>2. SUFFICES ASSUME Bad # {} PROVE FALSE
  BY <1>1
<1>3. PICK m \in Bad : \A k \in Bad : m <= k
  <2>1. Bad \subseteq Nat
    OBVIOUS
  <2> HIDE DEF Bad
  <2> QED
    BY <1>2, <2>1, Least
<1>4. m \in 0 .. L /\ ~Ends(m)
  OBVIOUS
<1> DEFINE low == L - m
<1>5. low \in 0 .. L
  BY <1>4
<1>6. \E f : f = [i \in low + 1 .. L |-> Sunk(f, q, v, i)]
  <2>1. CASE m = 0
    <3>1. low + 1 .. L = {}
      BY <2>1
    <3>2. [i \in {} |-> 0] = [i \in low + 1 .. L |-> Sunk([j \in {} |-> 0], q, v, i)]
      BY <3>1
    <3> QED
      BY <3>2
  <2>2. CASE m # 0
    <3>1. m - 1 \in 0 .. L /\ ~(m <= m - 1) /\ L - (m - 1) = low + 1
      BY <1>4, <2>2
    <3>2. Ends(m - 1)
      BY <1>3, <3>1
    <3> QED
      BY <3>1, <3>2 DEF Ends
  <2> QED
    BY <2>1, <2>2
<1>7. PICK f : f = [i \in low + 1 .. L |-> Sunk(f, q, v, i)]
  BY <1>6
<1> HIDE DEF low
<1> DEFINE g == [i \in low .. L |-> IF i > low THEN f[i] ELSE Sunk(f, q, v, i)]
<1>8. ASSUME NEW i \in low .. L
      PROVE  g[i] = Sunk(g, q, v, i)
  <2>1. i \in 0 .. L
    BY <1>5
  <2>2. g[i] = Sunk(f, q, v, i)
    <3>1. CASE i > low
      <4>1. i \in low + 1 .. L
        BY <1>5, <3>1
      <4>2. f[i] = Sunk(f, q, v, i)
        BY <1>7, <4>1
      <4> QED
        BY <3>1, <4>2
    <3>2. CASE ~(i > low)
      BY <3>2
    <3> QED
      BY <3>1, <3>2
  <2> DEFINE c == Q!HasChild(q, i)
  <2>3. c # 0 => c \in low .. L /\ c > low
    <3>1. c # 0 => c \in 1 .. L - 1 /\ i < c
      BY <2>1, Children
    <3> QED
      BY <1>5, <3>1
  <2>4. c # 0 => g[c] = f[c]
    BY <2>3
  <2> HIDE DEF g
  <2>5. Sunk(g, q, v, i) = Sunk(f, q, v, i)
    BY <2>4 DEF Sunk
  <2> QED
    BY <2>2, <2>5
<1>9. g = [i \in low .. L |-> g[i]]
  OBVIOUS
<1> HIDE DEF g
<1>10. g = [i \in low .. L |-> Sunk(g, q, v, i)]
  BY <1>8, <1>9
<1> QED
  BY <1>4, <1>10 DEF Ends, low

\* What the loop of minq_pop leaves.
LEMMA Sinks ==
  ASSUME NEW q, NEW v, NEW L \in Nat, q \in [0 .. L - 1 -> Slots], Q!Size(q) = L
  PROVE  \E f : /\ \A i \in 0 .. L : f[i] = Sunk(f, q, v, i)
                /\ Q!HeapifyDown(q, v) = f[0]
<1> DEFINE Sink == CHOOSE f : f = [i \in 0 .. L |-> Sunk(f, q, v, i)]
<1>1. Sink = [i \in 0 .. L |-> Sunk(Sink, q, v, i)]
  BY SinkEnds
<1>2. Q!HeapifyDown(q, v) = Sink[0]
  BY DEF Q!HeapifyDown, Sunk
<1> HIDE DEF Sink
<1>3. \A i \in 0 .. L : Sink[i] = Sunk(Sink, q, v, i)
  BY <1>1
<1> QED
  BY <1>2, <1>3

\* Slot i and the slots after it when the loop of minq_pop has passed slot i: the heap
\* is in order below i, and nothing after i has become smaller.
SunkWell(R, q, v, L, i) ==
  /\ R \in [0 .. L - 1 -> Slots]
  /\ \A k \in 0 .. L - 1 : k < i => R[k] = q[k]
  /\ \A k \in 1 .. L - 1 : i <= k \div 2 => ~SlotGreater(R[k \div 2], R[k])
  /\ \A k \in 0 .. L - 1 : i < k => ~SlotGreater(q[k], R[k])
  /\ R[i] = v \/ \E c \in 1 .. L - 1 : c \div 2 = i /\ i < c /\ R[i] = q[c]

\* ... and they hold v and what the slots after i held.
SunkSame(R, q, v, L, i) ==
  /\ \A k \in 0 .. L - 1 : i <= k => R[k] = v \/ \E l \in 0 .. L - 1 : i < l /\ R[k] = q[l]
  /\ \E k \in 0 .. L - 1 : i <= k /\ R[k] = v
  /\ \A l \in 0 .. L - 1 : i < l => \E k \in 0 .. L - 1 : i <= k /\ R[k] = q[l]
  /\ \A k, l \in 0 .. L - 1 : i <= k /\ k < l => R[k] # R[l]

\* A queue whose heap is in order but for v at its root, and whose entries differ.
Rootless(q, v, L) ==
  /\ L \in Nat /\ v \in Slots /\ q \in [0 .. L - 1 -> Slots] /\ Q!Size(q) = L
  /\ L > 0 => q[0] = v
  /\ \A k \in 2 .. L - 1 : ~SlotGreater(q[k \div 2], q[k])
  /\ \A k, l \in 0 .. L - 1 : k < l => q[k] # q[l]

\* v stays at slot i.
LEMMA SinkStops ==
  ASSUME NEW q, NEW v, NEW L, Rootless(q, v, L), NEW i \in 0 .. L - 1,
         \/ Q!HasChild(q, i) = 0
         \/ ~SlotGreater(v, q[Q!HasChild(q, i)])
  PROVE  LET R == [k \in DOMAIN q |-> IF k = i THEN v ELSE q[k]]
         IN SunkWell(R, q, v, L, i) /\ SunkSame(R, q, v, L, i)
<1> DEFINE R == [k \in DOMAIN q |-> IF k = i THEN v ELSE q[k]]
           c == Q!HasChild(q, i)
<1>1. /\ L \in Nat /\ v \in Slots /\ q \in [0 .. L - 1 -> Slots] /\ Q!Size(q) = L
      /\ q[0] = v
      /\ \A k \in 2 .. L - 1 : ~SlotGreater(q[k \div 2], q[k])
      /\ \A k, l \in 0 .. L - 1 : k < l => q[k] # q[l]
  BY DEF Rootless
<1>2. R \in [0 .. L - 1 -> Slots] /\ R[i] = v /\ \A k \in 0 .. L - 1 : k # i => R[k] = q[k]
  BY <1>1
<1>3. i \in 0 .. L /\ i \in Nat /\ i < L
  BY <1>1
<1> HIDE DEF R
<1>4. ASSUME NEW k \in 1 .. L - 1, i <= k \div 2
      PROVE  ~SlotGreater(R[k \div 2], R[k])
  <2>1. k \in 0 .. L - 1 /\ k \div 2 \in 0 .. L - 1 /\ k \div 2 < k /\ k # i
    BY <1>1, <1>3, <1>4, Parents
  <2>2. R[k] = q[k] /\ q[k] \in Slots
    BY <1>1, <1>2, <2>1
  <2>3. CASE k \div 2 = i
    <3>1. CASE c = 0
      <4>1. \A j \in 1 .. L - 1 :
              j \div 2 = i => i = 0 /\ j = 1 /\ ~SlotGreater(q[0], q[1])
        BY <1>1, <1>3, <3>1, Children
      <4> QED
        BY <1>2, <2>2, <2>3, <1>1, <4>1
    <3>2. CASE c # 0
      <4>1. ~SlotGreater(q[c], q[k]) /\ c \in 1 .. L - 1
        BY <1>1, <1>3, <2>3, <3>2, Children
      <4>2. q[c] \in Slots /\ ~SlotGreater(v, q[c])
        BY <1>1, <3>2, <4>1
      <4>3. ~SlotGreater(v, q[k])
        BY <1>1, <2>2, <4>1, <4>2, SlotOrder
      <4> QED
        BY <1>2, <2>2, <2>3, <4>3
    <3> QED
      BY <3>1, <3>2
  <2>4. CASE k \div 2 # i
    <3>1. k \in 2 .. L - 1
      BY <1>1, <1>3, <1>4, <2>4
    <3> QED
      BY <1>1, <1>2, <2>1, <2>2, <2>4, <3>1
  <2> QED
    BY <2>3, <2>4
<1>5. ASSUME NEW k \in 0 .. L - 1, i < k
      PROVE  ~SlotGreater(q[k], R[k])
  <2>1. R[k] = q[k] /\ q[k] \in Slots
    BY <1>1, <1>2, <1>3, <1>5
  <2> QED
    BY <2>1, SlotOrder
<1>6. SunkWell(R, q, v, L, i)
  <2>1. \A k \in 0 .. L - 1 : k < i => R[k] = q[k]
    BY <1>2, <1>3
  <2> QED
    BY <1>2, <1>4, <1>5, <2>1 DEF SunkWell
<1>7. SunkSame(R, q, v, L, i)
  <2>1. \A k \in 0 .. L - 1 : i <= k => R[k] = v \/ \E l \in 0 .. L - 1 : i < l /\ R[k] = q[l]
    BY <1>1, <1>2, <1>3
  <2>2. \E k \in 0 .. L - 1 : i <= k /\ R[k] = v
    BY <1>2, <1>3
  <2>3. \A l \in 0 .. L - 1 : i < l => \E k \in 0 .. L - 1 : i <= k /\ R[k] = q[l]
    BY <1>1, <1>2, <1>3
  <2>4. ASSUME NEW k \in 0 .. L - 1, NEW l \in 0 .. L - 1, i <= k, k < l
        PROVE  R[k] # R[l]
    <3>1. R[l] = q[l] /\ 0 < l
      BY <1>1, <1>2, <1>3, <2>4
    <3>2. CASE k = i
      <4>1. 0 \in 0 .. L - 1 /\ q[0] # q[l]
        BY <1>1, <3>1
      <4> QED
        BY <1>1, <1>2, <3>1, <3>2, <4>1
    <3>3. CASE k # i
      BY <1>1, <1>2, <2>4, <3>1, <3>3
    <3> QED
      BY <3>2, <3>3
  <2> QED
    BY <2>1, <2>2, <2>3, <2>4 DEF SunkSame
<1> QED
  BY <1>6, <1>7 DEF R

\* The smaller child of slot i moves up to it.
LEMMA SinkGoesOn ==
  ASSUME NEW q, NEW v, NEW L, Rootless(q, v, L), NEW i \in 0 .. L - 1, NEW P,
         NEW c, c = Q!HasChild(q, i), c # 0, SlotGreater(v, q[c]),
         SunkWell(P, q, v, L, c), SunkSame(P, q, v, L, c)
  PROVE  LET R == [P EXCEPT ![i] = q[c]]
         IN SunkWell(R, q, v, L, i) /\ SunkSame(R, q, v, L, i)
<1> DEFINE R == [P EXCEPT ![i] = q[c]]
<1>1. /\ L \in Nat /\ v \in Slots /\ q \in [0 .. L - 1 -> Slots] /\ Q!Size(q) = L
      /\ \A k \in 2 .. L - 1 : ~SlotGreater(q[k \div 2], q[k])
      /\ \A k, l \in 0 .. L - 1 : k < l => q[k] # q[l]
  BY DEF Rootless
<1>2. i \in 0 .. L /\ i \in Nat /\ i < L
  BY <1>1
<1>3. /\ c \in 1 .. L - 1 /\ c \in 0 .. L - 1 /\ i < c /\ c \div 2 = i /\ c \in Nat
      /\ \A k \in 1 .. L - 1 : k \div 2 = i => ~SlotGreater(q[c], q[k])
  <2>1. /\ c \in 1 .. L - 1 /\ i < c /\ c \div 2 = i
        /\ \A k \in 1 .. L - 1 : k \div 2 = i => ~SlotGreater(q[c], q[k])
    BY <1>1, <1>2, Children
  <2> QED
    BY <1>1, <2>1
<1>4. /\ P \in [0 .. L - 1 -> Slots]
      /\ \A k \in 0 .. L - 1 : k < c => P[k] = q[k]
      /\ \A k \in 1 .. L - 1 : c <= k \div 2 => ~SlotGreater(P[k \div 2], P[k])
      /\ \A k \in 0 .. L - 1 : c < k => ~SlotGreater(q[k], P[k])
      /\ P[c] = v \/ \E d \in 1 .. L - 1 : d \div 2 = c /\ c < d /\ P[c] = q[d]
  BY DEF SunkWell
<1>5. /\ \A k \in 0 .. L - 1 : c <= k => P[k] = v \/ \E l \in 0 .. L - 1 : c < l /\ P[k] = q[l]
      /\ \E k \in 0 .. L - 1 : c <= k /\ P[k] = v
      /\ \A l \in 0 .. L - 1 : c < l => \E k \in 0 .. L - 1 : c <= k /\ P[k] = q[l]
      /\ \A k, l \in 0 .. L - 1 : c <= k /\ k < l => P[k] # P[l]
  BY DEF SunkSame
<1>6. /\ R \in [0 .. L - 1 -> Slots] /\ R[i] = q[c]
      /\ \A k \in 0 .. L - 1 : k # i => R[k] = P[k]
  BY <1>1, <1>3, <1>4
<1>7. SlotGreater(v, q[c])
  OBVIOUS
<1> HIDE DEF R
\* What has come to slot c is not smaller than what it held.
<1>8. ~SlotGreater(q[c], P[c]) /\ P[c] \in Slots /\ q[c] \in Slots
  <2>1. P[c] \in Slots /\ q[c] \in Slots
    BY <1>1, <1>3, <1>4
  <2>2. CASE P[c] = v
    BY <1>1, <1>7, <2>1, <2>2, SlotOrder
  <2>3. CASE P[c] # v
    <3>1. PICK d \in 1 .. L - 1 : d \div 2 = c /\ c < d /\ P[c] = q[d]
      BY <1>4, <2>3
    <3>2. d \in 2 .. L - 1
      BY <1>1, <1>3, <3>1
    <3> QED
      BY <1>1, <2>1, <3>1, <3>2
  <2> QED
    BY <2>2, <2>3
<1>9. ASSUME NEW k \in 0 .. L - 1, i < k
      PROVE  ~SlotGreater(q[k], R[k]) /\ R[k] = P[k]
  <2>1. R[k] = P[k] /\ q[k] \in Slots
    BY <1>1, <1>2, <1>6, <1>9
  <2>2. CASE c < k
    BY <1>4, <2>1, <2>2
  <2>3. CASE k = c
    BY <1>8, <2>1, <2>3
  <2>4. CASE k < c
    <3>1. R[k] = q[k]
      BY <1>4, <2>1, <2>4
    <3> QED
      BY <2>1, <3>1, SlotOrder
  <2> QED
    BY <1>1, <1>3, <2>2, <2>3, <2>4
<1>10. ASSUME NEW k \in 1 .. L - 1, i <= k \div 2
       PROVE  ~SlotGreater(R[k \div 2], R[k])
  <2>1. k \in 0 .. L - 1 /\ k \div 2 \in 0 .. L - 1 /\ k \div 2 < k /\ i < k
    BY <1>1, <1>2, <1>10, Parents
  <2>2. /\ R[k] \in Slots /\ q[k] \in Slots /\ R[k] = P[k] /\ ~SlotGreater(q[k], R[k])
        /\ q[k \div 2] \in Slots
    BY <1>1, <1>6, <1>9, <2>1
  <2>3. CASE k \div 2 = i
    <3>1. ~SlotGreater(q[c], q[k])
      BY <1>3, <2>3
    <3>2. ~SlotGreater(q[c], R[k])
      BY <1>8, <2>2, <3>1, SlotOrder
    <3> QED
      BY <1>6, <2>3, <3>2
  <2>4. CASE c <= k \div 2
    <3>1. R[k \div 2] = P[k \div 2]
      BY <1>2, <1>3, <1>6, <2>1, <2>4
    <3> QED
      BY <1>4, <2>2, <2>4, <3>1
  <2>5. CASE i < k \div 2 /\ k \div 2 < c
    <3>1. R[k \div 2] = q[k \div 2]
      BY <1>2, <1>4, <1>6, <2>1, <2>5
    <3>2. k \in 2 .. L - 1
      BY <1>1, <1>2, <2>1, <2>5
    <3>3. ~SlotGreater(q[k \div 2], q[k])
      BY <1>1, <3>2
    <3>4. ~SlotGreater(q[k \div 2], R[k])
      BY <2>2, <3>3, SlotOrder
    <3> QED
      BY <3>1, <3>4
  <2> QED
    BY <1>2, <1>3, <1>10, <2>1, <2>3, <2>4, <2>5
<1>11. SunkWell(R, q, v, L, i)
  <2>1. \A k \in 0 .. L - 1 : k < i => R[k] = q[k]
    BY <1>2, <1>3, <1>4, <1>6
  <2> QED
    BY <1>3, <1>6, <1>9, <1>10, <2>1 DEF SunkWell
<1>12. SunkSame(R, q, v, L, i)
  <2>1. ASSUME NEW k \in 0 .. L - 1, i <= k
        PROVE  R[k] = v \/ \E l \in 0 .. L - 1 : i < l /\ R[k] = q[l]
    <3>1. CASE k = i
      BY <1>3, <1>6, <3>1
    <3>2. CASE c <= k
      <4>1. R[k] = P[k]
        BY <1>2, <1>3, <1>6, <3>2
      <4>2. R[k] = v \/ \E l \in 0 .. L - 1 : c < l /\ R[k] = q[l]
        BY <1>5, <3>2, <4>1
      <4>3. \A l \in 0 .. L - 1 : c < l => i < l
        BY <1>1, <1>2, <1>3
      <4> QED
        BY <4>2, <4>3
    <3>3. CASE i < k /\ k < c
      BY <1>4, <1>9, <3>3
    <3> QED
      BY <1>1, <1>2, <1>3, <2>1, <3>1, <3>2, <3>3
  <2>2. \E k \in 0 .. L - 1 : i <= k /\ R[k] = v
    <3>1. PICK k \in 0 .. L - 1 : c <= k /\ P[k] = v
      BY <1>5
    <3>2. i <= k /\ R[k] = v
      BY <1>1, <1>2, <1>3, <1>6, <3>1
    <3> QED
      BY <3>2
  <2>3. ASSUME NEW l \in 0 .. L - 1, i < l
        PROVE  \E k \in 0 .. L - 1 : i <= k /\ R[k] = q[l]
    <3>1. CASE c < l
      <4>1. PICK k \in 0 .. L - 1 : c <= k /\ P[k] = q[l]
        BY <1>5, <3>1
      <4>2. i <= k /\ R[k] = q[l]
        BY <1>1, <1>2, <1>3, <1>6, <4>1
      <4> QED
        BY <4>2
    <3>2. CASE l = c
      BY <1>2, <1>6, <3>2
    <3>3. CASE l < c
      <4>1. R[l] = q[l] /\ i <= l
        BY <1>1, <1>2, <1>4, <1>9, <2>3, <3>3
      <4> QED
        BY <4>1
    <3> QED
      BY <1>1, <1>3, <3>1, <3>2, <3>3
  <2>4. ASSUME NEW k \in 0 .. L - 1, NEW l \in 0 .. L - 1, i <= k, k < l
        PROVE  R[k] # R[l]
    <3>1. i < l /\ R[l] = P[l]
      BY <1>1, <1>2, <1>9, <2>4
    <3>2. CASE c <= k
      <4>1. R[k] = P[k]
        BY <1>2, <1>3, <1>6, <3>2
      <4> QED
        BY <1>5, <2>4, <3>1, <3>2, <4>1
    \* What is at slot k comes from slot c or before.
    <3>3. CASE k < c
      <4>1. PICK m \in 0 .. L - 1 : /\ m <= c /\ 0 < m /\ R[k] = q[m]
                                    /\ m = k \/ (k = i /\ m = c)
        <5>1. CASE k = i
          BY <1>3, <1>6, <5>1
        <5>2. CASE k # i
          <6>1. i < k /\ k <= c
            BY <1>1, <1>2, <1>3, <2>4, <3>3, <5>2
          <6>2. R[k] = q[k] /\ 0 < k
            BY <1>2, <1>4, <1>9, <3>3, <6>1
          <6> QED
            BY <6>1, <6>2
        <5> QED
          BY <5>1, <5>2
      <4>2. CASE l < c
        <5>1. R[l] = q[l] /\ m # l
          BY <1>1, <1>3, <1>4, <2>4, <3>1, <4>1, <4>2
        <5>2. m < l \/ l < m
          BY <1>1, <5>1
        <5>3. q[m] # q[l]
          BY <1>1, <5>2
        <5>4. R[k] = q[m] /\ R[l] = q[l]
          BY <4>1, <5>1
        <5> QED
          BY <5>3, <5>4
      <4>3. CASE c <= l
        <5>1. P[l] = v \/ \E j \in 0 .. L - 1 : c < j /\ P[l] = q[j]
          BY <1>5, <4>3
        <5>2. q[m] # v
          <6>1. 0 \in 0 .. L - 1 /\ q[0] = v
            BY <1>1, <4>1 DEF Rootless
          <6> QED
            BY <1>1, <4>1, <6>1
        <5>3. \A j \in 0 .. L - 1 : c < j => m < j
          BY <1>1, <1>3, <4>1
        <5>4. \A j \in 0 .. L - 1 : c < j => q[m] # q[j]
          BY <1>1, <5>3
        <5>5. q[m] # P[l]
          BY <5>1, <5>2, <5>4
        <5>6. R[k] = q[m] /\ R[l] = P[l]
          BY <3>1, <4>1
        <5> QED
          BY <5>5, <5>6
      <4> QED
        BY <1>1, <1>3, <4>2, <4>3
    <3> QED
      BY <1>1, <1>3, <3>2, <3>3
  <2> QED
    BY <2>1, <2>2, <2>3, <2>4 DEF SunkSame
<1> QED
  BY <1>11, <1>12 DEF R

\* The loop of minq_pop, to any slot.
LEMMA SinkWell ==
  ASSUME NEW q, NEW v, NEW L, Rootless(q, v, L), L > 0,
         NEW f, \A i \in 0 .. L : f[i] = Sunk(f, q, v, i)
  PROVE  SunkWell(f[0], q, v, L, 0) /\ SunkSame(f[0], q, v, L, 0)
<1> DEFINE Well(i) == SunkWell(f[i], q, v, L, i) /\ SunkSame(f[i], q, v, L, i)
           Bad == {m \in 1 .. L : ~Well(L - m)}
<1>1. L \in Nat /\ q \in [0 .. L - 1 -> Slots] /\ Q!Size(q) = L
  BY DEF Rootless
<1> HIDE DEF Well
<1>2. ASSUME Bad = {} PROVE Well(0)
  <2>1. L \in 1 .. L /\ L - L = 0
    BY <1>1
  <2> QED
    BY <1>2, <2>1
<1>3. SUFFICES ASSUME Bad # {} PROVE FALSE
  BY <1>2 DEF Well
<1>4. PICK m \in Bad : \A k \in Bad : m <= k
  <2>1. Bad \subseteq Nat
    BY <1>1
  <2> HIDE DEF Bad
  <2> QED
    BY <1>3, <2>1, Least
<1> DEFINE i == L - m
           c == Q!HasChild(q, i)
<1>5. m \in 1 .. L /\ ~Well(i)
  OBVIOUS
<1>6. i \in 0 .. L - 1 /\ i \in 0 .. L
  BY <1>1, <1>5
<1>7. f[i] = Sunk(f, q, v, i)
  BY <1>6
<1>8. CASE c # 0 /\ SlotGreater(v, q[c])
  <2>1. c \in 1 .. L - 1 /\ i < c
    BY <1>1, <1>6, <1>8, Children
  <2>2. L - c \in 1 .. L /\ ~(m <= L - c) /\ L - (L - c) = c
    BY <1>1, <1>5, <2>1
  <2>3. Well(c)
    BY <1>4, <2>2
  <2>4. f[i] = [f[c] EXCEPT ![i] = q[c]]
    BY <1>7, <1>8 DEF Sunk
  <2> HIDE DEF i
  <2>5. Well(i)
    BY <1>6, <1>8, <2>3, <2>4, SinkGoesOn DEF Well
  <2> QED
    BY <1>5, <2>5
<1>9. CASE ~(c # 0 /\ SlotGreater(v, q[c]))
  <2>1. f[i] = [k \in DOMAIN q |-> IF k = i THEN v ELSE q[k]]
    BY <1>7, <1>9 DEF Sunk
  <2> HIDE DEF i
  <2>2. Well(i)
    BY <1>6, <1>9, <2>1, SinkStops DEF Well
  <2> QED
    BY <1>5, <2>2
<1> QED
  BY <1>8, <1>9

-----------------------------------------------------------------------------
\* The queue as it is between two calls: n slots, in order, whose entries differ.
Heap(q, n) ==
  /\ n \in Nat /\ q \in [0 .. n - 1 -> Slots]
  /\ \A k \in 1 .. n - 1 : ~SlotGreater(q[k \div 2], q[k])
  /\ \A k, l \in 0 .. n - 1 : k < l => q[k] # q[l]

\* minq_size counts the slots.
LEMMA SizeIs ==
  ASSUME NEW n \in Nat, NEW q \in [0 .. n - 1 -> Slots]
  PROVE  Q!Size(q) = n
<1>1. Cardinality(0 .. n - 1) = n
  <2>1. 0 \in Int /\ n - 1 \in Int /\ (IF 0 > n - 1 THEN 0 ELSE n - 1 - 0 + 1) = n
    OBVIOUS
  <2> QED
    BY <2>1, FS_Interval
<1>2. DOMAIN q = 0 .. n - 1
  OBVIOUS
<1>3. Q!Size(q) = Cardinality(DOMAIN q)
  BY DEF Q!Size, Q!Cardinality, Cardinality
<1> QED
  BY <1>1, <1>2, <1>3

\* minq_push adds an entry and keeps the heap in order, for a queue of any size.
THEOREM PushAdds ==
  ASSUME NEW q, NEW n, Heap(q, n), NEW v \in Slots, v \notin Q!Entries(q)
  PROVE  Heap(Q!Push(q, v), n + 1) /\ Q!Entries(Q!Push(q, v)) = Q!Entries(q) \cup {v}
<1> DEFINE grown == [i \in 0 .. n |-> IF i \in DOMAIN q THEN q[i] ELSE v]
<1>1. /\ n \in Nat /\ q \in [0 .. n - 1 -> Slots] /\ DOMAIN q = 0 .. n - 1
      /\ \A k \in 1 .. n - 1 : ~SlotGreater(q[k \div 2], q[k])
      /\ \A k, l \in 0 .. n - 1 : k < l => q[k] # q[l]
  BY DEF Heap
<1>2. Q!Push(q, v) = Q!HeapifyUp(grown, n, v)
  BY <1>1, SizeIs DEF Q!Push
<1>3. /\ grown \in [0 .. n -> Slots]
      /\ \A k \in 0 .. n - 1 : grown[k] = q[k]
  BY <1>1
<1>4. \A k \in 0 .. n - 1 : q[k] # v
  BY <1>1 DEF Q!Entries
<1> HIDE DEF grown
<1>5. Grown(grown, v, n)
  <2>1. ASSUME NEW k \in 1 .. n, k < n
        PROVE  ~SlotGreater(grown[k \div 2], grown[k])
    <3>1. k \in 1 .. n - 1 /\ k \in 0 .. n - 1 /\ k \div 2 \in 0 .. n - 1
      BY <1>1, <2>1, Parents
    <3> QED
      BY <1>1, <1>3, <3>1
  <2>2. \A k, l \in 0 .. n : k < l /\ l < n => grown[k] # grown[l]
    BY <1>1, <1>3
  <2>3. \A k \in 0 .. n : k < n => grown[k] # v
    BY <1>1, <1>3, <1>4
  <2> QED
    BY <1>1, <1>3, <2>1, <2>2, <2>3 DEF Grown
<1>6. PICK f : /\ \A i \in 0 .. n : f[i] = Risen(f, grown, v, i)
               /\ Q!HeapifyUp(grown, n, v) = f[n]
  BY <1>1, Rises
<1> DEFINE R == Q!Push(q, v)
<1>7. RisenWell(R, grown, v, n, n) /\ RisenSame(R, grown, v, n, n)
  BY <1>2, <1>5, <1>6, RiseWell
<1> HIDE DEF R
<1>8. n + 1 \in Nat /\ n + 1 - 1 = n /\ \A k \in 0 .. n : k <= n /\ (k < n <=> k \in 0 .. n - 1)
  BY <1>1
<1>9. R \in [0 .. n -> Slots] /\ \A k \in 1 .. n : ~SlotGreater(R[k \div 2], R[k])
  BY <1>1, <1>7 DEF RisenWell
<1>10. Heap(R, n + 1)
  <2>1. \A k, l \in 0 .. n : k < l => R[k] # R[l]
    BY <1>7, <1>8 DEF RisenSame
  <2> QED
    BY <1>8, <1>9, <2>1 DEF Heap
<1>11. Q!Entries(R) = Q!Entries(q) \cup {v}
  <2>1. DOMAIN R = 0 .. n
    BY <1>9
  <2>2. \A k \in 0 .. n : R[k] = v \/ \E l \in 0 .. n - 1 : R[k] = q[l]
    BY <1>3, <1>7, <1>8 DEF RisenSame
  <2>3. \E k \in 0 .. n : R[k] = v
    BY <1>7 DEF RisenSame
  <2>4. ASSUME NEW l \in 0 .. n - 1 PROVE \E k \in 0 .. n : R[k] = q[l]
    <3>1. l \in 0 .. n /\ l < n /\ grown[l] = q[l]
      BY <1>1, <1>3
    <3> QED
      BY <1>7, <3>1 DEF RisenSame
  <2> QED
    BY <1>1, <2>1, <2>2, <2>3, <2>4 DEF Q!Entries
<1> QED
  BY <1>10, <1>11 DEF R

\* minq_pop removes the entry at the root and keeps the heap in order.
THEOREM PopRemoves ==
  ASSUME NEW q, NEW n, Heap(q, n), n > 0
  PROVE  Heap(Q!Pop(q), n - 1) /\ Q!Entries(Q!Pop(q)) = Q!Entries(q) \ {q[0]}
<1> DEFINE L == n - 1
           v == q[L]
           moved == [i \in 0 .. L - 1 |-> IF i = 0 THEN v ELSE q[i]]
<1>1. /\ n \in Nat /\ q \in [0 .. n - 1 -> Slots] /\ DOMAIN q = 0 .. L
      /\ \A k \in 1 .. n - 1 : ~SlotGreater(q[k \div 2], q[k])
      /\ \A k, l \in 0 .. n - 1 : k < l => q[k] # q[l]
  BY DEF Heap
<1>2. L \in Nat /\ L \in 0 .. n - 1 /\ v \in Slots
  BY <1>1
<1>3. Q!Pop(q) = Q!HeapifyDown(moved, v)
  BY <1>1, SizeIs DEF Q!Pop
<1>4. /\ moved \in [0 .. L - 1 -> Slots]
      /\ L > 0 => moved[0] = v
      /\ \A k \in 1 .. L - 1 : moved[k] = q[k]
  BY <1>1, <1>2
<1> HIDE DEF moved
<1>5. Q!Size(moved) = L
  BY <1>2, <1>4, SizeIs
<1>6. Rootless(moved, v, L)
  <2>1. ASSUME NEW k \in 2 .. L - 1
        PROVE  ~SlotGreater(moved[k \div 2], moved[k])
    <3>1. k \div 2 \in 1 .. L - 1 /\ k \in 1 .. n - 1 /\ k \in 1 .. L - 1
      BY <1>1, <1>2
    <3> QED
      BY <1>1, <1>4, <3>1
  <2>2. ASSUME NEW k \in 0 .. L - 1, NEW l \in 0 .. L - 1, k < l
        PROVE  moved[k] # moved[l]
    <3>1. l \in 1 .. L - 1 /\ l < L /\ L > 0 /\ l \in 0 .. n - 1 /\ k \in 0 .. n - 1
      BY <1>1, <1>2, <2>2
    <3>2. CASE k = 0
      BY <1>1, <1>2, <1>4, <3>1, <3>2
    <3>3. CASE k # 0
      <4>1. moved[k] = q[k] /\ moved[l] = q[l]
        BY <1>2, <1>4, <3>1, <3>3
      <4> QED
        BY <1>1, <2>2, <3>1, <4>1
    <3> QED
      BY <3>2, <3>3
  <2> QED
    BY <1>2, <1>4, <1>5, <2>1, <2>2 DEF Rootless
<1>7. PICK f : /\ \A i \in 0 .. L : f[i] = Sunk(f, moved, v, i)
               /\ Q!HeapifyDown(moved, v) = f[0]
  BY <1>2, <1>4, <1>5, Sinks
<1> DEFINE R == Q!Pop(q)
<1>8. R = f[0]
  BY <1>3, <1>7
<1> HIDE DEF R
<1>9. CASE L = 0
  <2>1. f[0] = Sunk(f, moved, v, 0)
    BY <1>2, <1>7
  <2>2. Q!HasChild(moved, 0) = 0
    BY <1>5, <1>9 DEF Q!HasChild
  <2>3. DOMAIN moved = {}
    BY <1>4, <1>9
  <2>4. R = [k \in {} |-> IF k = 0 THEN v ELSE moved[k]]
    BY <1>8, <2>1, <2>2, <2>3 DEF Sunk
  <2>5. R \in [0 .. L - 1 -> Slots] /\ DOMAIN R = {}
    BY <1>9, <2>4
  <2>6. Heap(R, L)
    BY <1>9, <2>5 DEF Heap
  <2>7. Q!Entries(R) = {} /\ Q!Entries(q) = {q[0]}
    BY <1>1, <1>9, <2>5 DEF Q!Entries
  <2> QED
    BY <2>6, <2>7 DEF R
<1>10. CASE L # 0
  <2>1. L > 0 /\ 0 \in 0 .. L - 1
    BY <1>1, <1>2, <1>10
  <2>2. SunkWell(R, moved, v, L, 0) /\ SunkSame(R, moved, v, L, 0)
    BY <1>6, <1>7, <1>8, <2>1, SinkWell
  <2>3. R \in [0 .. L - 1 -> Slots] /\ DOMAIN R = 0 .. L - 1
        /\ \A k \in 1 .. L - 1 : 0 <= k \div 2 => ~SlotGreater(R[k \div 2], R[k])
    BY <2>2 DEF SunkWell
  <2>4. Heap(R, L)
    <3>1. \A k \in 1 .. L - 1 : 0 <= k \div 2
      BY <1>2, Parents
    <3>2. \A k, l \in 0 .. L - 1 : k < l => R[k] # R[l]
      BY <1>2, <2>2 DEF SunkSame
    <3> QED
      BY <1>2, <2>3, <3>1, <3>2 DEF Heap
  <2>5. Q!Entries(R) = Q!Entries(q) \ {q[0]}
    <3>1. \A k \in 0 .. L - 1 : R[k] = v \/ \E l \in 1 .. L - 1 : R[k] = q[l]
      <4>1. \A k \in 0 .. L - 1 : R[k] = v \/ \E l \in 0 .. L - 1 : 0 < l /\ R[k] = moved[l]
        BY <1>2, <2>2 DEF SunkSame
      <4>2. \A l \in 0 .. L - 1 : 0 < l => l \in 1 .. L - 1 /\ moved[l] = q[l]
        BY <1>2, <1>4
      <4> QED
        BY <4>1, <4>2
    <3>2. \E k \in 0 .. L - 1 : R[k] = v
      BY <2>2 DEF SunkSame
    <3>3. \A l \in 1 .. L - 1 : \E k \in 0 .. L - 1 : R[k] = q[l]
      <4>1. \A l \in 1 .. L - 1 : l \in 0 .. L - 1 /\ 0 < l /\ moved[l] = q[l]
        BY <1>2, <1>4
      <4>2. \A l \in 0 .. L - 1 : 0 < l => \E k \in 0 .. L - 1 : R[k] = moved[l]
        BY <2>2 DEF SunkSame
      <4> QED
        BY <4>1, <4>2
    <3>4. \A l \in 1 .. L : q[l] # q[0]
      BY <1>1, <1>2
    <3>5. \A l \in 0 .. L : l = 0 \/ l = L \/ l \in 1 .. L - 1
      BY <1>2
    <3>6. L \in 1 .. L /\ \A l \in 1 .. L - 1 : l \in 1 .. L /\ l \in 0 .. L
      BY <1>2, <2>1
    <3>7. ASSUME NEW e \in Q!Entries(R) PROVE e \in Q!Entries(q) \ {q[0]}
      <4>1. PICK k \in 0 .. L - 1 : e = R[k]
        BY <2>3 DEF Q!Entries
      <4>2. PICK l \in 1 .. L : e = q[l]
        BY <3>1, <3>6, <4>1
      <4>3. l \in 0 .. L
        BY <1>2
      <4> QED
        BY <1>1, <3>4, <4>2, <4>3 DEF Q!Entries
    <3>8. ASSUME NEW e \in Q!Entries(q), e # q[0] PROVE e \in Q!Entries(R)
      <4>1. PICK l \in 0 .. L : e = q[l]
        BY <1>1 DEF Q!Entries
      <4>2. \E k \in 0 .. L - 1 : R[k] = e
        BY <3>2, <3>3, <3>5, <3>8, <4>1
      <4> QED
        BY <2>3, <4>2 DEF Q!Entries
    <3> QED
      BY <3>7, <3>8
  <2> QED
    BY <2>4, <2>5 DEF R
<1> QED
  BY <1>9, <1>10

\* The entry at the root is one that no entry precedes.
THEOREM PeekIsFirst ==
  ASSUME NEW q, NEW n, Heap(q, n), NEW e \in Q!Entries(q)
  PROVE  n > 0 /\ q[0] \in Q!Entries(q) /\ ~SlotGreater(q[0], e)
<1>1. /\ n \in Nat /\ q \in [0 .. n - 1 -> Slots] /\ DOMAIN q = 0 .. n - 1
      /\ \A k \in 1 .. n - 1 : ~SlotGreater(q[k \div 2], q[k])
  BY DEF Heap
<1>2. PICK k \in 0 .. n - 1 : e = q[k]
  BY <1>1 DEF Q!Entries
<1>3. n > 0 /\ 0 \in 0 .. n - 1
  BY <1>1, <1>2
<1> DEFINE Bad == {i \in 0 .. n - 1 : SlotGreater(q[0], q[i])}
<1>4. Bad = {}
  <2>1. SUFFICES ASSUME Bad # {} PROVE FALSE
    OBVIOUS
  <2>2. PICK i \in Bad : \A j \in Bad : i <= j
    <3>1. Bad \subseteq Nat
      BY <1>1
    <3> HIDE DEF Bad
    <3> QED
      BY <2>1, <3>1, Least
  <2>3. i \in 0 .. n - 1 /\ SlotGreater(q[0], q[i])
    OBVIOUS
  <2>4. q[0] \in Slots /\ q[i] \in Slots
    BY <1>1, <1>3, <2>3
  <2>5. i # 0
    BY <2>3, <2>4, SlotOrder
  <2>6. i \in 1 .. n - 1 /\ i \div 2 \in 0 .. n - 1 /\ ~(i <= i \div 2)
    BY <1>1, <2>3, <2>5, Parents
  <2>7. ~SlotGreater(q[0], q[i \div 2])
    BY <2>2, <2>6
  <2>8. ~SlotGreater(q[i \div 2], q[i]) /\ q[i \div 2] \in Slots
    BY <1>1, <2>6
  <2> QED
    BY <2>3, <2>4, <2>7, <2>8, SlotOrder
<1> QED
  BY <1>1, <1>2, <1>3, <1>4 DEF Q!Entries

-----------------------------------------------------------------------------
\* The loop of the link.

\* Every entry has the date and the time of a reading of the clock and of a delay, and a
\* number of its own.
Dated(e) ==
  \E c \in ClockReading, d \in AppliedDelays(delay, jitter) :
    e.ts = Expiration(c, d) /\ e.due = Microseconds(c) + d * UsPerMs

IInv ==
  /\ delay \in Delays /\ jitter \in Jitters
  /\ pc \in {"select", "deliver", "receive"}
  /\ readable \in BOOLEAN
  /\ last_clock \in ClockReading
  /\ arrived \in 0 .. Datagrams
  /\ pc = "receive" => arrived < Datagrams
  /\ readable /\ pc # "select" => arrived < Datagrams
  /\ \E n \in Nat : Heap(queue, n)
  /\ \A e \in Q!Entries(queue) : Dated(e) /\ e.n < arrived

\* What simulate_link adds is a number of ms; without jitter, always the same.
LEMMA DelaysType ==
  ASSUME delay \in Delays, jitter \in Jitters
  PROVE  /\ AppliedDelays(delay, jitter) \subseteq Nat
         /\ jitter = 0 => \A d, e \in AppliedDelays(delay, jitter) : d = e
<1>1. delay \in Nat /\ jitter \in Nat /\ Cap \in Nat \ {0}
  BY DelayedLinkConstants, TimevalConstants
<1>2. \A d \in Int : d % Cap \in Nat
  BY <1>1
<1>3. delay + jitter - 1 \in Int /\ delay - jitter \in Int
  BY <1>1
<1>4. AppliedDelays(delay, jitter) \subseteq Nat
  BY <1>1, <1>2, <1>3 DEF AppliedDelays
<1>5. jitter = 0 => AppliedDelays(delay, jitter) = {delay % Cap}
  BY DEF AppliedDelays
<1> QED
  BY <1>4, <1>5

\* The date of an entry stands for the time at which it is due.
LEMMA DatedType ==
  ASSUME IInv, NEW e \in Q!Entries(queue)
  PROVE  e \in Slots /\ e.ts \in Date /\ e.due \in Nat /\ Microseconds(e.ts) = e.due
<1>1. PICK n \in Nat : Heap(queue, n)
  BY DEF IInv
<1>2. e \in Slots
  BY <1>1 DEF Heap, Q!Entries
<1>3. PICK c \in ClockReading, d \in AppliedDelays(delay, jitter) :
        e.ts = Expiration(c, d) /\ e.due = Microseconds(c) + d * UsPerMs
  BY DEF IInv, Dated
<1>4. d \in Nat
  BY DelaysType DEF IInv
<1> QED
  BY <1>2, <1>3, <1>4, ExpirationIsSum DEF Slots

\* The first entry of the queue
LEMMA FirstOfQueue ==
  ASSUME IInv, ~Q!Empty(queue)
  PROVE  /\ Sent \in Q!Entries(queue)
         /\ \A e \in Q!Entries(queue) : ~Later(Sent.ts, e.ts)
<1>1. PICK n \in Nat : Heap(queue, n)
  BY DEF IInv
<1>2. Q!Entries(queue) # {}
  BY DEF Q!Empty, Q!Entries
<1>3. /\ queue[0] \in Q!Entries(queue)
      /\ \A e \in Q!Entries(queue) : ~SlotGreater(queue[0], e)
  BY <1>1, <1>2, PeekIsFirst
<1> QED
  BY <1>3 DEF Sent, Q!Peek, SlotGreater

\* Without jitter, entries that do not precede each other by date do not by time.
LEMMA SameOrder ==
  ASSUME IInv, jitter = 0, NEW a \in Q!Entries(queue), NEW b \in Q!Entries(queue),
         ~Later(a.ts, b.ts)
  PROVE  b.due >= a.due
<1>1. PICK c1 \in ClockReading, d1 \in AppliedDelays(delay, jitter) :
        a.ts = Expiration(c1, d1) /\ a.due = Microseconds(c1) + d1 * UsPerMs
  BY DEF IInv, Dated
<1>2. PICK c2 \in ClockReading, d2 \in AppliedDelays(delay, jitter) :
        b.ts = Expiration(c2, d2) /\ b.due = Microseconds(c2) + d2 * UsPerMs
  BY DEF IInv, Dated
<1>3. d1 \in Nat /\ d2 = d1
  BY DelaysType DEF IInv
<1>4. ~(Microseconds(c1) > Microseconds(c2))
  BY <1>1, <1>2, <1>3, SameDelayKeepsOrder, LaterIsOrder
<1>5. Microseconds(c1) \in Nat /\ Microseconds(c2) \in Nat /\ d1 * UsPerMs \in Nat
  BY <1>3, MicrosecondsType, TimevalConstants
<1> QED
  BY <1>1, <1>2, <1>3, <1>4, <1>5

\* The clock reads a later time.
LEMMA ReadsType ==
  ASSUME NEW us \in Nat, NEW t \in ReadsFrom(us)
  PROVE  t \in ClockReading
<1>1. PICK x \in us .. Horizon : t = Reading(x)
  BY DEF ReadsFrom
<1>2. x \in Nat
  BY DelayedLinkConstants
<1> QED
  BY <1>1, <1>2, ReadingType

\* The loop starts with an empty queue.
LEMMA InitHolds == Init => IInv
<1> SUFFICES ASSUME Init PROVE IInv
  OBVIOUS
<1>1. last_clock \in ClockReading
  BY ReadingType DEF Init
<1>2. DOMAIN queue = {} /\ queue \in [{} -> Slots]
  BY DEF Init, Q!EmptyQueue
<1>3. Heap(queue, 0)
  BY <1>2 DEF Heap
<1>4. Q!Entries(queue) = {}
  BY <1>2 DEF Q!Entries
<1>5. \E n \in Nat : Heap(queue, n)
  BY <1>3
<1>6. arrived \in 0 .. Datagrams
  BY DelayedLinkConstants DEF Init
<1> QED
  BY <1>1, <1>4, <1>5, <1>6 DEF Init, IInv

\* What is delivered leaves a queue in order.
LEMMA DeliverKeeps ==
  ASSUME IInv, Deliver
  PROVE  IInv' /\ Q!Entries(queue)' = Q!Entries(queue) \ {Sent}
<1>1. UNCHANGED <<delay, jitter, pc, readable, last_clock, arrived>>
      /\ queue' = Q!Pop(queue) /\ ~Q!Empty(queue)
  BY DEF Deliver, Expired
<1>2. PICK n \in Nat : Heap(queue, n)
  BY DEF IInv
<1>3. n > 0
  BY <1>1, <1>2, FirstOfQueue, PeekIsFirst
<1>4. Heap(queue', n - 1) /\ Q!Entries(queue') = Q!Entries(queue) \ {queue[0]}
  BY <1>1, <1>2, <1>3, PopRemoves
<1>5. n - 1 \in Nat
  BY <1>3
<1>6. \E m \in Nat : Heap(queue', m)
  BY <1>4, <1>5
<1>7. Q!Entries(queue)' = Q!Entries(queue')
  BY DEF Q!Entries
<1>8. \A e \in Q!Entries(queue) : Dated(e)' <=> Dated(e)
  BY <1>1 DEF Dated
<1>9. IInv'
  BY <1>1, <1>4, <1>6, <1>7, <1>8 DEF IInv
<1> QED
  BY <1>4, <1>7, <1>9 DEF Sent, Q!Peek

\* The entry of a datagram that arrives
Received(applied) ==
  [n |-> arrived, ts |-> Expiration(last_clock, applied),
   due |-> Microseconds(last_clock) + applied * UsPerMs]

\* A datagram that arrives is added to a queue in order.
LEMMA ReceiveKeeps ==
  ASSUME IInv, Receive
  PROVE  /\ IInv'
         /\ \E applied : /\ Received(applied) \notin Q!Entries(queue)
                         /\ Q!Entries(queue)' = Q!Entries(queue) \cup {Received(applied)}
<1>1. UNCHANGED <<delay, jitter, readable, last_clock>> /\ pc = "receive" /\ pc' = "select"
      /\ arrived' = arrived + 1
  BY DEF Receive
<1>2. PICK applied \in AppliedDelays(delay, jitter) : queue' = Q!Push(queue, Received(applied))
  BY DEF Receive, Received
<1>3. PICK n \in Nat : Heap(queue, n)
  BY DEF IInv
<1>4. arrived \in Nat /\ arrived' \in 0 .. Datagrams /\ arrived < arrived'
  <2>1. arrived \in 0 .. Datagrams /\ arrived < Datagrams /\ Datagrams \in Nat
    BY <1>1, DelayedLinkConstants DEF IInv
  <2> QED
    BY <1>1, <2>1
<1>5. applied \in Nat /\ last_clock \in ClockReading
  BY DelaysType DEF IInv
<1>6. Received(applied) \in Slots
  <2>1. Expiration(last_clock, applied) \in Date
    BY <1>5, ExpirationIsSum
  <2>2. Microseconds(last_clock) + applied * UsPerMs \in Nat
    <3>1. applied * UsPerMs \in Nat /\ Microseconds(last_clock) \in Nat
      BY <1>5, TimevalConstants, MicrosecondsType
    <3> QED
      BY <3>1
  <2> QED
    BY <1>4, <2>1, <2>2 DEF Received, Slots
<1>7. Received(applied) \notin Q!Entries(queue)
  <2>1. Received(applied).n = arrived
    BY DEF Received
  <2>2. \A e \in Q!Entries(queue) : e.n < arrived
    BY DEF IInv
  <2> QED
    BY <1>4, <2>1, <2>2
<1>8. /\ Heap(queue', n + 1)
      /\ Q!Entries(queue') = Q!Entries(queue) \cup {Received(applied)}
  BY <1>2, <1>3, <1>6, <1>7, PushAdds
<1>9. Q!Entries(queue)' = Q!Entries(queue')
  BY DEF Q!Entries
<1>10. \E m \in Nat : Heap(queue', m)
  BY <1>8
<1>11. ASSUME NEW e \in Q!Entries(queue') PROVE Dated(e)' /\ e.n < arrived'
  <2>1. CASE e \in Q!Entries(queue)
    <3>1. Dated(e) /\ e.n < arrived /\ e.n \in Nat
      BY <2>1, DatedType DEF IInv, Slots
    <3>2. e.n < arrived'
      BY <1>1, <1>4, <3>1
    <3> QED
      BY <1>1, <3>1, <3>2 DEF Dated
  <2>2. CASE e = Received(applied)
    <3>1. Dated(e) /\ e.n = arrived
      BY <1>5, <2>2 DEF Dated, Received
    <3> QED
      BY <1>1, <1>4, <3>1 DEF Dated
  <2> QED
    BY <1>8, <2>1, <2>2
<1>12. IInv'
  BY <1>1, <1>4, <1>9, <1>10, <1>11 DEF IInv
<1> QED
  BY <1>7, <1>8, <1>9, <1>12

\* The other steps leave the queue as it is.
LEMMA WaitsKeep ==
  ASSUME IInv, SelectReadable \/ SelectTimeout \/ DeliverEnd \/ UNCHANGED vars
  PROVE  IInv' /\ queue' = queue
<1>1. UNCHANGED <<delay, jitter, queue, arrived>>
  BY DEF SelectReadable, SelectTimeout, DeliverEnd, vars
<1>2. last_clock' \in ClockReading
  <2>1. last_clock \in ClockReading /\ Microseconds(last_clock) \in Nat
    BY MicrosecondsType DEF IInv
  <2>2. CASE SelectReadable
    BY <2>1, <2>2, ReadsType DEF SelectReadable
  <2>3. CASE SelectTimeout
    <3> DEFINE wait == Microseconds(Timeout(Q!Peek(queue).ts, last_clock))
    <3>1. last_clock' \in ReadsFrom(Microseconds(last_clock) + wait)
      BY <2>3 DEF SelectTimeout
    <3>2. Sent \in Q!Entries(queue)
      BY <2>3, FirstOfQueue DEF SelectTimeout
    <3>3. Sent.ts \in Date /\ Microseconds(Sent.ts) \in Nat
      BY <3>2, DatedType
    <3>4. wait = UsPerMs \/ wait = Microseconds(Sent.ts) - Microseconds(last_clock)
      BY <2>1, <3>3, TimeoutIsLeft DEF Sent
    <3> HIDE DEF wait
    <3>5. Microseconds(last_clock) + wait \in Nat
      BY <2>1, <3>3, <3>4, TimevalConstants
    <3> QED
      BY <3>1, <3>5, ReadsType
  <2>4. CASE DeliverEnd \/ UNCHANGED vars
    BY <2>1, <2>4 DEF DeliverEnd, vars
  <2> QED
    BY <2>2, <2>3, <2>4
<1>3. /\ pc' \in {"select", "deliver", "receive"} /\ readable' \in BOOLEAN
      /\ pc' = "receive" => arrived' < Datagrams
      /\ readable' /\ pc' # "select" => arrived' < Datagrams
  <2>1. /\ pc \in {"select", "deliver", "receive"} /\ readable \in BOOLEAN
        /\ pc = "receive" => arrived < Datagrams
        /\ readable /\ pc # "select" => arrived < Datagrams
    BY DEF IInv
  <2>2. CASE SelectReadable
    BY <1>1, <2>2 DEF SelectReadable
  <2>3. CASE SelectTimeout
    BY <1>1, <2>3 DEF SelectTimeout
  <2>4. CASE DeliverEnd
    BY <1>1, <2>1, <2>4 DEF DeliverEnd
  <2>5. CASE UNCHANGED vars
    BY <2>1, <2>5 DEF vars
  <2> QED
    BY <2>2, <2>3, <2>4, <2>5
<1>4. \A e \in Q!Entries(queue) : Dated(e)' <=> Dated(e)
  BY <1>1 DEF Dated
<1>5. Q!Entries(queue)' = Q!Entries(queue)
  BY <1>1 DEF Q!Entries
<1> QED
  BY <1>1, <1>2, <1>3, <1>4, <1>5 DEF IInv

\* The invariant of the loop.
LEMMA StepKeeps == IInv /\ [Next]_vars => IInv'
BY DeliverKeeps, ReceiveKeeps, WaitsKeep DEF Next

-----------------------------------------------------------------------------
\* The theorems about the loop.

\* The invariant that they follow from, for any delay, jitter and number of datagrams.
THEOREM LoopInvariant == Spec => []IInv
<1> QED
  BY InitHolds, StepKeeps, PTL DEF Spec

\* Dates stay below two seconds of tv_usec, and no entry is in two slots of the heap.
THEOREM LoopTypeCorrect == Spec => []TypeOK
<1>1. ASSUME IInv PROVE TypeOK
  <2>1. PICK n \in Nat : Heap(queue, n)
    BY <1>1 DEF IInv
  <2>2. /\ queue \in [0 .. n - 1 -> Slots] /\ DOMAIN queue = 0 .. n - 1
        /\ \A k, l \in 0 .. n - 1 : k < l => queue[k] # queue[l]
    BY <2>1 DEF Heap
  <2>3. Q!Entries(queue) \subseteq Slots
    BY <2>2 DEF Q!Entries
  <2>4. Cardinality(Q!Entries(queue)) = n
    <3> DEFINE E == Q!Entries(queue)
    <3>1. queue \in Surjection(0 .. n - 1, E)
      BY <2>2 DEF Q!Entries, Surjection
    <3>2. queue \in [0 .. n - 1 -> E]
      BY <3>1 DEF Surjection
    <3>3. \A k, l \in 0 .. n - 1 : queue[k] = queue[l] => k = l
      <4>1. \A k, l \in 0 .. n - 1 : k < l \/ l < k \/ k = l
        OBVIOUS
      <4> QED
        BY <2>2, <4>1
    <3> HIDE DEF E
    <3>4. queue \in Injection(0 .. n - 1, E)
      BY <3>2, <3>3 DEF Injection, IsInjective
    <3>5. IsFiniteSet(0 .. n - 1) /\ Cardinality(0 .. n - 1) = n
      <4>1. 0 \in Int /\ n - 1 \in Int /\ (IF 0 > n - 1 THEN 0 ELSE n - 1 - 0 + 1) = n
        OBVIOUS
      <4> QED
        BY <4>1, FS_Interval
    <3>6. Cardinality(E) = Cardinality(0 .. n - 1)
      BY <3>1, <3>4, <3>5, FS_Surjection
    <3> QED
      BY <3>5, <3>6 DEF E
  <2> QED
    BY <1>1, <2>2, <2>3, <2>4 DEF IInv, TypeOK
<1> QED
  BY <1>1, LoopInvariant, PTL

\* The heap is in order whenever it is read, whatever has been pushed and popped.
THEOREM HeapOrderCorrect == Spec => []HeapOrder
<1>1. ASSUME IInv PROVE HeapOrder
  <2>1. PICK n \in Nat : Heap(queue, n)
    BY <1>1 DEF IInv
  <2>2. \A k \in DOMAIN queue \ {0} : k \in 1 .. n - 1
    BY <2>1 DEF Heap
  <2> QED
    BY <2>1, <2>2 DEF Heap, HeapOrder, Q!HeapOrdered
<1> QED
  BY <1>1, LoopInvariant, PTL

\* select waits past the time of no datagram held, or with jitter by less than a second.
THEOREM NeverOversleepsCorrect == Spec => []NeverOversleeps
<1>1. ASSUME IInv PROVE NeverOversleeps
  <2> DEFINE wait == Microseconds(Timeout(Sent.ts, last_clock))
             now == Microseconds(last_clock)
  <2>1. SUFFICES ASSUME ~Q!Empty(queue), NEW slot \in Q!Entries(queue)
                 PROVE  \/ wait <= UsPerMs
                        \/ wait <= slot.due - now
                        \/ jitter # 0 /\ wait < slot.due - now + Second
    BY DEF NeverOversleeps
  <2>2. Sent \in Q!Entries(queue) /\ ~Later(Sent.ts, slot.ts)
    BY <1>1, <2>1, FirstOfQueue
  <2>3. /\ Sent.ts \in Date /\ Microseconds(Sent.ts) = Sent.due /\ Sent.due \in Nat
        /\ slot.ts \in Date /\ Microseconds(slot.ts) = slot.due /\ slot.due \in Nat
    BY <1>1, <2>2, DatedType
  <2>4. last_clock \in ClockReading /\ now \in Nat
    BY <1>1, MicrosecondsType DEF IInv
  <2>5. wait = UsPerMs \/ wait = Sent.due - now
    BY <2>3, <2>4, TimeoutIsLeft
  <2> HIDE DEF wait, now
  <2>6. jitter = 0 => Sent.due <= slot.due
    BY <1>1, <2>2, <2>3, SameOrder
  <2>7. Sent.due < slot.due + Second /\ Second \in Nat
    BY <2>2, <2>3, NotLaterByMuch, SecondType
  <2>8. UsPerMs \in Nat
    BY TimevalConstants
  <2> QED
    BY <2>3, <2>4, <2>5, <2>6, <2>7, <2>8
<1> QED
  BY <1>1, LoopInvariant, PTL

\* The heap refines the priority queue of min_queue.h.
THEOREM QueueRefinement == Spec => ImplementsQueue
<1>1. Init => Promise!Init
  BY DEF Init, Promise!Init, Q!Entries, Q!EmptyQueue
<1>2. IInv /\ [Next]_vars => [Promise!Next]_(Q!Entries(queue))
  <2> SUFFICES ASSUME IInv, [Next]_vars
               PROVE  Promise!Next \/ Q!Entries(queue)' = Q!Entries(queue)
    OBVIOUS
  <2>1. CASE Deliver
    <3>1. /\ Q!Entries(queue)' = Q!Entries(queue) \ {Sent}
          /\ Sent \in Q!Entries(queue)
          /\ \A e \in Q!Entries(queue) : ~SlotGreater(Sent, e)
      BY <2>1, DeliverKeeps, FirstOfQueue DEF Deliver, Expired, SlotGreater
    <3> QED
      BY <3>1 DEF Promise!Next, Promise!Remove
  <2>2. CASE Receive
    <3>1. PICK applied : /\ Received(applied) \notin Q!Entries(queue)
                         /\ Q!Entries(queue)' = Q!Entries(queue) \cup {Received(applied)}
      BY <2>2, ReceiveKeeps
    <3> QED
      BY <3>1 DEF Promise!Next, Promise!Add
  <2>3. CASE SelectReadable \/ SelectTimeout \/ DeliverEnd \/ UNCHANGED vars
    BY <2>3, WaitsKeep DEF Q!Entries
  <2> QED
    BY <2>1, <2>2, <2>3 DEF Next
<1> QED
  BY <1>1, <1>2, LoopInvariant, PTL DEF Spec, ImplementsQueue, Promise!Spec

\* Without jitter no datagram is overtaken by one that is due after it, that is by one that
\* arrived at a later reading of the clock.
THEOREM InOrderCorrect == Spec => InOrder
<1> DEFINE Kept == Deliver /\ jitter = 0 =>
                     \A slot \in Q!Entries(queue) : slot.due >= Sent.due
<1>1. IInv => Kept
  BY FirstOfQueue, SameOrder DEF Deliver, Expired
<1>2. IInv /\ [Next]_vars => [Kept]_vars
  BY <1>1
<1> QED
  BY <1>2, LoopInvariant, PTL DEF Spec, InOrder

\* A datagram leaves before its time by less than a second, and only when its date goes
\* into the next second.
THEOREM EarlyCorrect == Spec => EarlyByLessThanASecond
<1> DEFINE Kept == Deliver => LET now == Microseconds(last_clock)
                              IN \/ now > Sent.due
                                 \/ Sent.ts.usec >= Second /\ now > Sent.due - Second
<1>1. ASSUME IInv, Deliver
      PROVE  \/ Microseconds(last_clock) > Sent.due
             \/ Sent.ts.usec >= Second /\ Microseconds(last_clock) > Sent.due - Second
  <2>1. Sent \in Q!Entries(queue) /\ Later(last_clock, Sent.ts)
    BY <1>1, FirstOfQueue DEF Deliver, Expired, Sent
  <2>2. Sent.ts \in Date /\ Microseconds(Sent.ts) = Sent.due
    BY <1>1, <2>1, DatedType
  <2>3. last_clock \in ClockReading
    BY <1>1 DEF IInv
  <2>4. /\ Microseconds(last_clock) > Sent.due - Second
        /\ Sent.ts.usec < Second => Microseconds(last_clock) > Sent.due
    BY <2>1, <2>2, <2>3, EarlyByLess
  <2>5. Sent.ts.usec < Second \/ Sent.ts.usec >= Second
    BY <2>2, SecondType DEF Date
  <2> QED
    BY <2>4, <2>5
<1>2. IInv /\ [Next]_vars => [Kept]_vars
  BY <1>1
<1> QED
  BY <1>2, LoopInvariant, PTL DEF Spec, EarlyByLessThanASecond
=============================================================================
