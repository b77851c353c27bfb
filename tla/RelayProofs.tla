----------------------------- MODULE RelayProofs -----------------------------
(***************************************************************************)
(* The link between several hosts, for any number of senders, any command  *)
(* line and any number of datagrams: it pairs the first sender with the    *)
(* receiver, sends no datagram twice, overtakes none but with jitter or    *)
(* one of the same date, and forgets none that it holds.                   *)
(***************************************************************************)
EXTENDS Relay, SequenceTheorems, TLAPS

-----------------------------------------------------------------------------
\* What the order of the datagrams sent rests on.

\* The datagrams in the socket are newer than those held or sent.
Newer ==
  /\ \A k, l \in DOMAIN socket : k < l => socket[k].n < socket[l].n
  /\ \A k \in DOMAIN socket : /\ socket[k].n <= arrivals
                              /\ \A l \in DOMAIN queue : queue[l].n < socket[k].n
                              /\ \A l \in DOMAIN sent : sent[l].n < socket[k].n

\* A direction is held entirely or not at all, and what is held is kept by arrival, so by
\* the readings of the clock too.
HeldInOrder ==
  /\ \A k \in DOMAIN queue : /\ options.delayed
                             /\ queue[k].direction \in options.direction
                             /\ queue[k].from \in Pair
                             /\ queue[k].at <= last_clock
  /\ \A k, l \in DOMAIN queue :
       k < l => queue[k].n < queue[l].n /\ queue[k].at <= queue[l].at

\* What is sent in a direction came in before what is held in it, or at the same reading.
SameWay(s, e) == s.to = Dest <=> e.direction = "forward"
SentBeforeHeld ==
  \A k \in DOMAIN sent, l \in DOMAIN queue :
    /\ sent[k].n # queue[l].n
    /\ ~options.jitter /\ SameWay(sent[k], queue[l])
         => sent[k].n < queue[l].n \/ sent[k].at = queue[l].at

\* The receiver has not spoken before the first sender has been heard.
Unheard == src_addr = Nobody => /\ queue = <<>> /\ sent = <<>>
                                /\ \A k \in DOMAIN socket : socket[k].from # Dest

Orderly == Newer /\ HeldInOrder /\ SentBeforeHeld /\ Unheard

IInv == RelayTypeOK /\ Paired /\ OnceInOrder /\ Orderly

-----------------------------------------------------------------------------
\* What a sequence holds.
LEMMA Elements ==
  ASSUME NEW S, NEW q \in Seq(S), NEW k \in DOMAIN q
  PROVE  q[k] \in S
BY ElementOfSeq, LenProperties

\* A queue with one more at its end.
LEMMA Appended ==
  ASSUME NEW S, NEW q \in Seq(S), NEW e \in S
  PROVE  /\ Append(q, e) \in Seq(S) /\ Len(q) \in Nat
         /\ DOMAIN q = 1 .. Len(q) /\ DOMAIN Append(q, e) = 1 .. Len(q) + 1
         /\ \A k \in DOMAIN q : q[k] \in S /\ Append(q, e)[k] = q[k]
         /\ Append(q, e)[Len(q) + 1] = e
         /\ \A k \in DOMAIN Append(q, e) : k \in DOMAIN q \/ k = Len(q) + 1
<1>1. /\ Append(q, e) \in Seq(S) /\ Len(q) \in Nat /\ DOMAIN q = 1 .. Len(q)
      /\ Len(Append(q, e)) = Len(q) + 1
      /\ \A k \in 1 .. Len(q) : Append(q, e)[k] = q[k]
      /\ Append(q, e)[Len(q) + 1] = e
  BY AppendProperties, LenProperties
<1>2. DOMAIN Append(q, e) = 1 .. Len(q) + 1
  BY <1>1, LenProperties
<1>3. \A k \in 1 .. Len(q) : q[k] \in S
  BY <1>1, ElementOfSeq
<1> QED
  BY <1>1, <1>2, <1>3

\* A queue without its head.
LEMMA Tailed ==
  ASSUME NEW S, NEW q \in Seq(S), q # <<>>
  PROVE  /\ Tail(q) \in Seq(S) /\ Head(q) \in S /\ Head(q) = q[1] /\ 1 \in DOMAIN q
         /\ DOMAIN q \subseteq Nat
         /\ \A k \in DOMAIN Tail(q) : /\ k + 1 \in DOMAIN q /\ 1 < k + 1
                                      /\ Tail(q)[k] = q[k + 1]
<1>1. /\ Tail(q) \in Seq(S) /\ Head(q) \in S /\ Head(q) = q[1]
      /\ Len(Tail(q)) = Len(q) - 1
      /\ \A k \in 1 .. Len(Tail(q)) : Tail(q)[k] = q[k + 1]
  BY HeadTailProperties
<1>2. Len(q) \in Nat /\ Len(q) # 0 /\ DOMAIN q = 1 .. Len(q)
  BY LenProperties, EmptySeq
<1>3. DOMAIN Tail(q) = 1 .. Len(q) - 1
  BY <1>1, LenProperties
<1> QED
  BY <1>1, <1>2, <1>3

\* A queue without its i-th entry, as minq_pop leaves it.
LEMMA Taken ==
  ASSUME NEW S, queue \in Seq(S), NEW i \in DOMAIN queue
  PROVE  /\ Without(i) \in Seq(S) /\ DOMAIN queue \subseteq Nat
         /\ \A k \in DOMAIN Without(i) :
              LET was == IF k < i THEN k ELSE k + 1
              IN was \in DOMAIN queue /\ was # i /\ Without(i)[k] = queue[was]
         /\ \A k \in DOMAIN queue :
              \/ k = i
              \/ \E l \in DOMAIN Without(i) : Without(i)[l] = queue[k]
<1> DEFINE a == SubSeq(queue, 1, i - 1)
           b == SubSeq(queue, i + 1, Len(queue))
           n == Len(queue)
           w == a \o b
<1>1. n \in Nat /\ DOMAIN queue = 1 .. n /\ i \in 1 .. n
  BY LenProperties
<1>2. \A k \in 1 .. n : queue[k] \in S
  BY <1>1, ElementOfSeq
<1>3. a \in Seq(S) /\ Len(a) = i - 1 /\ \A k \in 1 .. i - 1 : a[k] = queue[k]
  BY <1>1, <1>2, SubSeqProperties
<1>4. b \in Seq(S) /\ Len(b) = n - i /\ \A k \in 1 .. n - i : b[k] = queue[k + i]
  BY <1>1, <1>2, SubSeqProperties
<1> HIDE DEF a, b
<1>5. /\ w \in Seq(S) /\ Len(w) = Len(a) + Len(b)
      /\ \A k \in 1 .. Len(a) + Len(b) :
           w[k] = IF k <= Len(a) THEN a[k] ELSE b[k - Len(a)]
  BY <1>3, <1>4, ConcatProperties
<1> HIDE DEF w, n
<1>6. Len(a) + Len(b) = n - 1
  BY <1>1, <1>3, <1>4
<1>7. DOMAIN w = 1 .. n - 1
  BY <1>5, <1>6, LenProperties
<1>8. \A k \in 1 .. n - 1 : w[k] = IF k <= i - 1 THEN a[k] ELSE b[k - (i - 1)]
  BY <1>3, <1>5, <1>6
<1>9. ASSUME NEW k \in 1 .. n - 1
      PROVE  w[k] = queue[IF k < i THEN k ELSE k + 1]
  <2>1. CASE k < i
    <3>1. k \in 1 .. i - 1 /\ k <= i - 1
      BY <1>1, <2>1
    <3> QED
      BY <1>3, <1>8, <2>1, <3>1
  <2>2. CASE ~(k < i)
    <3>1. k - (i - 1) \in 1 .. n - i /\ k - (i - 1) + i = k + 1 /\ ~(k <= i - 1)
      BY <1>1, <2>2
    <3>2. w[k] = b[k - (i - 1)]
      BY <1>8, <3>1
    <3> QED
      BY <1>4, <2>2, <3>1, <3>2
  <2> QED
    BY <2>1, <2>2
<1>10. Without(i) = w
  BY DEF Without, a, b, n, w
<1>11. ASSUME NEW k \in DOMAIN w
       PROVE  LET was == IF k < i THEN k ELSE k + 1
              IN was \in DOMAIN queue /\ was # i /\ w[k] = queue[was]
  <2>1. k \in 1 .. n - 1 /\ (IF k < i THEN k ELSE k + 1) \in 1 .. n
        /\ (IF k < i THEN k ELSE k + 1) # i
    BY <1>1, <1>7
  <2> QED
    BY <1>1, <1>9, <2>1
<1>12. ASSUME NEW k \in DOMAIN queue, k # i
       PROVE  \E l \in DOMAIN w : w[l] = queue[k]
  <2> DEFINE l == IF k < i THEN k ELSE k - 1
  <2>1. l \in 1 .. n - 1 /\ k = IF l < i THEN l ELSE l + 1
    BY <1>1, <1>12
  <2> HIDE DEF l
  <2>2. w[l] = queue[k]
    BY <1>9, <2>1
  <2> QED
    BY <1>7, <2>1, <2>2
<1>13. DOMAIN queue \subseteq Nat
  BY <1>1
<1> QED
  BY <1>5, <1>10, <1>11, <1>12, <1>13

-----------------------------------------------------------------------------
\* The steps of the link, by what they do to the queue and to what has been sent.

Passes == /\ Takes
          /\ UNCHANGED <<last_clock, queue, sent>>
          /\ src_addr' = src_addr \/ src_addr' = Source
          /\ running' \in BOOLEAN

Sends == /\ Takes
         /\ UNCHANGED <<last_clock, queue>>
         /\ src_addr' = Source
         /\ Direction # "alien"
         /\ Direction \in options.direction => ~options.delayed
         /\ \E harm \in Harms : WriteOut(Entry(harm))
         /\ running' \in BOOLEAN

Holds == /\ Takes
         /\ UNCHANGED sent
         /\ src_addr' = Source
         /\ Direction \in options.direction /\ options.delayed
         /\ update_time
         /\ \E harm \in Harms : queue' = Append(queue, Entry(harm))
         /\ running' \in BOOLEAN

\* What parse_number and the switches leave in the options.
LEMMA OptionsTyped ==
  ASSUME RelayTypeOK
  PROVE  options.direction \subseteq {"forward", "reverse"}
<1>1. PICK line \in CommandLines : options = Parsed(line)
  BY DEF RelayTypeOK
<1>2. line.direction \subseteq {"forward", "reverse"}
  BY RelayConstants
<1> QED
  BY <1>1, <1>2 DEF Parsed

\* There is no other kind of step.
LEMMA KindsOfSteps ==
  ASSUME RelayTypeOK, Next
  PROVE  (\E from \in Hosts : Arrive(from)) \/ Passes \/ Sends \/ Holds \/ Deliver
<1>1. options.direction \subseteq {"forward", "reverse"} /\ running \in BOOLEAN
  BY OptionsTyped DEF RelayTypeOK
<1>2. Harmed \subseteq Harms
  BY DEF Harmed, Harms
<1>3. CASE DropMalformed
  BY <1>1, <1>3 DEF DropMalformed, Passes, link
<1>4. CASE DropAlien
  BY <1>1, <1>4 DEF DropAlien, Heard, Passes
<1>5. CASE RelayAtOnce
  BY <1>1, <1>5 DEF RelayAtOnce, Heard, Sends, Harms
<1>6. CASE Drop
  BY <1>1, <1>6 DEF Drop, Simulates, Heard, Passes
<1>7. CASE Hold
  BY <1>1, <1>2, <1>7 DEF Hold, Simulates, Heard, Holds
<1>8. CASE ForwardNow
  BY <1>1, <1>2, <1>8 DEF ForwardNow, Simulates, Heard, Sends
<1>9. CASE WriteFails
  BY <1>9 DEF WriteFails, Heard, Passes
<1> QED
  BY <1>3, <1>4, <1>5, <1>6, <1>7, <1>8, <1>9 DEF Next, Incoming

\* The host that a datagram comes from, and the way it goes.
LEMMA Ways ==
  ASSUME IInv, Takes
  PROVE  /\ socket \in Seq(Arrival) /\ socket # <<>>
         /\ Arrived = socket[1] /\ 1 \in DOMAIN socket
         /\ Arrived \in Arrival /\ Arrived.n \in 1 .. arrivals
         /\ Source \in Senders /\ Source # Dest /\ Source # Nobody
         /\ src_addr = Source \/ (src_addr = Nobody /\ queue = <<>> /\ sent = <<>>)
         /\ Direction = "forward" <=> Arrived.from = Source
         /\ Direction = "reverse" <=> Arrived.from = Dest
<1>1. socket \in Seq(Arrival) /\ socket # <<>>
  BY DEF IInv, RelayTypeOK, Takes
<1>2. Arrived = socket[1] /\ 1 \in DOMAIN socket /\ Arrived \in Arrival
  BY <1>1, Tailed DEF Arrived
<1>3. Arrived.from \in Hosts /\ Arrived.n \in 1 .. MaxArrivals
  BY <1>2 DEF Arrival
<1>4. Arrived.n \in 1 .. arrivals
  <2>1. Arrived.n <= arrivals /\ arrivals \in Nat
    BY <1>2 DEF IInv, Orderly, Newer, RelayTypeOK
  <2> QED
    BY <1>3, <2>1
<1>5. src_addr \in Senders \/ src_addr = Nobody
  BY DEF IInv, RelayTypeOK
<1>6. src_addr = Nobody => Arrived.from \in Senders /\ queue = <<>> /\ sent = <<>>
  BY <1>2, <1>3 DEF IInv, Orderly, Unheard, Hosts
<1>7. /\ Source \in Senders
      /\ src_addr = Source \/ (src_addr = Nobody /\ queue = <<>> /\ sent = <<>>)
  <2>1. CASE src_addr = Nobody
    BY <1>6, <2>1, Zenon DEF Source
  <2>2. CASE src_addr # Nobody
    BY <1>5, <2>2, Zenon DEF Source
  <2> QED
    BY <2>1, <2>2
<1>8. Source # Dest /\ Source # Nobody
  BY <1>7, RelayConstants DEF Hosts
<1>9. (Direction = "forward" <=> Arrived.from = Source)
      /\ (Direction = "reverse" <=> Arrived.from = Dest)
  BY <1>8 DEF Direction
<1> QED
  BY <1>1, <1>2, <1>4, <1>7, <1>8, <1>9

-----------------------------------------------------------------------------
\* The invariant is inductive, a lemma for each kind of step.

HeldIn(last) ==
  [n : 1 .. last, from : Hosts, direction : {"forward", "reverse"}, harm : Harms,
   at : Nat]
SentIn(last) == [n : 1 .. last, from : Hosts, to : Hosts, harm : Harms, at : Nat]

\* What is typed by the last arrival is typed by a later one.
LEMMA TypedLater ==
  ASSUME NEW last \in Nat, NEW q, q \in Seq(HeldIn(last)) \/ q \in Seq(SentIn(last))
  PROVE  /\ q \in Seq(HeldIn(last)) => q \in Seq(HeldIn(last + 1))
         /\ q \in Seq(SentIn(last)) => q \in Seq(SentIn(last + 1))
<1>1. HeldIn(last) \subseteq HeldIn(last + 1)
  BY DEF HeldIn
<1>2. SentIn(last) \subseteq SentIn(last + 1)
  BY DEF SentIn
<1> QED
  BY <1>1, <1>2, SeqMonotonic

\* A host sends to the link.
LEMMA ArriveKeeps ==
  ASSUME IInv, NEW from \in Hosts, Arrive(from)
  PROVE  IInv'
<1> DEFINE new(size) == [n |-> arrivals + 1, from |-> from, size |-> size]
<1>1. PICK size \in Sizes : socket' = Append(socket, new(size))
  BY DEF Arrive
<1>2. UNCHANGED <<options, src_addr, last_clock, queue, sent, running>>
  BY DEF Arrive, link
<1>3. arrivals \in Nat /\ arrivals < MaxArrivals /\ arrivals' = arrivals + 1
      /\ MaxArrivals \in Nat
  BY RelayConstants DEF Arrive, IInv, RelayTypeOK
<1>4. arrivals + 1 \in 1 .. MaxArrivals /\ arrivals' \in 0 .. MaxArrivals
  BY <1>3
<1>5. new(size) \in Arrival
  BY <1>4 DEF Arrival
<1>6. socket \in Seq(Arrival)
  BY DEF IInv, RelayTypeOK
<1>7. /\ socket' \in Seq(Arrival)
      /\ DOMAIN socket = 1 .. Len(socket) /\ Len(socket) \in Nat
      /\ \A k \in DOMAIN socket : socket[k] \in Arrival /\ socket'[k] = socket[k]
      /\ socket'[Len(socket) + 1] = new(size)
      /\ \A k \in DOMAIN socket' : k \in DOMAIN socket \/ k = Len(socket) + 1
  BY <1>1, <1>5, <1>6, Appended
<1> DEFINE top == Len(socket) + 1
<1>8. RelayTypeOK'
  <2>1. queue \in Seq(HeldIn(arrivals)) /\ sent \in Seq(SentIn(arrivals))
    BY DEF IInv, RelayTypeOK, HeldIn, SentIn
  <2>2. queue \in Seq(HeldIn(arrivals + 1)) /\ sent \in Seq(SentIn(arrivals + 1))
    BY <1>3, <2>1, TypedLater
  <2>3. queue' \in Seq(HeldIn(arrivals')) /\ sent' \in Seq(SentIn(arrivals'))
    BY <1>2, <1>3, <2>2
  <2> QED
    BY <1>2, <1>4, <1>7, <2>3 DEF IInv, RelayTypeOK, HeldIn, SentIn
<1>9. Paired' /\ OnceInOrder'
  <2>1. Paired'
    BY <1>2 DEF IInv, Paired, Pair
  <2>2. OnceInOrder'
    BY <1>2 DEF IInv, OnceInOrder, SameDate
  <2> QED
    BY <2>1, <2>2
<1>10. HeldInOrder' /\ SentBeforeHeld'
  BY <1>2 DEF IInv, Orderly, HeldInOrder, SentBeforeHeld, SameWay, Pair
<1>11. Newer'
  <2>1. /\ \A k, l \in DOMAIN socket : k < l => socket[k].n < socket[l].n
        /\ \A k \in DOMAIN socket : /\ socket[k].n <= arrivals
                                    /\ \A l \in DOMAIN queue : queue[l].n < socket[k].n
                                    /\ \A l \in DOMAIN sent : sent[l].n < socket[k].n
    BY DEF IInv, Orderly, Newer
  <2>2. socket'[top].n = arrivals + 1
    BY <1>7
  <2>3. \A k \in DOMAIN socket : socket[k].n \in Nat
    BY <1>7 DEF Arrival
  <2>4. \A l \in DOMAIN queue : queue[l].n \in 1 .. arrivals
    <3>1. queue \in Seq(HeldIn(arrivals))
      BY DEF IInv, RelayTypeOK, HeldIn
    <3>2. \A l \in DOMAIN queue : queue[l] \in HeldIn(arrivals)
      BY <3>1, Elements
    <3> QED
      BY <3>2 DEF HeldIn
  <2>5. \A l \in DOMAIN sent : sent[l].n \in 1 .. arrivals
    <3>1. sent \in Seq(SentIn(arrivals))
      BY DEF IInv, RelayTypeOK, SentIn
    <3>2. \A l \in DOMAIN sent : sent[l] \in SentIn(arrivals)
      BY <3>1, Elements
    <3> QED
      BY <3>2 DEF SentIn
  <2>6. ASSUME NEW k \in DOMAIN socket', NEW l \in DOMAIN socket', k < l
        PROVE  socket'[k].n < socket'[l].n
    <3>1. k \in DOMAIN socket
      BY <1>7, <2>6
    <3>2. CASE l \in DOMAIN socket
      BY <1>7, <2>1, <2>6, <3>1, <3>2
    <3>3. CASE l = top
      <4>1. socket'[k].n <= arrivals /\ socket'[k].n \in Nat
        BY <1>7, <2>1, <2>3, <3>1
      <4> QED
        BY <1>3, <2>2, <3>3, <4>1
    <3> QED
      BY <1>7, <3>2, <3>3
  <2>7. ASSUME NEW k \in DOMAIN socket'
        PROVE  /\ socket'[k].n <= arrivals'
               /\ \A l \in DOMAIN queue' : queue'[l].n < socket'[k].n
               /\ \A l \in DOMAIN sent' : sent'[l].n < socket'[k].n
    <3>1. CASE k \in DOMAIN socket
      <4>1. socket'[k] = socket[k] /\ socket[k].n <= arrivals /\ socket[k].n \in Nat
        BY <1>7, <2>1, <2>3, <3>1
      <4>2. socket'[k].n <= arrivals'
        BY <1>3, <4>1
      <4> QED
        BY <1>2, <2>1, <3>1, <4>1, <4>2
    <3>2. CASE k = top
      <4>1. \A l \in DOMAIN queue : queue[l].n < arrivals + 1
        BY <1>3, <2>4
      <4>2. \A l \in DOMAIN sent : sent[l].n < arrivals + 1
        BY <1>3, <2>5
      <4> QED
        BY <1>2, <1>3, <2>2, <3>2, <4>1, <4>2
    <3> QED
      BY <1>7, <3>1, <3>2
  <2> QED
    BY <2>6, <2>7 DEF Newer
<1>12. Unheard'
  <2> SUFFICES ASSUME src_addr' = Nobody
               PROVE  /\ queue' = <<>> /\ sent' = <<>>
                      /\ \A k \in DOMAIN socket' : socket'[k].from # Dest
    BY DEF Unheard
  <2>1. /\ queue = <<>> /\ sent = <<>>
        /\ \A k \in DOMAIN socket : socket[k].from # Dest
    BY <1>2 DEF IInv, Orderly, Unheard
  <2>2. from # Dest
    <3>1. DOMAIN sent = {}
      BY <2>1
    <3> QED
      BY <3>1 DEF Arrive
  <2> QED
    BY <1>2, <1>7, <2>1, <2>2
<1> QED
  BY <1>8, <1>9, <1>10, <1>11, <1>12 DEF IInv, Orderly

\* A datagram is taken from the socket: what is left there is still the newest.
LEMMA TakesKeeps ==
  ASSUME IInv, Takes
  PROVE  /\ socket' \in Seq(Arrival)
         /\ \A k, l \in DOMAIN socket' : k < l => socket'[k].n < socket'[l].n
         /\ \A k \in DOMAIN socket' :
              /\ socket'[k].n <= arrivals' /\ Arrived.n < socket'[k].n
              /\ \A l \in DOMAIN queue : queue[l].n < socket'[k].n
              /\ \A l \in DOMAIN sent : sent[l].n < socket'[k].n
         /\ src_addr = Nobody => \A k \in DOMAIN socket' : socket'[k].from # Dest
         /\ \A l \in DOMAIN queue : queue[l].n < Arrived.n
         /\ \A l \in DOMAIN sent : sent[l].n < Arrived.n
<1>1. socket \in Seq(Arrival) /\ socket # <<>> /\ socket' = Tail(socket)
      /\ arrivals' = arrivals
  BY DEF Takes, IInv, RelayTypeOK
<1>2. /\ socket' \in Seq(Arrival) /\ 1 \in DOMAIN socket /\ DOMAIN socket \subseteq Nat
      /\ Arrived = socket[1]
      /\ \A k \in DOMAIN socket' : /\ k + 1 \in DOMAIN socket /\ 1 < k + 1
                                   /\ socket'[k] = socket[k + 1]
  BY <1>1, Tailed DEF Arrived
<1>3. DOMAIN socket' \subseteq Nat
  BY <1>2, LenProperties
<1>4. Newer /\ Unheard
  BY DEF IInv, Orderly
<1>5. ASSUME NEW k \in DOMAIN socket', NEW l \in DOMAIN socket', k < l
      PROVE  socket'[k].n < socket'[l].n
  <2>1. k + 1 < l + 1
    BY <1>3, <1>5
  <2> QED
    BY <1>2, <1>4, <2>1 DEF Newer
<1>6. ASSUME NEW k \in DOMAIN socket'
      PROVE  /\ socket'[k].n <= arrivals' /\ Arrived.n < socket'[k].n
             /\ \A l \in DOMAIN queue : queue[l].n < socket'[k].n
             /\ \A l \in DOMAIN sent : sent[l].n < socket'[k].n
  BY <1>1, <1>2, <1>4 DEF Newer
<1>7. src_addr = Nobody => \A k \in DOMAIN socket' : socket'[k].from # Dest
  BY <1>2, <1>4 DEF Unheard
<1>8. /\ \A l \in DOMAIN queue : queue[l].n < Arrived.n
      /\ \A l \in DOMAIN sent : sent[l].n < Arrived.n
  BY <1>2, <1>4 DEF Newer
<1> QED
  BY <1>2, <1>5, <1>6, <1>7, <1>8

\* Nothing is held or sent, but a first sender may have been heard.
LEMMA PassesKeeps ==
  ASSUME IInv, Passes
  PROVE  IInv'
<1>1. Takes /\ UNCHANGED <<options, arrivals, last_clock, queue, sent>>
      /\ running' \in BOOLEAN
  BY DEF Passes, Takes
<1>2. src_addr' = src_addr
      \/ (src_addr' \in Senders /\ src_addr = Nobody /\ queue = <<>> /\ sent = <<>>)
  <2>1. /\ src_addr' = src_addr \/ src_addr' = Source
        /\ Source \in Senders
        /\ src_addr = Source \/ (src_addr = Nobody /\ queue = <<>> /\ sent = <<>>)
    BY <1>1, Ways DEF Passes
  <2> QED
    BY <2>1
<1>3. src_addr' \in Senders \cup {Nobody} /\ src_addr' # Dest
  BY <1>2, RelayConstants DEF IInv, RelayTypeOK, Hosts
<1>4. RelayTypeOK'
  BY <1>1, <1>3, TakesKeeps DEF IInv, RelayTypeOK
<1>5. (DOMAIN queue = {} /\ DOMAIN sent = {}) \/ src_addr' = src_addr
  BY <1>2
<1>6. Paired' /\ OnceInOrder'
  <2>1. Paired'
    BY <1>1, <1>3, <1>5 DEF IInv, Paired, Pair
  <2>2. OnceInOrder'
    BY <1>1 DEF IInv, OnceInOrder, SameDate
  <2> QED
    BY <2>1, <2>2
<1>7. HeldInOrder' /\ SentBeforeHeld'
  BY <1>1, <1>5 DEF IInv, Orderly, HeldInOrder, SentBeforeHeld, SameWay, Pair
<1>8. Newer'
  BY <1>1, TakesKeeps DEF Newer
<1>9. Unheard'
  <2>1. src_addr' = Nobody => src_addr = Nobody
    BY <1>2, RelayConstants DEF Hosts
  <2> QED
    BY <1>1, <2>1, TakesKeeps DEF IInv, Orderly, Unheard
<1> QED
  BY <1>4, <1>6, <1>7, <1>8, <1>9 DEF IInv, Orderly

\* A datagram taken from the socket is sent at once.
LEMMA SendsKeeps ==
  ASSUME IInv, Sends
  PROVE  IInv'
<1>1. Takes /\ UNCHANGED <<options, arrivals, last_clock, queue>> /\ src_addr' = Source
      /\ running' \in BOOLEAN
  BY DEF Sends, Takes
<1> DEFINE new(harm) == [n |-> Arrived.n, from |-> Arrived.from,
                         to |-> Target(Direction), harm |-> harm, at |-> last_clock]
<1>2. PICK harm \in Harms : sent' = Append(sent, new(harm))
  BY <1>1 DEF Sends, WriteOut, Entry
<1>3. /\ Arrived \in Arrival /\ Arrived.n \in 1 .. arrivals
      /\ Source \in Senders /\ Source # Dest /\ Source # Nobody
      /\ src_addr = Source \/ (src_addr = Nobody /\ queue = <<>> /\ sent = <<>>)
      /\ Direction = "forward" <=> Arrived.from = Source
      /\ Direction = "reverse" <=> Arrived.from = Dest
  BY <1>1, Ways
<1>4. Direction = "forward" \/ Direction = "reverse"
  BY DEF Sends, Direction
<1>5. Target(Direction) = IF Direction = "forward" THEN Dest ELSE Source
  BY <1>1 DEF Target
<1>6. {Arrived.from, Target(Direction)} = {Source, Dest}
  BY <1>3, <1>4, <1>5
<1>7. sent \in Seq(SentIn(arrivals)) /\ new(harm) \in SentIn(arrivals)
  <2>1. Target(Direction) \in Hosts /\ Arrived.from \in Hosts
    BY <1>3, <1>5 DEF Hosts, Arrival
  <2> QED
    BY <1>3, <2>1 DEF IInv, RelayTypeOK, SentIn
<1> DEFINE top == Len(sent) + 1
<1>8. /\ sent' \in Seq(SentIn(arrivals))
      /\ DOMAIN sent = 1 .. Len(sent) /\ Len(sent) \in Nat
      /\ \A k \in DOMAIN sent : sent[k] \in SentIn(arrivals) /\ sent'[k] = sent[k]
      /\ sent'[top] = new(harm)
      /\ \A k \in DOMAIN sent' : k \in DOMAIN sent \/ k = top
  BY <1>2, <1>7, Appended
<1>9. (DOMAIN queue = {} /\ DOMAIN sent = {}) \/ src_addr' = src_addr
  BY <1>1, <1>3
<1>10. RelayTypeOK'
  BY <1>1, <1>3, <1>8, TakesKeeps DEF IInv, RelayTypeOK, SentIn
<1>11. Paired'
  <2>1. \A k \in DOMAIN sent' : {sent'[k].from, sent'[k].to} = {src_addr', Dest}
    <3>1. ASSUME NEW k \in DOMAIN sent
          PROVE  {sent'[k].from, sent'[k].to} = {src_addr', Dest}
      BY <1>8, <1>9, <3>1 DEF IInv, Paired, Pair
    <3>2. {sent'[top].from, sent'[top].to} = {src_addr', Dest}
      <4>1. sent'[top].from = Arrived.from /\ sent'[top].to = Target(Direction)
        BY <1>8
      <4> QED
        BY <1>1, <1>6, <4>1
    <3> QED
      BY <1>8, <3>1, <3>2
  <2>2. \A k \in DOMAIN queue : queue[k].from = src_addr' <=> queue[k].direction = "forward"
    BY <1>9 DEF IInv, Paired
  <2> QED
    BY <1>1, <1>3, <2>1, <2>2 DEF Paired, Pair
<1>12. OnceInOrder'
  <2>1. ASSUME NEW k \in DOMAIN sent', NEW l \in DOMAIN sent', k < l
        PROVE  /\ sent'[k].n # sent'[l].n
               /\ sent'[k].to = sent'[l].to /\ ~options.jitter
                    => sent'[k].n < sent'[l].n \/ SameDate(sent'[k], sent'[l])
    <3>1. k \in DOMAIN sent
      BY <1>8, <2>1
    <3>2. CASE l \in DOMAIN sent
      BY <1>8, <2>1, <3>1, <3>2 DEF IInv, OnceInOrder
    <3>3. CASE l = top
      <4>1. sent[k].n < Arrived.n /\ sent[k].n \in Nat /\ Arrived.n \in Nat
        <5>1. sent[k].n < Arrived.n
          BY <1>1, <3>1, TakesKeeps
        <5>2. sent[k] \in SentIn(arrivals)
          BY <1>8, <3>1
        <5> QED
          BY <1>3, <5>1, <5>2 DEF SentIn
      <4>2. sent'[k].n = sent[k].n /\ sent'[l].n = Arrived.n
        BY <1>8, <3>1, <3>3
      <4> QED
        BY <4>1, <4>2
    <3> QED
      BY <1>8, <3>2, <3>3
  <2> QED
    BY <1>1, <2>1 DEF OnceInOrder, SameDate
<1>13. HeldInOrder'
  BY <1>1, <1>9 DEF IInv, Orderly, HeldInOrder, Pair
<1>14. SentBeforeHeld'
  <2>1. ASSUME NEW k \in DOMAIN sent', NEW l \in DOMAIN queue
        PROVE  /\ sent'[k].n # queue[l].n
               /\ ~options.jitter /\ SameWay(sent'[k], queue[l])
                    => sent'[k].n < queue[l].n \/ sent'[k].at = queue[l].at
    <3>1. CASE k \in DOMAIN sent
      BY <1>8, <3>1 DEF IInv, Orderly, SentBeforeHeld, SameWay
    <3>2. CASE k = top
      <4>1. queue[l].n < Arrived.n /\ Arrived.n \in Nat /\ queue[l].n \in Nat
        <5>1. queue \in Seq(HeldIn(arrivals))
          BY DEF IInv, RelayTypeOK, HeldIn
        <5>2. queue[l] \in HeldIn(arrivals)
          BY <5>1, Elements
        <5> QED
          BY <1>1, <1>3, <5>2, TakesKeeps DEF HeldIn
      <4>2. sent'[k].n = Arrived.n /\ sent'[k].to = Target(Direction)
        BY <1>8, <3>2
      <4>3. options.delayed /\ queue[l].direction \in options.direction
        BY DEF IInv, Orderly, HeldInOrder
      <4>4. queue[l].direction # Direction
        BY <4>3 DEF Sends
      <4>5. queue[l].direction \in {"forward", "reverse"}
        BY <4>3, OptionsTyped DEF IInv
      <4>6. ~SameWay(sent'[k], queue[l])
        BY <1>3, <1>4, <1>5, <4>2, <4>4, <4>5 DEF SameWay
      <4>7. sent'[k].n # queue[l].n
        BY <4>1, <4>2
      <4> QED
        BY <4>6, <4>7
    <3> QED
      BY <1>8, <3>1, <3>2
  <2> QED
    BY <1>1, <2>1 DEF SentBeforeHeld, SameWay
<1>15. Newer'
  <2>1. ASSUME NEW k \in DOMAIN socket', NEW l \in DOMAIN sent'
        PROVE  sent'[l].n < socket'[k].n
    BY <1>1, <1>8, TakesKeeps
  <2> QED
    BY <1>1, <2>1, TakesKeeps DEF Newer
<1>16. Unheard'
  BY <1>1, <1>3 DEF Unheard
<1> QED
  BY <1>10, <1>11, <1>12, <1>13, <1>14, <1>15, <1>16 DEF IInv, Orderly

\* A datagram taken from the socket is held.
LEMMA HoldsKeeps ==
  ASSUME IInv, Holds
  PROVE  IInv'
<1>1. Takes /\ UNCHANGED <<options, arrivals, sent>> /\ src_addr' = Source
      /\ running' \in BOOLEAN
  BY DEF Holds, Takes
<1>0. last_clock \in Nat /\ last_clock' \in Nat /\ last_clock <= last_clock'
  BY DEF Holds, update_time, IInv, RelayTypeOK
<1>2. PICK harm \in Harms : queue' = Append(queue, Entry(harm))
  BY DEF Holds
<1>3. /\ Arrived \in Arrival /\ Arrived.n \in 1 .. arrivals
      /\ Source \in Senders /\ Source # Dest /\ Source # Nobody
      /\ src_addr = Source \/ (src_addr = Nobody /\ queue = <<>> /\ sent = <<>>)
      /\ Direction = "forward" <=> Arrived.from = Source
      /\ Direction = "reverse" <=> Arrived.from = Dest
  BY <1>1, Ways
<1>4. Direction \in {"forward", "reverse"} /\ Direction \in options.direction
      /\ options.delayed
  BY OptionsTyped DEF Holds, IInv
<1>5. /\ Entry(harm).n = Arrived.n /\ Entry(harm).from = Arrived.from
      /\ Entry(harm).direction = Direction /\ Entry(harm).at = last_clock'
  BY DEF Entry
<1>6. Arrived.from \in {Source, Dest}
      /\ (Arrived.from = Source <=> Direction = "forward")
  BY <1>3, <1>4
<1>7. queue \in Seq(HeldIn(arrivals)) /\ Entry(harm) \in HeldIn(arrivals)
  <2>1. Arrived.from \in Hosts
    BY <1>3 DEF Arrival
  <2> QED
    BY <1>0, <1>3, <1>4, <2>1 DEF IInv, RelayTypeOK, HeldIn, Entry
<1> DEFINE top == Len(queue) + 1
<1>8. /\ queue' \in Seq(HeldIn(arrivals))
      /\ DOMAIN queue = 1 .. Len(queue) /\ Len(queue) \in Nat
      /\ \A k \in DOMAIN queue : queue[k] \in HeldIn(arrivals) /\ queue'[k] = queue[k]
      /\ queue'[top] = Entry(harm)
      /\ \A k \in DOMAIN queue' : k \in DOMAIN queue \/ k = top
  BY <1>2, <1>7, Appended
<1>9. (DOMAIN queue = {} /\ DOMAIN sent = {}) \/ src_addr' = src_addr
  BY <1>1, <1>3
<1>10. RelayTypeOK'
  BY <1>0, <1>1, <1>3, <1>8, TakesKeeps DEF IInv, RelayTypeOK, HeldIn
<1>11. Paired'
  <2>1. \A k \in DOMAIN sent : {sent[k].from, sent[k].to} = {src_addr', Dest}
    BY <1>9 DEF IInv, Paired, Pair
  <2>2. ASSUME NEW k \in DOMAIN queue'
        PROVE  queue'[k].from = src_addr' <=> queue'[k].direction = "forward"
    <3>1. CASE k \in DOMAIN queue
      BY <1>8, <1>9, <3>1 DEF IInv, Paired
    <3>2. CASE k = top
      BY <1>1, <1>5, <1>6, <1>8, <3>2
    <3> QED
      BY <1>8, <3>1, <3>2
  <2> QED
    BY <1>1, <1>3, <2>1, <2>2 DEF Paired, Pair
<1>12. OnceInOrder'
  BY <1>1 DEF IInv, OnceInOrder, SameDate
<1>13. HeldInOrder'
  <2>1. ASSUME NEW k \in DOMAIN queue'
        PROVE  /\ options.delayed /\ queue'[k].direction \in options.direction
               /\ queue'[k].from \in {src_addr', Dest}
               /\ queue'[k].at <= last_clock'
    <3>1. CASE k \in DOMAIN queue
      <4>1. queue[k].at \in Nat /\ queue[k].at <= last_clock
        BY <1>8, <3>1 DEF IInv, Orderly, HeldInOrder, HeldIn
      <4> QED
        BY <1>0, <1>8, <1>9, <3>1, <4>1 DEF IInv, Orderly, HeldInOrder, Pair
    <3>2. CASE k = top
      BY <1>0, <1>1, <1>4, <1>5, <1>6, <1>8, <3>2
    <3> QED
      BY <1>8, <3>1, <3>2
  <2>2. ASSUME NEW k \in DOMAIN queue', NEW l \in DOMAIN queue', k < l
        PROVE  queue'[k].n < queue'[l].n /\ queue'[k].at <= queue'[l].at
    <3>1. k \in DOMAIN queue
      BY <1>8, <2>2
    <3>2. CASE l \in DOMAIN queue
      BY <1>8, <2>2, <3>1, <3>2 DEF IInv, Orderly, HeldInOrder
    <3>3. CASE l = top
      <4>1. queue[k].n < Arrived.n
        BY <1>1, <3>1, TakesKeeps
      <4>2. queue'[k] = queue[k] /\ queue'[k].at <= last_clock'
        BY <1>8, <2>1, <3>1
      <4>3. queue'[l].n = Arrived.n /\ queue'[l].at = last_clock'
        BY <1>5, <1>8, <3>3
      <4> QED
        BY <4>1, <4>2, <4>3
    <3> QED
      BY <1>8, <3>2, <3>3
  <2> QED
    BY <1>1, <2>1, <2>2 DEF HeldInOrder, Pair
<1>14. SentBeforeHeld'
  <2>1. ASSUME NEW k \in DOMAIN sent, NEW l \in DOMAIN queue'
        PROVE  /\ sent[k].n # queue'[l].n
               /\ ~options.jitter /\ SameWay(sent[k], queue'[l])
                    => sent[k].n < queue'[l].n \/ sent[k].at = queue'[l].at
    <3>1. CASE l \in DOMAIN queue
      BY <1>8, <3>1 DEF IInv, Orderly, SentBeforeHeld, SameWay
    <3>2. CASE l = top
      <4>1. sent \in Seq(SentIn(arrivals))
        BY DEF IInv, RelayTypeOK, SentIn
      <4>2. sent[k] \in SentIn(arrivals)
        BY <4>1, Elements
      <4>3. sent[k].n < Arrived.n /\ sent[k].n \in Nat /\ Arrived.n \in Nat
        BY <1>1, <1>3, <4>2, TakesKeeps DEF SentIn
      <4>4. queue'[l].n = Arrived.n
        BY <1>5, <1>8, <3>2
      <4> QED
        BY <4>3, <4>4
    <3> QED
      BY <1>8, <3>1, <3>2
  <2> QED
    BY <1>1, <2>1 DEF SentBeforeHeld, SameWay
<1>15. Newer'
  <2>1. ASSUME NEW k \in DOMAIN socket', NEW l \in DOMAIN queue'
        PROVE  queue'[l].n < socket'[k].n
    BY <1>1, <1>5, <1>8, TakesKeeps
  <2> QED
    BY <1>1, <2>1, TakesKeeps DEF Newer
<1>16. Unheard'
  BY <1>1, <1>3 DEF Unheard
<1> QED
  BY <1>10, <1>11, <1>12, <1>13, <1>14, <1>15, <1>16 DEF IInv, Orderly

\* A datagram that is held is sent.
LEMMA DeliverKeeps ==
  ASSUME IInv, Deliver
  PROVE  IInv'
<1>1. UNCHANGED <<options, socket, arrivals, running, src_addr>>
  BY DEF Deliver
<1> DEFINE new(e) == [n |-> e.n, from |-> e.from, to |-> Target(e.direction),
                      harm |-> e.harm, at |-> e.at]
<1>0. last_clock \in Nat /\ last_clock' \in Nat /\ last_clock <= last_clock'
  BY DEF Deliver, update_time, IInv, RelayTypeOK
<1>2. PICK i \in DOMAIN queue : /\ MayLeave(i)
                               /\ queue' = Without(i)
                               /\ sent' = Append(sent, new(queue[i]))
  BY DEF Deliver, WriteOut
<1>3. /\ queue \in Seq(HeldIn(arrivals)) /\ sent \in Seq(SentIn(arrivals))
      /\ arrivals \in Nat
  BY DEF IInv, RelayTypeOK, HeldIn, SentIn
<1>4. /\ queue' \in Seq(HeldIn(arrivals)) /\ DOMAIN queue \subseteq Nat
      /\ \A k \in DOMAIN queue' :
           LET was == IF k < i THEN k ELSE k + 1
           IN was \in DOMAIN queue /\ was # i /\ queue'[k] = queue[was]
  BY <1>2, <1>3, Taken
<1> DEFINE was(k) == IF k < i THEN k ELSE k + 1
<1>5. /\ \A k \in DOMAIN queue' : /\ was(k) \in DOMAIN queue /\ was(k) # i
                                  /\ queue'[k] = queue[was(k)]
      /\ \A k, l \in DOMAIN queue' : k < l => was(k) < was(l)
  <2>1. DOMAIN queue' \subseteq Nat /\ DOMAIN queue' = 1 .. Len(queue') /\ i \in Nat
    BY <1>4, LenProperties
  <2> QED
    BY <1>4, <2>1
<1> HIDE DEF was
<1>6. queue[i] \in HeldIn(arrivals)
  BY <1>3, Elements
<1>7. src_addr \in Senders /\ src_addr # Dest /\ src_addr # Nobody
  <2>1. queue # <<>>
    BY <1>2
  <2> QED
    BY <2>1, RelayConstants DEF IInv, Orderly, Unheard, RelayTypeOK, Hosts
<1>8. /\ queue[i].direction \in {"forward", "reverse"}
      /\ queue[i].from \in {src_addr, Dest}
      /\ queue[i].from = src_addr <=> queue[i].direction = "forward"
  BY <1>6 DEF IInv, Orderly, HeldInOrder, Paired, Pair, HeldIn
<1>9. Target(queue[i].direction)
      = IF queue[i].direction = "forward" THEN Dest ELSE src_addr
  BY <1>1 DEF Target
<1>10. {queue[i].from, Target(queue[i].direction)} = {src_addr, Dest}
  BY <1>7, <1>8, <1>9
<1>11. Target(queue[i].direction) = Dest <=> queue[i].direction = "forward"
  BY <1>7, <1>9
<1>12. new(queue[i]) \in SentIn(arrivals)
  <2>1. Target(queue[i].direction) \in Hosts
    BY <1>7, <1>9 DEF Hosts
  <2> QED
    BY <1>6, <2>1 DEF HeldIn, SentIn
<1> DEFINE top == Len(sent) + 1
<1>13. /\ sent' \in Seq(SentIn(arrivals))
       /\ DOMAIN sent = 1 .. Len(sent) /\ Len(sent) \in Nat
       /\ \A k \in DOMAIN sent : sent[k] \in SentIn(arrivals) /\ sent'[k] = sent[k]
       /\ sent'[top] = new(queue[i])
       /\ \A k \in DOMAIN sent' : k \in DOMAIN sent \/ k = top
  BY <1>2, <1>3, <1>12, Appended
<1>14. /\ sent'[top].n = queue[i].n /\ sent'[top].from = queue[i].from
       /\ sent'[top].to = Target(queue[i].direction) /\ sent'[top].at = queue[i].at
  BY <1>13
<1>15. RelayTypeOK'
  BY <1>0, <1>1, <1>4, <1>13 DEF IInv, RelayTypeOK, HeldIn, SentIn
<1>16. Paired'
  <2>1. ASSUME NEW k \in DOMAIN sent'
        PROVE  {sent'[k].from, sent'[k].to} = {src_addr', Dest}
    <3>1. CASE k \in DOMAIN sent
      BY <1>1, <1>13, <3>1 DEF IInv, Paired, Pair
    <3>2. CASE k = top
      BY <1>1, <1>10, <1>14, <3>2
    <3> QED
      BY <1>13, <3>1, <3>2
  <2>2. \A k \in DOMAIN queue' :
          queue'[k].from = src_addr' <=> queue'[k].direction = "forward"
    BY <1>1, <1>5 DEF IInv, Paired
  <2> QED
    BY <1>1, <1>7, <2>1, <2>2 DEF Paired, Pair
<1>17. OnceInOrder'
  <2>1. ASSUME NEW k \in DOMAIN sent', NEW l \in DOMAIN sent', k < l
        PROVE  /\ sent'[k].n # sent'[l].n
               /\ sent'[k].to = sent'[l].to /\ ~options.jitter
                    => sent'[k].n < sent'[l].n \/ SameDate(sent'[k], sent'[l])
    <3>1. k \in DOMAIN sent
      BY <1>13, <2>1
    <3>2. CASE l \in DOMAIN sent
      BY <1>13, <2>1, <3>1, <3>2 DEF IInv, OnceInOrder
    <3>3. CASE l = top
      <4>1. /\ sent[k].n # queue[i].n
            /\ ~options.jitter /\ SameWay(sent[k], queue[i])
                 => sent[k].n < queue[i].n \/ sent[k].at = queue[i].at
        BY <3>1 DEF IInv, Orderly, SentBeforeHeld
      <4>2. sent'[k] = sent[k]
        BY <1>13, <3>1
      <4>3. options.delayed /\ Way(sent'[l].to) \in options.direction
        <5>1. options.delayed /\ queue[i].direction \in options.direction
          BY DEF IInv, Orderly, HeldInOrder
        <5>2. Way(sent'[l].to) = queue[i].direction
          BY <1>8, <1>11, <1>14, <3>3 DEF Way
        <5> QED
          BY <5>1, <5>2
      <4>4. sent'[k].to = sent'[l].to => SameWay(sent[k], queue[i])
        BY <1>11, <1>14, <3>3, <4>2 DEF SameWay
      <4> QED
        BY <1>14, <3>3, <4>1, <4>2, <4>3, <4>4 DEF SameDate
    <3> QED
      BY <1>13, <3>2, <3>3
  <2> QED
    BY <1>1, <2>1 DEF OnceInOrder, SameDate
<1>18. HeldInOrder'
  <2>1. HeldInOrder
    BY DEF IInv, Orderly
  <2>2. \A k, l \in DOMAIN queue' :
          k < l => queue'[k].n < queue'[l].n /\ queue'[k].at <= queue'[l].at
    BY <1>5, <2>1 DEF HeldInOrder
  <2>3. \A k \in DOMAIN queue' : /\ options.delayed
                                /\ queue'[k].direction \in options.direction
                                /\ queue'[k].from \in Pair
                                /\ queue'[k].at <= last_clock'
    <3> SUFFICES ASSUME NEW k \in DOMAIN queue'
                 PROVE  /\ options.delayed /\ queue'[k].direction \in options.direction
                        /\ queue'[k].from \in Pair /\ queue'[k].at <= last_clock'
      OBVIOUS
    <3>1. was(k) \in DOMAIN queue /\ queue'[k] = queue[was(k)]
      BY <1>5
    <3>2. queue[was(k)].at \in Nat
      <4>1. queue[was(k)] \in HeldIn(arrivals)
        BY <1>3, <3>1, Elements
      <4> QED
        BY <4>1 DEF HeldIn
    <3> QED
      BY <1>0, <2>1, <3>1, <3>2 DEF HeldInOrder
  <2> QED
    BY <1>1, <2>2, <2>3 DEF HeldInOrder, Pair
<1>19. SentBeforeHeld'
  <2>1. ASSUME NEW k \in DOMAIN sent', NEW l \in DOMAIN queue'
        PROVE  /\ sent'[k].n # queue'[l].n
               /\ ~options.jitter /\ SameWay(sent'[k], queue'[l])
                    => sent'[k].n < queue'[l].n \/ sent'[k].at = queue'[l].at
    <3>1. was(l) \in DOMAIN queue /\ was(l) # i /\ queue'[l] = queue[was(l)]
      BY <1>5
    <3>2. CASE k \in DOMAIN sent
      BY <1>13, <3>1, <3>2 DEF IInv, Orderly, SentBeforeHeld, SameWay
    <3>3. CASE k = top
      <4>1. /\ queue[i].n \in Nat /\ queue[i].at \in Nat
            /\ queue[was(l)].n \in Nat /\ queue[was(l)].at \in Nat
        <5>1. queue[was(l)] \in HeldIn(arrivals)
          BY <1>3, <3>1, Elements
        <5> QED
          BY <1>6, <5>1 DEF HeldIn
      <4>2. CASE i < was(l)
        <5>1. queue[i].n < queue[was(l)].n
          BY <3>1, <4>2 DEF IInv, Orderly, HeldInOrder
        <5> QED
          BY <1>14, <3>1, <3>3, <4>1, <5>1
      <4>3. CASE was(l) < i
        <5>1. queue[was(l)].n < queue[i].n /\ queue[was(l)].at <= queue[i].at
          BY <3>1, <4>3 DEF IInv, Orderly, HeldInOrder
        <5>2. ~options.jitter => queue[i].at <= queue[was(l)].at
          BY <1>2, <3>1 DEF MayLeave
        <5>3. ~options.jitter => queue[i].at = queue[was(l)].at
          BY <4>1, <5>1, <5>2
        <5> QED
          BY <1>14, <3>1, <3>3, <4>1, <5>1, <5>3
      <4>4. i < was(l) \/ was(l) < i
        BY <1>4, <3>1
      <4> QED
        BY <4>2, <4>3, <4>4
    <3> QED
      BY <1>13, <3>2, <3>3
  <2> QED
    BY <1>1, <2>1 DEF SentBeforeHeld, SameWay
<1>20. Newer'
  <2>1. Newer
    BY DEF IInv, Orderly
  <2>2. ASSUME NEW k \in DOMAIN socket
        PROVE  /\ \A l \in DOMAIN queue' : queue'[l].n < socket[k].n
               /\ \A l \in DOMAIN sent' : sent'[l].n < socket[k].n
    <3>1. \A l \in DOMAIN queue' : queue'[l].n < socket[k].n
      BY <1>5, <2>1 DEF Newer
    <3>2. \A l \in DOMAIN sent : sent'[l].n < socket[k].n
      BY <1>13, <2>1 DEF Newer
    <3>3. sent'[top].n < socket[k].n
      BY <1>14, <2>1 DEF Newer
    <3> QED
      BY <1>13, <3>1, <3>2, <3>3
  <2> QED
    BY <1>1, <2>1, <2>2 DEF Newer
<1>21. Unheard'
  BY <1>1, <1>7 DEF Unheard
<1> QED
  BY <1>15, <1>16, <1>17, <1>18, <1>19, <1>20, <1>21 DEF IInv, Orderly

-----------------------------------------------------------------------------
\* The theorems.

\* Nothing has been heard yet.
LEMMA InitHolds == Init => IInv
<1> SUFFICES ASSUME Init PROVE IInv
  OBVIOUS
<1>1. socket = <<>> /\ queue = <<>> /\ sent = <<>> /\ arrivals = 0 /\ last_clock = 0
      /\ src_addr = Nobody /\ running = TRUE
  BY DEF Init
<1>2. \A S : <<>> \in Seq(S)
  BY EmptySeq
<1>3. options \in {Parsed(line) : line \in CommandLines}
  BY DEF Init
<1>4. RelayTypeOK
  BY <1>1, <1>2, <1>3, RelayConstants DEF RelayTypeOK
<1>5. src_addr # Dest
  BY <1>1, RelayConstants DEF Hosts
<1>6. DOMAIN socket = {} /\ DOMAIN queue = {} /\ DOMAIN sent = {}
  BY <1>1
<1> QED
  BY <1>1, <1>4, <1>5, <1>6 DEF IInv, Orderly, Newer, HeldInOrder, SentBeforeHeld,
     Unheard, Paired, OnceInOrder

\* Every step keeps the invariant, the steps in which nothing happens included.
LEMMA StepKeeps == IInv /\ [Next]_vars => IInv'
<1> SUFFICES ASSUME IInv, [Next]_vars PROVE IInv'
  OBVIOUS
<1>1. CASE UNCHANGED vars
  <2>1. UNCHANGED <<options, src_addr, last_clock, socket, queue, sent, arrivals, running>>
    BY <1>1 DEF vars, link
  <2>2. RelayTypeOK' /\ Paired'
    BY <2>1 DEF IInv, RelayTypeOK, Paired, Pair
  <2>3. OnceInOrder'
    BY <2>1 DEF IInv, OnceInOrder, SameDate
  <2>4. Orderly'
    BY <2>1 DEF IInv, Orderly, Newer, HeldInOrder, SentBeforeHeld, SameWay, Unheard, Pair
  <2> QED
    BY <2>2, <2>3, <2>4 DEF IInv
<1>2. CASE Next
  BY <1>2, KindsOfSteps, ArriveKeeps, PassesKeeps, SendsKeeps, HoldsKeeps, DeliverKeeps
     DEF IInv
<1> QED
  BY <1>1, <1>2

\* The invariant that the properties below follow from, for any hosts and options.
THEOREM RelayInvariant == Spec => []IInv
<1> QED
  BY InitHolds, StepKeeps, PTL DEF Spec

\* A variable never leaves its type: no host but a sender becomes src_addr.
THEOREM RelayTypeCorrect == Spec => []RelayTypeOK
<1>1. IInv => RelayTypeOK
  BY DEF IInv
<1> QED
  BY <1>1, RelayInvariant, PTL

\* The link pairs the first sender with the receiver, whoever else sends to it.
THEOREM PairedCorrect == Spec => []Paired
<1>1. IInv => Paired
  BY DEF IInv
<1> QED
  BY <1>1, RelayInvariant, PTL

\* No datagram is sent twice, and without jitter each direction keeps its order, except
\* between datagrams that were delayed and arrived at the same reading of the clock.
THEOREM OnceInOrderCorrect == Spec => []OnceInOrder
<1>1. IInv => OnceInOrder
  BY DEF IInv
<1> QED
  BY <1>1, RelayInvariant, PTL

\* A datagram leaves the queue when it is sent, and not before.
THEOREM NothingForgottenCorrect == Spec => NothingForgotten
<1> DEFINE Kept == \A k \in DOMAIN queue : \/ \E l \in DOMAIN queue' : queue'[l] = queue[k]
                                           \/ \E l \in DOMAIN sent' : sent'[l].n = queue[k].n
<1>1. IInv /\ [Next]_vars => [Kept]_vars
  <2> SUFFICES ASSUME IInv, Next PROVE Kept
    OBVIOUS
  <2>1. CASE UNCHANGED queue
    BY <2>1
  <2>2. CASE Holds
    <3>1. PICK harm \in Harms : queue' = Append(queue, Entry(harm))
      BY <2>2 DEF Holds
    <3>2. queue \in Seq(HeldIn(arrivals) \cup {Entry(harm)})
      <4>1. queue \in Seq(HeldIn(arrivals))
        BY DEF IInv, RelayTypeOK, HeldIn
      <4> QED
        BY <4>1, SeqMonotonic
    <3>3. /\ \A k \in DOMAIN queue : queue'[k] = queue[k]
          /\ DOMAIN queue \subseteq DOMAIN queue'
      BY <3>1, <3>2, Appended
    <3> QED
      BY <3>3
  <2>3. CASE Deliver
    <3>1. PICK i \in DOMAIN queue : /\ queue' = Without(i)
                                   /\ WriteOut(queue[i])
      BY <2>3 DEF Deliver
    <3>2. queue \in Seq(HeldIn(arrivals))
      BY DEF IInv, RelayTypeOK, HeldIn
    <3>3. \A k \in DOMAIN queue :
            k = i \/ \E l \in DOMAIN queue' : queue'[l] = queue[k]
      BY <3>1, <3>2, Taken
    <3>4. \E l \in DOMAIN sent' : sent'[l].n = queue[i].n
      <4> DEFINE e == [n |-> queue[i].n, from |-> queue[i].from,
                       to |-> Target(queue[i].direction), harm |-> queue[i].harm,
                       at |-> queue[i].at]
      <4>1. sent' = Append(sent, e)
        BY <3>1 DEF WriteOut
      <4>2. sent \in Seq(SentIn(arrivals) \cup {e})
        <5>1. sent \in Seq(SentIn(arrivals))
          BY DEF IInv, RelayTypeOK, SentIn
        <5> QED
          BY <5>1, SeqMonotonic
      <4>3. Len(sent) + 1 \in DOMAIN sent' /\ sent'[Len(sent) + 1] = e
        BY <4>1, <4>2, Appended
      <4> QED
        BY <4>3
    <3> QED
      BY <3>3, <3>4
  <2>4. RelayTypeOK
    BY DEF IInv
  <2>5. CASE \E from \in Hosts : Arrive(from)
    BY <2>1, <2>5 DEF Arrive, link
  <2>6. CASE Passes \/ Sends
    BY <2>1, <2>6 DEF Passes, Sends
  <2> QED
    BY <2>2, <2>3, <2>4, <2>5, <2>6, KindsOfSteps
<1> QED
  BY <1>1, RelayInvariant, PTL DEF Spec, NothingForgotten
=============================================================================
