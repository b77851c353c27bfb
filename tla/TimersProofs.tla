---------------------------- MODULE TimersProofs ----------------------------
(***************************************************************************)
(* The timers of the sender are long enough: for every file, every fault,  *)
(* and every link that LinkIsFast describes, a packet is sent again only   *)
(* when nothing is under way.                                              *)
(* The timed system takes the steps of the untimed one in which the sender *)
(* answers at once, so it keeps what TransferSafety proves of it, and      *)
(* nothing is assumed any more of when a timer expires.                    *)
(***************************************************************************)
EXTENDS TimedTransfer, TransferSafety

\* A product by the round trip: what k more cuts cost.
LEMMA RoundsStep ==
  ASSUME NEW k \in Nat
  PROVE  Rounds(k) \in Nat /\ Rounds(k + 1) = Rounds(k) + RoundTrip
  BY TimerConstants DEF Rounds, RoundTrip

\* As many cuts as the link may make leave time on either timer.
LEMMA RoundsBound ==
  /\ RoundTrip \in Nat /\ RoundTrip = Delay + Delay
  /\ Rounds(MaxCuts) + RoundTrip < NextTimer
  /\ Rounds(MaxCuts) + RoundTrip < FirstTimer
<1>1. /\ Delay \in Nat /\ MaxCuts \in Nat /\ NextTimer \in Nat /\ FirstTimer \in Nat
      /\ RoundTrip \in Nat
  BY TimerConstants DEF RoundTrip
<1>2. Rounds(MaxCuts + 1) < NextTimer
  BY LinkIsFast DEF Rounds
<1>3. Rounds(MaxCuts + 1) = Rounds(MaxCuts) + RoundTrip /\ Rounds(MaxCuts) \in Nat
  BY <1>1, RoundsStep
<1>4. NextTimer <= FirstTimer
  BY LinkIsFast
<1> QED
  BY <1>1, <1>2, <1>3, <1>4 DEF RoundTrip

ClockTypes == /\ tv \in Nat
              /\ cuts \in 0 .. MaxCuts
              /\ up_left \in Seq(0 .. Delay) /\ Len(up_left) = Len(up)
              /\ down_left \in Seq(0 .. Delay) /\ Len(down_left) = Len(down)

TimedInv == TypeInv /\ ClockTypes /\ OnTime

\* A timed step of the link is one of its steps.
LEMMA LinkIsLink == TimedLink => LinkStep
<1>1. TimedPackets => LinkStep
  BY DEF TimedPackets, LinkStep, LinkNext
<1>2. TimedAcks => LinkStep
  BY DEF TimedAcks, LinkStep, LinkNext
<1> QED
  BY <1>1, <1>2 DEF TimedLink

\* A timed step is a step of the transfer, or one of the clock.
LEMMA TimedIsNext == TimedNext => Next \/ UNCHANGED vars
<1>1. TimedSender => SenderStep
  BY DEF TimedSender, StartTimer, TimerExpired, NackAnswered, SilentSender,
         SenderUnchanged, SenderStep, SenderNext
<1>2. TimedReceiver => ReceiverStep
  BY DEF TimedReceiver
<1>3. TimedLink => LinkStep
  BY LinkIsLink
<1>4. Tick => UNCHANGED vars
  BY DEF Tick
<1> QED
  BY <1>1, <1>2, <1>3, <1>4 DEF TimedNext, Next

\* The types of the transfer are kept by the timed steps.
LEMMA TypesKept == TypeInv /\ [TimedNext]_timedVars => TypeInv'
<1>1. TypeInv /\ UNCHANGED vars => TypeInv'
  BY DEF TypeInv, TypeOK, Spans, SenderTypeOK, ReceiverTypeOK, LinkTypeOK, vars,
         senderVars, receiverVars
<1>2. TypeInv /\ Next => TypeInv'
  BY SenderTyped, ReceiverTyped, LinkTyped DEF Next
<1> QED
  BY <1>1, <1>2, TimedIsNext DEF timedVars

-----------------------------------------------------------------------------
\* The queues, and what an empty or a single-element one is.
LEMMA Queues ==
  ASSUME TypeInv
  PROVE  /\ up \in Seq(PacketType) /\ r_sock \in Seq(PacketType)
         /\ down \in Seq(AckType) /\ s_sock \in Seq(AckType)
         /\ Len(up) \in Nat /\ Len(r_sock) \in Nat
         /\ Len(down) \in Nat /\ Len(s_sock) \in Nat
         /\ up = <<>> <=> Len(up) = 0
         /\ r_sock = <<>> <=> Len(r_sock) = 0
         /\ down = <<>> <=> Len(down) = 0
         /\ s_sock = <<>> <=> Len(s_sock) = 0
<1>1. /\ up \in Seq(PacketType) /\ r_sock \in Seq(PacketType)
      /\ down \in Seq(AckType) /\ s_sock \in Seq(AckType)
  BY DEF TypeInv, TypeOK, LinkTypeOK
<1> QED
  BY <1>1, LenProperties, EmptySeq

\* A datagram handed to a link that holds nothing is its only one.
LEMMA OnlyOne ==
  ASSUME NEW q, q = <<>>, NEW d
  PROVE  Append(q, d) # <<>> /\ Append(q, d)[1] = d /\ Len(Append(q, d)) = 1
  OBVIOUS

\* A datagram that is alone on its way
LEMMA AloneUnderWay ==
  ASSUME TypeInv, InFlight <= 1
  PROVE  /\ up # <<>> => Len(up) = 1 /\ r_sock = <<>> /\ down = <<>> /\ s_sock = <<>>
         /\ r_sock # <<>> => Len(r_sock) = 1 /\ up = <<>> /\ down = <<>> /\ s_sock = <<>>
         /\ down # <<>> => Len(down) = 1 /\ up = <<>> /\ r_sock = <<>> /\ s_sock = <<>>
         /\ s_sock # <<>> => Len(s_sock) = 1 /\ up = <<>> /\ r_sock = <<>> /\ down = <<>>
<1> DEFINE a == Len(up) b == Len(r_sock) c == Len(down) d == Len(s_sock)
<1>1. /\ a \in Nat /\ b \in Nat /\ c \in Nat /\ d \in Nat
      /\ up = <<>> <=> a = 0
      /\ r_sock = <<>> <=> b = 0
      /\ down = <<>> <=> c = 0
      /\ s_sock = <<>> <=> d = 0
  BY Queues
<1>2. a + b + c + d <= 1
  BY DEF InFlight
<1> HIDE DEF a, b, c, d
<1>3. /\ a # 0 => a = 1 /\ b = 0 /\ c = 0 /\ d = 0
      /\ b # 0 => b = 1 /\ a = 0 /\ c = 0 /\ d = 0
      /\ c # 0 => c = 1 /\ a = 0 /\ b = 0 /\ d = 0
      /\ d # 0 => d = 1 /\ a = 0 /\ b = 0 /\ c = 0
  BY <1>1, <1>2
<1> QED
  BY <1>1, <1>3 DEF a, b, c, d

\* The packets that the sender sends are whole.
LEMMA SentWhole ==
  SendBlock \/ SendFin \/ Resend \/ RecvNack =>
    \E p : up' = Append(up, p) /\ ~p.tr
<1>1. \A seq, payload : ~Packet(seq, payload).tr
  BY DEF Packet
<1>2. SendBlock => \E seq, payload : up' = Append(up, Packet(seq, payload))
  BY DEF SendBlock
<1>3. SendFin \/ Resend \/ RecvNack => \E seq, payload : up' = Append(up, Packet(seq, payload))
  BY DEF SendFin, Resend, RecvNack
<1> QED
  BY <1>1, <1>2, <1>3

\* The cuts that are left before the timer is set again.
LEMMA RemainingType ==
  ASSUME ClockTypes
  PROVE  /\ Remaining \in Nat /\ Remaining <= MaxCuts
         /\ Rounds(Remaining) \in Nat /\ Rounds(Remaining) <= Rounds(MaxCuts)
         /\ Rounds(Remaining + 1) = Rounds(Remaining) + RoundTrip
<1>1. Remaining \in Nat /\ Remaining <= MaxCuts
  BY TimerConstants DEF ClockTypes, Remaining
<1>2. Rounds(Remaining) \in Nat /\ Rounds(Remaining + 1) = Rounds(Remaining) + RoundTrip
  BY <1>1, RoundsStep
<1>3. Rounds(Remaining) <= Rounds(MaxCuts)
  <2>1. RoundTrip \in Nat /\ MaxCuts \in Nat /\ cuts \in Nat
    BY RoundsBound, TimerConstants DEF ClockTypes
  <2>2. RoundTrip * MaxCuts = RoundTrip * Remaining + RoundTrip * cuts
    BY <1>1, <2>1 DEF Remaining
  <2>3. RoundTrip * cuts >= 0 /\ RoundTrip * cuts \in Int
    BY <2>1
  <2> QED
    BY <1>2, <2>1, <2>2, <2>3 DEF Rounds
<1> QED
  BY <1>1, <1>2, <1>3

\* A block, the disconnection, or a packet whose timer has expired: nothing is under way
\* but this packet, and no packet has been cut since the timer was set.
LEMMA AloneOnTime ==
  ASSUME TypeInv, TypeInv', ClockTypes, InFlight = 0,
         SendBlock \/ SendFin \/ Resend,
         up_left' = Append(up_left, Delay), cuts' = 0, SenderUnchanged,
         tv' \in {FirstTimer, NextTimer}
  PROVE  ClockTypes' /\ OnTime'
<1>1. PICK p : up' = Append(up, p) /\ ~p.tr
  BY SentWhole
<1>2. up = <<>> /\ r_sock = <<>> /\ down = <<>> /\ s_sock = <<>>
  BY Queues DEF InFlight
<1>3. up_left \in Seq(0 .. Delay) /\ Len(up_left) = 0 /\ Delay \in 0 .. Delay
      /\ MaxCuts \in Nat /\ FirstTimer \in Nat /\ NextTimer \in Nat
  BY <1>2, TimerConstants DEF ClockTypes
<1>4. up_left = <<>>
  BY <1>3, EmptySeq
<1>5. up'[1] = p /\ Len(up') = 1 /\ up_left'[1] = Delay /\ Len(up_left') = 1
  BY <1>1, <1>2, <1>4, OnlyOne
<1>6. r_sock' = <<>> /\ down' = <<>> /\ s_sock' = <<>> /\ down_left' = down_left
  BY <1>2 DEF SenderUnchanged, SendBlock, SendFin, Resend
<1>7. ClockTypes'
  <2>1. up_left' \in Seq(0 .. Delay)
    BY <1>3, AppendStays
  <2> QED
    BY <1>2, <1>3, <1>5, <1>6, <2>1 DEF ClockTypes
<1>8. Remaining' = MaxCuts
  BY <1>3 DEF Remaining
<1>9. tv' > Delay + Delay + Rounds(Remaining')
  <2>1. Rounds(MaxCuts) \in Nat /\ Delay \in Nat
    BY RoundsStep, TimerConstants
  <2> QED
    BY <1>3, <1>8, <2>1, RoundsBound
<1>10. Rounds(Remaining)' = Rounds(Remaining')
  BY DEF Rounds
<1>11. InFlight' <= 1
  BY <1>5, <1>6 DEF InFlight
<1>12. s_pc' # "read"
  BY DEF SendBlock, SendFin, Resend
<1> QED
  BY <1>1, <1>5, <1>6, <1>7, <1>9, <1>10, <1>11, <1>12 DEF OnTime

\* A step of the sender.
LEMMA SenderOnTime ==
  ASSUME TimedInv, TypeInv', TimedSender
  PROVE  ClockTypes' /\ OnTime' /\ (TimerExpired => InFlight = 0)
<1>0. TypeInv /\ ClockTypes /\ OnTime
  BY DEF TimedInv
<1>1. SenderUnchanged /\ FirstTimer \in {FirstTimer, NextTimer}
      /\ NextTimer \in {FirstTimer, NextTimer}
  BY DEF TimedSender, StartTimer, TimerExpired, NackAnswered, SilentSender
<1>2. /\ up \in Seq(PacketType) /\ r_sock \in Seq(PacketType)
      /\ down \in Seq(AckType) /\ s_sock \in Seq(AckType)
      /\ Len(up) \in Nat /\ Len(r_sock) \in Nat
      /\ Len(down) \in Nat /\ Len(s_sock) \in Nat
      /\ up = <<>> <=> Len(up) = 0
      /\ r_sock = <<>> <=> Len(r_sock) = 0
      /\ down = <<>> <=> Len(down) = 0
      /\ s_sock = <<>> <=> Len(s_sock) = 0
  BY <1>0, Queues
<1>3. CASE StartTimer
  <2>1. s_pc = "read"
    BY <1>3 DEF StartTimer, SendBlock, SendFin
  <2>2. InFlight = 0
    BY <1>0, <2>1 DEF OnTime
  <2>3. ~TimerExpired
    BY <2>1 DEF TimerExpired, Resend
  <2> QED
    BY <1>0, <1>1, <1>3, <2>2, <2>3, AloneOnTime DEF StartTimer
<1>4. CASE TimerExpired
  <2>1. s_pc \in {"wait", "fin"} /\ s_sock = <<>> /\ tv = 0
    BY <1>4 DEF TimerExpired, Resend, TimerExpires
  <2>2. Delay \in Nat /\ Rounds(Remaining) \in Nat /\ Rounds(Remaining + 1) \in Nat
    BY <1>0, RemainingType, RoundsBound, TimerConstants
  <2>3. up = <<>>
    <3>1. SUFFICES ASSUME up # <<>> PROVE FALSE
      OBVIOUS
    <3>2. Len(up_left) # 0 /\ Len(up_left) \in Nat /\ up_left \in Seq(0 .. Delay)
      BY <1>0, <1>2, <3>1 DEF ClockTypes
    <3>3. up_left[1] \in 0 .. Delay
      <4>1. 1 \in 1 .. Len(up_left)
        BY <3>2
      <4> QED
        BY <3>2, <4>1, ElementOfSeq
    <3> QED
      BY <1>0, <2>1, <2>2, <3>1, <3>3 DEF OnTime
  <2>4. r_sock = <<>>
    BY <1>0, <2>1, <2>2 DEF OnTime
  <2>5. down = <<>>
    <3>1. SUFFICES ASSUME down # <<>> PROVE FALSE
      OBVIOUS
    <3>2. Len(down_left) # 0 /\ Len(down_left) \in Nat /\ down_left \in Seq(0 .. Delay)
      BY <1>0, <1>2, <3>1 DEF ClockTypes
    <3>3. down_left[1] \in 0 .. Delay
      <4>1. 1 \in 1 .. Len(down_left)
        BY <3>2
      <4> QED
        BY <3>2, <4>1, ElementOfSeq
    <3> QED
      BY <1>0, <2>1, <2>2, <3>1, <3>3 DEF OnTime
  <2>6. InFlight = 0
    BY <1>2, <2>1, <2>3, <2>4, <2>5 DEF InFlight
  <2> QED
    BY <1>0, <1>1, <1>4, <2>6, AloneOnTime DEF TimerExpired
<1>5. CASE NackAnswered
  <2>1. /\ s_pc = "wait" /\ s_pc' = "wait" /\ s_sock # <<>> /\ IsNack(Head(s_sock))
        /\ s_sock' = Tail(s_sock) /\ up_left' = Append(up_left, Delay)
        /\ tv' = tv /\ cuts' = cuts
    BY <1>5 DEF NackAnswered, RecvNack, Received, IsNack
  <2>2. PICK p : up' = Append(up, p) /\ ~p.tr
    BY <1>5, SentWhole DEF NackAnswered
  <2>3. InFlight <= 1
    BY <1>0, <2>1 DEF OnTime
  <2>4. Len(s_sock) = 1 /\ up = <<>> /\ r_sock = <<>> /\ down = <<>>
    BY <1>0, <2>1, <2>3, AloneUnderWay
  <2>5. s_sock' = <<>>
    BY <1>2, <2>1, <2>4, HeadTailProperties, EmptySeq
  <2>6. Head(s_sock) = s_sock[1]
    BY <1>2, <2>4
  <2>7. tv > Rounds(Remaining + 1)
    BY <1>0, <2>1, <2>6 DEF OnTime
  <2>8. up_left \in Seq(0 .. Delay) /\ Len(up_left) = 0 /\ Delay \in 0 .. Delay
    BY <1>2, <2>4, TimerConstants DEF ClockTypes, TimedInv
  <2>9. up_left = <<>>
    BY <2>8, EmptySeq
  <2>10. up'[1] = p /\ Len(up') = 1 /\ up_left'[1] = Delay /\ Len(up_left') = 1
    BY <2>1, <2>2, <2>4, <2>9, OnlyOne
  <2>11. ClockTypes'
    <3>1. up_left' \in Seq(0 .. Delay)
      BY <2>1, <2>8, AppendStays
    <3> QED
      BY <1>0, <1>1, <2>1, <2>10, <3>1 DEF ClockTypes, SenderUnchanged
  <2>12. Rounds(Remaining)' = Rounds(Remaining)
    BY <2>1 DEF Rounds, Remaining
  <2>13. tv' > Delay + Delay + Rounds(Remaining)'
    BY <1>0, <2>1, <2>7, <2>12, RemainingType, RoundsBound, TimerConstants DEF ClockTypes
  <2>14. InFlight' <= 1
    BY <1>1, <2>4, <2>5, <2>10 DEF InFlight, SenderUnchanged
  <2> QED
    BY <1>1, <2>1, <2>2, <2>4, <2>5, <2>10, <2>11, <2>13, <2>14
    DEF OnTime, SenderUnchanged, TimerExpired, Resend, TimerExpires
<1>6. CASE SilentSender
  <2>1. /\ up_left' = up_left /\ tv' = tv /\ cuts' = cuts /\ up' = up
        /\ r_sock' = r_sock /\ down' = down /\ down_left' = down_left
    BY <1>6 DEF SilentSender, SenderUnchanged, SkipBlock, PayloadTooLong, RecvUndecodable,
                RecvAck, RecvStaleNack, RecvFinAck, RecvFinOther
  <2>2. ClockTypes'
    BY <1>0, <2>1 DEF ClockTypes
  <2>3. CASE SkipBlock
    BY <1>0, <2>1, <2>2, <2>3 DEF SkipBlock, OnTime, InFlight, TimerExpired, Resend
  <2>4. CASE RecvAck
    <3>1. s_pc = "wait" /\ s_sock # <<>> /\ (s_pc' = "read" => s_sock' = Tail(s_sock))
          /\ s_pc' \in {"read", "crashed"}
      BY <2>4 DEF RecvAck, Received
    <3>2. InFlight <= 1
      BY <1>0, <3>1 DEF OnTime
    <3>3. Len(s_sock) = 1 /\ up = <<>> /\ r_sock = <<>> /\ down = <<>>
      BY <1>0, <3>1, <3>2, AloneUnderWay
    <3>4. Len(Tail(s_sock)) = 0
      BY <1>2, <3>1, <3>3, HeadTailProperties
    <3>5. s_pc' = "read" => InFlight' = 0
      BY <1>2, <2>1, <3>1, <3>3, <3>4 DEF InFlight
    <3> QED
      BY <2>2, <3>1, <3>5 DEF OnTime, TimerExpired, Resend, TimerExpires
  <2>5. CASE PayloadTooLong \/ RecvUndecodable \/ RecvStaleNack \/ RecvFinAck \/ RecvFinOther
    <3>1. s_pc' \notin {"read", "wait", "fin"}
      BY <2>5 DEF PayloadTooLong, RecvUndecodable, RecvStaleNack, RecvFinAck, RecvFinOther
    <3>2. ~TimerExpired
      BY <3>1 DEF TimerExpired, Resend
    <3> QED
      BY <2>2, <3>1, <3>2 DEF OnTime
  <2> QED
    BY <1>6, <2>3, <2>4, <2>5 DEF SilentSender
<1> QED
  BY <1>3, <1>4, <1>5, <1>6 DEF TimedSender

\* What the receiver does: it takes a datagram and answers at most once, with a NACK only
\* when the datagram is a cut packet.
LEMMA ReceiverAnswers ==
  ASSUME TypeInv, ReceiverStep
  PROVE  /\ r_sock # <<>>
         /\ r_sock' \in {<<>>, Tail(r_sock)}
         /\ \/ down' = down
            \/ \E a : down' = Append(down, a) /\ (IsNack(a) => IsCut(Head(r_sock)))
         /\ UNCHANGED <<s_pc, up, s_sock>>
<1>1. r_sock # <<>>
  BY DEF ReceiverStep, ReceiverNext, RecvIgnored, RecvFin, RecvOutOfWindow,
         RecvTruncated, RecvData, Decoded, Arrives
<1>2. r_sock' \in {<<>>, Tail(r_sock)}
  BY DEF ReceiverStep, ReceiverNext, RecvIgnored, RecvFin, RecvOutOfWindow,
         RecvTruncated, RecvData
<1>3. \A seq, window : ~IsNack(Ack("ack", seq, window))
  BY DEF IsNack, Ack, Acknowledges
<1>4. \/ down' = down
      \/ \E a : down' = Append(down, a) /\ (IsNack(a) => IsCut(Head(r_sock)))
  <2>1. CASE RecvIgnored \/ RecvOutOfWindow
    BY <2>1 DEF RecvIgnored, RecvOutOfWindow
  <2>2. CASE RecvFin
    BY <1>3, <2>2 DEF RecvFin
  <2>3. CASE RecvTruncated
    <3>1. IsCut(Head(r_sock))
      BY <2>3 DEF RecvTruncated, Decoded, Truncated, Datagram, IsCut
    <3> QED
      BY <2>3, <3>1 DEF RecvTruncated
  <2>4. CASE RecvData
    <3>1. down' = down \/ \E seq, window : down' = Append(down, Ack("ack", seq, window))
      BY <2>4 DEF RecvData
    <3> QED
      BY <1>3, <3>1
  <2> QED
    BY <2>1, <2>2, <2>3, <2>4 DEF ReceiverStep, ReceiverNext
<1> QED
  BY <1>1, <1>2, <1>4 DEF ReceiverStep

\* A step of the receiver.
LEMMA ReceiverOnTime ==
  ASSUME TimedInv, TypeInv', TimedReceiver
  PROVE  ClockTypes' /\ OnTime'
<1>0. TypeInv /\ ClockTypes /\ OnTime
  BY DEF TimedInv
<1>1. ReceiverStep /\ UNCHANGED <<tv, up_left, cuts>>
      /\ down_left' = IF down' = down THEN down_left ELSE Append(down_left, Delay)
  BY DEF TimedReceiver
<1>2. /\ r_sock # <<>>
      /\ r_sock' \in {<<>>, Tail(r_sock)}
      /\ \/ down' = down
         \/ \E a : down' = Append(down, a) /\ (IsNack(a) => IsCut(Head(r_sock)))
      /\ UNCHANGED <<s_pc, up, s_sock>>
  BY <1>0, <1>1, ReceiverAnswers
<1>3. Len(down) \in Nat /\ down \in Seq(AckType) /\ down_left \in Seq(0 .. Delay)
      /\ Len(down_left) = Len(down) /\ Delay \in 0 .. Delay
  BY <1>0, Queues, TimerConstants DEF ClockTypes
<1>4. ASSUME NEW a, down' = Append(down, a)
      PROVE  /\ down' # down /\ Len(down') = Len(down) + 1
             /\ down_left' = Append(down_left, Delay)
             /\ Len(down_left') = Len(down_left) + 1
             /\ down_left' \in Seq(0 .. Delay)
  <2>1. Len(down') = Len(down) + 1
    BY <1>3, <1>4
  <2>2. down' # down
    BY <1>3, <2>1
  <2> QED
    BY <1>1, <1>3, <2>1, <2>2, AppendStays
<1>5. ClockTypes'
  BY <1>0, <1>1, <1>2, <1>3, <1>4 DEF ClockTypes
<1>6. s_pc # "read"
  BY <1>0, <1>2, Queues DEF OnTime, InFlight
<1>7. ASSUME s_pc \in {"wait", "fin"} PROVE OnTime'
  <2>1. Len(r_sock) = 1 /\ up = <<>> /\ down = <<>> /\ s_sock = <<>>
    BY <1>0, <1>2, <1>7, AloneUnderWay DEF OnTime
  <2>2. r_sock[1] = Head(r_sock) /\ r_sock' = <<>>
    <3>1. r_sock \in Seq(PacketType)
      BY <1>0, Queues
    <3>2. Len(Tail(r_sock)) = 0 /\ Tail(r_sock) \in Seq(PacketType)
      BY <1>2, <2>1, <3>1, HeadTailProperties
    <3> QED
      BY <1>2, <2>1, <3>1, <3>2, EmptySeq
  <2>3. /\ tv > Delay + (IF IsCut(Head(r_sock)) THEN Rounds(Remaining + 1) ELSE 0)
        /\ Rounds(Remaining + 1) \in Nat /\ tv \in Nat /\ Delay \in Nat
    <3>1. Rounds(Remaining + 1) \in Nat /\ tv \in Nat /\ Delay \in Nat
      BY <1>0, RemainingType, RoundsBound, TimerConstants DEF ClockTypes
    <3> QED
      BY <1>0, <1>2, <1>7, <2>2, <3>1 DEF OnTime
  <2>4. Rounds(Remaining + 1)' = Rounds(Remaining + 1)
    BY <1>1 DEF Rounds, Remaining
  <2>5. CASE down' = down
    BY <1>2, <1>6, <2>1, <2>2, <2>5 DEF OnTime, InFlight
  <2>6. ASSUME NEW a, down' = Append(down, a), IsNack(a) => IsCut(Head(r_sock))
        PROVE  OnTime'
    <3>1. down_left = <<>>
      BY <1>3, <2>1, EmptySeq
    <3>2. Len(down') = 1 /\ down'[1] = a /\ down_left'[1] = Delay
      BY <1>4, <2>1, <2>6, <3>1, OnlyOne
    <3>3. InFlight' <= 1
      BY <1>2, <2>1, <2>2, <3>2 DEF InFlight
    <3>4. tv' > down_left'[1] + (IF IsNack(a) THEN Rounds(Remaining + 1)' ELSE 0)
      BY <1>1, <2>3, <2>4, <2>6, <3>2
    <3>5. IsNack(down[1])' = IsNack(a)
      BY <3>2 DEF IsNack, AckDecodes, Acknowledges
    <3> QED
      BY <1>2, <1>6, <2>1, <2>2, <3>2, <3>3, <3>4, <3>5 DEF OnTime
  <2> QED
    BY <1>2, <2>5, <2>6
<1> QED
  BY <1>2, <1>5, <1>6, <1>7 DEF OnTime

\* A step of the clock.
LEMMA TickOnTime ==
  ASSUME TimedInv, TypeInv', Tick
  PROVE  ClockTypes' /\ OnTime'
<1>0. TypeInv /\ ClockTypes /\ OnTime
  BY DEF TimedInv
<1>1. /\ s_pc \in Waiting /\ s_sock = <<>> /\ r_sock = <<>>
      /\ \A i \in DOMAIN up_left : up_left[i] > 0
      /\ \A i \in DOMAIN down_left : down_left[i] > 0
      /\ s_pc # "fin_block" => tv > 0 /\ tv' = tv - 1
      /\ s_pc = "fin_block" => tv' = tv
      /\ up_left' = OneLess(up_left) /\ down_left' = OneLess(down_left)
      /\ UNCHANGED vars /\ cuts' = cuts
  BY DEF Tick
<1>2. UNCHANGED <<s_pc, up, r_sock, down, s_sock>>
  BY <1>1 DEF vars
<1>3. ASSUME NEW left \in Seq(0 .. Delay), \A i \in DOMAIN left : left[i] > 0
      PROVE  /\ OneLess(left) \in Seq(0 .. Delay) /\ Len(OneLess(left)) = Len(left)
             /\ Len(left) # 0 => /\ OneLess(left)[1] = left[1] - 1 /\ left[1] \in 0 .. Delay
  <2>1. Len(left) \in Nat /\ DOMAIN left = 1 .. Len(left)
        /\ \A i \in 1 .. Len(left) : left[i] \in 0 .. Delay
    BY <1>3, LenProperties, ElementOfSeq
  <2>2. \A i \in 1 .. Len(left) : left[i] - 1 \in 0 .. Delay
    BY <1>3, <2>1, TimerConstants
  <2> QED
    BY <2>1, <2>2 DEF OneLess
<1>4. ClockTypes'
  BY <1>0, <1>1, <1>2, <1>3 DEF ClockTypes
<1>5. ASSUME s_pc \in {"wait", "fin"} PROVE OnTime'
  <2>1. tv' = tv - 1 /\ tv \in Nat
    BY <1>0, <1>1, <1>5 DEF ClockTypes
  <2>2. /\ Rounds(Remaining)' = Rounds(Remaining)
        /\ Rounds(Remaining + 1)' = Rounds(Remaining + 1)
        /\ Rounds(Remaining) \in Nat /\ Rounds(Remaining + 1) \in Nat /\ Delay \in Nat
    <3>1. /\ Rounds(Remaining)' = Rounds(Remaining)
          /\ Rounds(Remaining + 1)' = Rounds(Remaining + 1)
      BY <1>1 DEF Rounds, Remaining
    <3>2. Rounds(Remaining) \in Nat /\ Rounds(Remaining + 1) \in Nat /\ Delay \in Nat
      BY <1>0, RemainingType, RoundsBound, TimerConstants
    <3> QED
      BY <3>1, <3>2
  <2>3. InFlight' = InFlight /\ InFlight <= 1
    BY <1>0, <1>2, <1>5 DEF InFlight, OnTime
  <2>4. up # <<>> => ~up'[1].tr /\ tv' > up_left'[1] + Delay + Rounds(Remaining)'
    <3>1. up # <<>> => Len(up_left) # 0
      BY <1>0, Queues DEF ClockTypes
    <3>2. up # <<>> => up_left'[1] = up_left[1] - 1 /\ up_left[1] \in 0 .. Delay
      BY <1>0, <1>1, <1>3, <3>1 DEF ClockTypes
    <3>3. up # <<>> => ~up[1].tr /\ tv > up_left[1] + Delay + Rounds(Remaining)
      BY <1>0, <1>5 DEF OnTime
    <3> QED
      BY <1>2, <2>1, <2>2, <3>2, <3>3
  <2>5. down # <<>> =>
          tv' > down_left'[1] + (IF IsNack(down[1])' THEN Rounds(Remaining + 1)' ELSE 0)
    <3>1. down # <<>> => Len(down_left) # 0
      BY <1>0, Queues DEF ClockTypes
    <3>2. down # <<>> => down_left'[1] = down_left[1] - 1 /\ down_left[1] \in 0 .. Delay
      BY <1>0, <1>1, <1>3, <3>1 DEF ClockTypes
    <3>3. down # <<>> =>
            tv > down_left[1] + (IF IsNack(down[1]) THEN Rounds(Remaining + 1) ELSE 0)
      BY <1>0, <1>5 DEF OnTime
    <3>4. IsNack(down[1])' = IsNack(down[1])
      BY <1>2 DEF IsNack, AckDecodes, Acknowledges
    <3> QED
      BY <2>1, <2>2, <3>2, <3>3, <3>4
  <2> QED
    BY <1>1, <1>2, <1>5, <2>3, <2>4, <2>5 DEF OnTime
<1> QED
  BY <1>1, <1>2, <1>4, <1>5 DEF OnTime, Waiting

\* What the link does to a packet: it leaves the link, and at most one comes out of it, cut
\* only when it counts as such.
LEMMA PacketLeaves ==
  ASSUME TypeInv, TimedPackets
  PROVE  \E i \in DOMAIN up :
           /\ up' = Without(up, i)
           /\ \/ r_sock' = r_sock
              \/ \E p : /\ r_sock' = r_sock \o <<p>>
                        /\ ~up[i].tr /\ IsCut(p) => cuts < MaxCuts /\ cuts' = cuts + 1
<1>1. Due(up, "forward") \subseteq DOMAIN up
  BY DEF Due
<1>6. r_sock \o <<>> = r_sock /\ \A i \in DOMAIN up : up[i] \in PacketType
  BY Queues, ConcatEmptySeq, LenProperties, ElementOfSeq
<1>2. CASE RelayPacket
  <2>1. PICK i \in Due(up, "forward") : Forward(i, <<up[i]>>)
    BY <1>2 DEF RelayPacket
  <2> QED
    BY <1>1, <2>1 DEF Forward, IsCut
<1>3. CASE DropPacket
  <2>1. PICK i \in Due(up, "forward") : Forward(i, <<>>)
    BY <1>3 DEF DropPacket
  <2> QED
    BY <1>1, <1>6, <2>1 DEF Forward
<1>4. CASE AlterPacket
  <2>1. PICK i \in Due(up, "forward") : \E p \in CorruptPacket(up[i]) : Forward(i, <<p>>)
    BY <1>4 DEF AlterPacket
  <2>2. PICK p \in CorruptPacket(up[i]) : Forward(i, <<p>>)
    BY <2>1
  <2>3. ~up[i].tr => ~IsCut(p)
    BY <1>1, <1>6, <2>2 DEF CorruptPacket, CorruptHeader, IsCut, PktDecodes, PacketType
  <2> QED
    BY <1>1, <2>2, <2>3 DEF Forward
<1>5. CASE CutPacket /\ cuts < MaxCuts /\ cuts' = cuts + 1
  <2>1. PICK i \in Due(up, "forward") : Forward(i, <<Cut(up[i])>>)
    BY <1>5 DEF CutPacket
  <2> QED
    BY <1>1, <1>5, <2>1 DEF Forward
<1> QED
  BY <1>2, <1>3, <1>4, <1>5 DEF TimedPackets

\* A step of the link towards the sender: one acknowledgement leaves, or is cut on the way.
LEMMA AckLeaves ==
  ASSUME TypeInv, TimedAcks
  PROVE  \E i \in DOMAIN down :
           /\ down' = Without(down, i)
           /\ \/ s_sock' = s_sock
              \/ \E a : /\ s_sock' = s_sock \o <<a>>
                        /\ IsNack(a) => IsNack(down[i])
<1>1. Due(down, "reverse") \subseteq DOMAIN down
  BY DEF Due
<1>6. s_sock \o <<>> = s_sock /\ \A i \in DOMAIN down : down[i] \in AckType
  BY Queues, ConcatEmptySeq, LenProperties, ElementOfSeq
<1>2. CASE RelayAck
  <2>1. PICK i \in Due(down, "reverse") : Reverse(i, <<down[i]>>)
    BY <1>2 DEF RelayAck
  <2> QED
    BY <1>1, <1>6, <2>1 DEF Reverse
<1>3. CASE DropAck
  <2>1. PICK i \in Due(down, "reverse") : Reverse(i, <<>>)
    BY <1>3 DEF DropAck
  <2> QED
    BY <1>1, <1>6, <2>1 DEF Reverse
<1>4. CASE CutAck
  <2>1. PICK i \in Due(down, "reverse") : CutApplies(down[i]) /\ Reverse(i, <<Cut(down[i])>>)
    BY <1>4 DEF CutAck
  <2>2. ~IsNack(Cut(down[i]))
    BY <1>1, <1>6 DEF IsNack, AckDecodes, Cut, AckType
  <2> QED
    BY <1>1, <2>1, <2>2 DEF Reverse
<1>5. CASE AlterAck
  <2>1. PICK i \in Due(down, "reverse") : \E a \in CorruptHeader(down[i]) : Reverse(i, <<a>>)
    BY <1>5 DEF AlterAck
  <2>2. PICK a \in CorruptHeader(down[i]) : Reverse(i, <<a>>)
    BY <2>1
  <2>3. ~IsNack(a)
    BY <1>1, <1>6, <2>2 DEF CorruptHeader, IsNack, AckDecodes, AckType
  <2> QED
    BY <1>1, <2>2, <2>3 DEF Reverse
<1> QED
  BY <1>2, <1>3, <1>4, <1>5 DEF TimedAcks

\* The times follow their datagrams out of the link.
LEMMA LeavesTogether ==
  ASSUME NEW S, NEW q \in Seq(S), NEW left \in Seq(0 .. Delay), Len(left) = Len(q),
         NEW k \in DOMAIN q
  PROVE  /\ Without(left, k) \in Seq(0 .. Delay)
         /\ Len(Without(left, k)) = Len(Without(q, k))
         /\ Len(Without(q, k)) = Len(q) - 1
<1>1. k \in DOMAIN left
  BY LenProperties
<1> QED
  BY <1>1, WithoutStays

\* A step of the link towards the receiver.
LEMMA PacketsOnTime ==
  ASSUME TimedInv, TypeInv', TimedPackets
  PROVE  ClockTypes' /\ OnTime'
<1>0. TypeInv /\ ClockTypes /\ OnTime
  BY DEF TimedInv
<1>1. PICK i \in DOMAIN up :
        /\ up' = Without(up, i)
        /\ \/ r_sock' = r_sock
           \/ \E p : /\ r_sock' = r_sock \o <<p>>
                     /\ ~up[i].tr /\ IsCut(p) => cuts < MaxCuts /\ cuts' = cuts + 1
  BY <1>0, PacketLeaves
<1>2. /\ UNCHANGED <<s_pc, tv, down_left, down, s_sock>>
      /\ cuts' = cuts \/ (cuts < MaxCuts /\ cuts' = cuts + 1)
      /\ \E k \in DOMAIN up : up' = Without(up, k) /\ up_left' = Without(up_left, k)
  BY DEF TimedPackets, Leaves, RelayPacket, DropPacket, AlterPacket, CutPacket, Forward
<1>3. /\ up \in Seq(PacketType) /\ Len(up) \in Nat /\ DOMAIN up = 1 .. Len(up)
      /\ r_sock \in Seq(PacketType)
  BY <1>0, Queues, LenProperties
<1>4. up_left' \in Seq(0 .. Delay) /\ Len(up_left') = Len(up') /\ Len(up') = Len(up) - 1
  <2>1. up_left \in Seq(0 .. Delay) /\ Len(up_left) = Len(up)
    BY <1>0 DEF ClockTypes
  <2>2. PICK k \in DOMAIN up : up' = Without(up, k) /\ up_left' = Without(up_left, k)
    BY <1>2
  <2> QED
    BY <1>3, <2>1, <2>2, LeavesTogether
<1>5. ClockTypes'
  BY <1>0, <1>2, <1>4, TimerConstants DEF ClockTypes
<1>6. up # <<>>
  BY <1>1
<1>7. s_pc # "read"
  BY <1>0, <1>6, Queues DEF OnTime, InFlight
<1>8. ASSUME s_pc \in {"wait", "fin"} PROVE OnTime'
  <2>1. Len(up) = 1 /\ r_sock = <<>> /\ down = <<>> /\ s_sock = <<>>
    BY <1>0, <1>6, <1>8, AloneUnderWay DEF OnTime
  <2>2. i = 1
    BY <1>3, <2>1
  <2>3. up' = <<>> /\ Len(up') = 0
    <3>1. Len(up') = 0
      BY <1>4, <2>1
    <3>2. up' \in Seq(PacketType)
      BY DEF TypeInv, TypeOK, LinkTypeOK
    <3> QED
      BY <3>1, <3>2, EmptySeq
  <2>4. up_left[1] \in 0 .. Delay
    <3>1. up_left \in Seq(0 .. Delay) /\ 1 \in 1 .. Len(up_left)
      BY <1>0, <2>1 DEF ClockTypes
    <3> QED
      BY <3>1, ElementOfSeq
  <2>5. ~up[1].tr /\ tv > up_left[1] + Delay + Rounds(Remaining)
    BY <1>0, <1>6, <1>8 DEF OnTime
  <2>6. /\ Rounds(Remaining) \in Nat /\ tv \in Nat /\ Delay \in Nat
    BY <1>0, RemainingType, TimerConstants DEF ClockTypes
  <2>7. tv > Delay + Rounds(Remaining) /\ tv > Delay
    BY <2>4, <2>5, <2>6
  <2>8. CASE r_sock' = r_sock
    BY <1>2, <1>7, <2>1, <2>3, <2>8 DEF OnTime, InFlight
  <2>9. ASSUME NEW p, r_sock' = r_sock \o <<p>>,
               ~up[i].tr /\ IsCut(p) => cuts < MaxCuts /\ cuts' = cuts + 1
        PROVE  OnTime'
    <3>1. r_sock' = <<p>>
      BY <2>1, <2>9
    <3>2. r_sock'[1] = p /\ Len(r_sock') = 1
      BY <3>1
    <3>3. InFlight' <= 1
      BY <1>2, <2>1, <2>3, <3>2 DEF InFlight
    <3>4. IsCut(p) => Remaining' + 1 = Remaining
      <4>1. IsCut(p) => cuts' = cuts + 1
        BY <2>2, <2>5, <2>9
      <4>2. cuts \in Nat /\ MaxCuts \in Nat
        BY <1>0, TimerConstants DEF ClockTypes
      <4> QED
        BY <4>1, <4>2 DEF Remaining
    <3>5. IsCut(p) => Rounds(Remaining + 1)' = Rounds(Remaining)
      BY <3>4 DEF Rounds
    <3>6. tv' > Delay + (IF IsCut(p) THEN Rounds(Remaining + 1)' ELSE 0)
      BY <1>2, <2>6, <2>7, <3>5
    <3>7. IsCut(r_sock[1])' = IsCut(p)
      BY <3>2 DEF IsCut, PktDecodes
    <3> QED
      BY <1>2, <1>7, <2>1, <2>3, <3>3, <3>6, <3>7 DEF OnTime
  <2> QED
    BY <1>1, <2>8, <2>9
<1> QED
  BY <1>2, <1>5, <1>7, <1>8 DEF OnTime

\* A step of the link towards the sender.
LEMMA AcksOnTime ==
  ASSUME TimedInv, TypeInv', TimedAcks
  PROVE  ClockTypes' /\ OnTime'
<1>0. TypeInv /\ ClockTypes /\ OnTime
  BY DEF TimedInv
<1>1. PICK i \in DOMAIN down :
        /\ down' = Without(down, i)
        /\ \/ s_sock' = s_sock
           \/ \E a : s_sock' = s_sock \o <<a>> /\ (IsNack(a) => IsNack(down[i]))
  BY <1>0, AckLeaves
<1>2. /\ UNCHANGED <<s_pc, tv, up_left, up, r_sock, cuts>>
      /\ \E k \in DOMAIN down : down' = Without(down, k) /\ down_left' = Without(down_left, k)
  BY DEF TimedAcks, Leaves, RelayAck, DropAck, AlterAck, CutAck, Reverse
<1>3. /\ down \in Seq(AckType) /\ Len(down) \in Nat /\ DOMAIN down = 1 .. Len(down)
      /\ s_sock \in Seq(AckType)
  BY <1>0, Queues, LenProperties
<1>4. down_left' \in Seq(0 .. Delay) /\ Len(down_left') = Len(down')
      /\ Len(down') = Len(down) - 1
  <2>1. down_left \in Seq(0 .. Delay) /\ Len(down_left) = Len(down)
    BY <1>0 DEF ClockTypes
  <2>2. PICK k \in DOMAIN down : down' = Without(down, k) /\ down_left' = Without(down_left, k)
    BY <1>2
  <2> QED
    BY <1>3, <2>1, <2>2, LeavesTogether
<1>5. ClockTypes'
  BY <1>0, <1>2, <1>4 DEF ClockTypes
<1>6. down # <<>>
  BY <1>1
<1>7. s_pc # "read"
  BY <1>0, <1>6, Queues DEF OnTime, InFlight
<1>8. ASSUME s_pc \in {"wait", "fin"} PROVE OnTime'
  <2>1. Len(down) = 1 /\ r_sock = <<>> /\ up = <<>> /\ s_sock = <<>>
    BY <1>0, <1>6, <1>8, AloneUnderWay DEF OnTime
  <2>2. i = 1
    BY <1>3, <2>1
  <2>3. down' = <<>> /\ Len(down') = 0
    <3>1. Len(down') = 0
      BY <1>4, <2>1
    <3>2. down' \in Seq(AckType)
      BY DEF TypeInv, TypeOK, LinkTypeOK
    <3> QED
      BY <3>1, <3>2, EmptySeq
  <2>4. down_left[1] \in 0 .. Delay
    <3>1. down_left \in Seq(0 .. Delay) /\ 1 \in 1 .. Len(down_left)
      BY <1>0, <2>1 DEF ClockTypes
    <3> QED
      BY <3>1, ElementOfSeq
  <2>5. IsNack(down[1]) => tv > down_left[1] + Rounds(Remaining + 1)
    BY <1>0, <1>6, <1>8 DEF OnTime
  <2>6. /\ Rounds(Remaining + 1) \in Nat /\ tv \in Nat
        /\ Rounds(Remaining + 1)' = Rounds(Remaining + 1)
    <3>1. Rounds(Remaining + 1)' = Rounds(Remaining + 1)
      BY <1>2 DEF Rounds, Remaining
    <3> QED
      BY <1>0, <3>1, RemainingType, RoundsBound DEF ClockTypes
  <2>7. CASE s_sock' = s_sock
    BY <1>2, <1>7, <2>1, <2>3, <2>7 DEF OnTime, InFlight
  <2>8. ASSUME NEW a, s_sock' = s_sock \o <<a>>, IsNack(a) => IsNack(down[i])
        PROVE  OnTime'
    <3>1. s_sock' = <<a>>
      BY <2>1, <2>8
    <3>2. s_sock'[1] = a /\ Len(s_sock') = 1
      BY <3>1
    <3>3. InFlight' <= 1
      BY <1>2, <2>1, <2>3, <3>2 DEF InFlight
    <3>4. IsNack(a) => tv' > Rounds(Remaining + 1)'
      BY <1>2, <2>2, <2>4, <2>5, <2>6, <2>8
    <3>5. IsNack(s_sock[1])' = IsNack(a)
      BY <3>2 DEF IsNack, AckDecodes, Acknowledges
    <3> QED
      BY <1>2, <1>7, <2>1, <2>3, <3>3, <3>4, <3>5 DEF OnTime
  <2> QED
    BY <1>1, <2>7, <2>8
<1> QED
  BY <1>2, <1>5, <1>7, <1>8 DEF OnTime

-----------------------------------------------------------------------------
\* The programs start with nothing under way.
LEMMA TimedInitOnTime == TimedInit => TimedInv
<1> SUFFICES ASSUME TimedInit PROVE TimedInv
  OBVIOUS
<1>1. TypeInv
  BY InitTyped DEF TimedInit
<1>2. ClockTypes
  BY TimerConstants DEF TimedInit, Init, LinkInit, ClockTypes
<1>3. OnTime
  BY DEF TimedInit, Init, SenderInit, LinkInit, OnTime, InFlight
<1> QED
  BY <1>1, <1>2, <1>3 DEF TimedInv

\* A timed step keeps the invariant, and a timer that expires finds nothing under way.
LEMMA TimedStep == TimedInv /\ [TimedNext]_timedVars =>
                     TimedInv' /\ (TimerExpired => InFlight = 0)
<1> SUFFICES ASSUME TimedInv, [TimedNext]_timedVars
             PROVE  TimedInv' /\ (TimerExpired => InFlight = 0)
  OBVIOUS
<1>1. TypeInv'
  BY TypesKept DEF TimedInv
<1>2. ~TimedSender => ~TimerExpired
  BY DEF TimedSender
<1>3. CASE TimedSender
  BY <1>1, <1>3, SenderOnTime DEF TimedInv
<1>4. CASE TimedReceiver /\ ~TimedSender
  BY <1>1, <1>2, <1>4, ReceiverOnTime DEF TimedInv
<1>5. CASE TimedLink /\ ~TimedSender
  BY <1>1, <1>2, <1>5, PacketsOnTime, AcksOnTime DEF TimedInv, TimedLink
<1>6. CASE Tick /\ ~TimedSender
  BY <1>1, <1>2, <1>6, TickOnTime DEF TimedInv
<1>7. CASE UNCHANGED timedVars
  <2>1. ~TimerExpired
    <3>1. TypeInv
      BY DEF TimedInv
    <3>2. up \in Seq(PacketType) /\ Len(up) \in Nat
      BY <3>1, Queues
    <3>3. TimerExpired => \E p : up' = Append(up, p)
      BY SentWhole DEF TimerExpired
    <3>4. \A p : Len(Append(up, p)) = Len(up) + 1
      BY <3>2
    <3> QED
      BY <1>7, <3>2, <3>3, <3>4 DEF timedVars, vars
  <2> QED
    BY <1>1, <1>7, <2>1
    DEF TimedInv, ClockTypes, OnTime, timedVars, clockVars, vars, InFlight, Rounds, Remaining,
        IsCut, IsNack, PktDecodes, AckDecodes, Acknowledges
<1> QED
  BY <1>3, <1>4, <1>5, <1>6, <1>7 DEF TimedNext

\* What is left of a timer never exceeds the first one: nothing adds up in `tv`.
LEMMA TimerBound ==
  ASSUME TimedInv, tv <= FirstTimer, [TimedNext]_timedVars
  PROVE  tv' <= FirstTimer
<1>1. tv \in Nat /\ FirstTimer \in Nat /\ NextTimer \in Nat /\ NextTimer <= FirstTimer
  BY TimerConstants, LinkIsFast DEF TimedInv, ClockTypes
<1>2. tv' \in {tv, tv - 1, FirstTimer, NextTimer}
  BY DEF TimedNext, TimedSender, StartTimer, TimerExpired, NackAnswered, SilentSender,
         TimedReceiver, TimedLink, TimedPackets, TimedAcks, Tick, timedVars, clockVars
<1> QED
  BY <1>1, <1>2

\* The type invariant: the clock follows the link, with one time for each datagram under
\* way, no longer than Delay, a timer that is never more than the first one, and no more
\* cuts than the link may make.
THEOREM TimedTypeCorrect == TimedSpec => []TimedTypeOK
<1>1. TimedInit => tv <= FirstTimer
  BY TimerConstants DEF TimedInit
<1>2. TimedInv /\ [TimedNext]_timedVars => TimedInv'
  BY TimedStep
<1>3. TimedInv /\ tv <= FirstTimer /\ [TimedNext]_timedVars => (tv <= FirstTimer)'
  BY TimerBound
<1>4. TimedInv /\ tv <= FirstTimer => TimedTypeOK
  <2> SUFFICES ASSUME TimedInv, tv <= FirstTimer PROVE TimedTypeOK
    OBVIOUS
  <2>1. TypeOK /\ ClockTypes
    BY DEF TimedInv, TypeInv
  <2>2. tv \in 0 .. FirstTimer /\ cuts \in 0 .. MaxCuts
    BY <2>1, TimerConstants DEF ClockTypes
  <2>3. /\ up_left \in [1 .. Len(up) -> 0 .. Delay]
        /\ down_left \in [1 .. Len(down) -> 0 .. Delay]
    BY <2>1, LenProperties DEF ClockTypes
  <2> QED
    BY <2>1, <2>2, <2>3 DEF TimedTypeOK
<1> QED
  BY <1>1, <1>2, <1>3, <1>4, TimedInitOnTime, PTL DEF TimedSpec

\* Along every timed transfer a datagram under way has time to be answered before the
\* timer expires.
THEOREM OnTimeCorrect == TimedSpec => []OnTime
<1>1. TimedInv => OnTime
  BY DEF TimedInv
<1>2. TimedInv /\ [TimedNext]_timedVars => TimedInv'
  BY TimedStep
<1> QED
  BY <1>1, <1>2, TimedInitOnTime, PTL DEF TimedSpec

\* A packet is sent again only when it, or its answer, is lost: the timers of sender.c are
\* long enough for any link that LinkIsFast describes, although a NACK does not set them.
THEOREM RepeatsOnlyLostCorrect == TimedSpec => RepeatsOnlyLost
<1>1. TimedInv /\ [TimedNext]_timedVars => TimedInv'
  BY TimedStep
<1>2. TimedInv /\ [TimedNext]_timedVars => [TimerExpired => InFlight = 0]_timedVars
  BY TimedStep
<1> QED
  BY <1>1, <1>2, TimedInitOnTime, PTL DEF TimedSpec, RepeatsOnlyLost

-----------------------------------------------------------------------------
\* The operators of the quiet transfer are those of the transfer: only the guard of
\* Resend knows Spurious.
LEMMA QuietWindow ==
  /\ \A x, y : Quiet!U8Sub(x, y) = U8Sub(x, y) /\ Quiet!U8Add(x, y) = U8Add(x, y)
  /\ \A x, n : Quiet!DecaleBy(x, n) = DecaleBy(x, n)
  /\ \A x : Quiet!SeqnumInc(x) = SeqnumInc(x)
  /\ \A x, y, z : Quiet!InWindow(x, y, z) = InWindow(x, y, z)
  /\ \A x, y, z : Quiet!SkipToWindow(x, y, z) = SkipToWindow(x, y, z)
  /\ \A x, y : Quiet!SlotIndex(x, y) = SlotIndex(x, y)
<1>1. \A x, y : Quiet!U8Sub(x, y) = U8Sub(x, y) /\ Quiet!U8Add(x, y) = U8Add(x, y)
  BY DEF Quiet!U8Sub, U8Sub, Quiet!U8Add, U8Add
<1>2. \A x, n : Quiet!DecaleBy(x, n) = DecaleBy(x, n)
  BY DEF Quiet!DecaleBy, DecaleBy
<1>3. \A x : Quiet!SeqnumInc(x) = SeqnumInc(x)
  BY DEF Quiet!SeqnumInc, SeqnumInc
<1>4. \A x, y, z : Quiet!InWindow(x, y, z) = InWindow(x, y, z)
  BY DEF Quiet!InWindow, InWindow
<1>5. \A x, y, z : Quiet!SkipToWindow(x, y, z) = SkipToWindow(x, y, z)
  BY <1>4 DEF Quiet!SkipToWindow, SkipToWindow
<1>6. \A x, y : Quiet!SlotIndex(x, y) = SlotIndex(x, y)
  BY DEF Quiet!SlotIndex, SlotIndex
<1> QED
  BY <1>1, <1>2, <1>3, <1>4, <1>5, <1>6

\* The datagrams, and what the link makes of them.
LEMMA QuietDatagrams ==
  /\ \A seq, payload : Quiet!Packet(seq, payload) = Packet(seq, payload)
  /\ \A type, seq, window : Quiet!Ack(type, seq, window) = Ack(type, seq, window)
  /\ \A p : Quiet!PktDecodes(p) = PktDecodes(p)
  /\ \A a : Quiet!AckDecodes(a) = AckDecodes(a)
  /\ \A d : Quiet!Cut(d) = Cut(d)
  /\ \A d : Quiet!CutApplies(d) = CutApplies(d)
  /\ \A d : Quiet!CorruptHeader(d) = CorruptHeader(d)
  /\ \A d : Quiet!CorruptPacket(d) = CorruptPacket(d)
<1>1. \A seq, payload : Quiet!Packet(seq, payload) = Packet(seq, payload)
  BY DEF Quiet!Packet, Packet
<1>2. \A type, seq, window : Quiet!Ack(type, seq, window) = Ack(type, seq, window)
  BY DEF Quiet!Ack, Ack
<1>3. \A p : Quiet!PktDecodes(p) = PktDecodes(p)
  BY DEF Quiet!PktDecodes, PktDecodes
<1>4. \A a : Quiet!AckDecodes(a) = AckDecodes(a)
  BY DEF Quiet!AckDecodes, AckDecodes
<1>5. \A d : Quiet!Cut(d) = Cut(d)
  BY DEF Quiet!Cut, Cut
<1>6. \A d : Quiet!CutApplies(d) = CutApplies(d)
  BY DEF Quiet!CutApplies, CutApplies
<1>7. \A d : Quiet!CorruptHeader(d) = CorruptHeader(d)
  BY DEF Quiet!CorruptHeader, CorruptHeader
<1>8. \A d : Quiet!CorruptPacket(d) = CorruptPacket(d)
  BY <1>7 DEF Quiet!CorruptPacket, CorruptPacket
<1> QED
  BY <1>1, <1>2, <1>3, <1>4, <1>5, <1>6, <1>7, <1>8

\* What the programs find in their buffers.
LEMMA QuietScans ==
  /\ \A block : Quiet!Payload(block) = Payload(block)
  /\ \A seq : Quiet!Matches(seq) = Matches(seq)
  /\ \A slots : Quiet!First(slots) = First(slots)
  /\ \A seq : Quiet!ReadsUninit(seq) = ReadsUninit(seq)
  /\ \A ack : Quiet!Retired(ack) = Retired(ack)
  /\ \A slots : Quiet!Written(slots) = Written(slots)
  /\ Quiet!BufferPlein = BufferPlein
<1>1. \A block : Quiet!Payload(block) = Payload(block)
  BY DEF Quiet!Payload, Payload, Quiet!StrLen, StrLen, Quiet!Terminators, Terminators
<1>2. \A seq : Quiet!Matches(seq) = Matches(seq)
  BY DEF Quiet!Matches, Matches
<1>3. \A slots : Quiet!First(slots) = First(slots)
  BY DEF Quiet!First, First
<1>4. \A seq : Quiet!ReadsUninit(seq) = ReadsUninit(seq)
  BY <1>2 DEF Quiet!ReadsUninit, ReadsUninit
<1>5. \A ack : Quiet!Retired(ack) = Retired(ack)
  BY DEF Quiet!Retired, Retired
<1>6. \A slots : Quiet!Written(slots) = Written(slots)
  BY DEF Quiet!Written, Written
<1>7. Quiet!BufferPlein = BufferPlein
  BY DEF Quiet!BufferPlein, BufferPlein
<1> QED
  BY <1>1, <1>2, <1>3, <1>4, <1>5, <1>6, <1>7

\* The steps of the sender: those that are not the timer's, and the timer's when nothing is
\* under way.
LEMMA QuietSender ==
  /\ SkipBlock \/ SendBlock \/ PayloadTooLong \/ SendFin \/ RecvUndecodable \/ RecvAck
     \/ RecvNack \/ RecvStaleNack \/ RecvFinAck \/ RecvFinOther => Quiet!SenderNext
  /\ Resend /\ InFlight = 0 => Quiet!SenderNext
<1> USE DEF Quiet!senderVars, senderVars, Quiet!EndOfInput, EndOfInput,
            Quiet!Received, Received, Quiet!Acknowledges, Acknowledges,
            Quiet!IsFinAck, IsFinAck
<1>1. SkipBlock => Quiet!SkipBlock
  BY QuietWindow, QuietScans DEF SkipBlock, Quiet!SkipBlock
<1>2. SendBlock => Quiet!SendBlock
  BY QuietWindow, QuietScans, QuietDatagrams DEF SendBlock, Quiet!SendBlock
<1>3. PayloadTooLong => Quiet!PayloadTooLong
  BY QuietWindow, QuietScans DEF PayloadTooLong, Quiet!PayloadTooLong
<1>4. SendFin => Quiet!SendFin
  BY QuietWindow, QuietDatagrams DEF SendFin, Quiet!SendFin
<1>5. Resend /\ InFlight = 0 => Quiet!Resend
  BY QuietDatagrams DEF Resend, Quiet!Resend, TimerExpires, Quiet!TimerExpires,
                        InFlight, Quiet!InFlight
<1>6. RecvUndecodable => Quiet!RecvUndecodable
  BY QuietDatagrams DEF RecvUndecodable, Quiet!RecvUndecodable
<1>7. RecvAck => Quiet!RecvAck
  BY QuietWindow, QuietScans, QuietDatagrams DEF RecvAck, Quiet!RecvAck
<1>8. RecvNack => Quiet!RecvNack
  BY QuietScans, QuietDatagrams DEF RecvNack, Quiet!RecvNack
<1>9. RecvStaleNack => Quiet!RecvStaleNack
  BY QuietScans, QuietDatagrams DEF RecvStaleNack, Quiet!RecvStaleNack
<1>10. RecvFinAck => Quiet!RecvFinAck
  BY QuietWindow, QuietDatagrams DEF RecvFinAck, Quiet!RecvFinAck
<1>11. RecvFinOther => Quiet!RecvFinOther
  BY QuietWindow, QuietDatagrams DEF RecvFinOther, Quiet!RecvFinOther
<1> QED
  BY <1>1, <1>2, <1>3, <1>4, <1>5, <1>6, <1>7, <1>8, <1>9, <1>10, <1>11
  DEF Quiet!SenderNext

\* The steps of the receiver.
LEMMA QuietReceiver == ReceiverNext => Quiet!ReceiverNext
<1> USE DEF Quiet!receiverVars, receiverVars, Quiet!Datagram, Datagram,
            Quiet!Arrives, Arrives, Quiet!Decoded, Decoded, Quiet!Disconnects, Disconnects,
            Quiet!Truncated, Truncated, Quiet!AckSeq, AckSeq
<1>1. RecvIgnored => Quiet!RecvIgnored
  BY QuietDatagrams DEF RecvIgnored, Quiet!RecvIgnored
<1>2. RecvFin => Quiet!RecvFin
  BY QuietWindow, QuietDatagrams DEF RecvFin, Quiet!RecvFin
<1>3. RecvOutOfWindow => Quiet!RecvOutOfWindow
  BY QuietWindow, QuietDatagrams DEF RecvOutOfWindow, Quiet!RecvOutOfWindow
<1>4. RecvTruncated => Quiet!RecvTruncated
  BY QuietWindow, QuietDatagrams DEF RecvTruncated, Quiet!RecvTruncated
<1>5. RecvData => Quiet!RecvData
  BY QuietWindow, QuietScans, QuietDatagrams DEF RecvData, Quiet!RecvData
<1> QED
  BY <1>1, <1>2, <1>3, <1>4, <1>5 DEF ReceiverNext, Quiet!ReceiverNext

\* The steps of the link.
LEMMA QuietLink == LinkNext => Quiet!LinkNext
<1>1. \A q, i : Quiet!Without(q, i) = Without(q, i)
  BY DEF Quiet!Without, Without
<1>2. \A f, d : Quiet!May(f, d) = May(f, d)
  BY DEF Quiet!May, May
<1>3. \A q, d : Quiet!Due(q, d) = Due(q, d)
  BY <1>2 DEF Quiet!Due, Due
<1>4. \A i, out : Forward(i, out) => Quiet!Forward(i, out)
  BY <1>1 DEF Forward, Quiet!Forward
<1>5. \A i, out : Reverse(i, out) => Quiet!Reverse(i, out)
  BY <1>1 DEF Reverse, Quiet!Reverse, Quiet!SenderEnded, SenderEnded
<1>6. RelayPacket => Quiet!RelayPacket
  BY <1>3, <1>4 DEF RelayPacket, Quiet!RelayPacket
<1>7. DropPacket => Quiet!DropPacket
  BY <1>2, <1>3, <1>4 DEF DropPacket, Quiet!DropPacket
<1>8. CutPacket => Quiet!CutPacket
  BY <1>2, <1>3, <1>4, QuietDatagrams DEF CutPacket, Quiet!CutPacket
<1>9. AlterPacket => Quiet!AlterPacket
  BY <1>2, <1>3, <1>4, QuietDatagrams DEF AlterPacket, Quiet!AlterPacket
<1>10. RelayAck => Quiet!RelayAck
  BY <1>3, <1>5 DEF RelayAck, Quiet!RelayAck
<1>11. DropAck => Quiet!DropAck
  BY <1>2, <1>3, <1>5 DEF DropAck, Quiet!DropAck
<1>12. CutAck => Quiet!CutAck
  BY <1>2, <1>3, <1>5, QuietDatagrams DEF CutAck, Quiet!CutAck
<1>13. AlterAck => Quiet!AlterAck
  BY <1>2, <1>3, <1>5, QuietDatagrams DEF AlterAck, Quiet!AlterAck
<1> QED
  BY <1>6, <1>7, <1>8, <1>9, <1>10, <1>11, <1>12, <1>13 DEF LinkNext, Quiet!LinkNext

\* Every step of a timed transfer is one of the quiet transfer, or the clock's.
LEMMA QuietStep ==
  ASSUME TimedInv, [TimedNext]_timedVars
  PROVE  Quiet!Next \/ UNCHANGED Quiet!vars
<1> USE DEF Quiet!receiverVars, receiverVars, Quiet!senderVars, senderVars
<1>1. CASE UNCHANGED vars
  BY <1>1 DEF Quiet!vars, vars
<1>2. CASE TimedSender
  <2>1. UNCHANGED <<r_pc, receiverVars, r_sock, down>>
    BY <1>2 DEF TimedSender, StartTimer, TimerExpired, NackAnswered, SilentSender,
                SenderUnchanged
  <2>2. Quiet!SenderNext
    <3>1. CASE TimerExpired
      BY <3>1, TimedStep, QuietSender DEF TimerExpired
    <3>2. CASE StartTimer \/ NackAnswered \/ SilentSender
      BY <3>2, QuietSender DEF StartTimer, NackAnswered, SilentSender
    <3> QED
      BY <1>2, <3>1, <3>2 DEF TimedSender
  <2> QED
    BY <2>1, <2>2 DEF Quiet!Next, Quiet!SenderStep
<1>3. CASE TimedReceiver
  BY <1>3, QuietReceiver DEF TimedReceiver, ReceiverStep, Quiet!Next, Quiet!ReceiverStep
<1>4. CASE TimedLink
  <2>1. LinkNext /\ UNCHANGED <<s_pc, senderVars, r_pc, receiverVars>>
    BY <1>4 DEF TimedLink, TimedPackets, TimedAcks, LinkNext
  <2> QED
    BY <2>1, QuietLink DEF Quiet!Next, Quiet!LinkStep
<1> QED
  BY <1>1, <1>2, <1>3, <1>4, TimedIsNext DEF TimedNext, Tick, timedVars

\* The initial states are those of the quiet transfer.
LEMMA QuietInit == TimedInit => Quiet!Init
  BY DEF TimedInit, Init, Quiet!Init, SenderInit, Quiet!SenderInit, ReceiverInit,
         Quiet!ReceiverInit, LinkInit, Quiet!LinkInit

\* A transfer whose timers are long enough for the link is a transfer in which no timer
\* expires while a datagram is under way (Spurious = FALSE): the safety half of
\* ImplementsQuiet.
THEOREM TimersImplementQuiet == TimedSpec => Quiet!Spec
<1>1. TimedInv /\ [TimedNext]_timedVars => TimedInv'
  BY TimedStep
<1>2. TimedInv /\ [TimedNext]_timedVars => [Quiet!Next]_(Quiet!vars)
  BY QuietStep
<1> QED
  BY <1>1, <1>2, TimedInitOnTime, QuietInit, PTL DEF TimedSpec, Quiet!Spec

-----------------------------------------------------------------------------
(* What follows of the transfer with the timers of sender.c, over a link that is
   fast enough for them. *)

\* With such timers every step is one in which a timer expires only when nothing is under
\* way.
LEMMA TimedIsPrompt ==
  ASSUME TimedInv, [TimedNext]_timedVars
  PROVE  PromptNext \/ UNCHANGED vars
<1>1. TimerExpired => InFlight = 0
  BY TimedStep
<1>2. TimedSender => PromptSender
  BY <1>1 DEF TimedSender, StartTimer, TimerExpired, NackAnswered, SilentSender,
              SenderUnchanged, PromptSender
<1>3. TimedReceiver => ReceiverStep
  BY DEF TimedReceiver
<1>4. TimedLink => LinkStep
  BY LinkIsLink
<1> QED
  BY <1>2, <1>3, <1>4 DEF TimedNext, Tick, timedVars, PromptNext

\* A transfer with such timers is one whose timers are prompt.
LEMMA TimedIsPromptSpec == TimedSpec => PromptSpec
<1>1. TimedInit => Init
  BY DEF TimedInit
<1>2. TimedInv /\ [TimedNext]_timedVars => TimedInv'
  BY TimedStep
<1>3. TimedInv /\ [TimedNext]_timedVars => [PromptNext]_vars
  BY TimedIsPrompt
<1> QED
  BY <1>1, <1>2, <1>3, TimedInitOnTime, PTL DEF TimedSpec, PromptSpec

\* Whatever the link does to a datagram, sender and receiver agree on the one packet that
\* waits, for a file of any length (sender.c:164, sender.c:448-461, receiver.c:237).
THEOREM TimedStopAndWait == TimedSpec => []StopAndWait
<1>1. SInv => StopAndWait
  BY DEF SInv
<1> QED
  BY <1>1, TimedIsPromptSpec, PromptInvariant, PTL

\* No more than M + W packets are accepted, and the sender does not exit with 0 when the
\* file has more (sender.c:164, sender.c:448).
THEOREM TimedStandsStill == TimedSpec => []StandsStill
BY TimedIsPromptSpec, PromptSafety, PTL

\* The receiver gives up (receiver.c:237) only on the repetition of a packet whose ACK is
\* lost, or on packet M + W.
THEOREM TimedGivesUp == TimedSpec => GivesUpOnLostAck
BY TimedIsPromptSpec, PromptGivesUp, PTL

\* On any link, for a file of any length, what is written is each block that is not skipped,
\* once and in its turn, all of them when the sender exits with 0.
THEOREM TimedLines == TimedSpec => []LinesWritten
BY TimedIsPromptSpec, PromptSafety, PTL

\* ... and the promise of a reliable transfer is kept, as far as safety goes.
THEOREM TimedRefinement == TimedSpec => ImplementsPromise
BY TimedIsPromptSpec, PromptPromise, PTL

\* Over a link that harms the packets only, and for as many packets as the window of the sender
\* allows, neither program gives up or crashes.
THEOREM TimedNobodyFails ==
  ASSUME OneWay, NeverTooLong, WrapsOnce PROVE TimedSpec => []NobodyFails
BY TimedIsPromptSpec, PromptSucceeds, PTL
=============================================================================
