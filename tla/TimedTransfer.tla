---------------------------- MODULE TimedTransfer ----------------------------
(***************************************************************************)
(* A transfer with a clock: `tv`, the struct timeval that the sender hands *)
(* to every select, and the time that each datagram may still spend in the *)
(* link.  Transfer assumes, with Spurious = FALSE, that a timer expires    *)
(* only when nothing is under way; here a timer expires when its time is   *)
(* over, and what Transfer assumes is a property.  A NACK does not set the *)
(* timer again: select counts down in `tv`, and the next one gets what is  *)
(* left.  The programs answer at once, and select in no time.              *)
(***************************************************************************)
EXTENDS Transfer

CONSTANTS
  Delay,        \* the longest stay of a datagram in the link, jitter included
  FirstTimer,   \* 4.5 s, after a packet is sent
  NextTimer,    \* 2.5 s, after it is sent again because the timer has expired
  MaxCuts       \* how many packets the link cuts before the timer is set again

ASSUME TimerConstants ==
  /\ Spurious
  /\ {Delay, FirstTimer, NextTimer, MaxCuts} \subseteq Nat

\* The link is fast enough for the timers: the answers to MaxCuts cut packets and the
\* one to a packet that is not cut arrive before the shorter timer expires.
RoundTrip == Delay + Delay
ASSUME LinkIsFast == RoundTrip * (MaxCuts + 1) < NextTimer /\ NextTimer <= FirstTimer

VARIABLES
  tv,          \* what is left of the timer
  up_left,     \* what is left of Delay for each datagram of `up`
  down_left,   \* and of `down`
  cuts         \* the packets cut since the timer was set

clockVars == <<tv, up_left, down_left, cuts>>
timedVars == <<vars, clockVars>>

TimedTypeOK ==
  /\ TypeOK
  /\ tv \in 0 .. FirstTimer
  /\ up_left \in [1 .. Len(up) -> 0 .. Delay]
  /\ down_left \in [1 .. Len(down) -> 0 .. Delay]
  /\ cuts \in 0 .. MaxCuts

TimedInit == /\ Init
             /\ tv = FirstTimer
             /\ up_left = <<>>
             /\ down_left = <<>>
             /\ cuts = 0

-----------------------------------------------------------------------------
\* Mutated forms of the definitions below
SenderKeeps == UNCHANGED <<r_pc, receiverVars, r_sock, down, down_left>>
StartTimerOnce ==
  /\ SendBlock \/ SendFin
  /\ tv' = tv
  /\ up_left' = Append(up_left, Delay)
  /\ cuts' = 0
  /\ SenderKeeps
TimerExpiredSets(t) ==
  /\ tv = 0
  /\ Resend
  /\ tv' = t
  /\ up_left' = Append(up_left, Delay)
  /\ cuts' = 0
  /\ SenderKeeps
TimerExpiredNotSet == TimerExpiredSets(0)
TimerExpiredBackoff == TimerExpiredSets(2 * FirstTimer)

-----------------------------------------------------------------------------
SenderUnchanged == UNCHANGED <<r_pc, receiverVars, r_sock, down, down_left>>

\* tv.tv_sec = 4; tv.tv_usec = 500000 after a block or the disconnection is sent
StartTimer ==
  /\ SendBlock \/ SendFin
  /\ tv' = FirstTimer
  /\ up_left' = Append(up_left, Delay)
  /\ cuts' = 0
  /\ SenderUnchanged

\* select returns 0; tv.tv_sec = 2; tv.tv_usec = 500000
TimerExpired ==
  /\ tv = 0
  /\ Resend
  /\ tv' = NextTimer
  /\ up_left' = Append(up_left, Delay)
  /\ cuts' = 0
  /\ SenderUnchanged

\* A NACK: select with the same tv
NackAnswered ==
  /\ RecvNack
  /\ up_left' = Append(up_left, Delay)
  /\ UNCHANGED <<tv, cuts>>
  /\ SenderUnchanged

SilentSender ==
  /\ \/ SkipBlock \/ PayloadTooLong \/ RecvUndecodable \/ RecvAck \/ RecvStaleNack
     \/ RecvFinAck \/ RecvFinOther
  /\ UNCHANGED <<tv, up_left, cuts>>
  /\ SenderUnchanged

TimedSender == StartTimer \/ TimerExpired \/ NackAnswered \/ SilentSender

TimedReceiver ==
  /\ ReceiverStep
  /\ down_left' = IF down' = down THEN down_left ELSE Append(down_left, Delay)
  /\ UNCHANGED <<tv, up_left, cuts>>

\* A datagram leaves the link, and its time with it
Leaves(queue, left) ==
  \E i \in DOMAIN queue : queue' = Without(queue, i) /\ left' = Without(left, i)

TimedPackets ==
  /\ \/ (RelayPacket \/ DropPacket \/ AlterPacket) /\ cuts' = cuts
     \/ CutPacket /\ cuts < MaxCuts /\ cuts' = cuts + 1
  /\ Leaves(up, up_left)
  /\ UNCHANGED <<s_pc, senderVars, r_pc, receiverVars, tv, down_left>>

TimedAcks ==
  /\ RelayAck \/ DropAck \/ CutAck \/ AlterAck
  /\ Leaves(down, down_left)
  /\ UNCHANGED <<s_pc, senderVars, r_pc, receiverVars, tv, up_left, cuts>>

TimedLink == TimedPackets \/ TimedAcks

\* Time passes while both programs wait, and no longer than a timer or the link allow.
Waiting == {"wait", "fin", "fin_block"}
OneLess(left) == [i \in DOMAIN left |-> left[i] - 1]

Tick ==
  /\ s_pc \in Waiting
  /\ s_sock = <<>> /\ r_sock = <<>>
  /\ \A i \in DOMAIN up_left : up_left[i] > 0
  /\ \A i \in DOMAIN down_left : down_left[i] > 0
  /\ IF s_pc = "fin_block" THEN tv' = tv ELSE tv > 0 /\ tv' = tv - 1
  /\ up_left' = OneLess(up_left)
  /\ down_left' = OneLess(down_left)
  /\ UNCHANGED <<vars, cuts>>

TimedNext == TimedSender \/ TimedReceiver \/ TimedLink \/ Tick

TimedSpec == TimedInit /\ [][TimedNext]_timedVars

-----------------------------------------------------------------------------
\* The fairness of Transfer, and time that passes.
TimedFairness == /\ WF_timedVars(TimedSender)
                 /\ WF_timedVars(TimedReceiver)
                 /\ WF_timedVars(TimedLink)
                 /\ SF_timedVars(TimedPackets /\ Intact(RelayPacket))
                 /\ SF_timedVars(TimedAcks /\ Intact(RelayAck))
                 /\ WF_timedVars(Tick)

TimedFairSpec == TimedSpec /\ TimedFairness

-----------------------------------------------------------------------------
\* Why no timer expires too early: while the sender waits one datagram is under way, and
\* the timer is long enough for it, for its answer and, when that answer is or may be a
\* NACK, for as many more cuts as the link may make.
Rounds(n) == RoundTrip * n
Remaining == MaxCuts - cuts
IsCut(p) == PktDecodes(p) /\ p.tr
IsNack(a) == AckDecodes(a) /\ ~Acknowledges(a)

OnTime ==
  /\ s_pc = "read" => InFlight = 0
  /\ s_pc \in {"wait", "fin"} =>
       /\ InFlight <= 1
       /\ up # <<>> => ~up[1].tr /\ tv > up_left[1] + Delay + Rounds(Remaining)
       /\ r_sock # <<>> =>
            tv > Delay + (IF IsCut(r_sock[1]) THEN Rounds(Remaining + 1) ELSE 0)
       /\ down # <<>> =>
            tv > down_left[1] + (IF IsNack(down[1]) THEN Rounds(Remaining + 1) ELSE 0)
       /\ s_sock # <<>> /\ IsNack(s_sock[1]) => tv > Rounds(Remaining + 1)

\* A packet is sent again only when it, or its answer, is lost: when a timer expires
\* nothing is under way, although a NACK does not set the timer again (sender.c:487).
RepeatsOnlyLost == [][TimerExpired => InFlight = 0]_timedVars

\* With timers that are long enough for the link, a transfer is one whose timers never
\* expire too early: what Transfer assumes with Spurious = FALSE, liveness included.
Quiet == INSTANCE Transfer WITH Spurious <- FALSE

ImplementsQuiet == Quiet!FairSpec
=============================================================================
