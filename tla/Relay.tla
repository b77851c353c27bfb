-------------------------------- MODULE Relay --------------------------------
(***************************************************************************)
(* src/linksim/link_sim.c between several hosts: its options, the address  *)
(* it learns, process_incoming_pkt, the draws of simulate_link, write_out  *)
(* and a send buffer that may be full.  A sender that is started again is  *)
(* another host, as it gets another port.  The dates and the heap are in   *)
(* DelayedLink: here a delayed datagram leaves at some later reading of    *)
(* the clock.  Without jitter none that arrived at an earlier reading is   *)
(* overtaken (DelayedLink!InOrder); those of one reading have equal dates, *)
(* and the heap may exchange them.                                         *)
(***************************************************************************)
EXTENDS Integers, Sequences

CONSTANTS
  Senders,      \* the hosts that send datagrams to the link
  Dest,         \* dest_addr: the loopback address, on forward_port
  Nobody,       \* src_addr while has_source_addr = 0
  CommandLines, \* the values of -l, -c, -e, -d and -j, given or not, and -r or -R
  MaxArrivals   \* bound: how many datagrams reach the link

Hosts == Senders \cup {Dest}

ASSUME RelayConstants == /\ Dest \notin Senders
                         /\ Nobody \notin Hosts
                         /\ CommandLines \subseteq
                              [l : Int, c : Int, e : Int, d : Nat, j : Nat,
                               direction : SUBSET {"forward", "reverse"} \ {{}}]
                         /\ MaxArrivals \in Nat

VARIABLES
  options,    \* the parameters of the command line, constant
  src_addr,
  last_clock, \* the reading of the clock, of which only the order counts
  socket,     \* the datagrams in the socket of the link
  queue,      \* pkt_queue: those delayed, by arrival
  sent,       \* what write_out has sent, in order
  arrivals,   \* how many datagrams have reached the socket
  running     \* FALSE when proxy_loop has returned

link == <<src_addr, last_clock, queue, sent, running>>
vars == <<options, link, socket, arrivals>>

-----------------------------------------------------------------------------
\* parse_number(optarg) % 101, in an unsigned int: a negative remainder becomes a rate
\* that every draw is below; AnyDraw stands for it.
AnyDraw == 101
RateOf(argument) ==
  IF argument >= 0 THEN argument % 101
  ELSE IF (0 - argument) % 101 = 0 THEN 0 ELSE AnyDraw

\* Mutated form: <= for <, and the test for 0 forgotten
DrawsUpTo(rate) == {hit \in BOOLEAN : \E draw \in 0 .. 100 : hit = (draw <= rate)}

\* What `rate && RAND_PERCENT < rate` may be, with rand() % 101
Draws(rate) ==
  {hit \in BOOLEAN : \E draw \in 0 .. 100 : hit = (rate # 0 /\ draw < rate)}

Parsed(line) ==
  [loss |-> RateOf(line.l), cut |-> RateOf(line.c), err |-> RateOf(line.e),
   delayed |-> line.d # 0, jitter |-> line.j # 0, direction |-> line.direction]

\* What recvfrom tells: fewer bytes than MIN_PKT_LEN, as many, or more
Sizes == {"malformed", "header", "longer"}
Arrival == [n : 1 .. MaxArrivals, from : Hosts, size : Sizes]
Harms == {"whole", "cut", "inverted"}

Init == /\ \E line \in CommandLines : options = Parsed(line)
        /\ src_addr = Nobody
        /\ last_clock = 0
        /\ socket = <<>>
        /\ queue = <<>>
        /\ sent = <<>>
        /\ arrivals = 0
        /\ running = TRUE

-----------------------------------------------------------------------------
\* A host sends a datagram.  The receiver only answers: something has been sent to it.
Arrive(from) ==
  /\ arrivals < MaxArrivals
  /\ from = Dest => \E k \in DOMAIN sent : sent[k].to = Dest
  /\ \E size \in Sizes :
       socket' = Append(socket, [n |-> arrivals + 1, from |-> from, size |-> size])
  /\ arrivals' = arrivals + 1
  /\ UNCHANGED <<options, link>>

-----------------------------------------------------------------------------
\* The reading of an iteration, the same or a later one: two iterations may read the same
\* microsecond.  A later one counts when a held datagram arrived at the last one, as
\* nothing else tells the two apart.
update_time == \/ last_clock' = last_clock
               \/ /\ \E k \in DOMAIN queue : queue[k].at = last_clock
                  /\ last_clock' = last_clock + 1

\* The first datagram in the socket, taken by process_incoming_pkt
Arrived == Head(socket)
Takes == /\ running /\ socket # <<>>
         /\ socket' = Tail(socket)
         /\ UNCHANGED <<options, arrivals>>

\* Mutated form: the address of the last host heard
SourceLast == Arrived.from

\* Whose address src_addr is from now on: that of the first host heard
Source == IF src_addr = Nobody THEN Arrived.from ELSE src_addr

\* Both addresses are compared, and the second comparison wins.
Direction == CASE Arrived.from = Source -> "forward"
               [] Arrived.from = Dest /\ Dest # Source -> "reverse"
               [] OTHER -> "alien"

Heard == /\ Takes
         /\ Arrived.size # "malformed"
         /\ src_addr' = Source

\* The mark of simulate_link, the direction that write_out turns into an address, and the
\* reading that `ts` adds the delay to
Entry(harm) ==
  [n |-> Arrived.n, from |-> Arrived.from, direction |-> Direction, harm |-> harm,
   at |-> last_clock']
Target(direction) == IF direction = "forward" THEN Dest ELSE src_addr'
WriteOut(e) ==
  sent' = Append(sent, [n |-> e.n, from |-> e.from, to |-> Target(e.direction),
                        harm |-> e.harm, at |-> e.at])

\* What simulate_link makes of a datagram that it does not drop: cut when it is long
\* enough, otherwise perhaps corrupted
Harmed ==
  LET cut == {c /\ Arrived.size = "longer" : c \in Draws(options.cut)}
      inverted == Draws(options.err)
  IN (IF TRUE \in cut THEN {"cut"} ELSE {})
     \cup (IF FALSE \in cut /\ TRUE \in inverted THEN {"inverted"} ELSE {})
     \cup (IF FALSE \in cut /\ FALSE \in inverted THEN {"whole"} ELSE {})

\* Mutated form: a queue that keeps no order
MayLeaveAny(i) == queue[i].at < last_clock'

\* The entries that may be the root of the heap when they have expired: without jitter the
\* delay is the same for all, so the dates compare like the readings they were made from,
\* and any of those with the least date may be the root (minq_pop puts the last one there).
MayLeave(i) == /\ queue[i].at < last_clock'
               /\ \/ options.jitter
                  \/ \A k \in DOMAIN queue : queue[i].at <= queue[k].at

\* The queue without one entry
Without(i) == SubSeq(queue, 1, i - 1) \o SubSeq(queue, i + 1, Len(queue))

-----------------------------------------------------------------------------
\* "Received malformed data, dropping."
DropMalformed ==
  /\ Takes
  /\ Arrived.size = "malformed"
  /\ UNCHANGED link

\* "an alien to the connection. Dropping it!"
DropAlien ==
  /\ Heard
  /\ Direction = "alien"
  /\ UNCHANGED <<last_clock, queue, sent, running>>

\* "Simply relay packets": the direction is not simulated
RelayAtOnce ==
  /\ Heard
  /\ Direction \notin options.direction \cup {"alien"}
  /\ UNCHANGED <<last_clock, queue, running>>
  /\ WriteOut(Entry("whole"))

\* simulate_link
Simulates == Heard /\ Direction \in options.direction

Drop ==
  /\ Simulates
  /\ TRUE \in Draws(options.loss)
  /\ UNCHANGED <<last_clock, queue, sent, running>>

\* ... when the datagram is not dropped, with a delay
Hold ==
  /\ Simulates
  /\ FALSE \in Draws(options.loss)
  /\ options.delayed
  /\ update_time
  /\ \E harm \in Harmed : queue' = Append(queue, Entry(harm))
  /\ UNCHANGED <<sent, running>>

\* ... and without
ForwardNow ==
  /\ Simulates
  /\ FALSE \in Draws(options.loss)
  /\ ~options.delayed
  /\ UNCHANGED <<last_clock, queue, running>>
  /\ \E harm \in Harmed : WriteOut(Entry(harm))

\* sendto would block: for a datagram that is not delayed this is an error, which ends
\* the loop.
WriteFails ==
  /\ Heard
  /\ \/ Direction \notin options.direction \cup {"alien"}
     \/ Direction \in options.direction /\ ~options.delayed /\ FALSE \in Draws(options.loss)
  /\ running' = FALSE
  /\ UNCHANGED <<last_clock, queue, sent>>

\* Mutated form of the definition below: minq_pop before write_out
DeliverPopsFirst ==
  /\ running
  /\ update_time
  /\ \E i \in DOMAIN queue :
       /\ MayLeave(i)
       /\ queue' = Without(i)
       /\ UNCHANGED src_addr
       /\ WriteOut(queue[i]) \/ sent' = sent
  /\ UNCHANGED <<options, socket, arrivals, running>>

\* deliver_delayed_pkt, for one datagram; when sendto would block it stays where it is.
Deliver ==
  /\ running
  /\ update_time
  /\ \E i \in DOMAIN queue :
       /\ MayLeave(i)
       /\ queue' = Without(i)
       /\ UNCHANGED src_addr
       /\ WriteOut(queue[i])
  /\ UNCHANGED <<options, socket, arrivals, running>>

Incoming == \/ DropMalformed \/ DropAlien \/ RelayAtOnce
            \/ Drop \/ Hold \/ ForwardNow \/ WriteFails

Next == (\E from \in Hosts : Arrive(from)) \/ Incoming \/ Deliver

Spec == Init /\ [][Next]_vars

\* The loop runs as long as it has something to do, and a send buffer that is full is
\* not full for ever.
FairSpec == Spec /\ WF_vars(Incoming) /\ WF_vars(Deliver)

-----------------------------------------------------------------------------
RelayTypeOK ==
  /\ options \in {Parsed(line) : line \in CommandLines}
  /\ src_addr \in Senders \cup {Nobody}
  /\ last_clock \in Nat
  /\ socket \in Seq(Arrival)
  /\ queue \in Seq([n : 1 .. arrivals, from : Hosts, direction : {"forward", "reverse"},
                    harm : Harms, at : Nat])
  /\ sent \in Seq([n : 1 .. arrivals, from : Hosts, to : Hosts, harm : Harms, at : Nat])
  /\ arrivals \in 0 .. MaxArrivals
  /\ running \in BOOLEAN

\* "We need to track who is sending us data, so that we can send him the reverse traffic"
\* (link_sim.c:259): the link pairs one sender with the receiver and no datagram goes
\* from or to anyone else, whoever else sends to it, a sender started again included.
Pair == {src_addr, Dest}
Paired ==
  /\ src_addr # Dest
  /\ \A k \in DOMAIN sent : {sent[k].from, sent[k].to} = Pair
  /\ \A k \in DOMAIN queue : queue[k].from = src_addr <=> queue[k].direction = "forward"

\* No datagram is sent twice, and without jitter those of a direction are sent in the
\* order they came in, except that two that were delayed and arrived at the same reading
\* of the clock may be exchanged: min_queue.c keeps no order between equal dates.
Way(to) == IF to = Dest THEN "forward" ELSE "reverse"
SameDate(s, t) == /\ options.delayed /\ Way(s.to) \in options.direction
                  /\ s.at = t.at
OnceInOrder ==
  \A k, l \in DOMAIN sent :
    k < l => /\ sent[k].n # sent[l].n
             /\ sent[k].to = sent[l].to /\ ~options.jitter
                  => sent[k].n < sent[l].n \/ SameDate(sent[k], sent[l])

\* "We can try again later" (link_sim.c:156): a datagram leaves the queue when it is sent
\* and not before, although the send buffer may be full.
NothingForgotten ==
  [][\A k \in DOMAIN queue : \/ \E l \in DOMAIN queue' : queue'[l] = queue[k]
                             \/ \E l \in DOMAIN sent' : sent'[l].n = queue[k].n]_vars

\* Without losses, a datagram of the sender reaches the receiver; the link may stop
\* before, but only when a direction is relayed without a delay.
Waits(n) == \E k \in DOMAIN socket : /\ socket[k].n = n
                                     /\ socket[k].from = src_addr
                                     /\ socket[k].size # "malformed"
Reaches(n) == \E k \in DOMAIN sent : sent[k].n = n /\ sent[k].to = Dest
Stops == ~running /\ (~options.delayed \/ options.direction # {"forward", "reverse"})
RelayedAtLast ==
  \A n \in 1 .. MaxArrivals : options.loss = 0 /\ Waits(n) ~> Reaches(n) \/ Stops
=============================================================================
