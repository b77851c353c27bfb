----------------------------- MODULE DelayedLink -----------------------------
(***************************************************************************)
(* The loop of src/linksim/link_sim.c with its clock and its queue of      *)
(* delayed datagrams: select, update_time, deliver_delayed_pkt, and the    *)
(* part of simulate_link that delays.  One direction and the other share   *)
(* the queue.  Loss and harm are in Link.tla.                              *)
(***************************************************************************)
EXTENDS Timeval, FiniteSets

CONSTANTS
  Delays, Jitters,   \* values of the options -d (not 0) and -j, in ms
  Datagrams,         \* bound: how many datagrams arrive
  Horizon            \* bound: the last reading of the clock, in microseconds

ASSUME DelayedLinkConstants ==
  /\ Delays \subseteq Nat \ {0}
  /\ Jitters \subseteq Nat
  /\ Datagrams \in Nat
  /\ Horizon \in Nat

VARIABLES
  delay, jitter,   \* the options, constant
  pc,              \* "select", "deliver" or "receive": the place in the loop
  readable,        \* whether select has marked the socket
  last_clock,
  queue,           \* pkt_queue
  arrived          \* how many datagrams have been queued

vars == <<delay, jitter, pc, readable, last_clock, queue, arrived>>

\* timeval_cmp on two entries
SlotGreater(a, b) == Later(a.ts, b.ts)

Q == INSTANCE MinQueue WITH Greater <- SlotGreater

Init == /\ delay \in Delays /\ jitter \in Jitters
        /\ pc = "select"
        /\ readable = FALSE
        /\ last_clock = Reading(0)
        /\ queue = Q!EmptyQueue
        /\ arrived = 0

-----------------------------------------------------------------------------
\* A later reading of the clock
ReadsFrom(us) == {Reading(t) : t \in us .. Horizon}

\* select returns when a datagram is there, at any time, and the clock is read.
SelectReadable ==
  /\ pc = "select"
  /\ arrived < Datagrams
  /\ last_clock' \in ReadsFrom(Microseconds(last_clock))
  /\ readable' = TRUE
  /\ pc' = "deliver"
  /\ UNCHANGED <<delay, jitter, queue, arrived>>

\* select returns because its timeout has run out.
SelectTimeout ==
  /\ pc = "select"
  /\ ~Q!Empty(queue)
  /\ LET timeout == Timeout(Q!Peek(queue).ts, last_clock)
     IN last_clock' \in ReadsFrom(Microseconds(last_clock) + Microseconds(timeout))
  /\ readable' = FALSE
  /\ pc' = "deliver"
  /\ UNCHANGED <<delay, jitter, queue, arrived>>

\* The first datagram of the queue has expired: strictly, and date against reading
Expired == ~Q!Empty(queue) /\ Later(last_clock, Q!Peek(queue).ts)

\* deliver_delayed_pkt: the first datagram is sent
Deliver ==
  /\ pc = "deliver"
  /\ Expired
  /\ queue' = Q!Pop(queue)
  /\ UNCHANGED <<delay, jitter, pc, readable, last_clock, arrived>>

\* ... until none has expired, or the socket would block and it is for another time.
DeliverEnd ==
  /\ pc = "deliver"
  /\ pc' = IF readable THEN "receive" ELSE "select"
  /\ UNCHANGED <<delay, jitter, readable, last_clock, queue, arrived>>

\* process_incoming_pkt and simulate_link: the datagram gets a date.  `due` is the time
\* it was to be delivered at.
Receive ==
  /\ pc = "receive"
  /\ \E applied \in AppliedDelays(delay, jitter) :
       queue' = Q!Push(queue, [n |-> arrived, ts |-> Expiration(last_clock, applied),
                               due |-> Microseconds(last_clock) + applied * UsPerMs])
  /\ arrived' = arrived + 1
  /\ pc' = "select"
  /\ UNCHANGED <<delay, jitter, readable, last_clock>>

Next == SelectReadable \/ SelectTimeout \/ Deliver \/ DeliverEnd \/ Receive

Spec == Init /\ [][Next]_vars

-----------------------------------------------------------------------------
Slots == [n : Nat, ts : Date, due : Nat]

\* Dates stay below two seconds of tv_usec, and no entry is in two slots of the heap.
TypeOK ==
  /\ delay \in Delays /\ jitter \in Jitters
  /\ pc \in {"select", "deliver", "receive"}
  /\ readable \in BOOLEAN
  /\ last_clock \in ClockReading
  /\ Q!Entries(queue) \subseteq Slots
  /\ DOMAIN queue = 0 .. Cardinality(Q!Entries(queue)) - 1
  /\ arrived \in 0 .. Datagrams

\* "A node in the tree is always < than its child nodes" (min_queue.c:40), after pushes
\* and pops in any order, with equal dates among them.
HeapOrder == Q!HeapOrdered(queue)

Promise == INSTANCE PriorityQueue WITH Greater <- SlotGreater, items <- Q!Entries(queue)

\* The heap is the priority queue of min_queue.h: no datagram is lost or delivered twice,
\* and the one delivered is one that no other precedes.
ImplementsQueue == Promise!Spec

Sent == Q!Peek(queue)

\* Without jitter the link keeps the order, although the dates are not normalised: a
\* datagram that arrived at an earlier reading of the clock is not overtaken.
InOrder ==
  [][Deliver /\ jitter = 0 => \A slot \in Q!Entries(queue) : slot.due >= Sent.due]_vars

\* A datagram leaves before its time by less than a second, and only when its date goes
\* into the next second.
EarlyByLessThanASecond ==
  [][Deliver => LET now == Microseconds(last_clock)
                IN \/ now > Sent.due
                   \/ Sent.ts.usec >= Second /\ now > Sent.due - Second]_vars

\* How long select waits when no datagram arrives: never past the time of any datagram
\* held (1 ms at the least); with jitter the first date of the queue may not be the first
\* in time, by less than a second.
NeverOversleeps ==
  pc = "select" /\ ~Q!Empty(queue) =>
    LET wait == Microseconds(Timeout(Sent.ts, last_clock))
    IN \A slot \in Q!Entries(queue) :
         LET left == slot.due - Microseconds(last_clock)
         IN \/ wait <= UsPerMs
            \/ wait <= left
            \/ jitter # 0 /\ wait < left + Second
=============================================================================
