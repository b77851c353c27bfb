# A reliable file transfer over UDP: models, checks and proofs

The repository holds two programs that transfer a file over UDP, `sender`
(`src/src/sender.c`) and `receiver` (`src/src/receiver.c`), the library both
use (`src/src/lib.c`), and a link simulator (`src/linksim/`) that loses, cuts,
corrupts and delays the datagrams between them. This directory holds TLA+ models
of the four, the TLC runs that check them and the TLAPS proofs about them.

Paths below are relative to the repository; line numbers are those of its files.

## 1. Inventory

| Component | State it keeps | Operations |
|---|---|---|
| Window arithmetic (`lib.c:976-1072`) | numbers and bounds in a `uint8_t` | `seqnum_inc`, `in_window`, `decale_window`, the slot of `ajout_buffer` |
| Codec (`lib.c:22-793`) | `struct pkt`, `struct ack` | `pkt_encode`, `pkt_decode`, `ack_encode`, `ack_decode`, getters and setters |
| Buffers (`lib.c:1052-1169`) | `buffer_envoi`, `buffer_recept`: 31 pointers each | `ajout_buffer`, `get_from_buffer`, `retire_buffer`, `buffer_plein`, `write_buffer` |
| Sender (`sender.c:82-541`) | `seqnum`, `min_window`, `max_window`, `window`, `*packet`, the position in the file | read and send a block, repeat it, handle an ACK or a NACK, disconnect |
| Timers of the sender (`sender.c:235-266`, `392-423`, `487-508`) | `tv` | set to 4.5 s or 2.5 s, counted down by `select`, used again after a NACK |
| Receiver (`receiver.c:68-363`) | `window`, `min_window`, `max_window`, `err`, `buffer_recept`, the file written | one iteration: ignore, refuse, NACK, accept and ACK, disconnect |
| Link simulator (`link_sim.c`) | the options, the queue of delayed datagrams, the clock, the two addresses | select, read the clock, deliver, learn the sender's address, relay, lose, cut, corrupt, delay |
| Priority queue (`min_queue.c`) | a heap whose slot 0 is a root above the root | push, pop, peek |
| Unused set-up (`lib.c:796-963`) | - | `create_socket`, `wait_for_client`, `read_write_loop` |
| Tests (`src/test.sh`, `src/tests/`) | - | one transfer through the link; copies of the programs with fixed arguments |
| Course exercises (`Inginious/`, `Tuto/`) | - | not part of the programs |

How they interact:

    sender --- up ---> link_sim --- r_sock ---> receiver
           <-- s_sock ---        <--- down ----

The sender hands a packet to the link and blocks in `select` (4.5 s, then 2.5 s)
until a datagram of the receiver is there; the receiver blocks in `recvfrom`.
There is no shared memory, no thread and no callback: the concurrency is that of
three processes and of the datagrams between them. Neither program persists
anything. A sender that is started again gets another port: for the link it is another
host (`Relay`).

What is hard about them:

- The protocol is written as a sliding window and runs as **stop-and-wait**: the
  sender reads the next block only after an ACK. It believes every ACK, whatever
  its number. That it is right to do so is not visible anywhere in the code; it
  depends on the receiver, which *exits* on any packet outside its window and so
  acknowledges each payload once (sections 4 and 5).
- One `struct pkt` is reused for all the packets of the sender, and one for all
  those of the receiver. Every slot of a buffer points to the same struct, so a
  slot never names "its" packet but the current one.
- `buffer_envoi` comes from `malloc` (`sender.c:152`) and is read before it is
  written, by `retire_buffer` and `get_from_buffer`; `strlen` reads past the bytes
  that `read` returned (`sender.c:319`).
- The numbers, the bounds and `window` are `uint8_t` that wrap; the loop of the
  ACK is an `int` loop that does not (`sender.c:450`).
- `select` counts down in `tv`, and after a NACK it is called with what is left: a timer
  set once must outlive several round trips (`sender.c:487`).
- `write_buffer` writes from slot 0 to the first empty slot and does not move what is
  behind it (`lib.c:1150-1168`): with a sender that does fill its window, the slots no
  longer mean what they meant.
- The ACK of the disconnection is sent once by a program that then exits.
- The link computes dates field by field and does not normalise them, compares them
  second first, and takes differences with a borrow that is lost when no second is left;
  its heap is indexed neither from 0 nor from 1.
- The link learns the address of the sender from the first datagram it gets, and treats a
  full send buffer in two ways: a delayed datagram is tried again, any other ends the link.

What makes each component correct is listed as properties in section 4.

## 2. Modules

| Module | What it is | Code |
|---|---|---|
| `Window` | numbers, bounds and slots, parameters `M` (256) and `W` (31) | `lib.c:976-1072` |
| `Datagram` | the datagrams as the programs see them: what decoding tells, what the link can do to one | `lib.c:400-793`, `link_sim.c:181-192` |
| `Codec` | the structs, the encoders, one harm of the link, the decoders, field by field | `lib.c:22-93`, `lib.c:228-793` |
| `Network` | the queues, who runs | - |
| `Sender` | the sender, one action per outcome of its loops | `sender.c:82-541` |
| `Receiver` | the receiver, one action per branch of its loop | `receiver.c:68-363` |
| `Link` | the faults of each direction | `link_sim.c:125-294` |
| `Timeval` | dates, their comparison and difference, the timeout of `select`; parameters 1000, 1000 and 10000 | `link_sim.c:97-118`, `193-222`, `317-339` |
| `MinQueue` | the heap, its loops as recursive functions | `min_queue.c:44-170` |
| `PriorityQueue` | abstract specification: what `min_queue.h` promises | - |
| `DelayedLink` | the loop of the link with clock and heap | `link_sim.c:142-235`, `297-369` |
| `Relay` | the link between several hosts: options, draws, addresses, a full send buffer | `link_sim.c:49-80`, `124-163`, `171-295`, `528-559` |
| `Transfer` | the composition, fairness and the properties | `test.sh:9-32` |
| `TimedTransfer` | the composition with a clock: the timers of the sender, the time in the link | `sender.c:235-266`, `392-423`, `464-508` |
| `Reception` | the receiver against any sender of the protocol | `receiver.c:68-363`, `lib.c:1052-1169` |
| `ReliableTransfer` | abstract specification: what a transfer promises | - |
| `TransferInvariant` | the inductive invariants of a transfer, without and past the wrap; what becomes of each block of a file | - |
| `MCWindow`, `MCCodec`, `MCTransfer`, `MCTimedTransfer`, `MCRelay` | what TLC needs: files, inputs, command lines, the end of a run, the claims of the documentation | - |
| `WindowProofs`, `QueueProofs`, `CodecProofs`, `DelayedLinkProofs`, `RelayProofs`, `TransferSafety`, `TimersProofs`, `ReceptionProofs` | theorems; `QueueProofs` holds what those about the hosts share | - |

### State and actions

*Sender.* `s_pc` is the place in the code: `read` (the top of the loop), `wait`
(the loop after a block is sent), `fin` (the disconnection loop, with a timer),
`fin_block` (the same loop after a datagram that was not the awaited ACK: the code
returns to `recvfrom` and not to `select`, so no timer runs), `done` (exit 0),
`failed` (exit -1), `crashed` (a wild or NULL pointer). `s_buf` has `W + 1`
entries, the last one being the word after the array; an entry is `uninit`, `null`
or `packet`, and `packet` is always *the* packet, `s_packet`. `s_sent` is a history
variable. The three places that send a packet again when `select` returns 0 are
the action `Resend`. The local `seqnum` of the NACK branch (`sender.c:465`)
shadows the outer one, so no action of that branch changes `s_seqnum`.

*Receiver.* `r_buf` is the set of the slots in use. `r_written` holds the payloads
written, one `write` each. The `retire_buffer` at the end of an iteration looks for
the number after that of the packet, which no slot has, and changes nothing.

*Link.* The four queues hold datagrams; leaving a queue unharmed, dropped, cut or
altered is one action per direction. Which faults can happen, and in which
directions, are the constants `Faults` and `Directions` (options `-l -c -e -j`, none
/ `-r` / `-R`). Jitter is the right of any held datagram to leave first; it stands for the exchange of
two datagrams with equal dates as well. The runs without it are violation runs with prompt
timers, in which one datagram at most is held. Cutting
sets TR and leaves the 12 bytes of the header; an ACK is sent in 16 bytes and can be
cut, a NACK in 12 and cannot. Corruption inverts one byte: in the header CRC1 fails;
in the payload or in CRC2, CRC2 fails; the bytes that no CRC covers change nothing.

*Link with a clock.* `DelayedLink` is one iteration of `proxy_loop` in four steps:
`select` (which returns for a datagram at any time, or when its timeout has run out,
however late), the deliveries one by one, their end (nothing has expired, or the socket
would block), the arrival. The clock is read once per iteration; two iterations may read
the same value. A slot holds the date the code computes, and two history fields: a number,
and the time the datagram was really due.

*Link between hosts.* In `Relay` a datagram is a number, a sender and whether it is shorter
than, as long as or longer than a header. `options` holds what `main` makes of the command
line: a rate is a remainder of 101 in an `unsigned int`, so 101 is 0 and a negative rate is
above every draw. `Source` and `Direction` are the address learned and the two
comparisons; `RelayAtOnce`, `Drop`, `Hold`, `ForwardNow` are the outcomes of
`process_incoming_pkt` and `simulate_link`, `WriteFails` the one that ends the loop.
`Deliver` sends a delayed datagram; when `sendto` would block, nothing changes. When a
delayed datagram is due is left to `DelayedLink`: `last_clock` is an order of readings, of which
two iterations may have the same. A datagram leaves at a reading later than that of its arrival;
without jitter all dates are a reading plus the same delay, so any of those with the least
reading may be the root of the heap (`MayLeave`), the last one that came included. The heap
itself exchanges two only when a third is held; the model lets any two be exchanged.

*Timers.* `TimedTransfer` runs the actions of `Transfer` with `Spurious = TRUE` and adds
the clock: `tv`; for each datagram in the link, how much longer it may stay; how
many packets have been cut since `tv` was set. `StartTimer` sets 4.5 s, `TimerExpired`
needs `tv = 0` and sets 2.5 s, `NackAnswered` sets nothing. `Tick` lets time pass while
both programs wait. After a datagram that is not the awaited ACK, the disconnection
loop blocks in `recvfrom` (`fin_block`): no timer runs.

*Any sender.* In `Reception` the receiver's actions are those of `Receiver`; the sender
and the network are one action, `PeerSends`, which puts any packet of the window around
the first packet not written into the socket: again, before its turn, cut, with a wrong
CRC2, or empty (the disconnection).

*Datagrams.* The fields kept are those a later step depends on; a CRC is the Boolean
"still that of the bytes it covers". `pkt_decode` clears TR before CRC1,
`ack_decode` does not: the two operators `PktDecodes` and `AckDecodes` differ there.
`Codec` justifies this view. It encodes a datagram with the first byte packed as the
code packs it and the other fields apart, harms it at most once, decodes it, and
compares the answer with `Datagram`, one datagram after another: the struct that
`pkt_decode` fills is reused, keeps the payload of an earlier packet when the new one
is cut or refused, and holds the header of a packet refused for its CRC2. CRC32 tells
apart two strings that differ in one byte, so it is the identity there; the timestamp,
which nobody reads, is 0.

*Data.* A block is a sequence of bytes because properties tell a NUL or a linefeed
from the rest. `Payload` is what `strlen` and the linefeed loop leave of it. `Tails`
is what the memory may hold after the bytes read, before its first NUL:
`{<<>>}` when the memory is zero, more when an earlier use left something there.

## 3. Plan

1. *(done)* `Window`, `Datagram`, `Codec`, `Network`, `Sender`, `Receiver`, `Link`, `Transfer`, with the
   abstract `ReliableTransfer`; their runs; the type invariant, the safety invariant
   and the refinement proved.
2. *(done)* `Timeval`, `MinQueue` with the abstract `PriorityQueue`, `DelayedLink`, which
   composes them; the lemmas about dates proved. They justify `Due` of `Link` and `MayLeave` of
   `Relay`: without jitter a queue is first in, first out, but for datagrams that arrived at the
   same reading of the clock.
3. *(done)* `TimedTransfer`: sender and link with a clock, for the one place where a timer is
   reused; the bound on the delay of the link below which no packet is sent twice
   needlessly; the refinement to `Transfer` without early timers; its safety proved.
4. *(done)* `Reception`: the receiver against a sender that does fill its window; proved.
5. *(done)* `Relay`: the link between several hosts.
6. *(done)* The proofs about every component: the codec, the window as it slides, the heap and
   the loop of the link, the link between several hosts, and a transfer past the wrap of the
   numbers, of any length and on any link, with the timers of the code: what it keeps, where it
   stands still, when the receiver gives up, and when it succeeds.
7. Left to TLC: liveness. Left out: section 7.

## 4. Runs

`window`, `codec`, `forward` and the violation runs use the real sizes, `M = 256` and
`W = 31`.

| Run | Question | Result |
|---|---|---|
| `window` | Is the arithmetic modular arithmetic, and are the closed forms what the loops compute? | 65536 states: every (window, number) pair |
| `codec` | Do the decoders tell what `Datagram` says, whatever one harm does to the bytes? | yes, and no payload is accepted that was not sent |
| `all_faults` | What remains true on a link with every fault, both ways, timers at any moment, memory that is not zero? | safety of the transfer, the inductive invariant, the refinement |
| `forward` | Does the transfer work when only the packets are harmed, and what arrives of text typed on the standard input? | 287 blocks, through the wrap of the numbers: nobody fails, both exit with 0; each line arrives, without its linefeed, without the empty ones |
| `timers` | Are 4.5 s and 2.5 s enough, with a timer that is not set again after a NACK, and what does the transfer do then, whatever the link does? | yes for `MaxCuts + 1` round trips below 2.5 s: nothing is repeated but what is lost, and every property of a transfer without early timers holds; one datagram at a time, on which both sides agree; the receiver gives up after a lost ACK, or on packet `M + W`, and for nothing else |
| `reception` | What does the receiver do with a sender that fills its window? | it never finds its buffer full, and serves one whose packets come in order; packets ahead of their turn are lost and replaced by copies |
| `delayed_link` | Does the link deliver each datagram once, in order, and when it should? | each once; without jitter in the order of the readings of the clock they arrived at; early by less than a second; never late by its own doing, but for jitter |
| `relay` | Who gets what, when several hosts send to the link and sending may fail? | one sender and the receiver, each datagram once and at last, unless the link stops; without jitter in order, but for those that arrived at the same reading of the clock |
| `lost_ack` | `receiver.c:235`: a packet outside the window is ignored | no: the receiver exits |
| `cut_ack` | `lib.h:319-320`: CRC1 of an ACK is checked with TR taken as 0 | no: a cut ACK ends the sender |
| `ack_at_wrap` | `sender.c:447`: an ACK takes packets out of the buffer | not the ACK that carries 0 |
| `lost_fin_ack` | `test.sh`: a transfer ends, on a link with losses both ways | not when the last ACK is lost |

### Bounds, and why they are enough

- `window`: none; the real sizes. That the bounds stay `W` apart is not a property of its own: a
  window of another width would accept other numbers (`WindowIsDistance`).
- `codec`: both sides of the wrap of the number, a window that fits its field and one
  that does not (255, which the code does reach), payloads of one and of two bytes and the
  empty one. One harm at most, as `simulate_link` does one. The struct of the receiver
  carries over any number of datagrams.
- `all_faults`: `M = 8`, `W = 3`, four blocks, so a window that slides past its first
  position and `Len(Input) + W < M` (numbers do not wrap, see section 5);
  `MaxInFlight = 3` bounds the repetitions under way, so a late first copy, its
  repetition and an ACK exist together; faults and jitter can hit each of them. What
  TLC shows here on a small instance, the theorems show for every size.
- `forward`: 287 blocks that are sent, `M + W`, the longest file that arrives, and
  six that are not (a linefeed or a NUL first), at the beginning, in the middle and at the
  end; lines end with a linefeed or with a NUL and what follows it. The sender never has two
  packets under way here, so the real sizes cost nothing. The last packet goes to the
  slot past the buffer (up to 286 blocks none does, `PromptSlots`); with 288 the receiver exits
  on the last one: the ACK of packet 255 does not slide the window of the sender
  (`ack_at_wrap`), which 32 packets later falls back to number 255 (`StandsStill`).
- `timers`: in tenths of a second, 4.5 s and 2.5 s, with a link of 0.3 s and three cuts:
  24 tenths, the most below 2.5 s; every fault both ways; `M + W + 1` blocks, with `M = 8` and
  `W = 3`, so that the numbers wrap, the window of the sender stands still and the last packet
  is one that no window allows. `ImplementsQuiet` is liveness too.
- `reception`: `M = 8`, `W = 3` and twelve packets accepted, so the numbers and the window
  go round once and a half, with every subset of the slots in use; proved for every size
  and without a bound.
- `relay`: two senders (or one and the same, started again), four datagrams, three sizes;
  five command lines: none of the options, those of `test.sh`, jitter, a loss of 101, a
  negative rate. The readings of the clock need no bound: a later one counts only when a held
  datagram arrived at the last one.
- `delayed_link`: a second of 2 ms of 2 microseconds, so that dates go into the next
  second, delays below and above a second, jitter below and above the delay, a cap that
  some delays exceed; five datagrams, the number from which the heap takes a right child
  after a pop; readings of the clock up to 7. The lemmas about dates are proved for the
  real sizes and all others.
- The files of `MCTransfer` have different blocks, so that losing, repeating or
  swapping one is seen; a block has two bytes and the last one a single byte, as a
  file's last block is shorter.

`CHECK_DEADLOCK FALSE` is said where a program stops on its own and leaves the other
one waiting, and in `delayed_link`, where an idle link waits in `select` for ever (and
where `Horizon` ends the clock) or for datagrams (`relay`). In `forward` deadlock is checked: nothing but the end of
both programs (`Terminated` of `EndingSpec`) may stop a transfer.

### Spurious timers

`Spurious = TRUE` lets a timer expire at any moment. `Spurious = FALSE` says that one
expires only when nothing is under way. `TimedTransfer` says when that is so: the property
`ImplementsQuiet` is that a transfer with the timers of the code is one with
`Spurious = FALSE`, provided that the programs answer at once, that the delay of the link
and the number of packets it cuts in a row satisfy `(MaxCuts + 1)` round trips < 2.5 s
(`LinkIsFast`), and that no datagram stays longer than the delay. With the 50 ms of
`test.sh` that allows 23 cuts in a row; 24, at the rate of 50 that is the default, are less
likely than one in ten million. The condition is not
a fact about every link: `link_sim` accepts delays of up to 10 s, and with more cuts than
that the timer runs out while an answer is under way, as it is not set again after a NACK.
With `Spurious = TRUE`, `NobodyFails` is false on any link: a repeated packet ends the
receiver. The safety properties do not need the assumption.

### Fairness

`forward`, `timers`, `relay` and the violation runs state fairness: weak for the steps of the
sender, of the receiver and of the link, since the three programs run and `select`
does return; strong for relaying a datagram unharmed, since the rates are compared
with `rand() % 101` and a rate of 100 still spares one datagram in 101 (a negative rate is left out). No
fairness asks a particular fault to happen or not to happen. `timers` adds that time
passes. In `relay` fairness is weak for the arrivals of the loop (`select` returns while
something is in the socket) and for the deliveries: a delayed datagram is due at last, and
a send buffer that is full is emptied by the kernel.

### Properties

- `PrefixWritten`, `ImplementsPromise`: nothing twice, nothing altered, nothing out of
  order; `Lockstep`: sender and receiver never get out of step; `EndMeansComplete`:
  exit 0 means the whole file has been transferred, on either side.
- `WindowConserved`, `SlotsInBounds`: window and buffers agree with the protocol.
- `DecodesAsModelled`: the Boolean view of the CRCs is what the
  codec computes; `DecodedIsSent`: an accepted packet is the one encoded, whatever the
  struct held before.
- `DiesOnRepetition`: the receiver gives up only on a payload it has already written.
- `NobodyFails`, `Completes`: the transfer works.
- `HeapOrder`, `ImplementsQueue`: the heap is a heap, and the priority queue of
  `min_queue.h`; `InOrder`: without jitter nothing is overtaken (two datagrams of the same
  microsecond apart: the heap does not keep the order of equal dates).
- `EarlyByLessThanASecond`, `NeverOversleeps`: how wrong the dates can be.
- `LinesReceived`: what the standard input becomes; `BlocksKept`: of a file, nothing that
  was read is missing.
- `RepeatsOnlyLost`, `OnTime`, `ImplementsQuiet`: a timer never expires while an answer is
  under way; `OnTime` is the invariant that says why.
- `NeverFull`, `OrderedPeerServed`, `WritesFromAwaited`, `WindowFollowsFile`,
  `WindowCountsDown`: the receiver whatever the sender does.
- `Paired`: nobody but the first sender and the receiver takes part; `OnceInOrder`:
  no datagram twice, and without jitter none overtaken, except by one delayed with it at the same
  reading of the clock (without that exception it is false, and TLC finds the exchange);
  `NothingForgotten`, `RelayedAtLast`: what a full send buffer, an alien or an option may
  not do to a datagram.
- `StopAndWait`: with prompt timers sender and receiver agree on the one packet under way;
  `StandsStill`: how far a transfer gets at most; `GivesUpOnLostAck`: when the receiver gives up,
  and that it does for nothing else.
- `Inductive`: the strengthening of section 5, checked before it was proved (`StopAndWait` is
  one, too).

Every property has, in `PROJECT.json`, a plausible bug of the code under which TLC
refutes it (a decoder without CRC2, a slot off by one, an ACK with the number of its
packet, a disconnection taken from a cut packet, ...); its definition stands in the
module, as "mutated forms", before the definitions it replaces.

### Compared with the programs

The model's answers were compared with the compiled programs on this code: 287 blocks
pass on a perfect link and 288 do not; one lost ACK ends the receiver; one cut ACK ends
the sender; a NACK for an earlier packet crashes the sender; the advertised window goes
31, 29, ..., 1, then 255 in the `uint8_t`; faults on the forward path are survived; a
lost disconnection ACK leaves the sender repeating; with `MALLOC_PERTURB_=85` a file of
3 bytes arrives as 512.

## 5. Proofs

All are checked by TLAPS, for every value of the constants that satisfies the named
assumptions: `WindowSizes` (a window smaller than half the numbers), `SenderConstants` (any file
of blocks that are not empty, any memory behind them) and `LinkConstants` (any faults) for a
transfer; `TimerConstants` and `LinkIsFast` for the timers; `ReceptionConstants` for the receiver
alone; `CodecConstants`; `TimevalConstants` and `DelayedLinkConstants` for the link with its
clock; `RelayConstants` for the link between hosts. A theorem that needs more says so in its
`ASSUME`.

| Module | Property, for every value of the constants | From |
|---|---|---|
| `WindowProofs` | `WindowIsDistance`, `LoopsClosed` | `WindowInv` |
| `CodecProofs` | `TypeOK`, `DecodesAsModelled`, `DecodedIsSent` | `WireInv`, the structs |
| `DelayedLinkProofs` | `TypeOK`, `HeapOrder`, `ImplementsQueue`, `NeverOversleeps`, `InOrder`, `EarlyByLessThanASecond` | the heap, `Dated` |
| `RelayProofs` | `RelayTypeOK`, `Paired`, `OnceInOrder`, `NothingForgotten` | `Orderly` |
| `TransferSafety` | `TypeOK`, `LinesSent` | `TypeInv` |
| | under `NoWrap`: `Inductive`, `PrefixWritten`, `Lockstep`, `EndMeansComplete`, `WindowConserved`, `SlotsInBounds`, `DiesOnRepetition`, `ImplementsPromise`, `LinesWritten`; `BlocksKept` of a file without terminators (`PlainFile`) | `TypeInv`, `Inductive` |
| | with prompt timers (`~Spurious`), for a file of any length and any faults: `StopAndWait`, `StandsStill`, `GivesUpOnLostAck`, `PrefixWritten`, `EndMeansComplete`, `ImplementsPromise`, `LinesWritten`; `SlotsInBounds` up to `M + W - 1` packets; `LinesReceived` of what the runs type | `TypeInv`, `StopAndWait` |
| | ... on a link that harms the packets only, up to `M + W` packets: `NobodyFails` | `Forwarding` |
| `TimersProofs` | `TimedTypeOK`, `OnTime`, `RepeatsOnlyLost`, the safety half of `ImplementsQuiet`; without any assumption on when a timer expires: `StopAndWait`, `StandsStill`, `GivesUpOnLostAck`, `ImplementsPromise`, `LinesWritten`, and `NobodyFails` on a link that harms the packets only | `OnTime`, `StopAndWait` |
| `ReceptionProofs` | `NeverFull`, `WindowFollowsFile`, `WindowCountsDown`, `OrderedPeerServed`, `WritesFromAwaited` | `ReceptionInv` |

None of the safety properties of a transfer is inductive: each speaks of sender and receiver, and
what relates the two is in the queues.

*The window.* `WindowInv` is that the bounds stay `W` apart. The loop of the sender on
`in_window` and the repetition of `decale_window` are recursive functions in `MCWindow`; that
such a function exists is shown by its closed form, and that no other one fits by a least
counterexample: the least number of turns, or of calls, at which the loop would differ from the
closed form.

*A transfer whose numbers do not wrap.* `Inductive` says that every packet
under way is that of a payload handed over, or the disconnection once everything is
written (`PacketsInv`); that an ACK is under way only for the packet that waits, and
at most one (`AcksInv`): the receiver, which exits on a repetition, acknowledges a
packet once; and how number, window and buffer of the sender (`SenderInv`) and of the
receiver (`ReceiverInv`) follow from the number of payloads sent and written. The proof
that a step keeps it has one lemma per action. Repetition is where the argument is
subtle: a second copy of the packet may reach the receiver when the first one's ACK is
under way, and it is the receiver's exit that keeps `OneAck`. The refinement maps accepting a
packet to `Deliver`, sending a block to `Submit` and the receiver's exit to `Close`.

*Why `NoWrap`* (`Len(Input) + W < M`). The position of a payload and its number are then the
same, and acknowledging always slides the window. For `M = 256` and `W = 31` it covers files of
up to 224 blocks (112 KiB), on any link. Past it `Lockstep`, `WindowConserved` and `Inductive` are false:
the window of the sender stops while that of the receiver goes on.

*A transfer through the wrap.* When a timer expires only when nothing is under way (`PromptSpec`,
of which `Spec` with `~Spurious` and `TimedSpec` are cases), `StopAndWait` holds whatever the
link does, in both directions, and however long the file: one datagram at most is under way, it
is the packet that waits or its answer, and both sides agree on it. The k-th packet has number
`Number(k)`, and the window of the sender starts at `Stuck(k)`: it stops at `M - 1`, since the ACK
that carries 0 does not slide it (`ack_at_wrap`), nor does any after it. The receiver is either
one payload behind the sender, with no ACK under way, or level with it; when an ACK is lost the
repetition meets a window that has moved on (`RejectedIsRepeated`) and the receiver exits, so
nothing is written twice. Packet `M + W` is out of the window of the sender, which gives it
number `M - 1` again (`Taken`): the receiver, which awaits another, exits on it. Hence
`StandsStill`, and `GivesUpOnLostAck` names the only two ways the receiver gives up. In contrast
to the invariant of the previous paragraph the position of a packet and its number differ, and
what is at stake in each step is that the number, the window and the answer still fit
(`LoopOnAck`).

*Its success.* When besides the link harms the packets only (`OneWay`, the default of
`link_sim`), `NothingLost` adds that the ACK of a written packet is under way until the sender
takes it, so nobody gives up. `WrapsOnce`, at most `M + W` packets, keeps every number within the
window of the sender; the bound is tight (`StandsStill`). The last of 287 packets is stored past
the buffer, which the model takes as harmless (section 7); up to 286 nothing is (`PromptSlots`).
Blocks that are skipped do not count, so the file itself may be longer. `NeverTooLong` says that
no payload is longer than `MAX_PAYLOAD_SIZE`, which is so when memory holds a NUL right after a
block of 512 bytes; otherwise `pkt_set_payload` refuses it and the sender exits
(`PayloadTooLong`).

*What becomes of a file.* `LinesSent` follows the sender alone: a block is skipped when it starts
with a terminator, whatever memory holds after it (`SkippedWhole`), so the blocks sent are known
in advance (`Sendable`) and the k-th of them gives the k-th payload. It needs no assumption.
With the prefix and the end it gives `LinesWritten`; `BlocksKept` is what it says of a file
without terminators. `LinesReceived` is `LinesWritten` for the text the run `forward` types,
of any number of lines (fewer than 15600, as the blocks are numbered by a byte), together with the
exit of the receiver: the place of each line among the blocks, and the number of lines up to each
block, are counted in `LinesPlaced`.

*The timers.* `OnTime` bounds the timer from below by what can still
happen before an answer: the rest of the packet's delay, a delay for its answer, and a
round trip for each cut the link may still make. Time passing lowers both sides by as much;
a cut packet is answered by a NACK and repeated, which uses up one of the round trips; a
timer that has expired therefore finds nothing under way, and sets a timer that is long
enough again. That one datagram at most is under way is part of the induction. A transfer with
such timers is thus one whose timers are prompt (`TimedIsPromptSpec`), so what is proved of those
holds of it with no assumption on when a timer expires.

*The receiver.* Slot 0 is that of the packet awaited, and `write_buffer`
empties it in the iteration that fills it, so the buffer is never full (`0 \notin r_buf` of
`ReceptionInv`). The numbers that a sender may use are less than `M` apart, so number
and packet name each other (`SameNumber`), past any number of wraps (`DecaleByIsSum`:
sliding the window is addition modulo `M`). While the packets come in order no slot is
left in use, and each payload written is the packet's own.

*The codec.* The invariant says what may be on the wire: what was encoded, cut or with one byte
inverted. A header with an inverted byte never passes CRC1, whether the decoder clears TR
(`pkt_decode`) or not (`ack_decode`): TR shares its byte with the type and the window, which an
inversion changes too (`FirstByteFields`, `HeaderHarmed`).

*The heap and the loop of the link.* `minq_push` and `minq_pop` keep the heap, and add or remove
the one entry they should (`PushAdds`, `PopRemoves`): while an entry moves, every other place is
in order. In the loop, each date is a reading of the clock plus a delay the options
allow (`Dated`). Such dates are not normalised, and compare like times all the same when the
delay is the same (`SameDelayKeepsOrder`): so the order of different readings without jitter. With jitter the
comparison errs by less than a second (`EarlyByLess`).

*The link between hosts.* `Orderly` says that the numbers of the datagrams grow along the
socket, that what is in the queue or sent is older than what waits, that the queue is in the
order of arrival, so of the readings too, and, without jitter, that what is held in a direction
is younger than what was sent in it, or arrived at the same reading.

*Only model-checked.* Liveness (`Completes`, `RelayedAtLast`, the fairness of
`ImplementsQuiet`), which the prover does not reach. Every other property of the runs that
pass is proved.

## 6. Findings

The disagreements between the code and its comments or its test are in `PROJECT.json`,
one per violation run. More, that no violation run shows: with 287 blocks the window of
the sender stands still after the wrap (`ack_at_wrap`) and the last packet goes to slot 31
of a `buffer_envoi` of 31 slots; a datagram may leave the link up to a second before the
`-d` milliseconds (`link_sim.c:222`, `EarlyByLessThanASecond`); `timeval_diff` is not `c = a
- b` (`link_sim.c:106`) when its borrow leaves no second, and the link then polls every
millisecond (`TimeoutIsLeft`); the delay "capped to 10s" (`link_sim.c:195`) is taken modulo
10 s, so 10 s is no delay; the usage of `link_sim` says that
`-c` defaults to 0 (`link_sim.c:496-498`) and the code sets 50 (`link_sim.c:72`); the
receiver exits with 0 when its buffer is full (`receiver.c:343-346`), which
`NeverFullCorrect` shows cannot happen; and a file with linefeeds or
NULs does not arrive intact on the standard input, although `test.sh:26` feeds the
sender a random file that way (`LinesReceived` is what does arrive).

- *The window of the receiver counts down* (`receiver.c:286`, `294`): it loses a place when a
  packet enters the buffer and another when `write_buffer` takes it out, and gets none back
  (`WindowCountsDown`, proved). After 16 packets the `uint8_t` is 255, although "Taille
  maximale de Window" is 31 (`lib.h:37-38`); what is advertised, its 5 low bits, goes 29,
  27, ..., 1, 31 with an empty buffer. The sender does not look at it.
- *More may arrive than was read* (`sender.c:319`): the length is `strlen(payload_buf)` and
  not `bytes_read`, so what the memory holds after the block goes with it, although
  `test.sh:49-51` compares the two files. `BlocksKept` is what remains true.
- *Packets ahead of their turn are lost* (`lib.c:1150-1168`): "Ecrit tous les éléments du buffer
  qui sont disponible et dans l'ordre" (`lib.c:1137`), but each slot points to the one
  struct, so `write_buffer` writes as many copies of the packet just received, and slots
  behind a gap are not moved when the window is. In `reception`, `OrderedPeerServed`
  without its `~ahead` is false. The sender of this repository never sends ahead.
- *The rates of the link* (`link_sim.c:543-549`): 101 is 0, a negative rate is every datagram,
  and 100 "in packet/100" spares one datagram in 101.
- *The link serves one sender* (`link_sim.c:259-270`): a sender that is started again is an
  alien for ever, so the link has to be started again too.

## 7. What is not modelled

- The bytes of the fields but the first one, and CRC32 itself, taken as detecting one
  inverted byte, which it does. `pkt_decode` copies with `strcpy` (`lib.c:520`) into 512 bytes what
  may be a few bytes longer; the model takes the copy as correct.
- The store past `buffer_envoi` overwrites a word of the heap; the outcome modelled is
  that the program goes on. Reading an uninitialized pointer is a choice between a
  crash and going on.
- Errors of `malloc`, `read`, `write`, `sendto` and `recvfrom`: each ends the program
  with -1, or is not looked at (`write`).
- The standard output as destination: each payload is followed by a linefeed, nothing
  else differs.
- The growth of the array of the priority queue (`min_queue.c:86`): when `realloc` fails the
  link stops, otherwise the entries are kept.
- Errors of `malloc`, `select`, `recvfrom` and the clock in the link: each ends it.
- The set-up of the programs: sockets, name resolution and their command lines (those of
  the link are in `Relay`), done before the first datagram; the leaks of memory; the functions of
  `lib.c` that no program calls.
- `src/tests/`: copies of the programs with fixed arguments.
- `Inginious/` and `Tuto/`: an earlier version of the codec, a chat, a `select` tutorial by
  another author and an exercise on records, which no Makefile links into the programs. The
  records read and write past the memory they allocate, so there is no defined
  behaviour to be faithful to.
- A link that gives a datagram to the receiver from two senders: it cannot (`Paired`).
  Against the receiver directly, two senders are outside the protocol.
