------------------------------ MODULE Transfer ------------------------------
(***************************************************************************)
(* A whole transfer: one sender, the link and one receiver, each at its    *)
(* own pace.                                                               *)
(***************************************************************************)
EXTENDS Sender, Receiver, Link

vars == <<s_pc, senderVars, r_pc, receiverVars, up, r_sock, down, s_sock>>

Init == SenderInit /\ ReceiverInit /\ LinkInit

SenderStep == SenderNext /\ UNCHANGED <<r_pc, receiverVars, r_sock, down>>
ReceiverStep == ReceiverNext /\ UNCHANGED <<s_pc, senderVars, up, s_sock>>
LinkStep == LinkNext /\ UNCHANGED <<s_pc, senderVars, r_pc, receiverVars>>

Next == SenderStep \/ ReceiverStep \/ LinkStep

Spec == Init /\ [][Next]_vars

\* Both programs run on: each takes the steps it can take, its timers included.
\* The link relays what it holds, and of the packets sent again and again one
\* goes through unharmed (the rates are compared with rand() % 101, so even 100
\* lets some datagrams through).
Intact(relay) == relay /\ UNCHANGED <<s_pc, senderVars, r_pc, receiverVars>>

Fairness == /\ WF_vars(SenderStep)
            /\ WF_vars(ReceiverStep)
            /\ WF_vars(LinkStep)
            /\ SF_vars(Intact(RelayPacket))
            /\ SF_vars(Intact(RelayAck))

FairSpec == Spec /\ Fairness

TypeOK == SenderTypeOK /\ ReceiverTypeOK /\ LinkTypeOK

-----------------------------------------------------------------------------
\* What is written to the file is what was handed over, in order, nothing twice
\* and nothing altered, at every moment and whatever the link does.
PrefixWritten == /\ Len(r_written) <= Len(s_sent)
                 /\ \A k \in DOMAIN r_written : r_written[k] = s_sent[k]

\* Stop-and-wait: the sender reads its next block only when the receiver has
\* written the previous one, and then both windows start at the same number.
Lockstep == /\ Len(s_sent) <= Len(r_written) + 1
            /\ s_pc \in {"read", "fin", "fin_block"} =>
                 /\ Len(r_written) = Len(s_sent)
                 /\ s_min = r_min

\* When the receiver or the sender exits with 0, the whole file has been read and
\* every payload is in the file of the receiver.
EndMeansComplete ==
  "done" \in {r_pc, s_pc} => s_pos = Len(Input) /\ r_written = s_sent

\* The sender's count of free places is that of its window less the packet that
\* waits, and acknowledged packets have left buffer_envoi.
WindowConserved ==
  /\ s_pc = "wait" => s_window = W - 1
  /\ s_pc \in {"read", "fin", "fin_block", "done"} =>
       /\ s_window = W
       /\ \A i \in 0 .. W : s_buf[i] # "packet"

\* No packet is stored past the W slots that are allocated to each buffer, and the
\* receiver, whose slots are all empty between two packets, is never full.
SlotsInBounds == s_buf[W] = "uninit" /\ r_buf = {} /\ r_pc # "full"

\* The receiver gives up only on a packet whose payload it has already written.
\* (Numbers and positions coincide as long as the numbers do not wrap.)
DiesOnRepetition ==
  [][r_pc = "run" /\ r_pc' = "failed" => Head(r_sock).seq < Len(r_written)]_vars

-----------------------------------------------------------------------------
\* For links that harm the packets only: nobody gives up, nobody crashes, and the
\* sender never waits without a timer.
NobodyFails == /\ s_pc \notin {"failed", "crashed", "fin_block"}
               /\ r_pc \notin {"failed", "full"}

\* The transfer ends, on both sides.
Completes == <>(s_pc = "done" /\ r_pc = "done")

-----------------------------------------------------------------------------
\* The transfer implements the promise, one payload on the way at a time.
Promise == INSTANCE ReliableTransfer WITH
  Payloads <- {Payload(Input[k] \o tail) : k \in DOMAIN Input, tail \in Tails} \ {<<>>},
  Outstanding <- 1,
  sent <- s_sent, delivered <- r_written, closed <- (r_pc = "done")

ImplementsPromise == Promise!Spec
=============================================================================
