------------------------------ MODULE MinQueue ------------------------------
(***************************************************************************)
(* The heap of src/linksim/min_queue.c, as it is indexed there: slot 0 is  *)
(* the root and the parent of slot 1 alone; from slot 1 on, the children   *)
(* of i are 2i and 2i + 1.  A queue is a function on 0 .. size - 1.        *)
(***************************************************************************)
EXTENDS Integers, FiniteSets

CONSTANT Greater(_, _)   \* the compare function given to minq_new

EmptyQueue == [i \in {} |-> 0]
Size(q) == Cardinality(DOMAIN q)

\* Mutated forms of the definitions below
ParentFromZero(i) == (i - 1) \div 2
HasChildLeft(q, i) == IF 2 * i >= Size(q) THEN 0 ELSE 2 * i

Parent(i) == i \div 2

\* has_child: the smaller child, or 0 if there is none; 0 is its own left child
HasChild(q, i) ==
  LET left == 2 * i
      right == left + 1
  IN IF left >= Size(q) THEN 0
     ELSE IF right < Size(q) /\ Greater(q[left], q[right]) THEN right
     ELSE left

-----------------------------------------------------------------------------
\* minq_push: Rise[i] is the queue when v has found its place from slot i up: parents
\* that are greater move down.
HeapifyUp(grown, from, v) ==
  LET Rise[i \in 0 .. from] ==
        IF i # 0 /\ Greater(grown[Parent(i)], v)
        THEN [Rise[Parent(i)] EXCEPT ![i] = grown[Parent(i)]]
        ELSE [grown EXCEPT ![i] = v]
  IN Rise[from]

Push(q, v) ==
  LET grown == [i \in 0 .. Size(q) |-> IF i \in DOMAIN q THEN q[i] ELSE v]
  IN HeapifyUp(grown, Size(q), v)

\* minq_pop: Sink[i] is the queue when v has found its place from slot i down: the
\* smaller child moves up.
HeapifyDown(q, v) ==
  LET Sink[i \in 0 .. Size(q)] ==
        LET child == HasChild(q, i)
        IN IF child # 0 /\ Greater(v, q[child])
           THEN [Sink[child] EXCEPT ![i] = q[child]]
           ELSE [k \in DOMAIN q |-> IF k = i THEN v ELSE q[k]]
  IN Sink[0]

\* ... of the last entry, which is first put at the root
Pop(q) ==
  LET last == Size(q) - 1
      moved == [i \in 0 .. last - 1 |-> IF i = 0 THEN q[last] ELSE q[i]]
  IN HeapifyDown(moved, q[last])

Peek(q) == q[0]
Empty(q) == DOMAIN q = {}
Entries(q) == {q[i] : i \in DOMAIN q}

\* "A node in the tree is always < than its child nodes"
HeapOrdered(q) == \A i \in DOMAIN q \ {0} : ~Greater(q[i \div 2], q[i])
=============================================================================
