---------------------------- MODULE PriorityQueue ----------------------------
(***************************************************************************)
(* What min_queue.h promises: push adds an entry, pop removes one that is  *)
(* not greater than any other.                                             *)
(***************************************************************************)
CONSTANT Greater(_, _)

VARIABLE items

Init == items = {}

Add == \E v \in items' \ items : items' = items \cup {v}

Remove == \E v \in items : /\ \A w \in items : ~Greater(v, w)
                           /\ items' = items \ {v}

Next == Add \/ Remove

Spec == Init /\ [][Next]_items
=============================================================================
