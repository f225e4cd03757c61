-------------------------------- MODULE Queue --------------------------------
(* The arrays in which agentRunBatch.ts keeps its members, promptService.ts *)
(* its prompts and stepRequestQueue.ts the requests of a turn.              *)
EXTENDS Naturals, Sequences

Queued(q) == {q[i] : i \in DOMAIN q}
Distinct(q) == \A i, j \in DOMAIN q : q[i] = q[j] => i = j

(* Seeded fault: the queue's head is taken instead of the chosen element.   *)
HeadTaken(q, i) == Tail(q)

(* splice(i, 1)                                                             *)
Taken(q, i) == [j \in 1..(Len(q) - 1) |-> IF j < i THEN q[j] ELSE q[j + 1]]

(* The elements of q that are in S, in the order they have: filter(), and   *)
(* what splice() in a loop leaves.                                          *)
Kept(q, S) ==
    LET kept[n \in 0..Len(q)] ==
          IF n = 0 THEN <<>>
          ELSE IF q[n] \in S THEN Append(kept[n - 1], q[n]) ELSE kept[n - 1]
    IN  kept[Len(q)]

(* r is q without the elements of S, in the order they had.                 *)
IsRest(r, q, S) ==
    /\ Queued(r) = Queued(q) \ S
    /\ \A i, j \in DOMAIN r : i < j =>
          \E k, l \in DOMAIN q : k < l /\ r[i] = q[k] /\ r[j] = q[l]
=============================================================================
