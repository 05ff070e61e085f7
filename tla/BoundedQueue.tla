---------------------------- MODULE BoundedQueue ----------------------------
(***************************************************************************)
(* What a ring buffer promises (collections/ring.rs): a first-in first-out  *)
(* queue with room for a fixed number of items, one writer and one reader,  *)
(* each operation happening at once.                                        *)
(***************************************************************************)
EXTENDS Naturals, Sequences

CONSTANTS Items, Capacity
VARIABLES queue, got

(* An item is put into the queue if there is room for it.                    *)
Enqueue(item) ==
  /\ Len(queue) < Capacity
  /\ queue' = Append(queue, item)
  /\ UNCHANGED got

(* The oldest item is taken out.                                             *)
Dequeue ==
  /\ queue # <<>>
  /\ got' = Head(queue)
  /\ queue' = Tail(queue)

Init == queue = <<>> /\ got \notin Items
Next == Dequeue \/ \E item \in Items : Enqueue(item)
Spec == Init /\ [][Next]_<<queue, got>>
=============================================================================
