----------------------------- MODULE LinkedList -----------------------------
(***************************************************************************)
(* The intrusive doubly linked list of collections/intrusive: the nodes are *)
(* inside the futures that wait, and the list is four kinds of pointer.     *)
(***************************************************************************)
EXTENDS Naturals, Sequences, FiniteSets

CONSTANTS Nodes, NoNode

EmptyList == [head |-> NoNode, tail |-> NoNode,
              next |-> [n \in Nodes |-> NoNode], prev |-> [n \in Nodes |-> NoNode]]

AddFront(l, n) ==
  [l EXCEPT !.next[n] = l.head, !.head = n,
            !.prev = [m \in Nodes |-> IF m = n THEN NoNode ELSE IF m = l.head THEN n ELSE @[m]],
            !.tail = IF @ = NoNode THEN n ELSE @]

(* remove fails when the node has no predecessor and is not the head.        *)
IsLinked(l, n) == l.prev[n] # NoNode \/ l.head = n
Remove(l, n) ==
  LET p == l.prev[n] s == l.next[n] IN
  [head |-> IF p = NoNode THEN s ELSE l.head,
   tail |-> IF s = NoNode THEN p ELSE l.tail,
   next |-> [m \in Nodes |-> IF m = n THEN NoNode ELSE IF m = p THEN s ELSE l.next[m]],
   prev |-> [m \in Nodes |-> IF m = n THEN NoNode ELSE IF m = s THEN p ELSE l.prev[m]]]

(* The nodes a walk along pointers meets, at most once around.               *)
Walk(to, from) ==
  LET at[k \in Nat] == IF k = 0 THEN from ELSE IF at[k-1] = NoNode THEN NoNode ELSE to[at[k-1]]
      steps == {k \in 0..Cardinality(Nodes) : at[k] # NoNode}
  IN  [k \in {s + 1 : s \in steps} |-> at[k - 1]]

(* reverse_drain visits the nodes from the tail and clears those it visits.  *)
Backwards(l) == Walk(l.prev, l.tail)
ReverseDrained(l) ==
  LET visited == {Backwards(l)[k] : k \in DOMAIN Backwards(l)} IN
  [head |-> NoNode, tail |-> NoNode,
   next |-> [n \in Nodes |-> IF n \in visited THEN NoNode ELSE l.next[n]],
   prev |-> [n \in Nodes |-> IF n \in visited THEN NoNode ELSE l.prev[n]]]
=============================================================================
