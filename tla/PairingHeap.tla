----------------------------- MODULE PairingHeap -----------------------------
(***************************************************************************)
(* The intrusive pairing heap that orders the runtime's timers             *)
(* (collections/intrusive/pairing_heap.rs).  A heap is a record: its root, *)
(* or NoNode, and the list of children of each node, first child first.    *)
(* The parent and sibling pointers of a HeapNode are read off those lists. *)
(* "key" is the data the nodes are compared by.                            *)
(***************************************************************************)
EXTENDS Integers, Sequences

CONSTANT NoNode        \* the null pointer

EmptyHeap(Nodes) == [root |-> NoNode, kids |-> [n \in Nodes |-> <<>>]]

Kids(heap, n) == {heap.kids[n][i] : i \in DOMAIN heap.kids[n]}

(* add_child: the new child becomes the first one. *)
AddChild(kids, p, c) == [kids EXCEPT ![p] = <<c>> \o @]

(* meld and maybe_meld: of two equal roots the right one wins. *)
Meld(key, kids, left, right) ==
    IF left = NoNode THEN [root |-> right, kids |-> kids]
    ELSE IF key[left] < key[right]
         THEN [root |-> left, kids |-> AddChild(kids, left, right)]
         ELSE [root |-> right, kids |-> AddChild(kids, right, left)]


(* merge_children: from the right, the children are melded in pairs and    *)
(* each pair is melded into what the ones before it gave; an odd first     *)
(* child comes last.                                                       *)
MeldNext(key, done, left, right) ==
    LET pair == Meld(key, done.kids, left, right)
    IN  Meld(key, pair.kids, done.root, pair.root)

PairsMelded(key, kids, cs) ==
    LET melded[j \in 0..(Len(cs) \div 2)] ==
            IF j = 0 THEN [root |-> NoNode, kids |-> kids]
            ELSE MeldNext(key, melded[j-1], cs[Len(cs) - 2*j + 1], cs[Len(cs) - 2*j + 2])
    IN  melded

MergeChildren(key, kids, cs) ==
    LET all == PairsMelded(key, kids, cs)[Len(cs) \div 2]
    IN  IF Len(cs) % 2 = 0 THEN all ELSE Meld(key, all.kids, all.root, cs[1])

(* A node leaves the list of its siblings. *)
Unlinked(s, n) ==
    LET at == CHOOSE i \in DOMAIN s : s[i] = n
    IN  IF \E i \in DOMAIN s : s[i] = n
        THEN [i \in 1..(Len(s) - 1) |-> s[IF i < at THEN i ELSE i + 1]]
        ELSE s

HeapInsert(key, heap, n) == Meld(key, heap.kids, heap.root, n)

(* remove: the children of the node take its place under its parent, or    *)
(* the root's.                                                             *)
HeapRemove(key, heap, n) ==
    LET bare == [p \in DOMAIN heap.kids |->
                    IF p = n THEN <<>> ELSE Unlinked(heap.kids[p], n)]
        rest == MergeChildren(key, bare, heap.kids[n])
    IN  IF n = heap.root THEN rest
        ELSE [root |-> heap.root,
              kids |-> IF rest.root = NoNode THEN rest.kids
                       ELSE AddChild(rest.kids,
                                     CHOOSE p \in DOMAIN heap.kids : n \in Kids(heap, p),
                                     rest.root)]

(* The heap order, and that its links form a forest without a shared child. *)
HeapOrdered(key, heap) ==
    \A p \in DOMAIN heap.kids : \A c \in Kids(heap, p) :
        /\ key[p] <= key[c]
        /\ c # heap.root
        /\ \A q \in DOMAIN heap.kids : c \in Kids(heap, q) => q = p

(* The nodes in the heap: the root and everybody's child. *)
HeapNodes(heap) ==
    (IF heap.root = NoNode THEN {} ELSE {heap.root})
        \cup UNION {Kids(heap, p) : p \in DOMAIN heap.kids}
=============================================================================
