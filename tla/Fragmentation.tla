--------------------------- MODULE Fragmentation ---------------------------
(***************************************************************************)
(* How the state of a migrating connection crosses the network: cut into   *)
(* fragments by TcpMigFragmenter (tcpmig/segment/mod.rs), carried one      *)
(* packet each, and put together by the TcpMigDefragmenter of the target's *)
(* ActiveMigration (tcpmig/segment/defragmenter.rs).                       *)
(*                                                                         *)
(* A state is a sequence of bytes, and a byte is its position in it; 0 is  *)
(* a byte that nobody wrote.                                               *)
(***************************************************************************)
EXTENDS Integers, Sequences, SequencesExt

CONSTANTS
    Sizes,       \* lengths of the states that are sent
    MaxFragment, \* MAX_FRAGMENT_SIZE: bytes that fit in a packet
    Offsets,     \* number of values of fragment_offset (2^16: a u16)
    None,        \* "no value"
    MaxLoss,     \* bound: packets the network loses
    MaxDup       \* bound: packets the network duplicates

FragmentationAssumption ==
    /\ Sizes \subseteq Nat \ {0}
    /\ MaxFragment \in Nat \ {0} /\ Offsets \in Nat \ {0}
    /\ MaxLoss \in Nat /\ MaxDup \in Nat

VARIABLES
    size,     \* length of the state being sent, None before it is
    wire,     \* copies of each fragment on their way, by index
    (* TcpMigDefragmenter *)
    fragments, total, current, currentSize,
    received, \* the state handed to TcpState::deserialize, or None
    budget    \* what is left of the bounds

defrag == <<fragments, total, current, currentSize>>
vars == <<size, wire, defrag, received, budget>>

-----------------------------------------------------------------------------
(* TcpMigFragmenter. *)

Bytes(n) == [i \in 1..n |-> i]

(* Fragments a state of n > 0 bytes is cut into. *)
Pieces(n) == (n + MaxFragment - 1) \div MaxFragment

(* The iterator stops when no data is left and its u16 counter is not 0:   *)
(* when the counter has wrapped, one more, empty fragment follows.         *)
Count(n) == IF Pieces(n) % Offsets = 0 THEN Pieces(n) + 1 ELSE Pieces(n)

(* The k-th of them, k counted from 0. *)
Fragment(n, k) ==
    [offset |-> k % Offsets, next |-> n - k * MaxFragment > MaxFragment,
     data |-> SubSeq(Bytes(n), k * MaxFragment + 1,
                     IF (k + 1) * MaxFragment < n THEN (k + 1) * MaxFragment
                                                  ELSE n)]

(* ActiveMigration::send; a state with too many fragments is a panic. *)
TooLarge(n) == n \div MaxFragment > Offsets - 1


Send ==
    /\ size = None
    /\ \E n \in Sizes : /\ ~TooLarge(n)
                        /\ size' = n
                        /\ wire' = [k \in 0..Count(n) - 1 |-> 1]
    /\ UNCHANGED <<defrag, received, budget>>

-----------------------------------------------------------------------------
(* The network. *)

Lose(k) ==
    /\ wire[k] > 0 /\ budget.loss > 0
    /\ wire' = [wire EXCEPT ![k] = @ - 1]
    /\ budget' = [budget EXCEPT !.loss = @ - 1]
    /\ UNCHANGED <<size, defrag, received>>

Duplicate(k) ==
    /\ wire[k] > 0 /\ budget.dup > 0
    /\ wire' = [wire EXCEPT ![k] = @ + 1]
    /\ budget' = [budget EXCEPT !.dup = @ - 1]
    /\ UNCHANGED <<size, defrag, received>>

-----------------------------------------------------------------------------
(* TcpMigDefragmenter::defragment, called with a fragment f. *)

(* The fragments with f at its offset; gaps are empty buffers. *)
Appended(f) == Append(fragments, f.data)       \* mutant: arrival order
Stored(f) ==
    [i \in 1..(IF f.offset >= Len(fragments) THEN f.offset + 1
                                             ELSE Len(fragments)) |->
        IF i = f.offset + 1 THEN f.data
        ELSE IF i <= Len(fragments) THEN fragments[i] ELSE <<>>]

(* The number of fragments, known from the last one on. *)
Total(f) == IF f.next THEN total ELSE f.offset + 1

(* The bytes taken so far; not reset with the rest. *)
Size(f) == currentSize + Len(f.data)

(* A buffer of n bytes that the stored fragments are copied into. *)
Joined(n, frags) ==
    LET data == FlattenSeq(frags)
    IN [i \in 1..n |-> IF i <= Len(data) THEN data[i] ELSE 0]

Reset == fragments' = <<>> /\ total' = None /\ current' = 0

(* A state that fits in one fragment is handed up as it is. *)
Single(f) ==
    /\ ~f.next /\ f.offset = 0
    /\ received' = f.data
    /\ Reset
    /\ UNCHANGED currentSize

Store(f) ==
    /\ f.next \/ f.offset # 0
    /\ Total(f) # current + 1
    /\ fragments' = Stored(f)
    /\ total' = Total(f)
    /\ current' = current + 1
    /\ currentSize' = Size(f)
    /\ UNCHANGED received

Complete(f) ==
    /\ f.next \/ f.offset # 0
    /\ Total(f) = current + 1
    /\ currentSize' = Size(f)
    /\ received' = Joined(currentSize', Stored(f))
    /\ Reset

(* A fragment arrives.  Once a state was handed up, the migration has left *)
(* the stage in which fragments matter.                                    *)
Defragment(k) ==
    /\ wire[k] > 0
    /\ wire' = [wire EXCEPT ![k] = @ - 1]
    /\ received = None
    /\ LET f == Fragment(size, k) IN Single(f) \/ Store(f) \/ Complete(f)
    /\ UNCHANGED <<size, budget>>

Ignore(k) ==
    /\ wire[k] > 0
    /\ wire' = [wire EXCEPT ![k] = @ - 1]
    /\ received # None
    /\ UNCHANGED <<size, defrag, received, budget>>

-----------------------------------------------------------------------------
Init ==
    /\ size = None /\ wire = <<>>
    /\ fragments = <<>> /\ total = None /\ current = 0 /\ currentSize = 0
    /\ received = None
    /\ budget = [loss |-> MaxLoss, dup |-> MaxDup]

Next ==
    \/ Send
    \/ \E k \in DOMAIN wire :
            Lose(k) \/ Duplicate(k) \/ Defragment(k) \/ Ignore(k)

Spec == Init /\ [][Next]_vars

(* The target's poll loop handles every packet that arrives. *)
FairSpec == Spec /\ WF_vars(\E k \in DOMAIN wire : Defragment(k))

-----------------------------------------------------------------------------
(* Properties. *)

TypeOK ==
    /\ size \in Sizes \cup {None}
    /\ DOMAIN wire = IF size = None THEN {} ELSE 0..Count(size) - 1
    /\ \A k \in DOMAIN wire : wire[k] \in Nat
    /\ \A i \in DOMAIN fragments : fragments[i] \in Seq(Nat)
    /\ total \in Nat \cup {None}
    /\ current \in Nat /\ currentSize \in Nat
    /\ received \in Seq(Nat) \cup {None}
    /\ budget \in [loss: 0..MaxLoss, dup: 0..MaxDup]

(* A state small enough that the u16 counter tells its fragments apart.    *)
(* (TooLarge lets one size through that is not.)                           *)
Numbered == size # None /\ Pieces(size) < Offsets
Undisturbed == budget = [loss |-> MaxLoss, dup |-> MaxDup]

(* Unless a fragment comes twice, what the target deserializes is, byte    *)
(* for byte, the state that the origin serialized, in whatever order its   *)
(* fragments arrive and whichever of them are lost: TcpState::deserialize  *)
(* has no check of its own.                                                *)
Faithful ==
    Numbered /\ budget.dup = MaxDup /\ received # None => received = Bytes(size)

(* Even if fragments come twice, what was stored fits in the buffer it is  *)
(* copied into, and no more slots are in use than there are fragments:     *)
(* copy_from_slice and reserve would otherwise panic on the target.        *)
InBounds ==
    /\ Len(FlattenSeq(fragments)) <= currentSize
    /\ total # None => Len(fragments) <= total

(* Unless a fragment is lost or comes twice the state arrives.             *)
StateArrived == size = None \/ received # None \/ ~Undisturbed
=============================================================================
