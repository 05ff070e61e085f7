----------------------------- MODULE RingBuffer -----------------------------
(***************************************************************************)
(* The lock-free ring buffer (collections/ring.rs over raw_array.rs): one   *)
(* thread enqueues, one dequeues, and nothing but two indices, each written *)
(* by one of them, tells the other what it may touch.  An operation loads   *)
(* both indices, returns if the ring is full or empty, touches a slot, and  *)
(* then stores its index; another thread may run between any two of these.  *)
(*                                                                          *)
(* Both stores are Relaxed, and the language orders neither after the touch *)
(* of the slot; this is the program a compiler makes that keeps the order   *)
(* it finds, on a machine that keeps the order of stores (x86-64).          *)
(***************************************************************************)
EXTENDS Integers, Sequences

CONSTANTS
  Items,        \* what is enqueued
  None,         \* no item
  N,            \* slots
  Region,       \* bytes of the memory region the ring was built in, 0: its own memory
  ItemBytes,    \* size_of::<T>
  WordBytes     \* size_of::<usize>

(* from_raw_parts: both indices, padding, and the highest power of two of    *)
(* slots that fits behind them.                                              *)
Padding == (ItemBytes - ((2 * WordBytes) % ItemBytes)) % ItemBytes
MaxLength(size) == (size - 2 * WordBytes - Padding) \div ItemBytes
RawLength(size) ==
  CHOOSE n \in 1..MaxLength(size) : n <= MaxLength(size) /\ MaxLength(size) < 2 * n
                                    /\ \E k \in 0..n : n = 2 ^ k

RingAssumption ==
  /\ N \in Nat \ {0}
  /\ Region = 0 => \E k \in 0..N : N = 2 ^ k
  /\ Region > 0 => N = RawLength(Region)
  /\ None \notin Items

VARIABLES
  slots,        \* the RawArray
  front, back,  \* first item, first empty slot
  writer,       \* where the enqueueing thread is, its item and what it loaded
  reader,       \* where the dequeueing thread is, its item and what it loaded
  got           \* what try_dequeue last returned

ringVars == <<slots, front, back, writer, reader, got>>

Indices == 0..N - 1
NextIndex(i) == IF i + 1 = N THEN 0 ELSE i + 1   \* (i + 1) & mask
Capacity == N - 1
FullUnwrapped(f, b) == b + 1 = f                 \* mutant: the mask is missing
Full(f, b)  == NextIndex(b) = f
Empty(f, b) == b = f

(* The array is allocated, not initialised; the indices are.                 *)
RingInit ==
  /\ slots \in [Indices -> {None}]
  /\ front = 0 /\ back = 0
  /\ writer = [at |-> "idle", item |-> None, front |-> 0, back |-> 0]
  /\ reader = [at |-> "idle", item |-> None, front |-> 0, back |-> 0]
  /\ got = None
-----------------------------------------------------------------------------
(* try_enqueue; enqueue calls it until it succeeds.                          *)
StartEnqueue(item) ==
  /\ writer.at = "idle"
  /\ writer' = [writer EXCEPT !.at = "load", !.item = item, !.front = front]
  /\ UNCHANGED <<slots, front, back, reader, got>>

LoadBack ==
  /\ writer.at = "load"
  /\ writer' = [writer EXCEPT !.back = back,
                              !.at = IF Full(writer.front, back) THEN "idle" ELSE "write"]
  /\ UNCHANGED <<slots, front, back, reader, got>>

WriteSlot ==
  /\ writer.at = "write"
  /\ slots' = [slots EXCEPT ![writer.back] = writer.item]
  /\ writer' = [writer EXCEPT !.at = "commit"]
  /\ UNCHANGED <<front, back, reader, got>>

CommitWrite ==
  /\ writer.at = "commit"
  /\ back' = NextIndex(writer.back)
  /\ writer' = [writer EXCEPT !.at = "idle"]
  /\ UNCHANGED <<slots, front, reader, got>>
-----------------------------------------------------------------------------
(* try_dequeue; dequeue calls it until it succeeds.                          *)
StartDequeue ==
  /\ reader.at = "idle"
  /\ reader' = [reader EXCEPT !.at = "load", !.front = front]
  /\ UNCHANGED <<slots, front, back, writer, got>>

LoadFrontAndBack ==
  /\ reader.at = "load"
  /\ reader' = [reader EXCEPT !.back = back,
                              !.at = IF Empty(reader.front, back) THEN "idle" ELSE "read"]
  /\ UNCHANGED <<slots, front, back, writer, got>>

ReadSlot ==
  /\ reader.at = "read"
  /\ reader' = [reader EXCEPT !.at = "commit", !.item = slots[reader.front]]
  /\ UNCHANGED <<slots, front, back, writer, got>>

CommitRead ==
  /\ reader.at = "commit"
  /\ front' = NextIndex(reader.front)
  /\ got' = reader.item
  /\ reader' = [reader EXCEPT !.at = "idle"]
  /\ UNCHANGED <<slots, back, writer>>
-----------------------------------------------------------------------------
Enqueueing == (\E item \in Items : StartEnqueue(item)) \/ LoadBack \/ WriteSlot \/ CommitWrite
Dequeueing == StartDequeue \/ LoadFrontAndBack \/ ReadSlot \/ CommitRead

RingNext == Enqueueing \/ Dequeueing
RingSpec == RingInit /\ [][RingNext]_ringVars
-----------------------------------------------------------------------------
(* The items in the ring, oldest first.                                      *)
Distance(f, b) == IF f <= b THEN b - f ELSE b - f + N
Place(f, k) == IF f + k < N THEN f + k ELSE f + k - N
Contents == [k \in 1..Distance(front, back) |-> slots[Place(front, k - 1)]]

Queue == INSTANCE BoundedQueue WITH queue <- Contents

(* Whatever the two threads do between each other's loads, touches and       *)
(* stores, try_enqueue puts an item at the end of a queue of N - 1 places    *)
(* and try_dequeue returns the oldest one: nothing is lost, doubled, torn    *)
(* off or overtaken (try_enqueue, try_dequeue).                              *)
IsQueue == Queue!Spec
=============================================================================
