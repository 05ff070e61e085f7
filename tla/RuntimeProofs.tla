---------------------------- MODULE RuntimeProofs ----------------------------
(***************************************************************************)
(* Proofs about the event loop (Runtime, with Scheduler and PairingHeap):  *)
(* no wake-up is lost, timers follow deadlines, slots are not confused.     *)
(* For any number of connections, operations and slots, and any page size.  *)
(*                                                                          *)
(* First the pairing heap, for any heap: it is a tree in heap order that    *)
(* holds a known set of nodes, and insert and remove add or take one.  Its  *)
(* links are those of a pointer structure, so that the absence of circles   *)
(* is part of it.  Then what each operation keeps, and the loop.  Last, on  *)
(* its own, the ring buffer (RingBuffer): it implements a bounded queue.    *)
(***************************************************************************)
EXTENDS RingBuffer, Runtime, SequenceTheorems, FiniteSetTheorems, WellFoundedInduction,
        TLAPS

-----------------------------------------------------------------------------
(* What loops need: the loops of the models are recursive functions, and    *)
(* one reasons about them with the least number for which a fact would      *)
(* fail.  Then the slots of the scheduler, for any tasks, any number of     *)
(* slots and any size of a page.                                            *)

(* A set of numbers that is not empty has a least one.                      *)
LEMMA LeastNumber ==
  ASSUME NEW T \in SUBSET Nat, T # {}
  PROVE  \E x \in T : \A y \in T : x <= y
<1> DEFINE R == {ss \in Nat \X Nat : ss[1] < ss[2]}
<1>1. IsWellFoundedOn(R, Nat)
  BY NatLessThanWellFounded DEF OpToRel
<1>2. \A x, y \in Nat : x < y => <<x, y>> \in R
  OBVIOUS
<1> HIDE DEF R
<1>3. PICK x \in T : \A y \in T : ~(<<y, x>> \in R)
  BY <1>1, WFMin
<1>4. \A y \in T : ~(y < x)
  BY <1>2, <1>3
<1> QED  BY <1>4

(* Induction over the numbers, for a set.                                   *)
LEMMA Induction ==
  ASSUME NEW S, 0 \in S, \A n \in Nat : n \in S => n + 1 \in S
  PROVE  Nat \subseteq S
<1> SUFFICES ASSUME Nat \ S # {} PROVE FALSE
  OBVIOUS
<1>1. PICK x \in Nat \ S : \A y \in Nat \ S : x <= y
  BY LeastNumber
<1>2. x # 0 /\ x - 1 \in Nat
  BY <1>1
<1>3. x - 1 \in S
  BY <1>1, <1>2
<1> QED  BY <1>1, <1>2, <1>3

(* Division with remainder.                                                 *)
LEMMA ModIs ==
  ASSUME NEW m \in Nat \ {0}, NEW a \in Int
  PROVE  a % m \in 0..(m - 1) /\ a \div m \in Int /\ a = m * (a \div m) + (a % m)
OBVIOUS

(* A loop of K turns, each a function of the turn and of what the turns    *)
(* before it gave.                                                         *)
Loop(g, K, base, step) ==
  g = [n \in 0..K |-> IF n = 0 THEN base ELSE step[n][g[n - 1]]]

(* A loop gives its base at first, and then what the turn makes of the turn *)
(* before.                                                                  *)
LEMMA LoopIs ==
  ASSUME NEW g, NEW K \in Nat, NEW base, NEW step
  PROVE  Loop(g, K, base, step) <=>
            /\ g = [n \in 0..K |-> g[n]]
            /\ g[0] = base
            /\ \A n \in 1..K : g[n] = step[n][g[n - 1]]
<1>1. ASSUME Loop(g, K, base, step)
      PROVE  /\ g = [n \in 0..K |-> g[n]]
             /\ g[0] = base
             /\ \A n \in 1..K : g[n] = step[n][g[n - 1]]
  BY <1>1 DEF Loop
<1>2. ASSUME g = [n \in 0..K |-> g[n]], g[0] = base,
             \A n \in 1..K : g[n] = step[n][g[n - 1]]
      PROVE  Loop(g, K, base, step)
  <2>1. \A n \in 0..K : g[n] = IF n = 0 THEN base ELSE step[n][g[n - 1]]
    <3>1. \A n \in 0..K : n = 0 \/ (n # 0 /\ n \in 1..K)
      OBVIOUS
    <3> QED  BY <1>2, <3>1
  <2> QED  BY <1>2, <2>1 DEF Loop
<1> QED  BY <1>1, <1>2

(* There is such a function, whatever the turns do: a recursive definition  *)
(* of a loop defines something.                                             *)
LEMMA LoopsExist ==
  ASSUME NEW K \in Nat, NEW base, NEW step
  PROVE  \E g : Loop(g, K, base, step)
<1> DEFINE S == {m \in Nat : \E g : Loop(g, m, base, step)}
<1>1. 0 \in S
  <2> DEFINE g == [n \in 0..0 |-> base]
  <2>1. g = [n \in 0..0 |-> g[n]] /\ g[0] = base /\ \A n \in 1..0 : g[n] = step[n][g[n - 1]]
    OBVIOUS
  <2> HIDE DEF g
  <2>2. Loop(g, 0, base, step)
    BY <2>1, LoopIs
  <2> QED  BY <2>2
<1>2. ASSUME NEW m \in Nat, m \in S PROVE m + 1 \in S
  <2>1. PICK g : Loop(g, m, base, step)
    BY <1>2
  <2>2. /\ g = [n \in 0..m |-> g[n]]
        /\ g[0] = base
        /\ \A n \in 1..m : g[n] = step[n][g[n - 1]]
    BY <2>1, LoopIs
  <2> DEFINE last == step[m + 1][g[m]]
             h == [n \in 0..(m + 1) |-> IF n = m + 1 THEN last ELSE g[n]]
  <2>3. h[0] = base /\ h[m + 1] = step[m + 1][h[m]]
    BY <2>2
  <2>4. ASSUME NEW n \in 1..m PROVE h[n] = step[n][h[n - 1]]
    <3>1. n \in 0..(m + 1) /\ n - 1 \in 0..(m + 1) /\ n # m + 1 /\ n - 1 # m + 1
      OBVIOUS
    <3>2. h[n] = g[n] /\ h[n - 1] = g[n - 1]
      BY <3>1
    <3> HIDE DEF h
    <3> QED  BY <2>2, <3>2
  <2>5. h = [n \in 0..(m + 1) |-> h[n]]
    OBVIOUS
  <2> HIDE DEF h
  <2>6. \A n \in 1..(m + 1) : h[n] = step[n][h[n - 1]]
    <3>1. \A n \in 1..(m + 1) : n \in 1..m \/ (n = m + 1 /\ n - 1 = m)
      OBVIOUS
    <3> QED  BY <2>3, <2>4, <3>1
  <2>7. Loop(h, m + 1, base, step)
    <3>1. m + 1 \in Nat
      OBVIOUS
    <3> QED  BY <2>3, <2>5, <2>6, <3>1, LoopIs
  <2> QED  BY <2>7
<1> HIDE DEF S
<1>3. Nat \subseteq S
  BY <1>1, <1>2, Induction
<1> QED  BY <1>3 DEF S-----------------------------------------------------------------------------
(* The slots of the scheduler. *)

(* A key is the number of its page and the number in the page.              *)
LEMMA SubPages ==
  ASSUME SchedulerAssumption, NEW k \in Keys
  PROVE  /\ k \in Nat /\ SubPage(k) \in 0..(PageSize - 1) /\ PageOf(k) \in Int
         /\ k = PageSize * PageOf(k) + SubPage(k)
<1>1. k \in Nat /\ PageSize \in Nat \ {0}
  BY DEF Keys, SchedulerAssumption
<1>2. k % PageSize \in 0..(PageSize - 1) /\ k \div PageSize \in Int
         /\ k = PageSize * (k \div PageSize) + (k % PageSize)
  BY <1>1, ModIs
<1> QED  BY <1>1, <1>2 DEF SubPage, PageOf

Shaped(s, T) ==
  s \in [slab : [Keys -> T \cup {NoTask}], vacant : Seq(Keys), fresh : 0..MaxKeys,
         notified : SUBSET Keys, completed : SUBSET Keys, dropped : SUBSET Keys]

VacantOf(s) ==
  /\ \A i, j \in DOMAIN s.vacant : s.vacant[i] = s.vacant[j] => i = j
  /\ \A k \in Keys : (\E i \in DOMAIN s.vacant : s.vacant[i] = k)
                        <=> k < s.fresh /\ s.slab[k] = NoTask

(* Nobody has two slots, and the slots that are free are known.             *)
SlotsOK(s) ==
  /\ \A i, j \in Keys : s.slab[i] # NoTask /\ s.slab[i] = s.slab[j] => i = j
  /\ \A k \in Keys : k >= s.fresh => s.slab[k] = NoTask
  /\ VacantOf(s)

(* A task has one slot: its key is where it stands.                         *)
LEMMA KeyOfIs ==
  ASSUME NEW s, SlotsOK(s), NEW k \in Keys, s.slab[k] # NoTask
  PROVE  KeyOf(s, s.slab[k]) = k
BY DEF KeyOf, SlotsOK

(* The tasks are those who have a slot.                                     *)
LEMMA TasksAre ==
  ASSUME NEW s
  PROVE  \A t : t \in Tasks(s) <=> t # NoTask /\ \E k \in Keys : s.slab[k] = t
BY DEF Tasks, Occupied

(* A slot that is free gets a task. *)
LEMMA SlotInserted ==
  ASSUME SchedulerAssumption, NEW T, NoTask \notin T,
         NEW s, Shaped(s, T), SlotsOK(s), HasRoom(s),
         NEW t \in T, t \notin Tasks(s)
  PROVE  LET k == NextKey(s)
             after == Insert(s, t) IN
         /\ k \in Keys /\ s.slab[k] = NoTask
         /\ Shaped(after, T) /\ SlotsOK(after)
         /\ after.slab = [s.slab EXCEPT ![k] = t]
         /\ after.notified = s.notified \cup {k}
         /\ after.completed = s.completed \ {k} /\ after.dropped = s.dropped \ {k}
<1> DEFINE k == NextKey(s)
           after == Insert(s, t)
<1>1. k \in Keys /\ k \in Nat /\ k < MaxKeys /\ MaxKeys \in Nat
  BY DEF HasRoom, Keys, SchedulerAssumption
<1>2. /\ s.slab \in [Keys -> T \cup {NoTask}] /\ s.vacant \in Seq(Keys) /\ s.fresh \in 0..MaxKeys
      /\ s.notified \subseteq Keys /\ s.completed \subseteq Keys /\ s.dropped \subseteq Keys
  BY DEF Shaped
<1>3. /\ after = [slab |-> after.slab, vacant |-> after.vacant, fresh |-> after.fresh,
                  notified |-> after.notified, completed |-> after.completed, dropped |-> after.dropped]
      /\ after.slab = [s.slab EXCEPT ![k] = t]
      /\ after.notified = s.notified \cup {k}
      /\ after.completed = s.completed \ {k} /\ after.dropped = s.dropped \ {k}
      /\ after.vacant = (IF s.vacant = <<>> THEN <<>> ELSE Tail(s.vacant))
      /\ after.fresh = (IF s.vacant = <<>> THEN s.fresh + 1 ELSE s.fresh)
  BY DEF Insert
<1>4. t # NoTask
  OBVIOUS
<1>5. k = IF s.vacant = <<>> THEN s.fresh ELSE Head(s.vacant)
  BY DEF NextKey
<1> HIDE DEF k, after
<1>6. /\ DOMAIN s.vacant = 1..Len(s.vacant) /\ Len(s.vacant) \in Nat
      /\ s.vacant = <<>> <=> Len(s.vacant) = 0
  BY <1>2
<1>7. s.slab[k] = NoTask
  <2>1. CASE s.vacant = <<>>
    BY <1>1, <1>2, <1>5, <2>1 DEF SlotsOK
  <2>2. CASE s.vacant # <<>>
    <3>1. 1 \in DOMAIN s.vacant /\ s.vacant[1] = k
      BY <1>2, <1>5, <1>6, <2>2
    <3> QED  BY <1>1, <3>1 DEF SlotsOK, VacantOf
  <2> QED  BY <2>1, <2>2
<1>8. /\ after.slab \in [Keys -> T \cup {NoTask}]
      /\ \A i \in Keys : after.slab[i] = IF i = k THEN t ELSE s.slab[i]
  BY <1>1, <1>2, <1>3
<1>9. Shaped(after, T)
  <2>1. after.vacant \in Seq(Keys)
    BY <1>2, <1>3
  <2>2. after.fresh \in 0..MaxKeys
    BY <1>1, <1>2, <1>3, <1>5
  <2>3. after.notified \subseteq Keys /\ after.completed \subseteq Keys /\ after.dropped \subseteq Keys
    BY <1>1, <1>2, <1>3
  <2> QED  BY <1>3, <1>8, <2>1, <2>2, <2>3 DEF Shaped
<1>10. \A i \in Keys : s.slab[i] # t
  BY <1>4, TasksAre
<1>11. \A i, j \in Keys : after.slab[i] # NoTask /\ after.slab[i] = after.slab[j] => i = j
  BY <1>8, <1>10 DEF SlotsOK
<1>12. \A i \in Keys : i >= after.fresh => after.slab[i] = NoTask
  <2> SUFFICES ASSUME NEW i \in Keys, i >= after.fresh PROVE after.slab[i] = NoTask
    OBVIOUS
  <2>0. i \in Nat
    BY DEF Keys, SchedulerAssumption
  <2>1. CASE s.vacant = <<>>
    <3>1. i >= s.fresh /\ i # k
      BY <1>2, <1>3, <1>5, <2>0, <2>1
    <3> QED  BY <1>8, <3>1 DEF SlotsOK
  <2>2. CASE s.vacant # <<>>
    <3>1. 1 \in DOMAIN s.vacant /\ s.vacant[1] = k
      BY <1>2, <1>5, <1>6, <2>2
    <3>2. k < s.fresh
      BY <1>1, <3>1 DEF SlotsOK, VacantOf
    <3>3. i # k /\ i >= s.fresh
      BY <1>1, <1>2, <1>3, <2>0, <2>2, <3>2
    <3> QED  BY <1>8, <3>3 DEF SlotsOK
  <2> QED  BY <2>1, <2>2
<1>13. VacantOf(after)
  <2>1. CASE s.vacant = <<>>
    <3>1. after.vacant = <<>> /\ DOMAIN after.vacant = {}
      BY <1>3, <2>1
    <3>2. ASSUME NEW i \in Keys PROVE ~(i < after.fresh /\ after.slab[i] = NoTask)
      <4>1. i \in Nat
        BY DEF Keys, SchedulerAssumption
      <4>2. i < s.fresh => s.slab[i] # NoTask
        BY <1>6, <2>1 DEF SlotsOK, VacantOf
      <4>3. i < after.fresh => i < s.fresh \/ i = k
        BY <1>2, <1>3, <1>5, <2>1, <4>1
      <4> QED  BY <1>4, <1>8, <4>2, <4>3
    <3> QED  BY <3>1, <3>2 DEF VacantOf
  <2>2. CASE s.vacant # <<>>
    <3> DEFINE v == s.vacant
               w == after.vacant
    <3>1. /\ w = Tail(v) /\ v \in Seq(Keys) /\ Len(v) > 0 /\ v[1] = k
      BY <1>2, <1>3, <1>5, <1>6, <2>2
    <3>2. after.fresh = s.fresh
      BY <1>3, <2>2
    <3>3. /\ \A i, j \in DOMAIN v : v[i] = v[j] => i = j
          /\ \A i \in Keys : (\E m \in DOMAIN v : v[m] = i) <=> i < s.fresh /\ s.slab[i] = NoTask
      BY DEF SlotsOK, VacantOf
    <3> HIDE DEF v, w
    <3>4. /\ DOMAIN v = 1..Len(v) /\ DOMAIN w = 1..(Len(v) - 1) /\ Len(v) \in Nat
          /\ \A i \in 1..(Len(v) - 1) : w[i] = v[i + 1]
      BY <3>1
    <3>5. \A i, j \in DOMAIN w : w[i] = w[j] => i = j
      <4> SUFFICES ASSUME NEW i \in DOMAIN w, NEW j \in DOMAIN w, w[i] = w[j] PROVE i = j
        OBVIOUS
      <4>1. i + 1 \in DOMAIN v /\ j + 1 \in DOMAIN v /\ v[i + 1] = v[j + 1] /\ i \in Int /\ j \in Int
        BY <3>4
      <4>2. i + 1 = j + 1
        BY <3>3, <4>1
      <4> QED  BY <4>1, <4>2
    <3>6. ASSUME NEW i \in Keys
          PROVE  (\E m \in DOMAIN w : w[m] = i) <=> (\E m \in DOMAIN v : v[m] = i) /\ i # k
      <4>1. ASSUME NEW m \in DOMAIN w, w[m] = i PROVE (\E x \in DOMAIN v : v[x] = i) /\ i # k
        <5>1. m + 1 \in DOMAIN v /\ v[m + 1] = i /\ 1 \in DOMAIN v /\ m + 1 # 1
          BY <3>4, <4>1
        <5> QED  BY <3>1, <3>3, <5>1
      <4>2. ASSUME NEW m \in DOMAIN v, v[m] = i, i # k PROVE \E x \in DOMAIN w : w[x] = i
        <5>1. m # 1
          BY <3>1, <4>2
        <5>2. m - 1 \in DOMAIN w /\ (m - 1) + 1 = m
          BY <3>4, <5>1
        <5>3. w[m - 1] = i
          BY <3>4, <4>2, <5>2
        <5> QED  BY <5>2, <5>3
      <4> QED  BY <4>1, <4>2
    <3>7. \A i \in Keys : (\E m \in DOMAIN w : w[m] = i) <=> i < after.fresh /\ after.slab[i] = NoTask
      BY <1>4, <1>8, <3>2, <3>3, <3>6
    <3> QED  BY <3>5, <3>7 DEF VacantOf, w
  <2> QED  BY <2>1, <2>2
<1>14. SlotsOK(after)
  BY <1>11, <1>12, <1>13 DEF SlotsOK
<1> QED  BY <1>1, <1>3, <1>7, <1>9, <1>14 DEF k, after

(* A task leaves its slot, which is the next to be used, and its flags go.  *)
Emptied(s, k, after) ==
  /\ after.slab = [s.slab EXCEPT ![k] = NoTask]
  /\ after.vacant = <<k>> \o s.vacant
  /\ after.fresh = s.fresh
  /\ after.notified = s.notified \ {k}
  /\ after.completed = s.completed \ {k} /\ after.dropped = s.dropped \ {k}

(* The flags of a slot are cleared.                                         *)
LEMMA SlotCleared ==
  ASSUME NEW T, NEW s, Shaped(s, T), NEW k
  PROVE  /\ Shaped(Clear(s, k), T)
         /\ Clear(s, k).slab = s.slab /\ Clear(s, k).vacant = s.vacant
         /\ Clear(s, k).fresh = s.fresh
         /\ Clear(s, k).notified = s.notified \ {k}
         /\ Clear(s, k).completed = s.completed \ {k}
         /\ Clear(s, k).dropped = s.dropped \ {k}
BY DEF Clear, Shaped

(* Who is removed has no slot; the slot is vacant.                          *)
LEMMA SlotRemoved ==
  ASSUME NEW T, NEW s, Shaped(s, T), NEW k \in Keys, s.slab[k] # NoTask
  PROVE  /\ Shaped(Remove(s, k), T)
         /\ Remove(s, k).slab = [s.slab EXCEPT ![k] = NoTask]
         /\ Remove(s, k).vacant = <<k>> \o s.vacant
         /\ Remove(s, k).fresh = s.fresh
         /\ Remove(s, k).notified = s.notified
         /\ Remove(s, k).completed = s.completed
         /\ Remove(s, k).dropped = s.dropped
<1>1. s.slab \in [Keys -> T \cup {NoTask}] /\ s.vacant \in Seq(Keys)
  BY DEF Shaped
<1>2. [s.slab EXCEPT ![k] = NoTask] \in [Keys -> T \cup {NoTask}] /\ <<k>> \o s.vacant \in Seq(Keys)
  BY <1>1
<1> QED  BY <1>2 DEF Remove, Shaped

(* Some slots emptied one after the other, as a function of the slots that  *)
(* are left.                                                                *)
LEMMA SlotEmptied ==
  ASSUME SchedulerAssumption, NEW T, NoTask \notin T,
         NEW s, Shaped(s, T), SlotsOK(s), NEW k \in Keys, s.slab[k] # NoTask
  PROVE  /\ Shaped(Take(s, k), T) /\ Emptied(s, k, Take(s, k))
         /\ Shaped(Clear(Remove(s, k), k), T) /\ Emptied(s, k, Clear(Remove(s, k), k))
         /\ \A after : Emptied(s, k, after) => SlotsOK(after)
<1>2. /\ s.slab \in [Keys -> T \cup {NoTask}] /\ s.vacant \in Seq(Keys) /\ s.fresh \in 0..MaxKeys
      /\ s.notified \subseteq Keys /\ s.completed \subseteq Keys /\ s.dropped \subseteq Keys
  BY DEF Shaped
<1>3. Shaped(Take(s, k), T) /\ Emptied(s, k, Take(s, k))
  <2> DEFINE x == Clear(s, k)
  <2>1. /\ Shaped(x, T) /\ x.slab = s.slab /\ x.vacant = s.vacant /\ x.fresh = s.fresh
        /\ x.notified = s.notified \ {k} /\ x.completed = s.completed \ {k}
        /\ x.dropped = s.dropped \ {k}
    BY SlotCleared
  <2>2. Take(s, k) = Remove(x, k)
    BY DEF Take
  <2> HIDE DEF x
  <2>3. x.slab[k] # NoTask
    BY <2>1
  <2>4. /\ Shaped(Remove(x, k), T)
        /\ Remove(x, k).slab = [x.slab EXCEPT ![k] = NoTask]
        /\ Remove(x, k).vacant = <<k>> \o x.vacant
        /\ Remove(x, k).fresh = x.fresh
        /\ Remove(x, k).notified = x.notified
        /\ Remove(x, k).completed = x.completed
        /\ Remove(x, k).dropped = x.dropped
    BY <2>1, <2>3, SlotRemoved
  <2> QED  BY <2>1, <2>2, <2>4 DEF Emptied
<1>5. Shaped(Clear(Remove(s, k), k), T) /\ Emptied(s, k, Clear(Remove(s, k), k))
  BY SlotCleared, SlotRemoved DEF Emptied
<1>4. ASSUME NEW after, Emptied(s, k, after) PROVE SlotsOK(after)
  <2>1. /\ after.slab = [s.slab EXCEPT ![k] = NoTask]
        /\ after.vacant = <<k>> \o s.vacant
        /\ after.fresh = s.fresh
        /\ after.notified = s.notified \ {k}
        /\ after.completed = s.completed \ {k} /\ after.dropped = s.dropped \ {k}
    BY <1>4 DEF Emptied
  <2>3. \A i \in Keys : after.slab[i] = IF i = k THEN NoTask ELSE s.slab[i]
    BY <1>2, <2>1
  <2>4. k < s.fresh
    <3>1. k \in Nat
      BY DEF Keys, SchedulerAssumption
    <3> QED  BY <1>2, <3>1 DEF SlotsOK
  <2> DEFINE v == s.vacant
             w == after.vacant
  <2>5. w = <<k>> \o v /\ v \in Seq(Keys)
    BY <1>2, <2>1
  <2>6. /\ \A i, j \in DOMAIN v : v[i] = v[j] => i = j
        /\ \A i \in Keys : (\E m \in DOMAIN v : v[m] = i) <=> i < s.fresh /\ s.slab[i] = NoTask
    BY DEF SlotsOK, VacantOf
  <2> HIDE DEF v, w
  <2>7. /\ DOMAIN v = 1..Len(v) /\ DOMAIN w = 1..(Len(v) + 1) /\ Len(v) \in Nat
        /\ w[1] = k /\ \A i \in 1..Len(v) : w[i + 1] = v[i]
    BY <2>5
  <2>8. \A i \in DOMAIN w : i = 1 \/ (i - 1 \in DOMAIN v /\ w[i] = v[i - 1] /\ i - 1 + 1 = i)
    <3> SUFFICES ASSUME NEW i \in DOMAIN w, i # 1
                 PROVE  i - 1 \in DOMAIN v /\ w[i] = v[i - 1] /\ i - 1 + 1 = i
      OBVIOUS
    <3>1. i - 1 \in 1..Len(v) /\ i - 1 + 1 = i
      BY <2>7
    <3> QED  BY <2>7, <3>1
  <2>9. \A m \in DOMAIN v : v[m] # k
    BY <2>6
  <2>10. \A i, j \in DOMAIN w : w[i] = w[j] => i = j
    <3> SUFFICES ASSUME NEW i \in DOMAIN w, NEW j \in DOMAIN w, w[i] = w[j] PROVE i = j
      OBVIOUS
    <3>1. CASE i = 1 \/ j = 1
      BY <2>7, <2>8, <2>9, <3>1
    <3>2. CASE i # 1 /\ j # 1
      <4>1. i - 1 = j - 1
        BY <2>6, <2>8, <3>2
      <4> QED  BY <2>8, <3>2, <4>1
    <3> QED  BY <3>1, <3>2
  <2>11. ASSUME NEW i \in Keys
         PROVE  (\E m \in DOMAIN w : w[m] = i) <=> (\E m \in DOMAIN v : v[m] = i) \/ i = k
    <3>1. ASSUME NEW m \in DOMAIN w, w[m] = i PROVE (\E x \in DOMAIN v : v[x] = i) \/ i = k
      BY <2>7, <2>8, <3>1
    <3>2. ASSUME NEW m \in DOMAIN v, v[m] = i PROVE \E x \in DOMAIN w : w[x] = i
      <4>1. m + 1 \in DOMAIN w /\ w[m + 1] = i
        BY <2>7, <3>2
      <4> QED  BY <4>1
    <3>3. 1 \in DOMAIN w
      BY <2>7
    <3> QED  BY <2>7, <3>1, <3>2, <3>3
  <2>12. VacantOf(after)
    BY <2>1, <2>3, <2>4, <2>6, <2>10, <2>11 DEF VacantOf, w
  <2> QED  BY <2>1, <2>3, <2>12 DEF SlotsOK
<1> QED  BY <1>3, <1>4, <1>5

(* The end of a page: the slots of its dropped tasks are emptied, the first *)
(* one excepted.                                                            *)
AreFreed(s, T, G, after) ==
  /\ Shaped(after, T) /\ SlotsOK(after)
  /\ \A k \in Keys : after.slab[k] = IF k \in G THEN NoTask ELSE s.slab[k]
  /\ after.notified = s.notified \ G
  /\ after.completed = s.completed \ G /\ after.dropped = s.dropped \ G

(* What is emptied at the end of a page, whatever the order.                *)
LEMMA SlotsFreed ==
  ASSUME SchedulerAssumption, NEW T, NoTask \notin T,
         NEW s, Shaped(s, T), SlotsOK(s), NEW p, NEW gone \in SUBSET PageKeys(p),
         gone \subseteq Occupied(s)
  PROVE  AreFreed(s, T, Freed(gone), FreeDropped(s, gone))
<1> DEFINE at(n) == {k \in Freed(gone) : SubPage(k) = n - 1}
           F(n, x) == IF at(n) = {} THEN x
                      ELSE LET k == CHOOSE k \in at(n) : TRUE IN Clear(Remove(x, k), k)
           Is(f, m) == f = [n \in 0..m |-> IF n = 0 THEN s ELSE F(n, f[n - 1])]
           f == CHOOSE g : Is(g, PageSize)
           G(n) == {k \in Freed(gone) : SubPage(k) < n}
<1>0. PageSize \in Nat \ {0}
  BY DEF SchedulerAssumption
<1>1. FreeDropped(s, gone) = f[PageSize]
  BY Zenon DEF FreeDropped
<1>2. /\ Freed(gone) \subseteq Keys
      /\ \A k \in Freed(gone) : s.slab[k] # NoTask
      /\ \A k, j \in Freed(gone) : SubPage(k) = SubPage(j) => k = j
  <2>1. \A k \in Freed(gone) : k \in Keys /\ PageOf(k) = p /\ s.slab[k] # NoTask
    BY DEF Freed, PageKeys, Occupied
  <2> QED  BY <2>1, SubPages
<1>3. ASSUME NEW n \in Nat, NEW x, AreFreed(s, T, G(n), x)
      PROVE  AreFreed(s, T, G(n + 1), F(n + 1, x))
  <2>1. G(n + 1) = G(n) \cup at(n + 1)
    BY <1>2, SubPages
  <2>2. CASE at(n + 1) = {}
    BY <1>3, <2>1, <2>2
  <2>3. CASE at(n + 1) # {}
    <3> DEFINE k == CHOOSE k \in at(n + 1) : TRUE
               after == Clear(Remove(x, k), k)
    <3>1. k \in at(n + 1)
      BY <2>3
    <3>2. F(n + 1, x) = after
      BY <2>3
    <3> HIDE DEF k, after, F
    <3>3. k \in Keys /\ s.slab[k] # NoTask /\ k \notin G(n) /\ at(n + 1) = {k}
      BY <1>2, <3>1, SubPages
    <3>4. G(n + 1) = G(n) \cup {k}
      BY <2>1, <3>3
    <3> HIDE DEF G, at
    <3>5. Shaped(x, T) /\ SlotsOK(x) /\ x.slab[k] # NoTask /\ x.slab \in [Keys -> T \cup {NoTask}]
      BY <1>3, <3>3 DEF AreFreed, Shaped
    <3>6. Shaped(after, T) /\ Emptied(x, k, after) /\ SlotsOK(after)
      BY <3>3, <3>5, SlotEmptied DEF after
    <3>7. \A i \in Keys : after.slab[i] = IF i = k THEN NoTask ELSE x.slab[i]
      BY <3>5, <3>6 DEF Emptied
    <3>8. \A i \in Keys : after.slab[i] = IF i \in G(n + 1) THEN NoTask ELSE s.slab[i]
      BY <1>3, <3>4, <3>7 DEF AreFreed
    <3> QED  BY <1>3, <3>2, <3>4, <3>6, <3>8 DEF AreFreed, Emptied
  <2> QED  BY <2>2, <2>3
<1> HIDE DEF F
<1>4. ASSUME NEW g, NEW m \in Nat, Is(g, m)
      PROVE  /\ g[0] = s /\ \A n \in 1..m : g[n] = F(n, g[n - 1])
             /\ g = [n \in 0..m |-> g[n]]
  <2>1. 0 \in 0..m /\ \A n \in 1..m : n \in 0..m /\ n # 0
    BY <1>4
  <2>2. \A n \in 0..m : g[n] = IF n = 0 THEN s ELSE F(n, g[n - 1])
    BY <1>4
  <2>3. g = [n \in 0..m |-> g[n]]
    BY <1>4
  <2>4. g[0] = s
    BY <2>1, <2>2
  <2>5. \A n \in 1..m : g[n] = F(n, g[n - 1])
    BY <2>1, <2>2
  <2> QED  BY <2>3, <2>4, <2>5
<1>5. \E g : Is(g, PageSize)
  <2> DEFINE S == {m \in Nat : \E g : Is(g, m)}
  <2>1. 0 \in S
    <3>1. Is([n \in 0..0 |-> s], 0)
      OBVIOUS
    <3> QED  BY <3>1
  <2>2. ASSUME NEW m \in Nat, m \in S PROVE m + 1 \in S
    <3>1. PICK g : Is(g, m)
      BY <2>2
    <3> DEFINE last == F(m + 1, g[m])
               h == [n \in 0..(m + 1) |-> IF n = m + 1 THEN last ELSE g[n]]
    <3>2. g[0] = s /\ \A n \in 1..m : g[n] = F(n, g[n - 1])
      BY <1>4, <3>1
    <3>3. h[0] = s /\ h[m + 1] = F(m + 1, h[m])
      BY <3>2
    <3>4. ASSUME NEW n \in 1..m PROVE h[n] = F(n, h[n - 1])
      <4>1. n \in 0..(m + 1) /\ n - 1 \in 0..(m + 1) /\ n # m + 1 /\ n - 1 # m + 1
        OBVIOUS
      <4>2. h[n] = g[n] /\ h[n - 1] = g[n - 1]
        BY <4>1
      <4> HIDE DEF h
      <4> QED  BY <3>2, <4>2
    <3>5. h = [n \in 0..(m + 1) |-> h[n]]
      OBVIOUS
    <3> HIDE DEF h
    <3>6. \A n \in 0..(m + 1) : h[n] = IF n = 0 THEN s ELSE F(n, h[n - 1])
      <4>1. \A n \in 0..(m + 1) : n = 0 \/ (n # 0 /\ (n \in 1..m \/ (n = m + 1 /\ n - 1 = m)))
        OBVIOUS
      <4> QED  BY <3>3, <3>4, <4>1
    <3>7. Is(h, m + 1)
      BY <3>5, <3>6
    <3> QED  BY <3>7
  <2> HIDE DEF S
  <2>3. Nat \subseteq S
    BY <2>1, <2>2, Induction
  <2> QED  BY <1>0, <2>3 DEF S
<1>6. Is(f, PageSize)
  BY <1>5
<1> HIDE DEF f, Is
<1>7. /\ f[0] = s /\ \A n \in 1..PageSize : f[n] = F(n, f[n - 1])
  BY <1>0, <1>4, <1>6
<1>8. AreFreed(s, T, G(0), s)
  <2>1. G(0) = {}
    BY <1>2, SubPages
  <2> QED  BY <2>1 DEF AreFreed
<1>9. AreFreed(s, T, G(PageSize), f[PageSize])
  <2> DEFINE S == {n \in Nat : n \in 0..PageSize => AreFreed(s, T, G(n), f[n])}
  <2> HIDE DEF G
  <2>1. 0 \in S
    BY <1>7, <1>8
  <2>2. ASSUME NEW n \in Nat, n \in S PROVE n + 1 \in S
    <3> SUFFICES ASSUME n + 1 \in 0..PageSize PROVE AreFreed(s, T, G(n + 1), f[n + 1])
      OBVIOUS
    <3>1. n \in 0..PageSize /\ n + 1 \in 1..PageSize /\ (n + 1) - 1 = n
      BY <1>0
    <3>2. AreFreed(s, T, G(n), f[n]) /\ f[n + 1] = F(n + 1, f[n])
      BY <1>7, <2>2, <3>1
    <3> QED  BY <1>3, <3>2
  <2> HIDE DEF S
  <2>3. Nat \subseteq S
    BY <2>1, <2>2, Induction
  <2> QED  BY <1>0, <2>3 DEF S
<1>10. G(PageSize) = Freed(gone)
  BY <1>0, <1>2, SubPages
<1> QED  BY <1>1, <1>9, <1>10
-----------------------------------------------------------------------------
(* The links of a heap. *)

IsChild(kids, p, c) == \E i \in DOMAIN kids[p] : kids[p][i] = c
Orphan(Nodes, kids, c) == \A p \in Nodes : ~IsChild(kids, p, c)

Lists(Nodes, kids) ==
  /\ kids \in [Nodes -> Seq(Nodes)]
  /\ \A p \in Nodes : \A i, j \in DOMAIN kids[p] : kids[p][i] = kids[p][j] => i = j
  /\ \A p, q, c \in Nodes : IsChild(kids, p, c) /\ IsChild(kids, q, c) => p = q
Acyclic(Nodes, kids) ==
  \A T \in SUBSET Nodes : T # {} => \E x \in T : \A p \in T : ~IsChild(kids, p, x)
Forest(Nodes, kids) == Lists(Nodes, kids) /\ Acyclic(Nodes, kids)
Ascends(Nodes, key, kids) == \A p, c \in Nodes : IsChild(kids, p, c) => key[p] <= key[c]

(* Who is a child is a node, and so is its parent.                          *)
LEMMA ChildIsNode ==
  ASSUME NEW Nodes, NEW kids, Lists(Nodes, kids), NEW p \in Nodes, NEW c, IsChild(kids, p, c)
  PROVE  c \in Nodes
BY DEF Lists, IsChild

(* add_child: one link more. *)
LEMMA AddedLinks ==
  ASSUME NEW Nodes, NEW kids, Lists(Nodes, kids),
         NEW p \in Nodes, NEW c \in Nodes, Orphan(Nodes, kids, c)
  PROVE  /\ Lists(Nodes, AddChild(kids, p, c))
         /\ \A q, x \in Nodes : IsChild(AddChild(kids, p, c), q, x)
                                  <=> IsChild(kids, q, x) \/ (q = p /\ x = c)
<1> DEFINE after == AddChild(kids, p, c)
<1>1. kids \in [Nodes -> Seq(Nodes)]
  BY DEF Lists
<1>2. /\ after \in [Nodes -> Seq(Nodes)]
      /\ \A q \in Nodes : q # p => after[q] = kids[q]
      /\ after[p] = <<c>> \o kids[p]
  BY <1>1 DEF AddChild
<1>3. /\ DOMAIN after[p] = 1..(Len(kids[p]) + 1)
      /\ after[p][1] = c
      /\ \A i \in 2..(Len(kids[p]) + 1) : after[p][i] = kids[p][i - 1]
  BY <1>1, <1>2
<1>4. DOMAIN kids[p] = 1..Len(kids[p]) /\ Len(kids[p]) \in Nat
  BY <1>1
<1> HIDE DEF after
<1>5. ASSUME NEW x \in Nodes PROVE IsChild(after, p, x) <=> IsChild(kids, p, x) \/ x = c
  <2>1. ASSUME IsChild(after, p, x) PROVE IsChild(kids, p, x) \/ x = c
    <3>1. PICK i \in DOMAIN after[p] : after[p][i] = x
      BY <2>1 DEF IsChild
    <3>2. i = 1 \/ (i \in 2..(Len(kids[p]) + 1) /\ i - 1 \in DOMAIN kids[p])
      BY <1>3, <1>4
    <3> QED  BY <1>3, <3>1, <3>2 DEF IsChild
  <2>2. ASSUME IsChild(kids, p, x) PROVE IsChild(after, p, x)
    <3>1. PICK i \in DOMAIN kids[p] : kids[p][i] = x
      BY <2>2 DEF IsChild
    <3>2. i + 1 \in 2..(Len(kids[p]) + 1) /\ i + 1 \in DOMAIN after[p] /\ (i + 1) - 1 = i
      BY <1>3, <1>4
    <3>3. after[p][i + 1] = x
      BY <1>3, <3>1, <3>2
    <3> QED  BY <3>2, <3>3 DEF IsChild
  <2>3. IsChild(after, p, c)
    <3>1. 1 \in DOMAIN after[p]
      BY <1>3, <1>4
    <3> QED  BY <1>3, <3>1 DEF IsChild
  <2> QED  BY <2>1, <2>2, <2>3
<1>6. \A q, x \in Nodes : IsChild(after, q, x) <=> IsChild(kids, q, x) \/ (q = p /\ x = c)
  BY <1>2, <1>5 DEF IsChild
<1>7. ASSUME NEW q \in Nodes, NEW i \in DOMAIN after[q], NEW j \in DOMAIN after[q],
             after[q][i] = after[q][j]
      PROVE  i = j
  <2>1. CASE q # p
    BY <1>2, <1>7, <2>1 DEF Lists
  <2>2. CASE q = p
    <3>1. \A k \in 2..(Len(kids[p]) + 1) : k - 1 \in DOMAIN kids[p] /\ after[p][k] # c
      BY <1>3, <1>4 DEF Orphan, IsChild
    <3>2. i = 1 \/ i \in 2..(Len(kids[p]) + 1)
      BY <1>3, <1>4, <2>2
    <3>3. j = 1 \/ j \in 2..(Len(kids[p]) + 1)
      BY <1>3, <1>4, <2>2
    <3>4. CASE i = 1 \/ j = 1
      BY <1>3, <1>7, <2>2, <3>1, <3>2, <3>3, <3>4
    <3>5. CASE i # 1 /\ j # 1
      <4>1. kids[p][i - 1] = kids[p][j - 1]
        BY <1>3, <1>7, <2>2, <3>2, <3>3, <3>5
      <4>2. i - 1 = j - 1
        BY <3>1, <3>2, <3>3, <3>5, <4>1 DEF Lists
      <4> QED  BY <3>2, <3>3, <3>5, <4>2
    <3> QED  BY <3>4, <3>5
  <2> QED  BY <2>1, <2>2
<1>8. \A q, r, x \in Nodes : IsChild(after, q, x) /\ IsChild(after, r, x) => q = r
  BY <1>6 DEF Lists, Orphan
<1> QED  BY <1>2, <1>6, <1>7, <1>8 DEF Lists, after

(* A root that takes another makes no circle. *)
LEMMA AddedForest ==
  ASSUME NEW Nodes, NEW kids, Forest(Nodes, kids),
         NEW p \in Nodes, NEW c \in Nodes, p # c,
         Orphan(Nodes, kids, c), Orphan(Nodes, kids, p)
  PROVE  Forest(Nodes, AddChild(kids, p, c))
<1>1. /\ Lists(Nodes, AddChild(kids, p, c))
      /\ \A q, x \in Nodes : IsChild(AddChild(kids, p, c), q, x)
                               <=> IsChild(kids, q, x) \/ (q = p /\ x = c)
  BY AddedLinks DEF Forest
<1>2. ASSUME NEW T \in SUBSET Nodes, T # {}
      PROVE  \E x \in T : \A q \in T : ~IsChild(AddChild(kids, p, c), q, x)
  <2>1. CASE p \in T
    BY <1>1, <2>1 DEF Orphan
  <2>2. CASE p \notin T
    BY <1>1, <1>2, <2>2 DEF Forest, Acyclic
  <2> QED  BY <2>1, <2>2
<1> QED  BY <1>1, <1>2 DEF Forest, Acyclic

Melds(Nodes, kids, left, right, m) ==
  /\ m.root \in {left, right} \ {NoNode}
  /\ Forest(Nodes, m.kids)
  /\ \A x \in Nodes : Orphan(Nodes, m.kids, x)
                        <=> Orphan(Nodes, kids, x) /\ (x \notin {left, right} \/ x = m.root)
  /\ \A q, x \in Nodes : IsChild(kids, q, x) => IsChild(m.kids, q, x)
  /\ \A q, x \in Nodes : IsChild(m.kids, q, x) =>
        IsChild(kids, q, x) \/ (q \in {left, right} /\ x \in {left, right})

(* meld: two roots become one, the lesser. *)
LEMMA MeldIs ==
  ASSUME NEW Nodes, NoNode \notin Nodes, NEW key \in [Nodes -> Int], NEW kids,
         Forest(Nodes, kids), Ascends(Nodes, key, kids),
         NEW left \in Nodes \cup {NoNode}, NEW right \in Nodes, left # right,
         left # NoNode => Orphan(Nodes, kids, left), Orphan(Nodes, kids, right)
  PROVE  /\ Melds(Nodes, kids, left, right, Meld(key, kids, left, right))
         /\ Ascends(Nodes, key, Meld(key, kids, left, right).kids)
<1>1. CASE left = NoNode
  BY <1>1 DEF Meld, Melds
<1>2. ASSUME NEW p \in Nodes, NEW c \in Nodes, p # c, {p, c} = {left, right}, key[p] <= key[c],
             Meld(key, kids, left, right) = [root |-> p, kids |-> AddChild(kids, p, c)]
      PROVE  /\ Melds(Nodes, kids, left, right, Meld(key, kids, left, right))
             /\ Ascends(Nodes, key, Meld(key, kids, left, right).kids)
  <2> DEFINE after == AddChild(kids, p, c)
  <2>1. Orphan(Nodes, kids, p) /\ Orphan(Nodes, kids, c)
    BY <1>2
  <2>2. Forest(Nodes, after)
    BY <1>2, <2>1, AddedForest
  <2>3. \A q, x \in Nodes : IsChild(after, q, x) <=> IsChild(kids, q, x) \/ (q = p /\ x = c)
    BY <2>1, AddedLinks DEF Forest
  <2>4. Meld(key, kids, left, right).root = p /\ Meld(key, kids, left, right).kids = after
    BY <1>2
  <2> HIDE DEF after
  <2>5. Ascends(Nodes, key, after)
    BY <1>2, <2>3 DEF Ascends
  <2>6. \A x \in Nodes : Orphan(Nodes, after, x)
                        <=> Orphan(Nodes, kids, x) /\ (x \notin {left, right} \/ x = p)
    BY <1>2, <2>1, <2>3 DEF Orphan
  <2>7. \A q, x \in Nodes : IsChild(after, q, x) =>
           IsChild(kids, q, x) \/ (q \in {left, right} /\ x \in {left, right})
    BY <1>2, <2>3
  <2> QED  BY <1>2, <2>2, <2>3, <2>4, <2>5, <2>6, <2>7 DEF Melds
<1>3. CASE left # NoNode
  <2>1. key[left] \in Int /\ key[right] \in Int /\ left \in Nodes
    BY <1>3
  <2>2. CASE key[left] < key[right]
    <3>1. Meld(key, kids, left, right) = [root |-> left, kids |-> AddChild(kids, left, right)]
      BY <1>3, <2>2 DEF Meld
    <3>2. key[left] <= key[right]
      BY <2>1, <2>2
    <3> QED  BY <1>2, <2>1, <3>1, <3>2
  <2>3. CASE ~(key[left] < key[right])
    <3>1. Meld(key, kids, left, right) = [root |-> right, kids |-> AddChild(kids, right, left)]
      BY <1>3, <2>3 DEF Meld
    <3>2. key[right] <= key[left]
      BY <2>1, <2>3
    <3>3. {right, left} = {left, right}
      OBVIOUS
    <3> QED  BY <1>2, <2>1, <3>1, <3>2, <3>3
  <2> QED  BY <2>2, <2>3
<1> QED  BY <1>1, <1>3
-----------------------------------------------------------------------------
(* merge_children: of some roots, those in U have been melded into one. *)
Merging(Nodes, key, kids, U, m) ==
  /\ IF U = {} THEN m.root = NoNode ELSE m.root \in U
  /\ Forest(Nodes, m.kids) /\ Ascends(Nodes, key, m.kids)
  /\ \A x \in Nodes : Orphan(Nodes, m.kids, x)
                        <=> Orphan(Nodes, kids, x) /\ (x \notin U \/ x = m.root)
  /\ \A q, x \in Nodes : IsChild(kids, q, x) => IsChild(m.kids, q, x)
  /\ \A q, x \in Nodes : IsChild(m.kids, q, x) => IsChild(kids, q, x) \/ (q \in U /\ x \in U)

(* One root more is melded into the one there is.                           *)
LEMMA MergeOne ==
  ASSUME NEW Nodes, NoNode \notin Nodes, NEW key \in [Nodes -> Int], NEW kids,
         NEW U \in SUBSET Nodes, NEW m, Merging(Nodes, key, kids, U, m),
         \A x \in U : Orphan(Nodes, kids, x),
         NEW a \in Nodes \ U, Orphan(Nodes, kids, a)
  PROVE  Merging(Nodes, key, kids, U \cup {a}, Meld(key, m.kids, m.root, a))
<1> DEFINE r == Meld(key, m.kids, m.root, a)
<1>1. m.root \in Nodes \cup {NoNode} /\ m.root # a
  BY DEF Merging
<1>2. Orphan(Nodes, m.kids, a) /\ (m.root # NoNode => Orphan(Nodes, m.kids, m.root))
  BY DEF Merging
<1>3. Melds(Nodes, m.kids, m.root, a, r) /\ Ascends(Nodes, key, r.kids)
  BY <1>1, <1>2, MeldIs DEF Merging
<1> HIDE DEF r
<1>4. r.root \in U \cup {a}
  BY <1>3 DEF Melds, Merging
<1>5. ASSUME NEW x \in Nodes
      PROVE  Orphan(Nodes, r.kids, x)
               <=> Orphan(Nodes, kids, x) /\ (x \notin U \cup {a} \/ x = r.root)
  BY <1>1, <1>3 DEF Melds, Merging
<1>6. \A q, x \in Nodes : IsChild(r.kids, q, x) =>
         IsChild(kids, q, x) \/ (q \in U \cup {a} /\ x \in U \cup {a})
  <2> SUFFICES ASSUME NEW q \in Nodes, NEW x \in Nodes, IsChild(r.kids, q, x), ~IsChild(kids, q, x)
               PROVE  q \in U \cup {a} /\ x \in U \cup {a}
    OBVIOUS
  <2> QED  BY <1>3 DEF Melds, Merging
<1> QED  BY <1>3, <1>4, <1>5, <1>6 DEF Melds, Merging, r

(* Two roots are melded with each other, and then into the one there is.    *)
LEMMA MergeTwo ==
  ASSUME NEW Nodes, NoNode \notin Nodes, NEW key \in [Nodes -> Int], NEW kids,
         NEW U \in SUBSET Nodes, NEW m, Merging(Nodes, key, kids, U, m),
         \A x \in U : Orphan(Nodes, kids, x),
         NEW a \in Nodes \ U, Orphan(Nodes, kids, a),
         NEW b \in Nodes \ U, Orphan(Nodes, kids, b), a # b
  PROVE  Merging(Nodes, key, kids, U \cup {a, b}, MeldNext(key, m, a, b))
<1> DEFINE p == Meld(key, m.kids, a, b)
           r == Meld(key, p.kids, m.root, p.root)
           V == U \cup {a, b}
<1>1. m.root \in Nodes \cup {NoNode} /\ m.root \notin {a, b} /\ NoNode \notin {a, b}
  BY DEF Merging
<1>2. /\ Orphan(Nodes, m.kids, a) /\ Orphan(Nodes, m.kids, b)
      /\ m.root # NoNode => Orphan(Nodes, m.kids, m.root)
  BY DEF Merging
<1>3. Melds(Nodes, m.kids, a, b, p) /\ Ascends(Nodes, key, p.kids)
  BY <1>1, <1>2, MeldIs DEF Merging
<1> HIDE DEF p
<1>4. /\ p.root \in {a, b} /\ m.root # p.root
      /\ Orphan(Nodes, p.kids, p.root)
      /\ m.root # NoNode => Orphan(Nodes, p.kids, m.root)
  BY <1>1, <1>2, <1>3 DEF Melds
<1>5. Melds(Nodes, p.kids, m.root, p.root, r) /\ Ascends(Nodes, key, r.kids)
  BY <1>1, <1>3, <1>4, MeldIs DEF Melds
<1> HIDE DEF r
<1>6. r.root \in V
  BY <1>4, <1>5 DEF Melds, Merging
<1>7. ASSUME NEW x \in Nodes
      PROVE  Orphan(Nodes, r.kids, x) <=> Orphan(Nodes, kids, x) /\ (x \notin V \/ x = r.root)
  <2>1. Orphan(Nodes, r.kids, x)
           <=> Orphan(Nodes, p.kids, x) /\ (x \notin {m.root, p.root} \/ x = r.root)
    BY <1>5 DEF Melds
  <2>2. Orphan(Nodes, p.kids, x)
           <=> Orphan(Nodes, m.kids, x) /\ (x \notin {a, b} \/ x = p.root)
    BY <1>3 DEF Melds
  <2>3. Orphan(Nodes, m.kids, x)
           <=> Orphan(Nodes, kids, x) /\ (x \notin U \/ x = m.root)
    BY DEF Merging
  <2>4. r.root \in {m.root, p.root} \ {NoNode}
    BY <1>5 DEF Melds
  <2>5. IF U = {} THEN m.root = NoNode ELSE m.root \in U
    BY DEF Merging
  <2>6. CASE x \in U
    BY <1>4, <2>1, <2>2, <2>3, <2>4, <2>5, <2>6
  <2>7. CASE x \in {a, b}
    BY <1>1, <1>2, <1>4, <2>1, <2>2, <2>3, <2>4, <2>7
  <2>8. CASE x \notin V
    BY <1>4, <2>1, <2>2, <2>3, <2>4, <2>5, <2>8
  <2> QED  BY <2>6, <2>7, <2>8
<1>8. \A q, x \in Nodes : IsChild(kids, q, x) => IsChild(r.kids, q, x)
  BY <1>3, <1>5 DEF Melds, Merging
<1>9. \A q, x \in Nodes : IsChild(r.kids, q, x) => IsChild(kids, q, x) \/ (q \in V /\ x \in V)
  <2> SUFFICES ASSUME NEW q \in Nodes, NEW x \in Nodes, IsChild(r.kids, q, x), ~IsChild(kids, q, x)
               PROVE  q \in V /\ x \in V
    OBVIOUS
  <2>1. CASE ~IsChild(p.kids, q, x)
    <3>1. q \in {m.root, p.root} /\ x \in {m.root, p.root}
      BY <1>5, <2>1 DEF Melds
    <3>2. {m.root, p.root} \cap Nodes \subseteq V
      BY <1>4 DEF Merging
    <3> QED  BY <3>1, <3>2
  <2>2. CASE IsChild(p.kids, q, x) /\ ~IsChild(m.kids, q, x)
    BY <1>3, <2>2 DEF Melds
  <2>3. CASE IsChild(m.kids, q, x)
    BY <2>3 DEF Merging
  <2> QED  BY <2>1, <2>2, <2>3
<1>10. MeldNext(key, m, a, b) = r
  BY DEF MeldNext, p, r
<1>11. Forest(Nodes, r.kids)
  BY <1>5 DEF Melds
<1>12. V # {}
  OBVIOUS
<1> HIDE DEF V
<1>13. Merging(Nodes, key, kids, V, r)
  BY <1>5, <1>6, <1>7, <1>8, <1>9, <1>11, <1>12 DEF Merging
<1> QED  BY <1>10, <1>13 DEF V

(* The heaps there are, for what a loop may pass on. *)
Heaps(Nodes) == [root : Nodes \cup {NoNode}, kids : [Nodes -> Seq(Nodes)]]

(* meld gives a heap.                                                       *)
LEMMA MeldType ==
  ASSUME NEW Nodes, NEW key, NEW kids \in [Nodes -> Seq(Nodes)],
         NEW left \in Nodes \cup {NoNode}, NEW right \in Nodes
  PROVE  Meld(key, kids, left, right) \in Heaps(Nodes)
<1>1. \A p, c \in Nodes : AddChild(kids, p, c) \in [Nodes -> Seq(Nodes)]
  BY DEF AddChild
<1> QED  BY <1>1 DEF Meld, Heaps

Linked(Nodes, kids, cs) == kids \in [Nodes -> Seq(Nodes)] /\ cs \in Seq(Nodes)

PairByPair(key, kids, cs, f) ==
  /\ f[0] = [root |-> NoNode, kids |-> kids]
  /\ \A j \in 1..(Len(cs) \div 2) :
        f[j] = MeldNext(key, f[j - 1], cs[Len(cs) - 2*j + 1], cs[Len(cs) - 2*j + 2])

(* Each turn of the loop of merge_children is MeldNext of the turn before.  *)
LEMMA PairsAreMelded ==
  ASSUME NEW Nodes, NEW key, NEW kids, NEW cs, Linked(Nodes, kids, cs)
  PROVE  PairByPair(key, kids, cs, PairsMelded(key, kids, cs))
<1> DEFINE K == Len(cs) \div 2
           base == [root |-> NoNode, kids |-> kids]
           left(j) == cs[Len(cs) - 2*j + 1]
           right(j) == cs[Len(cs) - 2*j + 2]
           step == [j \in 1..K |-> [m \in Heaps(Nodes) |-> MeldNext(key, m, left(j), right(j))]]
           Is(f) == f = [j \in 0..K |-> IF j = 0 THEN base
                                        ELSE MeldNext(key, f[j - 1], left(j), right(j))]
<1> USE DEF Linked
<1>1. K \in Nat /\ \A j \in 1..K : Len(cs) - 2*j + 1 \in 1..Len(cs) /\ Len(cs) - 2*j + 2 \in 1..Len(cs)
  <2>1. Len(cs) \in Nat
    OBVIOUS
  <2> HIDE DEF K
  <2>2. K \in Nat /\ 2*K <= Len(cs)
    <3> DEFINE b == Len(cs)
    <3> HIDE DEF b
    <3>1. b \in Nat
      BY <2>1 DEF b
    <3>2. b \div 2 \in Nat /\ 2*(b \div 2) <= b
      BY <3>1
    <3> QED  BY <3>2 DEF b, K
  <2> QED  BY <2>1, <2>2
<1>2. \A j \in 1..K : left(j) \in Nodes /\ right(j) \in Nodes
  BY <1>1
<1>3. base \in Heaps(Nodes)
  BY DEF Heaps
<1>4. ASSUME NEW m \in Heaps(Nodes), NEW j \in 1..K
      PROVE  MeldNext(key, m, left(j), right(j)) \in Heaps(Nodes)
  <2> DEFINE p == Meld(key, m.kids, left(j), right(j))
  <2>1. m.kids \in [Nodes -> Seq(Nodes)] /\ m.root \in Nodes \cup {NoNode}
    BY DEF Heaps
  <2>2. p.root \in Nodes /\ p.kids \in [Nodes -> Seq(Nodes)]
    <3>1. p \in Heaps(Nodes)
      BY <1>2, <2>1, MeldType
    <3>2. p.root \in {left(j), right(j)}
      BY DEF Meld
    <3> QED  BY <1>2, <3>1, <3>2 DEF Heaps
  <2> HIDE DEF p
  <2>3. Meld(key, p.kids, m.root, p.root) \in Heaps(Nodes)
    BY <2>1, <2>2, MeldType
  <2> QED  BY <2>3 DEF MeldNext, p
<1> HIDE DEF base, left, right
<1>k. K \in Nat
  BY <1>1
<1>s. \A n \in 1..K : \A m \in Heaps(Nodes) : step[n][m] = MeldNext(key, m, left(n), right(n))
  OBVIOUS
<1> HIDE DEF K, step
<1>5. PICK g : Loop(g, K, base, step)
  BY <1>k, LoopsExist
<1>6. /\ g = [n \in 0..K |-> g[n]]
      /\ g[0] = base
      /\ \A n \in 1..K : g[n] = step[n][g[n - 1]]
  BY <1>k, <1>5, LoopIs
<1>7. \A n \in 0..K : g[n] \in Heaps(Nodes)
  <2> DEFINE S == {n \in Nat : n \in 0..K => g[n] \in Heaps(Nodes)}
  <2>1. 0 \in S
    BY <1>3, <1>6
  <2>2. ASSUME NEW n \in Nat, n \in S PROVE n + 1 \in S
    <3>1. CASE n + 1 \in 0..K
      <4>1. n + 1 \in 1..K /\ n \in 0..K /\ (n + 1) - 1 = n
        BY <1>k, <3>1
      <4>2. g[n] \in Heaps(Nodes)
        BY <2>2, <4>1
      <4>3. g[n + 1] = MeldNext(key, g[n], left(n + 1), right(n + 1))
        BY <1>6, <1>s, <4>1, <4>2
      <4> QED  BY <1>4, <4>1, <4>2, <4>3
    <3> QED  BY <3>1
  <2> HIDE DEF S
  <2>3. Nat \subseteq S
    BY <2>1, <2>2, Induction
  <2> QED  BY <1>k, <2>3 DEF S
<1>8. \A j \in 0..K : g[j] = IF j = 0 THEN base ELSE MeldNext(key, g[j - 1], left(j), right(j))
  <2>1. \A j \in 0..K : j = 0 \/ (j # 0 /\ j \in 1..K /\ j - 1 \in 0..K)
    BY <1>k
  <2>2. ASSUME NEW j \in 1..K, j - 1 \in 0..K
        PROVE  g[j] = MeldNext(key, g[j - 1], left(j), right(j))
    BY <1>6, <1>7, <1>s, <2>2
  <2> QED  BY <1>6, <2>1, <2>2
<1>9. Is(g)
  BY <1>6, <1>8
<1> DEFINE f == PairsMelded(key, kids, cs)
<1>10. f = CHOOSE h : Is(h)
  BY Zenon DEF PairsMelded, base, left, right, K
<1> HIDE DEF f
<1> HIDE DEF Is
<1>11. Is(f)
  BY <1>9, <1>10
<1>12. \A j \in 0..K : f[j] = IF j = 0 THEN base ELSE MeldNext(key, f[j - 1], left(j), right(j))
  BY <1>11 DEF Is
<1>13. 0 \in 0..K /\ \A j \in 1..K : j \in 0..K /\ j # 0
  BY <1>k
<1>14. f[0] = base /\ \A j \in 1..K : f[j] = MeldNext(key, f[j - 1], left(j), right(j))
  BY <1>12, <1>13
<1> QED  BY <1>14 DEF PairByPair, f, base, left, right, K

(* merge_children, once all pairs are melded, and the odd child: one tree. *)
LEMMA MergeChildrenIs ==
  ASSUME NEW Nodes, NoNode \notin Nodes, NEW key \in [Nodes -> Int], NEW kids,
         Forest(Nodes, kids), Ascends(Nodes, key, kids),
         NEW cs \in Seq(Nodes), \A i, j \in DOMAIN cs : cs[i] = cs[j] => i = j,
         \A i \in DOMAIN cs : Orphan(Nodes, kids, cs[i])
  PROVE  Merging(Nodes, key, kids, {cs[i] : i \in DOMAIN cs}, MergeChildren(key, kids, cs))
<1> DEFINE L == Len(cs)
           K == L \div 2
           f == PairsMelded(key, kids, cs)
           U(j) == {cs[i] : i \in (L - 2*j + 1)..L}
<1>1. L \in Nat /\ K \in Nat /\ L % 2 \in 0..1 /\ L = 2*K + (L % 2) /\ DOMAIN cs = 1..L
  <2>1. L \in Nat /\ DOMAIN cs = 1..L
    OBVIOUS
  <2> HIDE DEF L
  <2>2. K \in Nat /\ L % 2 \in 0..1 /\ L = 2*K + (L % 2)
    BY <2>1
  <2> QED  BY <2>1, <2>2
<1>2. /\ f[0] = [root |-> NoNode, kids |-> kids]
      /\ \A j \in 1..K : f[j] = MeldNext(key, f[j - 1], cs[L - 2*j + 1], cs[L - 2*j + 2])
  <2>1. Linked(Nodes, kids, cs)
    BY DEF Linked, Forest, Lists
  <2> HIDE DEF f
  <2>2. PairByPair(key, kids, cs, f)
    BY <2>1, PairsAreMelded DEF f
  <2> QED  BY <2>2 DEF PairByPair
<1>3. MergeChildren(key, kids, cs) =
        IF L % 2 = 0 THEN f[K] ELSE Meld(key, f[K].kids, f[K].root, cs[1])
  BY DEF MergeChildren
<1> HIDE DEF f, L, K
<1>4. \A i \in 1..L : cs[i] \in Nodes
  BY <1>1
<1>5. ASSUME NEW j \in 0..K PROVE Merging(Nodes, key, kids, U(j), f[j])
  <2> DEFINE S == {n \in Nat : n \in 0..K => Merging(Nodes, key, kids, U(n), f[n])}
  <2>1. 0 \in S
    <3>1. U(0) = {}
      BY <1>1
    <3>2. Merging(Nodes, key, kids, {}, [root |-> NoNode, kids |-> kids])
      BY DEF Merging
    <3> QED  BY <1>2, <3>1, <3>2
  <2>2. ASSUME NEW n \in Nat, n \in S PROVE n + 1 \in S
    <3> SUFFICES ASSUME n + 1 \in 0..K PROVE Merging(Nodes, key, kids, U(n + 1), f[n + 1])
      OBVIOUS
    <3> DEFINE lo == L - 2*(n + 1) + 1
    <3>1. /\ n \in 0..K /\ n + 1 \in 1..K /\ (n + 1) - 1 = n
          /\ lo \in 1..L /\ lo + 1 \in 1..L /\ L - 2*(n + 1) + 2 = lo + 1 /\ L - 2*n + 1 = lo + 2
      BY <1>1
    <3>2. Merging(Nodes, key, kids, U(n), f[n])
      BY <2>2, <3>1
    <3>3. f[n + 1] = MeldNext(key, f[n], cs[lo], cs[lo + 1])
      BY <1>2, <3>1
    <3>5. U(n + 1) = {cs[i] : i \in lo..L} /\ U(n) = {cs[i] : i \in (lo + 2)..L}
      BY <3>1
    <3> HIDE DEF lo, S, U
    <3>4. (lo..L) = {lo, lo + 1} \cup ((lo + 2)..L) /\ (lo + 2)..L \subseteq 1..L
      BY <1>1, <3>1
    <3>6. lo \notin (lo + 2)..L /\ lo + 1 \notin (lo + 2)..L /\ lo # lo + 1
      BY <3>1
    <3> DEFINE a == cs[lo]
               b == cs[lo + 1]
    <3>7. U(n + 1) = U(n) \cup {a, b}
      BY <3>4, <3>5
    <3>8. U(n) \in SUBSET Nodes /\ \A x \in U(n) : Orphan(Nodes, kids, x)
      <4>1. \A x \in U(n) : \E i \in 1..L : x = cs[i]
        BY <3>4, <3>5
      <4> QED  BY <1>1, <1>4, <4>1
    <3>9. ASSUME NEW k \in 1..L, k \notin (lo + 2)..L
          PROVE  cs[k] \in Nodes /\ cs[k] \notin U(n) /\ Orphan(Nodes, kids, cs[k])
      BY <1>1, <1>4, <3>4, <3>5, <3>9
    <3>10. /\ a \in Nodes \ U(n) /\ Orphan(Nodes, kids, a)
           /\ b \in Nodes \ U(n) /\ Orphan(Nodes, kids, b) /\ a # b
      BY <1>1, <3>1, <3>6, <3>9
    <3> HIDE DEF a, b
    <3>11. Merging(Nodes, key, kids, U(n) \cup {a, b}, MeldNext(key, f[n], a, b))
      BY <3>2, <3>8, <3>10, MergeTwo
    <3> QED  BY <3>3, <3>7, <3>11 DEF a, b
  <2> HIDE DEF S
  <2>3. Nat \subseteq S
    BY <2>1, <2>2, Induction
  <2>4. j \in Nat
    BY <1>1
  <2> QED  BY <2>3, <2>4 DEF S
<1>6. K \in 0..K
  BY <1>1
<1>7. Merging(Nodes, key, kids, U(K), f[K])
  BY <1>5, <1>6
<1>8. CASE L % 2 = 0
  <2>1. L - 2*K + 1 = 1
    BY <1>1, <1>8
  <2>2. U(K) = {cs[i] : i \in DOMAIN cs}
    BY <1>1, <2>1
  <2> QED  BY <1>3, <1>7, <1>8, <2>2
<1>9. CASE L % 2 # 0
  <2>1. L - 2*K + 1 = 2 /\ 1 \in 1..L /\ 1..L = {1} \cup (2..L) /\ 1 \notin 2..L /\ 2..L \subseteq 1..L
    BY <1>1, <1>9
  <2>2. U(K) = {cs[i] : i \in 2..L}
    BY <2>1
  <2>3. U(K) \cup {cs[1]} = {cs[i] : i \in DOMAIN cs}
    BY <1>1, <2>1, <2>2
  <2>4. /\ U(K) \in SUBSET Nodes
        /\ \A x \in U(K) : Orphan(Nodes, kids, x)
        /\ cs[1] \in Nodes /\ cs[1] \notin U(K) /\ Orphan(Nodes, kids, cs[1])
    <3> HIDE DEF U
    <3>1. \A x \in U(K) : \E i \in 2..L : x = cs[i]
      BY <2>2
    <3>2. \A i \in 2..L : i \in 1..L /\ i # 1
      BY <2>1
    <3>3. \A i \in 1..L : cs[i] \in Nodes /\ Orphan(Nodes, kids, cs[i])
      BY <1>1, <1>4
    <3>4. cs[1] \notin U(K)
      BY <1>1, <2>1, <3>1, <3>2
    <3> QED  BY <2>1, <3>1, <3>2, <3>3, <3>4
  <2> HIDE DEF U
  <2>5. Merging(Nodes, key, kids, U(K) \cup {cs[1]}, Meld(key, f[K].kids, f[K].root, cs[1]))
    BY <1>7, <2>4, MergeOne
  <2> QED  BY <1>3, <1>9, <2>3, <2>5
<1> QED  BY <1>8, <1>9
-----------------------------------------------------------------------------
(* A node leaves a list; the others stay, each once. *)
LEMMA UnlinkedIs ==
  ASSUME NEW Nodes, NEW s \in Seq(Nodes), NEW n,
         \A i, j \in DOMAIN s : s[i] = s[j] => i = j
  PROVE  /\ Unlinked(s, n) \in Seq(Nodes)
         /\ \A i, j \in DOMAIN Unlinked(s, n) : Unlinked(s, n)[i] = Unlinked(s, n)[j] => i = j
         /\ \A x : (\E i \in DOMAIN Unlinked(s, n) : Unlinked(s, n)[i] = x)
                     <=> (\E i \in DOMAIN s : s[i] = x) /\ x # n
<1>1. DOMAIN s = 1..Len(s) /\ Len(s) \in Nat
  OBVIOUS
<1>2. CASE ~\E i \in DOMAIN s : s[i] = n
  <2>1. Unlinked(s, n) = s
    BY <1>2 DEF Unlinked
  <2> QED  BY <1>2, <2>1
<1>3. CASE \E i \in DOMAIN s : s[i] = n
  <2> DEFINE at == CHOOSE i \in DOMAIN s : s[i] = n
             from(i) == IF i < at THEN i ELSE i + 1
             u == [i \in 1..(Len(s) - 1) |-> s[from(i)]]
  <2>1. at \in 1..Len(s) /\ s[at] = n
    BY <1>1, <1>3
  <2>2. Unlinked(s, n) = u
    BY <1>3 DEF Unlinked
  <2> HIDE DEF at
  <2>3. Len(s) - 1 \in Nat
    BY <1>1, <2>1
  <2>4. \A i \in 1..(Len(s) - 1) : from(i) \in 1..Len(s) /\ from(i) # at
    BY <1>1, <2>1
  <2>5. \A i, j \in 1..(Len(s) - 1) : from(i) = from(j) => i = j
    BY <1>1, <2>1
  <2>6. \A k \in 1..Len(s) : k # at => \E i \in 1..(Len(s) - 1) : from(i) = k
    <3> SUFFICES ASSUME NEW k \in 1..Len(s), k # at
                 PROVE  \E i \in 1..(Len(s) - 1) : from(i) = k
      OBVIOUS
    <3>1. CASE k < at
      <4>1. k \in 1..(Len(s) - 1) /\ from(k) = k
        BY <1>1, <2>1, <3>1
      <4> QED  BY <4>1
    <3>2. CASE ~(k < at)
      <4>1. k - 1 \in 1..(Len(s) - 1) /\ from(k - 1) = k
        BY <1>1, <2>1, <3>2
      <4> QED  BY <4>1
    <3> QED  BY <3>1, <3>2
  <2> HIDE DEF from
  <2>7. DOMAIN u = 1..(Len(s) - 1) /\ \A i \in 1..(Len(s) - 1) : u[i] = s[from(i)]
    OBVIOUS
  <2>8. u \in Seq(Nodes)
    <3>1. u \in [1..(Len(s) - 1) -> Nodes]
      BY <1>1, <2>4
    <3> QED  BY <2>3, <3>1
  <2> HIDE DEF u
  <2>9. \A i, j \in DOMAIN u : u[i] = u[j] => i = j
    BY <1>1, <2>4, <2>5, <2>7
  <2>10. ASSUME NEW x PROVE (\E i \in DOMAIN u : u[i] = x) <=> (\E i \in DOMAIN s : s[i] = x) /\ x # n
    <3>1. ASSUME NEW i \in DOMAIN u, u[i] = x PROVE (\E j \in DOMAIN s : s[j] = x) /\ x # n
      BY <1>1, <2>1, <2>4, <2>7, <3>1
    <3>2. ASSUME NEW j \in DOMAIN s, s[j] = x, x # n PROVE \E i \in DOMAIN u : u[i] = x
      BY <1>1, <2>1, <2>6, <2>7, <3>2
    <3> QED  BY <3>1, <3>2
  <2> QED  BY <2>2, <2>8, <2>9, <2>10
<1> QED  BY <1>2, <1>3
-----------------------------------------------------------------------------
(* The heap holds the nodes of S: one tree, in heap order. *)
Holds(Nodes, key, hp, S) ==
  /\ S \in SUBSET Nodes
  /\ Forest(Nodes, hp.kids) /\ Ascends(Nodes, key, hp.kids)
  /\ IF S = {} THEN hp.root = NoNode ELSE hp.root \in S
  /\ \A x \in Nodes : Orphan(Nodes, hp.kids, x) <=> x \notin S \/ x = hp.root
  /\ \A p, c \in Nodes : IsChild(hp.kids, p, c) => p \in S

(* A new heap holds nothing.                                                *)
LEMMA EmptyHolds ==
  ASSUME NEW Nodes, NEW key
  PROVE  Holds(Nodes, key, EmptyHeap(Nodes), {})
<1> DEFINE h == EmptyHeap(Nodes)
<1>1. h.root = NoNode /\ h.kids = [n \in Nodes |-> <<>>]
  BY DEF EmptyHeap
<1>2. \A p \in Nodes : h.kids[p] = <<>> /\ DOMAIN h.kids[p] = {}
  BY <1>1
<1>3. h.kids \in [Nodes -> Seq(Nodes)]
  BY <1>1
<1> HIDE DEF h
<1>4. \A p, c : p \in Nodes => ~IsChild(h.kids, p, c)
  BY <1>2 DEF IsChild
<1>5. Forest(Nodes, h.kids)
  BY <1>2, <1>3, <1>4 DEF Forest, Lists, Acyclic
<1> QED  BY <1>1, <1>4, <1>5 DEF Holds, Ascends, Orphan, h

(* insert: the heap holds one node more.                                    *)
LEMMA InsertHolds ==
  ASSUME NEW Nodes, NoNode \notin Nodes, NEW key \in [Nodes -> Int], NEW hp, NEW S,
         Holds(Nodes, key, hp, S), NEW n \in Nodes \ S
  PROVE  Holds(Nodes, key, HeapInsert(key, hp, n), S \cup {n})
<1> DEFINE m == Meld(key, hp.kids, hp.root, n)
<1>1. /\ hp.root \in Nodes \cup {NoNode} /\ hp.root # n
      /\ hp.root # NoNode => Orphan(Nodes, hp.kids, hp.root)
      /\ Orphan(Nodes, hp.kids, n)
  BY DEF Holds
<1>2. Melds(Nodes, hp.kids, hp.root, n, m) /\ Ascends(Nodes, key, m.kids)
  BY <1>1, MeldIs DEF Holds
<1> HIDE DEF m
<1>3. m.root \in S \cup {n}
  BY <1>2 DEF Melds, Holds
<1>4. ASSUME NEW x \in Nodes
      PROVE  Orphan(Nodes, m.kids, x) <=> x \notin S \cup {n} \/ x = m.root
  BY <1>1, <1>2 DEF Melds, Holds
<1>5. \A p, c \in Nodes : IsChild(m.kids, p, c) => p \in S \cup {n}
  <2> SUFFICES ASSUME NEW p \in Nodes, NEW c \in Nodes, IsChild(m.kids, p, c) PROVE p \in S \cup {n}
    OBVIOUS
  <2>1. IsChild(hp.kids, p, c) \/ p \in {hp.root, n}
    BY <1>2 DEF Melds
  <2> QED  BY <2>1 DEF Holds
<1>6. Forest(Nodes, m.kids)
  BY <1>2 DEF Melds
<1>7. S \cup {n} \in SUBSET Nodes
  BY DEF Holds
<1> QED  BY <1>2, <1>3, <1>4, <1>5, <1>6, <1>7 DEF Holds, HeapInsert, m

(* The node that is removed leaves its siblings and its children. *)
Bare(hp, n) == [p \in DOMAIN hp.kids |-> IF p = n THEN <<>> ELSE Unlinked(hp.kids[p], n)]

(* What is left when a node and its children are taken out: trees in heap   *)
(* order, whose roots are known.                                            *)
LEMMA BareIs ==
  ASSUME NEW Nodes, NEW key, NEW hp, Forest(Nodes, hp.kids), Ascends(Nodes, key, hp.kids),
         NEW n \in Nodes
  PROVE  /\ Forest(Nodes, Bare(hp, n)) /\ Ascends(Nodes, key, Bare(hp, n))
         /\ \A p, c \in Nodes : IsChild(Bare(hp, n), p, c)
                                   <=> IsChild(hp.kids, p, c) /\ p # n /\ c # n
<1> DEFINE kids == hp.kids
           bare == Bare(hp, n)
<1>1. /\ kids \in [Nodes -> Seq(Nodes)]
      /\ \A p \in Nodes : \A i, j \in DOMAIN kids[p] : kids[p][i] = kids[p][j] => i = j
  BY DEF Forest, Lists
<1>2. \A p \in Nodes : bare[p] = IF p = n THEN <<>> ELSE Unlinked(kids[p], n)
  BY <1>1 DEF Bare
<1>3. bare = [p \in Nodes |-> bare[p]]
  BY <1>1 DEF Bare
<1> HIDE DEF bare, kids
<1>4. ASSUME NEW p \in Nodes
      PROVE  /\ bare[p] \in Seq(Nodes)
             /\ \A i, j \in DOMAIN bare[p] : bare[p][i] = bare[p][j] => i = j
             /\ \A c : IsChild(bare, p, c) <=> IsChild(kids, p, c) /\ p # n /\ c # n
  <2>1. CASE p = n
    <3>1. bare[p] = <<>>
      BY <1>2, <2>1
    <3>2. bare[p] \in Seq(Nodes) /\ DOMAIN bare[p] = {}
      BY <3>1
    <3> QED  BY <2>1, <3>2 DEF IsChild
  <2>2. CASE p # n
    <3>1. bare[p] = Unlinked(kids[p], n)
      BY <1>2, <2>2
    <3>2. kids[p] \in Seq(Nodes) /\ \A i, j \in DOMAIN kids[p] : kids[p][i] = kids[p][j] => i = j
      BY <1>1
    <3> DEFINE s == kids[p]
    <3> HIDE DEF s
    <3>3. s \in Seq(Nodes) /\ \A i, j \in DOMAIN s : s[i] = s[j] => i = j
      BY <3>2 DEF s
    <3>4. /\ Unlinked(s, n) \in Seq(Nodes)
          /\ \A i, j \in DOMAIN Unlinked(s, n) : Unlinked(s, n)[i] = Unlinked(s, n)[j] => i = j
          /\ \A x : (\E i \in DOMAIN Unlinked(s, n) : Unlinked(s, n)[i] = x)
                     <=> (\E i \in DOMAIN s : s[i] = x) /\ x # n
      BY <3>3, UnlinkedIs
    <3> QED  BY <2>2, <3>1, <3>4 DEF IsChild, s
  <2> QED  BY <2>1, <2>2
<1>5. bare \in [Nodes -> Seq(Nodes)]
  BY <1>3, <1>4
<1>6. \A p, q, c \in Nodes : IsChild(bare, p, c) /\ IsChild(bare, q, c) => p = q
  BY <1>4 DEF Forest, Lists, kids
<1>7. Lists(Nodes, bare)
  BY <1>4, <1>5, <1>6 DEF Lists
<1>8. Acyclic(Nodes, bare)
  <2> SUFFICES ASSUME NEW T \in SUBSET Nodes, T # {}
               PROVE  \E x \in T : \A p \in T : ~IsChild(bare, p, x)
    BY DEF Acyclic
  <2>1. PICK x \in T : \A p \in T : ~IsChild(kids, p, x)
    BY DEF Forest, Acyclic, kids
  <2> QED  BY <1>4, <2>1
<1>9. Ascends(Nodes, key, bare)
  BY <1>4 DEF Ascends, kids
<1> QED  BY <1>4, <1>7, <1>8, <1>9 DEF Forest, bare, kids

(* remove, of any node of any heap: it holds the others, in heap order.     *)
LEMMA RemoveHolds ==
  ASSUME NEW Nodes, NoNode \notin Nodes, NEW key \in [Nodes -> Int], NEW hp, NEW S,
         Holds(Nodes, key, hp, S), NEW n \in S
  PROVE  Holds(Nodes, key, HeapRemove(key, hp, n), S \ {n})
<1> DEFINE kids == hp.kids
           bare == Bare(hp, n)
           cs == kids[n]
           rest == MergeChildren(key, bare, cs)
           U == {cs[i] : i \in DOMAIN cs}
<1>1. n \in Nodes /\ Forest(Nodes, kids) /\ Ascends(Nodes, key, kids) /\ Lists(Nodes, kids)
  BY DEF Holds, Forest
<1>2. /\ Forest(Nodes, bare) /\ Ascends(Nodes, key, bare)
      /\ \A p, c \in Nodes : IsChild(bare, p, c) <=> IsChild(kids, p, c) /\ p # n /\ c # n
  BY <1>1, BareIs
<1>3. cs \in Seq(Nodes) /\ \A i, j \in DOMAIN cs : cs[i] = cs[j] => i = j
  BY <1>1 DEF Lists
<1>4. /\ U \subseteq Nodes
      /\ \A x \in Nodes : x \in U <=> IsChild(kids, n, x)
  BY <1>3 DEF IsChild
<1> HIDE DEF bare, U, kids, cs
<1>5. ~IsChild(kids, n, n)
  <2>1. PICK x \in {n} : \A p \in {n} : ~IsChild(kids, p, x)
    BY <1>1 DEF Forest, Acyclic
  <2> QED  BY <2>1
<1>6. \A x \in Nodes : Orphan(Nodes, bare, x) <=> Orphan(Nodes, kids, x) \/ x = n \/ x \in U
  <2> SUFFICES ASSUME NEW x \in Nodes
               PROVE  Orphan(Nodes, bare, x) <=> Orphan(Nodes, kids, x) \/ x = n \/ x \in U
    OBVIOUS
  <2>1. ASSUME x \in U PROVE Orphan(Nodes, bare, x)
    BY <1>1, <1>2, <1>4, <2>1 DEF Lists, Orphan
  <2> QED  BY <1>1, <1>2, <1>4, <2>1 DEF Orphan
<1>7. \A i \in DOMAIN cs : Orphan(Nodes, bare, cs[i])
  <2>1. \A i \in DOMAIN cs : cs[i] \in U /\ cs[i] \in Nodes
    BY <1>4 DEF U
  <2> QED  BY <1>6, <2>1
<1>8. Merging(Nodes, key, bare, U, rest)
  BY <1>2, <1>3, <1>7, MergeChildrenIs DEF U
<1> HIDE DEF rest
<1>9. /\ IF S = {} THEN hp.root = NoNode ELSE hp.root \in S
      /\ \A x \in Nodes : Orphan(Nodes, kids, x) <=> x \notin S \/ x = hp.root
      /\ \A p, c \in Nodes : IsChild(kids, p, c) => p \in S
      /\ S \subseteq Nodes
  BY DEF Holds, kids
<1>10. U \subseteq S \ {n}
  <2> SUFFICES ASSUME NEW x \in U PROVE x \in S \ {n}
    OBVIOUS
  <2>1. IsChild(kids, n, x) /\ x \in Nodes
    BY <1>4
  <2>2. ~Orphan(Nodes, kids, x)
    BY <1>1, <2>1 DEF Orphan
  <2> QED  BY <1>5, <1>9, <2>1, <2>2
<1>11. hp.root \in S /\ hp.root \in Nodes /\ Orphan(Nodes, kids, hp.root) /\ hp.root \notin U
  <2>1. hp.root \in S /\ hp.root \in Nodes /\ Orphan(Nodes, kids, hp.root)
    BY <1>9
  <2> QED  BY <1>1, <1>4, <2>1 DEF Orphan
<1>12. /\ Forest(Nodes, rest.kids) /\ Ascends(Nodes, key, rest.kids)
       /\ IF U = {} THEN rest.root = NoNode ELSE rest.root \in U
       /\ \A x \in Nodes : Orphan(Nodes, rest.kids, x)
                               <=> Orphan(Nodes, bare, x) /\ (x \notin U \/ x = rest.root)
       /\ \A q, x \in Nodes : IsChild(bare, q, x) => IsChild(rest.kids, q, x)
       /\ \A q, x \in Nodes : IsChild(rest.kids, q, x)
                               => IsChild(bare, q, x) \/ (q \in U /\ x \in U)
  BY <1>8 DEF Merging
<1>13. \A q, x \in Nodes : IsChild(rest.kids, q, x) => q \in S \ {n}
  BY <1>2, <1>9, <1>10, <1>12
<1>14. CASE n = hp.root
  <2>1. HeapRemove(key, hp, n) = rest
    BY <1>14 DEF HeapRemove, Bare, rest, bare, cs, kids
  <2>2. U = {} => S \ {n} = {}
    <3> SUFFICES ASSUME S \ {n} # {} PROVE U # {}
      OBVIOUS
    <3>1. PICK x \in S \ {n} : \A p \in S \ {n} : ~IsChild(kids, p, x)
      BY <1>1, <1>9 DEF Forest, Acyclic
    <3>2. x \in Nodes /\ ~Orphan(Nodes, kids, x)
      BY <1>9, <1>14
    <3>3. IsChild(kids, n, x)
      BY <1>9, <3>1, <3>2 DEF Orphan
    <3> QED  BY <1>4, <3>2, <3>3
  <2>3. IF S \ {n} = {} THEN rest.root = NoNode ELSE rest.root \in S \ {n}
    BY <1>10, <1>12, <2>2
  <2>4. ASSUME NEW x \in Nodes
        PROVE  Orphan(Nodes, rest.kids, x) <=> x \notin S \ {n} \/ x = rest.root
    BY <1>6, <1>9, <1>10, <1>12, <1>14
  <2>5. S \ {n} \in SUBSET Nodes
    BY <1>9
  <2> QED  BY <1>12, <1>13, <2>1, <2>3, <2>4, <2>5 DEF Holds
<1>15. CASE n # hp.root
  <2> DEFINE p == CHOOSE q \in DOMAIN hp.kids : n \in Kids(hp, q)
             final == IF rest.root = NoNode THEN rest.kids ELSE AddChild(rest.kids, p, rest.root)
  <2>1. HeapRemove(key, hp, n) = [root |-> hp.root, kids |-> final]
    BY <1>15 DEF HeapRemove, Bare, rest, bare, cs, kids
  <2>2. DOMAIN hp.kids = Nodes /\ \A q \in Nodes : n \in Kids(hp, q) <=> IsChild(kids, q, n)
    BY <1>1 DEF Kids, IsChild, Lists, kids
  <2>3. \E q \in Nodes : IsChild(kids, q, n)
    BY <1>1, <1>9, <1>15 DEF Orphan
  <2>4. p \in Nodes /\ IsChild(kids, p, n)
    BY <2>2, <2>3
  <2> HIDE DEF p
  <2>5. p \in S \ {n}
    BY <1>1, <1>5, <1>9, <2>4
  <2>6. S \ {n} \in SUBSET Nodes /\ hp.root \in S \ {n}
    BY <1>9, <1>11, <1>15
  <2>7. CASE rest.root = NoNode
    <3>1. final = rest.kids /\ U = {}
      BY <1>4, <1>12, <2>7
    <3>2. ASSUME NEW x \in Nodes
          PROVE  Orphan(Nodes, final, x) <=> x \notin S \ {n} \/ x = hp.root
      BY <1>6, <1>9, <1>12, <3>1
    <3> QED  BY <1>12, <1>13, <2>1, <2>6, <3>1, <3>2 DEF Holds
  <2>8. CASE rest.root # NoNode
    <3> DEFINE r == rest.root
    <3>1. final = AddChild(rest.kids, p, r) /\ r \in U /\ r \in Nodes
      BY <1>4, <1>12, <2>8
    <3> HIDE DEF final, r
    <3>2. Orphan(Nodes, rest.kids, r)
      BY <1>6, <1>12, <3>1 DEF r
    <3>3. /\ Lists(Nodes, final)
          /\ \A q, x \in Nodes : IsChild(final, q, x) <=> IsChild(rest.kids, q, x) \/ (q = p /\ x = r)
      BY <1>12, <2>4, <3>1, <3>2, AddedLinks DEF Forest
    <3>4. Ascends(Nodes, key, final)
      <4>1. key[p] <= key[n] /\ key[n] <= key[r]
        BY <1>1, <1>4, <2>4, <3>1 DEF Ascends
      <4>2. key[p] <= key[r]
        BY <1>1, <2>4, <3>1, <4>1
      <4> QED  BY <1>12, <3>3, <4>2 DEF Ascends
    <3>5. Acyclic(Nodes, final)
      <4> SUFFICES ASSUME NEW T \in SUBSET Nodes, T # {},
                          \A x \in T : \E q \in T : IsChild(final, q, x)
                   PROVE  FALSE
        BY DEF Acyclic
      <4>1. PICK y \in T : \A q \in T : ~IsChild(rest.kids, q, y)
        BY <1>12 DEF Forest, Acyclic
      <4>2. p \in T /\ r \in T
        BY <3>3, <4>1
      <4>3. PICK x \in T \cup {n} : \A q \in T \cup {n} : ~IsChild(kids, q, x)
        BY <1>1 DEF Forest, Acyclic
      <4>4. x # n /\ x \in Nodes
        BY <2>4, <4>2, <4>3
      <4>5. x \notin U
        BY <1>4, <4>3
      <4>6. PICK q \in T : IsChild(final, q, x)
        BY <4>3, <4>4
      <4>7. IsChild(rest.kids, q, x)
        BY <3>1, <3>3, <4>4, <4>5, <4>6
      <4>8. IsChild(kids, q, x)
        BY <1>2, <1>12, <4>4, <4>5, <4>7
      <4> QED  BY <4>3, <4>8
    <3>6. ASSUME NEW x \in Nodes
          PROVE  Orphan(Nodes, final, x) <=> x \notin S \ {n} \/ x = hp.root
      <4>1. Orphan(Nodes, final, x) <=> Orphan(Nodes, rest.kids, x) /\ x # r
        BY <2>4, <3>3 DEF Orphan
      <4> QED  BY <1>6, <1>9, <1>10, <1>11, <1>12, <4>1 DEF r
    <3>7. \A q, x \in Nodes : IsChild(final, q, x) => q \in S \ {n}
      BY <1>13, <2>5, <3>3
    <3>8. Forest(Nodes, final)
      BY <3>3, <3>5 DEF Forest
    <3> QED  BY <2>1, <2>6, <3>4, <3>6, <3>7, <3>8 DEF Holds
  <2> QED  BY <2>7, <2>8
<1> QED  BY <1>14, <1>15

(* Nothing in the heap comes before its root. *)
LEMMA RootIsLeast ==
  ASSUME NEW Nodes, NEW key \in [Nodes -> Int], NEW hp, NEW S, Holds(Nodes, key, hp, S),
         NEW n \in S
  PROVE  hp.root \in S /\ key[hp.root] <= key[n]
<1>1. hp.root \in S /\ S \subseteq Nodes
  BY DEF Holds
<1> DEFINE T == {x \in S : key[x] < key[hp.root]}
<1>2. ASSUME T # {} PROVE FALSE
  <2>1. PICK x \in T : \A p \in T : ~IsChild(hp.kids, p, x)
    <3>1. T \in SUBSET Nodes
      BY <1>1
    <3> QED  BY <1>2, <3>1 DEF Holds, Forest, Acyclic
  <2>2. x \in Nodes /\ x # hp.root /\ x \in S
    BY <1>1
  <2>3. PICK p \in Nodes : IsChild(hp.kids, p, x)
    BY <2>2 DEF Holds, Orphan
  <2>4. p \in S /\ key[p] <= key[x]
    BY <2>2, <2>3 DEF Holds, Ascends
  <2>5. key[p] < key[hp.root]
    BY <1>1, <2>1, <2>2, <2>3, <2>4
  <2> QED  BY <2>1, <2>3, <2>4, <2>5
<1>3. ~(key[n] < key[hp.root])
  BY <1>2
<1>4. key[n] \in Int /\ key[hp.root] \in Int
  BY <1>1
<1> QED  BY <1>1, <1>3, <1>4

(* Only the keys of the nodes it holds matter. *)
LEMMA KeysAside ==
  ASSUME NEW Nodes, NEW key, NEW other, NEW hp, NEW S, Holds(Nodes, key, hp, S),
         \A x \in S : other[x] = key[x]
  PROVE  Holds(Nodes, other, hp, S)
<1>1. \A p, c \in Nodes : IsChild(hp.kids, p, c) => p \in S /\ c \in S
  BY DEF Holds, Orphan
<1>2. Ascends(Nodes, other, hp.kids)
  BY <1>1 DEF Holds, Ascends
<1> QED  BY <1>2 DEF Holds

(* The nodes reached from the root are those the heap holds, and each is no *)
(* less than its parent.                                                    *)
LEMMA HoldsIsOrdered ==
  ASSUME NEW Nodes, NoNode \notin Nodes, NEW key, NEW hp, NEW S, Holds(Nodes, key, hp, S)
  PROVE  HeapNodes(hp) = S /\ HeapOrdered(key, hp)
<1>1. /\ DOMAIN hp.kids = Nodes
      /\ \A p \in Nodes : \A c : c \in Kids(hp, p) <=> IsChild(hp.kids, p, c)
      /\ \A p \in Nodes : \A c : IsChild(hp.kids, p, c) => c \in Nodes
  BY ChildIsNode DEF Holds, Forest, Lists, Kids, IsChild
<1>2. HeapOrdered(key, hp)
  <2> SUFFICES ASSUME NEW p \in Nodes, NEW c \in Kids(hp, p)
               PROVE  /\ key[p] <= key[c]
                      /\ c # hp.root
                      /\ \A q \in Nodes : c \in Kids(hp, q) => q = p
    BY <1>1 DEF HeapOrdered
  <2>1. c \in Nodes /\ IsChild(hp.kids, p, c)
    BY <1>1
  <2>2. key[p] <= key[c]
    BY <2>1 DEF Holds, Ascends
  <2>3. c # hp.root
    BY <2>1 DEF Holds, Orphan
  <2>4. \A q \in Nodes : c \in Kids(hp, q) => q = p
    BY <1>1, <2>1 DEF Holds, Forest, Lists
  <2> QED  BY <2>2, <2>3, <2>4
<1>3. ASSUME NEW x \in S PROVE x \in HeapNodes(hp)
  <2>1. x \in Nodes /\ hp.root \in S /\ hp.root # NoNode
    BY DEF Holds
  <2>2. CASE x = hp.root
    BY <2>1, <2>2 DEF HeapNodes
  <2>3. CASE x # hp.root
    <3>1. PICK p \in Nodes : IsChild(hp.kids, p, x)
      BY <2>1, <2>3 DEF Holds, Orphan
    <3> QED  BY <1>1, <3>1 DEF HeapNodes
  <2> QED  BY <2>2, <2>3
<1>4. ASSUME NEW x \in HeapNodes(hp) PROVE x \in S
  <2>1. CASE x = hp.root /\ x # NoNode
    BY <2>1 DEF Holds
  <2>2. CASE \E p \in Nodes : x \in Kids(hp, p)
    <3>1. PICK p \in Nodes : IsChild(hp.kids, p, x) /\ x \in Nodes
      BY <1>1, <2>2
    <3>2. ~Orphan(Nodes, hp.kids, x)
      BY <3>1 DEF Orphan
    <3> QED  BY <3>1, <3>2 DEF Holds
  <2> QED  BY <1>1, <2>1, <2>2 DEF HeapNodes
<1> QED  BY <1>2, <1>3, <1>4
-----------------------------------------------------------------------------
(* The slots of the scheduler: its tasks are connections and operations. *)

Everyone == Conns \cup Ops

SchedShape(s) == Shaped(s, Everyone)

(* Nothing is both a task and the mark of a free slot. *)
LEMMA TasksAssumed == SchedulerAssumption /\ NoTask \notin Everyone
BY RuntimeAssumption DEF Everyone

(* A slot that is free gets a task. *)
LEMMA InsertIs ==
  ASSUME NEW s, SchedShape(s), SlotsOK(s), HasRoom(s),
         NEW t \in Everyone, t \notin Tasks(s)
  PROVE  LET k == NextKey(s)
             after == Insert(s, t) IN
         /\ k \in Keys /\ s.slab[k] = NoTask
         /\ SchedShape(after) /\ SlotsOK(after)
         /\ after.slab = [s.slab EXCEPT ![k] = t]
         /\ after.notified = s.notified \cup {k}
         /\ after.completed = s.completed \ {k} /\ after.dropped = s.dropped \ {k}
BY TasksAssumed, SlotInserted DEF SchedShape

(* Taking a task empties its slot.                                          *)
LEMMA EmptiedIs ==
  ASSUME NEW s, SchedShape(s), SlotsOK(s), NEW k \in Keys, s.slab[k] # NoTask
  PROVE  /\ SchedShape(Take(s, k)) /\ Emptied(s, k, Take(s, k))
         /\ \A after : Emptied(s, k, after) => SlotsOK(after)
BY TasksAssumed, SlotEmptied DEF SchedShape

(* The end of a page: the slots of its dropped tasks are emptied, the first *)
(* one excepted.                                                            *)
FreedIs(s, G, after) == AreFreed(s, Everyone, G, after)

(* What is emptied at the end of a page, whatever the order.                *)
LEMMA FreeDroppedIs ==
  ASSUME NEW s, SchedShape(s), SlotsOK(s), NEW p, NEW gone \in SUBSET PageKeys(p),
         gone \subseteq Occupied(s)
  PROVE  FreedIs(s, Freed(gone), FreeDropped(s, gone))
BY TasksAssumed, SlotsFreed DEF SchedShape, FreedIs

(* The nodes of the heap of timers are connections.                         *)
LEMMA ConnsAreNodes ==
  NoNode \notin Conns /\ IsFiniteSet(Conns) /\ Cardinality(Conns) \in Nat
BY RuntimeAssumption, FS_CardinalityType

(* advance_clock: exactly the timers that are due leave the heap. *)
LEMMA RemoveExpiredIs ==
  ASSUME expiry \in [Conns -> Int], NEW S, Holds(Conns, expiry, heap, S), NEW t \in Int
  PROVE  LET r == RemoveExpired(t) IN
         /\ r.fired = {c \in S : expiry[c] <= t}
         /\ Holds(Conns, expiry, r.heap, S \ r.fired)
<1> DEFINE F(n, r) == IF r.heap.root = NoNode \/ t < expiry[r.heap.root] THEN r
                      ELSE [heap |-> HeapRemove(expiry, r.heap, r.heap.root),
                            fired |-> r.fired \cup {r.heap.root}]
           base == [heap |-> heap, fired |-> {}]
           K == Cardinality(Conns)
           Is(f, m) == f = [n \in 0..m |-> IF n = 0 THEN base ELSE F(n, f[n - 1])]
           f == CHOOSE g : Is(g, K)
           Ended(r) == r.heap.root = NoNode \/ t < expiry[r.heap.root]
           Turn(n, r) == /\ r.fired \subseteq S /\ \A c \in r.fired : expiry[c] <= t
                         /\ Holds(Conns, expiry, r.heap, S \ r.fired)
                         /\ Ended(r) \/ Cardinality(r.fired) = n
<1>0. K \in Nat /\ S \subseteq Conns /\ IsFiniteSet(Conns) /\ NoNode \notin Conns
  BY ConnsAreNodes DEF Holds
<1>1. RemoveExpired(t) = f[K]
  BY Zenon DEF RemoveExpired
<1>2. ASSUME NEW n \in Nat, NEW r, Turn(n, r) PROVE Turn(n + 1, F(n + 1, r))
  <2>1. CASE Ended(r)
    BY <1>2, <2>1
  <2>2. CASE ~Ended(r)
    <3> DEFINE c == r.heap.root
               after == [heap |-> HeapRemove(expiry, r.heap, c), fired |-> r.fired \cup {c}]
    <3>1. F(n + 1, r) = after
      BY <2>2
    <3>2. c # NoNode /\ c \in S \ r.fired /\ expiry[c] <= t
      <4>1. c # NoNode /\ ~(t < expiry[c])
        BY <2>2
      <4>2. c \in S \ r.fired
        BY <1>2, <4>1 DEF Holds
      <4>3. expiry[c] \in Int
        BY <1>0, <4>2
      <4> QED  BY <4>1, <4>2, <4>3
    <3> HIDE DEF c
    <3>3. Holds(Conns, expiry, HeapRemove(expiry, r.heap, c), (S \ r.fired) \ {c})
      BY <1>0, <1>2, <3>2, RemoveHolds
    <3>4. (S \ r.fired) \ {c} = S \ (r.fired \cup {c})
      OBVIOUS
    <3>5. IsFiniteSet(r.fired)
      BY <1>0, <1>2, FS_Subset
    <3>6. Cardinality(r.fired) = n => Cardinality(r.fired \cup {c}) = n + 1
      BY <3>2, <3>5, FS_AddElement
    <3> DEFINE left == HeapRemove(expiry, r.heap, c)
               gone == r.fired \cup {c}
    <3>7. after.heap = left /\ after.fired = gone
      OBVIOUS
    <3>8. Holds(Conns, expiry, left, S \ gone)
      BY <3>3, <3>4
    <3>9. gone \subseteq S /\ \A x \in gone : expiry[x] <= t
      BY <1>2, <3>2
    <3>10. Cardinality(gone) = n + 1
      BY <1>2, <2>2, <3>6
    <3> HIDE DEF left, gone, after
    <3> QED  BY <3>1, <3>7, <3>8, <3>9, <3>10
  <2> QED  BY <2>1, <2>2
<1>3. Turn(0, base)
  BY FS_EmptySet
<1> HIDE DEF F, base, K, Turn
<1>e1. ASSUME NEW g, NEW m \in Nat, Is(g, m)
       PROVE  /\ g[0] = base /\ \A n \in 1..m : g[n] = F(n, g[n - 1])
              /\ g = [n \in 0..m |-> g[n]]
  <2>1. 0 \in 0..m /\ \A n \in 1..m : n \in 0..m /\ n # 0
    BY <1>e1
  <2>2. \A n \in 0..m : g[n] = IF n = 0 THEN base ELSE F(n, g[n - 1])
    BY <1>e1
  <2>3. g = [n \in 0..m |-> g[n]]
    BY <1>e1
  <2>4. g[0] = base
    BY <2>1, <2>2
  <2>5. \A n \in 1..m : g[n] = F(n, g[n - 1])
    BY <2>1, <2>2
  <2> QED  BY <2>3, <2>4, <2>5
<1>e2. \E g : Is(g, K)
  <2> DEFINE M == {m \in Nat : \E g : Is(g, m)}
  <2>1. 0 \in M
    <3>1. Is([n \in 0..0 |-> base], 0)
      OBVIOUS
    <3> QED  BY <3>1
  <2>2. ASSUME NEW m \in Nat, m \in M PROVE m + 1 \in M
    <3>1. PICK g : Is(g, m)
      BY <2>2
    <3> DEFINE last == F(m + 1, g[m])
               h == [n \in 0..(m + 1) |-> IF n = m + 1 THEN last ELSE g[n]]
    <3>2. g[0] = base /\ \A n \in 1..m : g[n] = F(n, g[n - 1])
      BY <1>e1, <3>1
    <3>3. h[0] = base /\ h[m + 1] = F(m + 1, h[m])
      BY <3>2
    <3>4. ASSUME NEW n \in 1..m PROVE h[n] = F(n, h[n - 1])
      <4>1. n \in 0..(m + 1) /\ n - 1 \in 0..(m + 1) /\ n # m + 1 /\ n - 1 # m + 1
        OBVIOUS
      <4>2. h[n] = g[n] /\ h[n - 1] = g[n - 1]
        BY <4>1
      <4> HIDE DEF h
      <4> QED  BY <3>2, <4>2
    <3>5. h = [n \in 0..(m + 1) |-> h[n]]
      OBVIOUS
    <3> HIDE DEF h
    <3>6. \A n \in 0..(m + 1) : h[n] = IF n = 0 THEN base ELSE F(n, h[n - 1])
      <4>1. \A n \in 0..(m + 1) : n = 0 \/ (n # 0 /\ (n \in 1..m \/ (n = m + 1 /\ n - 1 = m)))
        OBVIOUS
      <4> QED  BY <3>3, <3>4, <4>1
    <3>7. Is(h, m + 1)
      BY <3>5, <3>6
    <3> QED  BY <3>7
  <2> HIDE DEF M
  <2>3. Nat \subseteq M
    BY <2>1, <2>2, Induction
  <2> QED  BY <1>0, <2>3 DEF M
<1>e3. Is(f, K)
  BY <1>e2
<1> HIDE DEF f, Is
<1>e4. /\ f[0] = base /\ \A n \in 1..K : f[n] = F(n, f[n - 1])
  BY <1>0, <1>e1, <1>e3
<1>4. Turn(K, f[K])
  <2> DEFINE T == {n \in Nat : n \in 0..K => Turn(n, f[n])}
  <2>1. 0 \in T
    BY <1>3, <1>e4
  <2>2. ASSUME NEW n \in Nat, n \in T PROVE n + 1 \in T
    <3> SUFFICES ASSUME n + 1 \in 0..K PROVE Turn(n + 1, f[n + 1])
      OBVIOUS
    <3>1. n \in 0..K /\ n + 1 \in 1..K /\ (n + 1) - 1 = n
      BY <1>0
    <3>2. Turn(n, f[n]) /\ f[n + 1] = F(n + 1, f[n])
      BY <1>e4, <2>2, <3>1
    <3> QED  BY <1>2, <3>2
  <2> HIDE DEF T
  <2>3. Nat \subseteq T
    BY <2>1, <2>2, Induction
  <2> QED  BY <1>0, <2>3 DEF T
<1> DEFINE r == f[K]
<1>5. /\ r.fired \subseteq S /\ \A c \in r.fired : expiry[c] <= t
      /\ Holds(Conns, expiry, r.heap, S \ r.fired)
      /\ Ended(r) \/ Cardinality(r.fired) = K
  BY <1>4 DEF Turn
<1> HIDE DEF r
<1>6. Ended(r)
  <2> SUFFICES ASSUME Cardinality(r.fired) = K PROVE Ended(r)
    BY <1>5
  <2>1. r.fired = Conns
    BY <1>0, <1>5, FS_Subset DEF K
  <2>2. S \ r.fired = {}
    BY <1>0, <2>1
  <2>3. r.heap.root = NoNode
    BY <1>5, <2>2 DEF Holds
  <2> QED  BY <2>3
<1>7. ASSUME NEW c \in S \ r.fired PROVE ~(expiry[c] <= t)
  <2>1. r.heap.root \in S \ r.fired /\ expiry[r.heap.root] <= expiry[c]
    BY <1>5, <1>7, RootIsLeast
  <2>2. r.heap.root # NoNode /\ expiry[r.heap.root] \in Int /\ expiry[c] \in Int
    BY <1>0, <1>7, <2>1
  <2> QED  BY <1>6, <2>1, <2>2
<1>8. r.fired = {c \in S : expiry[c] <= t}
  BY <1>5, <1>7
<1> QED  BY <1>1, <1>5, <1>8 DEF r

(* The timers of the coroutines that were removed. *)
LEMMA RemoveTimersIs ==
  ASSUME expiry \in [Conns -> Int], NEW S, Holds(Conns, expiry, heap, S),
         SchedShape(sched), SlotsOK(sched), NEW cs \in SUBSET S,
         \A c \in cs : \E k \in Keys : sched.slab[k] = c
  PROVE  Holds(Conns, expiry, RemoveTimers(cs), S \ cs)
<1> DEFINE F(n, h) == IF sched.slab[n-1] \in cs THEN HeapRemove(expiry, h, sched.slab[n-1]) ELSE h
           Is(f, m) == f = [n \in 0..m |-> IF n = 0 THEN heap ELSE F(n, f[n - 1])]
           f == CHOOSE g : Is(g, MaxKeys)
           G(n) == {c \in cs : \E k \in Keys : k < n /\ sched.slab[k] = c}
           Turn(n, h) == Holds(Conns, expiry, h, S \ G(n))
<1>0. MaxKeys \in Nat /\ S \subseteq Conns /\ NoNode \notin Conns /\ NoTask \notin Conns
  BY RuntimeAssumption DEF Holds, SchedulerAssumption
<1>1. RemoveTimers(cs) = f[MaxKeys]
  BY Zenon DEF RemoveTimers
<1>k. Keys \subseteq Nat
  BY <1>0 DEF Keys
<1>2. ASSUME NEW n \in Nat, n < MaxKeys, NEW h, Turn(n, h) PROVE Turn(n + 1, F(n + 1, h))
  <2>1. n \in Keys /\ (n + 1) - 1 = n
    BY <1>0, <1>2 DEF Keys
  <2>2. \A k \in Keys : k < n + 1 <=> k < n \/ k = n
    BY <1>0 DEF Keys
  <2>3. CASE sched.slab[n] \in cs
    <3> DEFINE c == sched.slab[n]
    <3>1. F(n + 1, h) = HeapRemove(expiry, h, c)
      BY <2>1, <2>3
    <3>2. c \in S /\ c \notin G(n)
      BY <1>0, <1>k, <2>1, <2>3 DEF SlotsOK
    <3>3. G(n + 1) = G(n) \cup {c}
      BY <2>1, <2>2, <2>3
    <3> HIDE DEF c, G, F
    <3>4. Holds(Conns, expiry, HeapRemove(expiry, h, c), (S \ G(n)) \ {c})
      BY <1>0, <1>2, <3>2, RemoveHolds
    <3>5. (S \ G(n)) \ {c} = S \ G(n + 1)
      BY <3>3
    <3> QED  BY <3>1, <3>4, <3>5
  <2>4. CASE sched.slab[n] \notin cs
    <3>1. F(n + 1, h) = h
      BY <2>1, <2>4
    <3>2. G(n + 1) = G(n)
      BY <2>2, <2>4
    <3> HIDE DEF G, F
    <3> QED  BY <1>2, <3>1, <3>2
  <2> QED  BY <2>3, <2>4
<1>3. Turn(0, heap)
  <2>1. G(0) = {}
    BY <1>k
  <2> QED  BY <2>1
<1> HIDE DEF F, Turn
<1>e1. ASSUME NEW g, NEW m \in Nat, Is(g, m)
       PROVE  /\ g[0] = heap /\ \A n \in 1..m : g[n] = F(n, g[n - 1])
              /\ g = [n \in 0..m |-> g[n]]
  <2>1. 0 \in 0..m /\ \A n \in 1..m : n \in 0..m /\ n # 0
    BY <1>e1
  <2>2. \A n \in 0..m : g[n] = IF n = 0 THEN heap ELSE F(n, g[n - 1])
    BY <1>e1
  <2>3. g = [n \in 0..m |-> g[n]]
    BY <1>e1
  <2>4. g[0] = heap
    BY <2>1, <2>2
  <2>5. \A n \in 1..m : g[n] = F(n, g[n - 1])
    BY <2>1, <2>2
  <2> QED  BY <2>3, <2>4, <2>5
<1>e2. \E g : Is(g, MaxKeys)
  <2> DEFINE M == {m \in Nat : \E g : Is(g, m)}
  <2>1. 0 \in M
    <3>1. Is([n \in 0..0 |-> heap], 0)
      OBVIOUS
    <3> QED  BY <3>1
  <2>2. ASSUME NEW m \in Nat, m \in M PROVE m + 1 \in M
    <3>1. PICK g : Is(g, m)
      BY <2>2
    <3> DEFINE last == F(m + 1, g[m])
               h == [n \in 0..(m + 1) |-> IF n = m + 1 THEN last ELSE g[n]]
    <3>2. g[0] = heap /\ \A n \in 1..m : g[n] = F(n, g[n - 1])
      BY <1>e1, <3>1
    <3>3. h[0] = heap /\ h[m + 1] = F(m + 1, h[m])
      BY <3>2
    <3>4. ASSUME NEW n \in 1..m PROVE h[n] = F(n, h[n - 1])
      <4>1. n \in 0..(m + 1) /\ n - 1 \in 0..(m + 1) /\ n # m + 1 /\ n - 1 # m + 1
        OBVIOUS
      <4>2. h[n] = g[n] /\ h[n - 1] = g[n - 1]
        BY <4>1
      <4> HIDE DEF h
      <4> QED  BY <3>2, <4>2
    <3>5. h = [n \in 0..(m + 1) |-> h[n]]
      OBVIOUS
    <3> HIDE DEF h
    <3>6. \A n \in 0..(m + 1) : h[n] = IF n = 0 THEN heap ELSE F(n, h[n - 1])
      <4>1. \A n \in 0..(m + 1) : n = 0 \/ (n # 0 /\ (n \in 1..m \/ (n = m + 1 /\ n - 1 = m)))
        OBVIOUS
      <4> QED  BY <3>3, <3>4, <4>1
    <3>7. Is(h, m + 1)
      BY <3>5, <3>6
    <3> QED  BY <3>7
  <2> HIDE DEF M
  <2>3. Nat \subseteq M
    BY <2>1, <2>2, Induction
  <2> QED  BY <1>0, <2>3 DEF M
<1>e3. Is(f, MaxKeys)
  BY <1>e2
<1> HIDE DEF f, Is
<1>e4. /\ f[0] = heap /\ \A n \in 1..MaxKeys : f[n] = F(n, f[n - 1])
  BY <1>0, <1>e1, <1>e3
<1>4. Turn(MaxKeys, f[MaxKeys])
  <2> DEFINE T == {n \in Nat : n \in 0..MaxKeys => Turn(n, f[n])}
  <2>1. 0 \in T
    BY <1>3, <1>e4
  <2>2. ASSUME NEW n \in Nat, n \in T PROVE n + 1 \in T
    <3> SUFFICES ASSUME n + 1 \in 0..MaxKeys PROVE Turn(n + 1, f[n + 1])
      OBVIOUS
    <3>1. n \in 0..MaxKeys /\ n + 1 \in 1..MaxKeys /\ (n + 1) - 1 = n /\ n < MaxKeys
      BY <1>0
    <3>2. Turn(n, f[n]) /\ f[n + 1] = F(n + 1, f[n])
      BY <1>e4, <2>2, <3>1
    <3> QED  BY <1>2, <3>1, <3>2
  <2> HIDE DEF T
  <2>3. Nat \subseteq T
    BY <2>1, <2>2, Induction
  <2> QED  BY <1>0, <2>3 DEF T
<1>5. G(MaxKeys) = cs
  <2>1. \A k \in Keys : k < MaxKeys
    BY <1>0 DEF Keys
  <2> QED  BY <2>1
<1> QED  BY <1>1, <1>4, <1>5 DEF Turn
-----------------------------------------------------------------------------
(* What the scheduler's record, the rest of the page being polled and those *)
(* who sleep say of each other.  h, tok, arr, slp, w and tm stand for held, *)
(* token, arrived, asleep, watch and timer.                                 *)

Flags(s, todo, gone) ==
  /\ todo \subseteq Keys /\ gone \subseteq Keys
  /\ \A k \in s.notified \cup s.completed \cup s.dropped \cup todo \cup gone : s.slab[k] # NoTask
  /\ todo \cap s.completed = {}

Names(s, gone, h, tok) ==
  /\ h \subseteq Conns /\ tok \in [Ops -> Keys \cup {NoKey}]
  /\ \A o \in Ops : tok[o] # NoKey => s.slab[tok[o]] = o
  /\ \A k \in Keys : s.slab[k] \in Ops => tok[s.slab[k]] = k
  /\ \A c \in h : \E k \in Keys : s.slab[k] = c
  /\ \A k \in s.dropped \cup gone : s.slab[k] \in Conns \ h
  /\ \A k \in Keys : s.slab[k] \in Conns \ h => k \in s.dropped \cup gone \/ SubPage(k) = 0

Events(s, todo, tok, arr, slp) ==
  /\ arr \subseteq Ops /\ slp \subseteq Ops
  /\ \A k \in s.completed : s.slab[k] \in arr
  /\ \A o \in slp : o \notin arr /\ tok[o] # NoKey
  /\ \A k \in Keys : s.slab[k] \in Ops \ arr => s.slab[k] \in slp \/ k \in s.notified \cup todo
  /\ \A k \in Keys : s.slab[k] \in arr => k \in s.completed \/ k \in s.notified \cup todo

Sleepers(s, todo, h, w, tm) ==
  /\ w \in [Conns -> {"unregistered", "registered", "completed"}]
  /\ tm \in [Conns -> {"none", "registered", "expired"}]
  /\ \A c \in Conns : c \notin Tasks(s) => w[c] = "unregistered" /\ tm[c] = "none"
  /\ \A k \in Keys : s.slab[k] \in h =>
        (w[s.slab[k]] = "registered" /\ tm[s.slab[k]] # "expired") \/ k \in s.notified \cup todo

Core(s, todo, gone, h, tok, arr, slp, w, tm) ==
  /\ SchedShape(s) /\ SlotsOK(s)
  /\ Flags(s, todo, gone)
  /\ Names(s, gone, h, tok)
  /\ Events(s, todo, tok, arr, slp)
  /\ Sleepers(s, todo, h, w, tm)

(* The two kinds of tasks are different, and NoTask is neither.             *)
LEMMA Distinct ==
  /\ Conns \cap Ops = {} /\ NoTask \notin Conns /\ NoTask \notin Ops
  /\ Keys \subseteq Nat /\ NoKey \notin Keys
BY RuntimeAssumption DEF Keys, NoKey, SchedulerAssumption

(* The fields of the record of the scheduler.                               *)
LEMMA ShapeOf ==
  ASSUME NEW s, SchedShape(s)
  PROVE  /\ s.slab \in [Keys -> Everyone \cup {NoTask}]
         /\ s.notified \subseteq Keys /\ s.completed \subseteq Keys /\ s.dropped \subseteq Keys
BY DEF SchedShape, Shaped

(* A task is woken. *)
LEMMA NotifyKeeps ==
  ASSUME NEW s, NEW todo, NEW gone, NEW h, NEW tok, NEW arr, NEW slp, NEW w, NEW tm,
         Core(s, todo, gone, h, tok, arr, slp, w, tm),
         NEW k \in Keys, s.slab[k] # NoTask
  PROVE  Core(Notify(s, k), todo, gone, h, tok, arr, slp, w, tm)
<1> DEFINE after == Notify(s, k)
<1>1. SchedShape(s) /\ SlotsOK(s)
  BY DEF Core
<1>2. /\ SchedShape(after) /\ after.slab = s.slab /\ after.vacant = s.vacant /\ after.fresh = s.fresh
      /\ after.notified = s.notified \cup {k} /\ after.completed = s.completed
      /\ after.dropped = s.dropped
  BY <1>1 DEF SchedShape, Shaped, Notify
<1> HIDE DEF after
<1>3. SlotsOK(after)
  BY <1>1, <1>2 DEF SlotsOK, VacantOf
<1>4. Flags(after, todo, gone)
  BY <1>2 DEF Core, Flags
<1>5. Names(after, gone, h, tok)
  BY <1>2 DEF Core, Names
<1>6. Events(after, todo, tok, arr, slp)
  BY <1>2 DEF Core, Events
<1>7. Sleepers(after, todo, h, w, tm)
  BY <1>2, TasksAre DEF Core, Sleepers
<1> QED  BY <1>2, <1>3, <1>4, <1>5, <1>6, <1>7 DEF Core, after

(* A new operation. *)
LEMMA InsertOpKeeps ==
  ASSUME NEW s, NEW todo, NEW gone, NEW h, NEW tok, NEW arr, NEW slp, NEW w, NEW tm,
         Core(s, todo, gone, h, tok, arr, slp, w, tm), HasRoom(s),
         NEW o \in Ops, tok[o] = NoKey
  PROVE  Core(Insert(s, o), todo, gone, h, [tok EXCEPT ![o] = NextKey(s)], arr, slp, w, tm)
<1> DEFINE after == Insert(s, o)
           k == NextKey(s)
           tokens == [tok EXCEPT ![o] = k]
<1>1. SchedShape(s) /\ SlotsOK(s)
  BY DEF Core
<1>2. o \notin Tasks(s)
  BY TasksAre, Distinct DEF Core, Names
<1>3. /\ k \in Keys /\ s.slab[k] = NoTask
      /\ SchedShape(after) /\ SlotsOK(after)
      /\ after.slab = [s.slab EXCEPT ![k] = o]
      /\ after.notified = s.notified \cup {k}
      /\ after.completed = s.completed \ {k} /\ after.dropped = s.dropped \ {k}
  BY <1>1, <1>2, InsertIs DEF Everyone
<1> HIDE DEF after, k
<1>4. \A i \in Keys : after.slab[i] = IF i = k THEN o ELSE s.slab[i]
  BY <1>1, <1>3, ShapeOf
<1>5. o # NoTask /\ o \notin Conns /\ k # NoKey
  BY <1>3, Distinct
<1>6. /\ tokens \in [Ops -> Keys \cup {NoKey}]
      /\ \A x \in Ops : tokens[x] = IF x = o THEN k ELSE tok[x]
  BY <1>3 DEF Core, Names
<1> HIDE DEF tokens
<1>7. \A i \in Keys : s.slab[i] # o
  BY <1>2, <1>5, TasksAre
<1>8. Flags(after, todo, gone)
  BY <1>1, <1>3, <1>4, <1>5, ShapeOf DEF Core, Flags
<1>9. Names(after, gone, h, tokens)
  <2>1. \A x \in Ops : tokens[x] # NoKey => after.slab[tokens[x]] = x
    <3> SUFFICES ASSUME NEW x \in Ops, tokens[x] # NoKey PROVE after.slab[tokens[x]] = x
      OBVIOUS
    <3>1. CASE x = o
      BY <1>3, <1>4, <1>6, <3>1
    <3>2. CASE x # o
      BY <1>3, <1>4, <1>6, <3>2, Distinct DEF Core, Names
    <3> QED  BY <3>1, <3>2
  <2>2. \A i \in Keys : after.slab[i] \in Ops => tokens[after.slab[i]] = i
    BY <1>4, <1>6, <1>7 DEF Core, Names
  <2>3. \A c \in h : \E i \in Keys : after.slab[i] = c
    BY <1>3, <1>4, Distinct DEF Core, Names
  <2>4. \A i \in after.dropped \cup gone : after.slab[i] \in Conns \ h
    BY <1>1, <1>3, <1>4, ShapeOf DEF Core, Names, Flags
  <2>5. \A i \in Keys : after.slab[i] \in Conns \ h => i \in after.dropped \cup gone \/ SubPage(i) = 0
    BY <1>3, <1>4, <1>5 DEF Core, Names
  <2> QED  BY <1>6, <2>1, <2>2, <2>3, <2>4, <2>5 DEF Core, Names
<1>10. Events(after, todo, tokens, arr, slp)
  BY <1>1, <1>3, <1>4, <1>5, <1>6, ShapeOf DEF Core, Events, Flags
<1>11. Sleepers(after, todo, h, w, tm)
  <2>1. \A c \in Conns : c \notin Tasks(after) => c \notin Tasks(s)
    <3> SUFFICES ASSUME NEW c \in Conns, c \in Tasks(s) PROVE c \in Tasks(after)
      OBVIOUS
    <3>1. PICK i \in Keys : s.slab[i] = c
      BY TasksAre
    <3>2. after.slab[i] = c /\ c # NoTask
      BY <1>3, <1>4, <3>1, Distinct
    <3> QED  BY <3>2, TasksAre
  <2>2. \A i \in Keys : after.slab[i] \in h => after.slab[i] = s.slab[i]
    BY <1>4, <1>5 DEF Core, Names
  <2> QED  BY <1>3, <2>1, <2>2 DEF Core, Sleepers
<1> QED  BY <1>3, <1>8, <1>9, <1>10, <1>11 DEF Core, after, k, tokens

(* A new connection and its coroutine. *)
LEMMA InsertConnKeeps ==
  ASSUME NEW s, NEW todo, NEW gone, NEW h, NEW tok, NEW arr, NEW slp, NEW w, NEW tm,
         Core(s, todo, gone, h, tok, arr, slp, w, tm), HasRoom(s),
         NEW c \in Conns, c \notin Tasks(s)
  PROVE  Core(Insert(s, c), todo, gone, h \cup {c}, tok, arr, slp, w, tm)
<1> DEFINE after == Insert(s, c)
           k == NextKey(s)
<1>1. SchedShape(s) /\ SlotsOK(s)
  BY DEF Core
<1>3. /\ k \in Keys /\ s.slab[k] = NoTask
      /\ SchedShape(after) /\ SlotsOK(after)
      /\ after.slab = [s.slab EXCEPT ![k] = c]
      /\ after.notified = s.notified \cup {k}
      /\ after.completed = s.completed \ {k} /\ after.dropped = s.dropped \ {k}
  BY <1>1, InsertIs DEF Everyone
<1> HIDE DEF after, k
<1>4. \A i \in Keys : after.slab[i] = IF i = k THEN c ELSE s.slab[i]
  BY <1>1, <1>3, ShapeOf
<1>5. c # NoTask /\ c \notin Ops
  BY Distinct
<1>7. \A i \in Keys : s.slab[i] # c
  BY <1>5, TasksAre
<1>8. Flags(after, todo, gone)
  BY <1>1, <1>3, <1>4, <1>5, ShapeOf DEF Core, Flags
<1>9. Names(after, gone, h \cup {c}, tok)
  <2>1. \A x \in Ops : tok[x] # NoKey => after.slab[tok[x]] = x
    BY <1>3, <1>4, Distinct DEF Core, Names
  <2>2. \A i \in Keys : after.slab[i] \in Ops => tok[after.slab[i]] = i
    BY <1>4, <1>5 DEF Core, Names
  <2>3. \A x \in h \cup {c} : \E i \in Keys : after.slab[i] = x
    BY <1>3, <1>4, Distinct DEF Core, Names
  <2>4. \A i \in after.dropped \cup gone : after.slab[i] \in Conns \ (h \cup {c})
    BY <1>1, <1>3, <1>4, <1>7, ShapeOf DEF Core, Names, Flags
  <2>5. \A i \in Keys : after.slab[i] \in Conns \ (h \cup {c})
                           => i \in after.dropped \cup gone \/ SubPage(i) = 0
    BY <1>3, <1>4, <1>5 DEF Core, Names
  <2> QED  BY <2>1, <2>2, <2>3, <2>4, <2>5 DEF Core, Names
<1>10. Events(after, todo, tok, arr, slp)
  BY <1>1, <1>3, <1>4, <1>5, ShapeOf DEF Core, Events, Flags
<1>11. Sleepers(after, todo, h \cup {c}, w, tm)
  <2>1. \A x \in Conns : x \notin Tasks(after) => x \notin Tasks(s)
    <3> SUFFICES ASSUME NEW x \in Conns, x \in Tasks(s) PROVE x \in Tasks(after)
      OBVIOUS
    <3>1. PICK i \in Keys : s.slab[i] = x
      BY TasksAre
    <3>2. after.slab[i] = x /\ x # NoTask
      BY <1>3, <1>4, <3>1, Distinct
    <3> QED  BY <3>2, TasksAre
  <2>2. \A i \in Keys : i # k /\ after.slab[i] \in h \cup {c} => after.slab[i] = s.slab[i] /\ s.slab[i] \in h
    BY <1>4, <1>7 DEF Core, Names
  <2> QED  BY <1>3, <2>1, <2>2 DEF Core, Sleepers
<1> QED  BY <1>3, <1>8, <1>9, <1>10, <1>11 DEF Core, after

(* The handle of a coroutine is dropped. *)
LEMMA DropKeeps ==
  ASSUME NEW s, NEW todo, NEW gone, NEW h, NEW tok, NEW arr, NEW slp, NEW w, NEW tm,
         Core(s, todo, gone, h, tok, arr, slp, w, tm), NEW c \in h
  PROVE  Core(MarkDropped(s, KeyOf(s, c)), todo, gone, h \ {c}, tok, arr, slp, w, tm)
<1>1. SchedShape(s) /\ SlotsOK(s)
  BY DEF Core
<1>2. PICK k \in Keys : s.slab[k] = c
  BY DEF Core, Names
<1>3. c \in Conns /\ c # NoTask /\ c \notin Ops
  BY Distinct DEF Core, Names
<1>4. KeyOf(s, c) = k
  BY <1>1, <1>2, <1>3, KeyOfIs
<1> DEFINE after == MarkDropped(s, k)
<1>5. /\ SchedShape(after) /\ after.slab = s.slab /\ after.vacant = s.vacant /\ after.fresh = s.fresh
      /\ after.notified = s.notified /\ after.completed = s.completed
      /\ after.dropped = s.dropped \cup {k}
  BY <1>1 DEF SchedShape, Shaped, MarkDropped
<1> HIDE DEF after
<1>6. SlotsOK(after)
  BY <1>1, <1>5 DEF SlotsOK, VacantOf
<1>7. Flags(after, todo, gone)
  BY <1>2, <1>3, <1>5 DEF Core, Flags
<1>8. Names(after, gone, h \ {c}, tok)
  <2>1. \A i \in Keys : s.slab[i] = c => i = k
    BY <1>1, <1>2, <1>3 DEF SlotsOK
  <2> QED  BY <1>2, <1>3, <1>5, <2>1 DEF Core, Names
<1>9. Events(after, todo, tok, arr, slp)
  BY <1>5 DEF Core, Events
<1>10. Sleepers(after, todo, h \ {c}, w, tm)
  BY <1>5, TasksAre DEF Core, Sleepers
<1> QED  BY <1>4, <1>5, <1>6, <1>7, <1>8, <1>9, <1>10 DEF Core, after

(* The value a coroutine watches changes: it is woken if it waits. *)
LEMMA ModifyKeeps ==
  ASSUME NEW s, NEW todo, NEW gone, NEW h, NEW tok, NEW arr, NEW slp, NEW w, NEW tm,
         Core(s, todo, gone, h, tok, arr, slp, w, tm), NEW c \in h
  PROVE  Core(IF w[c] = "registered" THEN Notify(s, KeyOf(s, c)) ELSE s, todo, gone, h, tok, arr, slp,
              [w EXCEPT ![c] = IF w[c] = "registered" THEN "completed" ELSE w[c]], tm)
<1>1. SchedShape(s) /\ SlotsOK(s)
  BY DEF Core
<1>2. PICK k \in Keys : s.slab[k] = c
  BY DEF Core, Names
<1>3. c \in Conns /\ c # NoTask
  BY Distinct DEF Core, Names
<1>4. KeyOf(s, c) = k
  BY <1>1, <1>2, <1>3, KeyOfIs
<1>5. CASE w[c] # "registered"
  <2>1. [w EXCEPT ![c] = w[c]] = w
    BY <1>3 DEF Core, Sleepers
  <2> QED  BY <1>5, <2>1
<1>6. CASE w[c] = "registered"
  <2> DEFINE after == Notify(s, k)
             ww == [w EXCEPT ![c] = "completed"]
  <2>1. Core(after, todo, gone, h, tok, arr, slp, w, tm)
    BY <1>2, <1>3, NotifyKeeps
  <2>2. after.slab = s.slab /\ after.notified = s.notified \cup {k}
    BY <1>1 DEF SchedShape, Shaped, Notify
  <2>3. /\ ww \in [Conns -> {"unregistered", "registered", "completed"}]
        /\ \A x \in Conns : ww[x] = IF x = c THEN "completed" ELSE w[x]
    BY DEF Core, Sleepers
  <2> HIDE DEF after, ww
  <2>4. c \in Tasks(after)
    BY <1>2, <1>3, <2>2, TasksAre
  <2>5. \A i \in Keys : after.slab[i] = c => i = k
    BY <1>1, <1>2, <1>3, <2>2 DEF SlotsOK
  <2>6. Sleepers(after, todo, h, ww, tm)
    BY <1>3, <2>1, <2>2, <2>3, <2>4, <2>5 DEF Core, Sleepers, Names
  <2> QED  BY <1>4, <1>6, <2>1, <2>6 DEF Core, after, ww
<1> QED  BY <1>5, <1>6

(* What an effect on connections does. *)
LEMMA EffectKeeps ==
  ASSUME NEW s, NEW todo, NEW gone,
         Core(s, todo, gone, held, token, arrived, asleep, watch, timer),
         \A c \in Tasks(s) : c \in Tasks(sched),
         \A c \in Conns : c \in Tasks(sched) => c \in Tasks(s),
         Effect(s)
  PROVE  Core(sched', todo, gone, held', token, arrived, asleep, watch', timer)
<1>1. ASSUME NEW c \in Conns, Unused(c), HasRoom(s), sched' = Insert(s, c),
             held' = held \cup {c}, UNCHANGED watch
      PROVE  Core(sched', todo, gone, held', token, arrived, asleep, watch', timer)
  <2>1. c \notin Tasks(s)
    BY <1>1 DEF Unused
  <2> QED  BY <1>1, <2>1, InsertConnKeeps
<1>2. ASSUME NEW c \in held, held' = held \ {c}, sched' = MarkDropped(s, KeyOf(s, c)), UNCHANGED watch
      PROVE  Core(sched', todo, gone, held', token, arrived, asleep, watch', timer)
  BY <1>2, DropKeeps
<1>3. ASSUME NEW c \in held, watch' = [watch EXCEPT ![c] = Drained(c)], sched' = Woken(s, c),
             UNCHANGED held
      PROVE  Core(sched', todo, gone, held', token, arrived, asleep, watch', timer)
  BY <1>3, ModifyKeeps DEF Drained, Woken
<1> QED  BY <1>1, <1>2, <1>3 DEF Effect

(* Scheduler::take of an operation that has completed. *)
LEMMA TakeKeeps ==
  ASSUME NEW s, NEW todo, NEW gone, NEW h, NEW tok, NEW arr, NEW slp, NEW w, NEW tm,
         Core(s, todo, gone, h, tok, arr, slp, w, tm),
         NEW o \in Ops, tok[o] # NoKey, tok[o] \in s.completed
  PROVE  Core(Take(s, tok[o]), todo, gone, h, [tok EXCEPT ![o] = NoKey], arr, slp, w, tm)
<1> DEFINE k == tok[o]
           after == Take(s, k)
           tokens == [tok EXCEPT ![o] = NoKey]
<1>1. SchedShape(s) /\ SlotsOK(s)
  BY DEF Core
<1>2. k \in Keys /\ s.slab[k] = o /\ o # NoTask /\ o \notin Conns
  BY Distinct DEF Core, Names
<1>3. SchedShape(after) /\ SlotsOK(after) /\ Emptied(s, k, after)
  BY <1>1, <1>2, EmptiedIs
<1> HIDE DEF after, k
<1>4. /\ \A i \in Keys : after.slab[i] = IF i = k THEN NoTask ELSE s.slab[i]
      /\ after.notified = s.notified \ {k} /\ after.completed = s.completed \ {k}
      /\ after.dropped = s.dropped \ {k}
  BY <1>1, <1>2, <1>3, ShapeOf DEF Emptied
<1>5. /\ tokens \in [Ops -> Keys \cup {NoKey}]
      /\ \A x \in Ops : tokens[x] = IF x = o THEN NoKey ELSE tok[x]
  BY DEF Core, Names
<1> HIDE DEF tokens
<1>6. \A i \in Keys : s.slab[i] = o => i = k
  BY <1>1, <1>2 DEF SlotsOK
<1>7. k \notin todo /\ k \notin gone /\ k \notin s.dropped
  BY <1>2 DEF Core, Flags, Names, k
<1>8. Flags(after, todo, gone)
  BY <1>1, <1>4, <1>7, ShapeOf DEF Core, Flags
<1>9. Names(after, gone, h, tokens)
  <2>1. \A x \in Ops : tokens[x] # NoKey => after.slab[tokens[x]] = x
    <3> SUFFICES ASSUME NEW x \in Ops, tokens[x] # NoKey PROVE after.slab[tokens[x]] = x
      OBVIOUS
    <3>1. x # o /\ tokens[x] = tok[x] /\ s.slab[tok[x]] = x /\ tok[x] \in Keys
      BY <1>5 DEF Core, Names
    <3> QED  BY <1>2, <1>4, <3>1
  <2>2. \A i \in Keys : after.slab[i] \in Ops => tokens[after.slab[i]] = i
    BY <1>4, <1>5, <1>6, Distinct DEF Core, Names
  <2>3. \A c \in h : \E i \in Keys : after.slab[i] = c
    <3> SUFFICES ASSUME NEW c \in h PROVE \E i \in Keys : after.slab[i] = c
      OBVIOUS
    <3>1. c \in Conns
      BY DEF Core, Names
    <3>2. PICK i \in Keys : s.slab[i] = c
      BY DEF Core, Names
    <3> QED  BY <1>2, <1>4, <3>1, <3>2
  <2>4. \A i \in after.dropped \cup gone : after.slab[i] \in Conns \ h
    BY <1>1, <1>4, <1>7, ShapeOf DEF Core, Names, Flags
  <2>5. \A i \in Keys : after.slab[i] \in Conns \ h => i \in after.dropped \cup gone \/ SubPage(i) = 0
    BY <1>4, <1>7, Distinct DEF Core, Names
  <2> QED  BY <1>5, <2>1, <2>2, <2>3, <2>4, <2>5 DEF Core, Names
<1>10. Events(after, todo, tokens, arr, slp)
  <2>1. o \in arr
    BY <1>2 DEF Core, Events, k
  <2>2. \A x \in slp : x \notin arr /\ tokens[x] # NoKey
    BY <1>5, <2>1 DEF Core, Events
  <2>3. \A i \in after.completed : after.slab[i] \in arr
    BY <1>1, <1>4, ShapeOf DEF Core, Events
  <2>4. \A i \in Keys : after.slab[i] \in Ops => i # k /\ after.slab[i] = s.slab[i]
    BY <1>4, Distinct
  <2>5. arr \subseteq Ops
    BY DEF Core, Events
  <2> QED  BY <1>4, <2>2, <2>3, <2>4, <2>5 DEF Core, Events
<1>11. Sleepers(after, todo, h, w, tm)
  <2>1. \A c \in Conns : c \notin Tasks(after) => c \notin Tasks(s)
    <3> SUFFICES ASSUME NEW c \in Conns, c \in Tasks(s) PROVE c \in Tasks(after)
      OBVIOUS
    <3>1. PICK i \in Keys : s.slab[i] = c
      BY TasksAre
    <3>2. after.slab[i] = c /\ c # NoTask
      BY <1>2, <1>4, <3>1, Distinct
    <3> QED  BY <3>2, TasksAre
  <2>2. \A i \in Keys : after.slab[i] \in h => i # k /\ after.slab[i] = s.slab[i]
    BY <1>4, Distinct DEF Core, Names
  <2> QED  BY <1>4, <2>1, <2>2 DEF Core, Sleepers
<1> QED  BY <1>3, <1>8, <1>9, <1>10, <1>11 DEF Core, after, tokens, k

(* The event of an operation happens. *)
LEMMA ArriveKeeps ==
  ASSUME NEW s, NEW todo, NEW gone, NEW h, NEW tok, NEW arr, NEW slp, NEW w, NEW tm,
         Core(s, todo, gone, h, tok, arr, slp, w, tm), NEW o \in Ops, o \notin arr
  PROVE  Core(IF o \in slp THEN Notify(s, KeyOf(s, o)) ELSE s, todo, gone, h, tok,
              arr \cup {o}, slp \ {o}, w, tm)
<1>1. SchedShape(s) /\ SlotsOK(s) /\ o # NoTask
  BY Distinct DEF Core
<1>2. CASE o \notin slp
  <2>1. Events(s, todo, tok, arr \cup {o}, slp \ {o})
    BY <1>2 DEF Core, Events
  <2> QED  BY <1>2, <2>1 DEF Core
<1>3. CASE o \in slp
  <2> DEFINE k == tok[o]
             after == Notify(s, k)
  <2>1. k \in Keys /\ s.slab[k] = o
    BY <1>3 DEF Core, Events, Names
  <2>2. KeyOf(s, o) = k
    BY <1>1, <2>1, KeyOfIs
  <2> HIDE DEF k
  <2>3. Core(after, todo, gone, h, tok, arr, slp, w, tm)
    BY <1>1, <2>1, NotifyKeeps
  <2>4. /\ after.slab = s.slab /\ after.notified = s.notified \cup {k}
    BY <1>1 DEF SchedShape, Shaped, Notify
  <2> HIDE DEF after
  <2>5. \A i \in Keys : s.slab[i] = o => i = k
    BY <1>1, <2>1 DEF SlotsOK
  <2>6. Events(after, todo, tok, arr \cup {o}, slp \ {o})
    BY <2>3, <2>4, <2>5 DEF Core, Events
  <2> QED  BY <1>3, <2>2, <2>3, <2>6 DEF Core, after
<1> QED  BY <1>2, <1>3

(* A task of the page is polled: an operation that has to wait, one that is *)
(* done, a coroutine that sleeps.                                           *)
LEMMA PendingKeeps ==
  ASSUME NEW s, NEW todo, NEW gone, NEW h, NEW tok, NEW arr, NEW slp, NEW w, NEW tm,
         Core(s, todo, gone, h, tok, arr, slp, w, tm),
         NEW k \in todo, NEW o \in Ops \ arr, s.slab[k] = o
  PROVE  Core(s, todo \ {k}, gone, h, tok, arr, slp \cup {o}, w, tm)
<1>1. SchedShape(s) /\ SlotsOK(s) /\ k \in Keys /\ o \notin Conns /\ k # NoKey
  BY Distinct DEF Core, Flags
<1>2. Flags(s, todo \ {k}, gone)
  BY DEF Core, Flags
<1>3. tok[o] = k
  BY <1>1 DEF Core, Names
<1>4. Events(s, todo \ {k}, tok, arr, slp \cup {o})
  BY <1>1, <1>3 DEF Core, Events
<1>5. Sleepers(s, todo \ {k}, h, w, tm)
  BY <1>1 DEF Core, Sleepers, Names
<1> QED  BY <1>2, <1>4, <1>5 DEF Core

(* An operation that is done.                                               *)
LEMMA DoneKeeps ==
  ASSUME NEW s, NEW todo, NEW gone, NEW h, NEW tok, NEW arr, NEW slp, NEW w, NEW tm,
         Core(s, todo, gone, h, tok, arr, slp, w, tm),
         NEW k \in todo, s.slab[k] \in arr
  PROVE  Core(MarkCompleted(s, k), todo \ {k}, gone, h, tok, arr, slp, w, tm)
<1> DEFINE after == MarkCompleted(s, k)
<1>1. SchedShape(s) /\ SlotsOK(s) /\ k \in Keys /\ s.slab[k] \notin Conns
  BY Distinct DEF Core, Flags, Events
<1>2. /\ SchedShape(after) /\ after.slab = s.slab /\ after.vacant = s.vacant /\ after.fresh = s.fresh
      /\ after.notified = s.notified /\ after.completed = s.completed \cup {k}
      /\ after.dropped = s.dropped
  BY <1>1 DEF SchedShape, Shaped, MarkCompleted
<1> HIDE DEF after
<1>3. SlotsOK(after)
  BY <1>1, <1>2 DEF SlotsOK, VacantOf
<1>4. Flags(after, todo \ {k}, gone)
  BY <1>2 DEF Core, Flags
<1>5. Names(after, gone, h, tok)
  BY <1>2 DEF Core, Names
<1>6. Events(after, todo \ {k}, tok, arr, slp)
  BY <1>1, <1>2 DEF Core, Events
<1>7. Sleepers(after, todo \ {k}, h, w, tm)
  BY <1>1, <1>2, TasksAre DEF Core, Sleepers, Names
<1> QED  BY <1>2, <1>3, <1>4, <1>5, <1>6, <1>7 DEF Core, after

(* A coroutine that sleeps on a deadline.                                   *)
LEMMA SleepKeeps ==
  ASSUME NEW s, NEW todo, NEW gone, NEW h, NEW tok, NEW arr, NEW slp, NEW w, NEW tm,
         Core(s, todo, gone, h, tok, arr, slp, w, tm),
         NEW k \in todo, NEW c \in Conns, s.slab[k] = c,
         NEW to \in {"none", "registered"}
  PROVE  Core(s, todo \ {k}, gone, h, tok, arr, slp,
              [w EXCEPT ![c] = "registered"], [tm EXCEPT ![c] = to])
<1> DEFINE ww == [w EXCEPT ![c] = "registered"]
           tt == [tm EXCEPT ![c] = to]
<1>1. SchedShape(s) /\ SlotsOK(s) /\ k \in Keys /\ c \notin Ops /\ c # NoTask
  BY Distinct DEF Core, Flags
<1>2. /\ ww \in [Conns -> {"unregistered", "registered", "completed"}]
      /\ tt \in [Conns -> {"none", "registered", "expired"}]
      /\ \A x \in Conns : x # c => ww[x] = w[x] /\ tt[x] = tm[x]
      /\ ww[c] = "registered" /\ tt[c] = to
  BY DEF Core, Sleepers
<1> HIDE DEF ww, tt
<1>3. Flags(s, todo \ {k}, gone)
  BY DEF Core, Flags
<1>4. Events(s, todo \ {k}, tok, arr, slp)
  BY <1>1 DEF Core, Events
<1>5. Sleepers(s, todo \ {k}, h, ww, tt)
  <2>1. c \in Tasks(s)
    BY <1>1, TasksAre
  <2>2. \A i \in Keys : s.slab[i] \in h =>
          (ww[s.slab[i]] = "registered" /\ tt[s.slab[i]] # "expired") \/ i \in s.notified \cup (todo \ {k})
    <3> SUFFICES ASSUME NEW i \in Keys, s.slab[i] \in h
                 PROVE  (ww[s.slab[i]] = "registered" /\ tt[s.slab[i]] # "expired")
                          \/ i \in s.notified \cup (todo \ {k})
      OBVIOUS
    <3>1. CASE i = k
      BY <1>2, <3>1
    <3>2. CASE i # k
      <4>1. s.slab[i] # c /\ s.slab[i] \in Conns
        BY <1>1, <3>2 DEF SlotsOK, Core, Names
      <4> QED  BY <1>2, <3>2, <4>1 DEF Core, Sleepers
    <3> QED  BY <3>1, <3>2
  <2> QED  BY <1>2, <2>1, <2>2 DEF Core, Sleepers
<1> QED  BY <1>3, <1>4, <1>5 DEF Core, ww, tt

(* The flags of a page are taken. *)
LEMMA OpenKeeps ==
  ASSUME NEW s, NEW h, NEW tok, NEW arr, NEW slp, NEW w, NEW tm,
         Core(s, {}, {}, h, tok, arr, slp, w, tm), NEW p
  PROVE  Core(TakeFlags(s, p), TakenNotified(s, p), TakenDropped(s, p), h, tok, arr, slp, w, tm)
<1> DEFINE after == TakeFlags(s, p)
           todo == TakenNotified(s, p)
           gone == TakenDropped(s, p)
           P == PageKeys(p)
<1>1. SchedShape(s) /\ SlotsOK(s)
  BY DEF Core
<1>2. /\ SchedShape(after) /\ after.slab = s.slab /\ after.vacant = s.vacant /\ after.fresh = s.fresh
      /\ after.notified = s.notified \ P /\ after.completed = s.completed
      /\ after.dropped = s.dropped \ P
  BY <1>1 DEF SchedShape, Shaped, TakeFlags
<1>3. todo = ((s.notified \cap P) \ s.completed) \ s.dropped /\ gone = s.dropped \cap P
  BY DEF TakenNotified, TakenDropped
<1> HIDE DEF after, todo, gone, P
<1>4. SlotsOK(after)
  BY <1>1, <1>2 DEF SlotsOK, VacantOf
<1>5. Flags(after, todo, gone)
  BY <1>1, <1>2, <1>3, ShapeOf DEF Core, Flags
<1>6. Names(after, gone, h, tok)
  BY <1>2, <1>3 DEF Core, Names
<1>7. Events(after, todo, tok, arr, slp)
  <2>1. \A k \in Keys : s.slab[k] \in Ops => k \notin s.dropped
    BY Distinct DEF Core, Names
  <2>2. arr \subseteq Ops
    BY DEF Core, Events
  <2>3. \A k \in Keys : s.slab[k] \in Ops \ arr => s.slab[k] \in slp \/ k \in after.notified \cup todo
    BY <1>2, <1>3, <2>1 DEF Core, Events
  <2>4. \A k \in Keys : s.slab[k] \in arr => k \in s.completed \/ k \in after.notified \cup todo
    BY <1>2, <1>3, <2>1, <2>2 DEF Core, Events
  <2> QED  BY <1>2, <2>3, <2>4 DEF Core, Events
<1>8. Sleepers(after, todo, h, w, tm)
  <2>1. \A k \in Keys : s.slab[k] \in h => k \notin s.dropped /\ k \notin s.completed
    BY Distinct DEF Core, Names, Events
  <2> QED  BY <1>2, <1>3, <2>1, TasksAre DEF Core, Sleepers
<1> QED  BY <1>2, <1>4, <1>5, <1>6, <1>7, <1>8 DEF Core, after, todo, gone

(* The dropped coroutines of a page go, and what they slept on. *)
LEMMA FreeKeeps ==
  ASSUME NEW s, NEW gone, NEW p, NEW h, NEW tok, NEW arr, NEW slp, NEW w, NEW tm, NEW dead,
         Core(s, {}, gone, h, tok, arr, slp, w, tm), gone \subseteq PageKeys(p),
         dead = {s.slab[k] : k \in Freed(gone)} \cap Conns,
         NEW ww, ww = [c \in Conns |-> IF c \in dead THEN "unregistered" ELSE w[c]],
         NEW tt, tt = [c \in Conns |-> IF c \in dead THEN "none" ELSE tm[c]]
  PROVE  /\ Core(FreeDropped(s, gone), {}, {}, h, tok, arr, slp, ww, tt)
         /\ dead \cap h = {}
<1> DEFINE after == FreeDropped(s, gone)
           G == Freed(gone)
<1>1. SchedShape(s) /\ SlotsOK(s)
  BY DEF Core
<1>2. gone \in SUBSET PageKeys(p) /\ gone \subseteq Occupied(s) /\ gone \subseteq Keys
  BY DEF Core, Flags, Occupied
<1>3. FreedIs(s, G, after)
  BY <1>1, <1>2, FreeDroppedIs
<1> HIDE DEF after
<1>4. /\ SchedShape(after) /\ SlotsOK(after)
      /\ \A k \in Keys : after.slab[k] = IF k \in G THEN NoTask ELSE s.slab[k]
      /\ after.notified = s.notified \ G
      /\ after.completed = s.completed \ G /\ after.dropped = s.dropped \ G
  BY <1>3 DEF FreedIs, AreFreed, SchedShape
<1>5. G \subseteq gone /\ \A k \in gone : k \notin G => SubPage(k) = 0
  BY DEF Freed
<1>6. \A k \in gone : s.slab[k] \in Conns \ h
  BY DEF Core, Names
<1> HIDE DEF G
<1>7. /\ \A k \in G : s.slab[k] \in dead
      /\ \A c \in dead : c \in Conns /\ \E k \in G : s.slab[k] = c
  BY <1>5, <1>6 DEF G
<1>8. dead \cap h = {}
  BY <1>5, <1>6, <1>7
<1>9. Flags(after, {}, {})
  BY <1>1, <1>4, ShapeOf DEF Core, Flags
<1>10. Names(after, {}, h, tok)
  <2>1. \A o \in Ops : tok[o] # NoKey => after.slab[tok[o]] = o
    <3> SUFFICES ASSUME NEW o \in Ops, tok[o] # NoKey PROVE after.slab[tok[o]] = o
      OBVIOUS
    <3>1. tok[o] \in Keys /\ s.slab[tok[o]] = o
      BY DEF Core, Names
    <3>2. tok[o] \notin G
      BY <1>5, <1>6, <3>1, Distinct
    <3> QED  BY <1>4, <3>1, <3>2
  <2>2. \A k \in Keys : after.slab[k] \in Ops => tok[after.slab[k]] = k
    BY <1>4, Distinct DEF Core, Names
  <2>3. \A c \in h : \E k \in Keys : after.slab[k] = c
    <3> SUFFICES ASSUME NEW c \in h PROVE \E k \in Keys : after.slab[k] = c
      OBVIOUS
    <3>1. PICK k \in Keys : s.slab[k] = c
      BY DEF Core, Names
    <3>2. k \notin G
      BY <1>5, <1>6, <3>1
    <3> QED  BY <1>4, <3>1, <3>2
  <2>4. \A k \in after.dropped : after.slab[k] \in Conns \ h
    BY <1>1, <1>4, ShapeOf DEF Core, Names
  <2>5. \A k \in Keys : after.slab[k] \in Conns \ h => k \in after.dropped \/ SubPage(k) = 0
    BY <1>4, <1>5, Distinct DEF Core, Names
  <2> QED  BY <2>1, <2>2, <2>3, <2>4, <2>5 DEF Core, Names
<1>11. Events(after, {}, tok, arr, slp)
  <2>1. arr \subseteq Ops
    BY DEF Core, Events
  <2>2. \A k \in Keys : after.slab[k] \in Ops => after.slab[k] = s.slab[k] /\ k \notin G
    BY <1>4, Distinct
  <2>3. \A k \in after.completed : after.slab[k] \in arr
    BY <1>1, <1>4, ShapeOf DEF Core, Events
  <2> QED  BY <1>4, <2>1, <2>2, <2>3 DEF Core, Events
<1>12. Sleepers(after, {}, h, ww, tt)
  <2>1. /\ ww \in [Conns -> {"unregistered", "registered", "completed"}]
        /\ tt \in [Conns -> {"none", "registered", "expired"}]
    BY DEF Core, Sleepers
  <2>2. \A c \in Conns : /\ c \in dead => ww[c] = "unregistered" /\ tt[c] = "none"
                         /\ c \notin dead => ww[c] = w[c] /\ tt[c] = tm[c]
    OBVIOUS
  <2>3. \A c \in Conns : c \notin Tasks(after) => c \in dead \/ c \notin Tasks(s)
    <3> SUFFICES ASSUME NEW c \in Conns, c \notin dead, c \in Tasks(s) PROVE c \in Tasks(after)
      OBVIOUS
    <3>1. PICK k \in Keys : s.slab[k] = c
      BY TasksAre
    <3>2. after.slab[k] = c /\ c # NoTask
      BY <1>4, <1>7, <3>1, Distinct
    <3> QED  BY <3>2, TasksAre
  <2>4. \A k \in Keys : after.slab[k] \in h => after.slab[k] = s.slab[k] /\ k \notin G
    BY <1>4, Distinct DEF Core, Names
  <2>5. \A k \in Keys : after.slab[k] \in h =>
          (ww[after.slab[k]] = "registered" /\ tt[after.slab[k]] # "expired") \/ k \in after.notified
    <3> SUFFICES ASSUME NEW k \in Keys, after.slab[k] \in h
                 PROVE  (ww[after.slab[k]] = "registered" /\ tt[after.slab[k]] # "expired")
                          \/ k \in after.notified
      OBVIOUS
    <3>1. after.slab[k] \in Conns /\ after.slab[k] \notin dead /\ after.slab[k] = s.slab[k] /\ k \notin G
      BY <1>8, <2>4 DEF Core, Names
    <3> QED  BY <1>4, <2>2, <3>1 DEF Core, Sleepers
  <2> QED  BY <2>1, <2>2, <2>3, <2>5 DEF Core, Sleepers
<1> QED  BY <1>4, <1>8, <1>9, <1>10, <1>11, <1>12 DEF Core, after

(* Timers expire. *)
LEMMA ClockKeeps ==
  ASSUME NEW s, NEW todo, NEW gone, NEW h, NEW tok, NEW arr, NEW slp, NEW w, NEW tm, NEW fired, NEW after,
         Core(s, todo, gone, h, tok, arr, slp, w, tm),
         fired \subseteq {c \in Conns : tm[c] = "registered"},
         after = [s EXCEPT !.notified = @ \cup {KeyOf(s, c) : c \in fired}]
  PROVE  Core(after, todo, gone, h, tok, arr, slp, w,
              [c \in Conns |-> IF c \in fired THEN "expired" ELSE tm[c]])
<1> DEFINE tt == [c \in Conns |-> IF c \in fired THEN "expired" ELSE tm[c]]
           fire == {KeyOf(s, c) : c \in fired}
<1>1. SchedShape(s) /\ SlotsOK(s)
  BY DEF Core
<1>2. ASSUME NEW c \in fired PROVE KeyOf(s, c) \in Keys /\ s.slab[KeyOf(s, c)] = c
  <2>1. c \in Conns /\ c \in Tasks(s)
    BY DEF Core, Sleepers
  <2>2. PICK k \in Keys : s.slab[k] = c /\ c # NoTask
    BY <2>1, TasksAre
  <2> QED  BY <1>1, <2>2, KeyOfIs
<1>3. /\ fire \subseteq Keys
      /\ \A k \in fire : s.slab[k] \in fired
      /\ \A k \in Keys : s.slab[k] \in fired => k \in fire
  <2>1. ASSUME NEW k \in Keys, s.slab[k] \in fired PROVE k \in fire
    <3>1. s.slab[k] # NoTask
      BY <2>1, Distinct
    <3>2. KeyOf(s, s.slab[k]) = k
      BY <1>1, <3>1, KeyOfIs
    <3> QED  BY <2>1, <3>2
  <2> QED  BY <1>2, <2>1
<1> HIDE DEF fire
<1>4. /\ SchedShape(after) /\ after.slab = s.slab /\ after.vacant = s.vacant /\ after.fresh = s.fresh
      /\ after.notified = s.notified \cup fire /\ after.completed = s.completed
      /\ after.dropped = s.dropped
  <2>1. after = [s EXCEPT !.notified = @ \cup fire]
    BY DEF fire
  <2> QED  BY <1>1, <1>3, <2>1 DEF SchedShape, Shaped
<1>5. /\ tt \in [Conns -> {"none", "registered", "expired"}]
      /\ \A c \in Conns : tt[c] = IF c \in fired THEN "expired" ELSE tm[c]
  BY DEF Core, Sleepers
<1> HIDE DEF tt
<1>6. SlotsOK(after)
  BY <1>1, <1>4 DEF SlotsOK, VacantOf
<1>7. Flags(after, todo, gone)
  BY <1>3, <1>4, Distinct DEF Core, Flags
<1>8. Names(after, gone, h, tok)
  BY <1>4 DEF Core, Names
<1>9. Events(after, todo, tok, arr, slp)
  BY <1>4 DEF Core, Events
<1>10. Sleepers(after, todo, h, w, tt)
  <2>1. \A c \in Conns : c \notin Tasks(after) => c \notin Tasks(s)
    <3> SUFFICES ASSUME NEW c \in Conns, c \in Tasks(s) PROVE c \in Tasks(after)
      OBVIOUS
    <3>1. PICK i \in Keys : s.slab[i] = c /\ c # NoTask
      BY TasksAre
    <3>2. after.slab[i] = c
      BY <1>4, <3>1
    <3> QED  BY <3>1, <3>2, TasksAre
  <2>2. \A c \in Conns : c \notin Tasks(after) => w[c] = "unregistered" /\ tt[c] = "none"
    BY <1>5, <2>1 DEF Core, Sleepers
  <2>3. \A k \in Keys : after.slab[k] \in h =>
          (w[after.slab[k]] = "registered" /\ tt[after.slab[k]] # "expired") \/ k \in after.notified \cup todo
    BY <1>3, <1>4, <1>5 DEF Core, Sleepers, Names
  <2> QED  BY <1>5, <2>2, <2>3 DEF Core, Sleepers
<1> QED  BY <1>4, <1>6, <1>7, <1>8, <1>9, <1>10 DEF Core, tt
-----------------------------------------------------------------------------
(* The invariant of the event loop. *)

PassOK ==
  /\ phase \in {"app", "receive", "poll", "clock"}
  /\ phase # "poll" => pass = Idle
  /\ pass = [page |-> pass.page, last |-> pass.last, todo |-> pass.todo, gone |-> pass.gone]
  /\ pass.todo \cup pass.gone \subseteq PageKeys(pass.page)

Shape ==
  /\ now \in 0..MaxTime /\ expiry \in [Conns -> Times]
  /\ deadline \in [Conns -> Times \cup {NoTime}]
  /\ collected \subseteq Ops

CoreHolds == Core(sched, pass.todo, pass.gone, held, token, arrived, asleep, watch, timer)

Registered == {c \in Conns : timer[c] = "registered"}

QueueHolds ==
  /\ Holds(Conns, expiry, heap, Registered)
  /\ phase = "app" => \A c \in Registered : now < expiry[c]

IInv == PassOK /\ Shape /\ CoreHolds /\ QueueHolds /\ SleepsOnDeadline

(* Times are numbers.                                                       *)
LEMMA TimesAreInts ==
  /\ Times \subseteq Int /\ 0 \in Times /\ 0 \in 0..MaxTime /\ MaxTime \in Nat /\ Rto \in Nat \ {0}
  /\ NoTime \notin Times
  /\ \A d \in Int : 0 <= d /\ d <= MaxTime + Rto => d \in Times
BY RuntimeAssumption DEF Times

(* At the start nobody runs and nothing is awaited.                         *)
LEMMA InitIInv == Init => IInv
<1> SUFFICES ASSUME Init PROVE IInv
  OBVIOUS
<1>1. /\ phase = "app" /\ sched = EmptyScheduler /\ pass = Idle /\ now = 0
      /\ heap = EmptyHeap(Conns) /\ expiry = [c \in Conns |-> 0]
      /\ timer = [c \in Conns |-> "none"] /\ deadline = [c \in Conns |-> NoTime]
      /\ watch = [c \in Conns |-> "unregistered"] /\ held = {} /\ calls = 0
      /\ arrived = {} /\ asleep = {} /\ token = [o \in Ops |-> NoKey] /\ collected = {}
  BY DEF Init
<1>2. PassOK
  BY <1>1 DEF PassOK, Idle
<1>3. Shape
  BY <1>1, TimesAreInts DEF Shape
<1>4. /\ sched.slab = [k \in Keys |-> NoTask] /\ sched.vacant = <<>> /\ sched.fresh = 0
      /\ sched.notified = {} /\ sched.completed = {} /\ sched.dropped = {}
      /\ sched = [slab |-> sched.slab, vacant |-> sched.vacant, fresh |-> sched.fresh,
                  notified |-> sched.notified, completed |-> sched.completed,
                  dropped |-> sched.dropped]
  BY <1>1 DEF EmptyScheduler
<1>5. pass.todo = {} /\ pass.gone = {}
  BY <1>1 DEF Idle
<1>6. MaxKeys \in Nat /\ Keys \subseteq Nat
  BY RuntimeAssumption, Distinct DEF SchedulerAssumption
<1>7. SchedShape(sched)
  <2>1. sched.slab \in [Keys -> Everyone \cup {NoTask}] /\ sched.vacant \in Seq(Keys)
        /\ sched.fresh \in 0..MaxKeys
    BY <1>4, <1>6
  <2> QED  BY <1>4, <2>1 DEF SchedShape, Shaped
<1>8. SlotsOK(sched)
  BY <1>4, <1>6 DEF SlotsOK, VacantOf
<1>9. Flags(sched, pass.todo, pass.gone)
  BY <1>4, <1>5 DEF Flags
<1>10. Names(sched, pass.gone, held, token)
  BY <1>1, <1>4, <1>5, Distinct DEF Names
<1>11. Events(sched, pass.todo, token, arrived, asleep)
  BY <1>1, <1>4, <1>5, Distinct DEF Events
<1>12. Sleepers(sched, pass.todo, held, watch, timer)
  BY <1>1, <1>4, <1>5 DEF Sleepers
<1>13. CoreHolds
  BY <1>7, <1>8, <1>9, <1>10, <1>11, <1>12 DEF CoreHolds, Core
<1>14. Registered = {}
  BY <1>1 DEF Registered
<1>15. QueueHolds
  BY <1>1, <1>14, EmptyHolds DEF QueueHolds
<1>16. SleepsOnDeadline
  BY <1>1 DEF SleepsOnDeadline
<1> QED  BY <1>2, <1>3, <1>13, <1>15, <1>16 DEF IInv

(* The last bit of the page that is looked at is the least. *)
LEMMA NextBitIs ==
  ASSUME pass.todo \subseteq Keys, pass.todo # {}
  PROVE  NextBit \in pass.todo
<1>1. pass.todo \in SUBSET Nat
  BY Distinct
<1>2. \E k \in pass.todo : \A j \in pass.todo : k <= j
  BY <1>1, LeastNumber
<1> QED  BY <1>2 DEF NextBit

(* The application starts an operation (pop: scheduler.insert).             *)
LEMMA SubmitStep ==
  ASSUME IInv, NEW o \in Ops, Submit(o)
  PROVE  IInv'
<1>1. /\ token[o] = NoKey /\ HasRoom(sched)
      /\ token' = [token EXCEPT ![o] = NextKey(sched)]
      /\ sched' = Insert(sched, o)
      /\ UNCHANGED <<phase, pass, now, heap, expiry, timer, deadline, watch, held, calls,
                     arrived, asleep, collected>>
  BY DEF Submit, timerVars, connVars
<1>2. CoreHolds'
  BY <1>1, InsertOpKeeps DEF IInv, CoreHolds
<1>3. PassOK' /\ Shape' /\ QueueHolds' /\ SleepsOnDeadline'
  BY <1>1 DEF IInv, PassOK, Shape, QueueHolds, Registered, SleepsOnDeadline
<1> QED  BY <1>2, <1>3 DEF IInv

(* The application collects the result of an operation (wait:               *)
(* Scheduler::take).                                                        *)
LEMMA CollectStep ==
  ASSUME IInv, NEW o \in Ops, Collect(o)
  PROVE  IInv'
<1>1. /\ token[o] # NoKey /\ token[o] \in sched.completed
      /\ sched' = Take(sched, token[o])
      /\ token' = [token EXCEPT ![o] = NoKey]
      /\ collected' = collected \cup {o}
      /\ UNCHANGED <<phase, pass, now, heap, expiry, timer, deadline, watch, held, calls,
                     arrived, asleep>>
  BY DEF Collect, timerVars, connVars
<1>2. CoreHolds'
  BY <1>1, TakeKeeps DEF IInv, CoreHolds
<1>3. PassOK' /\ Shape' /\ QueueHolds' /\ SleepsOnDeadline'
  BY <1>1 DEF IInv, PassOK, Shape, QueueHolds, Registered, SleepsOnDeadline
<1> QED  BY <1>2, <1>3 DEF IInv

(* A packet brings the event of an operation.                               *)
LEMMA ArriveStep ==
  ASSUME IInv, NEW o \in Ops, Arrive(o)
  PROVE  IInv'
<1>1. /\ o \notin arrived /\ arrived' = arrived \cup {o} /\ asleep' = asleep \ {o}
      /\ sched' = IF o \in asleep THEN Notify(sched, KeyOf(sched, o)) ELSE sched
      /\ UNCHANGED <<phase, pass, now, heap, expiry, timer, deadline, watch, held, calls,
                     token, collected>>
  BY DEF Arrive, timerVars, connVars
<1>2. CoreHolds'
  BY <1>1, ArriveKeeps DEF IInv, CoreHolds
<1>3. PassOK' /\ Shape' /\ QueueHolds' /\ SleepsOnDeadline'
  BY <1>1 DEF IInv, PassOK, Shape, QueueHolds, Registered, SleepsOnDeadline
<1> QED  BY <1>2, <1>3 DEF IInv

(* An effect touches the timers of nobody: it tells the coroutine to look. *)
LEMMA EffectAside ==
  ASSUME NEW s, IInv, Effect(s), UNCHANGED <<now, heap, expiry, timer>>,
         \A c \in Conns : c \in Tasks(sched) <=> c \in Tasks(s),
         collected' = collected
  PROVE  Shape' /\ SleepsOnDeadline'
<1>1. /\ deadline \in [Conns -> Times \cup {NoTime}]
      /\ held \subseteq Conns /\ \A c \in Conns : c \notin Tasks(sched) => watch[c] = "unregistered"
      /\ watch \in [Conns -> {"unregistered", "registered", "completed"}]
      /\ now \in 0..MaxTime
  BY DEF IInv, Shape, CoreHolds, Core, Sleepers, Names
<1>2. ASSUME NEW c \in Conns, Unused(c), held' = held \cup {c},
             deadline' = [deadline EXCEPT ![c] = NoTime], UNCHANGED watch
      PROVE  Shape' /\ SleepsOnDeadline'
  <2>1. watch[c] = "unregistered"
    BY <1>1, <1>2 DEF Unused
  <2>2. deadline' \in [Conns -> Times \cup {NoTime}]
    BY <1>1, <1>2
  <2>3. \A x \in Conns : x # c => deadline'[x] = deadline[x]
    BY <1>1, <1>2
  <2>4. SleepsOnDeadline'
    BY <1>1, <1>2, <2>1, <2>3 DEF IInv, SleepsOnDeadline
  <2> QED  BY <2>2, <2>4 DEF IInv, Shape
<1>3. ASSUME NEW c \in held, held' = held \ {c}, UNCHANGED <<deadline, watch>>
      PROVE  Shape' /\ SleepsOnDeadline'
  BY <1>3 DEF IInv, Shape, SleepsOnDeadline
<1>4. ASSUME NEW c \in held, NEW d \in {NoTime} \cup (now + 1)..MaxTime,
             deadline' = [deadline EXCEPT ![c] = d], watch' = [watch EXCEPT ![c] = Drained(c)],
             UNCHANGED held
      PROVE  Shape' /\ SleepsOnDeadline'
  <2>1. d \in Times \cup {NoTime}
    BY <1>1, TimesAreInts
  <2>2. watch'[c] # "registered" /\ \A x \in Conns : x # c => watch'[x] = watch[x]
    BY <1>1, <1>4 DEF Drained
  <2>3. deadline' \in [Conns -> Times \cup {NoTime}] /\ \A x \in Conns : x # c => deadline'[x] = deadline[x]
    BY <1>1, <1>4, <2>1
  <2>4. SleepsOnDeadline'
    BY <1>1, <1>4, <2>2, <2>3 DEF IInv, SleepsOnDeadline
  <2> QED  BY <2>3, <2>4 DEF IInv, Shape
<1> QED  BY <1>2, <1>3, <1>4 DEF Effect

(* The application or the engine acts on a connection.                      *)
LEMMA CallStep ==
  ASSUME IInv, AppCall \/ ReceiveForConn
  PROVE  IInv'
<1>1. /\ Effect(sched)
      /\ UNCHANGED <<phase, pass, now, heap, expiry, timer, arrived, asleep, token, collected>>
  BY DEF AppCall, ReceiveForConn, timerVars, opVars
<1>2. Core(sched', pass.todo, pass.gone, held', token, arrived, asleep, watch', timer)
  BY <1>1, EffectKeeps DEF IInv, CoreHolds
<1>3. CoreHolds'
  BY <1>1, <1>2 DEF CoreHolds
<1>4. Shape' /\ SleepsOnDeadline'
  BY <1>1, EffectAside
<1>5. PassOK' /\ QueueHolds'
  BY <1>1 DEF IInv, PassOK, QueueHolds, Registered
<1> QED  BY <1>3, <1>4, <1>5 DEF IInv

(* poll_bg_work starts.                                                     *)
LEMMA PollBgWorkStep ==
  ASSUME IInv, PollBgWork
  PROVE  IInv'
<1>1. /\ phase' = "receive" /\ phase = "app"
      /\ UNCHANGED <<sched, pass, now, heap, expiry, timer, deadline, watch, held, calls,
                     arrived, asleep, token, collected>>
  BY DEF PollBgWork, schedVars, timerVars, connVars, opVars
<1>2. CoreHolds'
  BY <1>1 DEF IInv, CoreHolds
<1>3. PassOK' /\ Shape' /\ QueueHolds' /\ SleepsOnDeadline'
  BY <1>1 DEF IInv, PassOK, Shape, QueueHolds, Registered, SleepsOnDeadline
<1> QED  BY <1>2, <1>3 DEF IInv

(* Scheduler::poll starts, or goes on with the next page.                   *)
LEMMA PollBeginStep ==
  ASSUME IInv, PollBegin
  PROVE  IInv'
<1>1. /\ phase = "receive"
      /\ UNCHANGED <<now, heap, expiry, timer, deadline, watch, held, calls,
                     arrived, asleep, token, collected>>
  BY DEF PollBegin, timerVars, connVars, opVars
<1>2. pass = Idle /\ pass.todo = {} /\ pass.gone = {}
  BY <1>1 DEF IInv, PassOK, Idle
<1>3. CASE phase' = "clock" /\ UNCHANGED <<sched, pass>>
  <2>1. CoreHolds'
    BY <1>1, <1>3 DEF IInv, CoreHolds
  <2>2. PassOK' /\ Shape' /\ QueueHolds' /\ SleepsOnDeadline'
    BY <1>1, <1>2, <1>3 DEF IInv, PassOK, Shape, QueueHolds, Registered, SleepsOnDeadline
  <2> QED  BY <2>1, <2>2 DEF IInv
<1>4. CASE /\ phase' = "poll" /\ pass' = Open(0, Pages(sched) - 1) /\ sched' = TakeFlags(sched, 0)
  <2>1. /\ pass'.page = 0 /\ pass'.todo = TakenNotified(sched, 0) /\ pass'.gone = TakenDropped(sched, 0)
    BY <1>4 DEF Open
  <2>2. Core(TakeFlags(sched, 0), TakenNotified(sched, 0), TakenDropped(sched, 0), held, token,
             arrived, asleep, watch, timer)
    BY <1>2, OpenKeeps DEF IInv, CoreHolds
  <2>3. CoreHolds'
    BY <1>1, <1>4, <2>1, <2>2 DEF CoreHolds
  <2>4. PassOK'
    <3>1. pass' = [page |-> pass'.page, last |-> pass'.last, todo |-> pass'.todo, gone |-> pass'.gone]
      BY <1>4 DEF Open
    <3>2. pass'.todo \cup pass'.gone \subseteq PageKeys(0)
      BY <2>1 DEF TakenNotified, TakenDropped
    <3> QED  BY <1>4, <2>1, <3>1, <3>2 DEF PassOK
  <2>5. Shape' /\ QueueHolds' /\ SleepsOnDeadline'
    BY <1>1, <1>4 DEF IInv, Shape, QueueHolds, Registered, SleepsOnDeadline
  <2> QED  BY <2>3, <2>4, <2>5 DEF IInv
<1> QED  BY <1>3, <1>4 DEF PollBegin

(* What a poll of one task leaves of the page. *)
LEMMA PollingIs ==
  ASSUME IInv, NEW t, Polling(t)
  PROVE  /\ NextBit \in pass.todo /\ NextBit \in Keys /\ sched.slab[NextBit] = t
         /\ pass'.todo = pass.todo \ {NextBit} /\ pass'.gone = pass.gone
         /\ phase = "poll"
         /\ phase' = phase => PassOK'
<1>1. /\ phase = "poll" /\ pass.todo # {} /\ sched.slab[NextBit] = t
      /\ pass' = [pass EXCEPT !.todo = @ \ {NextBit}]
  BY DEF Polling
<1>2. pass.todo \subseteq Keys
  BY DEF IInv, CoreHolds, Core, Flags
<1>3. NextBit \in pass.todo /\ NextBit \in Keys
  BY <1>1, <1>2, NextBitIs
<1>4. pass = [page |-> pass.page, last |-> pass.last, todo |-> pass.todo, gone |-> pass.gone]
  BY DEF IInv, PassOK
<1> DEFINE k == NextBit
<1> HIDE DEF k
<1>5. pass' = [pass EXCEPT !.todo = @ \ {k}]
  BY <1>1 DEF k
<1>6. /\ pass'.todo = pass.todo \ {k} /\ pass'.gone = pass.gone /\ pass'.page = pass.page
      /\ pass' = [page |-> pass'.page, last |-> pass'.last, todo |-> pass'.todo, gone |-> pass'.gone]
  <2>1. PICK p, l, t0, g : pass = [page |-> p, last |-> l, todo |-> t0, gone |-> g]
    BY <1>4
  <2>2. pass' = [page |-> p, last |-> l, todo |-> t0 \ {k}, gone |-> g]
    BY <1>5, <2>1
  <2> QED  BY <2>1, <2>2
<1>7. phase' = phase => PassOK'
  BY <1>1, <1>6 DEF IInv, PassOK
<1> QED  BY <1>1, <1>3, <1>6, <1>7 DEF k

(* An operation is polled and has to wait.                                  *)
LEMMA PollPendingStep ==
  ASSUME IInv, NEW o \in Ops, PollPending(o)
  PROVE  IInv'
<1>1. /\ Polling(o) /\ o \notin arrived /\ asleep' = asleep \cup {o}
      /\ UNCHANGED <<phase, sched, now, heap, expiry, timer, deadline, watch, held, calls,
                     arrived, token, collected>>
  BY DEF PollPending, timerVars, connVars
<1>2. /\ NextBit \in pass.todo /\ sched.slab[NextBit] = o
      /\ pass'.todo = pass.todo \ {NextBit} /\ pass'.gone = pass.gone /\ phase = "poll" /\ PassOK'
  BY <1>1, PollingIs
<1>3. Core(sched, pass.todo \ {NextBit}, pass.gone, held, token, arrived, asleep \cup {o}, watch, timer)
  BY <1>1, <1>2, PendingKeeps DEF IInv, CoreHolds
<1>4. CoreHolds'
  BY <1>1, <1>2, <1>3 DEF CoreHolds
<1>5. Shape' /\ QueueHolds' /\ SleepsOnDeadline'
  BY <1>1 DEF IInv, Shape, QueueHolds, Registered, SleepsOnDeadline
<1> QED  BY <1>2, <1>4, <1>5 DEF IInv

(* An operation is polled and is done.                                      *)
LEMMA PollReadyStep ==
  ASSUME IInv, NEW o \in Ops, PollReady(o)
  PROVE  IInv'
<1> DEFINE done == MarkCompleted(sched, NextBit)
<1>1. /\ Polling(o) /\ o \in arrived
      /\ (sched' = done /\ UNCHANGED connVars) \/ Effect(done)
      /\ UNCHANGED <<phase, now, heap, expiry, timer, arrived, asleep, token, collected>>
  BY DEF PollReady, timerVars, opVars
<1>2. /\ NextBit \in pass.todo /\ sched.slab[NextBit] = o
      /\ pass'.todo = pass.todo \ {NextBit} /\ pass'.gone = pass.gone /\ phase = "poll" /\ PassOK'
  BY <1>1, PollingIs
<1>3. Core(done, pass'.todo, pass'.gone, held, token, arrived, asleep, watch, timer)
  BY <1>1, <1>2, DoneKeeps DEF IInv, CoreHolds
<1>4. \A t : t \in Tasks(sched) <=> t \in Tasks(done)
  <2>1. SchedShape(sched)
    BY DEF IInv, CoreHolds, Core
  <2>2. done.slab = sched.slab
    BY <2>1 DEF SchedShape, Shaped, MarkCompleted
  <2> QED  BY <2>2 DEF Tasks, Occupied
<1> HIDE DEF done
<1>5. CASE sched' = done /\ UNCHANGED connVars
  <2>1. UNCHANGED <<deadline, watch, held, calls>>
    BY <1>5 DEF connVars
  <2>2. CoreHolds'
    BY <1>1, <1>3, <1>5, <2>1 DEF CoreHolds
  <2>3. Shape' /\ QueueHolds' /\ SleepsOnDeadline'
    BY <1>1, <2>1 DEF IInv, Shape, QueueHolds, Registered, SleepsOnDeadline
  <2> QED  BY <1>2, <2>2, <2>3 DEF IInv
<1>6. CASE Effect(done)
  <2>1. Core(sched', pass'.todo, pass'.gone, held', token, arrived, asleep, watch', timer)
    BY <1>3, <1>4, <1>6, EffectKeeps
  <2>2. CoreHolds'
    BY <1>1, <2>1 DEF CoreHolds
  <2>3. Shape' /\ SleepsOnDeadline'
    BY <1>1, <1>4, <1>6, EffectAside
  <2>4. QueueHolds'
    BY <1>1 DEF IInv, QueueHolds, Registered
  <2> QED  BY <1>2, <2>2, <2>3, <2>4 DEF IInv
<1> QED  BY <1>1, <1>5, <1>6

(* The futures of a coroutine are made anew. *)
LEMMA WaitUntilKeeps ==
  ASSUME Holds(Conns, expiry, heap, Registered), expiry \in [Conns -> Times],
         timer \in [Conns -> {"none", "registered", "expired"}],
         NEW c \in Conns, NEW d \in Times \cup {NoTime}, WaitUntil(c, d)
  PROVE  /\ Holds(Conns, expiry', heap', Registered') /\ expiry' \in [Conns -> Times]
         /\ timer' = [timer EXCEPT ![c] = IF d = NoTime THEN "none" ELSE "registered"]
         /\ \A x \in Conns : x # c => expiry'[x] = expiry[x]
         /\ d # NoTime => expiry'[c] = d
<1>1. expiry \in [Conns -> Int] /\ NoNode \notin Conns
  BY TimesAreInts, ConnsAreNodes
<1>2. Holds(Conns, expiry, WithoutTimer(c), Registered \ {c})
  <2>1. CASE timer[c] = "registered"
    BY <1>1, <2>1, RemoveHolds DEF WithoutTimer, Registered
  <2>2. CASE timer[c] # "registered"
    <3>1. Registered \ {c} = Registered
      BY <2>2 DEF Registered
    <3> QED  BY <2>2, <3>1 DEF WithoutTimer
  <2> QED  BY <2>1, <2>2
<1>3. CASE d = NoTime
  <2>1. /\ timer' = [timer EXCEPT ![c] = "none"] /\ heap' = WithoutTimer(c) /\ expiry' = expiry
    BY <1>3 DEF WaitUntil
  <2>2. Registered' = Registered \ {c}
    BY <2>1 DEF Registered
  <2> QED  BY <1>2, <1>3, <2>1, <2>2
<1>4. CASE d # NoTime
  <2>1. /\ timer' = [timer EXCEPT ![c] = "registered"]
        /\ expiry' = [expiry EXCEPT ![c] = d]
        /\ heap' = HeapInsert(expiry', WithoutTimer(c), c)
    BY <1>4 DEF WaitUntil
  <2>2. /\ expiry' \in [Conns -> Times] /\ expiry'[c] = d
        /\ \A x \in Conns : x # c => expiry'[x] = expiry[x]
    BY <1>4, <2>1
  <2>3. expiry' \in [Conns -> Int]
    BY <2>2, TimesAreInts
  <2>4. Registered' = (Registered \ {c}) \cup {c}
    BY <2>1 DEF Registered
  <2>5. Holds(Conns, expiry', WithoutTimer(c), Registered \ {c})
    <3>1. \A x \in Registered \ {c} : expiry'[x] = expiry[x]
      BY <2>2 DEF Registered
    <3> QED  BY <1>2, <3>1, KeysAside
  <2>6. Holds(Conns, expiry', heap', (Registered \ {c}) \cup {c})
    BY <1>1, <2>1, <2>3, <2>5, InsertHolds
  <2> QED  BY <1>4, <2>1, <2>2, <2>4, <2>6
<1> QED  BY <1>3, <1>4

(* A coroutine of a connection is polled.                                   *)
LEMMA PollConnStep ==
  ASSUME IInv, NEW c \in Conns, PollConn(c)
  PROVE  IInv'
<1>1. PICK d \in IF Fires(c) THEN {NoTime, now + Rto} ELSE {deadline[c]} :
          /\ deadline' = [deadline EXCEPT ![c] = d]
          /\ Watch(c)
          /\ sched' = IF Fires(c) THEN Notify(sched, NextBit) ELSE sched
          /\ IF Changed(c) \/ Fires(c) THEN WaitUntil(c, d)
             ELSE UNCHANGED <<heap, expiry, timer>>
  BY DEF PollConn
<1>2. /\ Polling(c) /\ UNCHANGED <<phase, now, held, calls, arrived, asleep, token, collected>>
  BY DEF PollConn, opVars
<1>3. /\ NextBit \in pass.todo /\ NextBit \in Keys /\ sched.slab[NextBit] = c
      /\ pass'.todo = pass.todo \ {NextBit} /\ pass'.gone = pass.gone /\ phase = "poll" /\ PassOK'
  BY <1>2, PollingIs
<1>4. /\ watch' = [watch EXCEPT ![c] = "registered"]
      /\ watch \in [Conns -> {"unregistered", "registered", "completed"}]
      /\ timer \in [Conns -> {"none", "registered", "expired"}]
      /\ deadline \in [Conns -> Times \cup {NoTime}] /\ now \in 0..MaxTime
      /\ expiry \in [Conns -> Times] /\ Holds(Conns, expiry, heap, Registered)
      /\ held \subseteq Conns
  BY <1>1 DEF Watch, IInv, CoreHolds, Core, Sleepers, Shape, QueueHolds, Names
<1>5. d \in Times \cup {NoTime}
  BY <1>1, <1>4, TimesAreInts
<1>6. ASSUME NEW to \in {"none", "registered"}, timer' = [timer EXCEPT ![c] = to]
      PROVE  CoreHolds'
  <2>1. Core(sched, pass'.todo, pass'.gone, held, token, arrived, asleep, watch', timer')
    <3>1. Core(sched, pass.todo \ {NextBit}, pass.gone, held, token, arrived, asleep,
               [watch EXCEPT ![c] = "registered"], [timer EXCEPT ![c] = to])
      BY <1>3, SleepKeeps DEF IInv, CoreHolds
    <3> QED  BY <1>3, <1>4, <1>6, <3>1
  <2>2. Core(sched', pass'.todo, pass'.gone, held, token, arrived, asleep, watch', timer')
    <3>1. CASE Fires(c)
      <4>1. c # NoTask
        BY Distinct
      <4> QED  BY <1>1, <1>3, <2>1, <3>1, <4>1, NotifyKeeps
    <3>2. CASE ~Fires(c)
      BY <1>1, <2>1, <3>2
    <3> QED  BY <3>1, <3>2
  <2> QED  BY <1>2, <2>2 DEF CoreHolds
<1>7. /\ deadline' \in [Conns -> Times \cup {NoTime}] /\ deadline'[c] = d
      /\ \A x \in Conns : x # c => deadline'[x] = deadline[x] /\ watch'[x] = watch[x]
      /\ watch'[c] = "registered"
  BY <1>1, <1>4, <1>5
<1>8. CASE Changed(c) \/ Fires(c)
  <2>1. WaitUntil(c, d)
    BY <1>1, <1>8
  <2>2. /\ Holds(Conns, expiry', heap', Registered') /\ expiry' \in [Conns -> Times]
        /\ timer' = [timer EXCEPT ![c] = IF d = NoTime THEN "none" ELSE "registered"]
        /\ \A x \in Conns : x # c => expiry'[x] = expiry[x]
        /\ d # NoTime => expiry'[c] = d
    BY <1>4, <1>5, <2>1, WaitUntilKeeps
  <2>3. CoreHolds'
    BY <1>6, <2>2
  <2>4. Shape' /\ QueueHolds'
    BY <1>2, <1>3, <1>7, <2>2 DEF IInv, Shape, QueueHolds
  <2>5. SleepsOnDeadline'
    <3>1. /\ timer'[c] = (IF d = NoTime THEN "none" ELSE "registered")
          /\ \A x \in Conns : x # c => timer'[x] = timer[x]
      BY <1>4, <2>2
    <3> QED  BY <1>2, <1>4, <1>7, <2>2, <3>1 DEF IInv, SleepsOnDeadline
  <2> QED  BY <1>3, <2>3, <2>4, <2>5 DEF IInv
<1>9. CASE ~(Changed(c) \/ Fires(c))
  <2>1. UNCHANGED <<heap, expiry, timer>> /\ d = deadline[c]
    BY <1>1, <1>9
  <2>2. watch[c] = "registered" /\ timer[c] \in {"none", "registered"}
    BY <1>4, <1>9 DEF Changed, Fires
  <2>3. timer' = [timer EXCEPT ![c] = timer[c]] /\ watch' = watch /\ deadline' = deadline
    BY <1>1, <1>4, <2>1, <2>2
  <2>4. CoreHolds'
    BY <1>6, <2>2, <2>3
  <2>5. Shape' /\ QueueHolds' /\ SleepsOnDeadline'
    BY <1>2, <1>3, <2>1, <2>3 DEF IInv, Shape, QueueHolds, Registered, SleepsOnDeadline
  <2> QED  BY <1>3, <2>4, <2>5 DEF IInv
<1> QED  BY <1>8, <1>9

(* The end of a page: its dropped tasks are freed.                          *)
LEMMA TurnPageStep ==
  ASSUME IInv, TurnPage
  PROVE  IInv'
<1> DEFINE freed == FreeDropped(sched, pass.gone)
           dead == {sched.slab[k] : k \in Freed(pass.gone)} \cap Conns
           armed == {c \in dead : timer[c] = "registered"}
<1>1. /\ phase = "poll" /\ pass.todo = {}
      /\ timer' = [c \in Conns |-> IF c \in dead THEN "none" ELSE timer[c]]
      /\ watch' = [c \in Conns |-> IF c \in dead THEN "unregistered" ELSE watch[c]]
      /\ heap' = RemoveTimers(armed)
      /\ UNCHANGED <<now, expiry, deadline, held, calls, arrived, asleep, token, collected>>
      /\ \/ /\ pass' = [page |-> pass.page + 1, last |-> pass.last,
                        todo |-> TakenNotified(freed, pass.page + 1),
                        gone |-> TakenDropped(freed, pass.page + 1)]
            /\ sched' = TakeFlags(freed, pass.page + 1)
            /\ UNCHANGED phase
         \/ /\ pass' = Idle /\ sched' = freed /\ phase' = "clock"
  BY DEF TurnPage, opVars
<1>2. /\ Core(freed, {}, {}, held, token, arrived, asleep, watch', timer')
      /\ dead \cap held = {}
  <2>1. Core(sched, {}, pass.gone, held, token, arrived, asleep, watch, timer)
    BY <1>1 DEF IInv, CoreHolds
  <2>2. pass.gone \subseteq PageKeys(pass.page)
    BY DEF IInv, PassOK
  <2>3. dead = {sched.slab[k] : k \in Freed(pass.gone)} \cap Conns
    OBVIOUS
  <2> HIDE DEF dead
  <2>4. /\ Core(freed, {}, {}, held, token, arrived, asleep, watch', timer')
        /\ dead \cap held = {}
    BY <1>1, <2>1, <2>2, <2>3, FreeKeeps
  <2> QED  BY <2>4
<1>3. /\ SchedShape(sched) /\ SlotsOK(sched) /\ pass.gone \subseteq Keys
      /\ timer \in [Conns -> {"none", "registered", "expired"}] /\ held \subseteq Conns
      /\ watch \in [Conns -> {"unregistered", "registered", "completed"}]
  BY DEF IInv, CoreHolds, Core, Flags, Sleepers, Names
<1>4. \A c \in armed : c \in Registered /\ \E k \in Keys : sched.slab[k] = c
  BY <1>3 DEF Registered, Freed
<1> HIDE DEF freed, dead
<1>5. QueueHolds'
  <2>1. expiry \in [Conns -> Int]
    BY TimesAreInts DEF IInv, Shape
  <2>2. Holds(Conns, expiry, RemoveTimers(armed), Registered \ armed)
    <3>1. armed \in SUBSET Registered
      BY <1>4
    <3> HIDE DEF armed
    <3> QED  BY <1>3, <1>4, <2>1, <3>1, RemoveTimersIs DEF IInv, QueueHolds
  <2>3. Registered' = Registered \ armed
    BY <1>1 DEF Registered
  <2> HIDE DEF armed
  <2> QED  BY <1>1, <2>2, <2>3 DEF QueueHolds
<1>6. Shape'
  BY <1>1 DEF IInv, Shape
<1>7. SleepsOnDeadline'
  <2>1. \A c \in held : timer'[c] = timer[c] /\ watch'[c] = watch[c]
    BY <1>1, <1>2, <1>3
  <2> QED  BY <1>1, <2>1 DEF IInv, SleepsOnDeadline
<1>8. CASE /\ pass' = [page |-> pass.page + 1, last |-> pass.last,
                        todo |-> TakenNotified(freed, pass.page + 1),
                        gone |-> TakenDropped(freed, pass.page + 1)]
            /\ sched' = TakeFlags(freed, pass.page + 1)
            /\ UNCHANGED phase
  <2> DEFINE p == pass.page + 1
  <2> HIDE DEF p
  <2>1. Core(TakeFlags(freed, p), TakenNotified(freed, p), TakenDropped(freed, p), held, token,
             arrived, asleep, watch', timer')
    BY <1>2, OpenKeeps
  <2>2. /\ pass' = [page |-> p, last |-> pass.last, todo |-> TakenNotified(freed, p),
                    gone |-> TakenDropped(freed, p)]
        /\ sched' = TakeFlags(freed, p)
    BY <1>8 DEF p
  <2>3. CoreHolds'
    BY <1>1, <2>1, <2>2 DEF CoreHolds
  <2>4. PassOK'
    BY <1>1, <1>8, <2>2 DEF PassOK, TakenNotified, TakenDropped
  <2> QED  BY <1>5, <1>6, <1>7, <2>3, <2>4 DEF IInv
<1>9. CASE pass' = Idle /\ sched' = freed /\ phase' = "clock"
  <2>1. pass'.todo = {} /\ pass'.gone = {}
    BY <1>9 DEF Idle
  <2>2. CoreHolds'
    BY <1>1, <1>2, <1>9, <2>1 DEF CoreHolds
  <2>3. PassOK'
    BY <1>9 DEF PassOK, Idle
  <2> QED  BY <1>5, <1>6, <1>7, <2>2, <2>3 DEF IInv
<1> QED  BY <1>1, <1>8, <1>9

(* The clock is read, and the timers that are due fire.                     *)
LEMMA AdvanceClockStep ==
  ASSUME IInv, AdvanceClock
  PROVE  IInv'
<1>1. PICK t \in now..MaxTime :
          /\ now' = t /\ heap' = RemoveExpired(t).heap
          /\ timer' = [c \in Conns |-> IF c \in RemoveExpired(t).fired THEN "expired" ELSE timer[c]]
          /\ sched' = [sched EXCEPT !.notified = @ \cup {KeyOf(sched, c) : c \in RemoveExpired(t).fired}]
  BY DEF AdvanceClock
<1>2. /\ phase = "clock" /\ phase' = "app"
      /\ UNCHANGED <<pass, expiry, deadline, watch, held, calls, arrived, asleep, token, collected>>
  BY DEF AdvanceClock, connVars, opVars
<1> DEFINE fired == RemoveExpired(t).fired
<1>3. /\ expiry \in [Conns -> Int] /\ Holds(Conns, expiry, heap, Registered) /\ t \in Int
      /\ now \in 0..MaxTime /\ timer \in [Conns -> {"none", "registered", "expired"}]
  BY <1>1, TimesAreInts DEF IInv, Shape, QueueHolds, CoreHolds, Core, Sleepers
<1>4. /\ fired = {c \in Registered : expiry[c] <= t}
      /\ Holds(Conns, expiry, RemoveExpired(t).heap, Registered \ fired)
  BY <1>3, RemoveExpiredIs
<1> HIDE DEF fired
<1>5. Core(sched', pass.todo, pass.gone, held, token, arrived, asleep, watch,
           [c \in Conns |-> IF c \in fired THEN "expired" ELSE timer[c]])
  <2>1. fired \subseteq {c \in Conns : timer[c] = "registered"}
    BY <1>4 DEF Registered
  <2>2. sched' = [sched EXCEPT !.notified = @ \cup {KeyOf(sched, c) : c \in fired}]
    BY <1>1 DEF fired
  <2> QED  BY <2>1, <2>2, ClockKeeps DEF IInv, CoreHolds
<1>6. timer' = [c \in Conns |-> IF c \in fired THEN "expired" ELSE timer[c]]
  BY <1>1 DEF fired
<1>7. CoreHolds'
  BY <1>2, <1>5, <1>6 DEF CoreHolds
<1>8. Registered' = Registered \ fired
  BY <1>4, <1>6 DEF Registered
<1>9. QueueHolds'
  <2>1. \A c \in Registered \ fired : t < expiry[c]
    BY <1>3, <1>4 DEF Registered
  <2> QED  BY <1>1, <1>2, <1>4, <1>8, <2>1 DEF QueueHolds
<1>10. PassOK' /\ Shape'
  <2>1. now' \in 0..MaxTime
    BY <1>1, <1>3
  <2> QED  BY <1>2, <2>1 DEF IInv, PassOK, Shape
<1>11. SleepsOnDeadline'
  <2>1. held \subseteq Conns
    BY DEF IInv, CoreHolds, Core, Names
  <2>2. \A c \in Conns : timer'[c] = timer[c] \/ (timer[c] = "registered" /\ timer'[c] = "expired")
    BY <1>4, <1>6 DEF Registered
  <2> QED  BY <1>2, <2>1, <2>2 DEF IInv, SleepsOnDeadline
<1> QED  BY <1>7, <1>9, <1>10, <1>11 DEF IInv

(* Nothing changes.                                                         *)
LEMMA StutterStep ==
  ASSUME IInv, UNCHANGED vars
  PROVE  IInv'
<1>1. UNCHANGED <<phase, sched, pass, now, heap, expiry, timer, deadline, watch, held, calls,
                  arrived, asleep, token, collected>>
  BY DEF vars, schedVars, timerVars, connVars, opVars
<1>2. CoreHolds'
  BY <1>1 DEF IInv, CoreHolds
<1> QED  BY <1>1, <1>2 DEF IInv, PassOK, Shape, QueueHolds, Registered, SleepsOnDeadline

(* Every step of the loop keeps the invariant.                              *)
LEMMA StepIInv == IInv /\ [Next]_vars => IInv'
BY SubmitStep, CollectStep, ArriveStep, PollPendingStep, PollReadyStep, PollConnStep, CallStep,
   PollBgWorkStep, PollBeginStep, TurnPageStep, AdvanceClockStep, StutterStep DEF Next

(* Whatever arrives, is called, times out or is dropped, and in whatever    *)
(* order the loop meets it, its invariant holds: the scheduler's record, the *)
(* page being polled, the timers and those who sleep fit each other.         *)
THEOREM LoopInvariant == Spec => []IInv
BY InitIInv, StepIInv, PTL DEF Spec

(* No wake-up is lost (Scheduler::poll, WatchedValue::modify, Timer): a task  *)
(* that has something to do is always notified, or among those of its page  *)
(* still to be polled.                                                       *)
THEOREM WakeupsAreKept == Spec => []NoLostWakeup
<1>1. IInv => NoLostWakeup
  <2> SUFFICES ASSUME IInv, NEW k \in Occupied(sched), Live(sched.slab[k]), Due(sched.slab[k])
               PROVE  k \in sched.notified \cup pass.todo
    BY DEF NoLostWakeup
  <2>1. k \in Keys /\ sched.slab[k] # NoTask
    BY DEF Occupied
  <2>2. KeyOf(sched, sched.slab[k]) = k
    BY <2>1, KeyOfIs DEF IInv, CoreHolds, Core
  <2>3. held \subseteq Conns /\ arrived \subseteq Ops
    BY DEF IInv, CoreHolds, Core, Names, Events
  <2>4. CASE sched.slab[k] \in Ops
    BY <2>1, <2>2, <2>4 DEF Due, IInv, CoreHolds, Core, Events
  <2>5. CASE sched.slab[k] \notin Ops
    BY <2>1, <2>3, <2>5 DEF Live, Due, IInv, CoreHolds, Core, Sleepers
  <2> QED  BY <2>4, <2>5
<1> QED  BY <1>1, LoopInvariant, PTL

(* A coroutine that sleeps does so until the deadline its connection has    *)
(* now, the heap holds exactly the timers that are waited for, in heap      *)
(* order, and none is overdue when poll_bg_work returns (wait_until,         *)
(* advance_clock, the drops of both futures).                                *)
THEOREM TimersAreTrue == Spec => []TimersFollowDeadlines
<1>1. IInv => TimersFollowDeadlines
  <2> SUFFICES ASSUME IInv PROVE TimersFollowDeadlines
    OBVIOUS
  <2>1. HeapNodes(heap) = Registered /\ HeapOrdered(expiry, heap)
    BY HoldsIsOrdered, ConnsAreNodes DEF IInv, QueueHolds
  <2>2. NoneOverdue
    BY <2>1 DEF NoneOverdue, Registered, IInv, QueueHolds
  <2> QED  BY <2>2 DEF TimersFollowDeadlines, IInv
<1> QED  BY <1>1, LoopInvariant, PTL

(* No slot is confused with another: each token and each handle names the    *)
(* task it was made for, and only tasks are polled (Scheduler::insert, take, *)
(* SchedulerHandle::drop).                                                   *)
THEOREM SlotsAreKept == Spec => []SlotsHold
<1>1. IInv => SlotsHold
  <2> SUFFICES ASSUME IInv PROVE SlotsHold
    OBVIOUS
  <2>1. Core(sched, pass.todo, pass.gone, held, token, arrived, asleep, watch, timer)
    BY DEF IInv, CoreHolds
  <2>2. PollsTasks
    BY <2>1 DEF PollsTasks, Core, Flags
  <2>3. NamesHold
    <3>1. \A o \in Ops : token[o] # NoKey => sched.slab[token[o]] = o /\ token[o] \notin sched.dropped
      BY <2>1, Distinct DEF Core, Names
    <3>2. held \subseteq Tasks(sched)
      BY <2>1, TasksAre, Distinct DEF Core, Names
    <3> QED  BY <3>1, <3>2 DEF NamesHold
  <2>4. VacantSlots
    <3>1. SchedShape(sched) /\ VacantOf(sched)
      BY <2>1 DEF Core, SlotsOK
    <3>2. /\ sched.vacant \in Seq(Keys) /\ sched.fresh \in 0..MaxKeys
      BY <3>1 DEF SchedShape, Shaped
    <3>3. \A k : k \in 0..(sched.fresh - 1) <=> k \in Keys /\ k < sched.fresh
      BY <3>2, RuntimeAssumption DEF Keys, SchedulerAssumption
    <3>4. \A i \in DOMAIN sched.vacant : sched.vacant[i] \in Keys
      BY <3>2
    <3> QED  BY <3>1, <3>3, <3>4 DEF VacantSlots, VacantOf
  <2>5. DroppedAreRemoved
    BY <2>1 DEF DroppedAreRemoved, Dropped, Occupied, Core, Names
  <2> QED  BY <2>2, <2>3, <2>4, <2>5 DEF SlotsHold
<1> QED  BY <1>1, LoopInvariant, PTL
-----------------------------------------------------------------------------
(* The ring buffer implements a bounded queue, for every number of slots    *)
(* and every set of items.                                                  *)

ItemsOrNone == Items \cup {None}

RingTyped ==
  /\ slots \in [Indices -> ItemsOrNone]
  /\ front \in Indices /\ back \in Indices
  /\ writer \in [at : {"idle", "load", "write", "commit"}, item : ItemsOrNone,
                 front : Indices, back : Indices]
  /\ reader \in [at : {"idle", "load", "read", "commit"}, item : ItemsOrNone,
                 front : Indices, back : Indices]
  /\ got \in ItemsOrNone

(* What the writer knows of the reader's index can only be out of date in    *)
(* one direction: there is at least as much room as it believes.             *)
WriterKnows ==
  /\ writer.at # "idle" => writer.item \in Items
  /\ writer.at = "load" => Distance(front, back) <= Distance(writer.front, back)
  /\ writer.at \in {"write", "commit"} =>
        writer.back = back /\ Distance(front, back) < N - 1
  /\ writer.at = "commit" => slots[back] = writer.item

(* And the reader: there are at least as many items as it believes.          *)
ReaderKnows ==
  /\ reader.at # "idle" => reader.front = front
  /\ reader.at \in {"read", "commit"} => front # back
  /\ reader.at = "commit" => reader.item = slots[front]

Filled == \A i \in Indices : Distance(front, i) < Distance(front, back) => slots[i] \in Items

RingInv == RingTyped /\ WriterKnows /\ ReaderKnows /\ Filled
-----------------------------------------------------------------------------
(* Arithmetic of the indices. *)

LEMMA NextIsIndex == ASSUME RingAssumption, NEW i \in Indices PROVE NextIndex(i) \in Indices
BY DEF RingAssumption, Indices, NextIndex

LEMMA DistanceIsNat ==
  ASSUME RingAssumption, NEW f \in Indices, NEW b \in Indices
  PROVE  /\ Distance(f, b) \in 0..N - 1
         /\ Distance(f, b) = 0 <=> f = b
         /\ Distance(f, b) = N - 1 <=> NextIndex(b) = f
BY DEF RingAssumption, Indices, Distance, NextIndex

LEMMA DistanceGrows ==
  ASSUME RingAssumption, NEW f \in Indices, NEW b \in Indices, Distance(f, b) < N - 1
  PROVE  Distance(f, NextIndex(b)) = Distance(f, b) + 1
BY DEF RingAssumption, Indices, Distance, NextIndex

LEMMA DistanceShrinks ==
  ASSUME RingAssumption, NEW f \in Indices, NEW b \in Indices, f # b
  PROVE  Distance(NextIndex(f), b) = Distance(f, b) - 1
BY DEF RingAssumption, Indices, Distance, NextIndex

LEMMA PlaceIs ==
  ASSUME RingAssumption, NEW f \in Indices, NEW k \in 0..N - 1
  PROVE  Place(f, k) \in Indices /\ Distance(f, Place(f, k)) = k
BY DEF RingAssumption, Indices, Distance, Place

LEMMA PlaceOfBack ==
  ASSUME RingAssumption, NEW f \in Indices, NEW b \in Indices
  PROVE  Place(f, Distance(f, b)) = b
BY DEF RingAssumption, Indices, Distance, Place

LEMMA PlaceShifts ==
  ASSUME RingAssumption, NEW f \in Indices, NEW k \in 0..N - 2
  PROVE  Place(NextIndex(f), k) = Place(f, k + 1)
BY DEF RingAssumption, Indices, Place, NextIndex
-----------------------------------------------------------------------------
LEMMA RingInitInv == ASSUME RingAssumption, RingInit PROVE RingInv
<1>1. RingTyped
  BY DEF RingAssumption, RingInit, RingTyped, Indices, ItemsOrNone
<1>2. WriterKnows /\ ReaderKnows
  BY DEF RingInit, WriterKnows, ReaderKnows
<1>3. Filled
  <2> SUFFICES ASSUME NEW i \in Indices, Distance(front, i) < Distance(front, back)
               PROVE  FALSE
    BY DEF Filled
  <2>1. front \in Indices /\ back \in Indices /\ front = back
    BY DEF RingAssumption, RingInit, Indices
  <2> QED BY <2>1, DistanceIsNat
<1> QED BY <1>1, <1>2, <1>3 DEF RingInv

LEMMA RingStepInv == ASSUME RingAssumption, RingInv, [RingNext]_ringVars PROVE RingInv'
<1> USE DEF RingInv
<1> N \in Nat \ {0}
  BY DEF RingAssumption
<1> front \in Indices /\ back \in Indices /\ writer.front \in Indices /\ reader.front \in Indices
  BY DEF RingTyped
<1>1. ASSUME NEW item \in Items, StartEnqueue(item) PROVE RingInv'
  <2>1. RingTyped'
    BY <1>1 DEF RingTyped, StartEnqueue, ItemsOrNone
  <2>0. /\ writer'.at = "load" /\ writer'.item = item /\ writer'.front = front
        /\ front' = front /\ back' = back
    BY <1>1 DEF RingTyped, StartEnqueue
  <2>2. WriterKnows'
    <3>1. Distance(front, back)' = Distance(front, back)
          /\ Distance(writer.front, back)' = Distance(front, back)
      BY <2>0 DEF Distance
    <3>2. Distance(front, back) <= Distance(front, back)
      BY DistanceIsNat
    <3> HIDE DEF Distance
    <3> QED BY <2>0, <3>1, <3>2 DEF WriterKnows
  <2>3. ReaderKnows' /\ Filled'
    BY <1>1 DEF ReaderKnows, Filled, StartEnqueue, Distance
  <2> QED BY <2>1, <2>2, <2>3
<1>2. CASE LoadBack
  <2>1. RingTyped'
    BY <1>2 DEF RingTyped, LoadBack
  <2>2. WriterKnows'
    <3>1. ~Full(writer.front, back) => Distance(front, back) < N - 1
      BY <1>2, DistanceIsNat DEF WriterKnows, LoadBack, Full
    <3> QED BY <1>2, <3>1 DEF RingTyped, WriterKnows, LoadBack, Distance
  <2>3. ReaderKnows' /\ Filled'
    BY <1>2 DEF ReaderKnows, Filled, LoadBack, Distance
  <2> QED BY <2>1, <2>2, <2>3
<1>3. CASE WriteSlot
  <2>0. writer.back = back /\ slots' = [slots EXCEPT ![back] = writer.item]
        /\ Distance(front, back) < N - 1
    BY <1>3 DEF WriterKnows, WriteSlot
  <2>1. RingTyped'
    BY <1>3 DEF RingTyped, WriteSlot
  <2>2. WriterKnows'
    BY <1>3, <2>0 DEF RingTyped, WriterKnows, WriteSlot, Distance
  <2>3. ReaderKnows'
    BY <1>3, <2>0 DEF RingTyped, ReaderKnows, WriteSlot
  <2>4. Filled'
    BY <1>3, <2>0 DEF RingTyped, WriterKnows, Filled, WriteSlot, Distance
  <2> QED BY <2>1, <2>2, <2>3, <2>4
<1>4. CASE CommitWrite
  <2>0. /\ back' = NextIndex(back) /\ front' = front /\ slots' = slots
        /\ Distance(front, back) < N - 1 /\ slots[back] \in Items
    BY <1>4 DEF WriterKnows, CommitWrite
  <2>1. RingTyped'
    BY <1>4, <2>0, NextIsIndex DEF RingTyped, CommitWrite
  <2>2. WriterKnows'
    BY <1>4 DEF RingTyped, WriterKnows, CommitWrite
  <2>3. Distance(front, back') = Distance(front, back) + 1
    BY <2>0, DistanceGrows
  <2>4. ReaderKnows'
    BY <1>4, <2>0, <2>3, DistanceIsNat, NextIsIndex DEF ReaderKnows, CommitWrite
  <2>5. Filled'
    <3> SUFFICES ASSUME NEW i \in Indices, Distance(front, i) < Distance(front, back) + 1
                 PROVE  slots[i] \in Items
      BY <2>0, <2>3 DEF Filled, Distance
    <3>1. CASE Distance(front, i) < Distance(front, back)
      BY <3>1 DEF Filled
    <3>2. CASE Distance(front, i) = Distance(front, back)
      BY <3>2, <2>0, PlaceOfBack
    <3> QED BY <3>1, <3>2, DistanceIsNat
  <2> QED BY <2>1, <2>2, <2>4, <2>5
<1>5. CASE StartDequeue
  BY <1>5 DEF RingTyped, WriterKnows, ReaderKnows, Filled, StartDequeue, Distance
<1>6. CASE LoadFrontAndBack
  <2>1. RingTyped'
    BY <1>6 DEF RingTyped, LoadFrontAndBack
  <2>2. ReaderKnows'
    BY <1>6 DEF RingTyped, ReaderKnows, LoadFrontAndBack, Empty
  <2>3. WriterKnows' /\ Filled'
    BY <1>6 DEF WriterKnows, Filled, LoadFrontAndBack, Distance
  <2> QED BY <2>1, <2>2, <2>3
<1>7. CASE ReadSlot
  <2>1. RingTyped'
    BY <1>7 DEF RingTyped, ReadSlot
  <2>2. ReaderKnows' /\ WriterKnows' /\ Filled'
    BY <1>7 DEF RingTyped, ReaderKnows, WriterKnows, Filled, ReadSlot, Distance
  <2> QED BY <2>1, <2>2
<1>8. CASE CommitRead
  <2>0. /\ front' = NextIndex(front) /\ back' = back /\ slots' = slots /\ front # back
        /\ NextIndex(front) \in Indices
    BY <1>8, NextIsIndex DEF ReaderKnows, CommitRead
  <2>1. RingTyped'
    BY <1>8, <2>0 DEF RingTyped, CommitRead
  <2>2. Distance(NextIndex(front), back) = Distance(front, back) - 1
    BY <2>0, DistanceShrinks
  <2>3. WriterKnows'
    <3> DEFINE d == Distance(front, back)  e == Distance(writer.front, back)
               d2 == Distance(NextIndex(front), back)
    <3>1. d \in Int /\ e \in Int /\ d2 = d - 1
      BY <2>2, DistanceIsNat
    <3>2. Distance(front, back)' = d2 /\ Distance(writer.front, back)' = e /\ writer' = writer
      BY <1>8, <2>0 DEF CommitRead, Distance
    <3>3. /\ writer.at = "load" => d2 <= e
          /\ writer.at \in {"write", "commit"} => writer.back = back /\ d2 < N - 1
      <4> HIDE DEF d2
      <4> QED BY <3>1 DEF WriterKnows
    <3> HIDE DEF d, e, d2
    <3> QED BY <3>2, <3>3, <2>0 DEF WriterKnows
  <2>4. ReaderKnows'
    BY <1>8 DEF RingTyped, ReaderKnows, CommitRead
  <2>5. Filled'
    <3> SUFFICES ASSUME NEW i \in Indices, Distance(NextIndex(front), i) < Distance(NextIndex(front), back)
                 PROVE  slots[i] \in Items
      BY <2>0 DEF Filled, Distance
    <3>1. i # front
      BY <2>2, <2>0, DistanceIsNat, DistanceShrinks DEF Distance, NextIndex, Indices
    <3>2. Distance(front, i) < Distance(front, back)
      BY <3>1, <2>2, DistanceShrinks, DistanceIsNat
    <3> QED BY <3>2 DEF Filled
  <2> QED BY <2>1, <2>3, <2>4, <2>5
<1>9. CASE UNCHANGED ringVars
  BY <1>9 DEF ringVars, RingTyped, WriterKnows, ReaderKnows, Filled, Distance
<1> QED
  BY <1>1, <1>2, <1>3, <1>4, <1>5, <1>6, <1>7, <1>8, <1>9 DEF RingNext, Enqueueing, Dequeueing
-----------------------------------------------------------------------------
(* The refinement: the stores are where an operation happens. *)

LEMMA ContentsIsSeq ==
  ASSUME RingAssumption, RingInv
  PROVE  /\ Contents \in Seq(Items)
         /\ Len(Contents) = Distance(front, back)
         /\ \A k \in 1..Distance(front, back) : Contents[k] = slots[Place(front, k - 1)]
<1> DEFINE d == Distance(front, back)
<1>1. d \in 0..N - 1 /\ N \in Nat \ {0} /\ front \in Indices /\ back \in Indices
  BY DistanceIsNat DEF RingInv, RingTyped, RingAssumption
<1>2. ASSUME NEW k \in 1..d PROVE slots[Place(front, k - 1)] \in Items
  <2>1. k - 1 \in 0..N - 1 /\ k - 1 < d
    BY <1>1
  <2>2. Place(front, k - 1) \in Indices /\ Distance(front, Place(front, k - 1)) < d
    BY <1>1, <2>1, PlaceIs
  <2> QED BY <2>2 DEF RingInv, Filled
<1>3. Contents = [k \in 1..d |-> slots[Place(front, k - 1)]]
  BY DEF Contents
<1> HIDE DEF d
<1>4. d \in Nat
  BY <1>1
<1>5. Contents \in [1..d -> Items]
  BY <1>2, <1>3
<1> QED BY <1>2, <1>3, <1>4, <1>5 DEF d

LEMMA RefineInit == ASSUME RingAssumption, RingInit PROVE Queue!Init
<1>1. RingInv
  BY RingInitInv
<1>2. Distance(front, back) = 0
  BY DEF RingInit, Distance
<1>3. Contents = <<>>
  BY <1>1, <1>2, ContentsIsSeq
<1>4. got \notin Items
  BY DEF RingInit, RingAssumption
<1> QED BY <1>3, <1>4 DEF Queue!Init

(* A step that moves neither index nor touches a filled slot shows nothing.  *)
LEMMA SameContents ==
  ASSUME RingAssumption, RingInv, front' = front, back' = back,
         \A i \in Indices : Distance(front, i) < Distance(front, back) => slots'[i] = slots[i]
  PROVE  Contents' = Contents
<1> DEFINE d == Distance(front, back)
<1>1. d \in 0..N - 1 /\ N \in Nat \ {0} /\ front \in Indices
  BY DistanceIsNat DEF RingInv, RingTyped, RingAssumption
<1>2. ASSUME NEW k \in 1..d PROVE slots'[Place(front, k - 1)] = slots[Place(front, k - 1)]
  <2>1. k - 1 \in 0..N - 1 /\ k - 1 < d
    BY <1>1
  <2> QED BY <1>1, <2>1, PlaceIs
<1>3. Contents' = [k \in 1..d |-> slots'[Place(front, k - 1)]]
  BY DEF Contents, Distance, Place
<1>4. Contents = [k \in 1..d |-> slots[Place(front, k - 1)]]
  BY DEF Contents
<1> HIDE DEF d
<1> QED BY <1>2, <1>3, <1>4

LEMMA EnqueueRefined ==
  ASSUME RingAssumption, RingInv, RingInv', CommitWrite
  PROVE  \E item \in Items : Queue!Enqueue(item)
<1> DEFINE d == Distance(front, back)
<1>1. /\ back' = NextIndex(back) /\ front' = front /\ slots' = slots /\ got' = got
      /\ d < N - 1 /\ slots[back] \in Items
  BY DEF RingInv, WriterKnows, CommitWrite
<1>2. N \in Nat \ {0} /\ front \in Indices /\ back \in Indices /\ d \in 0..N - 1
  BY DistanceIsNat DEF RingAssumption, RingInv, RingTyped
<1>3. Distance(front, back)' = d + 1
  BY <1>1, <1>2, DistanceGrows DEF Distance
<1>4. /\ Contents' \in Seq(Items) /\ Len(Contents') = d + 1
      /\ \A k \in 1..d + 1 : Contents'[k] = slots[Place(front, k - 1)]
  <2>1. /\ Contents' = [k \in 1..d + 1 |-> slots[Place(front, k - 1)]]
    BY <1>1, <1>3 DEF Contents, Place
  <2>2. \A k \in 1..d + 1 : slots[Place(front, k - 1)] \in Items
    <3> SUFFICES ASSUME NEW k \in 1..d + 1 PROVE slots[Place(front, k - 1)] \in Items
      OBVIOUS
    <3>1. CASE k = d + 1
      BY <3>1, <1>1, <1>2, PlaceOfBack
    <3>2. CASE k # d + 1
      <4>1. k \in 1..d
        BY <3>2, <1>2
      <4> QED BY <4>1, ContentsIsSeq, ElementOfSeq
    <3> QED BY <3>1, <3>2
  <2> HIDE DEF d
  <2>3. d + 1 \in Nat /\ Contents' \in [1..d + 1 -> Items]
    BY <1>2, <2>1, <2>2
  <2> QED BY <2>1, <2>3
<1>5. /\ Contents \in Seq(Items) /\ Len(Contents) = d
      /\ \A k \in 1..d : Contents[k] = slots[Place(front, k - 1)]
  BY ContentsIsSeq
<1>6. Contents'[d + 1] = slots[back]
  BY <1>1, <1>2, <1>4, PlaceOfBack
<1>7. Contents' = Append(Contents, slots[back])
  <2> HIDE DEF d
  <2>1. DOMAIN Contents' = 1..d + 1 /\ DOMAIN Contents = 1..d
    BY <1>4, <1>5
  <2> DEFINE a == Append(Contents, slots[back])
  <2>2. a \in Seq(Items) /\ Len(a) = d + 1 /\ a[d + 1] = slots[back]
        /\ \A k \in 1..d : a[k] = Contents[k]
    BY <1>5, <1>1
  <2> HIDE DEF a
  <2>3. ASSUME NEW k \in 1..d + 1 PROVE a[k] = Contents'[k]
    <3>1. CASE k = d + 1
      BY <3>1, <2>2, <1>6
    <3>2. CASE k # d + 1
      <4>1. k \in 1..d
        BY <3>2, <1>2
      <4> QED BY <4>1, <2>2, <1>4, <1>5
    <3> QED BY <3>1, <3>2
  <2>4. Contents' = a
    BY <2>2, <2>3, <1>4, SeqEqual
  <2> QED BY <2>4 DEF a
<1> QED BY <1>1, <1>2, <1>5, <1>7 DEF Queue!Enqueue, Capacity

LEMMA DequeueRefined ==
  ASSUME RingAssumption, RingInv, RingInv', CommitRead
  PROVE  Queue!Dequeue
<1> DEFINE d == Distance(front, back)
<1>1. /\ front' = NextIndex(front) /\ back' = back /\ slots' = slots /\ got' = slots[front]
      /\ front # back
  BY DEF RingInv, ReaderKnows, CommitRead
<1>2. N \in Nat \ {0} /\ front \in Indices /\ back \in Indices /\ d \in 1..N - 1
  BY <1>1, DistanceIsNat DEF RingAssumption, RingInv, RingTyped
<1>3. Distance(front, back)' = d - 1
  BY <1>1, <1>2, DistanceShrinks DEF Distance
<1>4. /\ Contents \in Seq(Items) /\ Len(Contents) = d
      /\ \A k \in 1..d : Contents[k] = slots[Place(front, k - 1)]
  BY ContentsIsSeq
<1>5. /\ Contents' \in Seq(Items) /\ Len(Contents') = d - 1
      /\ \A k \in 1..d - 1 : Contents'[k] = slots[Place(front, k)]
  <2>1. Contents' = [k \in 1..d - 1 |-> slots[Place(NextIndex(front), k - 1)]]
    BY <1>1, <1>3 DEF Contents, Place
  <2> HIDE DEF d
  <2>2. ASSUME NEW k \in 1..d - 1
        PROVE  slots[Place(NextIndex(front), k - 1)] = Contents[k + 1]
               /\ Contents[k + 1] = slots[Place(front, k)]
    <3>1. k - 1 \in 0..N - 2 /\ k + 1 \in 1..d /\ (k - 1) + 1 = k /\ (k + 1) - 1 = k
      BY <1>2
    <3>2. Place(NextIndex(front), k - 1) = Place(front, (k - 1) + 1)
      BY <3>1, <1>2, PlaceShifts
    <3> QED BY <3>1, <3>2, <1>4
  <2>3. ASSUME NEW k \in 1..d - 1
        PROVE  slots[Place(NextIndex(front), k - 1)] \in Items
    <3>1. k + 1 \in 1..Len(Contents)
      BY <1>2, <1>4
    <3>2. Contents[k + 1] \in Items
      BY <3>1, <1>4, ElementOfSeq
    <3> QED BY <3>2, <2>2
  <2>4. d - 1 \in Nat /\ Contents' \in [1..d - 1 -> Items]
    BY <1>2, <2>1, <2>3
  <2>5. Contents' \in Seq(Items) /\ Len(Contents') = d - 1
    BY <2>4, SeqDef, LenProperties
  <2>6. \A k \in 1..d - 1 : Contents'[k] = slots[Place(front, k)]
    BY <2>1, <2>2
  <2> QED BY <2>5, <2>6
<1>6. Contents # <<>> /\ Head(Contents) = slots[front]
  <2> HIDE DEF d
  <2>1. Contents # <<>>
    BY <1>2, <1>4, EmptySeq
  <2>2. Place(front, 0) = front
    BY <1>2 DEF Place, Indices
  <2>3. 1 \in 1..d /\ 1 - 1 = 0
    BY <1>2
  <2>4. Head(Contents) = Contents[1]
    BY <1>4, <2>1
  <2> QED BY <2>1, <2>2, <2>3, <2>4, <1>4
<1>7. Contents' = Tail(Contents)
  <2> HIDE DEF d
  <2> DEFINE t == Tail(Contents)
  <2>1. /\ t \in Seq(Items) /\ Len(t) = d - 1
        /\ \A k \in 1..d - 1 : t[k] = Contents[k + 1]
    BY <1>4, <1>6, HeadTailProperties
  <2> HIDE DEF t
  <2>2. ASSUME NEW k \in 1..d - 1 PROVE t[k] = Contents'[k]
    <3>1. k + 1 \in 1..d /\ (k + 1) - 1 = k
      BY <1>2
    <3> QED BY <3>1, <2>1, <1>4, <1>5
  <2>3. Contents' = t
    BY <2>1, <2>2, <1>5, SeqEqual
  <2> QED BY <2>3 DEF t
<1> QED BY <1>1, <1>6, <1>7 DEF Queue!Dequeue

LEMMA StepRefined ==
  ASSUME RingAssumption, RingInv, RingInv', [RingNext]_ringVars
  PROVE  [Queue!Next]_<<Contents, got>>
<1>1. CASE \/ \E item \in Items : StartEnqueue(item)
           \/ LoadBack \/ StartDequeue \/ LoadFrontAndBack \/ ReadSlot
  <2>1. front' = front /\ back' = back /\ slots' = slots /\ got' = got
    BY <1>1 DEF StartEnqueue, LoadBack, StartDequeue, LoadFrontAndBack, ReadSlot
  <2> QED BY <2>1, SameContents
<1>2. CASE WriteSlot
  <2>1. /\ front' = front /\ back' = back /\ got' = got
        /\ slots' = [slots EXCEPT ![back] = writer.item]
    BY <1>2 DEF RingInv, WriterKnows, WriteSlot
  <2>2. ASSUME NEW i \in Indices, Distance(front, i) < Distance(front, back)
        PROVE  slots'[i] = slots[i]
    <3>1. i # back
      BY <2>2, DistanceIsNat DEF RingInv, RingTyped
    <3> QED BY <3>1, <2>1 DEF RingInv, RingTyped
  <2> QED BY <2>1, <2>2, SameContents
<1>3. CASE CommitWrite
  BY <1>3, EnqueueRefined DEF Queue!Next
<1>4. CASE CommitRead
  BY <1>4, DequeueRefined DEF Queue!Next
<1>5. CASE UNCHANGED ringVars
  <2>1. front' = front /\ back' = back /\ slots' = slots /\ got' = got
    BY <1>5 DEF ringVars
  <2> QED BY <2>1, SameContents
<1> QED
  BY <1>1, <1>2, <1>3, <1>4, <1>5 DEF RingNext, Enqueueing, Dequeueing

(* The ring buffer is a first-in first-out queue of N - 1 places, whatever   *)
(* the writer and the reader do between each other's loads and stores        *)
(* (try_enqueue, try_dequeue).                                               *)
THEOREM RingIsQueue == ASSUME RingAssumption PROVE RingSpec => IsQueue
<1>1. RingInit => RingInv
  BY RingInitInv
<1>2. RingInv /\ [RingNext]_ringVars => RingInv'
  BY RingStepInv
<1>3. RingInit => Queue!Init
  BY RefineInit
<1>4. RingInv /\ RingInv' /\ [RingNext]_ringVars => [Queue!Next]_<<Contents, got>>
  BY StepRefined
<1> QED
  BY <1>1, <1>2, <1>3, <1>4, PTL DEF RingSpec, IsQueue, Queue!Spec
=============================================================================
