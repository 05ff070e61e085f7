---------------------------- MODULE LibOSProofs ----------------------------
(***************************************************************************)
(* Proofs about the application's interface (LibOS), on both libOSes: a     *)
(* token names its operation until the result is taken, no operation        *)
(* sleeps, queue descriptors and file descriptors name what they are for,   *)
(* and data stay in order.  For any numbers of operations, queues, slots,   *)
(* sockets and descriptors, and any size of a page.                         *)
(*                                                                          *)
(* The polls and the waits are loops over a state that is no longer the one *)
(* of the variables.  What the proof says it therefore says of a record of  *)
(* such a state (Here is that of the variables), and each thing that can    *)
(* happen to one has a lemma.                                               *)
(***************************************************************************)
EXTENDS LibOS, SequenceTheorems, FiniteSetTheorems, WellFoundedInduction, TLAPS

-----------------------------------------------------------------------------
(* What loops need: the loops of the models are recursive functions, and    *)
(* one reasons about them with the least number for which a fact would      *)
(* fail.  Then the slots of the scheduler, for any tasks, any number of     *)
(* slots and any size of a page.                                            *)

(* A set of numbers that is not empty has a least one.                      *)
LEMMA LeastNumber ==
  ASSUME NEW T \in SUBSET Nat, T # {}
  PROVE  \E x \in T : \A y \in T : x <= y
<1> DEFINE R == {ss \in Nat \X Nat : ss[1] < ss[2]}
<1>1. IsWellFoundedOn(R, Nat)
  BY NatLessThanWellFounded DEF OpToRel
<1>2. \A x, y \in Nat : x < y => <<x, y>> \in R
  OBVIOUS
<1> HIDE DEF R
<1>3. PICK x \in T : \A y \in T : ~(<<y, x>> \in R)
  BY <1>1, WFMin
<1>4. \A y \in T : ~(y < x)
  BY <1>2, <1>3
<1> QED  BY <1>4

(* Induction over the numbers, for a set.                                   *)
LEMMA Induction ==
  ASSUME NEW S, 0 \in S, \A n \in Nat : n \in S => n + 1 \in S
  PROVE  Nat \subseteq S
<1> SUFFICES ASSUME Nat \ S # {} PROVE FALSE
  OBVIOUS
<1>1. PICK x \in Nat \ S : \A y \in Nat \ S : x <= y
  BY LeastNumber
<1>2. x # 0 /\ x - 1 \in Nat
  BY <1>1
<1>3. x - 1 \in S
  BY <1>1, <1>2
<1> QED  BY <1>1, <1>2, <1>3

(* Division with remainder.                                                 *)
LEMMA ModIs ==
  ASSUME NEW m \in Nat \ {0}, NEW a \in Int
  PROVE  a % m \in 0..(m - 1) /\ a \div m \in Int /\ a = m * (a \div m) + (a % m)
OBVIOUS

(* A loop of K turns, each a function of the turn and of what the turns    *)
(* before it gave.                                                         *)
Loop(g, K, base, step) ==
  g = [n \in 0..K |-> IF n = 0 THEN base ELSE step[n][g[n - 1]]]

(* A loop gives its base at first, and then what the turn makes of the turn *)
(* before.                                                                  *)
LEMMA LoopIs ==
  ASSUME NEW g, NEW K \in Nat, NEW base, NEW step
  PROVE  Loop(g, K, base, step) <=>
            /\ g = [n \in 0..K |-> g[n]]
            /\ g[0] = base
            /\ \A n \in 1..K : g[n] = step[n][g[n - 1]]
<1>1. ASSUME Loop(g, K, base, step)
      PROVE  /\ g = [n \in 0..K |-> g[n]]
             /\ g[0] = base
             /\ \A n \in 1..K : g[n] = step[n][g[n - 1]]
  BY <1>1 DEF Loop
<1>2. ASSUME g = [n \in 0..K |-> g[n]], g[0] = base,
             \A n \in 1..K : g[n] = step[n][g[n - 1]]
      PROVE  Loop(g, K, base, step)
  <2>1. \A n \in 0..K : g[n] = IF n = 0 THEN base ELSE step[n][g[n - 1]]
    <3>1. \A n \in 0..K : n = 0 \/ (n # 0 /\ n \in 1..K)
      OBVIOUS
    <3> QED  BY <1>2, <3>1
  <2> QED  BY <1>2, <2>1 DEF Loop
<1> QED  BY <1>1, <1>2

(* There is such a function, whatever the turns do: a recursive definition  *)
(* of a loop defines something.                                             *)
LEMMA LoopsExist ==
  ASSUME NEW K \in Nat, NEW base, NEW step
  PROVE  \E g : Loop(g, K, base, step)
<1> DEFINE S == {m \in Nat : \E g : Loop(g, m, base, step)}
<1>1. 0 \in S
  <2> DEFINE g == [n \in 0..0 |-> base]
  <2>1. g = [n \in 0..0 |-> g[n]] /\ g[0] = base /\ \A n \in 1..0 : g[n] = step[n][g[n - 1]]
    OBVIOUS
  <2> HIDE DEF g
  <2>2. Loop(g, 0, base, step)
    BY <2>1, LoopIs
  <2> QED  BY <2>2
<1>2. ASSUME NEW m \in Nat, m \in S PROVE m + 1 \in S
  <2>1. PICK g : Loop(g, m, base, step)
    BY <1>2
  <2>2. /\ g = [n \in 0..m |-> g[n]]
        /\ g[0] = base
        /\ \A n \in 1..m : g[n] = step[n][g[n - 1]]
    BY <2>1, LoopIs
  <2> DEFINE last == step[m + 1][g[m]]
             h == [n \in 0..(m + 1) |-> IF n = m + 1 THEN last ELSE g[n]]
  <2>3. h[0] = base /\ h[m + 1] = step[m + 1][h[m]]
    BY <2>2
  <2>4. ASSUME NEW n \in 1..m PROVE h[n] = step[n][h[n - 1]]
    <3>1. n \in 0..(m + 1) /\ n - 1 \in 0..(m + 1) /\ n # m + 1 /\ n - 1 # m + 1
      OBVIOUS
    <3>2. h[n] = g[n] /\ h[n - 1] = g[n - 1]
      BY <3>1
    <3> HIDE DEF h
    <3> QED  BY <2>2, <3>2
  <2>5. h = [n \in 0..(m + 1) |-> h[n]]
    OBVIOUS
  <2> HIDE DEF h
  <2>6. \A n \in 1..(m + 1) : h[n] = step[n][h[n - 1]]
    <3>1. \A n \in 1..(m + 1) : n \in 1..m \/ (n = m + 1 /\ n - 1 = m)
      OBVIOUS
    <3> QED  BY <2>3, <2>4, <3>1
  <2>7. Loop(h, m + 1, base, step)
    <3>1. m + 1 \in Nat
      OBVIOUS
    <3> QED  BY <2>3, <2>5, <2>6, <3>1, LoopIs
  <2> QED  BY <2>7
<1> HIDE DEF S
<1>3. Nat \subseteq S
  BY <1>1, <1>2, Induction
<1> QED  BY <1>3 DEF S-----------------------------------------------------------------------------
(* The slots of the scheduler. *)

(* A key is the number of its page and the number in the page.              *)
LEMMA SubPages ==
  ASSUME SchedulerAssumption, NEW k \in Keys
  PROVE  /\ k \in Nat /\ SubPage(k) \in 0..(PageSize - 1) /\ PageOf(k) \in Int
         /\ k = PageSize * PageOf(k) + SubPage(k)
<1>1. k \in Nat /\ PageSize \in Nat \ {0}
  BY DEF Keys, SchedulerAssumption
<1>2. k % PageSize \in 0..(PageSize - 1) /\ k \div PageSize \in Int
         /\ k = PageSize * (k \div PageSize) + (k % PageSize)
  BY <1>1, ModIs
<1> QED  BY <1>1, <1>2 DEF SubPage, PageOf

Shaped(s, T) ==
  s \in [slab : [Keys -> T \cup {NoTask}], vacant : Seq(Keys), fresh : 0..MaxKeys,
         notified : SUBSET Keys, completed : SUBSET Keys, dropped : SUBSET Keys]

VacantOf(s) ==
  /\ \A i, j \in DOMAIN s.vacant : s.vacant[i] = s.vacant[j] => i = j
  /\ \A k \in Keys : (\E i \in DOMAIN s.vacant : s.vacant[i] = k)
                        <=> k < s.fresh /\ s.slab[k] = NoTask

(* Nobody has two slots, and the slots that are free are known.             *)
SlotsOK(s) ==
  /\ \A i, j \in Keys : s.slab[i] # NoTask /\ s.slab[i] = s.slab[j] => i = j
  /\ \A k \in Keys : k >= s.fresh => s.slab[k] = NoTask
  /\ VacantOf(s)

(* A task has one slot: its key is where it stands.                         *)
LEMMA KeyOfIs ==
  ASSUME NEW s, SlotsOK(s), NEW k \in Keys, s.slab[k] # NoTask
  PROVE  KeyOf(s, s.slab[k]) = k
BY DEF KeyOf, SlotsOK

(* The tasks are those who have a slot.                                     *)
LEMMA TasksAre ==
  ASSUME NEW s
  PROVE  \A t : t \in Tasks(s) <=> t # NoTask /\ \E k \in Keys : s.slab[k] = t
BY DEF Tasks, Occupied

(* A slot that is free gets a task. *)
LEMMA SlotInserted ==
  ASSUME SchedulerAssumption, NEW T, NoTask \notin T,
         NEW s, Shaped(s, T), SlotsOK(s), HasRoom(s),
         NEW t \in T, t \notin Tasks(s)
  PROVE  LET k == NextKey(s)
             after == Insert(s, t) IN
         /\ k \in Keys /\ s.slab[k] = NoTask
         /\ Shaped(after, T) /\ SlotsOK(after)
         /\ after.slab = [s.slab EXCEPT ![k] = t]
         /\ after.notified = s.notified \cup {k}
         /\ after.completed = s.completed \ {k} /\ after.dropped = s.dropped \ {k}
<1> DEFINE k == NextKey(s)
           after == Insert(s, t)
<1>1. k \in Keys /\ k \in Nat /\ k < MaxKeys /\ MaxKeys \in Nat
  BY DEF HasRoom, Keys, SchedulerAssumption
<1>2. /\ s.slab \in [Keys -> T \cup {NoTask}] /\ s.vacant \in Seq(Keys) /\ s.fresh \in 0..MaxKeys
      /\ s.notified \subseteq Keys /\ s.completed \subseteq Keys /\ s.dropped \subseteq Keys
  BY DEF Shaped
<1>3. /\ after = [slab |-> after.slab, vacant |-> after.vacant, fresh |-> after.fresh,
                  notified |-> after.notified, completed |-> after.completed, dropped |-> after.dropped]
      /\ after.slab = [s.slab EXCEPT ![k] = t]
      /\ after.notified = s.notified \cup {k}
      /\ after.completed = s.completed \ {k} /\ after.dropped = s.dropped \ {k}
      /\ after.vacant = (IF s.vacant = <<>> THEN <<>> ELSE Tail(s.vacant))
      /\ after.fresh = (IF s.vacant = <<>> THEN s.fresh + 1 ELSE s.fresh)
  BY DEF Insert
<1>4. t # NoTask
  OBVIOUS
<1>5. k = IF s.vacant = <<>> THEN s.fresh ELSE Head(s.vacant)
  BY DEF NextKey
<1> HIDE DEF k, after
<1>6. /\ DOMAIN s.vacant = 1..Len(s.vacant) /\ Len(s.vacant) \in Nat
      /\ s.vacant = <<>> <=> Len(s.vacant) = 0
  BY <1>2
<1>7. s.slab[k] = NoTask
  <2>1. CASE s.vacant = <<>>
    BY <1>1, <1>2, <1>5, <2>1 DEF SlotsOK
  <2>2. CASE s.vacant # <<>>
    <3>1. 1 \in DOMAIN s.vacant /\ s.vacant[1] = k
      BY <1>2, <1>5, <1>6, <2>2
    <3> QED  BY <1>1, <3>1 DEF SlotsOK, VacantOf
  <2> QED  BY <2>1, <2>2
<1>8. /\ after.slab \in [Keys -> T \cup {NoTask}]
      /\ \A i \in Keys : after.slab[i] = IF i = k THEN t ELSE s.slab[i]
  BY <1>1, <1>2, <1>3
<1>9. Shaped(after, T)
  <2>1. after.vacant \in Seq(Keys)
    BY <1>2, <1>3
  <2>2. after.fresh \in 0..MaxKeys
    BY <1>1, <1>2, <1>3, <1>5
  <2>3. after.notified \subseteq Keys /\ after.completed \subseteq Keys /\ after.dropped \subseteq Keys
    BY <1>1, <1>2, <1>3
  <2> QED  BY <1>3, <1>8, <2>1, <2>2, <2>3 DEF Shaped
<1>10. \A i \in Keys : s.slab[i] # t
  BY <1>4, TasksAre
<1>11. \A i, j \in Keys : after.slab[i] # NoTask /\ after.slab[i] = after.slab[j] => i = j
  BY <1>8, <1>10 DEF SlotsOK
<1>12. \A i \in Keys : i >= after.fresh => after.slab[i] = NoTask
  <2> SUFFICES ASSUME NEW i \in Keys, i >= after.fresh PROVE after.slab[i] = NoTask
    OBVIOUS
  <2>0. i \in Nat
    BY DEF Keys, SchedulerAssumption
  <2>1. CASE s.vacant = <<>>
    <3>1. i >= s.fresh /\ i # k
      BY <1>2, <1>3, <1>5, <2>0, <2>1
    <3> QED  BY <1>8, <3>1 DEF SlotsOK
  <2>2. CASE s.vacant # <<>>
    <3>1. 1 \in DOMAIN s.vacant /\ s.vacant[1] = k
      BY <1>2, <1>5, <1>6, <2>2
    <3>2. k < s.fresh
      BY <1>1, <3>1 DEF SlotsOK, VacantOf
    <3>3. i # k /\ i >= s.fresh
      BY <1>1, <1>2, <1>3, <2>0, <2>2, <3>2
    <3> QED  BY <1>8, <3>3 DEF SlotsOK
  <2> QED  BY <2>1, <2>2
<1>13. VacantOf(after)
  <2>1. CASE s.vacant = <<>>
    <3>1. after.vacant = <<>> /\ DOMAIN after.vacant = {}
      BY <1>3, <2>1
    <3>2. ASSUME NEW i \in Keys PROVE ~(i < after.fresh /\ after.slab[i] = NoTask)
      <4>1. i \in Nat
        BY DEF Keys, SchedulerAssumption
      <4>2. i < s.fresh => s.slab[i] # NoTask
        BY <1>6, <2>1 DEF SlotsOK, VacantOf
      <4>3. i < after.fresh => i < s.fresh \/ i = k
        BY <1>2, <1>3, <1>5, <2>1, <4>1
      <4> QED  BY <1>4, <1>8, <4>2, <4>3
    <3> QED  BY <3>1, <3>2 DEF VacantOf
  <2>2. CASE s.vacant # <<>>
    <3> DEFINE v == s.vacant
               w == after.vacant
    <3>1. /\ w = Tail(v) /\ v \in Seq(Keys) /\ Len(v) > 0 /\ v[1] = k
      BY <1>2, <1>3, <1>5, <1>6, <2>2
    <3>2. after.fresh = s.fresh
      BY <1>3, <2>2
    <3>3. /\ \A i, j \in DOMAIN v : v[i] = v[j] => i = j
          /\ \A i \in Keys : (\E m \in DOMAIN v : v[m] = i) <=> i < s.fresh /\ s.slab[i] = NoTask
      BY DEF SlotsOK, VacantOf
    <3> HIDE DEF v, w
    <3>4. /\ DOMAIN v = 1..Len(v) /\ DOMAIN w = 1..(Len(v) - 1) /\ Len(v) \in Nat
          /\ \A i \in 1..(Len(v) - 1) : w[i] = v[i + 1]
      BY <3>1
    <3>5. \A i, j \in DOMAIN w : w[i] = w[j] => i = j
      <4> SUFFICES ASSUME NEW i \in DOMAIN w, NEW j \in DOMAIN w, w[i] = w[j] PROVE i = j
        OBVIOUS
      <4>1. i + 1 \in DOMAIN v /\ j + 1 \in DOMAIN v /\ v[i + 1] = v[j + 1] /\ i \in Int /\ j \in Int
        BY <3>4
      <4>2. i + 1 = j + 1
        BY <3>3, <4>1
      <4> QED  BY <4>1, <4>2
    <3>6. ASSUME NEW i \in Keys
          PROVE  (\E m \in DOMAIN w : w[m] = i) <=> (\E m \in DOMAIN v : v[m] = i) /\ i # k
      <4>1. ASSUME NEW m \in DOMAIN w, w[m] = i PROVE (\E x \in DOMAIN v : v[x] = i) /\ i # k
        <5>1. m + 1 \in DOMAIN v /\ v[m + 1] = i /\ 1 \in DOMAIN v /\ m + 1 # 1
          BY <3>4, <4>1
        <5> QED  BY <3>1, <3>3, <5>1
      <4>2. ASSUME NEW m \in DOMAIN v, v[m] = i, i # k PROVE \E x \in DOMAIN w : w[x] = i
        <5>1. m # 1
          BY <3>1, <4>2
        <5>2. m - 1 \in DOMAIN w /\ (m - 1) + 1 = m
          BY <3>4, <5>1
        <5>3. w[m - 1] = i
          BY <3>4, <4>2, <5>2
        <5> QED  BY <5>2, <5>3
      <4> QED  BY <4>1, <4>2
    <3>7. \A i \in Keys : (\E m \in DOMAIN w : w[m] = i) <=> i < after.fresh /\ after.slab[i] = NoTask
      BY <1>4, <1>8, <3>2, <3>3, <3>6
    <3> QED  BY <3>5, <3>7 DEF VacantOf, w
  <2> QED  BY <2>1, <2>2
<1>14. SlotsOK(after)
  BY <1>11, <1>12, <1>13 DEF SlotsOK
<1> QED  BY <1>1, <1>3, <1>7, <1>9, <1>14 DEF k, after

(* A task leaves its slot, which is the next to be used, and its flags go.  *)
Emptied(s, k, after) ==
  /\ after.slab = [s.slab EXCEPT ![k] = NoTask]
  /\ after.vacant = <<k>> \o s.vacant
  /\ after.fresh = s.fresh
  /\ after.notified = s.notified \ {k}
  /\ after.completed = s.completed \ {k} /\ after.dropped = s.dropped \ {k}

(* The flags of a slot are cleared.                                         *)
LEMMA SlotCleared ==
  ASSUME NEW T, NEW s, Shaped(s, T), NEW k
  PROVE  /\ Shaped(Clear(s, k), T)
         /\ Clear(s, k).slab = s.slab /\ Clear(s, k).vacant = s.vacant
         /\ Clear(s, k).fresh = s.fresh
         /\ Clear(s, k).notified = s.notified \ {k}
         /\ Clear(s, k).completed = s.completed \ {k}
         /\ Clear(s, k).dropped = s.dropped \ {k}
BY DEF Clear, Shaped

(* Who is removed has no slot; the slot is vacant.                          *)
LEMMA SlotRemoved ==
  ASSUME NEW T, NEW s, Shaped(s, T), NEW k \in Keys, s.slab[k] # NoTask
  PROVE  /\ Shaped(Remove(s, k), T)
         /\ Remove(s, k).slab = [s.slab EXCEPT ![k] = NoTask]
         /\ Remove(s, k).vacant = <<k>> \o s.vacant
         /\ Remove(s, k).fresh = s.fresh
         /\ Remove(s, k).notified = s.notified
         /\ Remove(s, k).completed = s.completed
         /\ Remove(s, k).dropped = s.dropped
<1>1. s.slab \in [Keys -> T \cup {NoTask}] /\ s.vacant \in Seq(Keys)
  BY DEF Shaped
<1>2. [s.slab EXCEPT ![k] = NoTask] \in [Keys -> T \cup {NoTask}] /\ <<k>> \o s.vacant \in Seq(Keys)
  BY <1>1
<1> QED  BY <1>2 DEF Remove, Shaped

(* Some slots emptied one after the other, as a function of the slots that  *)
(* are left.                                                                *)
LEMMA SlotEmptied ==
  ASSUME SchedulerAssumption, NEW T, NoTask \notin T,
         NEW s, Shaped(s, T), SlotsOK(s), NEW k \in Keys, s.slab[k] # NoTask
  PROVE  /\ Shaped(Take(s, k), T) /\ Emptied(s, k, Take(s, k))
         /\ Shaped(Clear(Remove(s, k), k), T) /\ Emptied(s, k, Clear(Remove(s, k), k))
         /\ \A after : Emptied(s, k, after) => SlotsOK(after)
<1>2. /\ s.slab \in [Keys -> T \cup {NoTask}] /\ s.vacant \in Seq(Keys) /\ s.fresh \in 0..MaxKeys
      /\ s.notified \subseteq Keys /\ s.completed \subseteq Keys /\ s.dropped \subseteq Keys
  BY DEF Shaped
<1>3. Shaped(Take(s, k), T) /\ Emptied(s, k, Take(s, k))
  <2> DEFINE x == Clear(s, k)
  <2>1. /\ Shaped(x, T) /\ x.slab = s.slab /\ x.vacant = s.vacant /\ x.fresh = s.fresh
        /\ x.notified = s.notified \ {k} /\ x.completed = s.completed \ {k}
        /\ x.dropped = s.dropped \ {k}
    BY SlotCleared
  <2>2. Take(s, k) = Remove(x, k)
    BY DEF Take
  <2> HIDE DEF x
  <2>3. x.slab[k] # NoTask
    BY <2>1
  <2>4. /\ Shaped(Remove(x, k), T)
        /\ Remove(x, k).slab = [x.slab EXCEPT ![k] = NoTask]
        /\ Remove(x, k).vacant = <<k>> \o x.vacant
        /\ Remove(x, k).fresh = x.fresh
        /\ Remove(x, k).notified = x.notified
        /\ Remove(x, k).completed = x.completed
        /\ Remove(x, k).dropped = x.dropped
    BY <2>1, <2>3, SlotRemoved
  <2> QED  BY <2>1, <2>2, <2>4 DEF Emptied
<1>5. Shaped(Clear(Remove(s, k), k), T) /\ Emptied(s, k, Clear(Remove(s, k), k))
  BY SlotCleared, SlotRemoved DEF Emptied
<1>4. ASSUME NEW after, Emptied(s, k, after) PROVE SlotsOK(after)
  <2>1. /\ after.slab = [s.slab EXCEPT ![k] = NoTask]
        /\ after.vacant = <<k>> \o s.vacant
        /\ after.fresh = s.fresh
        /\ after.notified = s.notified \ {k}
        /\ after.completed = s.completed \ {k} /\ after.dropped = s.dropped \ {k}
    BY <1>4 DEF Emptied
  <2>3. \A i \in Keys : after.slab[i] = IF i = k THEN NoTask ELSE s.slab[i]
    BY <1>2, <2>1
  <2>4. k < s.fresh
    <3>1. k \in Nat
      BY DEF Keys, SchedulerAssumption
    <3> QED  BY <1>2, <3>1 DEF SlotsOK
  <2> DEFINE v == s.vacant
             w == after.vacant
  <2>5. w = <<k>> \o v /\ v \in Seq(Keys)
    BY <1>2, <2>1
  <2>6. /\ \A i, j \in DOMAIN v : v[i] = v[j] => i = j
        /\ \A i \in Keys : (\E m \in DOMAIN v : v[m] = i) <=> i < s.fresh /\ s.slab[i] = NoTask
    BY DEF SlotsOK, VacantOf
  <2> HIDE DEF v, w
  <2>7. /\ DOMAIN v = 1..Len(v) /\ DOMAIN w = 1..(Len(v) + 1) /\ Len(v) \in Nat
        /\ w[1] = k /\ \A i \in 1..Len(v) : w[i + 1] = v[i]
    BY <2>5
  <2>8. \A i \in DOMAIN w : i = 1 \/ (i - 1 \in DOMAIN v /\ w[i] = v[i - 1] /\ i - 1 + 1 = i)
    <3> SUFFICES ASSUME NEW i \in DOMAIN w, i # 1
                 PROVE  i - 1 \in DOMAIN v /\ w[i] = v[i - 1] /\ i - 1 + 1 = i
      OBVIOUS
    <3>1. i - 1 \in 1..Len(v) /\ i - 1 + 1 = i
      BY <2>7
    <3> QED  BY <2>7, <3>1
  <2>9. \A m \in DOMAIN v : v[m] # k
    BY <2>6
  <2>10. \A i, j \in DOMAIN w : w[i] = w[j] => i = j
    <3> SUFFICES ASSUME NEW i \in DOMAIN w, NEW j \in DOMAIN w, w[i] = w[j] PROVE i = j
      OBVIOUS
    <3>1. CASE i = 1 \/ j = 1
      BY <2>7, <2>8, <2>9, <3>1
    <3>2. CASE i # 1 /\ j # 1
      <4>1. i - 1 = j - 1
        BY <2>6, <2>8, <3>2
      <4> QED  BY <2>8, <3>2, <4>1
    <3> QED  BY <3>1, <3>2
  <2>11. ASSUME NEW i \in Keys
         PROVE  (\E m \in DOMAIN w : w[m] = i) <=> (\E m \in DOMAIN v : v[m] = i) \/ i = k
    <3>1. ASSUME NEW m \in DOMAIN w, w[m] = i PROVE (\E x \in DOMAIN v : v[x] = i) \/ i = k
      BY <2>7, <2>8, <3>1
    <3>2. ASSUME NEW m \in DOMAIN v, v[m] = i PROVE \E x \in DOMAIN w : w[x] = i
      <4>1. m + 1 \in DOMAIN w /\ w[m + 1] = i
        BY <2>7, <3>2
      <4> QED  BY <4>1
    <3>3. 1 \in DOMAIN w
      BY <2>7
    <3> QED  BY <2>7, <3>1, <3>2, <3>3
  <2>12. VacantOf(after)
    BY <2>1, <2>3, <2>4, <2>6, <2>10, <2>11 DEF VacantOf, w
  <2> QED  BY <2>1, <2>3, <2>12 DEF SlotsOK
<1> QED  BY <1>3, <1>4, <1>5

(* The end of a page: the slots of its dropped tasks are emptied, the first *)
(* one excepted.                                                            *)
AreFreed(s, T, G, after) ==
  /\ Shaped(after, T) /\ SlotsOK(after)
  /\ \A k \in Keys : after.slab[k] = IF k \in G THEN NoTask ELSE s.slab[k]
  /\ after.notified = s.notified \ G
  /\ after.completed = s.completed \ G /\ after.dropped = s.dropped \ G

(* What is emptied at the end of a page, whatever the order.                *)
LEMMA SlotsFreed ==
  ASSUME SchedulerAssumption, NEW T, NoTask \notin T,
         NEW s, Shaped(s, T), SlotsOK(s), NEW p, NEW gone \in SUBSET PageKeys(p),
         gone \subseteq Occupied(s)
  PROVE  AreFreed(s, T, Freed(gone), FreeDropped(s, gone))
<1> DEFINE at(n) == {k \in Freed(gone) : SubPage(k) = n - 1}
           F(n, x) == IF at(n) = {} THEN x
                      ELSE LET k == CHOOSE k \in at(n) : TRUE IN Clear(Remove(x, k), k)
           Is(f, m) == f = [n \in 0..m |-> IF n = 0 THEN s ELSE F(n, f[n - 1])]
           f == CHOOSE g : Is(g, PageSize)
           G(n) == {k \in Freed(gone) : SubPage(k) < n}
<1>0. PageSize \in Nat \ {0}
  BY DEF SchedulerAssumption
<1>1. FreeDropped(s, gone) = f[PageSize]
  BY Zenon DEF FreeDropped
<1>2. /\ Freed(gone) \subseteq Keys
      /\ \A k \in Freed(gone) : s.slab[k] # NoTask
      /\ \A k, j \in Freed(gone) : SubPage(k) = SubPage(j) => k = j
  <2>1. \A k \in Freed(gone) : k \in Keys /\ PageOf(k) = p /\ s.slab[k] # NoTask
    BY DEF Freed, PageKeys, Occupied
  <2> QED  BY <2>1, SubPages
<1>3. ASSUME NEW n \in Nat, NEW x, AreFreed(s, T, G(n), x)
      PROVE  AreFreed(s, T, G(n + 1), F(n + 1, x))
  <2>1. G(n + 1) = G(n) \cup at(n + 1)
    BY <1>2, SubPages
  <2>2. CASE at(n + 1) = {}
    BY <1>3, <2>1, <2>2
  <2>3. CASE at(n + 1) # {}
    <3> DEFINE k == CHOOSE k \in at(n + 1) : TRUE
               after == Clear(Remove(x, k), k)
    <3>1. k \in at(n + 1)
      BY <2>3
    <3>2. F(n + 1, x) = after
      BY <2>3
    <3> HIDE DEF k, after, F
    <3>3. k \in Keys /\ s.slab[k] # NoTask /\ k \notin G(n) /\ at(n + 1) = {k}
      BY <1>2, <3>1, SubPages
    <3>4. G(n + 1) = G(n) \cup {k}
      BY <2>1, <3>3
    <3> HIDE DEF G, at
    <3>5. Shaped(x, T) /\ SlotsOK(x) /\ x.slab[k] # NoTask /\ x.slab \in [Keys -> T \cup {NoTask}]
      BY <1>3, <3>3 DEF AreFreed, Shaped
    <3>6. Shaped(after, T) /\ Emptied(x, k, after) /\ SlotsOK(after)
      BY <3>3, <3>5, SlotEmptied DEF after
    <3>7. \A i \in Keys : after.slab[i] = IF i = k THEN NoTask ELSE x.slab[i]
      BY <3>5, <3>6 DEF Emptied
    <3>8. \A i \in Keys : after.slab[i] = IF i \in G(n + 1) THEN NoTask ELSE s.slab[i]
      BY <1>3, <3>4, <3>7 DEF AreFreed
    <3> QED  BY <1>3, <3>2, <3>4, <3>6, <3>8 DEF AreFreed, Emptied
  <2> QED  BY <2>2, <2>3
<1> HIDE DEF F
<1>4. ASSUME NEW g, NEW m \in Nat, Is(g, m)
      PROVE  /\ g[0] = s /\ \A n \in 1..m : g[n] = F(n, g[n - 1])
             /\ g = [n \in 0..m |-> g[n]]
  <2>1. 0 \in 0..m /\ \A n \in 1..m : n \in 0..m /\ n # 0
    BY <1>4
  <2>2. \A n \in 0..m : g[n] = IF n = 0 THEN s ELSE F(n, g[n - 1])
    BY <1>4
  <2>3. g = [n \in 0..m |-> g[n]]
    BY <1>4
  <2>4. g[0] = s
    BY <2>1, <2>2
  <2>5. \A n \in 1..m : g[n] = F(n, g[n - 1])
    BY <2>1, <2>2
  <2> QED  BY <2>3, <2>4, <2>5
<1>5. \E g : Is(g, PageSize)
  <2> DEFINE S == {m \in Nat : \E g : Is(g, m)}
  <2>1. 0 \in S
    <3>1. Is([n \in 0..0 |-> s], 0)
      OBVIOUS
    <3> QED  BY <3>1
  <2>2. ASSUME NEW m \in Nat, m \in S PROVE m + 1 \in S
    <3>1. PICK g : Is(g, m)
      BY <2>2
    <3> DEFINE last == F(m + 1, g[m])
               h == [n \in 0..(m + 1) |-> IF n = m + 1 THEN last ELSE g[n]]
    <3>2. g[0] = s /\ \A n \in 1..m : g[n] = F(n, g[n - 1])
      BY <1>4, <3>1
    <3>3. h[0] = s /\ h[m + 1] = F(m + 1, h[m])
      BY <3>2
    <3>4. ASSUME NEW n \in 1..m PROVE h[n] = F(n, h[n - 1])
      <4>1. n \in 0..(m + 1) /\ n - 1 \in 0..(m + 1) /\ n # m + 1 /\ n - 1 # m + 1
        OBVIOUS
      <4>2. h[n] = g[n] /\ h[n - 1] = g[n - 1]
        BY <4>1
      <4> HIDE DEF h
      <4> QED  BY <3>2, <4>2
    <3>5. h = [n \in 0..(m + 1) |-> h[n]]
      OBVIOUS
    <3> HIDE DEF h
    <3>6. \A n \in 0..(m + 1) : h[n] = IF n = 0 THEN s ELSE F(n, h[n - 1])
      <4>1. \A n \in 0..(m + 1) : n = 0 \/ (n # 0 /\ (n \in 1..m \/ (n = m + 1 /\ n - 1 = m)))
        OBVIOUS
      <4> QED  BY <3>3, <3>4, <4>1
    <3>7. Is(h, m + 1)
      BY <3>5, <3>6
    <3> QED  BY <3>7
  <2> HIDE DEF S
  <2>3. Nat \subseteq S
    BY <2>1, <2>2, Induction
  <2> QED  BY <1>0, <2>3 DEF S
<1>6. Is(f, PageSize)
  BY <1>5
<1> HIDE DEF f, Is
<1>7. /\ f[0] = s /\ \A n \in 1..PageSize : f[n] = F(n, f[n - 1])
  BY <1>0, <1>4, <1>6
<1>8. AreFreed(s, T, G(0), s)
  <2>1. G(0) = {}
    BY <1>2, SubPages
  <2> QED  BY <2>1 DEF AreFreed
<1>9. AreFreed(s, T, G(PageSize), f[PageSize])
  <2> DEFINE S == {n \in Nat : n \in 0..PageSize => AreFreed(s, T, G(n), f[n])}
  <2> HIDE DEF G
  <2>1. 0 \in S
    BY <1>7, <1>8
  <2>2. ASSUME NEW n \in Nat, n \in S PROVE n + 1 \in S
    <3> SUFFICES ASSUME n + 1 \in 0..PageSize PROVE AreFreed(s, T, G(n + 1), f[n + 1])
      OBVIOUS
    <3>1. n \in 0..PageSize /\ n + 1 \in 1..PageSize /\ (n + 1) - 1 = n
      BY <1>0
    <3>2. AreFreed(s, T, G(n), f[n]) /\ f[n + 1] = F(n + 1, f[n])
      BY <1>7, <2>2, <3>1
    <3> QED  BY <1>3, <3>2
  <2> HIDE DEF S
  <2>3. Nat \subseteq S
    BY <2>1, <2>2, Induction
  <2> QED  BY <1>0, <2>3 DEF S
<1>10. G(PageSize) = Freed(gone)
  BY <1>0, <1>2, SubPages
<1> QED  BY <1>1, <1>9, <1>10
-----------------------------------------------------------------------------

(* No program pushes in two ways: two operations on a queue could then send *)
(* in either order.                                                         *)
OnePush == \A p \in Programs : ~({"push", "pushto"} \subseteq p)

(* The numbers. *)
LEMMA Bounds ==
  /\ SchedulerAssumption /\ NoTask \notin Operations
  /\ MaxKeys \in Nat /\ MaxQds \in Nat /\ MaxOps \in Nat /\ MaxSent \in Nat /\ PushLen \in Nat
  /\ MaxFds \in Nat \ {0} /\ MaxSocks \in Nat \ {0} /\ Backlog \in Nat \ {0} /\ SendRoom \in Nat \ {0}
  /\ Socks \subseteq Nat \ {0} /\ Fds \subseteq Nat \ {0} /\ NoSock \notin Socks /\ NoFd \notin Fds
  /\ Keys \subseteq Nat /\ QDs \subseteq Nat /\ Ids \subseteq Nat \ {0}
  /\ NoKey \notin Keys /\ NoKey \notin QDs /\ NoSock = 0 /\ NoFd = 0
BY LibOSAssumption, KernelAssumption
   DEF SchedulerAssumption, Socks, Fds, NoSock, NoFd, Keys, QDs, Ids, NoKey

LEMMA LeastIs ==
  ASSUME NEW S \in SUBSET Nat, S # {}
  PROVE  Least(S) \in S /\ \A x \in S : Least(S) <= x
<1>1. \E x \in S : \A y \in S : x <= y
  BY LeastNumber
<1> QED  BY <1>1 DEF Least
-----------------------------------------------------------------------------
(* The kernel. *)

SockRecs == [state : SocketStates, typ : {"stream", "dgram"}, queue : Seq(Socks), sent : Nat,
             read : Nat, eof : BOOLEAN, wire : Seq(Ids), room : Nat]

KernelOK(k) ==
  /\ k \in [file : [Fds -> Socks \cup {NoSock}], sock : [Socks -> SockRecs]]
  /\ \A s \in Socks : k.sock[s].read <= k.sock[s].sent

Unmade(k, s) == k.sock[s].state = "unused"
SameQueue(k, k2, s) == k2.sock[s].queue = k.sock[s].queue
SameWire(k, k2, s) == k2.sock[s].wire = k.sock[s].wire
SameRead(k, k2, s) == k2.sock[s].read = k.sock[s].read
SameMade(k, k2, s) == Unmade(k2, s) <=> Unmade(k, s)

Quiet(k, k2) ==
  /\ KernelOK(k2) /\ k2.file = k.file
  /\ \A s \in Socks : SameQueue(k, k2, s) /\ SameWire(k, k2, s) /\ SameRead(k, k2, s) /\ SameMade(k, k2, s)

(* What a system call of an operation may come to. *)
Nothing(k, op, r) ==
  /\ Quiet(k, r.kernel)
  /\ r.is = "ok" => op.kind # "accept" /\ op.kind # "pop"
Accepted(k, op, r) ==
  LET l == k.file[op.fd] IN
  /\ op.kind = "accept" /\ r.is = "ok" /\ KernelOK(r.kernel)
  /\ l \in Socks /\ k.sock[l].queue # <<>>
  /\ r.value \in Fds /\ k.file[r.value] = NoSock
  /\ r.kernel.file = [k.file EXCEPT ![r.value] = Head(k.sock[l].queue)]
  /\ \A s \in Socks : SameWire(k, r.kernel, s) /\ SameRead(k, r.kernel, s) /\ SameMade(k, r.kernel, s)
  /\ \A s \in Socks : r.kernel.sock[s].queue = IF s = l THEN Tail(k.sock[s].queue) ELSE k.sock[s].queue
Received(k, op, r) ==
  LET s == k.file[op.fd] IN
  /\ op.kind = "pop" /\ r.is = "ok" /\ KernelOK(r.kernel) /\ r.kernel.file = k.file
  /\ s \in Socks /\ r.value = <<s, k.sock[s].read + 1, r.kernel.sock[s].read>>
  /\ \A t \in Socks : SameQueue(k, r.kernel, t) /\ SameWire(k, r.kernel, t) /\ SameMade(k, r.kernel, t)
  /\ \A t \in Socks : t # s => SameRead(k, r.kernel, t)
Sent(k, op, r) ==
  LET s == k.file[op.fd] IN
  /\ op.kind \in {"push", "pushto"} /\ r.is = "ok" /\ KernelOK(r.kernel) /\ r.kernel.file = k.file
  /\ s \in Socks
  /\ \A t \in Socks : SameQueue(k, r.kernel, t) /\ SameRead(k, r.kernel, t) /\ SameMade(k, r.kernel, t)
  /\ \A t \in Socks : r.kernel.sock[t].wire = IF t = s THEN Append(k.sock[t].wire, op.id) ELSE k.sock[t].wire

Outcome(k, op, r) ==
  /\ r.is \in {"pending", "ok", "failed"} /\ r.value \in Values
  /\ Nothing(k, op, r) \/ Accepted(k, op, r) \/ Received(k, op, r) \/ Sent(k, op, r)

(* The fields of a socket. *)
LEMMA FieldsOf ==
  ASSUME NEW c \in SockRecs
  PROVE  /\ c.state \in SocketStates /\ c.typ \in {"stream", "dgram"} /\ c.queue \in Seq(Socks)
         /\ c.sent \in Nat /\ c.read \in Nat /\ c.eof \in BOOLEAN /\ c.wire \in Seq(Ids) /\ c.room \in Nat
BY DEF SockRecs

(* One socket changes. *)
Edited(k, k2, s, r) ==
  /\ KernelOK(k2) /\ k2.file = k.file
  /\ \A t \in Socks : k2.sock[t] = IF t = s THEN r ELSE k.sock[t]

LEMMA EditIs ==
  ASSUME NEW k, KernelOK(k), NEW s \in Socks, NEW r \in SockRecs, r.read <= r.sent
  PROVE  Edited(k, [k EXCEPT !.sock[s] = r], s, r)
BY DEF KernelOK, Edited

LEMMA SetStateIs ==
  ASSUME NEW k, KernelOK(k), NEW s \in Socks, ~Unmade(k, s), NEW x \in SocketStates, x # "unused"
  PROVE  Quiet(k, SetState(k, s, x))
<1> DEFINE k2 == SetState(k, s, x)
           r == [k.sock[s] EXCEPT !.state = x]
<1>1. k2 = [k EXCEPT !.sock[s] = r]
  BY DEF SetState
<1>2. /\ r \in SockRecs /\ r.state = x /\ r.queue = k.sock[s].queue /\ r.wire = k.sock[s].wire
      /\ r.read = k.sock[s].read /\ r.sent = k.sock[s].sent
  BY DEF KernelOK, SockRecs
<1> HIDE DEF k2, r
<1>3. Edited(k, k2, s, r)
  BY <1>1, <1>2, EditIs DEF KernelOK
<1> QED  BY <1>2, <1>3 DEF Edited, Quiet, SameQueue, SameWire, SameRead, SameMade, Unmade, k2

LEMMA StaysQuiet ==
  ASSUME NEW k, KernelOK(k)
  PROVE  Quiet(k, k)
BY DEF Quiet, SameQueue, SameWire, SameRead, SameMade

LEMMA SysAcceptIs ==
  ASSUME NEW k, KernelOK(k), NEW op \in Operations, op.fd \in Fds, op.kind = "accept"
  PROVE  Outcome(k, op, SysAccept(k, op.fd))
<1> DEFINE f == op.fd
           l == k.file[f]
           r == SysAccept(k, f)
           n == Least(FreeFds(k))
           e == [k.sock[l] EXCEPT !.queue = Tail(@)]
           k2 == [k EXCEPT !.file[n] = Head(k.sock[l].queue), !.sock[l].queue = Tail(@)]
<1>1. NoFd \in Values
  BY DEF Values, NoFd
<1>2. CASE r = Error(k) \/ r = Again(k)
  BY <1>1, <1>2, StaysQuiet DEF Error, Again, Outcome, Nothing
<1>3. CASE ~(r = Error(k) \/ r = Again(k))
  <2>1. /\ StateOf(k, f) = "listening" /\ k.sock[l].queue # <<>> /\ FreeFds(k) # {}
        /\ r = Ok(k2, n)
    BY <1>3 DEF SysAccept, Named
  <2>2. l \in Socks /\ l # NoSock /\ k.sock[l] \in SockRecs
    BY <2>1, Bounds DEF StateOf, KernelOK
  <2>3. n \in Fds /\ k.file[n] = NoSock /\ n \in Values
    <3>1. FreeFds(k) \in SUBSET Nat
      BY Bounds DEF FreeFds
    <3> QED  BY <2>1, <3>1, Bounds, LeastIs DEF FreeFds, Values
  <2>4. Head(k.sock[l].queue) \in Socks /\ Tail(k.sock[l].queue) \in Seq(Socks)
    BY <2>1, <2>2 DEF SockRecs
  <2>5. /\ e \in SockRecs /\ e.queue = Tail(k.sock[l].queue) /\ e.wire = k.sock[l].wire
        /\ e.read = k.sock[l].read /\ e.sent = k.sock[l].sent /\ e.state = k.sock[l].state
    BY <2>2, <2>4 DEF SockRecs
  <2>6. /\ k2.file = [k.file EXCEPT ![n] = Head(k.sock[l].queue)]
        /\ k2.sock = [k.sock EXCEPT ![l] = e]
        /\ k2 \in [file : [Fds -> Socks \cup {NoSock}], sock : [Socks -> SockRecs]]
    <3>1. [k.file EXCEPT ![n] = Head(k.sock[l].queue)] \in [Fds -> Socks \cup {NoSock}]
      BY <2>3, <2>4 DEF KernelOK
    <3>2. [k.sock EXCEPT ![l] = e] \in [Socks -> SockRecs]
      BY <2>2, <2>5 DEF KernelOK
    <3> QED  BY <3>1, <3>2 DEF KernelOK
  <2> HIDE DEF n, e, k2
  <2>7. \A s \in Socks : k2.sock[s] = IF s = l THEN e ELSE k.sock[s]
    BY <2>2, <2>6 DEF KernelOK
  <2>8. KernelOK(k2)
    BY <2>5, <2>6, <2>7 DEF KernelOK
  <2>9. r.is = "ok" /\ r.value = n /\ r.kernel = k2
    BY <2>1 DEF Ok
  <2> HIDE DEF r, l
  <2>10. Accepted(k, op, r)
    BY <2>1, <2>2, <2>3, <2>5, <2>6, <2>7, <2>8, <2>9
       DEF Accepted, SameWire, SameRead, SameMade, Unmade, l
  <2> QED  BY <2>3, <2>9, <2>10 DEF Outcome, r
<1> QED  BY <1>2, <1>3

LEMMA SysConnectIs ==
  ASSUME NEW k, KernelOK(k), NEW op \in Operations, op.fd \in Fds, op.kind = "connect"
  PROVE  Outcome(k, op, SysConnect(k, op.fd))
<1> DEFINE f == op.fd
           s == k.file[f]
           r == SysConnect(k, f)
<1>1. NoFd \in Values
  BY DEF Values, NoFd
<1>2. CASE r = Again(k) \/ r = Error(k)
  BY <1>1, <1>2, StaysQuiet DEF Error, Again, Outcome, Nothing
<1>3. CASE ~(r = Again(k) \/ r = Error(k))
  <2>1. /\ StateOf(k, f) \in {"new", "bound", "answered", "refused"}
        /\ \/ r = Again(SetState(k, s, "connecting"))
           \/ r = Ok(SetState(k, s, "connected"), NoFd)
           \/ r = Error(SetState(k, s, "new"))
    BY <1>3 DEF SysConnect, Named
  <2>2. s \in Socks /\ ~Unmade(k, s)
    BY <2>1, Bounds DEF StateOf, KernelOK, Unmade
  <2> HIDE DEF r, s
  <2>3. \A x \in {"connecting", "connected", "new"} : Quiet(k, SetState(k, s, x))
    BY <2>2, SetStateIs DEF SocketStates
  <2> QED  BY <1>1, <2>1, <2>3 DEF Again, Ok, Error, Outcome, Nothing, r
<1> QED  BY <1>2, <1>3

LEMMA SysRecvIs ==
  ASSUME NEW k, KernelOK(k), NEW op \in Operations, op.fd \in Fds, op.kind = "pop"
  PROVE  Outcome(k, op, SysRecv(k, op.fd))
<1> DEFINE f == op.fd
           s == k.file[f]
           r == SysRecv(k, f)
           c == k.sock[s]
           upto == IF c.typ = "dgram" THEN c.read + 1 ELSE c.sent
           e == [c EXCEPT !.read = upto]
<1>1. NoFd \in Values
  BY DEF Values, NoFd
<1>2. CASE r = Again(k) \/ r = Error(k)
  BY <1>1, <1>2, StaysQuiet DEF Error, Again, Outcome, Nothing
<1>3. CASE ~(r = Again(k) \/ r = Error(k))
  <2>1. /\ Receives(k, f)
        /\ \/ c.read < c.sent /\ r = Ok([k EXCEPT !.sock[s].read = upto], <<s, c.read + 1, upto>>)
           \/ ~(c.read < c.sent) /\ r = Ok(k, <<s, c.sent + 1, c.sent>>)
    BY <1>3 DEF SysRecv, Named
  <2>2. s \in Socks /\ c \in SockRecs /\ c.read <= c.sent /\ c.read \in Nat /\ c.sent \in Nat
    BY <2>1, Bounds DEF Receives, StateOf, KernelOK, SockRecs
  <2>3. CASE c.read < c.sent
    <3>1. upto \in Nat /\ upto <= c.sent
      BY <2>2, <2>3
    <3> HIDE DEF upto
    <3>2. /\ e \in SockRecs /\ e.read = upto /\ e.sent = c.sent /\ e.queue = c.queue /\ e.wire = c.wire
          /\ e.state = c.state
      BY <2>2, <3>1 DEF SockRecs
    <3> DEFINE k2 == [k EXCEPT !.sock[s] = e]
    <3>3. r = Ok(k2, <<s, c.read + 1, upto>>)
      BY <2>1, <2>3
    <3> HIDE DEF r, e, c, s
    <3>4. Edited(k, k2, s, e)
      BY <2>2, <3>1, <3>2, EditIs
    <3> HIDE DEF k2
    <3>5. Received(k, op, r)
      BY <2>2, <3>2, <3>3, <3>4
         DEF Received, Edited, Ok, SameQueue, SameWire, SameRead, SameMade, Unmade, s, c
    <3>6. r.value \in Values /\ r.is = "ok"
      BY <2>2, <3>1, <3>3 DEF Ok, Values
    <3> QED  BY <3>5, <3>6 DEF Outcome, r
  <2>4. CASE ~(c.read < c.sent)
    <3>1. c.read = c.sent /\ r = Ok(k, <<s, c.read + 1, c.read>>)
      BY <2>1, <2>2, <2>4
    <3> HIDE DEF r, c, s
    <3>2. Received(k, op, r)
      BY <2>2, <3>1 DEF Received, Ok, SameQueue, SameWire, SameRead, SameMade, Unmade, s, c
    <3>3. r.value \in Values /\ r.is = "ok"
      BY <2>2, <3>1 DEF Ok, Values
    <3> QED  BY <3>2, <3>3 DEF Outcome, r
  <2> QED  BY <2>3, <2>4
<1> QED  BY <1>2, <1>3

(* A socket sends. *)
LEMMA SendingIs ==
  ASSUME NEW k, KernelOK(k), NEW op \in Operations, op.fd \in Fds, op.kind \in {"push", "pushto"},
         NEW s, s = k.file[op.fd], s \in Socks, NEW room \in Nat, NEW r,
         NEW v \in Nat, r = Ok([k EXCEPT !.sock[s].wire = Append(@, op.id), !.sock[s].room = room], v)
  PROVE  Outcome(k, op, r)
<1> DEFINE c == k.sock[s]
           e == [c EXCEPT !.wire = Append(@, op.id), !.room = room]
           k2 == [k EXCEPT !.sock[s] = e]
<1>1. c \in SockRecs /\ op.id \in Ids /\ c.read <= c.sent
  BY DEF KernelOK, Operations
<1> HIDE DEF c
<1>0. Append(c.wire, op.id) \in Seq(Ids)
  BY <1>1, FieldsOf
<1>2. /\ e \in SockRecs /\ e.read = c.read /\ e.sent = c.sent /\ e.queue = c.queue
      /\ e.wire = Append(c.wire, op.id) /\ e.state = c.state
  BY <1>0, <1>1 DEF SockRecs
<1>3. r = Ok(k2, v)
  BY DEF c
<1> HIDE DEF e
<1>4. Edited(k, k2, s, e)
  BY <1>1, <1>2, EditIs
<1> HIDE DEF k2
<1>5. Sent(k, op, r)
  <2>1. r.is = "ok" /\ r.kernel = k2
    BY <1>3 DEF Ok
  <2>2. /\ KernelOK(k2) /\ k2.file = k.file
        /\ \A t \in Socks : SameQueue(k, k2, t) /\ SameRead(k, k2, t) /\ SameMade(k, k2, t)
        /\ \A t \in Socks : k2.sock[t].wire = IF t = s THEN Append(k.sock[t].wire, op.id) ELSE k.sock[t].wire
    BY <1>2, <1>4 DEF Edited, SameQueue, SameRead, SameMade, Unmade, c
  <2> QED  BY <2>1, <2>2 DEF Sent
<1>6. r.is = "ok" /\ r.value = v
  BY <1>3 DEF Ok
<1> QED  BY <1>5, <1>6 DEF Outcome, Values

LEMMA SysSendIs ==
  ASSUME NEW k, KernelOK(k), NEW op \in Operations, op.fd \in Fds, op.kind = "push"
  PROVE  Outcome(k, op, SysSend(k, op.fd, op))
<1> DEFINE f == op.fd
           s == k.file[f]
           r == SysSend(k, f, op)
           n == Least({op.len, k.sock[s].room})
<1>1. NoFd \in Values
  BY DEF Values, NoFd
<1>2. CASE r = Again(k) \/ r = Error(k)
  BY <1>1, <1>2, StaysQuiet DEF Error, Again, Outcome, Nothing
<1>3. CASE ~(r = Again(k) \/ r = Error(k))
  <2>1. /\ StateOf(k, f) = "connected"
        /\ r = Ok([k EXCEPT !.sock[s].wire = Append(@, op.id), !.sock[s].room = @ - n], n)
    BY <1>3 DEF SysSend, Named
  <2>2. s \in Socks /\ k.sock[s] \in SockRecs
    BY <2>1, Bounds DEF StateOf, KernelOK
  <2>3. op.len \in Nat /\ k.sock[s].room \in Nat
    BY <2>2, Bounds DEF Operations, SockRecs
  <2>4. n \in Nat /\ n <= k.sock[s].room
    <3> DEFINE S == {op.len, k.sock[s].room}
    <3>1. S \in SUBSET Nat /\ S # {}
      BY <2>3
    <3> QED  BY <3>1, LeastIs
  <2> HIDE DEF n
  <2>5. k.sock[s].room - n \in Nat
    BY <2>3, <2>4
  <2>6. r = Ok([k EXCEPT !.sock[s].wire = Append(@, op.id), !.sock[s].room = k.sock[s].room - n], n)
    BY <2>1
  <2> HIDE DEF r, s
  <2>7. Outcome(k, op, r)
    BY <2>2, <2>4, <2>5, <2>6, SendingIs DEF s
  <2> QED  BY <2>7 DEF r
<1> QED  BY <1>2, <1>3

LEMMA SysSendToIs ==
  ASSUME NEW k, KernelOK(k), NEW op \in Operations, op.fd \in Fds, op.kind = "pushto"
  PROVE  Outcome(k, op, SysSendTo(k, op.fd, op))
<1> DEFINE f == op.fd
           s == k.file[f]
           r == SysSendTo(k, f, op)
<1>1. NoFd \in Values
  BY DEF Values, NoFd
<1>2. CASE r = Error(k)
  BY <1>1, <1>2, StaysQuiet DEF Error, Outcome, Nothing
<1>3. CASE ~(r = Error(k))
  <2>1. /\ StateOf(k, f) \in {"new", "bound"}
        /\ r = Ok([k EXCEPT !.sock[s].wire = Append(@, op.id)], op.len)
    BY <1>3 DEF SysSendTo, Named
  <2>2. s \in Socks /\ k.sock[s] \in SockRecs
    BY <2>1, Bounds DEF StateOf, KernelOK
  <2>3. op.len \in Nat
    BY Bounds DEF Operations
  <2> DEFINE c == k.sock[s]
             e == [c EXCEPT !.wire = Append(@, op.id)]
             k2 == [k EXCEPT !.sock[s] = e]
  <2>4. op.id \in Ids /\ c.read <= c.sent
    BY <2>2 DEF KernelOK, Operations
  <2>5. /\ e \in SockRecs /\ e.read = c.read /\ e.sent = c.sent /\ e.queue = c.queue
        /\ e.wire = Append(c.wire, op.id) /\ e.state = c.state
    <3> HIDE DEF c
    <3>0. c \in SockRecs
      BY <2>2 DEF c
    <3>1. Append(c.wire, op.id) \in Seq(Ids)
      BY <2>4, <3>0, FieldsOf
    <3> QED  BY <2>2, <3>1 DEF SockRecs, c
  <2>6. r = Ok(k2, op.len)
    BY <2>1
  <2> HIDE DEF e, c, r, s
  <2>7. Edited(k, k2, s, e)
    BY <2>2, <2>4, <2>5, EditIs DEF c
  <2> HIDE DEF k2
  <2>8. Sent(k, op, r)
    BY <2>2, <2>5, <2>6, <2>7
       DEF Sent, Edited, Ok, SameQueue, SameWire, SameRead, SameMade, Unmade, s, c
  <2>9. Outcome(k, op, r)
    BY <2>3, <2>6, <2>8 DEF Outcome, Ok, Values
  <2> QED  BY <2>9 DEF r
<1> QED  BY <1>2, <1>3

(* What a poll of an operation does to the kernel. *)
LEMMA SysCallIs ==
  ASSUME NEW k, KernelOK(k), NEW op \in Operations, op.fd \in Fds
  PROVE  Outcome(k, op, SysCall(k, op))
<1>1. op.kind \in Kinds
  BY DEF Operations
<1> QED
  BY <1>1, SysAcceptIs, SysConnectIs, SysSendIs, SysSendToIs, SysRecvIs
     DEF SysCall, AcceptFuture, ConnectFuture, PushFuture, PushtoFuture, PopFuture, Kinds

(* A remote end connects: a socket is made and queued for a listener. *)
Connected(k, k2) ==
  /\ KernelOK(k2) /\ k2.file = k.file
  /\ \A s \in Socks : SameWire(k, k2, s) /\ SameRead(k, k2, s)
  /\ \E l, t \in Socks :
       /\ Unmade(k, t) /\ \A s \in Socks : Unmade(k2, s) <=> Unmade(k, s) /\ s # t
       /\ \A s \in Socks : k2.sock[s].queue = IF s = l THEN Append(k.sock[s].queue, t) ELSE k.sock[s].queue

LEMMA ConnectsIs ==
  ASSUME NEW k, KernelOK(k), NEW k2 \in Connects(k)
  PROVE  Connected(k, k2)
<1>1. PICK l \in Socks : /\ k.sock[l].state = "listening" /\ FreshSocks(k) # {}
                         /\ k2 = [SetState(k, Least(FreshSocks(k)), "connected")
                                    EXCEPT !.sock[l].queue = Append(@, Least(FreshSocks(k)))]
  BY DEF Connects
<1> DEFINE t == Least(FreshSocks(k))
           k1 == SetState(k, t, "connected")
           r1 == [k.sock[t] EXCEPT !.state = "connected"]
           r2 == [k1.sock[l] EXCEPT !.queue = Append(@, t)]
<1>2. t \in Socks /\ Unmade(k, t)
  <2>1. FreshSocks(k) \in SUBSET Nat
    BY Bounds DEF FreshSocks
  <2> QED  BY <1>1, <2>1, LeastIs DEF FreshSocks, Unmade
<1>3. k1 = [k EXCEPT !.sock[t] = r1] /\ k2 = [k1 EXCEPT !.sock[l] = r2]
  BY <1>1 DEF SetState
<1> HIDE DEF t, k1
<1>4. /\ r1 \in SockRecs /\ r1.state = "connected" /\ r1.queue = k.sock[t].queue /\ r1.wire = k.sock[t].wire
      /\ r1.read = k.sock[t].read /\ r1.sent = k.sock[t].sent
  BY <1>2 DEF KernelOK, SockRecs, SocketStates
<1> HIDE DEF r1
<1>5. Edited(k, k1, t, r1)
  BY <1>2, <1>3, <1>4, EditIs DEF KernelOK
<1>6. /\ r2 \in SockRecs /\ r2.state = k1.sock[l].state /\ r2.queue = Append(k1.sock[l].queue, t)
      /\ r2.wire = k1.sock[l].wire /\ r2.read = k1.sock[l].read /\ r2.sent = k1.sock[l].sent
      /\ r2.read <= r2.sent
  <2> DEFINE c == k1.sock[l]
  <2>1. c \in SockRecs /\ c.read <= c.sent
    BY <1>5 DEF Edited, KernelOK
  <2>2. r2 = [c EXCEPT !.queue = Append(@, t)]
    OBVIOUS
  <2> HIDE DEF c, r2
  <2>3. Append(c.queue, t) \in Seq(Socks)
    BY <1>2, <2>1, FieldsOf
  <2>4. /\ r2 \in SockRecs /\ r2.state = c.state /\ r2.queue = Append(c.queue, t)
        /\ r2.wire = c.wire /\ r2.read = c.read /\ r2.sent = c.sent /\ r2.read <= r2.sent
    BY <2>1, <2>2, <2>3 DEF SockRecs
  <2> QED  BY <2>4 DEF c
<1> HIDE DEF r2
<1>7. Edited(k1, k2, l, r2)
  <2>1. KernelOK(k1)
    BY <1>5 DEF Edited
  <2>2. Edited(k1, [k1 EXCEPT !.sock[l] = r2], l, r2)
    BY <1>6, <2>1, EditIs
  <2> QED  BY <1>3, <2>2
<1>8. \A s \in Socks : Unmade(k2, s) <=> Unmade(k, s) /\ s # t
  BY <1>1, <1>2, <1>4, <1>5, <1>6, <1>7 DEF Edited, Unmade
<1>9. \A s \in Socks : /\ k2.sock[s].queue = IF s = l THEN Append(k.sock[s].queue, t) ELSE k.sock[s].queue
                       /\ k2.sock[s].wire = k.sock[s].wire /\ k2.sock[s].read = k.sock[s].read
  <2> SUFFICES ASSUME NEW s \in Socks
               PROVE  /\ k2.sock[s].queue = IF s = l THEN Append(k.sock[s].queue, t) ELSE k.sock[s].queue
                      /\ k2.sock[s].wire = k.sock[s].wire /\ k2.sock[s].read = k.sock[s].read
    OBVIOUS
  <2>1. /\ k1.sock[s].queue = k.sock[s].queue /\ k1.sock[s].wire = k.sock[s].wire
        /\ k1.sock[s].read = k.sock[s].read
    BY <1>4, <1>5 DEF Edited
  <2> QED  BY <1>6, <1>7, <2>1 DEF Edited
<1>10. KernelOK(k2) /\ k2.file = k.file
  BY <1>5, <1>7 DEF Edited
<1> QED  BY <1>2, <1>8, <1>9, <1>10 DEF Connected, SameWire, SameRead

LEMMA RemoteIs ==
  ASSUME NEW k, KernelOK(k), NEW most,
         NEW k2 \in Connects(k) \cup Answers(k) \cup Sends(k, most) \cup Reads(k) \cup Ends(k)
  PROVE  Quiet(k, k2) \/ Connected(k, k2)
<1>1. CASE k2 \in Connects(k)
  BY <1>1, ConnectsIs
<1>2. CASE k2 \in Answers(k)
  <2>1. PICK s \in Socks, x \in {"answered", "refused"} :
          k.sock[s].state = "connecting" /\ k2 = SetState(k, s, x)
    BY <1>2 DEF Answers
  <2> QED  BY <2>1, SetStateIs DEF Unmade, SocketStates
<1>3. ASSUME NEW s \in Socks, NEW r \in SockRecs, k2 = [k EXCEPT !.sock[s] = r],
             r.queue = k.sock[s].queue, r.wire = k.sock[s].wire, r.read = k.sock[s].read,
             r.sent >= k.sock[s].sent, r.state = k.sock[s].state
      PROVE  Quiet(k, k2)
  <2>1. r.read <= r.sent
    BY <1>3 DEF KernelOK, SockRecs
  <2>2. Edited(k, k2, s, r)
    BY <1>3, <2>1, EditIs
  <2> QED  BY <1>3, <2>2 DEF Edited, Quiet, SameQueue, SameWire, SameRead, SameMade, Unmade
<1>4. CASE k2 \in Sends(k, most)
  <2>1. PICK s \in Socks : k2 = [k EXCEPT !.sock[s].sent = @ + 1]
    BY <1>4 DEF Sends
  <2> DEFINE r == [k.sock[s] EXCEPT !.sent = @ + 1]
  <2>2. /\ r \in SockRecs /\ r.queue = k.sock[s].queue /\ r.wire = k.sock[s].wire
        /\ r.read = k.sock[s].read /\ r.sent >= k.sock[s].sent /\ r.state = k.sock[s].state
    <3> DEFINE c == k.sock[s]
    <3>1. c \in SockRecs /\ r = [c EXCEPT !.sent = @ + 1]
      BY DEF KernelOK
    <3> HIDE DEF c, r
    <3>2. c.sent + 1 \in Nat /\ c.sent + 1 >= c.sent
      BY <3>1, FieldsOf
    <3>3. /\ r \in SockRecs /\ r.queue = c.queue /\ r.wire = c.wire
          /\ r.read = c.read /\ r.sent >= c.sent /\ r.state = c.state
      BY <3>1, <3>2 DEF SockRecs
    <3> QED  BY <3>3 DEF c
  <2>3. k2 = [k EXCEPT !.sock[s] = r]
    BY <2>1
  <2> HIDE DEF r
  <2> QED  BY <1>3, <2>2, <2>3
<1>5. CASE k2 \in Reads(k)
  <2>1. PICK s \in Socks : k2 = [k EXCEPT !.sock[s].room = SendRoom]
    BY <1>5 DEF Reads
  <2> DEFINE r == [k.sock[s] EXCEPT !.room = SendRoom]
  <2>2. /\ r \in SockRecs /\ r.queue = k.sock[s].queue /\ r.wire = k.sock[s].wire
        /\ r.read = k.sock[s].read /\ r.sent >= k.sock[s].sent /\ r.state = k.sock[s].state
    <3> DEFINE c == k.sock[s]
    <3>1. c \in SockRecs /\ r = [c EXCEPT !.room = SendRoom]
      BY DEF KernelOK
    <3> HIDE DEF c, r
    <3>2. SendRoom \in Nat /\ c.sent >= c.sent
      BY <3>1, FieldsOf, Bounds
    <3>3. /\ r \in SockRecs /\ r.queue = c.queue /\ r.wire = c.wire
          /\ r.read = c.read /\ r.sent >= c.sent /\ r.state = c.state
      BY <3>1, <3>2 DEF SockRecs
    <3> QED  BY <3>3 DEF c
  <2>3. k2 = [k EXCEPT !.sock[s] = r]
    BY <2>1
  <2> HIDE DEF r
  <2> QED  BY <1>3, <2>2, <2>3
<1>6. CASE k2 \in Ends(k)
  <2>1. PICK s \in Socks : /\ k.sock[s].state = "connected"
                           /\ k2 = [k EXCEPT !.sock[s].eof = TRUE] \/ k2 = SetState(k, s, "reset")
    BY <1>6 DEF Ends
  <2>2. CASE k2 = SetState(k, s, "reset")
    BY <2>1, <2>2, SetStateIs DEF Unmade, SocketStates
  <2>3. CASE k2 = [k EXCEPT !.sock[s].eof = TRUE]
    <3> DEFINE r == [k.sock[s] EXCEPT !.eof = TRUE]
    <3>2. /\ r \in SockRecs /\ r.queue = k.sock[s].queue /\ r.wire = k.sock[s].wire
          /\ r.read = k.sock[s].read /\ r.sent >= k.sock[s].sent /\ r.state = k.sock[s].state
      <4> DEFINE c == k.sock[s]
      <4>1. c \in SockRecs /\ r = [c EXCEPT !.eof = TRUE]
        BY DEF KernelOK
      <4> HIDE DEF c, r
      <4>2. c.sent >= c.sent
        BY <4>1, FieldsOf
      <4>3. /\ r \in SockRecs /\ r.queue = c.queue /\ r.wire = c.wire
            /\ r.read = c.read /\ r.sent >= c.sent /\ r.state = c.state
        BY <4>1, <4>2 DEF SockRecs
      <4> QED  BY <4>3 DEF c
    <3>3. k2 = [k EXCEPT !.sock[s] = r]
      BY <2>3
    <3> HIDE DEF r
    <3> QED  BY <1>3, <3>2, <3>3
  <2> QED  BY <2>1, <2>2, <2>3
<1> QED  BY <1>1, <1>2, <1>4, <1>5, <1>6

(* socket(2): the lowest free descriptor names a socket that is new. *)
Made(k, k2, f) ==
  /\ KernelOK(k2) /\ f \in Fds /\ k.file[f] = NoSock
  /\ \A s \in Socks : SameWire(k, k2, s) /\ SameRead(k, k2, s) /\ SameQueue(k, k2, s)
  /\ \E t \in Socks :
       /\ Unmade(k, t) /\ \A s \in Socks : Unmade(k2, s) <=> Unmade(k, s) /\ s # t
       /\ k2.file = [k.file EXCEPT ![f] = t]

LEMMA SysSocketIs ==
  ASSUME NEW k, KernelOK(k), CanOpen(k), NEW typ \in {"stream", "dgram"}
  PROVE  Made(k, SysSocket(k, typ), Least(FreeFds(k)))
<1> DEFINE t == Least(FreshSocks(k))
           f == Least(FreeFds(k))
           r == [k.sock[t] EXCEPT !.state = "new", !.typ = typ]
           k2 == SysSocket(k, typ)
<1>1. t \in Socks /\ Unmade(k, t)
  <2>1. FreshSocks(k) \in SUBSET Nat
    BY Bounds DEF FreshSocks
  <2> QED  BY <2>1, LeastIs DEF CanOpen, FreshSocks, Unmade
<1>2. f \in Fds /\ k.file[f] = NoSock
  <2>1. FreeFds(k) \in SUBSET Nat
    BY Bounds DEF FreeFds
  <2> QED  BY <2>1, LeastIs DEF CanOpen, FreeFds
<1>3. k2 = [SetState(k, t, "new") EXCEPT !.file[f] = t, !.sock[t].typ = typ]
  BY DEF SysSocket
<1> HIDE DEF t, f, k2
<1>4. /\ r \in SockRecs /\ r.state = "new" /\ r.queue = k.sock[t].queue /\ r.wire = k.sock[t].wire
      /\ r.read = k.sock[t].read /\ r.sent = k.sock[t].sent
  BY <1>1 DEF KernelOK, SockRecs, SocketStates
<1>5. /\ k2.file = [k.file EXCEPT ![f] = t]
      /\ k2.sock = [k.sock EXCEPT ![t] = r]
      /\ k2 \in [file : [Fds -> Socks \cup {NoSock}], sock : [Socks -> SockRecs]]
  <2> DEFINE k1 == SetState(k, t, "new")
             r1 == [k.sock[t] EXCEPT !.state = "new"]
  <2>1. r1 \in SockRecs
    BY <1>1 DEF KernelOK, SockRecs, SocketStates
  <2>2. k1 \in [file : [Fds -> Socks \cup {NoSock}], sock : [Socks -> SockRecs]]
        /\ k1.file = k.file /\ k1.sock = [k.sock EXCEPT ![t] = r1]
    BY <1>1, <2>1 DEF KernelOK, SetState
  <2>3. [k1.sock EXCEPT ![t].typ = typ] = [k.sock EXCEPT ![t] = r]
    BY <1>1, <2>1, <2>2 DEF KernelOK, SockRecs
  <2>4. k2 = [k1 EXCEPT !.file[f] = t, !.sock[t].typ = typ]
    BY <1>3
  <2> HIDE DEF k1, r1, r
  <2>5. [k.sock EXCEPT ![t] = r] \in [Socks -> SockRecs] /\ [k.file EXCEPT ![f] = t] \in [Fds -> Socks \cup {NoSock}]
    BY <1>1, <1>2, <1>4 DEF KernelOK
  <2> QED  BY <2>2, <2>3, <2>4, <2>5
<1> HIDE DEF r
<1>6. \A s \in Socks : k2.sock[s] = IF s = t THEN r ELSE k.sock[s]
  BY <1>1, <1>5 DEF KernelOK
<1>7. KernelOK(k2)
  BY <1>4, <1>5, <1>6 DEF KernelOK
<1>8. Made(k, k2, f)
  BY <1>1, <1>2, <1>4, <1>5, <1>6, <1>7 DEF Made, SameWire, SameRead, SameQueue, Unmade
<1> QED  BY <1>8 DEF k2, f
-----------------------------------------------------------------------------
(* The state of the libOS and of its application. *)

Here == [backend |-> backend, program |-> program, sched |-> sched, table |-> table,
         sockets |-> sockets, kernel |-> kernel, issued |-> issued, token |-> token,
         open |-> open, log |-> log]

Op(m, k) == m.sched.slab[k]
Slots(m) == Occupied(m.sched)

TableOK(t) ==
  /\ t \in [used : SUBSET QDs, vacant : Seq(QDs)]
  /\ \A i, j \in DOMAIN t.vacant : t.vacant[i] = t.vacant[j] => i = j
  /\ \A i \in DOMAIN t.vacant : t.vacant[i] \notin t.used

ReadsOf == Socks \X Nat \X Nat

SchedOK(s) == Shaped(s, Operations) /\ SlotsOK(s) /\ s.dropped = {} /\ s.notified \subseteq Occupied(s)

Rest(m) ==
  /\ m.backend \in Backends /\ m.program \in Programs
  /\ TableOK(m.table)
  /\ m.sockets \in [QDs -> Fds \cup {NoFd}]
  /\ KernelOK(m.kernel)
  /\ m.issued \in 0..MaxOps
  /\ m.token \in [Ids -> Keys \cup {NoKey}]
  /\ m.open \subseteq QDs
  /\ m.log \in [QDs -> Seq(ReadsOf)]

(* What a result is of: an accept gives a descriptor, a pop what was read.  *)
Proper(m, op) ==
  m.backend = "catnap" /\ op.done.is = "ok" =>
     /\ op.kind = "accept" => op.done.value \in Fds
     /\ op.kind = "pop" => op.done.value \in ReadsOf

(* Tokens name slots and slots tokens; who is completed has a result.       *)
OpOK(m, k) ==
  LET op == Op(m, k) IN
  /\ m.token[op.id] = k
  /\ op.id <= m.issued
  /\ k \in m.sched.completed <=> op.done.is # "pending"
  /\ op.newqd # NoKey <=> op.kind = "accept"
  /\ op.kind \in m.program
  /\ m.backend = "catnap" => op.fd \in Fds
  /\ Proper(m, op)

Tokens(m) ==
  /\ \A id \in Ids : m.token[id] # NoKey => Op(m, m.token[id]) # NoTask /\ Op(m, m.token[id]).id = id
  /\ \A k \in Slots(m) : OpOK(m, k)
  /\ m.sched.completed \subseteq Slots(m)

Core(m) == SchedOK(m.sched) /\ Rest(m) /\ Tokens(m)

(* Nobody sleeps but those of D. *)
Awake(m, D) == m.backend = "catnap" => (Slots(m) \ m.sched.completed) \subseteq m.sched.notified \cup D

(* An operation in a slot is one. *)
LEMMA SlotIs ==
  ASSUME NEW m, Core(m), NEW k \in Slots(m)
  PROVE  /\ k \in Keys /\ Op(m, k) \in Operations /\ Op(m, k) # NoTask
         /\ Op(m, k).id \in Ids /\ Op(m, k).kind \in Kinds /\ Op(m, k).qd \in QDs
         /\ Op(m, k).newqd \in QDs \cup {NoKey} /\ Op(m, k).done \in Results
         /\ OpOK(m, k)
<1>1. k \in Keys /\ Op(m, k) # NoTask /\ Op(m, k) \in Operations
  BY DEF Core, SchedOK, Shaped, Slots, Occupied, Op
<1> QED  BY <1>1 DEF Operations, Core, Tokens

(* An operation is scheduled. *)
Issues(m, n, op) ==
  /\ HasRoom(m.sched) /\ n.sched = Insert(m.sched, op)
  /\ n.issued = m.issued + 1 /\ n.token = [m.token EXCEPT ![op.id] = NextKey(m.sched)]
  /\ m.issued < MaxOps /\ op \in Operations /\ op.id = m.issued + 1
  /\ op.done.is = "pending" /\ op.kind \in m.program
  /\ op.newqd # NoKey <=> op.kind = "accept"
  /\ m.backend = "catnap" => op.fd \in Fds
  /\ n.backend = m.backend /\ n.program = m.program

(* It stands in slot k, which was free; the others stay. *)
Added(m, n, op, k) ==
  /\ k \in Keys /\ k \notin Slots(m) /\ Slots(n) = Slots(m) \cup {k}
  /\ Op(n, k) = op /\ \A j \in Slots(m) : Op(n, j) = Op(m, j)
  /\ n.sched.completed = m.sched.completed

LEMMA IssueCore ==
  ASSUME NEW m, NEW n, NEW op, Core(m), Issues(m, n, op), Rest(n)
  PROVE  /\ Core(n) /\ Added(m, n, op, NextKey(m.sched))
         /\ Awake(m, {}) => Awake(n, {})
<1> DEFINE k == NextKey(m.sched)
<1>1. /\ SchedulerAssumption /\ NoTask \notin Operations
      /\ Shaped(m.sched, Operations) /\ SlotsOK(m.sched) /\ HasRoom(m.sched) /\ op \in Operations
  BY Bounds DEF Core, SchedOK, Issues
<1>2. op \notin Tasks(m.sched)
  <2> SUFFICES ASSUME NEW j \in Keys, m.sched.slab[j] = op, op # NoTask PROVE FALSE
    BY TasksAre
  <2>1. j \in Slots(m)
    BY DEF Slots, Occupied
  <2>2. op.id <= m.issued
    BY <2>1 DEF Core, Tokens, OpOK, Op
  <2> QED  BY <2>2 DEF Issues, Core, Rest
<1>3. /\ k \in Keys /\ m.sched.slab[k] = NoTask
      /\ Shaped(n.sched, Operations) /\ SlotsOK(n.sched)
      /\ n.sched.slab = [m.sched.slab EXCEPT ![k] = op]
      /\ n.sched.notified = m.sched.notified \cup {k}
      /\ n.sched.completed = m.sched.completed \ {k} /\ n.sched.dropped = m.sched.dropped \ {k}
  BY <1>1, <1>2, SlotInserted DEF Issues
<1> HIDE DEF k
<1>4. \A j \in Keys : Op(n, j) = IF j = k THEN op ELSE Op(m, j)
  BY <1>1, <1>3 DEF Shaped, Op
<1>5. op # NoTask
  BY <1>1
<1>6. Slots(n) = Slots(m) \cup {k} /\ k \notin Slots(m) /\ Slots(m) \subseteq Keys
  BY <1>3, <1>4, <1>5 DEF Slots, Occupied, Op
<1>7. n.sched.completed = m.sched.completed
  BY <1>3, <1>6 DEF Core, Tokens
<1>8. Added(m, n, op, k)
  BY <1>3, <1>4, <1>6, <1>7 DEF Added
<1>9. SchedOK(n.sched)
  BY <1>3, <1>6 DEF SchedOK, Core, Slots
<1>10. Tokens(n)
  <2>1. /\ op.id \in Ids /\ op.id = m.issued + 1 /\ m.issued \in Nat
        /\ n.issued = m.issued + 1 /\ n.program = m.program /\ n.backend = m.backend
        /\ \A id \in Ids : n.token[id] = IF id = op.id THEN k ELSE m.token[id]
    BY <1>3 DEF Issues, Operations, Core, Rest, k
  <2>2. ASSUME NEW j \in Slots(m) PROVE OpOK(n, j)
    <3>1. OpOK(m, j) /\ Op(m, j).id \in Ids /\ Op(n, j) = Op(m, j) /\ j # k
      BY SlotIs, <1>6, <1>8 DEF Added
    <3>2. Op(m, j).id # op.id /\ Op(m, j).id <= n.issued
      BY <2>1, <3>1 DEF OpOK, Ids
    <3> QED  BY <1>7, <2>1, <3>1, <3>2 DEF OpOK, Proper, Issues
  <2>3. OpOK(n, k)
    <3>1. k \notin m.sched.completed
      BY <1>6 DEF Core, Tokens
    <3> QED  BY <1>4, <1>3, <1>7, <2>1, <3>1 DEF OpOK, Proper, Issues
  <2>4. ASSUME NEW id \in Ids, n.token[id] # NoKey
        PROVE  Op(n, n.token[id]) # NoTask /\ Op(n, n.token[id]).id = id
    <3>1. CASE id = op.id
      BY <1>3, <1>4, <1>5, <2>1, <3>1
    <3>2. CASE id # op.id
      <4>1. n.token[id] = m.token[id] /\ m.token[id] \in Keys
        BY <2>1, <2>4, <3>2 DEF Core, Rest
      <4>2. Op(m, m.token[id]) # NoTask /\ Op(m, m.token[id]).id = id
        BY <2>4, <4>1 DEF Core, Tokens
      <4>3. m.token[id] # k
        BY <1>3, <4>2 DEF Op
      <4> QED  BY <1>4, <4>1, <4>2, <4>3
    <3> QED  BY <3>1, <3>2
  <2>5. n.sched.completed \subseteq Slots(n)
    BY <1>6, <1>7 DEF Core, Tokens
  <2> QED  BY <1>6, <2>2, <2>3, <2>4, <2>5 DEF Tokens
<1>11. Awake(m, {}) => Awake(n, {})
  BY <1>3, <1>6, <1>7 DEF Awake, Issues
<1> QED  BY <1>8, <1>9, <1>10, <1>11 DEF Core, k

(* An operation leaves with its result. *)
Leaves(m, n, k) ==
  /\ k \in Slots(m) /\ n.sched = Take(m.sched, k)
  /\ n.issued = m.issued /\ n.token = [m.token EXCEPT ![Op(m, k).id] = NoKey]
  /\ n.backend = m.backend /\ n.program = m.program

Removed(m, n, k) ==
  /\ k \in Slots(m) /\ Slots(n) = Slots(m) \ {k}
  /\ \A j \in Slots(n) : Op(n, j) = Op(m, j)
  /\ n.sched.completed = m.sched.completed \ {k}

LEMMA LeaveCore ==
  ASSUME NEW m, NEW n, NEW k, Core(m), Leaves(m, n, k), Rest(n)
  PROVE  /\ Core(n) /\ Removed(m, n, k)
         /\ Awake(m, {}) => Awake(n, {})
<1>1. /\ SchedulerAssumption /\ NoTask \notin Operations
      /\ Shaped(m.sched, Operations) /\ SlotsOK(m.sched)
      /\ k \in Keys /\ m.sched.slab[k] # NoTask /\ k \in Slots(m)
  BY Bounds DEF Core, SchedOK, Leaves, Slots, Occupied
<1>2. Shaped(n.sched, Operations) /\ Emptied(m.sched, k, n.sched) /\ SlotsOK(n.sched)
  BY <1>1, SlotEmptied DEF Leaves
<1>3. /\ n.sched.slab = [m.sched.slab EXCEPT ![k] = NoTask]
      /\ n.sched.notified = m.sched.notified \ {k}
      /\ n.sched.completed = m.sched.completed \ {k} /\ n.sched.dropped = m.sched.dropped \ {k}
  BY <1>2 DEF Emptied
<1>4. \A j \in Keys : Op(n, j) = IF j = k THEN NoTask ELSE Op(m, j)
  BY <1>1, <1>3 DEF Shaped, Op
<1>5. Slots(n) = Slots(m) \ {k} /\ Slots(m) \subseteq Keys
  BY <1>4 DEF Slots, Occupied, Op
<1>6. Removed(m, n, k)
  BY <1>1, <1>3, <1>4, <1>5 DEF Removed
<1>7. SchedOK(n.sched)
  BY <1>2, <1>3, <1>5 DEF SchedOK, Core, Slots
<1>8. Tokens(n)
  <2>1. /\ Op(m, k).id \in Ids /\ n.issued = m.issued
        /\ \A id \in Ids : n.token[id] = IF id = Op(m, k).id THEN NoKey ELSE m.token[id]
    BY <1>1, SlotIs DEF Leaves, Core, Rest
  <2>2. ASSUME NEW j \in Slots(n) PROVE OpOK(n, j)
    <3>1. /\ j \in Slots(m) /\ j # k /\ OpOK(m, j) /\ OpOK(m, k) /\ Op(m, j).id \in Ids /\ Op(n, j) = Op(m, j)
      BY <1>1, <1>5, <1>6, SlotIs DEF Removed
    <3>2. Op(m, j).id # Op(m, k).id
      BY <3>1 DEF OpOK
    <3> QED  BY <1>3, <2>1, <3>1, <3>2 DEF OpOK, Proper, Leaves
  <2>3. ASSUME NEW id \in Ids, n.token[id] # NoKey
        PROVE  Op(n, n.token[id]) # NoTask /\ Op(n, n.token[id]).id = id
    <3>1. n.token[id] = m.token[id] /\ id # Op(m, k).id /\ m.token[id] # NoKey /\ m.token[id] \in Keys
      BY <2>1, <2>3 DEF Core, Rest
    <3>2. Op(m, m.token[id]) # NoTask /\ Op(m, m.token[id]).id = id
      BY <3>1 DEF Core, Tokens
    <3>3. m.token[id] # k
      BY <3>1, <3>2
    <3> QED  BY <1>4, <3>1, <3>2, <3>3
  <2>4. n.sched.completed \subseteq Slots(n)
    BY <1>3, <1>5 DEF Core, Tokens
  <2> QED  BY <2>2, <2>3, <2>4 DEF Tokens
<1>9. Awake(m, {}) => Awake(n, {})
  BY <1>3, <1>5 DEF Awake, Leaves
<1> QED  BY <1>6, <1>7, <1>8, <1>9 DEF Core

(* Operations get their results. *)
SameOp(o, op) == /\ o.id = op.id /\ o.kind = op.kind /\ o.qd = op.qd /\ o.fd = op.fd
                 /\ o.newqd = op.newqd

Resolves(m, n, R) ==
  /\ R \subseteq Slots(m) \ m.sched.completed
  /\ Shaped(n.sched, Operations)
  /\ \A k \in R : /\ Op(n, k) \in Operations /\ SameOp(Op(n, k), Op(m, k))
                  /\ Op(n, k).done.is # "pending" /\ Proper(m, Op(n, k))
  /\ \A k \in Keys \ R : Op(n, k) = Op(m, k)
  /\ n.sched.vacant = m.sched.vacant /\ n.sched.fresh = m.sched.fresh
  /\ n.sched.notified = m.sched.notified /\ n.sched.dropped = m.sched.dropped
  /\ n.sched.completed = m.sched.completed \cup R
  /\ n.issued = m.issued /\ n.token = m.token
  /\ n.backend = m.backend /\ n.program = m.program

Resolved(m, n, R) ==
  /\ R \subseteq Slots(m) \ m.sched.completed /\ Slots(n) = Slots(m)
  /\ \A j \in Slots(m) \ R : Op(n, j) = Op(m, j)
  /\ \A j \in R : SameOp(Op(n, j), Op(m, j)) /\ Op(m, j).done.is = "pending"
  /\ n.sched.completed = m.sched.completed \cup R

LEMMA ResolveCore ==
  ASSUME NEW m, NEW n, NEW R, Core(m), Resolves(m, n, R), Rest(n)
  PROVE  /\ Core(n) /\ Resolved(m, n, R)
         /\ \A D : Awake(m, D) => Awake(n, D \ R)
<1>1. /\ Slots(m) \subseteq Keys /\ R \subseteq Slots(m) /\ NoTask \notin Operations
      /\ \A k \in Slots(m) : Op(m, k) # NoTask /\ OpOK(m, k)
  BY SlotIs, Bounds DEF Resolves
<1>2. \A k \in Keys : Op(n, k) = NoTask <=> Op(m, k) = NoTask
  BY <1>1 DEF Resolves
<1>3. Slots(n) = Slots(m)
  BY <1>2 DEF Slots, Occupied, Op
<1>4. \A k \in R : Op(m, k).done.is = "pending"
  BY <1>1 DEF Resolves, OpOK
<1>5. Resolved(m, n, R)
  BY <1>1, <1>3, <1>4 DEF Resolved, Resolves
<1>6. Tokens(n)
  <2>1. ASSUME NEW j \in Slots(n) PROVE OpOK(n, j)
    <3>1. j \in Slots(m) /\ j \in Keys /\ OpOK(m, j)
      BY <1>1, <1>3, <2>1
    <3>2. CASE j \in R
      BY <1>4, <3>1, <3>2 DEF OpOK, Resolves, SameOp, Proper
    <3>3. CASE j \notin R
      BY <3>1, <3>3 DEF OpOK, Resolves, Proper
    <3> QED  BY <3>2, <3>3
  <2>2. ASSUME NEW id \in Ids, n.token[id] # NoKey
        PROVE  Op(n, n.token[id]) # NoTask /\ Op(n, n.token[id]).id = id
    <3>1. /\ n.token[id] = m.token[id] /\ m.token[id] \in Keys
          /\ Op(m, m.token[id]) # NoTask /\ Op(m, m.token[id]).id = id
      BY <2>2 DEF Resolves, Core, Rest, Tokens
    <3> QED  BY <1>2, <3>1 DEF Resolves, SameOp
  <2>3. n.sched.completed \subseteq Slots(n)
    BY <1>1, <1>3 DEF Core, Tokens, Resolves
  <2> QED  BY <2>1, <2>2, <2>3 DEF Tokens
<1>7. SchedOK(n.sched)
  <2>1. \A i, j \in Keys : n.sched.slab[i] # NoTask /\ n.sched.slab[i] = n.sched.slab[j] => i = j
    <3> SUFFICES ASSUME NEW i \in Keys, NEW j \in Keys, Op(n, i) # NoTask, Op(n, i) = Op(n, j)
                 PROVE  i = j
      BY DEF Op
    <3>1. i \in Slots(n) /\ j \in Slots(n)
      BY DEF Slots, Occupied, Op
    <3>2. n.token[Op(n, i).id] = i /\ n.token[Op(n, j).id] = j
      BY <1>6, <3>1 DEF Tokens, OpOK
    <3> QED  BY <3>2
  <2>2. VacantOf(n.sched)
    BY <1>2 DEF VacantOf, SlotsOK, Core, SchedOK, Resolves, Op
  <2>3. SlotsOK(n.sched)
    BY <1>2, <2>1, <2>2 DEF SlotsOK, Core, SchedOK, Resolves, Op
  <2> QED  BY <1>3, <2>3 DEF SchedOK, Core, Resolves, Slots
<1>8. ASSUME NEW D, Awake(m, D) PROVE Awake(n, D \ R)
  BY <1>3, <1>8 DEF Awake, Resolves
<1> QED  BY <1>5, <1>6, <1>7, <1>8 DEF Core

(* One operation gets its result: MarkCompleted. *)
LEMMA DoneIs ==
  ASSUME NEW m, NEW n, NEW k, NEW result, Core(m), Rest(n),
         k \in Slots(m), k \notin m.sched.completed,
         n.sched = Done(m.sched, k, result), result \in Results, result.is # "pending",
         m.backend = "catnap" /\ result.is = "ok" =>
            /\ Op(m, k).kind = "accept" => result.value \in Fds
            /\ Op(m, k).kind = "pop" => result.value \in ReadsOf,
         n.issued = m.issued, n.token = m.token, n.backend = m.backend, n.program = m.program
  PROVE  Resolves(m, n, {k}) /\ Op(n, k).done = result
<1> DEFINE op == Op(m, k)
           o == [op EXCEPT !.done = result]
<1>1. k \in Keys /\ op \in Operations
  BY SlotIs
<1>2. /\ m.sched.slab \in [Keys -> Operations \cup {NoTask}]
      /\ m.sched.completed \in SUBSET Keys
      /\ m.sched \in [slab : [Keys -> Operations \cup {NoTask}], vacant : Seq(Keys), fresh : 0..MaxKeys,
                      notified : SUBSET Keys, completed : SUBSET Keys, dropped : SUBSET Keys]
  BY DEF Core, SchedOK, Shaped
<1>3. /\ o \in Operations /\ SameOp(o, op) /\ o.done = result
  BY <1>1 DEF Operations, SameOp
<1>4. /\ n.sched.slab = [m.sched.slab EXCEPT ![k] = o]
      /\ n.sched.vacant = m.sched.vacant /\ n.sched.fresh = m.sched.fresh
      /\ n.sched.notified = m.sched.notified /\ n.sched.dropped = m.sched.dropped
      /\ n.sched.completed = m.sched.completed \cup {k}
      /\ n.sched = [slab |-> n.sched.slab, vacant |-> n.sched.vacant, fresh |-> n.sched.fresh,
                    notified |-> n.sched.notified, completed |-> n.sched.completed, dropped |-> n.sched.dropped]
  <2>1. n.sched = [[m.sched EXCEPT !.slab[k].done = result] EXCEPT !.completed = @ \cup {k}]
    BY DEF Done, MarkCompleted
  <2> QED  BY <1>2, <2>1 DEF Op
<1> HIDE DEF o, op
<1>5. \A j \in Keys : Op(n, j) = IF j = k THEN o ELSE Op(m, j)
  BY <1>1, <1>2, <1>4 DEF Op
<1>6. Shaped(n.sched, Operations)
  <2>1. n.sched.slab \in [Keys -> Operations \cup {NoTask}]
    BY <1>2, <1>3, <1>4
  <2>2. n.sched.completed \in SUBSET Keys
    BY <1>1, <1>2, <1>4
  <2>3. /\ n.sched.vacant \in Seq(Keys) /\ n.sched.fresh \in 0..MaxKeys
        /\ n.sched.notified \in SUBSET Keys /\ n.sched.dropped \in SUBSET Keys
    BY <1>2, <1>4
  <2> QED  BY <1>4, <2>1, <2>2, <2>3 DEF Shaped
<1>7. Op(n, k) = o /\ Proper(m, o)
  BY <1>1, <1>3, <1>5 DEF Proper, SameOp, op
<1> QED  BY <1>1, <1>3, <1>4, <1>5, <1>6, <1>7 DEF Resolves, op

(* Flags of notification do not matter to who stands where. *)
Renotifies(m, n) ==
  /\ n.sched.slab = m.sched.slab /\ n.sched.vacant = m.sched.vacant /\ n.sched.fresh = m.sched.fresh
  /\ n.sched.completed = m.sched.completed /\ n.sched.dropped = m.sched.dropped
  /\ n.sched.notified \subseteq Slots(m)
  /\ n.sched = [slab |-> n.sched.slab, vacant |-> n.sched.vacant, fresh |-> n.sched.fresh,
                notified |-> n.sched.notified, completed |-> n.sched.completed, dropped |-> n.sched.dropped]
  /\ n.issued = m.issued /\ n.token = m.token
  /\ n.backend = m.backend /\ n.program = m.program

Unchanged(m, n) ==
  /\ Slots(n) = Slots(m) /\ \A j \in Slots(m) : Op(n, j) = Op(m, j)
  /\ n.sched.completed = m.sched.completed

LEMMA RenotifyCore ==
  ASSUME NEW m, NEW n, Core(m), Renotifies(m, n), Rest(n)
  PROVE  Core(n) /\ Unchanged(m, n)
<1>1. Slots(n) = Slots(m) /\ \A j : Op(n, j) = Op(m, j)
  BY DEF Slots, Occupied, Op, Renotifies
<1>2. Tokens(n)
  BY <1>1 DEF Tokens, OpOK, Proper, Core, Renotifies
<1>3. Shaped(n.sched, Operations)
  <2>1. Slots(m) \subseteq Keys
    BY DEF Slots, Occupied
  <2> QED  BY <2>1 DEF Shaped, Renotifies, Core, SchedOK
<1>4. SchedOK(n.sched)
  BY <1>1, <1>3 DEF SchedOK, SlotsOK, VacantOf, Renotifies, Core, Slots
<1> QED  BY <1>1, <1>2, <1>4 DEF Core, Unchanged, Renotifies

(* Slots that are freed when there are none to free. *)
LEMMA FreedCore ==
  ASSUME NEW m, NEW n, Core(m), AreFreed(m.sched, Operations, {}, n.sched), Rest(n),
         n.issued = m.issued, n.token = m.token, n.backend = m.backend, n.program = m.program
  PROVE  Core(n) /\ Unchanged(m, n) /\ n.sched.notified = m.sched.notified
<1>1. \A j \in Keys : Op(n, j) = Op(m, j)
  BY DEF AreFreed, Op
<1>2. Slots(n) = Slots(m) /\ \A j \in Slots(m) : Op(n, j) = Op(m, j)
  BY <1>1 DEF Slots, Occupied, Op
<1>3. n.sched.notified = m.sched.notified /\ n.sched.completed = m.sched.completed /\ n.sched.dropped = m.sched.dropped
  BY DEF AreFreed
<1>4. \A id \in Ids : n.token[id] # NoKey => Op(n, n.token[id]) # NoTask /\ Op(n, n.token[id]).id = id
  <2> SUFFICES ASSUME NEW id \in Ids, n.token[id] # NoKey
               PROVE  Op(n, n.token[id]) # NoTask /\ Op(n, n.token[id]).id = id
    OBVIOUS
  <2>1. m.token[id] \in Keys
    BY DEF Core, Rest
  <2> QED  BY <1>1, <2>1 DEF Core, Tokens
<1>5. Tokens(n)
  BY <1>2, <1>3, <1>4 DEF Tokens, OpOK, Proper, Core
<1>6. SchedOK(n.sched)
  BY <1>2, <1>3 DEF SchedOK, AreFreed, Core, Slots
<1> QED  BY <1>2, <1>3, <1>5, <1>6 DEF Core, Unchanged

(* The scheduler is left alone. *)
Aside(m, n) ==
  /\ n.sched = m.sched /\ n.issued = m.issued /\ n.token = m.token
  /\ n.backend = m.backend /\ n.program = m.program

LEMMA AsideCore ==
  ASSUME NEW m, NEW n, Core(m), Aside(m, n), Rest(n)
  PROVE  Core(n) /\ Unchanged(m, n) /\ (Awake(m, {}) => Awake(n, {}))
<1>1. Slots(n) = Slots(m) /\ \A j : Op(n, j) = Op(m, j)
  BY DEF Slots, Occupied, Op, Aside
<1> QED  BY <1>1 DEF Tokens, OpOK, Proper, Core, Aside, Awake, Unchanged
-----------------------------------------------------------------------------
(* The queue table. *)
LEMMA AllocIs ==
  ASSUME NEW t, TableOK(t), t.vacant # <<>>
  PROVE  /\ NewQd(t) \in QDs /\ NewQd(t) \notin t.used
         /\ TableOK(AllocQd(t)) /\ AllocQd(t).used = t.used \cup {NewQd(t)}
<1> DEFINE q == NewQd(t)
           v == Tail(t.vacant)
<1>1. /\ q \in QDs /\ q \notin t.used /\ q = t.vacant[1] /\ t.vacant \in Seq(QDs) /\ t.used \in SUBSET QDs
      /\ 1 \in DOMAIN t.vacant
  BY DEF TableOK, NewQd
<1>2. /\ v \in Seq(QDs) /\ \A i \in DOMAIN v : v[i] = t.vacant[i+1] /\ i + 1 \in DOMAIN t.vacant /\ i + 1 # 1
      /\ DOMAIN v \subseteq Nat
  BY <1>1
<1> HIDE DEF q, v
<1>3. AllocQd(t) = [used |-> t.used \cup {q}, vacant |-> v]
  BY DEF AllocQd, q, v
<1>4. \A i, j \in DOMAIN v : v[i] = v[j] => i = j
  <2> SUFFICES ASSUME NEW i \in DOMAIN v, NEW j \in DOMAIN v, v[i] = v[j] PROVE i = j
    OBVIOUS
  <2>1. t.vacant[i+1] = t.vacant[j+1] /\ i + 1 \in DOMAIN t.vacant /\ j + 1 \in DOMAIN t.vacant
    BY <1>2
  <2>2. i + 1 = j + 1
    BY <2>1 DEF TableOK
  <2> QED  BY <1>2, <2>2
<1>5. \A i \in DOMAIN v : v[i] \notin t.used \cup {q}
  <2> SUFFICES ASSUME NEW i \in DOMAIN v PROVE v[i] \notin t.used /\ v[i] # q
    OBVIOUS
  <2> QED  BY <1>1, <1>2 DEF TableOK
<1> QED  BY <1>1, <1>2, <1>3, <1>4, <1>5 DEF TableOK, q

LEMMA FreeIs ==
  ASSUME NEW t, TableOK(t), NEW q \in QDs
  PROVE  TableOK(FreeQd(t, q)) /\ FreeQd(t, q).used = t.used \ {q}
<1>1. CASE q \notin t.used
  BY <1>1 DEF FreeQd
<1>2. CASE q \in t.used
  <2> DEFINE v == <<q>> \o t.vacant
  <2>1. t.vacant \in Seq(QDs) /\ t.used \in SUBSET QDs
    BY DEF TableOK
  <2>2. /\ v \in Seq(QDs) /\ Len(v) = Len(t.vacant) + 1 /\ v[1] = q
        /\ \A i \in DOMAIN v : i # 1 => v[i] = t.vacant[i-1] /\ i - 1 \in DOMAIN t.vacant
    BY <2>1
  <2>3. FreeQd(t, q) = [used |-> t.used \ {q}, vacant |-> v]
    BY <1>2 DEF FreeQd
  <2> HIDE DEF v
  <2>4. \A i \in DOMAIN v : i \in Nat
    BY <2>2
  <2>5. \A i, j \in DOMAIN v : v[i] = v[j] => i = j
    <3> SUFFICES ASSUME NEW i \in DOMAIN v, NEW j \in DOMAIN v, v[i] = v[j] PROVE i = j
      OBVIOUS
    <3>1. CASE i = 1 /\ j = 1
      BY <3>1
    <3>2. CASE i = 1 /\ j # 1
      BY <1>2, <2>2, <3>2 DEF TableOK
    <3>3. CASE i # 1 /\ j = 1
      BY <1>2, <2>2, <3>3 DEF TableOK
    <3>4. CASE i # 1 /\ j # 1
      <4>1. i - 1 = j - 1
        BY <2>2, <3>4 DEF TableOK
      <4> QED  BY <2>4, <4>1
    <3> QED  BY <3>1, <3>2, <3>3, <3>4
  <2>6. \A i \in DOMAIN v : v[i] \notin t.used \ {q}
    <3> SUFFICES ASSUME NEW i \in DOMAIN v, v[i] # q PROVE v[i] \notin t.used
      OBVIOUS
    <3> QED  BY <2>2 DEF TableOK
  <2> QED  BY <2>1, <2>2, <2>3, <2>5, <2>6 DEF TableOK
<1> QED  BY <1>1, <1>2

LEMMA AllocFreeIs ==
  ASSUME NEW t, TableOK(t), t.vacant # <<>>
  PROVE  /\ TableOK(FreeQd(AllocQd(t), NewQd(t)))
         /\ FreeQd(AllocQd(t), NewQd(t)).used = t.used
<1> DEFINE q == NewQd(t)
           u == AllocQd(t)
<1>1. q \in QDs /\ q \notin t.used /\ TableOK(u) /\ u.used = t.used \cup {q}
  BY AllocIs
<1> HIDE DEF q, u
<1>2. TableOK(FreeQd(u, q)) /\ FreeQd(u, q).used = u.used \ {q}
  BY <1>1, FreeIs
<1> QED  BY <1>1, <1>2 DEF q, u
-----------------------------------------------------------------------------
(* Queue descriptors and file descriptors. *)

Accepting(m) == {k \in Slots(m) : Op(m, k).kind = "accept"}
Got(m) == {k \in Accepting(m) : Op(m, k).done.is = "ok"}
NewOf(m, k) == Op(m, k).newqd
FdOf(m, k) == Op(m, k).done.value
InUse(m) == {f \in Fds : m.kernel.file[f] # NoSock}

(* A queue an accept holds is taken, and nobody else's. *)
Queues(m) ==
  /\ \A k, l \in Accepting(m) : NewOf(m, k) = NewOf(m, l) => k = l
  /\ \A k \in Accepting(m) : NewOf(m, k) \in m.table.used /\ NewOf(m, k) \notin m.open
  /\ m.open \subseteq m.table.used

(* An entry of the table has a descriptor or is held by an accept; a        *)
(* descriptor that is open is that of one open queue, or of one accept that *)
(* is over.                                                                 *)
Descriptors(m) ==
  /\ \A q \in m.table.used : m.sockets[q] # NoFd \/ \E k \in Accepting(m) : NewOf(m, k) = q
  /\ \A q \in QDs : m.sockets[q] # NoFd => q \in m.table.used
  /\ \A k \in Accepting(m) : m.sockets[NewOf(m, k)] = NoFd
  /\ \A f \in InUse(m) : (\E q \in m.open : m.sockets[q] = f) \/ (\E k \in Got(m) : FdOf(m, k) = f)
  /\ \A q \in m.open : m.sockets[q] \in InUse(m)
  /\ \A k \in Got(m) : FdOf(m, k) \in InUse(m)
  /\ \A p, q \in m.open : m.sockets[p] = m.sockets[q] => p = q
  /\ \A k, l \in Got(m) : FdOf(m, k) = FdOf(m, l) => k = l
  /\ \A q \in m.open, k \in Got(m) : m.sockets[q] # FdOf(m, k)

InetQueues(m) == \A q \in m.table.used : q \in m.open \/ \E k \in Accepting(m) : NewOf(m, k) = q

Names(m) ==
  /\ Queues(m)
  /\ m.backend = "catnap" => Descriptors(m)
  /\ m.backend = "catnip" => InetQueues(m)

(* Nothing of this changes. *)
NamesAlike(m, n) ==
  /\ n.backend = m.backend /\ n.table.used = m.table.used /\ n.sockets = m.sockets /\ n.open = m.open
  /\ Accepting(n) = Accepting(m) /\ \A k \in Accepting(m) : NewOf(n, k) = NewOf(m, k)
  /\ m.backend = "catnap" => /\ InUse(n) = InUse(m) /\ Got(n) = Got(m)
                             /\ \A k \in Got(m) : FdOf(n, k) = FdOf(m, k)

LEMMA NamesStay ==
  ASSUME NEW m, NEW n, Names(m), NamesAlike(m, n)
  PROVE  Names(n)
<1>1. Queues(n)
  BY DEF Names, Queues, NamesAlike
<1>2. m.backend = "catnap" => Descriptors(n)
  <2> SUFFICES ASSUME m.backend = "catnap" PROVE Descriptors(n)
    OBVIOUS
  <2>1. Descriptors(m) /\ \A k \in Got(m) : k \in Accepting(m)
    BY DEF Names, Got
  <2> QED  BY <2>1 DEF Descriptors, NamesAlike
<1>3. m.backend = "catnip" => InetQueues(n)
  BY DEF Names, InetQueues, NamesAlike
<1> QED  BY <1>1, <1>2, <1>3 DEF Names, NamesAlike

(* An accept is over. *)
LEMMA NamesGot ==
  ASSUME NEW m, NEW n, Names(m), m.backend = "catnap", NEW k, NEW v,
         n.backend = m.backend, n.table = m.table, n.sockets = m.sockets, n.open = m.open,
         Accepting(n) = Accepting(m), \A j \in Accepting(m) : NewOf(n, j) = NewOf(m, j),
         v \in Fds, v \notin InUse(m), InUse(n) = InUse(m) \cup {v},
         k \in Accepting(m), k \notin Got(m), Got(n) = Got(m) \cup {k},
         FdOf(n, k) = v, \A j \in Got(m) : FdOf(n, j) = FdOf(m, j)
  PROVE  Names(n)
<1>1. Queues(n)
  BY DEF Names, Queues
<1>2. Descriptors(n)
  <2>1. Descriptors(m) /\ \A j \in Got(m) : j \in Accepting(m)
    BY DEF Names, Got
  <2>2. \A j, l \in Got(n) : FdOf(n, j) = FdOf(n, l) => j = l
    BY <2>1 DEF Descriptors
  <2>3. \A q \in n.open, j \in Got(n) : n.sockets[q] # FdOf(n, j)
    BY <2>1 DEF Descriptors
  <2>4. \A f \in InUse(n) : (\E q \in n.open : n.sockets[q] = f) \/ (\E j \in Got(n) : FdOf(n, j) = f)
    BY <2>1 DEF Descriptors
  <2> QED  BY <2>1, <2>2, <2>3, <2>4 DEF Descriptors
<1> QED  BY <1>1, <1>2 DEF Names

(* A queue is opened. *)
LEMMA NamesOpened ==
  ASSUME NEW m, NEW n, Names(m), NEW q \in QDs, q \notin m.table.used, Rest(m),
         n.backend = m.backend, n.table.used = m.table.used \cup {q}, n.open = m.open \cup {q},
         Accepting(n) = Accepting(m), \A j \in Accepting(m) : NewOf(n, j) = NewOf(m, j),
         m.backend = "catnap" =>
           /\ Got(n) = Got(m) /\ \A j \in Got(m) : FdOf(n, j) = FdOf(m, j)
           /\ \E f \in Fds : f \notin InUse(m) /\ InUse(n) = InUse(m) \cup {f}
                             /\ n.sockets = [m.sockets EXCEPT ![q] = f]
  PROVE  Names(n)
<1>1. Queues(n)
  BY DEF Names, Queues
<1>2. m.backend = "catnap" => Descriptors(n)
  <2> SUFFICES ASSUME m.backend = "catnap" PROVE Descriptors(n)
    OBVIOUS
  <2>1. /\ Descriptors(m) /\ Queues(m) /\ \A j \in Got(m) : j \in Accepting(m)
        /\ Got(n) = Got(m) /\ \A j \in Got(m) : FdOf(n, j) = FdOf(m, j)
    BY DEF Names, Got
  <2>2. PICK f \in Fds : f \notin InUse(m) /\ InUse(n) = InUse(m) \cup {f}
                         /\ n.sockets = [m.sockets EXCEPT ![q] = f]
    OBVIOUS
  <2>3. \A p \in QDs : n.sockets[p] = IF p = q THEN f ELSE m.sockets[p]
    BY <2>2 DEF Rest
  <2>4. /\ f # NoFd /\ q \notin m.open /\ m.open \subseteq QDs /\ m.table.used \subseteq QDs
        /\ m.sockets \in [QDs -> Fds \cup {NoFd}]
    BY <2>1, Bounds DEF Rest, TableOK, Queues
  <2> QED  BY <2>1, <2>2, <2>3, <2>4, Bounds DEF Descriptors, Queues
<1>3. m.backend = "catnip" => InetQueues(n)
  BY DEF Names, InetQueues
<1> QED  BY <1>1, <1>2, <1>3 DEF Names

(* A queue is closed: its entry and its descriptor's number remain. *)
LEMMA NamesClosed ==
  ASSUME NEW m, NEW n, Names(m), Rest(m), m.backend = "catnap", NEW q \in m.open,
         n.backend = m.backend, n.table = m.table, n.sockets = m.sockets, n.open = m.open \ {q},
         Accepting(n) = Accepting(m), \A j \in Accepting(m) : NewOf(n, j) = NewOf(m, j),
         Got(n) = Got(m), \A j \in Got(m) : FdOf(n, j) = FdOf(m, j),
         InUse(n) = InUse(m) \ {m.sockets[q]}
  PROVE  Names(n)
<1>1. Queues(n)
  BY DEF Names, Queues
<1>2. Descriptors(n)
  <2>1. Descriptors(m) /\ \A j \in Got(m) : j \in Accepting(m)
    BY DEF Names, Got
  <2> QED  BY <2>1 DEF Descriptors
<1> QED  BY <1>1, <1>2 DEF Names

(* An accept is scheduled: it holds a queue. *)
LEMMA NamesHeld ==
  ASSUME NEW m, NEW n, Names(m), Rest(m), NEW k, NEW q \in QDs, q \notin m.table.used,
         n.backend = m.backend, n.table.used = m.table.used \cup {q},
         n.sockets = m.sockets, n.open = m.open,
         k \notin Accepting(m), Accepting(n) = Accepting(m) \cup {k}, NewOf(n, k) = q,
         \A j \in Accepting(m) : NewOf(n, j) = NewOf(m, j),
         InUse(n) = InUse(m), Got(n) = Got(m), \A j \in Got(m) : FdOf(n, j) = FdOf(m, j)
  PROVE  Names(n)
<1>1. Queues(n)
  BY DEF Names, Queues
<1>2. m.backend = "catnap" => Descriptors(n)
  <2> SUFFICES ASSUME m.backend = "catnap" PROVE Descriptors(n)
    OBVIOUS
  <2>1. Descriptors(m) /\ \A j \in Got(m) : j \in Accepting(m)
    BY DEF Names, Got
  <2> QED  BY <2>1 DEF Descriptors
<1>3. m.backend = "catnip" => InetQueues(n)
  BY DEF Names, InetQueues
<1> QED  BY <1>1, <1>2, <1>3 DEF Names

(* The application takes an accepted connection. *)
LEMMA NamesTaken ==
  ASSUME NEW m, NEW n, Names(m), Rest(m), NEW k \in Got(m), NewOf(m, k) \in QDs,
         n.backend = m.backend, n.table = m.table, n.open = m.open \cup {NewOf(m, k)},
         m.backend = "catnap" => n.sockets = [m.sockets EXCEPT ![NewOf(m, k)] = FdOf(m, k)],
         InUse(n) = InUse(m), Accepting(n) = Accepting(m) \ {k}, Got(n) = Got(m) \ {k},
         \A j \in Accepting(n) : NewOf(n, j) = NewOf(m, j), \A j \in Got(n) : FdOf(n, j) = FdOf(m, j)
  PROVE  Names(n)
<1> DEFINE q == NewOf(m, k)
<1>0. k \in Accepting(m) /\ \A j \in Got(m) : j \in Accepting(m)
  BY DEF Got
<1>1. Queues(n)
  BY <1>0 DEF Names, Queues
<1>2. m.backend = "catnap" => Descriptors(n)
  <2> SUFFICES ASSUME m.backend = "catnap" PROVE Descriptors(n)
    OBVIOUS
  <2>1. Descriptors(m) /\ Queues(m)
    BY DEF Names
  <2>2. \A p \in QDs : n.sockets[p] = IF p = q THEN FdOf(m, k) ELSE m.sockets[p]
    BY DEF Rest
  <2>3. q \notin m.open /\ m.open \subseteq QDs /\ m.table.used \subseteq QDs /\ q \in m.table.used
    BY <1>0, <2>1 DEF Rest, TableOK, Queues
  <2>4. FdOf(m, k) # NoFd /\ FdOf(m, k) \in InUse(m)
    BY <2>1, Bounds DEF Descriptors, InUse
  <2>5. \A j \in Accepting(n) : NewOf(m, j) # q /\ NewOf(m, j) \in QDs /\ j \in Accepting(m)
    BY <1>0, <2>1, <2>3 DEF Queues
  <2> HIDE DEF q
  <2>6. n.open = m.open \cup {q} /\ q = NewOf(m, k)
    BY DEF q
  <2>7. \A p \in n.table.used : n.sockets[p] # NoFd \/ \E j \in Accepting(n) : NewOf(n, j) = p
    BY <2>1, <2>2, <2>3, <2>4, <2>5, <2>6 DEF Descriptors
  <2>8. \A p \in QDs : n.sockets[p] # NoFd => p \in n.table.used
    BY <2>1, <2>2, <2>3 DEF Descriptors
  <2>9. \A j \in Accepting(n) : n.sockets[NewOf(n, j)] = NoFd
    BY <2>1, <2>2, <2>5 DEF Descriptors
  <2>10. \A f \in InUse(n) : (\E p \in n.open : n.sockets[p] = f) \/ (\E j \in Got(n) : FdOf(n, j) = f)
    BY <2>1, <2>2, <2>3, <2>6 DEF Descriptors
  <2>11. /\ \A p \in n.open : n.sockets[p] \in InUse(n)
         /\ \A p, r \in n.open : n.sockets[p] = n.sockets[r] => p = r
    BY <2>1, <2>2, <2>3, <2>4, <2>6 DEF Descriptors
  <2>12. /\ \A j \in Got(n) : FdOf(n, j) \in InUse(n)
         /\ \A j, l \in Got(n) : FdOf(n, j) = FdOf(n, l) => j = l
    BY <2>1 DEF Descriptors
  <2>13. \A p \in n.open, j \in Got(n) : n.sockets[p] # FdOf(n, j)
    BY <2>1, <2>2, <2>3, <2>6 DEF Descriptors
  <2> QED  BY <2>7, <2>8, <2>9, <2>10, <2>11, <2>12, <2>13 DEF Descriptors
<1>3. m.backend = "catnip" => InetQueues(n)
  BY <1>0 DEF Names, InetQueues
<1> QED  BY <1>1, <1>2, <1>3 DEF Names

(* The queue of an accept that failed is given back. *)
LEMMA NamesReturned ==
  ASSUME NEW m, NEW n, Names(m), Rest(m), NEW k \in Accepting(m), k \notin Got(m),
         n.backend = m.backend, n.table.used = m.table.used \ {NewOf(m, k)},
         n.open = m.open, n.sockets = m.sockets,
         InUse(n) = InUse(m), Accepting(n) = Accepting(m) \ {k}, Got(n) = Got(m),
         \A j \in Accepting(n) : NewOf(n, j) = NewOf(m, j), \A j \in Got(n) : FdOf(n, j) = FdOf(m, j)
  PROVE  Names(n)
<1>1. Queues(n)
  BY DEF Names, Queues
<1>2. m.backend = "catnap" => Descriptors(n)
  <2> SUFFICES ASSUME m.backend = "catnap" PROVE Descriptors(n)
    OBVIOUS
  <2>1. Descriptors(m) /\ \A j \in Got(m) : j \in Accepting(m)
    BY DEF Names, Got
  <2> QED  BY <2>1 DEF Descriptors
<1>3. m.backend = "catnip" => InetQueues(n)
  BY DEF Names, InetQueues
<1> QED  BY <1>1, <1>2, <1>3 DEF Names

(* One to one, and as many. *)
LEMMA AsMany ==
  ASSUME NEW S, IsFiniteSet(S), NEW T, NEW f, f = [x \in S |-> f[x]],
         \A x \in S : f[x] \in T, \A y \in T : \E x \in S : f[x] = y,
         \A x, y \in S : f[x] = f[y] => x = y
  PROVE  IsFiniteSet(T) /\ Cardinality(T) = Cardinality(S)
<1>1. f \in [S -> T]
  OBVIOUS
<1>2. f \in Bijection(S, T)
  BY <1>1 DEF Bijection, Injection, Surjection, IsInjective
<1>3. ExistsBijection(S, T)
  BY <1>2 DEF ExistsBijection
<1> QED  BY <1>3, FS_Bijection

(* The variables. *)
LEMMA HereIs ==
  /\ Here.backend = backend /\ Here.program = program /\ Here.sched = sched /\ Here.table = table
  /\ Here.sockets = sockets /\ Here.kernel = kernel /\ Here.issued = issued /\ Here.token = token
  /\ Here.open = open /\ Here.log = log
  /\ Slots(Here) = Occupied(sched) /\ \A k : Op(Here, k) = sched.slab[k]
BY DEF Here, Slots, Op

LEMMA TokensSuffice ==
  ASSUME Core(Here)
  PROVE  TokensHold
BY HereIs DEF Core, Tokens, OpOK, TokensHold, Outstanding, OpOf

LEMMA NamesSuffice ==
  ASSUME Core(Here), Names(Here)
  PROVE  NamesHold
<1> DEFINE A == Accepting(Here)
           G == Got(Here)
<1>1. /\ A = {k \in Occupied(sched) : sched.slab[k].kind = "accept"} /\ A \subseteq Keys
      /\ G = {k \in A : sched.slab[k].done.is = "ok"}
      /\ \A k \in A : NewOf(Here, k) = sched.slab[k].newqd /\ FdOf(Here, k) = sched.slab[k].done.value
  BY HereIs DEF Accepting, Got, NewOf, FdOf, Occupied
<1>2. /\ Accepts = {sched.slab[k] : k \in A} /\ Untaken = {sched.slab[k] : k \in G}
  BY <1>1 DEF Accepts, Untaken
<1>3. /\ {op.newqd : op \in Accepts} = {NewOf(Here, k) : k \in A}
      /\ {op.done.value : op \in Untaken} = {FdOf(Here, k) : k \in G}
  BY <1>1, <1>2
<1>4. Queues(Here) /\ InUse(Here) = OpenFds
      /\ (backend = "catnap" => Descriptors(Here)) /\ (backend = "catnip" => InetQueues(Here))
  BY HereIs DEF Names, InUse, OpenFds
<1>5. /\ table.used \subseteq QDs /\ open \subseteq QDs /\ sockets \in [QDs -> Fds \cup {NoFd}]
      /\ sched.slab \in [Keys -> Operations \cup {NoTask}]
  BY HereIs DEF Core, Rest, TableOK, SchedOK, Shaped
<1>6. \A k, l \in A : sched.slab[k] = sched.slab[l] => k = l
  BY <1>1, HereIs DEF Core, SchedOK, SlotsOK, Occupied
<1> HIDE DEF A, G
<1>7. \A op1, op2 \in Accepts : op1.newqd = op2.newqd => op1.id = op2.id
  BY <1>1, <1>2, <1>4 DEF Queues, A
<1>8. backend = "catnip" => table.used = open \cup {op.newqd : op \in Accepts}
  <2> SUFFICES ASSUME backend = "catnip" PROVE table.used = open \cup {NewOf(Here, k) : k \in A}
    BY <1>3
  <2> QED  BY <1>4, HereIs DEF Queues, InetQueues, A
<1>9. ASSUME backend = "catnap"
      PROVE  /\ table.used = {q \in QDs : sockets[q] # NoFd} \cup {op.newqd : op \in Accepts}
             /\ \A op \in Accepts : sockets[op.newqd] = NoFd
             /\ OpenFds = {sockets[q] : q \in open} \cup {op.done.value : op \in Untaken}
             /\ Cardinality(OpenFds) = Cardinality(open) + Cardinality(Untaken)
  <2>1. Descriptors(Here)
    BY <1>4, <1>9
  <2> DEFINE F == {sockets[q] : q \in open}
             H == {FdOf(Here, k) : k \in G}
  <2>2. table.used = {q \in QDs : sockets[q] # NoFd} \cup {NewOf(Here, k) : k \in A}
    BY <1>4, <1>5, <2>1, HereIs DEF Queues, Descriptors, A
  <2>3. \A op \in Accepts : sockets[op.newqd] = NoFd
    BY <1>1, <1>2, <2>1, HereIs DEF Descriptors, A
  <2>4. OpenFds = F \cup H
    BY <1>4, <2>1, HereIs DEF Descriptors, G
  <2>5. F \cap H = {}
    BY <2>1, HereIs DEF Descriptors, G
  <2>6. IsFiniteSet(open) /\ IsFiniteSet(Keys)
    <3>1. IsFiniteSet(QDs) /\ IsFiniteSet(Keys)
      BY Bounds, FS_Interval DEF QDs, Keys
    <3> QED  BY <1>5, <3>1, FS_Subset
  <2>7. IsFiniteSet(F) /\ Cardinality(F) = Cardinality(open)
    <3> DEFINE f == [q \in open |-> sockets[q]]
    <3>1. \A p, q \in open : f[p] = f[q] => p = q
      BY <2>1, HereIs DEF Descriptors
    <3>2. f = [x \in open |-> f[x]] /\ (\A x \in open : f[x] \in F) /\ \A y \in F : \E x \in open : f[x] = y
      OBVIOUS
    <3> HIDE DEF f, F
    <3> QED  BY <2>6, <3>1, <3>2, AsMany
  <2>8. IsFiniteSet(G)
    BY <1>1, <2>6, FS_Subset DEF G, A
  <2>9. IsFiniteSet(H) /\ Cardinality(H) = Cardinality(G)
    <3> DEFINE f == [k \in G |-> FdOf(Here, k)]
    <3>1. \A p, q \in G : f[p] = f[q] => p = q
      BY <2>1 DEF Descriptors, G
    <3>2. f = [x \in G |-> f[x]] /\ (\A x \in G : f[x] \in H) /\ \A y \in H : \E x \in G : f[x] = y
      OBVIOUS
    <3> HIDE DEF f, H
    <3> QED  BY <2>8, <3>1, <3>2, AsMany
  <2>10. IsFiniteSet(Untaken) /\ Cardinality(Untaken) = Cardinality(G)
    <3> DEFINE f == [k \in G |-> sched.slab[k]]
    <3>1. \A p, q \in G : f[p] = f[q] => p = q
      BY <1>1, <1>6 DEF G
    <3>2. f = [x \in G |-> f[x]] /\ (\A x \in G : f[x] \in Untaken) /\ \A y \in Untaken : \E x \in G : f[x] = y
      BY <1>2
    <3> HIDE DEF f
    <3> QED  BY <2>8, <3>1, <3>2, AsMany
  <2> HIDE DEF F, H
  <2>11. Cardinality(OpenFds) = Cardinality(open) + Cardinality(Untaken)
    <3>1. Cardinality(F \cup H) = Cardinality(F) + Cardinality(H) - Cardinality(F \cap H)
      BY <2>7, <2>9, FS_Union
    <3>2. Cardinality(F \cap H) = 0
      BY <2>5, FS_EmptySet
    <3>3. Cardinality(F) \in Nat /\ Cardinality(H) \in Nat
      BY <2>7, <2>9, FS_CardinalityType
    <3> QED  BY <2>4, <2>7, <2>9, <2>10, <3>1, <3>2, <3>3
  <2> QED  BY <1>3, <2>2, <2>3, <2>4, <2>11 DEF F, H
<1>10. TablesAgree
  BY <1>7, <1>8, <1>9 DEF TablesAgree
<1> QED  BY <1>10, TokensSuffice DEF NamesHold
-----------------------------------------------------------------------------
(* The sockets of the kernel: one is named by at most one descriptor, or    *)
(* stands once in the queue of one listener.                                *)

Stands(k, l, i, s) == i \in DOMAIN k.sock[l].queue /\ k.sock[l].queue[i] = s
Queued(k, s) == \E l \in Socks : \E i : Stands(k, l, i, s)

Once(k) ==
  /\ \A f, g \in Fds : k.file[f] # NoSock /\ k.file[f] = k.file[g] => f = g
  /\ \A l1, l2 \in Socks : \A i1, i2 : \A s : Stands(k, l1, i1, s) /\ Stands(k, l2, i2, s) => l1 = l2 /\ i1 = i2
  /\ \A s \in Socks : Queued(k, s) => ~Unmade(k, s) /\ \A f \in Fds : k.file[f] # s
  /\ \A f \in Fds : k.file[f] # NoSock => ~Unmade(k, k.file[f])

(* The queues stay, descriptors stay. *)
LEMMA OnceStays ==
  ASSUME NEW k, NEW k2, Once(k), k2.file = k.file,
         \A s \in Socks : SameQueue(k, k2, s) /\ SameMade(k, k2, s),
         k.file \in [Fds -> Socks \cup {NoSock}]
  PROVE  Once(k2) /\ \A s \in Socks : Queued(k2, s) <=> Queued(k, s)
<1>1. \A l \in Socks : \A i, s : Stands(k2, l, i, s) <=> Stands(k, l, i, s)
  BY DEF Stands, SameQueue
<1>2. \A s \in Socks : Queued(k2, s) <=> Queued(k, s)
  BY <1>1 DEF Queued
<1> QED  BY <1>1, <1>2 DEF Once, SameMade

LEMMA AppendIs ==
  ASSUME NEW S, NEW q \in Seq(S), NEW t \in S
  PROVE  /\ Append(q, t) \in Seq(S) /\ Append(q, t) # <<>> /\ Len(Append(q, t)) = Len(q) + 1
         /\ Len(q) + 1 \notin DOMAIN q /\ DOMAIN Append(q, t) = DOMAIN q \cup {Len(q) + 1}
         /\ DOMAIN Append(q, t) = 1..(Len(q) + 1) /\ DOMAIN q = 1..Len(q) /\ Len(q) \in Nat
         /\ Append(q, t)[Len(q) + 1] = t /\ \A i \in DOMAIN q : Append(q, t)[i] = q[i]
<1>1. /\ Append(q, t) \in Seq(S) /\ Append(q, t) # <<>> /\ Len(Append(q, t)) = Len(q) + 1
      /\ DOMAIN Append(q, t) = 1..(Len(q) + 1) /\ DOMAIN q = 1..Len(q) /\ Len(q) \in Nat
  OBVIOUS
<1>2. Append(q, t)[Len(q) + 1] = t /\ \A i \in DOMAIN q : Append(q, t)[i] = q[i]
  OBVIOUS
<1>3. DOMAIN q \cup {Len(q) + 1} = 1..(Len(q) + 1) /\ Len(q) + 1 \notin DOMAIN q
  BY <1>1
<1> QED  BY <1>1, <1>2, <1>3

(* A socket that is new enters a queue. *)
LEMMA OnceConnected ==
  ASSUME NEW k, NEW k2, KernelOK(k), Once(k), Connected(k, k2)
  PROVE  /\ Once(k2)
         /\ \A s \in Socks : ~Unmade(k, s) => ~Unmade(k2, s)
         /\ \A s \in Socks : Queued(k2, s) => Queued(k, s) \/ Unmade(k, s)
<1>1. PICK l, t \in Socks :
       /\ Unmade(k, t) /\ \A s \in Socks : Unmade(k2, s) <=> Unmade(k, s) /\ s # t
       /\ \A s \in Socks : k2.sock[s].queue = IF s = l THEN Append(k.sock[s].queue, t) ELSE k.sock[s].queue
  BY DEF Connected
<1> DEFINE q == k.sock[l].queue
           e == Len(q) + 1
<1>2. k.sock[l] \in SockRecs
  BY DEF KernelOK
<1>3. q \in Seq(Socks) /\ k2.sock[l].queue = Append(q, t)
  BY <1>1, <1>2, FieldsOf
<1>4. /\ e \notin DOMAIN q /\ DOMAIN Append(q, t) = DOMAIN q \cup {e} /\ Append(q, t)[e] = t
      /\ \A i \in DOMAIN q : Append(q, t)[i] = q[i]
  BY <1>3, AppendIs
<1> HIDE DEF q, e
<1>5. \A i, s : Stands(k2, l, i, s) <=> Stands(k, l, i, s) \/ (i = e /\ s = t)
  BY <1>3, <1>4 DEF Stands, q
<1>6. \A j \in Socks : j # l => \A i, s : Stands(k2, j, i, s) <=> Stands(k, j, i, s)
  BY <1>1 DEF Stands
<1>7. ~Queued(k, t)
  BY <1>1 DEF Once
<1>8. \A s \in Socks : Queued(k2, s) => Queued(k, s) \/ s = t
  BY <1>5, <1>6 DEF Queued
<1>9. k2.file = k.file /\ k.file \in [Fds -> Socks \cup {NoSock}]
  BY DEF Connected, KernelOK
<1>10. \A l1, l2 \in Socks : \A i1, i2 : \A s :
          Stands(k2, l1, i1, s) /\ Stands(k2, l2, i2, s) => l1 = l2 /\ i1 = i2
  <2>1. \A j \in Socks : \A i : ~Stands(k, j, i, t)
    BY <1>7 DEF Queued
  <2> SUFFICES ASSUME NEW l1 \in Socks, NEW l2 \in Socks, NEW i1, NEW i2, NEW s,
                      Stands(k2, l1, i1, s), Stands(k2, l2, i2, s)
               PROVE  l1 = l2 /\ i1 = i2
    OBVIOUS
  <2>2. Stands(k, l1, i1, s) \/ (l1 = l /\ i1 = e /\ s = t)
    BY <1>5, <1>6
  <2>3. Stands(k, l2, i2, s) \/ (l2 = l /\ i2 = e /\ s = t)
    BY <1>5, <1>6
  <2> QED  BY <2>1, <2>2, <2>3 DEF Once
<1>11. \A s \in Socks : Queued(k2, s) => ~Unmade(k2, s) /\ \A f \in Fds : k2.file[f] # s
  BY <1>1, <1>8, <1>9, Bounds DEF Once
<1>12. \A f \in Fds : k2.file[f] # NoSock => ~Unmade(k2, k2.file[f])
  BY <1>1, <1>9 DEF Once
<1>13. Once(k2)
  BY <1>9, <1>10, <1>11, <1>12 DEF Once
<1> QED  BY <1>1, <1>8, <1>13

(* The first of a queue gets a descriptor. *)
LEMMA OnceAccepted ==
  ASSUME NEW k, NEW op, NEW r, KernelOK(k), Once(k), Accepted(k, op, r)
  PROVE  /\ Once(r.kernel)
         /\ Queued(k, r.kernel.file[r.value]) /\ r.kernel.file[r.value] \in Socks
         /\ \A s \in Socks : Queued(r.kernel, s) => Queued(k, s)
<1> DEFINE l == k.file[op.fd]
           q == k.sock[l].queue
           k2 == r.kernel
           v == r.value
           h == Head(q)
<1>1. l \in Socks /\ k.sock[l] \in SockRecs /\ q # <<>> /\ v \in Fds /\ k.file[v] = NoSock
  BY DEF Accepted, KernelOK
<1>2. q \in Seq(Socks)
  BY <1>1, FieldsOf
<1>3. k2.sock[l].queue = Tail(q) /\ \A s \in Socks : s # l => k2.sock[s].queue = k.sock[s].queue
  BY <1>1 DEF Accepted
<1>4. h \in Socks /\ k2.file = [k.file EXCEPT ![v] = h] /\ k.file \in [Fds -> Socks \cup {NoSock}]
      /\ \A s \in Socks : Unmade(k2, s) <=> Unmade(k, s)
  BY <1>1, <1>2 DEF Accepted, KernelOK, SameMade
<1> HIDE DEF h, q
<1>5. /\ q[1] = h /\ 1 \in DOMAIN q
      /\ \A i \in DOMAIN Tail(q) : i \in Nat /\ i + 1 # 1 /\ i + 1 \in DOMAIN q /\ Tail(q)[i] = q[i + 1]
  BY <1>1, <1>2 DEF h, q
<1> HIDE DEF l, k2, v
<1>6. \A i, s : Stands(k2, l, i, s) => i \in Nat /\ i + 1 # 1 /\ Stands(k, l, i + 1, s)
  BY <1>3, <1>5 DEF Stands, q
<1>7. \A j \in Socks : j # l => \A i, s : Stands(k2, j, i, s) <=> Stands(k, j, i, s)
  BY <1>3 DEF Stands
<1>8. Stands(k, l, 1, h) /\ Queued(k, h)
  BY <1>1, <1>5 DEF Stands, Queued, q
<1>9. \A s \in Socks : Queued(k2, s) => Queued(k, s) /\ s # h
  <2> SUFFICES ASSUME NEW s \in Socks, NEW j \in Socks, NEW i, Stands(k2, j, i, s)
               PROVE  Queued(k, s) /\ s # h
    BY DEF Queued
  <2>1. CASE j = l
    <3>1. i + 1 # 1 /\ Stands(k, l, i + 1, s)
      BY <1>6, <2>1
    <3> QED  BY <1>1, <1>8, <3>1 DEF Queued, Once
  <2>2. CASE j # l
    <3>1. Stands(k, j, i, s)
      BY <1>7, <2>2
    <3> QED  BY <1>1, <1>8, <2>2, <3>1 DEF Queued, Once
  <2> QED  BY <2>1, <2>2
<1>10. \A l1, l2 \in Socks : \A i1, i2 : \A s :
          Stands(k2, l1, i1, s) /\ Stands(k2, l2, i2, s) => l1 = l2 /\ i1 = i2
  <2> SUFFICES ASSUME NEW l1 \in Socks, NEW l2 \in Socks, NEW i1, NEW i2, NEW s,
                      Stands(k2, l1, i1, s), Stands(k2, l2, i2, s)
               PROVE  l1 = l2 /\ i1 = i2
    OBVIOUS
  <2>1. l1 = l2
    BY <1>6, <1>7 DEF Once
  <2>2. CASE l1 = l
    <3>1. i1 \in Nat /\ i2 \in Nat /\ Stands(k, l, i1 + 1, s) /\ Stands(k, l, i2 + 1, s)
      BY <1>6, <2>1, <2>2
    <3>2. i1 + 1 = i2 + 1
      BY <1>1, <3>1 DEF Once
    <3> QED  BY <2>1, <3>1, <3>2
  <2>3. CASE l1 # l
    BY <1>7, <2>1, <2>3 DEF Once
  <2> QED  BY <2>2, <2>3
<1>11. /\ \A f, g \in Fds : k2.file[f] # NoSock /\ k2.file[f] = k2.file[g] => f = g
       /\ \A f \in Fds : k2.file[f] # NoSock => ~Unmade(k2, k2.file[f])
       /\ \A s \in Socks : Queued(k2, s) => ~Unmade(k2, s) /\ \A f \in Fds : k2.file[f] # s
       /\ k2.file[v] = h
  <2>1. \A f \in Fds : k2.file[f] = IF f = v THEN h ELSE k.file[f]
    BY <1>1, <1>4
  <2>2. \A f \in Fds : k.file[f] # h /\ ~Unmade(k, h)
    BY <1>4, <1>8 DEF Once
  <2> QED  BY <1>1, <1>4, <1>9, <2>1, <2>2 DEF Once
<1>12. Once(k2)
  BY <1>10, <1>11 DEF Once
<1> QED  BY <1>4, <1>8, <1>9, <1>11, <1>12 DEF k2, v

(* A socket is made, or loses its descriptor. *)
LEMMA OnceMade ==
  ASSUME NEW k, NEW k2, NEW f, KernelOK(k), Once(k), Made(k, k2, f)
  PROVE  /\ Once(k2) /\ k2.file[f] \in Socks /\ Unmade(k, k2.file[f])
         /\ \A g \in Fds : g # f => k2.file[g] = k.file[g]
         /\ \A s \in Socks : Queued(k2, s) <=> Queued(k, s)
         /\ \A s \in Socks : ~Unmade(k, s) => ~Unmade(k2, s)
<1>1. PICK t \in Socks :
       /\ Unmade(k, t) /\ \A s \in Socks : Unmade(k2, s) <=> Unmade(k, s) /\ s # t
       /\ k2.file = [k.file EXCEPT ![f] = t]
  BY DEF Made
<1>2. \A l \in Socks : \A i, s : Stands(k2, l, i, s) <=> Stands(k, l, i, s)
  BY DEF Stands, SameQueue, Made
<1>3. \A s \in Socks : Queued(k2, s) <=> Queued(k, s)
  BY <1>2 DEF Queued
<1>4. \A g \in Fds : k2.file[g] = IF g = f THEN t ELSE k.file[g]
  BY <1>1 DEF KernelOK
<1>5. f \in Fds /\ k.file[f] = NoSock /\ k.file \in [Fds -> Socks \cup {NoSock}]
  BY DEF Made, KernelOK
<1>6. Once(k2)
  BY <1>1, <1>2, <1>3, <1>4, <1>5, Bounds DEF Once
<1> QED  BY <1>1, <1>3, <1>4, <1>5, <1>6

LEMMA OnceClosed ==
  ASSUME NEW k, KernelOK(k), Once(k), NEW f \in Fds
  PROVE  /\ KernelOK(SysClose(k, f)) /\ Once(SysClose(k, f))
         /\ SysClose(k, f).sock = k.sock
         /\ \A g \in Fds : SysClose(k, f).file[g] = IF g = f THEN NoSock ELSE k.file[g]
<1> DEFINE k2 == SysClose(k, f)
<1>1. k2.sock = k.sock /\ k2.file = [k.file EXCEPT ![f] = NoSock] /\ KernelOK(k2)
  BY DEF SysClose, KernelOK
<1>2. \A g \in Fds : k2.file[g] = IF g = f THEN NoSock ELSE k.file[g]
  BY DEF SysClose, KernelOK
<1> HIDE DEF k2
<1>3. \A l \in Socks : \A i, s : Stands(k2, l, i, s) <=> Stands(k, l, i, s)
  BY <1>1 DEF Stands
<1>4. \A s \in Socks : (Queued(k2, s) <=> Queued(k, s)) /\ (Unmade(k2, s) <=> Unmade(k, s))
  BY <1>1, <1>3 DEF Queued, Unmade
<1>5. k.file \in [Fds -> Socks \cup {NoSock}]
  BY DEF KernelOK
<1>6. Once(k2)
  BY <1>2, <1>3, <1>4, <1>5, Bounds DEF Once
<1> QED  BY <1>1, <1>2, <1>6 DEF k2
-----------------------------------------------------------------------------
(* What the application pops (catnap). *)

SockOf(m, q) == m.kernel.file[m.sockets[q]]
Read(m, s) == m.kernel.sock[s].read
Logged(m, q) == m.log[q] # <<>>
LogSock(m, q) == m.log[q][1][1]
Upto(m, q) == IF m.log[q] = <<>> THEN 0 ELSE m.log[q][Len(m.log[q])][3]
Popped(m, k) == Op(m, k).kind = "pop" /\ Op(m, k).done.is = "ok"

(* An operation is on an open queue, with the descriptor that queue still   *)
(* has, and the only one of its kind there.                                 *)
OwnQueue(m) ==
  /\ \A k \in Slots(m) : Op(m, k).qd \in m.open /\ Op(m, k).fd = m.sockets[Op(m, k).qd]
  /\ \A k, l \in Slots(m) : Op(m, k).qd = Op(m, l).qd /\ Op(m, k).kind = Op(m, l).kind => k = l

(* A socket that was popped from was popped from through one queue, and has *)
(* no other descriptor since.                                               *)
Logs(m) ==
  /\ \A q \in QDs : Logged(m, q) =>
        /\ LogSock(m, q) \in Socks /\ m.sockets[q] # NoFd
        /\ ~Unmade(m.kernel, LogSock(m, q)) /\ ~Queued(m.kernel, LogSock(m, q))
        /\ \A f \in Fds : m.kernel.file[f] = LogSock(m, q) => q \in m.open /\ m.sockets[q] = f
  /\ \A p, q \in QDs : Logged(m, p) /\ Logged(m, q) /\ LogSock(m, p) = LogSock(m, q) => p = q

InOrder(m) ==
  \A q \in QDs : \A i \in DOMAIN m.log[q] :
     /\ m.log[q][i][1] = LogSock(m, q)
     /\ m.log[q][i][2] = IF i = 1 THEN 1 ELSE m.log[q][i-1][3] + 1

(* What was read of a socket is in the log, or in the one pop that is over; *)
(* nothing was read of a socket no queue has had.                           *)
Positions(m) ==
  /\ \A q \in m.open : Logged(m, q) => LogSock(m, q) = SockOf(m, q)
  /\ \A k \in Slots(m) : Popped(m, k) =>
        Op(m, k).done.value = <<SockOf(m, Op(m, k).qd), Upto(m, Op(m, k).qd) + 1,
                                Read(m, SockOf(m, Op(m, k).qd))>>
  /\ \A q \in m.open : (\A k \in Slots(m) : Op(m, k).qd = q => ~Popped(m, k))
                        => Read(m, SockOf(m, q)) = Upto(m, q)
  /\ \A s \in Socks : /\ \A q \in m.open : SockOf(m, q) # s
                      /\ \A q \in QDs : Logged(m, q) => LogSock(m, q) # s
                      => Read(m, s) = 0

StreamsOf(m) == Once(m.kernel) /\ OwnQueue(m) /\ Logs(m) /\ InOrder(m) /\ Positions(m)

(* Open queues have sockets, each its own. *)
LEMMA OwnSocket ==
  ASSUME NEW m, Rest(m), Descriptors(m), Once(m.kernel)
  PROVE  /\ \A q \in m.open : /\ q \in QDs /\ m.sockets[q] \in Fds /\ SockOf(m, q) \in Socks
                              /\ ~Unmade(m.kernel, SockOf(m, q)) /\ ~Queued(m.kernel, SockOf(m, q))
         /\ \A p, q \in m.open : SockOf(m, p) = SockOf(m, q) => p = q
<1>1. m.open \subseteq QDs /\ m.kernel.file \in [Fds -> Socks \cup {NoSock}]
  BY DEF Rest, KernelOK
<1>2. \A q \in m.open : m.sockets[q] \in Fds /\ m.kernel.file[m.sockets[q]] # NoSock
  BY DEF Descriptors, InUse
<1> QED  BY <1>1, <1>2 DEF SockOf, Once, Descriptors

(* The operations that are left stay what they are, and the sockets too. *)
StreamsAlike(m, n) ==
  /\ n.open = m.open /\ n.sockets = m.sockets /\ n.log = m.log
  /\ n.kernel.file = m.kernel.file /\ Once(n.kernel)
  /\ \A s \in Socks : /\ Read(n, s) = Read(m, s)
                      /\ ~Unmade(m.kernel, s) => ~Unmade(n.kernel, s)
                      /\ Queued(n.kernel, s) => Queued(m.kernel, s) \/ Unmade(m.kernel, s)
  /\ Slots(n) \subseteq Slots(m) /\ \A k \in Slots(m) \ Slots(n) : ~Popped(m, k)
  /\ \A k \in Slots(n) : SameOp(Op(n, k), Op(m, k)) /\ (Popped(n, k) <=> Popped(m, k))
  /\ \A k \in Slots(n) : Popped(m, k) => Op(n, k).done.value = Op(m, k).done.value

LEMMA StreamsStay ==
  ASSUME NEW m, NEW n, Rest(m), Descriptors(m), StreamsOf(m), StreamsAlike(m, n)
  PROVE  StreamsOf(n)
<1>1. OwnQueue(n)
  BY DEF StreamsOf, OwnQueue, StreamsAlike, SameOp
<1>2. Logs(n)
  <2>1. \A q \in QDs : Logged(n, q) = Logged(m, q) /\ LogSock(n, q) = LogSock(m, q)
    BY DEF Logged, LogSock, StreamsAlike
  <2> QED  BY <2>1 DEF StreamsOf, Logs, StreamsAlike
<1>3. InOrder(n)
  BY DEF StreamsOf, InOrder, StreamsAlike, LogSock
<1>4. Positions(n)
  <2>1. /\ \A q : Logged(n, q) = Logged(m, q) /\ LogSock(n, q) = LogSock(m, q)
        /\ \A q : Upto(n, q) = Upto(m, q) /\ SockOf(n, q) = SockOf(m, q)
    BY DEF Logged, LogSock, StreamsAlike, Upto, SockOf
  <2>2. \A q \in m.open : SockOf(m, q) \in Socks
    BY OwnSocket DEF StreamsOf
  <2>3. n.open = m.open /\ \A s \in Socks : Read(n, s) = Read(m, s)
    BY DEF StreamsAlike
  <2>4. \A k \in Slots(n) : Popped(n, k) =>
          Op(n, k).done.value = <<SockOf(n, Op(n, k).qd), Upto(n, Op(n, k).qd) + 1,
                                  Read(n, SockOf(n, Op(n, k).qd))>>
    <3> SUFFICES ASSUME NEW k \in Slots(n), Popped(n, k)
                 PROVE  Op(n, k).done.value = <<SockOf(n, Op(n, k).qd), Upto(n, Op(n, k).qd) + 1,
                                                Read(n, SockOf(n, Op(n, k).qd))>>
      OBVIOUS
    <3>1. /\ k \in Slots(m) /\ Popped(m, k) /\ Op(n, k).qd = Op(m, k).qd
          /\ Op(n, k).done.value = Op(m, k).done.value
      BY DEF StreamsAlike, SameOp
    <3>2. Op(m, k).qd \in m.open
      BY <3>1 DEF StreamsOf, OwnQueue
    <3> QED  BY <2>1, <2>2, <2>3, <3>1, <3>2 DEF StreamsOf, Positions
  <2>5. ASSUME NEW q \in m.open, \A k \in Slots(n) : Op(n, k).qd = q => ~Popped(n, k)
        PROVE  \A k \in Slots(m) : Op(m, k).qd = q => ~Popped(m, k)
    BY <2>5 DEF StreamsAlike, SameOp
  <2> QED  BY <2>1, <2>2, <2>3, <2>4, <2>5 DEF StreamsOf, Positions
<1> QED  BY <1>1, <1>2, <1>3, <1>4 DEF StreamsOf, StreamsAlike

(* An operation is scheduled. *)
LEMMA StreamsIssued ==
  ASSUME NEW m, NEW n, NEW op, NEW k, StreamsOf(m), Added(m, n, op, k),
         n.open = m.open, n.sockets = m.sockets, n.log = m.log, n.kernel = m.kernel,
         op.qd \in m.open, op.fd = m.sockets[op.qd], op.done.is = "pending",
         \A j \in Slots(m) : Op(m, j).qd = op.qd => Op(m, j).kind # op.kind
  PROVE  StreamsOf(n)
<1>1. OwnQueue(n)
  BY DEF StreamsOf, OwnQueue, Added
<1>2. Logs(n)
  BY DEF StreamsOf, Logs, Logged, LogSock
<1>3. InOrder(n)
  BY DEF StreamsOf, InOrder, LogSock
<1>4. Positions(n)
  <2>1. /\ \A q : Logged(n, q) = Logged(m, q) /\ LogSock(n, q) = LogSock(m, q)
        /\ \A q : Upto(n, q) = Upto(m, q) /\ SockOf(n, q) = SockOf(m, q)
        /\ \A s : Read(n, s) = Read(m, s)
    BY DEF Logged, LogSock, Upto, SockOf, Read
  <2>2. ~Popped(n, k) /\ \A j \in Slots(m) : j # k /\ Op(n, j) = Op(m, j) /\ (Popped(n, j) <=> Popped(m, j))
    BY DEF Popped, Added
  <2>3. Slots(n) = Slots(m) \cup {k}
    BY DEF Added
  <2> QED  BY <2>1, <2>2, <2>3 DEF StreamsOf, Positions
<1> QED  BY <1>1, <1>2, <1>3, <1>4 DEF StreamsOf

(* A connection is accepted: its socket was in a queue, and is no queue's. *)
LEMMA StreamsAccepted ==
  ASSUME NEW m, NEW n, NEW op, NEW r, NEW k, Rest(m), Descriptors(m), StreamsOf(m), Accepted(m.kernel, op, r),
         n.open = m.open, n.sockets = m.sockets, n.log = m.log, n.kernel = r.kernel,
         Resolved(m, n, {k}), Op(m, k).kind = "accept"
  PROVE  StreamsOf(n)
<1> DEFINE v == r.value
           h == n.kernel.file[v]
<1>1. /\ Once(n.kernel) /\ Queued(m.kernel, h) /\ h \in Socks
      /\ \A s \in Socks : Queued(n.kernel, s) => Queued(m.kernel, s)
  BY OnceAccepted DEF StreamsOf, Rest
<1>2. /\ v \in Fds /\ m.kernel.file[v] = NoSock /\ m.kernel.file \in [Fds -> Socks \cup {NoSock}]
      /\ \A f \in Fds : f # v => n.kernel.file[f] = m.kernel.file[f]
      /\ \A s \in Socks : Read(n, s) = Read(m, s) /\ (Unmade(n.kernel, s) <=> Unmade(m.kernel, s))
  BY DEF Accepted, Rest, KernelOK, Read, SameRead, SameMade
<1> HIDE DEF v, h
<1>3. \A q \in m.open : SockOf(n, q) = SockOf(m, q) /\ SockOf(m, q) \in Socks
  <2>1. \A q \in m.open : m.sockets[q] \in Fds /\ m.kernel.file[m.sockets[q]] \in Socks
    BY OwnSocket DEF StreamsOf, SockOf
  <2>2. \A q \in m.open : m.sockets[q] # v
    BY <1>2, <2>1, Bounds
  <2> QED  BY <1>2, <2>1, <2>2 DEF SockOf
<1>4. /\ Slots(n) = Slots(m) /\ \A j \in Slots(m) : SameOp(Op(n, j), Op(m, j))
      /\ \A j \in Slots(m) : Popped(n, j) <=> Popped(m, j)
      /\ \A j \in Slots(m) : Popped(m, j) => Op(n, j).done.value = Op(m, j).done.value
  BY DEF Resolved, SameOp, Popped
<1>5. /\ \A q : Logged(n, q) = Logged(m, q) /\ LogSock(n, q) = LogSock(m, q) /\ Upto(n, q) = Upto(m, q)
  BY DEF Logged, LogSock, Upto
<1>6. OwnQueue(n)
  BY <1>4 DEF StreamsOf, OwnQueue, SameOp
<1>7. Logs(n)
  <2>1. \A q \in QDs : Logged(m, q) => LogSock(m, q) # h
    BY <1>1 DEF StreamsOf, Logs
  <2>2. \A q \in QDs, f \in Fds : Logged(m, q) /\ n.kernel.file[f] = LogSock(m, q) => m.kernel.file[f] = LogSock(m, q)
    BY <1>2, <2>1 DEF h
  <2> QED  BY <1>1, <1>2, <1>5, <2>2 DEF StreamsOf, Logs
<1>8. InOrder(n)
  BY DEF StreamsOf, InOrder, LogSock
<1>9. Positions(n)
  <2>1. \A j \in Slots(n) : Popped(n, j) =>
          Op(n, j).done.value = <<SockOf(n, Op(n, j).qd), Upto(n, Op(n, j).qd) + 1,
                                  Read(n, SockOf(n, Op(n, j).qd))>>
    <3> SUFFICES ASSUME NEW j \in Slots(n), Popped(n, j)
                 PROVE  Op(n, j).done.value = <<SockOf(n, Op(n, j).qd), Upto(n, Op(n, j).qd) + 1,
                                                Read(n, SockOf(n, Op(n, j).qd))>>
      OBVIOUS
    <3>1. /\ j \in Slots(m) /\ Popped(m, j) /\ Op(n, j).qd = Op(m, j).qd
          /\ Op(n, j).done.value = Op(m, j).done.value
      BY <1>4 DEF SameOp
    <3>2. Op(m, j).qd \in m.open
      BY <3>1 DEF StreamsOf, OwnQueue
    <3> QED  BY <1>2, <1>3, <1>5, <3>1, <3>2 DEF StreamsOf, Positions
  <2>2. ASSUME NEW q \in m.open, \A j \in Slots(n) : Op(n, j).qd = q => ~Popped(n, j)
        PROVE  \A j \in Slots(m) : Op(m, j).qd = q => ~Popped(m, j)
    BY <1>4, <2>2 DEF SameOp
  <2> QED  BY <1>2, <1>3, <1>5, <2>1, <2>2 DEF StreamsOf, Positions
<1> QED  BY <1>1, <1>6, <1>7, <1>8, <1>9 DEF StreamsOf

(* A pop is over: what it read follows what was popped before. *)
LEMMA StreamsReceived ==
  ASSUME NEW m, NEW n, NEW r, NEW k, Rest(m), Rest(n), Descriptors(m), StreamsOf(m),
         Received(m.kernel, Op(m, k), r),
         n.open = m.open, n.sockets = m.sockets, n.log = m.log, n.kernel = r.kernel,
         Resolved(m, n, {k}), k \in Slots(m),
         Op(n, k).done.value = r.value, Op(n, k).done.is = "ok"
  PROVE  StreamsOf(n)
<1> DEFINE q == Op(m, k).qd
           s == SockOf(m, q)
<1>1. q \in m.open /\ Op(m, k).fd = m.sockets[q] /\ Op(m, k).kind = "pop" /\ Op(m, k).done.is = "pending"
  BY DEF StreamsOf, OwnQueue, Received, Resolved
<1>2. /\ s \in Socks /\ r.value = <<s, Read(m, s) + 1, Read(n, s)>> /\ n.kernel.file = m.kernel.file
      /\ \A t \in Socks : t # s => Read(n, t) = Read(m, t)
      /\ \A t \in Socks : SameQueue(m.kernel, n.kernel, t) /\ SameMade(m.kernel, n.kernel, t)
  BY <1>1 DEF Received, SockOf, Read, SameRead
<1>3. /\ Slots(n) = Slots(m) /\ \A j \in Slots(m) : SameOp(Op(n, j), Op(m, j))
      /\ \A j \in Slots(m) : j # k => (Popped(n, j) <=> Popped(m, j)) /\ Op(n, j).done = Op(m, j).done
  BY DEF Resolved, SameOp, Popped
<1>4. \A j \in Slots(m) : Op(m, j).qd = q => ~Popped(m, j)
  BY <1>1 DEF StreamsOf, OwnQueue, Popped
<1>5. Read(m, s) = Upto(m, q)
  BY <1>1, <1>4 DEF StreamsOf, Positions
<1> HIDE DEF q, s
<1>6. /\ \A p : Logged(n, p) = Logged(m, p) /\ LogSock(n, p) = LogSock(m, p) /\ Upto(n, p) = Upto(m, p)
      /\ \A p : SockOf(n, p) = SockOf(m, p)
  BY <1>2 DEF Logged, LogSock, Upto, SockOf
<1>7. Once(n.kernel) /\ \A t \in Socks : Queued(n.kernel, t) <=> Queued(m.kernel, t)
  BY <1>2, OnceStays DEF StreamsOf, Rest, KernelOK
<1>8. OwnQueue(n)
  BY <1>3 DEF StreamsOf, OwnQueue, SameOp
<1>9. Logs(n)
  BY <1>2, <1>6, <1>7 DEF StreamsOf, Logs, SameMade
<1>10. InOrder(n)
  BY DEF StreamsOf, InOrder, LogSock
<1>11. \A p \in m.open : SockOf(m, p) \in Socks /\ (p # q => SockOf(m, p) # s)
  BY <1>1, OwnSocket DEF StreamsOf, s
<1>12. Positions(n)
  <2>1. \A j \in Slots(n) : Popped(n, j) =>
          Op(n, j).done.value = <<SockOf(n, Op(n, j).qd), Upto(n, Op(n, j).qd) + 1,
                                  Read(n, SockOf(n, Op(n, j).qd))>>
    <3> SUFFICES ASSUME NEW j \in Slots(n), Popped(n, j)
                 PROVE  Op(n, j).done.value = <<SockOf(n, Op(n, j).qd), Upto(n, Op(n, j).qd) + 1,
                                                Read(n, SockOf(n, Op(n, j).qd))>>
      OBVIOUS
    <3>1. j \in Slots(m) /\ Op(n, j).qd = Op(m, j).qd
      BY <1>3 DEF SameOp
    <3>2. CASE j = k
      BY <1>2, <1>5, <1>6, <3>1, <3>2 DEF q, s
    <3>3. CASE j # k
      <4>1. Popped(m, j) /\ Op(n, j).done = Op(m, j).done
        BY <1>3, <3>1, <3>3
      <4>2. Op(m, j).qd \in m.open /\ Op(m, j).qd # q
        BY <1>4, <3>1, <4>1 DEF StreamsOf, OwnQueue
      <4> QED  BY <1>2, <1>6, <1>11, <3>1, <4>1, <4>2 DEF StreamsOf, Positions
    <3> QED  BY <3>2, <3>3
  <2>2. ASSUME NEW p \in m.open, \A j \in Slots(n) : Op(n, j).qd = p => ~Popped(n, j)
        PROVE  Read(n, SockOf(n, p)) = Upto(n, p)
    <3>1. p # q
      <4>1. Popped(n, k) /\ k \in Slots(n) /\ Op(n, k).qd = q
        BY <1>1, <1>3 DEF Popped, SameOp, q
      <4> QED  BY <2>2, <4>1
    <3>2. \A j \in Slots(m) : Op(m, j).qd = p => ~Popped(m, j)
      BY <1>3, <1>1, <2>2 DEF SameOp, Popped
    <3> QED  BY <1>2, <1>6, <1>11, <3>1, <3>2 DEF StreamsOf, Positions
  <2>3. ASSUME NEW t \in Socks, \A p \in n.open : SockOf(n, p) # t,
               \A p \in QDs : Logged(n, p) => LogSock(n, p) # t
        PROVE  Read(n, t) = 0
    <3>1. t # s
      BY <1>1, <1>6, <2>3 DEF s
    <3> QED  BY <1>2, <1>6, <2>3, <3>1 DEF StreamsOf, Positions
  <2>4. \A p \in n.open : Logged(n, p) => LogSock(n, p) = SockOf(n, p)
    BY <1>6 DEF StreamsOf, Positions
  <2> QED  BY <2>1, <2>2, <2>3, <2>4 DEF Positions
<1> QED  BY <1>7, <1>8, <1>9, <1>10, <1>12 DEF StreamsOf

(* The application gets what a pop read. *)
LEMMA StreamsPopped ==
  ASSUME NEW m, NEW n, NEW k, Rest(m), Rest(n), Descriptors(m), StreamsOf(m),
         Removed(m, n, k), Popped(m, k), NEW q, q = Op(m, k).qd, q \in QDs,
         n.open = m.open, n.sockets = m.sockets, n.kernel = m.kernel,
         n.log = [m.log EXCEPT ![q] = Append(@, Op(m, k).done.value)]
  PROVE  StreamsOf(n)
<1> DEFINE s == SockOf(m, q)
           v == <<s, Upto(m, q) + 1, Read(m, s)>>
           w == m.log[q]
<1>1. k \in Slots(m) /\ q \in m.open /\ Op(m, k).done.value = v
  BY DEF StreamsOf, OwnQueue, Positions, Removed
<1>2. s \in Socks /\ m.sockets[q] \in Fds /\ ~Unmade(m.kernel, s) /\ ~Queued(m.kernel, s)
      /\ \A p \in m.open : p # q => SockOf(m, p) # s
  BY <1>1, OwnSocket DEF StreamsOf
<1>3. w \in Seq(ReadsOf) /\ v \in ReadsOf /\ m.log \in [QDs -> Seq(ReadsOf)]
  <2>1. w \in Seq(ReadsOf) /\ Append(w, v) \in Seq(ReadsOf)
    BY <1>1 DEF Rest
  <2>2. Read(m, s) \in Nat /\ Upto(m, q) \in Nat
    <3>1. Read(m, s) \in Nat
      BY <1>2 DEF Rest, KernelOK, SockRecs, Read
    <3>2. w # <<>> => w[Len(w)] \in ReadsOf
      BY <2>1
    <3> QED  BY <3>1, <3>2 DEF Upto, ReadsOf
  <2> QED  BY <1>2, <2>1, <2>2 DEF ReadsOf, Rest
<1>4. /\ \A p \in QDs : n.log[p] = IF p = q THEN Append(w, v) ELSE m.log[p]
      /\ \A p : SockOf(n, p) = SockOf(m, p) /\ \A t : Read(n, t) = Read(m, t)
  BY <1>1, <1>3 DEF SockOf, Read
<1>5. w # <<>> => LogSock(m, q) = s /\ w[1][1] = s
  BY <1>1 DEF StreamsOf, Positions, Logged, LogSock
<1>6. v[1] = s /\ v[2] = Upto(m, q) + 1 /\ v[3] = Read(m, s)
  OBVIOUS
<1> HIDE DEF v
<1>7. /\ Append(w, v) # <<>> /\ Len(Append(w, v)) = Len(w) + 1 /\ Len(w) \in Nat
      /\ DOMAIN Append(w, v) = DOMAIN w \cup {Len(w) + 1} /\ Len(w) + 1 \notin DOMAIN w /\ DOMAIN w = 1..Len(w)
      /\ Append(w, v)[Len(w) + 1] = v /\ \A i \in DOMAIN w : Append(w, v)[i] = w[i]
  BY <1>3, AppendIs
<1>71. w = <<>> <=> Len(w) = 0
  BY <1>3
<1> HIDE DEF w, s
<1>8. Append(w, v)[1][1] = s
  <2>1. CASE w = <<>>
    BY <1>6, <1>7, <1>71, <2>1
  <2>2. CASE w # <<>>
    <3>1. 1 \in DOMAIN w
      BY <1>7, <1>71, <2>2
    <3> QED  BY <1>5, <1>7, <2>2, <3>1
  <2> QED  BY <2>1, <2>2
<1>9. /\ Logged(n, q) /\ LogSock(n, q) = s /\ Upto(n, q) = Read(m, s)
      /\ \A p \in QDs : p # q => Logged(n, p) = Logged(m, p) /\ LogSock(n, p) = LogSock(m, p)
                                 /\ Upto(n, p) = Upto(m, p)
  <2>1. n.log[q] = Append(w, v)
    BY <1>4
  <2>2. Logged(n, q) /\ LogSock(n, q) = s
    BY <1>7, <1>8, <2>1 DEF Logged, LogSock
  <2>3. Upto(n, q) = Read(m, s)
    BY <1>6, <1>7, <2>1 DEF Upto
  <2>4. \A p \in QDs : p # q => n.log[p] = m.log[p]
    BY <1>4
  <2> QED  BY <2>2, <2>3, <2>4 DEF Logged, LogSock, Upto
<1>10. /\ Slots(n) \subseteq Slots(m) /\ \A j \in Slots(n) : Op(n, j) = Op(m, j) /\ j # k
  BY DEF Removed
<1>11. OwnQueue(n)
  BY <1>10 DEF StreamsOf, OwnQueue
<1>12. Logs(n)
  <2>1. \A p \in QDs : p # q /\ Logged(m, p) => LogSock(m, p) # s
    <3> SUFFICES ASSUME NEW p \in QDs, p # q, Logged(m, p), LogSock(m, p) = s PROVE FALSE
      OBVIOUS
    <3>1. m.kernel.file[m.sockets[q]] = s
      BY DEF SockOf, s
    <3>2. p \in m.open /\ m.sockets[p] = m.sockets[q]
      BY <1>2, <3>1 DEF StreamsOf, Logs
    <3> QED  BY <1>1, <3>2 DEF Descriptors
  <2>2. \A p, t \in QDs : Logged(n, p) /\ Logged(n, t) /\ LogSock(n, p) = LogSock(n, t) => p = t
    BY <1>9, <2>1 DEF StreamsOf, Logs
  <2>3. \A f \in Fds : m.kernel.file[f] = s => q \in m.open /\ m.sockets[q] = f
    <3> SUFFICES ASSUME NEW f \in Fds, m.kernel.file[f] = s PROVE m.sockets[q] = f
      BY <1>1
    <3>1. m.kernel.file[m.sockets[q]] = s
      BY DEF SockOf, s
    <3>2. s # NoSock
      BY <1>2, Bounds
    <3>3. \A g, h \in Fds : m.kernel.file[g] # NoSock /\ m.kernel.file[g] = m.kernel.file[h] => g = h
      BY DEF StreamsOf, Once
    <3> QED  BY <1>2, <3>1, <3>2, <3>3
  <2>4. m.sockets[q] # NoFd
    BY <1>2, Bounds
  <2>5. ASSUME NEW p \in QDs, Logged(n, p)
        PROVE  /\ LogSock(n, p) \in Socks /\ m.sockets[p] # NoFd
               /\ ~Unmade(m.kernel, LogSock(n, p)) /\ ~Queued(m.kernel, LogSock(n, p))
               /\ \A f \in Fds : m.kernel.file[f] = LogSock(n, p) => p \in m.open /\ m.sockets[p] = f
    <3>1. CASE p = q
      BY <1>2, <1>9, <2>3, <2>4, <3>1
    <3>2. CASE p # q
      BY <1>9, <2>5, <3>2 DEF StreamsOf, Logs
    <3> QED  BY <3>1, <3>2
  <2> QED  BY <2>2, <2>5 DEF Logs
<1>13. InOrder(n)
  <2> SUFFICES ASSUME NEW p \in QDs, NEW i \in DOMAIN n.log[p]
               PROVE  /\ n.log[p][i][1] = LogSock(n, p)
                      /\ n.log[p][i][2] = IF i = 1 THEN 1 ELSE n.log[p][i-1][3] + 1
    BY DEF InOrder
  <2>1. CASE p # q
    BY <1>4, <1>9, <2>1 DEF StreamsOf, InOrder
  <2>2. CASE p = q /\ i \in DOMAIN w
    <3>1. w[i][1] = LogSock(m, q) /\ w[i][2] = IF i = 1 THEN 1 ELSE w[i-1][3] + 1
      BY <2>2 DEF StreamsOf, InOrder, w
    <3>2. w # <<>> /\ (i # 1 => i - 1 \in DOMAIN w)
      BY <1>7, <1>71, <2>2
    <3>3. LogSock(m, q) = s /\ LogSock(n, p) = s
      BY <1>5, <1>9, <2>2, <3>2
    <3>4. n.log[p] = Append(w, v)
      BY <1>4, <2>2
    <3>5. n.log[p][i] = w[i] /\ (i # 1 => n.log[p][i-1] = w[i-1])
      BY <1>7, <2>2, <3>2, <3>4
    <3> QED  BY <3>1, <3>3, <3>5
  <2>3. CASE p = q /\ i = Len(w) + 1
    <3>1. n.log[p][i] = v /\ v[1] = s /\ v[2] = Upto(m, q) + 1
      BY <1>4, <1>6, <1>7, <2>3
    <3>2. CASE w = <<>>
      BY <1>9, <1>71, <2>3, <3>1, <3>2 DEF Upto, w
    <3>3. CASE w # <<>>
      <4>1. i # 1 /\ i - 1 = Len(w) /\ Len(w) \in DOMAIN w
        BY <1>7, <1>71, <2>3, <3>3
      <4>2. n.log[p][i-1] = w[Len(w)] /\ Upto(m, q) = w[Len(w)][3]
        BY <1>4, <1>7, <2>3, <3>3, <4>1 DEF Upto, w
      <4> QED  BY <1>9, <2>3, <3>1, <4>1, <4>2
    <3> QED  BY <3>2, <3>3
  <2>4. p = q => i \in DOMAIN w \/ i = Len(w) + 1
    <3> SUFFICES ASSUME p = q PROVE i \in DOMAIN w \/ i = Len(w) + 1
      OBVIOUS
    <3>1. n.log[p] = Append(w, v)
      BY <1>4
    <3> QED  BY <1>7, <3>1
  <2> QED  BY <2>1, <2>2, <2>3, <2>4
<1>14. Positions(n)
  <2>1. \A j \in Slots(n) : Popped(n, j) => Popped(m, j) /\ Op(n, j) = Op(m, j) /\ Op(m, j).qd # q
                                            /\ Op(m, j).qd \in m.open
    BY <1>1, <1>10 DEF StreamsOf, OwnQueue, Popped
  <2>2. \A j \in Slots(n) : Popped(n, j) =>
          Op(n, j).done.value = <<SockOf(n, Op(n, j).qd), Upto(n, Op(n, j).qd) + 1,
                                  Read(n, SockOf(n, Op(n, j).qd))>>
    <3> SUFFICES ASSUME NEW j \in Slots(n), Popped(n, j)
                 PROVE  Op(n, j).done.value = <<SockOf(n, Op(n, j).qd), Upto(n, Op(n, j).qd) + 1,
                                                Read(n, SockOf(n, Op(n, j).qd))>>
      OBVIOUS
    <3>1. Op(m, j).qd \in QDs
      BY <2>1 DEF Rest
    <3> QED  BY <1>4, <1>9, <1>10, <2>1, <3>1 DEF StreamsOf, Positions
  <2>3. ASSUME NEW p \in m.open, \A j \in Slots(n) : Op(n, j).qd = p => ~Popped(n, j)
        PROVE  Read(n, SockOf(n, p)) = Upto(n, p)
    <3>1. CASE p = q
      BY <1>4, <1>9, <3>1 DEF s
    <3>2. CASE p # q
      <4>1. \A j \in Slots(m) : Op(m, j).qd = p => ~Popped(m, j)
        <5>1. \A j \in Slots(m) : j # k => j \in Slots(n)
          BY DEF Removed
        <5> QED  BY <1>10, <2>3, <3>2, <5>1 DEF Popped
      <4>2. p \in QDs
        BY DEF Rest
      <4> QED  BY <1>4, <1>9, <3>2, <4>1, <4>2 DEF StreamsOf, Positions
    <3> QED  BY <3>1, <3>2
  <2>4. ASSUME NEW t \in Socks, \A p \in n.open : SockOf(n, p) # t,
               \A p \in QDs : Logged(n, p) => LogSock(n, p) # t
        PROVE  Read(n, t) = 0
    <3>1. \A p \in QDs : Logged(m, p) => LogSock(m, p) # t
      <4>1. t # s
        BY <1>1, <1>4, <2>4 DEF s
      <4> QED  BY <1>5, <1>9, <2>4, <4>1 DEF Logged, w
    <3> QED  BY <1>4, <2>4, <3>1 DEF StreamsOf, Positions
  <2>5. \A p \in n.open : Logged(n, p) => LogSock(n, p) = SockOf(n, p)
    <3>1. m.open \subseteq QDs
      BY DEF Rest
    <3> QED  BY <1>4, <1>9, <3>1 DEF StreamsOf, Positions, s
  <2> QED  BY <2>2, <2>3, <2>4, <2>5 DEF Positions
<1> QED  BY <1>11, <1>12, <1>13, <1>14 DEF StreamsOf

(* A queue is entered with a descriptor that was nobody's: nothing was      *)
(* popped from it, and nothing read of its socket.                          *)
LEMMA StreamsEntered ==
  ASSUME NEW m, NEW n, NEW q \in QDs, NEW f \in Fds, Rest(m), Descriptors(m), StreamsOf(m),
         q \notin m.open, m.sockets[q] = NoFd, n.open = m.open \cup {q},
         n.sockets = [m.sockets EXCEPT ![q] = f], n.log = m.log, Once(n.kernel),
         n.kernel.file[f] \in Socks, \A p \in m.open : m.sockets[p] # f,
         \A p \in QDs : Logged(m, p) => LogSock(m, p) # n.kernel.file[f],
         \A p \in m.open : m.kernel.file[m.sockets[p]] # n.kernel.file[f],
         \A g \in Fds : g # f => n.kernel.file[g] = m.kernel.file[g],
         \A s \in Socks : /\ Read(n, s) = Read(m, s)
                          /\ ~Unmade(m.kernel, s) => ~Unmade(n.kernel, s)
                          /\ Queued(n.kernel, s) => Queued(m.kernel, s),
         Slots(n) \subseteq Slots(m), \A k \in Slots(m) \ Slots(n) : ~Popped(m, k),
         \A k \in Slots(n) : Op(n, k) = Op(m, k)
  PROVE  StreamsOf(n)
<1> DEFINE t == n.kernel.file[f]
<1>1. \A p \in m.open : p \in QDs /\ p # q /\ m.sockets[p] \in Fds /\ SockOf(m, p) \in Socks
  BY OwnSocket DEF StreamsOf
<1>2. \A p \in QDs : n.sockets[p] = IF p = q THEN f ELSE m.sockets[p]
  BY DEF Rest
<1>3. SockOf(n, q) = t /\ \A p \in m.open : SockOf(n, p) = SockOf(m, p) /\ SockOf(m, p) # t
  BY <1>1, <1>2 DEF SockOf
<1>4. \A p \in QDs : Logged(n, p) = Logged(m, p) /\ LogSock(n, p) = LogSock(m, p) /\ Upto(n, p) = Upto(m, p)
  BY DEF Logged, LogSock, Upto
<1>5. ~Logged(m, q) /\ Upto(m, q) = 0
  BY DEF StreamsOf, Logs, Logged, Upto
<1>6. \A k \in Slots(n) : k \in Slots(m) /\ Op(m, k).qd \in m.open /\ (Popped(n, k) <=> Popped(m, k))
  BY DEF StreamsOf, OwnQueue, Popped
<1>7. OwnQueue(n)
  BY <1>1, <1>2, <1>6 DEF StreamsOf, OwnQueue
<1> HIDE DEF t
<1>8. Logs(n)
  <2> SUFFICES ASSUME NEW p \in QDs, Logged(m, p)
               PROVE  /\ LogSock(m, p) \in Socks /\ n.sockets[p] # NoFd
                      /\ ~Unmade(n.kernel, LogSock(m, p)) /\ ~Queued(n.kernel, LogSock(m, p))
                      /\ \A g \in Fds : n.kernel.file[g] = LogSock(m, p) => p \in n.open /\ n.sockets[p] = g
    BY <1>4 DEF StreamsOf, Logs
  <2>1. p # q /\ n.sockets[p] = m.sockets[p]
    BY <1>2, <1>5
  <2>2. /\ LogSock(m, p) \in Socks /\ m.sockets[p] # NoFd
        /\ ~Unmade(m.kernel, LogSock(m, p)) /\ ~Queued(m.kernel, LogSock(m, p))
        /\ \A g \in Fds : m.kernel.file[g] = LogSock(m, p) => p \in m.open /\ m.sockets[p] = g
    BY DEF StreamsOf, Logs
  <2> QED  BY <2>1, <2>2
<1>9. InOrder(n)
  BY DEF StreamsOf, InOrder, LogSock
<1>10. Positions(n)
  <2>1. \A k \in Slots(n) : Popped(n, k) =>
          Op(n, k).done.value = <<SockOf(n, Op(n, k).qd), Upto(n, Op(n, k).qd) + 1,
                                  Read(n, SockOf(n, Op(n, k).qd))>>
    BY <1>1, <1>3, <1>4, <1>6 DEF StreamsOf, Positions
  <2>2. ASSUME NEW p \in n.open, \A k \in Slots(n) : Op(n, k).qd = p => ~Popped(n, k)
        PROVE  Read(n, SockOf(n, p)) = Upto(n, p)
    <3>1. CASE p = q
      <4>1. Read(m, t) = 0
        BY <1>3, <1>4 DEF StreamsOf, Positions, t, SockOf
      <4> QED  BY <1>3, <1>4, <1>5, <3>1, <4>1 DEF t
    <3>2. CASE p # q
      <4>1. p \in m.open /\ \A k \in Slots(m) : Op(m, k).qd = p => ~Popped(m, k)
        BY <1>6, <2>2, <3>2
      <4> QED  BY <1>1, <1>3, <1>4, <4>1 DEF StreamsOf, Positions
    <3> QED  BY <3>1, <3>2
  <2>3. ASSUME NEW s \in Socks, \A p \in n.open : SockOf(n, p) # s,
               \A p \in QDs : Logged(n, p) => LogSock(n, p) # s
        PROVE  Read(n, s) = 0
    BY <1>3, <1>4, <2>3 DEF StreamsOf, Positions
  <2>4. \A p \in n.open : Logged(n, p) => LogSock(n, p) = SockOf(n, p)
    BY <1>1, <1>3, <1>4, <1>5 DEF StreamsOf, Positions
  <2> QED  BY <2>1, <2>2, <2>3, <2>4 DEF Positions
<1> QED  BY <1>7, <1>8, <1>9, <1>10 DEF StreamsOf

(* A queue is closed on which no operation waits. *)
LEMMA StreamsClosed ==
  ASSUME NEW m, NEW n, NEW q \in m.open, Rest(m), Descriptors(m), StreamsOf(m),
         n.open = m.open \ {q}, n.sockets = m.sockets, n.log = m.log,
         n.kernel = SysClose(m.kernel, m.sockets[q]),
         Slots(n) = Slots(m), \A k \in Slots(m) : Op(n, k) = Op(m, k) /\ Op(m, k).qd # q
  PROVE  StreamsOf(n)
<1> DEFINE c == m.sockets[q]
<1>1. \A p \in m.open : p \in QDs /\ m.sockets[p] \in Fds /\ SockOf(m, p) \in Socks
  BY OwnSocket DEF StreamsOf
<1>2. /\ Once(n.kernel) /\ n.kernel.sock = m.kernel.sock
      /\ \A g \in Fds : n.kernel.file[g] = IF g = c THEN NoSock ELSE m.kernel.file[g]
  BY <1>1, OnceClosed DEF StreamsOf, Rest
<1>3. \A p \in n.open : SockOf(n, p) = SockOf(m, p) /\ p # q
  BY <1>1, <1>2 DEF SockOf, Descriptors
<1>4. /\ \A p \in QDs : Logged(n, p) = Logged(m, p) /\ LogSock(n, p) = LogSock(m, p) /\ Upto(n, p) = Upto(m, p)
      /\ \A s : Read(n, s) = Read(m, s)
  BY <1>2 DEF Logged, LogSock, Upto, Read
<1>5. \A k \in Slots(n) : k \in Slots(m) /\ Op(m, k).qd \in n.open /\ (Popped(n, k) <=> Popped(m, k))
  BY DEF StreamsOf, OwnQueue, Popped
<1>6. OwnQueue(n)
  BY <1>5 DEF StreamsOf, OwnQueue
<1>7. Logs(n)
  <2>1. \A s \in Socks : (Unmade(n.kernel, s) <=> Unmade(m.kernel, s)) /\ (Queued(n.kernel, s) <=> Queued(m.kernel, s))
    BY <1>2 DEF Unmade, Queued, Stands
  <2> SUFFICES ASSUME NEW p \in QDs, Logged(m, p), LogSock(m, p) \in Socks, NEW g \in Fds,
                      n.kernel.file[g] = LogSock(m, p)
               PROVE  p \in n.open /\ m.sockets[p] = g
    BY <1>4, <2>1 DEF StreamsOf, Logs
  <2>2. g # c /\ m.kernel.file[g] = LogSock(m, p)
    BY <1>2, Bounds
  <2>3. p \in m.open /\ m.sockets[p] = g
    BY <2>2 DEF StreamsOf, Logs
  <2> QED  BY <2>2, <2>3
<1>8. InOrder(n)
  BY DEF StreamsOf, InOrder, LogSock
<1>9. Positions(n)
  <2>1. \A k \in Slots(n) : Popped(n, k) =>
          Op(n, k).done.value = <<SockOf(n, Op(n, k).qd), Upto(n, Op(n, k).qd) + 1,
                                  Read(n, SockOf(n, Op(n, k).qd))>>
    BY <1>1, <1>3, <1>4, <1>5 DEF StreamsOf, Positions
  <2>2. ASSUME NEW p \in n.open, \A k \in Slots(n) : Op(n, k).qd = p => ~Popped(n, k)
        PROVE  Read(n, SockOf(n, p)) = Upto(n, p)
    BY <1>1, <1>3, <1>4, <1>5, <2>2 DEF StreamsOf, Positions
  <2>3. ASSUME NEW s \in Socks, \A p \in n.open : SockOf(n, p) # s,
               \A p \in QDs : Logged(n, p) => LogSock(n, p) # s
        PROVE  Read(n, s) = 0
    <3>1. CASE SockOf(m, q) = s
      <4>1. ~Logged(m, q)
        BY <1>1, <1>4, <2>3, <3>1 DEF StreamsOf, Positions
      <4>2. Upto(m, q) = 0
        BY <4>1 DEF Upto, Logged
      <4>3. Read(m, SockOf(m, q)) = Upto(m, q)
        BY DEF StreamsOf, Positions
      <4> QED  BY <1>4, <3>1, <4>2, <4>3
    <3>2. CASE SockOf(m, q) # s
      BY <1>3, <1>4, <2>3, <3>2 DEF StreamsOf, Positions
    <3> QED  BY <3>1, <3>2
  <2>4. \A p \in n.open : Logged(n, p) => LogSock(n, p) = SockOf(n, p)
    BY <1>1, <1>3, <1>4 DEF StreamsOf, Positions
  <2> QED  BY <2>1, <2>2, <2>3, <2>4 DEF Positions
<1> QED  BY <1>2, <1>6, <1>7, <1>8, <1>9 DEF StreamsOf
-----------------------------------------------------------------------------
(* What the application pushes (catnap). *)

WireOf(m, s) == m.kernel.sock[s].wire
Pushing(m, k) == Op(m, k).kind \in {"push", "pushto"} /\ Op(m, k).done.is = "pending"

(* Pushes go out in the order they were issued: one that has yet to go out  *)
(* is later than those that have.                                           *)
WiresOf(m) ==
  /\ \A s \in Socks : \A i \in DOMAIN WireOf(m, s) : WireOf(m, s)[i] <= m.issued
  /\ \A s \in Socks : \A i, j \in DOMAIN WireOf(m, s) : i < j => WireOf(m, s)[i] < WireOf(m, s)[j]
  /\ \A k \in Slots(m) : Pushing(m, k) =>
        \A i \in DOMAIN WireOf(m, SockOf(m, Op(m, k).qd)) : WireOf(m, SockOf(m, Op(m, k).qd))[i] < Op(m, k).id

LEMMA WiresStay ==
  ASSUME NEW m, NEW n, WiresOf(m), n.issued = m.issued,
         \A s \in Socks : WireOf(n, s) = WireOf(m, s),
         \A k \in Slots(n) : Pushing(n, k) =>
            /\ k \in Slots(m) /\ Pushing(m, k) /\ Op(n, k).id = Op(m, k).id
            /\ SockOf(n, Op(n, k).qd) = SockOf(m, Op(m, k).qd) /\ SockOf(m, Op(m, k).qd) \in Socks
  PROVE  WiresOf(n)
BY DEF WiresOf

LEMMA WiresIssued ==
  ASSUME NEW m, NEW n, NEW op, NEW k, WiresOf(m), Added(m, n, op, k), m.issued \in Nat,
         n.issued = m.issued + 1, op.id = m.issued + 1,
         n.kernel = m.kernel, n.sockets = m.sockets, KernelOK(m.kernel),
         op.kind \in {"push", "pushto"} => SockOf(m, op.qd) \in Socks
  PROVE  WiresOf(n)
<1>1. /\ \A s \in Socks : WireOf(n, s) = WireOf(m, s) /\ \A i \in DOMAIN WireOf(m, s) : WireOf(m, s)[i] \in Nat
      /\ \A q : SockOf(n, q) = SockOf(m, q)
  <2>1. \A s \in Socks : m.kernel.sock[s] \in SockRecs
    BY DEF KernelOK
  <2>2. \A s \in Socks : WireOf(m, s) \in Seq(Ids)
    BY <2>1, FieldsOf DEF WireOf
  <2>3. \A s \in Socks : \A i \in DOMAIN WireOf(m, s) : WireOf(m, s)[i] \in Ids
    BY <2>2
  <2> QED  BY <2>3, Bounds DEF WireOf, SockOf
<1>2. \A s \in Socks : \A i \in DOMAIN WireOf(m, s) : WireOf(m, s)[i] <= m.issued
  BY DEF WiresOf
<1>3. \A j \in Slots(m) : Op(n, j) = Op(m, j) /\ (Pushing(n, j) <=> Pushing(m, j))
  BY DEF Added, Pushing
<1>4. Pushing(n, k) => op.kind \in {"push", "pushto"} /\ Op(n, k) = op
  BY DEF Added, Pushing
<1>5. Slots(n) = Slots(m) \cup {k} /\ Op(n, k) = op
  BY DEF Added
<1>6. \A s \in Socks : \A i \in DOMAIN WireOf(n, s) : WireOf(n, s)[i] <= n.issued /\ WireOf(n, s)[i] < op.id
  BY <1>1, <1>2
<1>7. ASSUME NEW j \in Slots(n), Pushing(n, j)
      PROVE  \A i \in DOMAIN WireOf(n, SockOf(n, Op(n, j).qd)) : WireOf(n, SockOf(n, Op(n, j).qd))[i] < Op(n, j).id
  <2>1. CASE j = k
    BY <1>1, <1>4, <1>6, <1>7, <2>1
  <2>2. CASE j # k
    <3>1. j \in Slots(m) /\ Op(n, j) = Op(m, j) /\ Pushing(m, j)
      BY <1>3, <1>5, <1>7, <2>2
    <3>2. \A s : WireOf(n, s) = WireOf(m, s)
      BY DEF WireOf
    <3> QED  BY <1>1, <3>1, <3>2 DEF WiresOf
  <2> QED  BY <2>1, <2>2
<1> QED  BY <1>1, <1>6, <1>7 DEF WiresOf

LEMMA WiresSent ==
  ASSUME NEW m, NEW n, NEW r, NEW k, Core(m), Descriptors(m), Once(m.kernel), OwnQueue(m), WiresOf(m),
         OnePush, Sent(m.kernel, Op(m, k), r), k \in Slots(m),
         n.sockets = m.sockets, n.kernel = r.kernel, n.issued = m.issued, Resolved(m, n, {k}),
         Op(n, k).done.is # "pending"
  PROVE  WiresOf(n)
<1> DEFINE q == Op(m, k).qd
           s == SockOf(m, q)
           w == WireOf(m, s)
           id == Op(m, k).id
<1>1. /\ q \in m.open /\ Op(m, k).fd = m.sockets[q] /\ Pushing(m, k) /\ Rest(m)
  BY DEF OwnQueue, Sent, Resolved, Pushing, Core
<1>2. /\ s \in Socks /\ n.kernel.file = m.kernel.file
      /\ \A t \in Socks : WireOf(n, t) = IF t = s THEN Append(WireOf(m, t), id) ELSE WireOf(m, t)
  BY <1>1 DEF Sent, SockOf, WireOf
<1>3. \A p : SockOf(n, p) = SockOf(m, p)
  BY <1>2 DEF SockOf
<1>4. w \in Seq(Ids) /\ id \in Ids
  <2>1. m.kernel.sock[s] \in SockRecs
    BY <1>1, <1>2 DEF Rest, KernelOK
  <2> QED  BY <2>1, FieldsOf, SlotIs DEF WireOf
<1>5. \A i \in DOMAIN w : w[i] < id
  BY <1>1 DEF WiresOf
<1>6. id <= m.issued
  BY SlotIs DEF OpOK
<1>7. ASSUME NEW j \in Slots(n), Pushing(n, j)
      PROVE  /\ j \in Slots(m) /\ Pushing(m, j) /\ Op(n, j) = Op(m, j)
             /\ SockOf(m, Op(m, j).qd) \in Socks /\ SockOf(m, Op(m, j).qd) # s
  <2>1. j \in Slots(m) /\ j # k /\ Op(n, j) = Op(m, j)
    BY <1>7 DEF Resolved, Pushing
  <2>2. Op(m, j).qd \in m.open /\ Pushing(m, j)
    BY <1>7, <2>1 DEF OwnQueue, Pushing
  <2>3. Op(m, j).qd # q
    <3>1. Op(m, j).kind \in m.program /\ Op(m, k).kind \in m.program /\ m.program \in Programs
      BY <2>1, SlotIs DEF OpOK, Core, Rest
    <3>2. Op(m, j).kind = Op(m, k).kind
      BY <1>1, <2>2, <3>1 DEF OnePush, Pushing
    <3> QED  BY <2>1, <3>2 DEF OwnQueue
  <2> QED  BY <1>1, <2>1, <2>2, <2>3, OwnSocket
<1> HIDE DEF q, s, w, id
<1>8. /\ DOMAIN Append(w, id) = DOMAIN w \cup {Len(w) + 1} /\ Len(w) + 1 \notin DOMAIN w /\ DOMAIN w = 1..Len(w)
      /\ Append(w, id)[Len(w) + 1] = id /\ Len(w) \in Nat /\ \A i \in DOMAIN w : Append(w, id)[i] = w[i]
  BY <1>4, AppendIs
<1>9. \A i \in DOMAIN Append(w, id) : Append(w, id)[i] <= m.issued
  BY <1>2, <1>6, <1>8 DEF WiresOf, w
<1>10. \A i, j \in DOMAIN Append(w, id) : i < j => Append(w, id)[i] < Append(w, id)[j]
  <2> SUFFICES ASSUME NEW i \in DOMAIN Append(w, id), NEW j \in DOMAIN Append(w, id), i < j
               PROVE  Append(w, id)[i] < Append(w, id)[j]
    OBVIOUS
  <2>1. i \in DOMAIN w
    BY <1>8
  <2>2. CASE j \in DOMAIN w
    BY <1>2, <1>8, <2>1, <2>2 DEF WiresOf, w
  <2>3. CASE j = Len(w) + 1
    BY <1>5, <1>8, <2>1, <2>3
  <2> QED  BY <1>8, <2>2, <2>3
<1>11. WireOf(n, s) = Append(w, id) /\ \A t \in Socks : t # s => WireOf(n, t) = WireOf(m, t)
  BY <1>2 DEF w
<1>12. ASSUME NEW t \in Socks
       PROVE  /\ \A i \in DOMAIN WireOf(n, t) : WireOf(n, t)[i] <= n.issued
              /\ \A i, j \in DOMAIN WireOf(n, t) : i < j => WireOf(n, t)[i] < WireOf(n, t)[j]
  <2>1. CASE t = s
    BY <1>9, <1>10, <1>11, <2>1
  <2>2. CASE t # s
    BY <1>11, <2>2 DEF WiresOf
  <2> QED  BY <2>1, <2>2
<1>13. ASSUME NEW j \in Slots(n), Pushing(n, j)
       PROVE  \A i \in DOMAIN WireOf(n, SockOf(n, Op(n, j).qd)) : WireOf(n, SockOf(n, Op(n, j).qd))[i] < Op(n, j).id
  BY <1>3, <1>7, <1>11, <1>13 DEF WiresOf
<1> QED  BY <1>12, <1>13 DEF WiresOf
-----------------------------------------------------------------------------
(* All of it.  In catnip the kernel is not used. *)

Still(m) == m.backend = "catnip" => m.kernel = EmptyKernel /\ \A q \in QDs : m.log[q] = <<>>

Deep(m) ==
  /\ Names(m) /\ Still(m)
  /\ m.backend = "catnap" => StreamsOf(m) /\ (OnePush => WiresOf(m))

Whole(m) == Core(m) /\ (Careful => Deep(m))

(* What polls leave alone. *)
Others(m, n) ==
  /\ n.backend = m.backend /\ n.program = m.program /\ n.table = m.table /\ n.sockets = m.sockets
  /\ n.issued = m.issued /\ n.token = m.token /\ n.open = m.open /\ n.log = m.log

LEMMA OthersRest ==
  ASSUME NEW m, NEW n, Rest(m), Others(m, n), KernelOK(n.kernel)
  PROVE  Rest(n)
BY DEF Rest, Others

(* Operations stay, or are over without a descriptor or data. *)
StillOps(m, n) ==
  /\ Slots(n) = Slots(m)
  /\ \A k \in Slots(m) :
        /\ SameOp(Op(n, k), Op(m, k))
        /\ m.backend = "catnap" /\ Op(m, k).kind \in {"accept", "pop"} =>
              /\ Op(n, k).done.is = "ok" <=> Op(m, k).done.is = "ok"
              /\ Op(m, k).done.is = "ok" => Op(n, k).done.value = Op(m, k).done.value
        /\ Pushing(n, k) => Pushing(m, k)

LEMMA OpsAlike ==
  ASSUME NEW m, NEW n, StillOps(m, n)
  PROVE  /\ Accepting(n) = Accepting(m) /\ \A k \in Accepting(m) : NewOf(n, k) = NewOf(m, k)
         /\ m.backend = "catnap" =>
              /\ Got(n) = Got(m) /\ \A k \in Got(m) : FdOf(n, k) = FdOf(m, k)
              /\ \A k \in Slots(m) : (Popped(n, k) <=> Popped(m, k))
                                     /\ (Popped(m, k) => Op(n, k).done.value = Op(m, k).done.value)
<1>1. Accepting(n) = Accepting(m)
  BY DEF Accepting, StillOps, SameOp
<1>2. \A k \in Accepting(m) : NewOf(n, k) = NewOf(m, k)
  BY DEF Accepting, StillOps, SameOp, NewOf
<1>3. ASSUME m.backend = "catnap"
      PROVE  /\ Got(n) = Got(m) /\ \A k \in Got(m) : FdOf(n, k) = FdOf(m, k)
             /\ \A k \in Slots(m) : (Popped(n, k) <=> Popped(m, k))
                                    /\ (Popped(m, k) => Op(n, k).done.value = Op(m, k).done.value)
  <2>1. \A k \in Slots(m) : Op(m, k).kind \in {"accept", "pop"} =>
          /\ Op(n, k).done.is = "ok" <=> Op(m, k).done.is = "ok"
          /\ Op(m, k).done.is = "ok" => Op(n, k).done.value = Op(m, k).done.value
    BY <1>3 DEF StillOps
  <2>2. Got(n) = Got(m) /\ \A k \in Got(m) : FdOf(n, k) = FdOf(m, k)
    BY <1>1, <2>1 DEF Got, Accepting, FdOf
  <2>3. \A k \in Slots(m) : Op(n, k).kind = Op(m, k).kind
    BY DEF StillOps, SameOp
  <2> QED  BY <2>1, <2>2, <2>3 DEF Popped
<1> QED  BY <1>1, <1>2, <1>3

LEMMA WholeStays ==
  ASSUME NEW m, NEW n, Whole(m), Core(n), Others(m, n), StillOps(m, n),
         n.kernel = m.kernel \/ (m.backend = "catnap" /\ (Quiet(m.kernel, n.kernel) \/ Connected(m.kernel, n.kernel)))
  PROVE  Whole(n)
<1> SUFFICES ASSUME Careful PROVE Deep(n)
  BY DEF Whole
<1>1. Core(m) /\ Rest(m) /\ Deep(m) /\ Names(m) /\ KernelOK(m.kernel)
  BY DEF Whole, Core, Deep, Rest
<1>2. n.kernel.file = m.kernel.file
  BY DEF Quiet, Connected
<1>3. Names(n)
  <2>1. NamesAlike(m, n)
    BY <1>2, OpsAlike DEF NamesAlike, Others, InUse
  <2> QED  BY <1>1, <2>1, NamesStay
<1>4. Still(n)
  BY <1>1 DEF Still, Deep, Others, Rest
<1>5. ASSUME m.backend = "catnap" PROVE StreamsOf(n) /\ (OnePush => WiresOf(n))
  <2>1. StreamsOf(m) /\ Descriptors(m) /\ Once(m.kernel)
    BY <1>1, <1>5 DEF Deep, Names, StreamsOf
  <2>2. \A s \in Socks : Read(n, s) = Read(m, s) /\ WireOf(n, s) = WireOf(m, s)
    BY DEF Quiet, Connected, Read, WireOf, SameRead, SameWire
  <2>3. /\ Once(n.kernel)
        /\ \A s \in Socks : ~Unmade(m.kernel, s) => ~Unmade(n.kernel, s)
        /\ \A s \in Socks : Queued(n.kernel, s) => Queued(m.kernel, s) \/ Unmade(m.kernel, s)
    <3>1. CASE n.kernel = m.kernel
      BY <2>1, <3>1
    <3>2. CASE Quiet(m.kernel, n.kernel)
      <4>1. Once(n.kernel) /\ \A s \in Socks : Queued(n.kernel, s) <=> Queued(m.kernel, s)
        BY <1>1, <2>1, <3>2, OnceStays DEF Quiet, KernelOK
      <4> QED  BY <3>2, <4>1 DEF Quiet, SameMade
    <3>3. CASE Connected(m.kernel, n.kernel)
      BY <1>1, <2>1, <3>3, OnceConnected
    <3> QED  BY <3>1, <3>2, <3>3
  <2>4. StreamsAlike(m, n)
    BY <1>2, <1>5, <2>2, <2>3, OpsAlike DEF StreamsAlike, Others, StillOps
  <2>5. StreamsOf(n)
    BY <1>1, <2>1, <2>4, StreamsStay
  <2>6. ASSUME OnePush PROVE WiresOf(n)
    <3>1. WiresOf(m)
      BY <1>1, <1>5, <2>6 DEF Deep
    <3>2. \A q : SockOf(n, q) = SockOf(m, q)
      BY <1>2 DEF SockOf, Others
    <3>3. \A k \in Slots(m) : Op(m, k).qd \in m.open /\ SockOf(m, Op(m, k).qd) \in Socks
      BY <1>1, <2>1, OwnSocket DEF StreamsOf, OwnQueue
    <3>4. \A k \in Slots(n) : Pushing(n, k) =>
            /\ k \in Slots(m) /\ Pushing(m, k) /\ Op(n, k).id = Op(m, k).id
            /\ SockOf(n, Op(n, k).qd) = SockOf(m, Op(m, k).qd) /\ SockOf(m, Op(m, k).qd) \in Socks
      BY <3>2, <3>3 DEF StillOps, SameOp
    <3>5. n.issued = m.issued
      BY DEF Others
    <3> QED  BY <2>2, <3>1, <3>4, <3>5, WiresStay
  <2> QED  BY <2>5, <2>6
<1> QED  BY <1>3, <1>4, <1>5 DEF Deep, Others

(* Operations that do not change. *)
LEMMA UnchangedOps ==
  ASSUME NEW m, NEW n, Unchanged(m, n)
  PROVE  StillOps(m, n)
BY DEF Unchanged, StillOps, SameOp, Pushing

(* An operation of catnap gets its result. *)
LEMMA WholeSent ==
  ASSUME NEW m, NEW n, NEW r, NEW k, Whole(m), Core(n), Others(m, n), m.backend = "catnap",
         Sent(m.kernel, Op(m, k), r), k \in Slots(m), n.kernel = r.kernel, Resolved(m, n, {k}),
         Op(n, k).done.is # "pending"
  PROVE  Whole(n)
<1> SUFFICES ASSUME Careful PROVE Deep(n)
  BY DEF Whole
<1>1. Core(m) /\ Rest(m) /\ Names(m) /\ KernelOK(m.kernel) /\ StreamsOf(m) /\ Descriptors(m) /\ Once(m.kernel)
      /\ (OnePush => WiresOf(m)) /\ OwnQueue(m) /\ n.backend = "catnap"
  BY DEF Whole, Core, Deep, Rest, Names, StreamsOf, Others
<1>2. StillOps(m, n)
  BY DEF Resolved, StillOps, SameOp, Pushing, Sent
<1>3. n.kernel.file = m.kernel.file
  BY DEF Sent
<1>4. Names(n)
  <2>1. NamesAlike(m, n)
    BY <1>2, <1>3, OpsAlike DEF NamesAlike, Others, InUse
  <2> QED  BY <1>1, <2>1, NamesStay
<1>5. StreamsOf(n)
  <2>1. Once(n.kernel) /\ \A s \in Socks : Queued(n.kernel, s) <=> Queued(m.kernel, s)
    BY <1>1, <1>3, OnceStays DEF Sent, KernelOK
  <2>2. StreamsAlike(m, n)
    BY <1>2, <1>3, <2>1, OpsAlike DEF StreamsAlike, Others, StillOps, Sent, Read, SameRead, SameMade
  <2> QED  BY <1>1, <2>2, StreamsStay
<1>6. OnePush => WiresOf(n)
  BY <1>1, WiresSent DEF Others
<1> QED  BY <1>1, <1>4, <1>5, <1>6 DEF Deep, Still

LEMMA WholeAccepted ==
  ASSUME NEW m, NEW n, NEW r, NEW k, Whole(m), Core(n), Others(m, n), m.backend = "catnap",
         Accepted(m.kernel, Op(m, k), r), k \in Slots(m), n.kernel = r.kernel, Resolved(m, n, {k}),
         Op(n, k).done.is = "ok", Op(n, k).done.value = r.value
  PROVE  Whole(n)
<1> SUFFICES ASSUME Careful PROVE Deep(n)
  BY DEF Whole
<1>1. Core(m) /\ Rest(m) /\ Names(m) /\ KernelOK(m.kernel) /\ StreamsOf(m) /\ Descriptors(m) /\ Once(m.kernel)
      /\ (OnePush => WiresOf(m)) /\ OwnQueue(m) /\ n.backend = "catnap"
  BY DEF Whole, Core, Deep, Rest, Names, StreamsOf, Others
<1>2. /\ r.value \in Fds /\ m.kernel.file[r.value] = NoSock /\ n.kernel.file[r.value] # NoSock
      /\ \A f \in Fds : f # r.value => n.kernel.file[f] = m.kernel.file[f]
      /\ Op(m, k).kind = "accept"
  <2>1. n.kernel.file[r.value] \in Socks
    BY <1>1, OnceAccepted
  <2> QED  BY <2>1, <1>1, Bounds DEF Accepted, KernelOK
<1>3. /\ Slots(n) = Slots(m) /\ Op(m, k).done.is = "pending" /\ Op(n, k).kind = "accept"
      /\ \A j \in Slots(m) : j # k => Op(n, j) = Op(m, j)
      /\ \A j \in Slots(m) : SameOp(Op(n, j), Op(m, j))
  BY <1>2 DEF Resolved, SameOp
<1>4. Names(n)
  <2>1. Accepting(n) = Accepting(m) /\ \A j \in Accepting(m) : NewOf(n, j) = NewOf(m, j)
    BY <1>3 DEF Accepting, NewOf, SameOp
  <2>2. /\ k \in Accepting(m) /\ k \notin Got(m) /\ Got(n) = Got(m) \cup {k}
        /\ FdOf(n, k) = r.value /\ \A j \in Got(m) : FdOf(n, j) = FdOf(m, j)
    BY <1>2, <1>3, <2>1 DEF Accepting, Got, FdOf
  <2>3. r.value \notin InUse(m) /\ InUse(n) = InUse(m) \cup {r.value}
    BY <1>2 DEF InUse
  <2>4. n.backend = m.backend /\ n.table = m.table /\ n.sockets = m.sockets /\ n.open = m.open
    BY DEF Others
  <2> QED  BY <1>1, <1>2, <2>1, <2>2, <2>3, <2>4, NamesGot
<1>5. StreamsOf(n)
  BY <1>1, <1>2, StreamsAccepted DEF Others
<1>6. ASSUME OnePush PROVE WiresOf(n)
  <2>1. \A s \in Socks : WireOf(n, s) = WireOf(m, s)
    BY DEF Accepted, WireOf, SameWire
  <2>2. \A q \in m.open : SockOf(m, q) \in Socks /\ SockOf(n, q) = SockOf(m, q)
    <3>1. \A q \in m.open : m.sockets[q] \in Fds /\ SockOf(m, q) \in Socks
      BY <1>1, OwnSocket
    <3>2. \A q \in m.open : m.sockets[q] # r.value
      BY <1>2, <3>1, Bounds DEF SockOf
    <3> QED  BY <1>2, <3>1, <3>2 DEF SockOf, Others
  <2>3. \A j \in Slots(n) : Pushing(n, j) =>
            /\ j \in Slots(m) /\ Pushing(m, j) /\ Op(n, j).id = Op(m, j).id
            /\ SockOf(n, Op(n, j).qd) = SockOf(m, Op(m, j).qd) /\ SockOf(m, Op(m, j).qd) \in Socks
    BY <1>1, <1>3, <2>2 DEF Pushing, OwnQueue
  <2>4. n.issued = m.issued /\ WiresOf(m)
    BY <1>1, <1>6 DEF Others
  <2> QED  BY <2>1, <2>3, <2>4, WiresStay
<1> QED  BY <1>1, <1>4, <1>5, <1>6 DEF Deep, Still

LEMMA WholeReceived ==
  ASSUME NEW m, NEW n, NEW r, NEW k, Whole(m), Core(n), Others(m, n), m.backend = "catnap",
         Received(m.kernel, Op(m, k), r), k \in Slots(m), n.kernel = r.kernel, Resolved(m, n, {k}),
         Op(n, k).done.is = "ok", Op(n, k).done.value = r.value
  PROVE  Whole(n)
<1> SUFFICES ASSUME Careful PROVE Deep(n)
  BY DEF Whole
<1>1. Core(m) /\ Rest(m) /\ Rest(n) /\ Names(m) /\ KernelOK(m.kernel) /\ StreamsOf(m) /\ Descriptors(m)
      /\ Once(m.kernel) /\ (OnePush => WiresOf(m)) /\ OwnQueue(m) /\ n.backend = "catnap"
  BY DEF Whole, Core, Deep, Rest, Names, StreamsOf, Others
<1>2. Op(m, k).kind = "pop" /\ n.kernel.file = m.kernel.file
  BY DEF Received
<1>3. /\ Slots(n) = Slots(m) /\ \A j \in Slots(m) : j # k => Op(n, j) = Op(m, j)
      /\ \A j \in Slots(m) : SameOp(Op(n, j), Op(m, j))
  BY DEF Resolved, SameOp
<1>4. Names(n)
  <2>1. Accepting(n) = Accepting(m) /\ \A j \in Accepting(m) : j # k /\ NewOf(n, j) = NewOf(m, j)
    BY <1>2, <1>3 DEF Accepting, NewOf, SameOp
  <2>2. Got(n) = Got(m) /\ \A j \in Got(m) : FdOf(n, j) = FdOf(m, j)
    BY <1>3, <2>1 DEF Accepting, Got, FdOf
  <2>3. NamesAlike(m, n)
    BY <1>2, <2>1, <2>2 DEF NamesAlike, Others, InUse
  <2> QED  BY <1>1, <2>3, NamesStay
<1>5. StreamsOf(n)
  BY <1>1, StreamsReceived DEF Others
<1>6. ASSUME OnePush PROVE WiresOf(n)
  <2>1. \A s \in Socks : WireOf(n, s) = WireOf(m, s)
    BY DEF Received, WireOf, SameWire
  <2>2. \A q \in m.open : SockOf(m, q) \in Socks /\ SockOf(n, q) = SockOf(m, q)
    BY <1>1, <1>2, OwnSocket DEF SockOf, Others
  <2>3. \A j \in Slots(n) : Pushing(n, j) =>
            /\ j \in Slots(m) /\ Pushing(m, j) /\ Op(n, j).id = Op(m, j).id
            /\ SockOf(n, Op(n, j).qd) = SockOf(m, Op(m, j).qd) /\ SockOf(m, Op(m, j).qd) \in Socks
    <3>1. \A j \in Slots(n) : Pushing(n, j) => j \in Slots(m) /\ j # k
      BY <1>2, <1>3 DEF Pushing, SameOp
    <3> QED  BY <1>1, <1>3, <2>2, <3>1 DEF Pushing, OwnQueue
  <2>4. n.issued = m.issued /\ WiresOf(m)
    BY <1>1, <1>6 DEF Others
  <2> QED  BY <2>1, <2>3, <2>4, WiresStay
<1> QED  BY <1>1, <1>4, <1>5, <1>6 DEF Deep, Still

(* One poll of one operation. *)
LEMMA PollOne ==
  ASSUME NEW m, NEW n, NEW r, NEW k, Whole(m), Others(m, n), m.backend = "catnap",
         k \in Slots(m), k \notin m.sched.completed, r = SysCall(m.kernel, Op(m, k)),
         n.kernel = r.kernel,
         n.sched = IF r.is = "pending" THEN Wakes(m.sched, k)
                   ELSE Done(m.sched, k, [is |-> r.is, value |-> r.value])
  PROVE  /\ Whole(n) /\ Slots(n) = Slots(m)
         /\ n.sched.completed \subseteq m.sched.completed \cup {k}
         /\ \A D : Awake(m, D) => Awake(n, D \ {k})
<1> DEFINE op == Op(m, k)
           result == [is |-> r.is, value |-> r.value]
<1>1. /\ Core(m) /\ Rest(m) /\ KernelOK(m.kernel) /\ op \in Operations /\ op.fd \in Fds /\ k \in Keys
      /\ op.done.is = "pending"
  BY SlotIs DEF Whole, Core, Rest, OpOK
<1>2. Outcome(m.kernel, op, r)
  BY <1>1, SysCallIs
<1> HIDE DEF op
<1>3. KernelOK(n.kernel)
  BY <1>2 DEF Outcome, Nothing, Quiet, Accepted, Received, Sent
<1>4. Rest(n)
  BY <1>1, <1>3, OthersRest
<1>5. CASE r.is = "pending"
  <2>1. Quiet(m.kernel, n.kernel)
    BY <1>2, <1>5 DEF Outcome, Nothing, Accepted, Received, Sent
  <2>2. Renotifies(m, n) /\ n.sched.notified = m.sched.notified \cup {k}
    <3>1. n.sched = [m.sched EXCEPT !.notified = @ \cup {k}]
      BY <1>5 DEF Wakes, Notify
    <3>2. Shaped(m.sched, Operations)
      BY <1>1 DEF Core, SchedOK
    <3>3. m.sched.notified \subseteq Slots(m)
      BY <1>1 DEF Core, SchedOK, Slots
    <3> QED  BY <3>1, <3>2, <3>3 DEF Renotifies, Others, Shaped
  <2>3. Core(n) /\ Unchanged(m, n)
    BY <1>1, <1>4, <2>2, RenotifyCore
  <2>4. StillOps(m, n)
    BY <2>3, UnchangedOps
  <2>5. Whole(n)
    BY <2>1, <2>3, <2>4, WholeStays
  <2>6. ASSUME NEW D, Awake(m, D) PROVE Awake(n, D \ {k})
    BY <2>2, <2>3, <2>6 DEF Awake, Unchanged, Others
  <2> QED  BY <2>3, <2>5, <2>6 DEF Unchanged
<1>6. CASE r.is # "pending"
  <2>1. /\ result \in Results /\ result.is # "pending"
        /\ result.is = "ok" => /\ op.kind = "accept" => result.value \in Fds
                               /\ op.kind = "pop" => result.value \in ReadsOf
    <3>1. result \in Results /\ result.is # "pending"
      BY <1>2, <1>6 DEF Outcome, Results
    <3>2. r.is = "ok" /\ op.kind = "accept" => r.value \in Fds
      BY <1>2 DEF Outcome, Nothing, Accepted, Received, Sent
    <3>3. ASSUME r.is = "ok", op.kind = "pop" PROVE r.value \in ReadsOf
      <4>1. Received(m.kernel, op, r)
        BY <1>2, <3>3 DEF Outcome, Nothing, Accepted, Sent
      <4>2. /\ m.kernel.file[op.fd] \in Socks
            /\ r.value = <<m.kernel.file[op.fd], m.kernel.sock[m.kernel.file[op.fd]].read + 1,
                           r.kernel.sock[m.kernel.file[op.fd]].read>>
        BY <4>1 DEF Received
      <4>3. \A s \in Socks : m.kernel.sock[s].read + 1 \in Nat /\ r.kernel.sock[s].read \in Nat
        <5>1. \A s \in Socks : m.kernel.sock[s] \in SockRecs /\ n.kernel.sock[s] \in SockRecs
          BY <1>1, <1>3 DEF KernelOK
        <5>2. \A s \in Socks : m.kernel.sock[s].read \in Nat /\ n.kernel.sock[s].read \in Nat
          BY <5>1, FieldsOf
        <5> QED  BY <5>2
      <4> DEFINE s == m.kernel.file[op.fd]
                 a == m.kernel.sock[s].read + 1
                 b == r.kernel.sock[s].read
      <4>4. s \in Socks /\ a \in Nat /\ b \in Nat /\ r.value = <<s, a, b>>
        BY <4>2, <4>3
      <4> HIDE DEF s, a, b
      <4> QED  BY <4>4 DEF ReadsOf
    <3> QED  BY <3>1, <3>2, <3>3
  <2>2. n.sched = Done(m.sched, k, result)
    BY <1>6
  <2> HIDE DEF result
  <2>3. Resolves(m, n, {k}) /\ Op(n, k).done = result
    BY <1>1, <1>4, <2>1, <2>2, DoneIs DEF Others, op
  <2>4. Core(n) /\ Resolved(m, n, {k}) /\ \A D : Awake(m, D) => Awake(n, D \ {k})
    BY <1>1, <1>4, <2>3, ResolveCore
  <2>5. Op(n, k).done.is = r.is /\ Op(n, k).done.value = r.value
    BY <2>3 DEF result
  <2>6. Whole(n)
    <3>1. CASE Nothing(m.kernel, op, r)
      <4>1. StillOps(m, n)
        <5>1. \A j \in Slots(m) \ {k} : Op(n, j) = Op(m, j)
          BY <2>4 DEF Resolved
        <5>2. SameOp(Op(n, k), Op(m, k)) /\ Slots(n) = Slots(m)
          BY <2>4 DEF Resolved
        <5>3. ~Pushing(n, k)
          BY <1>6, <2>5 DEF Pushing
        <5>4. r.is = "ok" => Op(m, k).kind # "accept" /\ Op(m, k).kind # "pop"
          BY <3>1 DEF Nothing, op
        <5> QED  BY <1>1, <2>5, <5>1, <5>2, <5>3, <5>4 DEF StillOps, SameOp, Pushing, op
      <4> QED  BY <2>4, <3>1, <4>1, WholeStays DEF Nothing
    <3>2. CASE Accepted(m.kernel, op, r)
      <4>1. r.is = "ok"
        BY <3>2 DEF Accepted
      <4> QED  BY <2>4, <2>5, <3>2, <4>1, WholeAccepted DEF op
    <3>3. CASE Received(m.kernel, op, r)
      <4>1. r.is = "ok"
        BY <3>3 DEF Received
      <4> QED  BY <2>4, <2>5, <3>3, <4>1, WholeReceived DEF op
    <3>4. CASE Sent(m.kernel, op, r)
      BY <1>6, <2>4, <2>5, <3>4, WholeSent DEF op
    <3> QED  BY <1>2, <3>1, <3>2, <3>3, <3>4 DEF Outcome
  <2> QED  BY <2>4, <2>6 DEF Resolved
<1> QED  BY <1>5, <1>6
-----------------------------------------------------------------------------
(* Scheduler::poll in catnap. *)

With(st) == [backend |-> backend, program |-> program, sched |-> st.sched, table |-> table,
             sockets |-> sockets, kernel |-> st.kernel, issued |-> issued, token |-> token,
             open |-> open, log |-> log]

LEMMA WithIs ==
  ASSUME NEW a, NEW b
  PROVE  /\ Others(With(a), With(b))
         /\ With(a).sched = a.sched /\ With(a).kernel = a.kernel /\ With(a).backend = backend
         /\ \A k : Op(With(a), k) = a.sched.slab[k]
         /\ Others(Here, With(a)) /\ (a.sched = sched /\ a.kernel = kernel => With(a) = Here)
BY DEF With, Others, Op, Here

(* A state the poll passes through: the operations of D are yet to be polled. *)
Passing(st, D) ==
  /\ st = [sched |-> st.sched, kernel |-> st.kernel]
  /\ Whole(With(st)) /\ Awake(With(st), D)
  /\ D \subseteq Slots(With(st)) /\ D \cap st.sched.completed = {}

LEMMA PollFutureIs ==
  ASSUME NEW st, NEW D, NEW k \in D, Passing(st, D), backend = "catnap"
  PROVE  Passing(PollFuture(st, k), D \ {k})
<1> DEFINE m == With(st)
           r == SysCall(st.kernel, st.sched.slab[k])
           after == PollFuture(st, k)
           n == With(after)
<1>1. /\ after = [kernel |-> r.kernel,
                  sched |-> IF r.is = "pending" THEN Wakes(st.sched, k)
                            ELSE Done(st.sched, k, [is |-> r.is, value |-> r.value])]
  BY DEF PollFuture
<1> HIDE DEF after, r
<1>2. /\ after = [sched |-> after.sched, kernel |-> after.kernel] /\ n.kernel = r.kernel
      /\ n.sched = IF r.is = "pending" THEN Wakes(m.sched, k)
                   ELSE Done(m.sched, k, [is |-> r.is, value |-> r.value])
      /\ n.sched = after.sched /\ m.sched = st.sched
  BY <1>1, WithIs
<1>3. r = SysCall(m.kernel, Op(m, k)) /\ Others(m, n) /\ m.backend = "catnap"
  BY WithIs DEF r
<1> HIDE DEF m, n
<1>4. Whole(m) /\ Awake(m, D) /\ D \subseteq Slots(m) /\ k \in Slots(m) /\ D \cap m.sched.completed = {}
      /\ k \notin m.sched.completed
  BY <1>2 DEF Passing, m
<1>5. /\ Whole(n) /\ Slots(n) = Slots(m)
      /\ n.sched.completed \subseteq m.sched.completed \cup {k}
      /\ \A E : Awake(m, E) => Awake(n, E \ {k})
  BY <1>2, <1>3, <1>4, PollOne
<1>6. Awake(n, D \ {k}) /\ D \ {k} \subseteq Slots(n) /\ (D \ {k}) \cap after.sched.completed = {}
  BY <1>2, <1>4, <1>5
<1>7. Passing(after, D \ {k})
  BY <1>2, <1>5, <1>6 DEF Passing, n
<1> QED  BY <1>7 DEF after

(* The flags of a page are taken. *)
LEMMA FlagsTaken ==
  ASSUME NEW st, NEW p, Passing(st, {}), backend = "catnap"
  PROVE  Passing([st EXCEPT !.sched = TakeFlags(@, p)], TakenNotified(st.sched, p))
<1> DEFINE m == With(st)
           after == [st EXCEPT !.sched = TakeFlags(@, p)]
           n == With(after)
           D == TakenNotified(st.sched, p)
<1>1. after = [sched |-> TakeFlags(st.sched, p), kernel |-> st.kernel]
  BY DEF Passing
<1> HIDE DEF after
<1>2. /\ after = [sched |-> after.sched, kernel |-> after.kernel] /\ n.kernel = m.kernel
      /\ n.sched = TakeFlags(m.sched, p) /\ m.sched = st.sched /\ n.sched = after.sched
      /\ Others(m, n) /\ m.backend = "catnap"
  BY <1>1, WithIs
<1> HIDE DEF m, n
<1>3. Whole(m) /\ Core(m) /\ Awake(m, {}) /\ Rest(m)
  BY DEF Passing, m, Whole, Core
<1>4. /\ Shaped(m.sched, Operations) /\ m.sched.dropped = {} /\ m.sched.notified \subseteq Slots(m)
  BY <1>3 DEF Core, SchedOK, Slots
<1>5. Renotifies(m, n) /\ n.sched.notified = m.sched.notified \ PageKeys(p)
  BY <1>2, <1>4 DEF Renotifies, TakeFlags, Shaped, Others
<1>6. Rest(n)
  BY <1>2, <1>3, OthersRest DEF Rest
<1>7. Core(n) /\ Unchanged(m, n)
  BY <1>3, <1>5, <1>6, RenotifyCore
<1>8. Whole(n)
  BY <1>2, <1>3, <1>7, UnchangedOps, WholeStays
<1>9. D = (m.sched.notified \cap PageKeys(p)) \ m.sched.completed
  BY <1>2, <1>4 DEF TakenNotified
<1>10. Awake(n, D) /\ D \subseteq Slots(n) /\ D \cap n.sched.completed = {}
  BY <1>3, <1>4, <1>5, <1>7, <1>9 DEF Awake, Unchanged, Renotifies
<1>11. Passing(after, D)
  BY <1>2, <1>8, <1>10 DEF Passing, n
<1> QED  BY <1>11 DEF after

(* The end of a page: nothing is dropped. *)
LEMMA PageEnded ==
  ASSUME NEW st, NEW old, NEW p, Passing(st, {}), Passing(old, {}), backend = "catnap"
  PROVE  Passing([st EXCEPT !.sched = FreeDropped(@, TakenDropped(old.sched, p))], {})
<1> DEFINE m == With(st)
           after == [st EXCEPT !.sched = FreeDropped(@, TakenDropped(old.sched, p))]
           n == With(after)
<1>1. TakenDropped(old.sched, p) = {}
  BY WithIs DEF Passing, Whole, Core, SchedOK, TakenDropped
<1>2. after = [sched |-> FreeDropped(st.sched, {}), kernel |-> st.kernel]
  BY <1>1 DEF Passing
<1> HIDE DEF after
<1>3. /\ after = [sched |-> after.sched, kernel |-> after.kernel] /\ n.kernel = m.kernel
      /\ n.sched = FreeDropped(m.sched, {}) /\ n.sched = after.sched /\ m.sched = st.sched
      /\ Others(m, n) /\ m.backend = "catnap"
  BY <1>2, WithIs
<1> HIDE DEF m, n
<1>4. Whole(m) /\ Core(m) /\ Awake(m, {}) /\ Rest(m) /\ Shaped(m.sched, Operations) /\ SlotsOK(m.sched)
  BY DEF Passing, m, Whole, Core, SchedOK
<1>5. AreFreed(m.sched, Operations, {}, n.sched)
  <2>1. Freed({}) = {}
    BY DEF Freed
  <2>2. {} \in SUBSET PageKeys(p) /\ {} \subseteq Occupied(m.sched)
    OBVIOUS
  <2> QED  BY <1>3, <1>4, <2>1, <2>2, Bounds, SlotsFreed
<1>6. Rest(n)
  BY <1>3, <1>4, OthersRest DEF Rest
<1>7. Core(n) /\ Unchanged(m, n) /\ n.sched.notified = m.sched.notified
  BY <1>3, <1>4, <1>5, <1>6, FreedCore DEF Others
<1>8. Whole(n)
  BY <1>3, <1>4, <1>7, UnchangedOps, WholeStays
<1>9. Awake(n, {})
  BY <1>4, <1>7, <1>3 DEF Awake, Unchanged, Others
<1>10. Passing(after, {})
  BY <1>3, <1>8, <1>9 DEF Passing, n
<1> QED  BY <1>10 DEF after

(* One page. *)
LEMMA PollPageIs ==
  ASSUME NEW st, NEW p, Passing(st, {}), backend = "catnap"
  PROVE  Passing(PollPage(st, p), {})
<1> DEFINE todo == TakenNotified(st.sched, p)
           base == [st EXCEPT !.sched = TakeFlags(@, p)]
           F(k, x) == IF k \in todo THEN PollFuture(x, k) ELSE x
           Is(f, m) == f = [k \in -1..m |-> IF k = -1 THEN base ELSE F(k, f[k-1])]
           f == CHOOSE g : Is(g, MaxKeys - 1)
           later(k) == {j \in todo : j > k}
<1>0. MaxKeys \in Nat /\ Keys = 0..(MaxKeys - 1)
  BY Bounds DEF Keys
<1>1. PollPage(st, p) = [f[MaxKeys - 1] EXCEPT !.sched = FreeDropped(@, TakenDropped(st.sched, p))]
  BY Zenon DEF PollPage
<1>2. Passing(base, todo)
  BY FlagsTaken
<1>3. todo \subseteq Keys
  BY DEF TakenNotified, PageKeys
<1> HIDE DEF base, todo
<1>4. ASSUME NEW k \in Keys, NEW x, Passing(x, later(k - 1)) PROVE Passing(F(k, x), later(k))
  <2>0. k \in Nat /\ \A j \in todo : j \in Nat
    BY <1>0, <1>3
  <2>1. CASE k \in todo
    <3>0. k > k - 1 /\ \A j \in todo : (j > k - 1 /\ j # k) <=> j > k
      BY <2>0
    <3>1. k \in later(k - 1) /\ later(k - 1) \ {k} = later(k)
      BY <2>1, <3>0
    <3> HIDE DEF later
    <3>2. Passing(PollFuture(x, k), later(k - 1) \ {k})
      BY <1>4, <3>1, PollFutureIs
    <3> QED  BY <2>1, <3>1, <3>2
  <2>2. CASE k \notin todo
    <3>0. \A j \in todo : j > k - 1 <=> j > k
      BY <2>0, <2>2
    <3>1. later(k - 1) = later(k)
      BY <3>0
    <3> HIDE DEF later
    <3> QED  BY <1>4, <2>2, <3>1
  <2> QED  BY <2>1, <2>2
<1>5. later(-1) = todo /\ later(MaxKeys - 1) = {}
  <2>1. \A j \in todo : j > -1 /\ ~(j > MaxKeys - 1)
    BY <1>0, <1>3
  <2> QED  BY <2>1
<1> HIDE DEF F, later
<1>6. ASSUME NEW g, NEW m \in Int, m >= -1, Is(g, m)
      PROVE  /\ g[-1] = base /\ \A k \in 0..m : g[k] = F(k, g[k - 1])
             /\ g = [k \in -1..m |-> g[k]]
  <2>1. -1 \in -1..m /\ \A k \in 0..m : k \in -1..m /\ k # -1
    BY <1>6
  <2>2. \A k \in -1..m : g[k] = IF k = -1 THEN base ELSE F(k, g[k - 1])
    BY <1>6
  <2>3. g = [k \in -1..m |-> g[k]]
    BY <1>6
  <2>4. g[-1] = base
    BY <2>1, <2>2
  <2>5. \A k \in 0..m : g[k] = F(k, g[k - 1])
    BY <2>1, <2>2
  <2> QED  BY <2>3, <2>4, <2>5
<1>7. \E g : Is(g, MaxKeys - 1)
  <2> DEFINE S == {m \in Nat : \E g : Is(g, m - 1)}
  <2>1. 0 \in S
    <3>1. Is([k \in -1..(0 - 1) |-> base], 0 - 1)
      OBVIOUS
    <3> QED  BY <3>1
  <2>2. ASSUME NEW m \in Nat, m \in S PROVE m + 1 \in S
    <3>1. PICK g : Is(g, m - 1)
      BY <2>2
    <3> DEFINE last == F(m, g[m - 1])
               h == [k \in -1..m |-> IF k = m THEN last ELSE g[k]]
    <3>0. m - 1 \in Int /\ m - 1 >= -1
      OBVIOUS
    <3> HIDE DEF Is
    <3>2. g[-1] = base /\ \A k \in 0..(m - 1) : g[k] = F(k, g[k - 1])
      BY <1>6, <3>0, <3>1
    <3> USE DEF Is
    <3>3. h[-1] = base /\ h[m] = F(m, h[m - 1])
      BY <3>2
    <3>4. ASSUME NEW k \in 0..(m - 1) PROVE h[k] = F(k, h[k - 1])
      <4>1. k \in -1..m /\ k - 1 \in -1..m /\ k # m /\ k - 1 # m
        OBVIOUS
      <4>2. h[k] = g[k] /\ h[k - 1] = g[k - 1]
        BY <4>1
      <4> HIDE DEF h
      <4> QED  BY <3>2, <4>2
    <3>5. h = [k \in -1..m |-> h[k]]
      OBVIOUS
    <3> HIDE DEF h
    <3>6. \A k \in -1..m : h[k] = IF k = -1 THEN base ELSE F(k, h[k - 1])
      <4>1. \A k \in -1..m : k = -1 \/ (k # -1 /\ (k \in 0..(m - 1) \/ k = m))
        OBVIOUS
      <4> QED  BY <3>3, <3>4, <4>1
    <3>7. Is(h, m)
      BY <3>5, <3>6
    <3>8. (m + 1) - 1 = m /\ m + 1 \in Nat
      OBVIOUS
    <3> QED  BY <3>7, <3>8
  <2> HIDE DEF S
  <2>3. Nat \subseteq S
    BY <2>1, <2>2, Induction
  <2> QED  BY <1>0, <2>3 DEF S
<1>8. Is(f, MaxKeys - 1)
  BY <1>7
<1> HIDE DEF f, Is
<1>9. f[-1] = base /\ \A k \in 0..(MaxKeys - 1) : f[k] = F(k, f[k - 1])
  BY <1>0, <1>6, <1>8
<1>10. Passing(f[MaxKeys - 1], later(MaxKeys - 1))
  <2> DEFINE S == {m \in Nat : m <= MaxKeys => Passing(f[m - 1], later(m - 1))}
  <2>1. 0 \in S
    BY <1>2, <1>5, <1>9
  <2>2. ASSUME NEW m \in Nat, m \in S PROVE m + 1 \in S
    <3> SUFFICES ASSUME m + 1 <= MaxKeys PROVE Passing(f[m], later(m))
      OBVIOUS
    <3>1. m \in Keys /\ m \in 0..(MaxKeys - 1)
      BY <1>0
    <3>2. Passing(f[m - 1], later(m - 1)) /\ f[m] = F(m, f[m - 1])
      BY <1>0, <1>9, <2>2, <3>1
    <3> QED  BY <1>4, <3>1, <3>2
  <2> HIDE DEF S
  <2>3. Nat \subseteq S
    BY <2>1, <2>2, Induction
  <2> QED  BY <1>0, <2>3 DEF S
<1> QED  BY <1>1, <1>5, <1>10, PageEnded

LEMMA PagesIs ==
  ASSUME NEW s, Shaped(s, Operations)
  PROVE  Pages(s) \in Nat
<1>1. CASE s.fresh = 0
  BY <1>1 DEF Pages
<1>2. CASE s.fresh # 0
  <2> DEFINE a == s.fresh - 1
             d == a \div PageSize
             e == a % PageSize
  <2>1. a \in Nat /\ PageSize \in Nat \ {0} /\ a \in Int
    BY <1>2, Bounds DEF Shaped, SchedulerAssumption
  <2> HIDE DEF a
  <2>2. e \in 0..(PageSize - 1) /\ d \in Int /\ a = PageSize * d + e
    BY <2>1, ModIs
  <2>3. Pages(s) = d + 1
    BY <1>2 DEF Pages, PageOf, a
  <2> HIDE DEF d, e
  <2>4. d >= 0
    <3>1. ASSUME d <= -1 PROVE FALSE
      <4>1. PageSize * d <= PageSize * (-1)
        BY <2>1, <2>2, <3>1
      <4> QED  BY <2>1, <2>2, <4>1
    <3> QED  BY <2>2, <3>1
  <2> QED  BY <2>2, <2>3, <2>4
<1> QED  BY <1>1, <1>2

(* Page after page. *)
LEMMA CatnapPollIs ==
  ASSUME Whole(Here), Awake(Here, {}), backend = "catnap"
  PROVE  Passing(CatnapPoll, {})
<1> DEFINE base == [sched |-> sched, kernel |-> kernel]
           K == Pages(sched)
           F(p, x) == PollPage(x, p - 1)
           Is(f, m) == f = [p \in 0..m |-> IF p = 0 THEN base ELSE F(p, f[p-1])]
           f == CHOOSE g : Is(g, K)
<1>0. K \in Nat
  BY PagesIs, HereIs DEF Whole, Core, SchedOK
<1>1. CatnapPoll = f[K]
  BY Zenon DEF CatnapPoll
<1>2. Passing(base, {})
  <2>1. With(base) = Here
    BY WithIs
  <2> QED  BY <2>1 DEF Passing
<1> HIDE DEF base, K
<1>3. ASSUME NEW p, NEW x, Passing(x, {}) PROVE Passing(F(p, x), {})
  BY <1>3, PollPageIs
<1> HIDE DEF F
<1>4. ASSUME NEW g, NEW m \in Nat, Is(g, m)
      PROVE  /\ g[0] = base /\ \A n \in 1..m : g[n] = F(n, g[n - 1])
             /\ g = [n \in 0..m |-> g[n]]
  <2>1. 0 \in 0..m /\ \A n \in 1..m : n \in 0..m /\ n # 0
    BY <1>4
  <2>2. \A n \in 0..m : g[n] = IF n = 0 THEN base ELSE F(n, g[n - 1])
    BY <1>4
  <2>3. g = [n \in 0..m |-> g[n]]
    BY <1>4
  <2>4. g[0] = base
    BY <2>1, <2>2
  <2>5. \A n \in 1..m : g[n] = F(n, g[n - 1])
    BY <2>1, <2>2
  <2> QED  BY <2>3, <2>4, <2>5
<1>5. \E g : Is(g, K)
  <2> DEFINE S == {m \in Nat : \E g : Is(g, m)}
  <2>1. 0 \in S
    <3>1. Is([n \in 0..0 |-> base], 0)
      OBVIOUS
    <3> QED  BY <3>1
  <2>2. ASSUME NEW m \in Nat, m \in S PROVE m + 1 \in S
    <3>1. PICK g : Is(g, m)
      BY <2>2
    <3> DEFINE last == F(m + 1, g[m])
               h == [n \in 0..(m + 1) |-> IF n = m + 1 THEN last ELSE g[n]]
    <3>2. g[0] = base /\ \A n \in 1..m : g[n] = F(n, g[n - 1])
      BY <1>4, <3>1
    <3>3. h[0] = base /\ h[m + 1] = F(m + 1, h[m])
      BY <3>2
    <3>4. ASSUME NEW n \in 1..m PROVE h[n] = F(n, h[n - 1])
      <4>1. n \in 0..(m + 1) /\ n - 1 \in 0..(m + 1) /\ n # m + 1 /\ n - 1 # m + 1
        OBVIOUS
      <4>2. h[n] = g[n] /\ h[n - 1] = g[n - 1]
        BY <4>1
      <4> HIDE DEF h
      <4> QED  BY <3>2, <4>2
    <3>5. h = [n \in 0..(m + 1) |-> h[n]]
      OBVIOUS
    <3> HIDE DEF h
    <3>6. \A n \in 0..(m + 1) : h[n] = IF n = 0 THEN base ELSE F(n, h[n - 1])
      <4>1. \A n \in 0..(m + 1) : n = 0 \/ (n # 0 /\ (n \in 1..m \/ (n = m + 1 /\ n - 1 = m)))
        OBVIOUS
      <4> QED  BY <3>3, <3>4, <4>1
    <3>7. Is(h, m + 1)
      BY <3>5, <3>6
    <3> QED  BY <3>7
  <2> HIDE DEF S
  <2>3. Nat \subseteq S
    BY <2>1, <2>2, Induction
  <2> QED  BY <1>0, <2>3 DEF S
<1>6. Is(f, K)
  BY <1>5
<1> HIDE DEF f, Is
<1>7. f[0] = base /\ \A n \in 1..K : f[n] = F(n, f[n - 1])
  BY <1>0, <1>4, <1>6
<1>8. Passing(f[K], {})
  <2> DEFINE S == {n \in Nat : n <= K => Passing(f[n], {})}
  <2>1. 0 \in S
    BY <1>2, <1>7
  <2>2. ASSUME NEW n \in Nat, n \in S PROVE n + 1 \in S
    <3> SUFFICES ASSUME n + 1 <= K PROVE Passing(f[n + 1], {})
      OBVIOUS
    <3>1. n + 1 \in 1..K /\ (n + 1) - 1 = n /\ n <= K
      BY <1>0
    <3>2. Passing(f[n], {}) /\ f[n + 1] = F(n + 1, f[n])
      BY <1>7, <2>2, <3>1
    <3> QED  BY <1>3, <3>2
  <2> HIDE DEF S
  <2>3. Nat \subseteq S
    BY <2>1, <2>2, Induction
  <2> QED  BY <1>0, <2>3 DEF S
<1> QED  BY <1>1, <1>8

(* In catnip any of the operations may be over. *)
LEMMA CatnipPollIs ==
  ASSUME Whole(Here), Awake(Here, {}), backend = "catnip", NEW polled \in CatnipPolls
  PROVE  Passing(polled, {})
<1>0. PICK ok \in SUBSET Unfinished, bad \in SUBSET Unfinished : polled = CatnipPolled(ok, bad)
  BY DEF CatnipPolls
<1>1. polled = [kernel |-> kernel,
                sched |-> [sched EXCEPT !.completed = @ \cup ok \cup bad,
                             !.slab = [k \in Keys |->
                                  IF k \in ok \cup bad
                                  THEN [@[k] EXCEPT !.done.is = IF k \in ok THEN "ok" ELSE "failed"]
                                  ELSE @[k]]]]
  BY Zenon, <1>0 DEF CatnipPolled
<1> DEFINE R == ok \cup bad
           over(k) == [sched.slab[k] EXCEPT !.done.is = IF k \in ok THEN "ok" ELSE "failed"]
           slab == [k \in Keys |-> IF k \in R THEN over(k) ELSE sched.slab[k]]
           m == Here
           n == With(polled)
<1>2. /\ Core(m) /\ Rest(m) /\ Shaped(sched, Operations) /\ SchedOK(sched)
      /\ m.sched = sched /\ Slots(m) = Occupied(sched) /\ m.backend = "catnip"
      /\ \A k : Op(m, k) = sched.slab[k]
  BY HereIs DEF Whole, Core, SchedOK
<1>3. polled.kernel = kernel /\ polled.sched = [sched EXCEPT !.completed = @ \cup R, !.slab = slab]
      /\ polled = [sched |-> polled.sched, kernel |-> polled.kernel]
  BY <1>1
<1>4. R \subseteq Slots(m) \ sched.completed /\ R \subseteq Keys
  BY <1>2 DEF Unfinished, Occupied
<1>5. ASSUME NEW k \in R
      PROVE  over(k) \in Operations /\ SameOp(over(k), Op(m, k)) /\ over(k).done.is # "pending"
  <2>1. Op(m, k) \in Operations
    BY <1>2, <1>4, SlotIs
  <2> DEFINE op == sched.slab[k]
             is == IF k \in ok THEN "ok" ELSE "failed"
             done == [op.done EXCEPT !.is = is]
  <2>2. op \in Operations /\ over(k) = [op EXCEPT !.done = done] /\ op = Op(m, k)
    BY <1>2, <2>1
  <2>3. done \in Results /\ done.is # "pending"
    BY <2>2 DEF Operations, Results
  <2> HIDE DEF op, over, done
  <2> QED  BY <2>2, <2>3 DEF Operations, SameOp
<1> HIDE DEF over
<1>6. slab \in [Keys -> Operations \cup {NoTask}]
  BY <1>2, <1>5 DEF Shaped
<1>7. \A k \in Keys : slab[k] = IF k \in R THEN over(k) ELSE sched.slab[k]
  OBVIOUS
<1> HIDE DEF slab, R
<1>8. /\ polled.sched.slab = slab /\ polled.sched.vacant = sched.vacant /\ polled.sched.fresh = sched.fresh
      /\ polled.sched.notified = sched.notified /\ polled.sched.dropped = sched.dropped
      /\ polled.sched.completed = sched.completed \cup R
      /\ Shaped(polled.sched, Operations)
  BY <1>2, <1>3, <1>4, <1>6 DEF Shaped
<1>9. /\ Others(m, n) /\ n.sched = polled.sched /\ n.kernel = m.kernel
      /\ \A k : Op(n, k) = polled.sched.slab[k]
  BY <1>3, WithIs, HereIs
<1> HIDE DEF m, n
<1>10. Resolves(m, n, R)
  BY <1>2, <1>4, <1>5, <1>7, <1>8, <1>9 DEF Resolves, Proper, Others
<1>11. Rest(n)
  BY <1>2, <1>9, OthersRest DEF Rest
<1>12. Core(n) /\ Resolved(m, n, R)
  BY <1>2, <1>10, <1>11, ResolveCore
<1>13. StillOps(m, n)
  BY <1>2, <1>10, <1>12 DEF Resolved, Resolves, StillOps, SameOp, Pushing
<1>14. Whole(n)
  BY <1>9, <1>12, <1>13, WholeStays DEF m
<1>15. Awake(n, {})
  BY <1>2, <1>9 DEF Awake, Others
<1> QED  BY <1>3, <1>14, <1>15 DEF Passing, n

LEMMA PollsAre ==
  ASSUME Whole(Here), Awake(Here, {}), NEW polled \in Polls
  PROVE  Passing(polled, {})
<1>1. backend \in {"catnap", "catnip"}
  BY LibOSAssumption, HereIs DEF Whole, Core, Rest
<1> QED  BY <1>1, CatnapPollIs, CatnipPollIs DEF Polls

-----------------------------------------------------------------------------
(* Results that the application takes. *)

Gained(m, k) == Op(m, k).kind = "accept" /\ Op(m, k).done.is = "ok"
Lost(m, k) == Op(m, k).kind = "accept" /\ Op(m, k).done.is # "ok"
Heard(m, k) == m.backend = "catnap" /\ Popped(m, k)

Reaps(m, n, k) ==
  /\ Leaves(m, n, k) /\ k \in m.sched.completed /\ n.kernel = m.kernel
  /\ n.table = IF Lost(m, k) THEN FreeQd(m.table, NewOf(m, k)) ELSE m.table
  /\ n.sockets = IF m.backend = "catnap" /\ Gained(m, k)
                 THEN [m.sockets EXCEPT ![NewOf(m, k)] = FdOf(m, k)] ELSE m.sockets
  /\ n.open = IF Gained(m, k) THEN m.open \cup {NewOf(m, k)} ELSE m.open
  /\ n.log = IF Heard(m, k) THEN [m.log EXCEPT ![Op(m, k).qd] = Append(@, Op(m, k).done.value)] ELSE m.log

(* The queue of an accept, and what it and a pop came to. *)
LEMMA ReapedOp ==
  ASSUME NEW m, NEW k, Core(m), k \in Slots(m), k \in m.sched.completed
  PROVE  /\ Op(m, k).done.is # "pending" /\ Op(m, k).qd \in QDs
         /\ Op(m, k).kind = "accept" => NewOf(m, k) \in QDs
         /\ m.backend = "catnap" /\ Gained(m, k) => FdOf(m, k) \in Fds
         /\ Heard(m, k) => Op(m, k).done.value \in ReadsOf
BY SlotIs, Bounds DEF OpOK, Proper, NewOf, FdOf, Gained, Heard, Popped

LEMMA ReapedRest ==
  ASSUME NEW m, NEW n, NEW k, Core(m), Reaps(m, n, k)
  PROVE  Rest(n)
<1>1. Rest(m) /\ k \in Slots(m) /\ k \in m.sched.completed
  BY DEF Core, Reaps, Leaves
<1>2. /\ Op(m, k).qd \in QDs
      /\ Op(m, k).kind = "accept" => NewOf(m, k) \in QDs
      /\ m.backend = "catnap" /\ Gained(m, k) => FdOf(m, k) \in Fds
      /\ Heard(m, k) => Op(m, k).done.value \in ReadsOf
  BY <1>1, ReapedOp
<1>3. /\ n.backend = m.backend /\ n.program = m.program /\ n.issued = m.issued /\ n.kernel = m.kernel
  BY DEF Reaps, Leaves
<1>4. TableOK(n.table)
  <2>1. Lost(m, k) => NewOf(m, k) \in QDs
    BY <1>2 DEF Lost
  <2> QED  BY <1>1, <2>1, FreeIs DEF Reaps, Rest
<1>5. n.sockets \in [QDs -> Fds \cup {NoFd}]
  BY <1>1, <1>2 DEF Reaps, Rest
<1>6. n.token \in [Ids -> Keys \cup {NoKey}]
  BY <1>1 DEF Reaps, Leaves, Rest
<1>7. n.open \subseteq QDs
  BY <1>1, <1>2 DEF Reaps, Rest, Gained
<1>8. n.log \in [QDs -> Seq(ReadsOf)]
  <2>1. CASE ~Heard(m, k)
    BY <1>1, <2>1 DEF Reaps, Rest
  <2>2. CASE Heard(m, k)
    <3> DEFINE q == Op(m, k).qd
               v == Op(m, k).done.value
    <3>1. m.log \in [QDs -> Seq(ReadsOf)] /\ q \in QDs /\ v \in ReadsOf
      BY <1>1, <1>2, <2>2 DEF Rest
    <3>2. n.log = [m.log EXCEPT ![q] = Append(@, v)]
      BY <2>2 DEF Reaps
    <3> HIDE DEF q, v
    <3>3. Append(m.log[q], v) \in Seq(ReadsOf)
      BY <3>1, AppendIs
    <3> QED  BY <3>1, <3>2, <3>3
  <2> QED  BY <2>1, <2>2
<1> QED  BY <1>1, <1>3, <1>4, <1>5, <1>6, <1>7, <1>8 DEF Rest

LEMMA WholeReaped ==
  ASSUME NEW m, NEW n, NEW k, Whole(m), Reaps(m, n, k)
  PROVE  Whole(n) /\ Removed(m, n, k) /\ (Awake(m, {}) => Awake(n, {}))
<1>1. Core(m) /\ Leaves(m, n, k) /\ k \in Slots(m) /\ k \in m.sched.completed /\ Rest(n) /\ Rest(m)
  BY ReapedRest DEF Whole, Reaps, Leaves, Core
<1>2. Core(n) /\ Removed(m, n, k) /\ (Awake(m, {}) => Awake(n, {}))
  BY <1>1, LeaveCore
<1> SUFFICES ASSUME Careful PROVE Deep(n)
  BY <1>2 DEF Whole
<1>3. Deep(m) /\ Names(m)
  BY DEF Whole, Deep
<1>4. /\ Op(m, k).done.is # "pending" /\ Op(m, k).qd \in QDs
      /\ Op(m, k).kind = "accept" => NewOf(m, k) \in QDs
      /\ m.backend = "catnap" /\ Gained(m, k) => FdOf(m, k) \in Fds
  BY <1>1, ReapedOp
<1>5. n.backend = m.backend /\ n.issued = m.issued /\ n.kernel = m.kernel
  BY DEF Reaps, Leaves
<1>6. /\ Slots(n) = Slots(m) \ {k} /\ \A j \in Slots(n) : Op(n, j) = Op(m, j)
  BY <1>2 DEF Removed
<1>7. /\ Accepting(n) = Accepting(m) \ {k} /\ Got(n) = Got(m) \ {k} /\ InUse(n) = InUse(m)
      /\ \A j \in Accepting(n) : NewOf(n, j) = NewOf(m, j)
      /\ \A j \in Got(n) : FdOf(n, j) = FdOf(m, j)
  <2>1. Accepting(n) = Accepting(m) \ {k}
    BY <1>6 DEF Accepting
  <2>2. Got(n) = Got(m) \ {k}
    BY <1>6, <2>1 DEF Got, Accepting
  <2>3. \A j \in Accepting(n) : NewOf(n, j) = NewOf(m, j)
    BY <1>6 DEF Accepting, NewOf
  <2>4. \A j \in Got(n) : FdOf(n, j) = FdOf(m, j)
    BY <1>6 DEF Got, Accepting, FdOf
  <2>5. InUse(n) = InUse(m)
    BY <1>5 DEF InUse
  <2> QED  BY <2>1, <2>2, <2>3, <2>4, <2>5
<1>8. Names(n)
  <2>1. CASE Gained(m, k)
    <3>1. k \in Got(m) /\ NewOf(m, k) \in QDs
      BY <1>1, <1>4, <2>1 DEF Gained, Got, Accepting
    <3>2. /\ n.table = m.table /\ n.open = m.open \cup {NewOf(m, k)}
          /\ m.backend = "catnap" => n.sockets = [m.sockets EXCEPT ![NewOf(m, k)] = FdOf(m, k)]
      BY <2>1 DEF Reaps, Gained, Lost
    <3> QED  BY <1>1, <1>3, <1>5, <1>7, <3>1, <3>2, NamesTaken
  <2>2. CASE Lost(m, k)
    <3>1. k \in Accepting(m) /\ k \notin Got(m) /\ NewOf(m, k) \in QDs
      BY <1>1, <1>4, <2>2 DEF Lost, Got, Accepting
    <3>2. n.open = m.open /\ n.sockets = m.sockets /\ n.table = FreeQd(m.table, NewOf(m, k))
      BY <2>2 DEF Reaps, Gained, Lost
    <3>3. n.table.used = m.table.used \ {NewOf(m, k)}
      BY <1>1, <3>1, <3>2, FreeIs DEF Rest
    <3>4. Got(n) = Got(m)
      BY <1>7, <3>1
    <3> QED  BY <1>1, <1>3, <1>5, <1>7, <3>1, <3>2, <3>3, <3>4, NamesReturned
  <2>3. CASE ~Gained(m, k) /\ ~Lost(m, k)
    <3>1. Op(m, k).kind # "accept"
      BY <2>3 DEF Gained, Lost
    <3>2. k \notin Accepting(m) /\ k \notin Got(m)
      BY <3>1 DEF Accepting, Got
    <3>3. Accepting(n) = Accepting(m) /\ Got(n) = Got(m)
      BY <1>7, <3>2
    <3>4. n.table = m.table /\ n.sockets = m.sockets /\ n.open = m.open
      BY <2>3 DEF Reaps
    <3>5. NamesAlike(m, n)
      BY <1>5, <1>7, <3>3, <3>4 DEF NamesAlike
    <3> QED  BY <1>3, <3>5, NamesStay
  <2> QED  BY <2>1, <2>2, <2>3
<1>9. Still(n)
  BY <1>3, <1>5 DEF Deep, Still, Reaps, Heard
<1>10. ASSUME m.backend = "catnap" PROVE StreamsOf(n) /\ (OnePush => WiresOf(n))
  <2>1. Descriptors(m) /\ StreamsOf(m) /\ Once(m.kernel) /\ OwnQueue(m) /\ Logs(m) /\ Queues(m) /\ KernelOK(m.kernel)
    BY <1>1, <1>3, <1>10 DEF Deep, Names, StreamsOf, Rest
  <2>2. /\ \A q \in m.open : /\ q \in QDs /\ m.sockets[q] \in Fds /\ SockOf(m, q) \in Socks
        /\ \A p, q \in m.open : SockOf(m, p) = SockOf(m, q) => p = q
    BY <1>1, <2>1, OwnSocket
  <2>3. CASE Gained(m, k)
    <3> DEFINE q == NewOf(m, k)
               f == FdOf(m, k)
    <3>1. k \in Got(m) /\ k \in Accepting(m) /\ q \in QDs /\ f \in Fds /\ ~Popped(m, k)
      BY <1>1, <1>4, <1>10, <2>3 DEF Gained, Got, Accepting, Popped
    <3>2. n.open = m.open \cup {q} /\ n.sockets = [m.sockets EXCEPT ![q] = f] /\ n.log = m.log
      BY <1>10, <2>3, <3>1 DEF Reaps, Heard
    <3>3. q \notin m.open /\ m.sockets[q] = NoFd /\ f \in InUse(m) /\ \A p \in m.open : m.sockets[p] # f
      BY <2>1, <3>1 DEF Descriptors, Queues
    <3> HIDE DEF q, f
    <3>4. m.kernel.file[f] \in Socks /\ m.kernel.file[f] # NoSock
      BY <2>1, <3>1, <3>3 DEF InUse, KernelOK
    <3>5. \A p \in QDs : Logged(m, p) => LogSock(m, p) # m.kernel.file[f]
      BY <2>1, <3>1, <3>3 DEF Logs
    <3>6. \A p \in m.open : m.kernel.file[m.sockets[p]] # m.kernel.file[f]
      BY <2>1, <2>2, <3>1, <3>3, <3>4 DEF Once
    <3>7. \A s \in Socks : Read(n, s) = Read(m, s)
      BY <1>5 DEF Read
    <3>8. StreamsOf(n)
      <4>1. Once(n.kernel) /\ n.kernel.file[f] \in Socks
        BY <1>5, <2>1, <3>4
      <4>2. /\ \A p \in QDs : Logged(m, p) => LogSock(m, p) # n.kernel.file[f]
            /\ \A p \in m.open : m.kernel.file[m.sockets[p]] # n.kernel.file[f]
            /\ \A g \in Fds : g # f => n.kernel.file[g] = m.kernel.file[g]
        BY <1>5, <3>5, <3>6
      <4>3. \A s \in Socks : /\ Read(n, s) = Read(m, s)
                             /\ ~Unmade(m.kernel, s) => ~Unmade(n.kernel, s)
                             /\ Queued(n.kernel, s) => Queued(m.kernel, s)
        BY <1>5, <3>7
      <4>4. Slots(n) \subseteq Slots(m) /\ \A j \in Slots(m) \ Slots(n) : ~Popped(m, j)
        BY <1>6, <3>1
      <4> QED  BY <1>1, <1>6, <2>1, <3>1, <3>2, <3>3, <4>1, <4>2, <4>3, <4>4, StreamsEntered
    <3>9. ASSUME OnePush PROVE WiresOf(n)
      <4>1. WiresOf(m) /\ \A s \in Socks : WireOf(n, s) = WireOf(m, s)
        BY <1>3, <1>5, <1>10, <3>9 DEF Deep, WireOf
      <4>2. \A p \in m.open : SockOf(n, p) = SockOf(m, p)
        BY <1>1, <1>5, <2>2, <3>2, <3>3 DEF SockOf, Rest
      <4>3. \A j \in Slots(n) : Pushing(n, j) =>
              /\ j \in Slots(m) /\ Pushing(m, j) /\ Op(n, j).id = Op(m, j).id
              /\ SockOf(n, Op(n, j).qd) = SockOf(m, Op(m, j).qd) /\ SockOf(m, Op(m, j).qd) \in Socks
        BY <1>6, <2>1, <2>2, <4>2 DEF Pushing, OwnQueue
      <4> QED  BY <1>5, <4>1, <4>3, WiresStay
    <3> QED  BY <3>8, <3>9
  <2>4. CASE ~Gained(m, k)
    <3>1. n.open = m.open /\ n.sockets = m.sockets
      BY <2>4 DEF Reaps
    <3>2. StreamsOf(n)
      <4>1. CASE Popped(m, k)
        <5>1. n.log = [m.log EXCEPT ![Op(m, k).qd] = Append(@, Op(m, k).done.value)]
          BY <1>10, <4>1 DEF Reaps, Heard
        <5> QED  BY <1>1, <1>2, <1>4, <1>5, <2>1, <3>1, <4>1, <5>1, StreamsPopped
      <4>2. CASE ~Popped(m, k)
        <5>1. n.log = m.log
          BY <4>2 DEF Reaps, Heard
        <5>2. \A j \in Slots(n) : SameOp(Op(n, j), Op(m, j)) /\ (Popped(n, j) <=> Popped(m, j))
                                  /\ Op(n, j).done.value = Op(m, j).done.value
          BY <1>6 DEF SameOp, Popped
        <5>3. StreamsAlike(m, n)
          BY <1>5, <1>6, <2>1, <3>1, <4>2, <5>1, <5>2 DEF StreamsAlike, Read
        <5> QED  BY <1>1, <2>1, <5>3, StreamsStay
      <4> QED  BY <4>1, <4>2
    <3>3. ASSUME OnePush PROVE WiresOf(n)
      <4>1. WiresOf(m) /\ \A s \in Socks : WireOf(n, s) = WireOf(m, s)
        BY <1>3, <1>5, <1>10, <3>3 DEF Deep, WireOf
      <4>2. \A p \in m.open : SockOf(n, p) = SockOf(m, p)
        BY <1>5, <3>1 DEF SockOf
      <4>3. \A j \in Slots(n) : Pushing(n, j) =>
              /\ j \in Slots(m) /\ Pushing(m, j) /\ Op(n, j).id = Op(m, j).id
              /\ SockOf(n, Op(n, j).qd) = SockOf(m, Op(m, j).qd) /\ SockOf(m, Op(m, j).qd) \in Socks
        BY <1>6, <2>1, <2>2, <4>2 DEF Pushing, OwnQueue
      <4> QED  BY <1>5, <4>1, <4>3, WiresStay
    <3> QED  BY <3>2, <3>3
  <2> QED  BY <2>3, <2>4
<1> QED  BY <1>3, <1>5, <1>8, <1>9, <1>10 DEF Deep

-----------------------------------------------------------------------------
(* A pass over the tokens of a wait. *)

Seen(a, b, c, d, e, f) == [sched |-> a, table |-> b, sockets |-> c, token |-> d, open |-> e, log |-> f]
Seens(a, b, c, d, e, f) == [sched : {a}, table : {b}, sockets : {c}, token : {d}, open : {e}, log : {f}]
Formed(st) == st = Seen(st.sched, st.table, st.sockets, st.token, st.open, st.log)
Amid(st, kk) == [backend |-> backend, program |-> program, sched |-> st.sched, table |-> st.table,
                 sockets |-> st.sockets, kernel |-> kk, issued |-> issued, token |-> st.token,
                 open |-> st.open, log |-> st.log]

LEMMA SeenIs ==
  ASSUME NEW a, NEW b, NEW c, NEW d, NEW e, NEW f
  PROVE  /\ \A x \in Seens(a, b, c, d, e, f) : x = Seen(a, b, c, d, e, f)
         /\ LET x == Seen(a, b, c, d, e, f) IN
            /\ x.sched = a /\ x.table = b /\ x.sockets = c /\ x.token = d /\ x.open = e /\ x.log = f
            /\ Formed(x)
BY DEF Seen, Seens, Formed

LEMMA AmidIs ==
  ASSUME NEW st, NEW kk
  PROVE  LET m == Amid(st, kk) IN
         /\ m.backend = backend /\ m.program = program /\ m.sched = st.sched /\ m.table = st.table
         /\ m.sockets = st.sockets /\ m.kernel = kk /\ m.issued = issued /\ m.token = st.token
         /\ m.open = st.open /\ m.log = st.log /\ \A k : Op(m, k) = st.sched.slab[k]
BY DEF Amid, Op

LEMMA ReapIs ==
  ASSUME NEW st, NEW kk, NEW k, Formed(st), Whole(Amid(st, kk)), k \in st.sched.completed
  PROVE  Formed(Reap(st, k)) /\ Reaps(Amid(st, kk), Amid(Reap(st, k), kk), k)
<1> DEFINE m == Amid(st, kk)
           op == st.sched.slab[k]
           taken == [st EXCEPT !.sched = Take(@, k)]
           next == IF backend = "catnap" THEN TakeResult(taken, op) ELSE TakeOperation(taken, op)
           s2 == Take(st.sched, k)
           tab == IF Lost(m, k) THEN FreeQd(st.table, NewOf(m, k)) ELSE st.table
           soc == IF backend = "catnap" /\ Gained(m, k)
                  THEN [st.sockets EXCEPT ![NewOf(m, k)] = FdOf(m, k)] ELSE st.sockets
           tok == [st.token EXCEPT ![op.id] = NoKey]
           ope == IF Gained(m, k) THEN st.open \cup {NewOf(m, k)} ELSE st.open
           lg == IF Heard(m, k) THEN [st.log EXCEPT ![op.qd] = Append(@, op.done.value)] ELSE st.log
           res == Reap(st, k)
           n == Amid(res, kk)
<1>1. /\ m.sched = st.sched /\ Op(m, k) = op /\ Core(m) /\ k \in Slots(m) /\ m.token = st.token
      /\ m.table = st.table /\ m.sockets = st.sockets /\ m.open = st.open /\ m.log = st.log
      /\ m.backend = backend /\ m.kernel = kk /\ k \in m.sched.completed
      /\ m.issued = issued /\ m.program = program
  BY AmidIs DEF Whole, Core, Tokens
<1> HIDE DEF m
<1>2. /\ op.newqd # NoKey <=> op.kind = "accept"
      /\ op.done.is \in {"ok", "failed"} /\ op.qd \in QDs /\ op.done \in Results
  BY <1>1, SlotIs DEF OpOK, Results
<1>3. /\ Gained(m, k) <=> GivesQd(op) /\ op.done.is = "ok"
      /\ Lost(m, k) <=> GivesQd(op) /\ op.done.is = "failed"
      /\ Heard(m, k) <=> op.kind = "pop" /\ op.done.is = "ok" /\ backend = "catnap"
      /\ NewOf(m, k) = op.newqd /\ FdOf(m, k) = op.done.value
  BY <1>1, <1>2 DEF Gained, Lost, Heard, Popped, GivesQd, NewOf, FdOf
<1>4. taken = Seen(s2, st.table, st.sockets, st.token, st.open, st.log)
  <2>1. taken \in Seens(s2, st.table, st.sockets, st.token, st.open, st.log)
    BY DEF Formed, Seen, Seens
  <2> QED  BY <2>1, SeenIs
<1> HIDE DEF taken, s2, op
<1>5. next = Seen(s2, tab, soc, st.token, st.open, st.log)
  <2>1. next \in Seens(s2, tab, soc, st.token, st.open, st.log)
    <3>1. CASE Gained(m, k)
      <4>1. next = IF backend = "catnap" THEN [taken EXCEPT !.sockets[op.newqd] = op.done.value] ELSE taken
        BY <1>3, <3>1 DEF TakeResult, TakeOperation
      <4>2. tab = st.table
        BY <1>3, <3>1
      <4> QED  BY <1>3, <1>4, <3>1, <4>1, <4>2 DEF Seen, Seens
    <3>2. CASE Lost(m, k)
      <4>1. next = [taken EXCEPT !.table = FreeQd(@, op.newqd)]
        BY <1>3, <3>2 DEF TakeResult, TakeOperation
      <4>2. soc = st.sockets /\ tab = FreeQd(st.table, op.newqd)
        BY <1>3, <3>2
      <4> QED  BY <1>4, <4>1, <4>2 DEF Seen, Seens
    <3>3. CASE ~Gained(m, k) /\ ~Lost(m, k)
      <4>1. next = taken
        BY <1>2, <1>3, <3>3 DEF TakeResult, TakeOperation
      <4>2. soc = st.sockets /\ tab = st.table
        BY <3>3
      <4> QED  BY <1>4, <4>1, <4>2 DEF Seen, Seens
    <3> QED  BY <3>1, <3>2, <3>3
  <2> HIDE DEF next, tab, soc
  <2> QED  BY <2>1, SeenIs
<1>6. res = PackResult(next, op)
  BY DEF Reap, taken, op
<1> HIDE DEF next, tab, soc
<1>7. res = Seen(s2, tab, soc, tok, ope, lg)
  <2> DEFINE lg2 == [st.log EXCEPT ![op.qd] = IF op.kind = "pop" /\ op.done.is = "ok" /\ backend = "catnap"
                                              THEN Append(@, op.done.value) ELSE @]
             ope2 == IF op.kind = "accept" /\ op.done.is = "ok" THEN st.open \cup {op.newqd} ELSE st.open
  <2>1. res \in Seens(s2, tab, soc, tok, ope2, lg2)
    <3> HIDE DEF res
    <3> QED  BY <1>5, <1>6 DEF PackResult, Seen, Seens
  <2>2. ope2 = ope
    BY <1>2, <1>3 DEF GivesQd
  <2>3. lg2 = lg
    <3>1. st.log \in [QDs -> Seq(ReadsOf)]
      BY <1>1 DEF Core, Rest
    <3>2. CASE Heard(m, k)
      BY <1>3, <3>2
    <3>3. CASE ~Heard(m, k)
      <4>1. lg2 = [st.log EXCEPT ![op.qd] = @]
        BY <1>3, <3>3
      <4> QED  BY <3>1, <3>3, <4>1
    <3> QED  BY <3>2, <3>3
  <2> HIDE DEF res, lg, lg2, ope, ope2, tok
  <2> QED  BY <2>1, <2>2, <2>3, SeenIs
<1> HIDE DEF res, tok, ope, lg
<1>8. /\ res.sched = s2 /\ res.table = tab /\ res.sockets = soc /\ res.token = tok
      /\ res.open = ope /\ res.log = lg /\ Formed(res)
  BY <1>7, SeenIs
<1>9. /\ n.sched = s2 /\ n.table = tab /\ n.sockets = soc /\ n.token = tok
      /\ n.open = ope /\ n.log = lg /\ n.kernel = kk /\ n.backend = backend
      /\ n.issued = issued /\ n.program = program
  BY <1>8, AmidIs
<1> HIDE DEF n
<1>10. Reaps(m, n, k)
  BY <1>1, <1>9 DEF Reaps, Leaves, s2, tab, soc, tok, ope, lg, op
<1> QED  BY <1>8, <1>10 DEF m, n, res

Distinct(ids) == \A i, j \in DOMAIN ids : ids[i] = ids[j] => i = j

(* The first n tokens have been looked at. *)
At(r, kk, ids, n) ==
  /\ r = [st |-> r.st, found |-> r.found] /\ r.found \in Nat
  /\ Formed(r.st) /\ Whole(Amid(r.st, kk)) /\ Awake(Amid(r.st, kk), {})
  /\ \A j \in (n + 1)..Len(ids) : r.st.token[ids[j]] = token[ids[j]]
  /\ r.found = 0 => r.st.token = token

Look(r, id) ==
  LET k == token[id]
  IN  IF k \in r.st.sched.completed
      THEN [st |-> Reap(r.st, k), found |-> r.found + 1]
      ELSE [r EXCEPT !.st.sched = GiveBack(@, k)]

LEMMA LookIs ==
  ASSUME NEW r, NEW kk, NEW ids \in Seq(Ids), Distinct(ids), NEW n \in Nat, n + 1 <= Len(ids),
         At(r, kk, ids, n)
  PROVE  At(Look(r, ids[n + 1]), kk, ids, n + 1)
<1> DEFINE id == ids[n + 1]
           k == token[id]
           m == Amid(r.st, kk)
<1>1. Len(ids) \in Nat /\ DOMAIN ids = 1..Len(ids)
  OBVIOUS
<1>2. n + 1 \in DOMAIN ids /\ id \in Ids
  BY <1>1
<1>3. r.st.token[id] = k
  <2>1. n + 1 \in (n + 1)..Len(ids)
    BY <1>1
  <2> QED  BY <2>1 DEF At
<1>4. \A j \in ((n + 1) + 1)..Len(ids) : ids[j] # id /\ j \in (n + 1)..Len(ids) /\ ids[j] \in Ids
  <2>1. \A j \in ((n + 1) + 1)..Len(ids) : j \in DOMAIN ids /\ j # n + 1 /\ j \in (n + 1)..Len(ids)
    BY <1>1
  <2>2. \A j \in DOMAIN ids : ids[j] \in Ids
    BY <1>1
  <2> QED  BY <1>2, <2>1, <2>2 DEF Distinct
<1> HIDE DEF id, k, m
<1>5. CASE k \in r.st.sched.completed
  <2> DEFINE res == Reap(r.st, k)
             r2 == [st |-> res, found |-> r.found + 1]
  <2>1. Look(r, id) = r2
    BY <1>5 DEF Look, k
  <2>2. Whole(m) /\ Awake(m, {}) /\ Formed(res) /\ Reaps(m, Amid(res, kk), k)
    BY <1>5, ReapIs DEF At, m
  <2>3. m.sched = r.st.sched /\ m.token = r.st.token /\ Amid(res, kk).token = res.token
    BY AmidIs DEF m
  <2>4. Core(m) /\ k \in Slots(m)
    BY <1>5, <2>2, <2>3 DEF Whole, Core, Tokens
  <2>5. k \in Keys /\ Op(m, k).id = id
    <3>1. k \in Keys /\ k # NoKey
      BY <2>4, SlotIs, Bounds
    <3> QED  BY <1>2, <1>3, <2>3, <2>4, <3>1 DEF Core, Tokens
  <2> HIDE DEF res
  <2>6. res.token = [r.st.token EXCEPT ![id] = NoKey]
    BY <2>2, <2>3, <2>5 DEF Reaps, Leaves
  <2>7. Whole(Amid(res, kk)) /\ Awake(Amid(res, kk), {})
    BY <2>2, WholeReaped
  <2>8. r.st.token \in [Ids -> Keys \cup {NoKey}]
    BY <2>3, <2>4 DEF Core, Rest
  <2>9. \A j \in ((n + 1) + 1)..Len(ids) : res.token[ids[j]] = token[ids[j]]
    BY <1>4, <2>6, <2>8 DEF At
  <2>10. r2.st = res /\ r2.found = r.found + 1 /\ r2 = [st |-> r2.st, found |-> r2.found]
         /\ r2.found \in Nat /\ r2.found # 0
    BY DEF At
  <2> HIDE DEF r2
  <2>11. At(r2, kk, ids, n + 1)
    BY <2>2, <2>7, <2>9, <2>10 DEF At
  <2> QED  BY <2>1, <2>11 DEF id
<1>6. CASE k \notin r.st.sched.completed
  <2>1. Look(r, id) = [r EXCEPT !.st.sched = GiveBack(@, k)]
    BY <1>6 DEF Look, k
  <2> DEFINE st2 == [r.st EXCEPT !.sched = GiveBack(@, k)]
  <2>2. st2 = r.st
    <3>1. st2 \in Seens(r.st.sched, r.st.table, r.st.sockets, r.st.token, r.st.open, r.st.log)
      BY DEF At, Formed, Seen, Seens, GiveBack
    <3> HIDE DEF st2
    <3>2. st2 = Seen(r.st.sched, r.st.table, r.st.sockets, r.st.token, r.st.open, r.st.log)
      BY <3>1, SeenIs
    <3> QED  BY <3>2 DEF At, Formed
  <2>3. Look(r, id) = [r EXCEPT !.st = st2]
    BY <2>1
  <2> HIDE DEF st2
  <2>4. Look(r, id) = r
    BY <2>2, <2>3 DEF At
  <2>5. At(r, kk, ids, n + 1)
    BY <1>4 DEF At
  <2> QED  BY <2>4, <2>5 DEF id
<1> QED  BY <1>5, <1>6

LEMMA PassIs ==
  ASSUME NEW polled, Passing(polled, {}), NEW ids \in Seq(Ids), Distinct(ids), NEW room
  PROVE  LET r == Pass(polled, ids, room) IN
         /\ Whole(Amid(r.st, polled.kernel)) /\ Awake(Amid(r.st, polled.kernel), {})
         /\ r.found = 0 => r.st.token = token
<1> DEFINE base == [st |-> After(polled), found |-> 0]
           K == Len(ids)
           F(n, x) == IF x.found = room THEN x ELSE Look(x, ids[n])
           Is(f, m) == f = [n \in 0..m |-> IF n = 0 THEN base ELSE F(n, f[n-1])]
           f == CHOOSE g : Is(g, K)
           Good(n, x) == At(x, polled.kernel, ids, n)
<1>0. K \in Nat
  OBVIOUS
<1>1. Pass(polled, ids, room) = f[K]
  BY Zenon DEF Pass, Look
<1>2. Good(0, base)
  <2>1. After(polled) = Seen(polled.sched, table, sockets, token, open, log)
    BY DEF After, Seen
  <2>2. Amid(After(polled), polled.kernel) = With(polled)
    BY DEF After, Amid, With
  <2>3. Formed(After(polled)) /\ After(polled).token = token
    BY <2>1, SeenIs
  <2> HIDE DEF K
  <2> QED  BY <2>2, <2>3 DEF Passing, At
<1> HIDE DEF base, Good
<1>3. ASSUME NEW n \in Nat, n + 1 <= K, NEW x, Good(n, x) PROVE Good(n + 1, F(n + 1, x))
  <2>1. CASE x.found = room
    <3>1. \A j \in ((n + 1) + 1)..Len(ids) : j \in (n + 1)..Len(ids)
      BY <1>0
    <3>2. F(n + 1, x) = x
      BY <2>1
    <3> HIDE DEF F
    <3> QED  BY <1>3, <3>1, <3>2 DEF Good, At
  <2>2. CASE x.found # room
    <3>1. F(n + 1, x) = Look(x, ids[n + 1])
      BY <2>2
    <3> HIDE DEF F
    <3> QED  BY <1>3, <3>1, LookIs DEF Good
  <2> QED  BY <2>1, <2>2
<1> HIDE DEF F, K
<1>4. ASSUME NEW g, NEW m \in Nat, Is(g, m)
      PROVE  /\ g[0] = base /\ \A n \in 1..m : g[n] = F(n, g[n - 1])
             /\ g = [n \in 0..m |-> g[n]]
  <2>1. 0 \in 0..m /\ \A n \in 1..m : n \in 0..m /\ n # 0
    BY <1>4
  <2>2. \A n \in 0..m : g[n] = IF n = 0 THEN base ELSE F(n, g[n - 1])
    BY <1>4
  <2>3. g = [n \in 0..m |-> g[n]]
    BY <1>4
  <2>4. g[0] = base
    BY <2>1, <2>2
  <2>5. \A n \in 1..m : g[n] = F(n, g[n - 1])
    BY <2>1, <2>2
  <2> QED  BY <2>3, <2>4, <2>5
<1>5. \E g : Is(g, K)
  <2> DEFINE S == {m \in Nat : \E g : Is(g, m)}
  <2>1. 0 \in S
    <3>1. Is([n \in 0..0 |-> base], 0)
      OBVIOUS
    <3> QED  BY <3>1
  <2>2. ASSUME NEW m \in Nat, m \in S PROVE m + 1 \in S
    <3>1. PICK g : Is(g, m)
      BY <2>2
    <3> DEFINE last == F(m + 1, g[m])
               h == [n \in 0..(m + 1) |-> IF n = m + 1 THEN last ELSE g[n]]
    <3>2. g[0] = base /\ \A n \in 1..m : g[n] = F(n, g[n - 1])
      BY <1>4, <3>1
    <3>3. h[0] = base /\ h[m + 1] = F(m + 1, h[m])
      BY <3>2
    <3>4. ASSUME NEW n \in 1..m PROVE h[n] = F(n, h[n - 1])
      <4>1. n \in 0..(m + 1) /\ n - 1 \in 0..(m + 1) /\ n # m + 1 /\ n - 1 # m + 1
        OBVIOUS
      <4>2. h[n] = g[n] /\ h[n - 1] = g[n - 1]
        BY <4>1
      <4> HIDE DEF h
      <4> QED  BY <3>2, <4>2
    <3>5. h = [n \in 0..(m + 1) |-> h[n]]
      OBVIOUS
    <3> HIDE DEF h
    <3>6. \A n \in 0..(m + 1) : h[n] = IF n = 0 THEN base ELSE F(n, h[n - 1])
      <4>1. \A n \in 0..(m + 1) : n = 0 \/ (n # 0 /\ (n \in 1..m \/ (n = m + 1 /\ n - 1 = m)))
        OBVIOUS
      <4> QED  BY <3>3, <3>4, <4>1
    <3>7. Is(h, m + 1)
      BY <3>5, <3>6
    <3> QED  BY <3>7
  <2> HIDE DEF S
  <2>3. Nat \subseteq S
    BY <2>1, <2>2, Induction
  <2> QED  BY <1>0, <2>3 DEF S
<1>6. Is(f, K)
  BY <1>5
<1> HIDE DEF f, Is
<1>7. f[0] = base /\ \A n \in 1..K : f[n] = F(n, f[n - 1])
  BY <1>0, <1>4, <1>6
<1>8. Good(K, f[K])
  <2> DEFINE S == {n \in Nat : n <= K => Good(n, f[n])}
  <2>1. 0 \in S
    BY <1>2, <1>7
  <2>2. ASSUME NEW n \in Nat, n \in S PROVE n + 1 \in S
    <3> SUFFICES ASSUME n + 1 <= K PROVE Good(n + 1, f[n + 1])
      OBVIOUS
    <3>1. n + 1 \in 1..K /\ (n + 1) - 1 = n /\ n <= K
      BY <1>0
    <3>2. Good(n, f[n]) /\ f[n + 1] = F(n + 1, f[n])
      BY <1>7, <2>2, <3>1
    <3> QED  BY <1>3, <3>2
  <2> HIDE DEF S
  <2>3. Nat \subseteq S
    BY <2>1, <2>2, Induction
  <2> QED  BY <1>0, <2>3 DEF S
<1> QED  BY <1>1, <1>8 DEF Good, At

-----------------------------------------------------------------------------
(* The steps. *)

LEMMA ThereIs ==
  LET n == Here' IN
  /\ n.backend = backend' /\ n.program = program' /\ n.sched = sched' /\ n.table = table'
  /\ n.sockets = sockets' /\ n.kernel = kernel' /\ n.issued = issued' /\ n.token = token'
  /\ n.open = open' /\ n.log = log' /\ \A k : Op(n, k) = sched'.slab[k]
BY DEF Here, Op

(* Neither the scheduler nor the application's tokens change. *)
Idles == UNCHANGED <<backend, program, sched, issued, token>>

LEMMA IdlesIs ==
  ASSUME Whole(Here), Idles, Rest(Here')
  PROVE  /\ Core(Here') /\ Unchanged(Here, Here') /\ (Awake(Here, {}) => Awake(Here', {}))
         /\ Here'.backend = Here.backend /\ Here'.issued = Here.issued
         /\ Slots(Here') = Slots(Here) /\ \A k \in Slots(Here) : Op(Here', k) = Op(Here, k)
         /\ Accepting(Here') = Accepting(Here) /\ Got(Here') = Got(Here)
         /\ \A k \in Accepting(Here) : NewOf(Here', k) = NewOf(Here, k)
         /\ \A k \in Got(Here) : FdOf(Here', k) = FdOf(Here, k)
<1> DEFINE m == Here
           n == Here'
<1>1. Core(m)
  BY DEF Whole
<1>2. Aside(m, n)
  BY HereIs, ThereIs DEF Aside, Idles
<1> HIDE DEF m, n
<1>3. Core(n) /\ Unchanged(m, n) /\ (Awake(m, {}) => Awake(n, {}))
  BY <1>1, <1>2, AsideCore DEF m, n
<1>4. Slots(n) = Slots(m) /\ \A k \in Slots(m) : Op(n, k) = Op(m, k)
  BY <1>3 DEF Unchanged
<1>5. Accepting(n) = Accepting(m)
  BY <1>4 DEF Accepting
<1>6. Got(n) = Got(m)
  BY <1>4, <1>5 DEF Got, Accepting
<1>7. /\ \A k \in Accepting(m) : NewOf(n, k) = NewOf(m, k)
      /\ \A k \in Got(m) : FdOf(n, k) = FdOf(m, k)
  BY <1>4 DEF Got, Accepting, NewOf, FdOf
<1> QED  BY <1>2, <1>3, <1>4, <1>5, <1>6, <1>7 DEF m, n, Aside

(* The kernel does something that is nobody's result. *)
LEMMA KernelStep ==
  ASSUME Whole(Here), backend = "catnap", Idles, UNCHANGED <<table, sockets, open, log>>,
         Quiet(kernel, kernel') \/ Connected(kernel, kernel')
  PROVE  Whole(Here') /\ (Awake(Here, {}) => Awake(Here', {}))
<1>1. Others(Here, Here') /\ Here.kernel = kernel /\ Here'.kernel = kernel' /\ Here.backend = "catnap"
  BY HereIs, ThereIs DEF Others, Idles
<1>2. KernelOK(kernel')
  BY DEF Quiet, Connected
<1>3. Rest(Here')
  BY <1>1, <1>2, OthersRest DEF Whole, Core
<1>4. Core(Here') /\ Unchanged(Here, Here') /\ (Awake(Here, {}) => Awake(Here', {}))
  BY <1>3, IdlesIs
<1>5. StillOps(Here, Here')
  BY <1>4, UnchangedOps
<1> QED  BY <1>1, <1>4, <1>5, WholeStays

LEMMA BindStep ==
  ASSUME Whole(Here), backend = "catnap", NEW q \in QDs, Bind(q) \/ Listen(q)
  PROVE  Whole(Here') /\ (Awake(Here, {}) => Awake(Here', {}))
<1>1. CASE UNCHANGED vars
  <2>1. Here' = Here
    BY <1>1 DEF vars, Here
  <2> QED  BY <2>1
<1>2. CASE ~UNCHANGED vars
  <2> DEFINE f == sockets[q]
             s == kernel.file[f]
  <2>1. KernelOK(kernel) /\ f \in Fds \cup {NoFd}
    BY HereIs DEF Whole, Core, Rest
  <2>2. /\ f # NoFd /\ StateOf(kernel, f) \in {"new", "bound"}
        /\ kernel' = SysBind(kernel, f) \/ kernel' = SysListen(kernel, f)
        /\ Idles /\ UNCHANGED <<table, sockets, open, log>>
    BY <1>2 DEF Bind, Listen, Idles
  <2> HIDE DEF f
  <2>3. s \in Socks /\ ~Unmade(kernel, s)
    BY <2>1, <2>2 DEF KernelOK, StateOf, Unmade
  <2>4. kernel' = SetState(kernel, s, "bound") \/ kernel' = SetState(kernel, s, "listening")
    BY <2>2 DEF SysBind, SysListen, Named
  <2>5. "bound" \in SocketStates /\ "listening" \in SocketStates
    BY DEF SocketStates
  <2> HIDE DEF s
  <2>6. Quiet(kernel, kernel')
    BY <2>1, <2>3, <2>4, <2>5, SetStateIs
  <2> QED  BY <2>2, <2>6, KernelStep
<1> QED  BY <1>1, <1>2

LEMMA RemoteStep ==
  ASSUME Whole(Here), Remote
  PROVE  Whole(Here') /\ (Awake(Here, {}) => Awake(Here', {}))
<1>1. KernelOK(kernel)
  BY HereIs DEF Whole, Core, Rest
<1>2. backend = "catnap" /\ Idles /\ UNCHANGED <<table, sockets, open, log>>
      /\ kernel' \in Connects(kernel) \cup Answers(kernel) \cup Sends(kernel, MaxSent)
                     \cup Reads(kernel) \cup Ends(kernel)
  BY DEF Remote, Idles
<1>3. Quiet(kernel, kernel') \/ Connected(kernel, kernel')
  BY <1>1, <1>2, RemoteIs
<1> QED  BY <1>2, <1>3, KernelStep

(* A wait polls and looks at its tokens. *)
LEMMA TryStep ==
  ASSUME Whole(Here), Awake(Here, {}), NEW ids \in Seq(Ids), Distinct(ids), NEW room, NEW expires,
         Try(ids, room, expires)
  PROVE  Whole(Here') /\ Awake(Here', {}) /\ (call' = NoCall \/ call' = call)
<1>1. PICK polled \in Polls :
        /\ Becomes(Pass(polled, ids, room).st) /\ kernel' = polled.kernel
        /\ call' = NoCall \/ call' = call
  BY DEF Try
<1> DEFINE r == Pass(polled, ids, room)
<1>2. Passing(polled, {})
  BY PollsAre
<1>3. Whole(Amid(r.st, polled.kernel)) /\ Awake(Amid(r.st, polled.kernel), {})
  BY <1>2, PassIs
<1> HIDE DEF r
<1>4. Here' = Amid(r.st, polled.kernel)
  BY <1>1 DEF Here, Amid, Becomes, r
<1> QED  BY <1>1, <1>3, <1>4

(* A call schedules an operation on a queue. *)
Starts(kind, q, nq) ==
  /\ AppUses(q) /\ issued < MaxOps /\ kind \in program /\ Free(kind, q) /\ Known(q) /\ HasRoom(sched)
  /\ Schedule(Operation(kind, q, nq)) /\ UNCHANGED <<backend, program, sockets, kernel, open, log>>

LEMMA StartStep ==
  ASSUME Whole(Here), NEW kind, NEW q \in QDs, NEW nq \in QDs \cup {NoKey}, Starts(kind, q, nq),
         nq # NoKey <=> kind = "accept", TableOK(table')
  PROVE  LET op == Operation(kind, q, nq)
             k == NextKey(sched) IN
         /\ Core(Here') /\ Added(Here, Here', op, k) /\ (Awake(Here, {}) => Awake(Here', {}))
         /\ Careful /\ backend = "catnap" /\ Deep(Here) => StreamsOf(Here') /\ (OnePush => WiresOf(Here'))
<1> DEFINE m == Here
           n == Here'
           op == Operation(kind, q, nq)
           k == NextKey(sched)
<1>1. Core(m) /\ Rest(m) /\ backend \in Backends /\ program \in Programs
  BY HereIs DEF Whole, Core, Rest
<1>2. /\ sockets \in [QDs -> Fds \cup {NoFd}] /\ issued \in 0..MaxOps
      /\ token \in [Ids -> Keys \cup {NoKey}] /\ kernel = m.kernel /\ table' = n.table
  BY <1>1, HereIs, ThereIs DEF Rest
<1>3. kind \in Kinds
  BY <1>1, LibOSAssumption DEF Starts
<1>4. issued + 1 \in Ids /\ issued \in Nat /\ issued + 1 \in 0..MaxOps
  BY <1>2, Bounds DEF Starts, Ids
<1>5. op = [id |-> issued + 1, kind |-> kind, qd |-> q, fd |-> sockets[q], newqd |-> nq,
            len |-> PushLen, done |-> Pending]
  BY DEF Operation
<1>6. Pending \in Results /\ Pending.is = "pending"
  BY Bounds DEF Pending, Results, Values
<1>7. op \in Operations
  BY <1>2, <1>3, <1>4, <1>5, <1>6 DEF Operations
<1>8. /\ op.id = issued + 1 /\ op.kind = kind /\ op.qd = q /\ op.fd = sockets[q] /\ op.newqd = nq
      /\ op.done.is = "pending"
  BY <1>5, <1>6
<1>9. backend = "catnap" => op.fd \in Fds
  BY <1>2, <1>8 DEF Starts, Known
<1> HIDE DEF op
<1>10. sched' = Insert(sched, op) /\ issued' = issued + 1 /\ token' = [token EXCEPT ![op.id] = NextKey(sched)]
  BY DEF Starts, Schedule, op
<1>11. /\ m.backend = backend /\ m.program = program /\ m.sched = sched /\ m.sockets = sockets
       /\ m.issued = issued /\ m.token = token /\ m.open = open /\ m.log = log
       /\ n.backend = backend /\ n.program = program /\ n.sched = sched' /\ n.sockets = sockets
       /\ n.issued = issued + 1 /\ n.token = token' /\ n.open = open /\ n.log = log /\ n.kernel = kernel
  BY <1>10, HereIs, ThereIs DEF Starts
<1> HIDE DEF m, n
<1>12. NextKey(sched) \in Keys
  BY DEF Starts, HasRoom
<1>13. Rest(n)
  BY <1>1, <1>2, <1>4, <1>8, <1>10, <1>11, <1>12 DEF Rest
<1>14. Issues(m, n, op)
  BY <1>3, <1>7, <1>8, <1>9, <1>10, <1>11 DEF Issues, Starts
<1>15. Core(n) /\ Added(m, n, op, k) /\ (Awake(m, {}) => Awake(n, {}))
  BY <1>1, <1>11, <1>13, <1>14, IssueCore
<1>16. ASSUME Careful, backend = "catnap", Deep(m) PROVE StreamsOf(n) /\ (OnePush => WiresOf(n))
  <2>1. StreamsOf(m) /\ Descriptors(m) /\ Once(m.kernel)
    BY <1>11, <1>16 DEF Deep, Names, StreamsOf
  <2>2. op.qd \in m.open
    BY <1>8, <1>11, <1>16 DEF Starts, AppUses
  <2>3. ASSUME NEW j \in Slots(m), Op(m, j).qd = op.qd PROVE Op(m, j).kind # op.kind
    <3>1. Op(m, j).id \in Ids /\ token[Op(m, j).id] = j /\ j \in Keys /\ j # NoKey
      BY <1>1, <1>11, SlotIs, Bounds DEF OpOK
    <3>2. Op(m, j).id \in Outstanding /\ OpOf(Op(m, j).id) = Op(m, j)
      BY <1>11, <3>1 DEF Outstanding, OpOf, Op
    <3> QED  BY <1>8, <1>16, <2>3, <3>2 DEF Starts, Free
  <2>4. StreamsOf(n)
    BY <1>2, <1>8, <1>11, <1>15, <2>1, <2>2, <2>3, StreamsIssued
  <2>5. ASSUME OnePush PROVE WiresOf(n)
    <3>1. SockOf(m, op.qd) \in Socks
      BY <1>1, <2>1, <2>2, OwnSocket
    <3>2. WiresOf(m) /\ KernelOK(m.kernel) /\ m.issued \in Nat
      BY <1>1, <1>4, <1>11, <1>16, <2>5 DEF Deep, Rest
    <3> QED  BY <1>2, <1>8, <1>11, <1>15, <3>1, <3>2, WiresIssued
  <2> QED  BY <2>4, <2>5
<1> QED  BY <1>15, <1>16 DEF m, n, op

LEMMA IssueStep ==
  ASSUME Whole(Here), NEW kind \in {"connect", "push", "pushto", "pop"}, NEW q \in QDs, Issue(kind, q)
  PROVE  Whole(Here') /\ (Awake(Here, {}) => Awake(Here', {}))
<1>1. CASE UNCHANGED vars
  <2>1. Here' = Here
    BY <1>1 DEF vars, Here
  <2> QED  BY <2>1
<1>2. CASE ~UNCHANGED vars
  <2> DEFINE m == Here
             n == Here'
             op == Operation(kind, q, NoKey)
             k == NextKey(sched)
  <2>1. Starts(kind, q, NoKey) /\ UNCHANGED <<table, call>>
    BY <1>2 DEF Issue, Starts
  <2>2. TableOK(table')
    BY <2>1, HereIs DEF Whole, Core, Rest
  <2>3. /\ Core(n) /\ Added(m, n, op, k) /\ (Awake(m, {}) => Awake(n, {}))
        /\ Careful /\ backend = "catnap" /\ Deep(m) => StreamsOf(n) /\ (OnePush => WiresOf(n))
    BY <2>1, <2>2, StartStep
  <2>4. /\ m.backend = backend /\ n.backend = backend /\ n.table = m.table /\ n.sockets = m.sockets
        /\ n.kernel = m.kernel /\ n.open = m.open /\ n.log = m.log
    BY <2>1, HereIs, ThereIs DEF Starts
  <2>5. op.kind # "accept" /\ op.kind = kind
    BY DEF Operation
  <2> HIDE DEF m, n, op, k
  <2>6. ASSUME Careful PROVE Deep(n)
    <3>1. Deep(m) /\ Names(m)
      BY <2>6 DEF Whole, Deep, m
    <3>2. Accepting(n) = Accepting(m) /\ \A j \in Accepting(m) : NewOf(n, j) = NewOf(m, j)
      BY <2>3, <2>5 DEF Added, Accepting, NewOf
    <3>3. Got(n) = Got(m) /\ \A j \in Got(m) : FdOf(n, j) = FdOf(m, j)
      BY <2>3, <3>2 DEF Added, Got, Accepting, FdOf
    <3>4. NamesAlike(m, n)
      BY <2>4, <3>2, <3>3 DEF NamesAlike, InUse
    <3>5. Names(n)
      BY <3>1, <3>4, NamesStay
    <3>6. Still(n)
      BY <2>4, <3>1 DEF Deep, Still
    <3> QED  BY <2>3, <2>4, <2>6, <3>1, <3>5, <3>6 DEF Deep
  <2> QED  BY <2>3, <2>6 DEF Whole, m, n
<1> QED  BY <1>1, <1>2

(* Without room the entry of an accept is given back. *)
LEMMA AcceptStep ==
  ASSUME Whole(Here), NEW q \in QDs, AppUses(q), issued < MaxOps, table.vacant # <<>>, "accept" \in program,
         Free("accept", q), Known(q), Accept(q)
  PROVE  Whole(Here') /\ (Awake(Here, {}) => Awake(Here', {}))
<1> DEFINE m == Here
           n == Here'
           nq == NewQd(table)
           op == Operation("accept", q, nq)
           k == NextKey(sched)
<1>1. Rest(m) /\ TableOK(table) /\ table = m.table /\ Core(m)
  BY HereIs DEF Whole, Core, Rest
<1>2. /\ m.backend = backend /\ n.backend = backend /\ n.sockets = m.sockets
      /\ n.kernel = m.kernel /\ n.open = m.open /\ n.log = m.log /\ n.table = table'
      /\ m.issued = issued /\ n.issued = issued' /\ n.program = m.program /\ n.token = token' /\ m.token = token
  BY HereIs, ThereIs DEF Accept
<1>3. CASE HasRoom(sched)
  <2>1. nq \in QDs /\ nq \notin table.used /\ TableOK(AllocQd(table)) /\ AllocQd(table).used = table.used \cup {nq}
    BY <1>1, AllocIs
  <2>2. table' = AllocQd(table) /\ Starts("accept", q, nq)
    BY <1>3 DEF Accept, Starts
  <2>3. nq # NoKey
    BY <2>1, Bounds
  <2> HIDE DEF nq
  <2>4. /\ Core(n) /\ Added(m, n, op, k) /\ (Awake(m, {}) => Awake(n, {}))
        /\ Careful /\ backend = "catnap" /\ Deep(m) => StreamsOf(n) /\ (OnePush => WiresOf(n))
    BY <2>1, <2>2, <2>3, StartStep
  <2>5. op.kind = "accept" /\ op.newqd = nq /\ op.done.is = "pending"
    BY DEF Operation, Pending
  <2> HIDE DEF m, n, op, k
  <2>6. ASSUME Careful PROVE Deep(n)
    <3>1. Deep(m) /\ Names(m)
      BY <2>6 DEF Whole, Deep, m
    <3>2. /\ k \notin Accepting(m) /\ Accepting(n) = Accepting(m) \cup {k} /\ NewOf(n, k) = nq
          /\ \A j \in Accepting(m) : NewOf(n, j) = NewOf(m, j)
      BY <2>4, <2>5 DEF Added, Accepting, NewOf
    <3>3. Got(n) = Got(m) /\ \A j \in Got(m) : FdOf(n, j) = FdOf(m, j)
      BY <2>4, <2>5, <3>2 DEF Added, Got, Accepting, FdOf
    <3>4. InUse(n) = InUse(m)
      BY <1>2 DEF InUse
    <3>5. n.table.used = m.table.used \cup {nq} /\ nq \notin m.table.used
      BY <1>1, <1>2, <2>1, <2>2
    <3>6. Names(n)
      BY <1>1, <1>2, <2>1, <3>1, <3>2, <3>3, <3>4, <3>5, NamesHeld
    <3>7. Still(n)
      BY <1>2, <3>1 DEF Deep, Still
    <3> QED  BY <1>2, <2>4, <2>6, <3>1, <3>6, <3>7 DEF Deep
  <2> QED  BY <2>4, <2>6 DEF Whole, m, n
<1>4. CASE ~HasRoom(sched)
  <2>1. table' = FreeQd(AllocQd(table), nq) /\ Idles
    BY <1>4 DEF Accept, Idles
  <2>2. TableOK(table') /\ table'.used = table.used
    BY <1>1, <2>1, AllocFreeIs
  <2>3. issued' = issued /\ token' = token
    BY <2>1 DEF Idles
  <2>4. Rest(n)
    <3> HIDE DEF m, n
    <3> QED  BY <1>1, <1>2, <2>2, <2>3 DEF Rest
  <2>5. /\ Core(n) /\ Unchanged(m, n) /\ (Awake(m, {}) => Awake(n, {}))
        /\ Slots(n) = Slots(m) /\ \A j \in Slots(m) : Op(n, j) = Op(m, j)
        /\ Accepting(n) = Accepting(m) /\ Got(n) = Got(m)
        /\ \A j \in Accepting(m) : NewOf(n, j) = NewOf(m, j)
        /\ \A j \in Got(m) : FdOf(n, j) = FdOf(m, j)
    BY <2>1, <2>4, IdlesIs
  <2> HIDE DEF m, n, nq
  <2>6. ASSUME Careful PROVE Deep(n)
    <3>1. Deep(m) /\ Names(m)
      BY <2>6 DEF Whole, Deep, m
    <3>2. NamesAlike(m, n)
      BY <1>1, <1>2, <2>2, <2>5 DEF NamesAlike, InUse
    <3>3. Names(n)
      BY <3>1, <3>2, NamesStay
    <3>4. Still(n)
      BY <1>2, <3>1 DEF Deep, Still
    <3>5. ASSUME m.backend = "catnap" PROVE StreamsOf(n) /\ (OnePush => WiresOf(n))
      <4>1. StreamsOf(m) /\ Descriptors(m) /\ Once(m.kernel) /\ OwnQueue(m)
        BY <3>1, <3>5 DEF Deep, Names, StreamsOf
      <4>2. StreamsAlike(m, n)
        BY <1>2, <2>5, <4>1 DEF StreamsAlike, Read, SameOp, Popped
      <4>3. StreamsOf(n)
        BY <1>1, <4>1, <4>2, StreamsStay
      <4>4. ASSUME OnePush PROVE WiresOf(n)
        <5>1. WiresOf(m) /\ n.issued = m.issued /\ \A s \in Socks : WireOf(n, s) = WireOf(m, s)
          BY <1>2, <2>3, <3>1, <3>5, <4>4 DEF Deep, WireOf
        <5>2. \A p \in m.open : SockOf(n, p) = SockOf(m, p) /\ SockOf(m, p) \in Socks
          BY <1>1, <1>2, <4>1, OwnSocket DEF SockOf
        <5>3. \A j \in Slots(n) : Pushing(n, j) =>
                /\ j \in Slots(m) /\ Pushing(m, j) /\ Op(n, j).id = Op(m, j).id
                /\ SockOf(n, Op(n, j).qd) = SockOf(m, Op(m, j).qd) /\ SockOf(m, Op(m, j).qd) \in Socks
          BY <2>5, <4>1, <5>2 DEF Pushing, OwnQueue
        <5> QED  BY <5>1, <5>3, WiresStay
      <4> QED  BY <4>3, <4>4
    <3> QED  BY <1>2, <3>3, <3>4, <3>5 DEF Deep
  <2> QED  BY <2>5, <2>6 DEF Whole, m, n
<1> QED  BY <1>3, <1>4

(* A queue is opened. *)
LEMMA SocketStep ==
  ASSUME Whole(Here), NEW domain, NEW typ, table.vacant # <<>>, CanSocket(domain, typ),
         Socket(typ), open' = open \cup {NewQd(table)}
  PROVE  Whole(Here') /\ (Awake(Here, {}) => Awake(Here', {}))
<1> DEFINE m == Here
           n == Here'
           q == NewQd(table)
           f == Least(FreeFds(kernel))
<1>1. /\ Rest(m) /\ TableOK(table) /\ table = m.table /\ Core(m) /\ KernelOK(kernel) /\ kernel = m.kernel
      /\ m.backend = backend /\ m.sockets = sockets /\ m.open = open /\ m.issued = issued
  BY HereIs DEF Whole, Core, Rest
<1>2. q \in QDs /\ q \notin table.used /\ TableOK(AllocQd(table)) /\ AllocQd(table).used = table.used \cup {q}
  BY <1>1, AllocIs
<1>3. Idles /\ table' = AllocQd(table) /\ open' = open \cup {q} /\ log' = log
  BY DEF Socket, Idles
<1>4. /\ n.backend = m.backend /\ n.program = m.program /\ n.issued = m.issued /\ n.token = m.token
      /\ n.table = AllocQd(table) /\ n.open = m.open \cup {q} /\ n.log = m.log
      /\ n.sockets = sockets' /\ n.kernel = kernel'
  BY <1>3, HereIs, ThereIs DEF Idles
<1>5. backend # "catnap" => n.sockets = m.sockets /\ n.kernel = m.kernel
  BY <1>1, <1>4 DEF Socket
<1>6. backend = "catnap" => Made(m.kernel, n.kernel, f) /\ n.sockets = [m.sockets EXCEPT ![q] = f]
  <2>1. ASSUME backend = "catnap" PROVE Made(kernel, SysSocket(kernel, typ), f)
    BY <1>1, <2>1, SysSocketIs DEF CanSocket
  <2> QED  BY <1>1, <1>4, <2>1 DEF Socket
<1> HIDE DEF m, n, q, f
<1>7. Rest(n)
  <2>1. KernelOK(n.kernel)
    BY <1>1, <1>5, <1>6 DEF Made
  <2>2. n.sockets \in [QDs -> Fds \cup {NoFd}]
    BY <1>1, <1>2, <1>5, <1>6 DEF Made, Rest
  <2> QED  BY <1>1, <1>2, <1>4, <2>1, <2>2 DEF Rest
<1>8. /\ Core(n) /\ Unchanged(m, n) /\ (Awake(m, {}) => Awake(n, {}))
      /\ Slots(n) = Slots(m) /\ \A j \in Slots(m) : Op(n, j) = Op(m, j)
      /\ Accepting(n) = Accepting(m) /\ Got(n) = Got(m)
      /\ \A j \in Accepting(m) : NewOf(n, j) = NewOf(m, j)
      /\ \A j \in Got(m) : FdOf(n, j) = FdOf(m, j)
  BY <1>3, <1>7, IdlesIs DEF m, n
<1>9. ASSUME Careful PROVE Deep(n)
  <2>1. Deep(m) /\ Names(m)
    BY <1>9 DEF Whole, Deep, m
  <2>2. ASSUME m.backend = "catnap"
        PROVE  /\ f \in Fds /\ f \notin InUse(m) /\ InUse(n) = InUse(m) \cup {f}
               /\ n.sockets = [m.sockets EXCEPT ![q] = f]
    <3>1. Made(m.kernel, n.kernel, f)
      BY <1>1, <1>6, <2>2
    <3>2. PICK t \in Socks : n.kernel.file = [m.kernel.file EXCEPT ![f] = t]
      BY <3>1 DEF Made
    <3>3. m.kernel.file \in [Fds -> Socks \cup {NoSock}] /\ t # NoSock
      BY <1>1, Bounds DEF KernelOK
    <3> QED  BY <1>1, <1>6, <2>2, <3>1, <3>2, <3>3 DEF Made, InUse
  <2>3. Names(n)
    <3>1. n.table.used = m.table.used \cup {q} /\ q \notin m.table.used
      BY <1>1, <1>2, <1>4
    <3>2. m.backend = "catnap" =>
            /\ Got(n) = Got(m) /\ \A j \in Got(m) : FdOf(n, j) = FdOf(m, j)
            /\ \E g \in Fds : g \notin InUse(m) /\ InUse(n) = InUse(m) \cup {g}
                              /\ n.sockets = [m.sockets EXCEPT ![q] = g]
      BY <1>8, <2>2
    <3> QED  BY <1>1, <1>2, <1>4, <1>8, <2>1, <3>1, <3>2, NamesOpened
  <2>4. Still(n)
    BY <1>1, <1>4, <1>5, <2>1 DEF Deep, Still
  <2>5. ASSUME m.backend = "catnap" PROVE StreamsOf(n) /\ (OnePush => WiresOf(n))
    <3>1. StreamsOf(m) /\ Descriptors(m) /\ Once(m.kernel) /\ OwnQueue(m) /\ Logs(m) /\ Queues(m)
      BY <2>1, <2>5 DEF Deep, Names, StreamsOf
    <3>2. Made(m.kernel, n.kernel, f) /\ f \in Fds /\ f \notin InUse(m) /\ n.sockets = [m.sockets EXCEPT ![q] = f]
      BY <1>1, <1>6, <2>2, <2>5
    <3>3. /\ Once(n.kernel) /\ n.kernel.file[f] \in Socks /\ Unmade(m.kernel, n.kernel.file[f])
          /\ \A g \in Fds : g # f => n.kernel.file[g] = m.kernel.file[g]
          /\ \A s \in Socks : Queued(n.kernel, s) <=> Queued(m.kernel, s)
          /\ \A s \in Socks : ~Unmade(m.kernel, s) => ~Unmade(n.kernel, s)
      BY <1>1, <3>1, <3>2, OnceMade
    <3>4. /\ \A p \in m.open : /\ p \in QDs /\ m.sockets[p] \in Fds /\ SockOf(m, p) \in Socks
                               /\ ~Unmade(m.kernel, SockOf(m, p))
      BY <1>1, <3>1, OwnSocket
    <3>5. q \notin m.open /\ m.sockets[q] = NoFd
      BY <1>1, <1>2, <3>1 DEF Queues, Descriptors
    <3>6. \A p \in m.open : m.sockets[p] # f
      BY <3>1, <3>2 DEF Descriptors
    <3>7. \A p \in m.open : m.kernel.file[m.sockets[p]] # n.kernel.file[f]
      BY <3>3, <3>4 DEF SockOf
    <3>8. \A p \in QDs : Logged(m, p) => LogSock(m, p) # n.kernel.file[f]
      BY <3>1, <3>3 DEF Logs
    <3>9. \A s \in Socks : Read(n, s) = Read(m, s) /\ WireOf(n, s) = WireOf(m, s)
      BY <3>2 DEF Made, SameRead, SameWire, Read, WireOf
    <3>10. StreamsOf(n)
      <4>1. \A s \in Socks : /\ Read(n, s) = Read(m, s)
                             /\ ~Unmade(m.kernel, s) => ~Unmade(n.kernel, s)
                             /\ Queued(n.kernel, s) => Queued(m.kernel, s)
        BY <3>3, <3>9
      <4>2. Slots(n) \subseteq Slots(m) /\ \A j \in Slots(m) \ Slots(n) : ~Popped(m, j)
        BY <1>8
      <4>3. \A j \in Slots(n) : Op(n, j) = Op(m, j)
        BY <1>8
      <4> QED  BY <1>1, <1>2, <1>4, <3>1, <3>2, <3>3, <3>5, <3>6, <3>7, <3>8, <4>1, <4>2, <4>3, StreamsEntered
    <3>11. ASSUME OnePush PROVE WiresOf(n)
      <4>1. WiresOf(m) /\ n.issued = m.issued
        BY <1>4, <2>1, <2>5, <3>11 DEF Deep
      <4>2. \A p \in m.open : SockOf(n, p) = SockOf(m, p)
        <5>1. \A p \in m.open : n.sockets[p] = m.sockets[p]
          BY <1>1, <3>2, <3>4, <3>5 DEF Rest
        <5> QED  BY <3>3, <3>4, <3>6, <5>1 DEF SockOf
      <4>3. \A j \in Slots(n) : Pushing(n, j) =>
              /\ j \in Slots(m) /\ Pushing(m, j) /\ Op(n, j).id = Op(m, j).id
              /\ SockOf(n, Op(n, j).qd) = SockOf(m, Op(m, j).qd) /\ SockOf(m, Op(m, j).qd) \in Socks
        BY <1>8, <3>1, <3>4, <4>2 DEF Pushing, OwnQueue
      <4> QED  BY <3>9, <4>1, <4>3, WiresStay
    <3> QED  BY <3>10, <3>11
  <2> QED  BY <1>4, <2>3, <2>4, <2>5 DEF Deep
<1> QED  BY <1>8, <1>9 DEF Whole, m, n

(* A queue is closed. *)
LEMMA CloseStep ==
  ASSUME Whole(Here), NEW q \in QDs, demi_close(q)
  PROVE  Whole(Here') /\ (Awake(Here, {}) => Awake(Here', {}))
<1>1. CASE UNCHANGED vars
  <2>1. Here' = Here
    BY <1>1 DEF vars, Here
  <2> QED  BY <2>1
<1>2. CASE ~UNCHANGED vars
  <2> DEFINE m == Here
             n == Here'
             f == sockets[q]
  <2>1. /\ Idles /\ UNCHANGED <<table, sockets, log>> /\ kernel' = SysClose(kernel, f) /\ open' = open \ {q}
        /\ f # NoFd /\ AppUses(q) /\ backend = "catnap"
        /\ Careful => \A id \in Outstanding : OpOf(id).qd # q
    BY <1>2 DEF demi_close, Close, Idles
  <2>2. /\ Rest(m) /\ Core(m) /\ KernelOK(m.kernel) /\ kernel = m.kernel /\ m.backend = "catnap"
        /\ m.sockets = sockets /\ m.open = open /\ f \in Fds /\ m.token = token /\ m.sched = sched
    BY <2>1, HereIs DEF Whole, Core, Rest
  <2>3. /\ n.backend = m.backend /\ n.program = m.program /\ n.issued = m.issued /\ n.token = m.token
        /\ n.table = m.table /\ n.open = m.open \ {q} /\ n.log = m.log
        /\ n.sockets = m.sockets /\ n.kernel = SysClose(m.kernel, f) /\ f = m.sockets[q]
    BY <2>1, <2>2, HereIs, ThereIs DEF Idles
  <2> HIDE DEF m, n, f
  <2>4. /\ KernelOK(n.kernel) /\ n.kernel.sock = m.kernel.sock
        /\ \A g \in Fds : n.kernel.file[g] = IF g = f THEN NoSock ELSE m.kernel.file[g]
    BY <2>2, <2>3 DEF KernelOK, SysClose
  <2>5. Rest(n)
    BY <2>2, <2>3, <2>4 DEF Rest
  <2>6. /\ Core(n) /\ Unchanged(m, n) /\ (Awake(m, {}) => Awake(n, {}))
        /\ Slots(n) = Slots(m) /\ \A j \in Slots(m) : Op(n, j) = Op(m, j)
        /\ Accepting(n) = Accepting(m) /\ Got(n) = Got(m)
        /\ \A j \in Accepting(m) : NewOf(n, j) = NewOf(m, j)
        /\ \A j \in Got(m) : FdOf(n, j) = FdOf(m, j)
    BY <2>1, <2>5, IdlesIs DEF m, n
  <2>7. ASSUME Careful PROVE Deep(n)
    <3>1. Deep(m) /\ Names(m) /\ StreamsOf(m) /\ Descriptors(m) /\ Once(m.kernel) /\ OwnQueue(m)
      BY <2>2, <2>7 DEF Whole, Deep, m, Names, StreamsOf
    <3>2. q \in m.open
      BY <2>1, <2>2, <2>7 DEF AppUses
    <3>3. \A j \in Slots(m) : Op(m, j).qd # q
      <4> SUFFICES ASSUME NEW j \in Slots(m) PROVE Op(m, j).qd # q
        OBVIOUS
      <4>1. Op(m, j).id \in Ids /\ token[Op(m, j).id] = j /\ j \in Keys /\ j # NoKey
        BY <2>2, SlotIs, Bounds DEF OpOK
      <4>2. Op(m, j).id \in Outstanding /\ OpOf(Op(m, j).id) = Op(m, j)
        BY <2>2, <4>1 DEF Outstanding, OpOf, Op
      <4> QED  BY <2>1, <2>7, <4>2
    <3>4. InUse(n) = InUse(m) \ {m.sockets[q]}
      BY <2>3, <2>4 DEF InUse
    <3>5. Names(n)
      BY <2>2, <2>3, <2>6, <3>1, <3>2, <3>4, NamesClosed
    <3>6. StreamsOf(n)
      <4>1. n.kernel = SysClose(m.kernel, m.sockets[q])
        BY <2>3
      <4>2. \A j \in Slots(m) : Op(n, j) = Op(m, j) /\ Op(m, j).qd # q
        BY <2>6, <3>3
      <4> QED  BY <2>2, <2>3, <2>6, <3>1, <3>2, <4>1, <4>2, StreamsClosed
    <3>7. ASSUME OnePush PROVE WiresOf(n)
      <4>1. WiresOf(m) /\ n.issued = m.issued /\ \A s \in Socks : WireOf(n, s) = WireOf(m, s)
        BY <2>2, <2>3, <2>4, <3>1, <3>7 DEF Deep, WireOf
      <4>2. \A p \in m.open : m.sockets[p] \in Fds /\ SockOf(m, p) \in Socks
        BY <2>2, <3>1, OwnSocket
      <4>3. \A p \in m.open : p # q => m.sockets[p] # f
        BY <2>3, <3>1, <3>2 DEF Descriptors
      <4>4. \A p \in m.open : p # q => SockOf(n, p) = SockOf(m, p)
        BY <2>3, <2>4, <4>2, <4>3 DEF SockOf
      <4>5. \A j \in Slots(n) : Pushing(n, j) =>
              /\ j \in Slots(m) /\ Pushing(m, j) /\ Op(n, j).id = Op(m, j).id
              /\ SockOf(n, Op(n, j).qd) = SockOf(m, Op(m, j).qd) /\ SockOf(m, Op(m, j).qd) \in Socks
        BY <2>6, <3>1, <3>3, <4>2, <4>4 DEF Pushing, OwnQueue
      <4> QED  BY <4>1, <4>5, WiresStay
    <3> QED  BY <2>2, <2>3, <3>5, <3>6, <3>7 DEF Deep, Still
  <2> QED  BY <2>6, <2>7 DEF Whole, m, n
<1> QED  BY <1>1, <1>2

-----------------------------------------------------------------------------
(* The invariant.  A wait has tokens, each once. *)

Calls == call.ids \in Seq(Ids) /\ Distinct(call.ids)

IInv == Whole(Here) /\ Awake(Here, {}) /\ Calls

LEMMA EmptyIs ==
  /\ KernelOK(EmptyKernel) /\ Once(EmptyKernel)
  /\ \A s \in Socks : EmptyKernel.sock[s].read = 0 /\ EmptyKernel.sock[s].wire = <<>>
  /\ \A f \in Fds : EmptyKernel.file[f] = NoSock
  /\ TableOK(EmptyTable) /\ EmptyTable.used = {}
  /\ SchedOK(EmptyScheduler) /\ Occupied(EmptyScheduler) = {} /\ EmptyScheduler.completed = {}
<1>1. Unused \in SockRecs /\ Unused.read = 0 /\ Unused.sent = 0 /\ Unused.wire = <<>> /\ Unused.queue = <<>>
  BY Bounds DEF Unused, SockRecs, SocketStates
<1> HIDE DEF Unused
<1>2. KernelOK(EmptyKernel)
  BY <1>1 DEF EmptyKernel, KernelOK
<1>3. /\ \A s \in Socks : EmptyKernel.sock[s] = Unused
      /\ \A f \in Fds : EmptyKernel.file[f] = NoSock
  BY DEF EmptyKernel
<1> HIDE DEF EmptyKernel
<1>4. Once(EmptyKernel)
  <2>1. \A l, i, s : l \in Socks => ~Stands(EmptyKernel, l, i, s)
    BY <1>1, <1>3 DEF Stands
  <2>2. \A s : ~Queued(EmptyKernel, s)
    BY <2>1 DEF Queued
  <2> QED  BY <1>3, <2>1, <2>2 DEF Once
<1>5. TableOK(EmptyTable) /\ EmptyTable.used = {}
  <2> DEFINE v == [i \in 1..MaxQds |-> i - 1]
  <2>1. v \in Seq(QDs) /\ DOMAIN v = 1..MaxQds /\ \A i \in DOMAIN v : v[i] = i - 1
    <3>1. v \in [1..MaxQds -> QDs]
      BY Bounds DEF QDs
    <3> QED  BY <3>1, Bounds
  <2>2. EmptyTable = [used |-> {}, vacant |-> v]
    BY DEF EmptyTable
  <2> HIDE DEF v
  <2>3. \A i, j \in DOMAIN v : v[i] = v[j] => i = j
    BY <2>1, Bounds
  <2> QED  BY <2>1, <2>2, <2>3 DEF TableOK
<1>6. SchedOK(EmptyScheduler) /\ Occupied(EmptyScheduler) = {} /\ EmptyScheduler.completed = {}
  <2>1. /\ EmptyScheduler.slab = [k \in Keys |-> NoTask] /\ EmptyScheduler.vacant = <<>>
        /\ EmptyScheduler.fresh = 0 /\ EmptyScheduler.notified = {}
        /\ EmptyScheduler.completed = {} /\ EmptyScheduler.dropped = {}
    BY DEF EmptyScheduler
  <2>2. Shaped(EmptyScheduler, Operations)
    BY Bounds DEF EmptyScheduler, Shaped
  <2>3. \A k \in Keys : EmptyScheduler.slab[k] = NoTask /\ ~(k < 0)
    BY <2>1, Bounds
  <2> HIDE DEF EmptyScheduler
  <2>4. VacantOf(EmptyScheduler)
    BY <2>1, <2>3 DEF VacantOf
  <2>5. SlotsOK(EmptyScheduler)
    BY <2>1, <2>3, <2>4 DEF SlotsOK
  <2> QED  BY <2>1, <2>2, <2>3, <2>5 DEF SchedOK, Occupied
<1> QED  BY <1>1, <1>2, <1>3, <1>4, <1>5, <1>6

LEMMA InitIInv ==
  ASSUME Init PROVE IInv
<1> DEFINE m == Here
<1>1. /\ m.backend = backend /\ m.program = program /\ m.sched = EmptyScheduler /\ m.table = EmptyTable
      /\ m.sockets = [q \in QDs |-> NoFd] /\ m.kernel = EmptyKernel /\ m.issued = 0
      /\ m.token = [id \in Ids |-> NoKey] /\ m.open = {} /\ m.log = [q \in QDs |-> <<>>]
      /\ backend \in Backends /\ program \in Programs
  BY HereIs DEF Init
<1> HIDE DEF m
<1>2. Slots(m) = {} /\ m.table.used = {} /\ \A q \in QDs : m.log[q] = <<>> /\ m.sockets[q] = NoFd
  BY <1>1, EmptyIs DEF Slots
<1>3. Rest(m)
  BY <1>1, EmptyIs, Bounds DEF Rest
<1>4. Core(m) /\ Awake(m, {})
  <2>1. Tokens(m)
    BY <1>1, <1>2, EmptyIs DEF Tokens
  <2> QED  BY <1>1, <1>2, <1>3, <2>1, EmptyIs DEF Core, Awake
<1>5. Deep(m)
  <2>1. Accepting(m) = {} /\ Got(m) = {} /\ InUse(m) = {}
    BY <1>1, <1>2, EmptyIs DEF Accepting, Got, InUse
  <2>2. Names(m)
    BY <1>1, <1>2, <2>1 DEF Names, Queues, Descriptors, InetQueues
  <2>3. StreamsOf(m)
    <3>1. Logs(m) /\ InOrder(m)
      BY <1>2 DEF Logs, InOrder, Logged
    <3>2. Positions(m)
      BY <1>1, <1>2, EmptyIs DEF Positions, Logged, Read
    <3> QED  BY <1>1, <1>2, <3>1, <3>2, EmptyIs DEF StreamsOf, OwnQueue
  <2>4. WiresOf(m)
    BY <1>1, <1>2, EmptyIs DEF WiresOf, WireOf
  <2> QED  BY <1>1, <1>2, <2>2, <2>3, <2>4 DEF Deep, Still
<1>6. Calls
  BY DEF Init, Calls, NoCall, Distinct
<1> QED  BY <1>4, <1>5, <1>6 DEF IInv, Whole, m

LEMMA StepIInv ==
  ASSUME IInv, [Next]_vars PROVE IInv'
<1>1. Whole(Here) /\ Awake(Here, {}) /\ Calls
  BY DEF IInv
<1> DEFINE Goes == Whole(Here') /\ Awake(Here', {})
<1> SUFFICES Goes /\ Calls'
  <2>1. ASSUME Goes PROVE Whole(Here)' /\ Awake(Here, {})'
    BY <2>1
  <2> QED  BY <2>1 DEF IInv
<1>2. ASSUME UNCHANGED <<backend, program, sched, table, sockets, kernel, issued, token, open, log>>
      PROVE  Goes
  <2>1. Here' = Here
    BY <1>2 DEF Here
  <2> QED  BY <1>1, <2>1
<1>3. ASSUME UNCHANGED vars PROVE Goes /\ Calls'
  BY <1>1, <1>2, <1>3 DEF vars, Calls
<1>4. ASSUME NEW kind \in {"connect", "push", "pushto", "pop"}, NEW q \in QDs, Issue(kind, q)
      PROVE  Goes /\ Calls'
  <2>1. call' = call
    BY <1>4 DEF Issue, vars
  <2> QED  BY <1>1, <1>4, <2>1, IssueStep DEF Calls
<1>5. CASE IssueCalls
  <2>1. PICK q \in QDs :
          \/ demi_accept(q) \/ demi_pop(q)
          \/ \E a \in Saddrs : demi_connect(q, a)
          \/ \E g \in Sgas : demi_push(q, g)
          \/ \E g \in Sgas, a \in Saddrs : demi_pushto(q, g, a)
    BY <1>5 DEF IssueCalls
  <2>2. CASE demi_accept(q)
    <3>1. CASE Known(q)
      <4>1. Accept(q) /\ call' = call
        BY <2>2, <3>1 DEF demi_accept, Accept
      <4> QED  BY <1>1, <2>2, <3>1, <4>1, AcceptStep DEF demi_accept, Calls
    <3>2. CASE ~Known(q)
      BY <1>3, <2>2, <3>2 DEF demi_accept
    <3> QED  BY <3>1, <3>2
  <2>3. CASE demi_pop(q)
    BY <1>4, <2>3 DEF demi_pop
  <2>4. CASE \E a \in Saddrs : demi_connect(q, a)
    <3>1. Issue("connect", q) \/ UNCHANGED vars
      BY <2>4 DEF demi_connect
    <3> QED  BY <1>3, <1>4, <3>1
  <2>5. CASE \E g \in Sgas : demi_push(q, g)
    <3>1. Issue("push", q) \/ UNCHANGED vars
      BY <2>5 DEF demi_push
    <3> QED  BY <1>3, <1>4, <3>1
  <2>6. CASE \E g \in Sgas, a \in Saddrs : demi_pushto(q, g, a)
    <3>1. Issue("pushto", q) \/ UNCHANGED vars
      BY <2>6 DEF demi_pushto
    <3> QED  BY <1>3, <1>4, <3>1
  <2> QED  BY <2>1, <2>2, <2>3, <2>4, <2>5, <2>6
<1>6. CASE OtherCalls
  <2>1. CASE \E domain \in {"inet", "inet6"}, typ \in {"stream", "dgram", "raw"} : demi_socket(domain, typ)
    <3>1. PICK domain \in {"inet", "inet6"}, typ \in {"stream", "dgram", "raw"} : demi_socket(domain, typ)
      BY <2>1
    <3>2. CASE CanSocket(domain, typ)
      <4>1. Socket(typ) /\ open' = open \cup {NewQd(table)} /\ table.vacant # <<>>
        BY <3>1, <3>2 DEF demi_socket
      <4>2. call' = call
        BY <4>1 DEF Socket
      <4> QED  BY <1>1, <3>2, <4>1, <4>2, SocketStep DEF Calls
    <3>3. CASE ~CanSocket(domain, typ)
      BY <1>3, <3>1, <3>3 DEF demi_socket
    <3> QED  BY <3>2, <3>3
  <2>2. CASE \E q \in QDs : \E a \in Saddrs : demi_bind(q, a)
    <3>1. PICK q \in QDs : UNCHANGED vars \/ (backend = "catnap" /\ Bind(q))
      BY <2>2 DEF demi_bind, Binds
    <3>2. ASSUME Bind(q) PROVE call' = call
      BY <3>2 DEF Bind, vars
    <3> QED  BY <1>1, <1>3, <3>1, <3>2, BindStep DEF Calls
  <2>3. CASE \E q \in QDs : \E backlog \in 0..1 : demi_listen(q, backlog)
    <3>1. PICK q \in QDs : UNCHANGED vars \/ (backend = "catnap" /\ Listen(q))
      BY <2>3 DEF demi_listen, Binds
    <3>2. ASSUME Listen(q) PROVE call' = call
      BY <3>2 DEF Listen, vars
    <3> QED  BY <1>1, <1>3, <3>1, <3>2, BindStep DEF Calls
  <2>4. CASE \E q \in QDs : demi_close(q)
    <3>1. PICK q \in QDs : demi_close(q)
      BY <2>4
    <3>2. call' = call
      BY <3>1 DEF demi_close, Close, vars
    <3> QED  BY <1>1, <3>1, <3>2, CloseStep DEF Calls
  <2> QED  BY <1>6, <2>1, <2>2, <2>3, <2>4 DEF OtherCalls
<1>7. CASE WaitCalls
  <2>1. ASSUME NEW kind, NEW ids \in Seq(Ids), Distinct(ids), NEW room, Enter(kind, ids, room)
        PROVE  Goes /\ Calls'
    <3>1. call'.ids = ids
      BY <2>1 DEF Enter
    <3>2. UNCHANGED <<backend, program, sched, table, sockets, kernel, issued, token, open, log>>
      BY <2>1 DEF Enter
    <3> QED  BY <1>2, <2>1, <3>1, <3>2 DEF Calls
  <2>2. ASSUME NEW kind, NEW id \in Ids, Enter(kind, <<id>>, 1) PROVE Goes /\ Calls'
    <3>1. <<id>> \in Seq(Ids) /\ Distinct(<<id>>)
      BY DEF Distinct
    <3> QED  BY <2>1, <2>2, <3>1
  <2>3. ASSUME NEW kind, NEW id1 \in Ids, NEW id2 \in Ids, NEW room, EnterAny(kind, id1, id2, room)
        PROVE  Goes /\ Calls'
    <3>1. id1 # id2 /\ Enter(kind, <<id1, id2>>, room)
      BY <2>3 DEF EnterAny
    <3>2. <<id1, id2>> \in Seq(Ids) /\ Distinct(<<id1, id2>>)
      BY <3>1 DEF Distinct
    <3> QED  BY <2>1, <3>1, <3>2
  <2>4. CASE \E id \in Ids : demi_wait(id) \/ demi_timedwait(id)
    BY <2>2, <2>4 DEF demi_wait, demi_timedwait
  <2>5. CASE \E id1, id2 \in Ids, room \in 1..2 :
               \/ demi_wait_any(id1, id2, room)
               \/ EnterAny("wait_any2", id1, id2, room)
    BY <2>3, <2>5 DEF demi_wait_any
  <2>6. CASE \E id1, id2 \in Ids : \/ EnterAny("nonblocking2", id1, id2, 2)
                                   \/ EnterAny("nonblocking_one2", id1, id2, 1)
    BY <2>3, <2>6
  <2> QED  BY <1>7, <2>4, <2>5, <2>6 DEF WaitCalls
<1>8. CASE WaitLoop
  <2>1. PICK room, expires : Try(call.ids, room, expires)
    BY <1>8 DEF WaitLoop, Wait, TimedWait, WaitAny, WaitAnyC, NonblockingAll, NonblockingOne
  <2>2. call.ids \in Seq(Ids) /\ Distinct(call.ids)
    BY <1>1 DEF Calls
  <2>3. Goes /\ (call' = NoCall \/ call' = call)
    BY <1>1, <2>1, <2>2, TryStep
  <2>4. call'.ids = <<>> \/ call'.ids = call.ids
    BY <2>3 DEF NoCall
  <2>5. <<>> \in Seq(Ids) /\ Distinct(<<>>)
    BY DEF Distinct
  <2>6. Calls'
    <3>1. call'.ids \in Seq(Ids) /\ Distinct(call'.ids)
      BY <2>2, <2>4, <2>5
    <3> QED  BY <3>1 DEF Calls
  <2> QED  BY <2>3, <2>6
<1>9. CASE Remote
  <2>1. call' = call
    BY <1>9 DEF Remote
  <2> QED  BY <1>1, <1>9, <2>1, RemoteStep DEF Calls
<1> QED  BY <1>3, <1>5, <1>6, <1>7, <1>8, <1>9 DEF Next

(* The invariant holds in every state, on both libOSes. *)
THEOREM LibOSInvariant == Spec => []IInv
<1>1. Init => IInv
  BY InitIInv
<1>2. IInv /\ [Next]_vars => IInv'
  BY StepIInv
<1> QED  BY <1>1, <1>2, PTL DEF Spec

(* Until its result has been handed out, a token names the slot that holds  *)
(* its operation, whatever waits gave up on it, and no operation is in the  *)
(* scheduler that no token names (schedule, from_raw_handle, take_key,      *)
(* try_wait_any): whatever the application does, closed queues included.    *)
THEOREM TokensAreKept == Spec => []TokensHold
<1>1. IInv => TokensHold
  BY TokensSuffice DEF IInv, Whole
<1> QED  BY <1>1, LibOSInvariant, PTL

(* An operation of catnap that is not over has woken itself, and is polled  *)
(* by the next turn of any wait (wake_by_ref of the futures,                *)
(* Scheduler::poll).                                                        *)
THEOREM NoOperationSleeps == Spec => []NoneAsleep
<1>1. IInv => NoneAsleep
  <2> SUFFICES ASSUME IInv, backend = "catnap" PROVE Unfinished \subseteq sched.notified
    BY DEF NoneAsleep
  <2> QED  BY HereIs DEF IInv, Awake, Unfinished
<1> QED  BY <1>1, LibOSInvariant, PTL

(* If the application closes no queue an operation waits on and names none  *)
(* that it closed, tokens, queue descriptors and file descriptors name what *)
(* they are for: no queue is given out twice, none is lost when an accept   *)
(* fails, and every open descriptor has one owner (accept, take_result,     *)
(* take_operation, close).                                                  *)
THEOREM NamesAreKept ==
  ASSUME Careful
  PROVE  Spec => []NamesHold
<1>1. IInv => NamesHold
  BY NamesSuffice DEF IInv, Whole, Deep
<1> QED  BY <1>1, LibOSInvariant, PTL

(* Such an application, if it does not push in two ways on one queue, pops  *)
(* what one remote end sent, from the first unit on, in order and once, no  *)
(* two queues read one socket, and pushes go out in the order they were     *)
(* issued (PopFuture, PushFuture).                                          *)
THEOREM StreamsAreKept ==
  ASSUME Careful, OnePush
  PROVE  Spec => []StreamsIntact
<1>1. IInv => StreamsIntact
  <2> SUFFICES ASSUME IInv PROVE StreamsIntact
    OBVIOUS
  <2>1. Rest(Here) /\ Deep(Here)
    BY DEF IInv, Whole, Core
  <2>2. /\ Here.log = log /\ Here.kernel = kernel /\ Here.backend = backend
        /\ log \in [QDs -> Seq(ReadsOf)] /\ KernelOK(kernel) /\ backend \in {"catnap", "catnip"}
    BY <2>1, HereIs, LibOSAssumption DEF Rest
  <2>3. CASE backend = "catnap"
    <3>1. Logs(Here) /\ InOrder(Here) /\ WiresOf(Here)
      BY <2>1, <2>2, <2>3 DEF Deep, StreamsOf
    <3>2. Streams
      <4> SUFFICES ASSUME NEW q \in QDs, NEW i \in 1..Len(log[q])
                   PROVE  /\ log[q][i][1] = log[q][1][1]
                          /\ log[q][i][2] = IF i = 1 THEN 1 ELSE log[q][i-1][3] + 1
                          /\ \A p \in QDs \ {q} : log[p] # <<>> => log[p][1][1] # log[q][1][1]
        BY DEF Streams
      <4>1. log[q] \in Seq(ReadsOf) /\ i \in DOMAIN log[q] /\ log[q] # <<>>
        BY <2>2
      <4>2. /\ log[q][i][1] = log[q][1][1]
            /\ log[q][i][2] = IF i = 1 THEN 1 ELSE log[q][i-1][3] + 1
        BY <2>2, <3>1, <4>1 DEF InOrder, LogSock
      <4>3. \A p \in QDs \ {q} : log[p] # <<>> => log[p][1][1] # log[q][1][1]
        BY <2>2, <3>1, <4>1 DEF Logs, Logged, LogSock
      <4> QED  BY <4>2, <4>3
    <3>3. Wires
      <4> SUFFICES ASSUME NEW s \in Socks, NEW i \in 1..Len(kernel.sock[s].wire),
                          NEW j \in 1..Len(kernel.sock[s].wire), i < j
                   PROVE  kernel.sock[s].wire[i] < kernel.sock[s].wire[j]
        BY DEF Wires
      <4>1. kernel.sock[s] \in SockRecs
        BY <2>2 DEF KernelOK
      <4>2. kernel.sock[s].wire \in Seq(Ids)
        BY <4>1, FieldsOf
      <4>3. i \in DOMAIN kernel.sock[s].wire /\ j \in DOMAIN kernel.sock[s].wire
        BY <4>2
      <4> QED  BY <2>2, <3>1, <4>3 DEF WiresOf, WireOf
    <3> QED  BY <3>2, <3>3 DEF StreamsIntact
  <2>4. CASE backend = "catnip"
    <3>1. kernel = EmptyKernel /\ \A q \in QDs : log[q] = <<>>
      BY <2>1, <2>2, <2>4 DEF Deep, Still
    <3>2. Streams
      BY <3>1 DEF Streams
    <3>3. Wires
      BY <3>1, EmptyIs DEF Wires
    <3> QED  BY <3>2, <3>3 DEF StreamsIntact
  <2> QED  BY <2>2, <2>3, <2>4
<1> QED  BY <1>1, LibOSInvariant, PTL
=============================================================================
