-------------------------- MODULE LoadPolicyProofs --------------------------
(***************************************************************************)
(* Proofs about the load statistics and the migration policy (LoadPolicy): *)
(* the records of the handles agree, the statistics are the true load, the *)
(* host never panics over them, and a signal of the switch moves the       *)
(* connections that bring the load down and no more.  For any number of    *)
(* connections, any bucket size, threshold and limit.                      *)
(*                                                                         *)
(* First sums over sets of connections and the folds of the model, then    *)
(* the buckets, Stats::poll turn by turn, the connections in the order in  *)
(* which they are considered, and the steps.                               *)
(***************************************************************************)
EXTENDS LoadPolicy, SequenceTheorems, FiniteSetTheorems, WellFoundedInduction, TLAPS

(* A set of numbers that is not empty has a least one.                     *)
LEMMA LeastNumber ==
  ASSUME NEW T \in SUBSET Nat, T # {}
  PROVE  \E x \in T : \A y \in T : x <= y
<1> DEFINE R == {ss \in Nat \X Nat : ss[1] < ss[2]}
<1>1. IsWellFoundedOn(R, Nat)
  BY NatLessThanWellFounded DEF OpToRel
<1>2. \A x, y \in Nat : x < y => <<x, y>> \in R
  OBVIOUS
<1> HIDE DEF R
<1>3. PICK x \in T : \A y \in T : ~(<<y, x>> \in R)
  BY <1>1, WFMin
<1>4. \A y \in T : ~(y < x)
  BY <1>2, <1>3
<1> QED  BY <1>4

(* Induction over the numbers, for a set.                                  *)
LEMMA Induction ==
  ASSUME NEW S, 0 \in S, \A n \in Nat : n \in S => n + 1 \in S
  PROVE  Nat \subseteq S
<1> SUFFICES ASSUME Nat \ S # {} PROVE FALSE
  OBVIOUS
<1>1. PICK x \in Nat \ S : \A y \in Nat \ S : x <= y
  BY LeastNumber
<1>2. x # 0 /\ x - 1 \in Nat
  BY <1>1
<1>3. x - 1 \in S
  BY <1>1, <1>2
<1> QED  BY <1>1, <1>2, <1>3

(* The greatest number of a finite set.                                    *)
LEMMA MaxIs ==
  ASSUME NEW n \in Nat, NEW s \in SUBSET (1..n), s # {}
  PROVE  /\ Max(s) \in s /\ \A y \in s : y <= Max(s)
         /\ n \in s => Max(s) = n
<1> DEFINE T == {k \in Nat : n - k \in s}
<1>1. PICK z \in s : z \in 1..n
  OBVIOUS
<1>2. n - z \in T
  BY <1>1
<1>3. PICK x \in T : \A y \in T : x <= y
  BY <1>2, LeastNumber, T \in SUBSET Nat
<1>4. n - x \in s /\ \A y \in s : n - x >= y
  <2>1. n - x \in s
    BY <1>3
  <2>2. ASSUME NEW y \in s PROVE n - x >= y
    <3>1. n - y \in Nat /\ n - (n - y) = y
      OBVIOUS
    <3>2. n - y \in T
      BY <3>1
    <3>3. x <= n - y /\ x \in Nat
      BY <1>3, <3>2
    <3> QED  BY <3>3
  <2> QED  BY <2>1, <2>2
<1>5. Max(s) \in s /\ \A y \in s : Max(s) >= y
  BY <1>4 DEF Max
<1>6. \A y \in s : y \in 1..n
  OBVIOUS
<1>7. \A y \in s : y <= Max(s)
  BY <1>5, <1>6
<1>8. ASSUME n \in s PROVE Max(s) = n
  <2>1. Max(s) >= n
    BY <1>5, <1>8
  <2>2. Max(s) \in 1..n
    BY <1>5, <1>6
  <2> QED  BY <2>1, <2>2
<1> QED  BY <1>5, <1>7, <1>8


-----------------------------------------------------------------------------
(* Sums over finite sets. *)

(* The sum of f over S: as Sum of LoadPolicy, for any f.                   *)
SumOn(f, S) == FoldFunctionOnSet(+, 0, f, S)

Picked(s) == CHOOSE x \in s : TRUE
(* The sums over all subsets of S, as the fold computes them.              *)
SumTable(g, f, S) ==
  g = [s \in SUBSET S |-> IF s = {} THEN 0 ELSE f[Picked(s)] + g[s \ {Picked(s)}]]

(* An element can be removed from a finite set that is not empty.          *)
LEMMA PickedIs ==
  ASSUME NEW s, IsFiniteSet(s), s # {}
  PROVE  /\ Picked(s) \in s
         /\ IsFiniteSet(s \ {Picked(s)})
         /\ Cardinality(s) \in Nat \ {0}
         /\ Cardinality(s \ {Picked(s)}) = Cardinality(s) - 1
<1>1. Picked(s) \in s
  BY DEF Picked
<1>2. Cardinality(s) \in Nat /\ Cardinality(s) # 0
  BY FS_CardinalityType, FS_EmptySet
<1> QED  BY <1>1, <1>2, FS_RemoveElement

(* A table of sums says what a sum is, element by element.                 *)
LEMMA SumTableIs ==
  ASSUME NEW g, NEW f, NEW S
  PROVE  SumTable(g, f, S) <=>
           /\ g = [s \in SUBSET S |-> g[s]]
           /\ g[{}] = 0
           /\ \A s \in SUBSET S : s # {} => g[s] = f[Picked(s)] + g[s \ {Picked(s)}]
<1> DEFINE body(s) == IF s = {} THEN 0 ELSE f[Picked(s)] + g[s \ {Picked(s)}]
<1>1. SumTable(g, f, S) <=> g = [s \in SUBSET S |-> body(s)]
  BY DEF SumTable
<1>2. g = [s \in SUBSET S |-> body(s)] <=>
         g = [s \in SUBSET S |-> g[s]] /\ \A s \in SUBSET S : g[s] = body(s)
  <2> HIDE DEF body
  <2> QED  OBVIOUS
<1>3. {} \in SUBSET S
  OBVIOUS
<1> QED  BY <1>1, <1>2, <1>3

(* There is a table of the sums over the subsets of a finite set.          *)
LEMMA SumTableExists ==
  ASSUME NEW S, IsFiniteSet(S), NEW f
  PROVE  \E g : SumTable(g, f, S)
<1> DEFINE Upto(n, g) ==
      /\ g = [s \in SUBSET S |-> g[s]]
      /\ g[{}] = 0
      /\ \A s \in SUBSET S : s # {} /\ Cardinality(s) <= n =>
            g[s] = f[Picked(s)] + g[s \ {Picked(s)}]
<1> DEFINE T == {n \in Nat : \E g : Upto(n, g)}
<1>0. ASSUME NEW s \in SUBSET S
      PROVE  IsFiniteSet(s) /\ Cardinality(s) \in Nat /\ Cardinality(s) <= Cardinality(S)
  BY FS_Subset, FS_CardinalityType
<1>1. 0 \in T
  <2> DEFINE g == [s \in SUBSET S |-> 0]
  <2>1. ASSUME NEW s \in SUBSET S, s # {} PROVE ~(Cardinality(s) <= 0)
    <3>1. Cardinality(s) \in Nat \ {0}
      BY <1>0, <2>1, PickedIs
    <3> QED  BY <3>1
  <2>2. Upto(0, g)
    BY <2>1
  <2> QED  BY <2>2
<1>2. ASSUME NEW n \in Nat, n \in T PROVE n + 1 \in T
  <2>1. PICK g : Upto(n, g)
    BY <1>2
  <2> DEFINE next(s) == IF s = {} THEN 0
                        ELSE IF Cardinality(s) <= n THEN g[s]
                        ELSE f[Picked(s)] + g[s \ {Picked(s)}]
             h == [s \in SUBSET S |-> next(s)]
  <2>2. h[{}] = 0
    OBVIOUS
  <2>3. ASSUME NEW s \in SUBSET S, s # {} PROVE s \ {Picked(s)} \in SUBSET S
    OBVIOUS
  <2>4. ASSUME NEW s \in SUBSET S, Cardinality(s) <= n PROVE h[s] = g[s]
    BY <2>1, <2>4
  <2>5. ASSUME NEW s \in SUBSET S, s # {}, Cardinality(s) <= n + 1
        PROVE  h[s] = f[Picked(s)] + h[s \ {Picked(s)}]
    <3>1. /\ Cardinality(s) \in Nat
          /\ Cardinality(s \ {Picked(s)}) = Cardinality(s) - 1
      BY <1>0, <2>5, PickedIs
    <3>2. h[s \ {Picked(s)}] = g[s \ {Picked(s)}]
      <4> HIDE DEF h
      <4> QED  BY <3>1, <2>4, <2>3, <2>5
    <3>3. h[s] = f[Picked(s)] + g[s \ {Picked(s)}]
      BY <2>1, <2>5
    <3> QED  BY <3>2, <3>3
  <2>6. h = [s \in SUBSET S |-> h[s]]
    OBVIOUS
  <2>7. Upto(n + 1, h)
    <3> HIDE DEF h
    <3> QED  BY <2>2, <2>5, <2>6
  <2>8. \E e : Upto(n + 1, e)
    <3> HIDE DEF Upto, h
    <3> QED  BY <2>7
  <2> HIDE DEF Upto, h
  <2> QED  BY <2>8
<1>3. Cardinality(S) \in T
  <2> HIDE DEF T
  <2> QED  BY <1>1, <1>2, Induction, FS_CardinalityType
<1>4. PICK g : Upto(Cardinality(S), g)
  BY <1>3
<1>5. SumTable(g, f, S)
  BY <1>0, <1>4, SumTableIs
<1> QED  BY <1>5

(* Tables agree wherever what they sum does.                               *)
LEMMA SumTablesAgree ==
  ASSUME NEW g, NEW f, NEW S, SumTable(g, f, S),
         NEW h, NEW e, NEW R, SumTable(h, e, R),
         NEW s, IsFiniteSet(s), s \subseteq S, s \subseteq R,
         \A x \in s : f[x] = e[x]
  PROVE  g[s] = h[s]
<1> DEFINE T == {n \in Nat : \A t \in SUBSET s : Cardinality(t) = n => g[t] = h[t]}
<1>0. ASSUME NEW t \in SUBSET s
      PROVE  t \in SUBSET S /\ t \in SUBSET R /\ IsFiniteSet(t) /\ Cardinality(t) \in Nat
  BY FS_Subset, FS_CardinalityType
<1>1. 0 \in T
  <2>1. \A t \in SUBSET s : Cardinality(t) = 0 => t = {}
    BY <1>0, FS_EmptySet
  <2>2. g[{}] = h[{}]
    BY SumTableIs
  <2> QED  BY <2>1, <2>2
<1>2. ASSUME NEW n \in Nat, n \in T PROVE n + 1 \in T
  <2> SUFFICES ASSUME NEW t \in SUBSET s, Cardinality(t) = n + 1 PROVE g[t] = h[t]
    OBVIOUS
  <2>1. t # {}
    BY FS_EmptySet
  <2>2. /\ Picked(t) \in t
        /\ Cardinality(t \ {Picked(t)}) = n
    BY <1>0, <2>1, PickedIs
  <2>3. t \ {Picked(t)} \in SUBSET s
    OBVIOUS
  <2>4. g[t \ {Picked(t)}] = h[t \ {Picked(t)}]
    BY <1>2, <2>2, <2>3
  <2>5. g[t] = f[Picked(t)] + g[t \ {Picked(t)}]
    BY <1>0, <2>1, SumTableIs
  <2>6. h[t] = e[Picked(t)] + h[t \ {Picked(t)}]
    BY <1>0, <2>1, SumTableIs
  <2>7. f[Picked(t)] = e[Picked(t)]
    BY <2>2
  <2> QED  BY <2>4, <2>5, <2>6, <2>7
<1>3. Cardinality(s) \in T
  <2> HIDE DEF T
  <2> QED  BY <1>0, <1>1, <1>2, Induction
<1> QED  BY <1>3

(* A sum is an entry of a table.                                           *)
LEMMA SumOnIs ==
  ASSUME NEW f, NEW S, IsFiniteSet(S)
  PROVE  \E g : SumTable(g, f, S) /\ SumOn(f, S) = g[S]
<1> DEFINE g == CHOOSE t : SumTable(t, f, S)
<1>1. SumTable(g, f, S)
  BY SumTableExists
<1>2. SumOn(f, S) = (CHOOSE t : t = [s \in SUBSET S |->
             IF s = {} THEN 0 ELSE f[Picked(s)] + t[s \ {Picked(s)}]])[S]
  BY DEF SumOn, FoldFunctionOnSet, MapThenFoldSet, Picked
<1>3. SumOn(f, S) = g[S]
  BY <1>2 DEF SumTable
<1> HIDE DEF g
<1> QED  BY <1>1, <1>3

(* A sum depends on what it sums only.                                     *)
LEMMA SumSame ==
  ASSUME NEW f, NEW e, NEW S, IsFiniteSet(S), \A x \in S : f[x] = e[x]
  PROVE  SumOn(f, S) = SumOn(e, S)
<1>1. PICK g : SumTable(g, f, S) /\ SumOn(f, S) = g[S]
  BY SumOnIs
<1>2. PICK h : SumTable(h, e, S) /\ SumOn(e, S) = h[S]
  BY SumOnIs
<1> QED  BY <1>1, <1>2, SumTablesAgree

(* The numbers of a table.                                                 *)
LEMMA SumTableNat ==
  ASSUME NEW f, NEW S, IsFiniteSet(S), \A x \in S : f[x] \in Nat,
         NEW g, SumTable(g, f, S)
  PROVE  \A s \in SUBSET S : g[s] \in Nat
<1> DEFINE T == {n \in Nat : \A t \in SUBSET S : Cardinality(t) = n => g[t] \in Nat}
<1>0. ASSUME NEW t \in SUBSET S
      PROVE  IsFiniteSet(t) /\ Cardinality(t) \in Nat
  BY FS_Subset, FS_CardinalityType
<1>1. 0 \in T
  <2>1. \A t \in SUBSET S : Cardinality(t) = 0 => t = {}
    BY <1>0, FS_EmptySet
  <2>2. g[{}] = 0
    BY SumTableIs
  <2> QED  BY <2>1, <2>2
<1>2. ASSUME NEW n \in Nat, n \in T PROVE n + 1 \in T
  <2> SUFFICES ASSUME NEW t \in SUBSET S, Cardinality(t) = n + 1 PROVE g[t] \in Nat
    OBVIOUS
  <2>1. t # {}
    BY FS_EmptySet
  <2>2. Picked(t) \in t /\ Cardinality(t \ {Picked(t)}) = n
    BY <1>0, <2>1, PickedIs
  <2>3. g[t \ {Picked(t)}] \in Nat
    BY <1>2, <2>2
  <2>4. g[t] = f[Picked(t)] + g[t \ {Picked(t)}]
    BY <2>1, SumTableIs
  <2> QED  BY <2>2, <2>3, <2>4
<1>3. ASSUME NEW s \in SUBSET S PROVE g[s] \in Nat
  <2> HIDE DEF T
  <2>1. Cardinality(s) \in T
    BY <1>0, <1>1, <1>2, Induction
  <2> QED  BY <2>1 DEF T
<1> QED  BY <1>3

(* Any element may be summed first.                                        *)
LEMMA SumTableAny ==
  ASSUME NEW f, NEW S, IsFiniteSet(S), \A x \in S : f[x] \in Nat,
         NEW g, SumTable(g, f, S)
  PROVE  \A s \in SUBSET S : \A x \in s : g[s] = f[x] + g[s \ {x}]
<1> DEFINE T == {n \in Nat : \A t \in SUBSET S : \A x \in t :
                    Cardinality(t) = n => g[t] = f[x] + g[t \ {x}]}
<1>0. ASSUME NEW t \in SUBSET S
      PROVE  IsFiniteSet(t) /\ Cardinality(t) \in Nat /\ g[t] \in Nat
  BY FS_Subset, FS_CardinalityType, SumTableNat
<1>1. 0 \in T
  <2>1. \A t \in SUBSET S : Cardinality(t) = 0 => t = {}
    BY <1>0, FS_EmptySet
  <2> QED  BY <2>1
<1>2. ASSUME NEW n \in Nat, n \in T PROVE n + 1 \in T
  <2> SUFFICES ASSUME NEW t \in SUBSET S, NEW x \in t, Cardinality(t) = n + 1
               PROVE  g[t] = f[x] + g[t \ {x}]
    OBVIOUS
  <2> DEFINE y == Picked(t)
  <2>1. t # {}
    OBVIOUS
  <2>2. y \in t /\ Cardinality(t \ {y}) = n
    BY <1>0, <2>1, PickedIs
  <2>3. g[t] = f[y] + g[t \ {y}]
    BY <2>1, SumTableIs
  <2> HIDE DEF y
  <2>4. CASE x = y
    BY <2>3, <2>4
  <2>5. CASE x # y
    <3>1. g[t \ {y}] = f[x] + g[(t \ {y}) \ {x}]
      BY <1>2, <2>2, <2>5
    <3>2. Cardinality(t \ {x}) = n
      <4>1. Cardinality(t \ {x}) = Cardinality(t) - 1
        BY <1>0, FS_RemoveElement
      <4> QED  BY <4>1
    <3>3. g[t \ {x}] = f[y] + g[(t \ {x}) \ {y}]
      BY <1>2, <2>2, <2>5, <3>2
    <3>4. g[t \ {x}] = f[y] + g[(t \ {y}) \ {x}]
      <4>1. (t \ {x}) \ {y} = (t \ {y}) \ {x}
        OBVIOUS
      <4> QED  BY <3>3, <4>1
    <3>5. /\ f[x] \in Nat /\ f[y] \in Nat
          /\ g[(t \ {y}) \ {x}] \in Nat
      BY <1>0, <2>2
    <3> HIDE DEF T
    <3> QED  BY <2>3, <3>1, <3>4, <3>5
  <2> QED  BY <2>4, <2>5
<1>3. ASSUME NEW s \in SUBSET S, NEW x \in s PROVE g[s] = f[x] + g[s \ {x}]
  <2> HIDE DEF T
  <2>1. Cardinality(s) \in T
    BY <1>0, <1>1, <1>2, Induction
  <2> QED  BY <2>1 DEF T
<1> QED  BY <1>3

(* A sum of loads is a number.                                             *)
LEMMA SumNat ==
  ASSUME NEW f, NEW S, IsFiniteSet(S), \A x \in S : f[x] \in Nat
  PROVE  SumOn(f, S) \in Nat
<1>1. PICK g : SumTable(g, f, S) /\ SumOn(f, S) = g[S]
  BY SumOnIs
<1> QED  BY <1>1, SumTableNat

(* Nothing sums to zero.                                                   *)
LEMMA SumEmpty ==
  ASSUME NEW f
  PROVE  SumOn(f, {}) = 0
<1>1. PICK g : SumTable(g, f, {}) /\ SumOn(f, {}) = g[{}]
  BY SumOnIs, FS_EmptySet
<1> QED  BY <1>1, SumTableIs

(* An element less in a sum, any of them.                                  *)
LEMMA SumRemove ==
  ASSUME NEW f, NEW S, IsFiniteSet(S), \A x \in S : f[x] \in Nat, NEW x \in S
  PROVE  SumOn(f, S) = f[x] + SumOn(f, S \ {x})
<1>1. PICK g : SumTable(g, f, S) /\ SumOn(f, S) = g[S]
  BY SumOnIs
<1>2. IsFiniteSet(S \ {x})
  BY FS_RemoveElement
<1>3. PICK h : SumTable(h, f, S \ {x}) /\ SumOn(f, S \ {x}) = h[S \ {x}]
  BY <1>2, SumOnIs
<1>4. g[S] = f[x] + g[S \ {x}]
  BY <1>1, SumTableAny
<1>5. g[S \ {x}] = h[S \ {x}]
  BY <1>1, <1>2, <1>3, SumTablesAgree
<1> QED  BY <1>1, <1>3, <1>4, <1>5

(* An element more.                                                        *)
LEMMA SumAdd ==
  ASSUME NEW f, NEW S, IsFiniteSet(S), NEW x, x \notin S,
         \A y \in S \cup {x} : f[y] \in Nat
  PROVE  SumOn(f, S \cup {x}) = f[x] + SumOn(f, S)
<1>1. IsFiniteSet(S \cup {x})
  BY FS_AddElement
<1>2. (S \cup {x}) \ {x} = S
  OBVIOUS
<1>3. SumOn(f, S \cup {x}) = f[x] + SumOn(f, (S \cup {x}) \ {x})
  BY <1>1, SumRemove
<1> QED  BY <1>2, <1>3

(* What changes at one place changes the sum by as much.                   *)
LEMMA SumChange ==
  ASSUME NEW f, NEW e, NEW S, IsFiniteSet(S), NEW x \in S,
         \A y \in S : f[y] \in Nat /\ e[y] \in Nat,
         \A y \in S \ {x} : f[y] = e[y]
  PROVE  SumOn(e, S) = SumOn(f, S) + e[x] - f[x]
<1>1. SumOn(f, S) = f[x] + SumOn(f, S \ {x})
  BY SumRemove
<1>2. SumOn(e, S) = e[x] + SumOn(e, S \ {x})
  BY SumRemove
<1>3. SumOn(f, S \ {x}) = SumOn(e, S \ {x})
  BY SumSame, FS_RemoveElement
<1>4. SumOn(f, S \ {x}) \in Nat
  BY SumNat, FS_RemoveElement
<1> QED  BY <1>1, <1>2, <1>3, <1>4

(* What is zero outside a set adds nothing.                                *)
LEMMA SumZeros ==
  ASSUME NEW f, NEW S, IsFiniteSet(S), NEW R \in SUBSET S,
         \A x \in S : f[x] \in Nat, \A x \in S \ R : f[x] = 0
  PROVE  SumOn(f, S) = SumOn(f, R)
<1> DEFINE T == {n \in Nat : \A t \in SUBSET S :
                   R \subseteq t /\ Cardinality(t \ R) = n => SumOn(f, t) = SumOn(f, R)}
<1>0. ASSUME NEW t \in SUBSET S
      PROVE  IsFiniteSet(t) /\ IsFiniteSet(t \ R) /\ Cardinality(t \ R) \in Nat
  BY FS_Subset, FS_CardinalityType
<1>1. 0 \in T
  <2>1. \A t \in SUBSET S : R \subseteq t /\ Cardinality(t \ R) = 0 => t = R
    BY <1>0, FS_EmptySet
  <2> QED  BY <2>1
<1>2. ASSUME NEW n \in Nat, n \in T PROVE n + 1 \in T
  <2> SUFFICES ASSUME NEW t \in SUBSET S, R \subseteq t, Cardinality(t \ R) = n + 1
               PROVE  SumOn(f, t) = SumOn(f, R)
    OBVIOUS
  <2>1. PICK x \in t \ R : TRUE
    BY FS_EmptySet
  <2>2. Cardinality((t \ {x}) \ R) = n
    <3>1. Cardinality((t \ R) \ {x}) = Cardinality(t \ R) - 1
      BY <1>0, <2>1, FS_RemoveElement
    <3>2. (t \ {x}) \ R = (t \ R) \ {x}
      OBVIOUS
    <3>3. Cardinality((t \ R) \ {x}) = n
      BY <3>1
    <3> HIDE DEF T
    <3> QED  BY <3>2, <3>3
  <2>3. SumOn(f, t \ {x}) = SumOn(f, R)
    BY <1>2, <2>1, <2>2
  <2>4. SumOn(f, t) = f[x] + SumOn(f, t \ {x})
    BY <1>0, <2>1, SumRemove
  <2>5. f[x] = 0 /\ SumOn(f, t \ {x}) \in Nat
    <3>1. IsFiniteSet(t \ {x})
      BY <1>0, FS_RemoveElement
    <3> QED  BY <2>1, <3>1, SumNat
  <2> QED  BY <2>3, <2>4, <2>5
<1>3. Cardinality(S \ R) \in T
  <2> HIDE DEF T
  <2> QED  BY <1>0, <1>1, <1>2, Induction
<1> QED  BY <1>3

-----------------------------------------------------------------------------
(* The loop of Stats::poll. *)

(* The turns of the fold over a list of n handles.                         *)
PollTable(g, n) ==
  g = [s \in SUBSET (1..n) |-> IF s = {} THEN Polled ELSE PollHandle(g[s \ {Max(s)}])]

(* The fold that polls, turn by turn.                                      *)
LEMMA PollTableIs ==
  ASSUME NEW g, NEW n
  PROVE  PollTable(g, n) <=>
           /\ g = [s \in SUBSET (1..n) |-> g[s]]
           /\ g[{}] = Polled
           /\ \A s \in SUBSET (1..n) : s # {} => g[s] = PollHandle(g[s \ {Max(s)}])
<1> DEFINE body(s) == IF s = {} THEN Polled ELSE PollHandle(g[s \ {Max(s)}])
<1>1. PollTable(g, n) <=> g = [s \in SUBSET (1..n) |-> body(s)]
  BY DEF PollTable
<1>2. g = [s \in SUBSET (1..n) |-> body(s)] <=>
         g = [s \in SUBSET (1..n) |-> g[s]] /\ \A s \in SUBSET (1..n) : g[s] = body(s)
  <2> HIDE DEF body
  <2> QED  OBVIOUS
<1>3. {} \in SUBSET (1..n)
  OBVIOUS
<1> QED  BY <1>1, <1>2, <1>3

(* There is a table of its turns for any number of them.                   *)
LEMMA PollTableExists == \A n \in Nat : \E g : PollTable(g, n)
<1> DEFINE T == {n \in Nat : \E g : PollTable(g, n)}
<1>1. 0 \in T
  <2> DEFINE g == [s \in SUBSET (1..0) |-> Polled]
  <2>1. \A s \in SUBSET (1..0) : s = {}
    OBVIOUS
  <2>2. g = [s \in SUBSET (1..0) |-> g[s]] /\ g[{}] = Polled
    OBVIOUS
  <2>3. PollTable(g, 0)
    <3> HIDE DEF g
    <3> QED  BY <2>1, <2>2, PollTableIs
  <2> QED  BY <2>3
<1>2. ASSUME NEW n \in Nat, n \in T PROVE n + 1 \in T
  <2>1. PICK g : PollTable(g, n)
    BY <1>2
  <2> DEFINE next(s) == IF n + 1 \in s THEN PollHandle(g[s \ {n + 1}]) ELSE g[s]
             h == [s \in SUBSET (1..(n + 1)) |-> next(s)]
  <2>2. ASSUME NEW s \in SUBSET (1..(n + 1)), n + 1 \notin s
        PROVE  s \in SUBSET (1..n) /\ h[s] = g[s]
    <3>1. \A x \in s : x \in 1..n
      BY <2>2
    <3> QED  BY <2>2, <3>1
  <2>3. h[{}] = Polled
    <3>1. g[{}] = Polled
      BY <2>1, PollTableIs
    <3> HIDE DEF h
    <3> QED  BY <2>2, <3>1
  <2>4. ASSUME NEW s \in SUBSET (1..(n + 1)), s # {}
        PROVE  h[s] = PollHandle(h[s \ {Max(s)}])
    <3>1. CASE n + 1 \in s
      <4>1. Max(s) = n + 1
        BY <2>4, <3>1, MaxIs
      <4>2. h[s \ {n + 1}] = g[s \ {n + 1}]
        <5> HIDE DEF h
        <5> QED  BY <2>2
      <4>3. h[s] = PollHandle(g[s \ {n + 1}])
        BY <3>1
      <4> QED  BY <4>1, <4>2, <4>3
    <3>2. CASE n + 1 \notin s
      <4>1. s \in SUBSET (1..n) /\ h[s] = g[s]
        BY <2>2, <3>2
      <4>2. h[s \ {Max(s)}] = g[s \ {Max(s)}]
        <5> HIDE DEF h
        <5> QED  BY <2>2, <3>2
      <4>3. g[s] = PollHandle(g[s \ {Max(s)}])
        BY <2>1, <2>4, <4>1, PollTableIs
      <4> QED  BY <4>1, <4>2, <4>3
    <3> QED  BY <3>1, <3>2
  <2>5. h = [s \in SUBSET (1..(n + 1)) |-> h[s]]
    OBVIOUS
  <2>6. PollTable(h, n + 1)
    <3> HIDE DEF h
    <3> QED  BY <2>3, <2>4, <2>5, PollTableIs
  <2> QED  BY <2>6
<1> QED
  <2> HIDE DEF T
  <2>1. Nat \subseteq T
    BY <1>1, <1>2, Induction
  <2> QED  BY <2>1 DEF T

(* What the loop has made of the handles after so many turns.              *)
Turns(h, n) ==
  /\ h[0] = Polled
  /\ \A m \in 1..n : h[m] = PollHandle(h[m - 1])

(* What Stats::poll leaves.                                                *)
AllPolled == FoldLeft(LAMBDA acc, c : PollHandle(acc), Polled, handles)

(* What the loop of Stats::poll leaves is what its last turn leaves.       *)
LEMMA PollTurns ==
  ASSUME handles \in Seq(Conns)
  PROVE  \E h : Turns(h, Len(handles)) /\ AllPolled = h[Len(handles)]
<1> DEFINE n == Len(handles)
           g == CHOOSE t : PollTable(t, n)
           h == [m \in 0..n |-> g[1..m]]
<1>1. n \in Nat /\ DOMAIN handles = 1..n
  OBVIOUS
<1>2. PollTable(g, n)
  <2> HIDE DEF n
  <2> QED  BY <1>1, PollTableExists
<1>3. AllPolled = (CHOOSE t : t = [s \in SUBSET (DOMAIN handles) |->
             IF s = {} THEN Polled ELSE PollHandle(t[s \ {Max(s)}])])[DOMAIN handles]
  BY DEF AllPolled, FoldLeft, MapThenFoldSet
<1>4. AllPolled = g[1..n]
  BY <1>1, <1>3 DEF PollTable
<1> HIDE DEF g, n
<1>5. h[0] = Polled
  <2>1. 1..0 = {}
    OBVIOUS
  <2>2. h[0] = g[1..0]
    BY <1>1
  <2> QED  BY <1>2, <2>1, <2>2, PollTableIs
<1>6. ASSUME NEW m \in 1..n PROVE h[m] = PollHandle(h[m - 1])
  <2>1. 1..m \in SUBSET (1..n) /\ m \in 1..m /\ m \in Nat
    BY <1>1
  <2>2. Max(1..m) = m
    BY <2>1, MaxIs
  <2>3. (1..m) \ {m} = 1..(m - 1)
    BY <1>1
  <2>4. g[1..m] = PollHandle(g[1..(m - 1)])
    BY <1>2, <2>1, <2>2, <2>3, PollTableIs
  <2> QED  BY <1>1, <2>4
<1>7. h[n] = AllPolled
  BY <1>1, <1>4
<1>8. Turns(h, n)
  <2> HIDE DEF h
  <2> QED  BY <1>5, <1>6 DEF Turns
<1> HIDE DEF h
<1> QED  BY <1>7, <1>8 DEF n

-----------------------------------------------------------------------------
(* Lists from which an element is removed by swapping the last into its    *)
(* place.                                                                  *)

(* swap_remove, element by element.                                        *)
LEMMA SwapRemoveIs ==
  ASSUME NEW S, NEW s \in Seq(S), NEW i \in 1..Len(s)
  PROVE  /\ SwapRemove(s, i) \in Seq(S)
         /\ Len(SwapRemove(s, i)) = Len(s) - 1
         /\ \A k \in 1..(Len(s) - 1) :
               SwapRemove(s, i)[k] = IF k = i THEN s[Len(s)] ELSE s[k]
<1> DEFINE t == IF i = Len(s) THEN s ELSE [s EXCEPT ![i] = Last(s)]
<1>1. s[Len(s)] \in S /\ Len(s) \in Nat /\ i \in Nat /\ Len(s) # 0
  OBVIOUS
<1>2. /\ t \in Seq(S) /\ Len(t) = Len(s)
      /\ \A k \in 1..(Len(s) - 1) : t[k] = IF k = i THEN s[Len(s)] ELSE s[k]
  BY <1>1 DEF Last
<1>3. SwapRemove(s, i) = SubSeq(t, 1, Len(s) - 1)
  BY <1>2 DEF SwapRemove, Front
<1> HIDE DEF t
<1>4. /\ SubSeq(t, 1, Len(s) - 1) \in Seq(S)
      /\ Len(SubSeq(t, 1, Len(s) - 1)) = Len(s) - 1
      /\ \A k \in 1..(Len(s) - 1) : SubSeq(t, 1, Len(s) - 1)[k] = t[k]
  BY <1>1, <1>2, SubSeqProperties
<1> QED  BY <1>2, <1>3, <1>4

(* It removes one element of a list without repetitions, and only that.    *)
LEMMA SwapRemoveSet ==
  ASSUME NEW S, NEW s \in Seq(S), NEW i \in 1..Len(s), IsInjective(s)
  PROVE  /\ IsInjective(SwapRemove(s, i))
         /\ ToSet(SwapRemove(s, i)) = ToSet(s) \ {s[i]}
<1> DEFINE r == SwapRemove(s, i)
<1>1. /\ r \in Seq(S) /\ Len(r) = Len(s) - 1
      /\ \A k \in 1..(Len(s) - 1) : r[k] = IF k = i THEN s[Len(s)] ELSE s[k]
      /\ DOMAIN r = 1..(Len(s) - 1) /\ DOMAIN s = 1..Len(s) /\ Len(s) \in Nat
  BY SwapRemoveIs
<1> HIDE DEF r
<1>2. \A j, k \in 1..Len(s) : s[j] = s[k] => j = k
  BY <1>1 DEF IsInjective
<1>3. IsInjective(r)
  BY <1>1, <1>2 DEF IsInjective
<1>4. ASSUME NEW x \in ToSet(r) PROVE x \in ToSet(s) \ {s[i]}
  BY <1>1, <1>2 DEF ToSet
<1>5. ASSUME NEW x \in ToSet(s) \ {s[i]} PROVE x \in ToSet(r)
  <2>1. PICK k \in 1..Len(s) : x = s[k] /\ k # i
    BY <1>1 DEF ToSet
  <2>2. CASE k = Len(s)
    <3>1. i \in 1..(Len(s) - 1) /\ r[i] = x
      BY <1>1, <2>1, <2>2
    <3> QED  BY <1>1, <3>1 DEF ToSet
  <2>3. CASE k # Len(s)
    <3>1. k \in 1..(Len(s) - 1) /\ r[k] = x
      BY <1>1, <2>1, <2>3
    <3> QED  BY <1>1, <3>1 DEF ToSet
  <2> QED  BY <2>2, <2>3
<1> QED  BY <1>3, <1>4, <1>5 DEF r

-----------------------------------------------------------------------------
(* The buckets. *)

(* Loads, places in the buckets, and buckets with their positions.         *)
Val    == 0..MaxLoad
Places == Indices \X (Nat \ {0})
Lists  == [of : [Indices -> Seq(Conns)], at : [Conns -> Places \cup {None}]]

(* Every handle is filed under its value, at the position it knows; a      *)
(* handle of value zero is not filed.                                      *)
Filed(b, v) ==
  /\ \A c \in Conns :
       /\ b.at[c] # None <=> v[c] > 0
       /\ b.at[c] # None => /\ b.at[c][1] = Index(v[c])
                            /\ b.at[c][2] \in DOMAIN b.of[b.at[c][1]]
                            /\ b.of[b.at[c][1]][b.at[c][2]] = c
  /\ \A i \in Indices : \A k \in DOMAIN b.of[i] : b.at[b.of[i][k]] = <<i, k>>

(* A value of a load has a bucket.                                         *)
LEMMA IndexOf ==
  ASSUME kind \in {"recv", "rps"}
  PROVE  /\ MaxLoad \in Nat
         /\ \A n \in Val : Index(n) \in Indices
         /\ Indices \subseteq Nat
<1>1. BucketSize \in Nat \ {0} /\ MaxLoad \in Nat
  BY PolicyAssumption DEF MaxLoad
<1>2. ASSUME NEW n \in Nat, NEW m \in Nat, n <= m
      PROVE  n \div BucketSize \in Nat /\ n \div BucketSize <= m \div BucketSize
             /\ m \div BucketSize \in Nat
  BY <1>1, <1>2
<1>3. ASSUME NEW n \in Val PROVE Index(n) \in Indices
  <2>1. n \in Nat /\ n <= MaxLoad
    BY <1>1 DEF Val
  <2> QED  BY <1>1, <1>2, <2>1 DEF Index, Indices
<1>4. Indices \subseteq Nat
  BY DEF Indices
<1> QED  BY <1>1, <1>3, <1>4

(* Having no position is different from every position.                    *)
LEMMA NoneIsNoPlace == ASSUME kind \in {"recv", "rps"} PROVE None \notin Places
BY PolicyAssumption, IndexOf DEF Places

(* BucketList::push files a handle that was in no bucket.                  *)
LEMMA FilePush ==
  ASSUME kind \in {"recv", "rps"}, NEW b \in Lists, NEW v \in [Conns -> Val], Filed(b, v),
         NEW c \in Conns, v[c] = 0, NEW n \in Val, n > 0
  PROVE  /\ PushIntoBucket(b, c, Index(n)) \in Lists
         /\ Filed(PushIntoBucket(b, c, Index(n)), [v EXCEPT ![c] = n])
<1> DEFINE i == Index(n)
           r == PushIntoBucket(b, c, i)
<1>1. i \in Indices /\ i \in Nat
  BY IndexOf
<1> HIDE DEF i
<1>2. b.of[i] \in Seq(Conns) /\ Len(b.of[i]) \in Nat
  BY <1>1 DEF Lists
<1>3. /\ Append(b.of[i], c) \in Seq(Conns)
      /\ Len(Append(b.of[i], c)) = Len(b.of[i]) + 1
      /\ \A k \in 1..Len(b.of[i]) : Append(b.of[i], c)[k] = b.of[i][k]
      /\ Append(b.of[i], c)[Len(b.of[i]) + 1] = c
  BY <1>2
<1>4. <<i, Len(b.of[i]) + 1>> \in Places
  BY <1>1, <1>2 DEF Places
<1>5. r = [of |-> [b.of EXCEPT ![i] = Append(@, c)],
           at |-> [b.at EXCEPT ![c] = <<i, Len(b.of[i]) + 1>>]]
  BY DEF PushIntoBucket
<1>6. r \in Lists
  BY <1>1, <1>3, <1>4, <1>5 DEF Lists
<1>7. /\ r.of[i] = Append(b.of[i], c) /\ \A j \in Indices \ {i} : r.of[j] = b.of[j]
      /\ r.at[c] = <<i, Len(b.of[i]) + 1>> /\ \A d \in Conns \ {c} : r.at[d] = b.at[d]
  BY <1>1, <1>5 DEF Lists
<1> HIDE DEF r
<1>8. b.at[c] = None
  BY DEF Filed
<1>9. ASSUME NEW j \in Indices, NEW k \in DOMAIN b.of[j] PROVE b.of[j][k] \in Conns \ {c}
  <2>1. b.of[j][k] \in Conns
    BY DEF Lists
  <2>2. b.at[b.of[j][k]] = <<j, k>>
    BY DEF Filed
  <2>3. k \in Nat \ {0}
    BY DEF Lists
  <2>4. b.of[j][k] # c
    <3>1. <<j, k>> \in Places
      BY <2>3 DEF Places
    <3> QED  BY <1>8, <2>2, <3>1, NoneIsNoPlace
  <2> QED  BY <2>1, <2>4
<1> DEFINE w == [v EXCEPT ![c] = n]
<1>10. w[c] = n /\ \A d \in Conns \ {c} : w[d] = v[d]
  OBVIOUS
<1> HIDE DEF w
<1>11. DOMAIN r.of[i] = 1..(Len(b.of[i]) + 1) /\ DOMAIN b.of[i] = 1..Len(b.of[i])
  BY <1>2, <1>3, <1>7
<1>12. ASSUME NEW d \in Conns
       PROVE  /\ r.at[d] # None <=> w[d] > 0
              /\ r.at[d] # None => /\ r.at[d][1] = Index(w[d])
                                   /\ r.at[d][2] \in DOMAIN r.of[r.at[d][1]]
                                   /\ r.of[r.at[d][1]][r.at[d][2]] = d
  <2>1. CASE d = c
    BY <2>1, <1>2, <1>3, <1>4, <1>7, <1>10, <1>11, NoneIsNoPlace DEF i
  <2>2. CASE d # c
    <3>1. /\ r.at[d] = b.at[d] /\ w[d] = v[d]
          /\ r.at[d] # None <=> w[d] > 0
          /\ r.at[d] # None => r.at[d][1] = Index(w[d])
      BY <2>2, <1>7, <1>10 DEF Filed
    <3>2. ASSUME b.at[d] # None
          PROVE  /\ b.at[d][1] \in Indices /\ b.at[d][2] \in DOMAIN b.of[b.at[d][1]]
                 /\ b.of[b.at[d][1]][b.at[d][2]] = d
      BY <3>2 DEF Filed, Lists, Places
    <3>3. ASSUME b.at[d] # None
          PROVE  /\ b.at[d][2] \in DOMAIN r.of[b.at[d][1]]
                 /\ r.of[b.at[d][1]][b.at[d][2]] = d
      <4>1. CASE b.at[d][1] = i
        BY <4>1, <3>2, <3>3, <1>2, <1>3, <1>7, <1>11
      <4>2. CASE b.at[d][1] # i
        BY <4>2, <3>2, <3>3, <1>7
      <4> QED  BY <4>1, <4>2
    <3> QED  BY <3>1, <3>3
  <2> QED  BY <2>1, <2>2
<1>13. ASSUME NEW j \in Indices, NEW k \in DOMAIN r.of[j]
       PROVE  r.at[r.of[j][k]] = <<j, k>>
  <2>1. CASE j = i /\ k = Len(b.of[i]) + 1
    BY <2>1, <1>3, <1>7
  <2>2. CASE ~(j = i /\ k = Len(b.of[i]) + 1)
    <3>1. k \in DOMAIN b.of[j] /\ r.of[j][k] = b.of[j][k]
      <4>1. CASE j = i
        BY <4>1, <2>2, <1>2, <1>3, <1>7, <1>11
      <4>2. CASE j # i
        BY <4>2, <1>7
      <4> QED  BY <4>1, <4>2
    <3>2. b.at[b.of[j][k]] = <<j, k>>
      BY <3>1 DEF Filed
    <3> QED  BY <3>1, <3>2, <1>7, <1>9
  <2> QED  BY <2>1, <2>2
<1>14. Filed(r, w)
  BY <1>12, <1>13 DEF Filed
<1> QED  BY <1>6, <1>14 DEF r, w, i

(* BucketList::remove takes a handle out, and tells the one it moved.      *)
LEMMA FileRemove ==
  ASSUME kind \in {"recv", "rps"}, NEW b \in Lists, NEW v \in [Conns -> Val], Filed(b, v),
         NEW c \in Conns, b.at[c] # None
  PROVE  /\ BucketRemove(b, b.at[c]) \in Lists
         /\ Filed(BucketRemove(b, b.at[c]), [v EXCEPT ![c] = 0])
<1>1. PICK i \in Indices, p \in Nat \ {0} : b.at[c] = <<i, p>>
  BY DEF Lists, Places
<1> DEFINE s    == b.of[i]
           rest == SwapRemove(s, p)
           r    == BucketRemove(b, <<i, p>>)
<1>2. s \in Seq(Conns) /\ p \in DOMAIN s /\ s[p] = c
  <2>1. s \in Seq(Conns)
    BY DEF Lists
  <2>2. b.at[c][1] = i /\ b.at[c][2] = p
    BY <1>1
  <2>3. /\ b.at[c][2] \in DOMAIN b.of[b.at[c][1]]
        /\ b.of[b.at[c][1]][b.at[c][2]] = c
    BY DEF Filed
  <2> QED  BY <2>1, <2>2, <2>3
<1>3. PICK len \in Nat : Len(s) = len /\ DOMAIN s = 1..len /\ p \in 1..len
  BY <1>2
<1>4. /\ rest \in Seq(Conns) /\ Len(rest) = len - 1
      /\ DOMAIN rest = 1..(len - 1)
      /\ \A k \in 1..(len - 1) : rest[k] = IF k = p THEN s[len] ELSE s[k]
  <2> HIDE DEF s
  <2>1. /\ rest \in Seq(Conns) /\ Len(rest) = len - 1
        /\ \A k \in 1..(len - 1) : rest[k] = IF k = p THEN s[len] ELSE s[k]
    BY <1>2, <1>3, SwapRemoveIs
  <2> HIDE DEF rest
  <2>2. DOMAIN rest = 1..(len - 1)
    BY <2>1
  <2> QED  BY <2>1, <2>2
<1>5. \A j, k \in DOMAIN s : s[j] = s[k] => j = k
  BY DEF Filed
<1>6. r = [of |-> [b.of EXCEPT ![i] = rest],
           at |-> [d \in Conns |-> IF d = c THEN None
                                   ELSE IF p <= Len(rest) /\ d = rest[p] THEN <<i, p>>
                                   ELSE b.at[d]]]
  BY <1>2 DEF BucketRemove
<1> HIDE DEF r, rest
<1>7. <<i, p>> \in Places
  BY <1>1 DEF Places
<1>8. r \in Lists
  BY <1>4, <1>6, <1>7 DEF Lists
<1>9. /\ r.of[i] = rest /\ \A j \in Indices \ {i} : r.of[j] = b.of[j]
      /\ r.at[c] = None
      /\ \A d \in Conns \ {c} :
            r.at[d] = IF p <= Len(rest) /\ d = rest[p] THEN <<i, p>> ELSE b.at[d]
  BY <1>1, <1>6 DEF Lists
<1>10. ASSUME NEW j \in Indices, NEW k \in DOMAIN b.of[j]
       PROVE  /\ b.of[j][k] \in Conns /\ b.at[b.of[j][k]] = <<j, k>>
              /\ <<j, k>> # <<i, p>> => b.of[j][k] # c
  <2>1. b.of[j][k] \in Conns
    BY DEF Lists
  <2>2. b.at[b.of[j][k]] = <<j, k>>
    BY DEF Filed
  <2> QED  BY <1>1, <2>1, <2>2
<1> DEFINE w == [v EXCEPT ![c] = 0]
<1>11. w[c] = 0 /\ \A d \in Conns \ {c} : w[d] = v[d]
  OBVIOUS
<1> HIDE DEF w, s
<1>12. ASSUME NEW d \in Conns
       PROVE  /\ r.at[d] # None <=> w[d] > 0
              /\ r.at[d] # None => /\ r.at[d][1] = Index(w[d])
                                   /\ r.at[d][2] \in DOMAIN r.of[r.at[d][1]]
                                   /\ r.of[r.at[d][1]][r.at[d][2]] = d
  <2>1. CASE d = c
    BY <2>1, <1>9, <1>11
  <2>2. CASE d # c /\ p <= Len(rest) /\ d = rest[p]
    <3>1. p \in 1..(len - 1) /\ d = s[len] /\ len \in DOMAIN s
      BY <2>2, <1>3, <1>4
    <3>2. b.at[d] = <<i, len>>
      BY <3>1, <1>10 DEF s
    <3>3. b.at[d] # None
      <4>1. <<i, len>> \in Places
        BY <1>3 DEF Places
      <4> QED  BY <3>2, <4>1, NoneIsNoPlace
    <3>4. v[d] > 0 /\ Index(v[d]) = i
      <4>1. v[d] > 0 /\ b.at[d][1] = Index(v[d])
        BY <3>3 DEF Filed
      <4>2. b.at[d][1] = i
        BY <3>2
      <4> QED  BY <4>1, <4>2
    <3>5. r.at[d] = <<i, p>> /\ r.at[d] # None
      BY <2>2, <1>7, <1>9, NoneIsNoPlace
    <3> QED  BY <2>2, <3>1, <3>4, <3>5, <1>4, <1>9, <1>11
  <2>3. CASE d # c /\ ~(p <= Len(rest) /\ d = rest[p])
    <3>1. r.at[d] = b.at[d] /\ w[d] = v[d]
      BY <2>3, <1>9, <1>11
    <3>2. ASSUME b.at[d] # None
          PROVE  /\ b.at[d][2] \in DOMAIN r.of[b.at[d][1]]
                 /\ r.of[b.at[d][1]][b.at[d][2]] = d
      <4>1. /\ b.at[d][1] \in Indices /\ b.at[d][2] \in DOMAIN b.of[b.at[d][1]]
            /\ b.of[b.at[d][1]][b.at[d][2]] = d
        BY <3>2 DEF Filed, Lists, Places
      <4>2. CASE b.at[d][1] = i
        <5> DEFINE k == b.at[d][2]
        <5>1. k \in 1..len /\ s[k] = d
          BY <4>1, <4>2, <1>3 DEF s
        <5> HIDE DEF k
        <5>2. k # p
          BY <5>1, <1>2, <2>3 DEF s
        <5>3. k # len
          BY <5>1, <5>2, <1>3, <1>4, <2>3
        <5>4. k \in 1..(len - 1) /\ rest[k] = d
          BY <5>1, <5>2, <5>3, <1>3, <1>4
        <5> QED  BY <4>2, <5>4, <1>4, <1>9 DEF k
      <4>3. CASE b.at[d][1] # i
        BY <4>1, <4>3, <1>9
      <4> QED  BY <4>2, <4>3
    <3>3. /\ b.at[d] # None <=> v[d] > 0
          /\ b.at[d] # None => b.at[d][1] = Index(v[d])
      BY DEF Filed
    <3> QED  BY <3>1, <3>2, <3>3
  <2> QED  BY <2>1, <2>2, <2>3
<1>13. ASSUME NEW j \in Indices, NEW k \in DOMAIN r.of[j]
       PROVE  r.at[r.of[j][k]] = <<j, k>>
  <2>1. CASE j # i
    <3>1. r.of[j] = b.of[j] /\ k \in DOMAIN b.of[j]
      BY <2>1, <1>9
    <3>2. b.of[j][k] \in Conns \ {c} /\ b.at[b.of[j][k]] = <<j, k>>
      BY <2>1, <3>1, <1>10
    <3>3. ~(p <= Len(rest) /\ b.of[j][k] = rest[p])
      <4> SUFFICES ASSUME p <= Len(rest), b.of[j][k] = rest[p] PROVE FALSE
        OBVIOUS
      <4>1. rest[p] = s[len] /\ len \in DOMAIN s
        BY <1>3, <1>4
      <4>2. b.at[rest[p]] = <<i, len>>
        BY <4>1, <1>10 DEF s
      <4> QED  BY <4>2, <3>2, <2>1
    <3> QED  BY <3>1, <3>2, <3>3, <1>9
  <2>2. CASE j = i /\ k = p
    <3>1. p \in 1..(len - 1) /\ rest[p] = s[len] /\ len \in DOMAIN s
      BY <2>2, <1>3, <1>4, <1>9
    <3>2. s[len] \in Conns /\ s[len] # c
      <4>1. len # p
        BY <3>1, <1>3
      <4> QED  BY <3>1, <4>1, <1>10 DEF s
    <3>3. p <= Len(rest)
      BY <3>1, <1>3, <1>4
    <3> QED  BY <2>2, <3>1, <3>2, <3>3, <1>9
  <2>3. CASE j = i /\ k # p
    <3>1. k \in 1..(len - 1) /\ rest[k] = s[k] /\ k \in DOMAIN s
      BY <2>3, <1>3, <1>4, <1>9
    <3>2. s[k] \in Conns /\ s[k] # c /\ b.at[s[k]] = <<i, k>>
      BY <2>3, <3>1, <1>10 DEF s
    <3>3. ~(p <= Len(rest) /\ s[k] = rest[p])
      <4> SUFFICES ASSUME p <= Len(rest), s[k] = rest[p] PROVE FALSE
        OBVIOUS
      <4>1. rest[p] = s[len] /\ len \in DOMAIN s
        BY <1>3, <1>4
      <4>2. k = len
        BY <3>1, <4>1, <1>5 DEF s
      <4> QED  BY <3>1, <4>2, <1>3
    <3> QED  BY <2>3, <3>1, <3>2, <3>3, <1>9
  <2> QED  BY <2>1, <2>2, <2>3
<1>14. Filed(r, w)
  BY <1>12, <1>13 DEF Filed
<1> QED  BY <1>1, <1>8, <1>14 DEF r, w

(* BucketList::update files a handle under another value.                  *)
LEMMA FileUpdate ==
  ASSUME kind \in {"recv", "rps"}, NEW b \in Lists, NEW v \in [Conns -> Val], Filed(b, v),
         NEW c \in Conns, NEW n \in Val
  PROVE  /\ BucketUpdate(b, c, n) \in Lists
         /\ Filed(BucketUpdate(b, c, n), [v EXCEPT ![c] = n])
<1> DEFINE out == IF b.at[c] # None THEN BucketRemove(b, b.at[c]) ELSE b
           u   == [v EXCEPT ![c] = 0]
<1>1. 0 \in Val /\ n \in Nat /\ v[c] \in Nat
  BY IndexOf DEF Val
<1>2. u \in [Conns -> Val] /\ u[c] = 0
  BY <1>1
<1>3. out \in Lists /\ Filed(out, u)
  <2>1. CASE b.at[c] # None
    BY <2>1, FileRemove
  <2>2. CASE b.at[c] = None
    <3>1. v[c] = 0
      BY <2>2, <1>1 DEF Filed
    <3>2. u = v
      BY <3>1
    <3> QED  BY <2>2, <3>2
  <2> QED  BY <2>1, <2>2
<1>4. [u EXCEPT ![c] = n] = [v EXCEPT ![c] = n]
  OBVIOUS
<1>5. CASE b.at[c] # None /\ n > 0 /\ b.at[c][1] = Index(n)
  <2>1. BucketUpdate(b, c, n) = b
    BY <1>5 DEF BucketUpdate
  <2>2. v[c] > 0 /\ Index(v[c]) = Index(n)
    BY <1>5 DEF Filed
  <2> DEFINE w == [v EXCEPT ![c] = n]
  <2>3. \A d \in Conns : (w[d] > 0 <=> v[d] > 0) /\ Index(w[d]) = Index(v[d])
    <3>1. w[c] = n /\ \A d \in Conns \ {c} : w[d] = v[d]
      OBVIOUS
    <3> HIDE DEF w
    <3> QED  BY <1>5, <2>2, <3>1
  <2> HIDE DEF w
  <2>4. Filed(b, w)
    BY <2>3 DEF Filed
  <2> QED  BY <2>1, <2>4 DEF w
<1>6. CASE ~(b.at[c] # None /\ n > 0 /\ b.at[c][1] = Index(n)) /\ n > 0
  <2>1. BucketUpdate(b, c, n) = PushIntoBucket(out, c, Index(n))
    BY <1>6 DEF BucketUpdate
  <2> HIDE DEF out, u
  <2>2. /\ PushIntoBucket(out, c, Index(n)) \in Lists
        /\ Filed(PushIntoBucket(out, c, Index(n)), [u EXCEPT ![c] = n])
    BY <1>2, <1>3, <1>6, FilePush
  <2> QED  BY <1>4, <2>1, <2>2
<1>7. CASE ~(n > 0)
  <2>1. BucketUpdate(b, c, n) = out
    BY <1>7 DEF BucketUpdate
  <2>2. n = 0
    BY <1>1, <1>7
  <2> QED  BY <1>3, <2>1, <2>2
<1> QED  BY <1>5, <1>6, <1>7

-----------------------------------------------------------------------------
(* The invariant. *)

(* Statistics, and what is to be set at the next poll.                     *)
Stats   == [Conns -> [tag : {"Disabled", "Enabled", "MarkedForDisable"}, val : Val]]
Updates == [Conns -> Val \cup {None}]

TypeOK ==
  /\ kind \in {"recv", "rps"}
  /\ life \in [Conns -> {"none", "open", "ended", "moving"}]
  /\ load \in [Conns -> Val]
  /\ stat \in Stats
  /\ toUpdate \in Updates
  /\ handles \in Seq(Conns)
  /\ BucketVars \in Lists
  /\ global \in Nat
  /\ allowance \in Int \cup {None}
  /\ signal \in Thresholds \cup {Calm, None}
  /\ phase \in {"work", "polled"}
  /\ panicked \in BOOLEAN

(* The statistics of the handles, as one value.                            *)
Value(st) == [c \in Conns |-> st[c].val]

(* The list to poll and the buckets hold the handles that are not disabled.*)
Listed(hs, st, b) ==
  /\ IsInjective(hs)
  /\ \A c \in Conns : /\ st[c].tag # "Disabled" <=> c \in ToSet(hs)
                      /\ st[c].tag = "Disabled" => st[c].val = 0
  /\ Filed(b, Value(st))

(* What a handle says of the connection it belongs to.                     *)
Living(c) ==
  /\ IsEnabled(c) => life[c] \in {"open", "ended"} /\ Expected(c) = load[c]
  /\ stat[c].tag = "Disabled" => life[c] = "none"

(* Between poll_stats and the signal nothing is marked or to be updated.   *)
Fresh(st, up, c) ==
  st[c].tag = "Enabled" /\ up[c] = None

(* The invariant: the lists agree, global_stat is the sum of what they hold,*)
(* a handle says the truth about a connection that lives, and a handle that*)
(* has just been polled is enabled and up to date.                         *)
PolicyInv ==
  /\ TypeOK
  /\ Listed(handles, stat, BucketVars)
  /\ global = SumOn(Value(stat), ToSet(handles))
  /\ \A c \in Conns : Living(c)
  /\ phase = "polled" => \A c \in ToSet(handles) : Fresh(stat, toUpdate, c)
  /\ kind = "recv" => signal = None
  /\ ~panicked

-----------------------------------------------------------------------------
(* Stats::poll: what holds after m turns of its loop.                      *)

(* What a turn works on.                                                   *)
PollStates == [i : Nat \ {0}, handles : Seq(Conns), b : Lists, global : Nat,
               stat : Stats, toUpdate : Updates, ok : BOOLEAN]

(* The value a handle will have once it is polled.                         *)
AtPoll(st, up, c) == IF up[c] # None THEN up[c] ELSE st[c].val

(* Polling changes neither who is enabled nor what its load is.            *)
SameLoad(p, c) ==
  /\ p.stat[c].tag = "Enabled" <=> stat[c].tag = "Enabled"
  /\ stat[c].tag = "Enabled" => AtPoll(p.stat, p.toUpdate, c) = Expected(c)

(* After m turns: the handles before position i have been polled or dropped.*)
TurnInv(p, m) ==
  /\ p \in PollStates /\ p.ok
  /\ p.i <= Len(p.handles) + 1
  /\ (p.i - 1) + (Len(handles) - Len(p.handles)) = m
  /\ Listed(p.handles, p.stat, p.b)
  /\ p.global = SumOn(Value(p.stat), ToSet(p.handles))
  /\ \A k \in 1..(p.i - 1) : Fresh(p.stat, p.toUpdate, p.handles[k])
  /\ \A c \in Conns : SameLoad(p, c)

(* The elements of a list are finitely many.                               *)
LEMMA FiniteList == ASSUME NEW s \in Seq(Conns) PROVE IsFiniteSet(ToSet(s)) /\ ToSet(s) \subseteq Conns
<1>1. Len(s) \in Nat /\ DOMAIN s = 1..Len(s) /\ \A k \in 1..Len(s) : s[k] \in Conns
  OBVIOUS
<1>2. ToSet(s) \subseteq Conns
  BY <1>1 DEF ToSet
<1> DEFINE f == [k \in 1..Len(s) |-> s[k]]
<1>3. f \in Surjection(1..Len(s), ToSet(s))
  BY <1>1 DEF Surjection, ToSet
<1>4. IsFiniteSet(1..Len(s))
  BY <1>1, FS_Interval
<1>5. IsFiniteSet(ToSet(s))
  BY <1>3, <1>4, FS_Surjection
<1> QED  BY <1>2, <1>5

(* Values are numbers, and none of them is None.                           *)
LEMMA ValuesAreLoads ==
  ASSUME kind \in {"recv", "rps"}, NEW st \in Stats
  PROVE  /\ Value(st) \in [Conns -> Val]
         /\ \A c \in Conns : Value(st)[c] = st[c].val /\ st[c].val \in Nat
         /\ Val \subseteq Nat /\ 0 \in Val /\ None \notin Val
BY IndexOf, PolicyAssumption DEF Value, Stats, Val

(* A handle that is dropped.                                               *)
LEMMA DropIs ==
  ASSUME NEW p \in PollStates, NEW c \in Conns, p.ok, p.global >= p.stat[c].val
  PROVE  DropHandle(p, c) =
           [i |-> p.i, handles |-> SwapRemove(p.handles, p.i),
            b |-> IF p.b.at[c] = None THEN p.b ELSE BucketRemove(p.b, p.b.at[c]),
            global |-> p.global - p.stat[c].val,
            stat |-> [p.stat EXCEPT ![c] = Disabled],
            toUpdate |-> p.toUpdate, ok |-> TRUE]
<1> DEFINE ok == p.ok /\ p.global >= p.stat[c].val
<1>1. ok = TRUE
  OBVIOUS
<1>2. DropHandle(p, c) =
        [p EXCEPT !.handles = SwapRemove(p.handles, p.i),
                  !.b = IF p.b.at[c] = None THEN p.b ELSE BucketRemove(p.b, p.b.at[c]),
                  !.stat[c] = Disabled,
                  !.global = p.global - p.stat[c].val,
                  !.ok = ok]
  BY DEF DropHandle
<1> HIDE DEF ok
<1> QED  BY <1>1, <1>2 DEF PollStates

(* A handle that is stepped over.                                          *)
LEMMA UpdateIs ==
  ASSUME NEW p \in PollStates, NEW c \in Conns, NEW n, n = p.toUpdate[c]
  PROVE  /\ n = None \/ n = p.stat[c].val =>
              UpdateHandle(p, c) = [p EXCEPT !.i = p.i + 1,
                                             !.toUpdate = [p.toUpdate EXCEPT ![c] = None]]
         /\ ~(n = None \/ n = p.stat[c].val) =>
              UpdateHandle(p, c) =
                [i |-> p.i + 1, handles |-> p.handles, b |-> BucketUpdate(p.b, c, n),
                 global |-> p.global + n - p.stat[c].val,
                 stat |-> [p.stat EXCEPT ![c] = Enabled(n)],
                 toUpdate |-> [p.toUpdate EXCEPT ![c] = None], ok |-> p.ok]
BY DEF UpdateHandle, PollStates

(* The handle a turn polls: it is not disabled, and the sum contains it.   *)
LEMMA TurnHead ==
  ASSUME kind \in {"recv", "rps"}, handles \in Seq(Conns),
         NEW m \in Nat, m < Len(handles), NEW p, TurnInv(p, m)
  PROVE  /\ p.i \in 1..Len(p.handles) /\ Len(p.handles) \in Nat
         /\ p.handles[p.i] \in Conns /\ p.handles[p.i] \in ToSet(p.handles)
         /\ p.stat[p.handles[p.i]].tag # "Disabled"
         /\ p.global \in Nat
         /\ p.global >= p.stat[p.handles[p.i]].val
<1>1. /\ p \in PollStates /\ p.i \in Nat \ {0} /\ p.handles \in Seq(Conns) /\ p.stat \in Stats
      /\ p.global \in Nat
  BY DEF TurnInv, PollStates
<1>2. Len(p.handles) \in Nat /\ Len(handles) \in Nat
  BY <1>1
<1>3. p.i \in 1..Len(p.handles)
  BY <1>1, <1>2 DEF TurnInv
<1> DEFINE c == p.handles[p.i]
<1>4. c \in Conns /\ c \in ToSet(p.handles)
  BY <1>1, <1>3 DEF ToSet
<1> HIDE DEF c
<1>5. p.stat[c].tag # "Disabled"
  BY <1>4 DEF TurnInv, Listed
<1>6. p.global = p.stat[c].val + SumOn(Value(p.stat), ToSet(p.handles) \ {c})
  <2>1. \A x \in ToSet(p.handles) : Value(p.stat)[x] \in Nat
    BY <1>1, FiniteList, ValuesAreLoads
  <2>2. SumOn(Value(p.stat), ToSet(p.handles)) =
          Value(p.stat)[c] + SumOn(Value(p.stat), ToSet(p.handles) \ {c})
    BY <1>1, <1>4, <2>1, FiniteList, SumRemove
  <2>3. Value(p.stat)[c] = p.stat[c].val
    BY <1>1, <1>4, ValuesAreLoads
  <2> QED  BY <2>2, <2>3 DEF TurnInv
<1>7. SumOn(Value(p.stat), ToSet(p.handles) \ {c}) \in Nat
  <2>1. \A x \in ToSet(p.handles) \ {c} : Value(p.stat)[x] \in Nat
    BY <1>1, FiniteList, ValuesAreLoads
  <2>2. IsFiniteSet(ToSet(p.handles) \ {c})
    BY <1>1, FiniteList, FS_RemoveElement
  <2> QED  BY <2>1, <2>2, SumNat
<1>8. p.stat[c].val \in Nat
  BY <1>1, <1>4, ValuesAreLoads
<1>9. p.global >= p.stat[c].val
  BY <1>6, <1>7, <1>8
<1> QED  BY <1>1, <1>2, <1>3, <1>4, <1>5, <1>9 DEF c

(* A turn that drops a handle.                                             *)
LEMMA TurnDrop ==
  ASSUME kind \in {"recv", "rps"}, handles \in Seq(Conns), stat \in Stats,
         NEW m \in Nat, m < Len(handles), NEW p, TurnInv(p, m),
         p.stat[p.handles[p.i]].tag = "MarkedForDisable"
  PROVE  TurnInv(PollHandle(p), m + 1)
<1> DEFINE c == p.handles[p.i]
           r == PollHandle(p)
<1>1. /\ p.i \in 1..Len(p.handles) /\ Len(p.handles) \in Nat
      /\ c \in Conns /\ c \in ToSet(p.handles)
      /\ p.stat[c].tag # "Disabled" /\ p.global \in Nat /\ p.global >= p.stat[c].val
  BY TurnHead
<1>2. /\ p \in PollStates /\ p.ok /\ p.handles \in Seq(Conns) /\ p.stat \in Stats
      /\ p.b \in Lists /\ p.toUpdate \in Updates /\ p.i \in Nat \ {0}
      /\ Listed(p.handles, p.stat, p.b) /\ \A d \in Conns : SameLoad(p, d)
      /\ IsInjective(p.handles)
  BY DEF TurnInv, PollStates, Listed
<1>3. r = DropHandle(p, c)
  BY DEF PollHandle
<1> DEFINE hs == SwapRemove(p.handles, p.i)
           b  == IF p.b.at[c] = None THEN p.b ELSE BucketRemove(p.b, p.b.at[c])
           st == [p.stat EXCEPT ![c] = Disabled]
<1> HIDE DEF c
<1>4. /\ r.i = p.i /\ r.handles = hs /\ r.b = b /\ r.global = p.global - p.stat[c].val
      /\ r.stat = st /\ r.toUpdate = p.toUpdate /\ r.ok = TRUE
      /\ r = [i |-> r.i, handles |-> r.handles, b |-> r.b, global |-> r.global,
              stat |-> r.stat, toUpdate |-> r.toUpdate, ok |-> r.ok]
  BY <1>1, <1>2, <1>3, DropIs
<1>5. /\ hs \in Seq(Conns) /\ Len(hs) = Len(p.handles) - 1
      /\ \A k \in 1..(Len(p.handles) - 1) :
            hs[k] = IF k = p.i THEN p.handles[Len(p.handles)] ELSE p.handles[k]
      /\ IsInjective(hs) /\ ToSet(hs) = ToSet(p.handles) \ {c}
  BY <1>1, <1>2, SwapRemoveIs, SwapRemoveSet DEF c
<1>6. /\ st \in Stats /\ st[c] = Disabled /\ \A d \in Conns \ {c} : st[d] = p.stat[d]
  BY <1>1, <1>2, ValuesAreLoads DEF Stats, Disabled
<1> DEFINE v == Value(p.stat)
<1>7. /\ v \in [Conns -> Val] /\ v[c] = p.stat[c].val
      /\ \A d \in Conns : v[d] \in Nat
      /\ Value(st) = [v EXCEPT ![c] = 0]
  <2>1. v \in [Conns -> Val] /\ v[c] = p.stat[c].val /\ \A d \in Conns : v[d] \in Nat
    BY <1>1, <1>2, ValuesAreLoads
  <2>2. Value(st) = [v EXCEPT ![c] = 0]
    <3>1. \A d \in Conns : st[d].val = IF d = c THEN 0 ELSE p.stat[d].val
      BY <1>6 DEF Disabled
    <3> HIDE DEF st
    <3> QED  BY <3>1 DEF Value
  <2> QED  BY <2>1, <2>2
<1> HIDE DEF r, hs, st, v
<1>8. b \in Lists /\ Filed(b, Value(st))
  <2>1. Filed(p.b, v)
    BY <1>2 DEF Listed, v
  <2>2. CASE p.b.at[c] # None
    <3>1. /\ BucketRemove(p.b, p.b.at[c]) \in Lists
          /\ Filed(BucketRemove(p.b, p.b.at[c]), [v EXCEPT ![c] = 0])
      BY <1>1, <1>2, <1>7, <2>1, <2>2, FileRemove
    <3>2. b = BucketRemove(p.b, p.b.at[c])
      BY <2>2
    <3> QED  BY <1>7, <3>1, <3>2
  <2>3. CASE p.b.at[c] = None
    <3>1. v[c] = 0
      BY <1>1, <1>7, <2>1, <2>3 DEF Filed
    <3>2. [v EXCEPT ![c] = 0] = v
      BY <1>7, <3>1
    <3> QED  BY <1>2, <1>7, <2>1, <2>3, <3>2
  <2> QED  BY <2>2, <2>3
<1> HIDE DEF b
<1>9. Listed(hs, st, b)
  <2>1. ASSUME NEW d \in Conns
        PROVE  /\ st[d].tag # "Disabled" <=> d \in ToSet(hs)
               /\ st[d].tag = "Disabled" => st[d].val = 0
    <3>1. CASE d = c
      BY <3>1, <1>5, <1>6 DEF Disabled
    <3>2. CASE d # c
      BY <3>2, <1>2, <1>5, <1>6 DEF Listed
    <3> QED  BY <3>1, <3>2
  <2> QED  BY <1>5, <1>8, <2>1 DEF Listed
<1>10. r.global = SumOn(Value(st), ToSet(hs)) /\ r.global \in Nat
  <2>1. IsFiniteSet(ToSet(p.handles)) /\ ToSet(p.handles) \subseteq Conns
    BY <1>2, FiniteList
  <2>2. SumOn(v, ToSet(p.handles)) = v[c] + SumOn(v, ToSet(p.handles) \ {c})
    BY <1>1, <1>7, <2>1, SumRemove
  <2>3. IsFiniteSet(ToSet(hs)) /\ ToSet(hs) \subseteq Conns
    BY <1>5, FiniteList
  <2>4. SumOn(v, ToSet(hs)) = SumOn(Value(st), ToSet(hs))
    <3>1. \A x \in ToSet(hs) : v[x] = Value(st)[x]
      BY <1>5, <1>7, <2>3
    <3> QED  BY <2>3, <3>1, SumSame
  <2>5. SumOn(v, ToSet(hs)) \in Nat
    BY <1>7, <2>3, SumNat
  <2>6. p.global = SumOn(v, ToSet(p.handles))
    BY DEF TurnInv, v
  <2>7. r.global = p.global - v[c] /\ v[c] \in Nat
    BY <1>1, <1>4, <1>7
  <2> QED  BY <1>5, <2>2, <2>4, <2>5, <2>6, <2>7
<1>11. r \in PollStates
  BY <1>2, <1>4, <1>5, <1>6, <1>8, <1>10 DEF PollStates
<1>12. ASSUME NEW k \in 1..(r.i - 1) PROVE Fresh(r.stat, r.toUpdate, r.handles[k])
  <2>1. k \in 1..(p.i - 1) /\ k \in 1..(Len(p.handles) - 1) /\ k # p.i /\ k \in 1..Len(p.handles)
    BY <1>1, <1>2, <1>4
  <2>2. hs[k] = p.handles[k] /\ p.handles[k] \in Conns
    BY <1>2, <1>5, <2>1
  <2>3. p.handles[k] # c
    BY <1>1, <1>2, <2>1 DEF c, IsInjective
  <2>4. Fresh(p.stat, p.toUpdate, p.handles[k])
    BY <2>1 DEF TurnInv
  <2> QED  BY <1>4, <1>6, <2>2, <2>3, <2>4 DEF Fresh
<1>13. ASSUME NEW d \in Conns PROVE SameLoad(r, d)
  <2>1. SameLoad(p, d)
    BY <1>2
  <2>2. CASE d = c
    <3>1. stat[c].tag # "Enabled"
      BY <2>1, <2>2 DEF SameLoad, c
    <3>2. r.stat[c].tag # "Enabled"
      BY <1>4, <1>6 DEF Disabled
    <3> QED  BY <2>2, <3>1, <3>2 DEF SameLoad
  <2>3. CASE d # c
    <3>1. r.stat[d] = p.stat[d] /\ r.toUpdate = p.toUpdate
      BY <1>4, <1>6, <2>3
    <3> QED  BY <2>1, <3>1 DEF SameLoad, AtPoll
  <2> QED  BY <2>2, <2>3
<1>14. /\ r.i <= Len(r.handles) + 1
       /\ (r.i - 1) + (Len(handles) - Len(r.handles)) = m + 1
  <2>1. (p.i - 1) + (Len(handles) - Len(p.handles)) = m
    BY DEF TurnInv
  <2>2. PICK n \in Nat : Len(handles) = n
    OBVIOUS
  <2>3. PICK l \in Nat : Len(p.handles) = l
    BY <1>1
  <2>4. Len(r.handles) = l - 1 /\ r.i = p.i /\ p.i \in 1..l
    BY <1>1, <1>4, <1>5, <2>3
  <2> QED  BY <2>1, <2>2, <2>3, <2>4
<1>15. TurnInv(r, m + 1)
  BY <1>4, <1>9, <1>10, <1>11, <1>12, <1>13, <1>14 DEF TurnInv
<1> QED  BY <1>15 DEF r

(* A turn that keeps a handle, with its new value if it has one.           *)
LEMMA TurnKeep ==
  ASSUME kind \in {"recv", "rps"}, handles \in Seq(Conns), stat \in Stats,
         NEW m \in Nat, m < Len(handles), NEW p, TurnInv(p, m),
         p.stat[p.handles[p.i]].tag # "MarkedForDisable"
  PROVE  TurnInv(PollHandle(p), m + 1)
<1> DEFINE c == p.handles[p.i]
           n == IF p.toUpdate[c] = None THEN p.stat[c].val ELSE p.toUpdate[c]
           r == PollHandle(p)
<1>1. /\ p.i \in 1..Len(p.handles) /\ Len(p.handles) \in Nat
      /\ c \in Conns /\ c \in ToSet(p.handles)
      /\ p.stat[c].tag # "Disabled" /\ p.global \in Nat
  BY TurnHead
<1>2. /\ p \in PollStates /\ p.ok /\ p.handles \in Seq(Conns) /\ p.stat \in Stats
      /\ p.b \in Lists /\ p.toUpdate \in Updates /\ p.i \in Nat \ {0}
      /\ Listed(p.handles, p.stat, p.b) /\ \A d \in Conns : SameLoad(p, d)
      /\ IsInjective(p.handles)
  BY DEF TurnInv, PollStates, Listed
<1>3. p.stat[c].tag = "Enabled"
  <2>1. p.stat[c].tag \in {"Disabled", "Enabled", "MarkedForDisable"}
    BY <1>1, <1>2 DEF Stats
  <2> QED  BY <1>1, <2>1
<1>4. r = UpdateHandle(p, c)
  BY <1>3 DEF PollHandle
<1> HIDE DEF c
<1>5. n \in Val /\ n \in Nat /\ p.stat[c].val \in Nat /\ n = AtPoll(p.stat, p.toUpdate, c)
  BY <1>1, <1>2, ValuesAreLoads DEF Stats, Updates, AtPoll
<1> DEFINE up == [p.toUpdate EXCEPT ![c] = None]
           st == [p.stat EXCEPT ![c] = Enabled(n)]
           v  == Value(p.stat)
<1>6. /\ st \in Stats /\ st[c].tag = "Enabled" /\ st[c].val = n
      /\ \A d \in Conns \ {c} : st[d] = p.stat[d]
      /\ up \in Updates /\ up[c] = None
      /\ \A d \in Conns \ {c} : up[d] = p.toUpdate[d]
  BY <1>1, <1>2, <1>5 DEF Stats, Updates, Enabled
<1>7. /\ v \in [Conns -> Val] /\ v[c] = p.stat[c].val
      /\ \A d \in Conns : v[d] \in Nat
      /\ Value(st) = [v EXCEPT ![c] = n]
  <2>1. v \in [Conns -> Val] /\ v[c] = p.stat[c].val /\ \A d \in Conns : v[d] \in Nat
    BY <1>1, <1>2, ValuesAreLoads
  <2>2. Value(st) = [v EXCEPT ![c] = n]
    <3>1. \A d \in Conns : st[d].val = IF d = c THEN n ELSE p.stat[d].val
      BY <1>6
    <3> HIDE DEF st, n
    <3> QED  BY <3>1 DEF Value
  <2> QED  BY <2>1, <2>2
<1>8. Filed(p.b, v)
  BY <1>2 DEF Listed, v
(* If the value has not changed, writing it again changes nothing.         *)
<1>9. /\ r.i = p.i + 1 /\ r.handles = p.handles /\ r.stat = st /\ r.toUpdate = up
      /\ r.ok = p.ok /\ r.global = p.global + n - p.stat[c].val
      /\ r.b \in Lists /\ Filed(r.b, Value(st))
      /\ r = [i |-> r.i, handles |-> r.handles, b |-> r.b, global |-> r.global,
              stat |-> r.stat, toUpdate |-> r.toUpdate, ok |-> r.ok]
  <2>1. CASE p.toUpdate[c] = None \/ p.toUpdate[c] = p.stat[c].val
    <3>1. n = p.stat[c].val
      BY <2>1
    <3>2. r = [p EXCEPT !.i = p.i + 1, !.toUpdate = up]
      BY <1>1, <1>2, <1>4, <2>1, UpdateIs
    <3>3. st = p.stat
      <4>1. p.stat[c] = Enabled(n)
        BY <1>1, <1>2, <1>3, <3>1 DEF Stats, Enabled
      <4> QED  BY <1>1, <1>2, <4>1 DEF Stats
    <3> HIDE DEF r, n, st, up, v
    <3>4. /\ r.i = p.i + 1 /\ r.handles = p.handles /\ r.stat = p.stat /\ r.toUpdate = up
          /\ r.ok = p.ok /\ r.global = p.global /\ r.b = p.b
          /\ r = [i |-> r.i, handles |-> r.handles, b |-> r.b, global |-> r.global,
                  stat |-> r.stat, toUpdate |-> r.toUpdate, ok |-> r.ok]
      BY <1>2, <3>2 DEF PollStates
    <3>5. Value(st) = v
      BY <3>3 DEF v
    <3> QED  BY <1>1, <1>2, <1>5, <1>8, <3>1, <3>3, <3>4, <3>5
  <2>2. CASE ~(p.toUpdate[c] = None \/ p.toUpdate[c] = p.stat[c].val)
    <3>1. n = p.toUpdate[c]
      BY <2>2
    <3>2. r = [i |-> p.i + 1, handles |-> p.handles, b |-> BucketUpdate(p.b, c, n),
               global |-> p.global + n - p.stat[c].val,
               stat |-> st, toUpdate |-> up, ok |-> p.ok]
      <4> HIDE DEF r, n
      <4> QED  BY <1>1, <1>2, <1>4, <2>2, <3>1, UpdateIs
    <3> HIDE DEF r, n, st, up, v
    <3>3. /\ BucketUpdate(p.b, c, n) \in Lists
          /\ Filed(BucketUpdate(p.b, c, n), [v EXCEPT ![c] = n])
      BY <1>1, <1>2, <1>5, <1>7, <1>8, FileUpdate
    <3> QED  BY <1>7, <3>2, <3>3
  <2> QED  BY <2>1, <2>2
<1> HIDE DEF r, n, st, up, v
<1>10. Listed(p.handles, st, r.b)
  <2>1. ASSUME NEW d \in Conns
        PROVE  /\ st[d].tag # "Disabled" <=> d \in ToSet(p.handles)
               /\ st[d].tag = "Disabled" => st[d].val = 0
    <3>1. CASE d = c
      BY <3>1, <1>1, <1>6
    <3>2. CASE d # c
      BY <3>2, <1>2, <1>6 DEF Listed
    <3> QED  BY <3>1, <3>2
  <2> QED  BY <1>2, <1>9, <2>1 DEF Listed
<1>11. r.global = SumOn(Value(st), ToSet(p.handles)) /\ r.global \in Nat
  <2>1. IsFiniteSet(ToSet(p.handles)) /\ ToSet(p.handles) \subseteq Conns
    BY <1>2, FiniteList
  <2> DEFINE e == Value(st)
  <2>2. e[c] = n /\ \A d \in Conns : e[d] \in Nat /\ (d # c => e[d] = v[d])
    BY <1>1, <1>5, <1>7
  <2> HIDE DEF e
  <2>3. SumOn(e, ToSet(p.handles)) = SumOn(v, ToSet(p.handles)) + e[c] - v[c]
    BY <1>1, <1>7, <2>1, <2>2, SumChange
  <2>4. SumOn(e, ToSet(p.handles)) \in Nat
    BY <2>1, <2>2, SumNat
  <2>5. p.global = SumOn(v, ToSet(p.handles))
    BY DEF TurnInv, v
  <2> QED  BY <1>7, <1>9, <2>2, <2>3, <2>4, <2>5 DEF e
<1>12. r \in PollStates
  <2>1. p.ok \in BOOLEAN /\ r.i \in Nat \ {0} /\ r.handles \in Seq(Conns)
        /\ r.stat \in Stats /\ r.toUpdate \in Updates /\ r.ok = p.ok
    BY <1>2, <1>6, <1>9 DEF PollStates
  <2> QED  BY <1>9, <1>11, <2>1 DEF PollStates
<1>13. ASSUME NEW k \in 1..(r.i - 1) PROVE Fresh(r.stat, r.toUpdate, r.handles[k])
  <2>1. k \in 1..p.i /\ k \in 1..Len(p.handles)
    BY <1>1, <1>2, <1>9
  <2>2. CASE k = p.i
    BY <2>2, <1>6, <1>9 DEF Fresh, c
  <2>3. CASE k # p.i
    <3>1. k \in 1..(p.i - 1)
      BY <1>2, <2>1, <2>3
    <3>2. Fresh(p.stat, p.toUpdate, p.handles[k])
      BY <3>1 DEF TurnInv
    <3>3. p.handles[k] \in Conns \ {c}
      BY <1>1, <1>2, <2>1, <2>3 DEF c, IsInjective
    <3> QED  BY <1>6, <1>9, <3>2, <3>3 DEF Fresh
  <2> QED  BY <2>2, <2>3
<1>14. ASSUME NEW d \in Conns PROVE SameLoad(r, d)
  <2>1. SameLoad(p, d)
    BY <1>2
  <2>2. CASE d = c
    <3>1. stat[c].tag = "Enabled" /\ n = Expected(c)
      BY <2>1, <2>2, <1>3, <1>5 DEF SameLoad
    <3>2. AtPoll(r.stat, r.toUpdate, c) = n
      BY <1>6, <1>9 DEF AtPoll
    <3> QED  BY <2>2, <3>1, <3>2, <1>6, <1>9 DEF SameLoad
  <2>3. CASE d # c
    <3>1. r.stat[d] = p.stat[d] /\ r.toUpdate[d] = p.toUpdate[d]
      BY <1>6, <1>9, <2>3
    <3> QED  BY <2>1, <3>1 DEF SameLoad, AtPoll
  <2> QED  BY <2>2, <2>3
<1>15. /\ r.i <= Len(r.handles) + 1
       /\ (r.i - 1) + (Len(handles) - Len(r.handles)) = m + 1
  <2>1. (p.i - 1) + (Len(handles) - Len(p.handles)) = m
    BY DEF TurnInv
  <2>2. PICK l \in Nat : Len(handles) = l
    OBVIOUS
  <2>3. PICK k \in Nat : Len(p.handles) = k
    BY <1>1
  <2>4. Len(r.handles) = k /\ r.i = p.i + 1 /\ p.i \in 1..k
    BY <1>1, <1>9, <2>3
  <2> QED  BY <2>1, <2>2, <2>3, <2>4
<1>16. TurnInv(r, m + 1)
  BY <1>2, <1>9, <1>10, <1>11, <1>12, <1>13, <1>14, <1>15 DEF TurnInv
<1> QED  BY <1>16 DEF r

(* The loop.                                                               *)
LEMMA PollLoop ==
  ASSUME PolicyInv
  PROVE  TurnInv(AllPolled, Len(handles)) /\ AllPolled.i = Len(AllPolled.handles) + 1
<1>1. kind \in {"recv", "rps"} /\ handles \in Seq(Conns) /\ stat \in Stats
  BY DEF PolicyInv, TypeOK
<1>2. PICK h : Turns(h, Len(handles)) /\ AllPolled = h[Len(handles)]
  BY <1>1, PollTurns
<1>3. TurnInv(Polled, 0)
  <2>1. Polled \in PollStates
    BY DEF PolicyInv, TypeOK, Polled, PollStates
  <2>2. Listed(handles, stat, BucketVars) /\ global = SumOn(Value(stat), ToSet(handles))
    BY DEF PolicyInv
  <2>3. \A c \in Conns : SameLoad(Polled, c)
    BY DEF SameLoad, AtPoll, Expected, Polled
  <2>4. 1 <= Len(handles) + 1 /\ (1 - 1) + (Len(handles) - Len(handles)) = 0
    <3>1. PICK l \in Nat : Len(handles) = l
      BY <1>1
    <3> QED  BY <3>1
  <2>5. /\ Polled.i = 1 /\ Polled.handles = handles /\ Polled.stat = stat
        /\ Polled.b = BucketVars /\ Polled.global = global /\ Polled.ok
    BY DEF Polled
  <2> QED  BY <2>1, <2>2, <2>3, <2>4, <2>5 DEF TurnInv
<1> DEFINE T == {m \in Nat : m <= Len(handles) => TurnInv(h[m], m)}
<1>4. 0 \in T
  BY <1>2, <1>3 DEF Turns
<1>5. ASSUME NEW m \in Nat, m \in T PROVE m + 1 \in T
  <2> SUFFICES ASSUME m + 1 <= Len(handles) PROVE TurnInv(h[m + 1], m + 1)
    OBVIOUS
  <2>1. m < Len(handles) /\ m <= Len(handles) /\ m + 1 \in 1..Len(handles) /\ (m + 1) - 1 = m
    <3>1. PICK l \in Nat : Len(handles) = l
      BY <1>1
    <3> QED  BY <3>1
  <2>2. TurnInv(h[m], m)
    BY <1>5, <2>1
  <2>3. h[m + 1] = PollHandle(h[m])
    BY <1>2, <2>1 DEF Turns
  <2> QED  BY <1>1, <2>1, <2>2, <2>3, TurnDrop, TurnKeep
<1>6. Len(handles) \in T
  <2>1. Len(handles) \in Nat
    BY <1>1
  <2> HIDE DEF T
  <2> QED  BY <1>4, <1>5, <2>1, Induction
<1>7. TurnInv(AllPolled, Len(handles))
  <2>1. Len(handles) \in Nat /\ Len(handles) <= Len(handles)
    BY <1>1
  <2> QED  BY <1>2, <1>6, <2>1
<1>8. AllPolled.i = Len(AllPolled.handles) + 1
  <2>1. PICK l \in Nat : Len(handles) = l
    BY <1>1
  <2>2. AllPolled.handles \in Seq(Conns) /\ AllPolled.i \in Nat
    BY <1>7 DEF TurnInv, PollStates
  <2>3. PICK k \in Nat : Len(AllPolled.handles) = k
    BY <2>2
  <2>4. (AllPolled.i - 1) + (l - k) = l
    BY <1>7, <2>1, <2>3 DEF TurnInv
  <2> QED  BY <2>2, <2>3, <2>4
<1> QED  BY <1>7, <1>8

-----------------------------------------------------------------------------
(* The connections that are considered, in order.                          *)

(* Two lists that share nothing, one after the other.                      *)
LEMMA ConcatSet ==
  ASSUME NEW a \in Seq(Conns), NEW b \in Seq(Conns), IsInjective(a), IsInjective(b),
         ToSet(a) \cap ToSet(b) = {}
  PROVE  /\ a \o b \in Seq(Conns) /\ IsInjective(a \o b)
         /\ ToSet(a \o b) = ToSet(a) \cup ToSet(b)
<1>1. PICK m \in Nat : Len(a) = m /\ DOMAIN a = 1..m
  OBVIOUS
<1>2. PICK n \in Nat : Len(b) = n /\ DOMAIN b = 1..n
  OBVIOUS
<1> DEFINE r == a \o b
<1>3. /\ r \in Seq(Conns) /\ DOMAIN r = 1..(m + n)
      /\ \A k \in 1..(m + n) : r[k] = IF k <= m THEN a[k] ELSE b[k - m]
  BY <1>1, <1>2
<1> HIDE DEF r
<1>4. ASSUME NEW k \in 1..(m + n)
      PROVE  \/ k \in 1..m /\ r[k] = a[k] /\ r[k] \in ToSet(a)
             \/ k - m \in 1..n /\ r[k] = b[k - m] /\ r[k] \in ToSet(b)
  <2>1. CASE k <= m
    BY <2>1, <1>1, <1>3 DEF ToSet
  <2>2. CASE ~(k <= m)
    <3>1. k - m \in 1..n
      BY <2>2
    <3> QED  BY <2>2, <3>1, <1>2, <1>3 DEF ToSet
  <2> QED  BY <2>1, <2>2
<1>5. IsInjective(r)
  <2> SUFFICES ASSUME NEW j \in 1..(m + n), NEW k \in 1..(m + n), r[j] = r[k] PROVE j = k
    BY <1>3 DEF IsInjective
  <2>1. CASE j \in 1..m /\ r[j] = a[j] /\ r[j] \in ToSet(a)
    <3>1. k \in 1..m /\ r[k] = a[k]
      BY <1>4, <2>1
    <3> QED  BY <1>1, <2>1, <3>1 DEF IsInjective
  <2>2. CASE j - m \in 1..n /\ r[j] = b[j - m] /\ r[j] \in ToSet(b)
    <3>1. k - m \in 1..n /\ r[k] = b[k - m]
      BY <1>4, <2>2
    <3>2. j - m = k - m
      BY <1>2, <2>2, <3>1 DEF IsInjective
    <3> QED  BY <3>2
  <2> QED  BY <1>4, <2>1, <2>2
<1>6. ToSet(r) \subseteq ToSet(a) \cup ToSet(b)
  BY <1>3, <1>4 DEF ToSet
<1>7. ASSUME NEW x \in ToSet(a) PROVE x \in ToSet(r)
  <2>1. PICK k \in 1..m : x = a[k]
    BY <1>1 DEF ToSet
  <2>2. k \in 1..(m + n) /\ k <= m
    OBVIOUS
  <2>3. r[k] = x
    BY <1>3, <2>1, <2>2
  <2> QED  BY <1>3, <2>2, <2>3 DEF ToSet
<1>8. ASSUME NEW x \in ToSet(b) PROVE x \in ToSet(r)
  <2>1. PICK k \in 1..n : x = b[k]
    BY <1>2 DEF ToSet
  <2>2. m + k \in 1..(m + n) /\ ~(m + k <= m) /\ (m + k) - m = k
    OBVIOUS
  <2>3. r[m + k] = x
    BY <1>3, <2>1, <2>2
  <2> QED  BY <1>3, <2>2, <2>3 DEF ToSet
<1> QED  BY <1>3, <1>5, <1>6, <1>7, <1>8 DEF r

(* What FlattenSeq has joined after each list.                             *)
FlattenTable(g, ss, n) == g = [i \in 1..n |-> IF i = 1 THEN ss[i] ELSE g[i - 1] \o ss[i]]

(* The concatenation of a list of lists, list by list.                     *)
LEMMA FlattenTableIs ==
  ASSUME NEW g, NEW ss, NEW n
  PROVE  FlattenTable(g, ss, n) <=>
           /\ g = [i \in 1..n |-> g[i]]
           /\ \A i \in 1..n : g[i] = IF i = 1 THEN ss[i] ELSE g[i - 1] \o ss[i]
<1> DEFINE body(i) == IF i = 1 THEN ss[i] ELSE g[i - 1] \o ss[i]
<1>1. FlattenTable(g, ss, n) <=> g = [i \in 1..n |-> body(i)]
  BY DEF FlattenTable
<1>2. g = [i \in 1..n |-> body(i)] <=>
         g = [i \in 1..n |-> g[i]] /\ \A i \in 1..n : g[i] = body(i)
  <2> HIDE DEF body
  <2> QED  OBVIOUS
<1> QED  BY <1>1, <1>2

(* There is a table of its beginnings.                                     *)
LEMMA FlattenTableExists ==
  ASSUME NEW ss, NEW n \in Nat
  PROVE  \E g : FlattenTable(g, ss, n)
<1> DEFINE T == {m \in Nat : \E g : FlattenTable(g, ss, m)}
<1>1. 0 \in T
  <2> DEFINE g == [i \in 1..0 |-> ss[i]]
  <2>1. FlattenTable(g, ss, 0)
    <3>1. g = [i \in 1..0 |-> g[i]] /\ \A i \in 1..0 : FALSE
      OBVIOUS
    <3> HIDE DEF g
    <3> QED  BY <3>1, FlattenTableIs
  <2> QED  BY <2>1
<1>2. ASSUME NEW m \in Nat, m \in T PROVE m + 1 \in T
  <2>1. PICK g : FlattenTable(g, ss, m)
    BY <1>2
  <2> DEFINE next(i) == IF i <= m THEN g[i] ELSE IF i = 1 THEN ss[i] ELSE g[m] \o ss[i]
             h == [i \in 1..(m + 1) |-> next(i)]
  <2>2. ASSUME NEW i \in 1..(m + 1)
        PROVE  h[i] = IF i = 1 THEN ss[i] ELSE h[i - 1] \o ss[i]
    <3>1. CASE i <= m
      <4>1. i \in 1..m /\ h[i] = g[i]
        BY <3>1
      <4>2. i # 1 => h[i - 1] = g[i - 1]
        BY <3>1
      <4> HIDE DEF h
      <4> QED  BY <2>1, <4>1, <4>2, FlattenTableIs
    <3>2. CASE ~(i <= m)
      <4>1. i = m + 1
        BY <3>2
      <4>2. i # 1 => m \in 1..m /\ i - 1 = m /\ h[i - 1] = g[m]
        BY <4>1
      <4>3. h[i] = IF i = 1 THEN ss[i] ELSE g[m] \o ss[i]
        BY <3>2
      <4> HIDE DEF h
      <4> QED  BY <4>2, <4>3
    <3> QED  BY <3>1, <3>2
  <2>3. h = [i \in 1..(m + 1) |-> h[i]]
    OBVIOUS
  <2>4. FlattenTable(h, ss, m + 1)
    <3> HIDE DEF h
    <3> QED  BY <2>2, <2>3, FlattenTableIs
  <2> QED  BY <2>4
<1>3. n \in T
  <2> HIDE DEF T
  <2> QED  BY <1>1, <1>2, Induction
<1> QED  BY <1>3

(* Lists without repetitions that have no element in common become one     *)
(* list without repetitions, of the elements of all of them.               *)
LEMMA FlattenIs ==
  ASSUME NEW n \in Nat \ {0}, NEW ss \in [1..n -> Seq(Conns)], Len(ss) = n,
         \A k \in 1..n : IsInjective(ss[k]),
         \A j, k \in 1..n : j # k => ToSet(ss[j]) \cap ToSet(ss[k]) = {}
  PROVE  /\ FlattenSeq(ss) \in Seq(Conns) /\ IsInjective(FlattenSeq(ss))
         /\ \A c : c \in ToSet(FlattenSeq(ss)) <=> \E k \in 1..n : c \in ToSet(ss[k])
<1> DEFINE g == CHOOSE t : FlattenTable(t, ss, n)
<1>1. FlattenTable(g, ss, n)
  BY FlattenTableExists
<1>2. FlattenSeq(ss) = g[n]
  <2>1. FlattenSeq(ss) = (CHOOSE t : t = [i \in 1..Len(ss) |->
             IF i = 1 THEN ss[i] ELSE t[i - 1] \o ss[i]])[Len(ss)]
    BY DEF FlattenSeq
  <2> QED  BY <2>1 DEF FlattenTable
<1> HIDE DEF g
<1> DEFINE Flat(m) ==
             /\ g[m] \in Seq(Conns) /\ IsInjective(g[m])
             /\ \A c : c \in ToSet(g[m]) <=> \E k \in 1..m : c \in ToSet(ss[k])
           T == {m \in Nat : m + 1 <= n => Flat(m + 1)}
<1>3. 0 \in T
  <2>1. g[1] = ss[1] /\ 1 \in 1..n
    BY <1>1, FlattenTableIs
  <2>2. \A k \in 1..1 : k = 1
    OBVIOUS
  <2> QED  BY <2>1, <2>2
<1>4. ASSUME NEW m \in Nat, m \in T PROVE m + 1 \in T
  <2> SUFFICES ASSUME (m + 1) + 1 <= n PROVE Flat((m + 1) + 1)
    OBVIOUS
  <2> DEFINE q == m + 1
  <2>1. q \in 1..n /\ q + 1 \in 1..n /\ q + 1 # 1 /\ (q + 1) - 1 = q /\ q <= n
    OBVIOUS
  <2>2. Flat(q)
    BY <1>4, <2>1
  <2> HIDE DEF q
  <2>3. g[q + 1] = g[q] \o ss[q + 1]
    BY <1>1, <2>1, FlattenTableIs
  <2>4. ToSet(g[q]) \cap ToSet(ss[q + 1]) = {}
    <3>1. \A k \in 1..q : k \in 1..n /\ k # q + 1
      BY <2>1
    <3> QED  BY <2>1, <2>2, <3>1
  <2>5. /\ g[q + 1] \in Seq(Conns) /\ IsInjective(g[q + 1])
        /\ ToSet(g[q + 1]) = ToSet(g[q]) \cup ToSet(ss[q + 1])
    BY <2>1, <2>2, <2>3, <2>4, ConcatSet
  <2>6. \A k : k \in 1..(q + 1) <=> k \in 1..q \/ k = q + 1
    BY <2>1
  <2>7. Flat(q + 1)
    BY <2>2, <2>5, <2>6
  <2> QED  BY <2>7 DEF q
<1>5. Flat(n)
  <2>1. n - 1 \in T
    <3>1. n - 1 \in Nat
      OBVIOUS
    <3> HIDE DEF T
    <3> QED  BY <1>3, <1>4, <3>1, Induction
  <2>2. (n - 1) + 1 = n
    OBVIOUS
  <2> QED  BY <2>1, <2>2
<1> QED  BY <1>2, <1>5

(* A list reversed has the same elements.                                  *)
LEMMA ReverseIs ==
  ASSUME NEW s \in Seq(Conns)
  PROVE  /\ Reverse(s) \in Seq(Conns) /\ ToSet(Reverse(s)) = ToSet(s)
         /\ IsInjective(s) => IsInjective(Reverse(s))
<1>1. PICK n \in Nat : Len(s) = n /\ DOMAIN s = 1..n
  OBVIOUS
<1> DEFINE r == Reverse(s)
<1>2. r = [i \in 1..n |-> s[(n - i) + 1]]
  BY <1>1 DEF Reverse
<1>3. \A i \in 1..n : (n - i) + 1 \in 1..n /\ (n - ((n - i) + 1)) + 1 = i
  OBVIOUS
<1>4. r \in Seq(Conns) /\ DOMAIN r = 1..n /\ \A i \in 1..n : r[i] = s[(n - i) + 1]
  BY <1>1, <1>2, <1>3
<1> HIDE DEF r
<1>5. ToSet(r) \subseteq ToSet(s)
  BY <1>1, <1>3, <1>4 DEF ToSet
<1>6. ToSet(s) \subseteq ToSet(r)
  <2> SUFFICES ASSUME NEW i \in 1..n PROVE s[i] \in ToSet(r)
    BY <1>1 DEF ToSet
  <2>1. r[(n - i) + 1] = s[i] /\ (n - i) + 1 \in DOMAIN r
    BY <1>3, <1>4
  <2> QED  BY <2>1 DEF ToSet
<1>7. ASSUME IsInjective(s) PROVE IsInjective(r)
  <2> SUFFICES ASSUME NEW i \in 1..n, NEW j \in 1..n, r[i] = r[j] PROVE i = j
    BY <1>4 DEF IsInjective
  <2>1. (n - i) + 1 = (n - j) + 1
    BY <1>1, <1>3, <1>4, <1>7 DEF IsInjective
  <2> QED  BY <2>1
<1> QED  BY <1>4, <1>5, <1>6, <1>7 DEF r

(* A function on 1..n is a list.                                           *)
LEMMA ListIs ==
  ASSUME NEW S, NEW n \in Nat, NEW s \in [1..n -> S]
  PROVE  s \in Seq(S) /\ Len(s) = n /\ DOMAIN s = 1..n
OBVIOUS

(* r is a, then b.                                                         *)
Joined(r, S, m, a, n, b) ==
  /\ r \in [1..(m + n) -> S] /\ Len(r) = m + n
  /\ \A k \in 1..m : r[k] = a[k]
  /\ \A k \in (m + 1)..(m + n) : r[k] = b[k - m]

(* Concatenation, element by element.                                      *)
LEMMA ConcatIs ==
  ASSUME NEW S, NEW m \in Nat, NEW n \in Nat, NEW a \in [1..m -> S], NEW b \in [1..n -> S]
  PROVE  Joined(a \o b, S, m, a, n, b)
<1>1. a \in Seq(S) /\ b \in Seq(S) /\ Len(a) = m /\ Len(b) = n
  BY ListIs
<1> DEFINE r == a \o b
<1>2. /\ r \in Seq(S) /\ Len(r) = m + n /\ DOMAIN r = 1..(m + n)
      /\ \A k \in 1..(m + n) : r[k] = IF k <= m THEN a[k] ELSE b[k - m]
  BY <1>1
<1> HIDE DEF r
<1>3. \A k \in 1..(m + n) : r[k] \in S
  BY <1>2
<1>4. r = [k \in 1..(m + n) |-> r[k]]
  BY <1>2
<1>5. r \in [1..(m + n) -> S]
  BY <1>3, <1>4
<1>6. /\ \A k \in 1..m : k \in 1..(m + n) /\ k <= m
      /\ \A k \in (m + 1)..(m + n) : k \in 1..(m + n) /\ ~(k <= m)
  OBVIOUS
<1> QED  BY <1>2, <1>5, <1>6 DEF r, Joined

(* The bucket that comes k-th, of n, when those from base on come first.   *)
KthBucket(k, base, n) == IF k <= n - base THEN (base + k) - 1 ELSE n - k

(* Every handle in a bucket is considered, once.                           *)
LEMMA ConsideredIs ==
  ASSUME kind \in {"recv", "rps"}, BucketVars \in Lists, NEW v, Filed(BucketVars, v),
         global \in Nat, NEW threshold \in Nat, global > threshold
  PROVE  /\ Considered(threshold) \in Seq(Conns) /\ IsInjective(Considered(threshold))
         /\ \A c : c \in ToSet(Considered(threshold)) <=> c \in Conns /\ position[c] # None
<1>1. PICK n \in Nat \ {0} : Cardinality(Indices) = n /\ Indices = 0..(n - 1)
  <2>1. MaxLoad \in Nat /\ 0..Index(MaxLoad) = Indices /\ Index(MaxLoad) \in Indices
        /\ Indices \subseteq Nat
    BY IndexOf DEF Indices, Val
  <2>2. Index(MaxLoad) \in Nat
    BY <2>1
  <2>3. Cardinality(0..Index(MaxLoad)) = Index(MaxLoad) + 1
    BY <2>2, FS_Interval
  <2>4. /\ Index(MaxLoad) + 1 \in Nat \ {0} /\ (Index(MaxLoad) + 1) - 1 = Index(MaxLoad)
    BY <2>2
  <2> QED  BY <2>1, <2>3, <2>4
<1>2. Index(global - threshold) \in Nat
  <2>1. global - threshold \in Nat /\ BucketSize \in Nat \ {0}
    BY PolicyAssumption
  <2>2. ASSUME NEW a \in Nat, NEW b \in Nat \ {0} PROVE a \div b \in Nat
    OBVIOUS
  <2> QED  BY <2>1, <2>2 DEF Index
<1>3. PICK base \in 0..n :
        Considered(threshold) = FlattenSeq(InOrder(base, n - 1) \o Reverse(InOrder(0, base - 1)))
  <2> DEFINE first == IF Index(global - threshold) < n THEN Index(global - threshold) ELSE n
  <2>1. first \in 0..n
    BY <1>2
  <2>2. Considered(threshold) =
          FlattenSeq(InOrder(first, n - 1) \o Reverse(InOrder(0, first - 1)))
    BY <1>1 DEF Considered
  <2> QED  BY <2>1, <2>2
<1> DEFINE right == InOrder(base, n - 1)
           left  == InOrder(0, base - 1)
           ss    == right \o Reverse(left)
<1>5. buckets \in [Indices -> Seq(Conns)] /\ position \in [Conns -> Places \cup {None}]
  BY DEF BucketVars, Lists
<1>6. \A i \in 0..(n - 1) : /\ buckets[i] \in Seq(Conns)
                            /\ Reverse(buckets[i]) \in Seq(Conns)
  BY <1>1, <1>5, ReverseIs
<1>7. /\ right \in [1..(n - base) -> Seq(Conns)]
      /\ \A k \in 1..(n - base) : right[k] = Reverse(buckets[(base + k) - 1])
  <2>1. \A k \in 1..(n - base) : (base + k) - 1 \in 0..(n - 1)
    BY <1>3
  <2>2. ((n - 1) - base) + 1 = n - base
    BY <1>3
  <2>3. right = [k \in 1..(n - base) |-> Reverse(buckets[(base + k) - 1])]
    BY <2>2 DEF InOrder
  <2> HIDE DEF right
  <2> QED  BY <1>6, <2>1, <2>3
<1>8. /\ left \in [1..base -> Seq(Conns)]
      /\ \A k \in 1..base : left[k] = Reverse(buckets[k - 1])
  <2>1. \A k \in 1..base : k - 1 \in 0..(n - 1) /\ (0 + k) - 1 = k - 1
    BY <1>3
  <2>2. ((base - 1) - 0) + 1 = base
    BY <1>3
  <2>3. left = [k \in 1..base |-> Reverse(buckets[(0 + k) - 1])]
    BY <2>2 DEF InOrder
  <2> HIDE DEF left
  <2> QED  BY <1>6, <2>1, <2>3
<1> HIDE DEF right, left
<1> DEFINE tfel == Reverse(left)
<1>9. /\ tfel \in [1..base -> Seq(Conns)]
      /\ \A k \in 1..base : tfel[k] = Reverse(buckets[base - k])
  <2>1. \A k \in 1..base : (base - k) + 1 \in 1..base /\ ((base - k) + 1) - 1 = base - k
    BY <1>3
  <2>2. Len(left) = base
    BY <1>3, <1>8, ListIs
  <2>3. tfel = [k \in 1..base |-> left[(base - k) + 1]]
    BY <2>2 DEF Reverse
  <2> HIDE DEF tfel
  <2> QED  BY <1>8, <2>1, <2>3
<1> HIDE DEF tfel
<1>10. /\ ss \in [1..n -> Seq(Conns)] /\ Len(ss) = n
       /\ \A k \in 1..n : /\ KthBucket(k, base, n) \in Indices
                          /\ ss[k] = Reverse(buckets[KthBucket(k, base, n)])
  <2>1. n - base \in Nat /\ base \in Nat /\ (n - base) + base = n
    BY <1>3
  <2>2. /\ ss \in [1..n -> Seq(Conns)] /\ Len(ss) = n
        /\ \A k \in 1..(n - base) : ss[k] = right[k]
        /\ \A k \in ((n - base) + 1)..n : ss[k] = tfel[k - (n - base)]
    <3>1. ss = right \o tfel
      BY DEF tfel
    <3>2. PICK m \in Nat : m = n - base
      BY <2>1
    <3>3. right \in [1..m -> Seq(Conns)] /\ tfel \in [1..base -> Seq(Conns)] /\ m + base = n
      BY <1>7, <1>9, <2>1, <3>2
    <3> HIDE DEF ss
    <3>4. Joined(right \o tfel, Seq(Conns), m, right, base, tfel)
      BY <2>1, <3>3, ConcatIs
    <3> QED  BY <3>1, <3>2, <3>3, <3>4 DEF Joined
  <2> HIDE DEF ss
  <2>3. ASSUME NEW k \in 1..n
        PROVE  /\ KthBucket(k, base, n) \in Indices
               /\ ss[k] = Reverse(buckets[KthBucket(k, base, n)])
    <3>1. CASE k <= n - base
      <4>1. k \in 1..(n - base) /\ (base + k) - 1 \in 0..(n - 1)
        BY <1>3, <3>1
      <4> QED  BY <1>1, <1>7, <2>2, <3>1, <4>1 DEF KthBucket
    <3>2. CASE ~(k <= n - base)
      <4>1. /\ k - (n - base) \in 1..base /\ n - k \in 0..(n - 1)
            /\ base - (k - (n - base)) = n - k
            /\ k \in ((n - base) + 1)..n
        BY <1>3, <3>2
      <4>2. tfel[k - (n - base)] = Reverse(buckets[n - k])
        BY <1>9, <4>1
      <4> QED  BY <1>1, <2>2, <3>2, <4>1, <4>2 DEF KthBucket
    <3> QED  BY <3>1, <3>2
  <2> QED  BY <2>2, <2>3
<1> HIDE DEF ss
<1>11. ASSUME NEW i \in Indices
       PROVE  /\ IsInjective(buckets[i]) /\ IsInjective(Reverse(buckets[i]))
              /\ ToSet(Reverse(buckets[i])) = ToSet(buckets[i])
              /\ \A c \in ToSet(buckets[i]) : /\ c \in Conns /\ position[c] # None
                                              /\ position[c][1] = i
  <2>1. \A k \in DOMAIN buckets[i] : position[buckets[i][k]] = <<i, k>>
    BY DEF Filed, BucketVars
  <2>2. buckets[i] \in Seq(Conns)
    BY <1>5
  <2>3. IsInjective(buckets[i])
    BY <2>1 DEF IsInjective
  <2>4. ASSUME NEW c \in ToSet(buckets[i])
        PROVE  c \in Conns /\ position[c] # None /\ position[c][1] = i
    <3>1. PICK k \in DOMAIN buckets[i] : c = buckets[i][k]
      BY DEF ToSet
    <3>2. c \in Conns /\ position[c] = <<i, k>> /\ k \in Nat \ {0}
      <4>1. buckets[i][k] \in Conns /\ k \in Nat \ {0}
        BY <2>2
      <4> QED  BY <2>1, <3>1, <4>1
    <3>3. <<i, k>> \in Places
      BY <3>2 DEF Places
    <3> QED  BY <3>2, <3>3, NoneIsNoPlace
  <2> QED  BY <2>2, <2>3, <2>4, ReverseIs
<1>12. \A k \in 1..n : IsInjective(ss[k])
  BY <1>10, <1>11
<1>13. \A j, k \in 1..n : j # k => ToSet(ss[j]) \cap ToSet(ss[k]) = {}
  <2> SUFFICES ASSUME NEW j \in 1..n, NEW k \in 1..n, j # k, NEW c \in ToSet(ss[j]),
                      c \in ToSet(ss[k])
               PROVE  FALSE
    OBVIOUS
  <2>1. KthBucket(j, base, n) = KthBucket(k, base, n)
    <3>1. ASSUME NEW l \in 1..n, c \in ToSet(ss[l]) PROVE position[c][1] = KthBucket(l, base, n)
      <4>1. KthBucket(l, base, n) \in Indices /\ ss[l] = Reverse(buckets[KthBucket(l, base, n)])
        BY <1>10
      <4>2. c \in ToSet(buckets[KthBucket(l, base, n)])
        BY <1>11, <3>1, <4>1
      <4> QED  BY <1>11, <4>1, <4>2
    <3> QED  BY <3>1
  <2>2. j = k
    BY <1>3, <2>1 DEF KthBucket
  <2> QED  BY <2>2
<1>14. /\ FlattenSeq(ss) \in Seq(Conns) /\ IsInjective(FlattenSeq(ss))
       /\ \A c : c \in ToSet(FlattenSeq(ss)) <=> \E k \in 1..n : c \in ToSet(ss[k])
  BY <1>10, <1>12, <1>13, FlattenIs
<1>15. ASSUME NEW c, c \in ToSet(FlattenSeq(ss)) PROVE c \in Conns /\ position[c] # None
  BY <1>10, <1>11, <1>14, <1>15
<1>16. ASSUME NEW c \in Conns, position[c] # None PROVE c \in ToSet(FlattenSeq(ss))
  <2>1. position[c] \in Places
    BY <1>5, <1>16
  <2> DEFINE i == position[c][1]
             k == IF i >= base THEN (i - base) + 1 ELSE n - i
  <2>2. i \in Indices /\ i \in 0..(n - 1)
    BY <1>1, <2>1 DEF Places
  <2>3. position[c][2] \in DOMAIN buckets[i] /\ buckets[i][position[c][2]] = c
    BY <1>16 DEF Filed, BucketVars
  <2>4. c \in ToSet(buckets[i])
    BY <2>3 DEF ToSet
  <2> HIDE DEF i
  <2>5. k \in 1..n /\ KthBucket(k, base, n) = i
    BY <1>3, <2>2 DEF KthBucket
  <2>6. c \in ToSet(ss[k])
    BY <1>10, <1>11, <2>2, <2>4, <2>5
  <2> QED  BY <1>14, <2>5, <2>6
<1> QED  BY <1>3, <1>14, <1>15, <1>16 DEF ss, left, right

-----------------------------------------------------------------------------
(* The connections that are selected.                                      *)

(* The loads of the first connections of a list.                           *)
LEMMA SumOfIs ==
  ASSUME kind \in {"recv", "rps"}, stat \in Stats,
         NEW s \in Seq(Conns), IsInjective(s)
  PROVE  SumOf(s) = SumOn(Value(stat), ToSet(s))
<1>1. PICK n \in Nat : Len(s) = n /\ DOMAIN s = 1..n /\ \A k \in 1..n : s[k] \in Conns
  OBVIOUS
<1>2. \A j, k \in 1..n : s[j] = s[k] => j = k
  BY <1>1 DEF IsInjective
<1> DEFINE v == Value(stat)
           f == [k \in 1..n |-> stat[s[k]].val]
           Table(g) == g = [t \in SUBSET (1..n) |->
                              IF t = {} THEN 0 ELSE g[t \ {Max(t)}] + stat[s[Max(t)]].val]
           g == CHOOSE e : Table(e)
<1>3. /\ \A k \in 1..n : f[k] \in Nat /\ f[k] = v[s[k]] /\ f[k] = stat[s[k]].val
      /\ \A c \in Conns : v[c] \in Nat
  BY <1>1, ValuesAreLoads
<1> HIDE DEF f, v
<1>4. ASSUME NEW t \in SUBSET (1..n)
      PROVE  IsFiniteSet(t) /\ (t # {} => Max(t) \in t)
  <2>1. IsFiniteSet(1..n)
    BY FS_Interval
  <2>2. IsFiniteSet(t)
    BY <2>1, FS_Subset
  <2>3. t # {} => Max(t) \in t
    BY MaxIs
  <2> QED  BY <2>2, <2>3
<1>5. Table(g)
  <2> DEFINE e == [t \in SUBSET (1..n) |-> SumOn(f, t)]
  <2>1. ASSUME NEW t \in SUBSET (1..n)
        PROVE  e[t] = IF t = {} THEN 0 ELSE e[t \ {Max(t)}] + stat[s[Max(t)]].val
    <3>1. CASE t = {}
      BY <3>1, SumEmpty
    <3>2. CASE t # {}
      <4>1. \A k \in t : f[k] \in Nat
        BY <1>3
      <4>2. Max(t) \in t /\ IsFiniteSet(t) /\ IsFiniteSet(t \ {Max(t)})
        BY <1>4, <3>2, FS_RemoveElement
      <4>3. SumOn(f, t) = f[Max(t)] + SumOn(f, t \ {Max(t)})
        BY <4>1, <4>2, SumRemove
      <4>4. SumOn(f, t \ {Max(t)}) \in Nat /\ f[Max(t)] \in Nat
        BY <4>1, <4>2, SumNat
      <4>5. f[Max(t)] = stat[s[Max(t)]].val
        BY <1>3, <4>2
      <4>6. e[t] = SumOn(f, t) /\ e[t \ {Max(t)}] = SumOn(f, t \ {Max(t)})
        OBVIOUS
      <4> HIDE DEF e, Table, g
      <4>7. e[t] = f[Max(t)] + e[t \ {Max(t)}]
        BY <4>3, <4>6
      <4>8. e[t \ {Max(t)}] \in Nat /\ f[Max(t)] \in Nat
        BY <4>4, <4>6
      <4>9. e[t] = e[t \ {Max(t)}] + f[Max(t)]
        BY <4>7, <4>8
      <4> QED  BY <3>2, <4>5, <4>9
    <3> QED  BY <3>1, <3>2
  <2>2. e = [t \in SUBSET (1..n) |-> e[t]]
    OBVIOUS
  <2>3. Table(e)
    <3> HIDE DEF e
    <3> QED  BY <2>1, <2>2
  <2> HIDE DEF Table, e
  <2> QED  BY <2>3
<1>6. SumOf(s) = g[1..n]
  <2>1. SumOf(s) = (CHOOSE e : e = [t \in SUBSET (DOMAIN s) |->
             IF t = {} THEN 0 ELSE e[t \ {Max(t)}] + stat[s[Max(t)]].val])[DOMAIN s]
    BY DEF SumOf, FoldLeft, MapThenFoldSet
  <2> QED  BY <1>1, <2>1
<1> HIDE DEF g
<1> DEFINE First(m) == {s[k] : k \in 1..m}
           T == {m \in Nat : m <= n => g[1..m] = SumOn(v, First(m))}
<1>7. 0 \in T
  <2>1. 1..0 = {} /\ First(0) = {}
    OBVIOUS
  <2>2. g[{}] = 0
    BY <1>5
  <2> QED  BY <2>1, <2>2, SumEmpty
<1>8. ASSUME NEW m \in Nat, m \in T PROVE m + 1 \in T
  <2> SUFFICES ASSUME m + 1 <= n PROVE g[1..(m + 1)] = SumOn(v, First(m + 1))
    OBVIOUS
  <2> DEFINE t == 1..(m + 1)
  <2>1. t \in SUBSET (1..n) /\ m + 1 \in t /\ t # {} /\ t \ {m + 1} = 1..m /\ m + 1 \in Nat
    <3> HIDE DEF T, Table
    <3>1. t \subseteq 1..n
      OBVIOUS
    <3>2. m + 1 \in t /\ m + 1 \in Nat
      OBVIOUS
    <3>3. t \ {m + 1} = 1..m
      OBVIOUS
    <3> QED  BY <3>1, <3>2, <3>3
  <2> HIDE DEF t
  <2>2. Max(t) = m + 1
    BY <2>1, MaxIs DEF t
  <2>3. g[t] = g[1..m] + stat[s[m + 1]].val
    BY <1>5, <2>1, <2>2
  <2>4. First(m + 1) = First(m) \cup {s[m + 1]} /\ s[m + 1] \notin First(m)
    <3>1. \A k : k \in 1..(m + 1) <=> k \in 1..m \/ k = m + 1
      OBVIOUS
    <3>2. \A k \in 1..m : k \in 1..n /\ k # m + 1
      OBVIOUS
    <3>3. m + 1 \in 1..n
      OBVIOUS
    <3> QED  BY <1>2, <3>1, <3>2, <3>3
  <2>5. IsFiniteSet(First(m)) /\ \A c \in First(m) \cup {s[m + 1]} : v[c] \in Nat
    <3>1. First(m) \subseteq ToSet(s) /\ s[m + 1] \in Conns
      BY <1>1 DEF ToSet
    <3> HIDE DEF First
    <3> QED  BY <1>3, <3>1, FiniteList, FS_Subset
  <2>6. SumOn(v, First(m) \cup {s[m + 1]}) = v[s[m + 1]] + SumOn(v, First(m))
    <3> HIDE DEF First
    <3> QED  BY <2>4, <2>5, SumAdd
  <2>7. SumOn(v, First(m)) \in Nat
    <3> HIDE DEF First
    <3> QED  BY <2>5, SumNat
  <2>8. v[s[m + 1]] = stat[s[m + 1]].val /\ v[s[m + 1]] \in Nat
    <3>1. m + 1 \in 1..n
      OBVIOUS
    <3> QED  BY <1>3, <3>1
  <2>9. g[1..m] = SumOn(v, First(m))
    BY <1>8
  <2> HIDE DEF First
  <2> HIDE DEF T, Table
  <2>10. g[t] = SumOn(v, First(m + 1))
    <3>1. SumOn(v, First(m + 1)) = SumOn(v, First(m) \cup {s[m + 1]})
      BY <2>4
    <3>2. SumOn(v, First(m + 1)) = v[s[m + 1]] + SumOn(v, First(m))
      BY <2>6, <3>1
    <3>3. g[t] = SumOn(v, First(m)) + v[s[m + 1]]
      BY <2>3, <2>8, <2>9
    <3>4. PICK x \in Nat : x = SumOn(v, First(m))
      BY <2>7
    <3>5. PICK y \in Nat : y = v[s[m + 1]]
      BY <2>8
    <3> QED  BY <3>2, <3>3, <3>4, <3>5
  <2> QED  BY <2>10 DEF t
<1>9. n \in T
  <2> HIDE DEF T
  <2> QED  BY <1>7, <1>8, Induction
<1>10. First(n) = ToSet(s)
  BY <1>1 DEF ToSet
<1>11. g[1..n] = SumOn(v, ToSet(s))
  <2>1. g[1..n] = SumOn(v, First(n))
    BY <1>9
  <2> HIDE DEF T, First, Table
  <2> QED  BY <1>10, <2>1
<1> QED  BY <1>6, <1>11 DEF v

(* Why nothing is selected.                                                *)
NothingToSelect(threshold) ==
  \/ allowance # None /\ allowance <= 0
  \/ global <= threshold
  \/ \A c \in Conns : position[c] = None

(* The selection is the shortest beginning of those considered that is     *)
(* enough.                                                                 *)
ShortestEnough(threshold, n) ==
  LET s == Considered(threshold) IN
  /\ global > threshold
  /\ n \in 1..Len(s) /\ Selection(threshold) = SubSeq(s, 1, n)
  /\ Enough(s, threshold, n)
  /\ \A j \in 1..(n - 1) : ~Enough(s, threshold, j)

(* A beginning of a list without repetitions.                              *)
LEMMA PrefixIs ==
  ASSUME NEW s \in Seq(Conns), IsInjective(s), NEW n \in Nat, n <= Len(s)
  PROVE  /\ SubSeq(s, 1, n) \in Seq(Conns) /\ Len(SubSeq(s, 1, n)) = n
         /\ IsInjective(SubSeq(s, 1, n))
         /\ ToSet(SubSeq(s, 1, n)) = {s[k] : k \in 1..n}
         /\ ToSet(SubSeq(s, 1, n)) \subseteq ToSet(s)
<1>1. PICK l \in Nat : Len(s) = l /\ DOMAIN s = 1..l
  OBVIOUS
<1> DEFINE r == SubSeq(s, 1, n)
<1>2. /\ r \in Seq(Conns) /\ Len(r) = n /\ DOMAIN r = 1..n
      /\ \A k \in 1..n : r[k] = s[k] /\ k \in 1..l
  BY <1>1
<1> HIDE DEF r
<1>3. IsInjective(r)
  BY <1>1, <1>2 DEF IsInjective
<1>4. ToSet(r) = {s[k] : k \in 1..n} /\ ToSet(r) \subseteq ToSet(s)
  BY <1>1, <1>2 DEF ToSet
<1> QED  BY <1>2, <1>3, <1>4 DEF r

(* What is selected, and why it is so much.                                *)
LEMMA SelectionIs ==
  ASSUME kind \in {"recv", "rps"}, BucketVars \in Lists, NEW v, Filed(BucketVars, v),
         global \in Nat, NEW threshold \in Nat
  PROVE  /\ Selection(threshold) \in Seq(Conns) /\ IsInjective(Selection(threshold))
         /\ \A c \in ToSet(Selection(threshold)) : c \in Conns /\ position[c] # None
         /\ \/ Selection(threshold) = <<>> /\ NothingToSelect(threshold)
            \/ \E n \in Nat \ {0} : ShortestEnough(threshold, n)
<1> DEFINE s == Considered(threshold)
<1>0. <<>> \in Seq(Conns) /\ IsInjective(<<>>) /\ ToSet(<<>>) = {}
  BY DEF IsInjective, ToSet
<1>1. CASE (allowance # None /\ allowance <= 0) \/ global <= threshold
  <2>1. Selection(threshold) = <<>>
    BY <1>1 DEF Selection
  <2> QED  BY <1>0, <1>1, <2>1 DEF NothingToSelect
<1>2. CASE ~((allowance # None /\ allowance <= 0) \/ global <= threshold)
  <2>1. global > threshold
    BY <1>2
  <2>2. /\ s \in Seq(Conns) /\ IsInjective(s)
        /\ \A c : c \in ToSet(s) <=> c \in Conns /\ position[c] # None
    BY <2>1, ConsideredIs
  <2> HIDE DEF s
  <2>3. PICK l \in Nat : Len(s) = l /\ DOMAIN s = 1..l
    BY <2>2
  <2>4. CASE s = <<>>
    <3>1. Selection(threshold) = <<>>
      BY <2>4 DEF Selection, s
    <3>2. \A c \in Conns : position[c] = None
      BY <1>0, <2>2, <2>4
    <3> QED  BY <1>0, <3>1, <3>2 DEF NothingToSelect
  <2>5. CASE s # <<>>
    <3>1. l # 0
      BY <2>2, <2>3, <2>5
    <3> DEFINE Shortest(k) == /\ Enough(s, threshold, k)
                              /\ \A j \in 1..(k - 1) : ~Enough(s, threshold, j)
               n == CHOOSE k \in 1..Len(s) : Shortest(k)
    <3>2. \E k \in 1..l : Shortest(k)
      <4> DEFINE T == {k \in 1..l : Enough(s, threshold, k)}
      <4>1. l \in T
        BY <2>3, <3>1 DEF Enough
      <4>2. PICK k \in T : \A j \in T : k <= j
        <5>1. T \in SUBSET Nat /\ T # {}
          BY <4>1
        <5> HIDE DEF T
        <5> QED  BY <5>1, LeastNumber
      <4>3. \A j \in 1..(k - 1) : j \in 1..l /\ ~(k <= j)
        OBVIOUS
      <4>4. \A j \in 1..(k - 1) : j \notin T
        BY <4>2, <4>3
      <4>5. Shortest(k)
        BY <4>2, <4>3, <4>4
      <4> QED  BY <4>5
    <3>3. n \in 1..l /\ Shortest(n)
      <4> HIDE DEF Shortest
      <4> QED  BY <2>3, <3>2
    <3>4. Selection(threshold) = SubSeq(s, 1, n)
      BY <1>2, <2>5 DEF Selection, Taken, s
    <3> HIDE DEF n
    <3>5. ShortestEnough(threshold, n)
      BY <2>1, <2>3, <3>3, <3>4 DEF ShortestEnough, s
    <3>6. n \in Nat \ {0} /\ n <= Len(s)
      BY <2>3, <3>3
    <3>7. /\ SubSeq(s, 1, n) \in Seq(Conns) /\ IsInjective(SubSeq(s, 1, n))
          /\ ToSet(SubSeq(s, 1, n)) \subseteq ToSet(s)
      BY <2>2, <3>6, PrefixIs
    <3> QED  BY <2>2, <3>4, <3>5, <3>6, <3>7
  <2> QED  BY <2>4, <2>5
<1> QED  BY <1>1, <1>2

-----------------------------------------------------------------------------
(* The steps.                                                              *)

(* The invariant of the next state, in the terms of this one.              *)
InvAfter ==
  /\ life' \in [Conns -> {"none", "open", "ended", "moving"}]
  /\ load' \in [Conns -> Val] /\ stat' \in Stats /\ toUpdate' \in Updates
  /\ handles' \in Seq(Conns) /\ BucketVars' \in Lists /\ global' \in Nat
  /\ allowance' \in Int \cup {None}
  /\ signal' \in Thresholds \cup {Calm, None}
  /\ phase' \in {"work", "polled"}
  /\ Listed(handles', stat', BucketVars')
  /\ global' = SumOn(Value(stat'), ToSet(handles'))
  /\ \A c \in Conns : Living(c)'
  /\ phase' = "polled" => \A c \in ToSet(handles') : Fresh(stat', toUpdate', c)
  /\ kind = "recv" => signal' = None
  /\ panicked' = FALSE

(* It is the invariant of the next state.                                  *)
LEMMA Carries ==
  ASSUME kind' = kind, kind \in {"recv", "rps"}, InvAfter
  PROVE  PolicyInv'
<1>1. Indices' = Indices /\ Val' = Val /\ Lists' = Lists /\ Stats' = Stats /\ Updates' = Updates
  BY DEF Indices, MaxLoad, Val, Lists, Places, Stats, Updates
<1>2. TypeOK'
  BY <1>1 DEF TypeOK, InvAfter
<1>3. Listed(handles, stat, BucketVars)'
  <2>1. Listed(handles', stat', BucketVars')
    BY DEF InvAfter
  <2>2. Filed(BucketVars, Value(stat))' <=> Filed(BucketVars', Value(stat'))
    BY <1>1 DEF Filed, Value
  <2> QED  BY <2>1, <2>2 DEF Listed
<1>4. (global = SumOn(Value(stat), ToSet(handles)))'
  BY DEF InvAfter, Value
<1>5. (\A c \in Conns : Living(c))'
  BY DEF InvAfter
<1>6. (phase = "polled" => \A c \in ToSet(handles) : Fresh(stat, toUpdate, c))'
  BY DEF InvAfter, Fresh
<1>7. (kind = "recv" => signal = None)' /\ ~panicked'
  BY DEF InvAfter
<1> QED  BY <1>2, <1>3, <1>4, <1>5, <1>6, <1>7 DEF PolicyInv

(* The parts of the invariant.                                             *)
LEMMA InvNow ==
  ASSUME PolicyInv
  PROVE  /\ kind \in {"recv", "rps"}
         /\ life \in [Conns -> {"none", "open", "ended", "moving"}]
         /\ load \in [Conns -> Val] /\ stat \in Stats /\ toUpdate \in Updates
         /\ handles \in Seq(Conns) /\ BucketVars \in Lists /\ global \in Nat
         /\ allowance \in Int \cup {None}
         /\ signal \in Thresholds \cup {Calm, None}
         /\ phase \in {"work", "polled"}
         /\ Listed(handles, stat, BucketVars)
         /\ global = SumOn(Value(stat), ToSet(handles))
         /\ \A c \in Conns : Living(c)
         /\ phase = "polled" => \A c \in ToSet(handles) : Fresh(stat, toUpdate, c)
         /\ kind = "recv" => signal = None
         /\ panicked = FALSE
BY DEF PolicyInv, TypeOK

(* A host starts with no connection.                                       *)
LEMMA InitHolds == Init => PolicyInv
<1> SUFFICES ASSUME Init PROVE PolicyInv
  OBVIOUS
<1>1. kind \in {"recv", "rps"}
  BY DEF Init
<1>2. 0 \in Val /\ MaxLoad \in Nat
  BY <1>1, IndexOf DEF Val
<1>3. /\ life \in [Conns -> {"none", "open", "ended", "moving"}]
      /\ load \in [Conns -> Val] /\ stat \in Stats /\ toUpdate \in Updates
  BY <1>2 DEF Init, Stats, Updates, Disabled
<1>4. handles \in Seq(Conns) /\ BucketVars \in Lists
  BY DEF Init, BucketVars, Lists, EmptyBuckets
<1>5. allowance \in Int \cup {None}
  BY PolicyAssumption DEF Init
<1>6. TypeOK
  BY <1>1, <1>3, <1>4, <1>5 DEF Init, TypeOK
<1>7. Listed(handles, stat, BucketVars)
  <2>1. IsInjective(handles) /\ ToSet(handles) = {}
    BY DEF Init, IsInjective, ToSet
  <2>2. Filed(BucketVars, Value(stat))
    BY DEF Init, Filed, BucketVars, Value, EmptyBuckets, Disabled
  <2> QED  BY <2>1, <2>2 DEF Init, Listed, Disabled
<1>8. global = SumOn(Value(stat), ToSet(handles))
  <2>1. ToSet(handles) = {}
    BY DEF Init, ToSet
  <2>2. global = 0
    BY DEF Init
  <2>3. SumOn(Value(stat), {}) = 0
    BY SumEmpty
  <2> QED  BY <2>1, <2>2, <2>3
<1>9. \A c \in Conns : Living(c)
  BY DEF Init, Living, IsEnabled, Disabled
<1> QED  BY <1>6, <1>7, <1>8, <1>9 DEF PolicyInv, Init

(* Disabling a handle marks it, and changes no value.                      *)
LEMMA DisableAllIs ==
  ASSUME kind \in {"recv", "rps"}, stat \in Stats, NEW S, DisableAll(S),
         NEW b, Listed(handles, stat, b)
  PROVE  /\ stat' \in Stats /\ Value(stat') = Value(stat)
         /\ Listed(handles, stat', b)
         /\ \A c \in Conns : /\ stat'[c].tag = "Enabled" <=> c \notin S /\ stat[c].tag = "Enabled"
                             /\ stat'[c].tag = "Disabled" <=> stat[c].tag = "Disabled"
                             /\ c \notin S => stat'[c] = stat[c]
<1>1. ASSUME NEW c \in Conns
      PROVE  /\ stat'[c] \in [tag : {"Disabled", "Enabled", "MarkedForDisable"}, val : Val]
             /\ stat'[c].val = stat[c].val
             /\ stat'[c].tag = "Enabled" <=> c \notin S /\ stat[c].tag = "Enabled"
             /\ stat'[c].tag = "Disabled" <=> stat[c].tag = "Disabled"
             /\ c \notin S => stat'[c] = stat[c]
  BY DEF DisableAll, Stats, IsEnabled, Marked
<1>2. stat' = [c \in Conns |-> stat'[c]]
  BY DEF DisableAll
<1>3. stat' \in Stats
  BY <1>1, <1>2 DEF Stats
<1>4. Value(stat') = Value(stat)
  BY <1>1 DEF Value
<1>5. Listed(handles, stat', b)
  BY <1>1, <1>4 DEF Listed
<1> QED  BY <1>1, <1>3, <1>4, <1>5

(* A step that leaves the lists and the values of the handles alone.       *)
LEMMA KeptLists ==
  ASSUME PolicyInv, UNCHANGED <<kind, position, listVars>>,
         life' \in [Conns -> {"none", "open", "ended", "moving"}],
         load' \in [Conns -> Val], toUpdate' \in Updates,
         allowance' \in Int \cup {None},
         signal' \in Thresholds \cup {Calm, None}, kind = "recv" => signal' = None,
         stat' \in Stats, Value(stat') = Value(stat), Listed(handles, stat', BucketVars),
         phase' \in {"work", "polled"},
         phase' = "polled" => phase = "polled" /\ stat' = stat /\ toUpdate' = toUpdate,
         \A c \in Conns : Living(c)', panicked' = FALSE
  PROVE  PolicyInv'
<1>1. /\ kind \in {"recv", "rps"} /\ handles \in Seq(Conns) /\ BucketVars \in Lists
      /\ global \in Nat /\ global = SumOn(Value(stat), ToSet(handles))
      /\ phase = "polled" => \A c \in ToSet(handles) : Fresh(stat, toUpdate, c)
  BY InvNow
<1>2. /\ handles' = handles /\ global' = global /\ kind' = kind
      /\ BucketVars' = BucketVars
  BY DEF listVars, BucketVars
<1>3. global' = SumOn(Value(stat'), ToSet(handles'))
  BY <1>1, <1>2
<1>4. Listed(handles', stat', BucketVars')
  BY <1>2
<1>5. phase' = "polled" => \A c \in ToSet(handles') : Fresh(stat', toUpdate', c)
  BY <1>1, <1>2
<1>6. InvAfter
  BY <1>1, <1>2, <1>3, <1>4, <1>5 DEF InvAfter
<1> QED  BY <1>1, <1>2, <1>6, Carries

(* What a load may be.                                                     *)
LEMMA LoadRange ==
  ASSUME PolicyInv, NEW c \in Conns
  PROVE  /\ load[c] \in Nat /\ load[c] <= MaxLoad /\ MaxLoad \in Nat
         /\ \A n \in Nat : n <= MaxLoad => n \in Val
         /\ None \notin Val
BY InvNow, IndexOf, PolicyAssumption DEF Val

(* A queue or the number of requests changes by one.                       *)
PushedOrPopped(c, n) ==
  /\ Running /\ load' = [load EXCEPT ![c] = n] /\ Note(c)
  /\ IsEnabled(c) /\ kind = "rps" => n = load[c] + 1
  /\ UNCHANGED <<kind, life, stat, position, listVars, allowance, signal, phase, panicked>>

(* Push and pop: the handle learns what the load is now.                   *)
LEMMA NotedHolds ==
  ASSUME PolicyInv, NEW c \in Conns, NEW n \in Val, PushedOrPopped(c, n)
  PROVE  PolicyInv'
<1>1. /\ kind \in {"recv", "rps"} /\ load \in [Conns -> Val] /\ toUpdate \in Updates
      /\ stat \in Stats /\ Listed(handles, stat, BucketVars)
      /\ \A d \in Conns : Living(d)
      /\ life \in [Conns -> {"none", "open", "ended", "moving"}]
      /\ allowance \in Int \cup {None} /\ signal \in Thresholds \cup {Calm, None}
      /\ kind = "recv" => signal = None
  BY InvNow
<1>2. /\ UNCHANGED <<kind, position, listVars>> /\ life' = life /\ stat' = stat
      /\ allowance' = allowance /\ signal' = signal /\ phase' = phase /\ phase = "work"
      /\ panicked' = FALSE
  BY InvNow DEF PushedOrPopped, Running
<1>3. load' = [load EXCEPT ![c] = n] /\ load' \in [Conns -> Val]
  BY <1>1 DEF PushedOrPopped
<1>4. IsEnabled(c) => toUpdate' = [toUpdate EXCEPT ![c] = n]
  <2> SUFFICES ASSUME IsEnabled(c) PROVE toUpdate' = [toUpdate EXCEPT ![c] = n]
    OBVIOUS
  <2>1. load'[c] = n
    BY <1>1, <1>3
  <2>2. CASE kind = "recv"
    BY <2>1, <2>2 DEF PushedOrPopped, Note
  <2>3. CASE kind = "rps"
    <3>1. Expected(c) = load[c]
      BY <1>1 DEF Living
    <3>2. n = load[c] + 1
      BY <2>3 DEF PushedOrPopped
    <3> QED  BY <2>3, <3>1, <3>2 DEF PushedOrPopped, Note
  <2> QED  BY <1>1, <2>2, <2>3
<1>5. ~IsEnabled(c) => toUpdate' = toUpdate
  BY DEF PushedOrPopped, Note
<1>6. toUpdate' \in Updates
  BY <1>1, <1>4, <1>5 DEF Updates
<1>7. ASSUME NEW d \in Conns PROVE Living(d)'
  <2>1. CASE d = c /\ IsEnabled(c)
    <3>1. load'[d] = n /\ toUpdate'[d] = n /\ n # None
      BY <1>1, <1>3, <1>4, <2>1, LoadRange DEF Updates
    <3> QED  BY <1>1, <1>2, <2>1, <3>1 DEF Living, Expected, IsEnabled
  <2>2. CASE d = c /\ ~IsEnabled(c)
    BY <1>1, <1>2, <2>2 DEF Living, IsEnabled
  <2>3. CASE d # c
    <3>1. load'[d] = load[d] /\ toUpdate'[d] = toUpdate[d]
      BY <1>1, <1>3, <1>4, <1>5, <2>3 DEF Updates
    <3> QED  BY <1>1, <1>2, <3>1 DEF Living, Expected, IsEnabled
  <2> QED  BY <2>1, <2>2, <2>3
<1>8. Value(stat') = Value(stat) /\ Listed(handles, stat', BucketVars)
  BY <1>1, <1>2
<1> QED  BY <1>1, <1>2, <1>3, <1>6, <1>7, <1>8, KeptLists

(* Receiver::push.                                                         *)
LEMMA PushHolds == ASSUME PolicyInv, NEW c \in Conns, Push(c) PROVE PolicyInv'
<1>1. load[c] + 1 \in Val
  <2>1. load[c] < MaxLoad
    BY DEF Push
  <2>2. load[c] \in Nat /\ MaxLoad \in Nat
    BY LoadRange
  <2>3. load[c] + 1 \in Nat /\ load[c] + 1 <= MaxLoad
    BY <2>1, <2>2
  <2> QED  BY <2>3, LoadRange
<1>2. PushedOrPopped(c, load[c] + 1)
  <2>1. load' = [load EXCEPT ![c] = load[c] + 1]
    BY DEF Push
  <2> QED  BY <2>1 DEF Push, PushedOrPopped
<1> QED  BY <1>1, <1>2, NotedHolds

(* Receiver::pop.                                                          *)
LEMMA PopHolds == ASSUME PolicyInv, NEW c \in Conns, Pop(c) PROVE PolicyInv'
<1>1. load[c] - 1 \in Val
  <2>1. load[c] \in Nat /\ load[c] > 0 /\ load[c] <= MaxLoad /\ MaxLoad \in Nat
    BY LoadRange DEF Pop
  <2>2. load[c] - 1 \in Nat /\ load[c] - 1 <= MaxLoad
    BY <2>1
  <2> QED  BY <2>2, LoadRange
<1>2. PushedOrPopped(c, load[c] - 1)
  <2>1. load' = [load EXCEPT ![c] = load[c] - 1]
    BY DEF Pop
  <2> QED  BY <2>1 DEF Pop, PushedOrPopped
<1> QED  BY <1>1, <1>2, NotedHolds

(* An open connection ends or is to move.                                  *)
Leaves(c, where) ==
  /\ Running /\ life[c] = "open"
  /\ life' = [life EXCEPT ![c] = where]
  /\ load' = [load EXCEPT ![c] = 0]
  /\ DisableAll({c})
  /\ UNCHANGED <<kind, toUpdate, position, listVars, allowance, signal, phase, panicked>>

(* Its handle is marked, and dropped by the next poll.                     *)
LEMMA LeavesHolds ==
  ASSUME PolicyInv, NEW c \in Conns, NEW where \in {"ended", "moving"}, Leaves(c, where)
  PROVE  PolicyInv'
<1>1. /\ kind \in {"recv", "rps"} /\ load \in [Conns -> Val] /\ toUpdate \in Updates
      /\ stat \in Stats /\ Listed(handles, stat, BucketVars)
      /\ \A d \in Conns : Living(d)
      /\ life \in [Conns -> {"none", "open", "ended", "moving"}]
      /\ allowance \in Int \cup {None} /\ signal \in Thresholds \cup {Calm, None}
      /\ kind = "recv" => signal = None
  BY InvNow
<1>2. /\ UNCHANGED <<kind, position, listVars>> /\ toUpdate' = toUpdate
      /\ allowance' = allowance /\ signal' = signal /\ phase' = phase /\ phase = "work"
      /\ panicked' = FALSE /\ life[c] = "open"
  BY InvNow DEF Leaves, Running
<1>3. 0 \in Val
  BY <1>1, ValuesAreLoads
<1>4. /\ load' = [load EXCEPT ![c] = 0] /\ load' \in [Conns -> Val]
      /\ life' = [life EXCEPT ![c] = where]
      /\ life' \in [Conns -> {"none", "open", "ended", "moving"}]
  BY <1>1, <1>3 DEF Leaves
<1>5. /\ stat' \in Stats /\ Value(stat') = Value(stat)
      /\ Listed(handles, stat', BucketVars)
      /\ \A d \in Conns : /\ stat'[d].tag = "Enabled" <=> d \notin {c} /\ stat[d].tag = "Enabled"
                          /\ stat'[d].tag = "Disabled" <=> stat[d].tag = "Disabled"
                          /\ d \notin {c} => stat'[d] = stat[d]
  <2>1. DisableAll({c})
    BY DEF Leaves
  <2> QED  BY <1>1, <2>1, DisableAllIs
<1>6. ASSUME NEW d \in Conns PROVE Living(d)'
  <2>1. CASE d = c
    BY <1>1, <1>2, <1>5, <2>1 DEF Living, IsEnabled
  <2>2. CASE d # c
    <3>1. /\ load'[d] = load[d] /\ toUpdate'[d] = toUpdate[d] /\ life'[d] = life[d]
          /\ stat'[d] = stat[d]
      BY <1>1, <1>2, <1>4, <1>5, <2>2
    <3> QED  BY <1>1, <3>1 DEF Living, Expected, IsEnabled
  <2> QED  BY <2>1, <2>2
<1> QED  BY <1>1, <1>2, <1>4, <1>5, <1>6, KeptLists

(* Steps that touch no handle.                                             *)
LEMMA QuietHolds ==
  ASSUME PolicyInv, UNCHANGED <<kind, load, handleVars, listVars, allowance, panicked>>,
         phase' \in {phase, "work"},
         life' \in [Conns -> {"none", "open", "ended", "moving"}],
         \A c \in Conns : life[c] # "moving" => life'[c] = life[c],
         \A c \in Conns : life[c] = "moving" => life'[c] \in {"moving", "none"},
         signal' \in Thresholds \cup {Calm, None}, kind = "recv" => signal' = None
  PROVE  PolicyInv'
<1>1. /\ kind \in {"recv", "rps"} /\ load \in [Conns -> Val] /\ toUpdate \in Updates
      /\ stat \in Stats /\ Listed(handles, stat, BucketVars)
      /\ \A d \in Conns : Living(d)
      /\ life \in [Conns -> {"none", "open", "ended", "moving"}]
      /\ allowance \in Int \cup {None} /\ phase \in {"work", "polled"}
  BY InvNow
<1>2. /\ UNCHANGED <<kind, position, listVars>> /\ toUpdate' = toUpdate /\ stat' = stat
      /\ load' = load /\ allowance' = allowance /\ panicked' = FALSE
  BY InvNow DEF handleVars
<1>3. ASSUME NEW d \in Conns PROVE Living(d)'
  <2>1. life[d] \in {"none", "open", "ended"} => life'[d] = life[d]
    BY <1>1
  <2>2. life[d] = "moving" => ~IsEnabled(d) /\ stat[d].tag # "Disabled"
    BY <1>1 DEF Living
  <2> QED  BY <1>1, <1>2, <2>1, <2>2 DEF Living, Expected, IsEnabled
<1>4. /\ phase' \in {"work", "polled"}
      /\ phase' = "polled" => phase = "polled" /\ stat' = stat /\ toUpdate' = toUpdate
      /\ load' \in [Conns -> Val] /\ toUpdate' \in Updates /\ stat' \in Stats
      /\ Value(stat') = Value(stat) /\ Listed(handles, stat', BucketVars)
  BY <1>1, <1>2
<1> QED  BY <1>1, <1>2, <1>3, <1>4, KeptLists

(* A connection is accepted, or comes back: its handle is in no list.      *)
LEMMA AcceptHolds ==
  ASSUME PolicyInv, NEW c \in Conns, NEW n \in 0..1, NEW fin \in BOOLEAN, Accept(c, n, fin)
  PROVE  PolicyInv'
<1> DEFINE m == IF kind = "recv" THEN n ELSE 0
           b == IF m > 0 THEN PushIntoBucket(BucketVars, c, Index(m)) ELSE BucketVars
           w == [Value(stat) EXCEPT ![c] = m]
<1>1. /\ kind \in {"recv", "rps"} /\ load \in [Conns -> Val] /\ toUpdate \in Updates
      /\ stat \in Stats /\ Listed(handles, stat, BucketVars)
      /\ handles \in Seq(Conns) /\ BucketVars \in Lists /\ global \in Nat
      /\ global = SumOn(Value(stat), ToSet(handles))
      /\ \A d \in Conns : Living(d)
      /\ life \in [Conns -> {"none", "open", "ended", "moving"}]
      /\ allowance \in Int \cup {None} /\ signal \in Thresholds \cup {Calm, None}
      /\ kind = "recv" => signal = None
  BY InvNow
<1>2. m \in Val /\ m \in Nat
  <2>1. m \in Nat /\ m <= 1 /\ (kind = "rps" => m = 0)
    BY <1>1
  <2>2. MaxLoad \in Nat /\ (kind = "recv" => 1 <= MaxLoad)
    BY PolicyAssumption DEF MaxLoad
  <2> HIDE DEF m
  <2>3. m <= MaxLoad
    BY <1>1, <2>1, <2>2
  <2> QED  BY <2>1, <2>2, <2>3 DEF Val
<1>3. /\ stat[c].tag = "Disabled" /\ stat[c].val = 0 /\ life[c] = "none" /\ phase = "work"
      /\ kind' = kind /\ allowance' = allowance /\ signal' = signal /\ phase' = phase
      /\ panicked' = FALSE
      /\ life' = [life EXCEPT ![c] = IF fin THEN "ended" ELSE "open"]
      /\ load' = [load EXCEPT ![c] = m]
      /\ stat' = [stat EXCEPT ![c] = Enabled(m)]
      /\ toUpdate' = [toUpdate EXCEPT ![c] = None]
      /\ global' = global + m
      /\ handles' = Append(handles, c)
      /\ BucketVars' = [of |-> b.of, at |-> b.at]
  BY InvNow DEF Accept, Running, Disabled, BucketVars
<1>4. c \notin ToSet(handles)
  BY <1>1, <1>3 DEF Listed
<1>5. b \in Lists /\ Filed(b, w)
  <2>1. Value(stat) \in [Conns -> Val] /\ Value(stat)[c] = 0
    BY <1>1, <1>3, ValuesAreLoads
  <2>2. Filed(BucketVars, Value(stat))
    BY <1>1 DEF Listed
  <2>3. CASE m > 0
    <3> HIDE DEF m
    <3>1. /\ PushIntoBucket(BucketVars, c, Index(m)) \in Lists
          /\ Filed(PushIntoBucket(BucketVars, c, Index(m)), [Value(stat) EXCEPT ![c] = m])
      BY <1>1, <1>2, <2>1, <2>2, <2>3, FilePush
    <3> QED  BY <2>3, <3>1
  <2>4. CASE ~(m > 0)
    <3>1. m = 0 /\ b = BucketVars
      BY <1>2, <2>4
    <3>2. w = Value(stat)
      BY <2>1, <3>1
    <3> QED  BY <1>1, <2>2, <3>1, <3>2
  <2> QED  BY <2>3, <2>4
<1> HIDE DEF m, b
<1>6. BucketVars' = b
  BY <1>3, <1>5 DEF Lists
<1>7. stat' \in Stats /\ Value(stat') = w
  <2>1. stat' \in Stats
    BY <1>1, <1>2, <1>3 DEF Stats, Enabled
  <2>2. \A d \in Conns : stat'[d].val = w[d]
    BY <1>1, <1>2, <1>3 DEF Stats, Enabled, Value
  <2>3. w = [d \in Conns |-> w[d]]
    BY DEF Value
  <2> QED  BY <2>1, <2>2, <2>3 DEF Value
<1>8. w \in [Conns -> Nat] /\ w[c] = m /\ \A d \in Conns \ {c} : w[d] = Value(stat)[d]
  BY <1>1, <1>2, ValuesAreLoads
<1> HIDE DEF w
<1>9. /\ handles' \in Seq(Conns) /\ IsInjective(handles')
      /\ ToSet(handles') = ToSet(handles) \cup {c}
  <2>1. PICK l \in Nat : Len(handles) = l /\ DOMAIN handles = 1..l
    BY <1>1
  <2>2. /\ handles' \in Seq(Conns) /\ DOMAIN handles' = 1..(l + 1)
        /\ \A k \in 1..(l + 1) : handles'[k] = IF k = l + 1 THEN c ELSE handles[k]
    BY <1>1, <1>3, <2>1
  <2>3. /\ \A k \in 1..l : k \in 1..(l + 1) /\ k # l + 1 /\ handles[k] # c
        /\ \A k \in 1..(l + 1) : k = l + 1 \/ k \in 1..l
        /\ l + 1 \in 1..(l + 1)
    BY <1>4, <2>1 DEF ToSet
  <2>4. \A j, k \in 1..l : handles[j] = handles[k] => j = k
    BY <1>1, <2>1 DEF Listed, IsInjective
  <2>5. IsInjective(handles')
    BY <2>2, <2>3, <2>4 DEF IsInjective
  <2>6. ASSUME NEW d PROVE d \in ToSet(handles') <=> d \in ToSet(handles) \cup {c}
    BY <2>1, <2>2, <2>3 DEF ToSet
  <2> QED  BY <2>2, <2>5, <2>6
<1>10. Listed(handles', stat', BucketVars')
  <2>1. \A d \in Conns : stat'[d] = IF d = c THEN Enabled(m) ELSE stat[d]
    BY <1>1, <1>3 DEF Stats
  <2>2. \A d \in Conns : /\ stat'[d].tag # "Disabled" <=> d \in ToSet(handles')
                         /\ stat'[d].tag = "Disabled" => stat'[d].val = 0
    BY <1>1, <1>9, <2>1 DEF Listed, Enabled
  <2> QED  BY <1>5, <1>6, <1>7, <1>9, <2>2 DEF Listed
<1>11. global' = SumOn(Value(stat'), ToSet(handles')) /\ global' \in Nat
  <2>1. IsFiniteSet(ToSet(handles)) /\ ToSet(handles) \subseteq Conns
    BY <1>1, FiniteList
  <2>2. SumOn(w, ToSet(handles) \cup {c}) = w[c] + SumOn(w, ToSet(handles))
    BY <1>4, <1>8, <2>1, SumAdd
  <2>3. SumOn(w, ToSet(handles)) = SumOn(Value(stat), ToSet(handles))
    BY <1>4, <1>8, <2>1, SumSame
  <2>4. SumOn(w, ToSet(handles) \cup {c}) = m + global
    BY <1>1, <1>8, <2>2, <2>3
  <2> QED  BY <1>1, <1>2, <1>3, <1>7, <1>9, <2>4
<1>12. /\ life' \in [Conns -> {"none", "open", "ended", "moving"}]
       /\ load' \in [Conns -> Val] /\ toUpdate' \in Updates
  BY <1>1, <1>2, <1>3 DEF Updates
<1>13. ASSUME NEW d \in Conns PROVE Living(d)'
  <2>1. CASE d = c
    <3>1. /\ load'[c] = m /\ toUpdate'[c] = None /\ stat'[c] = Enabled(m)
          /\ life'[c] \in {"ended", "open"}
      BY <1>1, <1>3 DEF Stats, Updates
    <3> QED  BY <2>1, <3>1 DEF Living, Expected, IsEnabled, Enabled
  <2>2. CASE d # c
    <3>1. /\ load'[d] = load[d] /\ toUpdate'[d] = toUpdate[d] /\ stat'[d] = stat[d]
          /\ life'[d] = life[d]
      BY <1>1, <1>3, <2>2 DEF Stats, Updates
    <3> QED  BY <1>1, <3>1 DEF Living, Expected, IsEnabled
  <2> QED  BY <2>1, <2>2
<1>14. InvAfter
  <2>1. phase' # "polled" /\ phase' \in {"work", "polled"} /\ BucketVars' \in Lists
    BY <1>3, <1>5, <1>6
  <2> QED  BY <1>1, <1>3, <1>7, <1>9, <1>10, <1>11, <1>12, <1>13, <2>1 DEF InvAfter
<1> QED  BY <1>1, <1>3, <1>14, Carries

(* Stats::poll: every handle is polled, and those that ended are dropped.  *)
LEMMA PollStatsHolds == ASSUME PolicyInv, PollStats PROVE PolicyInv'
<1> DEFINE p == AllPolled
<1>1. /\ kind \in {"recv", "rps"} /\ load \in [Conns -> Val]
      /\ \A d \in Conns : Living(d)
      /\ life \in [Conns -> {"none", "open", "ended", "moving"}]
      /\ allowance \in Int \cup {None} /\ signal \in Thresholds \cup {Calm, None}
      /\ kind = "recv" => signal = None
      /\ stat \in Stats /\ toUpdate \in Updates
  BY InvNow
<1>2. /\ handles' = p.handles /\ buckets' = p.b.of /\ position' = p.b.at
      /\ global' = p.global /\ stat' = p.stat /\ toUpdate' = p.toUpdate
      /\ panicked' = ~p.ok
      /\ life' = [c \in Conns |-> IF p.stat[c] = Disabled THEN "none" ELSE life[c]]
      /\ phase' = "polled"
      /\ kind' = kind /\ load' = load /\ allowance' = allowance /\ signal' = signal
  BY DEF PollStats, AllPolled
<1>3. TurnInv(p, Len(handles)) /\ p.i = Len(p.handles) + 1
  BY PollLoop
<1> HIDE DEF p
<1>4. /\ p.handles \in Seq(Conns) /\ p.b \in Lists /\ p.global \in Nat /\ p.stat \in Stats
      /\ p.toUpdate \in Updates /\ p.ok
      /\ Listed(p.handles, p.stat, p.b) /\ p.global = SumOn(Value(p.stat), ToSet(p.handles))
      /\ \A c \in Conns : SameLoad(p, c)
  BY <1>3 DEF TurnInv, PollStates
<1>5. BucketVars' = p.b
  BY <1>2, <1>4 DEF BucketVars, Lists
<1>6. \A c \in ToSet(p.handles) : Fresh(p.stat, p.toUpdate, c)
  <2>1. PICK l \in Nat : Len(p.handles) = l /\ DOMAIN p.handles = 1..l
    BY <1>4
  <2>2. p.i - 1 = l
    BY <1>3, <2>1
  <2>3. \A k \in 1..l : Fresh(p.stat, p.toUpdate, p.handles[k])
    BY <1>3, <2>2 DEF TurnInv
  <2> QED  BY <2>1, <2>3 DEF ToSet
<1>7. ASSUME NEW c \in Conns PROVE Living(c)'
  <2>1. /\ stat'[c].tag = "Enabled" <=> stat[c].tag = "Enabled"
        /\ stat[c].tag = "Enabled" => AtPoll(stat', toUpdate', c) = Expected(c)
    BY <1>2, <1>4 DEF SameLoad
  <2>2. stat'[c].tag = "Disabled" => stat'[c] = Disabled
    BY <1>2, <1>4 DEF Listed, Stats, Disabled
  <2>3. stat'[c].tag = "Enabled" => stat'[c] # Disabled
    BY DEF Disabled
  <2>4. life'[c] = IF stat'[c] = Disabled THEN "none" ELSE life[c]
    BY <1>2
  <2>5. IsEnabled(c)' => Expected(c)' = load'[c] /\ life'[c] \in {"open", "ended"}
    BY <1>1, <1>2, <2>1, <2>3, <2>4 DEF Living, Expected, IsEnabled, AtPoll
  <2> QED  BY <2>2, <2>4, <2>5 DEF Living
<1>8. life' \in [Conns -> {"none", "open", "ended", "moving"}]
  BY <1>1, <1>2
<1>9. panicked' = FALSE
  BY <1>2, <1>4
<1>10. InvAfter
  BY <1>1, <1>2, <1>4, <1>5, <1>6, <1>7, <1>8, <1>9 DEF InvAfter
<1> QED  BY <1>1, <1>2, <1>10, Carries

-----------------------------------------------------------------------------
(* The signal of the switch. *)

(* The connections a signal moves.                                         *)
Selected == IF signal = Calm THEN <<>> ELSE Selection(signal)

(* A handle in a bucket, right after the poll: it has a load, it is        *)
(* enabled and its connection is established.                              *)
LEMMA InABucket ==
  ASSUME PolicyInv, phase = "polled", NEW c \in Conns, position[c] # None
  PROVE  /\ c \in ToSet(handles) /\ IsEnabled(c) /\ Served(c)
         /\ life[c] \in {"open", "ended"}
<1>1. Listed(handles, stat, BucketVars) /\ stat \in Stats
  BY InvNow
<1>2. Value(stat)[c] > 0 /\ Value(stat)[c] = stat[c].val
  BY <1>1 DEF Listed, Filed, BucketVars, Value
<1>3. stat[c].tag # "Disabled" /\ c \in ToSet(handles)
  BY <1>1, <1>2 DEF Listed
<1>4. stat[c].tag = "Enabled"
  BY <1>3, InvNow DEF Fresh
<1>5. life[c] \in {"open", "ended"}
  BY <1>4, InvNow DEF Living, IsEnabled
<1> QED  BY <1>3, <1>4, <1>5 DEF Served, IsEnabled

(* A handle in none has no load.                                           *)
LEMMA InNoBucket ==
  ASSUME PolicyInv, NEW c \in Conns, position[c] = None
  PROVE  stat[c].val = 0 /\ c \notin ResetVisited
<1>1. Filed(BucketVars, Value(stat)) /\ stat \in Stats /\ kind \in {"recv", "rps"}
  BY InvNow DEF Listed
<1>2. ~(stat[c].val > 0) /\ stat[c].val \in Nat
  BY <1>1, ValuesAreLoads DEF Filed, BucketVars, Value
<1>3. c \notin ResetVisited
  <2>1. \A i \in Indices : \A k \in DOMAIN buckets[i] : position[buckets[i][k]] = <<i, k>>
    BY <1>1 DEF Filed, BucketVars
  <2>2. \A i \in Indices : \A k \in DOMAIN buckets[i] : <<i, k>> \in Places
    BY <1>1, IndexOf, InvNow DEF Places, Lists, BucketVars
  <2>3. None \notin Places
    BY <1>1, NoneIsNoPlace
  <2> QED  BY <2>1, <2>2, <2>3 DEF ResetVisited
<1> QED  BY <1>2, <1>3

(* What is selected can be migrated.                                       *)
LEMMA SelectedIs ==
  ASSUME PolicyInv, RpsSignalAction
  PROVE  /\ phase = "polled" /\ kind = "rps" /\ signal \in Thresholds \cup {Calm}
         /\ Selected \in Seq(Conns) /\ IsInjective(Selected)
         /\ \A c \in ToSet(Selected) : c \in Conns /\ position[c] # None
         /\ signal = Calm => Selected = <<>>
         /\ signal # Calm => /\ signal \in Nat
                             /\ \/ Selected = <<>> /\ NothingToSelect(signal)
                                \/ \E n \in Nat \ {0} : /\ ShortestEnough(signal, n)
                                                        /\ Selected = SubSeq(Considered(signal), 1, n)
<1>1. phase = "polled" /\ signal # None
  BY DEF RpsSignalAction
<1>2. /\ kind = "rps" /\ signal \in Thresholds \cup {Calm} /\ BucketVars \in Lists
      /\ global \in Nat /\ Filed(BucketVars, Value(stat))
  BY <1>1, InvNow DEF Listed
<1>3. CASE signal = Calm
  <2>1. Selected = <<>>
    BY <1>3 DEF Selected
  <2>2. <<>> \in Seq(Conns) /\ IsInjective(<<>>) /\ ToSet(<<>>) = {}
    BY DEF IsInjective, ToSet
  <2> QED  BY <1>1, <1>2, <1>3, <2>1, <2>2
<1>4. CASE signal # Calm
  <2>1. signal \in Nat
    BY <1>2, <1>4, PolicyAssumption
  <2>2. Selected = Selection(signal)
    BY <1>4 DEF Selected
  <2>3. /\ Selection(signal) \in Seq(Conns) /\ IsInjective(Selection(signal))
        /\ \A c \in ToSet(Selection(signal)) : c \in Conns /\ position[c] # None
        /\ \/ Selection(signal) = <<>> /\ NothingToSelect(signal)
           \/ \E n \in Nat \ {0} : ShortestEnough(signal, n)
    <3>1. \A c \in Conns : BucketVars.at[c] = position[c]
      BY DEF BucketVars
    <3> QED  BY <1>2, <2>1, SelectionIs
  <2>4. \A n : ShortestEnough(signal, n) => Selection(signal) = SubSeq(Considered(signal), 1, n)
    BY DEF ShortestEnough
  <2> QED  BY <1>1, <1>2, <1>4, <2>1, <2>2, <2>3, <2>4
<1> QED  BY <1>3, <1>4

(* What a signal moves can be moved, and the statistics start again.       *)
LEMMA SignalHolds == ASSUME PolicyInv, RpsSignalAction PROVE PolicyInv'
<1> DEFINE S == ToSet(Selected)
<1>1. /\ kind \in {"recv", "rps"} /\ load \in [Conns -> Val] /\ toUpdate \in Updates
      /\ stat \in Stats /\ Listed(handles, stat, BucketVars)
      /\ \A d \in Conns : Living(d)
      /\ life \in [Conns -> {"none", "open", "ended", "moving"}]
      /\ allowance \in Int \cup {None}
      /\ \A c \in ToSet(handles) : Fresh(stat, toUpdate, c)
  BY InvNow, SelectedIs
<1>2. /\ UNCHANGED <<kind, position, listVars>>
      /\ allowance' = IF allowance = None THEN None ELSE allowance - Len(Selected)
      /\ panicked' = \E i \in DOMAIN Selected :
                        ~(IsEnabled(Selected[i]) /\ Served(Selected[i]))
      /\ DisableAll(S) /\ signal' = None /\ phase' = "work"
      /\ life' = [c \in Conns |-> IF c \in S THEN "moving" ELSE life[c]]
      /\ toUpdate' = [c \in Conns |-> IF c \in ResetVisited THEN 0 ELSE toUpdate[c]]
      /\ load' = [c \in Conns |-> 0]
  BY DEF RpsSignalAction, Selected
<1>3. /\ phase = "polled" /\ Selected \in Seq(Conns)
      /\ \A c \in S : c \in Conns /\ position[c] # None
  BY SelectedIs
<1>4. panicked' = FALSE
  <2>1. \A i \in DOMAIN Selected : Selected[i] \in S
    BY DEF ToSet
  <2>2. \A i \in DOMAIN Selected : IsEnabled(Selected[i]) /\ Served(Selected[i])
    BY <1>3, <2>1, InABucket
  <2> QED  BY <1>2, <2>2
<1> HIDE DEF S
<1>5. 0 \in Val /\ None \notin Val
  BY <1>1, ValuesAreLoads
<1>6. /\ life' \in [Conns -> {"none", "open", "ended", "moving"}]
      /\ load' \in [Conns -> Val] /\ toUpdate' \in Updates
  BY <1>1, <1>2, <1>5 DEF Updates
<1>7. allowance' \in Int \cup {None}
  <2>1. Len(Selected) \in Int
    BY <1>3
  <2> QED  BY <1>1, <1>2, <2>1
<1>8. /\ stat' \in Stats /\ Value(stat') = Value(stat)
      /\ Listed(handles, stat', BucketVars)
      /\ \A d \in Conns : /\ stat'[d].tag = "Enabled" <=> d \notin S /\ stat[d].tag = "Enabled"
                          /\ stat'[d].tag = "Disabled" <=> stat[d].tag = "Disabled"
                          /\ d \notin S => stat'[d] = stat[d]
  BY <1>1, <1>2, DisableAllIs
<1>9. ASSUME NEW d \in Conns PROVE Living(d)'
  <2>1. stat'[d].tag = "Disabled" => life'[d] = "none"
    <3>1. d \in S => stat[d].tag # "Disabled"
      BY <1>3, InABucket DEF IsEnabled
    <3> QED  BY <1>1, <1>2, <1>8, <3>1 DEF Living
  <2>2. IsEnabled(d)' => life'[d] \in {"open", "ended"}
    BY <1>1, <1>2, <1>8 DEF Living, IsEnabled
  <2>3. IsEnabled(d)' => Expected(d)' = 0
    <3> SUFFICES ASSUME IsEnabled(d)' PROVE Expected(d)' = 0
      OBVIOUS
    <3>1. d \notin S /\ stat'[d] = stat[d] /\ stat[d].tag = "Enabled"
      BY <1>8 DEF IsEnabled
    <3>2. CASE d \in ResetVisited
      <4>1. toUpdate'[d] = 0 /\ 0 # None
        BY <1>2, <1>5, <3>2
      <4> QED  BY <4>1 DEF Expected
    <3>3. CASE d \notin ResetVisited
      <4>1. toUpdate'[d] = toUpdate[d]
        BY <1>2, <3>3
      <4>2. toUpdate[d] = None
        BY <1>1, <3>1 DEF Listed, Fresh
      <4>3. position[d] = None
        <5> SUFFICES ASSUME position[d] # None PROVE d \in ResetVisited
          BY <3>3
        <5>1. /\ position[d][2] \in DOMAIN buckets[position[d][1]]
              /\ buckets[position[d][1]][position[d][2]] = d
          BY <1>1 DEF Listed, Filed, BucketVars
        <5>2. position[d] \in Places
          BY InvNow DEF Lists, BucketVars
        <5>3. position[d][1] \in Indices
          BY <5>2 DEF Places
        <5> QED  BY <5>1, <5>3 DEF ResetVisited
      <4>4. stat[d].val = 0
        BY <4>3, InNoBucket
      <4> QED  BY <3>1, <4>1, <4>2, <4>4 DEF Expected
    <3> QED  BY <3>2, <3>3
  <2>4. load'[d] = 0
    BY <1>2
  <2> QED  BY <2>1, <2>2, <2>3, <2>4 DEF Living
<1>10. /\ signal' \in Thresholds \cup {Calm, None} /\ signal' = None
       /\ phase' \in {"work", "polled"} /\ phase' # "polled"
  BY <1>2
<1> QED  BY <1>2, <1>4, <1>6, <1>7, <1>8, <1>9, <1>10, KeptLists

(* Every step.                                                             *)
LEMMA StepHolds == PolicyInv /\ [Next]_vars => PolicyInv'
<1> SUFFICES ASSUME PolicyInv, [Next]_vars PROVE PolicyInv'
  OBVIOUS
<1>0. /\ life \in [Conns -> {"none", "open", "ended", "moving"}]
      /\ signal \in Thresholds \cup {Calm, None}
      /\ kind = "recv" => signal = None
      /\ kind \in {"recv", "rps"}
  BY InvNow
<1>1. ASSUME NEW c \in Conns, NEW n \in 0..1, NEW fin \in BOOLEAN, Accept(c, n, fin)
      PROVE  PolicyInv'
  BY <1>1, AcceptHolds
<1>2. ASSUME NEW c \in Conns, Push(c) PROVE PolicyInv'
  BY <1>2, PushHolds
<1>3. ASSUME NEW c \in Conns, Pop(c) PROVE PolicyInv'
  BY <1>3, PopHolds
<1>4. ASSUME NEW c \in Conns, EndOf(c) PROVE PolicyInv'
  <2>1. Leaves(c, "ended")
    BY <1>4 DEF EndOf, Leaves
  <2> QED  BY <2>1, LeavesHolds
<1>5. ASSUME NEW c \in Conns, InitiateByQd(c) PROVE PolicyInv'
  <2>1. Leaves(c, "moving")
    BY <1>5 DEF InitiateByQd, Leaves
  <2> QED  BY <2>1, LeavesHolds
<1>6. ASSUME NEW c \in Conns, MigrateOut(c) PROVE PolicyInv'
  <2>1. /\ UNCHANGED <<kind, load, handleVars, listVars, allowance, panicked>>
        /\ phase' = phase /\ signal' = signal /\ life[c] = "moving"
        /\ life' = [life EXCEPT ![c] = "none"]
    BY <1>6 DEF MigrateOut
  <2>2. /\ \A d \in Conns : life[d] # "moving" => life'[d] = life[d]
        /\ \A d \in Conns : life[d] = "moving" => life'[d] \in {"moving", "none"}
        /\ life' \in [Conns -> {"none", "open", "ended", "moving"}]
    BY <1>0, <2>1
  <2> QED  BY <1>0, <2>1, <2>2, QuietHolds
<1>7. ASSUME NEW s \in Thresholds \cup {Calm}, ReceiveRpsSignal(s) PROVE PolicyInv'
  <2>1. /\ UNCHANGED <<kind, load, handleVars, listVars, allowance, panicked>>
        /\ phase' = phase /\ signal' = s /\ life' = life /\ kind = "rps"
    BY <1>7 DEF ReceiveRpsSignal
  <2> QED  BY <1>0, <2>1, QuietHolds
<1>8. CASE PollStats
  BY <1>8, PollStatsHolds
<1>9. CASE NoSignal
  <2>1. /\ UNCHANGED <<kind, load, handleVars, listVars, allowance, panicked>>
        /\ phase' = "work" /\ signal' = signal /\ life' = life
    BY <1>9 DEF NoSignal
  <2> QED  BY <1>0, <2>1, QuietHolds
<1>10. CASE RpsSignalAction
  BY <1>10, SignalHolds
<1>11. CASE UNCHANGED vars
  <2>1. /\ UNCHANGED <<kind, load, handleVars, listVars, allowance, panicked>>
        /\ phase' = phase /\ signal' = signal /\ life' = life
    BY <1>11 DEF vars
  <2> QED  BY <1>0, <2>1, QuietHolds
<1> QED  BY <1>1, <1>2, <1>3, <1>4, <1>5, <1>6, <1>7, <1>8, <1>9, <1>10, <1>11 DEF Next

-----------------------------------------------------------------------------
(* The theorems. *)

(* Whatever is polled, ended, moved or signalled, and in whichever order,  *)
(* the records of the handles are of their types and tell the same story   *)
(* (Stats, BucketList and StatsHandle of stats.rs).                        *)
THEOREM PolicyInvariant == Spec => []PolicyInv
BY InitHolds, StepHolds, PTL DEF Spec

(* The list to poll, the state of a handle and its place in the buckets    *)
(* never disagree, and the host never panics over them (swap_remove in     *)
(* BucketList::remove and Stats::poll, "bucket list stat not enabled",     *)
(* "no QD found for connection").                                          *)
THEOREM HandlesAreKept == Spec => []HandlesHold
<1>1. PolicyInv => HandlesHold
  <2> SUFFICES ASSUME PolicyInv PROVE HandlesHold
    OBVIOUS
  <2>1. Listed(handles, stat, BucketVars) /\ Filed(BucketVars, Value(stat)) /\ ~panicked
    BY DEF PolicyInv, Listed
  <2>2. /\ \A c \in Conns :
             /\ position[c] # None <=> stat[c].val > 0
             /\ position[c] # None => /\ position[c][1] = Index(stat[c].val)
                                      /\ position[c][2] \in DOMAIN buckets[position[c][1]]
                                      /\ buckets[position[c][1]][position[c][2]] = c
        /\ \A i \in Indices : \A k \in DOMAIN buckets[i] :
             position[buckets[i][k]] = <<i, k>>
    BY <2>1 DEF Filed, BucketVars, Value
  <2>3. ListsAgree
    BY <2>1, <2>2 DEF ListsAgree, Listed
  <2> QED  BY <2>1, <2>3 DEF HandlesHold, NeverPanics
<1> QED  BY <1>1, PolicyInvariant, PTL

(* global_stat is the sum of the statistics polled, and the next poll sets *)
(* every one of them to the true load (Stats::poll, StatsHandle::increment,*)
(* reset_stats).                                                           *)
THEOREM LoadsAreTrue == Spec => []LoadIsTrue
<1>1. PolicyInv => LoadIsTrue
  <2> SUFFICES ASSUME PolicyInv PROVE LoadIsTrue
    OBVIOUS
  <2>1. Sum(ToSet(handles)) = SumOn(Value(stat), ToSet(handles))
    BY DEF Sum, SumOn, Value
  <2>2. global = SumOn(Value(stat), ToSet(handles)) /\ \A c \in Conns : Living(c)
    BY DEF PolicyInv
  <2> QED  BY <2>1, <2>2 DEF LoadIsTrue, Living
<1> QED  BY <1>1, PolicyInvariant, PTL

(* What SelectionRelieves says of a step.                                  *)
Relieved ==
  RpsSignalAction =>
    LET left == global - Sum(Moved) IN
    /\ signal # Calm =>
        \/ left <= signal
        \/ Cardinality(Moved) = MaxExtracted
        \/ allowance # None /\ Cardinality(Moved) >= allowance
    /\ Moved # {} =>
        /\ signal # Calm
        /\ \E c \in Moved : left + stat[c].val > signal

(* The load of those considered is all the load there is.                  *)
LEMMA ConsideredIsAll ==
  ASSUME PolicyInv, phase = "polled", NEW R \in SUBSET Conns,
         \A c \in Conns : position[c] # None => c \in R,
         \A c \in R : position[c] # None
  PROVE  global = SumOn(Value(stat), R)
<1>1. /\ handles \in Seq(Conns) /\ stat \in Stats /\ kind \in {"recv", "rps"}
      /\ global = SumOn(Value(stat), ToSet(handles))
  BY InvNow
<1>2. IsFiniteSet(ToSet(handles)) /\ ToSet(handles) \subseteq Conns
  BY <1>1, FiniteList
<1>3. R \in SUBSET ToSet(handles)
  BY InABucket
<1>4. /\ \A c \in ToSet(handles) : Value(stat)[c] \in Nat
      /\ \A c \in ToSet(handles) \ R : Value(stat)[c] = 0
  BY <1>1, <1>2, ValuesAreLoads, InNoBucket
<1>5. SumOn(Value(stat), ToSet(handles)) = SumOn(Value(stat), R)
  BY <1>2, <1>3, <1>4, SumZeros
<1> QED  BY <1>1, <1>5

(* Without the last connection selected the load would be too high.        *)
LEMMA LastIsNeeded ==
  ASSUME kind \in {"recv", "rps"}, stat \in Stats, global \in Nat,
         NEW threshold \in Nat, NEW n \in Nat \ {0}, ShortestEnough(threshold, n),
         Considered(threshold) \in Seq(Conns), IsInjective(Considered(threshold))
  PROVE  \E c \in ToSet(SubSeq(Considered(threshold), 1, n)) :
            (global - SumOn(Value(stat), ToSet(SubSeq(Considered(threshold), 1, n))))
               + stat[c].val > threshold
<1> DEFINE s == Considered(threshold)
           v == Value(stat)
           A == ToSet(SubSeq(s, 1, n))
           B == ToSet(SubSeq(s, 1, n - 1))
<1>1. PICK l \in Nat : Len(s) = l /\ DOMAIN s = 1..l /\ \A k \in 1..l : s[k] \in Conns
  OBVIOUS
<1>2. n \in 1..l /\ global > threshold /\ \A j \in 1..(n - 1) : ~Enough(s, threshold, j)
  BY <1>1 DEF ShortestEnough
<1>3. n - 1 \in Nat /\ n \in Nat /\ n <= Len(s) /\ n - 1 <= Len(s)
  BY <1>1, <1>2
<1>4. /\ \A d : d \in A <=> \E k \in 1..n : d = s[k]
      /\ \A d : d \in B <=> \E k \in 1..(n - 1) : d = s[k]
      /\ SubSeq(s, 1, n - 1) \in Seq(Conns) /\ IsInjective(SubSeq(s, 1, n - 1))
  <2>1. A = {s[k] : k \in 1..n}
    BY <1>3, PrefixIs
  <2>2. /\ SubSeq(s, 1, n - 1) \in Seq(Conns) /\ IsInjective(SubSeq(s, 1, n - 1))
        /\ B = {s[k] : k \in 1..(n - 1)}
    BY <1>3, PrefixIs
  <2> HIDE DEF A, B, s
  <2> QED  BY <2>1, <2>2
<1>5. \A j, k \in 1..l : s[j] = s[k] => j = k
  BY <1>1 DEF IsInjective
<1>6. SumOf(SubSeq(s, 1, n - 1)) = SumOn(v, B)
  BY <1>4, SumOfIs
<1>7. IsFiniteSet(B) /\ B \subseteq Conns
  BY <1>4, FiniteList
<1>8. global - SumOn(v, B) > threshold
  <2>1. CASE n = 1
    <3>1. B = {}
      <4> HIDE DEF B
      <4> QED  BY <1>4, <2>1
    <3>2. SumOn(v, B) = 0
      BY <3>1, SumEmpty
    <3> QED  BY <1>2, <3>2
  <2>2. CASE n # 1
    <3>1. n - 1 \in 1..(n - 1)
      BY <2>2
    <3>2. ~Enough(s, threshold, n - 1)
      BY <1>2, <3>1
    <3>3. ~(global - SumOf(SubSeq(s, 1, n - 1)) <= threshold)
      BY <3>2 DEF Enough, Taken
    <3>4. SumOn(v, B) \in Nat
      <4>1. \A c \in B : v[c] \in Nat
        BY <1>7, ValuesAreLoads
      <4> QED  BY <1>7, <4>1, SumNat
    <3> HIDE DEF v, B
    <3> QED  BY <1>6, <3>3, <3>4
  <2> QED  BY <2>1, <2>2
<1> HIDE DEF A, B, s
<1>9. s[n] \in Conns /\ s[n] \in A /\ s[n] \notin B
  BY <1>1, <1>2, <1>3, <1>4, <1>5
<1>10. A = B \cup {s[n]}
  <2>1. ASSUME NEW d PROVE d \in A <=> d \in B \/ d = s[n]
    <3>1. \A k \in 1..n : k \in 1..(n - 1) \/ k = n
      BY <1>3
    <3>2. \A k \in 1..(n - 1) : k \in 1..n
      BY <1>3
    <3>3. n \in 1..n
      OBVIOUS
    <3> QED  BY <1>4, <3>1, <3>2, <3>3
  <2> QED  BY <2>1
<1>11. SumOn(v, A) = v[s[n]] + SumOn(v, B) /\ SumOn(v, B) \in Nat
       /\ v[s[n]] = stat[s[n]].val /\ v[s[n]] \in Nat
  <2>1. \A c \in B \cup {s[n]} : v[c] \in Nat
    BY <1>7, <1>9, ValuesAreLoads
  <2>2. v[s[n]] = stat[s[n]].val
    BY <1>9, ValuesAreLoads
  <2> HIDE DEF v
  <2>3. SumOn(v, B \cup {s[n]}) = v[s[n]] + SumOn(v, B)
    BY <1>7, <1>9, <2>1, SumAdd
  <2>4. SumOn(v, B) \in Nat
    BY <1>7, <2>1, SumNat
  <2> QED  BY <1>10, <2>1, <2>2, <2>3, <2>4
<1>12. (global - SumOn(v, A)) + stat[s[n]].val > threshold
  <2> HIDE DEF v
  <2> QED  BY <1>8, <1>11
<1> QED  BY <1>9, <1>12 DEF A, s

(* Those that start to move are those selected.                            *)
LEMMA MovedIs ==
  ASSUME PolicyInv, RpsSignalAction
  PROVE  /\ Moved = ToSet(Selected) /\ Sum(Moved) = SumOn(Value(stat), ToSet(Selected))
         /\ Cardinality(Moved) = Len(Selected) /\ Len(Selected) \in Nat
<1>1. /\ Selected \in Seq(Conns) /\ IsInjective(Selected) /\ phase = "polled"
      /\ \A c \in ToSet(Selected) : c \in Conns /\ position[c] # None
  BY SelectedIs
<1>2. life' = [c \in Conns |-> IF c \in ToSet(Selected) THEN "moving" ELSE life[c]]
  BY DEF RpsSignalAction, Selected
<1>3. \A c \in ToSet(Selected) : life[c] # "moving"
  BY <1>1, InABucket
<1> DEFINE S == ToSet(Selected)
<1> HIDE DEF S
<1>4. \A c \in S : c \in Conns /\ life[c] # "moving"
  BY <1>1, <1>3 DEF S
<1>5. \A c \in Conns : life'[c] = IF c \in S THEN "moving" ELSE life[c]
  BY <1>2 DEF S
<1>6. Moved = S
  BY <1>4, <1>5 DEF Moved
<1>7. Sum(Moved) = SumOn(Value(stat), Moved)
  BY DEF Sum, SumOn, Value
<1>8. Cardinality(ToSet(Selected)) = Len(Selected) /\ Len(Selected) \in Nat
  <2>1. PICK l \in Nat : Len(Selected) = l /\ DOMAIN Selected = 1..l
    BY <1>1
  <2> DEFINE f == [k \in 1..l |-> Selected[k]]
  <2>2. \A j, k \in 1..l : f[j] = f[k] => j = k
    BY <1>1, <2>1 DEF IsInjective
  <2>3. ExistsBijection(1..l, ToSet(Selected))
    <3>1. f \in [1..l -> ToSet(Selected)]
      BY <2>1 DEF ToSet
    <3>2. \A c \in ToSet(Selected) : \E k \in 1..l : f[k] = c
      BY <2>1 DEF ToSet
    <3> HIDE DEF f
    <3>3. f \in Surjection(1..l, ToSet(Selected))
      BY <3>1, <3>2 DEF Surjection
    <3>4. f \in Injection(1..l, ToSet(Selected))
      BY <2>2, <3>1 DEF Injection, IsInjective
    <3> QED  BY <3>3, <3>4 DEF ExistsBijection, Bijection
  <2>4. Cardinality(ToSet(Selected)) = l
    BY <2>3, FS_CountingElements
  <2> QED  BY <2>1, <2>4
<1> QED  BY <1>6, <1>7, <1>8 DEF S

(* What is selected is enough and no more, whichever of the limits is met. *)
LEMMA SignalRelieves == ASSUME PolicyInv, RpsSignalAction PROVE Relieved
<1> DEFINE left == global - Sum(Moved)
<1>1. /\ Moved = ToSet(Selected) /\ Sum(Moved) = SumOn(Value(stat), ToSet(Selected))
      /\ Cardinality(Moved) = Len(Selected) /\ Len(Selected) \in Nat
  BY MovedIs
<1>2. /\ kind \in {"recv", "rps"} /\ stat \in Stats /\ global \in Nat /\ phase = "polled"
      /\ BucketVars \in Lists /\ Filed(BucketVars, Value(stat))
  BY InvNow, SelectedIs DEF Listed
<1>3. CASE Selected = <<>> /\ (signal = Calm \/ NothingToSelect(signal))
  <2>1. Moved = {} /\ Sum(Moved) = 0 /\ Cardinality(Moved) = 0
    <3>1. ToSet(<<>>) = {} /\ Len(<<>>) = 0
      BY DEF ToSet
    <3>2. SumOn(Value(stat), {}) = 0
      BY SumEmpty
    <3> QED  BY <1>1, <1>3, <3>1, <3>2
  <2>2. signal # Calm /\ global <= signal => left <= signal
    BY <1>2, <2>1
  <2>3. signal # Calm /\ (\A c \in Conns : position[c] = None) => left <= signal
    <3> SUFFICES ASSUME signal # Calm, \A c \in Conns : position[c] = None
                 PROVE  left <= signal
      OBVIOUS
    <3>1. global = SumOn(Value(stat), {})
      BY <1>2, ConsideredIsAll
    <3>2. global = 0 /\ signal \in Nat
      BY <3>1, SumEmpty, SelectedIs
    <3> QED  BY <2>1, <3>2
  <2>4. allowance # None /\ allowance <= 0 => allowance # None /\ Cardinality(Moved) >= allowance
    <3>1. allowance \in Int \cup {None}
      BY InvNow
    <3> QED  BY <2>1, <3>1
  <2> HIDE DEF left
  <2>5. signal # Calm => left <= signal \/ (allowance # None /\ Cardinality(Moved) >= allowance)
    BY <1>3, <2>2, <2>3, <2>4 DEF NothingToSelect
  <2> QED  BY <2>1, <2>5 DEF Relieved, left
<1>4. ASSUME signal # Calm, NEW n \in Nat \ {0}, ShortestEnough(signal, n),
             Selected = SubSeq(Considered(signal), 1, n)
      PROVE  Relieved
  <2> DEFINE s == Considered(signal)
  <2>1. signal \in Nat
    BY <1>4, SelectedIs
  <2>2. global > signal
    BY <1>4 DEF ShortestEnough
  <2>3. /\ s \in Seq(Conns) /\ IsInjective(s)
        /\ \A c : c \in ToSet(s) <=> c \in Conns /\ position[c] # None
    <3>1. \A c \in Conns : BucketVars.at[c] = position[c]
      BY DEF BucketVars
    <3> QED  BY <1>2, <2>1, <2>2, ConsideredIs
  <2>4. \E c \in Moved : left + stat[c].val > signal
    <3>1. \E c \in ToSet(SubSeq(s, 1, n)) :
             (global - SumOn(Value(stat), ToSet(SubSeq(s, 1, n)))) + stat[c].val > signal
      BY <1>2, <1>4, <2>1, <2>3, LastIsNeeded
    <3> QED  BY <1>1, <1>4, <3>1
  <2> HIDE DEF s
  <2>5. Enough(s, signal, n) /\ n \in 1..Len(s)
    BY <1>4 DEF ShortestEnough, s
  <2>6. Len(Selected) = n /\ Selected = Taken(s, n)
    <3>1. PICK l \in Nat : Len(s) = l
      BY <2>3
    <3>2. n \in Nat /\ n <= Len(s)
      BY <2>5, <3>1
    <3>3. Len(SubSeq(s, 1, n)) = n
      BY <2>3, <3>2, PrefixIs
    <3> QED  BY <1>4, <3>3 DEF Taken, s
  <2>7. SumOf(Selected) = Sum(Moved)
    BY <1>1, <1>2, SelectedIs, SumOfIs
  <2>8. CASE n = Len(s)
    <3>1. Selected = s
      <4>1. PICK l \in Nat : Len(s) = l /\ DOMAIN s = 1..l
        BY <2>3
      <4>2. SubSeq(s, 1, l) = s
        BY <2>3, <4>1
      <4> QED  BY <2>6, <2>8, <4>1, <4>2 DEF Taken
    <3>2. ToSet(s) \in SUBSET Conns
      BY <2>3
    <3>3. global = SumOn(Value(stat), ToSet(s))
      BY <1>2, <2>3, <3>2, ConsideredIsAll
    <3>4. left = 0
      BY <1>1, <1>2, <3>1, <3>3
    <3> QED  BY <2>1, <2>4, <3>4, <1>4 DEF Relieved
  <2>9. CASE n = MaxExtracted
    BY <1>1, <1>4, <2>4, <2>6, <2>9 DEF Relieved
  <2>10. CASE global - SumOf(Taken(s, n)) <= signal
    <3>1. left <= signal
      BY <2>6, <2>7, <2>10
    <3> QED  BY <1>4, <2>4, <3>1 DEF Relieved
  <2>11. CASE allowance # None /\ n >= allowance
    BY <1>1, <1>4, <2>4, <2>6, <2>11 DEF Relieved
  <2> QED  BY <2>5, <2>8, <2>9, <2>10, <2>11 DEF Enough
<1> QED  BY <1>3, <1>4, SelectedIs

(* What stays after a signal is at most the threshold, unless the limit on *)
(* the connections of one selection or the allowance stopped it or all the *)
(* load was picked; without the last connection it would be more, and a    *)
(* host that is not overloaded moves nothing                               *)
(* (connections_to_proactively_migrate).                                   *)
THEOREM MigrationRelieves == Spec => SelectionRelieves
<1>1. PolicyInv /\ [Next]_vars => [Relieved]_vars
  BY SignalRelieves DEF Relieved
<1>2. [][Relieved]_vars => SelectionRelieves
  BY PTL DEF Relieved, SelectionRelieves
<1> QED  BY <1>1, <1>2, PolicyInvariant, PTL DEF Spec
=============================================================================
