--------------------------- MODULE TcpSenderProofs ---------------------------
(***************************************************************************)
(* The send path of a connection (TcpSender): its two queues hold the      *)
(* stream that is written and not acknowledged, every segment bears the    *)
(* number of its bytes, nothing goes beyond the window, and whatever is    *)
(* not acknowledged is sent again.  For streams, buffers and windows of    *)
(* any length below half of the number space.                              *)
(*                                                                         *)
(* The code knows sequence numbers; the invariant is about positions in    *)
(* the space of sequence numbers, from the first (Pos).  As long as the    *)
(* FIN is the last thing sent a position is one of the stream (Stands).    *)
(***************************************************************************)
EXTENDS TcpSender, SequenceTheorems, WellFoundedInduction, TLAPS

-----------------------------------------------------------------------------
(* Induction, and remainders. *)

LEMMA LeastNumber ==
  ASSUME NEW T \in SUBSET Nat, T # {}
  PROVE  \E x \in T : \A y \in T : x <= y
<1> DEFINE R == {ss \in Nat \X Nat : ss[1] < ss[2]}
<1>1. IsWellFoundedOn(R, Nat)
  BY NatLessThanWellFounded DEF OpToRel
<1>2. \A x, y \in Nat : x < y => <<x, y>> \in R
  OBVIOUS
<1> HIDE DEF R
<1>3. PICK x \in T : \A y \in T : ~(<<y, x>> \in R)
  BY <1>1, WFMin
<1>4. \A y \in T : ~(y < x)
  BY <1>2, <1>3
<1> QED  BY <1>4

LEMMA Induction ==
  ASSUME NEW S, 0 \in S, \A n \in Nat : n \in S => n + 1 \in S
  PROVE  Nat \subseteq S
<1> SUFFICES ASSUME Nat \ S # {} PROVE FALSE
  OBVIOUS
<1>1. PICK x \in Nat \ S : \A y \in Nat \ S : x <= y
  BY LeastNumber
<1>2. x # 0 /\ x - 1 \in Nat
  BY <1>1
<1>3. x - 1 \in S
  BY <1>1, <1>2
<1> QED  BY <1>1, <1>2, <1>3

LEMMA ModIs ==
  ASSUME NEW m \in Nat \ {0}, NEW a \in Int
  PROVE  a % m \in 0..(m - 1) /\ a \div m \in Int /\ a = m * (a \div m) + (a % m)
OBVIOUS

LEMMA ModUnique ==
  ASSUME NEW m \in Nat \ {0}, NEW q \in Int, NEW r \in 0..(m - 1)
  PROVE  (m * q + r) % m = r
<1> DEFINE a == m * q + r
           d == a \div m
           s == a % m
<1>1. a \in Int /\ d \in Int /\ s \in 0..(m - 1) /\ m * q + r = m * d + s
  BY ModIs
<1> HIDE DEF d, s, a
<1>2. m * (q - d) = s - r
  BY <1>1
<1>3. q - d = 0
  <2>1. CASE q - d >= 1
    <3>1. m * (q - d) >= m
      BY <1>1, <2>1
    <3> QED  BY <1>1, <1>2, <3>1
  <2>2. CASE q - d <= -1
    <3>1. m * (q - d) <= -m
      BY <1>1, <2>2
    <3> QED  BY <1>1, <1>2, <3>1
  <2> QED  BY <1>1, <2>1, <2>2
<1>4. s = r
  BY <1>1, <1>2, <1>3
<1> QED  BY <1>4 DEF s, a

LEMMA ModShift ==
  ASSUME NEW m \in Nat \ {0}, NEW a \in Int, NEW b \in Int
  PROVE  ((a % m) + b) % m = (a + b) % m
<1> DEFINE p == a \div m
           q == (a + b) \div m
           r == (a + b) % m
<1>1. p \in Int /\ a % m \in 0..(m - 1) /\ a = m * p + (a % m)
  BY ModIs
<1>0. a + b \in Int
  OBVIOUS
<1>2. q \in Int /\ r \in 0..(m - 1) /\ a + b = m * q + r
  BY <1>0, ModIs
<1> HIDE DEF p, q, r
<1>3. (a % m) + b = m * (q - p) + r
  <2>1. m * (q - p) = m * q - m * p
    BY <1>1, <1>2
  <2> DEFINE mp == m * p
             mq == m * q
             s == a % m
  <2>2. mq \in Int /\ mp \in Int /\ s \in Int /\ r \in Int
    BY <1>1, <1>2
  <2>3. a = mp + s /\ a + b = mq + r /\ m * (q - p) = mq - mp
    BY <1>1, <1>2, <2>1
  <2> HIDE DEF mp, mq, s
  <2>4. s + b = (mq - mp) + r
    BY <2>2, <2>3
  <2> QED  BY <2>3, <2>4 DEF s
<1>4. (m * (q - p) + r) % m = r
  BY <1>1, <1>2, ModUnique
<1> QED  BY <1>3, <1>4 DEF r
LEMMA ModMinus ==
  ASSUME NEW m \in Nat \ {0}, NEW a \in Int, NEW b \in Int
  PROVE  (a - (b % m)) % m = (a - b) % m
<1>1. PICK q \in Int, r \in 0..(m - 1) : b % m = r /\ b = m * q + r
  BY ModIs
<1>2. PICK x \in Int, y \in 0..(m - 1) : (a - b) % m = y /\ a - b = m * x + y
  <2>1. a - b \in Int
    OBVIOUS
  <2> QED  BY <2>1, ModIs
<1>3. a - r = m * (x + q) + y
  <2>1. m * (x + q) = m * x + m * q /\ m * x \in Int /\ m * q \in Int
    OBVIOUS
  <2> QED  BY <1>1, <1>2, <2>1
<1>4. (m * (x + q) + y) % m = y
  BY ModUnique
<1> QED  BY <1>1, <1>2, <1>3, <1>4

LEMMA ModSmall ==
  ASSUME NEW m \in Nat \ {0}, NEW a \in Int
  PROVE  /\ a \in 0..(m - 1) => a % m = a
         /\ a \in (-m)..(-1) => a % m = m + a
<1>1. ASSUME a \in 0..(m - 1) PROVE a % m = a
  <2>1. (m * 0 + a) % m = a
    BY <1>1, ModUnique
  <2> QED  BY <2>1
<1>2. ASSUME a \in (-m)..(-1) PROVE a % m = m + a
  <2>1. m + a \in 0..(m - 1) /\ m * (-1) + (m + a) = a
    BY <1>2
  <2>2. (m * (-1) + (m + a)) % m = m + a
    BY <2>1, ModUnique
  <2> QED  BY <2>1, <2>2
<1> QED  BY <1>1, <1>2

-----------------------------------------------------------------------------
(* Positions.  All that follows is for the parameters the code admits. *)

Pos(x) == SeqSub(x, Isn)
Half   == Modulus \div 2

LEMMA Parameters ==
  ASSUME SenderAssumption
  PROVE  /\ Modulus \in Nat \ {0} /\ Half \in Nat /\ Modulus = 2 * Half
         /\ Isn \in SeqNumbers /\ Isn \in Nat /\ Isn < Modulus
         /\ Outgoing \in Nat /\ MaxBuffer \in Nat /\ Cutoff \in Nat
         /\ Mss \in Nat \ {0} /\ Capacity \in Nat \ {0} /\ MaxMigrations \in Nat
         /\ MaxLoss \in Nat /\ MaxExpiries \in Nat
         /\ Outgoing + Capacity + MaxMigrations + 2 < Half
         /\ None \notin 0..Outgoing
<1>1. Modulus \in Nat \ {0} /\ Half \in Nat /\ Modulus = 2 * Half
  BY ModulusAssumption DEF Half
<1> QED  BY <1>1 DEF SenderAssumption, SeqNumbers

(* A number is its position, and a position less than the modulus the      *)
(* position of its number.                                                 *)
LEMMA Positions ==
  ASSUME SenderAssumption
  PROVE  /\ \A x \in SeqNumbers : /\ Pos(x) \in 0..(Modulus - 1)
                                  /\ SeqNo(Pos(x)) = x
         /\ \A p \in 0..(Modulus - 1) : SeqNo(p) \in SeqNumbers /\ Pos(SeqNo(p)) = p
         /\ \A x, y \in SeqNumbers : Pos(x) = Pos(y) => x = y
<1>0. Modulus \in Nat \ {0} /\ Isn \in 0..(Modulus - 1)
  BY Parameters DEF SeqNumbers
<1>1. ASSUME NEW x \in SeqNumbers
      PROVE  Pos(x) \in 0..(Modulus - 1) /\ SeqNo(Pos(x)) = x
  <2>1. x \in 0..(Modulus - 1) /\ x - Isn \in Int
    BY <1>0 DEF SeqNumbers
  <2>2. (x - Isn) % Modulus \in 0..(Modulus - 1)
    BY <1>0, <2>1, ModIs
  <2>3. (((x - Isn) % Modulus) + Isn) % Modulus = ((x - Isn) + Isn) % Modulus
    <3>1. Isn \in Int
      BY <1>0
    <3> QED  BY <1>0, <2>1, <3>1, ModShift
  <2>4. (x - Isn) + Isn = x /\ Isn + ((x - Isn) % Modulus) = ((x - Isn) % Modulus) + Isn
    BY <1>0, <2>1, <2>2
  <2>5. x % Modulus = x
    BY <1>0, <2>1, ModSmall
  <2> QED  BY <2>2, <2>3, <2>4, <2>5 DEF Pos, SeqSub, SeqNo, SeqAdd
<1>2. ASSUME NEW p \in 0..(Modulus - 1)
      PROVE  SeqNo(p) \in SeqNumbers /\ Pos(SeqNo(p)) = p
  <2>1. Isn + p \in Int /\ -Isn \in Int
    BY <1>0
  <2>2. (Isn + p) % Modulus \in 0..(Modulus - 1)
    BY <1>0, <2>1, ModIs
  <2>3. (((Isn + p) % Modulus) + (-Isn)) % Modulus = ((Isn + p) + (-Isn)) % Modulus
    BY <1>0, <2>1, ModShift
  <2>4. (Isn + p) + (-Isn) = p /\ ((Isn + p) % Modulus) + (-Isn) = ((Isn + p) % Modulus) - Isn
    BY <1>0, <2>1, <2>2
  <2>5. p % Modulus = p
    BY <1>0, ModSmall
  <2> QED  BY <2>2, <2>3, <2>4, <2>5 DEF Pos, SeqSub, SeqNo, SeqAdd, SeqNumbers
<1>3. \A x, y \in SeqNumbers : Pos(x) = Pos(y) => x = y
  <2> SUFFICES ASSUME NEW x \in SeqNumbers, NEW y \in SeqNumbers, Pos(x) = Pos(y)
               PROVE  x = y
    OBVIOUS
  <2>1. SeqNo(Pos(x)) = x /\ SeqNo(Pos(y)) = y
    BY <1>1
  <2> QED  BY <2>1
<1> QED  BY <1>1, <1>2, <1>3

(* Sums and differences of numbers, in positions. *)
LEMMA Numbers ==
  ASSUME SenderAssumption, NEW x \in SeqNumbers, NEW y \in SeqNumbers
  PROVE  /\ SeqSub(x, y) = IF Pos(y) <= Pos(x) THEN Pos(x) - Pos(y)
                                               ELSE Modulus + Pos(x) - Pos(y)
         /\ \A n \in Nat : /\ SeqAdd(x, n) = SeqNo(Pos(x) + n)
                           /\ SeqAdd(x, n) \in SeqNumbers
                           /\ Pos(x) + n < Modulus => Pos(SeqAdd(x, n)) = Pos(x) + n
         /\ SeqLt(x, y) <=> IF Pos(y) <= Pos(x) THEN Pos(x) - Pos(y) >= Half
                                                ELSE Pos(y) - Pos(x) <= Half
         /\ SeqLe(x, y) <=> x = y \/ SeqLt(x, y)
<1>0. /\ Modulus \in Nat \ {0} /\ Isn \in 0..(Modulus - 1) /\ Half \in Nat
      /\ Modulus = 2 * Half
  BY Parameters DEF SeqNumbers
<1>1. PICK X \in 0..(Modulus - 1) : X = Pos(x)
  BY Positions
<1>2. PICK Y \in 0..(Modulus - 1) : Y = Pos(y)
  BY Positions
<1>3. x = (Isn + X) % Modulus /\ y = (Isn + Y) % Modulus
  <2>1. x = SeqNo(X) /\ y = SeqNo(Y)
    BY <1>1, <1>2, Positions
  <2> QED  BY <2>1 DEF SeqNo, SeqAdd
<1>4. x \in 0..(Modulus - 1) /\ y \in 0..(Modulus - 1)
  BY DEF SeqNumbers
<1>5. (x - y) % Modulus = (X - Y) % Modulus
  <2>1. (((Isn + X) % Modulus) - ((Isn + Y) % Modulus)) % Modulus
          = (((Isn + X) % Modulus) - (Isn + Y)) % Modulus
    BY <1>0, <1>3, <1>4, ModMinus
  <2>2. (((Isn + X) % Modulus) + (-(Isn + Y))) % Modulus = ((Isn + X) + (-(Isn + Y))) % Modulus
    <3>1. Isn + X \in Int /\ -(Isn + Y) \in Int
      BY <1>0
    <3> QED  BY <1>0, <3>1, ModShift
  <2>3. /\ x + (-(Isn + Y)) = x - (Isn + Y)
        /\ (Isn + X) + (-(Isn + Y)) = X - Y
    BY <1>0, <1>4
  <2> QED  BY <1>3, <2>1, <2>2, <2>3
<1>6. SeqSub(x, y) = IF Y <= X THEN X - Y ELSE Modulus + X - Y
  <2>0. PICK d \in Int : d = X - Y
    BY <1>0
  <2>1. SeqSub(x, y) = d % Modulus
    BY <1>5, <2>0 DEF SeqSub
  <2>2. CASE Y <= X
    <3>1. d \in 0..(Modulus - 1)
      BY <1>0, <2>0, <2>2
    <3>2. d % Modulus = d
      BY <1>0, <3>1, ModSmall
    <3> QED  BY <2>0, <2>1, <2>2, <3>2
  <2>3. CASE Y > X
    <3>1. d \in (-Modulus)..(-1) /\ Modulus + d = Modulus + X - Y
      BY <1>0, <2>0, <2>3
    <3>2. d % Modulus = Modulus + d
      BY <1>0, <3>1, ModSmall
    <3> QED  BY <2>1, <2>3, <3>1, <3>2
  <2> QED  BY <2>2, <2>3
<1>7. ASSUME NEW n \in Nat
      PROVE  /\ SeqAdd(x, n) = SeqNo(X + n) /\ SeqAdd(x, n) \in SeqNumbers
             /\ X + n < Modulus => Pos(SeqAdd(x, n)) = X + n
  <2>1. (((Isn + X) % Modulus) + n) % Modulus = ((Isn + X) + n) % Modulus
    <3>1. Isn + X \in Int /\ n \in Int
      BY <1>0
    <3> QED  BY <1>0, <3>1, ModShift
  <2>2. (Isn + X) + n = Isn + (X + n) /\ x + n \in Int
    BY <1>0, <1>4
  <2>3. SeqAdd(x, n) = SeqNo(X + n)
    BY <1>3, <2>1, <2>2 DEF SeqAdd, SeqNo
  <2>4. (x + n) % Modulus \in 0..(Modulus - 1)
    BY <1>0, <2>2, ModIs
  <2>5. X + n < Modulus => X + n \in 0..(Modulus - 1)
    BY <1>0
  <2> QED  BY <2>3, <2>4, <2>5, Positions DEF SeqAdd, SeqNumbers
<1>8. SeqLt(x, y) <=> IF Y <= X THEN X - Y >= Half ELSE Y - X <= Half
  BY <1>0, <1>6 DEF SeqLt, Half
<1> QED  BY <1>1, <1>2, <1>6, <1>7, <1>8 DEF SeqLe

-----------------------------------------------------------------------------
(* Sums over a queue (Total).  A recursive definition defines something:   *)
(* there is a table of the sums.                                           *)

Sums(g, w, n) ==
  g = [j \in 0..n |-> IF j = 0 THEN 0 ELSE g[j - 1] + w[j]]

LEMMA SumsAre ==
  ASSUME NEW g, NEW w, NEW n \in Nat
  PROVE  Sums(g, w, n) <=> /\ g = [j \in 0..n |-> g[j]]
                           /\ g[0] = 0 /\ \A j \in 1..n : g[j] = g[j - 1] + w[j]
<1>1. ASSUME Sums(g, w, n)
      PROVE  /\ g = [j \in 0..n |-> g[j]]
             /\ g[0] = 0 /\ \A j \in 1..n : g[j] = g[j - 1] + w[j]
  BY <1>1 DEF Sums
<1>2. ASSUME g = [j \in 0..n |-> g[j]], g[0] = 0, \A j \in 1..n : g[j] = g[j - 1] + w[j]
      PROVE  Sums(g, w, n)
  <2>1. \A j \in 0..n : g[j] = IF j = 0 THEN 0 ELSE g[j - 1] + w[j]
    <3>1. \A j \in 0..n : j = 0 \/ (j # 0 /\ j \in 1..n)
      OBVIOUS
    <3> QED  BY <1>2, <3>1
  <2> QED  BY <1>2, <2>1 DEF Sums
<1> QED  BY <1>1, <1>2

LEMMA SumsExist ==
  ASSUME NEW w, NEW n \in Nat
  PROVE  \E g : Sums(g, w, n)
<1> DEFINE S == {m \in Nat : \E g : Sums(g, w, m)}
<1>1. 0 \in S
  <2> DEFINE g == [j \in 0..0 |-> 0]
  <2>1. g = [j \in 0..0 |-> g[j]] /\ g[0] = 0 /\ \A j \in 1..0 : g[j] = g[j - 1] + w[j]
    OBVIOUS
  <2> HIDE DEF g
  <2>2. Sums(g, w, 0)
    BY <2>1, SumsAre
  <2> QED  BY <2>2
<1>2. ASSUME NEW m \in Nat, m \in S PROVE m + 1 \in S
  <2>1. PICK g : Sums(g, w, m)
    BY <1>2
  <2>2. g[0] = 0 /\ \A j \in 1..m : g[j] = g[j - 1] + w[j]
    BY <2>1, SumsAre
  <2> DEFINE h == [j \in 0..(m + 1) |-> IF j = m + 1 THEN g[m] + w[m + 1] ELSE g[j]]
  <2>3. h[0] = 0 /\ h[m + 1] = h[m] + w[m + 1]
    BY <2>2
  <2>4. ASSUME NEW j \in 1..m PROVE h[j] = h[j - 1] + w[j]
    <3>1. j \in 0..(m + 1) /\ j - 1 \in 0..(m + 1) /\ j # m + 1 /\ j - 1 # m + 1
      OBVIOUS
    <3>2. h[j] = g[j] /\ h[j - 1] = g[j - 1]
      BY <3>1
    <3> HIDE DEF h
    <3> QED  BY <2>2, <3>2
  <2>5. h = [j \in 0..(m + 1) |-> h[j]]
    OBVIOUS
  <2> HIDE DEF h
  <2>6. \A j \in 1..(m + 1) : h[j] = h[j - 1] + w[j]
    <3>1. \A j \in 1..(m + 1) : j \in 1..m \/ (j = m + 1 /\ j - 1 = m)
      OBVIOUS
    <3> QED  BY <2>3, <2>4, <3>1
  <2>7. m + 1 \in Nat
    OBVIOUS
  <2>8. Sums(h, w, m + 1)
    BY <2>3, <2>5, <2>6, <2>7, SumsAre
  <2> QED  BY <2>7, <2>8
<1> HIDE DEF S
<1>3. Nat \subseteq S
  BY <1>1, <1>2, Induction
<1> QED  BY <1>3 DEF S

(* The sum of the first k is one of any longer table. *)
LEMMA TotalInTable ==
  ASSUME NEW w, NEW n \in Nat, NEW g, Sums(g, w, n), NEW k \in 0..n
  PROVE  Total(w, k) = g[k]
<1> DEFINE f == CHOOSE h : Sums(h, w, k)
<1>1. Total(w, k) = f[k]
  BY Zenon DEF Total, Sums
<1>2. k \in Nat /\ Sums(f, w, k)
  BY SumsExist
<1> HIDE DEF f
<1>3. f[0] = 0 /\ \A j \in 1..k : f[j] = f[j - 1] + w[j]
  BY <1>2, SumsAre
<1>4. g[0] = 0 /\ \A j \in 1..n : g[j] = g[j - 1] + w[j]
  BY SumsAre
<1> DEFINE S == {j \in Nat : j <= k => f[j] = g[j]}
<1>5. 0 \in S
  BY <1>3, <1>4
<1>6. ASSUME NEW j \in Nat, j \in S PROVE j + 1 \in S
  <2> SUFFICES ASSUME j + 1 <= k PROVE f[j + 1] = g[j + 1]
    OBVIOUS
  <2>1. j + 1 \in 1..k /\ j + 1 \in 1..n /\ (j + 1) - 1 = j /\ j <= k
    BY <1>2
  <2>2. f[j] = g[j]
    BY <1>6, <2>1
  <2> QED  BY <1>3, <1>4, <2>1, <2>2
<1> HIDE DEF S
<1>7. Nat \subseteq S
  BY <1>5, <1>6, Induction
<1>8. f[k] = g[k]
  BY <1>2, <1>7 DEF S
<1> QED  BY <1>1, <1>8

(* A sum grows by its last summand. *)
LEMMA TotalStep ==
  ASSUME NEW w, NEW n \in Nat, \A j \in 1..n : w[j] \in Nat
  PROVE  /\ Total(w, 0) = 0
         /\ \A k \in 1..n : Total(w, k) = Total(w, k - 1) + w[k]
         /\ \A k \in 0..n : Total(w, k) \in Nat
<1>1. PICK g : Sums(g, w, n)
  BY SumsExist
<1>2. g[0] = 0 /\ \A j \in 1..n : g[j] = g[j - 1] + w[j]
  BY <1>1, SumsAre
<1>3. \A k \in 0..n : Total(w, k) = g[k]
  BY <1>1, TotalInTable
<1>4. Total(w, 0) = 0 /\ \A k \in 1..n : Total(w, k) = Total(w, k - 1) + w[k]
  <2>1. 0 \in 0..n /\ \A k \in 1..n : k \in 0..n /\ k - 1 \in 0..n
    OBVIOUS
  <2> QED  BY <1>2, <1>3, <2>1
<1> DEFINE S == {k \in Nat : k <= n => Total(w, k) \in Nat}
<1>5. 0 \in S
  BY <1>4
<1>6. ASSUME NEW k \in Nat, k \in S PROVE k + 1 \in S
  <2> SUFFICES ASSUME k + 1 <= n PROVE Total(w, k + 1) \in Nat
    OBVIOUS
  <2>1. k + 1 \in 1..n /\ (k + 1) - 1 = k /\ k <= n
    OBVIOUS
  <2>2. Total(w, k) \in Nat /\ w[k + 1] \in Nat
    BY <1>6, <2>1
  <2> QED  BY <1>4, <2>1, <2>2
<1> HIDE DEF S
<1>7. Nat \subseteq S
  BY <1>5, <1>6, Induction
<1>8. \A k \in 0..n : Total(w, k) \in Nat
  BY <1>7 DEF S
<1> QED  BY <1>4, <1>8

(* Where the summands agree the sums grow by the same. *)
LEMMA TotalAgree ==
  ASSUME NEW v, NEW w, NEW n \in Nat, NEW m \in 0..n, NEW d \in Nat,
         \A j \in 1..n : v[j] \in Nat, \A j \in 1..(n + d) : w[j] \in Nat,
         \A j \in (m + 1)..n : v[j] = w[j + d]
  PROVE  Total(v, n) - Total(v, m) = Total(w, n + d) - Total(w, m + d)
<1>0. n + d \in Nat /\ m \in Nat
  OBVIOUS
<1>1. /\ \A k \in 1..n : Total(v, k) = Total(v, k - 1) + v[k]
      /\ \A k \in 0..n : Total(v, k) \in Nat
  BY TotalStep
<1>2. /\ \A k \in 1..(n + d) : Total(w, k) = Total(w, k - 1) + w[k]
      /\ \A k \in 0..(n + d) : Total(w, k) \in Nat
  BY <1>0, TotalStep
<1> DEFINE S == {i \in Nat : m + i <= n =>
                   Total(v, m + i) - Total(v, m) = Total(w, (m + i) + d) - Total(w, m + d)}
<1>3. 0 \in S
  <2>1. Total(v, m) \in Nat /\ Total(w, m + d) \in Nat
    <3>1. m \in 0..n /\ m + d \in 0..(n + d)
      BY <1>0
    <3> QED  BY <1>1, <1>2, <3>1
  <2>2. m + 0 = m
    BY <1>0
  <2> QED  BY <2>1, <2>2
<1>4. ASSUME NEW i \in Nat, i \in S PROVE i + 1 \in S
  <2> SUFFICES ASSUME m + (i + 1) <= n
               PROVE  Total(v, m + (i + 1)) - Total(v, m)
                        = Total(w, (m + (i + 1)) + d) - Total(w, m + d)
    OBVIOUS
  <2>1. PICK a \in 1..n : /\ a = m + (i + 1) /\ a - 1 = m + i /\ a \in (m + 1)..n
                          /\ a - 1 \in 0..n /\ m + i <= n
    BY <1>0
  <2>2. PICK b \in 1..(n + d) : b = a + d /\ b - 1 = (m + i) + d /\ b - 1 \in 0..(n + d)
    BY <1>0, <2>1
  <2>3. /\ Total(v, a) = Total(v, a - 1) + v[a] /\ Total(w, b) = Total(w, b - 1) + w[b]
        /\ v[a] = w[b] /\ v[a] \in Nat
    BY <1>1, <1>2, <2>1, <2>2
  <2>4. Total(v, a - 1) - Total(v, m) = Total(w, b - 1) - Total(w, m + d)
    BY <1>4, <2>1, <2>2
  <2>5. /\ Total(v, a - 1) \in Nat /\ Total(v, m) \in Nat
        /\ Total(w, b - 1) \in Nat /\ Total(w, m + d) \in Nat
    <3>1. m \in 0..n /\ m + d \in 0..(n + d)
      BY <1>0
    <3> QED  BY <1>1, <1>2, <2>1, <2>2, <3>1
  <2>6. Total(v, a) - Total(v, m) = Total(w, b) - Total(w, m + d)
    BY <2>3, <2>4, <2>5
  <2> QED  BY <2>1, <2>2, <2>6
<1> HIDE DEF S
<1>5. Nat \subseteq S
  BY <1>3, <1>4, Induction
<1>6. n - m \in Nat /\ m + (n - m) = n
  BY <1>0
<1> QED  BY <1>5, <1>6 DEF S

(* Sums do not fall, and rise by a positive summand. *)
LEMMA TotalGrows ==
  ASSUME NEW w, NEW n \in Nat, \A j \in 1..n : w[j] \in Nat, NEW i \in 0..n, NEW k \in i..n
  PROVE  Total(w, i) <= Total(w, k)
<1>1. /\ \A j \in 1..n : Total(w, j) = Total(w, j - 1) + w[j]
      /\ \A j \in 0..n : Total(w, j) \in Nat
  BY TotalStep
<1> DEFINE S == {j \in Nat : i + j <= n => Total(w, i) <= Total(w, i + j)}
<1>2. 0 \in S
  <2>1. i + 0 = i /\ Total(w, i) \in Nat
    BY <1>1
  <2> QED  BY <2>1
<1>3. ASSUME NEW j \in Nat, j \in S PROVE j + 1 \in S
  <2> SUFFICES ASSUME i + (j + 1) <= n PROVE Total(w, i) <= Total(w, i + (j + 1))
    OBVIOUS
  <2>1. PICK a \in 1..n : a = i + (j + 1) /\ a - 1 = i + j /\ a - 1 \in 0..n /\ i + j <= n
    OBVIOUS
  <2>2. Total(w, i) <= Total(w, a - 1)
    BY <1>3, <2>1
  <2>3. Total(w, a) = Total(w, a - 1) + w[a] /\ w[a] \in Nat
    BY <1>1, <2>1
  <2>4. Total(w, i) \in Nat /\ Total(w, a - 1) \in Nat
    BY <1>1, <2>1
  <2>5. Total(w, i) <= Total(w, a)
    BY <2>2, <2>3, <2>4
  <2> QED  BY <2>1, <2>5
<1> HIDE DEF S
<1>4. Nat \subseteq S
  BY <1>2, <1>3, Induction
<1>5. k - i \in Nat /\ i + (k - i) = k /\ k <= n
  OBVIOUS
<1> QED  BY <1>4, <1>5 DEF S


LEMMA TotalSame ==
  ASSUME NEW v, NEW w, NEW n \in Nat, \A j \in 1..n : v[j] = w[j]
  PROVE  \A k \in 0..n : Total(v, k) = Total(w, k)
<1>1. PICK g : Sums(g, v, n)
  BY SumsExist
<1>2. /\ g = [j \in 0..n |-> g[j]] /\ g[0] = 0
      /\ \A j \in 1..n : g[j] = g[j - 1] + v[j]
  BY <1>1, SumsAre
<1>3. \A j \in 1..n : g[j] = g[j - 1] + w[j]
  BY <1>2
<1>4. Sums(g, w, n)
  BY <1>2, <1>3, SumsAre
<1> QED  BY <1>1, <1>4, TotalInTable

-----------------------------------------------------------------------------
(* Buffers and queues of them. *)

Bufs == {b \in SendBuffers : b.at + b.len <= Outgoing}
Segs == [seq: SeqNumbers, buf: Bufs, fin: BOOLEAN]

LEMMA BufferIs ==
  ASSUME SenderAssumption, NEW b \in Bufs
  PROVE  /\ b.at \in Nat /\ b.len \in Nat /\ b.at + b.len <= Outgoing
         /\ Span(b) \in Nat \ {0} /\ Span(b) = IF b.len = 0 THEN 1 ELSE b.len
         /\ \A n \in 0..b.len :
               /\ Take(b, n) \in Bufs /\ Take(b, n).at = b.at /\ Take(b, n).len = n
               /\ Adjust(b, n) \in Bufs /\ Adjust(b, n).at = b.at + n
               /\ Adjust(b, n).len = b.len - n
<1>0. Outgoing \in Nat
  BY Parameters
<1>1. /\ b \in SendBuffers /\ b.at \in 0..Outgoing /\ b.len \in 0..Outgoing
      /\ b.at + b.len <= Outgoing
  BY DEF Bufs, SendBuffers
<1>2. Span(b) \in Nat \ {0} /\ Span(b) = IF b.len = 0 THEN 1 ELSE b.len
  BY <1>1 DEF Span
<1>3. ASSUME NEW n \in 0..b.len
      PROVE  /\ Take(b, n) \in Bufs /\ Take(b, n).at = b.at /\ Take(b, n).len = n
             /\ Adjust(b, n) \in Bufs /\ Adjust(b, n).at = b.at + n
             /\ Adjust(b, n).len = b.len - n
  <2>1. Take(b, n) \in SendBuffers /\ Take(b, n).at = b.at /\ Take(b, n).len = n
    <3>1. n \in 0..Outgoing
      BY <1>0, <1>1
    <3> QED  BY <1>1, <3>1 DEF Take, SendBuffers
  <2>2. Adjust(b, n) \in SendBuffers /\ Adjust(b, n).at = b.at + n /\ Adjust(b, n).len = b.len - n
    <3>1. b.at + n \in 0..Outgoing /\ b.len - n \in 0..Outgoing
      BY <1>0, <1>1
    <3> QED  BY <3>1 DEF Adjust, SendBuffers
  <2>3. b.at + n <= Outgoing /\ (b.at + n) + (b.len - n) <= Outgoing
    BY <1>0, <1>1
  <2> QED  BY <2>1, <2>2, <2>3 DEF Bufs
<1> QED  BY <1>0, <1>1, <1>2, <1>3

LEMMA QueueIs ==
  ASSUME SenderAssumption, NEW q \in Seq(Bufs)
  PROVE  /\ Len(q) \in Nat /\ DOMAIN q = 1..Len(q) /\ (q = <<>> <=> Len(q) = 0)
         /\ \A i \in 1..Len(q) : q[i] \in Bufs
BY LenProperties

(* The sequence numbers that the first k buffers take. *)
LEMMA SpansAre ==
  ASSUME SenderAssumption, NEW q \in Seq(Bufs)
  PROVE  /\ Spans(q, 0) = 0
         /\ \A k \in 0..Len(q) : Spans(q, k) \in Nat
         /\ \A k \in 1..Len(q) : Spans(q, k) = Spans(q, k - 1) + Span(q[k])
         /\ \A i \in 0..Len(q) : \A k \in i..Len(q) :
               Spans(q, i) <= Spans(q, k) /\ (i < k => Spans(q, i) < Spans(q, k))
<1> DEFINE w == [j \in DOMAIN q |-> Span(q[j])]
<1>0. PICK n \in Nat : n = Len(q)
  BY QueueIs
<1>1. \A j \in 1..n : w[j] = Span(q[j]) /\ w[j] \in Nat \ {0}
  BY <1>0, QueueIs, BufferIs
<1>2. \A k : Spans(q, k) = Total(w, k)
  BY DEF Spans
<1> HIDE DEF w
<1>3. /\ Total(w, 0) = 0
      /\ \A k \in 1..n : Total(w, k) = Total(w, k - 1) + w[k]
      /\ \A k \in 0..n : Total(w, k) \in Nat
  BY <1>1, TotalStep
<1>4. ASSUME NEW i \in 0..n, NEW k \in i..n, i < k PROVE Total(w, i) < Total(w, k)
  <2>1. PICK a \in 1..n : a = i + 1 /\ a - 1 = i /\ k \in a..n /\ a \in 0..n
    BY <1>4
  <2>2. Total(w, a) = Total(w, i) + w[a] /\ w[a] \in Nat \ {0}
    BY <1>1, <1>3, <2>1
  <2>3. Total(w, a) <= Total(w, k)
    <3>1. \A j \in 1..n : w[j] \in Nat
      BY <1>1
    <3> QED  BY <2>1, <3>1, TotalGrows
  <2>4. Total(w, i) \in Nat /\ Total(w, k) \in Nat /\ Total(w, a) \in Nat
    <3>1. k \in 0..n
      BY <1>4
    <3> QED  BY <1>3, <2>1, <3>1
  <2> QED  BY <2>2, <2>3, <2>4
<1>5. ASSUME NEW i \in 0..n, NEW k \in i..n PROVE Total(w, i) <= Total(w, k)
  <2>1. \A j \in 1..n : w[j] \in Nat
    BY <1>1
  <2> QED  BY <2>1, TotalGrows
<1> QED  BY <1>0, <1>1, <1>2, <1>3, <1>4, <1>5

LEMMA SpansAppended ==
  ASSUME SenderAssumption, NEW q \in Seq(Bufs), NEW b \in Bufs
  PROVE  /\ Append(q, b) \in Seq(Bufs) /\ Len(Append(q, b)) = Len(q) + 1
         /\ \A k \in 1..Len(q) : Append(q, b)[k] = q[k]
         /\ Append(q, b)[Len(q) + 1] = b
         /\ \A k \in 0..Len(q) : Spans(Append(q, b), k) = Spans(q, k)
         /\ Spans(Append(q, b), Len(q) + 1) = Spans(q, Len(q)) + Span(b)
<1>1. PICK r \in Seq(Bufs) : /\ r = Append(q, b) /\ Len(r) = Len(q) + 1
                             /\ \A k \in 1..Len(q) : r[k] = q[k]
                             /\ r[Len(q) + 1] = b
  <2>1. Append(q, b) \in Seq(Bufs) /\ Len(Append(q, b)) = Len(q) + 1
    OBVIOUS
  <2>2. \A k \in 1..Len(q) : Append(q, b)[k] = q[k]
    OBVIOUS
  <2>3. Append(q, b)[Len(q) + 1] = b
    OBVIOUS
  <2> QED  BY <2>1, <2>2, <2>3
<1>0. PICK n \in Nat : n = Len(q)
  BY QueueIs
<1> DEFINE v == [j \in DOMAIN r |-> Span(r[j])]
           w == [j \in DOMAIN q |-> Span(q[j])]
<1>2. /\ \A j \in 1..(n + 1) : v[j] = Span(r[j]) /\ v[j] \in Nat
      /\ \A j \in 1..n : w[j] = Span(q[j]) /\ w[j] \in Nat
  BY <1>0, <1>1, QueueIs, BufferIs
<1>3. \A k : Spans(q, k) = Total(w, k) /\ Spans(r, k) = Total(v, k)
  BY DEF Spans
<1> HIDE DEF v, w
<1>4. \A k \in 0..n : Total(v, k) = Total(w, k)
  <2>1. \A j \in 1..n : v[j] = w[j]
    BY <1>0, <1>1, <1>2
  <2> QED  BY <2>1, TotalSame
<1>5. Total(v, n + 1) = Total(v, n) + Span(b)
  <2>1. n + 1 \in 1..(n + 1) /\ (n + 1) - 1 = n /\ n + 1 \in Nat
    OBVIOUS
  <2>2. Total(v, n + 1) = Total(v, n) + v[n + 1]
    BY <1>2, <2>1, TotalStep
  <2>3. v[n + 1] = Span(b)
    BY <1>0, <1>1, <1>2, <2>1
  <2> QED  BY <2>2, <2>3
<1> QED  BY <1>0, <1>1, <1>3, <1>4, <1>5

(* What is left of a queue when its first buffer is taken, or cut. *)
LEMMA TailIs ==
  ASSUME SenderAssumption, NEW q \in Seq(Bufs), q # <<>>
  PROVE  /\ Head(q) = q[1] /\ q[1] \in Bufs /\ Len(q) \in Nat \ {0}
         /\ Tail(q) \in Seq(Bufs) /\ Len(Tail(q)) = Len(q) - 1
         /\ \A i \in 1..(Len(q) - 1) : Tail(q)[i] = q[i + 1]
<1>1. Len(q) \in Nat \ {0} /\ \A i \in 1..Len(q) : q[i] \in Bufs
  BY QueueIs
<1>2. Head(q) = q[1] /\ q[1] \in Bufs
  BY <1>1
<1>3. Tail(q) \in Seq(Bufs) /\ Len(Tail(q)) = Len(q) - 1
  BY HeadTailProperties
<1>4. \A i \in 1..(Len(q) - 1) : Tail(q)[i] = q[i + 1]
  BY HeadTailProperties
<1> QED  BY <1>1, <1>2, <1>3, <1>4

LEMMA CutIs ==
  ASSUME SenderAssumption, NEW q \in Seq(Bufs), q # <<>>, NEW n \in 0..q[1].len
  PROVE  \E r \in Seq(Bufs) :
           /\ r = <<Adjust(Head(q), n)>> \o Tail(q) /\ Len(r) = Len(q)
           /\ r[1] = Adjust(q[1], n) /\ \A i \in 2..Len(q) : r[i] = q[i]
<1>1. PICK t \in Seq(Bufs) : t = Tail(q) /\ Len(t) = Len(q) - 1
                             /\ \A i \in 1..(Len(q) - 1) : t[i] = q[i + 1]
  BY TailIs
<1>2. PICK b \in Bufs : b = Adjust(Head(q), n) /\ b = Adjust(q[1], n)
  BY TailIs, BufferIs
<1>3. PICK m \in Nat \ {0} : m = Len(q)
  BY TailIs
<1>4. <<b>> \o t \in Seq(Bufs) /\ Len(<<b>> \o t) = m
  BY <1>1, <1>3
<1>5. (<<b>> \o t)[1] = b
  OBVIOUS
<1>6. ASSUME NEW i \in 2..m PROVE (<<b>> \o t)[i] = q[i]
  <2>1. (<<b>> \o t)[i] = t[i - 1]
    BY <1>1, <1>3
  <2>2. i - 1 \in 1..(m - 1) /\ (i - 1) + 1 = i
    OBVIOUS
  <2>3. t[i - 1] = q[(i - 1) + 1]
    BY <1>1, <1>3, <2>2
  <2> QED  BY <2>1, <2>2, <2>3
<1> QED  BY <1>1, <1>2, <1>3, <1>4, <1>5, <1>6

(* A queue that holds the stream from one position to another. *)
Chain(q, from, to) ==
  /\ (IF q = <<>> THEN to ELSE q[1].at) = from
  /\ \A i \in 1..Len(q) : q[i].at + q[i].len = IF i = Len(q) THEN to ELSE q[i + 1].at

LEMMA ChainAppended ==
  ASSUME SenderAssumption, NEW q \in Seq(Bufs), NEW b \in Bufs, NEW from, Chain(q, from, b.at)
  PROVE  Chain(Append(q, b), from, b.at + b.len)
<1>1. PICK n \in Nat : n = Len(q) /\ (q = <<>> <=> n = 0) /\ \A i \in 1..n : q[i] \in Bufs
  BY QueueIs
<1>2. PICK r : /\ r = Append(q, b) /\ Len(r) = n + 1 /\ r # <<>>
               /\ \A k \in 1..n : r[k] = q[k]
               /\ r[n + 1] = b
  <2>1. Append(q, b) \in Seq(Bufs) /\ Len(Append(q, b)) = Len(q) + 1
        /\ (\A k \in 1..Len(q) : Append(q, b)[k] = q[k])
        /\ Append(q, b)[Len(q) + 1] = b
    BY SpansAppended
  <2>2. Append(q, b) # <<>>
    BY <1>1, <2>1
  <2> QED  BY <1>1, <2>1, <2>2
<1>3. r[1].at = from
  BY <1>1, <1>2 DEF Chain
<1>4. ASSUME NEW i \in 1..(n + 1)
      PROVE  r[i].at + r[i].len = IF i = n + 1 THEN b.at + b.len ELSE r[i + 1].at
  BY <1>1, <1>2 DEF Chain
<1> QED  BY <1>2, <1>3, <1>4 DEF Chain

LEMMA ChainTail ==
  ASSUME SenderAssumption, NEW q \in Seq(Bufs), q # <<>>, NEW from, NEW to, Chain(q, from, to)
  PROVE  Chain(Tail(q), q[1].at + q[1].len, to)
<1>1. PICK n \in Nat \ {0} : n = Len(q)
  BY TailIs
<1>2. PICK t \in Seq(Bufs) : t = Tail(q) /\ Len(t) = n - 1 /\ \A i \in 1..(n - 1) : t[i] = q[i + 1]
  BY <1>1, TailIs
<1>3. t = <<>> <=> n = 1
  BY <1>1, <1>2, QueueIs
<1>4. (IF t = <<>> THEN to ELSE t[1].at) = q[1].at + q[1].len
  BY <1>1, <1>2, <1>3 DEF Chain
<1>5. ASSUME NEW i \in 1..(n - 1)
      PROVE  t[i].at + t[i].len = IF i = n - 1 THEN to ELSE t[i + 1].at
  <2>1. i + 1 \in 1..n /\ t[i] = q[i + 1] /\ (i # n - 1 => t[i + 1] = q[(i + 1) + 1])
    BY <1>2
  <2> QED  BY <1>1, <2>1 DEF Chain
<1> QED  BY <1>2, <1>4, <1>5 DEF Chain

LEMMA ChainCut ==
  ASSUME SenderAssumption, NEW q \in Seq(Bufs), q # <<>>, NEW n \in 0..q[1].len,
         NEW from, NEW to, Chain(q, from, to)
  PROVE  Chain(<<Adjust(Head(q), n)>> \o Tail(q), q[1].at + n, to)
<1>1. PICK m \in Nat \ {0} : m = Len(q)
  BY TailIs
<1>2. PICK r \in Seq(Bufs) :
           /\ r = <<Adjust(Head(q), n)>> \o Tail(q) /\ Len(r) = m
           /\ r[1] = Adjust(q[1], n) /\ \A i \in 2..m : r[i] = q[i]
  BY <1>1, CutIs
<1>3. /\ r[1].at = q[1].at + n /\ r[1].at + r[1].len = q[1].at + q[1].len
      /\ r # <<>>
  <2>1. q[1] \in Bufs /\ r # <<>>
    BY <1>1, <1>2, TailIs, QueueIs
  <2>2. /\ Adjust(q[1], n).at = q[1].at + n /\ Adjust(q[1], n).len = q[1].len - n
        /\ q[1].at \in Nat /\ q[1].len \in Nat
    BY <2>1, BufferIs
  <2> QED  BY <1>2, <2>1, <2>2
<1>4. ASSUME NEW i \in 1..m
      PROVE  r[i].at + r[i].len = IF i = m THEN to ELSE r[i + 1].at
  <2>1. i # m => i + 1 \in 2..m /\ r[i + 1] = q[i + 1]
    BY <1>2
  <2>2. r[i].at + r[i].len = q[i].at + q[i].len
    BY <1>2, <1>3
  <2>3. q[i].at + q[i].len = IF i = m THEN to ELSE q[i + 1].at
    BY <1>1 DEF Chain
  <2> QED  BY <2>1, <2>2, <2>3
<1> QED  BY <1>2, <1>3, <1>4 DEF Chain

(* The bytes of such a queue are as many as the positions. *)
LEMMA ChainLens ==
  ASSUME SenderAssumption, NEW q \in Seq(Bufs), NEW from \in Nat, NEW to \in Nat, Chain(q, from, to)
  PROVE  /\ Lens(q) = to - from /\ from <= to
         /\ q # <<>> => q[1].at = from /\ from + q[1].len <= to
<1> DEFINE w == [j \in DOMAIN q |-> q[j].len]
<1>1. PICK n \in Nat : n = Len(q) /\ DOMAIN q = 1..n /\ (q = <<>> <=> n = 0)
                       /\ \A i \in 1..n : q[i] \in Bufs
  BY QueueIs
<1>2. \A j \in 1..n : w[j] = q[j].len /\ w[j] \in Nat /\ q[j].at \in Nat
  BY <1>1, BufferIs
<1>3. Lens(q) = Total(w, n)
  BY <1>1 DEF Lens
<1> HIDE DEF w
<1>4. /\ Total(w, 0) = 0
      /\ \A k \in 1..n : Total(w, k) = Total(w, k - 1) + w[k]
      /\ \A k \in 0..n : Total(w, k) \in Nat
  BY <1>2, TotalStep
<1>5. CASE n = 0
  BY <1>1, <1>3, <1>4, <1>5 DEF Chain
<1>6. CASE n > 0
  <2>1. /\ q[1].at = from /\ q[n].at + q[n].len = to
        /\ \A i \in 1..n : i # n => q[i + 1].at = q[i].at + q[i].len
    BY <1>1, <1>6 DEF Chain
  <2> DEFINE S == {i \in Nat : i + 1 \in 1..n => q[i + 1].at = from + Total(w, i)}
  <2>2. 0 \in S
    BY <1>4, <2>1
  <2>3. ASSUME NEW i \in Nat, i \in S PROVE i + 1 \in S
    <3>1. SUFFICES ASSUME (i + 1) + 1 \in 1..n PROVE q[(i + 1) + 1].at = from + Total(w, i + 1)
      OBVIOUS
    <3>2. PICK j \in 1..n : j = i + 1 /\ j # n /\ j - 1 = i /\ i \in 0..n
      BY <3>1
    <3>3. q[j].at = from + Total(w, i)
      BY <2>3, <3>2
    <3>4. q[j + 1].at = q[j].at + q[j].len /\ q[j].len = w[j] /\ w[j] \in Nat
      BY <1>2, <2>1, <3>2
    <3>5. Total(w, j) = Total(w, i) + w[j] /\ Total(w, i) \in Nat
      BY <1>4, <3>2
    <3> QED  BY <3>2, <3>3, <3>4, <3>5
  <2>4. n - 1 \in S
    <3>1. Nat \subseteq S
      <4> HIDE DEF S
      <4> QED  BY <2>2, <2>3, Induction
    <3>2. n - 1 \in Nat
      BY <1>6
    <3> QED  BY <3>1, <3>2
  <2>5. PICK m \in 0..n : m = n - 1 /\ m + 1 = n
    BY <1>6
  <2>6. q[n].at = from + Total(w, m)
    BY <1>6, <2>4, <2>5
  <2>7. Total(w, n) = Total(w, m) + w[n] /\ w[n] = q[n].len /\ w[n] \in Nat /\ Total(w, m) \in Nat
    BY <1>2, <1>4, <1>6, <2>5
  <2>8. w[1] <= Total(w, n)
    <3>1. \A j \in 1..n : w[j] \in Nat
      BY <1>2
    <3>2. PICK a \in 0..n : a = 1
      BY <1>6
    <3>3. n \in a..n
      BY <1>6, <3>2
    <3>4. Total(w, a) <= Total(w, n)
      BY <3>1, <3>3, TotalGrows
    <3>5. Total(w, 1) = Total(w, 1 - 1) + w[1] /\ 1 - 1 = 0
      BY <1>4, <1>6
    <3>6. Total(w, 1) = w[1]
      BY <1>2, <1>4, <1>6, <3>5
    <3> QED  BY <3>2, <3>4, <3>6
  <2>9. w[1] = q[1].len
    BY <1>2, <1>6
  <2>10. to = from + Total(w, n) /\ Total(w, n) \in Nat
    BY <2>1, <2>6, <2>7
  <2>11. from + q[1].len <= to /\ from <= to /\ Total(w, n) = to - from
    <3>1. q[1].len \in Nat
      BY <1>2, <1>6
    <3> QED  BY <2>8, <2>9, <2>10, <3>1
  <2>12. q[1].at = from
    BY <2>1
  <2>13. Lens(q) = to - from
    BY <1>3, <2>11
  <2> QED  BY <2>11, <2>12, <2>13
<1> QED  BY <1>1, <1>5, <1>6

(* What is left of the queue when n sequence numbers are acknowledged: it  *)
(* begins with what is left of one buffer.                                 *)
Left(r, q, k, part, n) ==
  /\ n = Spans(q, k) + part /\ Len(r) = Len(q) - k
  /\ part > 0 => k < Len(q) /\ part < q[k + 1].len
  /\ \A j \in 1..Len(r) : r[j] = IF j = 1 THEN Adjust(q[k + 1], part) ELSE q[k + j]
  /\ \A j \in 1..Len(r) : Spans(r, j) = Spans(q, k + j) - n

LEMMA AdjustIs ==
  ASSUME SenderAssumption, NEW b \in Bufs
  PROVE  Adjust(b, 0) = b
<1>1. b.at + 0 = b.at /\ b.len - 0 = b.len
  BY BufferIs
<1>2. [at |-> b.at, len |-> b.len] = b
  BY DEF Bufs, SendBuffers
<1> QED  BY <1>1, <1>2 DEF Adjust

(* The last buffer of which nothing is left. *)
LEMMA LastGone ==
  ASSUME SenderAssumption, NEW q \in Seq(Bufs), NEW n \in Nat
  PROVE  \E k \in 0..Len(q) : /\ Spans(q, k) <= n
                              /\ \A j \in (k + 1)..Len(q) : Spans(q, j) > n
<1>1. PICK m \in Nat : m = Len(q)
  BY QueueIs
<1> DEFINE T == {i \in Nat : \E k \in 0..m : i = m - k /\ Spans(q, k) <= n}
<1>2. m \in T
  <2>1. Spans(q, 0) = 0 /\ 0 \in 0..m /\ m = m - 0
    BY <1>1, SpansAre
  <2> QED  BY <2>1
<1>3. PICK x \in T : \A y \in T : x <= y
  <2> HIDE DEF T
  <2>1. T \in SUBSET Nat
    BY DEF T
  <2> QED  BY <1>2, <2>1, LeastNumber
<1>4. PICK k \in 0..m : x = m - k /\ Spans(q, k) <= n
  OBVIOUS
<1>5. ASSUME NEW j \in (k + 1)..m PROVE Spans(q, j) > n
  <2>1. j \in 0..m /\ m - j \in Nat /\ ~(x <= m - j)
    BY <1>4
  <2>2. ~(Spans(q, j) <= n)
    BY <1>3, <2>1
  <2>3. Spans(q, j) \in Nat
    BY <1>1, <2>1, SpansAre
  <2> QED  BY <2>2, <2>3
<1> QED  BY <1>1, <1>4, <1>5

LEMMA RemainingIs ==
  ASSUME SenderAssumption, unacked \in Seq(Bufs),
         NEW n \in Nat, n <= Spans(unacked, Len(unacked))
  PROVE  \E r \in Seq(Bufs) : \E k \in 0..Len(unacked) : \E part \in Nat :
            r = Remaining(n) /\ Left(r, unacked, k, part, n)
<1>1. PICK q \in Seq(Bufs) : q = unacked
  OBVIOUS
<1>2. PICK m \in Nat : m = Len(q) /\ \A i \in 1..m : q[i] \in Bufs
  BY QueueIs
<1> DEFINE k == CHOOSE i \in 0..m : /\ Spans(q, i) <= n
                                    /\ \A j \in (i + 1)..m : Spans(q, j) > n
           part == n - Spans(q, k)
           rest == SubSeq(q, k + 1, m)
<1>3. k \in 0..m /\ Spans(q, k) <= n /\ \A j \in (k + 1)..m : Spans(q, j) > n
  BY <1>2, LastGone
<1>4. Remaining(n) = IF part = 0 THEN rest ELSE <<Adjust(Head(rest), part)>> \o Tail(rest)
  BY <1>1, <1>2 DEF Remaining
<1> HIDE DEF k
<1>30. m - k \in Nat
  BY <1>2, <1>3
<1>5. /\ rest \in Seq(Bufs) /\ Len(rest) = m - k
      /\ \A j \in 1..(m - k) : rest[j] = q[k + j]
  <2>1. PICK a \in Int : a = k + 1 /\ (\A i \in a..m : q[i] \in Bufs) /\ m \in Int
    BY <1>2, <1>3
  <2>2. /\ SubSeq(q, a, m) \in Seq(Bufs)
        /\ Len(SubSeq(q, a, m)) = IF a <= m THEN (m - a) + 1 ELSE 0
        /\ \A i \in 1..((m - a) + 1) : SubSeq(q, a, m)[i] = q[(a + i) - 1]
    BY <2>1, SubSeqProperties
  <2>3. rest = SubSeq(q, a, m) /\ (m - a) + 1 = m - k /\ k \in Int
    BY <1>2, <1>3, <2>1
  <2>4. \A i \in Int : (a + i) - 1 = k + i
    BY <1>3, <2>1
  <2>5. (a <= m \/ m - k = 0) /\ (a <= m => ~(m - k = 0))
    BY <1>2, <1>3, <2>1
  <2> HIDE DEF rest
  <2>6. rest \in Seq(Bufs) /\ Len(rest) = m - k
    BY <2>2, <2>3, <2>5
  <2>7. \A j \in 1..(m - k) : rest[j] = q[k + j]
    BY <2>2, <2>3, <2>4
  <2> QED  BY <2>6, <2>7
<1> HIDE DEF rest
<1>6. PICK s \in Nat : s = Spans(q, k) /\ s + part = n /\ part \in Nat
  <2>1. Spans(q, k) \in Nat
    BY <1>2, <1>3, SpansAre
  <2> QED  BY <1>3, <2>1
<1> HIDE DEF part
<1>7. k = m => part = 0
  BY <1>1, <1>2, <1>6
<1>8. ASSUME k < m
      PROVE  /\ k + 1 \in 1..m /\ q[k + 1] \in Bufs /\ Spans(q, k + 1) = s + Span(q[k + 1])
             /\ part < Span(q[k + 1]) /\ (part > 0 => part < q[k + 1].len)
  <2>1. PICK i \in 1..m : i = k + 1 /\ i - 1 = k
    BY <1>3, <1>8
  <2>2. Spans(q, i) = s + Span(q[i]) /\ Spans(q, i) > n
    BY <1>2, <1>3, <1>6, <2>1, SpansAre
  <2>3. q[i] \in Bufs /\ Span(q[i]) = (IF q[i].len = 0 THEN 1 ELSE q[i].len) /\ q[i].len \in Nat
    BY <1>2, BufferIs
  <2>4. part < Span(q[i]) /\ (part > 0 => part < q[i].len)
    <3>1. PICK d \in Nat : d = Span(q[i])
      BY <2>3
    <3>2. s + part = n /\ s + d > n /\ part \in Nat
      BY <1>6, <2>2, <3>1
    <3>3. part < d
      BY <3>2
    <3>4. part < Span(q[i])
      BY <3>1, <3>3
    <3>5. ASSUME part > 0 PROVE part < q[i].len
      <4>1. CASE q[i].len = 0
        <5>1. d = 1
          BY <2>3, <3>1, <4>1
        <5> QED  BY <3>2, <3>3, <3>5, <5>1
      <4>2. CASE q[i].len # 0
        BY <2>3, <3>1, <3>3, <4>2
      <4> QED  BY <4>1, <4>2
    <3> QED  BY <3>4, <3>5
  <2> QED  BY <2>1, <2>2, <2>3, <2>4
<1>9. PICK r \in Seq(Bufs) :
         /\ r = Remaining(n) /\ Len(r) = m - k
         /\ \A j \in 1..(m - k) : r[j] = IF j = 1 THEN Adjust(q[k + 1], part) ELSE q[k + j]
  <2>1. CASE part = 0
    <3>1. ASSUME NEW j \in 1..(m - k)
          PROVE  rest[j] = IF j = 1 THEN Adjust(q[k + 1], part) ELSE q[k + j]
      <4>1. rest[j] = q[k + j] /\ k + 1 \in 1..m /\ q[k + 1] \in Bufs
        <5>1. rest[j] = q[k + j]
          BY <1>5, <3>1
        <5>2. k + 1 \in 1..m
          BY <1>2, <1>3, <3>1
        <5> QED  BY <1>2, <5>1, <5>2
      <4>2. Adjust(q[k + 1], part) = q[k + 1]
        BY <2>1, <4>1, AdjustIs
      <4> QED  BY <4>1, <4>2
    <3> QED  BY <1>4, <1>5, <2>1, <3>1
  <2>2. CASE part # 0
    <3>1. k < m /\ part > 0
      BY <1>3, <1>6, <1>7, <2>2
    <3>2. q[k + 1] \in Bufs /\ part < q[k + 1].len
      BY <1>8, <3>1
    <3>3. rest # <<>> /\ rest[1] = q[k + 1] /\ Head(rest) = q[k + 1]
      <4>1. rest # <<>> /\ 1 \in 1..(m - k)
        BY <1>2, <1>3, <1>5, <3>1, QueueIs
      <4> QED  BY <1>5, <4>1, TailIs
    <3>4. part \in 0..rest[1].len
      <4>1. q[k + 1].len \in Nat
        BY <3>2, BufferIs
      <4> QED  BY <1>6, <3>2, <3>3, <4>1
    <3>5. PICK c \in Seq(Bufs) :
             /\ c = <<Adjust(Head(rest), part)>> \o Tail(rest) /\ Len(c) = Len(rest)
             /\ c[1] = Adjust(rest[1], part) /\ \A i \in 2..Len(rest) : c[i] = rest[i]
      BY <1>5, <3>3, <3>4, CutIs
    <3>6. \A j \in 1..(m - k) : c[j] = IF j = 1 THEN Adjust(q[k + 1], part) ELSE q[k + j]
      BY <1>5, <3>3, <3>5
    <3> QED  BY <1>4, <1>5, <2>2, <3>5, <3>6
  <2> QED  BY <2>1, <2>2
<1> DEFINE S == {j \in Nat : j + 1 \in 1..(m - k) => Spans(r, j + 1) = Spans(q, k + (j + 1)) - n}
<1>10. 0 \in S
  <2>1. SUFFICES ASSUME 1 \in 1..(m - k) PROVE Spans(r, 1) = Spans(q, k + 1) - n
    OBVIOUS
  <2>2. k < m
    BY <1>2, <1>3, <2>1
  <2>3. r[1] = Adjust(q[k + 1], part)
    BY <1>9, <2>1
  <2>4. PICK b \in Bufs : b = q[k + 1] /\ part < Span(b) /\ (part > 0 => part < b.len)
    BY <1>8, <2>2
  <2>5. Span(Adjust(b, part)) = Span(b) - part
    <3>1. /\ b.len \in Nat /\ Span(b) = (IF b.len = 0 THEN 1 ELSE b.len)
          /\ part \in 0..b.len
      BY <1>6, <2>4, BufferIs
    <3>2. PICK d \in Bufs : d = Adjust(b, part) /\ d.len = b.len - part
      BY <3>1, BufferIs
    <3>3. Span(d) = IF d.len = 0 THEN 1 ELSE d.len
      BY BufferIs
    <3>4. part = 0 \/ (part > 0 /\ part < b.len)
      BY <1>6, <2>4
    <3> QED  BY <1>6, <3>1, <3>2, <3>3, <3>4
  <2>6. Spans(r, 0) = 0 /\ Spans(r, 1) = Spans(r, 0) + Span(r[1])
    <3>1. 1 \in 1..Len(r) /\ 1 - 1 = 0
      BY <1>9, <2>1
    <3>2. Spans(r, 1) = Spans(r, 1 - 1) + Span(r[1])
      BY <3>1, SpansAre
    <3> QED  BY <3>1, <3>2, SpansAre
  <2>7. Spans(q, k + 1) = s + Span(b) /\ Span(b) \in Nat
    BY <1>8, <2>2, <2>4, BufferIs
  <2> QED  BY <1>6, <2>3, <2>4, <2>5, <2>6, <2>7
<1>11. ASSUME NEW j \in Nat, j \in S PROVE j + 1 \in S
  <2>1. SUFFICES ASSUME (j + 1) + 1 \in 1..(m - k)
                 PROVE  Spans(r, (j + 1) + 1) = Spans(q, k + ((j + 1) + 1)) - n
    <3>1. j + 1 \in Nat
      OBVIOUS
    <3> QED  BY <3>1
  <2>2. PICK i \in 1..(m - k) : i = j + 1 /\ i + 1 \in 1..(m - k) /\ i + 1 # 1
    <3>1. PICK l \in Nat : l = m - k
      BY <1>30
    <3>2. j + 1 \in 1..l /\ (j + 1) + 1 \in 1..l /\ (j + 1) + 1 # 1
      BY <2>1, <3>1
    <3> QED  BY <3>1, <3>2
  <2>3. Spans(r, i) = Spans(q, k + i) - n
    BY <1>11, <2>2
  <2>4. PICK a \in 1..(m - k) : a = i + 1 /\ a - 1 = i
    BY <2>2
  <2>5. r[a] = q[k + a]
    BY <1>9, <2>2, <2>4
  <2>6. Spans(r, a) = Spans(r, i) + Span(r[a])
    BY <1>9, <2>4, SpansAre
  <2>7. PICK c \in 1..m : c = k + a /\ c - 1 = k + i /\ c - 1 \in 0..m
    BY <1>2, <1>3, <2>4
  <2>8. Spans(q, c) = Spans(q, k + i) + Span(q[c]) /\ Spans(q, k + i) \in Nat
    BY <1>2, <2>7, SpansAre
  <2>9. Span(q[c]) \in Nat
    BY <1>2, BufferIs
  <2> QED  BY <2>2, <2>3, <2>4, <2>5, <2>6, <2>7, <2>8, <2>9
<1>12. ASSUME NEW j \in 1..(m - k) PROVE Spans(r, j) = Spans(q, k + j) - n
  <2>1. Nat \subseteq S
    <3> HIDE DEF S
    <3> QED  BY <1>10, <1>11, Induction
  <2>2. j - 1 \in Nat /\ (j - 1) + 1 = j
    OBVIOUS
  <2> QED  BY <2>1, <2>2
<1>13. Left(r, q, k, part, n)
  <2>1. n = Spans(q, k) + part /\ Len(r) = Len(q) - k
    BY <1>2, <1>6, <1>9
  <2>2. part > 0 => k < Len(q) /\ part < q[k + 1].len
    BY <1>2, <1>3, <1>6, <1>7, <1>8
  <2> QED  BY <1>9, <1>12, <2>1, <2>2 DEF Left
<1> QED  BY <1>1, <1>2, <1>3, <1>6, <1>9, <1>13

-----------------------------------------------------------------------------
(* The invariant. *)

USE DEF windowVars

One(yes) == IF yes THEN 1 ELSE 0
Ua == Pos(una)
Nx == Pos(next)
Us == Pos(unsentSeq)

(* Where the data that has been sent ends. *)
DataEnd == IF finAt = None THEN Nx ELSE finAt

Typed ==
  /\ una \in SeqNumbers /\ next \in SeqNumbers /\ unsentSeq \in SeqNumbers
  /\ unacked \in Seq(Bufs) /\ unsent \in Seq(Bufs)
  /\ window \in 0..Capacity
  /\ task.at = "persist" => task.probe \in Segs
  /\ task.at = "resolveSend" => task.room \in Nat \ {0}
  /\ wire \subseteq Segs /\ acks \subseteq Acks
  /\ got \in Nat /\ gotFin \in BOOLEAN /\ peerRead \in 0..got
  /\ got - peerRead <= Capacity
  /\ written \in 0..Outgoing /\ finAt \in 0..Outgoing \cup {None}
  /\ sendEdge \in Nat
  /\ budget \in [loss: 0..MaxLoss, expiries: 0..MaxExpiries,
                 migrations: 0..MaxMigrations]

(* A FIN before the end of sending stops the process. *)
FinHalts == finAt # None => done \/ ~SendRunning

(* The numbers are those of the queues: what was written and is not sent   *)
(* waits, without a gap, and the FIN takes a number of its own.            *)
Numbered ==
  /\ Ua <= Nx /\ Spans(unacked, Len(unacked)) = Nx - Ua
  /\ finAt = None => Chain(unsent, Nx, written) /\ Us = written
  /\ finAt # None => unsent = <<>> /\ finAt = written /\ Nx = written + 1 /\ Us = Nx

(* A buffer at position p holds the bytes of the stream from there on, or  *)
(* is the FIN.                                                             *)
Stands(p, b) ==
  /\ b.at = p
  /\ IF b.len = 0 THEN finAt = p ELSE p + b.len <= DataEnd
Carries(s)  == s.fin = (s.buf.len = 0) /\ Stands(Pos(s.seq), s.buf)
Place(k)    == Ua + Spans(unacked, k - 1)
QueueStands == \A k \in 1..Len(unacked) : Stands(Place(k), unacked[k])
Flying      == (\A s \in wire : Carries(s)) /\ (task.at = "persist" => Carries(task.probe))

(* While the coroutine awaits an address, what it will send stays.  *)
Waiting ==
  /\ task.at = "resolveSend" => unsent # <<>>
  /\ task.at \in {"resolveSend", "resolveProbe"} => finAt = None /\ Nx < written

(* What the peer has, and has told; the acknowledgements on their way tell *)
(* no more, and a later one never a smaller edge of the window.            *)
Peer == got + One(gotFin)
Told == Capacity + peerRead + One(gotFin)
PeerHas ==
  /\ got <= DataEnd
  /\ gotFin => finAt # None /\ got = finAt
  /\ Ua <= Peer /\ (heeded => sendEdge = Ua + window) /\ sendEdge <= Told
EdgeOf(a) == Pos(a.ack) + a.win
AcksHold ==
  /\ \A a \in acks : /\ Pos(a.ack) <= Peer /\ EdgeOf(a) <= Told
                     /\ Ua < Pos(a.ack) => sendEdge <= EdgeOf(a)
  /\ \A a, b \in acks : Pos(a.ack) < Pos(b.ack) => EdgeOf(a) <= EdgeOf(b)

(* How far the sender may go: to the edge it was told, or, once a window   *)
(* has been passed over, no further than the peer's whole buffer.          *)
Limit == IF heeded THEN sendEdge ELSE Ua + Capacity

(* What is sent stays within that, but for the probe of a closed window, a *)
(* FIN that is last, and one probe for each migration; and so will what    *)
(* the coroutine sends when it has its address.                            *)
Excess == Migrations
Room ==
  /\ Nx <= Limit + Excess + 1
  /\ \/ Nx <= Limit + Excess
     \/ task.at = "persist" /\ window = 0
     \/ done /\ unsent = <<>>
  /\ task.at = "resolveProbe" => window = 0 \/ Nx < Limit + Excess
  /\ task.at = "resolveSend" => Nx + task.room <= Limit

Stream == /\ Typed /\ Numbered /\ QueueStands /\ Flying /\ Waiting
          /\ PeerHas /\ AcksHold /\ Room /\ TimerCovers
IInv == FinHalts /\ (FinIsLast => Stream)

(* Positions are far from half of the number space. *)
LEMMA Far ==
  ASSUME SenderAssumption, Typed, Numbered, PeerHas
  PROVE  /\ Ua \in Nat /\ Nx \in Nat /\ Us \in Nat /\ DataEnd \in Nat
         /\ Ua <= Nx /\ DataEnd <= Nx /\ Nx <= written + 1 /\ Us <= written + 1
         /\ DataEnd <= written /\ Peer \in Nat /\ Peer <= Nx /\ Told \in Nat
         /\ sendEdge <= Told /\ sendEdge \in Nat /\ Told <= Capacity + written + 1
         /\ written \in Nat /\ written <= Outgoing
         /\ Excess \in Nat /\ Excess <= MaxMigrations
         /\ window \in Nat /\ window <= Capacity
         /\ Limit \in Nat /\ Ua + window <= Limit /\ Limit <= Ua + Capacity
<1>1. Ua \in Nat /\ Nx \in Nat /\ Us \in Nat
  <2>1. \A x \in SeqNumbers : Pos(x) \in Nat
    BY Parameters, Positions
  <2> QED  BY <2>1 DEF Typed, Ua, Nx, Us
<1>2. written \in Nat /\ written <= Outgoing /\ finAt \in 0..Outgoing \cup {None}
      /\ None \notin 0..Outgoing /\ Outgoing \in Nat /\ Capacity \in Nat
  BY Parameters DEF Typed
<1>3. DataEnd \in Nat /\ DataEnd <= Nx /\ Nx <= written + 1 /\ Us <= written + 1
      /\ DataEnd <= written
  <2>1. CASE finAt = None
    <3>1. Chain(unsent, Nx, written) /\ Us = written /\ DataEnd = Nx
      BY <2>1 DEF Numbered, DataEnd
    <3>2. unsent \in Seq(Bufs)
      BY DEF Typed
    <3>3. Nx <= written
      BY <1>1, <1>2, <3>1, <3>2, ChainLens
    <3> QED  BY <1>1, <1>2, <3>1, <3>3
  <2>2. CASE finAt # None
    BY <1>1, <1>2, <2>2 DEF Numbered, DataEnd
  <2> QED  BY <2>1, <2>2
<1>4. Peer \in Nat /\ Peer <= Nx
  <2>1. got \in Nat /\ gotFin \in BOOLEAN /\ got <= DataEnd
        /\ (gotFin => finAt # None /\ got = finAt)
    BY DEF Typed, PeerHas
  <2>2. finAt # None => Nx = finAt + 1
    BY DEF Numbered
  <2> QED  BY <1>1, <1>2, <1>3, <2>1, <2>2 DEF Peer, One
<1>5. Told \in Nat /\ Told <= Capacity + written + 1
  <2>1. peerRead \in Nat /\ peerRead <= got /\ got \in Nat /\ gotFin \in BOOLEAN /\ got <= DataEnd
    BY DEF Typed, PeerHas
  <2> QED  BY <1>1, <1>2, <1>3, <2>1 DEF Told, One
<1>6. Excess \in Nat /\ Excess <= MaxMigrations
  <2>1. budget.migrations \in 0..MaxMigrations /\ MaxMigrations \in Nat
    BY Parameters DEF Typed
  <2> QED  BY <2>1 DEF Excess, Migrations
<1>7. Ua <= Nx /\ sendEdge <= Told /\ sendEdge \in Nat
  BY DEF Numbered, PeerHas, Typed
<1>8. window \in Nat /\ window <= Capacity
  <2>1. window \in 0..Capacity
    BY DEF Typed
  <2> QED  BY <1>2, <2>1
<1>9. Limit \in Nat /\ Ua + window <= Limit /\ Limit <= Ua + Capacity
  <2>1. CASE heeded
    <3>1. sendEdge = Ua + window /\ Limit = sendEdge
      BY <2>1 DEF PeerHas, Limit
    <3> QED  BY <1>1, <1>2, <1>8, <3>1
  <2>2. CASE ~heeded
    <3>1. Limit = Ua + Capacity
      BY <2>2 DEF Limit
    <3> QED  BY <1>1, <1>2, <1>8, <3>1
  <2> QED  BY <2>1, <2>2
<1> QED  BY <1>1, <1>2, <1>3, <1>4, <1>5, <1>6, <1>7, <1>8, <1>9

(* What was sent stays what it was when more is sent, or a FIN. *)
LEMMA StandsKept ==
  ASSUME SenderAssumption, NEW p, NEW b \in Bufs, Stands(p, b),
         finAt \in 0..Outgoing \cup {None}, Nx \in Nat, Nx' \in Nat, Nx <= Nx',
         \/ finAt' = finAt
         \/ finAt = None /\ finAt' \in 0..Outgoing /\ finAt' >= Nx
  PROVE  Stands(p, b)'
<1>1. b.at \in Nat /\ b.len \in Nat /\ b.at <= Outgoing /\ None \notin 0..Outgoing /\ Outgoing \in Nat
  BY BufferIs, Parameters
<1>2. b.at = p /\ IF b.len = 0 THEN finAt = p ELSE p + b.len <= DataEnd
  BY DEF Stands
<1>3. b.len = 0 => finAt' = p
  BY <1>1, <1>2
<1>4. DataEnd \in Nat /\ DataEnd' \in Nat /\ DataEnd <= DataEnd'
  <2>1. CASE finAt = None /\ finAt' = None
    BY <2>1 DEF DataEnd
  <2>2. CASE finAt # None /\ finAt' = finAt
    BY <1>1, <2>2 DEF DataEnd
  <2>3. CASE finAt = None /\ finAt' \in 0..Outgoing /\ finAt' >= Nx
    <3>1. finAt' # None
      BY <1>1, <2>3
    <3> QED  BY <1>1, <2>3, <3>1 DEF DataEnd
  <2> QED  BY <2>1, <2>2, <2>3
<1>5. b.len # 0 => p + b.len <= DataEnd'
  BY <1>1, <1>2, <1>4
<1> QED  BY <1>2, <1>3, <1>5 DEF Stands

(* Whether the FIN is last does not become true again. *)
LEMMA FinStep ==
  ASSUME SenderAssumption, FinHalts, [SendNext]_sendVars
  PROVE  FinHalts' /\ (FinIsLast' => FinIsLast)
<1> USE DEF FinHalts, FinIsLast, SendRunning
<1>1. ASSUME UNCHANGED <<finAt, done, sendHalted, written>> PROVE FinHalts' /\ (FinIsLast' => FinIsLast)
  BY <1>1
<1>2. ASSUME NEW n \in 1..MaxBuffer, Write(n) PROVE FinHalts' /\ (FinIsLast' => FinIsLast)
  <2>1. finAt = None
    BY <1>2 DEF Write
  <2>2. n # 0
    BY Parameters
  <2>3. finAt' = None
    BY <1>2, <2>1, <2>2 DEF Write, Send, EmitData
  <2> QED  BY <2>1, <2>3
<1>3. CASE CloseSend
  <2>1. finAt = None
    BY <1>3 DEF CloseSend
  <2>2. done' \/ sendHalted' # "no"
    BY <1>3 DEF CloseSend
  <2> QED  BY <2>1, <2>2
<1>4. ASSUME NEW room, SendUnsent(room), UNCHANGED <<done, written>>
      PROVE  FinHalts' /\ (FinIsLast' => FinIsLast)
  <2>1. CASE finAt = None
    <3>1. finAt' = None \/ PopUnsent(room).len = 0
      BY <1>4, <2>1 DEF SendUnsent, EmitData
    <3>2. PopUnsent(room).len = 0 => done \/ sendHalted' = "assert"
      BY <1>4 DEF SendUnsent
    <3> QED  BY <1>4, <2>1, <3>1, <3>2
  <2>2. CASE finAt # None
    <3>1. finAt' = finAt
      BY <1>4, <2>2 DEF SendUnsent, EmitData
    <3>2. sendHalted' = sendHalted \/ sendHalted' = "assert"
      BY <1>4 DEF SendUnsent
    <3> QED  BY <1>4, <3>1, <3>2
  <2> QED  BY <2>1, <2>2
<1>5. CASE TakeFails
  BY <1>5 DEF TakeFails
<1>6. CASE StartProbe \/ ResumeProbe \/ RepeatProbe
  BY <1>1, <1>6 DEF StartProbe, ResumeProbe, RepeatProbe
<1>7. CASE StartSend
  BY <1>1, <1>4, <1>7 DEF StartSend
<1>8. CASE ResumeSend
  BY <1>4, <1>8 DEF ResumeSend
<1>9. CASE QueryFails \/ Retransmit \/ MigrateSender \/ ArpExpire \/ ArpLearn \/ PeerReads
  BY <1>1, <1>9 DEF QueryFails, Retransmit, MigrateSender, ArpExpire, ArpLearn, PeerReads
<1>10. ASSUME NEW a, RxAck(a) \/ LoseAck(a) PROVE FinHalts' /\ (FinIsLast' => FinIsLast)
  BY <1>1, <1>10 DEF RxAck, LoseAck
<1>11. ASSUME NEW s, PeerReceive(s) \/ LoseSegment(s) PROVE FinHalts' /\ (FinIsLast' => FinIsLast)
  BY <1>1, <1>11 DEF PeerReceive, LoseSegment
<1>12. CASE UNCHANGED sendVars
  BY <1>1, <1>12 DEF sendVars
<1> QED
  BY <1>2, <1>3, <1>5, <1>6, <1>7, <1>8, <1>9, <1>10, <1>11, <1>12 DEF SendNext, Coroutine

-----------------------------------------------------------------------------
(* What keeps the parts of the invariant that a step does not touch. *)

LEMMA NumberedKept ==
  ASSUME Numbered, UNCHANGED <<una, next, unsentSeq, unacked, unsent, written, finAt>>
  PROVE  Numbered'
BY DEF Numbered, Ua, Nx, Us, Pos, Spans, Chain

LEMMA QueueKept ==
  ASSUME QueueStands, UNCHANGED <<una, next, unacked, finAt>>
  PROVE  QueueStands'
BY DEF QueueStands, Stands, Place, DataEnd, Ua, Nx, Pos, Spans

LEMMA CarriedKept ==
  ASSUME NEW s, Carries(s), UNCHANGED <<next, finAt>>
  PROVE  Carries(s)'
BY DEF Carries, Stands, DataEnd, Nx, Pos

LEMMA WaitingKept ==
  ASSUME Waiting, UNCHANGED <<next, unsent, written, finAt>>,
         task' = task \/ task'.at \notin {"resolveSend", "resolveProbe"}
  PROVE  Waiting'
BY DEF Waiting, Nx, Pos

LEMMA PeerHasKept ==
  ASSUME PeerHas, UNCHANGED <<una, next, windowVars, finAt, sendPeerVars>>
  PROVE  PeerHas'
BY DEF PeerHas, DataEnd, Ua, Nx, Pos, Peer, Told, One, sendPeerVars

LEMMA AcksKept ==
  ASSUME AcksHold, UNCHANGED <<una, sendEdge, sendPeerVars>>, acks' \subseteq acks
  PROVE  AcksHold'
BY DEF AcksHold, EdgeOf, Ua, Pos, Peer, Told, One, sendPeerVars

LEMMA RoomKept ==
  ASSUME Room, UNCHANGED <<una, next, unsent, windowVars, done>>, budget'.migrations = budget.migrations,
         \/ task' = task
         \/ task.at # "persist" /\ task'.at \notin {"resolveSend", "resolveProbe"}
  PROVE  Room'
BY DEF Room, Limit, Excess, Migrations, Ua, Nx, Pos

-----------------------------------------------------------------------------
(* A buffer leaves, for the first time. *)

LEMMA Emitted ==
  ASSUME SenderAssumption, Typed, Numbered, QueueStands, Flying, PeerHas, finAt = None,
         NEW b \in Bufs, b.at = Nx,
         una' = una, next' = SeqAdd(next, Span(b)), unacked' = Append(unacked, b),
         wire' = wire \cup {Segment(next, b)}, finAt' = IF b.len = 0 THEN b.at ELSE None,
         got' = got, gotFin' = gotFin
  PROVE  /\ next' \in SeqNumbers /\ Nx' = Nx + Span(b) /\ Ua' = Ua
         /\ unacked' \in Seq(Bufs) /\ unacked' # <<>>
         /\ Spans(unacked', Len(unacked')) = Nx' - Ua' /\ Ua' <= Nx'
         /\ QueueStands' /\ wire' \subseteq Segs /\ (\A s \in wire' : Carries(s)')
         /\ \A s \in Segs : Carries(s) => Carries(s)'
         /\ \E s \in Segs : s = Segment(next, b) /\ Carries(s)'
         /\ (got <= DataEnd)' /\ (gotFin => finAt # None /\ got = finAt)'
<1>1. PICK x \in Nat : x = Nx /\ x = Pos(next) /\ next \in SeqNumbers
  BY Far DEF Nx, Typed
<1>2. PICK u \in Nat : u = Ua /\ u <= x /\ Ua' = u
  <2>1. Ua \in Nat /\ Ua <= Nx
    BY Far
  <2>2. Ua' = Ua
    BY DEF Ua, Pos
  <2> QED  BY <1>1, <2>1, <2>2
<1>3. /\ b.at = x /\ b.len \in Nat /\ x + b.len <= Outgoing /\ Outgoing \in Nat
      /\ Span(b) \in Nat \ {0} /\ Span(b) = IF b.len = 0 THEN 1 ELSE b.len
      /\ Outgoing + 2 < Modulus /\ Modulus \in Nat
  <2>1. Outgoing + Capacity + MaxMigrations + 2 < Half /\ Modulus = 2 * Half /\ Half \in Nat
        /\ Outgoing \in Nat /\ Capacity \in Nat /\ MaxMigrations \in Nat
    BY Parameters
  <2> QED  BY <1>1, <2>1, BufferIs
<1>4. next' \in SeqNumbers /\ Nx' = x + Span(b)
  <2>1. Pos(next) + Span(b) < Modulus
    BY <1>1, <1>3
  <2>2. SeqAdd(next, Span(b)) \in SeqNumbers /\ Pos(SeqAdd(next, Span(b))) = Pos(next) + Span(b)
    BY <1>1, <1>3, <2>1, Numbers
  <2> QED  BY <1>1, <2>2 DEF Nx
<1>5. PICK q \in Seq(Bufs), r \in Seq(Bufs) : q = unacked /\ r = unacked' /\ r = Append(q, b)
  <2>1. unacked \in Seq(Bufs)
    BY DEF Typed
  <2> QED  BY <2>1, SpansAppended
<1>6. PICK n \in Nat : /\ n = Len(q) /\ Len(r) = n + 1 /\ (\A k \in 1..n : r[k] = q[k]) /\ r[n + 1] = b
                       /\ (\A k \in 0..n : Spans(r, k) = Spans(q, k))
                       /\ Spans(r, n + 1) = Spans(q, n) + Span(b)
                       /\ Spans(q, n) = x - u
  <2>1. Spans(q, Len(q)) = x - u
    BY <1>1, <1>2, <1>5 DEF Numbered
  <2>2. PICK n \in Nat : n = Len(q)
    BY QueueIs
  <2>3. /\ Len(Append(q, b)) = n + 1 /\ (\A k \in 1..n : Append(q, b)[k] = q[k])
        /\ Append(q, b)[n + 1] = b
        /\ (\A k \in 0..n : Spans(Append(q, b), k) = Spans(q, k))
        /\ Spans(Append(q, b), n + 1) = Spans(q, n) + Span(b)
    BY <2>2, SpansAppended
  <2> QED  BY <1>5, <2>1, <2>2, <2>3
<1>7. ASSUME NEW p, NEW c \in Bufs, Stands(p, c) PROVE Stands(p, c)'
  <2>1. finAt \in 0..Outgoing \cup {None} /\ Nx \in Nat /\ Nx' \in Nat /\ Nx <= Nx'
    <3>1. finAt \in 0..Outgoing \cup {None}
      BY DEF Typed
    <3>2. x + Span(b) \in Nat /\ x <= x + Span(b)
      BY <1>3
    <3> QED  BY <1>1, <1>4, <3>1, <3>2
  <2>2. finAt' = finAt \/ (finAt = None /\ finAt' \in 0..Outgoing /\ finAt' >= Nx)
    BY <1>1, <1>3
  <2> QED  BY <1>7, <2>1, <2>2, StandsKept
<1>8. Stands(x, b)'
  <2>1. CASE b.len = 0
    BY <1>3, <2>1 DEF Stands
  <2>2. CASE b.len # 0
    <3>1. DataEnd' = x + b.len
      BY <1>3, <1>4, <2>2 DEF DataEnd
    <3>2. x + b.len <= DataEnd'
      BY <1>3, <3>1
    <3> QED  BY <1>3, <2>2, <3>2 DEF Stands
  <2> QED  BY <2>1, <2>2
<1>9. QueueStands'
  <2>1. ASSUME NEW k \in 1..(n + 1) PROVE Stands(u + Spans(r, k - 1), r[k])'
    <3>1. CASE k \in 1..n
      <4>1. Stands(Place(k), unacked[k])
        BY <1>5, <1>6, <3>1 DEF QueueStands
      <4>2. Place(k) = u + Spans(r, k - 1) /\ unacked[k] = r[k]
        <5>1. k - 1 \in 0..n
          BY <3>1
        <5> QED  BY <1>2, <1>5, <1>6, <3>1, <5>1 DEF Place
      <4>3. r[k] \in Bufs
        BY <1>6, QueueIs
      <4>4. Stands(u + Spans(r, k - 1), r[k])
        BY <4>1, <4>2
      <4> QED  BY <1>7, <4>3, <4>4
    <3>2. CASE k = n + 1
      <4>1. k - 1 = n /\ n \in 0..n
        BY <3>2
      <4>2. r[k] = b /\ Spans(r, k - 1) = x - u
        BY <1>6, <3>2, <4>1
      <4>3. u + Spans(r, k - 1) = x
        BY <1>1, <1>2, <4>2
      <4> QED  BY <1>8, <4>2, <4>3
    <3> QED  BY <3>1, <3>2
  <2>2. \A k : Place(k)' = u + Spans(r, k - 1)
    BY <1>2, <1>5 DEF Place
  <2> QED  BY <1>5, <1>6, <2>1, <2>2 DEF QueueStands
<1>10. Segment(next, b) \in Segs /\ Segment(next, b).seq = next /\ Segment(next, b).buf = b
       /\ Segment(next, b).fin = (b.len = 0)
  BY <1>1 DEF Segment, Segs
<1>11. wire' \subseteq Segs /\ wire \subseteq Segs
  BY <1>10 DEF Typed
<1>12. PICK c \in Segs : c = Segment(next, b) /\ Carries(c)'
  <2>1. PICK c \in Segs : c = Segment(next, b)
    BY <1>10
  <2>2. Pos(c.seq) = x /\ c.buf = b /\ c.fin = (b.len = 0)
    BY <1>1, <1>10, <2>1
  <2>3. Carries(c)'
    BY <1>8, <2>2 DEF Carries
  <2> QED  BY <2>1, <2>3
<1>13. ASSUME NEW s \in Segs, Carries(s) PROVE Carries(s)'
  <2>1. s.buf \in Bufs
    BY DEF Segs
  <2>2. s.fin = (s.buf.len = 0) /\ Stands(Pos(s.seq), s.buf)
    BY <1>13 DEF Carries
  <2>3. Stands(Pos(s.seq), s.buf)'
    BY <1>7, <2>1, <2>2
  <2> QED  BY <2>2, <2>3 DEF Carries
<1>14. \A s \in wire' : Carries(s)'
  <2>1. \A s \in wire : s \in Segs /\ Carries(s)
    BY <1>11 DEF Flying
  <2>2. \A s \in wire : Carries(s)'
    BY <1>13, <2>1
  <2> QED  BY <1>12, <2>2
<1>16. (got <= DataEnd)' /\ (gotFin => finAt # None /\ got = finAt)'
  <2>1. got <= x /\ got \in Nat /\ ~gotFin
    BY <1>1 DEF PeerHas, DataEnd, Typed
  <2>2. DataEnd' = x \/ DataEnd' = x + Span(b)
    BY <1>3, <1>4 DEF DataEnd
  <2> QED  BY <1>3, <2>1, <2>2
<1>17. unacked' # <<>> /\ unacked' \in Seq(Bufs)
  <2>1. r # <<>>
    BY <1>6, QueueIs
  <2> QED  BY <1>5, <2>1
<1>18. Spans(unacked', Len(unacked')) = Nx' - Ua' /\ Ua' <= Nx'
  <2>1. Spans(r, n + 1) = (x + Span(b)) - u
    BY <1>2, <1>3, <1>6
  <2> QED  BY <1>2, <1>3, <1>4, <1>5, <1>6, <2>1
<1> QED  BY <1>1, <1>2, <1>4, <1>9, <1>11, <1>12, <1>13, <1>14, <1>16, <1>17, <1>18

LEMMA InFlightIs ==
  ASSUME SenderAssumption, Typed, Numbered, PeerHas
  PROVE  InFlight = Nx - Ua
<1>1. next \in SeqNumbers /\ una \in SeqNumbers /\ Ua <= Nx
  BY DEF Typed, Numbered
<1>2. SeqSub(next, una) = IF Pos(una) <= Pos(next) THEN Pos(next) - Pos(una)
                                                  ELSE Modulus + Pos(next) - Pos(una)
  BY <1>1, Numbers
<1> QED  BY <1>1, <1>2 DEF InFlight, Nx, Ua

(* A number that counts from a position, but for the modulus. *)
LEMMA Advanced ==
  ASSUME SenderAssumption, NEW x \in SeqNumbers, NEW n \in Nat, Pos(x) + n <= 2 * Outgoing + 2
  PROVE  SeqAdd(x, n) \in SeqNumbers /\ Pos(SeqAdd(x, n)) = Pos(x) + n
<1>1. /\ Outgoing + Capacity + MaxMigrations + 2 < Half /\ Modulus = 2 * Half /\ Half \in Nat
      /\ Outgoing \in Nat /\ Capacity \in Nat /\ MaxMigrations \in Nat
  BY Parameters
<1>2. Pos(x) \in Nat
  BY <1>1, Positions
<1>3. Pos(x) + n < Modulus
  BY <1>1, <1>2
<1> QED  BY <1>3, Numbers

(* A buffer is sent at once: nothing waits, and it fits in the window. *)
LEMMA AtOnceStep ==
  ASSUME SenderAssumption, Stream, finAt = None, NEW b \in Bufs, b.at = written,
         written' = written + b.len, AtOnce(b), EmitData(b),
         unsentSeq' = SeqAdd(unsentSeq, Span(b)),
         done' = IF b.len = 0 THEN TRUE ELSE done,
         UNCHANGED <<una, unsent, windowVars, task, acks, sendPeerVars, budget>>
  PROVE  Stream'
<1> USE DEF Stream
<1>1. PICK x \in Nat : x = Nx /\ x = written /\ x = Us /\ unsent = <<>>
  <2>1. unsent = <<>>
    BY DEF AtOnce
  <2>2. Nx = written /\ Us = written
    BY <2>1 DEF Numbered, Chain
  <2>3. Nx \in Nat
    BY Far
  <2> QED  BY <2>1, <2>2, <2>3
<1>2. /\ b.len \in Nat /\ x + b.len <= Outgoing /\ Outgoing \in Nat
      /\ Span(b) \in Nat \ {0} /\ Span(b) = IF b.len = 0 THEN 1 ELSE b.len
  BY <1>1, BufferIs, Parameters
<1>3. /\ next' \in SeqNumbers /\ Nx' = x + Span(b) /\ Ua' = Ua
      /\ unacked' \in Seq(Bufs) /\ unacked' # <<>>
      /\ Spans(unacked', Len(unacked')) = Nx' - Ua' /\ Ua' <= Nx'
      /\ QueueStands' /\ wire' \subseteq Segs /\ (\A s \in wire' : Carries(s)')
      /\ \A s \in Segs : Carries(s) => Carries(s)'
      /\ (got <= DataEnd)' /\ (gotFin => finAt # None /\ got = finAt)'
  <2>1. finAt' = IF b.len = 0 THEN b.at ELSE None
    BY DEF EmitData
  <2>2. /\ una' = una /\ next' = SeqAdd(next, Span(b)) /\ unacked' = Append(unacked, b)
        /\ wire' = wire \cup {Segment(next, b)} /\ got' = got /\ gotFin' = gotFin
    BY DEF EmitData, sendPeerVars
  <2> QED  BY <1>1, <2>1, <2>2, Emitted
<1>4. unsentSeq' \in SeqNumbers /\ Us' = x + Span(b)
  <2>1. unsentSeq \in SeqNumbers
    BY DEF Typed
  <2>2. Pos(unsentSeq) + Span(b) <= 2 * Outgoing + 2
    BY <1>1, <1>2 DEF Us
  <2>3. Pos(SeqAdd(unsentSeq, Span(b))) = Pos(unsentSeq) + Span(b)
        /\ SeqAdd(unsentSeq, Span(b)) \in SeqNumbers
    BY <1>2, <2>1, <2>2, Advanced
  <2> QED  BY <1>1, <2>3 DEF Us
<1>5. finAt' = (IF b.len = 0 THEN x ELSE None) /\ written' = x + b.len /\ x <= Outgoing
  BY <1>1, <1>2 DEF EmitData
<1>6. Typed'
  <2>1. /\ unsent' \in Seq(Bufs) /\ window' \in 0..Capacity /\ acks' \subseteq Acks
        /\ got' \in Nat /\ gotFin' \in BOOLEAN /\ peerRead' \in 0..got'
        /\ got' - peerRead' <= Capacity /\ sendEdge' \in Nat
        /\ budget' \in [loss: 0..MaxLoss, expiries: 0..MaxExpiries, migrations: 0..MaxMigrations]
    BY DEF Typed, sendPeerVars
  <2>2. task'.at = "persist" => task'.probe \in Segs
    BY DEF Typed
  <2>3. task'.at = "resolveSend" => task'.room \in Nat \ {0}
    BY DEF Typed
  <2>4. written' \in 0..Outgoing /\ finAt' \in 0..Outgoing \cup {None}
    BY <1>2, <1>5
  <2> QED  BY <1>3, <1>4, <2>1, <2>2, <2>3, <2>4 DEF Typed
<1>7. Numbered'
  <2>1. CASE b.len = 0
    <3>1. finAt' # None
      BY <1>5, <1>2, <2>1, Parameters
    <3> QED  BY <1>1, <1>2, <1>3, <1>4, <1>5, <2>1, <3>1 DEF Numbered
  <2>2. CASE b.len # 0
    <3>1. finAt' = None /\ Nx' = written' /\ Us' = written' /\ unsent' = <<>>
      BY <1>1, <1>2, <1>3, <1>4, <1>5, <2>2
    <3>2. Chain(unsent, Nx, written)'
      BY <3>1 DEF Chain
    <3> QED  BY <1>3, <3>1, <3>2 DEF Numbered
  <2> QED  BY <2>1, <2>2
<1>8. task' = task /\ task.at \notin {"resolveSend", "resolveProbe"}
  BY <1>1 DEF Waiting
<1>9. Waiting'
  BY <1>8 DEF Waiting
<1>10. Flying'
  <2>1. task.at = "persist" => task.probe \in Segs /\ Carries(task.probe)
    BY DEF Typed, Flying
  <2>2. PICK c : c = task.probe /\ c = task'.probe
    BY <1>8
  <2>3. task.at = "persist" => Carries(c)'
    BY <1>3, <2>1, <2>2
  <2>4. task'.at = "persist" => Carries(task.probe)'
    BY <1>8, <2>2, <2>3 DEF Carries
  <2> QED  BY <1>3, <2>4 DEF Flying
<1>11. PeerHas' /\ AcksHold'
  <2>1. (Ua <= Peer /\ (heeded => sendEdge = Ua + window) /\ sendEdge <= Told)'
    BY <1>3 DEF PeerHas, Peer, Told, One, sendPeerVars
  <2>2. AcksHold'
    BY AcksKept
  <2> QED  BY <1>3, <2>1, <2>2 DEF PeerHas
<1>12. Room'
  <2>1. PICK u \in Nat, w \in Nat, e \in Nat : u = Ua /\ w = window /\ e = Limit /\ u + w <= e
                                               /\ u <= x
    BY <1>1, Far
  <2>2. w >= (x - u) + b.len
    <3>1. InFlight = x - u
      BY <1>1, <2>1, InFlightIs
    <3>2. window >= InFlight + b.len
      BY DEF AtOnce
    <3> QED  BY <2>1, <3>1, <3>2
  <2>3. PICK m \in Nat : m = Excess /\ m = Excess'
    <3>1. Excess \in Nat
      BY Far
    <3>2. Excess' = Excess
      BY DEF Excess, Migrations
    <3> QED  BY <3>1, <3>2
  <2>4. Nx' <= e + m + 1 /\ (Nx' <= e + m \/ b.len = 0)
    <3>1. u + w <= e /\ u <= x
      BY <2>1
    <3>2. x + b.len <= e
      BY <1>2, <2>2, <3>1
    <3> QED  BY <1>2, <1>3, <3>2
  <2>6. Limit' = e
    BY <1>3, <2>1 DEF Limit
  <2>5. b.len = 0 => done' /\ unsent' = <<>>
    BY <1>1
  <2> QED  BY <1>8, <2>3, <2>4, <2>5, <2>6 DEF Room
<1>13. TimerCovers'
  BY <1>3 DEF TimerCovers, EmitData
<1> QED  BY <1>3, <1>6, <1>7, <1>9, <1>10, <1>11, <1>12, <1>13

(* A step that touches none of the invariant's variables. *)
LEMMA SameStream ==
  ASSUME Stream,
         UNCHANGED <<queueVars, windowVars, timer, done, task, acks, wire, sendPeerVars, written,
                     finAt>>,
         budget' = budget
  PROVE  Stream'
<1> USE DEF Stream, queueVars
<1>1. Typed'
  BY DEF Typed, sendPeerVars
<1>2. Numbered' /\ QueueStands'
  BY NumberedKept, QueueKept
<1>3. Flying'
  BY DEF Flying, Carries, Stands, DataEnd, Nx, Pos
<1>4. Waiting' /\ PeerHas' /\ AcksHold'
  BY WaitingKept, PeerHasKept, AcksKept
<1>5. Room' /\ TimerCovers'
  BY RoomKept DEF TimerCovers, SendHome, Migrations
<1> QED  BY <1>1, <1>2, <1>3, <1>4, <1>5

(* A buffer waits. *)
LEMMA QueuedStep ==
  ASSUME SenderAssumption, Stream, finAt = None, ~done, NEW b \in Bufs, b.at = written,
         written' = written + b.len, unsent' = Append(unsent, b),
         unsentSeq' = SeqAdd(unsentSeq, b.len),
         UNCHANGED <<una, next, unacked, timer, wire, finAt, windowVars, task, acks, sendPeerVars,
                     budget>>
  PROVE  Stream'
<1> USE DEF Stream
<1>1. b.len \in Nat /\ written \in Nat /\ written + b.len <= Outgoing /\ Outgoing \in Nat
      /\ Us = written
  BY BufferIs, Parameters, Far DEF Numbered
<1>2. unsentSeq' \in SeqNumbers /\ Us' = written + b.len
  <2>1. unsentSeq \in SeqNumbers
    BY DEF Typed
  <2>2. Pos(unsentSeq) + b.len <= 2 * Outgoing + 2
    BY <1>1 DEF Us
  <2>3. Pos(SeqAdd(unsentSeq, b.len)) = Pos(unsentSeq) + b.len
        /\ SeqAdd(unsentSeq, b.len) \in SeqNumbers
    BY <1>1, <2>1, <2>2, Advanced
  <2> QED  BY <1>1, <2>3 DEF Us
<1>3. unsent' \in Seq(Bufs) /\ unsent' # <<>> /\ Chain(unsent', Nx, written')
  <2>1. PICK q \in Seq(Bufs) : q = unsent /\ Chain(q, Nx, b.at)
    BY DEF Typed, Numbered
  <2>2. Chain(Append(q, b), Nx, b.at + b.len)
    BY <2>1, ChainAppended
  <2>3. Append(q, b) \in Seq(Bufs) /\ Append(q, b) # <<>>
    BY <2>1
  <2> QED  BY <2>1, <2>2, <2>3
<1>4. Typed'
  <2>1. /\ una' \in SeqNumbers /\ next' \in SeqNumbers /\ unacked' \in Seq(Bufs)
        /\ window' \in 0..Capacity /\ wire' \subseteq Segs /\ acks' \subseteq Acks
        /\ got' \in Nat /\ gotFin' \in BOOLEAN /\ peerRead' \in 0..got'
        /\ got' - peerRead' <= Capacity /\ sendEdge' \in Nat
        /\ budget' \in [loss: 0..MaxLoss, expiries: 0..MaxExpiries, migrations: 0..MaxMigrations]
    BY DEF Typed, sendPeerVars
  <2>2. task'.at = "persist" => task'.probe \in Segs
    BY DEF Typed
  <2>3. task'.at = "resolveSend" => task'.room \in Nat \ {0}
    BY DEF Typed
  <2>4. written' \in 0..Outgoing /\ finAt' \in 0..Outgoing \cup {None}
    BY <1>1
  <2> QED  BY <1>2, <1>3, <2>1, <2>2, <2>3, <2>4 DEF Typed
<1>5. Numbered'
  <2>1. Nx' = Nx /\ Ua' = Ua
    BY DEF Nx, Ua, Pos
  <2>2. (Ua <= Nx /\ Spans(unacked, Len(unacked)) = Nx - Ua)'
    BY <2>1 DEF Numbered, Spans
  <2>3. Chain(unsent, Nx, written)'
    BY <1>3, <2>1
  <2>4. Us' = written' /\ finAt' = None
    BY <1>2
  <2> QED  BY <2>2, <2>3, <2>4 DEF Numbered
<1>6. QueueStands' /\ PeerHas' /\ AcksHold'
  BY QueueKept, PeerHasKept, AcksKept
<1>7. Flying'
  BY DEF Flying, Carries, Stands, DataEnd, Nx, Pos
<1>8. Waiting'
  <2>1. Nx' = Nx
    BY DEF Nx, Pos
  <2>2. PICK x \in Nat : x = Nx
    BY Far
  <2>3. x < written => x < written'
    BY <1>1
  <2>4. task' = task /\ finAt' = finAt
    OBVIOUS
  <2> QED  BY <1>3, <2>1, <2>2, <2>3, <2>4 DEF Waiting
<1>9. Room'
  BY DEF Room, Limit, Excess, Migrations, Ua, Nx, Pos
<1>10. TimerCovers'
  BY DEF TimerCovers, SendHome, Migrations
<1> QED  BY <1>4, <1>5, <1>6, <1>7, <1>8, <1>9, <1>10

LEMMA WriteStep ==
  ASSUME SenderAssumption, FinHalts, Stream, NEW n \in 1..MaxBuffer, Write(n)
  PROVE  Stream'
<1>1. finAt = None /\ ~done
  BY DEF FinHalts, Write, SendRunning
<1>2. n \in Nat \ {0} /\ written \in 0..Outgoing /\ written + n <= Outgoing /\ Outgoing \in Nat
  <2>1. written \in 0..Outgoing
    BY DEF Stream, Typed
  <2> QED  BY <2>1, Parameters DEF Write
<1>3. PICK b \in Bufs : b = [at |-> written, len |-> n] /\ b.at = written /\ b.len = n
  <2>1. n \in 0..Outgoing /\ written \in 0..Outgoing /\ written + n <= Outgoing
    BY <1>2
  <2>2. [at |-> written, len |-> n] \in SendBuffers
    BY <2>1 DEF SendBuffers
  <2> QED  BY <2>1, <2>2 DEF Bufs
<1>4. Send(b) /\ written' = written + b.len /\ UNCHANGED <<una, windowVars, done, task, acks,
                                                           sendPeerVars, budget>>
  BY <1>3 DEF Write
<1>5. CASE AtOnce(b) /\ EmitData(b) /\ unsentSeq' = SeqAdd(unsentSeq, Span(b)) /\ UNCHANGED unsent
  <2>1. done' = IF b.len = 0 THEN TRUE ELSE done
    BY <1>2, <1>3, <1>4
  <2> QED  BY <1>1, <1>3, <1>4, <1>5, <2>1, AtOnceStep
<1>6. CASE /\ unsent' = Append(unsent, b) /\ unsentSeq' = SeqAdd(unsentSeq, b.len)
           /\ UNCHANGED <<next, unacked, timer, wire, finAt>>
  BY <1>1, <1>3, <1>4, <1>6, QueuedStep
<1> QED  BY <1>4, <1>5, <1>6 DEF Send

LEMMA CloseStep ==
  ASSUME SenderAssumption, FinHalts, Stream, CloseSend
  PROVE  Stream'
<1>1. finAt = None /\ ~done
  BY DEF FinHalts, CloseSend, SendRunning
<1>2. written \in 0..Outgoing /\ Outgoing \in Nat
  BY Parameters DEF Stream, Typed
<1>3. PICK b \in Bufs : b = [at |-> written, len |-> 0] /\ b.at = written /\ b.len = 0
  <2>1. 0 \in 0..Outgoing /\ written \in 0..Outgoing /\ written + 0 <= Outgoing
    BY <1>2
  <2>2. [at |-> written, len |-> 0] \in SendBuffers
    BY <2>1 DEF SendBuffers
  <2> QED  BY <2>1, <2>2 DEF Bufs
<1>4. UNCHANGED <<una, windowVars, task, acks, sendPeerVars, written, budget>>
  BY DEF CloseSend
<1>5. CASE Send(b) /\ done' = TRUE
  <2>1. written' = written + b.len /\ done' = IF b.len = 0 THEN TRUE ELSE done
    BY <1>2, <1>3, <1>4, <1>5
  <2>2. CASE AtOnce(b) /\ EmitData(b) /\ unsentSeq' = SeqAdd(unsentSeq, Span(b)) /\ UNCHANGED unsent
    BY <1>1, <1>3, <1>4, <2>1, <2>2, AtOnceStep
  <2>3. CASE /\ unsent' = Append(unsent, b) /\ unsentSeq' = SeqAdd(unsentSeq, b.len)
             /\ UNCHANGED <<next, unacked, timer, wire, finAt>>
    BY <1>1, <1>3, <1>4, <2>1, <2>3, QueuedStep
  <2> QED  BY <1>5, <2>2, <2>3 DEF Send
<1>6. CASE UNCHANGED <<next, unsentSeq, unacked, unsent, timer, wire, finAt, done>>
  BY <1>4, <1>6, SameStream DEF queueVars
<1> QED  BY <1>3, <1>5, <1>6 DEF CloseSend

-----------------------------------------------------------------------------
(* The coroutine. *)

LEMMA UnsentIs ==
  ASSUME SenderAssumption, Stream, HasUnsent
  PROVE  finAt = None /\ Nx < written
<1> USE DEF Stream
<1>1. Nx # Us
  <2>1. next \in SeqNumbers /\ unsentSeq \in SeqNumbers /\ next # unsentSeq
    BY DEF Typed, HasUnsent
  <2> QED  BY <2>1, Positions DEF Nx, Us
<1>2. finAt = None /\ Us = written /\ Chain(unsent, Nx, written)
  BY <1>1 DEF Numbered
<1>3. Nx <= written
  <2>1. unsent \in Seq(Bufs) /\ Nx \in Nat /\ written \in Nat
    BY Far DEF Typed
  <2> QED  BY <1>2, <2>1, ChainLens
<1>4. Nx \in Nat /\ written \in Nat
  BY Far
<1> QED  BY <1>1, <1>2, <1>3, <1>4

(* What is in front of the queue is next. *)
LEMMA FrontIs ==
  ASSUME SenderAssumption, Stream, finAt = None, Nx < written
  PROVE  /\ unsent \in Seq(Bufs) /\ unsent # <<>> /\ Chain(unsent, Nx, written)
         /\ \E h \in Bufs : h = unsent[1] /\ h = Head(unsent) /\ h.at = Nx /\ h.len \in Nat
<1> USE DEF Stream
<1>1. PICK x \in Nat, w \in Nat : x = Nx /\ w = written
  BY Far
<1>2. unsent \in Seq(Bufs) /\ Chain(unsent, Nx, written)
  BY DEF Typed, Numbered
<1>3. unsent # <<>>
  BY <1>1, <1>2 DEF Chain
<1>4. unsent[1].at = Nx
  BY <1>2, <1>3 DEF Chain
<1>5. unsent[1] \in Bufs /\ Head(unsent) = unsent[1]
  BY <1>2, <1>3, TailIs
<1>6. unsent[1].len \in Nat
  BY <1>5, BufferIs
<1> QED  BY <1>2, <1>3, <1>4, <1>5, <1>6

(* The types that a step of the coroutine does not touch. *)
Steady == UNCHANGED <<una, unsentSeq, windowVars, done, acks, sendPeerVars, written, budget>>

(* The front of the queue leaves, in part or whole. *)
LEMMA FrontLeaves ==
  ASSUME SenderAssumption, Stream, finAt = None, Nx < written, Steady,
         NEW h \in Bufs, h = unsent[1], NEW n \in 1..h.len, NEW b \in Bufs, b = Take(h, n),
         next' = SeqAdd(next, Span(b)), unacked' = Append(unacked, b),
         wire' = wire \cup {Segment(next, b)}, finAt' = None,
         \/ unsent' = <<Adjust(Head(unsent), n)>> \o Tail(unsent)
         \/ unsent' = Tail(unsent) /\ n = h.len,
         task'.at \notin {"resolveSend", "resolveProbe"},
         task'.at = "persist" => task'.probe = Segment(next, b)
  PROVE  /\ Typed' /\ Numbered' /\ QueueStands' /\ Flying' /\ Waiting' /\ PeerHas' /\ AcksHold'
         /\ Nx' = Nx + n /\ unacked' # <<>>
<1> USE DEF Stream
<1>1. PICK x \in Nat, w \in Nat : x = Nx /\ w = written
  BY Far
<1>2. /\ unsent \in Seq(Bufs) /\ unsent # <<>> /\ Chain(unsent, x, w)
      /\ h = Head(unsent) /\ h.at = x /\ h.len \in Nat
  BY <1>1, FrontIs
<1>3. /\ n \in Nat \ {0} /\ n \in 0..h.len /\ b.at = x /\ b.len = n
      /\ Span(b) = n
  <2>1. n \in 0..h.len /\ n \in Nat \ {0}
    BY <1>2
  <2>2. b.at = h.at /\ b.len = n
    BY <2>1, BufferIs
  <2>3. Span(b) = IF b.len = 0 THEN 1 ELSE b.len
    BY BufferIs
  <2> QED  BY <1>2, <2>1, <2>2, <2>3
<1>4. /\ next' \in SeqNumbers /\ Nx' = x + n /\ Ua' = Ua
      /\ unacked' \in Seq(Bufs) /\ unacked' # <<>>
      /\ Spans(unacked', Len(unacked')) = Nx' - Ua' /\ Ua' <= Nx'
      /\ QueueStands' /\ wire' \subseteq Segs /\ (\A s \in wire' : Carries(s)')
      /\ \E s \in Segs : s = Segment(next, b) /\ Carries(s)'
      /\ (got <= DataEnd)' /\ (gotFin => finAt # None /\ got = finAt)'
  <2>1. finAt' = IF b.len = 0 THEN b.at ELSE None
    BY <1>3
  <2>2. una' = una /\ got' = got /\ gotFin' = gotFin
    BY DEF Steady, sendPeerVars
  <2> QED  BY <1>1, <1>3, <2>1, <2>2, Emitted
<1>5. unsent' \in Seq(Bufs) /\ Chain(unsent', x + n, w)
  <2>1. CASE unsent' = <<Adjust(Head(unsent), n)>> \o Tail(unsent)
    <3>1. n \in 0..unsent[1].len
      BY <1>3
    <3>2. unsent' \in Seq(Bufs)
      BY <1>2, <2>1, <3>1, CutIs
    <3>3. Chain(unsent', unsent[1].at + n, w)
      BY <1>2, <2>1, <3>1, ChainCut
    <3> QED  BY <1>2, <3>2, <3>3
  <2>2. CASE unsent' = Tail(unsent) /\ n = h.len
    <3>1. unsent' \in Seq(Bufs)
      BY <1>2, <2>2, TailIs
    <3>2. Chain(unsent', unsent[1].at + unsent[1].len, w)
      BY <1>2, <2>2, ChainTail
    <3> QED  BY <1>2, <2>2, <3>1, <3>2
  <2> QED  BY <2>1, <2>2
<1>6. Typed'
  <2>1. /\ una' \in SeqNumbers /\ unsentSeq' \in SeqNumbers
        /\ window' \in 0..Capacity /\ acks' \subseteq Acks
        /\ got' \in Nat /\ gotFin' \in BOOLEAN /\ peerRead' \in 0..got'
        /\ got' - peerRead' <= Capacity /\ sendEdge' \in Nat
        /\ budget' \in [loss: 0..MaxLoss, expiries: 0..MaxExpiries, migrations: 0..MaxMigrations]
    BY DEF Typed, Steady, sendPeerVars
  <2>2. task'.at = "persist" => task'.probe \in Segs
    BY <1>4
  <2>3. written' \in 0..Outgoing /\ finAt' \in 0..Outgoing \cup {None}
    BY DEF Typed, Steady
  <2> QED  BY <1>4, <1>5, <2>1, <2>2, <2>3 DEF Typed
<1>7. Numbered'
  <2>1. Us' = Us /\ written' = w
    BY <1>1 DEF Steady, Us, Pos
  <2>2. Us = w
    BY <1>1 DEF Numbered
  <2>3. Chain(unsent, Nx, written)'
    BY <1>4, <1>5, <2>1
  <2> QED  BY <1>4, <2>1, <2>2, <2>3 DEF Numbered
<1>8. Flying'
  <2>1. PICK s : s = Segment(next, b) /\ Carries(s)'
    BY <1>4
  <2>2. task'.at = "persist" => Carries(task.probe)'
    BY <2>1 DEF Carries
  <2> QED  BY <1>4, <2>2 DEF Flying
<1>9. Waiting'
  BY DEF Waiting
<1>10. PeerHas' /\ AcksHold'
  <2>1. (Ua <= Peer /\ (heeded => sendEdge = Ua + window) /\ sendEdge <= Told)'
    BY <1>4 DEF PeerHas, Peer, Told, One, sendPeerVars, Steady
  <2>2. AcksHold'
    BY AcksKept DEF Steady
  <2> QED  BY <1>4, <2>1, <2>2 DEF PeerHas
<1> QED  BY <1>1, <1>4, <1>6, <1>7, <1>8, <1>9, <1>10

LEMMA ProbeStep ==
  ASSUME SenderAssumption, Stream, finAt = None, Nx < written, Probe, Steady,
         UNCHANGED <<timer, finAt>>,
         \/ window = 0 /\ Nx <= Limit + Excess
         \/ Nx < Limit + Excess
  PROVE  Stream'
<1>1. PICK h \in Bufs : h = unsent[1] /\ h = Head(unsent) /\ h.len \in Nat
  BY FrontIs
<1>2. 1 \in 1..h.len /\ 1 \in 0..h.len
  BY <1>1 DEF Probe, HasByte
<1>3. PICK b \in Bufs : b = Take(h, 1) /\ b.len = 1
  BY <1>2, BufferIs
<1>4. Span(b) = 1
  BY <1>3 DEF Span
<1>5. /\ next' = SeqAdd(next, Span(b)) /\ unacked' = Append(unacked, b)
      /\ wire' = wire \cup {Segment(next, b)} /\ finAt' = None
      /\ unsent' = <<Adjust(Head(unsent), 1)>> \o Tail(unsent)
      /\ task'.at = "persist" /\ task'.probe = Segment(next, b)
  BY <1>1, <1>3, <1>4 DEF Probe, ProbeAt
<1>6. /\ Typed' /\ Numbered' /\ QueueStands' /\ Flying' /\ Waiting' /\ PeerHas' /\ AcksHold'
      /\ Nx' = Nx + 1 /\ unacked' # <<>>
  BY <1>1, <1>2, <1>3, <1>5, FrontLeaves
<1>7. Room'
  <2>1. PICK x \in Nat, e \in Nat, m \in Nat : x = Nx /\ e = Limit /\ m = Excess
    BY Far DEF Stream
  <2>2. Excess' = m /\ Limit' = e /\ Nx' = x + 1 /\ window' = window
    BY <1>6, <2>1 DEF Limit, Ua, Pos, Excess, Migrations, Steady
  <2>3. x + 1 <= e + m + 1 /\ (x + 1 <= e + m \/ window = 0)
    BY <2>1
  <2> QED  BY <1>5, <2>2, <2>3 DEF Room
<1>8. TimerCovers'
  BY <1>5, <1>6 DEF TimerCovers
<1> QED  BY <1>6, <1>7, <1>8 DEF Stream

(* The coroutine goes on to wait, or ends. *)
LEMMA MovedOn ==
  ASSUME SenderAssumption, Stream,
         UNCHANGED <<queueVars, windowVars, timer, done, acks, wire, sendPeerVars, written, finAt,
                     budget>>,
         task.at # "persist", task'.at # "persist",
         task'.at = "resolveSend" => task'.room \in Nat \ {0} /\ Nx + task'.room <= Limit,
         task'.at \in {"resolveSend", "resolveProbe"} => finAt = None /\ Nx < written,
         task'.at = "resolveProbe" => window = 0,
         task.at = "ended" => task'.at = "ended"
  PROVE  Stream'
<1> USE DEF Stream, queueVars
<1>1. Typed'
  BY DEF Typed, sendPeerVars
<1>2. Numbered' /\ QueueStands' /\ PeerHas' /\ AcksHold'
  BY NumberedKept, QueueKept, PeerHasKept, AcksKept
<1>3. Flying'
  BY DEF Flying, Carries, Stands, DataEnd, Nx, Pos
<1>4. Waiting'
  <2>1. task'.at = "resolveSend" => unsent # <<>>
    BY FrontIs
  <2>2. Nx' = Nx
    BY DEF Nx, Pos
  <2> QED  BY <2>1, <2>2 DEF Waiting
<1>5. Room'
  <2>1. Nx' = Nx /\ Excess' = Excess /\ Limit' = Limit
    BY DEF Limit, Ua, Nx, Pos, Excess, Migrations
  <2> QED  BY <2>1 DEF Room
<1>6. TimerCovers'
  BY DEF TimerCovers, SendHome, Migrations
<1> QED  BY <1>1, <1>2, <1>3, <1>4, <1>5, <1>6

LEMMA StartProbeStep == ASSUME SenderAssumption, Stream, StartProbe PROVE Stream'
<1>1. finAt = None /\ Nx < written /\ task.at = "ready" /\ window = 0
  BY UnsentIs DEF StartProbe
<1>2. CASE Probe
  <2>1. unsent # <<>>
    BY <1>1, FrontIs
  <2>2. Nx <= Limit + Excess
    BY <1>1, <2>1 DEF Stream, Room
  <2> QED  BY <1>1, <1>2, <2>2, ProbeStep DEF StartProbe, Steady
<1>3. CASE task' = [at |-> "resolveProbe"] /\ UNCHANGED <<next, unacked, unsent, wire>>
  <2>1. task'.at = "resolveProbe"
    BY <1>3
  <2> QED  BY <1>1, <1>3, <2>1, MovedOn DEF StartProbe, queueVars
<1> QED  BY <1>2, <1>3 DEF StartProbe

LEMMA ResumeProbeStep == ASSUME SenderAssumption, Stream, ResumeProbe PROVE Stream'
<1>1. finAt = None /\ Nx < written /\ task.at = "resolveProbe"
  BY DEF ResumeProbe, Stream, Waiting
<1>2. unsent # <<>>
  BY <1>1, FrontIs
<1>3. (window = 0 /\ Nx <= Limit + Excess) \/ Nx < Limit + Excess
  BY <1>1, <1>2 DEF Stream, Room
<1> QED  BY <1>1, <1>3, ProbeStep DEF ResumeProbe, Steady

LEMMA QueryFailsStep == ASSUME SenderAssumption, Stream, QueryFails PROVE Stream'
<1>1. task.at \in {"resolveProbe", "resolveSend"} /\ task'.at = "ended"
  BY DEF QueryFails
<1> QED  BY <1>1, MovedOn DEF QueryFails, queueVars

(* A part of the front that fits in the window; an empty buffer would be a *)
(* FIN before the end, or stop the process.                                *)
LEMMA SendStep ==
  ASSUME SenderAssumption, Stream, FinIsLast', finAt = None, Nx < written,
         NEW room \in Nat \ {0}, Nx + room <= Limit, SendUnsent(room), Steady
  PROVE  Stream'
<1>1. PICK h \in Bufs : h = unsent[1] /\ h = Head(unsent) /\ h.len \in Nat /\ h.at = Nx
  BY FrontIs
<1>2. PICK n \in 0..h.len : /\ PopUnsent(room) = Take(h, n) /\ n <= room
                            /\ (n = 0 => h.len = 0)
  <2> DEFINE most == IF room < Mss THEN room ELSE Mss
  <2>1. most \in Nat \ {0} /\ most <= room
    BY Parameters
  <2>2. PopUnsent(room) = Take(h, IF h.len > most THEN most ELSE h.len)
    BY <1>1 DEF PopUnsent
  <2> HIDE DEF most
  <2>3. CASE h.len > most
    <3>1. most \in 0..h.len /\ most # 0
      BY <1>1, <2>1, <2>3
    <3> QED  BY <2>1, <2>2, <2>3, <3>1
  <2>4. CASE ~(h.len > most)
    <3>1. h.len \in 0..h.len /\ h.len <= room
      BY <1>1, <2>1, <2>4
    <3> QED  BY <2>2, <2>4, <3>1
  <2> QED  BY <2>3, <2>4
<1>3. PICK b \in Bufs : b = Take(h, n) /\ b = PopUnsent(room) /\ b.len = n /\ b.at = Nx
  BY <1>1, <1>2, BufferIs
<1>4. /\ wire' = wire \cup {Segment(next, b)} /\ next' = SeqAdd(next, Span(b))
      /\ unacked' = Append(unacked, b) /\ finAt' = (IF b.len = 0 THEN b.at ELSE finAt)
      /\ timer' = TRUE /\ task' = Ready
      /\ unsent' = IF b.len < h.len THEN <<Adjust(Head(unsent), b.len)>> \o Tail(unsent)
                                    ELSE Tail(unsent)
  <2>1. EmitData(b)
    BY <1>3 DEF SendUnsent
  <2>2. /\ task' = Ready
        /\ unsent' = IF b.len < h.len THEN <<Adjust(Head(unsent), b.len)>> \o Tail(unsent)
                                      ELSE Tail(unsent)
    BY <1>1, <1>3 DEF SendUnsent
  <2>3. finAt' = IF b.len = 0 THEN b.at ELSE finAt
    BY <2>1 DEF EmitData
  <2> QED  BY <2>1, <2>2, <2>3 DEF EmitData
<1>5. n # 0
  <2>1. SUFFICES ASSUME n = 0 PROVE FALSE
    OBVIOUS
  <2>2. finAt' = Nx
    BY <1>3, <1>4, <2>1
  <2>3. PICK x \in Nat, w \in Nat : x = Nx /\ w = written /\ w <= Outgoing
    BY Far DEF Stream
  <2>4. finAt' # None
    <3>1. x \in 0..Outgoing /\ None \notin 0..Outgoing
      BY <2>3, Parameters
    <3> QED  BY <2>2, <2>3, <3>1
  <2>5. finAt' = written'
    BY <2>4 DEF FinIsLast
  <2> QED  BY <2>2, <2>3, <2>5 DEF Steady
<1>6. /\ n \in 1..h.len /\ finAt' = None
      /\ \/ unsent' = <<Adjust(Head(unsent), n)>> \o Tail(unsent)
         \/ unsent' = Tail(unsent) /\ n = h.len
  <2>1. n \in 1..h.len
    BY <1>1, <1>5
  <2>2. n < h.len \/ n = h.len
    BY <1>1
  <2> QED  BY <1>3, <1>4, <1>5, <2>1, <2>2
<1>7. task'.at = "ready"
  BY <1>4 DEF Ready
<1>8. /\ Typed' /\ Numbered' /\ QueueStands' /\ Flying' /\ Waiting' /\ PeerHas' /\ AcksHold'
      /\ Nx' = Nx + n /\ unacked' # <<>>
  BY <1>1, <1>3, <1>4, <1>6, <1>7, FrontLeaves
<1>9. Room'
  <2>1. PICK x \in Nat, e \in Nat, m \in Nat : x = Nx /\ e = Limit /\ m = Excess
    BY Far DEF Stream
  <2>2. Excess' = m /\ Limit' = e /\ Nx' = x + n
    BY <1>8, <2>1 DEF Limit, Ua, Pos, Excess, Migrations, Steady
  <2>3. x + n <= e + m + 1 /\ x + n <= e + m
    BY <1>1, <1>2, <2>1
  <2> QED  BY <1>7, <2>2, <2>3 DEF Room
<1>10. TimerCovers'
  BY <1>4, <1>8 DEF TimerCovers
<1> QED  BY <1>8, <1>9, <1>10 DEF Stream

LEMMA StartSendStep == ASSUME SenderAssumption, Stream, FinIsLast', StartSend PROVE Stream'
<1>1. finAt = None /\ Nx < written /\ task.at = "ready"
  BY UnsentIs DEF StartSend
<1>2. window - InFlight \in Nat \ {0} /\ Nx + (window - InFlight) <= Limit
  <2>1. PICK h \in Bufs : h = Head(unsent) /\ h.len \in Nat
    BY <1>1, FrontIs
  <2>2. PICK x \in Nat, u \in Nat, w \in Nat, e \in Nat :
            x = Nx /\ u = Ua /\ w = window /\ e = Limit /\ u <= x /\ u + w <= e
    BY Far DEF Stream
  <2>3. InFlight = x - u
    BY <2>2, InFlightIs DEF Stream
  <2>4. w > (x - u) + h.len
    BY <2>1, <2>2, <2>3 DEF StartSend
  <2> QED  BY <2>1, <2>2, <2>3, <2>4
<1>3. CASE SendUnsent(window - InFlight)
  BY <1>1, <1>2, <1>3, SendStep DEF StartSend, Steady
<1>4. CASE /\ task' = [at |-> "resolveSend", room |-> window - InFlight]
           /\ UNCHANGED <<next, unacked, unsent, timer, wire, finAt, sendHalted>>
  <2>1. task'.at = "resolveSend" /\ task'.room = window - InFlight
    BY <1>4
  <2> QED  BY <1>1, <1>2, <1>4, <2>1, MovedOn DEF StartSend, queueVars
<1> QED  BY <1>3, <1>4 DEF StartSend

LEMMA ResumeSendStep == ASSUME SenderAssumption, Stream, FinIsLast', ResumeSend PROVE Stream'
<1>1. finAt = None /\ Nx < written /\ task.at = "resolveSend"
  BY DEF ResumeSend, Stream, Waiting
<1>2. task.room \in Nat \ {0} /\ Nx + task.room <= Limit
  BY <1>1 DEF Stream, Typed, Room
<1>3. SendUnsent(task.room) /\ Steady
  BY DEF ResumeSend, Steady
<1> QED  BY <1>1, <1>2, <1>3, SendStep

(* What is sent once more bears its number. *)
LEMMA SentAgain ==
  ASSUME SenderAssumption, Stream, NEW s \in Segs, Carries(s), wire' = wire \cup {s},
         UNCHANGED <<queueVars, windowVars, timer, done, task, acks, sendPeerVars, written, finAt,
                     budget>>
  PROVE  Stream'
<1> USE DEF Stream, queueVars
<1>1. Typed'
  <2>1. wire' \subseteq Segs
    BY DEF Typed
  <2> QED  BY <2>1 DEF Typed, sendPeerVars
<1>2. Numbered' /\ QueueStands' /\ PeerHas' /\ AcksHold' /\ Waiting' /\ Room'
  BY NumberedKept, QueueKept, PeerHasKept, AcksKept, WaitingKept, RoomKept
<1>3. Flying'
  <2>1. \A t : Carries(t) => Carries(t)'
    BY CarriedKept
  <2>2. task.at = "persist" => Carries(task.probe)'
    BY DEF Flying, Carries, Stands, DataEnd, Nx, Pos
  <2> QED  BY <2>1, <2>2 DEF Flying
<1>4. TimerCovers'
  BY DEF TimerCovers, SendHome, Migrations
<1> QED  BY <1>1, <1>2, <1>3, <1>4

LEMMA RepeatProbeStep == ASSUME SenderAssumption, Stream, RepeatProbe PROVE Stream'
<1>1. task.probe \in Segs /\ Carries(task.probe)
  BY DEF RepeatProbe, Stream, Typed, Flying
<1>2. PICK s \in Segs : s = task.probe /\ Carries(s)
  BY <1>1
<1> QED  BY <1>2, SentAgain DEF RepeatProbe, queueVars

LEMMA RetransmitStep == ASSUME SenderAssumption, Stream, Retransmit PROVE Stream'
<1> USE DEF Stream
<1>1. PICK q \in Seq(Bufs) : q = unacked /\ q # <<>>
  BY DEF Typed, Retransmit
<1>2. Len(q) \in Nat \ {0} /\ q[1] \in Bufs /\ Head(q) = q[1]
  BY <1>1, TailIs
<1>3. Stands(Ua, q[1])
  <2>1. 1 \in 1..Len(q) /\ 1 - 1 = 0
    BY <1>2
  <2>2. Stands(Place(1), q[1])
    BY <1>1, <2>1 DEF QueueStands
  <2>3. Place(1) = Ua
    <3>1. Spans(q, 0) = 0 /\ Ua \in Nat
      BY <1>1, SpansAre, Far
    <3> QED  BY <1>1, <2>1, <3>1 DEF Place
  <2> QED  BY <2>2, <2>3
<1>4. PICK s \in Segs : s = Segment(una, Head(unacked)) /\ Carries(s)
  <2>1. una \in SeqNumbers
    BY DEF Typed
  <2>2. PICK s \in Segs : /\ s = Segment(una, Head(unacked)) /\ s.seq = una /\ s.buf = q[1]
                          /\ s.fin = (q[1].len = 0)
    <3>1. PICK h \in Bufs : h = q[1] /\ h = Head(unacked)
      BY <1>1, <1>2
    <3>2. Segment(una, h) \in Segs /\ Segment(una, h).seq = una /\ Segment(una, h).buf = h
          /\ Segment(una, h).fin = (h.len = 0)
      BY <2>1 DEF Segment, Segs
    <3> QED  BY <3>1, <3>2
  <2>3. Carries(s)
    BY <1>3, <2>2 DEF Carries, Ua
  <2> QED  BY <2>2, <2>3
<1> QED  BY <1>4, SentAgain DEF Retransmit, queueVars

-----------------------------------------------------------------------------
(* The peer, the network, and the rest of the environment. *)

(* The peer has more, or has read more, and says so. *)
LEMMA PeerTells ==
  ASSUME SenderAssumption, Stream,
         NEW g \in Nat, NEW f \in BOOLEAN, NEW r \in 0..g, got' = g, gotFin' = f, peerRead' = r,
         g - r <= Capacity, got <= g, peerRead <= r, gotFin => f,
         g <= DataEnd, f => finAt # None /\ g = finAt,
         PeerAck(g, f, r), wire' \subseteq wire,
         UNCHANGED <<queueVars, windowVars, timer, done, task, written, finAt, budget>>
  PROVE  Stream'
<1> USE DEF Stream, queueVars
<1>1. /\ Capacity \in Nat /\ Outgoing \in Nat /\ Outgoing + Capacity + 2 < Modulus
      /\ Modulus \in Nat /\ Modulus > 0
  <2>1. Outgoing + Capacity + MaxMigrations + 2 < Half /\ Modulus = 2 * Half /\ Half \in Nat
        /\ Outgoing \in Nat /\ Capacity \in Nat /\ MaxMigrations \in Nat
    BY Parameters
  <2> QED  BY <2>1
<1>2. g <= Outgoing
  <2>1. DataEnd \in Nat /\ DataEnd <= written /\ written \in Nat /\ written <= Outgoing
    BY Far
  <2> QED  BY <1>1, <2>1
<1> DEFINE p == g + One(f)
           t == Capacity + r + One(f)
<1>3. One(f) \in 0..1 /\ (IF f THEN g + 1 ELSE g) = p
  BY DEF One
<1>3a. PICK n \in SeqNumbers :
          acks' = acks \cup {[seq |-> n, ack |-> SeqNo(p), win |-> Capacity - (g - r)]}
  <2>1. p \in 0..(Outgoing + 1)
    BY <1>1, <1>2, <1>3
  <2>2. PICK n \in PeerNumbers[p] :
          acks' = acks \cup {[seq |-> n, ack |-> SeqNo(p), win |-> Capacity - (g - r)]}
    BY <1>3 DEF PeerAck
  <2>3. PeerNumbers[p] \subseteq SeqNumbers
    BY <2>1 DEF SenderAssumption
  <2> QED  BY <2>2, <2>3
<1> DEFINE a == [seq |-> n, ack |-> SeqNo(p), win |-> Capacity - (g - r)]
<1>4. acks' = acks \cup {a}
  BY <1>3a
<1>5. /\ a \in Acks /\ Pos(a.ack) = p /\ Pos(a.ack) + a.win = t
  <2>1. p \in 0..(Modulus - 1)
    BY <1>1, <1>2, <1>3
  <2>2. SeqNo(p) \in SeqNumbers /\ Pos(SeqNo(p)) = p
    BY <2>1, Positions
  <2>3. Capacity - (g - r) \in 0..Capacity
    BY <1>1
  <2>4. a.ack = SeqNo(p) /\ a.win = Capacity - (g - r)
    BY <1>3
  <2>5. a \in Acks
    BY <1>3, <2>2, <2>3 DEF Acks
  <2>6. p + (Capacity - (g - r)) = t
    BY <1>1, <1>3
  <2> QED  BY <2>2, <2>4, <2>5, <2>6
<1> HIDE DEF a
<1>6. /\ Peer' = p /\ Told' = t /\ Peer <= p /\ Told <= t
      /\ Peer \in Nat /\ Told \in Nat /\ p \in Nat /\ t \in Nat
  <2>1. Peer' = p /\ Told' = t
    BY DEF Peer, Told, One
  <2>2. Peer \in Nat /\ Told \in Nat
    BY Far
  <2>3. got \in Nat /\ peerRead \in Nat /\ One(gotFin) \in 0..1 /\ One(gotFin) <= One(f)
    BY DEF One, Typed
  <2> QED  BY <1>1, <1>3, <2>1, <2>2, <2>3 DEF Peer, Told
<1> HIDE DEF p, t
<1>7. Typed'
  <2>1. /\ una' \in SeqNumbers /\ next' \in SeqNumbers /\ unsentSeq' \in SeqNumbers
        /\ unacked' \in Seq(Bufs) /\ unsent' \in Seq(Bufs)
        /\ window' \in 0..Capacity /\ wire' \subseteq Segs /\ acks' \subseteq Acks
        /\ written' \in 0..Outgoing /\ finAt' \in 0..Outgoing \cup {None} /\ sendEdge' \in Nat
        /\ budget' \in [loss: 0..MaxLoss, expiries: 0..MaxExpiries, migrations: 0..MaxMigrations]
    BY <1>4, <1>5 DEF Typed
  <2>2. task'.at = "persist" => task'.probe \in Segs
    BY DEF Typed
  <2>3. task'.at = "resolveSend" => task'.room \in Nat \ {0}
    BY DEF Typed
  <2> QED  BY <2>1, <2>2, <2>3 DEF Typed
<1>8. Numbered' /\ QueueStands' /\ Waiting' /\ Room'
  BY NumberedKept, QueueKept, WaitingKept, RoomKept
<1>9. Flying'
  BY DEF Flying, Carries, Stands, DataEnd, Nx, Pos
<1>10. PeerHas'
  <2>1. Ua' = Ua /\ DataEnd' = DataEnd
    BY DEF Ua, DataEnd, Nx, Pos
  <2>2. /\ Ua <= Peer /\ (heeded => sendEdge = Ua + window) /\ sendEdge <= Told
        /\ Ua \in Nat /\ sendEdge \in Nat
    BY Far DEF PeerHas
  <2> QED  BY <1>6, <2>1, <2>2 DEF PeerHas
<1>11. AcksHold'
  <2>1. Ua' = Ua /\ sendEdge' = sendEdge /\ Ua \in Nat /\ sendEdge \in Nat /\ sendEdge <= Told
    BY Far DEF Ua, Pos
  <2>2. ASSUME NEW c \in acks
        PROVE  /\ Pos(c.ack) \in Nat /\ EdgeOf(c) \in Nat /\ Pos(c.ack) <= p /\ EdgeOf(c) <= t
               /\ Pos(c.ack) <= Peer /\ EdgeOf(c) <= Told
               /\ Ua < Pos(c.ack) => sendEdge <= EdgeOf(c)
    <3>1. c.ack \in SeqNumbers /\ c.win \in Nat
      BY <1>1 DEF Typed, Acks
    <3>2. Pos(c.ack) \in Nat
      BY <1>1, <3>1, Positions
    <3>3. Pos(c.ack) <= Peer /\ EdgeOf(c) <= Told /\ (Ua < Pos(c.ack) => sendEdge <= EdgeOf(c))
      BY DEF AcksHold
    <3>4. EdgeOf(c) \in Nat
      BY <3>1, <3>2 DEF EdgeOf
    <3> QED  BY <1>6, <3>2, <3>3, <3>4
  <2>3. EdgeOf(a) = t
    BY <1>5 DEF EdgeOf
  <2>4. ASSUME NEW c \in acks'
        PROVE  Pos(c.ack) <= p /\ EdgeOf(c) <= t /\ (Ua < Pos(c.ack) => sendEdge <= EdgeOf(c))
    BY <1>4, <1>5, <1>6, <2>1, <2>2, <2>3
  <2>5. ASSUME NEW c \in acks', NEW d \in acks', Pos(c.ack) < Pos(d.ack)
        PROVE  EdgeOf(c) <= EdgeOf(d)
    <3>1. CASE c \in acks /\ d \in acks
      BY <2>5, <3>1 DEF AcksHold
    <3>2. CASE d = a
      BY <2>3, <2>4, <3>2
    <3>3. CASE c = a /\ d \in acks
      BY <1>5, <1>6, <2>2, <2>5, <3>3
    <3> QED  BY <1>4, <3>1, <3>2, <3>3
  <2> QED  BY <1>6, <2>1, <2>4, <2>5 DEF AcksHold, EdgeOf
<1>12. TimerCovers'
  BY DEF TimerCovers, SendHome, Migrations
<1> QED  BY <1>7, <1>8, <1>9, <1>10, <1>11, <1>12

LEMMA PeerReadsStep == ASSUME SenderAssumption, Stream, PeerReads PROVE Stream'
<1> USE DEF Stream
<1>1. PICK g \in Nat, f \in BOOLEAN : g = got /\ f = gotFin
  BY DEF Typed
<1>2. /\ g - g <= Capacity /\ got <= g /\ peerRead <= g /\ g \in 0..g
      /\ g <= DataEnd /\ (f => finAt # None /\ g = finAt) /\ (gotFin => f)
  <2>1. peerRead \in 0..got /\ got <= DataEnd /\ (gotFin => finAt # None /\ got = finAt)
    BY DEF Typed, PeerHas
  <2> QED  BY <1>1, <2>1, Parameters
<1>3. got' = g /\ gotFin' = f /\ peerRead' = g /\ PeerAck(g, f, g) /\ wire' \subseteq wire
  BY <1>1 DEF PeerReads
<1> QED  BY <1>2, <1>3, PeerTells DEF PeerReads, queueVars

(* Of a segment the peer takes what is new, in order. *)
LEMMA PeerReceiveStep ==
  ASSUME SenderAssumption, Stream, NEW s \in wire, PeerReceive(s)
  PROVE  Stream'
<1> USE DEF Stream
<1>1. /\ Capacity \in Nat /\ Outgoing \in Nat /\ Outgoing + 2 < Half
      /\ Modulus = 2 * Half /\ Half \in Nat
  <2>1. Outgoing + Capacity + MaxMigrations + 2 < Half /\ Modulus = 2 * Half /\ Half \in Nat
        /\ Outgoing \in Nat /\ Capacity \in Nat /\ MaxMigrations \in Nat
    BY Parameters
  <2> QED  BY <2>1
<1>2. PICK b \in Bufs : b = s.buf /\ s.seq \in SeqNumbers /\ s.fin = (b.len = 0)
                        /\ Stands(Pos(s.seq), b)
  <2>1. s \in Segs /\ Carries(s)
    BY DEF Typed, Flying
  <2> QED  BY <2>1 DEF Segs, Carries
<1>3. PICK p \in Nat, l \in Nat : /\ p = Pos(s.seq) /\ p = b.at /\ l = b.len /\ p + l <= Outgoing
                                  /\ IF l = 0 THEN finAt = p ELSE p + l <= DataEnd
  <2>1. b.at \in Nat /\ b.len \in Nat /\ b.at + b.len <= Outgoing
    BY BufferIs
  <2> QED  BY <1>2, <2>1 DEF Stands
<1>4. PICK g \in Nat, d \in Nat : g = got /\ d = DataEnd /\ g <= d /\ d <= Outgoing
  <2>1. got \in Nat /\ got <= DataEnd
    BY DEF Typed, PeerHas
  <2>2. DataEnd \in Nat /\ DataEnd <= written /\ written \in Nat /\ written <= Outgoing
    BY Far
  <2> QED  BY <1>1, <2>1, <2>2
<1>5. p <= g /\ SeqSub(SeqNo(g), s.seq) = g - p
  <2>1. g \in 0..(Modulus - 1)
    BY <1>1, <1>4
  <2>2. SeqNo(g) \in SeqNumbers /\ Pos(SeqNo(g)) = g
    BY <2>1, Positions
  <2>3. s.seq = SeqNo(g) \/ SeqLt(s.seq, SeqNo(g))
    BY <1>4 DEF PeerReceive, SeqLe
  <2>0. Pos(SeqNo(g)) = g /\ Pos(s.seq) = p /\ s.seq \in SeqNumbers /\ SeqNo(g) \in SeqNumbers
    BY <1>2, <1>3, <2>2
  <2>4. SeqLt(s.seq, SeqNo(g)) <=> IF g <= p THEN p - g >= Half ELSE g - p <= Half
    <3>1. SeqLt(s.seq, SeqNo(g)) <=> IF Pos(SeqNo(g)) <= Pos(s.seq)
                                       THEN Pos(s.seq) - Pos(SeqNo(g)) >= Half
                                       ELSE Pos(SeqNo(g)) - Pos(s.seq) <= Half
      BY <2>0, Numbers
    <3> QED  BY <2>0, <3>1
  <2>5. p <= g
    <3>1. s.seq = SeqNo(g) => p = g
      BY <1>3, <2>2
    <3>2. SeqLt(s.seq, SeqNo(g)) => p <= g
      <4>1. ~(p - g >= Half)
        BY <1>1, <1>3, <1>4
      <4>2. SeqLt(s.seq, SeqNo(g)) => ~(g <= p)
        BY <2>4, <4>1
      <4> QED  BY <4>2
    <3>3. p = g => p <= g
      OBVIOUS
    <3> QED  BY <2>3, <3>1, <3>2, <3>3
  <2>6. SeqSub(SeqNo(g), s.seq) = IF p <= g THEN g - p ELSE Modulus + g - p
    <3>1. SeqSub(SeqNo(g), s.seq) = IF Pos(s.seq) <= Pos(SeqNo(g))
                                      THEN Pos(SeqNo(g)) - Pos(s.seq)
                                      ELSE Modulus + Pos(SeqNo(g)) - Pos(s.seq)
      BY <2>0, Numbers
    <3> QED  BY <2>0, <3>1
  <2> QED  BY <2>5, <2>6
<1> DEFINE old  == SeqSub(SeqNo(got), s.seq)
           new  == IF s.buf.len > old THEN s.buf.len - old ELSE 0
           room == Capacity - (got - peerRead)
           most == IF new < room THEN new ELSE room
           fin  == gotFin \/ (s.fin /\ old = 0)
<1>6. /\ got' \in {got + n : n \in {most} \cup (1..most \cap {1})}
      /\ gotFin' = fin
      /\ peerRead' \in {got'} \cup (IF PeerLags THEN {peerRead} ELSE {})
      /\ PeerAck(got', fin, peerRead')
      /\ wire' = wire \ {s}
      /\ UNCHANGED <<queueVars, windowVars, timer, done, task, written, finAt, budget>>
  BY DEF PeerReceive
<1>7. PICK k \in Nat : k = new /\ (k > 0 => l # 0 /\ g + k = p + l)
  <2>1. old = g - p /\ s.buf.len = l
    BY <1>2, <1>3, <1>4, <1>5
  <2> QED  BY <1>3, <1>4, <1>5, <2>1
<1>8. PICK c \in Nat : /\ c = room /\ peerRead \in Nat /\ peerRead <= g
                       /\ c = Capacity - (g - peerRead)
  <2>1. peerRead \in 0..got /\ got - peerRead <= Capacity
    BY DEF Typed
  <2> QED  BY <1>1, <1>4, <2>1
<1>9. fin \in BOOLEAN /\ (gotFin => fin) /\ (fin => gotFin \/ (l = 0 /\ p = g))
  <2>1. gotFin \in BOOLEAN /\ s.fin = (l = 0)
    BY <1>2, <1>3 DEF Typed
  <2>2. old = g - p
    BY <1>4, <1>5
  <2> QED  BY <1>4, <1>5, <2>1, <2>2
<1> HIDE DEF old, new, room, fin
<1>10. PICK m \in Nat : m = most /\ m <= k /\ m <= c
  BY <1>7, <1>8
<1> HIDE DEF most
<1>11. PICK n \in 0..m : got' = g + n
  <2>1. PICK n \in {m} \cup (1..m \cap {1}) : got' = got + n
    BY <1>6, <1>10
  <2> QED  BY <1>4, <2>1
<1>12. PICK h \in Nat : h = got' /\ h = g + n /\ h <= d
  <2>1. n > 0 => g + k <= d
    BY <1>3, <1>4, <1>7, <1>10
  <2> QED  BY <1>4, <1>7, <1>10, <1>11, <2>1
<1>13. PICK r \in 0..h : r = peerRead' /\ peerRead <= r /\ h - r <= Capacity
  <2>1. peerRead' = h \/ peerRead' = peerRead
    BY <1>6, <1>12
  <2>2. CASE peerRead' = h
    BY <1>1, <1>8, <1>12, <2>2
  <2>3. CASE peerRead' = peerRead
    BY <1>1, <1>4, <1>8, <1>10, <1>12, <2>3
  <2> QED  BY <2>1, <2>2, <2>3
<1>14. fin => finAt # None /\ h = finAt
  <2>1. CASE gotFin
    <3>1. finAt # None /\ g = finAt /\ d = g
      BY <1>4, <2>1 DEF PeerHas, DataEnd
    <3>2. k = 0
      BY <1>3, <1>4, <1>7, <3>1
    <3> QED  BY <1>10, <1>12, <3>1, <3>2
  <2>2. CASE l = 0 /\ p = g
    <3>1. k = 0 /\ finAt = g
      BY <1>3, <1>7, <2>2
    <3>2. g \in 0..Outgoing /\ None \notin 0..Outgoing
      BY <1>4, Parameters
    <3> QED  BY <1>10, <1>12, <3>1, <3>2
  <2> QED  BY <1>9, <2>1, <2>2
<1>15. PICK f \in BOOLEAN : f = fin
  BY <1>9
<1>16. /\ got' = h /\ gotFin' = f /\ peerRead' = r /\ PeerAck(h, f, r) /\ wire' \subseteq wire
       /\ got <= h /\ h <= DataEnd /\ (gotFin => f) /\ (f => finAt # None /\ h = finAt)
  <2>1. got <= h /\ h <= DataEnd
    BY <1>4, <1>12
  <2> QED  BY <1>6, <1>9, <1>12, <1>13, <1>14, <1>15, <2>1
<1> HIDE DEF Stream
<1> QED  BY <1>6, <1>13, <1>16, PeerTells

(* Something on its way is gone, and at most the budget is spent. *)
LEMMA LessStep ==
  ASSUME SenderAssumption, Stream, acks' \subseteq acks, wire' \subseteq wire,
         UNCHANGED <<queueVars, windowVars, timer, done, task, sendPeerVars, written, finAt>>,
         budget' \in [loss: 0..MaxLoss, expiries: 0..MaxExpiries, migrations: 0..MaxMigrations],
         budget'.migrations = budget.migrations
  PROVE  Stream'
<1> USE DEF Stream, queueVars
<1>1. Typed'
  <2>1. /\ una' \in SeqNumbers /\ next' \in SeqNumbers /\ unsentSeq' \in SeqNumbers
        /\ unacked' \in Seq(Bufs) /\ unsent' \in Seq(Bufs)
        /\ window' \in 0..Capacity /\ wire' \subseteq Segs /\ acks' \subseteq Acks
        /\ got' \in Nat /\ gotFin' \in BOOLEAN /\ peerRead' \in 0..got'
        /\ got' - peerRead' <= Capacity
        /\ written' \in 0..Outgoing /\ finAt' \in 0..Outgoing \cup {None} /\ sendEdge' \in Nat
    BY DEF Typed, sendPeerVars
  <2>2. task'.at = "persist" => task'.probe \in Segs
    BY DEF Typed
  <2>3. task'.at = "resolveSend" => task'.room \in Nat \ {0}
    BY DEF Typed
  <2> QED  BY <2>1, <2>2, <2>3 DEF Typed
<1>2. Numbered' /\ QueueStands' /\ Waiting' /\ PeerHas' /\ AcksHold' /\ Room'
  BY NumberedKept, QueueKept, WaitingKept, PeerHasKept, AcksKept, RoomKept
<1>3. Flying'
  BY DEF Flying, Carries, Stands, DataEnd, Nx, Pos
<1>4. TimerCovers'
  BY DEF TimerCovers, SendHome, Migrations
<1> QED  BY <1>1, <1>2, <1>3, <1>4

LEMMA BudgetSpent ==
  ASSUME SenderAssumption, Stream,
         \/ budget' = budget
         \/ budget.loss > 0 /\ budget' = [budget EXCEPT !.loss = @ - 1]
         \/ budget.expiries > 0 /\ budget' = [budget EXCEPT !.expiries = @ - 1]
  PROVE  /\ budget' \in [loss: 0..MaxLoss, expiries: 0..MaxExpiries, migrations: 0..MaxMigrations]
         /\ budget'.migrations = budget.migrations
<1>1. budget \in [loss: 0..MaxLoss, expiries: 0..MaxExpiries, migrations: 0..MaxMigrations]
  BY DEF Stream, Typed
<1>2. MaxLoss \in Nat /\ MaxExpiries \in Nat
  BY Parameters
<1> QED  BY <1>1, <1>2

LEMMA AsideStep ==
  ASSUME SenderAssumption, Stream,
         \/ ArpExpire \/ ArpLearn
         \/ \E a \in acks : LoseAck(a)
         \/ \E s \in wire : LoseSegment(s)
  PROVE  Stream'
<1>1. \/ budget' = budget
      \/ budget.loss > 0 /\ budget' = [budget EXCEPT !.loss = @ - 1]
      \/ budget.expiries > 0 /\ budget' = [budget EXCEPT !.expiries = @ - 1]
  BY DEF ArpExpire, ArpLearn, LoseAck, LoseSegment
<1>2. /\ acks' \subseteq acks /\ wire' \subseteq wire
      /\ UNCHANGED <<queueVars, windowVars, timer, done, task, sendPeerVars, written, finAt>>
  BY DEF ArpExpire, ArpLearn, LoseAck, LoseSegment, queueVars, sendPeerVars
<1> QED  BY <1>1, <1>2, BudgetSpent, LessStep

LEMMA TakeFailsStep == ASSUME SenderAssumption, Stream, TakeFails PROVE Stream'
BY SameStream DEF TakeFails, queueVars

LEMMA MigrateStep == ASSUME SenderAssumption, Stream, MigrateSender PROVE Stream'
<1> USE DEF Stream
<1>1. /\ UNCHANGED <<una, next, unsentSeq, unacked, unsent, windowVars, done, wire, acks,
                     sendPeerVars, written, finAt>>
      /\ timer' = FALSE /\ task'.at = "ready" /\ budget.migrations > 0
      /\ budget' = [budget EXCEPT !.migrations = @ - 1]
  BY DEF MigrateSender, Carried, Ready
<1>2. /\ budget' \in [loss: 0..MaxLoss, expiries: 0..MaxExpiries, migrations: 0..MaxMigrations]
      /\ Migrations' = Migrations + 1 /\ Migrations' # 0
  <2>1. budget \in [loss: 0..MaxLoss, expiries: 0..MaxExpiries, migrations: 0..MaxMigrations]
    BY DEF Typed
  <2>2. MaxMigrations \in Nat
    BY Parameters
  <2>3. PICK m \in Nat : m = budget.migrations /\ m <= MaxMigrations /\ m > 0
    BY <1>1, <2>1, <2>2
  <2>4. budget' \in [loss: 0..MaxLoss, expiries: 0..MaxExpiries, migrations: 0..MaxMigrations]
        /\ budget'.migrations = m - 1
    BY <1>1, <2>1, <2>2, <2>3
  <2> QED  BY <2>2, <2>3, <2>4 DEF Migrations
<1>3. Typed'
  BY <1>1, <1>2 DEF Typed, sendPeerVars
<1>4. Numbered' /\ QueueStands' /\ Waiting' /\ PeerHas' /\ AcksHold'
  BY <1>1, NumberedKept, QueueKept, WaitingKept, PeerHasKept, AcksKept
<1>5. Flying'
  BY <1>1 DEF Flying, Carries, Stands, DataEnd, Nx, Pos
<1>6. Room'
  <2>1. PICK x \in Nat, e \in Nat, m \in Nat : x = Nx /\ e = Limit /\ m = Excess
    BY Far
  <2>2. Nx' = x /\ Limit' = e /\ Excess' = m + 1
    BY <1>1, <1>2, <2>1 DEF Limit, Ua, Nx, Pos, Excess
  <2>3. x <= e + m + 1
    BY <2>1 DEF Room
  <2>4. x <= e + (m + 1) + 1 /\ x <= e + (m + 1)
    BY <2>3
  <2> QED  BY <1>1, <2>2, <2>4 DEF Room
<1>7. TimerCovers'
  BY <1>1, <1>2 DEF TimerCovers, SendHome
<1> QED  BY <1>3, <1>4, <1>5, <1>6, <1>7

-----------------------------------------------------------------------------
(* An acknowledgement. *)

(* What is left of a buffer stands where it stood. *)
LEMMA StandsCut ==
  ASSUME SenderAssumption, NEW p \in Nat, NEW b \in Bufs, Stands(p, b),
         NEW n \in Nat, n > 0 => n < b.len, DataEnd \in Nat
  PROVE  Stands(p + n, Adjust(b, n))
<1>1. CASE n = 0
  <2>1. p + n = p /\ Adjust(b, n) = b
    BY <1>1, AdjustIs
  <2> QED  BY <2>1
<1>2. CASE n > 0
  <2>1. b.len \in Nat /\ b.at \in Nat /\ n \in 0..b.len /\ n < b.len
    BY <1>2, BufferIs
  <2>2. Adjust(b, n).at = b.at + n /\ Adjust(b, n).len = b.len - n
    BY <2>1, BufferIs
  <2>3. b.at = p /\ p + b.len <= DataEnd
    BY <2>1 DEF Stands
  <2>4. (p + n) + (b.len - n) <= DataEnd /\ b.len - n # 0
    BY <2>1, <2>3
  <2> QED  BY <2>2, <2>3, <2>4 DEF Stands
<1> QED  BY <1>1, <1>2

(* One that is accepted is one of something the peer has. *)
LEMMA AcceptedIs ==
  ASSUME SenderAssumption, Stream, NEW a \in acks, SeqLt(una, a.ack)
  PROVE  \E A \in Nat, n \in Nat, E \in Nat :
           /\ A = Pos(a.ack) /\ a.ack \in SeqNumbers /\ a.win \in 0..Capacity
           /\ Ua < A /\ A <= Nx /\ A <= Peer /\ n = A - Ua /\ SeqSub(a.ack, una) = n
           /\ E = A + a.win /\ E = EdgeOf(a) /\ sendEdge <= E /\ E <= Told
           /\ sendEdge + SeqSub(SeqAdd(a.ack, a.win), SeqNo(sendEdge)) = E
<1> USE DEF Stream
<1>1. /\ Capacity \in Nat /\ Outgoing \in Nat /\ Outgoing + Capacity + 2 < Half
      /\ Modulus = 2 * Half /\ Half \in Nat
  <2>1. Outgoing + Capacity + MaxMigrations + 2 < Half /\ Modulus = 2 * Half /\ Half \in Nat
        /\ Outgoing \in Nat /\ Capacity \in Nat /\ MaxMigrations \in Nat
    BY Parameters
  <2> QED  BY <2>1
<1>2. PICK u \in Nat, x \in Nat, e \in Nat, t \in Nat, w \in Nat, l \in Nat :
         /\ u = Ua /\ x = Nx /\ e = sendEdge /\ t = Told /\ w = written /\ l = Peer
         /\ u <= x /\ l <= x /\ x <= w + 1 /\ w <= Outgoing /\ e <= t /\ t <= Capacity + w + 1
  BY Far
<1>3. a.ack \in SeqNumbers /\ a.win \in 0..Capacity
  BY DEF Typed, Acks
<1>4. PICK A \in Nat : A = Pos(a.ack)
  BY <1>1, <1>3, Positions
<1>5. A <= l /\ EdgeOf(a) <= t /\ (u < A => e <= EdgeOf(a))
  BY <1>2, <1>4 DEF AcksHold
<1>6. una \in SeqNumbers /\ Pos(una) = u
  BY <1>2 DEF Typed, Ua
<1>7. u < A
  <2>1. SeqLt(una, a.ack) <=> IF Pos(a.ack) <= Pos(una) THEN Pos(una) - Pos(a.ack) >= Half
                                                        ELSE Pos(a.ack) - Pos(una) <= Half
    BY <1>3, <1>6, Numbers
  <2>2. IF A <= u THEN u - A >= Half ELSE A - u <= Half
    BY <1>4, <1>6, <2>1
  <2> QED  BY <1>1, <1>2, <1>4, <2>2
<1>8. PICK n \in Nat : n = A - u
  BY <1>7
<1>9. SeqSub(a.ack, una) = n
  <2>1. SeqSub(a.ack, una) = IF Pos(una) <= Pos(a.ack) THEN Pos(a.ack) - Pos(una)
                                                       ELSE Modulus + Pos(a.ack) - Pos(una)
    BY <1>3, <1>6, Numbers
  <2> QED  BY <1>4, <1>6, <1>7, <1>8, <2>1
<1>10. PICK E \in Nat : E = A + a.win /\ E = EdgeOf(a)
  BY <1>1, <1>3, <1>4 DEF EdgeOf
<1>11. e <= E /\ E <= t /\ E < Modulus
  BY <1>1, <1>2, <1>5, <1>7, <1>10
<1>12. SeqSub(SeqAdd(a.ack, a.win), SeqNo(e)) = E - e
  <2>1. a.win \in Nat /\ Pos(a.ack) + a.win < Modulus
    BY <1>1, <1>3, <1>4, <1>10, <1>11
  <2>2. SeqAdd(a.ack, a.win) \in SeqNumbers /\ Pos(SeqAdd(a.ack, a.win)) = E
    BY <1>3, <1>4, <1>10, <2>1, Numbers
  <2>3. e \in 0..(Modulus - 1)
    BY <1>1, <1>2
  <2>4. SeqNo(e) \in SeqNumbers /\ Pos(SeqNo(e)) = e
    BY <2>3, Positions
  <2>5. PICK y \in SeqNumbers, z \in SeqNumbers : y = SeqAdd(a.ack, a.win) /\ z = SeqNo(e)
    BY <2>2, <2>4
  <2>6. SeqSub(y, z) = IF Pos(z) <= Pos(y) THEN Pos(y) - Pos(z) ELSE Modulus + Pos(y) - Pos(z)
    BY Numbers
  <2> QED  BY <1>11, <2>2, <2>4, <2>5, <2>6
<1>13. e + (E - e) = E
  BY <1>2
<1> QED  BY <1>2, <1>3, <1>4, <1>5, <1>7, <1>8, <1>9, <1>10, <1>11, <1>12, <1>13

(* The queue that is left is what is not acknowledged. *)
LEMMA QueueLeft ==
  ASSUME SenderAssumption, Stream, NEW A \in Nat, NEW n \in Nat, A = Ua + n, A <= Nx
  PROVE  \E r \in Seq(Bufs) :
           /\ r = Remaining(n) /\ Spans(r, Len(r)) = Nx - A
           /\ \A j \in 1..Len(r) : Stands(A + Spans(r, j - 1), r[j])
           /\ r # <<>> <=> A # Nx
<1> USE DEF Stream
<1>1. PICK u \in Nat, x \in Nat : u = Ua /\ x = Nx /\ u <= x /\ DataEnd \in Nat
  BY Far
<1>2. PICK q \in Seq(Bufs) : q = unacked
  BY DEF Typed
<1>3. PICK l \in Nat : l = Len(q) /\ Spans(q, l) = x - u /\ \A i \in 1..l : q[i] \in Bufs
  BY <1>1, <1>2, QueueIs DEF Numbered
<1>4. PICK r \in Seq(Bufs), k \in 0..l, part \in Nat : r = Remaining(n) /\ Left(r, q, k, part, n)
  <2>1. n <= Spans(unacked, Len(unacked))
    BY <1>1, <1>2, <1>3
  <2> QED  BY <1>2, <1>3, <2>1, RemainingIs
<1>5. PICK m \in Nat : m = Len(r) /\ m = l - k
  BY <1>3, <1>4 DEF Left
<1>6. /\ n = Spans(q, k) + part /\ Spans(q, k) \in Nat
      /\ part > 0 => k < l /\ part < q[k + 1].len
      /\ \A j \in 1..m : r[j] = IF j = 1 THEN Adjust(q[k + 1], part) ELSE q[k + j]
      /\ \A j \in 1..m : Spans(r, j) = Spans(q, k + j) - n
  BY <1>3, <1>4, <1>5, SpansAre DEF Left
<1>7. Spans(r, 0) = 0 /\ (m > 0 => Spans(r, 0) < Spans(r, m)) /\ Spans(r, m) \in Nat
  <2>1. 0 \in 0..m /\ m \in 0..m
    OBVIOUS
  <2> QED  BY <1>5, <2>1, SpansAre
<1>8. Spans(r, m) = x - A
  <2>1. CASE m = 0
    <3>1. k = l /\ Spans(q, k) = x - u
      BY <1>3, <1>5, <2>1
    <3> QED  BY <1>1, <1>6, <1>7, <2>1, <3>1
  <2>2. CASE m # 0
    <3>1. m \in 1..m /\ k + m = l
      BY <1>3, <1>5, <2>2
    <3>2. Spans(r, m) = Spans(q, l) - n
      BY <1>6, <3>1
    <3> QED  BY <1>1, <1>3, <3>2
  <2> QED  BY <2>1, <2>2
<1>9. ASSUME NEW j \in 1..m PROVE Stands(A + Spans(r, j - 1), r[j])
  <2>1. PICK i \in 1..l : i = k + j /\ i - 1 = k + (j - 1) /\ q[i] \in Bufs
    BY <1>3, <1>5
  <2>2. PICK p \in Nat : p = u + Spans(q, i - 1) /\ Stands(p, q[i])
    <3>1. i - 1 \in 0..l
      OBVIOUS
    <3>2. Spans(q, i - 1) \in Nat
      BY <1>3, <3>1, SpansAre
    <3>3. Stands(Place(i), q[i])
      BY <1>2, <1>3 DEF QueueStands
    <3>4. Place(i) = u + Spans(q, i - 1)
      BY <1>1, <1>2 DEF Place
    <3> QED  BY <3>2, <3>3, <3>4
  <2>3. CASE j = 1
    <3>1. i = k + 1 /\ i - 1 = k /\ j - 1 = 0
      BY <2>1, <2>3
    <3>2. r[j] = Adjust(q[i], part) /\ (part > 0 => part < q[i].len)
      BY <1>6, <2>3, <3>1
    <3>3. A + Spans(r, j - 1) = p + part
      BY <1>1, <1>6, <1>7, <2>2, <3>1
    <3>4. Stands(p + part, Adjust(q[i], part))
      BY <1>1, <2>1, <2>2, <3>2, StandsCut
    <3> QED  BY <3>2, <3>3, <3>4
  <2>4. CASE j # 1
    <3>1. PICK h \in 1..m : h = j - 1 /\ k + h = i - 1
      BY <2>1, <2>4
    <3>2. Spans(r, h) = Spans(q, i - 1) - n
      BY <1>6, <3>1
    <3>3. i - 1 \in 0..l
      OBVIOUS
    <3>4. Spans(q, i - 1) \in Nat
      BY <1>3, <3>3, SpansAre
    <3>5. A + Spans(r, j - 1) = p
      BY <1>1, <2>2, <3>1, <3>2, <3>4
    <3>6. r[j] = q[i]
      BY <1>6, <2>1, <2>4
    <3> QED  BY <2>2, <3>5, <3>6
  <2> QED  BY <2>3, <2>4
<1>10. r # <<>> <=> A # Nx
  <2>1. r = <<>> <=> m = 0
    BY <1>5, QueueIs
  <2> QED  BY <1>1, <1>7, <1>8, <2>1
<1> QED  BY <1>1, <1>4, <1>5, <1>8, <1>9, <1>10

LEMMA AcceptStep ==
  ASSUME SenderAssumption, Stream, NEW a \in acks, SeqLt(una, a.ack),
         acks' = acks \ {a}, unacked' = Remaining(SeqSub(a.ack, una)), una' = a.ack,
         UpdateWindow(a), timer' = (a.ack # next),
         task' = IF task.at = "persist" THEN Ready ELSE task,
         UNCHANGED <<next, unsentSeq, unsent, done, wire, sendPeerVars, written, finAt, budget>>
  PROVE  Stream'
<1> USE DEF Stream
<1>1. PICK A \in Nat, n \in Nat, E \in Nat :
           /\ A = Pos(a.ack) /\ a.ack \in SeqNumbers /\ a.win \in 0..Capacity
           /\ Ua < A /\ A <= Nx /\ A <= Peer /\ n = A - Ua /\ SeqSub(a.ack, una) = n
           /\ E = A + a.win /\ E = EdgeOf(a) /\ sendEdge <= E /\ E <= Told
           /\ sendEdge + SeqSub(SeqAdd(a.ack, a.win), SeqNo(sendEdge)) = E
  BY AcceptedIs
<1>2. PICK u \in Nat, x \in Nat, e \in Nat, m \in Nat, w \in Nat, cap \in Nat :
         /\ u = Ua /\ x = Nx /\ e = Limit /\ m = Excess /\ w = window /\ cap = Capacity
         /\ u + w <= e /\ e <= u + cap
  BY Far, Parameters
<1>3. /\ Ua' = A /\ Nx' = x /\ Us' = Us /\ sendEdge' = E /\ DataEnd' = DataEnd
      /\ Peer' = Peer /\ Told' = Told /\ Excess' = m
  <2>1. Ua' = A /\ Nx' = x /\ Us' = Us /\ DataEnd' = DataEnd
    BY <1>1, <1>2 DEF Ua, Nx, Us, Pos, DataEnd
  <2>2. sendEdge' = E
    BY <1>1 DEF UpdateWindow
  <2>3. Peer' = Peer /\ Told' = Told /\ Excess' = m
    BY <1>2 DEF Peer, Told, One, sendPeerVars, Excess, Migrations
  <2> QED  BY <2>1, <2>2, <2>3
<1>3a. /\ window' = a.win \/ window' = window
       /\ heeded' => heeded /\ window' = a.win
  BY DEF UpdateWindow
<1>4. PICK r \in Seq(Bufs) :
           /\ r = unacked' /\ Spans(r, Len(r)) = x - A
           /\ \A j \in 1..Len(r) : Stands(A + Spans(r, j - 1), r[j])
           /\ r # <<>> <=> A # x
  <2>1. A = Ua + n /\ A <= Nx
    BY <1>1, <1>2
  <2>2. unacked' = Remaining(n)
    BY <1>1
  <2>3. PICK r \in Seq(Bufs) :
           /\ r = Remaining(n) /\ Spans(r, Len(r)) = Nx - A
           /\ \A j \in 1..Len(r) : Stands(A + Spans(r, j - 1), r[j])
           /\ r # <<>> <=> A # Nx
    <3> HIDE DEF Stream
    <3> QED  BY <2>1, QueueLeft
  <2>4. Nx = x
    BY <1>2
  <2> QED  BY <2>2, <2>3, <2>4
<1>5. \A p, b : Stands(p, b) => Stands(p, b)'
  BY <1>3 DEF Stands
<1>6. task'.at # "persist" /\ (task' = task \/ task'.at = "ready")
  BY DEF Ready
<1>7. Typed'
  <2>1. /\ una' \in SeqNumbers /\ next' \in SeqNumbers /\ unsentSeq' \in SeqNumbers
        /\ unacked' \in Seq(Bufs) /\ unsent' \in Seq(Bufs)
        /\ wire' \subseteq Segs /\ acks' \subseteq Acks
        /\ got' \in Nat /\ gotFin' \in BOOLEAN /\ peerRead' \in 0..got'
        /\ got' - peerRead' <= Capacity
        /\ written' \in 0..Outgoing /\ finAt' \in 0..Outgoing \cup {None}
        /\ budget' \in [loss: 0..MaxLoss, expiries: 0..MaxExpiries, migrations: 0..MaxMigrations]
    BY <1>1, <1>4 DEF Typed, sendPeerVars
  <2>2. task'.at = "resolveSend" => task'.room \in Nat \ {0}
    BY <1>6 DEF Typed
  <2>3. window' \in 0..Capacity /\ sendEdge' \in Nat
    BY <1>1, <1>3, <1>3a DEF Typed
  <2> QED  BY <1>6, <2>1, <2>2, <2>3 DEF Typed
<1>8. Numbered'
  <2>1. (Ua <= Nx /\ Spans(unacked, Len(unacked)) = Nx - Ua)'
    BY <1>1, <1>2, <1>3, <1>4
  <2>2. (finAt = None => Chain(unsent, Nx, written) /\ Us = written)'
    BY <1>2, <1>3 DEF Numbered
  <2>3. (finAt # None => unsent = <<>> /\ finAt = written /\ Nx = written + 1 /\ Us = Nx)'
    BY <1>2, <1>3 DEF Numbered
  <2> QED  BY <2>1, <2>2, <2>3 DEF Numbered
<1>9. QueueStands'
  <2>1. \A j : Place(j)' = A + Spans(r, j - 1)
    BY <1>3, <1>4 DEF Place
  <2>2. \A j \in 1..Len(r) : Stands(A + Spans(r, j - 1), r[j])'
    BY <1>4, <1>5
  <2> QED  BY <1>4, <2>1, <2>2 DEF QueueStands
<1>10. Flying'
  <2>1. \A s \in wire' : Carries(s)'
    BY <1>3 DEF Flying, Carries, Stands
  <2> QED  BY <1>6, <2>1 DEF Flying
<1>11. Waiting'
  BY <1>6, WaitingKept
<1>12. PeerHas'
  <2>1. (got <= DataEnd)' /\ (gotFin => finAt # None /\ got = finAt)'
    BY <1>3 DEF PeerHas, sendPeerVars
  <2>2. (Ua <= Peer /\ (heeded => sendEdge = Ua + window) /\ sendEdge <= Told)'
    BY <1>1, <1>3, <1>3a
  <2> QED  BY <2>1, <2>2 DEF PeerHas
<1>13. AcksHold'
  <2>1. ASSUME NEW c \in acks
        PROVE  /\ Pos(c.ack) <= Peer /\ EdgeOf(c) <= Told
               /\ A < Pos(c.ack) => E <= EdgeOf(c)
    BY <1>1 DEF AcksHold
  <2>2. \A c : EdgeOf(c)' = EdgeOf(c)
    BY DEF EdgeOf
  <2>3. \A c, d \in acks : Pos(c.ack) < Pos(d.ack) => EdgeOf(c) <= EdgeOf(d)
    BY DEF AcksHold
  <2> QED  BY <1>3, <2>1, <2>2, <2>3 DEF AcksHold, EdgeOf
<1>14. Room'
  <2>1. PICK L \in Nat : L = Limit' /\ e <= L /\ (w = 0 => e + 1 <= L)
    <3>1. CASE heeded'
      <4>1. Limit' = E /\ e = sendEdge /\ e = u + w
        BY <1>2, <1>3, <1>3a, <3>1 DEF Limit, PeerHas
      <4>2. PICK v \in Nat : v = a.win
        <5>1. a.win \in 0..cap
          BY <1>1, <1>2
        <5> QED  BY <5>1
      <4>3. u < A /\ e <= E /\ E = A + v
        BY <1>1, <1>2, <4>1, <4>2
      <4> QED  BY <4>1, <4>3
    <3>2. CASE ~heeded'
      <4>1. Limit' = A + cap
        BY <1>2, <1>3, <3>2 DEF Limit
      <4>2. u < A
        BY <1>1, <1>2
      <4> QED  BY <1>2, <4>1, <4>2
    <3> QED  BY <3>1, <3>2
  <2>2. /\ x <= e + m + 1
        /\ x <= e + m \/ (task.at = "persist" /\ w = 0) \/ (done /\ unsent = <<>>)
    BY <1>2 DEF Room
  <2>6. e <= L /\ (w = 0 => e + 1 <= L)
    BY <2>1
  <2>3. x <= L + m + 1 /\ (x <= L + m \/ (done' /\ unsent' = <<>>))
    <3>1. x <= L + m + 1 /\ (x <= e + m \/ w = 0 => x <= L + m)
      BY <2>2, <2>6
    <3> QED  BY <2>2, <3>1
  <2>4. task'.at = "resolveProbe" => x < L + m
    <3>1. SUFFICES ASSUME task'.at = "resolveProbe" PROVE x < L + m
      OBVIOUS
    <3>2. task.at = "resolveProbe"
      BY <1>6, <3>1
    <3>3. unsent # <<>>
      BY <3>2, FrontIs DEF Waiting
    <3>4. x <= e + m /\ (w = 0 \/ x < e + m)
      BY <1>2, <2>2, <3>2, <3>3 DEF Room
    <3> QED  BY <2>6, <3>4
  <2>5. task'.at = "resolveSend" => x + task'.room <= L
    <3>1. SUFFICES ASSUME task'.at = "resolveSend" PROVE x + task'.room <= L
      OBVIOUS
    <3>2. task' = task /\ task.at = "resolveSend"
      BY <1>6, <3>1
    <3>3. PICK k \in Nat : k = task.room /\ x + k <= e
      BY <1>2, <3>2 DEF Typed, Room
    <3> QED  BY <2>6, <3>2, <3>3
  <2> QED  BY <1>3, <2>1, <2>3, <2>4, <2>5 DEF Room
<1>15. TimerCovers'
  <2>1. a.ack # next <=> A # x
    <3>1. next \in SeqNumbers /\ x = Pos(next)
      BY <1>2 DEF Typed, Nx
    <3> QED  BY <1>1, <3>1, Positions
  <2>2. timer' <=> unacked' # <<>>
    BY <1>4, <2>1
  <2> QED  BY <2>2 DEF TimerCovers
<1> QED  BY <1>7, <1>8, <1>9, <1>10, <1>11, <1>12, <1>13, <1>14, <1>15

LEMMA RxAckStep == ASSUME SenderAssumption, Stream, NEW a \in acks, RxAck(a) PROVE Stream'
<1>1. CASE SeqLt(una, a.ack) /\ SeqLe(a.ack, next)
  BY <1>1, AcceptStep DEF RxAck
<1>2. CASE ~(SeqLt(una, a.ack) /\ SeqLe(a.ack, next))
  <2>1. /\ acks' \subseteq acks /\ wire' \subseteq wire /\ budget' = budget
        /\ UNCHANGED <<queueVars, windowVars, timer, done, task, sendPeerVars, written, finAt>>
    BY <1>2 DEF RxAck, queueVars
  <2> QED  BY <2>1, BudgetSpent, LessStep
<1> QED  BY <1>1, <1>2

-----------------------------------------------------------------------------
(* The invariant. *)

LEMMA InitIInv == SenderAssumption /\ SendInit => IInv
<1> SUFFICES ASSUME SenderAssumption, SendInit PROVE IInv
  OBVIOUS
<1>0. /\ una = Isn /\ next = Isn /\ unsentSeq = Isn /\ unacked = <<>> /\ unsent = <<>>
      /\ window = Capacity /\ timer = FALSE /\ wire = {} /\ acks = {}
      /\ got = 0 /\ gotFin = FALSE /\ peerRead = 0
      /\ written = 0 /\ finAt = None /\ sendEdge = Capacity /\ heeded
  BY DEF SendInit
<1>1. FinHalts
  BY <1>0 DEF FinHalts
<1>2. /\ task.at = "ready"
      /\ budget \in [loss: 0..MaxLoss, expiries: 0..MaxExpiries, migrations: 0..MaxMigrations]
      /\ budget.migrations = MaxMigrations
  <2>1. task.at = "ready"
    BY DEF SendInit, Ready
  <2>2. budget = [loss |-> MaxLoss, expiries |-> MaxExpiries, migrations |-> MaxMigrations]
    BY DEF SendInit
  <2>3. MaxLoss \in 0..MaxLoss /\ MaxExpiries \in 0..MaxExpiries /\ MaxMigrations \in 0..MaxMigrations
    BY Parameters
  <2> QED  BY <2>1, <2>2, <2>3
<1>3. Pos(Isn) = 0 /\ Isn \in SeqNumbers
  <2>1. Isn \in SeqNumbers /\ Modulus \in Nat \ {0} /\ Isn \in Nat
    BY Parameters
  <2>2. 0 % Modulus = 0
    <3>1. 0 \in 0..(Modulus - 1) /\ 0 \in Int
      BY <2>1
    <3> QED  BY <2>1, <3>1, ModSmall
  <2>3. Isn - Isn = 0
    BY <2>1
  <2> QED  BY <2>1, <2>2, <2>3 DEF Pos, SeqSub
<1>4. Ua = 0 /\ Nx = 0 /\ Us = 0 /\ Excess = 0
  <2>1. MaxMigrations - MaxMigrations = 0
    BY Parameters
  <2> QED  BY <1>0, <1>2, <1>3, <2>1 DEF Ua, Nx, Us, Excess, Migrations
<1>5. PICK c \in Nat : c = Capacity /\ c = window /\ c = sendEdge /\ Outgoing \in Nat
  BY <1>0, Parameters
<1>6. Typed
  <2>1. window \in 0..Capacity /\ sendEdge \in Nat /\ written \in 0..Outgoing
    BY <1>0, <1>5
  <2>2. <<>> \in Seq(Bufs)
    OBVIOUS
  <2>3. got \in Nat /\ peerRead \in 0..got /\ got - peerRead <= Capacity
    <3>1. got = 0 /\ peerRead = 0
      BY <1>0
    <3>2. 0 \in 0..0 /\ 0 - 0 <= c
      OBVIOUS
    <3> QED  BY <1>5, <3>1, <3>2
  <2>4. gotFin \in BOOLEAN
    BY <1>0
  <2> QED  BY <1>0, <1>2, <1>3, <2>1, <2>2, <2>3, <2>4 DEF Typed
<1>7. Numbered
  <2>1. Spans(unacked, Len(unacked)) = 0
    <3>1. PICK q \in Seq(Bufs) : q = unacked /\ q = <<>>
      <4>1. <<>> \in Seq(Bufs)
        OBVIOUS
      <4> QED  BY <1>0, <4>1
    <3>2. Len(q) = 0
      BY <3>1
    <3>3. Spans(q, 0) = 0
      BY SpansAre
    <3> QED  BY <3>1, <3>2, <3>3
  <2>2. Chain(unsent, Nx, written)
    BY <1>0, <1>4 DEF Chain
  <2> QED  BY <1>0, <1>4, <2>1, <2>2 DEF Numbered
<1>8. QueueStands /\ Flying /\ Waiting /\ AcksHold /\ TimerCovers
  BY <1>0, <1>2 DEF QueueStands, Flying, Waiting, AcksHold, TimerCovers
<1>9. PeerHas
  <2>1. DataEnd = 0 /\ Peer = 0 /\ Told = c
    BY <1>0, <1>4, <1>5 DEF DataEnd, Peer, Told, One
  <2> QED  BY <1>0, <1>4, <1>5, <2>1 DEF PeerHas
<1>10. Room
  <2>1. Limit = c
    BY <1>0, <1>5 DEF Limit
  <2> QED  BY <1>2, <1>4, <1>5, <2>1 DEF Room
<1> QED  BY <1>1, <1>6, <1>7, <1>8, <1>9, <1>10 DEF IInv, Stream

LEMMA StepIInv == SenderAssumption /\ IInv /\ [SendNext]_sendVars => IInv'
<1> SUFFICES ASSUME SenderAssumption, IInv, [SendNext]_sendVars PROVE IInv'
  OBVIOUS
<1>1. FinHalts /\ FinHalts' /\ (FinIsLast' => FinIsLast)
  BY FinStep DEF IInv
<1>2. SUFFICES ASSUME FinIsLast' PROVE Stream'
  BY <1>1 DEF IInv
<1>3. Stream
  BY <1>1, <1>2 DEF IInv
<1>4. CASE \E n \in 1..MaxBuffer : Write(n)
  BY <1>1, <1>3, <1>4, WriteStep
<1>5. CASE CloseSend
  BY <1>1, <1>3, <1>5, CloseStep
<1>6. CASE Coroutine
  BY <1>2, <1>3, <1>6, StartProbeStep, ResumeProbeStep, RepeatProbeStep, StartSendStep,
     ResumeSendStep, TakeFailsStep DEF Coroutine
<1>7. CASE QueryFails \/ Retransmit \/ MigrateSender
  BY <1>3, <1>7, QueryFailsStep, RetransmitStep, MigrateStep
<1>8. CASE \E a \in acks : RxAck(a) \/ LoseAck(a)
  BY <1>3, <1>8, RxAckStep, AsideStep
<1>9. CASE ArpExpire \/ ArpLearn \/ PeerReads
  BY <1>3, <1>9, AsideStep, PeerReadsStep
<1>10. CASE \E s \in wire : PeerReceive(s) \/ LoseSegment(s)
  BY <1>3, <1>10, PeerReceiveStep, AsideStep
<1>11. CASE UNCHANGED sendVars
  BY <1>3, <1>11, SameStream DEF sendVars
<1> QED  BY <1>4, <1>5, <1>6, <1>7, <1>8, <1>9, <1>10, <1>11 DEF SendNext

-----------------------------------------------------------------------------
(* What the invariant gives. *)

LEMMA ChainJoined ==
  ASSUME SenderAssumption, NEW q \in Seq(Bufs), NEW r \in Seq(Bufs), NEW from, NEW mid, NEW to,
         Chain(q, from, mid), Chain(r, mid, to)
  PROVE  Chain(q \o r, from, to)
<1>1. PICK n \in Nat, m \in Nat : n = Len(q) /\ m = Len(r) /\ (q = <<>> <=> n = 0)
                                  /\ (r = <<>> <=> m = 0)
  BY QueueIs
<1>2. PICK c \in Seq(Bufs) : /\ c = q \o r /\ Len(c) = n + m
                             /\ \A i \in 1..n : c[i] = q[i]
                             /\ \A i \in 1..m : c[n + i] = r[i]
  <2>1. q \o r \in Seq(Bufs) /\ Len(q \o r) = n + m
    BY <1>1
  <2>2. \A i \in 1..n : (q \o r)[i] = q[i]
    BY <1>1
  <2>3. ASSUME NEW i \in 1..m PROVE (q \o r)[n + i] = r[i]
    BY <1>1
  <2> QED  BY <2>1, <2>2, <2>3
<1>3. c = <<>> <=> n + m = 0
  BY <1>1, <1>2, QueueIs
<1>4. (IF c = <<>> THEN to ELSE c[1].at) = from
  <2>1. CASE n > 0
    BY <1>1, <1>2, <1>3, <2>1 DEF Chain
  <2>2. CASE n = 0
    <3>1. from = mid
      BY <1>1, <2>2 DEF Chain
    <3>2. m > 0 => c[n + 1] = r[1] /\ n + 1 = 1
      BY <1>1, <1>2, <2>2
    <3> QED  BY <1>1, <1>3, <2>2, <3>1, <3>2 DEF Chain
  <2> QED  BY <1>1, <2>1, <2>2
<1>5. ASSUME NEW i \in 1..(n + m)
      PROVE  c[i].at + c[i].len = IF i = n + m THEN to ELSE c[i + 1].at
  <2>1. CASE i \in 1..n /\ i # n
    <3>1. i + 1 \in 1..n /\ i # n + m
      BY <1>1, <2>1
    <3>2. c[i] = q[i] /\ c[i + 1] = q[i + 1]
      BY <1>2, <2>1, <3>1
    <3> QED  BY <1>1, <2>1, <3>1, <3>2 DEF Chain
  <2>2. CASE i = n
    <3>1. i \in 1..n /\ c[i] = q[i]
      BY <1>2, <2>2
    <3>2. q[i].at + q[i].len = mid
      BY <1>1, <2>2, <3>1 DEF Chain
    <3>3. CASE m = 0
      BY <1>1, <2>2, <3>1, <3>2, <3>3 DEF Chain
    <3>4. CASE m > 0
      <4>1. c[n + 1] = r[1] /\ r[1].at = mid
        BY <1>1, <1>2, <3>4 DEF Chain
      <4> QED  BY <1>1, <2>2, <3>1, <3>2, <3>4, <4>1
    <3> QED  BY <1>1, <3>3, <3>4
  <2>3. CASE i > n
    <3>0. i - n \in 1..m
      BY <1>1, <2>3
    <3>3. PICK j \in 1..m : j = i - n
      BY <3>0
    <3>1. n + j = i /\ (i = n + m <=> j = m) /\ (j # m => j + 1 \in 1..m)
          /\ n + (j + 1) = i + 1
      <4>1. n \in Nat /\ m \in Nat /\ i \in Nat /\ j \in Nat /\ j = i - n /\ j <= m
        BY <3>3
      <4> QED  BY <4>1
    <3>2. c[i] = r[j] /\ (j # m => c[i + 1] = r[j + 1])
      BY <1>2, <3>1
    <3> QED  BY <1>1, <3>1, <3>2 DEF Chain
  <2> QED  BY <1>1, <2>1, <2>2, <2>3
<1> QED  BY <1>2, <1>4, <1>5 DEF Chain

(* What is sent is a piece of the stream, and the FIN ends it. *)
LEMMA UnackedChain ==
  ASSUME SenderAssumption, Stream
  PROVE  /\ finAt = None => Chain(unacked, Ua, Nx)
         /\ finAt # None /\ unacked # <<>> => Chain(unacked, Ua, written)
<1> USE DEF Stream
<1>1. PICK u \in Nat, x \in Nat, w \in Nat : u = Ua /\ x = Nx /\ w = written /\ u <= x
                                             /\ w <= Outgoing
  BY Far
<1>2. PICK q \in Seq(Bufs) : q = unacked
  BY DEF Typed
<1>3. PICK l \in Nat : /\ l = Len(q) /\ Spans(q, l) = x - u /\ (q = <<>> <=> l = 0)
                       /\ \A i \in 1..l : q[i] \in Bufs
  BY <1>1, <1>2, QueueIs DEF Numbered
<1>4. /\ Spans(q, 0) = 0
      /\ \A i \in 0..l : Spans(q, i) \in Nat
      /\ \A i \in 1..l : Spans(q, i) = Spans(q, i - 1) + Span(q[i])
      /\ \A i \in 0..l : i # l => Spans(q, i) < Spans(q, l)
  BY <1>3, SpansAre
<1> DEFINE end == IF finAt = None THEN x ELSE w
<1>5. finAt # None => finAt = w /\ x = w + 1
  BY <1>1 DEF Numbered
<1>6. ASSUME NEW i \in 1..l
      PROVE  /\ q[i].at = u + Spans(q, i - 1) /\ q[i].len \in Nat
             /\ q[i].at + q[i].len = IF i = l THEN end ELSE u + Spans(q, i)
  <2>1. PICK s \in Nat, t \in Nat, b \in Bufs :
            s = Spans(q, i - 1) /\ t = Spans(q, i) /\ b = q[i] /\ t = s + Span(b)
    <3>1. i - 1 \in 0..l /\ i \in 0..l
      OBVIOUS
    <3> QED  BY <1>3, <1>4, <3>1
  <2>2. Stands(u + s, b)
    <3>1. Stands(Place(i), q[i])
      BY <1>2, <1>3 DEF QueueStands
    <3>2. Place(i) = u + s
      BY <1>1, <1>2, <2>1 DEF Place
    <3> QED  BY <2>1, <3>1, <3>2
  <2>3. /\ b.at = u + s /\ b.at <= Outgoing /\ b.len \in Nat
        /\ Span(b) = (IF b.len = 0 THEN 1 ELSE b.len)
        /\ IF b.len = 0 THEN finAt = u + s ELSE (u + s) + b.len <= DataEnd
    <3>1. b.at \in Nat /\ b.len \in Nat /\ b.at + b.len <= Outgoing /\ Outgoing \in Nat
      BY BufferIs, Parameters
    <3>2. Span(b) = IF b.len = 0 THEN 1 ELSE b.len
      BY BufferIs
    <3> QED  BY <2>2, <3>1, <3>2 DEF Stands
  <2>4. b.len = 0 => finAt # None
    <3>1. u + s \in 0..Outgoing /\ None \notin 0..Outgoing
      BY <2>3, Parameters
    <3> QED  BY <2>3, <3>1
  <2>5. PICK k \in Nat : k = b.len /\ t = s + (IF k = 0 THEN 1 ELSE k)
    BY <2>1, <2>3
  <2>6. i = l => u + t = x
    <3>1. i = l => t = x - u
      BY <1>3, <2>1
    <3> QED  BY <3>1
  <2>7. i # l => u + t < x
    <3>1. i \in 0..l
      OBVIOUS
    <3>2. i # l => t < x - u
      BY <1>3, <1>4, <2>1, <3>1
    <3> QED  BY <3>2
  <2>8. (u + s) + k = IF i = l THEN end ELSE u + t
    <3>1. CASE finAt = None
      <4>1. t = s + k
        BY <2>4, <2>5, <3>1
      <4>2. end = x
        BY <3>1
      <4> HIDE DEF end
      <4> QED  BY <2>6, <4>1, <4>2
    <3>2. CASE finAt # None
      <4>1. DataEnd = w /\ finAt = w /\ x = w + 1
        BY <1>1, <1>5, <3>2 DEF DataEnd
      <4>2. end = w
        BY <3>2
      <4> HIDE DEF end
      <4>3. CASE k = 0
        <5>1. u + s = w /\ u + t = x
          <6>1. u + s = w
            BY <2>3, <2>5, <4>1, <4>3
          <6>2. t = s + 1
            BY <2>5, <4>3
          <6> QED  BY <4>1, <6>1, <6>2
        <5>2. i = l
          BY <2>7, <5>1
        <5> QED  BY <4>2, <4>3, <5>1, <5>2
      <4>4. CASE k # 0
        <5>1. t = s + k
          BY <2>5, <4>4
        <5>2. (u + s) + k <= w
          BY <2>3, <2>5, <4>1, <4>4
        <5>3. u + t = (u + s) + k /\ u + t < x
          BY <4>1, <5>1, <5>2
        <5>4. i # l
          BY <2>6, <5>3
        <5> QED  BY <5>3, <5>4
      <4> QED  BY <4>3, <4>4
    <3> QED  BY <3>1, <3>2
  <2> HIDE DEF end
  <2>9. q[i].at = u + s /\ q[i].len = k
    BY <2>1, <2>3, <2>5
  <2> QED  BY <2>1, <2>8, <2>9
<1>7. ASSUME l > 0 PROVE Chain(q, u, end)
  <2>1. q[1].at = u
    <3>1. 1 \in 1..l /\ 1 - 1 = 0
      BY <1>7
    <3> QED  BY <1>4, <1>6, <3>1
  <2>2. ASSUME NEW i \in 1..l
        PROVE  q[i].at + q[i].len = IF i = l THEN end ELSE q[i + 1].at
    <3>1. CASE i = l
      BY <1>6, <3>1
    <3>2. CASE i # l
      <4>1. PICK j \in 1..l : j = i + 1 /\ j - 1 = i
        BY <3>2
      <4>2. q[j].at = u + Spans(q, i)
        BY <1>6, <4>1
      <4> QED  BY <1>6, <3>2, <4>1, <4>2
    <3> QED  BY <3>1, <3>2
  <2> HIDE DEF end
  <2> QED  BY <1>3, <1>7, <2>1, <2>2 DEF Chain
<1>8. ASSUME l = 0 PROVE u = x /\ Chain(q, u, x)
  <2>1. u = x
    BY <1>1, <1>3, <1>4, <1>8
  <2> QED  BY <1>3, <1>8, <2>1 DEF Chain
<1> QED  BY <1>1, <1>2, <1>3, <1>7, <1>8

LEMMA StreamHolds == SenderAssumption /\ IInv => QueuesAreStream
<1> SUFFICES ASSUME SenderAssumption, IInv PROVE QueuesAreStream
  OBVIOUS
<1> SUFFICES ASSUME FinIsLast PROVE QueuesAreStream
  BY DEF QueuesAreStream
<1>1. Stream
  BY DEF IInv
<1>2. PICK u \in Nat, x \in Nat, w \in Nat : u = Ua /\ x = Nx /\ w = written
  BY <1>1, Far DEF Stream
<1>3. Spans(unacked, Len(unacked)) = InFlight
  BY <1>1, InFlightIs DEF Stream, Numbered
<1>4. unacked \in Seq(Bufs) /\ unsent \in Seq(Bufs)
  BY <1>1 DEF Stream, Typed
<1>5. ASSUME finAt = None PROVE Lens(unsent) = SeqSub(unsentSeq, next)
  <2>1. Chain(unsent, x, w) /\ Us = w
    BY <1>1, <1>2, <1>5 DEF Stream, Numbered
  <2>2. Lens(unsent) = w - x /\ x <= w
    BY <1>4, <2>1, ChainLens
  <2>3. unsentSeq \in SeqNumbers /\ next \in SeqNumbers
    BY <1>1 DEF Stream, Typed
  <2>4. SeqSub(unsentSeq, next) = IF Pos(next) <= Pos(unsentSeq) THEN Pos(unsentSeq) - Pos(next)
                                  ELSE Modulus + Pos(unsentSeq) - Pos(next)
    BY <2>3, Numbers
  <2>5. Pos(next) = x /\ Pos(unsentSeq) = w
    BY <1>2, <2>1 DEF Nx, Us
  <2> QED  BY <2>2, <2>4, <2>5
<1>6. PICK q \in Seq(Bufs) : q = Queues
  <2>1. unacked \o unsent \in Seq(Bufs)
    BY <1>4, ConcatProperties
  <2> QED  BY <2>1 DEF Queues
<1>7. q = <<>> \/ Chain(q, u, w)
  <2>1. CASE finAt = None
    <3>1. Chain(unacked, u, x) /\ Chain(unsent, x, w)
      BY <1>1, <1>2, <2>1, UnackedChain DEF Stream, Numbered
    <3> QED  BY <1>4, <1>6, <3>1, ChainJoined DEF Queues
  <2>2. CASE finAt # None
    <3>1. unsent = <<>>
      BY <1>1, <2>2 DEF Stream, Numbered
    <3>2. q = unacked
      BY <1>4, <1>6, <3>1 DEF Queues
    <3> QED  BY <1>1, <1>2, <2>2, <3>2, UnackedChain
  <2> QED  BY <2>1, <2>2
<1>8. PICK n \in Nat : n = Len(q) /\ DOMAIN q = 1..n /\ (q = <<>> <=> n = 0)
  BY QueueIs
<1>9. ASSUME NEW i \in 1..n, i > 1 PROVE q[i].at = q[i - 1].at + q[i - 1].len
  <2>1. PICK j \in 1..n : j = i - 1 /\ j + 1 = i /\ j # n
    BY <1>9
  <2>2. Chain(q, u, w)
    BY <1>7, <1>8, <2>1
  <2>3. q[j].at + q[j].len = q[j + 1].at
    BY <1>8, <2>1, <2>2 DEF Chain
  <2> QED  BY <2>1, <2>3
<1>10. ASSUME q # <<>> PROVE SeqNo(Head(q).at) = una /\ Last(q).at + Last(q).len = written
  <2>1. Chain(q, u, w) /\ n \in 1..n
    BY <1>7, <1>8, <1>10
  <2>2. Head(q) = q[1] /\ Last(q) = q[n]
    BY <1>8, <1>10, TailIs DEF Last
  <2>3. q[1].at = u /\ q[n].at + q[n].len = w
    BY <1>8, <1>10, <2>1 DEF Chain
  <2>4. SeqNo(u) = una
    <3>1. una \in SeqNumbers
      BY <1>1 DEF Stream, Typed
    <3> QED  BY <1>2, <3>1, Positions DEF Ua
  <2> QED  BY <1>2, <2>2, <2>3, <2>4
<1>11. Labelled
  <2>1. ASSUME NEW s \in wire PROVE s.seq = SeqNo(s.buf.at)
    <3>1. s.seq \in SeqNumbers /\ s.buf.at = Pos(s.seq)
      BY <1>1 DEF Stream, Typed, Segs, Flying, Carries, Stands
    <3> QED  BY <3>1, Positions
  <2> QED  BY <2>1 DEF Labelled
<1>12. \A i \in DOMAIN Queues : i > 1 => Queues[i].at = Queues[i - 1].at + Queues[i - 1].len
    BY <1>6, <1>8, <1>9
<1>13. Queues # <<>> => /\ SeqNo(Head(Queues).at) = una
                         /\ Last(Queues).at + Last(Queues).len = written
    BY <1>6, <1>10
<1> QED  BY <1>3, <1>5, <1>11, <1>12, <1>13 DEF QueuesAreStream

LEMMA WindowHolds == SenderAssumption /\ IInv => WithinWindow
<1> SUFFICES ASSUME SenderAssumption, IInv, FinIsLast
             PROVE  /\ heeded => SeqLe(next, SeqNo(sendEdge + 1 + Migrations))
                    /\ InFlight <= Capacity + 1 + Migrations
  BY DEF WithinWindow, IInv, Stream
<1>1. Stream
  BY DEF IInv
<1>8. InFlight <= Capacity + 1 + Migrations
  <2>1. PICK u \in Nat, x \in Nat, e \in Nat, m \in Nat, c \in Nat :
           /\ u = Ua /\ x = Nx /\ e = Limit /\ m = Migrations /\ c = Capacity
           /\ u <= x /\ e <= u + c
    BY <1>1, Far, Parameters DEF Stream, Excess
  <2>2. InFlight = x - u
    BY <1>1, <2>1, InFlightIs DEF Stream
  <2>3. x <= e + m + 1
    BY <1>1, <2>1 DEF Stream, Room, Excess
  <2> QED  BY <2>1, <2>2, <2>3
<1> SUFFICES ASSUME heeded PROVE SeqLe(next, SeqNo(sendEdge + 1 + Migrations))
  BY <1>8
<1>2. PICK x \in Nat, e \in Nat, m \in Nat, w \in Nat, t \in Nat :
         /\ x = Nx /\ e = sendEdge /\ m = Migrations /\ w = written /\ t = Told /\ m <= MaxMigrations
         /\ x <= w + 1 /\ w <= Outgoing /\ e <= t /\ t <= Capacity + w + 1
  BY <1>1, Far DEF Stream, Excess
<1>3. PICK l \in Nat : l = e + 1 + m /\ x <= l
  <2>1. x <= e + m + 1
    BY <1>1, <1>2 DEF Stream, Room, Limit, Excess
  <2> QED  BY <2>1
<1>4. /\ Modulus = 2 * Half /\ Half \in Nat /\ l < Half
  <2>1. Outgoing + Capacity + MaxMigrations + 2 < Half /\ Modulus = 2 * Half /\ Half \in Nat
        /\ Outgoing \in Nat /\ Capacity \in Nat /\ MaxMigrations \in Nat
    BY Parameters
  <2> QED  BY <1>2, <1>3, <2>1
<1>5. PICK y \in SeqNumbers : y = SeqNo(l) /\ Pos(y) = l
  <2>1. l \in 0..(Modulus - 1)
    BY <1>4
  <2> QED  BY <2>1, Positions
<1>6. next \in SeqNumbers /\ Pos(next) = x
  BY <1>1, <1>2 DEF Stream, Typed, Nx
<1>7. SeqLe(next, y)
  <2>1. SeqLt(next, y) <=> IF Pos(y) <= Pos(next) THEN Pos(next) - Pos(y) >= Half
                                                  ELSE Pos(y) - Pos(next) <= Half
    BY <1>6, Numbers
  <2>2. SeqLe(next, y) <=> next = y \/ SeqLt(next, y)
    BY <1>6, Numbers
  <2>3. x = l => next = y
    BY <1>5, <1>6, Positions
  <2>4. x < l => SeqLt(next, y)
    <3>1. l - x <= Half /\ (x < l => ~(l <= x))
      BY <1>4
    <3> QED  BY <1>5, <1>6, <2>1, <3>1
  <2> QED  BY <1>3, <2>2, <2>3, <2>4
<1> QED  BY <1>2, <1>3, <1>5, <1>7

(* The queues, what is on its way and the window, in positions: inductive. *)
THEOREM SenderInvariant == ASSUME SenderAssumption PROVE SendSpec => []IInv
<1>1. SendInit => IInv
  BY InitIInv
<1>2. IInv /\ [SendNext]_sendVars => IInv'
  BY StepIInv
<1> QED  BY <1>1, <1>2, PTL DEF SendSpec

(* The two queues hold, in order and without a gap, exactly the bytes that *)
(* were written and are not acknowledged, and every segment bears the      *)
(* number of its bytes, for any stream, window and loss                    *)
(* (remove_acknowledged_data, pop_unsent, pop_one_unsent_byte, retransmit).*)
THEOREM QueuesHoldStream == ASSUME SenderAssumption PROVE SendSpec => []QueuesAreStream
<1>1. IInv => QueuesAreStream
  BY StreamHolds
<1> QED  BY <1>1, SenderInvariant, PTL

(* Nothing is sent beyond the window the peer has told, but for a probe, a *)
(* FIN, and one probe for each migration (sender); and on the host that    *)
(* accepted the connection, what is not acknowledged will be sent again,   *)
(* and the timer stops when nothing is (send, receive).                    *)
THEOREM SentWithinWindow == ASSUME SenderAssumption PROVE SendSpec => []WithinWindow
<1>1. IInv => WithinWindow
  BY WindowHolds
<1> QED  BY <1>1, SenderInvariant, PTL

-----------------------------------------------------------------------------
(* Which windows are taken, of a peer that sends no data of its own: all   *)
(* its acknowledgements bear one number n.                                 *)

Quiet(n) == PeerNumbers = [k \in 0..(Outgoing + 1) |-> {n}]
Alike(n) == \A a \in acks : a.seq = n
GotFits  == got \in 0..Outgoing /\ gotFin \in BOOLEAN

LEMMA GotHolds == SenderAssumption /\ IInv => (FinIsLast => GotFits)
<1> SUFFICES ASSUME SenderAssumption, Stream PROVE GotFits
  BY DEF IInv
<1>1. DataEnd <= written /\ written <= Outgoing /\ DataEnd \in Nat /\ written \in Nat
  BY Far DEF Stream
<1>2. got \in Nat /\ got <= DataEnd /\ gotFin \in BOOLEAN
  BY DEF Stream, Typed, PeerHas
<1> QED  BY <1>1, <1>2, Parameters DEF GotFits

LEMMA AlikeStep ==
  ASSUME SenderAssumption, NEW n, Quiet(n), Alike(n), GotFits', [SendNext]_sendVars
  PROVE  Alike(n)'
<1>1. ASSUME NEW r, PeerAck(got', gotFin', r) PROVE Alike(n)'
  <2>1. PICK k \in 0..(Outgoing + 1) : k = IF gotFin' THEN got' + 1 ELSE got'
    <3>1. got' \in 0..Outgoing
      BY DEF GotFits
    <3>2. Outgoing \in Nat
      BY Parameters
    <3>3. \A g \in 0..Outgoing : g \in 0..(Outgoing + 1) /\ g + 1 \in 0..(Outgoing + 1)
      BY <3>2
    <3>4. CASE gotFin'
      BY <3>1, <3>3, <3>4
    <3>5. CASE ~gotFin'
      BY <3>1, <3>3, <3>5
    <3> QED  BY <3>4, <3>5
  <2>2. PICK m \in PeerNumbers[k] :
            acks' = acks \cup {[seq |-> m, ack |-> SeqNo(k), win |-> Capacity - (got' - r)]}
    BY <1>1, <2>1 DEF PeerAck
  <2>3. m = n
    BY <2>2 DEF Quiet
  <2> QED  BY <2>2, <2>3 DEF Alike
<1>2. CASE PeerReads
  <2>1. PeerAck(got', gotFin', got')
    BY <1>2 DEF PeerReads, PeerAck
  <2> QED  BY <1>1, <2>1
<1>3. ASSUME NEW s \in wire, PeerReceive(s) PROVE Alike(n)'
  <2>1. PeerAck(got', gotFin', peerRead')
    BY <1>3 DEF PeerReceive
  <2> QED  BY <1>1, <2>1
<1>4. acks' \subseteq acks => Alike(n)'
  BY DEF Alike
<1>5. CASE \/ \E m \in 1..MaxBuffer : Write(m)
           \/ CloseSend \/ Coroutine \/ QueryFails \/ Retransmit \/ MigrateSender
           \/ ArpExpire \/ ArpLearn \/ UNCHANGED sendVars
  <2>1. acks' = acks
    BY <1>5 DEF Write, CloseSend, Coroutine, StartProbe, ResumeProbe, RepeatProbe, StartSend,
       ResumeSend, TakeFails, QueryFails, Retransmit, MigrateSender, ArpExpire, ArpLearn, sendVars
  <2> QED  BY <1>4, <2>1
<1>6. CASE \/ \E a \in acks : RxAck(a) \/ LoseAck(a)
           \/ \E s \in wire : LoseSegment(s)
  BY <1>4, <1>6 DEF RxAck, LoseAck, LoseSegment
<1> QED  BY <1>2, <1>3, <1>5, <1>6 DEF SendNext

(* Only an acknowledgement that counts changes the window. *)
Accepts(a) == /\ SeqLt(una, a.ack) /\ una' = a.ack /\ UpdateWindow(a)
LEMMA WindowStep ==
  ASSUME [SendNext]_sendVars
  PROVE  UNCHANGED <<una, windowVars>> \/ \E a \in acks : Accepts(a)
<1>1. CASE \/ \E m \in 1..MaxBuffer : Write(m)
           \/ CloseSend \/ Coroutine \/ QueryFails \/ Retransmit \/ MigrateSender
           \/ ArpExpire \/ ArpLearn \/ PeerReads \/ UNCHANGED sendVars
  BY <1>1 DEF Write, CloseSend, Coroutine, StartProbe, ResumeProbe, RepeatProbe, StartSend,
     ResumeSend, TakeFails, QueryFails, Retransmit, MigrateSender, ArpExpire, ArpLearn, PeerReads,
     sendVars, queueVars
<1>2. CASE \/ \E a \in acks : LoseAck(a)
           \/ \E s \in wire : PeerReceive(s) \/ LoseSegment(s)
  BY <1>2 DEF LoseAck, PeerReceive, LoseSegment, queueVars
<1>3. ASSUME NEW a \in acks, RxAck(a) PROVE UNCHANGED <<una, windowVars>> \/ Accepts(a)
  BY <1>3 DEF RxAck, Accepts
<1> QED  BY <1>1, <1>2, <1>3 DEF SendNext

(* Where n comes after our number, every window is taken ... *)
TakenSoFar(n) ==
  heeded /\ (wl1 = Isn \/ (wl1 = n /\ wl2 \in SeqNumbers /\ Pos(wl2) <= Ua))
TakesAll(n) == FinIsLast => Alike(n) /\ TakenSoFar(n)

LEMMA TakesStep ==
  ASSUME SenderAssumption, NEW n, Quiet(n), SeqLt(Isn, n),
         IInv, FinIsLast' => GotFits', TakesAll(n), [SendNext]_sendVars
  PROVE  TakesAll(n)'
<1> SUFFICES ASSUME FinIsLast' PROVE Alike(n)' /\ TakenSoFar(n)'
  BY DEF TakesAll
<1>0. FinIsLast
  BY FinStep DEF IInv
<1>1. Stream /\ Alike(n) /\ TakenSoFar(n)
  BY <1>0 DEF IInv, TakesAll
<1>2. Alike(n)'
  BY <1>1, AlikeStep
<1>3. ASSUME UNCHANGED <<una, windowVars>> PROVE TakenSoFar(n)'
  <2>1. una' = una /\ wl1' = wl1 /\ wl2' = wl2 /\ heeded' = heeded
    BY <1>3
  <2>2. Ua' = Ua
    BY <2>1 DEF Ua, Pos
  <2>3. Pos(wl2)' = Pos(wl2)
    BY <2>1 DEF Pos
  <2>4. heeded /\ (wl1 = Isn \/ (wl1 = n /\ wl2 \in SeqNumbers /\ Pos(wl2) <= Ua))
    BY <1>1 DEF TakenSoFar
  <2>5. CASE wl1 = Isn
    <3>1. heeded' /\ wl1' = Isn
      BY <2>1, <2>4, <2>5
    <3> QED  BY <3>1 DEF TakenSoFar
  <2>6. CASE wl1 = n /\ wl2 \in SeqNumbers /\ Pos(wl2) <= Ua
    <3>1. (wl2 \in SeqNumbers)' /\ Pos(wl2)' <= Ua'
      BY <2>1, <2>2, <2>3, <2>6
    <3>2. heeded' /\ wl1' = n
      BY <2>1, <2>4, <2>6
    <3> QED  BY <3>1, <3>2 DEF TakenSoFar
  <2> QED  BY <2>4, <2>5, <2>6
<1>4. ASSUME NEW a \in acks, Accepts(a) PROVE TakenSoFar(n)'
  <2>1. PICK A \in Nat : A = Pos(a.ack) /\ a.ack \in SeqNumbers /\ Ua < A /\ A <= Nx
    BY <1>1, <1>4, AcceptedIs DEF Accepts
  <2>2. A < Half /\ Half \in Nat
    <3>1. Nx <= written + 1 /\ written <= Outgoing /\ Nx \in Nat /\ written \in Nat
      BY <1>1, Far DEF Stream
    <3> QED  BY <2>1, <3>1, Parameters
  <2>3. Admitted(a)
    <3>1. a.seq = n
      BY <1>1 DEF Alike
    <3>2. CASE wl1 = Isn
      BY <3>1, <3>2 DEF Admitted
    <3>3. CASE wl1 = n /\ wl2 \in SeqNumbers /\ Pos(wl2) <= Ua
      <4>1. PICK z \in Nat : z = Pos(wl2) /\ z < A
        <5>1. Pos(wl2) \in Nat /\ Ua \in Nat
          BY <1>1, <3>3, Positions, Far, Parameters DEF Stream
        <5> QED  BY <2>1, <3>3, <5>1
      <4>2. SeqLt(wl2, a.ack)
        <5>1. SeqLt(wl2, a.ack) <=> IF A <= z THEN z - A >= Half ELSE A - z <= Half
          BY <2>1, <3>3, <4>1, Numbers
        <5> QED  BY <2>2, <4>1, <5>1
      <4>3. SeqLe(wl2, a.ack)
        BY <2>1, <3>3, <4>2, Numbers
      <4> QED  BY <3>1, <3>3, <4>3 DEF Admitted
    <3> QED  BY <1>1, <3>2, <3>3 DEF TakenSoFar
  <2>4. wl1' = n /\ wl2' = a.ack /\ heeded' /\ Ua' = A
    BY <1>1, <1>4, <2>1, <2>3 DEF Accepts, UpdateWindow, TakenSoFar, Alike, Ua, Pos
  <2> QED  BY <2>1, <2>4 DEF TakenSoFar, Pos
<1> QED  BY <1>2, <1>3, <1>4, WindowStep

LEMMA TakesAtFirst ==
  ASSUME SenderAssumption, SendInit, NEW n PROVE TakesAll(n)
BY DEF TakesAll, TakenSoFar, Alike, SendInit

(* The host takes every window told by a peer that sends no data, if that  *)
(* peer's number comes after the host's own: WL1 is first our own number   *)
(* (sender.rs:122), and update_send_window compares the peer's with it.    *)
THEOREM WindowAlwaysTaken ==
  ASSUME SenderAssumption, NEW n \in SeqNumbers, Quiet(n), SeqLt(Isn, n)
  PROVE  SendSpec => [](FinIsLast => heeded)
<1>1. SendInit => TakesAll(n)
  BY TakesAtFirst
<1>0. IInv => (FinIsLast => GotFits)
  BY GotHolds
<1>2. IInv /\ (FinIsLast => GotFits)' /\ TakesAll(n) /\ [SendNext]_sendVars => TakesAll(n)'
  BY TakesStep
<1>3. TakesAll(n) => (FinIsLast => heeded)
  BY DEF TakesAll, TakenSoFar
<1>4. SendSpec => []IInv
  BY SenderInvariant
<1> QED  BY <1>0, <1>1, <1>2, <1>3, <1>4, PTL DEF SendSpec

(* ... and if it comes before, none ever is. *)
TakesNone(n) == FinIsLast => Alike(n) /\ wl1 = Isn /\ window = Capacity

LEMMA NoneStep ==
  ASSUME SenderAssumption, NEW n, Quiet(n), ~SeqLt(Isn, n), n # Isn,
         IInv, FinIsLast' => GotFits', TakesNone(n), [SendNext]_sendVars
  PROVE  TakesNone(n)'
<1> SUFFICES ASSUME FinIsLast' PROVE Alike(n)' /\ (wl1 = Isn /\ window = Capacity)'
  BY DEF TakesNone
<1>1. FinIsLast
  BY FinStep DEF IInv
<1>2. Alike(n) /\ wl1 = Isn /\ window = Capacity
  BY <1>1 DEF TakesNone
<1>3. Alike(n)'
  BY <1>2, AlikeStep
<1>4. CASE UNCHANGED <<una, windowVars>>
  <2>1. wl1' = wl1 /\ window' = window
    BY <1>4
  <2> QED  BY <1>2, <1>3, <2>1
<1>5. ASSUME NEW a \in acks, Accepts(a) PROVE (wl1 = Isn /\ window = Capacity)'
  <2>1. ~Admitted(a)
    BY <1>2 DEF Admitted, Alike
  <2> QED  BY <1>2, <1>5, <2>1 DEF Accepts, UpdateWindow
<1> QED  BY <1>2, <1>3, <1>4, <1>5, WindowStep

(* The host never takes a window told by a peer that sends no data, if     *)
(* that peer's number comes before the host's own: it goes on sending as   *)
(* if the window were the one of the handshake (sender.rs:399).            *)
THEOREM WindowNeverTaken ==
  ASSUME SenderAssumption, NEW n \in SeqNumbers, Quiet(n), ~SeqLt(Isn, n), n # Isn
  PROVE  SendSpec => [](FinIsLast => window = Capacity)
<1>1. SendInit => TakesNone(n)
  BY DEF SendInit, TakesNone, Alike
<1>0. IInv => (FinIsLast => GotFits)
  BY GotHolds
<1>2. IInv /\ (FinIsLast => GotFits)' /\ TakesNone(n) /\ [SendNext]_sendVars => TakesNone(n)'
  BY NoneStep
<1>3. TakesNone(n) => (FinIsLast => window = Capacity)
  BY DEF TakesNone
<1>4. SendSpec => []IInv
  BY SenderInvariant
<1> QED  BY <1>0, <1>1, <1>2, <1>3, <1>4, PTL DEF SendSpec
=============================================================================
