-------------------------- MODULE TcpReceiverProofs --------------------------
(***************************************************************************)
(* The receive path of a connection (TcpReceiver): what is read and queued *)
(* is the stream of the peer, for streams of any length below half of the  *)
(* number space, cut, repeated and reordered in any way.                   *)
(*                                                                         *)
(* The code knows sequence numbers, the properties are about positions in  *)
(* the stream.  The proof goes over to positions first (Numbers): within   *)
(* half of the number space the comparisons of sequence numbers are those  *)
(* of the positions.  Then each of the computations of receive() is said   *)
(* in positions: what is left of a segment (TrimmedIs), what the store     *)
(* holds after a search (PlaceKeeps), what is merged from it (MergesIs).   *)
(***************************************************************************)
EXTENDS TcpReceiver, SequenceTheorems, WellFoundedInduction, TLAPS

(* A stream short enough that no segment which was stored, and never       *)
(* merged, is met again by the numbers of a later part of the stream.      *)
ShortStream == 2 * (Length + Window + 2) <= Modulus

Assumptions == ReceiverAssumption /\ ShortStream
Positions == 0..(Length + Window + 1)
-----------------------------------------------------------------------------
(* Induction, and remainders. *)

LEMMA LeastNumber ==
  ASSUME NEW T \in SUBSET Nat, T # {}
  PROVE  \E x \in T : \A y \in T : x <= y
<1> DEFINE R == {ss \in Nat \X Nat : ss[1] < ss[2]}
<1>1. IsWellFoundedOn(R, Nat)
  BY NatLessThanWellFounded DEF OpToRel
<1>2. \A x, y \in Nat : x < y => <<x, y>> \in R
  OBVIOUS
<1> HIDE DEF R
<1>3. PICK x \in T : \A y \in T : ~(<<y, x>> \in R)
  BY <1>1, WFMin
<1>4. \A y \in T : ~(y < x)
  BY <1>2, <1>3
<1> QED  BY <1>4

LEMMA Induction ==
  ASSUME NEW S, 0 \in S, \A n \in Nat : n \in S => n + 1 \in S
  PROVE  Nat \subseteq S
<1> SUFFICES ASSUME Nat \ S # {} PROVE FALSE
  OBVIOUS
<1>1. PICK x \in Nat \ S : \A y \in Nat \ S : x <= y
  BY LeastNumber
<1>2. x # 0 /\ x - 1 \in Nat
  BY <1>1
<1>3. x - 1 \in S
  BY <1>1, <1>2
<1> QED  BY <1>1, <1>2, <1>3

LEMMA ModIs ==
  ASSUME NEW m \in Nat \ {0}, NEW a \in Int
  PROVE  a % m \in 0..(m - 1) /\ a \div m \in Int /\ a = m * (a \div m) + (a % m)
OBVIOUS

LEMMA ModUnique ==
  ASSUME NEW m \in Nat \ {0}, NEW q \in Int, NEW r \in 0..(m - 1)
  PROVE  (m * q + r) % m = r
<1> DEFINE a == m * q + r
           d == a \div m
           s == a % m
<1>1. a \in Int /\ d \in Int /\ s \in 0..(m - 1) /\ m * q + r = m * d + s
  BY ModIs
<1> HIDE DEF d, s, a
<1>2. m * (q - d) = s - r
  BY <1>1
<1>3. q - d = 0
  <2>1. CASE q - d >= 1
    <3>1. m * (q - d) >= m
      BY <1>1, <2>1
    <3> QED  BY <1>1, <1>2, <3>1
  <2>2. CASE q - d <= -1
    <3>1. m * (q - d) <= -m
      BY <1>1, <2>2
    <3> QED  BY <1>1, <1>2, <3>1
  <2> QED  BY <1>1, <2>1, <2>2
<1>4. s = r
  BY <1>1, <1>2, <1>3
<1> QED  BY <1>4 DEF s, a

LEMMA ModShift ==
  ASSUME NEW m \in Nat \ {0}, NEW a \in Int, NEW b \in Int
  PROVE  ((a % m) + b) % m = (a + b) % m
<1> DEFINE p == a \div m
           q == (a + b) \div m
           r == (a + b) % m
<1>1. p \in Int /\ a % m \in 0..(m - 1) /\ a = m * p + (a % m)
  BY ModIs
<1>0. a + b \in Int
  OBVIOUS
<1>2. q \in Int /\ r \in 0..(m - 1) /\ a + b = m * q + r
  BY <1>0, ModIs
<1> HIDE DEF p, q, r
<1>3. (a % m) + b = m * (q - p) + r
  <2>1. m * (q - p) = m * q - m * p
    BY <1>1, <1>2
  <2> DEFINE mp == m * p
             mq == m * q
             s == a % m
  <2>2. mq \in Int /\ mp \in Int /\ s \in Int /\ r \in Int
    BY <1>1, <1>2
  <2>3. a = mp + s /\ a + b = mq + r /\ m * (q - p) = mq - mp
    BY <1>1, <1>2, <2>1
  <2> HIDE DEF mp, mq, s
  <2>4. s + b = (mq - mp) + r
    BY <2>2, <2>3
  <2> QED  BY <2>3, <2>4 DEF s
<1>4. (m * (q - p) + r) % m = r
  BY <1>1, <1>2, ModUnique
<1> QED  BY <1>3, <1>4 DEF r
-----------------------------------------------------------------------------
(* Sequence numbers and positions. *)

LEMMA Adds ==
  ASSUME Assumptions, NEW p \in Nat, NEW n \in Int
  PROVE  SeqAdd(SeqNo(p), n) = SeqNo(p + n) /\ SeqNo(p) \in SeqNumbers
<1>1. Modulus \in Nat \ {0} /\ Isn + p \in Int
  BY ModulusAssumption DEF Assumptions, ReceiverAssumption, SeqNumbers
<1>2. (((Isn + p) % Modulus) + n) % Modulus = ((Isn + p) + n) % Modulus
  BY <1>1, ModShift
<1>3. (Isn + p) % Modulus \in 0..(Modulus - 1) /\ Isn \in Int
  BY <1>1, ModIs, ModulusAssumption DEF Assumptions, ReceiverAssumption, SeqNumbers
<1>4. (Isn + p) + n = Isn + (p + n)
  BY <1>3
<1> QED  BY <1>2, <1>3, <1>4 DEF SeqAdd, SeqNo, SeqNumbers

LEMMA Numbers ==
  ASSUME Assumptions, NEW p \in Positions, NEW q \in Positions
  PROVE  /\ SeqSub(SeqNo(p), SeqNo(q)) = IF q <= p THEN p - q ELSE Modulus + p - q
         /\ SeqNo(p) = SeqNo(q) => p = q
         /\ SeqLt(SeqNo(p), SeqNo(q)) <=> p < q
         /\ SeqLe(SeqNo(p), SeqNo(q)) <=> p <= q
<1> DEFINE M == Modulus
           x == (Isn + p) % M
           y == (Isn + q) % M
           d == IF q <= p THEN p - q ELSE M + p - q
           f == (Isn + p) \div M
           g == (Isn + q) \div M
<1>1. /\ M \in Nat \ {0} /\ Isn \in Nat /\ p \in Nat /\ q \in Nat
      /\ M \div 2 \in Nat /\ M = 2 * (M \div 2)
      /\ 2 * p < M /\ 2 * q < M
  <2>1. M \in Nat \ {0} /\ M % 2 = 0
    BY ModulusAssumption
  <2>2. Isn \in Nat /\ p \in Nat /\ q \in Nat /\ 2 * p < M /\ 2 * q < M
    BY <2>1 DEF Assumptions, ReceiverAssumption, ShortStream, Positions, SeqNumbers
  <2>3. M \div 2 \in Nat /\ M = 2 * (M \div 2) + (M % 2)
    BY <2>1
  <2> QED  BY <2>1, <2>2, <2>3
<1>2. /\ x \in 0..(M - 1) /\ f \in Int /\ Isn + p = M * f + x
      /\ y \in 0..(M - 1) /\ g \in Int /\ Isn + q = M * g + y
  <2>1. Isn + p \in Int /\ Isn + q \in Int
    BY <1>1
  <2> QED  BY <1>1, <2>1, ModIs
<1>3. d \in 0..(M - 1)
  BY <1>1
<1> HIDE DEF M, x, y, f, g, d
<1>4. (x - y) % M = d
  <2>1. CASE q <= p
    <3>1. x - y = M * (g - f) + d
      <4>1. d = p - q
        BY <2>1 DEF d
      <4>2. M * (g - f) = M * g - M * f /\ M * g \in Int /\ M * f \in Int
        BY <1>1, <1>2
      <4> QED  BY <1>1, <1>2, <4>1, <4>2
    <3>2. g - f \in Int /\ (g - f) - 1 \in Int
      BY <1>2
    <3> QED  BY <1>1, <1>3, <3>1, <3>2, ModUnique
  <2>2. CASE q > p
    <3>1. x - y = M * ((g - f) - 1) + d
      <4>1. d = M + p - q
        BY <1>1, <2>2 DEF d
      <4>2. M * ((g - f) - 1) = M * g - M * f - M /\ M * g \in Int /\ M * f \in Int
        BY <1>1, <1>2
      <4> QED  BY <1>1, <1>2, <4>1, <4>2
    <3>2. g - f \in Int /\ (g - f) - 1 \in Int
      BY <1>2
    <3> QED  BY <1>1, <1>3, <3>1, <3>2, ModUnique
  <2> QED  BY <1>1, <2>1, <2>2
<1>5. SeqSub(SeqNo(p), SeqNo(q)) = d
  BY <1>4 DEF SeqSub, SeqNo, SeqAdd, x, y, M
<1>6. SeqNo(p) = SeqNo(q) => p = q
  <2>1. x = y => (x - y) % M = 0
    BY <1>1, <1>2
  <2>2. d = 0 => p = q
    BY <1>1 DEF d
  <2>3. x = y => p = q
    BY <1>4, <2>1, <2>2
  <2> QED  BY <2>3 DEF SeqNo, SeqAdd, x, y, M
<1>7. SeqLt(SeqNo(p), SeqNo(q)) <=> p < q
  <2>1. d >= M \div 2 <=> p < q
    BY <1>1 DEF d
  <2> QED  BY <1>5, <2>1 DEF SeqLt, M
<1>8. SeqLe(SeqNo(p), SeqNo(q)) <=> p <= q
  BY <1>1, <1>6, <1>7 DEF SeqLe
<1> QED  BY <1>5, <1>6, <1>7, <1>8 DEF d, M
-----------------------------------------------------------------------------
(* The window and what is left of a segment, in positions.  N is RCV.NXT.  *)

At(N) ==
  /\ N \in 0..(Length + 1) /\ read \in 0..Length
  /\ read <= N /\ N <= read + Window
  /\ receiveNext = SeqNo(N) /\ readerNext = SeqNo(read)

LEMMA WindowIs ==
  ASSUME Assumptions, NEW N, At(N)
  PROVE  /\ Unread = N - read
         /\ AfterWindow = SeqNo(read + Window)
         /\ N \in Positions /\ read \in Positions /\ read + Window \in Positions
<1>1. Length \in Nat /\ Window \in Nat
  BY DEF Assumptions, ReceiverAssumption
<1>2. N \in Positions /\ read \in Positions /\ read + Window \in Positions
  BY <1>1 DEF At, Positions
<1>3. Unread = N - read
  BY <1>2, Numbers DEF At, Unread
<1>4. AfterWindow = SeqAdd(SeqNo(N), Window - (N - read))
  BY <1>3 DEF AfterWindow, WindowSize, At
<1>5. N \in Nat /\ Window - (N - read) \in Int /\ N + (Window - (N - read)) = read + Window
  BY <1>1 DEF At
<1>6. AfterWindow = SeqNo(read + Window)
  BY <1>4, <1>5, Adds
<1> QED  BY <1>2, <1>3, <1>6

(* A segment in positions.                                                 *)
Labelled(s) ==
  /\ s \in [seq: SeqNumbers, buf: [at: Nat, len: Nat], fin: BOOLEAN, rst: BOOLEAN]
  /\ s.seq = SeqNo(s.buf.at)
  /\ s.buf.at <= Length + 1
  /\ s.buf.len > 0 => s.buf.at + s.buf.len <= Length
  /\ s.fin => s.buf.at + s.buf.len = Length

LEMMA SentAreLabelled ==
  ASSUME Assumptions, NEW s \in Segments, Sendable(s)
  PROVE  Labelled(s)
<1>1. Length \in Nat /\ MaxSegment \in Nat /\ MayReset \in BOOLEAN
  BY DEF Assumptions, ReceiverAssumption
<1>2. PICK p \in 0..(Length + 1), n \in 0..MaxSegment, f \in BOOLEAN, r \in {FALSE, MayReset} :
         s = [seq |-> SeqNo(p), buf |-> [at |-> p, len |-> n], fin |-> f, rst |-> r]
  BY DEF Segments
<1>3. SeqNo(p) \in SeqNumbers
  BY Adds
<1>4. /\ s \in [seq: SeqNumbers, buf: [at: Nat, len: Nat], fin: BOOLEAN, rst: BOOLEAN]
      /\ s.seq = SeqNo(s.buf.at) /\ s.buf.at = p /\ s.buf.len = n
  <2>1. p \in Nat /\ n \in Nat
    BY <1>1
  <2>2. r \in BOOLEAN
    BY <1>1
  <2> QED  BY <1>2, <1>3, <2>1, <2>2
<1>5. \/ p + n <= Length
      \/ p = Length + 1 /\ n = 0 /\ ~s.fin
  BY <1>4 DEF Sendable
<1>6. s.fin => p + n = Length
  BY <1>4 DEF Sendable
<1>7. s.buf.at <= Length + 1 /\ (s.buf.len > 0 => s.buf.at + s.buf.len <= Length)
  BY <1>1, <1>4, <1>5
<1> QED  BY <1>4, <1>6, <1>7 DEF Labelled

LEMMA SegEndIs ==
  ASSUME Assumptions, NEW s, Labelled(s)
  PROVE  /\ SegLen(s) \in Nat /\ SegLen(s) = s.buf.len + (IF s.fin THEN 1 ELSE 0)
         /\ s.buf.at \in Positions
         /\ SegLen(s) > 0 => /\ SegEnd(s) = SeqNo(s.buf.at + SegLen(s) - 1)
                             /\ s.buf.at + SegLen(s) - 1 \in Positions
         /\ SegLen(s) = 0 => SegEnd(s) = s.seq
<1>1. Length \in Nat /\ Window \in Nat
  BY DEF Assumptions, ReceiverAssumption
<1>2. SegLen(s) \in Nat /\ SegLen(s) = s.buf.len + (IF s.fin THEN 1 ELSE 0)
  BY DEF Labelled, SegLen
<1>3. s.buf.at \in Positions
  BY <1>1 DEF Labelled, Positions
<1>4. ASSUME SegLen(s) > 0
      PROVE  SegEnd(s) = SeqNo(s.buf.at + SegLen(s) - 1) /\ s.buf.at + SegLen(s) - 1 \in Positions
  <2>1. s.buf.at \in Nat /\ SegLen(s) - 1 \in Int /\ s.seq = SeqNo(s.buf.at)
    BY <1>2 DEF Labelled
  <2>2. SeqAdd(SeqNo(s.buf.at), SegLen(s) - 1) = SeqNo(s.buf.at + (SegLen(s) - 1))
    BY <2>1, Adds
  <2>3. s.buf.at + (SegLen(s) - 1) = s.buf.at + SegLen(s) - 1
    BY <1>2, <2>1
  <2>4. s.buf.at + SegLen(s) <= Length + 1
    BY <1>1, <1>2, <1>4 DEF Labelled
  <2> QED  BY <1>1, <1>2, <1>4, <2>1, <2>2, <2>3, <2>4 DEF SegEnd, Positions
<1> QED  BY <1>2, <1>3, <1>4 DEF SegEnd

LEMMA CutFrontIs ==
  ASSUME Assumptions, NEW N, At(N), NEW s, Labelled(s), InWindow(s)
  PROVE  /\ Labelled(CutFront(s))
         /\ N <= CutFront(s).buf.at
         /\ CutFront(s).buf.at = N \/ CutFront(s).buf.at < read + Window
         /\ CutFront(s).fin = s.fin
<1>1. N \in Positions /\ read + Window \in Positions /\ AfterWindow = SeqNo(read + Window)
      /\ receiveNext = SeqNo(N) /\ N \in Nat
  BY WindowIs DEF At
<1>2. s.buf.at \in Positions /\ s.seq = SeqNo(s.buf.at) /\ s.buf.at \in Nat
  BY SegEndIs DEF Labelled
<1>3. Early(s) <=> s.buf.at < N
  BY <1>1, <1>2, Numbers DEF Early
<1>4. CASE s.buf.at < N
  <2>1. ~SeqLt(SegEnd(s), SeqNo(N))
    BY <1>1, <1>3, <1>4 DEF InWindow, Old
  <2>2. SegLen(s) > 0
    <3>1. SegLen(s) = 0 => SeqLt(SegEnd(s), SeqNo(N))
      BY <1>1, <1>2, <1>4, SegEndIs, Numbers
    <3> QED  BY <2>1, <3>1, SegEndIs
  <2>3. s.buf.at + SegLen(s) - 1 \in Positions /\ SegEnd(s) = SeqNo(s.buf.at + SegLen(s) - 1)
    BY <2>2, SegEndIs
  <2>4. N <= s.buf.at + SegLen(s) - 1
    <3> DEFINE e == s.buf.at + SegLen(s) - 1
    <3>1. e \in Positions /\ ~SeqLt(SeqNo(e), SeqNo(N))
      BY <2>1, <2>3
    <3> HIDE DEF e
    <3>2. ~(e < N)
      BY <1>1, <3>1, Numbers
    <3>3. e \in Nat
      BY <3>1 DEF Positions
    <3> QED  BY <1>1, <3>2, <3>3 DEF e
  <2>5. SeqSub(receiveNext, s.seq) = N - s.buf.at
    BY <1>1, <1>2, <1>4, Numbers
  <2>6. /\ CutFront(s).seq = SeqNo(N) /\ CutFront(s).fin = s.fin
        /\ CutFront(s).buf.at = s.buf.at + (N - s.buf.at)
        /\ CutFront(s).buf.len = s.buf.len - (N - s.buf.at)
    <3>1. CutFront(s) = [s EXCEPT !.seq = receiveNext, !.buf = Adjust(@, SeqSub(receiveNext, s.seq))]
      BY <1>3, <1>4 DEF CutFront
    <3> QED  BY <1>1, <2>5, <3>1 DEF Labelled, Adjust
  <2>7. SegLen(s) \in Nat /\ SegLen(s) = s.buf.len + (IF s.fin THEN 1 ELSE 0)
    BY SegEndIs
  <2>8. CutFront(s).buf.at = N /\ CutFront(s).buf.len \in Nat
        /\ CutFront(s).buf.at + CutFront(s).buf.len = s.buf.at + s.buf.len
    <3> DEFINE a == s.buf.at
               l == s.buf.len
               c == CutFront(s).buf
    <3>1. a \in Nat /\ l \in Nat /\ c.at = a + (N - a) /\ c.len = l - (N - a)
      BY <2>6 DEF Labelled
    <3>2. N <= a + l
      BY <1>1, <2>4, <2>7, <3>1
    <3> HIDE DEF a, l, c
    <3>3. c.at = N /\ c.len \in Nat /\ c.at + c.len = a + l
      BY <1>1, <3>1, <3>2
    <3> QED  BY <3>3 DEF a, l, c
  <2>9. Labelled(CutFront(s))
    <3>1. CutFront(s) \in [seq: SeqNumbers, buf: [at: Nat, len: Nat], fin: BOOLEAN, rst: BOOLEAN]
      <4>1. CutFront(s) = [s EXCEPT !.seq = receiveNext, !.buf = Adjust(@, SeqSub(receiveNext, s.seq))]
        BY <1>3, <1>4 DEF CutFront
      <4>2. Adjust(s.buf, SeqSub(receiveNext, s.seq)) \in [at: Nat, len: Nat]
        BY <1>1, <2>8, <4>1 DEF Adjust, Labelled
      <4>3. receiveNext \in SeqNumbers
        BY <1>1, Adds
      <4> QED  BY <4>1, <4>2, <4>3 DEF Labelled
    <3>2. s.buf.len > 0 \/ CutFront(s).buf.len = 0
      BY <1>2, <1>4, <1>1, <2>8 DEF Labelled
    <3> QED  BY <1>1, <2>6, <2>8, <3>1, <3>2 DEF Labelled, At
  <2> QED  BY <1>1, <2>6, <2>8, <2>9
<1>5. CASE ~(s.buf.at < N)
  <2>1. CutFront(s) = s
    BY <1>3, <1>5 DEF CutFront
  <2>2. s.buf.at = N \/ s.buf.at < read + Window
    <3>1. s.seq = receiveNext \/ ~SeqLe(SeqNo(read + Window), SeqNo(s.buf.at))
      BY <1>1, <1>2, <1>3, <1>5 DEF InWindow, Beyond
    <3>2. s.seq = receiveNext => s.buf.at = N
      BY <1>1, <1>2, Numbers
    <3>3. read + Window \in Nat
      BY <1>1 DEF Positions
    <3> DEFINE w == read + Window
    <3> HIDE DEF w
    <3>4. w \in Positions => (SeqLe(SeqNo(w), SeqNo(s.buf.at)) <=> w <= s.buf.at)
      BY <1>2, Numbers
    <3> QED  BY <1>1, <1>2, <3>1, <3>2, <3>3, <3>4 DEF w
  <2> QED  BY <1>1, <1>2, <1>5, <2>1, <2>2
<1> QED  BY <1>4, <1>5

LEMMA TrimmedIs ==
  ASSUME Assumptions, NEW N, At(N), NEW s, Labelled(s), InWindow(s)
  PROVE  LET t == Trimmed(s) IN
         /\ Labelled(t) /\ N <= t.buf.at
         /\ t.buf.len > 0 => t.buf.at + t.buf.len <= read + Window
         /\ t.fin => Length + 1 <= read + Window
<1> DEFINE c == CutFront(s)
           t == Trimmed(s)
           w == read + Window
           a == c.buf.at
           l == c.buf.len
           excess == SeqSub(SegEnd(c), AfterWindow) + 1
           cut == excess - (IF c.fin THEN 1 ELSE 0)
<1>1. Labelled(c) /\ N <= a /\ (a = N \/ a < w)
  BY CutFrontIs
<1>2. /\ N \in Nat /\ w \in Positions /\ AfterWindow = SeqNo(w) /\ w \in Nat /\ N <= w
  BY WindowIs DEF At, Positions
<1>3. a \in Nat /\ l \in Nat /\ a <= w /\ c.fin \in BOOLEAN
  BY <1>1, <1>2 DEF Labelled
<1>4. /\ SegLen(c) \in Nat /\ SegLen(c) = l + (IF c.fin THEN 1 ELSE 0)
      /\ SegLen(c) > 0 => /\ SegEnd(c) = SeqNo(a + SegLen(c) - 1)
                          /\ a + SegLen(c) - 1 \in Positions
  BY <1>1, SegEndIs
<1>5. ASSUME SegLen(c) > 0
      PROVE  /\ SeqLe(AfterWindow, SegEnd(c)) <=> w <= a + SegLen(c) - 1
             /\ w <= a + SegLen(c) - 1 => excess = a + SegLen(c) - w
  <2> DEFINE e == a + SegLen(c) - 1
  <2>1. e \in Positions /\ SegEnd(c) = SeqNo(e)
    BY <1>4, <1>5
  <2> HIDE DEF e, w
  <2>2. /\ SeqLe(SeqNo(w), SeqNo(e)) <=> w <= e
        /\ w <= e => SeqSub(SeqNo(e), SeqNo(w)) = e - w
    BY <1>2, <2>1, Numbers
  <2> QED  BY <1>2, <1>3, <1>4, <2>1, <2>2 DEF e
<1>6. CASE SegLen(c) > 0 /\ w <= a + SegLen(c) - 1
  <2>1. t = [c EXCEPT !.fin = FALSE, !.buf = Trim(@, cut)]
    BY <1>5, <1>6 DEF Trimmed, CutEnd
  <2>2. l - cut = w - a /\ w - a \in Nat /\ w - a <= l
    <3>1. cut = l + a - w
      BY <1>2, <1>3, <1>4, <1>5, <1>6
    <3> QED  BY <1>2, <1>3, <1>4, <1>6, <3>1
  <2> HIDE DEF cut, excess, a, l, w
  <2>3. Trim(c.buf, cut) = [at |-> a, len |-> w - a]
    BY <1>1, <2>2 DEF Trim, Labelled, a, l
  <2>4. t \in [seq: SeqNumbers, buf: [at: Nat, len: Nat], fin: BOOLEAN, rst: BOOLEAN]
        /\ t.seq = c.seq /\ t.buf = [at |-> a, len |-> w - a] /\ t.fin = FALSE
    <3> DEFINE b == Trim(c.buf, cut)
    <3>1. b \in [at: Nat, len: Nat] /\ b = [at |-> a, len |-> w - a]
      BY <1>3, <2>2, <2>3
    <3>2. t = [c EXCEPT !.fin = FALSE, !.buf = b]
      BY <2>1
    <3>3. c \in [seq: SeqNumbers, buf: [at: Nat, len: Nat], fin: BOOLEAN, rst: BOOLEAN]
      BY <1>1 DEF Labelled
    <3> HIDE DEF b, c, t
    <3> QED  BY <3>1, <3>2, <3>3
  <2>5. a <= Length + 1 /\ (w - a > 0 => l > 0) /\ (l > 0 => a + l <= Length)
    BY <1>1, <1>3, <2>2 DEF Labelled, a, l
  <2>6. w - a > 0 => a + (w - a) <= Length
    <3>1. Length \in Nat
      BY DEF Assumptions, ReceiverAssumption
    <3> QED  BY <1>2, <1>3, <2>2, <2>5, <3>1
  <2>7. Labelled(t)
    BY <1>1, <2>4, <2>5, <2>6 DEF Labelled, a
  <2> QED  BY <1>1, <1>2, <1>3, <2>4, <2>7 DEF w
<1>7. CASE ~(SegLen(c) > 0 /\ w <= a + SegLen(c) - 1)
  <2>1. t = c
    BY <1>4, <1>5, <1>7 DEF Trimmed, CutEnd
  <2>2. l > 0 => a + l <= w
    BY <1>2, <1>3, <1>4, <1>7
  <2>3. c.fin => a + l = Length /\ a + l + 1 <= w
    BY <1>1, <1>2, <1>3, <1>4, <1>7 DEF Labelled
  <2> QED  BY <1>1, <1>3, <2>1, <2>2, <2>3
<1> QED  BY <1>6, <1>7
-----------------------------------------------------------------------------
(* The out-of-order store. *)

(* Entries that bear the number of their bytes and end before position w.  *)
Fits(w) ==
  {e \in Entries : /\ e.start = SeqNo(e.buf.at) /\ e.buf.len > 0
                   /\ e.buf.at + e.buf.len <= Length
                   /\ e.buf.at + e.buf.len <= w}

LEMMA EndIs ==
  ASSUME Assumptions, NEW w \in Nat, NEW e \in Fits(w)
  PROVE  /\ e.start = SeqNo(e.buf.at) /\ End(e) = SeqNo(e.buf.at + e.buf.len - 1)
         /\ e.buf.at \in Positions /\ e.buf.at + e.buf.len - 1 \in Positions
         /\ e.buf.at \in Nat /\ e.buf.len \in Nat /\ e.buf.len > 0
         /\ SeqAdd(End(e), 1) = SeqNo(e.buf.at + e.buf.len)
         /\ e.buf.at + e.buf.len <= Length /\ e.buf.at + e.buf.len <= w
<1>1. Length \in Nat /\ Window \in Nat
  BY DEF Assumptions, ReceiverAssumption
<1>2. e.start = SeqNo(e.buf.at) /\ e.buf.at \in Nat /\ e.buf.len \in Nat /\ e.buf.len > 0
      /\ e.buf.at + e.buf.len <= Length /\ e.buf.at + e.buf.len <= w
  BY <1>1 DEF Fits, Entries, Buffers
<1> DEFINE a == e.buf.at
           l == e.buf.len
<1> HIDE DEF a, l
<1>3. a \in Nat /\ l \in Nat /\ l > 0 /\ a + l <= Length
  BY <1>2 DEF a, l
<1>4. SeqAdd(SeqNo(a), l - 1) = SeqNo(a + (l - 1)) /\ a + (l - 1) = a + l - 1
  BY <1>3, Adds
<1>5. SeqAdd(SeqNo(a + l - 1), 1) = SeqNo((a + l - 1) + 1) /\ (a + l - 1) + 1 = a + l
  <2>1. a + l - 1 \in Nat
    BY <1>3
  <2> QED  BY <1>3, <2>1, Adds
<1>6. a \in Positions /\ a + l - 1 \in Positions
  BY <1>1, <1>3 DEF Positions
<1>7. End(e) = SeqNo(a + l - 1)
  BY <1>2, <1>4 DEF End, a, l
<1> QED  BY <1>2, <1>5, <1>6, <1>7 DEF a, l

(* The comparisons of a search are those of the bytes.                     *)
LEMMA ComparisonsAre ==
  ASSUME Assumptions, NEW w \in Nat, NEW e \in Fits(w), NEW f \in Fits(w)
  PROVE  /\ SeqLt(f.start, e.start) <=> f.buf.at < e.buf.at
         /\ SeqLt(End(f), e.start) <=> f.buf.at + f.buf.len - 1 < e.buf.at
         /\ SeqLt(End(e), End(f)) <=> e.buf.at + e.buf.len < f.buf.at + f.buf.len
         /\ SeqLe(End(f), End(e)) <=> f.buf.at + f.buf.len <= e.buf.at + e.buf.len
         /\ e.buf.at <= f.buf.at + f.buf.len - 1 =>
               SeqSub(End(f), e.start) = f.buf.at + f.buf.len - 1 - e.buf.at
<1> DEFINE ea == e.buf.at
           fa == f.buf.at
           ez == e.buf.at + e.buf.len - 1
           fz == f.buf.at + f.buf.len - 1
<1>1. /\ ea \in Positions /\ fa \in Positions /\ ez \in Positions /\ fz \in Positions
      /\ e.start = SeqNo(ea) /\ f.start = SeqNo(fa)
      /\ End(e) = SeqNo(ez) /\ End(f) = SeqNo(fz)
  BY EndIs
<1>2. /\ SeqLt(SeqNo(fa), SeqNo(ea)) <=> fa < ea
      /\ SeqLt(SeqNo(fz), SeqNo(ea)) <=> fz < ea
      /\ SeqLt(SeqNo(ez), SeqNo(fz)) <=> ez < fz
      /\ SeqLe(SeqNo(fz), SeqNo(ez)) <=> fz <= ez
      /\ ea <= fz => SeqSub(SeqNo(fz), SeqNo(ea)) = fz - ea
  <2> HIDE DEF ea, fa, ez, fz
  <2> QED  BY <1>1, Numbers
<1>3. e.buf.at \in Nat /\ f.buf.at \in Nat /\ e.buf.len \in Nat /\ f.buf.len \in Nat
  BY EndIs
<1>4. (ez < fz <=> e.buf.at + e.buf.len < f.buf.at + f.buf.len)
      /\ (fz <= ez <=> f.buf.at + f.buf.len <= e.buf.at + e.buf.len)
  BY <1>3
<1> HIDE DEF ea, fa, ez, fz
<1>5. /\ SeqLt(f.start, e.start) <=> fa < ea
      /\ SeqLt(End(f), e.start) <=> fz < ea
      /\ SeqLt(End(e), End(f)) <=> ez < fz
      /\ SeqLe(End(f), End(e)) <=> fz <= ez
      /\ ea <= fz => SeqSub(End(f), e.start) = fz - ea
  BY <1>1, <1>2
<1>6. /\ SeqLt(f.start, e.start) <=> f.buf.at < e.buf.at
      /\ SeqLt(End(f), e.start) <=> f.buf.at + f.buf.len - 1 < e.buf.at
  BY <1>5 DEF ea, fa, fz
<1>7. /\ SeqLt(End(e), End(f)) <=> e.buf.at + e.buf.len < f.buf.at + f.buf.len
      /\ SeqLe(End(f), End(e)) <=> f.buf.at + f.buf.len <= e.buf.at + e.buf.len
  BY <1>4, <1>5
<1>8. e.buf.at <= f.buf.at + f.buf.len - 1 =>
         SeqSub(End(f), e.start) = f.buf.at + f.buf.len - 1 - e.buf.at
  <2>1. ASSUME e.buf.at <= f.buf.at + f.buf.len - 1
        PROVE  SeqSub(End(f), e.start) = fz - ea
    <3>1. ea <= fz
      BY <2>1 DEF ea, fz
    <3> QED  BY <1>5, <3>1
  <2>2. fz - ea = f.buf.at + f.buf.len - 1 - e.buf.at
    BY <1>3 DEF fz, ea
  <2> QED  BY <2>1, <2>2
<1> QED  BY <1>6, <1>7, <1>8

LEMMA InsertKeeps ==
  ASSUME NEW S, NEW q \in Seq(S), NEW x \in S, NEW i \in 1..Len(q)
  PROVE  InsertAt(q, i, x) \in Seq(S) /\ RemoveAt(q, i) \in Seq(S)
<1>1. SubSeq(q, 1, i - 1) \in Seq(S) /\ SubSeq(q, i, Len(q)) \in Seq(S)
      /\ SubSeq(q, i + 1, Len(q)) \in Seq(S)
  OBVIOUS
<1>2. SubSeq(q, 1, i - 1) \o <<x>> \in Seq(S)
  BY <1>1
<1> QED  BY <1>1, <1>2 DEF InsertAt, RemoveAt

LEMMA RemovedLength ==
  ASSUME NEW S, NEW q \in Seq(S), NEW i \in 1..Len(q)
  PROVE  Len(RemoveAt(q, i)) = Len(q) - 1
<1> DEFINE n == Len(q)
           a == SubSeq(q, 1, i - 1)
           b == SubSeq(q, i + 1, n)
<1>1. n \in Nat /\ i \in 1..n /\ \A k \in 1..n : q[k] \in S
  BY LenProperties, ElementOfSeq
<1>2. a \in Seq(S) /\ Len(a) = i - 1
  <2>1. 1 \in Int /\ i - 1 \in Int /\ (1 <= i - 1 \/ i - 1 = 0) /\ \A k \in 1..(i - 1) : q[k] \in S
    BY <1>1
  <2>2. a \in Seq(S) /\ Len(a) = IF 1 <= i - 1 THEN (i - 1) - 1 + 1 ELSE 0
    BY <2>1, SubSeqProperties
  <2> HIDE DEF a
  <2> QED  BY <1>1, <2>1, <2>2
<1>3. b \in Seq(S) /\ Len(b) = n - i
  <2>1. i + 1 \in Int /\ n \in Int /\ (i + 1 <= n \/ i = n) /\ \A k \in (i + 1)..n : q[k] \in S
    BY <1>1
  <2>2. b \in Seq(S) /\ Len(b) = IF i + 1 <= n THEN n - (i + 1) + 1 ELSE 0
    BY <2>1, SubSeqProperties
  <2> HIDE DEF b
  <2> QED  BY <1>1, <2>1, <2>2
<1>4. RemoveAt(q, i) = a \o b
  BY DEF RemoveAt
<1> HIDE DEF a, b
<1>5. Len(a \o b) = Len(a) + Len(b)
  BY <1>2, <1>3, ConcatProperties
<1> QED  BY <1>1, <1>2, <1>3, <1>4, <1>5

(* A search, with the store and the entry it is about. *)
Searches(w) == [store: Seq(Fits(w)), new: Fits(w), i: Nat]

(* What a comparison does to it. *)
Stores(p, q, i)  == [p EXCEPT !.store = q, !.i = i]
Shortens(p, e, i) == [p EXCEPT !.new = e, !.i = i]

LEMMA SearchGoesOn ==
  ASSUME NEW w, NEW p \in Searches(w), NEW i \in Nat
  PROVE  /\ \A q \in Seq(Fits(w)) : Stores(p, q, i) \in Searches(w)
         /\ \A e \in Fits(w) : Shortens(p, e, i) \in Searches(w)
<1> DEFINE T == Fits(w)
<1> HIDE DEF T
<1>1. p \in [store: Seq(T), new: T, i: Nat]
  BY DEF Searches, T
<1>2. ASSUME NEW q \in Seq(T)
      PROVE  [p EXCEPT !.store = q, !.i = i] \in [store: Seq(T), new: T, i: Nat]
  BY <1>1, <1>2
<1>3. ASSUME NEW e \in T
      PROVE  [p EXCEPT !.new = e, !.i = i] \in [store: Seq(T), new: T, i: Nat]
  BY <1>1, <1>3
<1> QED  BY <1>2, <1>3 DEF Searches, T, Stores, Shortens

LEMMA CutTailKeeps ==
  ASSUME Assumptions, NEW w \in Nat, NEW e \in Fits(w), NEW new \in Fits(w),
         new.buf.at < e.buf.at, e.buf.at <= new.buf.at + new.buf.len - 1
  PROVE  CutTail(new, e) \in Fits(w)
<1> DEFINE d == SeqSub(End(new), e.start) + 1
<1>1. d = new.buf.at + new.buf.len - e.buf.at
  <2>1. SeqSub(End(new), e.start) = new.buf.at + new.buf.len - 1 - e.buf.at
    BY ComparisonsAre
  <2> QED  BY <2>1, EndIs
<1>2. /\ new \in Entries /\ new.start = SeqNo(new.buf.at)
      /\ new.buf.at \in Nat /\ new.buf.len \in Nat
      /\ new.buf.at + new.buf.len <= Length /\ new.buf.at + new.buf.len <= w
      /\ e.buf.at \in Nat
  BY EndIs DEF Fits
<1>3. new.buf.len - d = e.buf.at - new.buf.at /\ e.buf.at - new.buf.at \in 1..new.buf.len
  BY <1>1, <1>2
<1> HIDE DEF d
<1>4. Trim(new.buf, d) = [at |-> new.buf.at, len |-> e.buf.at - new.buf.at]
  BY <1>2, <1>3 DEF Trim, Entries, Buffers
<1>5. CutTail(new, e) = [start |-> new.start, buf |-> [at |-> new.buf.at, len |-> e.buf.at - new.buf.at]]
  BY <1>2, <1>4 DEF CutTail, Entries, d
<1>6. e.buf.at - new.buf.at \in 0..Length /\ new.buf.at \in 0..Length /\ new.start \in SeqNumbers
      /\ new.buf.at + (e.buf.at - new.buf.at) <= new.buf.at + new.buf.len
  <2>1. new.start \in SeqNumbers /\ new.buf.at \in 0..Length /\ new.buf.len \in 0..Length
    BY <1>2 DEF Entries, Buffers
  <2> DEFINE r == e.buf.at - new.buf.at
  <2>2. r \in 1..new.buf.len
    BY <1>3
  <2> HIDE DEF r
  <2>3. r \in 0..Length /\ new.buf.at + r <= new.buf.at + new.buf.len
    <3>1. Length \in Nat
      BY DEF Assumptions, ReceiverAssumption
    <3> QED  BY <1>2, <2>1, <2>2, <3>1
  <2> QED  BY <2>1, <2>3 DEF r
<1> QED  BY <1>2, <1>3, <1>5, <1>6 DEF Fits, Entries, Buffers

LEMMA CutStartKeeps ==
  ASSUME Assumptions, NEW w \in Nat, NEW e \in Fits(w), NEW new \in Fits(w),
         new.buf.at <= e.buf.at + e.buf.len - 1,
         e.buf.at + e.buf.len < new.buf.at + new.buf.len
  PROVE  CutStart(new, e) \in Fits(w)
<1> DEFINE d == SeqSub(End(e), new.start)
           z == e.buf.at + e.buf.len - 1
<1>1. d = z - new.buf.at
  <2>1. new.buf.at <= e.buf.at + e.buf.len - 1 =>
           SeqSub(End(e), new.start) = e.buf.at + e.buf.len - 1 - new.buf.at
    BY ComparisonsAre
  <2>2. e.buf.at \in Nat /\ e.buf.len \in Nat /\ new.buf.at \in Nat
    BY EndIs
  <2> QED  BY <2>1, <2>2
<1>2. /\ new.start = SeqNo(new.buf.at) /\ new.buf.at \in Nat /\ new.buf.len \in Nat
      /\ new.buf.at + new.buf.len <= Length /\ new.buf.at + new.buf.len <= w
      /\ z \in Nat /\ e.buf.at + e.buf.len <= Length /\ Length \in Nat
  BY EndIs DEF Assumptions, ReceiverAssumption
<1>3. /\ d \in Nat /\ new.buf.at + d = z /\ new.buf.len - d \in Nat /\ new.buf.len - d > 0
      /\ z + (new.buf.len - d) = new.buf.at + new.buf.len
  <2> DEFINE zz == e.buf.at + e.buf.len
  <2>1. z = zz - 1 /\ zz \in Nat
    BY EndIs
  <2> HIDE DEF z, d, zz
  <2>2. zz < new.buf.at + new.buf.len /\ new.buf.at <= z
    BY DEF zz, z
  <2> QED  BY <1>1, <1>2, <2>1, <2>2
<1> HIDE DEF d, z
<1>4. SeqAdd(new.start, d) = SeqNo(z) /\ SeqNo(z) \in SeqNumbers
  <2>1. new.buf.at \in Nat /\ d \in Int /\ z \in Nat /\ new.start = SeqNo(new.buf.at)
    BY <1>2, <1>3
  <2>2. SeqAdd(SeqNo(new.buf.at), d) = SeqNo(new.buf.at + d)
    BY <2>1, Adds
  <2>3. SeqNo(z) \in SeqNumbers
    BY <2>1, Adds
  <2> QED  BY <1>3, <2>1, <2>2, <2>3
<1>5. CutStart(new, e) = [start |-> SeqNo(z), buf |-> [at |-> z, len |-> new.buf.len - d]]
  BY <1>3, <1>4 DEF CutStart, Adjust, d
<1>6. z \in 0..Length /\ new.buf.len - d \in 0..Length
  BY <1>2, <1>3
<1> QED  BY <1>2, <1>3, <1>4, <1>5, <1>6 DEF Fits, Entries, Buffers

LEMMA ComparedKeeps ==
  ASSUME Assumptions, NEW w \in Nat, NEW p \in Searches(w)
  PROVE  Compared(p) \in Searches(w)
<1> DEFINE q == p.store
           new == p.new
           i == p.i
           e == p.store[p.i]
<1>1. q \in Seq(Fits(w)) /\ new \in Fits(w) /\ i \in Nat
  BY DEF Searches
<1>2. CASE i = 0
  BY <1>2 DEF Compared, Stores, Shortens
<1>3. CASE i > Len(q)
  <2>1. Compared(p) = Stores(p, Append(q, new), 0)
    BY <1>1, <1>3 DEF Compared, Stores, Shortens
  <2>2. Append(q, new) \in Seq(Fits(w))
    BY <1>1
  <2> QED  BY <2>1, <2>2, SearchGoesOn
<1>4. CASE i # 0 /\ ~(i > Len(q))
  <2>1. i \in 1..Len(q) /\ e \in Fits(w)
    BY <1>1, <1>4
  <2>2. /\ SeqLt(new.start, e.start) <=> new.buf.at < e.buf.at
        /\ SeqLt(End(new), e.start) <=> new.buf.at + new.buf.len - 1 < e.buf.at
        /\ SeqLe(End(new), End(e)) <=> new.buf.at + new.buf.len <= e.buf.at + e.buf.len
        /\ SeqLt(End(e), new.start) <=> e.buf.at + e.buf.len - 1 < new.buf.at
    BY <1>1, <2>1, ComparisonsAre
  <2>3. InsertAt(q, i, new) \in Seq(Fits(w)) /\ RemoveAt(q, i) \in Seq(Fits(w))
    BY <1>1, <2>1, InsertKeeps
  <2>4. CASE SeqLt(new.start, e.start) /\ SeqLt(End(new), e.start)
    <3>1. Compared(p) = Stores(p, InsertAt(q, i, new), 0)
      BY <1>4, <2>4 DEF Compared, Stores, Shortens
    <3> QED  BY <2>3, <3>1, SearchGoesOn
  <2>5. CASE SeqLt(new.start, e.start) /\ ~SeqLt(End(new), e.start)
    <3>1. CutTail(new, e) \in Fits(w)
      <4>1. e.buf.at <= new.buf.at + new.buf.len - 1
        <5>1. e.buf.at \in Nat /\ new.buf.at \in Nat /\ new.buf.len \in Nat
          BY <1>1, <2>1, EndIs
        <5> QED  BY <2>2, <2>5, <5>1
      <4> QED  BY <1>1, <2>1, <2>2, <2>5, <4>1, CutTailKeeps
    <3>2. Append(q, CutTail(new, e)) \in Seq(Fits(w))
      BY <1>1, <3>1
    <3>3. \/ Compared(p) = Stores(p, RemoveAt(q, i), 1)
          \/ Compared(p) = Stores(p, Append(q, CutTail(new, e)), 0)
      BY <1>4, <2>5 DEF Compared, Stores, Shortens
    <3> QED  BY <2>3, <3>2, <3>3, SearchGoesOn
  <2>6. CASE ~SeqLt(new.start, e.start) /\ SeqLe(End(new), End(e))
    <3>1. Compared(p) = Stores(p, q, 0)
      BY <1>4, <2>6 DEF Compared, Stores, Shortens
    <3> QED  BY <1>1, <3>1, SearchGoesOn
  <2>7. CASE ~SeqLt(new.start, e.start) /\ ~SeqLe(End(new), End(e))
    <3> DEFINE r == IF SeqLt(End(e), new.start) THEN new ELSE CutStart(new, e)
    <3>1. Compared(p) = Shortens(p, r, i + 1)
      BY <1>4, <2>7 DEF Compared, Stores, Shortens
    <3>2. r \in Fits(w)
      <4>1. CASE SeqLt(End(e), new.start)
        BY <1>1, <4>1
      <4>2. CASE ~SeqLt(End(e), new.start)
        <5>1. /\ e.buf.at \in Nat /\ e.buf.len \in Nat
              /\ new.buf.at \in Nat /\ new.buf.len \in Nat
          BY <1>1, <2>1, EndIs
        <5>2. /\ new.buf.at <= e.buf.at + e.buf.len - 1
              /\ e.buf.at + e.buf.len < new.buf.at + new.buf.len
          BY <2>2, <2>7, <4>2, <5>1
        <5>3. CutStart(new, e) \in Fits(w)
          BY <1>1, <2>1, <5>2, CutStartKeeps
        <5> QED  BY <4>2, <5>3
      <4> QED  BY <4>1, <4>2
    <3>3. i + 1 \in Nat
      BY <1>1
    <3> QED  BY <3>1, <3>2, <3>3, SearchGoesOn
  <2> QED  BY <2>4, <2>5, <2>6, <2>7
<1> QED  BY <1>2, <1>3, <1>4

-----------------------------------------------------------------------------
(* A whole search: the recursive function of Search exists, and each of    *)
(* its values is a search.                                                 *)

Start(store, new) == [store |-> store, new |-> new, i |-> 1]
IsSearch(g, m, store, new) ==
  g = [n \in 0..m |-> IF n = 0 THEN Start(store, new) ELSE Compared(g[n - 1])]

LEMMA SearchesExist ==
  ASSUME NEW store, NEW new, NEW K \in Nat
  PROVE  \E g : IsSearch(g, K, store, new)
<1> DEFINE S == {m \in Nat : \E g : IsSearch(g, m, store, new)}
<1>1. 0 \in S
  <2> DEFINE g == [n \in 0..0 |-> Start(store, new)]
  <2>1. g = [n \in 0..0 |-> IF n = 0 THEN Start(store, new) ELSE Compared(g[n - 1])]
    OBVIOUS
  <2>2. IsSearch(g, 0, store, new)
    BY <2>1 DEF IsSearch
  <2> QED  BY <2>2
<1>2. ASSUME NEW m \in Nat, m \in S PROVE m + 1 \in S
  <2>1. PICK g : IsSearch(g, m, store, new)
    BY <1>2
  <2>2. /\ g = [n \in 0..m |-> g[n]]
        /\ g[0] = Start(store, new)
        /\ \A n \in 1..m : g[n] = Compared(g[n - 1])
    BY <2>1 DEF IsSearch
  <2> DEFINE last == Compared(g[m])
             h == [n \in 0..(m + 1) |-> IF n = m + 1 THEN last ELSE g[n]]
  <2>3. h[0] = Start(store, new) /\ h[m + 1] = Compared(h[m])
    BY <2>2
  <2>4. ASSUME NEW n \in 1..m PROVE h[n] = Compared(h[n - 1])
    <3>1. n \in 0..(m + 1) /\ n - 1 \in 0..(m + 1) /\ n # m + 1 /\ n - 1 # m + 1
      OBVIOUS
    <3>2. h[n] = g[n] /\ h[n - 1] = g[n - 1]
      BY <3>1
    <3> HIDE DEF h
    <3> QED  BY <2>2, <3>2
  <2>5. h = [n \in 0..(m + 1) |-> h[n]]
    OBVIOUS
  <2> HIDE DEF h
  <2>6. \A n \in 0..(m + 1) : h[n] = IF n = 0 THEN Start(store, new) ELSE Compared(h[n - 1])
    <3>1. \A n \in 0..(m + 1) : n = 0 \/ n \in 1..m \/ (n = m + 1 /\ n - 1 = m /\ n # 0)
      OBVIOUS
    <3> QED  BY <2>3, <2>4, <3>1
  <2>7. h = [n \in 0..(m + 1) |-> IF n = 0 THEN Start(store, new) ELSE Compared(h[n - 1])]
    BY <2>5, <2>6
  <2>8. IsSearch(h, m + 1, store, new)
    BY <2>7 DEF IsSearch
  <2> QED  BY <2>8
<1> HIDE DEF S
<1>3. Nat \subseteq S
  BY <1>1, <1>2, Induction
<1> QED  BY <1>3 DEF S

LEMMA SearchIs ==
  ASSUME NEW store, NEW new, Steps(store) \in Nat
  PROVE  IsSearch(Search(store, new), Steps(store), store, new)
<1>1. PICK g : IsSearch(g, Steps(store), store, new)
  BY SearchesExist
<1>2. g = [n \in 0..Steps(store) |->
              IF n = 0 THEN [store |-> store, new |-> new, i |-> 1] ELSE Compared(g[n - 1])]
  BY <1>1 DEF IsSearch, Start
<1> QED  BY <1>2, Zenon DEF Search, IsSearch, Start

(* What the store holds after a search is as well labelled as before.      *)
LEMMA PlaceKeeps ==
  ASSUME Assumptions, NEW w \in Nat, NEW store \in Seq(Fits(w)), NEW new \in Fits(w)
  PROVE  Place(store, new) \in Seq(Fits(w))
<1> DEFINE K == Steps(store)
           s == Search(store, new)
           S == {n \in Nat : n <= K => s[n] \in Searches(w)}
<1>1. K \in Nat
  BY DEF Steps
<1>2. s = [n \in 0..K |-> IF n = 0 THEN Start(store, new) ELSE Compared(s[n - 1])]
  BY <1>1, SearchIs DEF IsSearch
<1> HIDE DEF K, s
<1>3. 0 \in S
  <2>1. s[0] = Start(store, new)
    BY <1>1, <1>2
  <2>2. 1 \in Nat
    OBVIOUS
  <2>3. Start(store, new) \in Searches(w)
    BY <2>2 DEF Start, Searches
  <2> QED  BY <2>1, <2>3
<1>4. ASSUME NEW n \in Nat, n \in S PROVE n + 1 \in S
  <2>1. CASE n + 1 <= K
    <3>1. n + 1 \in 0..K /\ n + 1 # 0 /\ (n + 1) - 1 = n /\ n <= K
      BY <1>1, <2>1
    <3>2. s[n + 1] = Compared(s[n])
      BY <1>2, <3>1
    <3>3. s[n] \in Searches(w)
      BY <1>4, <3>1
    <3> QED  BY <3>2, <3>3, ComparedKeeps
  <2>2. CASE ~(n + 1 <= K)
    BY <2>2
  <2> QED  BY <2>1, <2>2
<1> HIDE DEF S
<1>5. Nat \subseteq S
  BY <1>3, <1>4, Induction
<1>6. s[K] \in Searches(w)
  BY <1>1, <1>5 DEF S
<1> QED  BY <1>6 DEF Place, Searches, s, K

(* Every comparison brings the search nearer to its end: what is left to   *)
(* compare, when each removal costs one more pass through the store.       *)
Left(p, b) == Len(p.store) * b + Len(p.store) + 2 - p.i
GoesOn(p, b) == p.i # 0 /\ p.i <= Len(p.store) + 1 /\ Len(p.store) < b

LEMMA ComparedAdvances ==
  ASSUME NEW w, NEW p \in Searches(w), NEW b \in Nat, GoesOn(p, b), Compared(p).i # 0
  PROVE  GoesOn(Compared(p), b) /\ Left(Compared(p), b) < Left(p, b)
<1> DEFINE q == p.store
           i == p.i
           n == Len(q)
           c == Compared(p)
<1>1. /\ q \in Seq(Fits(w)) /\ i \in Nat /\ n \in Nat /\ i # 0 /\ i <= n + 1 /\ n < b
      /\ p \in [store: Seq(Fits(w)), new: Fits(w), i: Nat]
  BY DEF Searches, GoesOn
<1>2. ~(i > n)
  BY <1>1 DEF Compared
<1>3. \/ c.store = RemoveAt(q, i) /\ c.i = 1
      \/ c.store = q /\ c.i = i + 1
  BY <1>1, <1>2 DEF Compared
<1>4. i \in 1..n
  BY <1>1, <1>2
<1>5. CASE c.store = q /\ c.i = i + 1
  <2> DEFINE x == n * b
  <2>1. x \in Nat
    BY <1>1
  <2>2. Left(c, b) = x + n + 2 - (i + 1) /\ Left(p, b) = x + n + 2 - i
    BY <1>5 DEF Left
  <2> HIDE DEF x
  <2>3. Left(c, b) < Left(p, b)
    BY <1>1, <2>1, <2>2
  <2>4. GoesOn(c, b)
    BY <1>1, <1>4, <1>5 DEF GoesOn
  <2> QED  BY <2>3, <2>4
<1>6. CASE c.store = RemoveAt(q, i) /\ c.i = 1
  <2> DEFINE x == n * b
             y == (n - 1) * b
  <2>1. Len(RemoveAt(q, i)) = n - 1
    BY <1>1, <1>4, RemovedLength
  <2>2. x \in Nat /\ y \in Nat /\ y = x - b
    BY <1>1, <1>4
  <2>3. Left(c, b) = y + (n - 1) + 2 - 1 /\ Left(p, b) = x + n + 2 - i
    BY <1>6, <2>1 DEF Left
  <2> HIDE DEF x, y
  <2>4. Left(c, b) < Left(p, b)
    BY <1>1, <1>4, <2>2, <2>3
  <2>5. GoesOn(c, b)
    BY <1>1, <1>4, <1>6, <2>1 DEF GoesOn
  <2> QED  BY <2>4, <2>5
<1> QED  BY <1>3, <1>5, <1>6

(* The loops of store_out_of_order_segment end, and Search goes as far.    *)
LEMMA SearchEnds ==
  ASSUME Assumptions, NEW w \in Nat, NEW store \in Seq(Fits(w)), NEW new \in Fits(w)
  PROVE  Search(store, new)[Steps(store)].i = 0
<1> DEFINE K == Steps(store)
           b == Len(store) + 1
           s == Search(store, new)
           S == {n \in Nat : n <= K =>
                    /\ s[n] \in Searches(w)
                    /\ s[n].i = 0 \/ (GoesOn(s[n], b) /\ Left(s[n], b) + n <= K)}
<1>1. K \in Nat /\ b \in Nat
  BY DEF Steps
<1>2. s = [n \in 0..K |-> IF n = 0 THEN Start(store, new) ELSE Compared(s[n - 1])]
  BY <1>1, SearchIs DEF IsSearch
<1>3. GoesOn(Start(store, new), b) /\ Left(Start(store, new), b) + 0 <= K
  <2> DEFINE m == Len(store)
             x == m * (m + 1)
  <2>1. m \in Nat /\ x \in Nat /\ (m + 1) * (m + 1) = x + (m + 1)
    OBVIOUS
  <2>2. Left(Start(store, new), b) = x + m + 2 - 1 /\ K = (m + 1) * (m + 1)
    BY DEF Left, Start, Steps
  <2>3. Left(Start(store, new), b) = K
    <3> HIDE DEF m, x, K, b
    <3> QED  BY <2>1, <2>2
  <2>4. GoesOn(Start(store, new), b)
    BY <2>1 DEF GoesOn, Start
  <2> HIDE DEF K
  <2> QED  BY <1>1, <2>3, <2>4
<1> HIDE DEF K, s, b
<1>4. 0 \in S
  <2>1. s[0] = Start(store, new)
    BY <1>1, <1>2
  <2>2. Start(store, new) \in Searches(w)
    BY DEF Start, Searches
  <2> QED  BY <1>3, <2>1, <2>2
<1>5. ASSUME NEW n \in Nat, n \in S PROVE n + 1 \in S
  <2> SUFFICES ASSUME n + 1 <= K
               PROVE  /\ s[n + 1] \in Searches(w)
                      /\ s[n + 1].i = 0 \/ (GoesOn(s[n + 1], b) /\ Left(s[n + 1], b) + (n + 1) <= K)
    OBVIOUS
  <2>1. n + 1 \in 0..K /\ n + 1 # 0 /\ (n + 1) - 1 = n /\ n <= K
    BY <1>1
  <2>2. s[n + 1] = Compared(s[n])
    BY <1>2, <2>1
  <2> DEFINE p == s[n]
  <2>3. p \in Searches(w) /\ (p.i = 0 \/ (GoesOn(p, b) /\ Left(p, b) + n <= K))
    BY <1>5, <2>1
  <2> HIDE DEF p, S
  <2>4. Compared(p) \in Searches(w)
    BY <2>3, ComparedKeeps
  <2>5. p.i = 0 => Compared(p).i = 0
    BY DEF Compared
  <2>6. ASSUME Compared(p).i # 0
        PROVE  GoesOn(Compared(p), b) /\ Left(Compared(p), b) + (n + 1) <= K
    <3>1. GoesOn(p, b) /\ Left(p, b) + n <= K
      BY <2>3, <2>5, <2>6
    <3>2. GoesOn(Compared(p), b) /\ Left(Compared(p), b) < Left(p, b)
      BY <1>1, <2>3, <2>6, <3>1, ComparedAdvances
    <3>3. Left(p, b) \in Int /\ Left(Compared(p), b) \in Int
      BY <1>1, <2>3, <2>4 DEF Left, Searches
    <3> QED  BY <1>1, <3>1, <3>2, <3>3
  <2> QED  BY <2>2, <2>4, <2>6 DEF p
<1> HIDE DEF S
<1>6. Nat \subseteq S
  BY <1>4, <1>5, Induction
<1>7. s[K] \in Searches(w) /\ (s[K].i = 0 \/ (GoesOn(s[K], b) /\ Left(s[K], b) + K <= K))
  BY <1>1, <1>6 DEF S
<1> DEFINE p == s[K]
<1>8. p \in Searches(w) /\ (p.i = 0 \/ (GoesOn(p, b) /\ Left(p, b) + K <= K))
  BY <1>7
<1> HIDE DEF p
<1>9. ASSUME GoesOn(p, b) PROVE Left(p, b) > 0 /\ Left(p, b) \in Int
  <2> DEFINE n == Len(p.store)
             x == n * b
  <2>1. n \in Nat /\ x \in Nat /\ p.i \in Nat /\ p.i <= n + 1
    BY <1>1, <1>8, <1>9 DEF Searches, GoesOn
  <2>2. Left(p, b) = x + n + 2 - p.i
    BY DEF Left
  <2> HIDE DEF n, x
  <2> QED  BY <2>1, <2>2
<1>10. p.i = 0
  BY <1>1, <1>8, <1>9
<1> QED  BY <1>10 DEF p, s, K

LEMMA StoredKeeps ==
  ASSUME Assumptions, NEW w \in Nat, NEW store \in Seq(Fits(w)), NEW new \in Fits(w)
  PROVE  /\ Stored(store, new) \in Seq(Fits(w))
         /\ Len(Stored(store, new)) <= MaxOutOfOrder
<1> DEFINE placed == Place(store, new)
           n == IF Len(placed) > MaxOutOfOrder THEN MaxOutOfOrder ELSE Len(placed)
<1>1. placed \in Seq(Fits(w)) /\ MaxOutOfOrder \in Nat
  BY PlaceKeeps DEF Assumptions, ReceiverAssumption
<1>2. n \in 0..Len(placed) /\ n <= MaxOutOfOrder /\ n \in Nat
  BY <1>1
<1>3. Stored(store, new) = SubSeq(placed, 1, n)
  BY DEF Stored
<1> HIDE DEF placed, n
<1>4. SubSeq(placed, 1, n) \in Seq(Fits(w)) /\ Len(SubSeq(placed, 1, n)) = n
  BY <1>1, <1>2, SubSeqProperties
<1> QED  BY <1>2, <1>3, <1>4

(* How much of the store follows on from a position. *)
LEMMA MergesIs ==
  ASSUME Assumptions, NEW w \in Nat, NEW store \in Seq(Fits(w)), NEW z \in Positions
  PROVE  LET k == Merges(store, SeqNo(z)) IN
         /\ k \in 0..Len(store)
         /\ \A i \in 1..k :
              store[i].buf.at = IF i = 1 THEN z ELSE store[i - 1].buf.at + store[i - 1].buf.len
<1> DEFINE From(i) == IF i = 1 THEN SeqNo(z) ELSE SeqAdd(End(store[i - 1]), 1)
           Follows == {k \in 0..Len(store) : \A i \in 1..k : store[i].start = From(i)}
           T == {Len(store) - k : k \in Follows}
           k == Merges(store, SeqNo(z))
<1>1. Len(store) \in Nat
  OBVIOUS
<1>2. 0 \in Follows
  BY <1>1
<1>3. T \in SUBSET Nat /\ T # {}
  BY <1>1, <1>2
<1>4. PICK x \in T : \A y \in T : x <= y
  BY <1>3, LeastNumber
<1>5. PICK m \in Follows : x = Len(store) - m
  BY <1>4
<1>6. \A j \in Follows : j <= m
  <2>1. ASSUME NEW j \in Follows PROVE j <= m
    <3>1. Len(store) - j \in T /\ j \in Nat /\ m \in Nat
      BY <1>1
    <3>2. Len(store) - m <= Len(store) - j
      BY <1>4, <1>5, <3>1
    <3> QED  BY <1>1, <3>1, <3>2
  <2> QED  BY <2>1
<1>7. k = CHOOSE n \in Follows : \A j \in Follows : j <= n
  BY DEF Merges
<1>8. k \in Follows
  <2> HIDE DEF k, Follows
  <2> QED  BY <1>6, <1>7
<1>9. ASSUME NEW i \in 1..k
      PROVE  store[i].buf.at = IF i = 1 THEN z ELSE store[i - 1].buf.at + store[i - 1].buf.len
  <2>1. k \in 0..Len(store) /\ store[i].start = From(i)
    BY <1>8
  <2>2. i \in 1..Len(store) /\ store[i] \in Fits(w)
    BY <1>1, <2>1
  <2>3. store[i].start = SeqNo(store[i].buf.at) /\ store[i].buf.at \in Positions
    BY <2>2, EndIs
  <2>4. CASE i = 1
    BY <2>1, <2>3, <2>4, Numbers
  <2>5. CASE i # 1
    <3> DEFINE f == store[i - 1]
               y == f.buf.at + f.buf.len
    <3>1. f \in Fits(w)
      <4>1. i - 1 \in 1..Len(store)
        BY <1>1, <2>2, <2>5
      <4> QED  BY <4>1
    <3>2. SeqAdd(End(f), 1) = SeqNo(y) /\ y \in Positions
      <4>1. SeqAdd(End(f), 1) = SeqNo(f.buf.at + f.buf.len)
            /\ f.buf.at \in Nat /\ f.buf.len \in Nat /\ f.buf.at + f.buf.len <= Length
        BY <3>1, EndIs
      <4>2. Length \in Nat /\ Window \in Nat
        BY DEF Assumptions, ReceiverAssumption
      <4>3. y \in Nat /\ y <= Length
        <5> HIDE DEF f
        <5> QED  BY <4>1
      <4>4. y \in Positions
        <5> HIDE DEF y
        <5> QED  BY <4>2, <4>3 DEF Positions
      <4> QED  BY <4>1, <4>4
    <3>3. store[i].start = SeqNo(y)
      BY <2>1, <2>5, <3>2
    <3> HIDE DEF y
    <3>4. store[i].buf.at = y
      BY <2>3, <3>2, <3>3, Numbers
    <3> QED  BY <2>5, <3>4 DEF y
  <2> QED  BY <2>4, <2>5
<1> QED  BY <1>8, <1>9
-----------------------------------------------------------------------------
(* Queues of buffers that are a stretch of the stream. *)

Stretches == Seq([at: Nat, len: Nat])
Contiguous(q, r) ==
  \A i \in DOMAIN q : /\ q[i].len > 0
                      /\ q[i].at = IF i = 1 THEN r ELSE q[i - 1].at + q[i - 1].len
EndOf(q, r) == IF q = <<>> THEN r ELSE Last(q).at + Last(q).len

LEMMA StretchType ==
  ASSUME NEW q \in Stretches
  PROVE  /\ Len(q) \in Nat /\ DOMAIN q = 1..Len(q)
         /\ \A i \in 1..Len(q) : q[i].at \in Nat /\ q[i].len \in Nat
         /\ q = <<>> <=> Len(q) = 0
         /\ \A r : EndOf(q, r) = IF Len(q) = 0 THEN r ELSE q[Len(q)].at + q[Len(q)].len
<1>1. \A i \in 1..Len(q) : q[i] \in [at: Nat, len: Nat]
  BY ElementOfSeq DEF Stretches
<1>2. Len(q) \in Nat /\ DOMAIN q = 1..Len(q)
  BY LenProperties DEF Stretches
<1>3. q = <<>> <=> Len(q) = 0
  <2>1. Len(q) \in Nat /\ Len(<<>>) = 0
    BY <1>2, EmptySeq
  <2>2. q # <<>> => Len(q) \in Nat \ {0}
    BY EmptySeq DEF Stretches
  <2> QED  BY <2>1, <2>2
<1> QED  BY <1>1, <1>2, <1>3 DEF EndOf, Last

(* Its parts come one after the other. *)
LEMMA StretchGrows ==
  ASSUME NEW q \in Stretches, NEW r \in Nat, Contiguous(q, r)
  PROVE  /\ \A i \in 1..Len(q) : q[1].at + q[1].len <= q[i].at + q[i].len
         /\ EndOf(q, r) \in Nat /\ r <= EndOf(q, r)
         /\ Len(q) > 0 => q[1].at + q[1].len <= EndOf(q, r) /\ q[1].at = r
<1> DEFINE S == {n \in Nat : n \in 1..Len(q) => q[1].at + q[1].len <= q[n].at + q[n].len}
<1>1. 0 \in S
  OBVIOUS
<1>2. ASSUME NEW n \in Nat, n \in S PROVE n + 1 \in S
  <2>1. CASE n = 0
    <3>1. n + 1 = 1
      BY <2>1
    <3>2. 1 \in 1..Len(q) => q[1].at \in Nat /\ q[1].len \in Nat
      BY StretchType
    <3> QED  BY <3>1, <3>2
  <2>2. CASE n # 0 /\ n + 1 \in 1..Len(q)
    <3>1. n \in 1..Len(q) /\ n + 1 # 1 /\ (n + 1) - 1 = n /\ 1 \in 1..Len(q)
      BY <2>2, StretchType
    <3>2. q[n + 1].at = q[n].at + q[n].len /\ q[n + 1].len > 0
      BY <2>2, <3>1, StretchType DEF Contiguous
    <3>3. q[1].at + q[1].len <= q[n].at + q[n].len
      BY <1>2, <3>1
    <3>4. q[n].at \in Nat /\ q[n].len \in Nat /\ q[n + 1].len \in Nat
          /\ q[1].at \in Nat /\ q[1].len \in Nat
      BY <2>2, <3>1, StretchType
    <3> DEFINE x == q[n].at + q[n].len
               y == q[1].at + q[1].len
    <3>5. x \in Nat /\ y \in Nat /\ y <= x /\ q[n + 1].at = x
      BY <3>2, <3>3, <3>4
    <3> HIDE DEF x, y
    <3>6. y <= q[n + 1].at + q[n + 1].len
      BY <3>2, <3>4, <3>5
    <3> QED  BY <3>6 DEF y
  <2>3. CASE ~(n + 1 \in 1..Len(q))
    BY <2>3
  <2> QED  BY <2>1, <2>2, <2>3
<1> HIDE DEF S
<1>3. Nat \subseteq S
  BY <1>1, <1>2, Induction
<1>4. ASSUME NEW i \in 1..Len(q) PROVE q[1].at + q[1].len <= q[i].at + q[i].len
  <2>1. i \in Nat
    BY StretchType
  <2> QED  BY <1>3, <2>1 DEF S
<1>5. ASSUME Len(q) > 0
      PROVE  /\ q[1].at + q[1].len <= EndOf(q, r) /\ q[1].at = r /\ q[1].len > 0
             /\ q[1].at \in Nat /\ q[1].len \in Nat /\ EndOf(q, r) \in Nat
  <2>1. 1 \in 1..Len(q) /\ Len(q) \in 1..Len(q)
    BY <1>5, StretchType
  <2>2. q[1].at = r /\ q[1].len > 0
    BY <2>1, StretchType DEF Contiguous
  <2> QED  BY <1>4, <1>5, <2>1, <2>2, StretchType
<1>6. Len(q) = 0 => EndOf(q, r) = r
  BY StretchType
<1> QED  BY <1>4, <1>5, <1>6, StretchType

LEMMA StretchesJoin ==
  ASSUME NEW p \in Stretches, NEW q \in Stretches, NEW r \in Nat,
         Contiguous(p, r), Contiguous(q, EndOf(p, r))
  PROVE  /\ p \o q \in Stretches /\ Contiguous(p \o q, r)
         /\ EndOf(p \o q, r) = EndOf(q, EndOf(p, r))
<1> DEFINE s == p \o q
           m == Len(p)
           n == Len(q)
<1>1. /\ s \in Stretches /\ Len(s) = m + n
      /\ \A i \in 1..m : s[i] = p[i]
      /\ \A i \in 1..n : s[m + i] = q[i]
  BY ConcatProperties DEF Stretches
<1>2. m \in Nat /\ n \in Nat
  BY StretchType
<1> HIDE DEF s
<1>3. ASSUME NEW i \in 1..m
      PROVE  s[i].len > 0 /\ s[i].at = IF i = 1 THEN r ELSE s[i - 1].at + s[i - 1].len
  <2>1. p[i].len > 0 /\ p[i].at = IF i = 1 THEN r ELSE p[i - 1].at + p[i - 1].len
    BY StretchType DEF Contiguous
  <2>2. i # 1 => i - 1 \in 1..m
    BY <1>2
  <2> HIDE DEF m
  <2> QED  BY <1>1, <2>1, <2>2
<1>4. ASSUME NEW i \in 1..n
      PROVE  /\ s[m + i].len > 0
             /\ s[m + i].at = IF m + i = 1 THEN r ELSE s[m + i - 1].at + s[m + i - 1].len
  <2>1. q[i].len > 0 /\ q[i].at = IF i = 1 THEN EndOf(p, r) ELSE q[i - 1].at + q[i - 1].len
    BY StretchType DEF Contiguous
  <2>2. s[m + i] = q[i]
    BY <1>1
  <2>3. CASE i # 1
    <3>1. i - 1 \in 1..n /\ m + i # 1 /\ m + i - 1 = m + (i - 1)
      BY <1>2, <2>3
    <3>2. s[m + (i - 1)] = q[i - 1]
      BY <1>1, <3>1
    <3> QED  BY <2>1, <2>2, <2>3, <3>1, <3>2
  <2>4. CASE i = 1 /\ m = 0
    <3>1. EndOf(p, r) = r
      BY <2>4, StretchType
    <3> QED  BY <2>1, <2>2, <2>4, <3>1
  <2>5. CASE i = 1 /\ m # 0
    <3>1. m \in 1..m /\ m + i # 1 /\ m + i - 1 = m
      BY <1>2, <2>5
    <3>2. EndOf(p, r) = p[m].at + p[m].len /\ s[m] = p[m]
      BY <1>1, <2>5, <3>1, StretchType
    <3> QED  BY <2>1, <2>2, <2>5, <3>1, <3>2
  <2> QED  BY <2>3, <2>4, <2>5
<1>5. Contiguous(s, r)
  <2>1. ASSUME NEW i \in DOMAIN s
        PROVE  s[i].len > 0 /\ s[i].at = IF i = 1 THEN r ELSE s[i - 1].at + s[i - 1].len
    <3>1. i \in 1..(m + n)
      BY <1>1, StretchType
    <3>2. CASE i \in 1..m
      BY <1>3, <3>2
    <3>3. CASE i \notin 1..m
      <4> DEFINE j == i - m
      <4>1. j \in 1..n /\ m + j = i
        BY <1>2, <3>1, <3>3
      <4> HIDE DEF j
      <4> QED  BY <1>4, <4>1
    <3> QED  BY <3>2, <3>3
  <2> QED  BY <2>1 DEF Contiguous
<1>6. EndOf(s, r) = EndOf(q, EndOf(p, r))
  <2>1. CASE n = 0
    <3>1. EndOf(q, EndOf(p, r)) = EndOf(p, r)
      BY <2>1, StretchType
    <3>2. Len(s) = m
      BY <1>1, <1>2, <2>1
    <3>3. m # 0 => m \in 1..m
      BY <1>2
    <3>4. EndOf(s, r) = IF m = 0 THEN r ELSE s[m].at + s[m].len
      BY <1>1, <3>2, StretchType
    <3>5. EndOf(p, r) = IF m = 0 THEN r ELSE p[m].at + p[m].len
      BY StretchType
    <3> QED  BY <1>1, <3>1, <3>3, <3>4, <3>5
  <2>2. CASE n # 0
    <3>1. n \in 1..n /\ m + n # 0
      BY <1>2, <2>2
    <3>2. s[m + n] = q[n]
      BY <1>1, <3>1
    <3>3. EndOf(s, r) = s[m + n].at + s[m + n].len
      BY <1>1, <3>1, StretchType
    <3> QED  BY <2>2, <3>2, <3>3, StretchType
  <2> QED  BY <2>1, <2>2
<1> QED  BY <1>1, <1>5, <1>6 DEF s

LEMMA StretchShrinks ==
  ASSUME NEW q \in Stretches, NEW r \in Nat, Contiguous(q, r), q # <<>>
  PROVE  LET b == Head(q) IN
         /\ b.at = r /\ b.len \in Nat /\ b.len > 0
         /\ Tail(q) \in Stretches /\ Contiguous(Tail(q), b.at + b.len)
         /\ EndOf(Tail(q), b.at + b.len) = EndOf(q, r)
<1> DEFINE b == Head(q)
           t == Tail(q)
           n == Len(q)
<1>1. n \in Nat /\ n # 0 /\ 1 \in 1..n
  BY StretchType
<1>2. /\ b = q[1] /\ t \in Stretches /\ Len(t) = n - 1
      /\ \A i \in 1..(n - 1) : t[i] = q[i + 1]
  BY <1>1, HeadTailProperties DEF Stretches
<1>3. b.at = r /\ b.len > 0 /\ b.len \in Nat
  BY <1>1, <1>2, StretchType DEF Contiguous
<1> HIDE DEF b, t
<1>4. Contiguous(t, b.at + b.len)
  <2>1. ASSUME NEW i \in DOMAIN t
        PROVE  t[i].len > 0 /\ t[i].at = IF i = 1 THEN b.at + b.len ELSE t[i - 1].at + t[i - 1].len
    <3>1. i \in 1..(n - 1) /\ i + 1 \in 1..n /\ i + 1 # 1 /\ (i + 1) - 1 = i
      BY <1>1, <1>2, StretchType
    <3>2. t[i] = q[i + 1] /\ q[i + 1].len > 0 /\ q[i + 1].at = q[i].at + q[i].len
      BY <1>2, <3>1, StretchType DEF Contiguous
    <3>3. i # 1 => t[i - 1] = q[i]
      <4>1. i # 1 => i - 1 \in 1..(n - 1) /\ (i - 1) + 1 = i
        BY <1>1, <3>1
      <4> QED  BY <1>2, <4>1
    <3> QED  BY <1>2, <3>2, <3>3
  <2> QED  BY <2>1 DEF Contiguous
<1>5. EndOf(t, b.at + b.len) = EndOf(q, r)
  <2>1. EndOf(q, r) = q[n].at + q[n].len
    BY <1>1, StretchType
  <2>2. CASE n = 1
    BY <1>2, <2>1, <2>2, StretchType
  <2>3. CASE n # 1
    <3>1. n - 1 \in 1..(n - 1) /\ (n - 1) + 1 = n /\ n - 1 # 0
      <4> HIDE DEF n
      <4> QED  BY <1>1, <2>3
    <3>2. t[n - 1] = q[n]
      BY <1>2, <3>1
    <3>3. EndOf(t, b.at + b.len) = t[n - 1].at + t[n - 1].len
      BY <1>2, <3>1, StretchType
    <3> QED  BY <2>1, <3>2, <3>3
  <2> QED  BY <2>2, <2>3
<1> QED  BY <1>2, <1>3, <1>4, <1>5 DEF b, t
-----------------------------------------------------------------------------
(* The inductive invariant.                                                *)

(* The position of RCV.NXT. *)
Reached == IF FinReceived THEN Length + 1 ELSE Held

(* The numbers of the control block are those of positions, which follow   *)
(* each other: acknowledged, received, and no further than the window.     *)
Positioned ==
  /\ InPlace /\ Held <= Length
  /\ FinReceived => Held = Length
  /\ readerNext = SeqNo(read)
  /\ Running => receiveNext = SeqNo(Reached) /\ Reached <= read + Window
  /\ FitsBuffer
  /\ acked <= Reached

(* What is stored, and the FIN that is kept aside, fit in the window.      *)
StoreFits ==
  /\ outOfOrder \in Seq(Fits(read + Window))
  /\ outOfOrderFin # None =>
       outOfOrderFin = SeqNo(Length) /\ Length + 1 <= read + Window

Finished == {"CloseWait", "LastAck", "Closing", "TimeWait"}
FinFollowed ==
  /\ state \in Finished => FinReceived
  /\ Home /\ FinReceived /\ state # "Closed" => state \in Finished

ReceiverInv == TypeOK /\ Positioned /\ StoreFits /\ FinFollowed

LEMMA Facts ==
  ASSUME Assumptions, ReceiverInv
  PROVE  /\ Length \in Nat /\ Window \in Nat /\ Length + 1 \in Positions
         /\ read \in 0..Length /\ read \in Positions /\ read + Window \in Nat
         /\ recvQueue \in Stretches /\ Contiguous(recvQueue, read)
         /\ Held = EndOf(recvQueue, read)
         /\ Held \in 0..Length /\ Held \in Positions /\ read <= Held
         /\ Reached \in 0..(Length + 1) /\ Reached \in Positions /\ Held <= Reached
         /\ acked \in Nat /\ acked \in Positions
         /\ Running => At(Reached)
<1>1. Length \in Nat /\ Window \in Nat
  BY DEF Assumptions, ReceiverAssumption
<1>2. /\ read \in 0..Length /\ recvQueue \in Seq(Buffers) /\ acked \in Nat
      /\ InPlace /\ Held <= Length /\ acked <= Reached /\ readerNext = SeqNo(read)
      /\ Running => receiveNext = SeqNo(Reached) /\ Reached <= read + Window
  BY DEF ReceiverInv, TypeOK, Positioned
<1>3. recvQueue \in Stretches
  <2>1. Buffers \subseteq [at: Nat, len: Nat]
    BY <1>1 DEF Buffers
  <2> QED  BY <1>2, <2>1, SeqMonotonic DEF Stretches
<1>4. Contiguous(recvQueue, read) /\ Held = EndOf(recvQueue, read)
  BY <1>2 DEF InPlace, Contiguous, Held, EndOf
<1>5. EndOf(recvQueue, read) \in Nat /\ read <= EndOf(recvQueue, read)
  <2>1. read \in Nat
    BY <1>1, <1>2
  <2> QED  BY <1>3, <1>4, <2>1, StretchGrows
<1>6. Held \in 0..Length /\ read <= Held
  BY <1>1, <1>2, <1>4, <1>5
<1>7. Reached \in 0..(Length + 1) /\ Held <= Reached
  BY <1>1, <1>6 DEF Reached
<1>8. \A p \in 0..(Length + 1) : p \in Positions
  BY <1>1 DEF Positions
<1>9. acked \in 0..(Length + 1) /\ read \in 0..(Length + 1) /\ Held \in 0..(Length + 1)
      /\ Length + 1 \in 0..(Length + 1)
  BY <1>1, <1>2, <1>6, <1>7
<1>10. Running => At(Reached)
  BY <1>1, <1>2, <1>6, <1>7 DEF At
<1>11. read + Window \in Nat
  BY <1>1, <1>2
<1> QED  BY <1>1, <1>2, <1>3, <1>4, <1>6, <1>7, <1>8, <1>9, <1>10, <1>11

(* The FIN is received, or RCV.NXT is where the queue ends.                *)
LEMMA ReachedIs ==
  ASSUME Assumptions, ReceiverInv
  PROVE  /\ FinReceived <=> Reached = Length + 1
         /\ ~FinReceived => Reached = Held
         /\ FinReceived => Held = Length
BY Facts DEF ReceiverInv, Positioned, Reached

(* An acknowledgement of what is received by then. *)
Acks(next, deadline) ==
  \/ AckNow(next, deadline) \/ AckSoon(next) \/ Emit(next)
  \/ UNCHANGED <<ackDeadline, acked, edge>>

LEMMA Acknowledged ==
  ASSUME Assumptions, ReceiverInv, NEW R \in Positions, Reached <= R, R <= Length + 1,
         NEW d \in BOOLEAN, Acks(SeqNo(R), d)
  PROVE  acked' \in Nat /\ acked' <= R /\ edge' \in Nat /\ ackDeadline' \in BOOLEAN
<1>1. /\ acked \in Nat /\ acked \in Positions /\ edge \in Nat /\ ackDeadline \in BOOLEAN
      /\ acked <= Reached /\ readerNext = SeqNo(read)
      /\ read \in Nat /\ read \in Positions /\ read <= Reached /\ Reached \in Nat
      /\ R \in Nat /\ Window \in Nat
  <2>1. edge \in Nat /\ ackDeadline \in BOOLEAN /\ acked <= Reached /\ readerNext = SeqNo(read)
    BY DEF ReceiverInv, TypeOK, Positioned
  <2>2. R \in Nat
    BY DEF Positions
  <2> QED  BY <2>1, <2>2, Facts
<1>2. acked <= R /\ read <= R
  BY <1>1
<1>3. SeqSub(SeqNo(R), SeqNo(acked)) = R - acked /\ SeqSub(SeqNo(R), SeqNo(read)) = R - read
  BY <1>1, <1>2, Numbers
<1>4. ASSUME Emit(SeqNo(R)) PROVE acked' = R /\ edge' \in Nat /\ ackDeadline' \in BOOLEAN
  <2>1. /\ acked' = acked + (R - acked)
        /\ edge' = acked + (R - acked) + Window - (R - read)
        /\ ackDeadline' = FALSE
    BY <1>1, <1>3, <1>4 DEF Emit
  <2>2. acked + (R - acked) = R
    BY <1>1
  <2>3. R + Window - (R - read) = Window + read /\ Window + read \in Nat
    BY <1>1
  <2> QED  BY <2>1, <2>2, <2>3
<1>5. CASE Emit(SeqNo(R))
  BY <1>1, <1>4, <1>5
<1>6. CASE ackDeadline' \in BOOLEAN /\ UNCHANGED <<acked, edge>>
  BY <1>1, <1>2, <1>6
<1>7. Emit(SeqNo(R)) \/ (ackDeadline' \in BOOLEAN /\ UNCHANGED <<acked, edge>>)
  BY <1>1 DEF Acks, AckNow, AckSoon, peerVars
<1> QED  BY <1>5, <1>6, <1>7

(* A step after which the application has read as much as before.          *)
LEMMA Advances ==
  ASSUME Assumptions, ReceiverInv, Running,
         UNCHANGED <<read, readerNext>>, InPlace',
         NEW H \in 0..Length, Held' = H, Held <= H,
         NEW R \in Nat, R = H \/ (H = Length /\ R = Length + 1),
         receiveNext' = SeqNo(R), R <= read + Window,
         acked' <= R
  PROVE  Positioned' /\ (FinReceived' <=> R = Length + 1) /\ Reached' = R
<1>1. /\ Length \in Nat /\ Window \in Nat /\ Length + 1 \in Positions
      /\ read \in 0..Length /\ read \in Positions /\ readerNext = SeqNo(read)
      /\ read <= Held /\ Held \in Nat
  BY Facts DEF ReceiverInv, Positioned
<1>2. R \in Positions /\ read <= R
  BY <1>1 DEF Positions
<1>3. SeqNo(R) = SeqNo(Length + 1) <=> R = Length + 1
  BY <1>1, <1>2, Numbers
<1>4. FinReceived' <=> R = Length + 1
  BY <1>3 DEF FinReceived
<1>5. Reached' = R
  BY <1>1, <1>4 DEF Reached
<1>6. FitsBuffer'
  <2>1. Unread' = SeqSub(SeqNo(R), SeqNo(read))
    BY <1>1 DEF Unread
  <2>2. Unread' = R - read
    BY <1>1, <1>2, <2>1, Numbers
  <2> QED  BY <1>1, <2>2 DEF FitsBuffer
<1>7. FinReceived' => Held' = Length
  BY <1>1, <1>4
<1>8. readerNext' = SeqNo(read)'
  BY <1>1 DEF SeqNo, SeqAdd
<1> QED  BY <1>1, <1>4, <1>5, <1>6, <1>7, <1>8 DEF Positioned

LEMMA StaysPositioned ==
  ASSUME Assumptions, ReceiverInv, Running,
         UNCHANGED <<readerNext, receiveNext, recvQueue, read>>, acked' <= Reached
  PROVE  Positioned' /\ (FinReceived' <=> FinReceived) /\ Reached' = Reached
<1>1. /\ Held \in 0..Length /\ Reached \in Nat /\ receiveNext = SeqNo(Reached)
      /\ Reached <= read + Window /\ InPlace
  BY Facts DEF ReceiverInv, Positioned, At
<1>2. Reached = Held \/ (Held = Length /\ Reached = Length + 1)
  BY ReachedIs
<1>3. InPlace' /\ Held' = Held /\ receiveNext' = SeqNo(Reached)
  BY <1>1 DEF InPlace, Held
<1> DEFINE H == Held
           R == Reached
<1>4. /\ H \in 0..Length /\ Held' = H /\ Held <= H /\ R \in Nat
      /\ R = H \/ (H = Length /\ R = Length + 1)
      /\ receiveNext' = SeqNo(R) /\ R <= read + Window /\ acked' <= R
  BY <1>1, <1>2, <1>3
<1>5. Positioned' /\ (FinReceived' <=> R = Length + 1) /\ Reached' = R
  <2> HIDE DEF H, R
  <2> QED  BY <1>3, <1>4, Advances
<1> QED  BY <1>5, ReachedIs

LEMMA StoreStays ==
  ASSUME ReceiverInv, UNCHANGED <<outOfOrder, outOfOrderFin, read>>
  PROVE  StoreFits'
BY DEF ReceiverInv, StoreFits, Fits, SeqNo, SeqAdd

(* The state of the connection, where no FIN of the peer is new.           *)
Follows(st) ==
  /\ st \in States
  /\ st \in Finished => state \in Finished
  /\ st # "Closed" => state # "Closed" /\ (state \in Finished => st \in Finished)

LEMMA StatesFollow ==
  ASSUME state \in States, NEW acks \in BOOLEAN
  PROVE  /\ Follows(state) /\ Follows("Closed")
         /\ Follows(AfterAck(state, acks)) /\ Follows(AfterOurFin(state))
         /\ \A st \in States : st \in Receiving \/ st \in Finished \/ st = "Closed"
BY DEF Follows, AfterAck, AfterOurFin, States, Finished, Receiving

LEMMA FinStaysFollowed ==
  ASSUME ReceiverInv, FinReceived' <=> FinReceived, Follows(state'),
         UNCHANGED migrations
  PROVE  FinFollowed'
BY DEF ReceiverInv, FinFollowed, Follows, Home

(* Actions that leave the received data alone. *)
LEMMA QuietSteps ==
  ASSUME Assumptions, ReceiverInv, Running,
         \/ \E s \in Segments : ReceiveUnacceptable(s) \/ ReceiveReset(s)
         \/ Close \/ AckTimer \/ ArpChange
  PROVE  ReceiverInv'
<1>1. TypeOK
  BY DEF ReceiverInv
<1>2. UNCHANGED <<streamVars, read, migrations>>
  BY DEF ReceiveUnacceptable, ReceiveReset, Close, AckTimer, ArpChange
<1>3. /\ Follows(state') /\ ourFin' \in {"none", "sent", "acked"} /\ arp' \in BOOLEAN
      /\ halted' \in {"no", "panic", "spin"}
  BY <1>1, StatesFollow
     DEF TypeOK, ReceiveUnacceptable, ReceiveReset, Close, AckTimer, ArpChange
<1>4. Acks(SeqNo(Reached), ackDeadline)
  <2>1. receiveNext = SeqNo(Reached)
    BY Facts DEF At
  <2> QED  BY <2>1 DEF Acks, ReceiveUnacceptable, Reject, ReceiveReset, Close, AckTimer,
                       ArpChange, peerVars
<1>5. acked' \in Nat /\ acked' <= Reached /\ edge' \in Nat /\ ackDeadline' \in BOOLEAN
  <2>1. /\ Reached \in Positions /\ Reached <= Reached /\ Reached <= Length + 1
        /\ ackDeadline \in BOOLEAN
    BY <1>1, Facts DEF TypeOK
  <2> DEFINE R == Reached
  <2>2. R \in Positions /\ Reached <= R /\ R <= Length + 1 /\ Acks(SeqNo(R), ackDeadline)
    BY <1>4, <2>1
  <2> HIDE DEF R
  <2>3. acked' <= R /\ acked' \in Nat /\ edge' \in Nat /\ ackDeadline' \in BOOLEAN
    BY <2>1, <2>2, Acknowledged
  <2> QED  BY <2>3 DEF R
<1>6. Positioned' /\ (FinReceived' <=> FinReceived)
  BY <1>2, <1>5, StaysPositioned DEF streamVars
<1>7. StoreFits'
  BY <1>2, StoreStays DEF streamVars
<1>8. FinFollowed'
  BY <1>2, <1>3, <1>6, FinStaysFollowed
<1>9. TypeOK'
  BY <1>1, <1>2, <1>3, <1>5 DEF TypeOK, streamVars, Follows
<1> QED  BY <1>6, <1>7, <1>8, <1>9 DEF ReceiverInv

LEMMA MigrateKeeps ==
  ASSUME Assumptions, ReceiverInv, Running, Migrate
  PROVE  ReceiverInv'
<1>1. /\ UNCHANGED <<streamVars, acked, edge, read, ourFin, arp, halted>>
      /\ state' = "Established" /\ ackDeadline' = FALSE
      /\ migrations' = migrations - 1 /\ migrations > 0
  BY DEF Migrate, CarriedUnread, FromState, streamVars, peerVars
<1>2. TypeOK
  BY DEF ReceiverInv
<1>3. MaxMigrations \in Nat
  BY DEF Assumptions, ReceiverAssumption
<1>4. migrations' \in 0..MaxMigrations /\ migrations' # MaxMigrations
  BY <1>1, <1>2, <1>3 DEF TypeOK
<1>5. Positioned'
  <2>1. acked' <= Reached
    BY <1>1 DEF ReceiverInv, Positioned
  <2> QED  BY <1>1, <2>1, StaysPositioned DEF streamVars
<1>6. StoreFits'
  BY <1>1, StoreStays DEF streamVars
<1>7. FinFollowed'
  BY <1>1, <1>4 DEF FinFollowed, Finished, Home
<1>8. TypeOK'
  BY <1>1, <1>2, <1>4 DEF TypeOK, streamVars, States
<1> QED  BY <1>5, <1>6, <1>7, <1>8 DEF ReceiverInv

(* The application takes the first buffer. *)
LEMMA PollRecvKeeps ==
  ASSUME Assumptions, ReceiverInv, PollRecv
  PROVE  ReceiverInv'
<1> DEFINE b == Head(recvQueue)
           r == b.at + b.len
<1>1. /\ recvQueue # <<>> /\ Running
      /\ readerNext' = SeqAdd(readerNext, b.len) /\ read' = r
      /\ recvQueue' = Tail(recvQueue)
      /\ UNCHANGED <<receiveNext, outOfOrder, outOfOrderFin, state, ourFin,
                     ackDeadline, arp, halted, acked, edge, migrations>>
  BY DEF PollRecv, Pop, peerVars
<1>2. TypeOK
  BY DEF ReceiverInv
<1>3. /\ Length \in Nat /\ Window \in Nat /\ read \in 0..Length
      /\ recvQueue \in Stretches /\ Contiguous(recvQueue, read)
      /\ Held = EndOf(recvQueue, read) /\ Held \in 0..Length /\ Reached \in Nat
      /\ Held <= Reached /\ Reached <= read + Window /\ receiveNext = SeqNo(Reached)
      /\ readerNext = SeqNo(read) /\ read \in Nat /\ acked <= Reached
  BY <1>1, Facts DEF At, ReceiverInv, Positioned
<1>4. /\ b.at = read /\ b.len \in Nat /\ b.len > 0
      /\ recvQueue' \in Stretches /\ Contiguous(recvQueue', r)
      /\ EndOf(recvQueue', r) = Held
  BY <1>1, <1>3, StretchShrinks
<1>5. r \in Nat /\ r = read + b.len
  BY <1>3, <1>4
<1>6. r <= Held /\ read <= r
  <2>1. r <= EndOf(recvQueue', r)
    BY <1>4, <1>5, StretchGrows
  <2> QED  BY <1>3, <1>4, <1>5, <2>1
<1>7. readerNext' = SeqNo(r)
  <2> DEFINE n == b.len
  <2>1. read \in Nat /\ n \in Int
    BY <1>3, <1>4
  <2> HIDE DEF n
  <2>2. SeqAdd(SeqNo(read), n) = SeqNo(read + n)
    BY <2>1, Adds
  <2>3. SeqAdd(SeqNo(read), b.len) = SeqNo(read + b.len)
    BY <2>2 DEF n
  <2> QED  BY <1>1, <1>3, <1>5, <2>3
<1> HIDE DEF b, r
<1>8. Held' = Held /\ InPlace'
  BY <1>1, <1>4 DEF Held, EndOf, InPlace, Contiguous
<1>9. Reached' = Reached /\ (FinReceived' <=> FinReceived)
  BY <1>1, <1>8 DEF Reached, FinReceived, SeqNo, SeqAdd
<1>10. FitsBuffer'
  <2>1. Reached \in Positions /\ r \in Positions /\ r <= Reached /\ Reached <= r + Window
    <3>1. Reached \in Positions
      BY Facts
    <3> QED  BY <1>3, <1>5, <1>6, <3>1 DEF Positions
  <2>2. Unread' = SeqSub(SeqNo(Reached), SeqNo(r))
    BY <1>1, <1>3, <1>7 DEF Unread
  <2>3. Unread' = Reached - r
    BY <2>1, <2>2, Numbers
  <2>4. Reached \in Nat /\ r \in Nat
    BY <1>3, <1>5
  <2> QED  BY <1>3, <2>1, <2>3, <2>4 DEF FitsBuffer
<1>11. Positioned'
  <2>1. readerNext' = SeqNo(r)
    BY <1>7
  <2>2. (SeqNo(read))' = SeqNo(r) /\ (SeqNo(Reached))' = SeqNo(Reached)
    BY <1>1, <1>9 DEF SeqNo, SeqAdd
  <2>3. Reached' <= read' + Window /\ acked' <= Reached' /\ Held' <= Length
    BY <1>1, <1>3, <1>5, <1>6, <1>8, <1>9
  <2>4. FinReceived' => Held' = Length
    BY <1>8, <1>9, ReachedIs
  <2> QED  BY <1>1, <1>3, <1>8, <1>10, <2>1, <2>2, <2>3, <2>4 DEF Positioned
<1>12. StoreFits'
  <2>1. Fits(read + Window) \subseteq Fits(r + Window)
    <3>1. ASSUME NEW e \in Fits(read + Window) PROVE e \in Fits(r + Window)
      <4>1. e.buf.at + e.buf.len <= read + Window /\ e.buf.at \in Nat /\ e.buf.len \in Nat
        <5>1. read + Window \in Nat
          BY <1>3
        <5> QED  BY <5>1, EndIs
      <4>2. e.buf.at + e.buf.len <= r + Window
        BY <1>3, <1>5, <1>6, <4>1
      <4> QED  BY <4>2 DEF Fits
    <3> QED  BY <3>1
  <2>2. outOfOrder \in Seq(Fits(r + Window))
    <3>1. outOfOrder \in Seq(Fits(read + Window))
      BY DEF ReceiverInv, StoreFits
    <3> QED  BY <2>1, <3>1, SeqMonotonic
  <2>3. Fits(r + Window) = Fits(read + Window)'
    BY <1>1 DEF Fits, SeqNo, SeqAdd
  <2>4. outOfOrderFin # None => outOfOrderFin = SeqNo(Length) /\ Length + 1 <= r + Window
    BY <1>3, <1>5, <1>6 DEF ReceiverInv, StoreFits
  <2> QED  BY <1>1, <2>2, <2>3, <2>4 DEF StoreFits
<1>13. FinFollowed'
  <2>1. Follows(state)
    BY <1>2, StatesFollow DEF TypeOK
  <2> QED  BY <1>1, <1>9, <2>1, FinStaysFollowed DEF Follows
<1>14. TypeOK'
  <2>1. recvQueue' \in Seq(Buffers)
    <3>1. recvQueue \in Seq(Buffers)
      BY <1>2 DEF TypeOK
    <3> QED  BY <1>1, <3>1, HeadTailProperties
  <2>2. read' \in 0..Length
    BY <1>1, <1>3, <1>5, <1>6
  <2>3. readerNext' \in SeqNumbers
    BY <1>5, <1>7, Adds
  <2> QED  BY <1>1, <1>2, <2>1, <2>2, <2>3 DEF TypeOK
<1> QED  BY <1>11, <1>12, <1>13, <1>14 DEF ReceiverInv

(* What can be stored of a segment. *)
LEMMA SegmentFits ==
  ASSUME Assumptions, ReceiverInv, Running, NEW s \in Segments, Sendable(s), InWindow(s)
  PROVE  LET t == Trimmed(s) IN
         /\ Labelled(t) /\ Reached <= t.buf.at
         /\ t.buf.len > 0 => /\ t.buf \in Buffers
                             /\ [start |-> t.seq, buf |-> t.buf] \in Fits(read + Window)
         /\ t.fin => Length + 1 <= read + Window
         /\ t.seq = receiveNext => t.buf.at = Reached
<1> DEFINE t == Trimmed(s)
           N == Reached
<1>1. /\ Length \in Nat /\ Window \in Nat /\ read + Window \in Nat /\ N \in Positions
      /\ At(N) /\ receiveNext = SeqNo(N)
  BY Facts DEF At
<1> HIDE DEF N
<1>2. Labelled(s)
  BY SentAreLabelled
<1>3. /\ Labelled(t) /\ N <= t.buf.at
      /\ t.buf.len > 0 => t.buf.at + t.buf.len <= read + Window
      /\ t.fin => Length + 1 <= read + Window
  BY <1>1, <1>2, TrimmedIs
<1> HIDE DEF t
<1>4. ASSUME t.buf.len > 0
      PROVE  t.buf \in Buffers /\ [start |-> t.seq, buf |-> t.buf] \in Fits(read + Window)
  <2>1. /\ t.buf \in [at: Nat, len: Nat] /\ t.seq \in SeqNumbers
        /\ t.buf.at + t.buf.len <= Length /\ t.seq = SeqNo(t.buf.at)
    BY <1>3, <1>4 DEF Labelled
  <2>2. t.buf.at \in Nat /\ t.buf.len \in Nat /\ t.buf = [at |-> t.buf.at, len |-> t.buf.len]
    BY <2>1
  <2>3. t.buf \in Buffers
    BY <1>1, <2>1, <2>2 DEF Buffers
  <2> QED  BY <1>3, <1>4, <2>1, <2>3 DEF Fits, Entries
<1>5. t.seq = receiveNext => t.buf.at = N
  <2>1. t.buf.at \in Positions /\ t.seq = SeqNo(t.buf.at)
    BY <1>3, SegEndIs DEF Labelled
  <2> QED  BY <1>1, <2>1, Numbers
<1> QED  BY <1>3, <1>4, <1>5 DEF t, N

LEMMA OutOfOrderKeeps ==
  ASSUME Assumptions, ReceiverInv, Running, NEW s \in Segments, Sendable(s),
         ReceiveOutOfOrder(s)
  PROVE  ReceiverInv'
<1> DEFINE t == Trimmed(s)
           w == read + Window
           new == [start |-> t.seq, buf |-> t.buf]
<1>1. InWindow(s) /\ UNCHANGED <<readerNext, receiveNext, recvQueue, arp, halted, read, migrations>>
  BY DEF ReceiveOutOfOrder
<1>2. PICK acks \in BOOLEAN :
        /\ AckOfOurFin(acks)
        /\ state' = AfterAck(state, acks)
        /\ \/ /\ SegLen(t) > 0
              /\ outOfOrderFin' = IF t.fin THEN SegEnd(t) ELSE outOfOrderFin
              /\ outOfOrder' = IF t.buf.len > 0 THEN Stored(outOfOrder, new) ELSE outOfOrder
              /\ AckNow(receiveNext, ackDeadline)
           \/ UNCHANGED <<outOfOrder, outOfOrderFin, ackDeadline, acked, edge>>
  BY DEF ReceiveOutOfOrder
<1>3. /\ Labelled(t)
      /\ t.buf.len > 0 => new \in Fits(w)
      /\ t.fin => Length + 1 <= w
  BY <1>1, SegmentFits
<1>4. TypeOK
  BY DEF ReceiverInv
<1> HIDE DEF t, new
<1>5. acked' \in Nat /\ acked' <= Reached /\ edge' \in Nat /\ ackDeadline' \in BOOLEAN
  <2> DEFINE R == Reached
  <2>1. /\ R \in Positions /\ Reached <= R /\ R <= Length + 1 /\ ackDeadline \in BOOLEAN
        /\ receiveNext = SeqNo(R)
    BY <1>4, Facts DEF TypeOK, At
  <2>2. Acks(SeqNo(R), ackDeadline)
    BY <1>2, <2>1 DEF Acks
  <2> HIDE DEF R
  <2>3. acked' <= R /\ acked' \in Nat /\ edge' \in Nat /\ ackDeadline' \in BOOLEAN
    BY <2>1, <2>2, Acknowledged
  <2> QED  BY <2>3 DEF R
<1>6. Positioned' /\ (FinReceived' <=> FinReceived)
  BY <1>1, <1>5, StaysPositioned
<1>7. FinFollowed'
  <2>1. Follows(state')
    BY <1>2, <1>4, StatesFollow DEF TypeOK
  <2> QED  BY <1>1, <1>6, <2>1, FinStaysFollowed
<1>8. outOfOrder' \in Seq(Fits(w)) /\ Len(outOfOrder') <= MaxOutOfOrder
  <2>1. outOfOrder \in Seq(Fits(w)) /\ Len(outOfOrder) <= MaxOutOfOrder /\ w \in Nat
    BY <1>4, Facts DEF ReceiverInv, StoreFits, TypeOK
  <2> HIDE DEF w
  <2>2. new \in Fits(w) => Stored(outOfOrder, new) \in Seq(Fits(w))
                           /\ Len(Stored(outOfOrder, new)) <= MaxOutOfOrder
    BY <2>1, StoredKeeps
  <2> QED  BY <1>2, <1>3, <2>1, <2>2
<1>9. /\ outOfOrderFin' # None => outOfOrderFin' = SeqNo(Length) /\ Length + 1 <= w
      /\ outOfOrderFin' \in SeqNumbers \cup {None}
  <2>1. ASSUME t.fin, SegLen(t) > 0 PROVE SegEnd(t) = SeqNo(Length) /\ SegEnd(t) \in SeqNumbers
    <3>1. SegEnd(t) = SeqNo(t.buf.at + SegLen(t) - 1) /\ SegLen(t) = t.buf.len + 1
      BY <1>3, <2>1, SegEndIs
    <3>2. t.buf.at + t.buf.len = Length /\ t.buf.at \in Nat /\ t.buf.len \in Nat
      BY <1>3, <2>1 DEF Labelled
    <3>3. t.buf.at + SegLen(t) - 1 = Length
      BY <3>1, <3>2
    <3>4. SeqNo(Length) \in SeqNumbers
      BY Facts, Adds
    <3> QED  BY <3>1, <3>3, <3>4
  <2>2. outOfOrderFin # None => outOfOrderFin = SeqNo(Length) /\ Length + 1 <= w
    BY DEF ReceiverInv, StoreFits
  <2>3. outOfOrderFin \in SeqNumbers \cup {None}
    BY <1>4 DEF TypeOK
  <2> HIDE DEF w
  <2> QED  BY <1>2, <1>3, <2>1, <2>2, <2>3
<1>10. StoreFits'
  <2>1. Fits(w)' = Fits(w) /\ w' = w /\ SeqNo(Length)' = SeqNo(Length)
    BY <1>1 DEF Fits, SeqNo, SeqAdd
  <2> QED  BY <1>8, <1>9, <2>1 DEF StoreFits
<1>11. TypeOK'
  <2>1. outOfOrder' \in Seq(Entries)
    <3>1. Fits(w) \subseteq Entries
      BY DEF Fits
    <3> HIDE DEF w
    <3> QED  BY <1>8, <3>1, SeqMonotonic
  <2>2. ourFin' \in {"none", "sent", "acked"}
    BY <1>2, <1>4 DEF AckOfOurFin, TypeOK
  <2>3. state' \in States
    BY <1>2, <1>4, StatesFollow DEF TypeOK, Follows
  <2> QED  BY <1>1, <1>4, <1>5, <1>8, <1>9, <2>1, <2>2, <2>3 DEF TypeOK
<1> QED  BY <1>6, <1>7, <1>10, <1>11 DEF ReceiverInv

(* Data in order, and what follows on from it in the store: the queue      *)
(* stays a stretch of the stream, and ends within the window.              *)
LEMMA MergedKeeps ==
  ASSUME Assumptions, ReceiverInv, NEW b \in Buffers, b.at = Held, b.len > 0,
         NEW z \in Nat, z = b.at + b.len, z <= Length, z <= read + Window,
         NEW count, count = Merges(outOfOrder, SeqNo(z))
  PROVE  LET q == recvQueue \o <<b>> \o Merged(count)
             H == EndOf(Merged(count), z)
         IN  /\ count \in 0..Len(outOfOrder)
             /\ q \in Seq(Buffers)
             /\ Contiguous(q, read) /\ EndOf(q, read) = H
             /\ H \in 0..Length /\ z <= H /\ H <= read + Window
             /\ count = 0 => H = z
             /\ count > 0 => SeqAdd(End(outOfOrder[count]), 1) = SeqNo(H) /\ z < Length
<1> DEFINE w == read + Window
           m == Merged(count)
           H == EndOf(m, z)
           p == recvQueue \o <<b>>
<1>1. /\ Length \in Nat /\ Window \in Nat /\ w \in Nat /\ read \in Nat
      /\ recvQueue \in Stretches /\ Contiguous(recvQueue, read) /\ EndOf(recvQueue, read) = Held
      /\ recvQueue \in Seq(Buffers) /\ outOfOrder \in Seq(Fits(w))
  BY Facts DEF ReceiverInv, TypeOK, StoreFits
<1>2. z <= w
  OBVIOUS
<1> HIDE DEF w
<1>3. z \in Positions
  BY <1>1 DEF Positions
<1>4. /\ count \in 0..Len(outOfOrder)
      /\ \A i \in 1..count :
           outOfOrder[i].buf.at = IF i = 1 THEN z
                                  ELSE outOfOrder[i - 1].buf.at + outOfOrder[i - 1].buf.len
  BY <1>1, <1>3, MergesIs
<1>5. /\ \A i \in 1..count : outOfOrder[i] \in Fits(w)
      /\ count \in Nat
  <2>1. Len(outOfOrder) \in Nat
    BY <1>1, LenProperties
  <2>2. count \in Nat /\ \A i \in 1..count : i \in 1..Len(outOfOrder)
    BY <1>4, <2>1
  <2> QED  BY <1>1, <2>2, ElementOfSeq
<1>6. \A i \in 1..count : outOfOrder[i].buf \in Buffers /\ outOfOrder[i].buf.len > 0
  BY <1>5 DEF Fits, Entries
<1>7. /\ m \in Seq(Buffers) /\ Len(m) = count
      /\ \A i \in 1..count : m[i] = outOfOrder[i].buf
  BY <1>5, <1>6, IsASeq DEF Merged
<1>8. \A e \in Buffers : e \in [at: Nat, len: Nat]
  BY <1>1 DEF Buffers
<1> HIDE DEF m
<1>9. m \in Stretches /\ Contiguous(m, z)
  <2>1. m \in Stretches
    BY <1>7, <1>8, SeqMonotonic DEF Stretches
  <2>2. ASSUME NEW i \in DOMAIN m
        PROVE  m[i].len > 0 /\ m[i].at = IF i = 1 THEN z ELSE m[i - 1].at + m[i - 1].len
    <3>1. i \in 1..count
      BY <1>7, <2>1, <2>2, StretchType
    <3>2. i # 1 => i - 1 \in 1..count
      BY <1>5, <3>1
    <3> QED  BY <1>4, <1>6, <1>7, <3>1, <3>2
  <2> QED  BY <2>1, <2>2 DEF Contiguous
<1>10. H \in Nat /\ z <= H
  BY <1>9, StretchGrows
<1>11. p \in Stretches /\ Contiguous(p, read) /\ EndOf(p, read) = z
  <2>1. <<b>> \in Stretches /\ Len(<<b>>) = 1 /\ <<b>>[1] = b
    BY <1>8 DEF Stretches
  <2>2. Contiguous(<<b>>, Held)
    <3>1. DOMAIN <<b>> = 1..1
      OBVIOUS
    <3> QED  BY <2>1, <3>1 DEF Contiguous
  <2>3. EndOf(<<b>>, Held) = z
    BY <2>1, StretchType
  <2> QED  BY <1>1, <2>1, <2>2, <2>3, StretchesJoin
<1> HIDE DEF H
<1>12. Contiguous(p \o m, read) /\ EndOf(p \o m, read) = H
  BY <1>1, <1>9, <1>11, StretchesJoin DEF H
<1>13. p \o m \in Seq(Buffers)
  BY <1>1, <1>7, ConcatProperties
<1>14. count = 0 => H = z
  BY <1>7, <1>9, StretchType DEF H
<1>15. ASSUME count > 0
       PROVE  /\ SeqAdd(End(outOfOrder[count]), 1) = SeqNo(H) /\ z < Length
              /\ H <= Length /\ H <= w
  <2> DEFINE e == outOfOrder[count]
             f == outOfOrder[1]
  <2>1. count \in 1..count /\ 1 \in 1..count /\ Len(m) # 0
    BY <1>5, <1>7, <1>15
  <2>2. e \in Fits(w) /\ f \in Fits(w) /\ m[count] = e.buf /\ f.buf.at = z
    BY <1>4, <1>5, <1>7, <2>1
  <2>3. H = e.buf.at + e.buf.len
    BY <1>7, <1>9, <2>1, <2>2, StretchType DEF H
  <2>4. /\ SeqAdd(End(e), 1) = SeqNo(e.buf.at + e.buf.len)
        /\ e.buf.at + e.buf.len <= Length /\ e.buf.at + e.buf.len <= w
    BY <1>1, <2>2, EndIs
  <2>5. f.buf.at \in Nat /\ f.buf.len \in Nat /\ f.buf.len > 0 /\ f.buf.at + f.buf.len <= Length
    BY <1>1, <2>2, EndIs
  <2>6. z < Length
    <3> DEFINE x == f.buf.at
               l == f.buf.len
    <3>1. x \in Nat /\ l \in Nat /\ l > 0 /\ x + l <= Length /\ x = z
      BY <2>2, <2>5
    <3> HIDE DEF x, l
    <3> QED  BY <1>1, <3>1
  <2> QED  BY <2>3, <2>4, <2>6
<1>16. H <= Length /\ H <= w
  BY <1>2, <1>5, <1>14, <1>15
<1>17. H \in 0..Length
  BY <1>1, <1>10, <1>16
<1> QED  BY <1>4, <1>10, <1>12, <1>13, <1>14, <1>15, <1>16, <1>17 DEF H, m, p, w

(* A step that moves RCV.NXT to position R, and the end of the queue to H. *)
LEMMA ReceivedKeeps ==
  ASSUME Assumptions, ReceiverInv, Running,
         UNCHANGED <<readerNext, outOfOrderFin, arp, read, migrations>>,
         NEW H \in 0..Length, recvQueue' \in Seq(Buffers),
         Contiguous(recvQueue', read), EndOf(recvQueue', read) = H, Held <= H,
         outOfOrder' \in Seq(Fits(read + Window)), Len(outOfOrder') <= MaxOutOfOrder,
         NEW R \in Nat, R = H \/ (H = Length /\ R = Length + 1), Reached <= R,
         R <= read + Window, receiveNext' = SeqNo(R),
         NEW d \in BOOLEAN, Acks(SeqNo(R), d),
         ourFin' \in {"none", "sent", "acked"}, halted' \in {"no", "panic", "spin"},
         state' \in States, state' \in Finished => R = Length + 1,
         Home /\ R = Length + 1 /\ state' # "Closed" => state' \in Finished
  PROVE  ReceiverInv'
<1>1. TypeOK
  BY DEF ReceiverInv
<1>2. Length \in Nat /\ Window \in Nat /\ R <= Length + 1 /\ R \in Positions
  BY Facts DEF Positions
<1>3. acked' \in Nat /\ acked' <= R /\ edge' \in Nat /\ ackDeadline' \in BOOLEAN
  BY <1>2, Acknowledged
<1>4. InPlace' /\ Held' = H
  BY DEF InPlace, Held, Contiguous, EndOf
<1>5. Positioned' /\ (FinReceived' <=> R = Length + 1)
  BY <1>3, <1>4, Advances
<1>6. StoreFits'
  <2>1. Fits(read + Window)' = Fits(read + Window)
    BY DEF Fits, SeqNo, SeqAdd
  <2>2. outOfOrderFin' # None => outOfOrderFin' = SeqNo(Length)' /\ Length + 1 <= read' + Window
    BY DEF ReceiverInv, StoreFits, SeqNo, SeqAdd
  <2> QED  BY <2>1, <2>2 DEF StoreFits
<1>7. FinFollowed'
  BY <1>5 DEF FinFollowed, Home
<1>8. TypeOK'
  <2>1. outOfOrder' \in Seq(Entries)
    <3> DEFINE F == Fits(read + Window)
    <3>1. F \subseteq Entries /\ outOfOrder' \in Seq(F)
      BY DEF Fits
    <3> HIDE DEF F
    <3> QED  BY <3>1, SeqMonotonic
  <2>2. receiveNext' \in SeqNumbers
    BY Adds
  <2> QED  BY <1>1, <1>3, <2>1, <2>2 DEF TypeOK
<1> QED  BY <1>5, <1>6, <1>7, <1>8 DEF ReceiverInv

(* The end of a store. *)
LEMMA RestKeeps ==
  ASSUME Assumptions, ReceiverInv, NEW count \in 0..Len(outOfOrder)
  PROVE  LET rest == SubSeq(outOfOrder, count + 1, Len(outOfOrder)) IN
         rest \in Seq(Fits(read + Window)) /\ Len(rest) <= MaxOutOfOrder
<1> DEFINE F == Fits(read + Window)
           n == Len(outOfOrder)
<1>1. outOfOrder \in Seq(F) /\ n \in Nat /\ n <= MaxOutOfOrder /\ MaxOutOfOrder \in Nat
  BY LenProperties DEF ReceiverInv, StoreFits, TypeOK, Assumptions, ReceiverAssumption
<1>2. count \in 0..n
  OBVIOUS
<1> HIDE DEF F
<1>3. SubSeq(outOfOrder, count + 1, n) \in Seq(F)
      /\ Len(SubSeq(outOfOrder, count + 1, n)) = IF count + 1 <= n THEN n - (count + 1) + 1 ELSE 0
  <2>1. count + 1 \in 1..(n + 1) /\ n \in (count + 1 - 1)..n
    BY <1>1, <1>2
  <2> QED  BY <1>1, <2>1, SubSeqProperties
<1> QED  BY <1>1, <1>2, <1>3 DEF F

(* The parts of receive() on a segment in order. *)
LEMMA InOrderIs ==
  ASSUME NEW s, ReceiveInOrder(s)
  PROVE  LET t == Trimmed(s) IN
         /\ InWindow(s) /\ t.seq = receiveNext
         /\ UNCHANGED <<readerNext, outOfOrderFin, arp, read, migrations>>
         /\ \E acks, takes, fin \in BOOLEAN :
              LET st    == AfterAck(state, acks)
                  after == SeqAdd(receiveNext, t.buf.len)
                  count == IF takes THEN Merges(outOfOrder, after) ELSE 0
                  next  == CASE ~takes             -> receiveNext
                             [] takes /\ count = 0 -> after
                             [] takes /\ count > 0 -> SeqAdd(End(outOfOrder[count]), 1)
              IN  /\ AckOfOurFin(acks)
                  /\ takes <=> t.buf.len > 0 /\ st \in Receiving
                  /\ fin <=> t.fin \/ (count > 0 /\ outOfOrderFin = next)
                  /\ InOrder(t, st, takes, count, next, fin)
<1> DEFINE t == Trimmed(s)
           St(a) == AfterAck(state, a)
           Takes(a) == t.buf.len > 0 /\ St(a) \in Receiving
           After == SeqAdd(receiveNext, t.buf.len)
           Count(b) == IF b THEN Merges(outOfOrder, After) ELSE 0
           NextOf(b) == CASE ~b                  -> receiveNext
                          [] b /\ Count(b) = 0 -> After
                          [] b /\ Count(b) > 0 -> SeqAdd(End(outOfOrder[Count(b)]), 1)
           Fin(b) == t.fin \/ (Count(b) > 0 /\ outOfOrderFin = NextOf(b))
<1>1. PICK acks \in BOOLEAN :
        AckOfOurFin(acks) /\ InOrder(t, St(acks), Takes(acks), Count(Takes(acks)),
                                     NextOf(Takes(acks)), Fin(Takes(acks)))
  BY Zenon DEF ReceiveInOrder
<1> DEFINE takes == Takes(acks)
           fin == Fin(takes)
<1>2. takes \in BOOLEAN /\ fin \in BOOLEAN
  OBVIOUS
<1>3. /\ AckOfOurFin(acks)
      /\ takes <=> t.buf.len > 0 /\ St(acks) \in Receiving
      /\ fin <=> t.fin \/ (Count(takes) > 0 /\ outOfOrderFin = NextOf(takes))
      /\ InOrder(t, St(acks), takes, Count(takes), NextOf(takes), fin)
  BY <1>1
<1>4. /\ InWindow(s) /\ t.seq = receiveNext
      /\ UNCHANGED <<readerNext, outOfOrderFin, arp, read, migrations>>
  BY DEF ReceiveInOrder
<1> HIDE DEF takes, fin
<1> QED  BY <1>2, <1>3, <1>4

(* Data is taken. *)
LEMMA TakesKeeps ==
  ASSUME Assumptions, ReceiverInv, Running, ~FinReceived,
         UNCHANGED <<readerNext, outOfOrderFin, arp, read, migrations>>,
         ourFin' \in {"none", "sent", "acked"},
         NEW t, t.buf \in Buffers, t.buf.at = Held, t.buf.len > 0,
         t.buf.at + t.buf.len <= Length, t.buf.at + t.buf.len <= read + Window,
         NEW st \in Receiving, NEW fin \in BOOLEAN, NEW count, NEW next,
         t.fin => t.buf.at + t.buf.len = Length /\ Length + 1 <= read + Window,
         count = Merges(outOfOrder, SeqAdd(receiveNext, t.buf.len)),
         count = 0 => next = SeqAdd(receiveNext, t.buf.len),
         count > 0 => next = SeqAdd(End(outOfOrder[count]), 1),
         fin <=> t.fin \/ (count > 0 /\ outOfOrderFin = next),
         InOrder(t, st, TRUE, count, next, fin)
  PROVE  ReceiverInv'
<1> DEFINE b == t.buf
           z == b.at + b.len
           m == Merged(count)
           H == EndOf(m, z)
           w == read + Window
<1>1. /\ Length \in Nat /\ Window \in Nat /\ w \in Nat
      /\ receiveNext = SeqNo(Held) /\ Held \in 0..Length /\ Reached = Held
      /\ halted \in {"no", "panic", "spin"} /\ ackDeadline \in BOOLEAN
  BY Facts, ReachedIs DEF At, ReceiverInv, TypeOK
<1>2. b \in Buffers /\ b.at \in Nat /\ b.len \in Nat /\ b.at = Held /\ b.len > 0
      /\ z \in Nat /\ z <= Length /\ z <= w
  BY <1>1 DEF Buffers
<1>3. SeqAdd(receiveNext, b.len) = SeqNo(z)
  <2> DEFINE x == b.at
             n == b.len
  <2>1. x \in Nat /\ n \in Int /\ receiveNext = SeqNo(x)
    BY <1>1, <1>2
  <2> HIDE DEF x, n
  <2>2. SeqAdd(SeqNo(x), n) = SeqNo(x + n)
    BY <2>1, Adds
  <2> QED  BY <2>1, <2>2 DEF x, n
<1>4. count = Merges(outOfOrder, SeqNo(z)) /\ (count = 0 => next = SeqNo(z))
  BY <1>3
<1>5. /\ t.fin => z = Length /\ Length + 1 <= w
      /\ recvQueue' = recvQueue \o <<b>> \o m
      /\ outOfOrder' = SubSeq(outOfOrder, count + 1, Len(outOfOrder))
  BY DEF InOrder
<1> HIDE DEF b, z, m, H, w
<1>6. /\ count \in 0..Len(outOfOrder)
      /\ recvQueue \o <<b>> \o m \in Seq(Buffers)
      /\ Contiguous(recvQueue \o <<b>> \o m, read) /\ EndOf(recvQueue \o <<b>> \o m, read) = H
      /\ H \in 0..Length /\ z <= H /\ H <= w
      /\ count = 0 => H = z
      /\ count > 0 => SeqAdd(End(outOfOrder[count]), 1) = SeqNo(H) /\ z < Length
  BY <1>2, <1>4, MergedKeeps DEF b, z, m, H, w
<1>7. count \in Nat /\ next = SeqNo(H)
  <2>1. count \in Nat
    <3>1. Len(outOfOrder) \in Nat
      BY LenProperties DEF ReceiverInv, TypeOK
    <3> QED  BY <1>6, <3>1
  <2>2. count = 0 \/ count > 0
    BY <2>1
  <2> QED  BY <1>4, <1>6, <2>1, <2>2
<1>8. H \in Nat /\ H \in Positions /\ Length \in Positions /\ Held <= H
  <2>1. b.at <= z
    BY <1>2 DEF z
  <2> QED  BY <1>1, <1>2, <1>6, <2>1 DEF Positions
<1>9. outOfOrder' \in Seq(Fits(read + Window)) /\ Len(outOfOrder') <= MaxOutOfOrder
  BY <1>5, <1>6, RestKeeps
<1>10. /\ recvQueue' \in Seq(Buffers) /\ Contiguous(recvQueue', read)
       /\ EndOf(recvQueue', read) = H
  BY <1>5, <1>6
<1>11. fin => H = Length /\ Length + 1 <= w
  <2>1. t.fin => H = Length
    <3>1. z < Length => z # Length
      BY <1>1, <1>2
    <3>2. count = 0 \/ count > 0
      BY <1>7
    <3> QED  BY <1>5, <1>6, <3>1, <3>2
  <2>2. ASSUME count > 0, outOfOrderFin = next PROVE H = Length /\ Length + 1 <= w
    <3>1. SeqNo(H) # None
      <4>1. SeqNo(H) \in SeqNumbers
        BY <1>8, Adds
      <4> QED  BY <4>1 DEF Assumptions, ReceiverAssumption
    <3>2. SeqNo(H) = SeqNo(Length) /\ Length + 1 <= w
      BY <1>7, <2>2, <3>1 DEF ReceiverInv, StoreFits, w
    <3> QED  BY <1>8, <3>2, Numbers
  <2> QED  BY <1>5, <2>1, <2>2
<1>12. /\ st # "Closed" /\ st \in States /\ st \notin Finished
       /\ AfterFin(st) \in States /\ AfterFin(st) \in Finished
  BY DEF Receiving, States, Finished, AfterFin
<1>13. CASE fin
  <2> DEFINE R == Length + 1
  <2>1. SeqAdd(next, 1) = SeqNo(R)
    <3>1. SeqAdd(SeqNo(H), 1) = SeqNo(H + 1)
      BY <1>8, Adds
    <3> QED  BY <1>7, <1>11, <1>13, <3>1
  <2>2. /\ receiveNext' = SeqNo(R) /\ state' = AfterFin(st) /\ halted' = halted
        /\ AckNow(SeqNo(R), ackDeadline)
    BY <1>12, <1>13, <2>1 DEF InOrder
  <2>3. /\ R \in Nat /\ H = Length /\ Reached <= R /\ R <= read + Window
        /\ R = Length + 1
    BY <1>1, <1>8, <1>11, <1>13 DEF w
  <2> HIDE DEF R
  <2>4. Acks(SeqNo(R), ackDeadline)
    BY <2>2 DEF Acks
  <2>5. state' \in States /\ state' \in Finished /\ halted' \in {"no", "panic", "spin"}
    BY <1>1, <1>12, <2>2
  <2> QED  BY <1>1, <1>6, <1>8, <1>9, <1>10, <2>2, <2>3, <2>4, <2>5, ReceivedKeeps
<1>14. CASE ~fin
  <2>1. receiveNext' = SeqNo(H) /\ state' = st /\ halted' = halted /\ AckSoon(SeqNo(H))
    BY <1>7, <1>14 DEF InOrder
  <2>2. H # Length + 1 /\ Reached <= H /\ H <= read + Window
    BY <1>1, <1>6, <1>8 DEF w
  <2>3. Acks(SeqNo(H), ackDeadline)
    BY <2>1 DEF Acks
  <2>4. state' \in States /\ state' \notin Finished /\ halted' \in {"no", "panic", "spin"}
    BY <1>1, <1>12, <2>1
  <2> QED  BY <1>1, <1>6, <1>8, <1>9, <1>10, <2>1, <2>2, <2>3, <2>4, ReceivedKeeps
<1> QED  BY <1>13, <1>14

(* No data is taken: there is none in the segment, or the connection is    *)
(* past taking it.                                                         *)
LEMMA NoDataKeeps ==
  ASSUME Assumptions, ReceiverInv, Running,
         UNCHANGED <<readerNext, outOfOrderFin, arp, read, migrations>>,
         ourFin' \in {"none", "sent", "acked"},
         NEW t, Labelled(t), t.buf.at = Reached, t.fin => Length + 1 <= read + Window,
         NEW acks \in BOOLEAN, NEW fin \in BOOLEAN, fin <=> t.fin,
         ~(t.buf.len > 0 /\ AfterAck(state, acks) \in Receiving),
         InOrder(t, AfterAck(state, acks), FALSE, 0, receiveNext, fin)
  PROVE  ReceiverInv'
<1> DEFINE st == AfterAck(state, acks)
           R == Reached
           H == Held
           w == read + Window
<1>1. /\ Length \in Nat /\ Window \in Nat /\ w \in Nat /\ R \in Nat /\ R <= Length + 1
      /\ H \in 0..Length /\ R \in Positions /\ R <= w
      /\ receiveNext = SeqNo(R) /\ H <= R
      /\ EndOf(recvQueue, read) = H /\ Contiguous(recvQueue, read)
      /\ FinReceived <=> R = Length + 1
      /\ ~FinReceived => R = H
      /\ FinReceived => H = Length
      /\ readerNext = SeqNo(read) /\ read \in Positions /\ read <= R /\ acked <= R /\ acked \in Nat
  BY Facts, ReachedIs DEF At, ReceiverInv, Positioned
<1>2. TypeOK
  BY DEF ReceiverInv
<1>3. /\ t.buf.at = R /\ t.buf.at \in Nat /\ t.buf.len \in Nat
      /\ t.buf.len > 0 => t.buf.at + t.buf.len <= Length
      /\ fin => t.buf.at + t.buf.len = Length /\ Length + 1 <= w
  BY DEF Labelled
<1>4. Follows(st) /\ st \in States /\ (st \in Receiving \/ st \in Finished \/ st = "Closed")
  BY <1>2, StatesFollow DEF TypeOK, Follows
<1>5. st \in Receiving => t.buf.len = 0
  BY <1>3
<1>6. /\ recvQueue' = recvQueue
      /\ outOfOrder' = SubSeq(outOfOrder, 1, Len(outOfOrder))
  BY DEF InOrder
<1>7. outOfOrder' \in Seq(Fits(w)) /\ Len(outOfOrder') <= MaxOutOfOrder
  <2>1. Len(outOfOrder) \in Nat
    BY <1>2, LenProperties DEF TypeOK
  <2>2. 0 \in 0..Len(outOfOrder) /\ 0 + 1 = 1
    BY <2>1
  <2> QED  BY <1>6, <2>2, RestKeeps
<1>8. /\ recvQueue' \in Seq(Buffers) /\ Contiguous(recvQueue', read)
      /\ EndOf(recvQueue', read) = H
  BY <1>1, <1>2, <1>6 DEF TypeOK
<1>9. fin => R <= Length /\ ~FinReceived /\ R = H
  BY <1>1, <1>3
<1>10. \/ fin /\ st # "Closed" /\ st \in Receiving
       \/ fin /\ st = "Closed"
       \/ ~fin
  <2>1. fin => st \notin Finished
    BY <1>4, <1>9 DEF ReceiverInv, FinFollowed, Follows
  <2> QED  BY <1>4, <2>1 DEF Receiving
<1>11. SeqAdd(receiveNext, 1) = SeqNo(R + 1)
  BY <1>1, Adds
<1> HIDE DEF st, R, H, w
<1>12. CASE fin /\ st # "Closed" /\ st \in Receiving
  <2> DEFINE Q == R + 1
  <2>1. R = Length /\ H = Length
    BY <1>1, <1>3, <1>5, <1>9, <1>12
  <2>2. /\ receiveNext' = SeqNo(Q) /\ state' = AfterFin(st) /\ halted' = halted
        /\ AckNow(SeqNo(Q), ackDeadline)
    BY <1>11, <1>12 DEF InOrder, st
  <2>3. Q \in Nat /\ Q = Length + 1 /\ Q <= read + Window /\ Reached <= Q
        /\ ackDeadline \in BOOLEAN /\ Held <= H /\ H \in 0..Length
    BY <1>1, <1>2, <1>3, <1>12, <2>1 DEF w, TypeOK, R, H
  <2> HIDE DEF Q
  <2>4. Acks(SeqNo(Q), ackDeadline)
    BY <2>2 DEF Acks
  <2>5. state' \in States /\ state' \in Finished /\ halted' \in {"no", "panic", "spin"}
    BY <1>2, <1>12, <2>2 DEF AfterFin, Receiving, States, Finished, TypeOK
  <2> QED  BY <1>7, <1>8, <2>1, <2>2, <2>3, <2>4, <2>5, ReceivedKeeps DEF w
<1>13. CASE ~fin
  <2>1. /\ receiveNext' = SeqNo(R) /\ state' = st /\ halted' = halted
        /\ UNCHANGED <<ackDeadline, acked, edge>>
    BY <1>1, <1>13 DEF InOrder, st
  <2>2. Acks(SeqNo(R), ackDeadline) /\ ackDeadline \in BOOLEAN
    BY <1>2, <2>1 DEF Acks, TypeOK
  <2>3. /\ state' \in States /\ halted' \in {"no", "panic", "spin"}
        /\ state' \in Finished => R = Length + 1
        /\ Home /\ R = Length + 1 /\ state' # "Closed" => state' \in Finished
    BY <1>1, <1>2, <1>4, <2>1 DEF TypeOK, ReceiverInv, FinFollowed, Follows
  <2>4. /\ R \in Nat
        /\ R = H \/ (H = Length /\ R = Length + 1)
        /\ Reached <= R /\ R <= read + Window /\ Held <= H /\ H \in 0..Length
    <3>1. R <= R /\ H <= H
      BY <1>1
    <3> QED  BY <1>1, <3>1 DEF R, H, w
  <2> QED  BY <1>7, <1>8, <2>1, <2>2, <2>3, <2>4, ReceivedKeeps DEF w
<1>14. CASE fin /\ st = "Closed"
  <2> DEFINE Q == R + 1
  <2>1. /\ receiveNext' = SeqNo(Q) /\ halted' = "panic" /\ state' = "Closed"
        /\ UNCHANGED <<ackDeadline, acked, edge>>
    BY <1>11, <1>14 DEF InOrder, st
  <2>2. Q \in Nat /\ Q = R + 1 /\ Q <= Length + 1 /\ Q \in Positions /\ Q <= w
    BY <1>1, <1>3, <1>9, <1>14 DEF Positions
  <2>3. InPlace' /\ Held' = H
    BY <1>8 DEF InPlace, Held, Contiguous, EndOf
  <2> HIDE DEF Q
  <2>4. FinReceived' <=> Q = Length + 1
    <3>1. Length + 1 \in Positions
      BY Facts
    <3>2. SeqNo(Q) = SeqNo(Length + 1) <=> Q = Length + 1
      BY <2>2, <3>1, Numbers
    <3> QED  BY <2>1, <3>2 DEF FinReceived, SeqNo, SeqAdd
  <2>5. FitsBuffer'
    <3>1. Unread' = SeqSub(SeqNo(Q), SeqNo(read))
      BY <1>1, <2>1 DEF Unread
    <3>2. read \in Nat /\ read <= Q
      BY <1>1, <2>2 DEF Positions
    <3>3. Unread' = Q - read
      BY <1>1, <2>2, <3>1, <3>2, Numbers
    <3> QED  BY <1>1, <2>2, <3>2, <3>3 DEF FitsBuffer, w
  <2>6. FinReceived' => Held' = Length
    BY <1>1, <1>9, <1>14, <2>2, <2>3, <2>4
  <2>7. acked' <= Reached'
    <3>1. Reached' = IF Q = Length + 1 THEN Length + 1 ELSE H
      BY <2>3, <2>4 DEF Reached
    <3> QED  BY <1>1, <1>9, <1>14, <2>1, <2>2, <3>1
  <2>8. Positioned'
    <3>1. ~Running' /\ readerNext' = SeqNo(read)'
      BY <1>1, <2>1 DEF Running, SeqNo, SeqAdd
    <3> QED  BY <1>1, <2>3, <2>5, <2>6, <2>7, <3>1 DEF Positioned
  <2>9. StoreFits'
    <3>1. Fits(read + Window)' = Fits(w)
      BY DEF Fits, SeqNo, SeqAdd, w
    <3>2. outOfOrderFin' # None => outOfOrderFin' = SeqNo(Length)' /\ Length + 1 <= read' + Window
      BY DEF ReceiverInv, StoreFits, SeqNo, SeqAdd
    <3> QED  BY <1>7, <3>1, <3>2 DEF StoreFits
  <2>10. FinFollowed'
    BY <2>1 DEF FinFollowed, Finished
  <2>11. TypeOK'
    <3>1. Fits(w) \subseteq Entries
      BY DEF Fits
    <3>2. outOfOrder' \in Seq(Entries)
      BY <1>7, <3>1, SeqMonotonic
    <3>3. SeqNo(Q) \in SeqNumbers
      BY <2>2, Adds
    <3> QED  BY <1>2, <1>7, <1>8, <2>1, <3>2, <3>3 DEF TypeOK, States
  <2> QED  BY <2>8, <2>9, <2>10, <2>11 DEF ReceiverInv
<1> QED  BY <1>10, <1>12, <1>13, <1>14

(* receive() on a segment in order. *)
LEMMA InOrderKeeps ==
  ASSUME Assumptions, ReceiverInv, Running, NEW s \in Segments, Sendable(s),
         ReceiveInOrder(s)
  PROVE  ReceiverInv'
<1> DEFINE t == Trimmed(s)
           after == SeqAdd(receiveNext, t.buf.len)
           Count(takes) == IF takes THEN Merges(outOfOrder, after) ELSE 0
           NextOf(takes) == CASE ~takes                    -> receiveNext
                              [] takes /\ Count(takes) = 0 -> after
                              [] takes /\ Count(takes) > 0 ->
                                   SeqAdd(End(outOfOrder[Count(takes)]), 1)
<1>1. /\ InWindow(s) /\ t.seq = receiveNext
      /\ UNCHANGED <<readerNext, outOfOrderFin, arp, read, migrations>>
  BY InOrderIs
<1>2. PICK acks \in BOOLEAN, takes \in BOOLEAN, fin \in BOOLEAN :
        /\ AckOfOurFin(acks)
        /\ takes <=> t.buf.len > 0 /\ AfterAck(state, acks) \in Receiving
        /\ fin <=> t.fin \/ (Count(takes) > 0 /\ outOfOrderFin = NextOf(takes))
        /\ InOrder(t, AfterAck(state, acks), takes, Count(takes), NextOf(takes), fin)
  BY InOrderIs
<1>3. /\ Labelled(t) /\ t.buf.at = Reached
      /\ t.buf.len > 0 => /\ t.buf \in Buffers
                          /\ [start |-> t.seq, buf |-> t.buf] \in Fits(read + Window)
      /\ t.fin => Length + 1 <= read + Window
  BY <1>1, SegmentFits
<1>4. ourFin' \in {"none", "sent", "acked"}
  BY <1>2 DEF ReceiverInv, TypeOK, AckOfOurFin
<1>5. CASE takes
  <2> DEFINE count == Count(TRUE)
             next == NextOf(TRUE)
             st == AfterAck(state, acks)
  <2>1. takes = TRUE /\ t.buf.len > 0 /\ st \in Receiving
    BY <1>2, <1>5
  <2>2. /\ count = Merges(outOfOrder, SeqAdd(receiveNext, t.buf.len))
        /\ count = 0 => next = SeqAdd(receiveNext, t.buf.len)
        /\ count > 0 => next = SeqAdd(End(outOfOrder[count]), 1)
    OBVIOUS
  <2>3. /\ fin <=> t.fin \/ (count > 0 /\ outOfOrderFin = next)
        /\ InOrder(t, st, TRUE, count, next, fin)
    BY <1>2, <2>1
  <2>4. /\ t.buf.at \in Nat /\ t.buf.len \in Nat
        /\ t.buf.at + t.buf.len <= Length /\ t.buf.at + t.buf.len <= read + Window
        /\ t.fin => t.buf.at + t.buf.len = Length
    BY <1>3, <2>1 DEF Labelled, Fits
  <2>5. ~FinReceived /\ t.buf.at = Held
    <3>1. t.buf.at # Length + 1
      BY <2>1, <2>4, Facts
    <3> QED  BY <1>3, <3>1, ReachedIs
  <2> HIDE DEF t, count, next, st
  <2> QED  BY <1>1, <1>3, <1>4, <2>1, <2>2, <2>3, <2>4, <2>5, TakesKeeps
<1>6. CASE ~takes
  <2>1. /\ ~(t.buf.len > 0 /\ AfterAck(state, acks) \in Receiving)
        /\ fin <=> t.fin
        /\ InOrder(t, AfterAck(state, acks), FALSE, 0, receiveNext, fin)
    <3>1. takes = FALSE /\ Count(FALSE) = 0 /\ NextOf(FALSE) = receiveNext
      BY <1>6
    <3> HIDE DEF t, Count, NextOf
    <3>2. InOrder(t, AfterAck(state, acks), FALSE, Count(FALSE), NextOf(FALSE), fin)
      BY <1>2, <3>1
    <3>3. ~(Count(takes) > 0)
      <4>1. Count(takes) = Count(FALSE)
        BY <3>1
      <4>2. Count(takes) = 0
        BY <3>1, <4>1
      <4> QED  BY <4>2
    <3> QED  BY <1>2, <1>6, <3>1, <3>2, <3>3
  <2> HIDE DEF t
  <2> QED  BY <1>1, <1>3, <1>4, <2>1, NoDataKeeps
<1> QED  BY <1>5, <1>6
-----------------------------------------------------------------------------
(* The theorems. *)

LEMMA ReceiverInit ==
  ASSUME Assumptions, Init
  PROVE  ReceiverInv
<1>1. /\ Length \in Nat /\ Window \in Nat /\ MaxOutOfOrder \in Nat /\ MaxMigrations \in Nat
      /\ None \notin SeqNumbers
  BY DEF Assumptions, ReceiverAssumption
<1>2. /\ readerNext = SeqNo(0) /\ receiveNext = SeqNo(0) /\ recvQueue = <<>>
      /\ outOfOrder = <<>> /\ outOfOrderFin = None /\ state = "Established"
      /\ ourFin = "none" /\ ackDeadline = FALSE /\ arp = TRUE /\ halted = "no"
      /\ acked = 0 /\ edge = Window /\ read = 0 /\ migrations = MaxMigrations
  BY DEF Init, NewReceiver
<1>3. 0 \in Positions /\ Length + 1 \in Positions /\ SeqNo(0) \in SeqNumbers
  BY <1>1, Adds DEF Positions
<1>4. ~FinReceived
  BY <1>1, <1>2, <1>3, Numbers DEF FinReceived
<1>5. Held = 0 /\ Reached = 0 /\ InPlace
  BY <1>2, <1>4 DEF Held, Reached, InPlace
<1>6. FitsBuffer
  <2>1. SeqSub(SeqNo(0), SeqNo(0)) = 0
    BY <1>3, Numbers
  <2> QED  BY <1>1, <1>2, <2>1 DEF FitsBuffer, Unread
<1>7. Positioned
  BY <1>1, <1>2, <1>4, <1>5, <1>6 DEF Positioned
<1>8. StoreFits /\ FinFollowed
  BY <1>2, <1>4, EmptySeq DEF StoreFits, FinFollowed, Finished
<1>9. TypeOK
  <2>1. <<>> \in Seq(Buffers) /\ <<>> \in Seq(Entries) /\ Len(<<>>) = 0
    BY EmptySeq
  <2>2. recvQueue \in Seq(Buffers) /\ outOfOrder \in Seq(Entries) /\ Len(outOfOrder) <= MaxOutOfOrder
    BY <1>1, <1>2, <2>1
  <2>3. read \in 0..Length /\ migrations \in 0..MaxMigrations /\ edge \in Nat /\ acked \in Nat
    BY <1>1, <1>2
  <2>4. state \in States
    BY <1>2 DEF States
  <2> QED  BY <1>2, <1>3, <2>2, <2>3, <2>4 DEF TypeOK
<1> QED  BY <1>7, <1>8, <1>9 DEF ReceiverInv

LEMMA ReceiverStep ==
  ASSUME Assumptions, ReceiverInv, [Next]_vars
  PROVE  ReceiverInv'
<1>1. ASSUME NEW s \in Segments, Receive(s) PROVE ReceiverInv'
  <2>1. Running /\ Sendable(s)
    BY <1>1 DEF Receive
  <2>2. CASE ReceiveUnacceptable(s) \/ ReceiveReset(s)
    BY <2>1, <2>2, QuietSteps
  <2>3. CASE ReceiveOutOfOrder(s)
    BY <2>1, <2>3, OutOfOrderKeeps
  <2>4. CASE ReceiveInOrder(s)
    BY <2>1, <2>4, InOrderKeeps
  <2> QED  BY <1>1, <2>2, <2>3, <2>4 DEF Receive
<1>2. CASE PollRecv
  BY <1>2, PollRecvKeeps
<1>3. CASE Close \/ AckTimer \/ ArpChange
  <2>1. Running
    BY <1>3 DEF Close, AckTimer, ArpChange
  <2> QED  BY <1>3, <2>1, QuietSteps
<1>4. CASE Migrate
  <2>1. Running
    BY <1>4 DEF Migrate
  <2> QED  BY <1>4, <2>1, MigrateKeeps
<1>5. CASE UNCHANGED vars
  BY <1>5 DEF vars, streamVars, peerVars, ReceiverInv, TypeOK, Positioned, StoreFits, FinFollowed,
              InPlace, Held, FinReceived, Running, Reached, FitsBuffer, Unread, Home, Fits,
              SeqNo, SeqAdd, SeqSub
<1> QED  BY <1>1, <1>2, <1>3, <1>4, <1>5 DEF Next

(* What the invariant says. *)
LEMMA ReceiverConsequences ==
  ASSUME Assumptions, ReceiverInv
  PROVE  Intact /\ WindowKept /\ StateFollowsFin
<1>1. InPlace /\ FitsBuffer
  BY DEF ReceiverInv, Positioned
<1>2. StoreLabelled
  <2>1. outOfOrder \in Seq(Fits(read + Window))
    BY DEF ReceiverInv, StoreFits
  <2>2. \A i \in DOMAIN outOfOrder : outOfOrder[i] \in Fits(read + Window)
    BY <2>1, ElementOfSeq, LenProperties
  <2> QED  BY <2>2 DEF Fits, StoreLabelled
<1>3. AckedIsHeld
  <2>1. acked <= Reached /\ acked \in Nat /\ Held \in Nat /\ Length \in Nat
    BY Facts DEF ReceiverInv, Positioned
  <2>2. (FinReceived /\ Reached = Length + 1 /\ Held = Length) \/ Reached = Held
    BY ReachedIs
  <2> QED  BY <2>1, <2>2 DEF AckedIsHeld
<1>4. StateFollowsFin
  BY DEF ReceiverInv, FinFollowed, StateFollowsFin, Finished
<1> QED  BY <1>1, <1>2, <1>3, <1>4 DEF Intact, WindowKept

(* The invariant holds on every host the connection is on: every segment   *)
(* that ControlBlock::receive handles, every poll of the reader and of the *)
(* acknowledger, a close and a migration keep it.                          *)
THEOREM ReceiverInvariant == ASSUME Assumptions PROVE Spec => []ReceiverInv
<1>1. Init => ReceiverInv
  BY ReceiverInit
<1>2. ReceiverInv /\ [Next]_vars => ReceiverInv'
  BY ReceiverStep
<1> QED  BY <1>1, <1>2, PTL DEF Spec

(* What the application reads, and what is queued for it (recv_queue), is  *)
(* the stream of the peer, every byte once and in its place, and what      *)
(* store_out_of_order_segment keeps bears the numbers of its bytes.        *)
THEOREM ReadsTheStream ==
  ASSUME Assumptions PROVE Spec => []Intact
<1>1. ReceiverInv => Intact
  BY ReceiverConsequences
<1> QED  BY <1>1, ReceiverInvariant, PTL

(* send_ack acknowledges no more than was received in order, and the       *)
(* unread bytes never exceed the receive buffer, so that                   *)
(* get_receive_window_size cannot wrap.                                    *)
THEOREM AcknowledgesWhatIsHeld ==
  ASSUME Assumptions PROVE Spec => []WindowKept
<1>1. ReceiverInv => WindowKept
  BY ReceiverConsequences
<1> QED  BY <1>1, ReceiverInvariant, PTL

(* On the host that accepted the connection its state says whether the FIN *)
(* of the peer was received (receive, close).                              *)
THEOREM FinIsFollowed == ASSUME Assumptions PROVE Spec => []StateFollowsFin
<1>1. ReceiverInv => StateFollowsFin
  BY ReceiverConsequences
<1> QED  BY <1>1, ReceiverInvariant, PTL
=============================================================================
