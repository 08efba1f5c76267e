------------------------ MODULE EthernetW6100_proofs ------------------------
(***************************************************************************)
(* Proofs about EthernetW6100 for every memory, every set of frames and    *)
(* either behaviour of the chip at RECV.  The ring implements the queue of *)
(* FrameQueue: the frames in the memory lie one after another from the     *)
(* read pointer on, each behind its header, and what the thread has copied *)
(* is a prefix of the first.  Where each frame starts is a witness of the  *)
(* invariant, so nothing is computed by recursion over the frames.  No     *)
(* frame is stranded in the memory, no interrupt and no completion is      *)
(* lost, and sends stay one frame ahead of the wire.                       *)
(***************************************************************************)
EXTENDS EthernetW6100, SequenceTheorems, TLAPS

-----------------------------------------------------------------------------
(* Arithmetic of pointers that wrap.                                       *)

LEMMA DivMod == ASSUME NEW n \in Nat \ {0}, NEW x \in Int
                PROVE  /\ x \div n \in Int /\ x % n \in Int /\ x % n \in 0..n-1
                       /\ x = n * (x \div n) + (x % n)
  <1>1. x \div n \in Int
    OBVIOUS
  <1>2. x % n \in 0..n-1
    OBVIOUS
  <1>3. x = n * (x \div n) + (x % n)
    OBVIOUS
  <1>4. x % n \in Int
    BY <1>2
  <1>5. QED
    BY Zenon, <1>1, <1>2, <1>3, <1>4

LEMMA SmallMod == ASSUME NEW n \in Nat \ {0}, NEW x \in 0..n-1 PROVE x % n = x
  OBVIOUS

(* Two remainders that differ by a multiple of the divisor are the same.   *)
LEMMA SameRemainder ==
  ASSUME NEW n \in Nat \ {0}, NEW x \in 0..n-1, NEW y \in 0..n-1, NEW k \in Int, x = y + n * k
  PROVE  x = y
  <1>1. CASE k >= 1
    <2>1. n * k >= n
      BY <1>1
    <2>2. QED
      BY <2>1
  <1>2. CASE k <= -1
    <2>1. n * k <= -n
      BY <1>2
    <2>2. QED
      BY <2>1
  <1>3. CASE k = 0
    BY <1>3
  <1>4. QED
    BY <1>1, <1>2, <1>3

LEMMA Congruent ==
  ASSUME NEW n \in Nat \ {0}, NEW x \in Int, NEW y \in Int, NEW k \in Int, x = y + n * k
  PROVE  x % n = y % n
  <1> DEFINE q == x \div n
             r == y \div n
             a == x % n
             b == y % n
  <1>1. q \in Int /\ a \in Int /\ a \in 0..n-1 /\ x = n * q + a
    BY DivMod
  <1>2. r \in Int /\ b \in Int /\ b \in 0..n-1 /\ y = n * r + b
    BY DivMod
  <1> HIDE DEF q, r, a, b
  <1>3. a = b + n * (r + k - q)
    BY <1>1, <1>2
  <1>4. r + k - q \in Int
    BY <1>1, <1>2
  <1>5. a = b
    BY <1>1, <1>2, <1>3, <1>4, SameRemainder
  <1>6. QED
    BY <1>5 DEF a, b

LEMMA ModMod ==
  ASSUME NEW n \in Nat \ {0}, NEW x \in Int, NEW y \in Int
  PROVE  /\ ((x % n) + y) % n = (x + y) % n
         /\ ((x % n) - y) % n = (x - y) % n
         /\ (y - (x % n)) % n = (y - x) % n
  <1> DEFINE q == x \div n
             r == x % n
  <1>1. q \in Int /\ r \in Int /\ x = n * q + r
    BY DivMod
  <1> HIDE DEF q, r
  <1>2. (x + y) % n = (r + y) % n
    <2> DEFINE u == x + y
               v == r + y
    <2>1. u \in Int /\ v \in Int /\ u = v + n * q
      BY <1>1
    <2> HIDE DEF u, v
    <2>2. u % n = v % n
      BY <1>1, <2>1, Congruent
    <2>3. QED
      BY <2>2 DEF u, v
  <1>3. (x - y) % n = (r - y) % n
    <2> DEFINE u == x - y
               v == r - y
    <2>1. u \in Int /\ v \in Int /\ u = v + n * q
      BY <1>1
    <2> HIDE DEF u, v
    <2>2. u % n = v % n
      BY <1>1, <2>1, Congruent
    <2>3. QED
      BY <2>2 DEF u, v
  <1>4. (y - r) % n = (y - x) % n
    <2> DEFINE u == y - r
               v == y - x
    <2>1. u \in Int /\ v \in Int /\ u = v + n * q
      BY <1>1
    <2> HIDE DEF u, v
    <2>2. u % n = v % n
      BY <1>1, <2>1, Congruent
    <2>3. QED
      BY <2>2 DEF u, v
  <1>5. QED
    BY <1>2, <1>3, <1>4 DEF r

LEMMA OneTurn == ASSUME NEW n \in Nat \ {0}, NEW x \in Int PROVE (x + n) % n = x % n
  <1> DEFINE y == x + n
             k == 1
  <1>1. y \in Int /\ k \in Int /\ y = x + n * k
    OBVIOUS
  <1> HIDE DEF y, k
  <1>2. y % n = x % n
    BY <1>1, Congruent
  <1>3. QED
    BY <1>2 DEF y

(* The wrap of the pointers is a multiple of the memory.                   *)
LEMMA Sizes == /\ RX_MEM \in Nat \ {0} /\ Wrap \in Nat \ {0} /\ Wrap > RX_MEM
               /\ \E w \in Int : Wrap = RX_MEM * w
  <1>1. RX_MEM \in Nat \ {0} /\ Wrap \in Nat \ {0} /\ Wrap > RX_MEM /\ Wrap % RX_MEM = 0
    BY Assumption DEF Assumption
  <1>2. Wrap \div RX_MEM \in Int /\ Wrap = RX_MEM * (Wrap \div RX_MEM) + (Wrap % RX_MEM)
    BY <1>1, DivMod
  <1>3. Wrap = RX_MEM * (Wrap \div RX_MEM)
    BY <1>1, <1>2
  <1>4. QED
    BY <1>1, <1>2, <1>3

LEMMA WrapMod ==
  ASSUME NEW x \in Int, NEW y \in Int
  PROVE  /\ (x % Wrap) % RX_MEM = x % RX_MEM
         /\ ((x % Wrap) + y) % RX_MEM = (x + y) % RX_MEM
         /\ (y - (x % Wrap)) % RX_MEM = (y - x) % RX_MEM
  <1> DEFINE q == x \div Wrap
             r == x % Wrap
  <1>1. q \in Int /\ r \in Int /\ x = Wrap * q + r
    BY Sizes, DivMod
  <1>2. PICK w \in Int : Wrap = RX_MEM * w
    BY Sizes
  <1>3. RX_MEM \in Nat \ {0} /\ RX_MEM \in Int
    BY Sizes
  <1> HIDE DEF q, r
  <1> DEFINE d == w * q
  <1>4. d \in Int /\ Wrap * q = RX_MEM * d
    BY <1>1, <1>2, <1>3
  <1> HIDE DEF d
  <1>5. /\ x = r + RX_MEM * d
        /\ x + y \in Int /\ r + y \in Int /\ x + y = (r + y) + RX_MEM * d
    BY <1>1, <1>3, <1>4
  <1>6. x % RX_MEM = r % RX_MEM
    BY <1>1, <1>3, <1>4, <1>5, Congruent
  <1>7. (x + y) % RX_MEM = (r + y) % RX_MEM
    <2> DEFINE u == x + y
               v == r + y
    <2>1. u \in Int /\ v \in Int /\ u = v + RX_MEM * d
      BY <1>5
    <2> HIDE DEF u, v
    <2>2. u % RX_MEM = v % RX_MEM
      BY <1>3, <1>4, <2>1, Congruent
    <2>3. QED
      BY <2>2 DEF u, v
  <1>8. (y - r) % RX_MEM = (y - x) % RX_MEM
    <2> DEFINE u == y - r
               v == y - x
    <2>1. u \in Int /\ v \in Int /\ u = v + RX_MEM * d
      BY <1>1, <1>3, <1>4, <1>5
    <2> HIDE DEF u, v
    <2>2. u % RX_MEM = v % RX_MEM
      BY <1>3, <1>4, <2>1, Congruent
    <2>3. QED
      BY <2>2 DEF u, v
  <1>9. QED
    BY <1>6, <1>7, <1>8 DEF r

-----------------------------------------------------------------------------
(* What w6100_rx finds in the receive memory.                              *)

Image(f) == <<(Len(f) + HEADER) \div 256, (Len(f) + HEADER) % 256>> \o f
Cells(f) == Len(f) + HEADER

LEMMA FramesInMemory ==
  ASSUME NEW f \in Frames
  PROVE  /\ f \in Seq(Nat) /\ Len(f) \in Nat /\ Len(f) >= 1
         /\ Cells(f) \in Nat /\ Cells(f) <= RX_MEM /\ Cells(f) = Len(f) + 2
  BY Assumption DEF Assumption, Cells, HEADER

LEMMA ImageCells ==
  ASSUME NEW f \in Frames
  PROVE  /\ Image(f) \in Seq(Nat) /\ Len(Image(f)) = Cells(f)
         /\ \A j \in 1..Cells(f) : Image(f)[j] \in Nat
         /\ 256 * Image(f)[1] + Image(f)[2] = Cells(f)
         /\ \A i \in 1..Len(f) : Image(f)[i + 2] = f[i]
  <1> DEFINE t == Len(f) + HEADER
             a == t \div 256
             b == t % 256
             h == <<a, b>>
  <1>1. t \in Nat /\ t = Cells(f) /\ f \in Seq(Nat) /\ Len(f) \in Nat /\ t = Len(f) + 2
    BY FramesInMemory DEF HEADER, Cells
  <1> HIDE DEF t
  <1>2. a \in Int /\ b \in 0..255 /\ t = 256 * a + b
    <2>1. 256 \in Nat \ {0} /\ t \in Int
      BY <1>1
    <2>2. a \in Int /\ b \in 0..(256 - 1) /\ t = 256 * a + b
      BY <2>1, DivMod
    <2>3. QED
      BY <2>2
  <1> HIDE DEF a, b
  <1>3. a \in Nat /\ b \in Nat
    BY <1>1, <1>2
  <1>4. h \in Seq(Nat) /\ Len(h) = 2 /\ h[1] = a /\ h[2] = b
    BY <1>3
  <1> HIDE DEF h
  <1>5. Image(f) = h \o f
    BY DEF Image, h, a, b, t
  <1>6. /\ h \o f \in Seq(Nat) /\ Len(h \o f) = 2 + Len(f)
        /\ \A i \in 1..2 + Len(f) : (h \o f)[i] = IF i <= 2 THEN h[i] ELSE f[i - 2]
    <2>1. /\ h \o f \in Seq(Nat) /\ Len(h \o f) = Len(h) + Len(f)
          /\ \A i \in 1..Len(h) + Len(f) : (h \o f)[i] = IF i <= Len(h) THEN h[i] ELSE f[i - Len(h)]
      BY <1>1, <1>4, ConcatProperties
    <2>2. QED
      BY <1>4, <2>1
  <1>7. Image(f) \in Seq(Nat) /\ Len(Image(f)) = Cells(f)
    BY <1>1, <1>5, <1>6
  <1>8. \A j \in 1..Cells(f) : Image(f)[j] \in Nat
    BY <1>7
  <1>9. 256 * Image(f)[1] + Image(f)[2] = Cells(f)
    <2>1. Image(f)[1] = a /\ Image(f)[2] = b
      BY <1>1, <1>4, <1>5, <1>6
    <2>2. QED
      BY <1>1, <1>2, <2>1
  <1>10. \A i \in 1..Len(f) : Image(f)[i + 2] = f[i]
    BY <1>1, <1>5, <1>6
  <1>11. QED
    BY <1>7, <1>8, <1>9, <1>10

(* Memory at a pointer; a frame behind its header; cells left alone.       *)
Cell(m, a) == m[a % RX_MEM]
Written(m, a, f) == \A j \in 1..Cells(f) : Cell(m, a + j - 1) = Image(f)[j]
Kept(m, m2, r, u) == \A o \in 0..u - 1 : Cell(m2, r + o) = Cell(m, r + o)
SamePlace(m, r, s) == \A o \in Int : Cell(m, r + o) = Cell(m, s + o)

(* The frames of q lie one after another in the first u cells from r on:   *)
(* the one at position k starts[k] cells after r, with its header.         *)
Placed(m, r, u, q, starts) ==
  /\ starts \in [1..Len(q) + 1 -> 0..RX_MEM]
  /\ starts[1] = 0 /\ starts[Len(q) + 1] = u
  /\ \A k, l \in 1..Len(q) + 1 : k <= l => starts[k] <= starts[l]
  /\ \A k \in 1..Len(q) :
       starts[k + 1] = starts[k] + Cells(q[k]) /\ Written(m, r + starts[k], q[k])

Holds(m, r, u, q) == u \in 0..RX_MEM /\ \E starts : Placed(m, r, u, q, starts)

LEMMA NothingHeld == ASSUME NEW m, NEW r PROVE Holds(m, r, 0, <<>>)
  <1> DEFINE starts == [k \in 1..1 |-> 0]
  <1>1. Placed(m, r, 0, <<>>, starts)
    BY Sizes DEF Placed
  <1>2. QED
    BY <1>1, Sizes DEF Holds

LEMMA HeldThenMore ==
  ASSUME NEW m, NEW m2, NEW r \in Int, NEW u, NEW q \in Seq(Frames), NEW f \in Frames,
         Holds(m, r, u, q), u + Cells(f) <= RX_MEM,
         Kept(m, m2, r, u), Written(m2, r + u, f)
  PROVE  Holds(m2, r, u + Cells(f), Append(q, f))
  <1> DEFINE n == Len(q)
             p == Append(q, f)
  <1>1. PICK starts : Placed(m, r, u, q, starts)
    BY DEF Holds
  <1>2. /\ n \in Nat /\ u \in Int /\ u >= 0 /\ p \in Seq(Frames) /\ Len(p) = n + 1
        /\ p[n + 1] = f /\ \A k \in 1..n : p[k] = q[k] /\ q[k] \in Frames
    BY AppendProperties, Sizes DEF Holds
  <1>3. Cells(f) \in Nat /\ \A k \in 1..n : Cells(q[k]) \in Nat
    BY <1>2, FramesInMemory
  <1>4. \A k \in 1..n + 1 : starts[k] \in Int /\ starts[k] >= 0 /\ starts[k] <= u
    BY <1>1, <1>2, Sizes DEF Placed
  <1> DEFINE t == [k \in 1..n + 2 |-> IF k = n + 2 THEN u + Cells(f) ELSE starts[k]]
  <1>5. \A k \in 1..n + 1 : t[k] = starts[k]
    BY <1>2
  <1>6. t[n + 2] = u + Cells(f)
    BY <1>2
  <1>7. t \in [1..n + 2 -> 0..RX_MEM]
    BY <1>2, <1>3, <1>4, Sizes
  <1> HIDE DEF t, p, n
  <1>8. t[1] = 0 /\ t[Len(p) + 1] = u + Cells(f)
    BY <1>1, <1>2, <1>5, <1>6 DEF Placed, n
  <1>9. \A k, l \in 1..n + 2 : k <= l => t[k] <= t[l]
    <2> SUFFICES ASSUME NEW k \in 1..n + 2, NEW l \in 1..n + 2, k <= l PROVE t[k] <= t[l]
      OBVIOUS
    <2>1. CASE l = n + 2
      <3>1. t[l] = u + Cells(f) /\ u + Cells(f) \in Int /\ u <= u + Cells(f)
        BY <2>1, <1>2, <1>3, <1>6
      <3>2. CASE k = n + 2
        BY <2>1, <3>1, <3>2
      <3>3. CASE k # n + 2
        <4>1. k \in 1..n + 1
          BY <3>3, <1>2
        <4>2. t[k] = starts[k] /\ starts[k] \in Int /\ starts[k] <= u
          BY <1>4, <1>5, <4>1
        <4>3. QED
          BY <1>2, <3>1, <4>2
      <3>4. QED
        BY <3>2, <3>3
    <2>2. CASE l # n + 2
      <3>1. k \in 1..n + 1 /\ l \in 1..n + 1
        BY <2>2, <1>2
      <3>2. starts[k] <= starts[l]
        BY <1>1, <3>1 DEF Placed, n
      <3>3. QED
        BY <1>5, <3>1, <3>2
    <2>3. QED
      BY <2>1, <2>2
  <1>10. ASSUME NEW k \in 1..n + 1
         PROVE  t[k + 1] = t[k] + Cells(p[k]) /\ Written(m2, r + t[k], p[k])
    <2>1. CASE k = n + 1
      <3>1. t[k] = u /\ t[k + 1] = u + Cells(f) /\ p[k] = f
        BY <2>1, <1>1, <1>2, <1>5, <1>6 DEF Placed, n
      <3>2. QED
        BY <3>1
    <2>2. CASE k # n + 1
      <3>1. k \in 1..n /\ k \in 1..n + 1 /\ k + 1 \in 1..n + 1
        BY <2>2, <1>2
      <3>2. p[k] = q[k] /\ t[k] = starts[k] /\ t[k + 1] = starts[k + 1] /\ Cells(q[k]) \in Nat
        BY <1>2, <1>3, <1>5, <3>1
      <3>3. starts[k + 1] = starts[k] + Cells(q[k]) /\ Written(m, r + starts[k], q[k])
        BY <1>1, <3>1 DEF Placed, n
      <3>4. starts[k + 1] <= u /\ starts[k] \in Int /\ starts[k] >= 0
        BY <1>4, <3>1
      <3>5. Written(m2, r + starts[k], q[k])
        <4> SUFFICES ASSUME NEW j \in 1..Cells(q[k])
                     PROVE  Cell(m2, r + starts[k] + j - 1) = Image(q[k])[j]
          BY DEF Written
        <4> DEFINE b == starts[k]
                   e == starts[k + 1]
                   o == b + j - 1
        <4>1. o \in 0..u - 1 /\ r + b + j - 1 = r + o
          <5>1. b \in Int /\ b >= 0 /\ u \in Int /\ e <= u /\ e = b + Cells(q[k]) /\ Cells(q[k]) \in Nat
            BY <1>2, <3>2, <3>3, <3>4
          <5> HIDE DEF b, e
          <5>2. QED
            BY <5>1
        <4> HIDE DEF o
        <4>2. Cell(m2, r + o) = Cell(m, r + o)
          BY <4>1 DEF Kept
        <4>3. Cell(m, r + starts[k] + j - 1) = Image(q[k])[j]
          BY <3>3 DEF Written
        <4>4. QED
          BY <4>1, <4>2, <4>3
      <3>6. QED
        BY <3>2, <3>3, <3>5
    <2>3. QED
      BY <2>1, <2>2
  <1>11. u + Cells(f) \in 0..RX_MEM
    BY <1>2, <1>3, Sizes
  <1>12. Len(p) + 1 = n + 2
    BY <1>2
  <1>13. Placed(m2, r, u + Cells(f), p, t)
    BY <1>2, <1>7, <1>8, <1>9, <1>10, <1>12 DEF Placed
  <1>14. QED
    BY <1>11, <1>13 DEF Holds, p

LEMMA HeldAfterFirst ==
  ASSUME NEW m, NEW r \in Int, NEW s \in Int, NEW u, NEW q \in Seq(Frames), q # <<>>,
         Holds(m, r, u, q),
         SamePlace(m, r + Cells(q[1]), s)
  PROVE  Holds(m, s, u - Cells(q[1]), Tail(q))
  <1> DEFINE n == Len(q)
             p == Tail(q)
             c == Cells(q[1])
  <1>1. PICK starts : Placed(m, r, u, q, starts)
    BY DEF Holds
  <1>2. /\ n \in Nat /\ n >= 1 /\ u \in Int /\ u >= 0 /\ u <= RX_MEM /\ p \in Seq(Frames)
        /\ Len(p) = n - 1 /\ \A k \in 1..n - 1 : p[k] = q[k + 1]
        /\ \A k \in 1..n : q[k] \in Frames
    <2>1. n \in Nat /\ n >= 1 /\ \A k \in 1..n : q[k] \in Frames
      BY EmptySeq
    <2>2. p \in Seq(Frames) /\ Len(p) = n - 1 /\ \A k \in 1..n - 1 : p[k] = q[k + 1]
      BY HeadTailProperties
    <2>3. QED
      BY <2>1, <2>2, Sizes DEF Holds
  <1>3. c \in Nat
    BY <1>2, FramesInMemory
  <1>4. \A k \in 1..n + 1 : starts[k] \in Int /\ starts[k] >= 0 /\ starts[k] <= u
    BY <1>1, <1>2, Sizes DEF Placed
  <1>5. starts[1] = 0 /\ starts[2] = c /\ starts[n + 1] = u /\ \A k \in 1..n : c <= starts[k + 1]
    <2>1. starts[1] = 0 /\ starts[1 + 1] = starts[1] + c /\ starts[n + 1] = u
      BY <1>1, <1>2 DEF Placed
    <2>2. \A k \in 1..n : starts[2] <= starts[k + 1]
      BY <1>1, <1>2 DEF Placed
    <2>3. QED
      BY <2>1, <2>2, <1>3
  <1> DEFINE t == [k \in 1..n |-> starts[k + 1] - c]
  <1>6. \A k \in 1..n : t[k] = starts[k + 1] - c
    OBVIOUS
  <1>7. t \in [1..n -> 0..RX_MEM]
    <2> SUFFICES ASSUME NEW k \in 1..n PROVE starts[k + 1] - c \in 0..RX_MEM
      OBVIOUS
    <2>1. k + 1 \in 1..n + 1 /\ RX_MEM \in Int
      BY <1>2, Sizes
    <2>2. starts[k + 1] \in Int /\ starts[k + 1] <= u /\ c <= starts[k + 1]
      BY <1>4, <1>5, <2>1
    <2> HIDE DEF c
    <2>3. QED
      BY <1>2, <1>3, <2>1, <2>2
  <1> HIDE DEF t, p, n, c
  <1>8. t[1] = 0 /\ t[Len(p) + 1] = u - c
    <2>1. 1 \in 1..n /\ n \in 1..n /\ Len(p) + 1 = n
      BY <1>2
    <2>2. t[1] = starts[2] - c /\ t[n] = starts[n + 1] - c
      BY <1>6, <2>1
    <2>3. QED
      BY <1>3, <1>5, <2>1, <2>2
  <1>9. \A k, l \in 1..n : k <= l => t[k] <= t[l]
    <2> SUFFICES ASSUME NEW k \in 1..n, NEW l \in 1..n, k <= l PROVE t[k] <= t[l]
      OBVIOUS
    <2>1. k + 1 \in 1..n + 1 /\ l + 1 \in 1..n + 1 /\ k + 1 <= l + 1
      BY <1>2
    <2>2. starts[k + 1] <= starts[l + 1] /\ starts[k + 1] \in Int /\ starts[l + 1] \in Int
      BY <1>1, <1>4, <2>1 DEF Placed, n
    <2>3. QED
      BY <1>3, <1>6, <2>2
  <1>10. ASSUME NEW k \in 1..n - 1
         PROVE  t[k + 1] = t[k] + Cells(p[k]) /\ Written(m, s + t[k], p[k])
    <2>1. k + 1 \in 1..n /\ k \in 1..n /\ k + 1 \in 1..n + 1
      BY <1>2
    <2>2. starts[(k + 1) + 1] = starts[k + 1] + Cells(q[k + 1]) /\ Written(m, r + starts[k + 1], q[k + 1])
      BY <1>1, <2>1 DEF Placed, n
    <2>3. p[k] = q[k + 1] /\ starts[k + 1] \in Int /\ Cells(q[k + 1]) \in Nat
      BY <1>2, <1>4, <2>1, FramesInMemory
    <2>4. t[k + 1] = t[k] + Cells(p[k])
      BY <1>3, <1>6, <2>1, <2>2, <2>3
    <2>5. Written(m, s + t[k], q[k + 1])
      <3> SUFFICES ASSUME NEW j \in 1..Cells(q[k + 1])
                   PROVE  Cell(m, s + t[k] + j - 1) = Image(q[k + 1])[j]
        BY DEF Written
      <3> DEFINE o == t[k] + j - 1
      <3>1. o \in Int /\ s + t[k] + j - 1 = s + o /\ r + starts[k + 1] + j - 1 = r + c + o
        <4> DEFINE b == starts[k + 1]
        <4>1. t[k] = b - c /\ b \in Int
          BY <1>6, <2>1, <2>3
        <4> HIDE DEF b
        <4>2. o \in Int /\ s + t[k] + j - 1 = s + o /\ r + b + j - 1 = r + c + o
          BY <1>3, <2>3, <4>1
        <4>3. QED
          BY <4>2 DEF b
      <3> HIDE DEF o
      <3>2. Cell(m, r + c + o) = Cell(m, s + o)
        BY <3>1 DEF SamePlace, c
      <3>3. Cell(m, r + starts[k + 1] + j - 1) = Image(q[k + 1])[j]
        BY <2>2 DEF Written
      <3>4. QED
        BY <3>1, <3>2, <3>3
    <2>6. QED
      BY <2>3, <2>4, <2>5
  <1>11. u - c \in 0..RX_MEM
    <2>1. c <= u
      <3>1. n \in 1..n
        BY <1>2
      <3>2. c <= starts[n + 1]
        BY <1>5, <3>1
      <3>3. QED
        BY <1>5, <3>2
    <2>2. QED
      BY <1>2, <1>3, <2>1, Sizes
  <1>12. Len(p) + 1 = n
    BY <1>2
  <1>13. Placed(m, s, u - c, p, t)
    BY <1>2, <1>7, <1>8, <1>9, <1>10, <1>12 DEF Placed
  <1>14. QED
    BY <1>11, <1>13 DEF Holds, p, c

(* The oldest frame is at the read pointer.                                *)
LEMMA FirstHeld ==
  ASSUME NEW m, NEW r \in Int, NEW u, NEW q \in Seq(Frames), q # <<>>, Holds(m, r, u, q)
  PROVE  Cells(q[1]) <= u /\ Written(m, r, q[1])
  <1>1. PICK starts : Placed(m, r, u, q, starts)
    BY DEF Holds
  <1>2. Len(q) \in Nat /\ Len(q) >= 1 /\ q[1] \in Frames
    BY EmptySeq
  <1>3. Cells(q[1]) \in Nat
    BY <1>2, FramesInMemory
  <1>4. starts[1] = 0 /\ starts[1 + 1] = starts[1] + Cells(q[1]) /\ Written(m, r + starts[1], q[1])
    BY <1>1, <1>2 DEF Placed
  <1>5. starts[2] <= u
    BY <1>1, <1>2 DEF Placed
  <1>6. r + starts[1] = r
    BY <1>4
  <1>7. QED
    BY <1>3, <1>4, <1>5, <1>6

-----------------------------------------------------------------------------
(* Receiving, reading and releasing.                                       *)

Ring == Holds(mem, rd, Used, stored)

LEMMA UsedType == ASSUME TypeOK PROVE Used \in 0..Wrap - 1 /\ wr \in Int /\ rd \in Int
  <1> DEFINE x == wr - rd
  <1>1. Wrap \in Nat \ {0} /\ wr \in Int /\ rd \in Int /\ x \in Int
    BY Sizes DEF TypeOK
  <1> HIDE DEF x
  <1>2. x % Wrap \in 0..Wrap - 1
    BY <1>1, DivMod
  <1>3. QED
    BY <1>1, <1>2 DEF Used, x

(* The two parts w6100_readbuf takes are one stretch of the ring.          *)
LEMMA ReadCells ==
  ASSUME NEW a \in Int, NEW len \in 0..RX_MEM
  PROVE  ReadBuf(a, len) = [i \in 1..len |-> Cell(mem, a + i - 1)]
  <1> DEFINE from == a % RX_MEM
             first == IF from + len > RX_MEM THEN RX_MEM - from ELSE len
             index(i) == IF i <= first THEN from + i - 1 ELSE i - first - 1
  <1>1. ReadBuf(a, len) = [i \in 1..len |-> mem[index(i) % RX_MEM]]
    BY Zenon DEF ReadBuf
  <1>2. RX_MEM \in Nat \ {0} /\ RX_MEM \in Int /\ len \in Int
    BY Sizes
  <1>3. from \in 0..RX_MEM - 1
    BY <1>2, DivMod
  <1>4. ASSUME NEW i \in 1..len PROVE index(i) % RX_MEM = (a + i - 1) % RX_MEM
    <2> DEFINE b == i - 1
               u == from + b
    <2>1. b \in Int /\ u \in Int /\ from + i - 1 = u /\ a + i - 1 = a + b
      BY <1>2, <1>3
    <2>2. u % RX_MEM = (a + b) % RX_MEM
      <3> HIDE DEF b
      <3>1. ((a % RX_MEM) + b) % RX_MEM = (a + b) % RX_MEM
        BY <1>2, <2>1, ModMod
      <3>2. QED
        BY <3>1
    <2>3. index(i) = u \/ index(i) = u - RX_MEM
      <3> HIDE DEF from
      <3>1. QED
        BY <1>2, <1>3
    <2> HIDE DEF b, u, index
    <2>4. (u - RX_MEM) % RX_MEM = u % RX_MEM
      <3> DEFINE v == u - RX_MEM
      <3>1. v \in Int /\ u = v + RX_MEM
        BY <1>2, <2>1
      <3> HIDE DEF v
      <3>2. u % RX_MEM = v % RX_MEM
        BY <1>2, <3>1, OneTurn
      <3>3. QED
        BY <3>2 DEF v
    <2>5. QED
      BY <2>1, <2>2, <2>3, <2>4
  <1> HIDE DEF index
  <1>5. QED
    BY <1>1, <1>4 DEF Cell

LEMMA HeadFrame ==
  ASSUME TypeOK, stored # <<>>
  PROVE  stored \in Seq(Frames) /\ stored[1] \in Frames /\ stored[1] = Head(stored)
  <1>1. stored \in Seq(Frames) /\ Len(stored) # 0
    BY EmptySeq DEF TypeOK
  <1>2. QED
    BY <1>1

(* The length w6100_rx reads is the length of the oldest frame.            *)
LEMMA LengthRead ==
  ASSUME TypeOK, Ring, stored # <<>>
  PROVE  RxLen = Len(stored[1]) /\ Cells(stored[1]) <= Used
  <1> DEFINE f == stored[1]
             h == ReadBuf(rd, HEADER)
  <1>1. stored \in Seq(Frames) /\ f \in Frames /\ rd \in Int
    BY HeadFrame, UsedType
  <1>2. Cells(f) <= Used /\ Written(mem, rd, f)
    BY <1>1, FirstHeld DEF Ring
  <1>3. Cells(f) = Len(f) + 2 /\ Cells(f) \in Nat /\ Cells(f) <= RX_MEM /\ Len(f) \in Nat
    BY <1>1, FramesInMemory
  <1> HIDE DEF f, h
  <1>4. HEADER \in 0..RX_MEM /\ HEADER = 2
    BY <1>3, Sizes DEF HEADER
  <1>5. h = [i \in 1..2 |-> Cell(mem, rd + i - 1)]
    BY <1>1, <1>4, ReadCells DEF h
  <1>6. h[1] = Image(f)[1] /\ h[2] = Image(f)[2]
    BY <1>2, <1>3, <1>5 DEF Written
  <1>7. h[1] \in Nat /\ h[2] \in Nat /\ 256 * h[1] + h[2] = Cells(f)
    BY <1>1, <1>3, <1>6, ImageCells
  <1>8. RxLen = (256 * h[1] + h[2] - 2) % Wrap
    BY <1>4 DEF RxLen, h
  <1>9. Len(f) \in 0..Wrap - 1 /\ Wrap \in Nat \ {0}
    BY <1>3, Sizes
  <1>10. Len(f) % Wrap = Len(f)
    BY <1>9, SmallMod
  <1>11. 256 * h[1] + h[2] - 2 = Len(f)
    BY <1>3, <1>7
  <1>12. QED
    BY <1>2, <1>8, <1>10, <1>11 DEF f

(* A fragment is the next part of the frame.                               *)
LEMMA FragmentRead ==
  ASSUME TypeOK, Ring, stored # <<>>, NEW p \in Nat, NEW len \in Nat, p + len <= Len(stored[1])
  PROVE  ReadBuf(rd + HEADER + p, len) = [i \in 1..len |-> stored[1][p + i]]
  <1> DEFINE f == stored[1]
             a == rd + HEADER + p
  <1>1. stored \in Seq(Frames) /\ f \in Frames /\ rd \in Int
    BY HeadFrame, UsedType
  <1>2. Written(mem, rd, f)
    BY <1>1, FirstHeld DEF Ring
  <1>3. Cells(f) = Len(f) + 2 /\ Cells(f) <= RX_MEM /\ Len(f) \in Nat
    BY <1>1, FramesInMemory
  <1> HIDE DEF f
  <1>4. p + len <= Len(f)
    BY DEF f
  <1>5. a \in Int /\ len \in 0..RX_MEM /\ a = rd + 2 + p
    BY <1>1, <1>3, <1>4, Sizes DEF HEADER
  <1> HIDE DEF a
  <1>6. ReadBuf(a, len) = [i \in 1..len |-> Cell(mem, a + i - 1)]
    BY <1>5, ReadCells
  <1>7. ASSUME NEW i \in 1..len PROVE Cell(mem, a + i - 1) = f[p + i]
    <2> DEFINE j == p + i + 2
    <2>1. /\ j \in 1..Cells(f) /\ a + i - 1 = rd + j - 1
          /\ p + i \in 1..Len(f) /\ (p + i) + 2 = j
      BY <1>1, <1>3, <1>4, <1>5
    <2> HIDE DEF j
    <2>2. Cell(mem, rd + j - 1) = Image(f)[j]
      BY <1>2, <2>1 DEF Written
    <2>3. Image(f)[(p + i) + 2] = f[p + i]
      BY <1>1, <2>1, ImageCells
    <2>4. QED
      BY <2>1, <2>2, <2>3
  <1>8. QED
    BY <1>6, <1>7 DEF f, a

(* A frame that comes leaves the others alone and follows them.            *)
LEMMA ReceiveKeepsRing ==
  ASSUME TypeOK, Ring, NEW f \in Frames, Receive(f)
  PROVE  Ring' /\ mem' \in [0..RX_MEM - 1 -> Nat] /\ wr' \in 0..Wrap - 1
  <1> DEFINE g == Image(f)
             n == RX_MEM
             at(i) == (i - wr) % n
             c == Cells(f)
             u == Used
  <1>1. /\ mem' = [i \in DOMAIN mem |-> IF at(i) + 1 <= Len(g) THEN g[at(i) + 1] ELSE mem[i]]
        /\ wr' = (wr + Len(g)) % Wrap /\ u + Len(g) <= n
        /\ stored' = Append(stored, f) /\ rd' = rd
    BY DEF Receive, Image
  <1>2. Len(g) = c /\ c \in Nat /\ \A j \in 1..c : g[j] \in Nat
    BY ImageCells, FramesInMemory
  <1>3. /\ n \in Nat \ {0} /\ n \in Int /\ Wrap \in Nat \ {0} /\ n < Wrap
        /\ wr \in Int /\ rd \in Int /\ u \in 0..Wrap - 1
    BY Sizes, UsedType
  <1>4. mem \in [0..n - 1 -> Nat] /\ stored \in Seq(Frames)
    BY DEF TypeOK
  <1> HIDE DEF at, u, g, c, n
  <1>5. \A i \in Int : at(i) \in 0..n - 1
    <2> SUFFICES ASSUME NEW i \in Int PROVE at(i) \in 0..n - 1
      OBVIOUS
    <2> DEFINE x == i - wr
    <2>1. x \in Int
      BY <1>3
    <2> HIDE DEF x
    <2>2. x % n \in 0..n - 1
      BY <1>3, <2>1, DivMod
    <2>3. QED
      BY <2>2 DEF x, at
  <1>6. mem' \in [0..n - 1 -> Nat]
    <2> SUFFICES ASSUME NEW i \in 0..n - 1 PROVE mem'[i] \in Nat
      BY <1>1, <1>4
    <2>1. at(i) \in 0..n - 1
      BY <1>3, <1>5
    <2>2. mem'[i] = IF at(i) + 1 <= c THEN g[at(i) + 1] ELSE mem[i]
      BY <1>1, <1>2, <1>4
    <2>3. mem[i] \in Nat
      BY <1>4
    <2>4. QED
      BY <1>2, <2>1, <2>2, <2>3
  <1>7. /\ wr' \in 0..Wrap - 1
        /\ (wr' - rd) % Wrap = (wr + c - rd) % Wrap
    <2> DEFINE x == wr + c
    <2>1. x \in Int /\ wr' = x % Wrap /\ wr + c - rd = x - rd
      BY <1>1, <1>2, <1>3
    <2> HIDE DEF x
    <2>2. x % Wrap \in 0..Wrap - 1
      BY <1>3, <2>1, DivMod
    <2>3. ((x % Wrap) - rd) % Wrap = (x - rd) % Wrap
      BY <1>3, <2>1, ModMod
    <2>4. QED
      BY <2>1, <2>2, <2>3
  <1>8. Used' = u + c
    <2> DEFINE x == wr - rd
               y == u + c
    <2>1. x \in Int /\ wr + c - rd = x + c /\ u = x % Wrap /\ y \in 0..Wrap - 1 /\ c \in Int
      BY <1>1, <1>2, <1>3 DEF u, Used
    <2>2. ((x % Wrap) + c) % Wrap = (x + c) % Wrap
      <3> HIDE DEF x
      <3>1. QED
        BY <1>3, <2>1, ModMod
    <2>3. y % Wrap = y
      <3> HIDE DEF y
      <3>1. QED
        BY <1>3, <2>1, SmallMod
    <2>4. Used' = (wr' - rd) % Wrap
      BY <1>1 DEF Used
    <2> HIDE DEF x
    <2>5. QED
      BY <1>7, <2>1, <2>2, <2>3, <2>4
  <1>9. ASSUME NEW o \in 0..n - 1
        PROVE  /\ o < u => Cell(mem', rd + o) = Cell(mem, rd + o)
               /\ u <= o /\ o < u + c => Cell(mem', rd + o) = g[o - u + 1]
    <2> DEFINE a == (rd + o) % n
               x == rd + o
               d == o - u
    <2>1. x \in Int /\ d \in Int /\ o \in Int
      BY <1>3
    <2>2. a \in 0..n - 1
      <3> HIDE DEF x
      <3>1. x % n \in 0..n - 1
        BY <1>3, <2>1, DivMod
      <3>2. QED
        BY <3>1 DEF x
    <2>3. at(a) = d % n
      <3> DEFINE z == wr - rd
      <3>1. z \in Int /\ x - wr = o - z /\ u = z % Wrap
        BY <1>3, <2>1 DEF u, Used
      <3> HIDE DEF x, z
      <3>2. ((x % n) - wr) % n = (x - wr) % n
        BY <1>3, <2>1, ModMod
      <3>3. (o - (z % Wrap)) % n = (o - z) % n
        BY <2>1, <3>1, WrapMod DEF n
      <3>4. at(a) = ((x % n) - wr) % n
        BY DEF at, x
      <3>5. QED
        BY <3>1, <3>2, <3>3, <3>4
    <2>4. /\ Cell(mem', rd + o) = IF at(a) + 1 <= c THEN g[at(a) + 1] ELSE mem[a]
          /\ Cell(mem, rd + o) = mem[a]
      <3>1. Cell(mem', rd + o) = mem'[a] /\ Cell(mem, rd + o) = mem[a]
        BY DEF Cell, n
      <3> HIDE DEF a
      <3>2. mem'[a] = IF at(a) + 1 <= c THEN g[at(a) + 1] ELSE mem[a]
        BY <1>1, <1>2, <1>4, <2>2
      <3>3. QED
        BY <3>1, <3>2
    <2> HIDE DEF a, x
    <2>5. CASE o < u
      <3> DEFINE y == d + n
      <3>1. y \in 0..n - 1 /\ y >= c /\ y = d + n /\ y \in Int
        BY <1>1, <1>2, <1>3, <2>1, <2>5
      <3> HIDE DEF y, d
      <3>2. y % n = d % n
        BY <1>3, <2>1, <3>1, OneTurn
      <3>3. y % n = y
        BY <1>3, <3>1, SmallMod
      <3>4. ~(at(a) + 1 <= c)
        BY <1>2, <2>3, <3>1, <3>2, <3>3
      <3>5. QED
        BY <2>4, <2>5, <3>4, <1>3, <2>1
    <2>6. CASE u <= o /\ o < u + c
      <3>1. d \in 0..n - 1 /\ d + 1 <= c
        BY <1>1, <1>2, <1>3, <2>1, <2>6
      <3>2. o - u + 1 = d + 1
        BY <2>1
      <3> HIDE DEF d
      <3>3. d % n = d
        BY <1>3, <3>1, SmallMod
      <3>4. QED
        BY <2>3, <2>4, <2>6, <3>1, <3>2, <3>3, <1>3, <2>1
    <2>7. CASE ~(o < u) /\ ~(u <= o /\ o < u + c)
      BY <2>7
    <2>8. QED
      BY <2>5, <2>6, <2>7
  <1>10. Kept(mem, mem', rd, u)
    <2> SUFFICES ASSUME NEW o \in 0..u - 1 PROVE Cell(mem', rd + o) = Cell(mem, rd + o)
      BY DEF Kept
    <2>1. o \in 0..n - 1 /\ o < u
      BY <1>1, <1>2, <1>3
    <2>2. QED
      BY <1>9, <2>1
  <1>11. Written(mem', rd + u, f)
    <2> SUFFICES ASSUME NEW j \in 1..c PROVE Cell(mem', rd + u + j - 1) = g[j]
      BY DEF Written, c, g
    <2> DEFINE o == u + j - 1
    <2>1. /\ o \in 0..n - 1 /\ u <= o /\ o < u + c
          /\ rd + u + j - 1 = rd + o /\ o - u + 1 = j
      BY <1>1, <1>2, <1>3
    <2> HIDE DEF o
    <2>2. Cell(mem', rd + o) = g[o - u + 1]
      BY <1>9, <2>1
    <2>3. QED
      BY <2>1, <2>2
  <1>12. Holds(mem, rd, u, stored)
    BY DEF Ring, u
  <1>13. Holds(mem', rd, u + c, Append(stored, f))
    <2>1. u + Cells(f) <= RX_MEM
      BY <1>1, <1>2 DEF c, n
    <2>2. QED
      BY <1>3, <1>4, <1>10, <1>11, <1>12, <2>1, HeldThenMore DEF c
  <1>14. Ring'
    BY <1>1, <1>8, <1>13 DEF Ring
  <1>15. QED
    BY <1>6, <1>7, <1>14 DEF n

(* Releasing the oldest frame leaves the read pointer at the next.         *)
LEMMA ReleaseKeepsRing ==
  ASSUME TypeOK, Ring, stored # <<>>, Release
  PROVE  Ring' /\ rd' \in 0..Wrap - 1 /\ stored' = Tail(stored) /\ stored' \in Seq(Frames)
  <1> DEFINE c == Cells(stored[1])
             u == Used
             x == rd + c
  <1>1. RxLen = Len(stored[1]) /\ c <= u
    BY LengthRead
  <1>2. /\ stored \in Seq(Frames) /\ stored[1] \in Frames /\ wr \in Int /\ rd \in Int
        /\ u \in 0..Wrap - 1 /\ Wrap \in Nat \ {0}
    BY HeadFrame, UsedType, Sizes
  <1>3. c \in Nat /\ c = Len(stored[1]) + 2 /\ Len(stored[1]) \in Nat
    BY <1>2, FramesInMemory
  <1>4. stored' = Tail(stored) /\ rd' = NextRd /\ mem' = mem /\ wr' = wr
    BY DEF Release
  <1> HIDE DEF c, u
  <1>5. rd + HEADER + RxLen = x /\ x \in Int
    <2>1. rd \in Int /\ RxLen \in Nat /\ c = RxLen + 2
      BY <1>1, <1>2, <1>3
    <2>2. QED
      BY <2>1 DEF HEADER
  <1>6. rd' = x % Wrap
    BY <1>4, <1>5 DEF NextRd
  <1>7. x % Wrap \in 0..Wrap - 1 /\ rd' \in Int
    <2> HIDE DEF x
    <2>1. x % Wrap \in 0..Wrap - 1
      BY <1>2, <1>5, DivMod
    <2>2. QED
      BY <1>2, <1>6, <2>1
  <1>8. SamePlace(mem, rd + c, rd')
    <2> SUFFICES ASSUME NEW o \in Int PROVE Cell(mem, x + o) = Cell(mem, rd' + o)
      BY DEF SamePlace
    <2> HIDE DEF x
    <2>1. ((x % Wrap) + o) % RX_MEM = (x + o) % RX_MEM
      BY <1>5, WrapMod
    <2>2. QED
      BY <1>6, <2>1 DEF Cell
  <1>9. Used' = u - c
    <2> DEFINE z == wr - rd
               y == u - c
    <2>1. z \in Int /\ wr - x = z - c /\ u = z % Wrap /\ y \in 0..Wrap - 1
      BY <1>1, <1>2, <1>3 DEF u, Used
    <2>2. Used' = (wr - rd') % Wrap
      BY <1>4 DEF Used
    <2> HIDE DEF x, z, y
    <2>3. (wr - (x % Wrap)) % Wrap = (wr - x) % Wrap
      BY <1>2, <1>5, ModMod
    <2>4. ((z % Wrap) - c) % Wrap = (z - c) % Wrap
      <3>1. z \in Int /\ c \in Int /\ Wrap \in Nat \ {0}
        BY <1>2, <1>3, <2>1
      <3>2. QED
        BY <3>1, ModMod
    <2>5. y % Wrap = y
      BY <1>2, <2>1, SmallMod
    <2>6. QED
      BY <1>6, <2>1, <2>2, <2>3, <2>4, <2>5 DEF y
  <1>10. Holds(mem, rd', u - c, Tail(stored))
    <2>1. Holds(mem, rd, u, stored)
      BY DEF Ring, u
    <2>2. SamePlace(mem, rd + Cells(stored[1]), rd')
      BY <1>8 DEF c
    <2>3. Holds(mem, rd', u - Cells(stored[1]), Tail(stored))
      BY <1>2, <1>7, <2>1, <2>2, HeldAfterFirst
    <2>4. QED
      BY <2>3 DEF c
  <1>11. Ring'
    BY <1>4, <1>9, <1>10 DEF Ring
  <1>12. Tail(stored) \in Seq(Frames)
    BY <1>2
  <1>13. QED
    BY <1>4, <1>6, <1>7, <1>11, <1>12

LEMMA NothingUsed == ASSUME Ring, stored = <<>> PROVE Used = 0
  <1>1. PICK starts : Placed(mem, rd, Used, stored, starts)
    BY DEF Ring, Holds
  <1>2. starts[1] = 0 /\ starts[Len(stored) + 1] = Used
    BY <1>1 DEF Placed
  <1>3. Len(stored) = 0
    OBVIOUS
  <1>4. QED
    BY <1>2, <1>3

-----------------------------------------------------------------------------
(* The thread's copy of the oldest frame.                                  *)

Prefix(p, f) == Len(p) < Len(f) /\ \A i \in 1..Len(p) : p[i] = f[i]

Copying ==
  /\ pc \in {"alloc", "copy", "deliver", "handed", "refused"} => stored # <<>>
  /\ pc = "copy" => Prefix(pkt, stored[1])
  /\ pc \in {"deliver", "handed", "refused"} => pkt = stored[1]

LEMMA FragmentCopied ==
  ASSUME TypeOK, Ring, Copying, CopyFragment
  PROVE  pkt' \in Seq(Nat) /\ Copying'
  <1> DEFINE f == stored[1]
             p == Len(pkt)
             len == Least(Frag, RxLen - Len(pkt))
             part == ReadBuf(rd + HEADER + Len(pkt), Least(Frag, RxLen - Len(pkt)))
  <1>1. pc = "copy" /\ stored # <<>> /\ Prefix(pkt, f)
    BY DEF CopyFragment, Copying
  <1>2. /\ pkt' = pkt \o part /\ stored' = stored
        /\ pc' = IF Len(pkt') >= RxLen THEN "deliver" ELSE "copy"
    BY DEF CopyFragment, AfterCopy, chip
  <1>3. pkt \in Seq(Nat) /\ f \in Seq(Nat) /\ Len(f) \in Nat /\ RxLen = Len(f)
    BY <1>1, HeadFrame, LengthRead, FramesInMemory DEF TypeOK
  <1>4. p \in Nat /\ p < Len(f) /\ \A i \in 1..p : pkt[i] = f[i]
    BY <1>1, <1>3 DEF Prefix
  <1>5. len \in Nat /\ p + len <= Len(f)
    BY <1>3, <1>4, Assumption DEF Least, Assumption
  <1>6. part = [i \in 1..len |-> f[p + i]]
    BY <1>1, <1>4, <1>5, FragmentRead
  <1> HIDE DEF f, p, len, part
  <1>7. part \in Seq(Nat) /\ Len(part) = len
    <2>1. \A i \in 1..len : f[p + i] \in Nat
      BY <1>3, <1>4, <1>5
    <2>2. QED
      BY <1>5, <1>6, <2>1
  <1>8. /\ pkt' \in Seq(Nat) /\ Len(pkt') = p + len
        /\ \A i \in 1..p + len : pkt'[i] = IF i <= p THEN pkt[i] ELSE part[i - p]
    BY <1>2, <1>3, <1>7, ConcatProperties DEF p
  <1>9. \A i \in 1..p + len : pkt'[i] = f[i]
    <2> SUFFICES ASSUME NEW i \in 1..p + len PROVE pkt'[i] = f[i]
      OBVIOUS
    <2>1. CASE i <= p
      BY <1>4, <1>5, <1>8, <2>1
    <2>2. CASE i > p
      <3>1. i - p \in 1..len /\ p + (i - p) = i
        BY <1>4, <1>5, <2>2
      <3>2. part[i - p] = f[p + (i - p)]
        BY <1>6, <3>1
      <3>3. pkt'[i] = part[i - p]
        BY <1>4, <1>5, <1>8, <2>2
      <3>4. QED
        BY <3>1, <3>2, <3>3
    <2>3. QED
      BY <1>4, <1>5, <2>1, <2>2
  <1>10. CASE p + len = Len(f)
    <2>1. pkt' = f
      BY <1>3, <1>8, <1>9, <1>10, SeqEqual
    <2>2. pc' = "deliver"
      BY <1>2, <1>3, <1>8, <1>10
    <2>3. QED
      BY <1>1, <1>2, <1>8, <2>1, <2>2 DEF Copying, f
  <1>11. CASE p + len < Len(f)
    <2>1. pc' = "copy"
      BY <1>2, <1>3, <1>4, <1>5, <1>8, <1>11
    <2>2. Prefix(pkt', f)
      BY <1>8, <1>9, <1>11 DEF Prefix
    <2>3. QED
      BY <1>1, <1>2, <1>8, <2>1, <2>2 DEF Copying, f
  <1>12. QED
    BY <1>3, <1>4, <1>5, <1>10, <1>11

-----------------------------------------------------------------------------
FrameInv == TypeOK /\ Ring /\ Copying

LEMMA FrameInit == Init => FrameInv
  <1> SUFFICES ASSUME Init PROVE FrameInv
    OBVIOUS
  <1>1. TypeOK
    <2>1. mem \in [0..RX_MEM - 1 -> Nat] /\ wr \in 0..Wrap - 1 /\ rd \in 0..Wrap - 1
      BY Sizes DEF Init
    <2>2. int_sem \in 0..SemLimit /\ tx_sem \in 0..SemLimit /\ txq \in Nat
      BY Assumption DEF Init, Assumption
    <2>3. stored \in Seq(Frames) /\ pkt \in Seq(Nat)
      BY EmptySeq DEF Init
    <2>4. QED
      BY Zenon, <2>1, <2>2, <2>3 DEF Init, TypeOK, IrBits
  <1>2. Used = 0
    BY Sizes DEF Init, Used
  <1>3. Ring
    BY <1>2, NothingHeld DEF Init, Ring
  <1>4. Copying
    BY DEF Init, Copying
  <1>5. QED
    BY <1>1, <1>3, <1>4 DEF FrameInv

LEMMA InLimit ==
  \A n \in 0..SemLimit : Given(n) \in 0..SemLimit /\ (n > 0 => n - 1 \in 0..SemLimit)
  BY Assumption DEF Given, Assumption

(* Types: of the variables outside the ring, and of the ring.              *)
RestTypes ==
  /\ mode \in {"reset", "masked", "on"} /\ ir \subseteq IrBits /\ irq \subseteq IrBits
  /\ txq \in Nat /\ phy \in Speeds \cup {Down}
  /\ int_sem \in 0..SemLimit /\ tx_sem \in 0..SemLimit
  /\ is_up \in BOOLEAN /\ speed \in Speeds \cup {0}
  /\ pc \in {"init", "sleep", "loop", "clear", "give", "rx", "alloc", "copy", "deliver",
             "handed", "refused"}
  /\ snd \in {"idle", "wait"} /\ starved \in BOOLEAN

LEMMA RestTypesStep == RestTypes /\ [Next]_vars => RestTypes'
  <1> SUFFICES ASSUME RestTypes, [Next]_vars PROVE RestTypes'
    OBVIOUS
  <1> USE InLimit DEF RestTypes, chip, link, thread, Raise, IrBits, UpdateLinkStatus
  <1>1. CASE UNCHANGED vars
    BY <1>1 DEF vars
  <1>2. ASSUME NEW f \in Frames, Receive(f) PROVE RestTypes'
    BY <1>2 DEF Receive
  <1>3. CASE Transmitted
    BY <1>3 DEF Transmitted
  <1>4. CASE PhyChanges
    BY <1>4 DEF PhyChanges
  <1>5. CASE HwOpen
    BY <1>5 DEF HwOpen
  <1>6. CASE HwUnmask
    BY <1>6 DEF HwUnmask
  <1>7. CASE IfaceInit
    BY <1>7 DEF IfaceInit
  <1>8. CASE Monitor
    BY <1>8 DEF Monitor
  <1>9. CASE Wake
    BY <1>9 DEF Wake
  <1>10. CASE ReadIr
    BY <1>10 DEF ReadIr
  <1>11. CASE LeaveLoop
    BY <1>11 DEF LeaveLoop
  <1>12. CASE ClearIr
    BY <1>12 DEF ClearIr
  <1>13. CASE GiveTx
    BY <1>13 DEF GiveTx, AfterGive
  <1>14. CASE RxBegins \/ Allocated \/ AllocFails
    BY <1>14 DEF RxBegins, Allocated, AllocFails
  <1>15. CASE CopyFragment \/ Deliver
    BY <1>15 DEF CopyFragment, AfterCopy, Deliver
  <1>16. CASE Release
    BY <1>16 DEF Release
  <1>17. CASE Send
    BY <1>17 DEF Send
  <1>18. CASE TakeTx
    BY <1>18 DEF TakeTx
  <1>19. CASE TxTimeout
    BY <1>19 DEF TxTimeout
  <1> HIDE DEF RestTypes, chip, link, thread, Raise, IrBits, UpdateLinkStatus
  <1>20. QED
    BY <1>1, <1>2, <1>3, <1>4, <1>5, <1>6, <1>7, <1>8, <1>9, <1>10, <1>11, <1>12, <1>13,
       <1>14, <1>15, <1>16, <1>17, <1>18, <1>19 DEF Next, Chip, Thread, Sender

RingTypes ==
  /\ mem \in [0..RX_MEM - 1 -> Nat] /\ wr \in 0..Wrap - 1 /\ rd \in 0..Wrap - 1
  /\ stored \in Seq(Frames) /\ pkt \in Seq(Nat)

LEMMA TypeParts == TypeOK <=> RestTypes /\ RingTypes
  BY Zenon DEF TypeOK, RestTypes, RingTypes

(* Every step but three leaves the ring and the frame in hand alone.       *)
LEMMA OtherSteps ==
  [Next]_vars =>
    \/ \E f \in Frames : Receive(f)
    \/ CopyFragment
    \/ Release
    \/ /\ UNCHANGED <<mem, wr, rd, stored>>
       /\ \/ RxBegins \/ Allocated
          \/ UNCHANGED pkt /\ \/ UNCHANGED pc
                              \/ Deliver
                              \/ pc \notin {"deliver", "handed", "refused"}
                                 /\ pc' \notin {"alloc", "copy", "deliver", "handed", "refused"}
  <1> SUFFICES ASSUME [Next]_vars, ~CopyFragment, ~Release, ~RxBegins, ~Allocated,
                      \A f \in Frames : ~Receive(f)
               PROVE  /\ UNCHANGED <<mem, wr, rd, stored, pkt>>
                      /\ \/ UNCHANGED pc
                         \/ Deliver
                         \/ pc \notin {"deliver", "handed", "refused"}
                            /\ pc' \notin {"alloc", "copy", "deliver", "handed", "refused"}
    <2>1. RxBegins => UNCHANGED <<mem, wr, rd, stored>>
      BY DEF RxBegins, chip
    <2>2. Allocated => UNCHANGED <<mem, wr, rd, stored>>
      BY DEF Allocated, chip
    <2>3. QED
      BY <2>1, <2>2
  <1>1. CASE UNCHANGED vars \/ Transmitted \/ PhyChanges \/ HwOpen \/ HwUnmask
    BY <1>1 DEF vars, chip, thread, Transmitted, PhyChanges, HwOpen, HwUnmask
  <1>2. CASE IfaceInit \/ Monitor \/ Wake \/ ReadIr \/ LeaveLoop
    BY <1>2 DEF chip, thread, IfaceInit, Monitor, Wake, ReadIr, LeaveLoop
  <1>3. CASE ClearIr \/ GiveTx \/ AllocFails \/ Deliver
    BY <1>3 DEF chip, thread, ClearIr, GiveTx, AfterGive, AllocFails, Deliver
  <1>4. CASE Send \/ TakeTx \/ TxTimeout
    BY <1>4 DEF chip, thread, Send, TakeTx, TxTimeout
  <1>5. QED
    BY <1>1, <1>2, <1>3, <1>4 DEF Next, Chip, Thread, Sender

LEMMA FrameStep == FrameInv /\ [Next]_vars => FrameInv'
  <1> SUFFICES ASSUME TypeOK, Ring, Copying, [Next]_vars PROVE FrameInv'
    BY DEF FrameInv
  <1>1. RestTypes'
    BY TypeParts, RestTypesStep
  <1>2. RingTypes
    BY TypeParts
  <1>3. RingTypes' => TypeOK'
    <2>1. (TypeOK <=> RestTypes /\ RingTypes)'
      BY TypeParts, PTL
    <2>2. QED
      BY <1>1, <2>1
  <1>4. ASSUME NEW f \in Frames, Receive(f) PROVE RingTypes' /\ Ring' /\ Copying'
    <2>1. Ring' /\ mem' \in [0..RX_MEM - 1 -> Nat] /\ wr' \in 0..Wrap - 1
      BY <1>4, ReceiveKeepsRing
    <2>2. stored' = Append(stored, f) /\ UNCHANGED <<rd, pkt, pc>>
      BY <1>4 DEF Receive, thread
    <2>3. stored \in Seq(Frames) /\ stored' \in Seq(Frames) /\ stored' # <<>>
      BY <1>2, <2>2, AppendProperties DEF RingTypes
    <2>4. stored # <<>> => stored'[1] = stored[1]
      <3>1. SUFFICES ASSUME stored # <<>> PROVE stored'[1] = stored[1]
        OBVIOUS
      <3>2. Len(stored) # 0 /\ Len(stored) \in Nat
        BY <2>3, <3>1, EmptySeq
      <3>3. QED
        BY <2>2, <2>3, <3>2, AppendProperties
    <2>5. Copying'
      BY <2>2, <2>3, <2>4 DEF Copying
    <2>6. QED
      BY <1>2, <2>1, <2>2, <2>3, <2>5 DEF RingTypes
  <1>5. ASSUME CopyFragment PROVE RingTypes' /\ Ring' /\ Copying'
    <2>1. pkt' \in Seq(Nat) /\ Copying'
      BY <1>5, FragmentCopied
    <2>2. UNCHANGED <<mem, wr, rd, stored>>
      BY <1>5 DEF CopyFragment, chip
    <2>3. Ring'
      BY <2>2 DEF Ring, Used
    <2>4. QED
      BY <1>2, <2>1, <2>2, <2>3 DEF RingTypes
  <1>6. ASSUME Release PROVE RingTypes' /\ Ring' /\ Copying'
    <2>1. stored # <<>>
      BY <1>6 DEF Release, Copying
    <2>2. Ring' /\ rd' \in 0..Wrap - 1 /\ stored' \in Seq(Frames)
      BY <1>6, <2>1, ReleaseKeepsRing
    <2>3. UNCHANGED <<mem, wr>> /\ pkt' = <<>> /\ pc' = "loop"
      BY <1>6 DEF Release
    <2>4. QED
      BY <1>2, <2>2, <2>3 DEF RingTypes, Copying
  <1>7. ASSUME UNCHANGED <<mem, wr, rd, stored>> PROVE Ring'
    BY <1>7 DEF Ring, Used
  <1>8. ASSUME RxBegins PROVE RingTypes' /\ Ring' /\ Copying'
    <2>1. /\ pc = "rx" /\ pc' = IF Used = 0 THEN "loop" ELSE "alloc"
          /\ UNCHANGED <<mem, wr, rd, stored, pkt>>
      BY <1>8 DEF RxBegins, chip
    <2>2. Used # 0 => stored # <<>>
      BY NothingUsed
    <2>3. Copying'
      BY <2>1, <2>2 DEF Copying
    <2>4. QED
      BY <1>2, <1>7, <2>1, <2>3 DEF RingTypes
  <1>9. ASSUME Allocated PROVE RingTypes' /\ Ring' /\ Copying'
    <2>1. pc = "alloc" /\ pc' = "copy" /\ pkt' = <<>> /\ UNCHANGED <<mem, wr, rd, stored>>
      BY <1>9 DEF Allocated, chip
    <2>2. stored # <<>>
      BY <2>1 DEF Copying
    <2>3. stored[1] \in Frames /\ Len(stored[1]) >= 1
      BY <2>2, HeadFrame, FramesInMemory
    <2>4. Prefix(pkt', stored[1])
      BY <2>1, <2>3 DEF Prefix
    <2>5. Copying'
      BY <2>1, <2>2, <2>4 DEF Copying
    <2>6. QED
      BY <1>2, <1>7, <2>1, <2>5 DEF RingTypes
  <1>10. ASSUME UNCHANGED <<mem, wr, rd, stored, pkt>>,
                \/ UNCHANGED pc
                \/ Deliver
                \/ pc \notin {"deliver", "handed", "refused"}
                   /\ pc' \notin {"alloc", "copy", "deliver", "handed", "refused"}
         PROVE  RingTypes' /\ Ring' /\ Copying'
    <2>1. RingTypes' /\ Ring'
      BY <1>2, <1>7, <1>10 DEF RingTypes
    <2>2. Copying'
      BY <1>10 DEF Copying, Deliver
    <2>3. QED
      BY <2>1, <2>2
  <1>11. RingTypes' /\ Ring' /\ Copying'
    BY OtherSteps, <1>4, <1>5, <1>6, <1>8, <1>9, <1>10
  <1>12. QED
    BY <1>3, <1>11 DEF FrameInv

LEMMA FrameInvAlways == Spec => []FrameInv
  BY FrameInit, FrameStep, PTL DEF Spec

(* Every variable keeps to its set: the pointers to their width, the bytes *)
(* w6100_rx copies to what a frame holds, both semaphores to their limit.  *)
THEOREM TypeCorrect == Spec => []TypeOK
  <1>1. FrameInv => TypeOK
    BY DEF FrameInv
  <1>2. QED
    BY <1>1, FrameInvAlways, PTL

-----------------------------------------------------------------------------
(* Each step of the driver is a step of the queue, or none.                *)
LEMMA QueueInit == Init => Up!Init
  BY DEF Init, Up!Init

LEMMA QueueNext ==
  FrameInv /\ [Next]_vars => [Up!Arrive \/ Up!HandUp \/ Up!Refuse \/ Up!Done]_Up!FrameVars
  <1> SUFFICES ASSUME TypeOK, Ring, Copying, [Next]_vars
               PROVE  [Up!Arrive \/ Up!HandUp \/ Up!Refuse \/ Up!Done]_Up!FrameVars
    BY DEF FrameInv
  <1>1. ASSUME NEW f \in Frames, Receive(f) PROVE Up!Arrive
    <2>1. stored' = Append(stored, f) /\ UNCHANGED <<pc, pkt>> /\ stored \in Seq(Frames)
      BY <1>1 DEF Receive, thread, TypeOK
    <2>2. CASE pc = "handed"
      <3>1. stored # <<>>
        BY <2>2 DEF Copying
      <3>2. Tail(Append(stored, f)) = Append(Tail(stored), f)
        BY <2>1, <3>1, HeadTailAppend
      <3>3. QED
        BY <2>1, <2>2, <3>2 DEF Up!Arrive
    <2>3. CASE pc # "handed"
      BY <2>1, <2>3 DEF Up!Arrive
    <2>4. QED
      BY <2>2, <2>3
  <1>2. CASE Release
    <2>1. pc \in {"handed", "refused"} /\ pc' = "loop" /\ stored' = Tail(stored) /\ stored # <<>>
      BY <1>2 DEF Release, Copying
    <2>2. CASE pc = "handed"
      BY <2>1, <2>2 DEF Up!Done
    <2>3. CASE pc = "refused"
      BY <2>1, <2>3 DEF Up!Refuse
    <2>4. QED
      BY <2>1, <2>2, <2>3
  <1>3. CASE Deliver
    <2>1. pc = "deliver" /\ pc' \in {"handed", "refused"} /\ UNCHANGED <<stored, pkt>>
      BY <1>3 DEF Deliver, chip
    <2>2. stored # <<>> /\ pkt = Head(stored)
      BY <2>1, HeadFrame DEF Copying
    <2>3. CASE pc' = "handed"
      BY <2>1, <2>2, <2>3 DEF Up!HandUp
    <2>4. CASE pc' = "refused"
      BY <2>1, <2>4 DEF Up!FrameVars
    <2>5. QED
      BY <2>1, <2>3, <2>4
  <1>4. CASE CopyFragment \/ RxBegins \/ Allocated
    <2>1. pc # "handed" /\ pc' # "handed" /\ UNCHANGED stored
      BY <1>4 DEF CopyFragment, AfterCopy, RxBegins, Allocated, chip
    <2>2. QED
      BY <2>1 DEF Up!FrameVars
  <1>5. ASSUME UNCHANGED <<mem, wr, rd, stored, pkt>>,
               \/ UNCHANGED pc
               \/ pc \notin {"deliver", "handed", "refused"}
                  /\ pc' \notin {"alloc", "copy", "deliver", "handed", "refused"}
        PROVE  UNCHANGED Up!FrameVars
    BY <1>5 DEF Up!FrameVars
  <1>6. QED
    BY OtherSteps, <1>1, <1>2, <1>3, <1>4, <1>5

(* w6100_rx: whatever the pointers wrapped to and however the fragments    *)
(* fell, what goes to the stack is the oldest frame, whole and once.       *)
THEOREM HandsUpTheQueue == Spec => HandsUpInOrder
  BY QueueInit, QueueNext, FrameInvAlways, PTL DEF Spec, HandsUpInOrder, Up!Spec

-----------------------------------------------------------------------------
(* No frame is stranded.  What w6100_rx finds when it begins is what the   *)
(* chip stored, so leaving because nothing is there leaves nothing behind. *)
LEMMA NothingStored == ASSUME TypeOK, Ring, Used = 0 PROVE stored = <<>>
  <1> SUFFICES ASSUME stored # <<>> PROVE FALSE
    OBVIOUS
  <1>1. Cells(stored[1]) <= Used /\ stored[1] \in Frames
    BY LengthRead, HeadFrame
  <1>2. Cells(stored[1]) \in Nat /\ Cells(stored[1]) >= 3
    BY <1>1, FramesInMemory
  <1>3. QED
    BY <1>1, <1>2

LEMMA AnnouncedStep == FrameInv /\ FrameAnnounced /\ [Next]_vars => FrameAnnounced'
  <1> SUFFICES ASSUME TypeOK, Ring, Rearm, stored # <<>> => "RECV" \in ir \/ OnItsWay \/ starved,
                      [Next]_vars, stored' # <<>>
               PROVE  ("RECV" \in ir \/ OnItsWay \/ starved)'
    BY DEF FrameInv, FrameAnnounced
  <1> USE DEF OnItsWay, chip, thread
  <1>1. ASSUME NEW f \in Frames, Receive(f) PROVE "RECV" \in ir'
    BY <1>1 DEF Receive, Raise
  <1>2. ASSUME Release PROVE "RECV" \in ir'
    BY <1>2 DEF Release, Raise
  <1>3. ASSUME UNCHANGED vars \/ Transmitted \/ PhyChanges \/ HwOpen \/ HwUnmask
        PROVE  ("RECV" \in ir \/ OnItsWay \/ starved)'
    BY <1>3 DEF vars, Transmitted, Raise, PhyChanges, HwOpen, HwUnmask
  <1>4. ASSUME IfaceInit \/ Monitor \/ Wake \/ LeaveLoop
        PROVE  ("RECV" \in ir \/ OnItsWay \/ starved)'
    BY <1>4 DEF IfaceInit, Monitor, Wake, LeaveLoop
  <1>5. ASSUME ReadIr \/ ClearIr PROVE ("RECV" \in ir \/ OnItsWay \/ starved)'
    BY <1>5 DEF ReadIr, ClearIr
  <1>6. ASSUME GiveTx PROVE ("RECV" \in ir \/ OnItsWay \/ starved)'
    BY <1>6 DEF GiveTx, AfterGive
  <1>7. ASSUME RxBegins PROVE OnItsWay'
    <2>1. Used # 0
      BY <1>7, NothingStored DEF RxBegins
    <2>2. QED
      BY <1>7, <2>1 DEF RxBegins
  <1>8. ASSUME Allocated \/ CopyFragment \/ Deliver PROVE OnItsWay'
    BY <1>8 DEF Allocated, CopyFragment, AfterCopy, Deliver
  <1>9. ASSUME AllocFails PROVE starved'
    BY <1>9 DEF AllocFails
  <1>10. ASSUME Send \/ TakeTx \/ TxTimeout PROVE ("RECV" \in ir \/ OnItsWay \/ starved)'
    BY <1>10 DEF Send, TakeTx, TxTimeout
  <1> HIDE DEF OnItsWay, chip, thread
  <1>11. QED
    BY <1>1, <1>2, <1>3, <1>4, <1>5, <1>6, <1>7, <1>8, <1>9, <1>10 DEF Next, Chip, Thread, Sender

(* w6100_rx and w6100_thread, on a chip that announces again: a frame in   *)
(* the memory is announced or fetched, unless there was no buffer for it.  *)
THEOREM NoFrameStranded == Spec => []FrameAnnounced
  <1>1. Init => FrameAnnounced
    BY DEF Init, FrameAnnounced
  <1>2. QED
    BY <1>1, AnnouncedStep, FrameInvAlways, PTL DEF Spec

-----------------------------------------------------------------------------
(* Interrupts and completions.  The variables the argument follows: the    *)
(* receive ring plays no part.                                             *)
ControlTypes ==
  /\ mode \in {"reset", "masked", "on"} /\ ir \subseteq IrBits /\ irq \subseteq IrBits
  /\ txq \in Nat /\ int_sem \in Nat /\ tx_sem \in Nat
  /\ pc \in {"init", "sleep", "loop", "clear", "give", "rx", "alloc", "copy", "deliver",
             "handed", "refused"}
  /\ snd \in {"idle", "wait"}

Startup  == pc = "init" => mode = "reset"
Snapshot == pc = "clear" => irq \subseteq ir

(* A frame on its way out, its bit, the bit in the thread's hand and the   *)
(* credit it becomes are one thing at different times.  Together they are  *)
(* never more than one, and one more while a sender waits.                 *)
One(b) == IF b THEN 1 ELSE 0
InBit  == One("SENDOK" \in ir)
InHand == One(pc = "give" /\ "SENDOK" \in irq)
Conserved == txq + tx_sem + InBit + InHand <= IF snd = "idle" THEN 1 ELSE 2

IInv == ControlTypes /\ Startup /\ Snapshot /\ EventSeen /\ CompletionNotLost /\ Conserved

LEMMA GivenGrows == \A n \in Nat : Given(n) \in Nat /\ Given(n) > 0 /\ Given(n) <= n + 1
  BY Assumption DEF Given, Assumption

(* What w6100_rx does to the interrupt side when it releases a frame.      *)
LEMMA ReleaseRaises ==
  Release => /\ UNCHANGED <<mode, txq, tx_sem, irq, snd>>
             /\ pc # "init" /\ pc' = "loop"
             /\ UNCHANGED <<ir, int_sem>> \/ Raise({"RECV"})
  BY DEF Release

LEMMA IInvInit == Init => IInv
  BY DEF Init, IInv, ControlTypes, Startup, Snapshot, EventSeen, Pin, CompletionNotLost, Conserved,
         One, InBit, InHand, IrBits

Parts == Startup /\ Snapshot /\ EventSeen /\ CompletionNotLost /\ Conserved

LEMMA ReleaseStep == IInv /\ Release => Parts'
  <1> SUFFICES ASSUME IInv, Release PROVE Parts'
    OBVIOUS
  <1>1. /\ UNCHANGED <<mode, txq, tx_sem, irq, snd>>
        /\ pc # "init" /\ pc' = "loop"
        /\ UNCHANGED <<ir, int_sem>> \/ Raise({"RECV"})
    BY ReleaseRaises
  <1>2. "SENDOK" \in ir' <=> "SENDOK" \in ir
    BY <1>1 DEF Raise
  <1>3. pc # "give"
    BY DEF Release
  <1>4. Startup' /\ Snapshot'
    BY <1>1 DEF Startup, Snapshot
  <1>5. EventSeen'
    BY <1>1 DEF EventSeen
  <1>6. CompletionNotLost'
    BY <1>1, <1>2, <1>3 DEF Release, IInv, CompletionNotLost, Completion
  <1>7. Conserved'
    BY <1>1, <1>2, <1>3 DEF IInv, ControlTypes, Conserved, One, InBit, InHand
  <1>8. QED
    BY <1>4, <1>5, <1>6, <1>7 DEF Parts

(* The other parts, one action at a time.                                  *)
LEMMA PartsStep ==
  IInv /\ [Next]_vars => Parts'
  <1> SUFFICES ASSUME IInv, [Next]_vars
               PROVE Parts'
    OBVIOUS
  <1> USE GivenGrows DEF Parts, IInv, ControlTypes, Startup, Snapshot, EventSeen, Pin, CompletionNotLost,
                         Completion, Conserved, One, InBit, InHand, chip, link, thread, Raise, IrBits
  <1>1. CASE UNCHANGED vars
    BY <1>1 DEF vars
  <1>2. CASE Transmitted
    BY <1>2 DEF Transmitted
  <1>3. CASE PhyChanges
    BY <1>3 DEF PhyChanges
  <1>4. ASSUME NEW f \in Frames, Receive(f)
        PROVE Parts'
    BY <1>4 DEF Receive
  <1>5. CASE HwOpen
    BY <1>5 DEF HwOpen
  <1>6. CASE HwUnmask
    BY <1>6 DEF HwUnmask
  <1>7. CASE IfaceInit \/ Monitor
    BY <1>7 DEF IfaceInit, Monitor
  <1>8. CASE Wake
    BY <1>8 DEF Wake
  <1>9. CASE ReadIr
    BY <1>9 DEF ReadIr
  <1>10. CASE LeaveLoop
    BY <1>10 DEF LeaveLoop
  <1>11. CASE ClearIr
    BY <1>11 DEF ClearIr
  <1>12. CASE GiveTx
    BY <1>12 DEF GiveTx, AfterGive
  <1>13. CASE RxBegins \/ Allocated \/ AllocFails
    BY <1>13 DEF RxBegins, Allocated, AllocFails
  <1>14. CASE CopyFragment \/ Deliver
    BY <1>14 DEF CopyFragment, AfterCopy, Deliver
  <1>15. CASE Release
    BY <1>15, ReleaseStep
  <1>16. CASE Send
    BY <1>16 DEF Send
  <1>17. CASE TakeTx
    BY <1>17 DEF TakeTx
  <1>18. CASE TxTimeout
    BY <1>18 DEF TxTimeout
  <1>19. QED
    BY <1>1, <1>2, <1>3, <1>4, <1>5, <1>6, <1>7, <1>8, <1>9, <1>10, <1>11, <1>12, <1>13, <1>14,
       <1>15, <1>16, <1>17, <1>18 DEF Next, Chip, Thread, Sender

LEMMA IInvAlways == Spec => []IInv
  <1>1. TypeOK => ControlTypes
    BY DEF TypeOK, ControlTypes
  <1>2. IInv /\ ControlTypes' /\ [Next]_vars => IInv'
    BY PartsStep DEF IInv, Parts
  <1>3. QED
    BY IInvInit, TypeCorrect, <1>1, <1>2, PTL DEF Spec

(* w6100_thread and w6100_gpio_callback: an active pin is being served or  *)
(* has left a wakeup.                                                      *)
THEOREM NoInterruptLost == Spec => []EventSeen
  <1>1. IInv => EventSeen
    BY DEF IInv
  <1>2. QED
    BY <1>1, IInvAlways, PTL

(* w6100_tx and w6100_thread: a waiting sender has a completion coming.    *)
THEOREM NoCompletionLost == Spec => []CompletionNotLost
  <1>1. IInv => CompletionNotLost
    BY DEF IInv
  <1>2. QED
    BY <1>1, IInvAlways, PTL

(* w6100_tx: at most two frames are in the transmit memory, whatever timed *)
(* out and whichever completions shared a bit.                             *)
THEOREM SendsOneAhead == Spec => []OneAhead
  <1>1. IInv => OneAhead
    BY DEF IInv, ControlTypes, Conserved, One, InBit, InHand, OneAhead
  <1>2. QED
    BY <1>1, IInvAlways, PTL
=============================================================================
