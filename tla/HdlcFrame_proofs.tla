--------------------------- MODULE HdlcFrame_proofs ---------------------------
(***************************************************************************)
(* What the codec computes for every sequence of bytes.                    *)
(***************************************************************************)
EXTENDS HdlcFrame, TLAPS, SequenceTheorems, WellFoundedInduction

Crc(message) == CalculateCrc(message)

-----------------------------------------------------------------------------
(***************************************************************************)
(* Induction.  It is stated of a set, so that the set of the numbers for   *)
(* which a fact holds can be put in its place.                             *)
(***************************************************************************)

(* A set that holds 0, and with a number the next, holds all of them. *)
LEMMA NatSetInduction ==
  ASSUME NEW S, 0 \in S, \A n \in Nat : n \in S => n + 1 \in S
  PROVE  Nat \subseteq S
<1> DEFINE T == Nat \ S
<1>1. SUFFICES ASSUME T # {} PROVE FALSE
  OBVIOUS
<1>2. PICK x \in T : \A y \in T : ~ (<<y, x>> \in OpToRel(<, Nat))
  <2>1. T \subseteq Nat
    OBVIOUS
  <2> HIDE DEF T
  <2> QED  BY <1>1, <2>1, NatLessThanWellFounded, WFMin
<1>3. x \in Nat /\ x # 0
  OBVIOUS
<1>4. x - 1 \in Nat /\ x - 1 < x /\ (x - 1) + 1 = x
  BY <1>3
<1>5. x - 1 \in S
  <2>1. <<x - 1, x>> \in OpToRel(<, Nat)
    BY <1>3, <1>4 DEF OpToRel
  <2> QED  BY <1>2, <1>4, <2>1
<1> QED  BY <1>3, <1>4, <1>5

(* The values of a loop that starts at `first` and takes N steps. *)
Loops(D, first, step, N) ==
  {f \in [0..N -> D] : f[0] = first /\ \A n \in 1..N : f[n] = step[n][f[n - 1]]}

(* Every loop has its values. *)
LEMMA LoopExists ==
  ASSUME NEW D, NEW first \in D, NEW step \in [Nat -> [D -> D]], NEW N \in Nat
  PROVE  Loops(D, first, step, N) # {}
<1> DEFINE P(m) == Loops(D, first, step, m) # {}
           S == {m \in Nat : P(m)}
<1>1. 0 \in S
  <2> DEFINE f == [n \in 0..0 |-> first]
  <2>1. /\ f \in [0..0 -> D] /\ f[0] = first
        /\ \A n \in 1..0 : f[n] = step[n][f[n - 1]]
    OBVIOUS
  <2> QED  BY <2>1 DEF Loops
<1>2. ASSUME NEW m \in Nat, m \in S  PROVE  m + 1 \in S
  <2>1. PICK f \in [0..m -> D] :
          f[0] = first /\ \A n \in 1..m : f[n] = step[n][f[n - 1]]
    BY <1>2 DEF Loops
  <2> DEFINE g == [n \in 0..(m + 1) |->
                     IF n = m + 1 THEN step[n][f[n - 1]] ELSE f[n]]
  <2>2. step[m + 1][f[m]] \in D
    OBVIOUS
  <2>3. g \in [0..(m + 1) -> D]
    BY <2>2
  <2>4. g[0] = first
    BY <2>1
  <2>5. ASSUME NEW n \in 1..(m + 1)  PROVE  g[n] = step[n][g[n - 1]]
    BY <2>1
  <2>6. P(m + 1)
    <3> HIDE DEF g
    <3> QED  BY <2>3, <2>4, <2>5 DEF Loops
  <2> QED  BY <2>6
<1>3. Nat \subseteq S
  <2> HIDE DEF S
  <2> QED  BY <1>1, <1>2, NatSetInduction
<1> QED  BY <1>3

(* Two loops take the same N steps; they have the same values after each.  *)
SameSteps(f, g, N) ==
  f[0] = g[0] /\ \A n \in 1..N : f[n - 1] = g[n - 1] => f[n] = g[n]

SameValues(f, g, N) == \A n \in 0..N : f[n] = g[n]

(* Loops that take the same steps have the same values. *)
LEMMA LoopUnique ==
  ASSUME NEW N \in Nat, NEW f, NEW g, SameSteps(f, g, N)
  PROVE  SameValues(f, g, N)
<1> DEFINE S == {n \in Nat : n <= N => f[n] = g[n]}
<1>1. 0 \in S
  BY DEF SameSteps
<1>2. ASSUME NEW n \in Nat, n \in S  PROVE  n + 1 \in S
  <2>1. SUFFICES ASSUME n + 1 <= N PROVE f[n + 1] = g[n + 1]
    OBVIOUS
  <2>2. n + 1 \in 1..N /\ n <= N /\ (n + 1) - 1 = n
    BY <2>1
  <2>3. f[n] = g[n]
    BY <1>2, <2>2
  <2> QED  BY <2>2, <2>3 DEF SameSteps
<1>3. Nat \subseteq S
  <2> HIDE DEF S
  <2> QED  BY <1>1, <1>2, NatSetInduction
<1> QED  BY <1>3 DEF SameValues

-----------------------------------------------------------------------------
(* The CRC of one byte *)

Weights == {1, 2, 4, 8, 16, 32, 64, 128}

(* A byte is the sum of its bits. *)
LEMMA BitsDetermine ==
  ASSUME NEW m \in Byte, NEW n \in Byte,
         \A weight \in Weights : Bit(m, weight) = Bit(n, weight)
  PROVE  m = n
<1>1. \A k \in Byte :
        k = Bit(k, 1) + 2 * Bit(k, 2) + 4 * Bit(k, 4) + 8 * Bit(k, 8)
            + 16 * Bit(k, 16) + 32 * Bit(k, 32) + 64 * Bit(k, 64)
            + 128 * Bit(k, 128)
  BY DEF Bit, Byte
<1>2. /\ Bit(m, 1) = Bit(n, 1) /\ Bit(m, 2) = Bit(n, 2) /\ Bit(m, 4) = Bit(n, 4)
      /\ Bit(m, 8) = Bit(n, 8) /\ Bit(m, 16) = Bit(n, 16)
      /\ Bit(m, 32) = Bit(n, 32) /\ Bit(m, 64) = Bit(n, 64)
      /\ Bit(m, 128) = Bit(n, 128)
  <2>1. {1, 2, 4, 8, 16, 32, 64, 128} \subseteq Weights
    BY DEF Weights
  <2> HIDE DEF Weights
  <2> QED  BY <2>1
<1>3. m = Bit(m, 1) + 2 * Bit(m, 2) + 4 * Bit(m, 4) + 8 * Bit(m, 8)
          + 16 * Bit(m, 16) + 32 * Bit(m, 32) + 64 * Bit(m, 64)
          + 128 * Bit(m, 128)
  BY <1>1, Zenon
<1>4. n = Bit(n, 1) + 2 * Bit(n, 2) + 4 * Bit(n, 4) + 8 * Bit(n, 8)
          + 16 * Bit(n, 16) + 32 * Bit(n, 32) + 64 * Bit(n, 64)
          + 128 * Bit(n, 128)
  BY <1>1, Zenon
<1> QED  BY <1>2, <1>3, <1>4

(* Exclusive or adds bit by bit, without a carry. *)
LEMMA XorBits ==
  ASSUME NEW m \in Byte, NEW n \in Byte
  PROVE  /\ Xor(m, n) \in Byte
         /\ \A weight \in Weights :
              Bit(Xor(m, n), weight) = (Bit(m, weight) + Bit(n, weight)) % 2
<1> DEFINE sum(w) == (Bit(m, w) + Bit(n, w)) % 2
<1>1. \A w \in Weights : sum(w) \in 0..1
  BY DEF Bit, Byte, Weights
<1>2. Xor(m, n) = sum(1) + 2 * sum(2) + 4 * sum(4) + 8 * sum(8) + 16 * sum(16)
                    + 32 * sum(32) + 64 * sum(64) + 128 * sum(128)
  BY <1>1 DEF Xor, Weights
<1> HIDE DEF sum
<1>3. /\ sum(1) \in 0..1 /\ sum(2) \in 0..1 /\ sum(4) \in 0..1 /\ sum(8) \in 0..1
      /\ sum(16) \in 0..1 /\ sum(32) \in 0..1 /\ sum(64) \in 0..1
      /\ sum(128) \in 0..1
  BY <1>1 DEF Weights
<1>4. /\ Xor(m, n) \in Byte
      /\ Bit(Xor(m, n), 1) = sum(1) /\ Bit(Xor(m, n), 2) = sum(2)
      /\ Bit(Xor(m, n), 4) = sum(4) /\ Bit(Xor(m, n), 8) = sum(8)
      /\ Bit(Xor(m, n), 16) = sum(16) /\ Bit(Xor(m, n), 32) = sum(32)
      /\ Bit(Xor(m, n), 64) = sum(64) /\ Bit(Xor(m, n), 128) = sum(128)
  BY <1>2, <1>3 DEF Bit, Byte
<1>5. \A w \in Weights : Bit(Xor(m, n), w) = sum(w)
  BY <1>4 DEF Weights
<1> QED  BY <1>4, <1>5 DEF sum

(* Exclusive or with a byte can be undone, on either side. *)
LEMMA XorInjective ==
  ASSUME NEW a \in Byte, NEW b \in Byte, NEW c \in Byte,
         Xor(a, c) = Xor(b, c) \/ Xor(c, a) = Xor(c, b)
  PROVE  a = b
<1>1. \A w \in Weights : (Bit(a, w) + Bit(c, w)) % 2 = (Bit(b, w) + Bit(c, w)) % 2
  <2>1. CASE Xor(a, c) = Xor(b, c)
    BY <2>1, XorBits
  <2>2. CASE Xor(c, a) = Xor(c, b)
    <3>1. \A w \in Weights :
            (Bit(c, w) + Bit(a, w)) % 2 = (Bit(c, w) + Bit(b, w)) % 2
      BY <2>2, XorBits
    <3>2. \A w \in Weights : /\ Bit(a, w) \in 0..1 /\ Bit(b, w) \in 0..1
                             /\ Bit(c, w) \in 0..1
      BY DEF Bit, Byte, Weights
    <3> QED  BY <3>1, <3>2
  <2> QED  BY <2>1, <2>2
<1>2. ASSUME NEW w \in Weights PROVE  Bit(a, w) = Bit(b, w)
  <2>1. Bit(a, w) \in 0..1 /\ Bit(b, w) \in 0..1 /\ Bit(c, w) \in 0..1
    BY DEF Bit, Byte, Weights
  <2> QED  BY <1>1, <2>1
<1> QED  BY <1>2, BitsDetermine

(* The polynomial sets the highest bit, so a shift that fed a bit back is  *)
(* told from one that did not, and no shift loses anything.                *)
LEMMA ShiftInjective ==
  ASSUME NEW c \in Byte, NEW d \in Byte
  PROVE  /\ Shift(c) \in Byte
         /\ Shift(c) = Shift(d) => c = d
<1>1. \A k \in Byte : k \div 2 \in 0..127 /\ 140 \in Byte /\ k \div 2 \in Byte
  BY DEF Byte
<1>2. \A k \in 0..127 : Xor(k, 140) \in 128..255
  <2>1. SUFFICES ASSUME NEW k \in 0..127 PROVE Xor(k, 140) \in 128..255
    OBVIOUS
  <2>2. k \in Byte /\ 140 \in Byte
    BY DEF Byte
  <2>3. Bit(Xor(k, 140), 128) = (Bit(k, 128) + Bit(140, 128)) % 2
    BY <2>2, XorBits DEF Weights
  <2>4. Bit(k, 128) = 0 /\ Bit(140, 128) = 1
    BY DEF Bit
  <2>5. Xor(k, 140) \in Byte
    BY <2>2, XorBits
  <2> QED  BY <2>3, <2>4, <2>5 DEF Bit, Byte
<1>3. \A k \in Byte : Shift(k) \in Byte
  BY <1>1, <1>2 DEF Shift, Byte
<1>4. ASSUME Shift(c) = Shift(d) PROVE c = d
  <2>1. c % 2 = d % 2
    <3>1. ASSUME NEW k \in Byte
          PROVE  k % 2 = 1 <=> Shift(k) \in 128..255
      <4> DEFINE fed  == Xor(k \div 2, 140)
                 half == k \div 2
                 low  == k % 2
                 next == Shift(k)
      <4>1. half \in 0..127 /\ fed \in 128..255
        BY <1>1, <1>2
      <4>2. next = IF low = 1 THEN fed ELSE half
        BY DEF Shift
      <4> HIDE DEF fed, half, low, next
      <4>3. low = 1 <=> next \in 128..255
        BY <4>1, <4>2
      <4> QED  BY <4>3 DEF low, next
    <3>2. (c % 2 = 1 <=> Shift(c) \in 128..255) /\ (d % 2 = 1 <=> Shift(d) \in 128..255)
      BY <3>1
    <3>3. c % 2 \in 0..1 /\ d % 2 \in 0..1
      BY DEF Byte
    <3> QED  BY <1>4, <3>2, <3>3
  <2>2. c \div 2 = d \div 2
    <3>1. CASE c % 2 = 1
      <4>1. Xor(c \div 2, 140) = Xor(d \div 2, 140)
        BY <1>4, <2>1, <3>1 DEF Shift
      <4> QED  BY <1>1, <4>1, XorInjective
    <3>2. CASE c % 2 # 1
      BY <1>4, <2>1, <3>2 DEF Shift
    <3> QED  BY <3>1, <3>2
  <2> QED  BY <2>1, <2>2 DEF Byte
<1> QED  BY <1>3, <1>4

(* Nor do the eight shifts after a byte. *)
LEMMA ShiftedOutInjective ==
  ASSUME NEW c \in Byte, NEW d \in Byte
  PROVE  /\ ShiftedOut[c] \in Byte
         /\ ShiftedOut[c] = ShiftedOut[d] => c = d
<1> DEFINE Is(f, k) == f = [n \in 0..8 |-> IF n = 0 THEN k ELSE Shift(f[n - 1])]
<1>1. ASSUME NEW k \in Byte
      PROVE  \E f \in [0..8 -> Byte] :
               /\ f[0] = k /\ \A n \in 1..8 : f[n] = Shift(f[n - 1])
               /\ ShiftedOut[k] = f[8]
  <2> DEFINE step == [n \in Nat |-> [b \in Byte |-> Shift(b)]]
  <2>1. step \in [Nat -> [Byte -> Byte]]
    BY ShiftInjective
  <2>2. PICK f : f \in Loops(Byte, k, step, 8)
    <3> HIDE DEF step
    <3> QED  BY <2>1, LoopExists
  <2>3. /\ f \in [0..8 -> Byte] /\ f[0] = k
        /\ \A n \in 1..8 : f[n] = Shift(f[n - 1])
    BY <2>2 DEF Loops
  <2>4. Is(f, k)
    BY <2>3
  <2> DEFINE g == CHOOSE g : Is(g, k)
  <2>5. Is(g, k)
    <3> HIDE DEF Is
    <3> QED  BY <2>4, Zenon
  <2>6. ShiftedOut[k] = g[8]
    BY DEF ShiftedOut
  <2> HIDE DEF g
  <2>7. g[0] = k /\ \A n \in 1..8 : g[n] = Shift(g[n - 1])
    BY <2>5
  <2>8. SameValues(g, f, 8)
    <3>1. SameSteps(g, f, 8)
      BY <2>3, <2>7 DEF SameSteps
    <3> QED  BY <3>1, LoopUnique
  <2> QED  BY <2>3, <2>6, <2>8 DEF SameValues
<1>2. PICK f \in [0..8 -> Byte] :
        /\ f[0] = c /\ \A n \in 1..8 : f[n] = Shift(f[n - 1])
        /\ ShiftedOut[c] = f[8]
  BY <1>1
<1>3. PICK g \in [0..8 -> Byte] :
        /\ g[0] = d /\ \A n \in 1..8 : g[n] = Shift(g[n - 1])
        /\ ShiftedOut[d] = g[8]
  BY <1>1
<1>4. \A n \in 1..8 : f[n] = g[n] => f[n - 1] = g[n - 1]
  BY <1>2, <1>3, ShiftInjective
<1>5. f[8] = g[8] => f[0] = g[0]
  <2>1. /\ f[8] = g[8] => f[7] = g[7]
        /\ f[7] = g[7] => f[6] = g[6]
        /\ f[6] = g[6] => f[5] = g[5]
        /\ f[5] = g[5] => f[4] = g[4]
        /\ f[4] = g[4] => f[3] = g[3]
        /\ f[3] = g[3] => f[2] = g[2]
        /\ f[2] = g[2] => f[1] = g[1]
        /\ f[1] = g[1] => f[0] = g[0]
    BY <1>4
  <2> QED  BY <2>1
<1> QED  BY <1>2, <1>3, <1>5

-----------------------------------------------------------------------------
(* The CRC of a message *)

(* The loop of calculateCrc, and what it returns. *)
LEMMA CrcLoop ==
  ASSUME NEW s \in Seq(Byte)
  PROVE  \E f \in [0..Len(s) -> Byte] :
           /\ f[0] = 255
           /\ \A n \in 1..Len(s) : f[n] = ShiftedOut[Xor(f[n - 1], s[n])]
           /\ CalculateCrc(s) = f[Len(s)]
<1> DEFINE Is(f) == f = [n \in 0..Len(s) |->
                           IF n = 0 THEN 255
                           ELSE ShiftedOut[Xor(f[n - 1], s[n])]]
           step == [n \in Nat |-> [crc \in Byte |->
                      IF n \in 1..Len(s) THEN ShiftedOut[Xor(crc, s[n])] ELSE crc]]
<1>1. Len(s) \in Nat /\ \A n \in 1..Len(s) : s[n] \in Byte
  BY LenProperties, ElementOfSeq
<1>2. step \in [Nat -> [Byte -> Byte]]
  BY <1>1, XorBits, ShiftedOutInjective
<1>3. 255 \in Byte
  BY DEF Byte
<1>4. PICK f : f \in Loops(Byte, 255, step, Len(s))
  <2> HIDE DEF step
  <2> QED  BY <1>1, <1>2, <1>3, LoopExists
<1>5. /\ f \in [0..Len(s) -> Byte] /\ f[0] = 255
      /\ \A n \in 1..Len(s) : f[n] = step[n][f[n - 1]]
  <2> HIDE DEF step
  <2> QED  BY <1>4 DEF Loops
<1>6. ASSUME NEW n \in 1..Len(s) PROVE  f[n] = ShiftedOut[Xor(f[n - 1], s[n])]
  <2>1. n - 1 \in 0..Len(s) /\ n \in Nat
    BY <1>1
  <2>2. f[n - 1] \in Byte
    BY <1>5, <2>1
  <2> QED  BY <1>5, <2>1, <2>2
<1>7. Is(f)
  BY <1>5, <1>6
<1> DEFINE g == CHOOSE g : Is(g)
<1>8. Is(g)
  <2> HIDE DEF Is
  <2> QED  BY <1>7, Zenon
<1>9. CalculateCrc(s) = g[Len(s)]
  BY DEF CalculateCrc
<1> HIDE DEF g
<1>10. g[0] = 255 /\ \A n \in 1..Len(s) : g[n] = ShiftedOut[Xor(g[n - 1], s[n])]
  BY <1>1, <1>8
<1>11. SameValues(g, f, Len(s))
  <2>1. SameSteps(g, f, Len(s))
    BY <1>5, <1>6, <1>10 DEF SameSteps
  <2> QED  BY <1>1, <2>1, LoopUnique
<1>12. CalculateCrc(s) = f[Len(s)]
  BY <1>1, <1>9, <1>11 DEF SameValues
<1> QED  BY <1>5, <1>6, <1>12

(* What one more byte does to the CRC. *)
LEMMA CrcOf ==
  /\ CalculateCrc(<<>>) = 255
  /\ \A s \in Seq(Byte) : CalculateCrc(s) \in Byte
  /\ \A s \in Seq(Byte), b \in Byte :
       CalculateCrc(Append(s, b)) = ShiftedOut[Xor(CalculateCrc(s), b)]
<1>1. CalculateCrc(<<>>) = 255
  <2> DEFINE none == <<>>
  <2>1. none \in Seq(Byte) /\ Len(none) = 0
    BY EmptySeq
  <2> HIDE DEF none
  <2>2. PICK f \in [0..Len(none) -> Byte] :
          /\ f[0] = 255
          /\ \A n \in 1..Len(none) : f[n] = ShiftedOut[Xor(f[n - 1], none[n])]
          /\ CalculateCrc(none) = f[Len(none)]
    BY <2>1, CrcLoop
  <2>3. CalculateCrc(none) = 255
    BY <2>1, <2>2
  <2> QED  BY <2>3 DEF none
<1>2. \A s \in Seq(Byte) : CalculateCrc(s) \in Byte
  BY CrcLoop, LenProperties
<1>3. ASSUME NEW s \in Seq(Byte), NEW b \in Byte
      PROVE  CalculateCrc(Append(s, b)) = ShiftedOut[Xor(CalculateCrc(s), b)]
  <2> DEFINE t == Append(s, b)
  <2>1. /\ Len(s) \in Nat
        /\ t \in Seq(Byte) /\ Len(t) = Len(s) + 1 /\ t[Len(s) + 1] = b
        /\ \A n \in 1..Len(s) : t[n] = s[n]
    BY LenProperties, AppendProperties
  <2> HIDE DEF t
  <2>2. PICK f \in [0..Len(s) -> Byte] :
          /\ f[0] = 255
          /\ \A n \in 1..Len(s) : f[n] = ShiftedOut[Xor(f[n - 1], s[n])]
          /\ CalculateCrc(s) = f[Len(s)]
    BY CrcLoop
  <2>3. PICK g \in [0..Len(t) -> Byte] :
          /\ g[0] = 255
          /\ \A n \in 1..Len(t) : g[n] = ShiftedOut[Xor(g[n - 1], t[n])]
          /\ CalculateCrc(t) = g[Len(t)]
    BY <2>1, CrcLoop
  <2>4. SameValues(f, g, Len(s))
    <3>1. \A n \in 1..Len(s) : n \in 1..Len(t) /\ t[n] = s[n]
      BY <2>1
    <3>2. SameSteps(f, g, Len(s))
      BY <2>2, <2>3, <3>1 DEF SameSteps
    <3> QED  BY <2>1, <3>2, LoopUnique
  <2>5. /\ Len(t) \in 1..Len(t) /\ Len(t) - 1 = Len(s)
        /\ Len(s) \in 0..Len(s)
    BY <2>1
  <2>6. CalculateCrc(t) = ShiftedOut[Xor(g[Len(s)], b)]
    BY <2>1, <2>3, <2>5
  <2> QED  BY <2>2, <2>4, <2>5, <2>6 DEF SameValues, t
<1> QED  BY <1>1, <1>2, <1>3

(* Messages whose last bytes are the same have the same CRC only if their  *)
(* first parts have, and messages of the same first part have it only if   *)
(* their last bytes are the same.                                          *)
LEMMA CrcInjective ==
  ASSUME NEW s \in Seq(Byte), NEW t \in Seq(Byte), NEW b \in Byte, NEW c \in Byte,
         CalculateCrc(Append(s, b)) = CalculateCrc(Append(t, c))
  PROVE  /\ b = c => CalculateCrc(s) = CalculateCrc(t)
         /\ CalculateCrc(s) = CalculateCrc(t) => b = c
<1>1. Crc(s) \in Byte /\ Crc(t) \in Byte
  BY CrcOf DEF Crc
<1>2. ShiftedOut[Xor(Crc(s), b)] = ShiftedOut[Xor(Crc(t), c)]
  BY CrcOf DEF Crc
<1>3. Xor(Crc(s), b) = Xor(Crc(t), c)
  <2>1. Xor(Crc(s), b) \in Byte /\ Xor(Crc(t), c) \in Byte
    BY <1>1, XorBits
  <2> QED  BY <1>2, <2>1, ShiftedOutInjective
<1> QED  BY <1>1, <1>3, XorInjective DEF Crc

-----------------------------------------------------------------------------
(* The bytes that encode() writes *)

(* FlattenSeq is a loop that joins one sequence after the other. *)
LEMMA FlattenLoop ==
  ASSUME NEW D, NEW ss \in Seq(Seq(D))
  PROVE  \E f \in [0..Len(ss) -> Seq(D)] :
           /\ f[0] = <<>>
           /\ \A i \in 1..Len(ss) : f[i] = f[i - 1] \o ss[i]
           /\ FlattenSeq(ss) = f[Len(ss)]
<1> DEFINE N == Len(ss)
           Is(f) == f = [i \in 1..N |-> IF i = 1 THEN ss[i] ELSE f[i - 1] \o ss[i]]
           step == [n \in Nat |-> [all \in Seq(D) |->
                      IF n \in 1..N THEN all \o ss[n] ELSE all]]
<1>1. N \in Nat /\ \A i \in 1..N : ss[i] \in Seq(D)
  BY LenProperties, ElementOfSeq
<1> HIDE DEF N
<1>2. step \in [Nat -> [Seq(D) -> Seq(D)]]
  BY <1>1, ConcatProperties
<1>3. <<>> \in Seq(D)
  BY EmptySeq
<1>4. PICK f : f \in Loops(Seq(D), <<>>, step, N)
  <2> HIDE DEF step
  <2> DEFINE All == Seq(D)
             none == <<>>
  <2>1. step \in [Nat -> [All -> All]] /\ none \in All
    BY <1>2, <1>3
  <2> HIDE DEF All, none
  <2>2. Loops(All, none, step, N) # {}
    BY <1>1, <2>1, LoopExists
  <2> QED  BY <2>2 DEF All, none
<1>5. /\ f \in [0..N -> Seq(D)] /\ f[0] = <<>>
      /\ \A n \in 1..N : f[n] = step[n][f[n - 1]]
  <2> HIDE DEF step
  <2> QED  BY <1>4 DEF Loops
<1>6. ASSUME NEW n \in 1..N  PROVE  f[n] = f[n - 1] \o ss[n]
  <2>1. n - 1 \in 0..N /\ n \in Nat
    BY <1>1
  <2>2. f[n - 1] \in Seq(D)
    BY <1>5, <2>1
  <2> QED  BY <1>5, <2>1, <2>2
<1> HIDE DEF step
<1>7. 1 \in 1..N => f[1] = <<>> \o ss[1]
  <2>1. SUFFICES ASSUME 1 \in 1..N PROVE f[1] = <<>> \o ss[1]
    OBVIOUS
  <2>2. f[1] = f[1 - 1] \o ss[1]
    BY <1>6, <2>1
  <2>3. 1 - 1 = 0
    OBVIOUS
  <2> QED  BY <1>5, <2>2, <2>3
<1>8. CASE N = 0
  <2>1. ss = <<>>
    BY <1>8, EmptySeq DEF N
  <2>2. FlattenSeq(ss) = f[N]
    BY <1>5, <1>8, <2>1 DEF FlattenSeq, N
  <2> QED  BY <1>5, <1>6, <2>2 DEF N
<1>9. CASE N # 0
  <2> DEFINE h == [i \in 1..N |-> f[i]]
  <2>1. Is(h)
    <3>1. 1 \in 1..N
      BY <1>1, <1>9
    <3>2. f[1] = ss[1]
      BY <1>1, <1>7, <3>1, ConcatEmptySeq
    <3>3. ASSUME NEW i \in 1..N, i # 1  PROVE  i - 1 \in 1..N
      BY <1>1, <3>3
    <3> QED  BY <1>6, <3>2, <3>3
  <2> DEFINE g == CHOOSE g : Is(g)
  <2>2. Is(g)
    <3> HIDE DEF Is, h
    <3> QED  BY <2>1, Zenon
  <2>3. FlattenSeq(ss) = g[N]
    BY <1>9 DEF FlattenSeq, N
  <2> HIDE DEF g, h
  <2> DEFINE k == [i \in 0..N |-> IF i = 0 THEN <<>> ELSE g[i]]
  <2>4. ASSUME NEW n \in 1..N, k[n - 1] = f[n - 1]  PROVE  k[n] = f[n]
    <3>1. n \in 0..N /\ n # 0 /\ n - 1 \in 0..N
      BY <1>1
    <3>2. k[n] = g[n]
      BY <3>1
    <3>3. CASE n = 1
      <4>1. f[1] = ss[1]
        BY <1>1, <1>7, <3>3, ConcatEmptySeq
      <4>2. g[1] = ss[1]
        BY <2>2, <3>3
      <4> QED  BY <3>2, <3>3, <4>1, <4>2
    <3>4. CASE n # 1
      <4>1. n - 1 # 0
        BY <3>4
      <4>2. k[n - 1] = g[n - 1]
        BY <3>1, <4>1
      <4>3. g[n] = g[n - 1] \o ss[n]
        BY <2>2, <3>4
      <4> HIDE DEF k
      <4> QED  BY <1>6, <2>4, <3>2, <4>2, <4>3
    <3> QED  BY <3>3, <3>4
  <2>5. SameSteps(k, f, N)
    <3>1. k[0] = f[0]
      BY <1>1, <1>5
    <3> HIDE DEF k
    <3> QED  BY <2>4, <3>1 DEF SameSteps
  <2>6. SameValues(k, f, N)
    <3> HIDE DEF k
    <3> QED  BY <1>1, <2>5, LoopUnique
  <2>7. k[N] = f[N]
    BY <1>1, <2>6 DEF SameValues
  <2>8. k[N] = g[N]
    BY <1>1, <1>9
  <2> HIDE DEF k
  <2> QED  BY <1>5, <1>6, <2>3, <2>7, <2>8 DEF N
<1> QED  BY <1>8, <1>9

(* One more sequence. *)
LEMMA FlattenOf ==
  ASSUME NEW D
  PROVE  /\ FlattenSeq(<<>>) = <<>>
         /\ \A ss \in Seq(Seq(D)) : FlattenSeq(ss) \in Seq(D)
         /\ \A ss \in Seq(Seq(D)), s \in Seq(D) :
              FlattenSeq(Append(ss, s)) = FlattenSeq(ss) \o s
<1>1. FlattenSeq(<<>>) = <<>>
  <2>1. <<>> \in Seq(Seq(D)) /\ Len(<<>>) = 0
    BY EmptySeq
  <2> QED  BY <2>1 DEF FlattenSeq
<1>2. ASSUME NEW ss \in Seq(Seq(D))  PROVE  FlattenSeq(ss) \in Seq(D)
  <2>1. PICK f \in [0..Len(ss) -> Seq(D)] : FlattenSeq(ss) = f[Len(ss)]
    BY FlattenLoop
  <2>2. Len(ss) \in 0..Len(ss)
    BY LenProperties
  <2> QED  BY <2>1, <2>2
<1>3. ASSUME NEW ss \in Seq(Seq(D)), NEW s \in Seq(D)
      PROVE  FlattenSeq(Append(ss, s)) = FlattenSeq(ss) \o s
  <2> DEFINE tt == Append(ss, s)
  <2>1. /\ Len(ss) \in Nat
        /\ tt \in Seq(Seq(D)) /\ Len(tt) = Len(ss) + 1 /\ tt[Len(ss) + 1] = s
        /\ \A n \in 1..Len(ss) : tt[n] = ss[n]
    BY LenProperties, AppendProperties
  <2> HIDE DEF tt
  <2>2. PICK f \in [0..Len(ss) -> Seq(D)] :
          /\ f[0] = <<>>
          /\ \A i \in 1..Len(ss) : f[i] = f[i - 1] \o ss[i]
          /\ FlattenSeq(ss) = f[Len(ss)]
    BY FlattenLoop
  <2>3. PICK g \in [0..Len(tt) -> Seq(D)] :
          /\ g[0] = <<>>
          /\ \A i \in 1..Len(tt) : g[i] = g[i - 1] \o tt[i]
          /\ FlattenSeq(tt) = g[Len(tt)]
    BY <2>1, FlattenLoop
  <2>4. SameValues(f, g, Len(ss))
    <3>1. \A n \in 1..Len(ss) : n \in 1..Len(tt) /\ tt[n] = ss[n]
      BY <2>1
    <3>2. SameSteps(f, g, Len(ss))
      BY <2>2, <2>3, <3>1 DEF SameSteps
    <3> QED  BY <2>1, <3>2, LoopUnique
  <2>5. /\ Len(tt) \in 1..Len(tt) /\ Len(tt) - 1 = Len(ss)
        /\ Len(ss) \in 0..Len(ss)
    BY <2>1
  <2>6. FlattenSeq(tt) = g[Len(ss)] \o s
    BY <2>1, <2>3, <2>5
  <2> QED  BY <2>2, <2>4, <2>5, <2>6 DEF SameValues, tt
<1> QED  BY <1>1, <1>2, <1>3

-----------------------------------------------------------------------------
(* The codec, a byte at a time *)

(* Sequences of one byte and of two. *)
LEMMA ShortSequences ==
  ASSUME NEW b, NEW c
  PROVE  /\ <<b>> # <<>> /\ Len(<<b>>) = 1
         /\ Head(<<b>>) = b /\ Tail(<<b>>) = <<>>
         /\ <<b, c>> # <<>> /\ Len(<<b, c>>) = 2
         /\ Head(<<b, c>>) = b /\ Tail(<<b, c>>) = <<c>>
OBVIOUS

(* A byte that is escaped is told from a flag and an escape, and toggled   *)
(* back by the receiver.                                                   *)
LEMMA UnitOf ==
  ASSUME NEW b \in Byte
  PROVE  \/ b \notin Special /\ EncodeUnit(b) = <<b>>
         \/ /\ b \in Special
            /\ EncodeUnit(b) = <<ESCAPE, EncodeByte(b)>>
            /\ EncodeByte(b) \in Byte \ Special
            /\ Toggle(EncodeByte(b)) = b
<1>1. CASE b \in Special
  <2>1. EncodeByte(b) = Toggle(b) /\ EncodeUnit(b) = <<ESCAPE, EncodeByte(b)>>
    BY <1>1 DEF EncodeByte, EncodeUnit
  <2>2. b = 126 \/ b = 125
    BY <1>1 DEF Special, FLAG, ESCAPE
  <2>3. /\ Toggle(b) \in Byte \ Special
        /\ Toggle(Toggle(b)) = b
    <3>1. CASE b = 126
      <4>1. Toggle(126) = 94
        BY DEF Toggle, ESCAPE_BIT
      <4>2. Toggle(94) = 126
        BY DEF Toggle, ESCAPE_BIT
      <4> QED  BY <3>1, <4>1, <4>2 DEF Byte, Special, FLAG, ESCAPE
    <3>2. CASE b = 125
      <4>1. Toggle(125) = 93
        BY DEF Toggle, ESCAPE_BIT
      <4>2. Toggle(93) = 125
        BY DEF Toggle, ESCAPE_BIT
      <4> QED  BY <3>2, <4>1, <4>2 DEF Byte, Special, FLAG, ESCAPE
    <3> QED  BY <2>2, <3>1, <3>2
  <2> QED  BY <1>1, <2>1, <2>3
<1>2. CASE b \notin Special
  BY <1>2 DEF EncodeUnit
<1> QED  BY <1>1, <1>2

(* The last byte of a message and its CRC, and what is before it. *)
LEMMA LastOfAppend ==
  ASSUME NEW s \in Seq(Byte), NEW b \in Byte
  PROVE  /\ Append(s, b) \in Seq(Byte)
         /\ Len(Append(s, b)) = Len(s) + 1
         /\ LastByte(Append(s, b)) = b
         /\ ButLast(Append(s, b)) = s
<1> DEFINE t == Append(s, b)
<1>1. /\ t \in Seq(Byte) /\ Len(t) = Len(s) + 1 /\ t[Len(s) + 1] = b
      /\ \A i \in 1..Len(s) : t[i] = s[i]
      /\ Len(s) \in Nat
  BY AppendProperties, LenProperties
<1> HIDE DEF t
<1>2. /\ ButLast(t) = SubSeq(t, 1, Len(s))
      /\ LastByte(t) = t[Len(s) + 1]
  BY <1>1 DEF ButLast, LastByte
<1>3. \A i \in 1..Len(s) : t[i] \in Byte
  BY <1>1, ElementOfSeq
<1>4. /\ SubSeq(t, 1, Len(s)) \in Seq(Byte)
      /\ Len(SubSeq(t, 1, Len(s))) = Len(s)
      /\ \A i \in 1..Len(s) : SubSeq(t, 1, Len(s))[i] = s[i]
  BY <1>1, <1>3, SubSeqProperties
<1>5. SubSeq(t, 1, Len(s)) = s
  BY <1>4, SeqEqual
<1> QED  BY <1>1, <1>2, <1>5 DEF t

(* The same of a first part of a message. *)
LEMMA LastOfPart ==
  ASSUME NEW s \in Seq(Byte), NEW n \in 1..Len(s)
  PROVE  /\ SubSeq(s, 1, n) \in Seq(Byte)
         /\ Len(SubSeq(s, 1, n)) = n
         /\ Append(SubSeq(s, 1, n - 1), s[n]) = SubSeq(s, 1, n)
         /\ LastByte(SubSeq(s, 1, n)) = s[n]
         /\ ButLast(SubSeq(s, 1, n)) = SubSeq(s, 1, n - 1)
<1> DEFINE t == SubSeq(s, 1, n - 1)
<1>0. Len(s) \in Nat /\ n \in Nat /\ n - 1 \in Int
  BY LenProperties
<1>1. \A i \in 1..n : s[i] \in Byte
  BY <1>0, ElementOfSeq
<1>2. /\ t \in Seq(Byte) /\ Len(t) = n - 1
      /\ \A i \in 1..n - 1 : t[i] = s[i]
  BY <1>0, <1>1, SubSeqProperties
<1>3. /\ SubSeq(s, 1, n) \in Seq(Byte)
      /\ Len(SubSeq(s, 1, n)) = n
      /\ \A i \in 1..n : SubSeq(s, 1, n)[i] = s[i]
  BY <1>0, <1>1, SubSeqProperties
<1> HIDE DEF t
<1>4. /\ Append(t, s[n]) \in Seq(Byte)
      /\ Len(Append(t, s[n])) = n
      /\ \A i \in 1..n : Append(t, s[n])[i] = s[i]
  BY <1>0, <1>1, <1>2, AppendProperties
<1>5. Append(t, s[n]) = SubSeq(s, 1, n)
  BY <1>3, <1>4, SeqEqual
<1>6. /\ LastByte(Append(t, s[n])) = s[n]
      /\ ButLast(Append(t, s[n])) = t
  BY <1>0, <1>1, <1>2, LastOfAppend
<1> QED  BY <1>3, <1>5, <1>6 DEF t

(* The decoder keeps its types whatever it reads. *)
LEMMA DecodeByteType ==
  ASSUME NEW f \in Frame, NEW b \in Byte,
         IF f.decoding THEN f.crc = -1 ELSE ~f.escape
  PROVE  LET g == DecodeByte(f, b)
         IN  /\ g \in Frame
             /\ IF g.decoding THEN g.crc = -1 ELSE ~g.escape
<1> DEFINE g == DecodeByte(f, b)
<1>1. CASE ~f.decoding
  BY <1>1, EmptySeq DEF DecodeByte, Open, Frame
<1>2. CASE f.decoding /\ f.escape
  <2>1. CASE b = FLAG
    BY <1>2, <2>1 DEF DecodeByte, Unescape, Throw, Frame
  <2>2. CASE b # FLAG /\ Toggle(b) \in Special
    <3>1. Toggle(b) \in Byte
      BY <2>2 DEF Special, FLAG, ESCAPE, Byte
    <3>2. Append(f.data, Toggle(b)) \in Seq(Byte)
      BY <3>1 DEF Frame
    <3>3. g = Push(f, Toggle(b))
      BY <1>2, <2>2 DEF DecodeByte, Unescape
    <3> QED  BY <1>2, <3>2, <3>3 DEF Push, Frame
  <2>3. CASE b # FLAG /\ Toggle(b) \notin Special
    BY <1>2, <2>3 DEF DecodeByte, Unescape, Throw, Frame
  <2> QED  BY <2>1, <2>2, <2>3
<1>3. CASE f.decoding /\ ~f.escape /\ b = FLAG
  <2>1. g = Close(f)
    BY <1>3 DEF DecodeByte
  <2>2. CASE Len(f.data) < 2
    BY <1>3, <2>1, <2>2 DEF Close, Throw, Frame
  <2>3. CASE ~(Len(f.data) < 2)
    <3>1. f.data \in Seq(Byte) /\ Len(f.data) \in Nat
      BY LenProperties DEF Frame
    <3>2. Len(f.data) \in 1..Len(f.data)
      BY <3>1, <2>3
    <3>3. SubSeq(f.data, 1, Len(f.data)) = f.data
      BY <3>1, SubSeqFull
    <3>4. \A i \in 1..Len(f.data) - 1 : f.data[i] \in Byte
      BY <3>1, ElementOfSeq
    <3>5. ButLast(f.data) \in Seq(Byte)
      BY <3>1, <3>4, SubSeqProperties DEF ButLast
    <3>6. LastByte(f.data) \in Byte
      BY <3>1, <3>2, ElementOfSeq DEF LastByte
    <3> QED  BY <1>3, <2>1, <2>3, <3>5, <3>6 DEF Close, Throw, Frame
  <2> QED  BY <2>2, <2>3
<1>4. CASE f.decoding /\ ~f.escape /\ b = ESCAPE
  <2>1. b # FLAG
    BY <1>4 DEF FLAG, ESCAPE
  <2>2. g = [f EXCEPT !.escape = TRUE]
    BY <1>4, <2>1 DEF DecodeByte
  <2> QED  BY <1>4, <2>2 DEF Frame
<1>5. CASE f.decoding /\ ~f.escape /\ b \notin Special
  <2>1. Append(f.data, b) \in Seq(Byte)
    BY DEF Frame
  <2>2. g = Push(f, b)
    BY <1>5 DEF DecodeByte, Special
  <2> QED  BY <1>5, <2>1, <2>2 DEF Push, Frame
<1> QED  BY <1>1, <1>2, <1>3, <1>4, <1>5 DEF Special, Frame

(* What the decoder makes of a byte that is no flag. *)
LEMMA ReadsByte ==
  ASSUME NEW f \in Frame, NEW b \in Byte, b # FLAG
  PROVE  LET g == DecodeByte(f, b)
         IN  /\ ~f.decoding => g = f
             /\ f.decoding /\ ~f.escape /\ b \notin Special =>
                  /\ g.data = Append(f.data, b)
                  /\ g.decoding /\ ~g.escape /\ g.failed = f.failed
             /\ f.decoding /\ ~f.escape /\ b = ESCAPE =>
                  /\ g.data = f.data
                  /\ g.decoding /\ g.escape /\ g.failed = f.failed
             /\ f.decoding /\ f.escape /\ Toggle(b) \in Special =>
                  /\ g.data = Append(f.data, Toggle(b))
                  /\ g.decoding /\ ~g.escape /\ g.failed = f.failed
<1> DEFINE g == DecodeByte(f, b)
<1>1. ~f.decoding => g = f
  BY DEF DecodeByte
<1>2. ASSUME f.decoding, ~f.escape, b \notin Special
      PROVE  /\ g.data = Append(f.data, b)
             /\ g.decoding /\ ~g.escape /\ g.failed = f.failed
  <2>1. g = Push(f, b)
    BY <1>2 DEF DecodeByte, Special
  <2> QED  BY <1>2, <2>1 DEF Push, Frame
<1>3. ASSUME f.decoding, ~f.escape, b = ESCAPE
      PROVE  /\ g.data = f.data
             /\ g.decoding /\ g.escape /\ g.failed = f.failed
  <2>1. g = [f EXCEPT !.escape = TRUE]
    BY <1>3 DEF DecodeByte
  <2> QED  BY <1>3, <2>1 DEF Frame
<1>4. ASSUME f.decoding, f.escape, Toggle(b) \in Special
      PROVE  /\ g.data = Append(f.data, Toggle(b))
             /\ g.decoding /\ ~g.escape /\ g.failed = f.failed
  <2>1. g = Push(f, Toggle(b))
    BY <1>4 DEF DecodeByte, Unescape
  <2> QED  BY <1>4, <2>1 DEF Push, Frame
<1> QED  BY <1>1, <1>2, <1>3, <1>4, Zenon

(* A flag outside a frame opens an empty one. *)
LEMMA FlagOpens ==
  ASSUME NEW f \in Frame, ~f.decoding
  PROVE  LET g == DecodeByte(f, FLAG)
         IN  g.data = <<>> /\ g.decoding /\ g.escape = f.escape
                           /\ g.failed = f.failed
<1>1. DecodeByte(f, FLAG) = Open(f)
  BY DEF DecodeByte
<1> QED  BY <1>1 DEF Open, Frame

(* A message with its CRC is accepted. *)
LEMMA FlagAccepts ==
  ASSUME NEW f \in Frame, f.decoding, ~f.escape, ~f.failed,
         NEW m \in Seq(Byte) \ {<<>>}, Crc(m) \in Byte,
         f.data = Append(m, Crc(m))
  PROVE  LET g == DecodeByte(f, FLAG)
         IN  g.data = m /\ ~g.decoding /\ ~g.escape /\ ~g.failed
<1> DEFINE g == DecodeByte(f, FLAG)
<1>1. /\ LastByte(f.data) = Crc(m)
      /\ ButLast(f.data) = m
      /\ Len(f.data) = Len(m) + 1
  BY LastOfAppend
<1>2. Len(m) \in Nat \ {0}
  BY EmptySeq
<1>3. ~(Len(f.data) < 2)
  BY <1>1, <1>2
<1>4. g = Close(f)
  BY DEF DecodeByte
<1>5. g = [[f EXCEPT !.decoding = FALSE, !.escape = FALSE]
             EXCEPT !.data = m, !.crc = Crc(m)]
  BY <1>1, <1>3, <1>4 DEF Close, Crc, Frame
<1> QED  BY <1>5 DEF Frame

(* A part of a message is rejected at the next flag. *)
LEMMA FlagRejects ==
  ASSUME NEW f \in Frame, f.decoding,
         NEW m \in Seq(Byte), NEW n \in 0..Len(m),
         \A k \in 1..Len(m) - 1 : m[k + 1] # Crc(SubSeq(m, 1, k)),
         f.data = SubSeq(m, 1, n)
  PROVE  LET g == DecodeByte(f, FLAG) IN ~g.decoding /\ g.failed
<1> DEFINE g == DecodeByte(f, FLAG)
<1>1. CASE f.escape
  <2>1. g = Throw([f EXCEPT !.decoding = FALSE, !.escape = FALSE])
    BY <1>1 DEF DecodeByte, Unescape
  <2> QED  BY <2>1 DEF Throw, Frame
<1>2. CASE ~f.escape
  <2>1. g = Close(f)
    BY <1>2 DEF DecodeByte
  <2>2. CASE Len(f.data) < 2
    <3>1. g = Throw([f EXCEPT !.decoding = FALSE, !.escape = FALSE])
      BY <2>1, <2>2 DEF Close
    <3> QED  BY <3>1 DEF Throw, Frame
  <2>3. CASE ~(Len(f.data) < 2)
    <3>0. Len(m) \in Nat
      BY LenProperties
    <3>1. n \in 2..Len(m)
      <4>1. CASE n = 0
        <5>1. f.data = <<>>
          BY <4>1, SubSeqEmpty
        <5> QED  BY <5>1, <2>3, EmptySeq
      <4>2. CASE n \in 1..Len(m)
        <5>1. Len(f.data) = n
          BY <4>2, LastOfPart
        <5> QED  BY <5>1, <4>2, <2>3, <3>0
      <4> QED  BY <4>1, <4>2, <3>0
    <3>2. LastByte(f.data) = m[n] /\ ButLast(f.data) = SubSeq(m, 1, n - 1)
      BY <3>0, <3>1, LastOfPart
    <3>3. n - 1 \in 1..Len(m) - 1 /\ n = (n - 1) + 1
      BY <3>0, <3>1
    <3>4. m[n] # Crc(SubSeq(m, 1, n - 1))
      BY <3>3
    <3>5. LastByte(f.data) # CalculateCrc(ButLast(f.data))
      BY <3>2, <3>4 DEF Crc
    <3>6. g = Throw([[f EXCEPT !.decoding = FALSE, !.escape = FALSE]
                       EXCEPT !.data = ButLast(@), !.crc = LastByte(f.data)])
      BY <2>1, <2>3, <3>5 DEF Close
    <3> QED  BY <3>6 DEF Throw, Frame
  <2> QED  BY <2>2, <2>3
<1> QED  BY <1>1, <1>2
-----------------------------------------------------------------------------
(* The codec, a message at a time *)

(* What a decoder can be left in: outside a frame no escape is pending, and *)
(* inside there is no CRC yet.                                             *)
DecoderState == {f \in Frame : IF f.decoding THEN f.crc = -1 ELSE ~f.escape}

(* One more byte, unless the decoder has thrown. *)
DecodeNext(f, b) == IF f.failed THEN f ELSE DecodeByte(f, b)

(* The decoder stays in such a state. *)
LEMMA DecodeNextType ==
  /\ EmptyFrame \in DecoderState
  /\ \A f \in DecoderState, b \in Byte : DecodeNext(f, b) \in DecoderState
<1>1. EmptyFrame \in DecoderState
  BY EmptySeq DEF EmptyFrame, DecoderState, Frame
<1>2. ASSUME NEW f \in DecoderState, NEW b \in Byte
      PROVE  DecodeNext(f, b) \in DecoderState
  <2>1. f \in Frame /\ IF f.decoding THEN f.crc = -1 ELSE ~f.escape
    BY DEF DecoderState
  <2>2. DecodeByte(f, b) \in DecoderState
    BY <2>1, DecodeByteType DEF DecoderState
  <2> QED  BY <2>2 DEF DecodeNext
<1> QED  BY <1>1, <1>2

(* The loop of decode(), and the decoder it leaves behind. *)
LEMMA DecodeLoop ==
  ASSUME NEW s \in Seq(Byte)
  PROVE  \E f \in [0..Len(s) -> DecoderState] :
           /\ f[0] = EmptyFrame
           /\ \A n \in 1..Len(s) : f[n] = DecodeNext(f[n - 1], s[n])
           /\ Decode(s) = f[Len(s)]
<1> DEFINE Is(f) == f = [n \in 0..Len(s) |->
                           IF n = 0 THEN EmptyFrame
                           ELSE IF f[n - 1].failed THEN f[n - 1]
                                ELSE DecodeByte(f[n - 1], s[n])]
           step == [n \in Nat |-> [g \in DecoderState |->
                      IF n \in 1..Len(s) THEN DecodeNext(g, s[n]) ELSE g]]
<1>1. Len(s) \in Nat /\ \A n \in 1..Len(s) : s[n] \in Byte
  BY LenProperties, ElementOfSeq
<1>2. step \in [Nat -> [DecoderState -> DecoderState]]
  BY <1>1, DecodeNextType
<1>3. PICK f : f \in Loops(DecoderState, EmptyFrame, step, Len(s))
  <2> HIDE DEF step
  <2> QED  BY <1>1, <1>2, DecodeNextType, LoopExists
<1>4. /\ f \in [0..Len(s) -> DecoderState] /\ f[0] = EmptyFrame
      /\ \A n \in 1..Len(s) : f[n] = step[n][f[n - 1]]
  <2> HIDE DEF step
  <2> QED  BY <1>3 DEF Loops
<1>5. ASSUME NEW n \in 1..Len(s) PROVE  f[n] = DecodeNext(f[n - 1], s[n])
  <2>1. n - 1 \in 0..Len(s) /\ n \in Nat
    BY <1>1
  <2>2. f[n - 1] \in DecoderState
    BY <1>4, <2>1
  <2> QED  BY <1>4, <2>1, <2>2
<1>6. Is(f)
  BY <1>4, <1>5 DEF DecodeNext
<1> DEFINE g == CHOOSE g : Is(g)
<1>7. Is(g)
  <2> HIDE DEF Is
  <2> QED  BY <1>6, Zenon
<1>8. Decode(s) = g[Len(s)]
  BY DEF Decode
<1> HIDE DEF g, step
<1>9. /\ g[0] = EmptyFrame
      /\ \A n \in 1..Len(s) : g[n] = DecodeNext(g[n - 1], s[n])
  BY <1>1, <1>7 DEF DecodeNext
<1> HIDE DEF Is
<1>10. SameValues(g, f, Len(s))
  <2>1. SameSteps(g, f, Len(s))
    BY <1>4, <1>5, <1>9 DEF SameSteps
  <2> QED  BY <1>1, <2>1, LoopUnique
<1>11. Decode(s) = f[Len(s)]
  BY <1>1, <1>8, <1>10 DEF SameValues
<1> QED  BY <1>4, <1>5, <1>11

(* What one more byte does to a decoder. *)
LEMMA DecodeOf ==
  /\ Decode(<<>>) = EmptyFrame
  /\ \A s \in Seq(Byte) : Decode(s) \in DecoderState
  /\ \A s \in Seq(Byte), b \in Byte :
       Decode(Append(s, b)) = DecodeNext(Decode(s), b)
<1>1. Decode(<<>>) = EmptyFrame
  <2>1. <<>> \in Seq(Byte) /\ Len(<<>>) = 0 /\ 0 \in 0..0
    BY EmptySeq
  <2>2. PICK f : f[0] = EmptyFrame /\ Decode(<<>>) = f[Len(<<>>)]
    BY <2>1, DecodeLoop
  <2> QED  BY <2>1, <2>2
<1>2. ASSUME NEW s \in Seq(Byte)  PROVE  Decode(s) \in DecoderState
  <2>1. PICK f \in [0..Len(s) -> DecoderState] : Decode(s) = f[Len(s)]
    BY DecodeLoop
  <2>2. Len(s) \in 0..Len(s)
    BY LenProperties
  <2> QED  BY <2>1, <2>2
<1>3. ASSUME NEW s \in Seq(Byte), NEW b \in Byte
      PROVE  Decode(Append(s, b)) = DecodeNext(Decode(s), b)
  <2> DEFINE t == Append(s, b)
  <2>1. /\ Len(s) \in Nat
        /\ t \in Seq(Byte) /\ Len(t) = Len(s) + 1 /\ t[Len(s) + 1] = b
        /\ \A n \in 1..Len(s) : t[n] = s[n]
    BY LenProperties, AppendProperties
  <2> HIDE DEF t
  <2>2. PICK f \in [0..Len(s) -> DecoderState] :
          /\ f[0] = EmptyFrame
          /\ \A n \in 1..Len(s) : f[n] = DecodeNext(f[n - 1], s[n])
          /\ Decode(s) = f[Len(s)]
    BY DecodeLoop
  <2>3. PICK g \in [0..Len(t) -> DecoderState] :
          /\ g[0] = EmptyFrame
          /\ \A n \in 1..Len(t) : g[n] = DecodeNext(g[n - 1], t[n])
          /\ Decode(t) = g[Len(t)]
    BY <2>1, DecodeLoop
  <2>4. SameValues(f, g, Len(s))
    <3>1. \A n \in 1..Len(s) : n \in 1..Len(t) /\ t[n] = s[n]
      BY <2>1
    <3>2. SameSteps(f, g, Len(s))
      BY <2>2, <2>3, <3>1 DEF SameSteps
    <3> QED  BY <2>1, <3>2, LoopUnique
  <2>5. /\ Len(t) \in 1..Len(t) /\ Len(t) - 1 = Len(s)
        /\ Len(s) \in 0..Len(s)
    BY <2>1
  <2>6. Decode(t) = DecodeNext(g[Len(s)], b)
    BY <2>1, <2>3, <2>5
  <2> QED  BY <2>2, <2>4, <2>5, <2>6 DEF SameValues, t
<1> QED  BY <1>1, <1>2, <1>3
-----------------------------------------------------------------------------
(* What the codec promises for every message *)

(* All messages of a length have what those of the length before have.     *)
LEMMA MessageInduction ==
  ASSUME NEW M, <<>> \in M,
         \A s \in Seq(Byte), b \in Byte : s \in M => Append(s, b) \in M
  PROVE  Seq(Byte) \subseteq M
<1> DEFINE S == {n \in Nat : \A s \in Seq(Byte) : Len(s) = n => s \in M}
<1>1. 0 \in S
  BY EmptySeq
<1>2. ASSUME NEW n \in Nat, n \in S  PROVE  n + 1 \in S
  <2>1. SUFFICES ASSUME NEW t \in Seq(Byte), Len(t) = n + 1  PROVE  t \in M
    OBVIOUS
  <2>2. t # <<>>
    BY <2>1
  <2>3. PICK s \in Seq(Byte), b \in Byte : t = Append(s, b)
    BY <2>2, SequenceEmptyOrAppend
  <2>4. Len(s) = n
    BY <2>1, <2>3, AppendProperties, LenProperties
  <2>5. s \in M
    BY <1>2, <2>4
  <2> QED  BY <2>3, <2>5
<1>3. Nat \subseteq S
  <2> HIDE DEF S
  <2> QED  BY <1>1, <1>2, NatSetInduction
<1> QED  BY <1>3, LenProperties

(* The CRC of a message is not that of any other that differs from it in   *)
(* one byte (calculateCrc, compared by decodeByte).                        *)
THEOREM OneByteErrorsChangeCrc ==
  ASSUME NEW s \in Seq(Byte), NEW i \in DOMAIN s, NEW b \in Byte, b # s[i]
  PROVE  CalculateCrc([s EXCEPT ![i] = b]) # CalculateCrc(s)
<1> DEFINE M == {m \in Seq(Byte) : \A k \in 1..Len(m), c \in Byte :
                   c # m[k] => Crc([m EXCEPT ![k] = c]) # Crc(m)}
<1>1. <<>> \in M
  BY EmptySeq
<1>2. ASSUME NEW m \in Seq(Byte), NEW d \in Byte, m \in M
      PROVE  Append(m, d) \in M
  <2> DEFINE t == Append(m, d)
  <2>1. /\ Len(m) \in Nat
        /\ t \in Seq(Byte) /\ Len(t) = Len(m) + 1 /\ t[Len(m) + 1] = d
        /\ \A n \in 1..Len(m) : t[n] = m[n]
    BY LenProperties, AppendProperties
  <2>2. SUFFICES ASSUME NEW k \in 1..Len(t), NEW c \in Byte, c # t[k]
                 PROVE  Crc([t EXCEPT ![k] = c]) # Crc(t)
    BY <2>1
  <2> DEFINE u == [t EXCEPT ![k] = c]
  <2> HIDE DEF t
  <2>3. /\ u \in Seq(Byte) /\ Len(u) = Len(t) /\ u[k] = c
        /\ \A n \in 1..Len(t) : n # k => u[n] = t[n]
    BY <2>1, ExceptSeq
  <2> HIDE DEF u
  <2>4. ASSUME k = Len(m) + 1  PROVE Crc(u) # Crc(t)
    <3>1. /\ Append(m, c) \in Seq(Byte) /\ Len(Append(m, c)) = Len(m) + 1
          /\ Append(m, c)[Len(m) + 1] = c
          /\ \A n \in 1..Len(m) : Append(m, c)[n] = m[n]
      BY <2>1, AppendProperties
    <3>2. \A n \in 1..Len(u) : u[n] = Append(m, c)[n]
      BY <2>1, <2>3, <2>4, <3>1
    <3>3. u = Append(m, c)
      BY <2>1, <2>3, <3>1, <3>2, SeqEqual
    <3>4. c # d
      BY <2>1, <2>2, <2>4
    <3>5. Crc(Append(m, c)) # Crc(Append(m, d))
      BY <3>4, CrcInjective DEF Crc
    <3> QED  BY <3>3, <3>5 DEF t
  <2>5. ASSUME k # Len(m) + 1  PROVE Crc(u) # Crc(t)
    <3> DEFINE v == [m EXCEPT ![k] = c]
    <3>1. k \in 1..Len(m) /\ c # m[k]
      BY <2>1, <2>2, <2>5
    <3>2. /\ v \in Seq(Byte) /\ Len(v) = Len(m) /\ v[k] = c
          /\ \A n \in 1..Len(m) : n # k => v[n] = m[n]
      BY <3>1, ExceptSeq
    <3>3. Crc(v) # Crc(m)
      BY <1>2, <3>1
    <3> HIDE DEF v
    <3>4. /\ Append(v, d) \in Seq(Byte) /\ Len(Append(v, d)) = Len(v) + 1
          /\ Append(v, d)[Len(v) + 1] = d
          /\ \A n \in 1..Len(v) : Append(v, d)[n] = v[n]
      BY <3>2, AppendProperties
    <3>5. ASSUME NEW n \in 1..Len(u) PROVE  u[n] = Append(v, d)[n]
      <4>1. CASE n = Len(m) + 1
        <5>1. u[n] = d
          BY <2>1, <2>3, <3>1, <4>1
        <5> QED  BY <3>2, <3>4, <4>1, <5>1
      <4>2. CASE n # Len(m) + 1
        <5>1. n \in 1..Len(m)
          BY <2>1, <2>3, <4>2
        <5>2. u[n] = v[n]
          BY <2>1, <2>3, <3>2, <5>1
        <5> QED  BY <3>2, <3>4, <5>1, <5>2
      <4> QED  BY <4>1, <4>2
    <3>6. u = Append(v, d)
      BY <2>1, <2>3, <3>2, <3>4, <3>5, SeqEqual
    <3>7. Crc(Append(v, d)) # Crc(Append(m, d))
      BY <3>2, <3>3, CrcInjective DEF Crc
    <3> QED  BY <3>6, <3>7 DEF t
  <2> QED  BY <2>4, <2>5 DEF u
<1>3. Seq(Byte) \subseteq M
  <2> HIDE DEF M
  <2> QED  BY <1>1, <1>2, MessageInduction
<1>4. i \in 1..Len(s)
  BY LenProperties
<1> QED  BY <1>3, <1>4 DEF Crc

-----------------------------------------------------------------------------
(* What encode() has written when it comes to the CRC. *)
EncodedUnits(message) == [i \in DOMAIN message |-> EncodeUnit(message[i])]

Body(message) == <<FLAG>> \o FlattenSeq(EncodedUnits(message))

(* It grows by a unit with each byte of the message. *)
LEMMA BodyOf ==
  /\ Body(<<>>) = Append(<<>>, FLAG)
  /\ \A s \in Seq(Byte) : Body(s) \in Seq(Byte)
  /\ \A s \in Seq(Byte), b \in Byte :
       Body(Append(s, b)) = Body(s) \o EncodeUnit(b)
<1>1. FLAG \in Byte /\ ESCAPE \in Byte
  BY DEF FLAG, ESCAPE, Byte
<1>2. <<FLAG>> \in Seq(Byte)
  BY <1>1
<1>3. ASSUME NEW b \in Byte  PROVE  EncodeUnit(b) \in Seq(Byte)
  <2>1. CASE EncodeUnit(b) = <<b>>
    BY <2>1
  <2>2. CASE EncodeUnit(b) = <<ESCAPE, EncodeByte(b)>> /\ EncodeByte(b) \in Byte
    BY <1>1, <2>2
  <2> QED  BY <2>1, <2>2, UnitOf
<1>4. ASSUME NEW s \in Seq(Byte)
      PROVE  /\ EncodedUnits(s) \in Seq(Seq(Byte))
             /\ Len(EncodedUnits(s)) = Len(s)
             /\ \A i \in 1..Len(s) : EncodedUnits(s)[i] = EncodeUnit(s[i])
  <2>1. Len(s) \in Nat /\ DOMAIN s = 1..Len(s) /\ \A i \in 1..Len(s) : s[i] \in Byte
    BY LenProperties, ElementOfSeq
  <2>2. EncodedUnits(s) \in [1..Len(s) -> Seq(Byte)]
    BY <1>3, <2>1 DEF EncodedUnits
  <2> QED  BY <2>1, <2>2 DEF EncodedUnits
<1>5. ASSUME NEW s \in Seq(Byte)
      PROVE  FlattenSeq(EncodedUnits(s)) \in Seq(Byte) /\ Body(s) \in Seq(Byte)
  <2>1. FlattenSeq(EncodedUnits(s)) \in Seq(Byte)
    BY <1>4, FlattenOf
  <2> QED  BY <1>2, <2>1, ConcatProperties DEF Body
<1>6. Body(<<>>) = Append(<<>>, FLAG)
  <2>1. EncodedUnits(<<>>) = <<>>
    BY <1>4, EmptySeq
  <2>2. FlattenSeq(<<>>) = <<>>
    BY FlattenOf
  <2>3. Body(<<>>) = <<FLAG>>
    BY <1>2, <2>1, <2>2, ConcatEmptySeq DEF Body
  <2> QED  BY <2>3
<1>7. ASSUME NEW s \in Seq(Byte), NEW b \in Byte
      PROVE  Body(Append(s, b)) = Body(s) \o EncodeUnit(b)
  <2> DEFINE t == Append(s, b)
  <2>1. /\ Len(s) \in Nat
        /\ t \in Seq(Byte) /\ Len(t) = Len(s) + 1 /\ t[Len(s) + 1] = b
        /\ \A n \in 1..Len(s) : t[n] = s[n]
    BY LenProperties, AppendProperties
  <2> HIDE DEF t
  <2>2. EncodedUnits(t) = Append(EncodedUnits(s), EncodeUnit(b))
    <3>1. /\ EncodedUnits(s) \in Seq(Seq(Byte)) /\ EncodeUnit(b) \in Seq(Byte)
          /\ Len(EncodedUnits(s)) = Len(s)
      BY <1>3, <1>4
    <3> DEFINE more == Append(EncodedUnits(s), EncodeUnit(b))
    <3>2. /\ more \in Seq(Seq(Byte)) /\ Len(more) = Len(s) + 1
          /\ more[Len(s) + 1] = EncodeUnit(b)
          /\ \A n \in 1..Len(s) : more[n] = EncodedUnits(s)[n]
      BY <3>1, AppendProperties
    <3> HIDE DEF more
    <3>3. /\ EncodedUnits(t) \in Seq(Seq(Byte)) /\ Len(EncodedUnits(t)) = Len(t)
          /\ \A i \in 1..Len(t) : EncodedUnits(t)[i] = EncodeUnit(t[i])
      BY <1>4, <2>1
    <3>4. \A n \in 1..Len(EncodedUnits(t)) : EncodedUnits(t)[n] = more[n]
      <4>1. SUFFICES ASSUME NEW n \in 1..Len(t) PROVE EncodedUnits(t)[n] = more[n]
        BY <3>3
      <4>2. CASE n = Len(s) + 1
        BY <2>1, <3>2, <3>3, <4>2
      <4>3. CASE n # Len(s) + 1
        <5>1. n \in 1..Len(s)
          BY <2>1, <4>3
        <5> QED  BY <1>4, <2>1, <3>2, <3>3, <5>1
      <4> QED  BY <4>2, <4>3
    <3>5. EncodedUnits(t) = more
      BY <2>1, <3>2, <3>3, <3>4, SeqEqual
    <3> QED  BY <3>5 DEF more
  <2>3. FlattenSeq(EncodedUnits(t)) = FlattenSeq(EncodedUnits(s)) \o EncodeUnit(b)
    BY <1>3, <1>4, <2>2, FlattenOf
  <2>4. /\ FlattenSeq(EncodedUnits(s)) \in Seq(Byte)
        /\ EncodeUnit(b) \in Seq(Byte)
    BY <1>3, <1>5
  <2> DEFINE flag == <<FLAG>>
             all == FlattenSeq(EncodedUnits(s))
             unit == EncodeUnit(b)
  <2>5. flag \in Seq(Byte) /\ all \in Seq(Byte) /\ unit \in Seq(Byte)
    BY <1>2, <2>4
  <2> HIDE DEF flag, all, unit
  <2>6. (flag \o all) \o unit = flag \o (all \o unit)
    BY <2>5, ConcatAssociative, SMTT(30)
  <2> QED  BY <2>3, <2>6 DEF Body, t, flag, all, unit
<1> QED  BY <1>5, <1>6, <1>7

(* A unit is appended a byte at a time. *)
LEMMA ConcatShort ==
  ASSUME NEW s \in Seq(Byte), NEW b \in Byte, NEW c \in Byte
  PROVE  /\ s \o <<b>> = Append(s, b)
         /\ s \o <<b, c>> = Append(Append(s, b), c)
<1>1. /\ <<b>> \in Seq(Byte) /\ <<c>> \in Seq(Byte)
      /\ Append(s, b) \in Seq(Byte)
  BY AppendProperties
<1>2. s \o <<b>> = Append(s, b)
  BY AppendIsConcat
<1>3. <<b, c>> = Append(<<b>>, c)
  OBVIOUS
<1>4. Append(<<b>>, c) = <<b>> \o <<c>>
  BY <1>1, AppendIsConcat
<1>5. Append(Append(s, b), c) = Append(s, b) \o <<c>>
  BY <1>1, AppendIsConcat
<1>6. (s \o <<b>>) \o <<c>> = s \o (<<b>> \o <<c>>)
  BY <1>1, ConcatAssociative
<1> QED  BY <1>2, <1>3, <1>4, <1>5, <1>6, Zenon

(* To the decoder it is a frame that is open and holds the message. *)
LEMMA BodyRead ==
  ASSUME NEW s \in Seq(Byte)
  PROVE  LET f == Decode(Body(s))
         IN  /\ f \in Frame /\ f.data = s
             /\ f.decoding /\ ~f.escape /\ ~f.failed
<1> DEFINE Holds(m) == LET f == Decode(Body(m))
                       IN  /\ f \in Frame /\ f.data = m
                           /\ f.decoding /\ ~f.escape /\ ~f.failed
           M == {m \in Seq(Byte) : Holds(m)}
<1>1. FLAG \in Byte /\ ESCAPE \in Byte /\ ESCAPE # FLAG /\ ESCAPE \in Special
  BY DEF FLAG, ESCAPE, Byte, Special
<1>2. <<>> \in M
  <2>1. <<>> \in Seq(Byte)
    BY EmptySeq
  <2>2. Decode(Body(<<>>)) = DecodeByte(EmptyFrame, FLAG)
    <3>1. Body(<<>>) = Append(<<>>, FLAG)
      BY BodyOf
    <3>2. Decode(Append(<<>>, FLAG)) = DecodeNext(Decode(<<>>), FLAG)
      BY <1>1, <2>1, DecodeOf
    <3>3. Decode(<<>>) = EmptyFrame
      BY DecodeOf
    <3>4. ~EmptyFrame.failed
      BY DEF EmptyFrame
    <3> QED  BY <3>1, <3>2, <3>3, <3>4 DEF DecodeNext
  <2>3. EmptyFrame \in Frame /\ ~EmptyFrame.decoding
    BY <2>1 DEF EmptyFrame, Frame
  <2>4. DecodeByte(EmptyFrame, FLAG) = Open(EmptyFrame)
    BY <2>3 DEF DecodeByte
  <2> QED  BY <2>1, <2>2, <2>4 DEF Open, EmptyFrame, Frame
<1>3. ASSUME NEW m \in Seq(Byte), NEW b \in Byte, m \in M
      PROVE  Append(m, b) \in M
  <2> DEFINE f == Decode(Body(m))
             t == EncodeByte(b)
  <2>1. /\ f \in Frame /\ f.data = m /\ f.decoding /\ ~f.escape /\ ~f.failed
        /\ Body(m) \in Seq(Byte)
        /\ Append(m, b) \in Seq(Byte)
    BY <1>3, BodyOf, AppendProperties
  <2>2. f \in DecoderState
    BY <2>1, DecodeOf
  <2>3. CASE b \notin Special /\ EncodeUnit(b) = <<b>>
    <3>1. Body(Append(m, b)) = Append(Body(m), b)
      <4>1. Body(Append(m, b)) = Body(m) \o EncodeUnit(b)
        BY BodyOf
      <4> QED  BY <2>1, <2>3, <4>1, ConcatShort
    <3> DEFINE g == DecodeByte(f, b)
    <3>2. Decode(Body(Append(m, b))) = g
      BY <2>1, <3>1, DecodeOf DEF DecodeNext
    <3>3. g \in Frame
      BY <2>2, DecodeByteType DEF DecoderState
    <3>4. b # FLAG
      BY <2>3 DEF Special
    <3>5. g.data = Append(m, b) /\ g.decoding /\ ~g.escape /\ g.failed = f.failed
      <4> HIDE DEF f
      <4> QED  BY <2>1, <2>3, <3>4, ReadsByte
    <3> HIDE DEF f, g
    <3> QED  BY <2>1, <3>2, <3>3, <3>5
  <2>4. CASE /\ b \in Special
             /\ EncodeUnit(b) = <<ESCAPE, t>>
             /\ t \in Byte \ Special
             /\ Toggle(t) = b
    <3>1. Body(Append(m, b)) = Append(Append(Body(m), ESCAPE), t)
      <4> HIDE DEF t
      <4>1. Body(Append(m, b)) = Body(m) \o <<ESCAPE, t>>
        <5>1. Body(Append(m, b)) = Body(m) \o EncodeUnit(b)
          BY BodyOf
        <5> QED  BY <2>4, <5>1
      <4> QED  BY <1>1, <2>1, <2>4, <4>1, ConcatShort
    <3> DEFINE e == DecodeByte(f, ESCAPE)
               g == DecodeByte(e, t)
    <3>2. e \in DecoderState /\ e \in Frame
      BY <1>1, <2>2, DecodeByteType DEF DecoderState
    <3>3. e.data = m /\ e.decoding /\ e.escape /\ e.failed = f.failed
      <4> HIDE DEF f
      <4> QED  BY <1>1, <2>1, ReadsByte
    <3>4. /\ Append(Body(m), ESCAPE) \in Seq(Byte)
          /\ Decode(Append(Body(m), ESCAPE)) = e
      BY <1>1, <2>1, AppendProperties, DecodeOf DEF DecodeNext
    <3> HIDE DEF t
    <3>5. Decode(Body(Append(m, b))) = g
      <4> HIDE DEF e, f
      <4>1. ~e.failed
        BY <2>1, <3>3
      <4> QED  BY <2>4, <3>1, <3>4, <4>1, DecodeOf DEF DecodeNext
    <3>6. g \in Frame
      BY <2>4, <3>2, DecodeByteType DEF DecoderState
    <3>7. t # FLAG
      BY <2>4 DEF Special
    <3>8. g.data = Append(m, b) /\ g.decoding /\ ~g.escape /\ g.failed = f.failed
      <4> HIDE DEF f, e
      <4> QED  BY <2>4, <3>2, <3>3, <3>7, ReadsByte
    <3> HIDE DEF f, g
    <3> QED  BY <2>1, <3>5, <3>6, <3>8
  <2> QED  BY <2>3, <2>4, UnitOf
<1>4. Seq(Byte) \subseteq M
  <2> HIDE DEF M
  <2> QED  BY <1>2, <1>3, MessageInduction
<1> QED  BY <1>4
(* The closing flag: the byte before it is compared with the CRC. *)
LEMMA FrameRead ==
  ASSUME NEW s \in Seq(Byte), s # <<>>, NEW e \in Byte \ Special
  PROVE  LET f == Decode(Append(Append(Body(s), e), FLAG))
         IN  IF e = Crc(s) THEN Complete(f) /\ f.data = s ELSE f.failed
<1> DEFINE f == Decode(Body(s))
           g == DecodeByte(f, e)
           h == DecodeByte(g, FLAG)
<1>1. /\ f \in Frame /\ f.data = s /\ f.decoding /\ ~f.escape /\ ~f.failed
      /\ Body(s) \in Seq(Byte) /\ FLAG \in Byte /\ e # FLAG
  <2>1. Body(s) \in Seq(Byte)
    BY BodyOf
  <2>2. FLAG \in Byte /\ e # FLAG
    BY DEF Special, FLAG, Byte
  <2>3. f \in Frame /\ f.data = s /\ f.decoding /\ ~f.escape /\ ~f.failed
    BY BodyRead
  <2> HIDE DEF f
  <2> QED  BY <2>1, <2>2, <2>3
<1>2. f \in DecoderState
  BY <1>1, DecodeOf
<1>3. g \in Frame
  BY <1>2, DecodeByteType DEF DecoderState
<1>4. g.data = Append(s, e) /\ g.decoding /\ ~g.escape /\ ~g.failed
  <2> HIDE DEF f
  <2> QED  BY <1>1, ReadsByte
<1>5. /\ Append(Body(s), e) \in Seq(Byte)
      /\ Decode(Append(Body(s), e)) = g
  BY <1>1, AppendProperties, DecodeOf DEF DecodeNext
<1>6. Decode(Append(Append(Body(s), e), FLAG)) = h
  <2> HIDE DEF g
  <2> QED  BY <1>1, <1>4, <1>5, DecodeOf DEF DecodeNext
<1> HIDE DEF f, g
<1>7. Crc(s) \in Byte
  BY CrcOf DEF Crc
<1>8. CASE e = Crc(s)
  <2>1. h.data = s /\ ~h.decoding /\ ~h.failed
    BY <1>3, <1>4, <1>7, <1>8, FlagAccepts
  <2> QED  BY <1>6, <1>8, <2>1 DEF Complete
<1>9. CASE e # Crc(s)
  <2>1. h = Close(g)
    BY <1>4 DEF DecodeByte
  <2>2. /\ Len(g.data) = Len(s) + 1 /\ LastByte(g.data) = e /\ ButLast(g.data) = s
        /\ Len(s) \in Nat \ {0}
    BY <1>4, LastOfAppend, EmptySeq
  <2>3. h = Throw([[g EXCEPT !.decoding = FALSE, !.escape = FALSE]
                     EXCEPT !.data = ButLast(@), !.crc = LastByte(g.data)])
    BY <1>9, <2>1, <2>2 DEF Close, Crc
  <2>4. h.failed
    BY <1>3, <2>3 DEF Throw, Frame
  <2> QED  BY <1>6, <1>9, <2>4
<1> QED  BY <1>8, <1>9

(* What encode() writes. *)
LEMMA EncodeIs ==
  ASSUME NEW s \in Seq(Byte)
  PROVE  /\ EncodeByte(Crc(s)) \in Byte \ Special
         /\ Crc(s) \in Special => EncodeByte(Crc(s)) # Crc(s)
         /\ Crc(s) \notin Special => EncodeByte(Crc(s)) = Crc(s)
         /\ Encode(s) = Append(Append(Body(s), EncodeByte(Crc(s))), FLAG)
<1> DEFINE e == EncodeByte(Crc(s))
<1>1. Crc(s) \in Byte
  BY CrcOf DEF Crc
<1>2. /\ e \in Byte \ Special
      /\ Crc(s) \in Special => e # Crc(s)
      /\ Crc(s) \notin Special => e = Crc(s)
  BY <1>1, UnitOf DEF EncodeByte
<1>3. Encode(s) = (Body(s) \o <<e>>) \o <<FLAG>>
  BY DEF Encode, EncodeCrc, Body, EncodedUnits, Crc
<1>4. Body(s) \in Seq(Byte) /\ FLAG \in Byte
  <2>1. FLAG \in Byte
    BY DEF FLAG, Byte
  <2> QED  BY <2>1, BodyOf
<1> HIDE DEF e
<1>5. Body(s) \o <<e>> = Append(Body(s), e) /\ Append(Body(s), e) \in Seq(Byte)
  <2>1. e \in Byte
    BY <1>2
  <2>2. Append(Body(s), e) \in Seq(Byte)
    BY <1>4, <2>1, AppendProperties
  <2> QED  BY <1>4, <2>1, <2>2, ConcatShort
<1>6. Append(Body(s), e) \o <<FLAG>> = Append(Append(Body(s), e), FLAG)
  BY <1>4, <1>5, ConcatShort
<1> QED  BY <1>2, <1>3, <1>5, <1>6 DEF e

(* encode() and decode(): a message comes back as it was exactly when its  *)
(* CRC is neither a flag nor an escape; otherwise decode() throws.         *)
THEOREM FramesDecodeOrAreRejected ==
  ASSUME NEW s \in Seq(Byte), s # <<>>
  PROVE  LET f == Decode(Encode(s))
         IN  IF CalculateCrc(s) \in Special
             THEN f.failed
             ELSE Complete(f) /\ f.data = s
BY FrameRead, EncodeIs DEF Crc

(* A frame whose message was altered in one byte, while the CRC is that of *)
(* the message it was made of, is rejected by decode(): the CRC is one     *)
(* that encode() leaves as it is, or the frame would be rejected unaltered.*)
THEOREM AlteredFramesAreRejected ==
  ASSUME NEW s \in Seq(Byte), NEW i \in DOMAIN s, NEW b \in Byte, b # s[i],
         CalculateCrc(s) \notin Special
  PROVE  Decode(Body([s EXCEPT ![i] = b]) \o EncodeCrc(s) \o <<FLAG>>).failed
<1> DEFINE t == [s EXCEPT ![i] = b]
<1>1. i \in 1..Len(s)
  BY LenProperties
<1>2. t \in Seq(Byte) /\ Len(t) = Len(s)
  BY <1>1, ExceptSeq
<1>3. t # <<>>
  BY <1>1, <1>2, EmptySeq, LenProperties
<1>4. Crc(t) # Crc(s)
  BY OneByteErrorsChangeCrc DEF Crc
<1> HIDE DEF t
<1>5. SUFFICES Decode(Body(t) \o EncodeCrc(s) \o <<FLAG>>).failed
  BY DEF t
<1>6. EncodeCrc(s) = <<Crc(s)>> /\ Crc(s) \in Byte \ Special
  BY EncodeIs DEF EncodeCrc, Crc
<1>7. /\ Body(t) \in Seq(Byte) /\ FLAG \in Byte
      /\ Append(Body(t), Crc(s)) \in Seq(Byte)
  <2>1. Body(t) \in Seq(Byte)
    BY <1>2, BodyOf
  <2>2. FLAG \in Byte
    BY DEF FLAG, Byte
  <2> QED  BY <1>6, <2>1, <2>2, AppendProperties
<1>8. Body(t) \o EncodeCrc(s) \o <<FLAG>> = Append(Append(Body(t), Crc(s)), FLAG)
  BY <1>6, <1>7, ConcatShort
<1> QED  BY <1>2, <1>3, <1>4, <1>6, <1>8, FrameRead
=============================================================================
