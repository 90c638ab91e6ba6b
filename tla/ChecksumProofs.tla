--------------------------- MODULE ChecksumProofs ---------------------------
(***************************************************************************)
(* Proofs about the checksums of a GPT: crc32 computes the CRC-32 of any   *)
(* text, in one piece or continued from piece to piece, and a change of    *)
(* one bit in a header is noticed unless it makes the header larger.  The  *)
(* functions loop over their data, so the proofs go by induction over it,  *)
(* which rests on one fact of the library: the order of the natural        *)
(* numbers is well-founded.                                                *)
(***************************************************************************)
EXTENDS ChecksProofs, WellFoundedInduction, TLAPS

(***************************************************************************)
(* Induction and recursion                                                 *)
(***************************************************************************)

\* Every set of numbers has a least element.
LEMMA Least ==
  ASSUME NEW T, T \subseteq Nat, T # {}
  PROVE  \E x \in T : \A y \in T : x <= y
<1> DEFINE R == OpToRel(<, Nat)
<1>1. IsWellFoundedOn(R, Nat)
  BY NatLessThanWellFounded
<1>2. \A x, y \in Nat : y < x => <<y, x>> \in R
  BY DEF OpToRel
<1> HIDE DEF R
<1>3. PICK x \in T : \A y \in T : ~(<<y, x>> \in R)
  BY <1>1, WFMin, Zenon
<1>4. ASSUME NEW y \in T
      PROVE  x <= y
  <2>1. x \in Nat /\ y \in Nat /\ ~(<<y, x>> \in R)
    BY <1>3
  <2>2. ~(y < x)
    BY <1>2, <2>1, Zenon
  <2> QED
    BY <2>1, <2>2
<1> QED
  BY <1>4

LEMMA Induction ==
  ASSUME NEW T, 0 \in T, \A n \in Nat : n \in T => n + 1 \in T
  PROVE  Nat \subseteq T
<1> SUFFICES ASSUME Nat \ T # {}
             PROVE  FALSE
  OBVIOUS
<1>1. PICK x \in Nat \ T : \A y \in Nat \ T : x <= y
  BY Least
<1>2. x # 0 /\ x - 1 \in Nat /\ ~(x <= x - 1)
  BY <1>1
<1>3. x - 1 \in T
  BY <1>1, <1>2
<1>4. (x - 1) + 1 = x
  OBVIOUS
<1> QED
  BY <1>2, <1>3, <1>4

\* Induction up to n.
LEMMA UpTo ==
  ASSUME NEW n \in Nat, NEW T, 0 \in T, \A k \in 1 .. n : k - 1 \in T => k \in T
  PROVE  \A k \in 0 .. n : k \in T
<1> DEFINE U == {k \in Nat : k <= n => k \in T}
<1>1. 0 \in U
  OBVIOUS
<1>2. ASSUME NEW k \in Nat, k \in U
      PROVE  k + 1 \in U
  <2>1. CASE k + 1 <= n
    <3>1. k + 1 \in 1 .. n /\ (k + 1) - 1 = k /\ k \in T
      BY <1>2, <2>1
    <3> QED
      BY <3>1
  <2>2. CASE ~(k + 1 <= n)
    BY <2>2
  <2> QED
    BY <2>1, <2>2
<1> HIDE DEF U
<1>3. Nat \subseteq U
  BY <1>1, <1>2, Induction
<1> QED
  BY <1>3 DEF U

\* Recursion over 0 .. n.
LEMMA Recursion ==
  ASSUME NEW S, NEW f0 \in S, NEW n \in Nat, NEW F \in [1 .. n -> [S -> S]]
  PROVE  \E g \in [0 .. n -> S] : g[0] = f0 /\ \A k \in 1 .. n : g[k] = F[k][g[k - 1]]
<1> DEFINE Rec(g, m) == \A k \in 0 .. m : g[k] = IF k = 0 THEN f0 ELSE F[k][g[k - 1]]
           T == {m \in Nat : m <= n => \E g \in [0 .. m -> S] : Rec(g, m)}
<1>1. 0 \in T
  <2>1. [k \in 0 .. 0 |-> f0] \in [0 .. 0 -> S] /\ Rec([k \in 0 .. 0 |-> f0], 0)
    OBVIOUS
  <2> QED
    BY <2>1
<1>2. ASSUME NEW m \in Nat, m \in T, m + 1 <= n
      PROVE  \E g \in [0 .. m + 1 -> S] : Rec(g, m + 1)
  <2>1. PICK g \in [0 .. m -> S] : Rec(g, m)
    BY <1>2
  <2> DEFINE h == [k \in 0 .. m + 1 |-> IF k \in 0 .. m THEN g[k] ELSE F[m + 1][g[m]]]
  <2>2. F[m + 1][g[m]] \in S
    BY <1>2
  <2>3. h \in [0 .. m + 1 -> S]
    BY <2>2
  <2>4. \A k \in 0 .. m : h[k] = g[k]
    OBVIOUS
  <2>5. h[m + 1] = F[m + 1][g[m]]
    OBVIOUS
  <2> HIDE DEF h
  <2>6. ASSUME NEW k \in 0 .. m + 1
        PROVE  h[k] = IF k = 0 THEN f0 ELSE F[k][h[k - 1]]
    <3>1. CASE k = m + 1
      <4>1. k - 1 = m /\ m \in 0 .. m /\ k # 0
        BY <3>1
      <4> QED
        BY <2>4, <2>5, <3>1, <4>1
    <3>2. CASE k # m + 1
      <4>1. k \in 0 .. m /\ (k # 0 => k - 1 \in 0 .. m)
        BY <3>2
      <4> QED
        BY <2>1, <2>4, <4>1
    <3> QED
      BY <3>1, <3>2
  <2> QED
    BY <2>3, <2>6
<1>3. \A m \in Nat : m \in T => m + 1 \in T
  BY <1>2
<1> HIDE DEF T
<1>4. n \in T
  BY <1>1, <1>3, Induction
<1> USE DEF T
<1>5. PICK g \in [0 .. n -> S] : Rec(g, n)
  BY <1>4
<1>6. g[0] = f0 /\ \A k \in 1 .. n : g[k] = F[k][g[k - 1]]
  BY <1>5
<1> QED
  BY <1>6

(***************************************************************************)
(* One byte                                                                *)
(***************************************************************************)

Words == SUBSET Word
Byte == SUBSET (0 .. 7)
Text == Seq(Byte)

LEMMA BitType ==
  ASSUME NEW w \in Words
  PROVE  crc32_bit(w) \in Words
BY DEF crc32_bit, xor, ShiftRight, Polynomial, Words, Word

LEMMA XorByte ==
  ASSUME NEW w \in Words, NEW d \in Byte
  PROVE  xor(w, d) \in Words
BY DEF xor, Words, Word, Byte

\* The values of crc in the loop of crc32_byte.
Bits(g, w, d) ==
  /\ g \in [0 .. 8 -> Words]
  /\ g[0] = xor(w, d)
  /\ \A i \in 1 .. 8 : g[i] = crc32_bit(g[i - 1])

LEMMA ByteLoop ==
  ASSUME NEW w \in Words, NEW d \in Byte
  PROVE  \E g : Bits(g, w, d) /\ crc32_byte(w, d) = g[8]
<1> DEFINE F == [i \in 1 .. 8 |-> [v \in Words |-> crc32_bit(v)]]
           P(g) == g = [i \in 0 .. 8 |-> IF i = 0 THEN xor(w, d) ELSE crc32_bit(g[i - 1])]
           after == CHOOSE g : P(g)
<1>1. F \in [1 .. 8 -> [Words -> Words]]
  BY BitType
<1>2. xor(w, d) \in Words
  BY XorByte
<1>3. \A i \in 1 .. 8 : \A v \in Words : F[i][v] = crc32_bit(v)
  OBVIOUS
<1> HIDE DEF F
<1>4. PICK g \in [0 .. 8 -> Words] :
        g[0] = xor(w, d) /\ \A i \in 1 .. 8 : g[i] = F[i][g[i - 1]]
  <2>1. PICK n \in Nat, f0 \in Words : n = 8 /\ f0 = xor(w, d)
    BY <1>2
  <2>2. F \in [1 .. n -> [Words -> Words]]
    BY <1>1, <2>1
  <2>3. \E g \in [0 .. n -> Words] : g[0] = f0 /\ \A i \in 1 .. n : g[i] = F[i][g[i - 1]]
    BY <2>2, Recursion
  <2> QED
    BY <2>1, <2>3
<1>5. \A i \in 1 .. 8 : g[i] = crc32_bit(g[i - 1])
  BY <1>3, <1>4
<1>6. P(g)
  <2>1. \A i \in 0 .. 8 : i # 0 => i \in 1 .. 8
    OBVIOUS
  <2> QED
    BY <1>4, <1>5, <2>1
<1> HIDE DEF P
<1>7. P(after)
  BY <1>6, Zenon
<1> USE DEF P
<1>8. after[0] = xor(w, d) /\ \A i \in 1 .. 8 : after[i] = crc32_bit(after[i - 1])
  <2> HIDE DEF after
  <2> QED
    BY <1>7
<1>9. crc32_byte(w, d) = after[8]
  BY Zenon DEF crc32_byte
<1>10. after = [i \in 0 .. 8 |-> after[i]]
  BY <1>7
<1> HIDE DEF after
<1>11. \A i \in 0 .. 8 : after[i] \in Words
  <2> DEFINE T == {i \in 0 .. 8 : after[i] \in Words}
  <2>1. 0 \in T
    BY <1>2, <1>8
  <2>2. \A i \in 1 .. 8 : i - 1 \in T => i \in T
    BY <1>8, BitType
  <2>3. 8 \in Nat
    OBVIOUS
  <2> HIDE DEF T
  <2>4. \A i \in 0 .. 8 : i \in T
    BY <2>1, <2>2, <2>3, UpTo, Zenon
  <2> QED
    BY <2>4 DEF T
<1> QED
  BY <1>8, <1>9, <1>10, <1>11 DEF Bits

LEMMA ByteType ==
  ASSUME NEW w \in Words, NEW d \in Byte
  PROVE  crc32_byte(w, d) \in Words
<1>1. PICK g : Bits(g, w, d) /\ crc32_byte(w, d) = g[8]
  BY ByteLoop
<1> QED
  BY <1>1 DEF Bits

(***************************************************************************)
(* Texts                                                                   *)
(***************************************************************************)

LEMMA ComplementType ==
  ASSUME NEW w \in Words
  PROVE  Complement(w) \in Words /\ Complement(Complement(w)) = w
BY DEF Complement, Words

\* The values of crc in the loop of crc32, which begins with w.
Registers(g, w, data) ==
  /\ g \in [0 .. Len(data) -> Words]
  /\ g[0] = w
  /\ \A k \in 1 .. Len(data) : g[k] = crc32_byte(g[k - 1], data[k])

LEMMA TextLoop ==
  ASSUME NEW bcc \in Words, NEW data \in Text
  PROVE  \E g : Registers(g, Complement(bcc), data) /\ crc32(bcc, data) = Complement(g[Len(data)])
<1>1. PICK n \in Nat, w \in Words : n = Len(data) /\ w = Complement(bcc)
  BY ComplementType DEF Text
<1> DEFINE F == [k \in 1 .. n |-> [v \in Words |-> crc32_byte(v, data[k])]]
           P(g) == g = [k \in 0 .. n |-> IF k = 0 THEN w
                                         ELSE [v \in Words |-> crc32_byte(v, data[k])][g[k - 1]]]
           after == CHOOSE g : P(g)
<1>2. \A k \in 1 .. n : data[k] \in Byte
  BY <1>1 DEF Text
<1>3. F \in [1 .. n -> [Words -> Words]]
  BY <1>2, ByteType
<1>4. \A k \in 1 .. n : \A v \in Words : F[k][v] = crc32_byte(v, data[k])
  OBVIOUS
<1> HIDE DEF F
<1>5. PICK g \in [0 .. n -> Words] : g[0] = w /\ \A k \in 1 .. n : g[k] = F[k][g[k - 1]]
  BY <1>3, Recursion
<1>6. P(g)
  <2>1. \A k \in 1 .. n : k - 1 \in 0 .. n /\ g[k] = [v \in Words |-> crc32_byte(v, data[k])][g[k - 1]]
    BY <1>4, <1>5
  <2>2. \A k \in 0 .. n : k # 0 => k \in 1 .. n
    OBVIOUS
  <2> QED
    BY <1>5, <2>1, <2>2
<1>7. crc32(bcc, data) = Complement(after[n])
  BY <1>1, Zenon DEF crc32, Words
<1> HIDE DEF P
<1>8. P(after)
  BY <1>6, Zenon
<1> HIDE DEF after
<1>9. /\ after = [k \in 0 .. n |-> after[k]] /\ after[0] = w
      /\ \A k \in 1 .. n : after[k] = [v \in Words |-> crc32_byte(v, data[k])][after[k - 1]]
  <2>1. 0 \in 0 .. n /\ \A k \in 1 .. n : k \in 0 .. n /\ k # 0
    OBVIOUS
  <2>2. after = [k \in 0 .. n |-> after[k]]
    BY <1>8, Zenon DEF P
  <2>3. \A k \in 0 .. n : after[k] = IF k = 0 THEN w
                                     ELSE [v \in Words |-> crc32_byte(v, data[k])][after[k - 1]]
    BY <1>8, Zenon DEF P
  <2> QED
    BY <2>1, <2>2, <2>3, Zenon
<1>10. ASSUME NEW k \in 1 .. n, after[k - 1] \in Words
       PROVE  after[k] = crc32_byte(after[k - 1], data[k]) /\ after[k] \in Words
  <2>1. after[k] = crc32_byte(after[k - 1], data[k])
    BY <1>9, <1>10
  <2> QED
    BY <1>2, <1>10, <2>1, ByteType
<1>11. \A k \in 0 .. n : after[k] \in Words
  <2> DEFINE T == {k \in 0 .. n : after[k] \in Words}
  <2>1. 0 \in T
    BY <1>9
  <2>2. \A k \in 1 .. n : k - 1 \in T => k \in T
    BY <1>10
  <2> HIDE DEF T
  <2>3. \A k \in 0 .. n : k \in T
    BY <2>1, <2>2, UpTo
  <2> QED
    BY <2>3 DEF T
<1>12. \A k \in 1 .. n : k - 1 \in 0 .. n /\ after[k] = crc32_byte(after[k - 1], data[k])
  BY <1>10, <1>11
<1> QED
  BY <1>1, <1>7, <1>9, <1>11, <1>12 DEF Registers

\* Two computations that begin alike go on alike.
LEMMA SameRegisters ==
  ASSUME NEW g, NEW h, NEW n \in Nat, g[0] = h[0],
         \A k \in 1 .. n : g[k - 1] = h[k - 1] => g[k] = h[k]
  PROVE  \A k \in 0 .. n : g[k] = h[k]
<1> DEFINE T == {k \in 0 .. n : g[k] = h[k]}
<1>1. 0 \in T
  OBVIOUS
<1>2. \A k \in 1 .. n : k - 1 \in T => k \in T
  OBVIOUS
<1> HIDE DEF T
<1>3. \A k \in 0 .. n : k \in T
  BY <1>1, <1>2, UpTo
<1> QED
  BY <1>3 DEF T

\* A checksum that is continued from text to text is that of the texts together.
LEMMA Continued ==
  ASSUME NEW a \in Text, NEW b \in Text
  PROVE  a \o b \in Text /\ crc32(crc32({}, a), b) = crc32({}, a \o b)
<1>1. /\ a \o b \in Text /\ Len(a \o b) = Len(a) + Len(b)
      /\ Len(a) \in Nat /\ Len(b) \in Nat
      /\ \A k \in 1 .. Len(a) : (a \o b)[k] = a[k]
      /\ \A k \in 1 .. Len(b) : (a \o b)[Len(a) + k] = b[k]
  BY DEF Text
<1>2. {} \in Words /\ Complement({}) \in Words
  BY ComplementType DEF Words
<1>3. PICK f : Registers(f, Complement({}), a) /\ crc32({}, a) = Complement(f[Len(a)])
  BY <1>2, TextLoop
<1>4. f[Len(a)] \in Words /\ crc32({}, a) \in Words /\ Complement(crc32({}, a)) = f[Len(a)]
  <2>1. f[Len(a)] \in Words
    BY <1>1, <1>3 DEF Registers
  <2> QED
    BY <1>3, <2>1, ComplementType
<1>5. PICK g : Registers(g, f[Len(a)], b) /\ crc32(crc32({}, a), b) = Complement(g[Len(b)])
  BY <1>4, TextLoop
<1>6. PICK h : Registers(h, Complement({}), a \o b) /\ crc32({}, a \o b) = Complement(h[Len(a \o b)])
  BY <1>1, <1>2, TextLoop
<1>7. PICK m \in Nat, n \in Nat : m = Len(a) /\ n = Len(b) /\ Len(a \o b) = m + n
  BY <1>1
<1>8. \A k \in 0 .. m : f[k] = h[k]
  <2>1. f[0] = h[0]
    BY <1>3, <1>6 DEF Registers
  <2>2. \A k \in 1 .. m : f[k] = crc32_byte(f[k - 1], a[k]) /\ h[k] = crc32_byte(h[k - 1], a[k])
    BY <1>1, <1>3, <1>6, <1>7 DEF Registers
  <2> QED
    BY <2>1, <2>2, SameRegisters
<1> DEFINE r == [k \in 0 .. n |-> h[m + k]]
<1>9. \A k \in 0 .. n : g[k] = r[k]
  <2>1. g[0] = r[0]
    BY <1>5, <1>7, <1>8 DEF Registers
  <2>2. ASSUME NEW k \in 1 .. n, g[k - 1] = r[k - 1]
        PROVE  g[k] = r[k]
    <3>1. m + k \in 1 .. m + n /\ (m + k) - 1 = m + (k - 1) /\ k - 1 \in 0 .. n /\ k \in 0 .. n
      OBVIOUS
    <3>2. h[m + k] = crc32_byte(h[m + (k - 1)], b[k])
      BY <1>1, <1>6, <1>7, <3>1 DEF Registers
    <3>3. g[k] = crc32_byte(g[k - 1], b[k])
      BY <1>5, <1>7 DEF Registers
    <3> QED
      BY <2>2, <3>1, <3>2, <3>3
  <2> HIDE DEF r
  <2> QED
    BY <2>1, <2>2, SameRegisters
<1>10. g[n] = h[m + n]
  BY <1>9
<1> QED
  BY <1>1, <1>5, <1>6, <1>7, <1>10

(***************************************************************************)
(* Division                                                                *)
(***************************************************************************)

\* Word w, k bits further on.
At(w, k) == {x \in Nat : x - k \in w}

LEMMA GeneratorAt ==
  ASSUME NEW k \in Nat
  PROVE  {g + k : g \in Generator} = {k} \cup At(Polynomial, k + 1)
<1>1. ASSUME NEW x
      PROVE  x \in {g + k : g \in Generator} <=> x \in Nat /\ x - k \in Generator
  <2>1. Generator \subseteq Nat
    BY DEF Generator
  <2>2. CASE x \in Nat
    <3>1. (x - k) + k = x /\ \A g \in Nat : x = g + k => x - k = g
      BY <2>2
    <3> QED
      BY <2>1, <2>2, <3>1
  <2>3. CASE x \notin Nat
    BY <2>1, <2>3
  <2> QED
    BY <2>2, <2>3
<1>2. ASSUME NEW x \in Nat
      PROVE  x - k \in Generator <=> x = k \/ x - (k + 1) \in Polynomial
  <2>1. PICK y \in Int : y = x - k
    OBVIOUS
  <2>2. y \in Generator <=> y = 0 \/ y - 1 \in Polynomial
    BY DEF Generator, Polynomial
  <2>3. x - (k + 1) = y - 1 /\ (x = k <=> y = 0)
    BY <2>1
  <2> QED
    BY <2>1, <2>2, <2>3
<1> QED
  BY <1>1, <1>2 DEF At

LEMMA ShiftAt ==
  ASSUME NEW w \in Words, NEW k \in Nat
  PROVE  At(ShiftRight(w), k + 1) = At(w, k) \ {k}
<1>1. w \subseteq Int
  BY DEF Words, Word
<1>2. ASSUME NEW y \in Int
      PROVE  y \in ShiftRight(w) <=> y + 1 \in w /\ y + 1 # 0
  <2>1. \A b \in Int : y = b - 1 <=> b = y + 1
    OBVIOUS
  <2> QED
    BY <1>1, <2>1 DEF ShiftRight
<1>3. ASSUME NEW x \in Nat
      PROVE  x - (k + 1) \in ShiftRight(w) <=> x - k \in w /\ x # k
  <2>1. x - (k + 1) \in Int /\ (x - (k + 1)) + 1 = x - k /\ (x - k # 0 <=> x # k)
    OBVIOUS
  <2> QED
    BY <1>2, <2>1
<1> QED
  BY <1>3 DEF At

\* A step of the division does to a message what crc32_bit does to the register that
\* is at its place, as long as the rest of the message is further on.
LEMMA BitDivides ==
  ASSUME NEW w \in Words, NEW k \in Nat, NEW rest \in SUBSET Nat, k \notin rest
  PROVE  Divide(xor(At(w, k), rest), k) = xor(At(crc32_bit(w), k + 1), rest)
<1>1. k \in xor(At(w, k), rest) <=> 0 \in w
  <2>1. k - k = 0
    OBVIOUS
  <2> QED
    BY <2>1 DEF xor, At
<1>2. At(ShiftRight(w), k + 1) = At(w, k) \ {k}
  BY ShiftAt
<1>3. {g + k : g \in Generator} = {k} \cup At(Polynomial, k + 1)
  BY GeneratorAt
<1>4. CASE 0 \in w
  <2>1. crc32_bit(w) = xor(ShiftRight(w), Polynomial)
    BY <1>4 DEF crc32_bit
  <2>2. At(crc32_bit(w), k + 1) = xor(At(ShiftRight(w), k + 1), At(Polynomial, k + 1))
    BY <2>1 DEF At, xor
  <2>3. Divide(xor(At(w, k), rest), k) = xor(xor(At(w, k), rest), {k} \cup At(Polynomial, k + 1))
    BY <1>1, <1>3, <1>4 DEF Divide
  <2>4. k \in At(w, k) /\ k \notin At(Polynomial, k + 1)
    <3>1. k - k = 0 /\ k - (k + 1) = 0 - 1 /\ 0 - 1 \notin Polynomial
      BY DEF Polynomial
    <3> QED
      BY <1>4, <3>1 DEF At
  <2>5. \A A, P : k \in A /\ k \notin P =>
          xor(xor(A, rest), {k} \cup P) = xor(xor(A \ {k}, P), rest)
    BY DEF xor
  <2> QED
    BY <1>2, <2>2, <2>3, <2>4, <2>5
<1>5. CASE 0 \notin w
  <2>1. crc32_bit(w) = ShiftRight(w)
    BY <1>5 DEF crc32_bit, xor
  <2>2. k \notin At(w, k)
    <3>1. k - k = 0
      OBVIOUS
    <3> QED
      BY <1>5, <3>1 DEF At
  <2>3. At(w, k) \ {k} = At(w, k)
    BY <2>2
  <2> QED
    BY <1>1, <1>2, <1>5, <2>1, <2>3 DEF Divide
<1> QED
  BY <1>4, <1>5

\* The bits of a text from byte j + 1 on.
Rest(data, j) == {x \in Message(data) : x >= 8 * j}

LEMMA MessageBits ==
  ASSUME NEW data \in Text, NEW x
  PROVE  x \in Message(data) <=> x \in Nat /\ \E k \in 1 .. Len(data) : x - 8 * (k - 1) \in data[k]
<1>1. DOMAIN data = 1 .. Len(data) /\ Len(data) \in Nat /\ \A k \in 1 .. Len(data) : data[k] \in Byte
  BY DEF Text
<1>2. ASSUME NEW k \in 1 .. Len(data)
      PROVE  x \in {8 * (k - 1) + b : b \in data[k]} <=> x \in Nat /\ x - 8 * (k - 1) \in data[k]
  <2>1. data[k] \subseteq Nat /\ k \in Nat \ {0}
    BY <1>1 DEF Byte
  <2>2. PICK o \in Nat : o = 8 * (k - 1)
    BY <2>1
  <2>3. CASE x \in Nat
    <3>1. o + (x - o) = x /\ \A b \in Nat : x = o + b => x - o = b
      BY <2>3
    <3> QED
      BY <2>1, <2>2, <2>3, <3>1
  <2>4. CASE x \notin Nat
    BY <2>1, <2>2, <2>4
  <2> QED
    BY <2>3, <2>4
<1>3. x \in Message(data) <=> \E k \in 1 .. Len(data) : x \in {8 * (k - 1) + b : b \in data[k]}
  BY <1>1 DEF Message
<1> QED
  BY <1>2, <1>3

\* The next byte of a text is at the beginning of what is left of it.
LEMMA NextByte ==
  ASSUME NEW data \in Text, NEW j \in Nat, j < Len(data)
  PROVE  /\ data[j + 1] \in Byte
         /\ Rest(data, j) = At(data[j + 1], 8 * j) \cup Rest(data, j + 1)
         /\ At(data[j + 1], 8 * j) \cap Rest(data, j + 1) = {}
<1>1. Len(data) \in Nat /\ \A k \in 1 .. Len(data) : data[k] \in Byte /\ data[k] \subseteq 0 .. 7
  BY DEF Text, Byte
<1>2. j + 1 \in 1 .. Len(data)
  BY <1>1
<1>3. ASSUME NEW x \in Nat
      PROVE  x \in Message(data) /\ x >= 8 * j <=>
               x - 8 * j \in data[j + 1] \/ (x \in Message(data) /\ x >= 8 * (j + 1))
  <2>1. ASSUME NEW k \in 1 .. Len(data), x - 8 * (k - 1) \in data[k], x >= 8 * j, ~(x >= 8 * (j + 1))
        PROVE  k = j + 1
    <3>1. x - 8 * (k - 1) \in 0 .. 7 /\ k \in Nat
      BY <1>1, <2>1
    <3> QED
      BY <2>1, <3>1
  <2>2. ASSUME x - 8 * j \in data[j + 1]
        PROVE  x \in Message(data) /\ x >= 8 * j
    <3>1. x - 8 * j \in 0 .. 7 /\ (j + 1) - 1 = j
      BY <1>1, <1>2, <2>2
    <3>2. x \in Message(data)
      BY <1>2, <2>2, <3>1, MessageBits
    <3> QED
      BY <3>1, <3>2
  <2>3. ASSUME x \in Message(data), x >= 8 * j, ~(x >= 8 * (j + 1))
        PROVE  x - 8 * j \in data[j + 1]
    <3>1. PICK k \in 1 .. Len(data) : x - 8 * (k - 1) \in data[k]
      BY <2>3, MessageBits
    <3>2. k = j + 1
      BY <2>1, <2>3, <3>1
    <3>3. k - 1 = j
      BY <3>2
    <3> QED
      BY <3>1, <3>2, <3>3
  <2>4. x >= 8 * (j + 1) => x >= 8 * j
    OBVIOUS
  <2> QED
    BY <2>2, <2>3, <2>4
<1>4. \A x \in Message(data) : x \in Nat
  BY MessageBits
<1>5. Rest(data, j) = At(data[j + 1], 8 * j) \cup Rest(data, j + 1)
  BY <1>3, <1>4 DEF Rest, At
<1>6. ASSUME NEW x \in Nat, x - 8 * j \in data[j + 1]
      PROVE  ~(x >= 8 * (j + 1))
  <2>1. x - 8 * j \in 0 .. 7
    BY <1>1, <1>2, <1>6
  <2> QED
    BY <2>1
<1>7. At(data[j + 1], 8 * j) \cap Rest(data, j + 1) = {}
  BY <1>6 DEF Rest, At
<1> QED
  BY <1>1, <1>2, <1>5, <1>7

\* Dividing by 8 bits does what crc32_byte does.
LEMMA ByteDivides ==
  ASSUME NEW data \in Text, NEW j \in Nat, j < Len(data), NEW w \in Words, NEW f,
         f[8 * j] = xor(At(w, 8 * j), Rest(data, j)),
         \A k \in 1 .. 8 * Len(data) : f[k] = Divide(f[k - 1], k - 1)
  PROVE  f[8 * (j + 1)] = xor(At(crc32_byte(w, data[j + 1]), 8 * (j + 1)), Rest(data, j + 1))
<1>1. PICK o \in Nat, n \in Nat, d \in Byte : o = 8 * j /\ n = 8 * Len(data) /\ d = data[j + 1] /\ o + 8 <= n
  <2>1. Len(data) \in Nat
    BY DEF Text
  <2>2. 8 * j \in Nat /\ 8 * Len(data) \in Nat /\ 8 * j + 8 <= 8 * Len(data)
    BY <2>1
  <2> QED
    BY <2>2, NextByte
<1>2. PICK g : Bits(g, w, d) /\ crc32_byte(w, d) = g[8]
  BY ByteLoop
<1>3. PICK rest \in SUBSET Nat : /\ rest = Rest(data, j + 1) /\ \A x \in rest : x >= o + 8
                               /\ Rest(data, j) = At(d, o) \cup rest /\ At(d, o) \cap rest = {}
  <2>1. Rest(data, j + 1) \subseteq Nat /\ \A x \in Rest(data, j + 1) : x >= o + 8
    <3>1. 8 * (j + 1) = o + 8
      BY <1>1
    <3> QED
      BY <3>1, MessageBits DEF Rest
  <2> QED
    BY <1>1, <2>1, NextByte
<1>4. xor(At(w, o), At(d, o) \cup rest) = xor(At(xor(w, d), o), rest)
  BY <1>3 DEF xor, At
<1> DEFINE T == {i \in 0 .. 8 : f[o + i] = xor(At(g[i], o + i), rest)}
<1>5. 0 \in T
  <2>1. o + 0 = o
    OBVIOUS
  <2> QED
    BY <1>1, <1>2, <1>3, <1>4, <2>1 DEF Bits
<1>6. ASSUME NEW i \in 1 .. 8, i - 1 \in T
      PROVE  i \in T
  <2>1. PICK k \in Nat : k = o + (i - 1) /\ k + 1 = o + i /\ k + 1 \in 1 .. n /\ k < o + 8
    BY <1>1
  <2>2. g[i - 1] \in Words /\ g[i] = crc32_bit(g[i - 1]) /\ i \in 0 .. 8
    BY <1>2 DEF Bits
  <2>3. k \notin rest
    BY <1>3, <2>1
  <2>4. f[k] = xor(At(g[i - 1], k), rest)
    BY <1>6, <2>1
  <2>5. f[k + 1] = Divide(f[k], k)
    <3>1. (k + 1) - 1 = k
      OBVIOUS
    <3> QED
      BY <1>1, <2>1, <3>1
  <2>6. f[k + 1] = xor(At(crc32_bit(g[i - 1]), k + 1), rest)
    BY <2>2, <2>3, <2>4, <2>5, BitDivides
  <2> QED
    BY <2>1, <2>2, <2>6
<1>7. 8 \in T
  <2>1. PICK e \in Nat : e = 8
    OBVIOUS
  <2> HIDE DEF T
  <2>2. \A i \in 1 .. e : i - 1 \in T => i \in T
    BY <1>6, <2>1
  <2>3. \A i \in 0 .. e : i \in T
    BY <1>5, <2>2, UpTo
  <2> QED
    BY <2>1, <2>3
<1>8. o + 8 = 8 * (j + 1)
  BY <1>1
<1> QED
  BY <1>1, <1>2, <1>3, <1>7, <1>8

Long == SUBSET Nat

LEMMA DivideType ==
  ASSUME NEW m \in Long, NEW k \in Nat
  PROVE  Divide(m, k) \in Long
<1>1. {g + k : g \in Generator} \subseteq Nat
  BY DEF Generator
<1> QED
  BY <1>1 DEF Divide, xor, Long

\* What is left of the message in the course of the division by n bits.
Divisions(f, data, n) ==
  /\ f[0] = xor(Message(data), Word)
  /\ \A k \in 1 .. n : f[k] = Divide(f[k - 1], k - 1)

\* Bits n and following.
From(m, n) == {b - n : b \in m}

LEMMA Division ==
  ASSUME NEW data \in Text
  PROVE  \E f : /\ Divisions(f, data, 8 * Len(data))
               /\ Remainder(data) = Complement(From(f[8 * Len(data)], 8 * Len(data)))
<1>1. PICK m \in Long : m = xor(Message(data), Word)
  <2>1. Message(data) \subseteq Nat /\ Word \subseteq Nat
    BY MessageBits DEF Word
  <2> QED
    BY <2>1 DEF xor, Long
<1>2. PICK n \in Nat : n = 8 * Len(data)
  BY DEF Text
<1> DEFINE F == [k \in 1 .. n |-> [v \in Long |-> Divide(v, k - 1)]]
           P(g) == g = [k \in 0 .. 8 * Len(data) |->
                          IF k = 0 THEN xor(Message(data), Word) ELSE Divide(g[k - 1], k - 1)]
           after == CHOOSE g : P(g)
<1>3. \A k \in 1 .. n : k - 1 \in Nat
  OBVIOUS
<1>4. F \in [1 .. n -> [Long -> Long]]
  BY <1>3, DivideType
<1>5. \A k \in 1 .. n : \A v \in Long : F[k][v] = Divide(v, k - 1)
  OBVIOUS
<1> HIDE DEF F
<1>6. PICK g \in [0 .. n -> Long] : g[0] = m /\ \A k \in 1 .. n : g[k] = F[k][g[k - 1]]
  BY <1>4, Recursion
<1>7. P(g)
  <2>1. ASSUME NEW k \in 1 .. n
        PROVE  g[k] = Divide(g[k - 1], k - 1)
    BY <1>5, <1>6
  <2>2. \A k \in 0 .. n : k # 0 => k \in 1 .. n
    OBVIOUS
  <2>3. g = [k \in 0 .. n |-> IF k = 0 THEN m ELSE Divide(g[k - 1], k - 1)]
    BY <1>6, <2>1, <2>2
  <2> QED
    BY <1>1, <1>2, <2>3
<1>8. Remainder(data) = Complement(From(after[8 * Len(data)], 8 * Len(data)))
  BY Zenon DEF Remainder, From
<1> HIDE DEF P
<1>9. P(after)
  BY <1>7, Zenon
<1> HIDE DEF after
<1>10. after[0] = xor(Message(data), Word)
       /\ \A k \in 1 .. 8 * Len(data) : after[k] = Divide(after[k - 1], k - 1)
  <2>1. after = [k \in 0 .. n |-> IF k = 0 THEN m ELSE Divide(after[k - 1], k - 1)]
    BY <1>1, <1>2, <1>9 DEF P
  <2>2. after[0] = m /\ \A k \in 1 .. n : after[k] = Divide(after[k - 1], k - 1)
    BY <2>1
  <2> QED
    BY <1>1, <1>2, <2>2
<1> QED
  BY <1>2, <1>8, <1>10 DEF Divisions

\* crc32 computes the remainder.
LEMMA Crc32IsRemainder ==
  ASSUME NEW data \in Text
  PROVE  crc32({}, data) = Remainder(data)
<1>1. {} \in Words /\ Complement({}) = Word /\ Word \in Words
  BY DEF Words, Complement
<1>2. PICK g : Registers(g, Word, data) /\ crc32({}, data) = Complement(g[Len(data)])
  BY <1>1, TextLoop
<1>3. PICK l \in Nat, n \in Nat : l = Len(data) /\ n = 8 * l
  BY DEF Text
<1>4. PICK f : Divisions(f, data, n) /\ Remainder(data) = Complement(From(f[n], n))
  <2>1. n = 8 * Len(data)
    BY <1>3
  <2> QED
    BY <2>1, Division
<1> DEFINE T == {j \in 0 .. l : f[8 * j] = xor(At(g[j], 8 * j), Rest(data, j))}
<1>5. 0 \in T
  <2>1. At(Word, 0) = Word
    BY DEF At, Word
  <2>2. Rest(data, 0) = Message(data)
    BY MessageBits DEF Rest
  <2>3. g[0] = Word /\ 8 * 0 = 0
    BY <1>2 DEF Registers
  <2>4. xor(Message(data), Word) = xor(Word, Message(data))
    BY DEF xor
  <2> QED
    BY <1>4, <2>1, <2>2, <2>3, <2>4 DEF Divisions
<1>6. ASSUME NEW j \in 1 .. l, j - 1 \in T
      PROVE  j \in T
  <2>1. PICK i \in Nat : i = j - 1 /\ i + 1 = j /\ i < l /\ i \in 0 .. l
    OBVIOUS
  <2>2. g[i] \in Words /\ g[j] = crc32_byte(g[i], data[j])
    BY <1>2, <1>3, <2>1 DEF Registers
  <2>3. f[8 * i] = xor(At(g[i], 8 * i), Rest(data, i))
    BY <1>6, <2>1
  <2>4. f[8 * (i + 1)] = xor(At(crc32_byte(g[i], data[i + 1]), 8 * (i + 1)), Rest(data, i + 1))
    BY <1>3, <1>4, <2>1, <2>2, <2>3, ByteDivides DEF Divisions
  <2> QED
    BY <2>1, <2>2, <2>4
<1>7. l \in T
  <2> HIDE DEF T
  <2>1. \A j \in 0 .. l : j \in T
    BY <1>3, <1>5, <1>6, UpTo
  <2> QED
    BY <2>1
<1>8. Rest(data, l) = {}
  <2>1. ASSUME NEW x \in Message(data), x >= 8 * l
        PROVE  FALSE
    <3>1. PICK k \in 1 .. l : x \in Nat /\ x - 8 * (k - 1) \in data[k]
      BY <1>3, MessageBits
    <3>2. data[k] \subseteq 0 .. 7
      BY <1>3 DEF Text, Byte
    <3>3. x - 8 * (k - 1) \in 0 .. 7
      BY <3>1, <3>2
    <3> QED
      BY <2>1, <3>1, <3>3
  <2> QED
    BY <2>1 DEF Rest
<1>9. PICK w \in Words : w = g[l]
  BY <1>2, <1>3 DEF Registers
<1>10. f[n] = At(w, n)
  BY <1>3, <1>7, <1>8, <1>9 DEF xor
<1>11. From(At(w, n), n) = w
  <2>1. ASSUME NEW b \in w
        PROVE  b + n \in Nat /\ (b + n) - n = b
    BY DEF Words, Word
  <2>2. ASSUME NEW b \in w
        PROVE  b + n \in At(w, n) /\ b = (b + n) - n
    BY <2>1 DEF At
  <2>3. \A b \in At(w, n) : b - n \in w
    BY DEF At
  <2> QED
    BY <2>2, <2>3 DEF From
<1> QED
  BY <1>2, <1>3, <1>4, <1>9, <1>10, <1>11

\* The checksum of any table that was computed piece by piece is its CRC-32.
THEOREM ChecksumAlwaysCrc32 == Spec => []ChecksumIsCrc32
<1>1. Returned => ChecksumIsCrc32
  <2> SUFFICES ASSUME Returned, Called("crc")
               PROVE  ChecksumIsCrc32
    BY DEF ChecksumIsCrc32
  <2>1. result = ChecksumOf /\ input \in Inputs /\ input.fn = "crc"
    BY DEF Returned, Called
  <2>2. PICK a \in Text, b \in Text : a = input.first /\ b = input.second
    BY <2>1, ChecksAssumption DEF Inputs, Text, Byte
  <2>3. result.bcc = crc32(crc32({}, a), b)
    BY <2>1, <2>2 DEF ChecksumOf
  <2>4. result.bcc = Remainder(a \o b)
    BY <2>3, Continued, Crc32IsRemainder
  <2> QED
    BY <2>2, <2>4 DEF ChecksumIsCrc32
<1> QED
  BY <1>1, ReturnedHolds, PTL

(***************************************************************************)
(* Changes                                                                 *)
(***************************************************************************)

\* The register can be computed back: its highest bit says whether the polynomial
\* was added.
LEMMA BitInjective ==
  ASSUME NEW w \in Words, NEW v \in Words, crc32_bit(w) = crc32_bit(v)
  PROVE  w = v
<1>1. ASSUME NEW u \in Words
      PROVE  /\ u \subseteq 0 .. 31 /\ ShiftRight(u) \subseteq 0 .. 30
             /\ \A y \in 0 .. 30 : y \in ShiftRight(u) <=> y + 1 \in u
  <2>1. u \subseteq 0 .. 31
    BY DEF Words, Word
  <2>2. \A y \in 0 .. 30 : \A b \in 0 .. 31 : b # 0 => (y = b - 1 <=> b = y + 1)
    OBVIOUS
  <2>3. \A y \in 0 .. 30 : y + 1 \in 0 .. 31 /\ y + 1 # 0
    OBVIOUS
  <2>4. \A b \in 0 .. 31 : b # 0 => b - 1 \in 0 .. 30
    OBVIOUS
  <2> QED
    BY <2>1, <2>2, <2>3, <2>4 DEF ShiftRight
<1>2. 31 \in Polynomial /\ 31 \notin 0 .. 30
  BY DEF Polynomial
<1>3. \A u \in Words : 31 \in crc32_bit(u) <=> 0 \in u
  BY <1>1, <1>2 DEF crc32_bit, xor
<1>4. 0 \in w <=> 0 \in v
  BY <1>3
<1>5. ShiftRight(w) = ShiftRight(v)
  <2>1. \A A, B, P : xor(A, P) = xor(B, P) => A = B
    BY DEF xor
  <2> QED
    BY <1>4, <2>1 DEF crc32_bit
<1>6. ASSUME NEW x \in 0 .. 31
      PROVE  x \in w <=> x \in v
  <2>1. CASE x = 0
    BY <1>4, <2>1
  <2>2. CASE x # 0
    <3>1. x - 1 \in 0 .. 30 /\ (x - 1) + 1 = x
      BY <2>2
    <3> QED
      BY <1>1, <1>5, <3>1
  <2> QED
    BY <2>1, <2>2
<1> QED
  BY <1>1, <1>6

LEMMA ByteInjective ==
  ASSUME NEW w \in Words, NEW v \in Words, NEW d \in Byte, NEW e \in Byte,
         crc32_byte(w, d) = crc32_byte(v, e)
  PROVE  xor(w, d) = xor(v, e)
<1>1. PICK g : Bits(g, w, d) /\ crc32_byte(w, d) = g[8]
  BY ByteLoop
<1>2. PICK h : Bits(h, v, e) /\ crc32_byte(v, e) = h[8]
  BY ByteLoop
<1> DEFINE T == {i \in 0 .. 8 : g[8 - i] = h[8 - i]}
<1>3. 0 \in T
  <2>1. 8 - 0 = 8 /\ 0 \in 0 .. 8
    OBVIOUS
  <2> QED
    BY <1>1, <1>2, <2>1
<1>4. ASSUME NEW i \in 1 .. 8, i - 1 \in T
      PROVE  i \in T
  <2>1. PICK k \in 1 .. 8 : k = 8 - (i - 1) /\ k - 1 = 8 - i
    OBVIOUS
  <2>2. k - 1 \in 0 .. 8 /\ g[k] = h[k]
    BY <1>4, <2>1
  <2>3. crc32_bit(g[k - 1]) = crc32_bit(h[k - 1]) /\ g[k - 1] \in Words /\ h[k - 1] \in Words
    BY <1>1, <1>2, <2>2 DEF Bits
  <2>4. g[k - 1] = h[k - 1]
    BY <2>3, BitInjective
  <2> QED
    BY <2>1, <2>4
<1>5. 8 \in T
  <2>1. PICK n \in Nat : n = 8
    OBVIOUS
  <2> HIDE DEF T
  <2>2. \A i \in 1 .. n : i - 1 \in T => i \in T
    BY <1>4, <2>1
  <2>3. \A i \in 0 .. n : i \in T
    BY <1>3, <2>2, UpTo
  <2> QED
    BY <2>1, <2>3
<1>6. g[0] = h[0]
  BY <1>5
<1> QED
  BY <1>1, <1>2, <1>6 DEF Bits

\* Two texts of the same length that differ in one byte have different checksums.
LEMMA OneByteDetected ==
  ASSUME NEW a \in Text, NEW b \in Text, Len(a) = Len(b), NEW j \in 1 .. Len(a), a[j] # b[j],
         \A k \in 1 .. Len(a) : k # j => a[k] = b[k]
  PROVE  crc32({}, a) # crc32({}, b)
<1>1. {} \in Words
  BY DEF Words
<1>2. PICK g : Registers(g, Complement({}), a) /\ crc32({}, a) = Complement(g[Len(a)])
  BY <1>1, TextLoop
<1>3. PICK h : Registers(h, Complement({}), b) /\ crc32({}, b) = Complement(h[Len(b)])
  BY <1>1, TextLoop
<1>4. PICK n \in Nat : n = Len(a) /\ n = Len(b)
  BY DEF Text
<1>5. /\ \A k \in 0 .. n : g[k] \in Words /\ h[k] \in Words
      /\ \A k \in 1 .. n : a[k] \in Byte /\ b[k] \in Byte
      /\ \A k \in 1 .. n : g[k] = crc32_byte(g[k - 1], a[k]) /\ h[k] = crc32_byte(h[k - 1], b[k])
      /\ g[0] = h[0]
  <2>1. \A k \in 1 .. n : a[k] \in Byte /\ b[k] \in Byte
    BY <1>4 DEF Text
  <2>2. \A k \in 0 .. n : g[k] \in Words /\ h[k] \in Words
    BY <1>2, <1>3, <1>4 DEF Registers
  <2>3. \A k \in 1 .. n : g[k] = crc32_byte(g[k - 1], a[k])
    BY <1>2, <1>4 DEF Registers
  <2>4. \A k \in 1 .. n : h[k] = crc32_byte(h[k - 1], b[k])
    BY <1>3, <1>4 DEF Registers
  <2>5. g[0] = h[0]
    BY <1>2, <1>3 DEF Registers
  <2> QED
    BY <2>1, <2>2, <2>3, <2>4, <2>5
<1>6. PICK i \in Nat, r \in Nat : i = j - 1 /\ i + 1 = j /\ r = n - j /\ j + r = n
  BY <1>4
<1>7. g[i] = h[i]
  <2>1. \A k \in 1 .. i : g[k - 1] = h[k - 1] => g[k] = h[k]
    BY <1>4, <1>5, <1>6
  <2>2. g[0] = h[0]
    BY <1>5
  <2>3. \A k \in 0 .. i : g[k] = h[k]
    BY <2>1, <2>2, SameRegisters
  <2> QED
    BY <2>3
<1>8. g[j] # h[j]
  <2>1. j - 1 = i /\ i \in 0 .. n /\ j \in 1 .. n
    BY <1>4, <1>6
  <2>2. g[j] = crc32_byte(g[i], a[j]) /\ h[j] = crc32_byte(g[i], b[j]) /\ g[i] \in Words
    BY <1>5, <1>7, <2>1
  <2>3. xor(g[i], a[j]) # xor(g[i], b[j])
    BY DEF xor
  <2> QED
    BY <1>5, <2>1, <2>2, <2>3, ByteInjective
<1> DEFINE T == {k \in 0 .. r : g[j + k] # h[j + k]}
<1>9. 0 \in T
  BY <1>8
<1>10. ASSUME NEW k \in 1 .. r, k - 1 \in T
       PROVE  k \in T
  <2>1. PICK l \in 1 .. n : l = j + k /\ l - 1 = j + (k - 1) /\ l # j /\ l - 1 \in 0 .. n
    BY <1>4, <1>6
  <2>2. g[l - 1] # h[l - 1] /\ a[l] = b[l] /\ a[l] \in Byte
    BY <1>4, <1>5, <1>10, <2>1
  <2>3. xor(g[l - 1], a[l]) # xor(h[l - 1], a[l])
    BY <2>2 DEF xor
  <2>4. g[l - 1] \in Words /\ h[l - 1] \in Words
    BY <1>5, <2>1
  <2>5. crc32_byte(g[l - 1], a[l]) # crc32_byte(h[l - 1], a[l])
    BY <2>2, <2>3, <2>4, ByteInjective
  <2>6. g[l] = crc32_byte(g[l - 1], a[l]) /\ h[l] = crc32_byte(h[l - 1], a[l])
    BY <1>5, <2>2
  <2> QED
    BY <2>1, <2>5, <2>6
<1>11. g[n] # h[n]
  <2> HIDE DEF T
  <2>1. \A k \in 0 .. r : k \in T
    BY <1>9, <1>10, UpTo
  <2>2. r \in T
    BY <2>1
  <2> QED
    BY <1>6, <2>2 DEF T
<1>12. Complement(g[n]) # Complement(h[n])
  <2>1. g[n] \in Words /\ h[n] \in Words
    BY <1>5
  <2> QED
    BY <1>11, <2>1, ComplementType
<1> QED
  BY <1>2, <1>3, <1>4, <1>12

(***************************************************************************)
(* Headers                                                                 *)
(***************************************************************************)

Header == [signature : Text, header_size : Words, header_crc32 : Words, fields : Text, rest : Text]

\* h has the signature and the size that formatDisk writes, and as many bytes.
Sized(h) ==
  /\ h \in Header /\ h.signature = Signature /\ h.header_size = GPT_HEADER_SIZE
  /\ Len(Signature) + 8 + Len(h.fields) = Number(GPT_HEADER_SIZE)

LEMMA BytesType ==
  ASSUME NEW w \in Words
  PROVE  Bytes(w) \in Text /\ Len(Bytes(w)) = 4
<1>1. ASSUME NEW k \in 1 .. 4
      PROVE  {b - 8 * (k - 1) : b \in w \cap (8 * (k - 1) .. 8 * k - 1)} \in Byte
  BY DEF Byte
<1>2. Bytes(w) \in [1 .. 4 -> Byte]
  BY <1>1 DEF Bytes
<1>3. Len(Bytes(w)) = 4 /\ Bytes(w) \in Seq(Byte)
  <2>1. PICK n \in Nat : n = 4
    OBVIOUS
  <2>2. Bytes(w) \in [1 .. n -> Byte]
    BY <1>2, <2>1
  <2>3. Bytes(w) \in Seq(Byte)
    BY <2>2, SeqDef
  <2>4. Len(Bytes(w)) = n
    BY <2>2, Length
  <2> QED
    BY <2>1, <2>3, <2>4
<1> QED
  BY <1>2, <1>3 DEF Text

\* t is a, followed by b.
Joined(t, a, b) ==
  /\ t \in Text /\ Len(t) = Len(a) + Len(b) /\ Len(a) \in Nat /\ Len(b) \in Nat
  /\ \A k \in 1 .. Len(a) : t[k] = a[k]
  /\ \A k \in 1 .. Len(b) : t[Len(a) + k] = b[k]

LEMMA Concatenation ==
  ASSUME NEW a \in Text, NEW b \in Text
  PROVE  Joined(a \o b, a, b)
BY DEF Text, Joined

LEMMA ChangedText ==
  ASSUME NEW a \in Text, NEW j \in 1 .. Len(a), NEW d \in Byte
  PROVE  /\ [a EXCEPT ![j] = d] \in Text /\ Len([a EXCEPT ![j] = d]) = Len(a)
         /\ \A k \in 1 .. Len(a) : [a EXCEPT ![j] = d][k] = IF k = j THEN d ELSE a[k]
<1>1. Len(a) \in Nat /\ a \in [1 .. Len(a) -> Byte]
  BY DEF Text
<1>2. PICK n \in Nat : n = Len(a)
  BY <1>1
<1> DEFINE c == [a EXCEPT ![j] = d]
<1>3. c \in [1 .. n -> Byte]
  BY <1>1, <1>2
<1>4. c \in Seq(Byte)
  BY <1>3, SeqDef
<1>5. Len(c) = n
  BY <1>3, Length
<1>6. \A k \in 1 .. n : c[k] = IF k = j THEN d ELSE a[k]
  BY <1>1, <1>2
<1> HIDE DEF c
<1>7. /\ c \in Text /\ Len(c) = Len(a)
      /\ \A k \in 1 .. Len(a) : c[k] = IF k = j THEN d ELSE a[k]
  BY <1>2, <1>4, <1>5, <1>6 DEF Text
<1> QED
  BY <1>7 DEF c

\* t is a, four bytes c, and b.
HeaderText(t, a, c, b) ==
  /\ t \in Text /\ Len(t) = Len(a) + 4 + Len(b)
  /\ \A k \in 1 .. Len(a) : t[k] = a[k]
  /\ \A k \in 1 .. 4 : t[Len(a) + k] = c[k]
  /\ \A k \in 1 .. Len(b) : t[Len(a) + 4 + k] = b[k]

LEMMA BytesOfHeader ==
  ASSUME NEW a \in Text, NEW w \in Words, NEW b \in Text
  PROVE  HeaderText(a \o Bytes(w) \o b, a, Bytes(w), b)
<1>1. PICK c \in Text : c = Bytes(w) /\ Len(c) = 4
  BY BytesType
<1>2. PICK m \in Nat, n \in Nat : m = Len(a) /\ n = Len(b)
  BY DEF Text
<1>3. PICK s : s = a \o c /\ Joined(s, a, c)
  BY Concatenation
<1>4. /\ s \in Text /\ Len(s) = m + 4
      /\ \A k \in 1 .. m : s[k] = a[k]
      /\ \A k \in 1 .. 4 : s[m + k] = c[k]
  BY <1>1, <1>2, <1>3 DEF Joined
<1>5. PICK t : t = s \o b /\ Joined(t, s, b)
  BY <1>4, Concatenation
<1>6. /\ t \in Text /\ Len(t) = m + 4 + n
      /\ \A k \in 1 .. m + 4 : t[k] = s[k]
      /\ \A k \in 1 .. n : t[m + 4 + k] = b[k]
  BY <1>2, <1>4, <1>5 DEF Joined
<1>7. \A k \in 1 .. m : t[k] = a[k]
  BY <1>4, <1>6
<1>8. \A k \in 1 .. 4 : t[m + k] = c[k]
  BY <1>4, <1>6
<1>9. HeaderText(t, a, c, b)
  BY <1>2, <1>6, <1>7, <1>8 DEF HeaderText
<1> QED
  BY <1>1, <1>3, <1>5, <1>9

\* What verifyGptHeader compares with header_crc32, for fields b behind it and bytes a
\* before it.
SumOf(a, b) == crc32({}, a \o Bytes({}) \o b)
Start == Signature \o Bytes(GPT_HEADER_SIZE)

LEMMA StartType == Start \in Text /\ Signature \in Text /\ GPT_HEADER_SIZE \in Words
<1>1. Signature \in Text /\ GPT_HEADER_SIZE \in Words
  BY ChecksumAssumption DEF Text, Byte, Words, Word
<1>2. PICK c \in Text : c = Bytes(GPT_HEADER_SIZE)
  BY <1>1, BytesType
<1> QED
  BY <1>1, <1>2, Concatenation DEF Joined, Start

LEMMA Prefix ==
  ASSUME NEW a \in Text, NEW b \in Text
  PROVE  SubSeq(a \o b, 1, Len(a)) = a
<1>1. PICK n \in Nat : n = Len(a)
  BY DEF Text
<1>2. PICK s : s = a \o b /\ Joined(s, a, b)
  BY Concatenation
<1>3. s \in Seq(Byte) /\ Len(s) >= n /\ \A k \in 1 .. n : s[k] = a[k]
  BY <1>1, <1>2 DEF Joined, Text
<1>4. SubSeq(s, 1, n) = [k \in 1 .. n |-> s[k]]
  BY <1>3
<1>5. a = [k \in 1 .. n |-> a[k]]
  BY <1>1 DEF Text
<1> QED
  BY <1>1, <1>2, <1>3, <1>4, <1>5

\* The sum over as many bytes as formatDisk's headers have.
LEMMA HeaderSum ==
  ASSUME NEW h, Sized(h)
  PROVE  /\ SumOver([h EXCEPT !.header_crc32 = {}], GPT_HEADER_SIZE) = SumOf(Start, h.fields)
         /\ SumOf(Start, h.fields) \in Words
         /\ InBuffer(h)
<1>1. /\ {} \in Words /\ Start \in Text /\ Signature \in Text /\ GPT_HEADER_SIZE \in Words
      /\ h.fields \in Text /\ h.rest \in Text /\ h.header_crc32 \in Words
  BY StartType DEF Words, Sized, Header
<1>2. PICK m \in Nat, l \in Nat : m = Len(Signature) /\ l = Len(h.fields)
  BY <1>1 DEF Text
<1>3. Len(Start) = m + 4
  <2>1. PICK c \in Text : c = Bytes(GPT_HEADER_SIZE) /\ Len(c) = 4
    BY <1>1, BytesType
  <2>2. Joined(Signature \o c, Signature, c)
    BY <1>1, <2>1, Concatenation
  <2> QED
    BY <1>2, <2>1, <2>2 DEF Joined, Start
<1>4. Number(GPT_HEADER_SIZE) = m + 8 + l
  BY <1>2 DEF Sized
<1>5. ASSUME NEW w \in Words
      PROVE  /\ Start \o Bytes(w) \o h.fields \in Text
             /\ Len(Start \o Bytes(w) \o h.fields) = m + 8 + l
  <2>1. HeaderText(Start \o Bytes(w) \o h.fields, Start, Bytes(w), h.fields)
    BY <1>1, <1>5, BytesOfHeader
  <2>2. (m + 4) + 4 + l = m + 8 + l
    OBVIOUS
  <2> QED
    BY <1>2, <1>3, <2>1, <2>2 DEF HeaderText
<1>6. PICK t \in Text : t = Start \o Bytes({}) \o h.fields /\ Len(t) = m + 8 + l
  BY <1>1, <1>5
<1>7. PICK g : g = [h EXCEPT !.header_crc32 = {}]
  OBVIOUS
<1>8. HeaderBytes(g) = t \o h.rest
  <2>1. /\ g.signature = Signature /\ g.header_size = GPT_HEADER_SIZE /\ g.header_crc32 = {}
        /\ g.fields = h.fields /\ g.rest = h.rest
    BY <1>7 DEF Sized, Header
  <2> QED
    BY <1>6, <2>1 DEF HeaderBytes, Start
<1>9. SumOver(g, GPT_HEADER_SIZE) = crc32({}, t)
  <2>1. SubSeq(t \o h.rest, 1, Len(t)) = t
    BY <1>1, Prefix
  <2> QED
    BY <1>4, <1>6, <1>8, <2>1 DEF SumOver
<1>10. crc32({}, t) \in Words
  <2>1. PICK f : Registers(f, Complement({}), t) /\ crc32({}, t) = Complement(f[Len(t)])
    BY <1>1, TextLoop
  <2>2. f[Len(t)] \in Words
    BY <2>1 DEF Registers, Text
  <2> QED
    BY <2>1, <2>2, ComplementType
<1>11. InBuffer(h)
  <2>1. PICK u \in Text : u = Start \o Bytes(h.header_crc32) \o h.fields /\ Len(u) = m + 8 + l
    BY <1>1, <1>5
  <2>2. HeaderBytes(h) = u \o h.rest
    BY <2>1 DEF HeaderBytes, Sized, Start
  <2>3. PICK r \in Nat : r = Len(h.rest)
    BY <1>1 DEF Text
  <2>4. Len(HeaderBytes(h)) = m + 8 + l + r
    BY <1>1, <2>1, <2>2, <2>3, Concatenation DEF Joined
  <2>5. h.header_size = GPT_HEADER_SIZE /\ GPT_HEADER_SIZE \subseteq 0 .. 15
    BY ChecksumAssumption DEF Sized
  <2>6. m + 8 + l <= m + 8 + l + r
    OBVIOUS
  <2> QED
    BY <1>4, <2>5, <2>4, <2>6 DEF InBuffer
<1> QED
  BY <1>6, <1>7, <1>9, <1>10, <1>11 DEF SumOf

LEMMA SizedVerdicts ==
  ASSUME NEW h, Sized(h)
  PROVE  Verdicts(h) = {SumOf(Start, h.fields) = h.header_crc32}
<1>1. h.signature = Signature /\ h.header_size = GPT_HEADER_SIZE
  BY DEF Sized
<1>2. ~Less(h.header_size, GPT_HEADER_SIZE)
  BY <1>1 DEF Less
<1>3. HeaderChecksum(h) = SumOf(Start, h.fields) /\ InBuffer(h)
  BY <1>1, HeaderSum DEF HeaderChecksum
<1> QED
  BY <1>1, <1>2, <1>3 DEF Verdicts

\* A changed byte behind header_crc32 changes the checksum.
LEMMA ChangeDetected ==
  ASSUME NEW a \in Text, NEW b \in Text, NEW d \in Byte
  PROVE  \A j \in 1 .. Len(b) : b[j] # d => SumOf(a, [b EXCEPT ![j] = d]) # SumOf(a, b)
<1>1. PICK w \in Words : w = {}
  BY DEF Words
<1>2. PICK m \in Nat, n \in Nat : m = Len(a) /\ n = Len(b)
  BY DEF Text
<1>3. PICK t \in Text : t = a \o Bytes(w) \o b /\ HeaderText(t, a, Bytes(w), b)
  <2>1. PICK t : t = a \o Bytes(w) \o b /\ HeaderText(t, a, Bytes(w), b)
    BY BytesOfHeader
  <2>2. t \in Text
    BY <2>1 DEF HeaderText
  <2> QED
    BY <2>1, <2>2
<1>4. /\ Len(t) = m + 4 + n
      /\ \A k \in 1 .. m : t[k] = a[k]
      /\ \A k \in 1 .. 4 : t[m + k] = Bytes(w)[k]
      /\ \A k \in 1 .. n : t[m + 4 + k] = b[k]
  BY <1>2, <1>3 DEF HeaderText
<1>5. ASSUME NEW k \in 1 .. m + 4 + n
      PROVE  \/ k \in 1 .. m
             \/ \E i \in 1 .. 4 : k = m + i
             \/ \E i \in 1 .. n : k = m + 4 + i
  <2>1. CASE k <= m
    BY <2>1
  <2>2. CASE k > m /\ k <= m + 4
    <3>1. k - m \in 1 .. 4 /\ k = m + (k - m)
      BY <2>2
    <3> QED
      BY <3>1
  <2>3. CASE k > m + 4
    <3>1. k - (m + 4) \in 1 .. n /\ k = m + 4 + (k - (m + 4))
      BY <2>3
    <3> QED
      BY <3>1
  <2> QED
    BY <2>1, <2>2, <2>3
<1>6. ASSUME NEW j \in 1 .. Len(b), b[j] # d
      PROVE  SumOf(a, [b EXCEPT ![j] = d]) # SumOf(a, b)
  <2>1. PICK c \in Text : c = [b EXCEPT ![j] = d]
    BY ChangedText
  <2>2. Len(c) = n /\ c[j] = d /\ \A k \in 1 .. n : k # j => c[k] = b[k]
    BY <1>2, <2>1, ChangedText
  <2>3. PICK u \in Text : u = a \o Bytes(w) \o c /\ HeaderText(u, a, Bytes(w), c)
    <3>1. PICK u : u = a \o Bytes(w) \o c /\ HeaderText(u, a, Bytes(w), c)
      BY BytesOfHeader
    <3>2. u \in Text
      BY <3>1 DEF HeaderText
    <3> QED
      BY <3>1, <3>2
  <2>4. /\ Len(u) = m + 4 + n
        /\ \A k \in 1 .. m : u[k] = a[k]
        /\ \A k \in 1 .. 4 : u[m + k] = Bytes(w)[k]
        /\ \A k \in 1 .. n : u[m + 4 + k] = c[k]
    BY <1>2, <2>2, <2>3 DEF HeaderText
  <2>5. PICK l \in 1 .. m + 4 + n : l = m + 4 + j /\ j \in 1 .. n
    <3>1. m + 4 + j \in 1 .. m + 4 + n /\ j \in 1 .. n
      BY <1>2
    <3> QED
      BY <3>1
  <2>6. ASSUME NEW k \in 1 .. m + 4 + n, k # l
        PROVE  u[k] = t[k]
    <3>1. CASE k \in 1 .. m
      BY <1>4, <2>4, <3>1
    <3>2. ASSUME NEW i \in 1 .. 4, k = m + i
          PROVE  u[k] = t[k]
      BY <1>4, <2>4, <3>2
    <3>3. ASSUME NEW i \in 1 .. n, k = m + 4 + i
          PROVE  u[k] = t[k]
      <4>1. i # j
        BY <2>5, <2>6, <3>3
      <4> QED
        BY <1>4, <2>2, <2>4, <3>3, <4>1
    <3> QED
      BY <1>5, <3>1, <3>2, <3>3
  <2>7. u[l] # t[l]
    BY <1>4, <1>6, <2>2, <2>4, <2>5
  <2>8. crc32({}, u) # crc32({}, t)
    <3>1. Len(u) = Len(t) /\ l \in 1 .. Len(u) /\ \A k \in 1 .. Len(u) : k # l => u[k] = t[k]
      BY <1>4, <2>4, <2>6
    <3> QED
      BY <2>7, <3>1, OneByteDetected
  <2> QED
    BY <1>1, <1>3, <2>1, <2>3, <2>8 DEF SumOf
<1> QED
  BY <1>6

\* A header whose checksum is that of its other bytes is accepted, and with a bit of it
\* changed it is not, unless the bit makes it larger.
LEMMA BitDetected ==
  ASSUME NEW h, Sized(h), h.header_crc32 = SumOf(Start, h.fields)
  PROVE  /\ Verdicts(h) = {TRUE}
         /\ \A g \in Changed(h) :
              /\ g.rest # h.rest => Verdicts(g) = {TRUE}
              /\ TRUE \in Verdicts(g) => g.rest # h.rest \/ Less(h.header_size, g.header_size)
<1>1. PICK s \in Text, z \in Words, w \in Words, p \in Text, q \in Text :
        h = [signature |-> s, header_size |-> z, header_crc32 |-> w, fields |-> p, rest |-> q]
  BY DEF Sized, Header
<1>2. /\ s = Signature /\ z = GPT_HEADER_SIZE /\ w = SumOf(Start, p)
      /\ Len(Signature) + 8 + Len(p) = Number(GPT_HEADER_SIZE)
  BY <1>1 DEF Sized
<1>3. ASSUME NEW v \in Words, NEW c \in Text, NEW r \in Text, Len(c) = Len(p),
             NEW g, g = [signature |-> s, header_size |-> z, header_crc32 |-> v, fields |-> c, rest |-> r]
      PROVE  Verdicts(g) = {SumOf(Start, c) = v}
  <2>1. Sized(g)
    BY <1>2, <1>3 DEF Sized, Header
  <2> QED
    BY <1>3, <2>1, SizedVerdicts
<1>4. Verdicts(h) = {TRUE}
  <2>1. Verdicts(h) = {SumOf(Start, p) = w}
    BY <1>1, <1>3
  <2> QED
    BY <1>2, <2>1, Zenon
<1>5. ASSUME NEW d \in Byte, NEW b \in 0 .. 7
      PROVE  xor(d, {b}) \in Byte /\ xor(d, {b}) # d
  BY DEF xor, Byte
<1>6. ASSUME NEW k \in DOMAIN h.signature, NEW b \in 0 .. 7, NEW g,
             g = [h EXCEPT !.signature[k] = xor(@, {b})]
      PROVE  g.rest = h.rest /\ Verdicts(g) = {FALSE}
  <2>1. k \in 1 .. Len(s) /\ s[k] \in Byte
    BY <1>1, <1>6 DEF Text
  <2>2. PICK d \in Byte : d = xor(s[k], {b}) /\ d # s[k]
    BY <1>5, <2>1
  <2>3. [s EXCEPT ![k] = d] # s
    BY <2>1, <2>2 DEF Text
  <2>4. g.signature = [s EXCEPT ![k] = d] /\ g.rest = h.rest
    BY <1>1, <1>6, <2>2
  <2> QED
    BY <1>2, <2>3, <2>4 DEF Verdicts
<1>7. ASSUME NEW b \in Word, NEW g, g = [h EXCEPT !.header_size = xor(@, {b})]
      PROVE  g.rest = h.rest /\ (TRUE \in Verdicts(g) => Less(h.header_size, g.header_size))
  <2>1. g.signature = s /\ g.header_size = xor(z, {b}) /\ g.rest = h.rest /\ h.header_size = z
    BY <1>1, <1>7
  <2>2. CASE b \in z
    <3>1. xor(z, {b}) = z \ {b} /\ b \in z \ xor(z, {b}) /\ xor(z, {b}) \ z = {}
      BY <2>2 DEF xor
    <3>2. Less(g.header_size, GPT_HEADER_SIZE)
      BY <1>2, <2>1, <3>1 DEF Less
    <3> QED
      BY <2>1, <3>2 DEF Verdicts
  <2>3. CASE b \notin z
    <3>1. b \in xor(z, {b}) \ z /\ z \ xor(z, {b}) = {}
      BY <2>3 DEF xor
    <3> QED
      BY <2>1, <3>1 DEF Less
  <2> QED
    BY <2>2, <2>3
<1>8. ASSUME NEW b \in Word, NEW g, g = [h EXCEPT !.header_crc32 = xor(@, {b})]
      PROVE  g.rest = h.rest /\ Verdicts(g) = {FALSE}
  <2>1. PICK v \in Words : v = xor(w, {b}) /\ v # w
    <3>1. xor(w, {b}) \in Words
      BY DEF xor, Words, Word
    <3>2. xor(w, {b}) # w
      BY DEF xor
    <3> QED
      BY <3>1, <3>2
  <2>2. g = [signature |-> s, header_size |-> z, header_crc32 |-> v, fields |-> p, rest |-> q]
    BY <1>1, <1>8, <2>1
  <2>3. Verdicts(g) = {SumOf(Start, p) = v}
    BY <1>3, <2>2
  <2>4. (SumOf(Start, p) = v) = FALSE
    BY <1>2, <2>1
  <2> QED
    BY <1>1, <2>2, <2>3, <2>4
<1>9. ASSUME NEW k \in DOMAIN h.fields, NEW b \in 0 .. 7, NEW g,
             g = [h EXCEPT !.fields[k] = xor(@, {b})]
      PROVE  g.rest = h.rest /\ Verdicts(g) = {FALSE}
  <2>1. k \in 1 .. Len(p) /\ p[k] \in Byte
    BY <1>1, <1>9 DEF Text
  <2>2. PICK d \in Byte : d = xor(p[k], {b}) /\ d # p[k]
    BY <1>5, <2>1
  <2>3. PICK c \in Text : c = [p EXCEPT ![k] = d]
    BY <2>1, ChangedText
  <2>4. Len(c) = Len(p)
    BY <2>1, <2>3, ChangedText
  <2>5. g = [signature |-> s, header_size |-> z, header_crc32 |-> w, fields |-> c, rest |-> q]
    BY <1>1, <1>9, <2>2, <2>3
  <2>6. SumOf(Start, c) # w
    BY <1>2, <2>1, <2>2, <2>3, StartType, ChangeDetected
  <2>7. Verdicts(g) = {SumOf(Start, c) = w}
    BY <1>3, <2>5, <2>4
  <2>8. (SumOf(Start, c) = w) = FALSE
    BY <2>6
  <2> QED
    BY <1>1, <2>5, <2>7, <2>8
<1>10. ASSUME NEW k \in DOMAIN h.rest, NEW b \in 0 .. 7, NEW g,
              g = [h EXCEPT !.rest[k] = xor(@, {b})]
       PROVE  g.rest # h.rest /\ Verdicts(g) = {TRUE}
  <2>1. k \in 1 .. Len(q) /\ q[k] \in Byte
    BY <1>1, <1>10 DEF Text
  <2>2. PICK d \in Byte : d = xor(q[k], {b}) /\ d # q[k]
    BY <1>5, <2>1
  <2>3. PICK c \in Text : c = [q EXCEPT ![k] = d]
    BY <2>1, ChangedText
  <2>4. c # q
    BY <2>1, <2>2, <2>3 DEF Text
  <2>5. g = [signature |-> s, header_size |-> z, header_crc32 |-> w, fields |-> p, rest |-> c]
    BY <1>1, <1>10, <2>2, <2>3
  <2>6. Verdicts(g) = {SumOf(Start, p) = w}
    BY <1>3, <2>5
  <2>7. (SumOf(Start, p) = w) = TRUE
    BY <1>2
  <2> QED
    BY <1>1, <2>4, <2>5, <2>6, <2>7
<1>11. ASSUME NEW g \in Changed(h)
       PROVE  /\ g.rest # h.rest => Verdicts(g) = {TRUE}
              /\ TRUE \in Verdicts(g) => g.rest # h.rest \/ Less(h.header_size, g.header_size)
  <2>1. \/ \E k \in DOMAIN h.signature, b \in 0 .. 7 : g = [h EXCEPT !.signature[k] = xor(@, {b})]
        \/ \E b \in Word : g = [h EXCEPT !.header_size = xor(@, {b})]
        \/ \E b \in Word : g = [h EXCEPT !.header_crc32 = xor(@, {b})]
        \/ \E k \in DOMAIN h.fields, b \in 0 .. 7 : g = [h EXCEPT !.fields[k] = xor(@, {b})]
        \/ \E k \in DOMAIN h.rest, b \in 0 .. 7 : g = [h EXCEPT !.rest[k] = xor(@, {b})]
    BY DEF Changed
  <2>2. \/ g.rest = h.rest /\ Verdicts(g) = {FALSE}
        \/ g.rest = h.rest /\ (TRUE \in Verdicts(g) => Less(h.header_size, g.header_size))
        \/ g.rest # h.rest /\ Verdicts(g) = {TRUE}
    <3>1. CASE \E k \in DOMAIN h.signature, b \in 0 .. 7 : g = [h EXCEPT !.signature[k] = xor(@, {b})]
      BY <1>6, <3>1, Zenon
    <3>2. CASE \E b \in Word : g = [h EXCEPT !.header_size = xor(@, {b})]
      BY <1>7, <3>2, Zenon
    <3>3. CASE \E b \in Word : g = [h EXCEPT !.header_crc32 = xor(@, {b})]
      BY <1>8, <3>3, Zenon
    <3>4. CASE \E k \in DOMAIN h.fields, b \in 0 .. 7 : g = [h EXCEPT !.fields[k] = xor(@, {b})]
      BY <1>9, <3>4, Zenon
    <3>5. CASE \E k \in DOMAIN h.rest, b \in 0 .. 7 : g = [h EXCEPT !.rest[k] = xor(@, {b})]
      BY <1>10, <3>5, Zenon
    <3> QED
      BY <2>1, <3>1, <3>2, <3>3, <3>4, <3>5, Zenon
  <2>3. TRUE \notin {FALSE}
    OBVIOUS
  <2> QED
    BY <2>2, <2>3, Zenon
<1> QED
  BY <1>4, <1>11

\* Both headers of formatDisk carry the checksum of their other bytes.
LEMMA HeadersSealed ==
  ASSUME NEW fields \in Text, NEW other \in Text, NEW rest \in Text,
         Len(Signature) + 8 + Len(fields) = Number(GPT_HEADER_SIZE),
         Len(Signature) + 8 + Len(other) = Number(GPT_HEADER_SIZE),
         NEW primary, primary = PrimaryHeader(fields, rest),
         NEW backup, backup = BackupHeader(primary, other)
  PROVE  /\ Sized(primary) /\ primary.header_crc32 = SumOf(Start, primary.fields)
         /\ Sized(backup) /\ backup.header_crc32 = SumOf(Start, backup.fields)
<1>1. PICK z \in Words : z = {}
  BY DEF Words
<1>2. ASSUME NEW c \in Text, Len(Signature) + 8 + Len(c) = Number(GPT_HEADER_SIZE), NEW w \in Words,
             NEW g, g = [signature |-> Signature, header_size |-> GPT_HEADER_SIZE,
                         header_crc32 |-> w, fields |-> c, rest |-> rest]
      PROVE  Sized(g) /\ g.header_crc32 = w /\ g.fields = c
  BY <1>2, StartType DEF Sized, Header
<1>3. ASSUME NEW c \in Text, Len(Signature) + 8 + Len(c) = Number(GPT_HEADER_SIZE),
             NEW g, g = [signature |-> Signature, header_size |-> GPT_HEADER_SIZE,
                         header_crc32 |-> z, fields |-> c, rest |-> rest],
             NEW h, h = [g EXCEPT !.header_crc32 = SumOver(g, GPT_HEADER_SIZE)]
      PROVE  \E w \in Words : w = SumOf(Start, c) /\ h = [signature |-> Signature, header_size |-> GPT_HEADER_SIZE,
                                                        header_crc32 |-> w, fields |-> c, rest |-> rest]
  <2>1. Sized(g) /\ g.fields = c
    BY <1>2, <1>3
  <2>2. [g EXCEPT !.header_crc32 = {}] = g
    <3>1. [g EXCEPT !.header_crc32 = z] = g
      BY <1>3
    <3> QED
      BY <1>1, <3>1, Zenon
  <2>3. PICK w \in Words : w = SumOf(Start, c)
    BY <2>1, HeaderSum
  <2>4. SumOver(g, GPT_HEADER_SIZE) = w
    BY <2>1, <2>2, <2>3, HeaderSum
  <2>5. h = [g EXCEPT !.header_crc32 = w]
    BY <1>3, <2>4
  <2>6. h = [signature |-> Signature, header_size |-> GPT_HEADER_SIZE,
             header_crc32 |-> w, fields |-> c, rest |-> rest]
    BY <1>3, <2>5
  <2> QED
    BY <2>3, <2>6
<1>4. PICK b : b = [signature |-> Signature, header_size |-> GPT_HEADER_SIZE,
                    header_crc32 |-> z, fields |-> fields, rest |-> rest]
  OBVIOUS
<1>5. primary = [b EXCEPT !.header_crc32 = SumOver(b, GPT_HEADER_SIZE)]
  BY <1>1, <1>4, Zenon DEF PrimaryHeader
<1>6. PICK w \in Words :
        /\ w = SumOf(Start, fields)
        /\ primary = [signature |-> Signature, header_size |-> GPT_HEADER_SIZE,
                      header_crc32 |-> w, fields |-> fields, rest |-> rest]
  BY <1>3, <1>4, <1>5
<1>7. PICK e : e = [primary EXCEPT !.fields = other, !.header_crc32 = {}]
  OBVIOUS
<1>8. e = [signature |-> Signature, header_size |-> GPT_HEADER_SIZE,
           header_crc32 |-> z, fields |-> other, rest |-> rest]
  <2>1. PICK d : d = [primary EXCEPT !.fields = other]
    OBVIOUS
  <2>2. d = [signature |-> Signature, header_size |-> GPT_HEADER_SIZE,
             header_crc32 |-> w, fields |-> other, rest |-> rest]
    BY <1>6, <2>1
  <2>3. e = [d EXCEPT !.header_crc32 = z]
    BY <1>1, <1>7, <2>1, Zenon
  <2> QED
    BY <2>2, <2>3
<1>9. backup = [e EXCEPT !.header_crc32 = SumOver(e, GPT_HEADER_SIZE)]
  BY <1>7, Zenon DEF BackupHeader
<1>10. PICK v \in Words :
         /\ v = SumOf(Start, other)
         /\ backup = [signature |-> Signature, header_size |-> GPT_HEADER_SIZE,
                      header_crc32 |-> v, fields |-> other, rest |-> rest]
  BY <1>3, <1>8, <1>9
<1>11. Sized(primary) /\ primary.header_crc32 = SumOf(Start, primary.fields)
  BY <1>2, <1>6
<1>12. Sized(backup) /\ backup.header_crc32 = SumOf(Start, backup.fields)
  BY <1>2, <1>10
<1> QED
  BY <1>11, <1>12

\* Whatever its fields and whatever is behind them, a header that formatDisk has written
\* is accepted; one in which a single bit has changed is not, unless the bit is behind
\* the header or makes header_size larger.
THEOREM HeadersAlwaysVerified == Spec => []HeadersVerified
<1>1. Returned => HeadersVerified
  <2> SUFFICES ASSUME Returned, Called("header")
               PROVE  HeadersVerified
    BY DEF HeadersVerified
  <2>1. result = HeadersOf /\ input \in Inputs /\ input.fn = "header"
    BY DEF Returned, Called
  <2>2. PICK fields \in HeaderFields, other \in HeaderFields, rest \in Remnants :
          fields = input.fields /\ other = input.other /\ rest = input.rest
    BY <2>1 DEF Inputs
  <2>3. /\ fields \in Text /\ other \in Text /\ rest \in Text
        /\ Len(Signature) + 8 + Len(fields) = Number(GPT_HEADER_SIZE)
        /\ Len(Signature) + 8 + Len(other) = Number(GPT_HEADER_SIZE)
    BY ChecksAssumption DEF Text, Byte
  <2>4. PICK primary, backup : /\ primary = PrimaryHeader(fields, rest)
                               /\ backup = BackupHeader(primary, other)
    OBVIOUS
  <2>5. result.primary = primary /\ result.backup = backup
    BY <2>1, <2>2, <2>4 DEF HeadersOf
  <2>6. \A h \in {primary, backup} : Sized(h) /\ h.header_crc32 = SumOf(Start, h.fields)
    BY <2>3, <2>4, HeadersSealed
  <2> QED
    BY <2>5, <2>6, BitDetected DEF HeadersVerified
<1> QED
  BY <1>1, ReturnedHolds, PTL
==============================================================================
