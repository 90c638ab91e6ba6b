-------------------------- MODULE PercentageProofs --------------------------
(***************************************************************************)
(* Proof that tables of percentages can always be placed (PercentagesFit). *)
(*                                                                         *)
(* The sizing loop grants blocks to the partitions in turn, and placing    *)
(* puts each one right behind the one before it: what is needed is that    *)
(* the sum of the sizes is bounded, and that all but the last of them are  *)
(* whole alignment units, so that no space is lost between two partitions. *)
(* The sums are a function g: the first k partitions have g[k] blocks.     *)
(***************************************************************************)
EXTENDS LayoutProofs

\* Only percentages are asked for, on a device with room for partitions.
Percentages ==
  Roomy /\ Chosen = {} /\ \A p \in DOMAIN request : request[p].size <= 100

\* Sums of blocks, or of bytes.
Sums == [Nat -> Nat]

\* The first n partitions have these blocks, and none of them is empty.
Grants(g, n) ==
  /\ g[0] = 0
  /\ \A k \in 1 .. n : table[k].size = (g[k] - g[k - 1]) * blockSize
  /\ \A k, l \in 0 .. n : k < l => g[k] < g[l]
  /\ \A k \in 0 .. n - 1 : g[k] % blockAlign = 0
  /\ g[n] <= totalAvailableBlocks
  /\ g[n] % blockAlign = 0 \/ g[n] = totalAvailableBlocks

\* The sizing loop: totalBlocks is the sum of what it has granted, and once that
\* is no multiple of the alignment nothing is left.
Granted ==
  pc = "size" /\ Percentages /\ (\A k \in 1 .. i - 1 : table[k].size # 0) =>
    \E g \in Sums, n \in Nat : n + 1 = i /\ Grants(g, n) /\ totalBlocks = g[n]

\* The place of partition k in the list when m partitions are placed: those that
\* are placed come last.
Turn(m, k) == IF k <= m THEN Len(request) + k ELSE k

\* The first m partitions are in place, one behind the other, and the list has the
\* others in front of them, all in the order of the table.
TurnState(g, m) ==
  /\ Grants(g, Len(request))
  /\ \A k \in 1 .. Len(request) :
       table[k].offset =
         IF k <= m THEN firstAvailableBlock * blockSize + g[k - 1] * blockSize ELSE 0
  /\ \A a, b \in 1 .. Len(request) : a < b => Turn(m, list[a]) < Turn(m, list[b])
InTurn ==
  pc = "place" /\ Percentages /\ NoneEmpty =>
    \E g \in Sums, m \in Nat : m <= Len(request) /\ TurnState(g, m)

\* Partitions that the sizing loop has not come to are as the application left them.
Unsized == pc = "size" => \A k \in DOMAIN request : k >= i => table[k].size = request[k].size

AssertHolds == result = "assert" => ~(Percentages /\ NoneEmpty)

(***************************************************************************)
(* Sizes                                                                   *)
(***************************************************************************)

\* Sums of multiples are multiples.
LEMMA AddMultiples ==
  ASSUME NEW a \in Nat, NEW b \in Nat, NEW m \in Nat \ {0}, a % m = 0, b % m = 0
  PROVE  (a + b) % m = 0
<1>1. PICK x \in Nat, y \in Nat : a = x * m /\ b = y * m
  BY Multiple
<1>2. a + b = (x + y) * m
  BY <1>1
<1>3. x + y \in Nat
  OBVIOUS
<1> QED
  BY <1>2, <1>3, MulMod

\* Multiplication is strictly monotonic.
LEMMA MulStrict ==
  ASSUME NEW a \in Nat, NEW b \in Nat, NEW c \in Nat \ {0}, a < b
  PROVE  a * c < b * c
<1>1. (a + 1) * c <= b * c
  BY MulMono
<1>2. (a + 1) * c = a * c + c
  OBVIOUS
<1> QED
  BY <1>1, <1>2

\* What a percentage asks for: rounding up does not wrap, and twice the space does
\* not either.
LEMMA WantedFacts ==
  ASSUME TypeOK, Roomy, i \in DOMAIN request, Percentage
  PROVE  /\ Wanted \in Nat /\ Wanted % blockAlign = 0
         /\ totalAvailableBlocks + Wanted < Word
<1>1. PICK c \in Nat \ {0}, b \in Nat \ {0, 1}, A \in Nat \ {0}, R \in Nat \ {0}, W \in Nat \ {0},
           T \in Nat :
        /\ c = blockAlign /\ b = blockSize /\ A = PARTITION_ALIGN /\ c * b = A
        /\ R = device.range /\ W = Word /\ R <= W /\ T = totalAvailableBlocks
  <2>1. blockAlign \in Nat \ {0} /\ blockAlign * blockSize = PARTITION_ALIGN
    BY BlockAlign DEF TypeOK
  <2>2. /\ device.range \in Nat \ {0} /\ Word \in Nat \ {0} /\ device.range <= Word
        /\ PARTITION_ALIGN \in Nat \ {0}
    BY DeviceFacts DEF TypeOK
  <2>3. totalAvailableBlocks \in Nat
    BY ArgumentTypes DEF TypeOK
  <2> QED
    BY <2>1, <2>2, <2>3, LayoutAssumption
<1>2. PICK Tb \in Nat : Tb = T * b /\ Tb + A < R /\ 2 * T <= Tb
  <2>1. T * b + A < R
    <3>1. PICK f \in Nat \ {0}, z \in Nat, e \in Nat :
            z = totalAvailableBlocks * blockSize /\ f + z <= e /\ e + PARTITION_ALIGN < device.range
      BY Space DEF TypeOK
    <3> QED
      BY <1>1, <3>1
  <2>2. T * 2 <= T * b
    OBVIOUS
  <2>3. PICK Tb \in Nat : Tb = T * b
    OBVIOUS
  <2> QED
    BY <2>1, <2>2, <2>3
<1>3. PICK s \in 0 .. 100 : s = table[i].size
  BY PartFacts DEF Percentage
<1>4. PICK v \in Nat : v = (((T * s) % W) \div 100) % R /\ v <= T
  <2>1. PICK Ts \in Nat : Ts = T * s /\ Ts <= 100 * T
    <3>1. s \in Nat /\ s <= 100
      OBVIOUS
    <3>2. s * T <= 100 * T /\ s * T = T * s
      BY <3>1, MulMono
    <3> QED
      BY <3>1, <3>2
  <2>2. PICK x \in Nat : x = Ts % W /\ x <= Ts
    BY ModBelow
  <2>3. PICK y \in Nat : y = x \div 100 /\ y <= T
    BY <2>1, <2>2
  <2>4. PICK v \in Nat : v = y % R /\ v <= y
    BY ModBelow
  <2> QED
    BY <2>1, <2>2, <2>3, <2>4
<1>5. PICK u \in Nat : u = v + (c - 1) /\ u < R
  <2>1. c <= c * b /\ c * b \in Nat
    OBVIOUS
  <2> QED
    BY <1>1, <1>2, <1>4, <2>1
<1>6. PICK w \in Nat : w = (v + (c - 1)) - ((v + (c - 1)) % c) /\ w < v + c /\ w % c = 0
  BY RoundUp
<1>7. u % R = u
  BY <1>5, ModSmall
<1>8. align_up(v, c) = w
  BY <1>1, <1>5, <1>6, <1>7 DEF align_up, align
<1>9. Wanted = w
  BY <1>1, <1>3, <1>4, <1>8 DEF Wanted
<1>10. T + w < W
  <2>1. c <= c * b /\ c * b \in Nat
    OBVIOUS
  <2>2. c <= A /\ R <= W /\ 2 * T + A < R
    BY <1>1, <1>2, <2>1
  <2>3. w < T + c
    BY <1>4, <1>6
  <2> QED
    BY <2>2, <2>3
<1> QED
  BY <1>1, <1>6, <1>9, <1>10

\* One more grant: it is within the space, and the size in bytes does not wrap.
LEMMA BlocksFacts ==
  ASSUME TypeOK, Roomy, i \in DOMAIN request, Percentage, totalBlocks <= totalAvailableBlocks
  PROVE  /\ Blocks \in Nat /\ totalBlocks + Blocks <= totalAvailableBlocks
         /\ (Blocks * blockSize) % device.range = Blocks * blockSize
         /\ (totalBlocks + Blocks) % Word = totalBlocks + Blocks
         /\ Clipped => totalBlocks + Blocks = totalAvailableBlocks
         /\ ~Clipped => Blocks % blockAlign = 0
         /\ totalBlocks = totalAvailableBlocks => Blocks = 0
<1>1. PICK b \in Nat \ {0}, R \in Nat \ {0}, W \in Nat \ {0}, T \in Nat, t \in Nat :
        /\ b = blockSize /\ R = device.range /\ W = Word /\ R <= W
        /\ T = totalAvailableBlocks /\ t = totalBlocks /\ t <= T
  <2>1. /\ device.range \in Nat \ {0} /\ Word \in Nat \ {0} /\ device.range <= Word
        /\ blockSize \in Nat \ {0}
    BY DeviceFacts DEF TypeOK
  <2>2. totalAvailableBlocks \in Nat /\ totalBlocks \in Nat
    BY <2>1, ArgumentTypes DEF TypeOK
  <2> QED
    BY <2>1, <2>2
<1>2. PICK w \in Nat : w = Wanted /\ w % blockAlign = 0 /\ T + w < W
  BY <1>1, WantedFacts
<1>3. PICK z \in Nat : z = T * b /\ z < R
  <2>1. PICK f \in Nat \ {0}, z \in Nat, e \in Nat :
          z = totalAvailableBlocks * blockSize /\ f + z <= e /\ e + PARTITION_ALIGN < device.range
    BY Space DEF TypeOK
  <2>2. PARTITION_ALIGN \in Nat
    BY DeviceFacts DEF TypeOK
  <2> QED
    BY <1>1, <2>1, <2>2
<1>4. T <= z
  BY <1>3
<1>5. Clipped <=> t + w > T
  <2>1. t + w \in Nat /\ t + w < W
    BY <1>1, <1>2
  <2>2. (t + w) % W = t + w
    BY <2>1, ModSmall
  <2> QED
    BY <1>1, <1>2, <2>2 DEF Clipped
<1>6. PICK n \in Nat : n = IF Clipped THEN T - t ELSE w
  <2>1. T - t \in Nat
    BY <1>1
  <2>2. CASE Clipped
    BY <2>1, <2>2
  <2>3. CASE ~Clipped
    BY <2>3
  <2> QED
    BY <2>2, <2>3
<1>7. Blocks = n
  <2>1. (T - t) % R = T - t
    <3>1. T - t \in Nat /\ T - t < R
      BY <1>1, <1>3, <1>4
    <3> QED
      BY <3>1, ModSmall
  <2> QED
    BY <1>1, <1>2, <1>6, <2>1 DEF Blocks
<1>8. t + n <= T
  BY <1>1, <1>5, <1>6
<1>9. (n * b) % R = n * b
  <2>1. n * b <= T * b /\ n * b \in Nat
    BY <1>8, MulMono
  <2>2. n * b < R
    BY <1>3, <2>1
  <2> QED
    BY <2>1, <2>2, ModSmall
<1>10. (t + n) % W = t + n
  <2>1. t + n \in Nat /\ t + n < W
    BY <1>1, <1>3, <1>4, <1>8
  <2> QED
    BY <2>1, ModSmall
<1>11. t = T => n = 0
  BY <1>8
<1>12. Clipped => t + n = T
  BY <1>6
<1>13. ~Clipped => n % blockAlign = 0
  BY <1>2, <1>6
<1> QED
  BY <1>1, <1>7, <1>8, <1>9, <1>10, <1>11, <1>12, <1>13

\* Whether percentages only were asked for does not change.
LEMMA SamePercentages ==
  ASSUME UNCHANGED <<device, request>>
  PROVE  Percentages' = Percentages /\ blockAlign' = blockAlign
BY DeviceOnly DEF Percentages, Chosen, blockAlign

\* A table of percentages has no positions while sizes are computed.
LEMMA SizePercentageGranted ==
  ASSUME Basic, Granted, SizePercentage
  PROVE  Granted'
<1>1. /\ TypeOK /\ pc = "size" /\ i \in DOMAIN request /\ Percentage
      /\ UNCHANGED <<device, request>>
      /\ table' = [table EXCEPT ![i].size = (Blocks * blockSize) % device.range]
      /\ totalBlocks' = (totalBlocks + Blocks) % Word
      /\ Clipped => Blocks # 0
  BY DEF Basic, SizePercentage, Sizing, NextPart, TypeOK
<1>2. PICK n \in Nat : n = Len(request) /\ DOMAIN request = 1 .. n
  <2>1. TypeOK
    BY DEF Basic
  <2> QED
    BY <2>1 DEF TypeOK
<1> SUFFICES ASSUME pc' = "size", Percentages', \A k \in 1 .. i' - 1 : table'[k].size # 0
             PROVE  \E g \in Sums, x \in Nat :
                      x + 1 = i' /\ Grants(g, x)' /\ totalBlocks' = g[x]
  BY DEF Granted
<1>3. i' = i + 1 /\ i \in Nat /\ i >= 1 /\ i <= n
  BY <1>1, <1>2 DEF SizePercentage, NextPart, Finish
<1>4. \A k \in 1 .. i - 1 : table'[k] = table[k] /\ table[k].size # 0
  <2>1. \A k \in 1 .. i - 1 : k \in DOMAIN table /\ k # i /\ k \in 1 .. i' - 1
    BY <1>1, <1>2, <1>3 DEF TypeOK
  <2> QED
    BY <1>1, <2>1
<1>5. Percentages /\ Roomy
  BY <1>1, SamePercentages DEF Percentages
<1>6. PICK g \in Sums : Grants(g, i - 1) /\ totalBlocks = g[i - 1]
  <2>1. PICK g \in Sums, x \in Nat : x + 1 = i /\ Grants(g, x) /\ totalBlocks = g[x]
    BY <1>1, <1>4, <1>5 DEF Granted
  <2>2. x = i - 1
    BY <1>3, <2>1
  <2> QED
    BY <2>1, <2>2
<1>7. totalBlocks <= totalAvailableBlocks
  BY <1>6 DEF Grants
<1>8. PICK w \in Nat, t \in Nat, T \in Nat, c \in Nat \ {0}, b \in Nat \ {0} :
        /\ w = Blocks /\ t = g[i - 1] /\ T = totalAvailableBlocks /\ c = blockAlign /\ b = blockSize
        /\ t + w <= T
        /\ (Blocks * blockSize) % device.range = w * b
        /\ totalBlocks' = t + w
        /\ Clipped => t + w = T
        /\ ~Clipped => w % c = 0
        /\ t = T => w = 0
  <2>1. /\ Blocks \in Nat /\ totalBlocks + Blocks <= totalAvailableBlocks
        /\ (Blocks * blockSize) % device.range = Blocks * blockSize
        /\ (totalBlocks + Blocks) % Word = totalBlocks + Blocks
        /\ Clipped => totalBlocks + Blocks = totalAvailableBlocks
        /\ ~Clipped => Blocks % blockAlign = 0
        /\ totalBlocks = totalAvailableBlocks => Blocks = 0
    BY <1>1, <1>5, <1>7, BlocksFacts
  <2>2. g[i - 1] \in Nat
    BY <1>3 DEF Sums
  <2>3. totalAvailableBlocks \in Nat /\ blockAlign \in Nat \ {0} /\ blockSize \in Nat \ {0}
    BY <1>1, ArgumentTypes, BlockAlign, DeviceFacts DEF TypeOK
  <2> QED
    BY <1>1, <1>6, <2>1, <2>2, <2>3
<1>9. table'[i].size = w * b
  BY <1>1, <1>8 DEF TypeOK, Part
<1>10. w # 0
  <2>1. table'[i].size # 0
    BY <1>3
  <2> QED
    BY <1>9, <2>1
<1>11. t % c = 0
  BY <1>6, <1>8, <1>10 DEF Grants
<1>12. PICK h \in Sums : h = [g EXCEPT ![i] = t + w]
  <2>1. [g EXCEPT ![i] = t + w] \in Sums
    BY <1>3 DEF Sums
  <2> QED
    BY <2>1
<1>13. /\ h[i] = t + w /\ \A k \in 0 .. i - 1 : h[k] = g[k]
       /\ t + w \in Nat
  BY <1>3, <1>12 DEF Sums
<1>14. h[0] = 0
  BY <1>3, <1>6, <1>13 DEF Grants
<1>15. \A k \in 1 .. i : table'[k].size = (h[k] - h[k - 1]) * b
  <2> SUFFICES ASSUME NEW k \in 1 .. i
               PROVE  table'[k].size = (h[k] - h[k - 1]) * b
    OBVIOUS
  <2>1. CASE k = i
    <3>1. h[i] - h[i - 1] = w
      BY <1>3, <1>8, <1>13
    <3> QED
      BY <1>9, <2>1, <3>1
  <2>2. CASE k # i
    <3>1. k \in 1 .. i - 1 /\ k \in 0 .. i - 1 /\ k - 1 \in 0 .. i - 1
      BY <1>3, <2>2
    <3>2. table[k].size = (g[k] - g[k - 1]) * b
      BY <1>6, <1>8, <3>1 DEF Grants
    <3> QED
      BY <1>4, <1>13, <3>1, <3>2
  <2> QED
    BY <2>1, <2>2
<1>16. \A k, l \in 0 .. i : k < l => h[k] < h[l]
  <2> SUFFICES ASSUME NEW k \in 0 .. i, NEW l \in 0 .. i, k < l
               PROVE  h[k] < h[l]
    OBVIOUS
  <2>1. k \in 0 .. i - 1 /\ h[k] = g[k] /\ g[k] \in Nat
    BY <1>3, <1>13 DEF Sums
  <2>2. CASE l = i
    <3>1. g[k] <= t
      <4>1. i - 1 \in 0 .. i - 1 /\ (k = i - 1 \/ k < i - 1)
        BY <1>3, <2>1
      <4>2. k < i - 1 => g[k] < g[i - 1]
        BY <1>6, <2>1, <4>1 DEF Grants
      <4> QED
        BY <1>8, <2>1, <4>1, <4>2
    <3> QED
      BY <1>10, <1>13, <2>1, <2>2, <3>1
  <2>3. CASE l # i
    <3>1. l \in 0 .. i - 1
      BY <1>3, <2>3
    <3> QED
      BY <1>6, <1>13, <2>1, <3>1 DEF Grants
  <2> QED
    BY <2>2, <2>3
<1>17. \A k \in 0 .. i - 1 : h[k] % c = 0
  <2> SUFFICES ASSUME NEW k \in 0 .. i - 1
               PROVE  g[k] % c = 0
    BY <1>13
  <2>1. CASE k = i - 1
    BY <1>8, <1>11, <2>1
  <2>2. CASE k # i - 1
    <3>1. k \in 0 .. (i - 1) - 1
      BY <1>3, <2>2
    <3> QED
      BY <1>6, <1>8, <3>1 DEF Grants
  <2> QED
    BY <2>1, <2>2
<1>18. h[i] <= T /\ (h[i] % c = 0 \/ h[i] = T)
  <2>1. CASE Clipped
    BY <1>8, <1>13, <2>1
  <2>2. CASE ~Clipped
    <3>1. (t + w) % c = 0
      BY <1>8, <1>11, <2>2, AddMultiples
    <3> QED
      BY <1>8, <1>13, <3>1
  <2> QED
    BY <2>1, <2>2
<1>19. PICK x \in Nat : x = i
  BY <1>3
<1>20. totalAvailableBlocks' = T /\ blockAlign' = c /\ i' = x + 1
  BY <1>1, <1>3, <1>8, <1>19, DeviceOnly, SamePercentages
<1>21. Grants(h, x)'
  BY <1>8, <1>14, <1>15, <1>16, <1>17, <1>18, <1>19, <1>20 DEF Grants
<1>22. totalBlocks' = h[x]
  BY <1>8, <1>13, <1>19
<1> QED
  BY <1>20, <1>21, <1>22

(***************************************************************************)
(* Positions                                                               *)
(***************************************************************************)

\* Grants is about sizes only.
LEMMA SameGrants ==
  ASSUME NEW g, NEW n, device' = device, \A k \in 1 .. n : table'[k].size = table[k].size
  PROVE  Grants(g, n)' = Grants(g, n)
BY DeviceOnly DEF Grants, blockAlign

\* The list is in the order of turns: the first one without a position is the one
\* whose turn it is, and each partition in place is followed by the next.
LEMMA ListByTurn ==
  ASSUME Basic, pc = "place", NEW m \in Nat, m <= Len(request),
         \A a, b \in 1 .. Len(request) : a < b => Turn(m, list[a]) < Turn(m, list[b])
  PROVE  /\ m < Len(request) => list[1] = m + 1
         /\ m = Len(request) => list[1] <= m
         /\ m >= 1 => list[Len(request)] = m
         /\ \A j \in 1 .. Len(request) :
              list[j] < m => j + 1 \in 1 .. Len(request) /\ list[j + 1] = list[j] + 1
         /\ \A j \in 1 .. Len(request) : list[j] = m => j = Len(request)
<1>1. PICK n \in Nat : n = Len(request) /\ n >= 1 /\ DOMAIN request = 1 .. n
  BY DEF Basic, TypeOK
<1>2. list \in [1 .. n -> 1 .. n]
  BY <1>1 DEF Basic, Ordered
<1>3. m \in Nat /\ m <= n
  BY <1>1
<1> DEFINE T(k) == Turn(m, k)
<1>4. \A k \in 1 .. n : T(k) \in Nat /\ T(k) = IF k <= m THEN n + k ELSE k
  BY <1>1, <1>3 DEF Turn
<1>5. \A a, b \in 1 .. n : a < b => T(list[a]) < T(list[b])
  BY <1>1
<1>6. \A q \in 1 .. n : \E a \in 1 .. n : list[a] = q
  BY <1>1, ListComplete
<1> HIDE DEF T
<1>7. m < n => list[1] = m + 1
  <2> SUFFICES ASSUME m < n
               PROVE  list[1] = m + 1
    OBVIOUS
  <2>1. PICK a \in 1 .. n : list[a] = m + 1
    BY <1>3, <1>6, m + 1 \in 1 .. n
  <2>2. ~(1 < a)
    <3>1. 1 < a => T(list[1]) < T(m + 1)
      BY <1>1, <1>5, <2>1
    <3>2. T(m + 1) = m + 1
      BY <1>3, <1>4
    <3>3. list[1] \in 1 .. n
      BY <1>1, <1>2
    <3>4. T(list[1]) >= m + 1
      BY <1>3, <1>4, <3>3
    <3> QED
      BY <1>3, <1>4, <3>1, <3>2, <3>3, <3>4
  <2> QED
    BY <2>1, <2>2
<1>8. m = n => list[1] <= m
  BY <1>1, <1>2
<1>9. m >= 1 => list[n] = m
  <2> SUFFICES ASSUME m >= 1
               PROVE  list[n] = m
    OBVIOUS
  <2>1. PICK a \in 1 .. n : list[a] = m
    BY <1>3, <1>6, m \in 1 .. n
  <2>2. ~(a < n)
    <3>1. a < n => T(m) < T(list[n])
      BY <1>1, <1>5, <2>1
    <3>2. T(m) = n + m
      BY <1>3, <1>4
    <3>3. list[n] \in 1 .. n
      BY <1>1, <1>2
    <3>4. T(list[n]) <= n + m
      BY <1>3, <1>4, <3>3
    <3> QED
      BY <1>3, <1>4, <3>1, <3>2, <3>3, <3>4
  <2> QED
    BY <2>1, <2>2
<1>10. ASSUME NEW j \in 1 .. n, list[j] < m
       PROVE  j + 1 \in 1 .. n /\ list[j + 1] = list[j] + 1
  <2>1. PICK p \in 1 .. n : p = list[j] /\ p < m /\ T(p) = n + p /\ T(p + 1) = n + p + 1
    BY <1>2, <1>3, <1>4, <1>10
  <2>2. PICK a \in 1 .. n : list[a] = p + 1
    <3>1. p + 1 \in 1 .. n
      BY <1>3, <2>1
    <3> QED
      BY <1>6, <3>1
  <2>3. ~(a < j)
    BY <1>5, <2>1, <2>2
  <2>4. a # j
    BY <2>1, <2>2
  <2>5. j + 1 \in 1 .. n
    BY <2>3, <2>4
  <2>6. ~(j + 1 < a)
    <3>1. T(list[j]) < T(list[j + 1])
      BY <1>5, <2>5
    <3>2. j + 1 < a => T(list[j + 1]) < T(list[a])
      BY <1>5, <2>5
    <3>3. T(list[j + 1]) \in Nat
      BY <1>2, <1>4, <2>5
    <3> QED
      BY <1>1, <2>1, <2>2, <3>1, <3>2, <3>3
  <2>7. a = j + 1
    BY <2>3, <2>4, <2>6
  <2> QED
    BY <2>1, <2>2, <2>5, <2>7
<1>11. ASSUME NEW j \in 1 .. n, list[j] = m
       PROVE  j = n
  <2>1. m >= 1
    BY <1>2, <1>11
  <2>2. ~(j < n)
    <3>1. j < n => T(list[j]) < T(list[n])
      BY <1>1, <1>5
    <3>2. T(m) \in Nat
      BY <1>3, <1>4, <2>1, m \in 1 .. n
    <3> QED
      BY <1>9, <1>11, <2>1, <3>1, <3>2
  <2> QED
    BY <2>2
<1> QED
  BY <1>1, <1>7, <1>8, <1>9, <1>10, <1>11

\* The same in bytes: partition k ends G[k] bytes behind the beginning of the space,
\* and all but the last end at a multiple of the alignment.
InBytes(g, m, f, z, G) ==
  /\ f = minOffset /\ f + z = maxOffset + 1 /\ f + z + PARTITION_ALIGN < device.range
  /\ f = firstAvailableBlock * blockSize
  /\ \A k \in Nat : G[k] = g[k] * blockSize
  /\ G[0] = 0
  /\ \A k, l \in 0 .. Len(request) : k < l => G[k] < G[l]
  /\ \A k \in 1 .. Len(request) : G[k] <= z
  /\ \A k \in 1 .. Len(request) : table[k].size = G[k] - G[k - 1]
  /\ \A k \in 1 .. Len(request) : table[k].offset = IF k <= m THEN f + G[k - 1] ELSE 0
  /\ \A k \in 0 .. Len(request) - 1 : (f + G[k]) % PARTITION_ALIGN = 0

\* Blocks times the size of a block.
LEMMA TurnPositions ==
  ASSUME Basic, Percentages, NEW g \in Sums, NEW m \in Nat, m <= Len(request), TurnState(g, m)
  PROVE  \E f \in Nat \ {0}, z \in Nat, G \in Sums : InBytes(g, m, f, z, G)
<1>1. PICK n \in Nat : n = Len(request) /\ n >= 1
  BY DEF Basic, TypeOK
<1>2. TypeOK /\ Grants(g, n) /\ Roomy
  BY <1>1 DEF Basic, TurnState, Percentages
<1>3. PICK f \in Nat \ {0}, z \in Nat, A \in Nat \ {0}, b \in Nat \ {0}, c \in Nat \ {0}, T \in Nat :
        /\ f = firstAvailableBlock * blockSize /\ f % A = 0
        /\ T = totalAvailableBlocks /\ z = T * b
        /\ minOffset = f /\ maxOffset + 1 = f + z /\ f + z + A < device.range
        /\ A = PARTITION_ALIGN /\ b = blockSize /\ c = blockAlign /\ c * b = A
  <2>1. PICK f \in Nat \ {0}, z \in Nat, e \in Nat :
          /\ f = firstAvailableBlock * blockSize /\ f % PARTITION_ALIGN = 0
          /\ z = totalAvailableBlocks * blockSize
          /\ minOffset = f /\ maxOffset + 1 = f + z
          /\ f + z <= e /\ e + PARTITION_ALIGN < device.range
    BY <1>2, Space DEF TypeOK
  <2>2. /\ PARTITION_ALIGN \in Nat \ {0} /\ blockSize \in Nat \ {0} /\ device.range \in Nat
        /\ blockAlign \in Nat \ {0} /\ blockAlign * blockSize = PARTITION_ALIGN
        /\ totalAvailableBlocks \in Nat
    BY <1>2, DeviceFacts, BlockAlign, ArgumentTypes DEF TypeOK
  <2>3. PICK A \in Nat, R \in Nat : A = PARTITION_ALIGN /\ R = device.range
    BY <2>2
  <2>4. f + z <= e /\ e + A < R
    BY <2>1, <2>3
  <2>5. f + z + A < R
    BY <2>4
  <2> QED
    BY <2>1, <2>2, <2>3, <2>5
<1>4. PICK G \in Sums : G = [k \in Nat |-> g[k] * b]
  <2>1. \A k \in Nat : g[k] * b \in Nat
    <3>1. ASSUME NEW k \in Nat
          PROVE  g[k] * b \in Nat
      <4>1. PICK x \in Nat : x = g[k]
        BY DEF Sums
      <4>2. x * b \in Nat
        OBVIOUS
      <4> QED
        BY <4>1, <4>2
    <3> QED
      BY <3>1
  <2>2. [k \in Nat |-> g[k] * b] \in Sums
    BY <2>1 DEF Sums
  <2> QED
    BY <2>2
<1>5. \A k \in Nat : G[k] = g[k] * b /\ g[k] \in Nat
  BY <1>4 DEF Sums
<1>6. G[0] = 0
  BY <1>2, <1>5 DEF Grants
<1>7. ASSUME NEW k \in 1 .. n
      PROVE  /\ G[k] <= z
             /\ table[k].size = G[k] - G[k - 1]
             /\ table[k].offset = IF k <= m THEN f + G[k - 1] ELSE 0
  <2>1. k \in Nat /\ k - 1 \in Nat /\ k \in 0 .. n /\ k - 1 \in 0 .. n /\ k - 1 < k /\ n \in 0 .. n
    OBVIOUS
  <2>2. g[k - 1] < g[k] /\ (k < n => g[k] < g[n]) /\ g[n] <= T
    BY <1>2, <1>3, <2>1 DEF Grants
  <2>3. g[k] <= T
    <3>1. g[k] \in Nat /\ g[n] \in Nat
      BY <1>5, <2>1
    <3>2. CASE k = n
      BY <2>2, <3>2
    <3>3. CASE k < n
      <4>1. PICK x \in Nat, y \in Nat : x = g[k] /\ y = g[n]
        BY <3>1
      <4>2. x < y /\ y <= T
        BY <2>2, <3>3, <4>1
      <4>3. x <= T
        BY <4>2
      <4> QED
        BY <4>1, <4>3
    <3> QED
      BY <3>2, <3>3
  <2>4. PICK x \in Nat, y \in Nat : x = g[k - 1] /\ y = g[k] /\ x < y /\ y <= T
    BY <1>5, <2>1, <2>2, <2>3
  <2>5. PICK xb \in Nat, yb \in Nat : xb = x * b /\ yb = y * b
    OBVIOUS
  <2>6. yb <= z
    <3>1. y * b <= T * b
      BY <2>4, MulMono
    <3> QED
      BY <1>3, <2>5, <3>1
  <2>7. G[k - 1] = xb /\ G[k] = yb
    BY <1>5, <2>1, <2>4, <2>5
  <2>8. table[k].size = (y - x) * b
    BY <1>2, <1>3, <2>4 DEF Grants
  <2>9. (y - x) * b = yb - xb
    BY <2>5
  <2>10. table[k].offset = IF k <= m THEN f + x * b ELSE 0
    BY <1>1, <1>3, <2>4 DEF TurnState
  <2> QED
    BY <2>5, <2>6, <2>7, <2>8, <2>9, <2>10
<1>8. ASSUME NEW k \in 0 .. n - 1
      PROVE  (f + G[k]) % A = 0
  <2>1. PICK x \in Nat : x = g[k] /\ x % c = 0
    <3>1. k \in Nat
      OBVIOUS
    <3>2. g[k] % blockAlign = 0
      BY <1>2 DEF Grants
    <3> QED
      BY <1>3, <3>1, <3>2 DEF Sums
  <2>2. PICK q \in Nat : x = q * c
    BY <2>1, Multiple
  <2>3. G[k] = q * A
    <3>1. G[k] = x * b
      BY <1>5, <2>1
    <3>2. x * b = q * (c * b)
      BY <2>2
    <3> QED
      BY <1>3, <3>1, <3>2
  <2>4. PICK y \in Nat : y = G[k]
    BY DEF Sums
  <2>5. y % A = 0
    BY <2>3, <2>4, MulMod
  <2>6. f % A = 0
    BY <1>3
  <2>7. (f + y) % A = 0
    BY <2>5, <2>6, AddMultiples
  <2> QED
    BY <2>4, <2>7
<1>9. ASSUME NEW k \in 0 .. n, NEW l \in 0 .. n, k < l
      PROVE  G[k] < G[l]
  <2>1. PICK x \in Nat, y \in Nat : x = g[k] /\ y = g[l]
    <3>1. k \in Nat /\ l \in Nat
      OBVIOUS
    <3> QED
      BY <3>1 DEF Sums
  <2>2. x < y
    BY <1>2, <1>9, <2>1 DEF Grants
  <2>3. x * b < y * b
    BY <2>2, MulStrict
  <2> QED
    BY <1>5, <2>1, <2>3
<1>10. InBytes(g, m, f, z, G)
  BY <1>1, <1>3, <1>5, <1>6, <1>7, <1>8, <1>9 DEF InBytes
<1> QED
  BY <1>10

\* The end of a partition in place, when its turn is not the last: rounding up
\* changes nothing.
LEMMA TurnEnd ==
  ASSUME Basic, pc = "place", NEW j \in DOMAIN request,
         NEW v \in Nat, v = past(list[j]), v % PARTITION_ALIGN = 0,
         v + PARTITION_ALIGN <= device.range
  PROVE  endOffset(j) = v
<1>1. TypeOK /\ list \in [DOMAIN request -> DOMAIN request]
  BY DEF Basic, Ordered
<1>2. /\ endOffset(j) \in Nat /\ v <= endOffset(j)
      /\ \A x \in Nat : v <= x /\ x % PARTITION_ALIGN = 0 => endOffset(j) <= x
  BY <1>1, EndOffset
<1> QED
  BY <1>2

\* While some partition waits for its turn, the only gap is behind the last one in
\* place, and it is large enough.
LEMMA TurnGap ==
  ASSUME Basic, Percentages, Placing, NEW g \in Sums, NEW m \in Nat, m <= Len(request),
         TurnState(g, m), NEW f \in Nat \ {0}, NEW z \in Nat, NEW G \in Sums,
         InBytes(g, m, f, z, G)
  PROVE  /\ m < Len(request) /\ list[1] = m + 1
         /\ m = 0 <=> Positioned = {}
         /\ m # 0 => /\ Len(request) \in Positioned /\ Fits(Len(request))
                     /\ \A j \in Positioned : Fits(j) => endOffset(j) = f + G[m]
<1>1. PICK n \in Nat : n = Len(request) /\ n >= 1 /\ DOMAIN request = 1 .. n
  BY DEF Basic, TypeOK
<1>2. /\ TypeOK /\ pc = "place" /\ list \in [1 .. n -> 1 .. n]
      /\ table[list[1]].offset = 0 /\ DOMAIN list = 1 .. n
  BY <1>1 DEF Basic, Ordered, Placing
<1>3. /\ m < n => list[1] = m + 1
      /\ m = n => list[1] <= m
      /\ m >= 1 => list[n] = m
      /\ \A j \in 1 .. n : list[j] < m => j + 1 \in 1 .. n /\ list[j + 1] = list[j] + 1
      /\ \A j \in 1 .. n : list[j] = m => j = n
  BY <1>1, <1>2, ListByTurn DEF TurnState
<1>4. m \in Nat /\ m <= n
  BY <1>1
<1>5. \A k \in 1 .. n : table[k].offset # 0 <=> k <= m
  <2> SUFFICES ASSUME NEW k \in 1 .. n
               PROVE  table[k].offset # 0 <=> k <= m
    OBVIOUS
  <2>1. k - 1 \in Nat
    OBVIOUS
  <2>2. PICK x \in Nat : x = G[k - 1]
    BY <2>1 DEF Sums
  <2>3. f + x # 0
    OBVIOUS
  <2> QED
    BY <1>1, <2>2, <2>3 DEF InBytes
<1>6. m < n /\ list[1] = m + 1
  <2>1. list[1] \in 1 .. n
    BY <1>1, <1>2
  <2>2. ~(list[1] <= m)
    BY <1>2, <1>5, <2>1
  <2> QED
    BY <1>3, <1>4, <2>2
<1>7. \A j \in 1 .. n : j \in Positioned <=> list[j] <= m
  BY <1>2, <1>5 DEF Positioned, pr
<1>8. Positioned \subseteq 1 .. n
  BY <1>2 DEF Positioned
<1>9. CASE m = 0
  <2>1. Positioned = {}
    BY <1>2, <1>7, <1>8, <1>9
  <2> QED
    BY <1>1, <1>6, <1>9, <2>1
<1>10. CASE m # 0
  <2>1. PICK A \in Nat \ {0}, R \in Nat \ {0}, W \in Nat \ {0} :
          A = PARTITION_ALIGN /\ R = device.range /\ W = Word /\ R <= W
    <3>1. device \in Devices
      BY <1>2 DEF TypeOK
    <3>2. /\ PARTITION_ALIGN \in Nat \ {0} /\ device.range \in Nat \ {0} /\ Word \in Nat \ {0}
          /\ device.range <= Word
      BY <3>1, DeviceFacts
    <3> QED
      BY <3>2
  <2>2. ASSUME NEW j \in 1 .. n, list[j] <= m
        PROVE  endOffset(j) = f + G[list[j]]
    <3>1. PICK p \in 1 .. n : p = list[j] /\ p <= m
      BY <1>2, <2>2
    <3>2. PICK x \in Nat, y \in Nat : x = G[p - 1] /\ y = G[p]
      <4>1. p - 1 \in Nat /\ p \in Nat
        OBVIOUS
      <4> QED
        BY <4>1 DEF Sums
    <3>3. past(p) = f + y
      <4>1. table[p].offset = f + x /\ table[p].size = y - x
        BY <1>1, <3>1, <3>2 DEF InBytes
      <4> QED
        BY <4>1 DEF past
    <3>4. (f + y) % A = 0
      <4>1. p \in 0 .. n - 1
        BY <1>4, <1>6, <3>1
      <4> QED
        BY <1>1, <2>1, <3>2, <4>1 DEF InBytes
    <3>5. f + y + A <= R
      <4>1. y <= z /\ f + z + A < R
        BY <1>1, <2>1, <3>2 DEF InBytes
      <4> QED
        BY <4>1
    <3>6. PICK v \in Nat : v = f + y
      OBVIOUS
    <3>7. endOffset(j) = v
      BY <1>1, <1>2, <2>1, <3>1, <3>3, <3>4, <3>5, <3>6, TurnEnd
    <3> QED
      BY <3>1, <3>2, <3>6, <3>7
  <2>3. PICK x \in Nat, y \in Nat : x = G[m] /\ y = G[m + 1] /\ x < y /\ y <= z /\ pz.size = y - x
    <3>1. m \in 0 .. n /\ m + 1 \in 0 .. n /\ m + 1 \in 1 .. n /\ m + 1 \in Nat /\ m < m + 1
      BY <1>4, <1>6
    <3>2. (m + 1) - 1 = m
      BY <1>4
    <3>3. G[m] < G[m + 1] /\ G[m + 1] <= z /\ table[m + 1].size = G[m + 1] - G[m]
      BY <1>1, <3>1, <3>2 DEF InBytes
    <3>4. G[m] \in Nat /\ G[m + 1] \in Nat
      BY <1>4, <3>1 DEF Sums
    <3> QED
      BY <1>6, <3>3, <3>4 DEF pz
  <2>4. n \in Positioned /\ list[n] = m
    BY <1>1, <1>3, <1>4, <1>7, <1>10
  <2>5. Fits(n)
    <3>1. endOffset(n) = f + x
      BY <1>1, <2>2, <2>3, <2>4
    <3>2. maxOffset \in Nat /\ maxOffset + 1 = f + z
      BY <1>2, ArgumentTypes DEF TypeOK, InBytes
    <3>3. PICK d \in Nat : d = z - x /\ d < W
      <4>1. f + z + A < R
        BY <2>1 DEF InBytes
      <4>2. R <= W /\ x <= z
        BY <2>1, <2>3
      <4>3. z - x \in Nat /\ z - x < W
        BY <4>1, <4>2
      <4> QED
        BY <4>3
    <3>4. maxOffset + 1 - (f + x) = d
      BY <3>2, <3>3
    <3>5. d % W = d
      BY <3>3, ModSmall
    <3>6. n + 1 \notin DOMAIN list
      BY <1>2
    <3>7. avail(n) = d
      BY <2>1, <3>1, <3>4, <3>5, <3>6 DEF avail
    <3> QED
      BY <2>3, <3>3, <3>7 DEF Fits
  <2>6. ASSUME NEW j \in Positioned, Fits(j)
        PROVE  endOffset(j) = f + x
    <3>1. j \in 1 .. n /\ list[j] <= m
      BY <1>7, <1>8
    <3>2. CASE list[j] = m
      BY <2>2, <2>3, <3>1, <3>2
    <3>3. CASE list[j] # m
      <4>1. PICK p \in 1 .. n : p = list[j] /\ p < m
        BY <1>2, <1>4, <3>1, <3>3
      <4>2. j + 1 \in 1 .. n /\ list[j + 1] = p + 1
        BY <1>3, <3>1, <4>1
      <4>3. PICK u \in Nat : u = G[p]
        BY DEF Sums
      <4>4. endOffset(j) = f + u
        BY <2>2, <3>1, <4>1, <4>3
      <4>5. pr(j + 1).offset = f + u
        <5>1. p + 1 \in 1 .. n /\ p + 1 <= m /\ (p + 1) - 1 = p
          BY <1>4, <4>1
        <5>2. table[p + 1].offset = f + G[p]
          BY <1>1, <5>1 DEF InBytes
        <5> QED
          BY <4>2, <4>3, <5>2 DEF pr
      <4>6. (f + u) - (f + u) = 0 /\ 0 % R = 0
        BY ModSmall
      <4>7. avail(j) = 0
        BY <1>2, <2>1, <4>2, <4>4, <4>5, <4>6 DEF avail
      <4> QED
        BY <2>3, <2>6, <4>7 DEF Fits
    <3> QED
      BY <3>2, <3>3
  <2> QED
    BY <1>1, <1>6, <1>10, <2>3, <2>4, <2>5, <2>6
<1> QED
  BY <1>9, <1>10

\* Sorting after partition m + 1 is placed moves it behind those in place.
LEMMA PlaceTurn ==
  ASSUME Basic, Percentages, Placing, NEW g \in Sums, NEW m \in Nat, m <= Len(request),
         TurnState(g, m), NEW f \in Nat \ {0}, NEW z \in Nat, NEW G \in Sums,
         InBytes(g, m, f, z, G), NEW offset \in Size, offset = f + G[m], Place(offset)
  PROVE  m + 1 <= Len(request) /\ TurnState(g, m + 1)'
<1>1. PICK n \in Nat : n = Len(request) /\ n >= 1 /\ DOMAIN request = 1 .. n
  BY DEF Basic, TypeOK
<1>2. m < n /\ list[1] = m + 1
  BY <1>1, TurnGap
<1>3. /\ table'[m + 1] = [offset |-> offset, size |-> table[m + 1].size]
      /\ \A p \in 1 .. n : p # m + 1 => table'[p] = table[p]
      /\ \A p \in 1 .. n : table'[p].size = table[p].size
      /\ UNCHANGED <<device, request, pc>>
      /\ pc = "place" /\ table' \in [1 .. n -> Part]
  BY <1>1, <1>2, PlaceFacts
<1>4. Grants(g, n)'
  BY <1>1, <1>3, SameGrants DEF TurnState
<1>5. \A k \in 1 .. n : table'[k].offset = IF k <= m + 1 THEN f + G[k - 1] ELSE 0
  <2> SUFFICES ASSUME NEW k \in 1 .. n
               PROVE  table'[k].offset = IF k <= m + 1 THEN f + G[k - 1] ELSE 0
    OBVIOUS
  <2>1. CASE k = m + 1
    BY <1>3, <2>1
  <2>2. CASE k # m + 1
    <3>1. table'[k].offset = IF k <= m THEN f + G[k - 1] ELSE 0
      BY <1>1, <1>3, <2>2 DEF InBytes
    <3>2. k <= m <=> k <= m + 1
      BY <2>2
    <3> QED
      BY <3>1, <3>2
  <2> QED
    BY <2>1, <2>2
<1>6. \A k \in 1 .. n : table'[k].offset =
        IF k <= m + 1 THEN firstAvailableBlock' * blockSize + g[k - 1] * blockSize ELSE 0
  <2> SUFFICES ASSUME NEW k \in 1 .. n, k <= m + 1
               PROVE  f + G[k - 1] = firstAvailableBlock' * blockSize + g[k - 1] * blockSize
    BY <1>5
  <2>1. k - 1 \in Nat
    OBVIOUS
  <2>2. firstAvailableBlock' = firstAvailableBlock
    BY <1>3, DeviceOnly
  <2> QED
    BY <2>1, <2>2 DEF InBytes
<1>7. PICK t : t = table'
  OBVIOUS
<1>8. \A k \in 1 .. n : t[k].offset \in Nat /\ (k <= m + 1 <=> t[k].offset # 0)
  <2> SUFFICES ASSUME NEW k \in 1 .. n
               PROVE  t[k].offset \in Nat /\ (k <= m + 1 <=> t[k].offset # 0)
    OBVIOUS
  <2>1. k - 1 \in Nat
    OBVIOUS
  <2>2. PICK x \in Nat : x = G[k - 1]
    BY <2>1 DEF Sums
  <2>3. t[k].offset = IF k <= m + 1 THEN f + x ELSE 0
    BY <1>5, <1>7, <2>2
  <2> QED
    BY <2>3
<1>9. PICK l :
        /\ l = list /\ l \in [1 .. n -> 1 .. n]
        /\ \A a, b \in 1 .. n : a < b => l[a] # l[b] /\ Turn(m, l[a]) < Turn(m, l[b])
  <2>1. list \in [1 .. n -> 1 .. n] /\ \A a, b \in 1 .. n : a < b => list[a] # list[b]
    BY <1>1, <1>3 DEF Basic, Ordered
  <2>2. \A a, b \in 1 .. n : a < b => Turn(m, list[a]) < Turn(m, list[b])
    BY <1>1 DEF TurnState
  <2> QED
    BY <2>1, <2>2
<1>10. PICK s : s \in Sorted(l, t) /\ s = list'
  BY <1>7, <1>9 DEF Place
<1>11. /\ s \in [1 .. n -> 1 .. n]
       /\ \A a, b \in 1 .. n : a < b =>
            /\ s[a] # s[b]
            /\ t[s[a]].offset < t[s[b]].offset \/ Before(l, s[a], s[b])
            /\ t[s[a]].offset <= t[s[b]].offset
  <2>1. DOMAIN t = 1 .. n /\ 1 .. n \in SUBSET Nat
    BY <1>3, <1>7
  <2>2. PICK D \in SUBSET Nat : D = 1 .. n
    BY <2>1
  <2>3. /\ l \in [D -> D] /\ DOMAIN t = D /\ \A p \in D : t[p].offset \in Nat
        /\ \A a, b \in D : a < b => l[a] # l[b]
    BY <1>8, <1>9, <2>1, <2>2
  <2>4. PICK k \in [D -> D] : k = l
    BY <2>3
  <2>5. PICK r \in Sorted(k, t) : r = s
    BY <1>10, <2>4
  <2>6. \A a, b \in D : a < b => k[a] # k[b]
    BY <2>3, <2>4
  <2>7. DOMAIN t = D /\ \A p \in D : t[p].offset \in Nat
    BY <2>3
  <2>8. /\ r \in [D -> D]
        /\ \A a, b \in D : a < b =>
             /\ r[a] # r[b]
             /\ t[r[a]].offset < t[r[b]].offset \/ Before(k, r[a], r[b])
             /\ t[r[a]].offset <= t[r[b]].offset
    BY <2>6, <2>7, SortedFacts
  <2> QED
    BY <2>2, <2>4, <2>5, <2>8
<1>12. ASSUME NEW a \in 1 .. n, NEW b \in 1 .. n, a < b
       PROVE  Turn(m + 1, s[a])' < Turn(m + 1, s[b])'
  <2>1. PICK p \in 1 .. n, q \in 1 .. n :
          /\ p = s[a] /\ q = s[b] /\ p # q
          /\ t[p].offset < t[q].offset \/ Before(l, p, q)
          /\ t[p].offset <= t[q].offset
    BY <1>11, <1>12
  <2>2. Len(request)' = n
    BY <1>1, <1>3
  <2>3. ASSUME p <= m + 1, q <= m + 1
        PROVE  p < q
    <3>1. PICK x \in Nat, y \in Nat : x = G[p - 1] /\ y = G[q - 1]
      <4>1. p - 1 \in Nat /\ q - 1 \in Nat
        OBVIOUS
      <4> QED
        BY <4>1 DEF Sums
    <3>2. t[p].offset = f + x /\ t[q].offset = f + y
      BY <1>5, <1>7, <2>3, <3>1
    <3>3. x <= y
      BY <2>1, <3>2
    <3>4. q < p => y < x
      <4>1. p - 1 \in 0 .. n /\ q - 1 \in 0 .. n /\ (q < p => q - 1 < p - 1)
        OBVIOUS
      <4> QED
        BY <1>1, <3>1, <4>1 DEF InBytes
    <3> QED
      BY <2>1, <3>3, <3>4
  <2>4. p <= m + 1 => q <= m + 1
    <3>1. t[p].offset \in Nat /\ t[q].offset \in Nat
      BY <1>8
    <3>2. PICK x \in Nat, y \in Nat : x = t[p].offset /\ y = t[q].offset /\ x <= y
      BY <2>1, <3>1
    <3>3. x # 0 => y # 0
      BY <3>2
    <3> QED
      BY <1>8, <3>2, <3>3
  <2>5. ASSUME ~(p <= m + 1), ~(q <= m + 1)
        PROVE  p < q
    <3>1. t[p].offset = 0 /\ t[q].offset = 0
      BY <1>8, <2>5
    <3>2. Before(l, p, q)
      <4>1. ~(t[p].offset < t[q].offset)
        BY <3>1
      <4> QED
        BY <2>1, <4>1
    <3>3. PICK x \in 1 .. n, y \in 1 .. n : x < y /\ l[x] = p /\ l[y] = q
      BY <1>9, <3>2 DEF Before
    <3>4. Turn(m, p) < Turn(m, q)
      BY <1>9, <3>3
    <3>5. ~(p <= m) /\ ~(q <= m)
      BY <2>5
    <3>6. Turn(m, p) = p /\ Turn(m, q) = q
      BY <3>5 DEF Turn
    <3> QED
      BY <3>4, <3>6
  <2>6. PICK x \in Nat, y \in Nat : /\ x = IF p <= m + 1 THEN n + p ELSE p
                                    /\ y = IF q <= m + 1 THEN n + q ELSE q
    OBVIOUS
  <2>7. x < y
    BY <2>3, <2>4, <2>5, <2>6
  <2> QED
    BY <2>1, <2>2, <2>6, <2>7 DEF Turn
<1>13. TurnState(g, m + 1)'
  <2>1. Len(request)' = n
    BY <1>1, <1>3
  <2> QED
    BY <1>4, <1>6, <1>10, <1>12, <2>1 DEF TurnState
<1> QED
  BY <1>1, <1>2, <1>13

\* Placing keeps the order of turns.
LEMMA PlaceInTurn ==
  ASSUME Basic, InTurn, PlaceFirst \/ PlaceInGap
  PROVE  InTurn'
<1>1. Placing /\ pc = "place" /\ TypeOK
  BY DEF PlaceFirst, PlaceInGap, Placing, Basic
<1>2. UNCHANGED <<device, request>>
  BY DEF PlaceFirst, PlaceInGap, Place
<1> SUFFICES ASSUME Percentages', NoneEmpty'
             PROVE  \E g \in Sums, m \in Nat : m <= Len(request)' /\ TurnState(g, m)'
  BY DEF InTurn
<1>3. Percentages
  BY <1>2, SamePercentages
<1>4. PICK offset \in Size :
        /\ Place(offset)
        /\ PlaceFirst => offset = minOffset
        /\ PlaceInGap => \E j \in Positioned : Fits(j) /\ offset = endOffset(j)
  <2>1. CASE PlaceFirst
    <3>1. minOffset \in Size
      BY <1>1, ArgumentTypes DEF TypeOK
    <3>2. ~PlaceInGap
      BY <2>1 DEF PlaceFirst, PlaceInGap
    <3> QED
      BY <2>1, <3>1, <3>2 DEF PlaceFirst
  <2>2. CASE PlaceInGap
    <3>1. PICK j \in Positioned : Fits(j) /\ Place(endOffset(j))
      BY <2>2 DEF PlaceInGap
    <3>2. list \in [DOMAIN request -> DOMAIN request] /\ j \in DOMAIN request
      BY <1>1, <3>1 DEF Basic, Ordered, Positioned
    <3>3. endOffset(j) \in Size
      BY <1>1, <3>2, EndOffsetType
    <3>4. ~PlaceFirst
      BY <3>1 DEF PlaceFirst
    <3> QED
      BY <3>1, <3>3, <3>4
  <2> QED
    BY <2>1, <2>2
<1>5. NoneEmpty
  <2>1. DOMAIN table = DOMAIN request /\ DOMAIN table' = DOMAIN request
        /\ \A p \in DOMAIN request : table'[p].size = table[p].size
    BY <1>1, <1>4, PlaceFacts DEF TypeOK
  <2> QED
    BY <2>1 DEF NoneEmpty
<1>6. PICK g \in Sums, m \in Nat : m <= Len(request) /\ TurnState(g, m)
  BY <1>1, <1>3, <1>5 DEF InTurn
<1>7. PICK f \in Nat \ {0}, z \in Nat, G \in Sums : InBytes(g, m, f, z, G)
  BY <1>3, <1>6, TurnPositions
<1>8. /\ m = 0 <=> Positioned = {}
      /\ m # 0 => \A j \in Positioned : Fits(j) => endOffset(j) = f + G[m]
  BY <1>1, <1>3, <1>6, <1>7, TurnGap
<1>9. offset = f + G[m]
  <2>1. CASE PlaceFirst
    <3>1. m = 0
      BY <1>8, <2>1 DEF PlaceFirst
    <3>2. offset = f /\ G[0] = 0
      BY <1>4, <1>7, <2>1 DEF InBytes
    <3> QED
      BY <3>1, <3>2
  <2>2. CASE PlaceInGap
    BY <1>4, <1>8, <2>2
  <2> QED
    BY <2>1, <2>2
<1>10. m + 1 <= Len(request) /\ TurnState(g, m + 1)'
  BY <1>1, <1>3, <1>4, <1>6, <1>7, <1>9, PlaceTurn
<1>11. m + 1 \in Nat
  OBVIOUS
<1>12. PICK mm \in Nat : mm = m + 1
  BY <1>11
<1>13. mm <= Len(request)' /\ TurnState(g, mm)'
  BY <1>2, <1>10, <1>12
<1> QED
  BY <1>13

\* When sizes are known no partition has a position, and sorting changes nothing.
LEMMA SortListInTurn ==
  ASSUME Basic, Granted, SortList
  PROVE  InTurn'
<1>1. /\ TypeOK /\ pc = "size" /\ i \notin DOMAIN table
      /\ UNCHANGED <<device, request, table>>
      /\ list' \in Sorted([k \in DOMAIN table |-> k], table)
  BY DEF Basic, SortList, Sized
<1>2. PICK n \in Nat : n = Len(request) /\ n >= 1 /\ DOMAIN request = 1 .. n /\ DOMAIN table = 1 .. n
  BY <1>1 DEF TypeOK
<1> SUFFICES ASSUME Percentages', NoneEmpty'
             PROVE  \E g \in Sums, m \in Nat : m <= Len(request)' /\ TurnState(g, m)'
  BY DEF InTurn
<1>3. Percentages /\ Len(request)' = n
  BY <1>1, <1>2, SamePercentages
<1>4. i = n + 1
  BY <1>1, <1>2 DEF TypeOK
<1>5. \A k \in 1 .. i - 1 : table[k].size # 0
  BY <1>1, <1>2, <1>4 DEF NoneEmpty
<1>6. PICK g \in Sums : Grants(g, n)
  <2>1. PICK g \in Sums, x \in Nat : x + 1 = i /\ Grants(g, x)
    BY <1>1, <1>3, <1>5 DEF Granted
  <2>2. x = n
    BY <1>4, <2>1
  <2> QED
    BY <2>1, <2>2
<1>7. Grants(g, n)'
  BY <1>1, <1>6, SameGrants
<1>8. \A k \in 1 .. n : table[k].offset = 0
  BY <1>1, <1>2, <1>3 DEF Basic, Keeps, Percentages, Chosen
<1>9. PICK l : l = [k \in 1 .. n |-> k]
  OBVIOUS
<1>10. PICK s : s = list' /\ s \in [1 .. n -> 1 .. n] /\ s \in Sorted(l, table) /\ DOMAIN l = 1 .. n
  <2>1. DOMAIN l = 1 .. n /\ list' \in Sorted(l, table)
    BY <1>1, <1>2, <1>9
  <2>2. list' \in [1 .. n -> 1 .. n]
    BY <1>2, <2>1 DEF Sorted
  <2> QED
    BY <2>1, <2>2
<1>11. ASSUME NEW a \in 1 .. n, NEW b \in 1 .. n, a < b
       PROVE  Turn(0, s[a])' < Turn(0, s[b])'
  <2>1. PICK p \in 1 .. n, q \in 1 .. n : p = s[a] /\ q = s[b]
    BY <1>10
  <2>2. \/ table[p].offset < table[q].offset
        \/ table[p].offset = table[q].offset /\ Before(l, p, q)
    BY <1>10, <1>11, <2>1 DEF Sorted
  <2>3. Before(l, p, q)
    <3>1. table[p].offset = 0 /\ table[q].offset = 0
      BY <1>8
    <3>2. ~(table[p].offset < table[q].offset)
      BY <3>1
    <3> QED
      BY <2>2, <3>2
  <2>4. p < q
    <3>1. PICK x \in 1 .. n, y \in 1 .. n : x < y /\ l[x] = p /\ l[y] = q
      BY <1>10, <2>3 DEF Before
    <3> QED
      BY <1>9, <3>1
  <2>5. ~(p <= 0) /\ ~(q <= 0)
    OBVIOUS
  <2> QED
    BY <2>1, <2>4, <2>5 DEF Turn
<1>12. \A k \in 1 .. n : ~(k <= 0)
  OBVIOUS
<1>13. TurnState(g, 0)'
  <2>1. \A k \in 1 .. n : table'[k].offset =
          IF k <= 0 THEN firstAvailableBlock' * blockSize + g[k - 1] * blockSize ELSE 0
    BY <1>1, <1>8, <1>12
  <2> QED
    BY <1>3, <1>7, <1>10, <1>11, <2>1 DEF TurnState
<1>14. 0 \in Nat /\ 0 <= n
  OBVIOUS
<1> QED
  BY <1>3, <1>13, <1>14

\* The last partition ends inside the space.
LEMMA EndAsserts ==
  ASSUME Basic, InTurn, AssertHolds, End
  PROVE  AssertHolds'
<1>1. /\ TypeOK /\ pc = "place" /\ table[list[1]].offset # 0
      /\ UNCHANGED <<device, request, table>>
  BY DEF Basic, End
<1>2. PICK n \in Nat : n = Len(request) /\ n >= 1 /\ DOMAIN request = 1 .. n
  BY <1>1 DEF TypeOK
<1> SUFFICES ASSUME Percentages', NoneEmpty'
             PROVE  result' # "assert"
  BY DEF AssertHolds
<1>3. Percentages /\ NoneEmpty
  BY <1>1, SamePercentages DEF NoneEmpty
<1>4. PICK g \in Sums, m \in Nat : m <= n /\ TurnState(g, m)
  BY <1>1, <1>2, <1>3 DEF InTurn
<1>5. PICK f \in Nat \ {0}, z \in Nat, G \in Sums : InBytes(g, m, f, z, G)
  BY <1>2, <1>3, <1>4, TurnPositions
<1>6. /\ m < n => list[1] = m + 1
      /\ m >= 1 => list[n] = m
  BY <1>1, <1>2, <1>4, ListByTurn DEF TurnState
<1>7. m = n
  <2>1. m < n => table[m + 1].offset = 0
    <3>1. m < n => m + 1 \in 1 .. n /\ ~(m + 1 <= m)
      OBVIOUS
    <3> QED
      BY <1>2, <1>5, <3>1 DEF InBytes
  <2> QED
    BY <1>1, <1>4, <1>6, <2>1
<1>8. list[n] = n
  BY <1>2, <1>6, <1>7
<1>9. PICK x \in Nat, y \in Nat :
        /\ x = G[n - 1] /\ y = G[n] /\ y <= z
        /\ table[n].offset = f + x /\ table[n].size = y - x
  <2>1. n \in Nat /\ n - 1 \in Nat /\ n \in 1 .. n /\ n <= m
    BY <1>2, <1>7
  <2>2. G[n - 1] \in Nat /\ G[n] \in Nat
    BY <2>1 DEF Sums
  <2>3. /\ G[n] <= z /\ table[n].size = G[n] - G[n - 1]
        /\ table[n].offset = f + G[n - 1]
    BY <1>2, <1>5, <2>1 DEF InBytes
  <2> QED
    BY <2>2, <2>3
<1>10. PICK A \in Nat \ {0}, R \in Nat \ {0}, M \in Nat :
         A = PARTITION_ALIGN /\ R = device.range /\ M = maxOffset
  <2>1. device \in Devices
    BY <1>1 DEF TypeOK
  <2>2. PARTITION_ALIGN \in Nat \ {0} /\ device.range \in Nat \ {0} /\ maxOffset \in Nat
    BY <2>1, DeviceFacts, ArgumentTypes
  <2> QED
    BY <2>2
<1>11. f + z = M + 1 /\ f + z + A < R
  BY <1>5, <1>10 DEF InBytes
<1>12. PICK v \in Nat : v = (f + x) + (y - x) - 1 /\ v <= M /\ v < R
  BY <1>9, <1>11
<1>13. v % R = v
  BY <1>12, ModSmall
<1>14. Len(list) = n
  BY <1>1, <1>2 DEF Basic, Ordered
<1>15. (pr(Len(list)).offset + pr(Len(list)).size - 1) % device.range <= maxOffset
  BY <1>8, <1>9, <1>10, <1>12, <1>13, <1>14 DEF pr
<1>16. result' = "Success"
  BY <1>15 DEF End, Finish
<1> QED
  BY <1>16

(***************************************************************************)
(* The invariant is inductive                                              *)
(***************************************************************************)

FitInv == Basic /\ Unsized /\ Granted /\ InTurn /\ AssertHolds

LEMMA InitFit == Init => FitInv
<1> SUFFICES ASSUME Init
             PROVE  FitInv
  OBVIOUS
<1>1. Basic
  BY InitBasic
<1>2. Unsized /\ InTurn /\ AssertHolds
  BY DEF Init, Unsized, InTurn, AssertHolds
<1>3. Granted
  <2>1. totalAvailableBlocks \in Nat /\ blockAlign \in Nat \ {0}
    BY <1>1, ArgumentTypes, BlockAlign DEF Basic, TypeOK
  <2>2. PICK g \in Sums : g = [k \in Nat |-> 0]
    BY DEF Sums
  <2>3. g[0] = 0 /\ 0 % blockAlign = 0 /\ 0 <= totalAvailableBlocks
    BY <2>1, <2>2, ModSmall
  <2>4. Grants(g, 0)
    BY <2>3 DEF Grants
  <2>5. i = 1 /\ totalBlocks = 0
    BY DEF Init
  <2>6. 0 + 1 = i /\ totalBlocks = g[0] /\ 0 \in Nat
    BY <2>3, <2>5
  <2> QED
    BY <2>4, <2>6 DEF Granted
<1> QED
  BY <1>1, <1>2, <1>3 DEF FitInv

\* Percentages are never sizes in bytes.
LEMMA NoneExplicit ==
  ASSUME Basic, Unsized, SizeExplicit
  PROVE  ~Percentages
<1>1. pc = "size" /\ i \in DOMAIN request /\ ~(table[i].size <= 100) /\ i \in Nat
  BY DEF Basic, TypeOK, SizeExplicit, Sizing, Percentage
<1>2. table[i].size = request[i].size
  BY <1>1 DEF Unsized
<1> QED
  BY <1>1, <1>2 DEF Percentages

LEMMA NextFit ==
  ASSUME FitInv, [Next]_vars
  PROVE  FitInv'
<1>1. Basic /\ Unsized /\ Granted /\ InTurn /\ AssertHolds /\ TypeOK
  BY DEF FitInv, Basic
<1>2. Basic'
  BY <1>1, NextBasic
<1>3. CASE UNCHANGED vars
  <2>1. UNCHANGED <<device, request, table, pc, i, totalBlocks, list, result>>
    BY <1>3 DEF vars
  <2>2. /\ Percentages' = Percentages /\ NoneEmpty' = NoneEmpty
        /\ firstAvailableBlock' = firstAvailableBlock
    BY <2>1, SamePercentages, DeviceOnly DEF NoneEmpty
  <2>3. \A g, n : Grants(g, n)' = Grants(g, n)
    BY <2>1, SameGrants
  <2>4. \A g, m : TurnState(g, m)' = TurnState(g, m)
    BY <2>1, <2>2, <2>3 DEF TurnState, Turn
  <2>5. Unsized' /\ AssertHolds'
    BY <1>1, <2>1, <2>2 DEF Unsized, AssertHolds
  <2>6. Granted'
    BY <1>1, <2>1, <2>2, <2>3 DEF Granted
  <2>7. InTurn'
    BY <1>1, <2>1, <2>2, <2>4 DEF InTurn
  <2> QED
    BY <1>2, <2>5, <2>6, <2>7 DEF FitInv
<1>4. CASE SizePercentage \/ SizeExplicit
  <2>1. pc = "size" /\ pc' \in {"size", "done"} /\ UNCHANGED <<device, request>>
        /\ i \in DOMAIN request /\ (i' = i + 1 \/ pc' = "done")
    BY <1>1, <1>4 DEF SizePercentage, SizeExplicit, Sizing, NextPart, Finish, TypeOK
  <2>2. Unsized'
    <3> SUFFICES ASSUME pc' = "size", NEW k \in DOMAIN request, k >= i'
                 PROVE  table'[k].size = request[k].size
      BY <2>1 DEF Unsized
    <3>1. k \in Nat /\ i \in Nat /\ i' = i + 1
      BY <1>1, <2>1 DEF TypeOK
    <3>2. k # i /\ k >= i
      BY <3>1
    <3>3. table'[k] = table[k]
      BY <1>1, <1>4, <3>2 DEF SizePercentage, SizeExplicit, TypeOK
    <3> QED
      BY <1>1, <2>1, <3>2, <3>3 DEF Unsized
  <2>3. Granted'
    <3>1. CASE SizePercentage
      BY <1>1, <3>1, SizePercentageGranted
    <3>2. CASE SizeExplicit
      BY <1>1, <2>1, <3>2, NoneExplicit, SamePercentages DEF Granted
    <3> QED
      BY <1>4, <3>1, <3>2
  <2>4. InTurn'
    BY <2>1 DEF InTurn
  <2>5. result = "none"
    BY <1>1, <2>1 DEF Basic, Ended
  <2>6. AssertHolds'
    BY <1>4, <2>5 DEF AssertHolds, SizePercentage, SizeExplicit, NextPart, Finish
  <2> QED
    BY <1>2, <2>2, <2>3, <2>4, <2>6 DEF FitInv
<1>5. CASE NoBlocksLeft \/ MisAligned \/ ExceedsSpace \/ NoGap \/ End
  <2>1. pc' = "done"
    BY <1>5 DEF NoBlocksLeft, MisAligned, ExceedsSpace, NoGap, End, Finish
  <2>2. Unsized' /\ Granted' /\ InTurn'
    BY <2>1 DEF Unsized, Granted, InTurn
  <2>3. AssertHolds'
    <3>1. CASE End
      BY <1>1, <3>1, EndAsserts
    <3>2. CASE ~End
      BY <1>5, <3>2 DEF NoBlocksLeft, MisAligned, ExceedsSpace, NoGap, Finish, AssertHolds
    <3> QED
      BY <3>1, <3>2
  <2> QED
    BY <1>2, <2>2, <2>3 DEF FitInv
<1>6. CASE SortList \/ PlaceFirst \/ PlaceInGap
  <2>1. pc # "done" /\ pc' = "place" /\ UNCHANGED result
    BY <1>6 DEF SortList, Sized, PlaceFirst, PlaceInGap, Placing, Place
  <2>2. Unsized' /\ Granted'
    BY <2>1 DEF Unsized, Granted
  <2>3. AssertHolds'
    BY <1>1, <2>1 DEF AssertHolds, Basic, Ended
  <2>4. InTurn'
    BY <1>1, <1>6, SortListInTurn, PlaceInTurn
  <2> QED
    BY <1>2, <2>2, <2>3, <2>4 DEF FitInv
<1> QED
  BY <1>3, <1>4, <1>5, <1>6 DEF Next

\* The invariant says where the gap is that PercentagesFit asks for.
LEMMA FitImplies ==
  ASSUME FitInv
  PROVE  PercentagesFit
<1> SUFFICES ASSUME Percentages, NoneEmpty
             PROVE  /\ result # "assert"
                    /\ Placing => Positioned = {} \/ \E j \in Positioned : Fits(j)
  BY DEF PercentagesFit, Percentages
<1>1. result # "assert"
  BY DEF FitInv, AssertHolds
<1>2. ASSUME Placing
      PROVE  Positioned = {} \/ \E j \in Positioned : Fits(j)
  <2>1. Basic /\ pc = "place"
    BY <1>2 DEF FitInv, Placing
  <2>2. PICK g \in Sums, m \in Nat : m <= Len(request) /\ TurnState(g, m)
    BY <2>1 DEF FitInv, InTurn
  <2>3. PICK f \in Nat \ {0}, z \in Nat, G \in Sums : InBytes(g, m, f, z, G)
    BY <2>1, <2>2, TurnPositions
  <2> QED
    BY <1>2, <2>1, <2>2, <2>3, TurnGap
<1> QED
  BY <1>1, <1>2

\* A table of percentages whose positions are left to validate can be laid out, if none
\* is rounded to nothing (NoneEmpty) and the device is Roomy: when the sizing loop has
\* accepted it, every search finds a gap behind the partitions in place, and the last
\* partition passes the assertion.
THEOREM PercentagesAlwaysFit == Spec => []PercentagesFit
BY InitFit, NextFit, FitImplies, PTL DEF Spec

==============================================================================
