---------------------------- MODULE LayoutProofs ----------------------------
(***************************************************************************)
(* Proofs about Layout, for every alignment, sector size and width of a    *)
(* word, every device and every table of partitions.                       *)
(***************************************************************************)
EXTENDS Layout, FiniteSetTheorems, TLAPS

(***************************************************************************)
(* The inductive invariant                                                 *)
(***************************************************************************)

\* What the application chose is in the table, and until the sizes are known
\* validate has chosen no position itself.
Keeps ==
  \A p \in DOMAIN request :
    /\ (request[p].offset # 0 \/ pc = "size") => table[p].offset = request[p].offset
    /\ request[p].size > 100 => table[p].size = request[p].size

\* The list that sortList leaves names every partition once, by offset.
Ordered ==
  pc = "place" =>
    /\ list \in [DOMAIN request -> DOMAIN request]
    /\ \A a, b \in DOMAIN request : a < b =>
         list[a] # list[b] /\ pr(a).offset <= pr(b).offset

\* There is a result only at the end.
Ended == result # "none" => pc = "done"

\* What SuccessIsSound assumes of the device, the build and the application.
Accepted == Roomy /\ NoWrap /\ ChosenWell /\ NoneEmpty /\ NoneTooLarge

\* The partitions that have a position, and how far they can reach: to the end of
\* the space if gaps never wrap, and otherwise one space further with each.
Taken == {p \in DOMAIN table : table[p].offset # 0}
Whole == maxOffset + 1 = LastBlock * blockSize /\ (LastBlock * blockSize) % PARTITION_ALIGN = 0
Reach ==
  IF Whole THEN LastBlock * blockSize
           ELSE Cardinality(Taken) * (LastBlock * blockSize + PARTITION_ALIGN)

\* The partitions that have a position are aligned and disjoint.  They need not be
\* inside the space: only the assertion sees to that.
Placed ==
  pc = "place" /\ Accepted =>
    /\ \A p \in Taken : /\ first(p) % PARTITION_ALIGN = 0
                        /\ firstAvailableBlock * blockSize <= first(p)
                        /\ past(p) <= Reach
    /\ Disjoint(Taken)

Inv == TypeOK /\ Keeps /\ Ordered /\ Ended /\ Placed /\ SuccessIsSound

Aligned == \A p \in DOMAIN table : first(p) % PARTITION_ALIGN = 0
SuccessIsAligned == result = "Success" /\ Accepted => Aligned

\* What module DiskStorage assumes of a table that validate has accepted, in sectors:
\* its SectorsOf, and its Space with the numbers that Format computes without wrapping.
SectorsOf(p) == first(p) \div blockSize .. (past(p) \div blockSize) - 1
firstSector ==
  IF device.scheme = "mbr" THEN blockAlign
  ELSE 2 + numPartitionTableSectors + ((0 - (2 + numPartitionTableSectors)) % blockAlign)
OnDisk ==
  result = "Success" /\ Accepted =>
    \A p \in DOMAIN table :
      /\ first(p) % blockSize = 0
      /\ SectorsOf(p) \subseteq firstSector .. LastBlock - 1
      /\ table[p].size >= blockSize => SectorsOf(p) # {}
      /\ \A q \in DOMAIN table : p # q => SectorsOf(p) \cap SectorsOf(q) = {}

(***************************************************************************)
(* Arithmetic                                                              *)
(***************************************************************************)

\* A remainder is below its modulus.
LEMMA ModRange ==
  ASSUME NEW a \in Int, NEW m \in Nat \ {0}
  PROVE  a % m \in 0 .. m - 1
OBVIOUS

\* A number below the modulus is its own remainder.
LEMMA ModSmall ==
  ASSUME NEW a \in Nat, NEW m \in Nat \ {0}, a < m
  PROVE  a % m = a
OBVIOUS

\* Multiplication is monotonic.
LEMMA MulMono ==
  ASSUME NEW a \in Nat, NEW b \in Nat, NEW c \in Nat, a <= b
  PROVE  a * c <= b * c
OBVIOUS

\* A number is a quotient and a remainder.
LEMMA DivMod ==
  ASSUME NEW a \in Nat, NEW m \in Nat \ {0}
  PROVE  a \div m \in Nat /\ a = (a \div m) * m + (a % m)
OBVIOUS

\* They are the only ones.
LEMMA DivModUnique ==
  ASSUME NEW q \in Nat, NEW r \in Nat, NEW m \in Nat \ {0}, r < m
  PROVE  (q * m + r) \div m = q /\ (q * m + r) % m = r
OBVIOUS

\* A remainder is no more than the number.
LEMMA ModBelow ==
  ASSUME NEW a \in Nat, NEW m \in Nat \ {0}
  PROVE  \E r \in Nat : r = a % m /\ r <= a /\ r < m
<1>1. a \div m \in Nat /\ a = (a \div m) * m + (a % m)
  BY DivMod
<1>2. (a \div m) * m \in Nat
  BY <1>1
<1>3. a % m \in 0 .. m - 1
  BY ModRange
<1>4. a % m \in Nat /\ a % m <= a /\ a % m < m
  BY <1>1, <1>2, <1>3
<1> QED
  BY <1>4

\* A product is a multiple.
LEMMA MulMod ==
  ASSUME NEW q \in Nat, NEW m \in Nat \ {0}
  PROVE  (q * m) % m = 0
OBVIOUS

\* A multiple is a product.
LEMMA Multiple ==
  ASSUME NEW x \in Nat, NEW m \in Nat \ {0}, x % m = 0
  PROVE  \E k \in Nat : x = k * m
<1>1. x \div m \in Nat /\ x = (x \div m) * m + (x % m)
  BY DivMod
<1>2. PICK k \in Nat : k = x \div m
  BY <1>1
<1>3. x = k * m
  BY <1>1, <1>2
<1> QED
  BY <1>3

\* Rounding up to the next multiple, where it does not wrap: the result is aligned,
\* less than an alignment above the value, and no multiple lies between.
LEMMA RoundUp ==
  ASSUME NEW v \in Nat, NEW m \in Nat \ {0}
  PROVE  \E w \in Nat : /\ w = (v + (m - 1)) - ((v + (m - 1)) % m)
                        /\ v <= w /\ w < v + m /\ w % m = 0
                        /\ \A x \in Nat : v <= x /\ x % m = 0 => w <= x
<1>1. PICK u \in Nat : u = v + (m - 1)
  OBVIOUS
<1>2. PICK q \in Nat : q = u \div m
  BY DivMod
<1>3. PICK r \in 0 .. m - 1 : r = u % m
  <2>1. u % m \in 0 .. m - 1
    BY ModRange
  <2> QED
    BY <2>1
<1>4. PICK w \in Nat : w = q * m
  OBVIOUS
<1>5. u = w + r
  <2>1. u = (u \div m) * m + (u % m)
    BY DivMod
  <2> QED
    BY <2>1, <1>2, <1>3, <1>4
<1>6. v <= w /\ w < v + m /\ w = u - (u % m)
  BY <1>1, <1>3, <1>5
<1>7. w % m = 0
  BY <1>4, MulMod
<1>8. ASSUME NEW x \in Nat, v <= x, x % m = 0
      PROVE  w <= x
  <2>1. PICK k \in Nat : x = k * m
    BY <1>8, Multiple
  <2>2. ~(k < q)
    <3>1. k < q => (k + 1) * m <= q * m
      BY MulMono
    <3>2. (k + 1) * m = k * m + m
      OBVIOUS
    <3> QED
      BY <3>1, <3>2, <2>1, <1>4, <1>6, <1>8
  <2> QED
    BY <2>1, <2>2, <1>4, MulMono
<1> QED
  BY <1>1, <1>6, <1>7, <1>8

(***************************************************************************)
(* Types                                                                   *)
(***************************************************************************)

\* The constants, and the device.
LEMMA DeviceFacts ==
  ASSUME device \in Devices
  PROVE  /\ PARTITION_ALIGN \in Nat \ {0} /\ blockSize \in Nat \ {0}
         /\ numPartitionTableSectors \in Nat
         /\ Word \in Nat \ {0} /\ Word32 \in Nat \ {0} /\ Word32 <= Word
         /\ device.range \in Nat \ {0} /\ device.range \in {Word, Word32}
         /\ device.sectors \in Nat /\ device.sectors < device.range
         /\ device.scheme \in {"gpt", "mbr"}
<1>1. Word \in Nat \ {0} /\ blockSize \in Nat \ {0} /\ Word32 \in 1 .. Word \div blockSize
  BY LayoutAssumption
<1>2. PICK q \in Nat : q = Word \div blockSize /\ Word = q * blockSize + (Word % blockSize)
  BY <1>1, DivMod
<1>3. q <= q * blockSize /\ Word % blockSize \in Nat /\ q * blockSize \in Nat
  BY <1>1
<1>4. Word32 \in Nat \ {0} /\ Word32 <= Word
  BY <1>1, <1>2, <1>3
<1> QED
  BY <1>1, <1>4, LayoutAssumption

\* Rounding up gives a storage_size_t, also where it wraps.
LEMMA AlignUpType ==
  ASSUME device \in Devices, NEW v \in Int, NEW m \in Nat \ {0}
  PROVE  align_up(v, m) \in Size
<1>1. device.range \in Nat \ {0}
  BY DeviceFacts
<1>2. PICK u \in 0 .. device.range - 1 : u = (v + (m - 1)) % device.range
  <2>1. v + (m - 1) \in Int
    OBVIOUS
  <2>2. (v + (m - 1)) % device.range \in 0 .. device.range - 1
    BY <2>1, <1>1, ModRange
  <2> QED
    BY <2>2
<1>3. PICK w \in Nat : w = u % m /\ w <= u
  <2>1. u \in Nat /\ u \in Int
    BY <1>1
  <2>2. u % m \in 0 .. m - 1
    BY <2>1, ModRange
  <2>3. u \div m \in Nat /\ u = (u \div m) * m + (u % m)
    BY <2>1, DivMod
  <2>4. (u \div m) * m \in Nat
    BY <2>3
  <2> QED
    BY <2>1, <2>2, <2>3, <2>4
<1>4. align_up(v, m) = u - w
  BY <1>2, <1>3 DEF align_up, align
<1> QED
  BY <1>1, <1>3, <1>4 DEF Size

\* blockAlign is the alignment in blocks.
LEMMA BlockAlign ==
  ASSUME device \in Devices
  PROVE  blockAlign \in Nat \ {0} /\ blockAlign * blockSize = PARTITION_ALIGN
<1>1. PARTITION_ALIGN \in Nat \ {0} /\ blockSize \in Nat \ {0} /\ PARTITION_ALIGN % blockSize = 0
  BY LayoutAssumption
<1>2. PICK q \in Nat : q = PARTITION_ALIGN \div blockSize
                       /\ PARTITION_ALIGN = q * blockSize + (PARTITION_ALIGN % blockSize)
  BY <1>1, DivMod
<1>3. q # 0
  BY <1>1, <1>2
<1> QED
  BY <1>1, <1>2, <1>3 DEF blockAlign

\* The arguments of validate, and the limits it computes of them.
LEMMA ArgumentTypes ==
  ASSUME device \in Devices
  PROVE  /\ firstAvailableBlock \in Nat /\ totalAvailableBlocks \in Nat
         /\ minOffset \in Size /\ maxOffset \in Nat
         /\ LastBlock \in Int
<1>1. firstAvailableBlock \in Nat
  <2>1. align_up(2 + numPartitionTableSectors, blockAlign) \in Size
    BY DeviceFacts, BlockAlign, AlignUpType, 2 + numPartitionTableSectors \in Int
  <2> QED
    BY <2>1, DeviceFacts, BlockAlign DEF firstAvailableBlock, Size
<1>2. PICK W \in Nat \ {0}, R \in Nat \ {0}, b \in Nat \ {0} :
        W = Word /\ R = device.range /\ b = blockSize
  BY DeviceFacts
<1>3. totalAvailableBlocks \in Nat
  <2>1. PICK x \in Int, y \in Int :
          /\ x = device.sectors - firstAvailableBlock
          /\ y = device.sectors - numPartitionTableSectors - 1 - firstAvailableBlock
    BY <1>1, DeviceFacts
  <2>2. x % Word32 \in 0 .. Word32 - 1 /\ y % R \in 0 .. R - 1
    BY DeviceFacts, ModRange
  <2>3. x % Word32 \in Nat /\ y % R \in Nat
    BY <2>2, DeviceFacts
  <2> QED
    BY <1>2, <2>1, <2>3 DEF totalAvailableBlocks
<1>4. minOffset \in Size
  <2>1. PICK x \in Int : x = firstAvailableBlock * b
    BY <1>1
  <2>2. x % R \in 0 .. R - 1
    BY ModRange
  <2> QED
    BY <1>2, <2>1, <2>2 DEF minOffset, Size
<1>5. maxOffset \in Nat
  <2>1. PICK x \in Int : x = firstAvailableBlock + totalAvailableBlocks
    BY <1>1, <1>3
  <2>2. PICK y \in Nat : y = x % R
    BY ModRange
  <2>3. PICK z \in Int : z = y * b - 1
    OBVIOUS
  <2>4. z % W \in 0 .. W - 1
    BY ModRange
  <2> QED
    BY <1>2, <2>1, <2>2, <2>3, <2>4 DEF maxOffset
<1> QED
  BY <1>1, <1>3, <1>4, <1>5, DeviceFacts DEF LastBlock

\* A partition of the table.
LEMMA PartFacts ==
  ASSUME TypeOK, NEW p \in DOMAIN request
  PROVE  /\ table[p] \in Part /\ request[p] \in Part
         /\ table[p].offset \in Nat /\ table[p].size \in Nat
         /\ table[p].offset < device.range /\ table[p].size < device.range
         /\ request[p].offset \in Nat /\ request[p].size \in Nat
         /\ DOMAIN table = DOMAIN request
<1>1. table[p] \in Part /\ request[p] \in Part /\ DOMAIN table = DOMAIN request
  BY DEF TypeOK
<1>2. device.range \in Nat
  BY DeviceFacts DEF TypeOK
<1> QED
  BY <1>1, <1>2 DEF Part, Size

\* What the sizing loop computes.
LEMMA SizingTypes ==
  ASSUME TypeOK, i \in DOMAIN request
  PROVE  /\ Blocks \in Int
         /\ (Blocks * blockSize) % device.range \in Size
         /\ (totalBlocks + Blocks) % Word \in 0 .. Word - 1
         /\ (totalBlocks + align_up(table[i].size, PARTITION_ALIGN)) % Word \in 0 .. Word - 1
<1>1. PICK W \in Nat \ {0}, R \in Nat \ {0}, b \in Nat \ {0}, t \in Nat, T \in Nat, z \in Nat :
        /\ W = Word /\ R = device.range /\ b = blockSize
        /\ t = totalBlocks /\ T = totalAvailableBlocks /\ z = table[i].size
  <2>1. Word \in Nat \ {0} /\ device.range \in Nat \ {0} /\ blockSize \in Nat \ {0}
    BY DeviceFacts DEF TypeOK
  <2>2. totalBlocks \in Nat /\ totalAvailableBlocks \in Nat
    BY <2>1, ArgumentTypes DEF TypeOK
  <2>3. table[i].size \in Nat
    BY PartFacts
  <2> QED
    BY <2>1, <2>2, <2>3
<1>2. Wanted \in Size
  <2>1. PICK x \in Int : x = T * z
    OBVIOUS
  <2>2. PICK y \in Nat : y = x % W
    BY ModRange
  <2>3. y \div 100 \in Nat
    OBVIOUS
  <2>4. PICK u \in Int : u = (y \div 100) % R
    BY <2>3, ModRange
  <2>5. align_up(u, blockAlign) \in Size
    BY AlignUpType, BlockAlign DEF TypeOK
  <2> QED
    BY <1>1, <2>1, <2>2, <2>4, <2>5 DEF Wanted
<1>3. PICK n \in Int : n = Blocks
  <2>1. (T - t) % R \in 0 .. R - 1
    BY ModRange
  <2> QED
    BY <1>1, <1>2, <2>1 DEF Blocks, Size
<1>4. PICK x \in Int, y \in Int : x = n * b /\ y = t + n
  OBVIOUS
<1>5. x % R \in 0 .. R - 1 /\ y % W \in 0 .. W - 1
  BY ModRange
<1>6. PICK u \in Int : u = align_up(table[i].size, PARTITION_ALIGN)
  <2>1. align_up(z, PARTITION_ALIGN) \in Size
    BY AlignUpType, DeviceFacts DEF TypeOK
  <2> QED
    BY <1>1, <2>1 DEF Size
<1>7. PICK s \in Int : s = t + u
  OBVIOUS
<1>8. s % W \in 0 .. W - 1
  BY ModRange
<1> QED
  BY <1>1, <1>3, <1>4, <1>5, <1>6, <1>7, <1>8 DEF Size

\* The end of a partition, rounded up, is a storage_size_t.
LEMMA EndOffsetType ==
  ASSUME TypeOK, NEW j \in DOMAIN request, list \in [DOMAIN request -> DOMAIN request]
  PROVE  endOffset(j) \in Size
<1>1. PICK x \in Int : x = pr(j).offset + pr(j).size
  BY PartFacts DEF pr
<1>2. PICK R \in Nat \ {0} : R = device.range
  BY DeviceFacts DEF TypeOK
<1>3. PICK y \in Int : y = x % R
  BY ModRange
<1>4. align_up(y, PARTITION_ALIGN) \in Size
  BY AlignUpType, DeviceFacts DEF TypeOK
<1> QED
  BY <1>1, <1>2, <1>3, <1>4 DEF endOffset

(***************************************************************************)
(* The invariant is inductive: what each action leaves of TypeOK, Keeps,   *)
(* Ordered and Ended                                                       *)
(***************************************************************************)

Basic == TypeOK /\ Keeps /\ Ordered /\ Ended

\* Init: the application's table is the table.
LEMMA InitBasic == Init => Basic
<1> SUFFICES ASSUME Init
             PROVE  Basic
  OBVIOUS
<1>1. device \in Devices /\ device.range \in Nat \ {0}
      /\ Word32 \in Nat /\ Word32 <= device.range /\ Word \in Nat \ {0}
  BY DeviceFacts DEF Init
<1>2. PICK n \in 1 .. MaxParts :
        request \in [1 .. n -> [offset : Offsets \cap Size, size : Sizes \cap Size]]
  BY DEF Init
<1>3. n \in Nat /\ n >= 1 /\ MaxParts \in Nat
  BY LayoutAssumption
<1>4. [offset : Offsets \cap Size, size : Sizes \cap Size] \subseteq Part
  BY DEF Part
<1>5. request \in Seq(Part) /\ Len(request) = n /\ DOMAIN request = 1 .. n
  BY <1>2, <1>3, <1>4
<1>6. TypeOK
  BY <1>1, <1>2, <1>3, <1>4, <1>5 DEF Init, TypeOK
<1> QED
  BY <1>6 DEF Init, Basic, Keeps, Ordered, Ended

\* A step that changes neither table nor list, and does not begin to place.
LEMMA SameBasic ==
  ASSUME Basic, UNCHANGED <<device, request, table, totalBlocks, list>>,
         i' \in 1 .. Len(request) + 1, pc' \in {pc, "done"},
         \/ UNCHANGED result
         \/ pc' = "done" /\ result' \in {"Success", "NoSpace", "MisAligned", "OutOfRange", "assert"}
  PROVE  Basic'
<1>1. TypeOK'
  BY DEF Basic, TypeOK, Part, Size
<1>2. Keeps'
  BY DEF Basic, Keeps, TypeOK
<1>3. Ordered'
  BY DEF Basic, Ordered, pr
<1>4. Ended'
  BY DEF Basic, Ended
<1> QED
  BY <1>1, <1>2, <1>3, <1>4 DEF Basic

\* NextPart goes on to the next partition, or returns OutOfRange.
LEMMA NextPartFacts ==
  ASSUME Basic, Sizing, NextPart
  PROVE  /\ i' \in 1 .. Len(request) + 1 /\ pc' \in {pc, "done"}
         /\ UNCHANGED <<device, request, list>>
         /\ (pc' = "done" /\ result' = "OutOfRange") \/ UNCHANGED result
<1>1. i \in 1 .. Len(request) /\ Len(request) \in Nat
  BY DEF Basic, TypeOK, Sizing
<1> QED
  BY <1>1 DEF NextPart, Finish

\* SizePercentage changes the size of a partition that has none in bytes.
LEMMA SizePercentageBasic ==
  ASSUME Basic, SizePercentage
  PROVE  Basic'
<1>1. pc = "size" /\ i \in DOMAIN request /\ table[i].size <= 100
  BY DEF SizePercentage, Sizing, Percentage, Basic, TypeOK
<1>2. PICK s \in Size : /\ s = (Blocks * blockSize) % device.range
                        /\ table' = [table EXCEPT ![i].size = s]
  BY <1>1, SizingTypes DEF SizePercentage, Basic
<1>3. totalBlocks' \in 0 .. Word - 1
  BY <1>1, SizingTypes DEF SizePercentage, Basic
<1>4. /\ i' \in 1 .. Len(request) + 1 /\ pc' \in {pc, "done"}
      /\ UNCHANGED <<device, request, list>>
      /\ (pc' = "done" /\ result' = "OutOfRange") \/ UNCHANGED result
  BY NextPartFacts DEF SizePercentage
<1>5. TypeOK'
  <2>1. table' \in [DOMAIN request -> Part]
    BY <1>1, <1>2 DEF Basic, TypeOK, Part
  <2> QED
    BY <1>3, <1>4, <2>1 DEF Basic, TypeOK, Part, Size
<1>6. Keeps'
  <2> SUFFICES ASSUME NEW p \in DOMAIN request
               PROVE  /\ table'[p].offset = table[p].offset
                      /\ request[p].size > 100 => table'[p].size = table[p].size
    BY <1>1, <1>4 DEF Basic, Keeps
  <2>1. request[p].size \in Nat /\ table[p].size \in Nat
    BY PartFacts DEF Basic
  <2>2. p = i => ~(request[p].size > 100)
    BY <1>1, <2>1 DEF Basic, Keeps
  <2> QED
    BY <1>2, <2>2 DEF Basic, TypeOK, Part
<1>7. Ordered'
  BY <1>1, <1>4 DEF Ordered
<1>8. Ended'
  BY <1>1, <1>4 DEF Basic, Ended
<1> QED
  BY <1>5, <1>6, <1>7, <1>8 DEF Basic

\* SizeExplicit only counts.
LEMMA SizeExplicitBasic ==
  ASSUME Basic, SizeExplicit
  PROVE  Basic'
<1>1. pc = "size" /\ i \in DOMAIN request
  BY DEF SizeExplicit, Sizing, Basic, TypeOK
<1>2. totalBlocks' \in 0 .. Word - 1 /\ UNCHANGED table
  BY <1>1, SizingTypes DEF SizeExplicit, Basic
<1>3. /\ i' \in 1 .. Len(request) + 1 /\ pc' \in {pc, "done"}
      /\ UNCHANGED <<device, request, list>>
      /\ (pc' = "done" /\ result' = "OutOfRange") \/ UNCHANGED result
  BY NextPartFacts DEF SizeExplicit
<1>4. TypeOK'
  BY <1>2, <1>3 DEF Basic, TypeOK, Part, Size
<1> QED
  BY <1>1, <1>2, <1>3, <1>4 DEF Basic, Keeps, Ordered, Ended

\* What sortList makes of a list that names every partition once.
LEMMA SortedFacts ==
  ASSUME NEW D \in SUBSET Nat, NEW l \in [D -> D], NEW t, DOMAIN t = D,
         \A p \in D : t[p].offset \in Nat,
         \A a, b \in D : a < b => l[a] # l[b],
         NEW s \in Sorted(l, t)
  PROVE  /\ s \in [D -> D]
         /\ \A a, b \in D : a < b =>
              /\ s[a] # s[b]
              /\ t[s[a]].offset < t[s[b]].offset \/ Before(l, s[a], s[b])
              /\ t[s[a]].offset <= t[s[b]].offset
<1>1. s \in [D -> D]
  BY DEF Sorted
<1>2. ASSUME NEW a \in D, NEW b \in D, a < b
      PROVE  /\ s[a] # s[b]
             /\ t[s[a]].offset < t[s[b]].offset \/ Before(l, s[a], s[b])
             /\ t[s[a]].offset <= t[s[b]].offset
  <2>1. t[s[a]].offset \in Nat /\ t[s[b]].offset \in Nat
    BY <1>1
  <2>2. \/ t[s[a]].offset < t[s[b]].offset
        \/ t[s[a]].offset = t[s[b]].offset /\ Before(l, s[a], s[b])
    BY <1>2 DEF Sorted
  <2>3. Before(l, s[a], s[b]) => s[a] # s[b]
    BY DEF Before
  <2> QED
    BY <2>1, <2>2, <2>3
<1> QED
  BY <1>1, <1>2

\* SortList: the list is one of all partitions.
LEMMA SortListBasic ==
  ASSUME Basic, SortList
  PROVE  Basic'
<1>1. pc' = "place" /\ UNCHANGED <<device, request, table, i, totalBlocks, result>>
  BY DEF SortList
<1>2. PICK D \in SUBSET Nat : D = DOMAIN request /\ D = DOMAIN table
  BY DEF Basic, TypeOK
<1>3. PICK l \in [D -> D] : l = [k \in DOMAIN table |-> k]
  BY <1>2
<1>4. \A a, b \in D : a < b => l[a] # l[b]
  BY <1>2, <1>3
<1>5. \A p \in D : table[p].offset \in Nat
  BY <1>2, PartFacts DEF Basic
<1>6. list' \in Sorted(l, table)
  BY <1>3 DEF SortList
<1>7. /\ list' \in [D -> D]
      /\ \A a, b \in D : a < b => /\ list'[a] # list'[b]
                                  /\ table[list'[a]].offset <= table[list'[b]].offset
  <2>1. DOMAIN table = D
    BY <1>2
  <2>2. PICK s \in Sorted(l, table) : s = list'
    BY <1>6
  <2>3. /\ s \in [D -> D]
        /\ \A a, b \in D : a < b =>
             /\ s[a] # s[b]
             /\ table[s[a]].offset < table[s[b]].offset \/ Before(l, s[a], s[b])
             /\ table[s[a]].offset <= table[s[b]].offset
    BY <1>4, <1>5, <2>1, SortedFacts
  <2> QED
    BY <2>2, <2>3
<1>8. TypeOK'
  BY <1>1, <1>2, <1>7 DEF Basic, TypeOK, Part, Size
<1>9. Keeps'
  BY <1>1 DEF Basic, Keeps, SortList, Sized
<1>10. Ordered'
  BY <1>1, <1>2, <1>7 DEF Ordered, pr
<1>11. Ended'
  BY <1>1 DEF Basic, Ended, SortList, Sized
<1> QED
  BY <1>8, <1>9, <1>10, <1>11 DEF Basic

\* Place gives a position to the first partition of the list, which had none, and
\* sorts again.
LEMMA PlaceFacts ==
  ASSUME Basic, Placing, NEW offset \in Size, Place(offset)
  PROVE  /\ list[1] \in DOMAIN request /\ table[list[1]].offset = 0
         /\ table' \in [DOMAIN request -> Part]
         /\ table'[list[1]] = [offset |-> offset, size |-> table[list[1]].size]
         /\ \A p \in DOMAIN request \ {list[1]} : table'[p] = table[p]
         /\ \A p \in DOMAIN request : table'[p].size = table[p].size
         /\ pc = "place"
         /\ UNCHANGED <<device, request, pc, i, totalBlocks, result>>
<1>1. /\ pc = "place" /\ table[list[1]].offset = 0
      /\ table' = [table EXCEPT ![list[1]].offset = offset]
      /\ UNCHANGED <<device, request, pc, i, totalBlocks, result>>
  BY DEF Placing, Place
<1>2. 1 \in DOMAIN request
  BY DEF Basic, TypeOK
<1>3. PICK p1 \in DOMAIN request : p1 = list[1]
  BY <1>1, <1>2 DEF Basic, Ordered
<1>4. table \in [DOMAIN request -> Part]
  BY DEF Basic, TypeOK
<1> QED
  BY <1>1, <1>3, <1>4 DEF Part

\* Place keeps what the list is.
LEMMA PlaceBasic ==
  ASSUME Basic, Placing, NEW offset \in Size, Place(offset)
  PROVE  Basic'
<1>1. /\ list[1] \in DOMAIN request /\ table[list[1]].offset = 0
      /\ table' \in [DOMAIN request -> Part]
      /\ table'[list[1]] = [offset |-> offset, size |-> table[list[1]].size]
      /\ \A p \in DOMAIN request \ {list[1]} : table'[p] = table[p]
      /\ \A p \in DOMAIN request : table'[p].size = table[p].size
      /\ pc = "place"
      /\ UNCHANGED <<device, request, pc, i, totalBlocks, result>>
  BY PlaceFacts
<1>2. PICK D \in SUBSET Nat : D = DOMAIN request /\ D = DOMAIN table'
  BY <1>1 DEF Basic, TypeOK
<1>3. PICK l \in [D -> D] : l = list
  BY <1>1, <1>2 DEF Basic, Ordered
<1>4. \A a, b \in D : a < b => l[a] # l[b]
  BY <1>1, <1>2, <1>3 DEF Basic, Ordered
<1>5. PICK t : t = table'
  OBVIOUS
<1>6. \A p \in D : t[p].offset \in Nat
  BY <1>1, <1>2, <1>5, DeviceFacts DEF Basic, TypeOK, Part, Size
<1>7. list' \in Sorted(l, t)
  BY <1>3, <1>5 DEF Place
<1>8. /\ list' \in [D -> D]
      /\ \A a, b \in D : a < b => /\ list'[a] # list'[b]
                                  /\ t[list'[a]].offset <= t[list'[b]].offset
  <2>1. DOMAIN t = D
    BY <1>2, <1>5
  <2>2. PICK s \in Sorted(l, t) : s = list'
    BY <1>7
  <2>3. /\ s \in [D -> D]
        /\ \A a, b \in D : a < b =>
             /\ s[a] # s[b]
             /\ t[s[a]].offset < t[s[b]].offset \/ Before(l, s[a], s[b])
             /\ t[s[a]].offset <= t[s[b]].offset
    BY <1>4, <1>6, <2>1, SortedFacts
  <2> QED
    BY <2>2, <2>3
<1>9. TypeOK'
  BY <1>1, <1>2, <1>8 DEF Basic, TypeOK, Part, Size
<1>10. Keeps'
  BY <1>1 DEF Basic, Keeps
<1>11. Ordered'
  BY <1>1, <1>2, <1>5, <1>8 DEF Ordered, pr
<1>12. Ended'
  BY <1>1 DEF Basic, Ended
<1> QED
  BY <1>9, <1>10, <1>11, <1>12 DEF Basic

\* Every step keeps the basic part of the invariant.
LEMMA NextBasic ==
  ASSUME Basic, [Next]_vars
  PROVE  Basic'
<1>1. CASE UNCHANGED vars
  BY <1>1, SameBasic DEF vars, Basic, TypeOK
<1>2. CASE SizePercentage
  BY <1>2, SizePercentageBasic
<1>3. CASE SizeExplicit
  BY <1>3, SizeExplicitBasic
<1>4. CASE NoBlocksLeft \/ MisAligned \/ ExceedsSpace \/ NoGap \/ End
  <2>1. i \in 1 .. Len(request) + 1
    BY DEF Basic, TypeOK
  <2>2. /\ UNCHANGED <<device, request, table, totalBlocks, list, i>>
        /\ pc' = "done" /\ result' \in {"Success", "NoSpace", "MisAligned", "assert"}
    BY <1>4 DEF NoBlocksLeft, MisAligned, ExceedsSpace, NoGap, End, Finish
  <2> QED
    BY <2>1, <2>2, SameBasic
<1>5. CASE SortList
  BY <1>5, SortListBasic
<1>6. CASE PlaceFirst
  BY <1>6, PlaceBasic, ArgumentTypes DEF PlaceFirst, Basic, TypeOK
<1>7. CASE PlaceInGap
  <2>1. PICK j \in Positioned : Place(endOffset(j))
    BY <1>7 DEF PlaceInGap
  <2>2. list \in [DOMAIN request -> DOMAIN request] /\ j \in DOMAIN request
    BY <1>7, <2>1 DEF PlaceInGap, Placing, Basic, Ordered, Positioned
  <2> QED
    BY <1>7, <2>1, <2>2, EndOffsetType, PlaceBasic DEF PlaceInGap, Basic
<1> QED
  BY <1>1, <1>2, <1>3, <1>4, <1>5, <1>6, <1>7 DEF Next

\* In every state of validate the variables have their types, the table keeps what
\* the application chose, and the list orders all partitions.
LEMMA BasicHolds == Spec => []Basic
BY InitBasic, NextBasic, PTL DEF Spec

\* Type correctness: no step, however its arithmetic wraps, leaves a value that a
\* storage_size_t or a uint64_t cannot hold, or a list that is not one of the table.
THEOREM TypeCorrect == Spec => []TypeOK
BY BasicHolds, PTL DEF Basic

\* A step does not move a partition that has a position, and does not resize one
\* whose size the application gave in bytes.
LEMMA NextMovesNothing ==
  ASSUME Basic, Next
  PROVE  \A p \in DOMAIN table :
           /\ table[p].offset # 0 => table'[p].offset = table[p].offset
           /\ request[p].size > 100 => table'[p].size = table[p].size
<1>1. CASE UNCHANGED table
  BY <1>1
<1>2. CASE SizePercentage
  <2> SUFFICES ASSUME NEW p \in DOMAIN request
               PROVE  /\ table'[p].offset = table[p].offset
                      /\ request[p].size > 100 => table'[p].size = table[p].size
    BY DEF Basic, TypeOK
  <2>1. request[p].size \in Nat /\ table[p].size \in Nat
    BY PartFacts DEF Basic
  <2>2. p = i => ~(request[p].size > 100)
    BY <1>2, <2>1 DEF Basic, Keeps, SizePercentage, Percentage
  <2>3. PICK s : table' = [table EXCEPT ![i].size = s]
    BY <1>2 DEF SizePercentage
  <2> QED
    BY <2>2, <2>3 DEF Basic, TypeOK, Part
<1>3. ASSUME NEW offset \in Size, Placing, Place(offset)
      PROVE  \A p \in DOMAIN table :
               /\ table[p].offset # 0 => table'[p].offset = table[p].offset
               /\ request[p].size > 100 => table'[p].size = table[p].size
  BY <1>3, PlaceFacts DEF Basic, TypeOK
<1>4. CASE PlaceFirst
  BY <1>3, <1>4, ArgumentTypes DEF PlaceFirst, Basic, TypeOK
<1>5. CASE PlaceInGap
  <2>1. PICK j \in Positioned : Place(endOffset(j))
    BY <1>5 DEF PlaceInGap
  <2>2. list \in [DOMAIN request -> DOMAIN request] /\ j \in DOMAIN request
    BY <1>5, <2>1 DEF PlaceInGap, Placing, Basic, Ordered, Positioned
  <2> QED
    BY <1>3, <1>5, <2>1, <2>2, EndOffsetType DEF PlaceInGap, Basic
<1> QED
  BY <1>1, <1>2, <1>4, <1>5 DEF Next, NoBlocksLeft, SizeExplicit, MisAligned, ExceedsSpace,
                                SortList, NoGap, End

\* validate never takes back a decision: positions that were chosen or found stay,
\* and so do sizes in bytes.
THEOREM NothingMoved == Spec => NeverMoved
<1>1. Basic /\ [Next]_vars =>
        [\A p \in DOMAIN table :
           /\ table[p].offset # 0 => table'[p].offset = table[p].offset
           /\ request[p].size > 100 => table'[p].size = table[p].size]_vars
  BY NextMovesNothing
<1> QED
  BY <1>1, BasicHolds, PTL DEF Spec, NeverMoved

(***************************************************************************)
(* On a device with room for partitions                                    *)
(***************************************************************************)

\* What validate computes of the device depends on nothing else.
LEMMA DeviceOnly ==
  ASSUME device' = device
  PROVE  /\ firstAvailableBlock' = firstAvailableBlock
         /\ totalAvailableBlocks' = totalAvailableBlocks
         /\ minOffset' = minOffset /\ maxOffset' = maxOffset /\ LastBlock' = LastBlock
         /\ Roomy' = Roomy /\ Whole' = Whole
BY DEF firstAvailableBlock, totalAvailableBlocks, minOffset, maxOffset, LastBlock, Roomy, Whole,
       blockAlign, align_up, align

\* The first block for partitions: rounding up does not wrap, and in bytes it is
\* a multiple of the alignment.
LEMMA FirstBlock ==
  ASSUME device \in Devices, Roomy
  PROVE  /\ firstAvailableBlock \in Nat \ {0}
         /\ (firstAvailableBlock * blockSize) % PARTITION_ALIGN = 0
<1>1. PICK c \in Nat \ {0}, b \in Nat \ {0}, A \in Nat \ {0} :
        c = blockAlign /\ b = blockSize /\ A = PARTITION_ALIGN /\ c * b = A
  BY BlockAlign, DeviceFacts
<1>2. CASE device.scheme = "mbr"
  <2>1. firstAvailableBlock = c
    BY <1>1, <1>2 DEF firstAvailableBlock
  <2>2. A % A = 0
    OBVIOUS
  <2> QED
    BY <1>1, <2>1, <2>2
<1>3. CASE device.scheme # "mbr"
  <2>1. PICK v \in Nat, R \in Nat \ {0}, s \in Nat :
          /\ v = 2 + numPartitionTableSectors /\ R = device.range /\ s = device.sectors
    BY DeviceFacts
  <2>2. firstAvailableBlock = align_up(v, c) /\ firstAvailableBlock \in Nat
    BY <1>1, <1>3, <2>1, ArgumentTypes DEF firstAvailableBlock
  <2>3. LastBlock = s - (v - 1)
    BY <1>3, <2>1, DeviceFacts DEF LastBlock
  <2>4. v <= s /\ s * b + A < R
    BY <1>1, <2>1, <2>2, <2>3 DEF Roomy
  <2>5. PICK sb \in Nat, cb \in Nat : sb = s * b /\ cb = c * b /\ s <= sb /\ c <= cb
    OBVIOUS
  <2>6. PICK u \in Nat : u = v + (c - 1) /\ u < R
    BY <1>1, <2>4, <2>5
  <2>7. PICK w \in Nat : w = (v + (c - 1)) - ((v + (c - 1)) % c) /\ v <= w /\ w % c = 0
    BY RoundUp
  <2>8. w = u - (u % c)
    BY <2>6, <2>7
  <2>9. w = align_up(v, c)
    BY <2>1, <2>6, <2>8, ModSmall DEF align_up, align
  <2>10. PICK q \in Nat : w = q * c
    BY <2>7, Multiple
  <2>11. w * b = q * A
    BY <1>1, <2>10
  <2>12. (q * A) % A = 0
    BY MulMod
  <2>13. v > 0
    BY <2>1, DeviceFacts
  <2> QED
    BY <1>1, <2>2, <2>7, <2>9, <2>11, <2>12, <2>13
<1> QED
  BY <1>2, <1>3

\* The space in bytes: from f, for z bytes, and no further than the device, which
\* ends an alignment before the range of a storage_size_t.
LEMMA Space ==
  ASSUME device \in Devices, Roomy
  PROVE  \E f \in Nat \ {0}, z \in Nat, e \in Nat :
           /\ f = firstAvailableBlock * blockSize /\ f % PARTITION_ALIGN = 0
           /\ z = totalAvailableBlocks * blockSize
           /\ e = LastBlock * blockSize
           /\ minOffset = f /\ maxOffset + 1 = f + z
           /\ f + z <= e /\ e + PARTITION_ALIGN < device.range
           /\ device.range <= Word
<1>1. PICK F \in Nat \ {0}, T \in Nat, b \in Nat \ {0}, A \in Nat \ {0}, R \in Nat \ {0}, s \in Nat :
        /\ F = firstAvailableBlock /\ T = totalAvailableBlocks /\ b = blockSize
        /\ A = PARTITION_ALIGN /\ R = device.range /\ s = device.sectors
  BY FirstBlock, ArgumentTypes, DeviceFacts
<1>2. PICK L \in Nat : L = LastBlock /\ F < L /\ L <= s
  <2>1. LastBlock \in Int /\ F < LastBlock
    BY <1>1, ArgumentTypes DEF Roomy
  <2>2. LastBlock <= s
    BY <1>1, DeviceFacts DEF LastBlock
  <2> QED
    BY <2>1, <2>2
<1>3. T <= L - F
  <2>1. PICK d \in Nat : d = L - F
    BY <1>2
  <2>2. d % Word32 <= d /\ d % R <= d
    <3>1. ASSUME NEW m \in Nat \ {0}
          PROVE  d % m <= d
      <4>1. d \div m \in Nat /\ d = (d \div m) * m + (d % m)
        BY DivMod
      <4>2. (d \div m) * m \in Nat /\ d % m \in Nat
        BY <4>1, ModRange
      <4> QED
        BY <4>1, <4>2
    <3> QED
      BY <3>1, DeviceFacts
  <2>3. T = d % Word32 \/ T = d % R
    BY <1>1, <1>2, <2>1, DeviceFacts DEF totalAvailableBlocks, LastBlock
  <2> QED
    BY <2>1, <2>2, <2>3
<1>4. PICK f \in Nat \ {0}, z \in Nat, e \in Nat, sb \in Nat :
        f = F * b /\ z = T * b /\ e = L * b /\ sb = s * b
  OBVIOUS
<1>5. f + z <= e /\ e <= sb
  <2>1. (F + T) * b <= L * b /\ L * b <= s * b
    BY <1>2, <1>3, MulMono
  <2>2. (F + T) * b = F * b + T * b
    OBVIOUS
  <2> QED
    BY <2>1, <2>2, <1>4
<1>6. sb + A < R
  BY <1>1, <1>4 DEF Roomy
<1>7. R <= Word /\ Word \in Nat \ {0}
  BY <1>1, DeviceFacts
<1>8. minOffset = f
  <2>1. f < R
    BY <1>5, <1>6
  <2> QED
    BY <1>1, <1>4, <2>1, ModSmall DEF minOffset
<1>9. maxOffset + 1 = f + z
  <2>1. F + T < R
    BY <1>1, <1>2, <1>3, DeviceFacts
  <2>2. (F + T) % R = F + T
    BY <2>1, ModSmall
  <2>3. PICK x \in Nat : x = f + z - 1
    OBVIOUS
  <2>4. (F + T) * b - 1 = x
    <3>1. (F + T) * b = F * b + T * b
      OBVIOUS
    <3> QED
      BY <1>4, <2>3, <3>1
  <2>5. x < Word
    BY <1>5, <1>6, <1>7, <2>3
  <2>6. x % Word = x
    BY <1>7, <2>5, ModSmall
  <2>7. maxOffset = x
    BY <1>1, <2>2, <2>4, <2>6 DEF maxOffset
  <2> QED
    BY <2>3, <2>7
<1> QED
  BY <1>1, <1>2, <1>4, <1>5, <1>6, <1>7, <1>8, <1>9, FirstBlock

\* endOffset, where the end of the partition is an alignment below the range: the
\* first multiple of the alignment behind it.
LEMMA EndOffset ==
  ASSUME TypeOK, list \in [DOMAIN request -> DOMAIN request], NEW j \in DOMAIN request,
         past(list[j]) + PARTITION_ALIGN <= device.range
  PROVE  /\ past(list[j]) \in Nat /\ endOffset(j) \in Nat
         /\ past(list[j]) <= endOffset(j) /\ endOffset(j) < past(list[j]) + PARTITION_ALIGN
         /\ endOffset(j) % PARTITION_ALIGN = 0
         /\ \A x \in Nat : past(list[j]) <= x /\ x % PARTITION_ALIGN = 0 => endOffset(j) <= x
<1>1. PICK A \in Nat \ {0}, R \in Nat \ {0} : A = PARTITION_ALIGN /\ R = device.range
  BY DeviceFacts DEF TypeOK
<1>2. PICK v \in Nat : v = past(list[j]) /\ v = pr(j).offset + pr(j).size
  BY PartFacts DEF past, pr
<1>3. v < R
  BY <1>1, <1>2
<1>4. v % R = v
  BY <1>3, ModSmall
<1>5. PICK u \in Nat : u = v + (A - 1) /\ u < R
  BY <1>1, <1>2
<1>6. u % R = u
  BY <1>5, ModSmall
<1>7. PICK w \in Nat : /\ w = (v + (A - 1)) - ((v + (A - 1)) % A)
                       /\ v <= w /\ w < v + A /\ w % A = 0
                       /\ \A x \in Nat : v <= x /\ x % A = 0 => w <= x
  BY RoundUp
<1>8. endOffset(j) = align_up(v, A)
  BY <1>1, <1>2, <1>4 DEF endOffset
<1>9. align_up(v, A) = u - (u % A)
  BY <1>1, <1>5, <1>6 DEF align_up, align
<1>10. endOffset(j) = w
  BY <1>5, <1>7, <1>8, <1>9
<1> QED
  BY <1>1, <1>2, <1>7, <1>10

(***************************************************************************)
(* Positions                                                               *)
(***************************************************************************)

\* The set of partitions with a position is finite, and no larger than the table.
LEMMA TakenFinite ==
  ASSUME TypeOK
  PROVE  /\ IsFiniteSet(Taken) /\ Cardinality(Taken) \in Nat
         /\ Cardinality(Taken) <= Len(request) /\ Len(request) \in Nat
         /\ Taken \subseteq DOMAIN request
<1>1. PICK n \in Nat : n = Len(request) /\ n >= 1 /\ DOMAIN request = 1 .. n
  BY DEF TypeOK
<1>2. IsFiniteSet(1 .. n) /\ Cardinality(1 .. n) = n
  <2>1. Cardinality(1 .. n) = IF 1 > n THEN 0 ELSE n - 1 + 1
    BY FS_Interval
  <2>2. IsFiniteSet(1 .. n)
    BY FS_Interval
  <2> QED
    BY <1>1, <2>1, <2>2
<1>3. Taken \in SUBSET (1 .. n)
  BY <1>1 DEF Taken, TypeOK
<1>4. IsFiniteSet(Taken) /\ Cardinality(Taken) <= n
  BY <1>2, <1>3, FS_Subset
<1>5. Cardinality(Taken) \in Nat
  BY <1>4, FS_CardinalityType
<1> QED
  BY <1>1, <1>3, <1>4, <1>5

\* Partitions with a position end an alignment below the range.
LEMMA ReachBounded ==
  ASSUME TypeOK, Accepted
  PROVE  Reach \in Nat /\ Reach + PARTITION_ALIGN <= device.range
<1>1. PICK e \in Nat, A \in Nat \ {0}, R \in Nat \ {0} :
        /\ e = LastBlock * blockSize /\ e + A < R
        /\ A = PARTITION_ALIGN /\ R = device.range
  BY Space, DeviceFacts DEF TypeOK, Accepted
<1>2. CASE Whole
  BY <1>1, <1>2 DEF Reach
<1>3. CASE ~Whole
  <2>1. PICK c \in Nat, n \in Nat : c = Cardinality(Taken) /\ n = Len(request) /\ c <= n
    <3>1. Cardinality(Taken) \in Nat /\ Cardinality(Taken) <= Len(request) /\ Len(request) \in Nat
      BY TakenFinite
    <3> QED
      BY <3>1
  <2> DEFINE B == e + A
  <2>2. PICK cB \in Nat, nB \in Nat : cB = c * B /\ nB = n * B /\ cB <= nB
    <3>1. B \in Nat
      OBVIOUS
    <3> HIDE DEF B
    <3> QED
      BY <2>1, <3>1, MulMono
  <2>3. Reach = cB
    BY <1>1, <1>3, <2>1, <2>2 DEF Reach
  <2>4. nB + A <= R
    BY <1>1, <1>3, <2>1, <2>2 DEF Accepted, NoWrap, Whole
  <2> QED
    BY <1>1, <2>2, <2>3, <2>4
<1> QED
  BY <1>2, <1>3

\* The list names every partition.
LEMMA ListComplete ==
  ASSUME Basic, pc = "place", NEW p \in DOMAIN request
  PROVE  \E j \in DOMAIN request : list[j] = p
<1>1. /\ list \in [DOMAIN request -> DOMAIN request]
      /\ \A a, b \in DOMAIN request : a < b => list[a] # list[b]
  BY DEF Basic, Ordered
<1>2. PICK n \in Nat : DOMAIN request = 1 .. n
  BY DEF Basic, TypeOK
<1>3. IsFiniteSet(1 .. n)
  BY FS_Interval
<1>4. list \in Injection(1 .. n, 1 .. n)
  <2>1. \A a, b \in 1 .. n : a = b \/ a < b \/ b < a
    OBVIOUS
  <2> QED
    BY <1>1, <1>2, <2>1 DEF Injection, IsInjective
<1>5. list \in Surjection(1 .. n, 1 .. n)
  BY <1>3, <1>4, FS_Injection
<1> QED
  BY <1>2, <1>5 DEF Surjection

\* The gap that PlaceInGap uses: it begins at an aligned offset behind partition j,
\* and the partition that goes there ends before the next one.  Behind the last
\* partition the gap may have wrapped, and what is placed there ends within Reach.
LEMMA Gap ==
  ASSUME Basic, Placed, Accepted, Placing, NEW j \in Positioned, Fits(j)
  PROVE  /\ endOffset(j) \in Nat \ {0} /\ endOffset(j) % PARTITION_ALIGN = 0
         /\ firstAvailableBlock * blockSize <= endOffset(j)
         /\ \A q \in Taken : past(q) <= endOffset(j) \/ endOffset(j) + pz.size <= first(q)
         /\ endOffset(j) + pz.size <=
              IF Whole THEN LastBlock * blockSize
                ELSE (Cardinality(Taken) + 1) * (LastBlock * blockSize + PARTITION_ALIGN)
<1>1. /\ TypeOK /\ pc = "place"
      /\ list \in [DOMAIN request -> DOMAIN request] /\ DOMAIN table = DOMAIN request
      /\ \A a, b \in DOMAIN request : a < b =>
           first(list[a]) <= first(list[b]) /\ list[a] # list[b]
  BY DEF Basic, Placing, Ordered, TypeOK, pr, first
<1>2. PICK f \in Nat \ {0}, z \in Nat, e \in Nat :
        /\ f = firstAvailableBlock * blockSize
        /\ z = totalAvailableBlocks * blockSize
        /\ e = LastBlock * blockSize
        /\ maxOffset + 1 = f + z /\ f + z <= e
  BY <1>1, Space DEF TypeOK, Accepted
<1>3. PICK A \in Nat \ {0}, R \in Nat \ {0}, W \in Nat \ {0}, n \in Nat :
        /\ A = PARTITION_ALIGN /\ R = device.range /\ W = Word /\ R <= W
        /\ DOMAIN request = 1 .. n /\ n = Len(request)
  BY <1>1, DeviceFacts DEF TypeOK
<1>4. /\ \A p \in Taken : first(p) % A = 0 /\ f <= first(p) /\ past(p) <= Reach
      /\ Disjoint(Taken)
  BY <1>1, <1>2, <1>3 DEF Placed
<1>5. \A p \in Taken : /\ p \in DOMAIN request
                       /\ first(p) \in Nat /\ past(p) \in Nat
                       /\ first(p) < R /\ first(p) < past(p)
  <2> SUFFICES ASSUME NEW p \in Taken
               PROVE  /\ p \in DOMAIN request
                      /\ first(p) \in Nat /\ past(p) \in Nat
                      /\ first(p) < R /\ first(p) < past(p)
    OBVIOUS
  <2>1. p \in DOMAIN request
    BY <1>1 DEF Taken
  <2>2. table[p].size # 0
    BY <1>1, <2>1 DEF Accepted, NoneEmpty
  <2> QED
    BY <1>1, <1>3, <2>1, <2>2, PartFacts DEF first, past
<1>6. j \in 1 .. n /\ list[j] \in Taken
  BY <1>1, <1>3 DEF Positioned, Taken, pr
<1>7. PICK s \in Nat : s = pz.size /\ s <= z
  <2>1. 1 \in DOMAIN request /\ list[1] \in DOMAIN request
    BY <1>1 DEF TypeOK
  <2>2. table[list[1]].size <= z
    BY <1>1, <1>2, <2>1 DEF Accepted, NoneTooLarge
  <2> QED
    BY <1>1, <2>1, <2>2, PartFacts DEF pz
<1>8. Reach \in Nat /\ Reach + A <= R
  BY <1>1, <1>3, ReachBounded
<1>9. PICK o \in Nat :
        /\ o = endOffset(j) /\ past(list[j]) <= o /\ o < past(list[j]) + A /\ o % A = 0
        /\ \A x \in Nat : past(list[j]) <= x /\ x % A = 0 => o <= x
  <2>1. past(list[j]) + A <= R
    BY <1>4, <1>5, <1>6, <1>8
  <2>2. /\ endOffset(j) \in Nat
        /\ past(list[j]) <= endOffset(j) /\ endOffset(j) < past(list[j]) + A
        /\ endOffset(j) % A = 0
        /\ \A x \in Nat : past(list[j]) <= x /\ x % A = 0 => endOffset(j) <= x
    BY <1>1, <1>3, <1>6, <2>1, EndOffset
  <2> QED
    BY <2>2
<1>10. j + 1 \in 1 .. n => list[j + 1] \in Taken /\ o + s <= first(list[j + 1])
  <2> SUFFICES ASSUME j + 1 \in 1 .. n
               PROVE  list[j + 1] \in Taken /\ o + s <= first(list[j + 1])
    OBVIOUS
  <2>1. PICK q \in DOMAIN request : q = list[j + 1]
    BY <1>1, <1>3
  <2>2. first(list[j]) <= first(q) /\ list[j] # q
    BY <1>1, <1>3, <1>6, <2>1
  <2>3. first(q) \in Nat /\ first(q) # 0
    <3>1. first(q) \in Nat
      BY <1>1, PartFacts DEF first
    <3> QED
      BY <1>4, <1>5, <1>6, <2>2, <3>1
  <2>4. q \in Taken
    BY <1>1, <2>3 DEF Taken, first
  <2>5. past(list[j]) <= first(q)
    <3>1. past(list[j]) <= first(q) \/ past(q) <= first(list[j])
      BY <1>4, <1>6, <2>2, <2>4 DEF Disjoint
    <3> QED
      BY <1>5, <1>6, <2>2, <2>4, <3>1
  <2>6. o <= first(q)
    BY <1>4, <1>9, <2>3, <2>4, <2>5
  <2>7. PICK d \in Nat : d = first(q) - o /\ d < R
    BY <1>5, <2>3, <2>4, <2>6
  <2>8. avail(j) = d
    <3>1. d % R = d
      BY <2>7, ModSmall
    <3>2. DOMAIN list = 1 .. n
      BY <1>1, <1>3
    <3> QED
      BY <1>3, <1>9, <2>1, <2>7, <3>1, <3>2 DEF avail, pr, first
  <2>9. s <= d
    BY <1>7, <2>8 DEF Fits
  <2> QED
    BY <2>1, <2>3, <2>4, <2>7, <2>9
<1>11. ASSUME NEW q \in Taken
       PROVE  past(q) <= o \/ o + s <= first(q)
  <2>1. PICK k \in 1 .. n : list[k] = q
    BY <1>1, <1>3, <1>5, ListComplete
  <2>2. CASE k = j
    BY <1>9, <2>1, <2>2
  <2>3. CASE k < j
    <3>1. first(q) <= first(list[j]) /\ q # list[j]
      BY <1>1, <1>3, <1>6, <2>1, <2>3
    <3>2. past(q) <= first(list[j]) \/ past(list[j]) <= first(q)
      BY <1>4, <1>6, <3>1 DEF Disjoint
    <3>3. first(list[j]) \in Nat /\ past(list[j]) \in Nat /\ first(list[j]) < past(list[j])
      BY <1>5, <1>6
    <3>4. first(q) \in Nat /\ past(q) \in Nat
      BY <1>5
    <3> QED
      BY <1>9, <3>1, <3>2, <3>3, <3>4
  <2>4. CASE k > j
    <3>1. j + 1 \in 1 .. n
      BY <1>6, <2>4
    <3>2. first(list[j + 1]) <= first(q)
      <4>1. CASE k = j + 1
        BY <1>5, <2>1, <4>1
      <4>2. CASE k # j + 1
        BY <1>1, <1>3, <1>6, <2>1, <2>4, <3>1, <4>2
      <4> QED
        BY <4>1, <4>2
    <3>3. list[j + 1] \in Taken /\ o + s <= first(list[j + 1])
      BY <1>10, <3>1
    <3>4. first(list[j + 1]) \in Nat /\ first(q) \in Nat
      BY <1>5, <3>3
    <3> QED
      BY <3>2, <3>3, <3>4
  <2> QED
    BY <1>6, <2>2, <2>3, <2>4
<1>12. /\ endOffset(j) \in Nat \ {0} /\ endOffset(j) % PARTITION_ALIGN = 0
       /\ firstAvailableBlock * blockSize <= endOffset(j)
  <2>1. f <= o
    BY <1>4, <1>5, <1>6, <1>9
  <2> QED
    BY <1>2, <1>3, <1>9, <2>1
<1>13. \A q \in Taken : past(q) <= endOffset(j) \/ endOffset(j) + pz.size <= first(q)
  BY <1>7, <1>9, <1>11
<1>14. CASE Whole
  <2>1. Reach = e
    BY <1>2, <1>14 DEF Reach
  <2>2. o + s <= e
    <3>1. CASE j + 1 \in 1 .. n
      <4>1. list[j + 1] \in Taken /\ o + s <= first(list[j + 1])
        BY <1>10, <3>1
      <4>2. past(list[j + 1]) <= e
        BY <1>4, <2>1, <4>1
      <4> QED
        BY <1>5, <4>1, <4>2
    <3>2. CASE j + 1 \notin 1 .. n
      <4>1. e % A = 0 /\ f + z = e
        BY <1>2, <1>3, <1>14 DEF Whole
      <4>2. past(list[j]) <= e
        BY <1>4, <1>6, <2>1
      <4>3. o <= e
        BY <1>9, <4>1, <4>2
      <4>4. PICK d \in Nat : d = e - o /\ d < W
        BY <1>3, <1>8, <2>1, <4>3
      <4>5. d % W = d
        BY <4>4, ModSmall
      <4>6. DOMAIN list = 1 .. n
        BY <1>1, <1>3
      <4>7. maxOffset + 1 - o = d
        <5>1. maxOffset \in Nat
          BY <1>1, ArgumentTypes DEF TypeOK
        <5> QED
          BY <1>2, <4>1, <4>4, <5>1
      <4>8. avail(j) = d
        BY <1>3, <1>9, <3>2, <4>5, <4>6, <4>7 DEF avail
      <4> QED
        BY <1>7, <4>4, <4>8 DEF Fits
    <3> QED
      BY <3>1, <3>2
  <2> QED
    BY <1>2, <1>7, <1>9, <1>12, <1>13, <1>14, <2>2
<1>15. CASE ~Whole
  <2>1. PICK c \in Nat : c = Cardinality(Taken)
    BY <1>1, TakenFinite
  <2>2. PICK B \in Nat : B = e + A
    OBVIOUS
  <2>3. PICK cB \in Nat : cB = c * B
    OBVIOUS
  <2>4. (c + 1) * B = cB + B
    BY <2>3
  <2>5. Reach = cB
    BY <1>2, <1>3, <1>15, <2>1, <2>2, <2>3 DEF Reach
  <2>6. o + s <= cB + B
    BY <1>2, <1>4, <1>5, <1>6, <1>7, <1>9, <2>2, <2>5
  <2> QED
    BY <1>2, <1>3, <1>7, <1>9, <1>12, <1>13, <1>15, <2>1, <2>2, <2>4, <2>6
<1> QED
  BY <1>14, <1>15

\* Placing a partition does not touch what is assumed of the application's choices.
LEMMA PlaceAccepted ==
  ASSUME Basic, Placing, NEW offset \in Size, Place(offset), Accepted'
  PROVE  Accepted
<1>1. /\ list[1] \in DOMAIN request /\ table[list[1]].offset = 0
      /\ table' \in [DOMAIN request -> Part]
      /\ \A p \in DOMAIN request \ {list[1]} : table'[p] = table[p]
      /\ \A p \in DOMAIN request : table'[p].size = table[p].size
      /\ pc = "place" /\ device' = device /\ request' = request
  BY PlaceFacts
<1>2. DOMAIN table = DOMAIN request /\ DOMAIN table' = DOMAIN request
  BY <1>1 DEF Basic, TypeOK
<1>3. list[1] \notin Chosen /\ Chosen \subseteq DOMAIN request /\ Chosen' = Chosen
  BY <1>1 DEF Basic, Keeps, Chosen
<1>4. \A p \in Chosen : first(p)' = first(p) /\ past(p)' = past(p)
  BY <1>1, <1>3 DEF first, past
<1>5. ChosenWell
  BY <1>1, <1>3, <1>4, DeviceOnly DEF Accepted, ChosenWell, Disjoint, Inside
<1>6. Roomy /\ NoWrap
  BY <1>1, DeviceOnly DEF Accepted, NoWrap
<1>7. NoneEmpty
  BY <1>1, <1>2 DEF Accepted, NoneEmpty
<1>8. NoneTooLarge
  BY <1>1, <1>2, DeviceOnly DEF Accepted, NoneTooLarge
<1> QED
  BY <1>5, <1>6, <1>7, <1>8 DEF Accepted

\* A partition that is placed clear of the others and within Reach.
LEMMA PlacePlaced ==
  ASSUME Basic, Placed, Placing, NEW offset \in Size, Place(offset),
         Accepted =>
           /\ offset # 0 /\ offset % PARTITION_ALIGN = 0
           /\ firstAvailableBlock * blockSize <= offset
           /\ \A q \in Taken : past(q) <= offset \/ offset + pz.size <= first(q)
           /\ offset + pz.size <=
                IF Whole THEN LastBlock * blockSize
                  ELSE (Cardinality(Taken) + 1) * (LastBlock * blockSize + PARTITION_ALIGN)
  PROVE  Placed'
<1> SUFFICES ASSUME Accepted'
             PROVE  /\ \A p \in Taken' : /\ first(p)' % PARTITION_ALIGN = 0
                                         /\ (firstAvailableBlock * blockSize)' <= first(p)'
                                         /\ past(p)' <= Reach'
                    /\ Disjoint(Taken)'
  BY DEF Placed
<1>1. Accepted
  BY PlaceAccepted
<1>2. PICK p1 : p1 = list[1]
  OBVIOUS
<1>3. /\ p1 \in DOMAIN request /\ table[p1].offset = 0
      /\ table' \in [DOMAIN request -> Part]
      /\ table'[p1] = [offset |-> offset, size |-> table[p1].size]
      /\ \A p \in DOMAIN request \ {p1} : table'[p] = table[p]
      /\ pc = "place" /\ device' = device /\ request' = request
  BY <1>2, PlaceFacts
<1>4. DOMAIN table = DOMAIN request /\ DOMAIN table' = DOMAIN request /\ TypeOK
  BY <1>3 DEF Basic, TypeOK
<1>5. Taken' = Taken \cup {p1} /\ p1 \notin Taken
  BY <1>1, <1>3, <1>4 DEF Taken
<1>6. \A p \in Taken : first(p)' = first(p) /\ past(p)' = past(p)
  BY <1>3, <1>4, <1>5 DEF Taken, first, past
<1>7. first(p1)' = offset /\ past(p1)' = offset + pz.size
  BY <1>2, <1>3 DEF first, past, pz
<1>8. PICK c \in Nat : /\ c = Cardinality(Taken) /\ Cardinality(Taken') = c + 1
  <2>1. IsFiniteSet(Taken) /\ Cardinality(Taken) \in Nat
    BY <1>4, TakenFinite
  <2>2. Cardinality(Taken \cup {p1}) = Cardinality(Taken) + 1
    BY <1>5, <2>1, FS_AddElement
  <2> QED
    BY <1>5, <2>1, <2>2
<1>9. Reach' = IF Whole THEN LastBlock * blockSize
                 ELSE (c + 1) * (LastBlock * blockSize + PARTITION_ALIGN)
  BY <1>3, <1>8, DeviceOnly DEF Reach
<1>10. Reach <= Reach' /\ Reach \in Nat /\ Reach' \in Nat
  <2>1. PICK e \in Nat, A \in Nat : e = LastBlock * blockSize /\ A = PARTITION_ALIGN
    BY <1>1, <1>4, Space, DeviceFacts DEF Accepted, TypeOK
  <2>2. c * (e + A) \in Nat /\ (c + 1) * (e + A) \in Nat /\ c * (e + A) <= (c + 1) * (e + A)
    BY MulMono
  <2> QED
    BY <1>8, <1>9, <2>1, <2>2 DEF Reach
<1>11. \A p \in Taken : past(p) \in Nat /\ past(p) <= Reach
  BY <1>1, <1>3, <1>4, PartFacts DEF Placed, Taken, past
<1>12. ASSUME NEW p \in Taken'
       PROVE  /\ first(p)' % PARTITION_ALIGN = 0
              /\ (firstAvailableBlock * blockSize)' <= first(p)'
              /\ past(p)' <= Reach'
  <2>1. firstAvailableBlock' = firstAvailableBlock
    BY <1>3, DeviceOnly
  <2>2. CASE p = p1
    BY <1>1, <1>7, <1>8, <1>9, <2>1, <2>2
  <2>3. CASE p \in Taken
    <3>1. /\ first(p) % PARTITION_ALIGN = 0
          /\ firstAvailableBlock * blockSize <= first(p)
      BY <1>1, <1>3, <2>3 DEF Placed
    <3>2. past(p) <= Reach'
      BY <1>10, <1>11, <2>3
    <3> QED
      BY <1>6, <2>1, <2>3, <3>1, <3>2
  <2> QED
    BY <1>5, <1>12, <2>2, <2>3
<1>13. Disjoint(Taken)'
  <2>1. Disjoint(Taken)
    BY <1>1, <1>3 DEF Placed
  <2>2. \A q \in Taken : past(q) <= offset \/ offset + pz.size <= first(q)
    BY <1>1
  <2> QED
    BY <1>5, <1>6, <1>7, <2>1, <2>2 DEF Disjoint
<1> QED
  BY <1>12, <1>13

\* The first partition of all is placed at the beginning of the space.
LEMMA PlaceFirstPlaced ==
  ASSUME Basic, Placed, PlaceFirst
  PROVE  Placed'
<1>1. /\ Placing /\ Positioned = {} /\ Place(minOffset) /\ TypeOK /\ minOffset \in Size
      /\ pc = "place"
  BY ArgumentTypes DEF PlaceFirst, Basic, TypeOK, Placing
<1>2. Taken = {}
  <2>1. \A j \in DOMAIN request : table[list[j]].offset = 0
    BY <1>1 DEF Positioned, pr, Basic, Ordered
  <2>2. \A p \in DOMAIN request : table[p].offset = 0
    BY <1>1, <2>1, ListComplete
  <2> QED
    BY <1>1, <2>2 DEF Taken, TypeOK
<1>3. ASSUME Accepted
      PROVE  /\ minOffset # 0 /\ minOffset % PARTITION_ALIGN = 0
             /\ firstAvailableBlock * blockSize <= minOffset
             /\ minOffset + pz.size <=
                  IF Whole THEN LastBlock * blockSize
                    ELSE (Cardinality(Taken) + 1) * (LastBlock * blockSize + PARTITION_ALIGN)
  <2>1. PICK f \in Nat \ {0}, z \in Nat, e \in Nat, A \in Nat :
          /\ f = firstAvailableBlock * blockSize /\ f % A = 0
          /\ z = totalAvailableBlocks * blockSize
          /\ e = LastBlock * blockSize /\ minOffset = f /\ f + z <= e
          /\ A = PARTITION_ALIGN
    BY <1>1, <1>3, Space, DeviceFacts DEF Accepted, TypeOK
  <2>2. PICK s \in Nat : s = pz.size /\ s <= z
    <3>1. 1 \in DOMAIN request /\ list[1] \in DOMAIN request /\ DOMAIN table = DOMAIN request
      BY <1>1 DEF Basic, Ordered, TypeOK
    <3>2. table[list[1]].size <= z
      BY <1>3, <2>1, <3>1 DEF Accepted, NoneTooLarge
    <3> QED
      BY <1>1, <3>1, <3>2, PartFacts DEF pz
  <2>3. Cardinality(Taken) = 0
    BY <1>2, FS_EmptySet
  <2>4. (0 + 1) * (e + A) = e + A
    OBVIOUS
  <2>5. f + s <= e /\ f + s <= e + A
    BY <2>1, <2>2
  <2> QED
    BY <2>1, <2>2, <2>3, <2>4, <2>5
<1> QED
  BY <1>1, <1>2, <1>3, PlacePlaced

\* The next is placed in the first gap that is large enough.
LEMMA PlaceInGapPlaced ==
  ASSUME Basic, Placed, PlaceInGap
  PROVE  Placed'
<1>1. PICK j \in Positioned : Fits(j) /\ Place(endOffset(j)) /\ Placing
  BY DEF PlaceInGap
<1>2. endOffset(j) \in Size
  BY <1>1, EndOffsetType DEF Basic, Ordered, Placing, Positioned
<1> QED
  BY <1>1, <1>2, Gap, PlacePlaced

\* Before any is placed, those that have a position are the application's.
LEMMA SortListPlaced ==
  ASSUME Basic, SortList
  PROVE  Placed'
<1> SUFFICES ASSUME Accepted'
             PROVE  /\ \A p \in Taken' : /\ first(p)' % PARTITION_ALIGN = 0
                                         /\ (firstAvailableBlock * blockSize)' <= first(p)'
                                         /\ past(p)' <= Reach'
                    /\ Disjoint(Taken)'
  BY DEF Placed
<1>1. pc = "size" /\ UNCHANGED <<device, request, table>> /\ TypeOK
  BY DEF SortList, Sized, Basic
<1>2. Accepted
  BY <1>1, DeviceOnly DEF Accepted, NoWrap, NoneEmpty, NoneTooLarge, ChosenWell, Chosen, first, past,
                          Disjoint, Inside
<1>3. Taken' = Taken /\ Taken = Chosen
  BY <1>1 DEF Taken, Chosen, Basic, Keeps, TypeOK
<1>4. Reach' = Reach
  BY <1>1, <1>3, DeviceOnly DEF Reach
<1>5. ASSUME NEW p \in Taken
      PROVE  past(p) <= Reach
  <2>1. PICK e \in Nat, A \in Nat : e = LastBlock * blockSize /\ A = PARTITION_ALIGN
    BY <1>1, <1>2, Space, DeviceFacts DEF Accepted, TypeOK
  <2>2. past(p) \in Nat /\ past(p) <= e
    BY <1>1, <1>2, <1>3, <1>5, <2>1, PartFacts DEF Accepted, ChosenWell, Inside, past, Chosen
  <2>3. PICK c \in Nat : c = Cardinality(Taken) /\ c >= 1
    <3>1. IsFiniteSet(Taken) /\ Cardinality(Taken) \in Nat
      BY <1>1, TakenFinite
    <3>2. Cardinality(Taken) # 0
      BY <1>5, <3>1, FS_EmptySet
    <3> QED
      BY <3>1, <3>2
  <2>4. 1 * (e + A) <= c * (e + A) /\ 1 * (e + A) = e + A
    BY <2>3, MulMono
  <2> QED
    BY <2>1, <2>2, <2>3, <2>4 DEF Reach
<1>6. ASSUME NEW p \in Taken
      PROVE  first(p) % PARTITION_ALIGN = 0 /\ firstAvailableBlock * blockSize <= first(p)
  BY <1>2, <1>3, <1>6 DEF Accepted, ChosenWell, Inside
<1>7. Disjoint(Taken)
  BY <1>2, <1>3 DEF Accepted, ChosenWell
<1> QED
  BY <1>1, <1>3, <1>4, <1>5, <1>6, <1>7, DeviceOnly DEF first, past, Disjoint

\* The assertion at the end: if the last partition is inside the space, all are.
LEMMA EndSound ==
  ASSUME Basic, Placed, End, result' = "Success", Accepted
  PROVE  Sound /\ Aligned
<1>1. /\ TypeOK /\ pc = "place" /\ table[list[1]].offset # 0
      /\ list \in [DOMAIN request -> DOMAIN request] /\ DOMAIN table = DOMAIN request
      /\ \A a, b \in DOMAIN request : a < b =>
           first(list[a]) <= first(list[b]) /\ list[a] # list[b]
  BY DEF Basic, End, Ordered, TypeOK, pr, first
<1>2. PICK n \in Nat : n >= 1 /\ DOMAIN request = 1 .. n
  BY <1>1 DEF TypeOK
<1>3. PICK f \in Nat \ {0}, z \in Nat, e \in Nat, A \in Nat \ {0}, R \in Nat \ {0} :
        /\ f = firstAvailableBlock * blockSize /\ e = LastBlock * blockSize
        /\ maxOffset + 1 = f + z /\ f + z <= e
        /\ A = PARTITION_ALIGN /\ R = device.range
  BY <1>1, Space, DeviceFacts DEF TypeOK, Accepted
<1>4. \A p \in 1 .. n : /\ first(p) \in Nat /\ past(p) \in Nat /\ first(p) < past(p)
                        /\ past(p) = table[p].offset + table[p].size
  <2> SUFFICES ASSUME NEW p \in 1 .. n
               PROVE  first(p) \in Nat /\ past(p) \in Nat /\ first(p) < past(p)
    BY DEF past
  <2>1. table[p].size # 0
    BY <1>1, <1>2 DEF Accepted, NoneEmpty
  <2>2. p \in DOMAIN request
    BY <1>2
  <2>3. table[p].offset \in Nat /\ table[p].size \in Nat
    BY <1>1, <2>2, PartFacts
  <2> QED
    BY <2>1, <2>3 DEF first, past
<1>5. Taken = 1 .. n
  <2>1. ASSUME NEW k \in 1 .. n
        PROVE  first(list[k]) # 0
    <3>1. first(list[1]) # 0
      BY <1>1 DEF first
    <3>2. 1 \in DOMAIN request /\ k \in DOMAIN request /\ (k = 1 \/ 1 < k)
      BY <1>2
    <3>3. k = 1 \/ first(list[1]) <= first(list[k])
      BY <1>1, <3>2
    <3>4. list[1] \in 1 .. n /\ list[k] \in 1 .. n
      BY <1>1, <1>2, <3>2
    <3>5. first(list[1]) \in Nat /\ first(list[k]) \in Nat
      BY <1>4, <3>4
    <3> QED
      BY <3>1, <3>3, <3>5
  <2>2. ASSUME NEW p \in 1 .. n
        PROVE  table[p].offset # 0
    <3>1. PICK k \in 1 .. n : list[k] = p
      BY <1>1, <1>2, ListComplete
    <3> QED
      BY <2>1, <3>1 DEF first
  <2> QED
    BY <1>1, <1>2, <2>2 DEF Taken
<1>6. /\ \A p \in 1 .. n : f <= first(p) /\ past(p) <= Reach /\ first(p) % PARTITION_ALIGN = 0
      /\ Disjoint(1 .. n)
  BY <1>1, <1>3, <1>5 DEF Placed
<1>7. PICK l \in 1 .. n : l = list[n]
  BY <1>1, <1>2
<1>8. past(l) <= e
  <2>1. PICK x \in Nat : x + 1 = past(l) /\ x < R
    <3>1. Reach \in Nat /\ Reach + A <= R
      BY <1>1, <1>3, ReachBounded
    <3>2. past(l) <= Reach /\ past(l) \in Nat /\ past(l) # 0
      BY <1>4, <1>6
    <3>3. past(l) - 1 \in Nat /\ past(l) - 1 + 1 = past(l) /\ past(l) - 1 < R
      BY <3>1, <3>2
    <3> QED
      BY <3>3
  <2>2. x % R = x
    BY <2>1, ModSmall
  <2>3. table[l].offset + table[l].size - 1 = x
    <3>1. table[l].offset \in Nat /\ table[l].size \in Nat
      BY <1>1, <1>2, PartFacts
    <3> QED
      BY <1>4, <2>1, <3>1
  <2>4. (table[l].offset + table[l].size - 1) % R <= maxOffset
    <3>1. Len(list) = n
      BY <1>1, <1>2
    <3> QED
      BY <1>3, <1>7, <3>1 DEF End, Finish, pr
  <2>5. maxOffset \in Nat
    BY <1>1, ArgumentTypes DEF TypeOK
  <2>6. x <= maxOffset
    BY <2>2, <2>3, <2>4
  <2> QED
    BY <1>3, <2>1, <2>5, <2>6
<1>9. ASSUME NEW p \in 1 .. n
      PROVE  past(p) <= e
  <2>1. PICK k \in 1 .. n : list[k] = p
    BY <1>1, <1>2, ListComplete
  <2>2. CASE k = n
    BY <1>7, <1>8, <2>1, <2>2
  <2>3. CASE k # n
    <3>1. k < n /\ n \in 1 .. n
      BY <1>2, <2>3
    <3>2. first(p) <= first(l) /\ p # l
      BY <1>1, <1>2, <1>7, <2>1, <3>1
    <3>3. past(p) <= first(l) \/ past(l) <= first(p)
      BY <1>6, <3>2 DEF Disjoint
    <3> QED
      BY <1>4, <1>8, <3>2, <3>3
  <2> QED
    BY <2>2, <2>3
<1> QED
  BY <1>1, <1>2, <1>3, <1>6, <1>9 DEF Sound, Inside, Aligned

\* SuccessIsSound depends on the table, the request and the device only.
LEMMA SameSound ==
  ASSUME UNCHANGED <<device, request, table>>
  PROVE  /\ Accepted' = Accepted
         /\ Sound' = Sound
BY DeviceOnly DEF Accepted, NoWrap, NoneEmpty, NoneTooLarge, ChosenWell, Chosen, first, past,
                  Disjoint, Inside, Sound

\* Every step keeps the invariant.
LEMMA NextInv ==
  ASSUME Inv, [Next]_vars
  PROVE  Inv'
<1>1. Basic /\ Placed /\ SuccessIsSound
  BY DEF Inv, Basic
<1>2. Basic'
  BY <1>1, NextBasic
<1>3. Placed'
  <2>1. CASE UNCHANGED vars
    <3>1. UNCHANGED <<device, request, table, pc>>
      BY <2>1 DEF vars
    <3>2. Taken' = Taken /\ firstAvailableBlock' = firstAvailableBlock
      BY <3>1, DeviceOnly DEF Taken
    <3>3. Reach' = Reach
      BY <3>1, <3>2, DeviceOnly DEF Reach
    <3> QED
      BY <1>1, <3>1, <3>2, <3>3, SameSound DEF Placed, first, past, Disjoint
  <2>2. CASE pc' # "place"
    BY <2>2 DEF Placed
  <2>3. SizePercentage \/ SizeExplicit => pc' # "place"
    BY DEF SizePercentage, SizeExplicit, Sizing, NextPart, Finish
  <2>4. NoBlocksLeft \/ MisAligned \/ ExceedsSpace \/ NoGap \/ End => pc' # "place"
    BY DEF NoBlocksLeft, MisAligned, ExceedsSpace, NoGap, End, Finish
  <2> QED
    BY <1>1, <2>1, <2>2, <2>3, <2>4, SortListPlaced, PlaceFirstPlaced, PlaceInGapPlaced DEF Next
<1>4. SuccessIsSound'
  <2>1. CASE UNCHANGED vars
    BY <1>1, <2>1, SameSound DEF vars, SuccessIsSound, Accepted
  <2>2. CASE End
    <3>1. UNCHANGED <<device, request, table>>
      BY <2>2 DEF End
    <3> QED
      BY <1>1, <2>2, <3>1, EndSound, SameSound DEF SuccessIsSound, Accepted
  <2>3. CASE Next /\ ~End
    <3>1. pc # "done"
      BY <2>3 DEF Next, SizePercentage, NoBlocksLeft, SizeExplicit, MisAligned, ExceedsSpace,
                  SortList, PlaceFirst, PlaceInGap, NoGap, Sizing, Sized, Placing
    <3>2. result = "none"
      BY <1>1, <3>1 DEF Basic, Ended
    <3>3. result' # "Success"
      BY <2>3, <3>2 DEF Next, SizePercentage, NoBlocksLeft, SizeExplicit, MisAligned, ExceedsSpace,
                  SortList, PlaceFirst, PlaceInGap, NoGap, Place, NextPart, Finish
    <3> QED
      BY <3>3 DEF SuccessIsSound
  <2> QED
    BY <2>1, <2>2, <2>3
<1> QED
  BY <1>2, <1>3, <1>4 DEF Inv, Basic

\* When validate returns Success, the partitions are disjoint and inside the space
\* of the device, for every table and in builds of either width: the loop that
\* places them one at a time never covers a partition that is in place already, and
\* the assertion about the last one is enough to know that all are inside.
THEOREM SuccessSound == Spec => []SuccessIsSound
<1>1. Init => Inv
  <2>1. Init => Basic
    BY InitBasic
  <2>2. Init => Placed /\ SuccessIsSound
    BY DEF Init, Placed, SuccessIsSound
  <2> QED
    BY <2>1, <2>2 DEF Inv, Basic
<1>2. Inv /\ [Next]_vars => Inv'
  BY NextInv
<1>3. Inv => SuccessIsSound
  BY DEF Inv
<1> QED
  BY <1>1, <1>2, <1>3, PTL DEF Spec

(***************************************************************************)
(* validate and the disk                                                   *)
(***************************************************************************)

LEMMA NextAligned ==
  ASSUME Inv, SuccessIsAligned, [Next]_vars
  PROVE  SuccessIsAligned'
<1>1. Basic /\ Placed
  BY DEF Inv, Basic
<1>2. CASE UNCHANGED vars
  <2>1. UNCHANGED <<device, request, table, result>>
    BY <1>2 DEF vars
  <2> QED
    BY <2>1, SameSound DEF SuccessIsAligned, Aligned, first
<1>3. CASE End
  <2>1. UNCHANGED <<device, request, table>>
    BY <1>3 DEF End
  <2>2. Aligned' = Aligned
    BY <2>1 DEF Aligned, first
  <2> QED
    BY <1>1, <1>3, <2>1, <2>2, EndSound, SameSound DEF SuccessIsAligned
<1>4. CASE Next /\ ~End
  <2>1. pc # "done"
    BY <1>4 DEF Next, SizePercentage, NoBlocksLeft, SizeExplicit, MisAligned, ExceedsSpace,
                SortList, PlaceFirst, PlaceInGap, NoGap, Sizing, Sized, Placing
  <2>2. result = "none"
    BY <1>1, <2>1 DEF Basic, Ended
  <2>3. result' # "Success"
    BY <1>4, <2>2 DEF Next, SizePercentage, NoBlocksLeft, SizeExplicit, MisAligned, ExceedsSpace,
                SortList, PlaceFirst, PlaceInGap, NoGap, Place, NextPart, Finish
  <2> QED
    BY <2>3 DEF SuccessIsAligned
<1> QED
  BY <1>2, <1>3, <1>4

\* The two ways of rounding up agree: PartInfo.cpp's, where it does not wrap, and Format's.
LEMMA RoundUpAgain ==
  ASSUME NEW v \in Nat, NEW m \in Nat \ {0}
  PROVE  v + ((0 - v) % m) = (v + (m - 1)) - ((v + (m - 1)) % m)
<1>1. PICK w \in Nat : /\ w = (v + (m - 1)) - ((v + (m - 1)) % m)
                       /\ v <= w /\ w < v + m /\ w % m = 0
  BY RoundUp
<1>2. PICK r \in Nat : r = w - v /\ r < m
  BY <1>1
<1>3. PICK k \in Nat : w = k * m
  BY <1>1, Multiple
<1>4. PICK j \in Int : j = 0 - k
  OBVIOUS
<1>5. 0 - v = j * m + r
  <2>1. j * m = 0 - k * m
    BY <1>4
  <2> QED
    BY <1>2, <1>3, <2>1
<1>6. (j * m + r) % m = r
  BY <1>2
<1> QED
  BY <1>1, <1>2, <1>5, <1>6

LEMMA FirstSector ==
  ASSUME device \in Devices, Roomy
  PROVE  firstSector = firstAvailableBlock
<1>1. PICK c \in Nat \ {0}, b \in Nat \ {0}, A \in Nat \ {0} :
        c = blockAlign /\ b = blockSize /\ A = PARTITION_ALIGN /\ c * b = A
  BY BlockAlign, DeviceFacts
<1>2. CASE device.scheme = "mbr"
  BY <1>2 DEF firstSector, firstAvailableBlock
<1>3. CASE device.scheme # "mbr"
  <2>1. PICK v \in Nat, R \in Nat \ {0}, s \in Nat :
          /\ v = 2 + numPartitionTableSectors /\ R = device.range /\ s = device.sectors
    BY DeviceFacts
  <2>2. firstAvailableBlock = align_up(v, c) /\ firstAvailableBlock \in Nat
    BY <1>1, <1>3, <2>1, ArgumentTypes DEF firstAvailableBlock
  <2>3. LastBlock = s - (v - 1)
    BY <1>3, <2>1, DeviceFacts DEF LastBlock
  <2>4. v <= s /\ s * b + A < R
    BY <1>1, <2>1, <2>2, <2>3 DEF Roomy
  <2>5. PICK sb \in Nat, cb \in Nat : sb = s * b /\ cb = c * b /\ s <= sb /\ c <= cb
    OBVIOUS
  <2>6. PICK u \in Nat : u = v + (c - 1) /\ u < R
    BY <1>1, <2>4, <2>5
  <2>7. align_up(v, c) = u - (u % c)
    BY <2>1, <2>6, ModSmall DEF align_up, align
  <2>8. firstSector = v + ((0 - v) % c)
    BY <1>1, <1>3, <2>1 DEF firstSector
  <2>9. v + ((0 - v) % c) = (v + (c - 1)) - ((v + (c - 1)) % c)
    BY RoundUpAgain
  <2> QED
    BY <2>2, <2>6, <2>7, <2>8, <2>9
<1> QED
  BY <1>2, <1>3

\* An interval of bytes and the whole sectors in it.
LEMMA WholeSectors ==
  ASSUME NEW b \in Nat \ {0}, NEW x \in Nat, NEW y \in Nat, x % b = 0, x <= y,
         NEW F \in Nat, NEW L \in Nat, F * b <= x, y <= L * b
  PROVE  /\ F <= x \div b /\ y \div b <= L
         /\ x \div b \in Nat /\ y \div b \in Nat
         /\ x = (x \div b) * b /\ (y \div b) * b <= y
         /\ x + b <= y => x \div b < y \div b
<1>1. PICK q \in Nat : q = x \div b /\ x = q * b
  <2>1. x \div b \in Nat /\ x = (x \div b) * b + (x % b)
    BY DivMod
  <2> QED
    BY <2>1
<1>2. PICK k \in Nat, r \in Nat : k = y \div b /\ y = k * b + r /\ r < b
  <2>1. y \div b \in Nat /\ y = (y \div b) * b + (y % b)
    BY DivMod
  <2>2. y % b \in 0 .. b - 1
    BY ModRange
  <2> QED
    BY <2>1, <2>2
<1>3. F <= q
  <2>1. q < F => (q + 1) * b <= F * b
    BY MulMono
  <2>2. (q + 1) * b = q * b + b
    OBVIOUS
  <2> QED
    BY <1>1, <2>1, <2>2
<1>4. k <= L
  <2>1. L < k => (L + 1) * b <= k * b
    BY MulMono
  <2>2. (L + 1) * b = L * b + b
    OBVIOUS
  <2> QED
    BY <1>2, <2>1, <2>2
<1>5. x + b <= y => q < k
  <2>1. k <= q => k * b <= q * b
    BY MulMono
  <2> QED
    BY <1>1, <1>2, <2>1
<1>6. k * b <= y
  BY <1>2
<1> QED
  BY <1>1, <1>2, <1>3, <1>4, <1>5, <1>6

\* Partitions that do not share a byte do not share a sector.
LEMMA Apart ==
  ASSUME NEW b \in Nat \ {0}, NEW k \in Nat, NEW y \in Nat, k * b <= y,
         NEW q \in Nat, y <= q * b
  PROVE  k <= q
<1>1. q < k => (q + 1) * b <= k * b
  BY MulMono
<1>2. (q + 1) * b = q * b + b
  OBVIOUS
<1> QED
  BY <1>1, <1>2

LEMMA AcceptedOnDisk ==
  ASSUME TypeOK, SuccessIsSound, SuccessIsAligned
  PROVE  OnDisk
<1> SUFFICES ASSUME result = "Success", Accepted, NEW p \in DOMAIN table
             PROVE  /\ first(p) % blockSize = 0
                    /\ SectorsOf(p) \subseteq firstSector .. LastBlock - 1
                    /\ table[p].size >= blockSize => SectorsOf(p) # {}
                    /\ \A q \in DOMAIN table : p # q => SectorsOf(p) \cap SectorsOf(q) = {}
  BY DEF OnDisk
<1>1. Sound /\ Aligned /\ Roomy
  BY DEF SuccessIsSound, SuccessIsAligned, Accepted
<1>2. device \in Devices
  BY DEF TypeOK
<1>3. PICK b \in Nat \ {0}, c \in Nat \ {0}, F \in Nat, L \in Nat :
        /\ b = blockSize /\ c * b = PARTITION_ALIGN
        /\ F = firstAvailableBlock /\ F = firstSector /\ L = LastBlock
  <2>1. firstAvailableBlock < LastBlock
    BY <1>1 DEF Roomy
  <2>2. firstAvailableBlock \in Nat /\ LastBlock \in Int
    BY <1>2, ArgumentTypes
  <2>3. firstAvailableBlock = firstSector
    BY <1>1, <1>2, FirstSector
  <2> QED
    BY <1>2, <2>1, <2>2, <2>3, BlockAlign, DeviceFacts
<1>4. ASSUME NEW q \in DOMAIN table
      PROVE  /\ first(q) \in Nat /\ past(q) \in Nat /\ first(q) <= past(q)
             /\ table[q].size >= b => first(q) + b <= past(q)
             /\ first(q) % b = 0
             /\ F * b <= first(q) /\ past(q) <= L * b
  <2>1. table[q].offset \in Nat /\ table[q].size \in Nat
    BY PartFacts DEF TypeOK
  <2>2. F * b <= first(q) /\ past(q) <= L * b
    BY <1>1, <1>3 DEF Sound, Inside
  <2>3. first(q) % b = 0
    <3>1. PICK x \in Nat, A \in Nat \ {0} : x = first(q) /\ A = c * b /\ x % A = 0
      BY <1>1, <1>2, <1>3, <2>1, DeviceFacts DEF Aligned, first
    <3>2. PICK k \in Nat : x = k * A
      BY <3>1, Multiple
    <3>3. x = (k * c) * b
      BY <3>1, <3>2
    <3>4. PICK m \in Nat : m = k * c
      OBVIOUS
    <3> QED
      BY <3>1, <3>3, <3>4, MulMod
  <2> QED
    BY <1>3, <2>1, <2>2, <2>3 DEF first, past
<1>5. ASSUME NEW q \in DOMAIN table
      PROVE  \E x \in Nat, y \in Nat :
               /\ x = first(q) \div b /\ y = past(q) \div b
               /\ F <= x /\ y <= L /\ first(q) = x * b /\ y * b <= past(q)
               /\ table[q].size >= b => x < y
  <2>1. PICK u \in Nat, v \in Nat : /\ u = first(q) /\ v = past(q) /\ u <= v /\ u % b = 0
                                    /\ F * b <= u /\ v <= L * b
                                    /\ table[q].size >= b => u + b <= v
    BY <1>4
  <2>2. /\ F <= u \div b /\ v \div b <= L
        /\ u \div b \in Nat /\ v \div b \in Nat
        /\ u = (u \div b) * b /\ (v \div b) * b <= v
        /\ u + b <= v => u \div b < v \div b
    BY <2>1, WholeSectors
  <2> QED
    BY <2>1, <2>2
<1>6. PICK x \in Nat, y \in Nat :
        /\ x = first(p) \div b /\ y = past(p) \div b
        /\ F <= x /\ y <= L /\ first(p) = x * b /\ y * b <= past(p)
        /\ table[p].size >= b => x < y
  BY <1>5
<1>7. SectorsOf(p) = x .. y - 1
  BY <1>3, <1>6 DEF SectorsOf
<1>8. ASSUME NEW q \in DOMAIN table, p # q
      PROVE  SectorsOf(p) \cap SectorsOf(q) = {}
  <2>1. PICK u \in Nat, v \in Nat :
          /\ u = first(q) \div b /\ v = past(q) \div b
          /\ first(q) = u * b /\ v * b <= past(q)
    BY <1>5
  <2>2. SectorsOf(q) = u .. v - 1
    BY <1>3, <2>1 DEF SectorsOf
  <2>3. past(p) <= first(q) \/ past(q) <= first(p)
    BY <1>1, <1>8 DEF Sound, Disjoint
  <2>4. past(p) \in Nat /\ past(q) \in Nat
    BY <1>4
  <2>5. y <= u \/ v <= x
    BY <1>6, <2>1, <2>3, <2>4, Apart
  <2> QED
    BY <1>7, <2>2, <2>5
<1>9. SectorsOf(p) \subseteq F .. L - 1 /\ (table[p].size >= b => SectorsOf(p) # {})
  <2>1. x .. y - 1 \subseteq F .. L - 1
    BY <1>6
  <2>2. x < y => x \in x .. y - 1
    OBVIOUS
  <2> QED
    BY <1>6, <1>7, <2>1, <2>2
<1> QED
  BY <1>3, <1>4, <1>8, <1>9

\* What validate leaves of a table is what formatDisk needs: in whole sectors, every
\* partition begins at one, is between the two copies of a GPT or behind the MBR, shares
\* none with another, and has one if it has the size of one.  This is the part of module
\* DiskStorage's assumption about its tables that is about positions.
THEOREM TablesFitDisk == Spec => []OnDisk
<1>1. Init => Inv /\ SuccessIsAligned
  <2>1. Init => Basic
    BY InitBasic
  <2>2. Init => Placed /\ SuccessIsSound /\ SuccessIsAligned
    BY DEF Init, Placed, SuccessIsSound, SuccessIsAligned
  <2> QED
    BY <2>1, <2>2 DEF Inv, Basic
<1>2. Inv /\ SuccessIsAligned /\ [Next]_vars => (Inv /\ SuccessIsAligned)'
  BY NextInv, NextAligned
<1>3. Inv /\ SuccessIsAligned => OnDisk
  BY AcceptedOnDisk DEF Inv
<1> QED
  BY <1>1, <1>2, <1>3, PTL DEF Spec

(***************************************************************************)
(* validate ends                                                           *)
(***************************************************************************)

\* Iterations that can still come: the rest of the sizing loop, then one for each
\* partition without a position.
Left ==
  IF pc = "size" THEN 2 * Len(request) + 3 - i
  ELSE IF pc = "place" THEN Len(request) + 1 - Cardinality(Taken) ELSE 0

LEMMA LeftType ==
  ASSUME TypeOK
  PROVE  /\ Left \in Nat
         /\ pc = "size" => Left > Len(request) + 1
         /\ pc = "place" => Left \in 1 .. Len(request) + 1
<1>1. PICK n \in Nat, c \in Nat : n = Len(request) /\ c = Cardinality(Taken) /\ c <= n
  BY TakenFinite
<1>2. i \in 1 .. n + 1
  BY <1>1 DEF TypeOK
<1> QED
  BY <1>1, <1>2 DEF Left

LEMMA PlaceLeft ==
  ASSUME Basic, Placing, NEW offset \in Size, offset # 0, Place(offset)
  PROVE  Left' < Left
<1>1. PICK p1 : p1 = list[1]
  OBVIOUS
<1>2. /\ p1 \in DOMAIN request /\ table[p1].offset = 0
      /\ table' \in [DOMAIN request -> Part]
      /\ table'[p1] = [offset |-> offset, size |-> table[p1].size]
      /\ \A p \in DOMAIN request \ {p1} : table'[p] = table[p]
      /\ pc = "place" /\ pc' = "place" /\ request' = request
  BY <1>1, PlaceFacts
<1>3. DOMAIN table = DOMAIN request /\ DOMAIN table' = DOMAIN request /\ TypeOK
  BY <1>2 DEF Basic, TypeOK
<1>4. Taken' = Taken \cup {p1} /\ p1 \notin Taken
  BY <1>2, <1>3 DEF Taken
<1>5. IsFiniteSet(Taken) /\ Cardinality(Taken) \in Nat /\ Len(request) \in Nat
  BY <1>3, TakenFinite
<1>6. Cardinality(Taken') = Cardinality(Taken) + 1
  BY <1>4, <1>5, FS_AddElement
<1> QED
  BY <1>2, <1>5, <1>6 DEF Left

LEMMA NextLeft ==
  ASSUME Basic, Placed, Basic', Next, pc = "place" => Accepted
  PROVE  Left' < Left
<1>1. TypeOK /\ TypeOK'
  BY DEF Basic
<1>2. PICK n \in Nat : n = Len(request)
  BY <1>1, TakenFinite
<1>3. CASE SizePercentage \/ SizeExplicit
  <2>1. pc = "size" /\ Sizing /\ NextPart
    BY <1>3 DEF SizePercentage, SizeExplicit, Sizing
  <2>2. request' = request /\ (pc' = "done" \/ (pc' = pc /\ i' = i + 1))
    BY <2>1 DEF NextPart, Finish
  <2>3. i \in Int
    BY <1>1, <1>2 DEF TypeOK
  <2>4. CASE pc' = "done"
    <3>1. Left' = 0 /\ Left > n + 1
      BY <1>1, <1>2, <2>1, <2>4, LeftType DEF Left
    <3>2. Left \in Nat
      BY <1>1, LeftType
    <3> QED
      BY <3>1, <3>2
  <2>5. CASE pc' = pc /\ i' = i + 1
    BY <1>2, <2>1, <2>2, <2>3, <2>5 DEF Left
  <2> QED
    BY <2>2, <2>4, <2>5
<1>4. CASE NoBlocksLeft \/ MisAligned \/ ExceedsSpace \/ NoGap \/ End
  <2>1. pc' = "done" /\ pc \in {"size", "place"}
    BY <1>4 DEF NoBlocksLeft, MisAligned, ExceedsSpace, NoGap, End, Finish, Sizing, Sized, Placing
  <2>2. Left' = 0 /\ Left \in Nat /\ Left # 0
    BY <1>1, <1>2, <2>1, LeftType DEF Left
  <2> QED
    BY <2>2
<1>5. CASE SortList
  <2>1. pc = "size" /\ pc' = "place" /\ request' = request
    BY <1>5 DEF SortList, Sized
  <2>2. Left > n + 1 /\ Left \in Nat
    BY <1>1, <1>2, <2>1, LeftType
  <2>3. PICK c \in Nat : c = Cardinality(Taken')
    <3>1. Taken' = Taken
      BY <1>5 DEF SortList, Taken
    <3> QED
      BY <1>1, <3>1, TakenFinite
  <2>4. Left' = n + 1 - c
    BY <1>2, <2>1, <2>3 DEF Left
  <2> QED
    BY <2>2, <2>3, <2>4
<1>6. CASE PlaceFirst
  <2>1. Placing /\ Place(minOffset) /\ pc = "place" /\ minOffset \in Size
    BY <1>1, <1>6, ArgumentTypes DEF PlaceFirst, Placing, TypeOK
  <2>2. minOffset # 0
    BY <1>1, <2>1, Space DEF Accepted, TypeOK
  <2> QED
    BY <2>1, <2>2, PlaceLeft
<1>7. CASE PlaceInGap
  <2>1. PICK j \in Positioned : Fits(j) /\ Place(endOffset(j)) /\ Placing /\ pc = "place"
    BY <1>7 DEF PlaceInGap, Placing
  <2>2. endOffset(j) \in Size
    BY <1>1, <2>1, EndOffsetType DEF Basic, Ordered, Placing, Positioned
  <2>3. endOffset(j) # 0
    BY <2>1, Gap
  <2> QED
    BY <2>1, <2>2, <2>3, PlaceLeft
<1> QED
  BY <1>3, <1>4, <1>5, <1>6, <1>7 DEF Next

\* validate does not run for ever: each iteration of its loops lowers a natural number,
\* that of the sizing loop for any table, that of the search for positions under the
\* conditions of SuccessIsSound.  layout_hang shows, for a device that is not Roomy, a search that
\* finds position 0 again and again.
THEOREM ValidateEnds ==
  Spec => /\ [](Left \in Nat)
          /\ [][(pc = "place" => Accepted) => Left' < Left]_vars
<1>1. Init => Inv
  <2>1. Init => Basic
    BY InitBasic
  <2>2. Init => Placed /\ SuccessIsSound
    BY DEF Init, Placed, SuccessIsSound
  <2> QED
    BY <2>1, <2>2 DEF Inv, Basic
<1>2. Inv /\ [Next]_vars => Inv'
  BY NextInv
<1>3. Inv => Left \in Nat
  BY LeftType DEF Inv
<1>4. Inv /\ Inv' /\ [Next]_vars => [(pc = "place" => Accepted) => Left' < Left]_vars
  <2> SUFFICES ASSUME Inv, Inv', Next, pc = "place" => Accepted
               PROVE  Left' < Left
    OBVIOUS
  <2>1. Basic /\ Placed /\ Basic'
    BY DEF Inv, Basic
  <2> QED
    BY <2>1, NextLeft
<1> QED
  BY <1>1, <1>2, <1>3, <1>4, PTL DEF Spec
==============================================================================
