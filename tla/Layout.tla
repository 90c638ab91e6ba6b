------------------------------- MODULE Layout -------------------------------
(***************************************************************************)
(* Storage::Disk::validate: turning the partition table an application     *)
(* asks for into sizes and positions, before formatDisk writes it.         *)
(*                                                                         *)
(* The function calls nothing that can fail and runs in one thread; it is  *)
(* a state machine here, one step per iteration of its loops, so that what *)
(* the loops keep true can be stated and proved.  Its arithmetic is partly *)
(* that of uint64_t and partly that of storage_size_t, which is uint32_t   *)
(* unless the build has ENABLE_STORAGE_SIZE64.                             *)
(***************************************************************************)
EXTENDS Integers, Sequences

CONSTANTS
  PARTITION_ALIGN,           \* 1 MiB
  blockSize,                 \* bytes in a sector
  numPartitionTableSectors,  \* sectors of entries in a GPT
  Word,                      \* 2^64
  Word32,                    \* 2^32
  Devices,                   \* what is formatted: the scheme, how many sectors the device
                             \* has, and the range of storage_size_t, Word or Word32
  Offsets,                   \* offsets that applications ask for; 0 to have one chosen
  Sizes,                     \* sizes that they ask for: bytes, or at most 100 for a percentage
  MaxParts                   \* bound: partitions in a table

ASSUME LayoutAssumption ==
  /\ PARTITION_ALIGN \in Nat \ {0} /\ blockSize \in Nat \ {0, 1}
  /\ PARTITION_ALIGN % blockSize = 0
  /\ numPartitionTableSectors \in Nat
  /\ Word \in Nat \ {0} /\ Word32 \in 1 .. Word \div blockSize
  /\ Devices \subseteq [scheme : {"gpt", "mbr"}, sectors : Nat, range : {Word, Word32}]
  /\ \A d \in Devices : d.sectors < d.range
  /\ Offsets \subseteq Nat /\ Sizes \subseteq Nat
  /\ MaxParts \in Nat

VARIABLES
  device,       \* the device, and the build
  request,      \* the table as the application filled it in
  table,        \* the table as validate changes it
  pc,           \* "size", "place" or "done"
  i,            \* the sizing loop's partition
  totalBlocks,  \* local variable
  list,         \* local variable: the partitions by offset
  result        \* Error, or "assert" when the assertion fails

vars == <<device, request, table, pc, i, totalBlocks, list, result>>

\* A value of storage_size_t.
Size == 0 .. device.range - 1
Part == [offset : Size, size : Size]

(***************************************************************************)
(* Helpers                                                                 *)
(***************************************************************************)

align(value, alignment) == value - (value % alignment)

\* The arguments and the result are of type storage_size_t.
align_up(value, alignment) == align((value + alignment - 1) % device.range, alignment)

blockAlign == PARTITION_ALIGN \div blockSize

(***************************************************************************)
(* The arguments, as both formatDisk functions compute them                *)
(***************************************************************************)

firstAvailableBlock ==
  IF device.scheme = "mbr" THEN blockAlign ELSE align_up(2 + numPartitionTableSectors, blockAlign)

\* allocatableSectors: a subtraction of unsigned numbers, in uint32_t for MBR.
totalAvailableBlocks ==
  IF device.scheme = "mbr"
    THEN (device.sectors - firstAvailableBlock) % Word32
    ELSE (device.sectors - numPartitionTableSectors - 1 - firstAvailableBlock) % device.range

minOffset == (firstAvailableBlock * blockSize) % device.range

\* The sum is one of storage_size_t, the product one of uint64_t.
maxOffset ==
  (((firstAvailableBlock + totalAvailableBlocks) % device.range) * blockSize - 1) % Word

\* Vector::sort, an insertion sort that moves an element in front of those with
\* a greater offset: it keeps the order of elements with equal offsets.
Before(l, p, q) == \E a, b \in DOMAIN l : a < b /\ l[a] = p /\ l[b] = q
Sorted(l, t) ==
  {s \in [DOMAIN l -> DOMAIN t] :
     \A a, b \in DOMAIN l : a < b =>
       \/ t[s[a]].offset < t[s[b]].offset
       \/ t[s[a]].offset = t[s[b]].offset /\ Before(l, s[a], s[b])}

Finish(error) == pc' = "done" /\ result' = error

(***************************************************************************)
(* Sizes: one action per way through the body of the loop                  *)
(***************************************************************************)

Sizing == pc = "size" /\ i \in DOMAIN table
Percentage == table[i].size <= 100

OutOfRange ==
  /\ table[i].offset # 0
  /\ table[i].offset < minOffset \/ table[i].offset > maxOffset

\* The part of the space asked for, rounded up, clipped to what is left of it.
Wanted ==
  align_up((((totalAvailableBlocks * table[i].size) % Word) \div 100) % device.range, blockAlign)
Clipped == (totalBlocks + Wanted) % Word > totalAvailableBlocks
Blocks == IF Clipped THEN (totalAvailableBlocks - totalBlocks) % device.range ELSE Wanted

\* The end of the loop's body.
NextPart ==
  /\ IF OutOfRange
       THEN Finish("OutOfRange") /\ UNCHANGED i
       ELSE i' = i + 1 /\ UNCHANGED <<pc, result>>
  /\ UNCHANGED <<device, request, list>>

\* Mutant of SizePercentage: such a partition is always given a new position.
SizePercentageAnywhere ==
  /\ Sizing /\ Percentage
  /\ Clipped => Blocks # 0
  /\ table' = [table EXCEPT ![i] = [offset |-> 0, size |-> (Blocks * blockSize) % device.range]]
  /\ totalBlocks' = (totalBlocks + Blocks) % Word
  /\ NextPart

\* Mutant of SizePercentage: the size is kept in a wider type than storage_size_t.
SizePercentageWide ==
  /\ Sizing /\ Percentage
  /\ Clipped => Blocks # 0
  /\ table' = [table EXCEPT ![i].size = Blocks * blockSize]
  /\ totalBlocks' = (totalBlocks + Blocks) % Word
  /\ NextPart

SizePercentage ==
  /\ Sizing /\ Percentage
  /\ Clipped => Blocks # 0
  /\ table' = [table EXCEPT ![i].size = (Blocks * blockSize) % device.range]
  /\ totalBlocks' = (totalBlocks + Blocks) % Word
  /\ NextPart

NoBlocksLeft ==
  /\ Sizing /\ Percentage
  /\ Clipped /\ Blocks = 0
  /\ Finish("NoSpace")
  /\ UNCHANGED <<device, request, table, i, totalBlocks, list>>

\* What is added to the number of blocks is a number of bytes.
SizeExplicit ==
  /\ Sizing /\ ~Percentage
  /\ table[i].offset % PARTITION_ALIGN = 0
  /\ totalBlocks' = (totalBlocks + align_up(table[i].size, PARTITION_ALIGN)) % Word
  /\ UNCHANGED table
  /\ NextPart

MisAligned ==
  /\ Sizing /\ ~Percentage
  /\ table[i].offset % PARTITION_ALIGN # 0
  /\ Finish("MisAligned")
  /\ UNCHANGED <<device, request, table, i, totalBlocks, list>>

Sized == pc = "size" /\ i \notin DOMAIN table

ExceedsSpace ==
  /\ Sized
  /\ totalBlocks > totalAvailableBlocks
  /\ Finish("NoSpace")
  /\ UNCHANGED <<device, request, table, i, totalBlocks, list>>

SortList ==
  /\ Sized
  /\ totalBlocks <= totalAvailableBlocks
  /\ list' \in Sorted([k \in DOMAIN table |-> k], table)
  /\ pc' = "place"
  /\ UNCHANGED <<device, request, table, i, totalBlocks, result>>

(***************************************************************************)
(* Positions: each step places the first partition of the list             *)
(***************************************************************************)

Placing == pc = "place" /\ table[list[1]].offset = 0
pz == table[list[1]]
pr(j) == table[list[j]]

\* The partitions that have a position follow those that have none.
Positioned == {j \in DOMAIN list : pr(j).offset # 0}

endOffset(j) == align_up((pr(j).offset + pr(j).size) % device.range, PARTITION_ALIGN)

\* Mutant of avail: maxOffset is the last byte, not the one after it.
availToLast(j) ==
  IF j + 1 \in DOMAIN list THEN (pr(j + 1).offset - endOffset(j)) % device.range
                           ELSE (maxOffset - endOffset(j)) % Word

\* The gap after partition j, to the next one or to the end of the space.  When
\* there is none the subtraction wraps.
avail(j) ==
  IF j + 1 \in DOMAIN list THEN (pr(j + 1).offset - endOffset(j)) % device.range
                           ELSE (maxOffset + 1 - endOffset(j)) % Word

\* Mutant of Fits: the gap need only be as large as the partition before it.
FitsItself(j) == avail(j) >= pr(j).size

Fits(j) == avail(j) >= pz.size

Place(offset) ==
  /\ table' = [table EXCEPT ![list[1]].offset = offset]
  /\ list' \in Sorted(list, table')
  /\ UNCHANGED <<device, request, pc, i, totalBlocks, result>>

\* Mutant of PlaceFirst: the search starts from nothing, not from minOffset.
PlaceFirstAtZero == Placing /\ Positioned = {} /\ Place(0)

PlaceFirst == Placing /\ Positioned = {} /\ Place(minOffset)

PlaceInGap ==
  /\ Placing
  /\ \E j \in Positioned :
       /\ Fits(j)
       /\ \A k \in Positioned : k < j => ~Fits(k)
       /\ Place(endOffset(j))

NoGap ==
  /\ Placing
  /\ Positioned # {} /\ \A j \in Positioned : ~Fits(j)
  /\ Finish("NoSpace")
  /\ UNCHANGED <<device, request, table, i, totalBlocks, list>>

\* assert(endOffset <= maxOffset), for the last partition.
End ==
  /\ pc = "place" /\ table[list[1]].offset # 0
  /\ LET last == pr(Len(list)) IN
     Finish(IF (last.offset + last.size - 1) % device.range <= maxOffset THEN "Success" ELSE "assert")
  /\ UNCHANGED <<device, request, table, i, totalBlocks, list>>

(***************************************************************************)
(* Specification                                                           *)
(***************************************************************************)

\* formatDisk refuses an empty table.  Offsets and sizes are of type storage_size_t.
Init ==
  /\ device \in Devices
  /\ \E n \in 1 .. MaxParts :
       request \in [1 .. n -> [offset : Offsets \cap Size, size : Sizes \cap Size]]
  /\ table = request
  /\ pc = "size"
  /\ i = 1
  /\ totalBlocks = 0
  /\ list = <<>>
  /\ result = "none"

Next ==
  \/ SizePercentage \/ NoBlocksLeft \/ SizeExplicit \/ MisAligned
  \/ ExceedsSpace \/ SortList
  \/ PlaceFirst \/ PlaceInGap \/ NoGap \/ End

Spec == Init /\ [][Next]_vars

\* The caller's thread keeps running the function.
FairSpec == Spec /\ WF_vars(Next)

(***************************************************************************)
(* Properties                                                              *)
(***************************************************************************)

\* Every variable has its type: offsets, sizes and the count of blocks are words,
\* and the list orders the partitions of the table.
TypeOK ==
  /\ device \in Devices
  /\ request \in Seq(Part) /\ Len(request) \in 1 .. MaxParts
  /\ table \in [DOMAIN request -> Part]
  /\ pc \in {"size", "place", "done"}
  /\ i \in 1 .. Len(request) + 1
  /\ totalBlocks \in 0 .. Word - 1
  /\ list \in {<<>>} \cup [DOMAIN request -> DOMAIN request]
  /\ result \in {"none", "Success", "NoSpace", "MisAligned", "OutOfRange", "assert"}

\* Bytes that partition p occupies.
first(p) == table[p].offset
past(p) == table[p].offset + table[p].size

Disjoint(P) == \A p, q \in P : p # q => past(p) <= first(q) \/ past(q) <= first(p)

\* The blocks that partitions may have: what a GPT keeps for itself is not theirs.
LastBlock == device.sectors - (IF device.scheme = "mbr" THEN 0 ELSE numPartitionTableSectors + 1)
Inside(P) ==
  \A p \in P : firstAvailableBlock * blockSize <= first(p) /\ past(p) <= LastBlock * blockSize

\* The partitions whose positions the application chose.
Chosen == {p \in DOMAIN request : request[p].offset # 0}

\* validate relies on the application for these: they are aligned, do not
\* overlap, and lie inside the space.
ChosenWell ==
  /\ \A p \in Chosen : first(p) % PARTITION_ALIGN = 0
  /\ Disjoint(Chosen)
  /\ Inside(Chosen)

\* No partition is rounded down to nothing.
NoneEmpty == \A p \in DOMAIN table : table[p].size # 0

\* The device has room for partitions, and ends at least an alignment before the
\* largest offset: a 32-bit build takes devices up to 4 GiB, less 1 MiB and a sector.
Roomy ==
  /\ firstAvailableBlock < LastBlock
  /\ device.sectors * blockSize + PARTITION_ALIGN < device.range

\* No partition is larger than the space.  The sizing loop does not see to that: a
\* size within an alignment of the range is rounded up to 0, and a percentage after
\* sizes in bytes that exceed the space is clipped to less than nothing.
NoneTooLarge == \A p \in DOMAIN table : table[p].size <= totalAvailableBlocks * blockSize

\* The gap after the last partition wraps when that partition is rounded up past
\* the end of the space, and the next is then placed there.  This cannot happen if
\* the space ends at a multiple of the alignment and is counted in full; if it does
\* happen, the assertion sees it as long as positions and sizes add up without
\* wrapping.
NoWrap ==
  \/ maxOffset + 1 = LastBlock * blockSize /\ (LastBlock * blockSize) % PARTITION_ALIGN = 0
  \/ Len(request) * (LastBlock * blockSize + PARTITION_ALIGN) + PARTITION_ALIGN <= device.range

Sound == Disjoint(DOMAIN table) /\ Inside(DOMAIN table)

\* When validate succeeds, partitions neither overlap nor leave the space,
\* whatever mixture of chosen and computed sizes and positions was asked for.
SuccessIsSound ==
  result = "Success" /\ Roomy /\ NoWrap /\ ChosenWell /\ NoneEmpty /\ NoneTooLarge => Sound

\* Neither a position that the application chose nor one that validate has found
\* is changed again, and sizes in bytes are never changed.
NeverMoved ==
  [][\A p \in DOMAIN table :
       /\ table[p].offset # 0 => table'[p].offset = table[p].offset
       /\ request[p].size > 100 => table'[p].size = table[p].size]_vars

\* When a table asks for percentages only, none of which is rounded to nothing, and
\* leaves every position to validate, on a device that is neither too small nor within
\* an alignment unit of the largest size, what the sizing loop has granted can be placed,
\* and the assertion holds.
PercentagesFit ==
  Roomy /\ Chosen = {} /\ NoneEmpty /\ (\A p \in DOMAIN request : request[p].size <= 100) =>
    /\ result # "assert"
    /\ Placing => Positioned = {} \/ \E j \in Positioned : Fits(j)

\* validate returns, as its while loop places a partition in each iteration, if no
\* position that it can find is 0: no sum wraps on the device, what the application
\* positioned is sound, and no partition is larger than the space.
Returns == Roomy /\ NoWrap => <>(pc = "done" \/ ~ChosenWell \/ ~NoneTooLarge)

(***************************************************************************)
(* What comments say, and the code does not do                             *)
(***************************************************************************)

\* "If offset = 0 then a suitable location is found and the offset updated": behind
\* a partition that reaches into the last alignment unit below 4 GiB, the location
\* that a 32-bit build finds is 0, and it goes on looking for ever.
LocationIsFound == <>(pc = "done")

\* totalAvailableBlocks is the "number of blocks available for partition
\* allocation", so that success means partitions on the device.  For a device that
\* is smaller than the alignment the number wraps; and without NoWrap the location
\* that is found behind the last partition is behind the end of the device.
SpaceIsThere == result = "Success" /\ ChosenWell /\ NoneEmpty /\ NoneTooLarge => Sound

\* A size above 100 is in bytes: a table of one partition is refused for lack of
\* space only if the partition is larger than the space.
SizeIsInBytes ==
  result = "NoSpace" /\ Len(request) = 1 /\ request[1].size > 100 =>
    align_up(request[1].size, PARTITION_ALIGN) > totalAvailableBlocks * blockSize
==============================================================================
