# DiskStorage in TLA+

A verification project for the DiskStorage library (`src/`): TLA+ modules that
model it, TLC configurations that check them, and TLAPS proofs of the safety
properties, for devices and tables of any size.

## 1. The system

DiskStorage gives Sming applications access to disks. It runs in the thread of
the application that calls it: there are no tasks, locks or callbacks. What
makes it hard is what happens between two accesses to the device: a raw read or
write fails or is cut short, memory is lost, a call ends half way and the next
one finds what it left.

| Component | State | Operations | Used by |
|---|---|---|---|
| Block device cache: `BlockDevice.cpp`, `BlockDevice.h`, `Buffer.h` | a direct-mapped list of sector buffers, each with a sector number and a dirty flag | `read`, `write`, `erase_range`, `sync`, `allocateBuffers`; `flushBuffer`, `flushBuffers` | applications and file systems, `formatDisk`, `Scanner` |
| Host file device: `HostFileDevice.cpp` | a file | `raw_sector_read`, `raw_sector_write`, `raw_sector_erase_range`, `raw_sync`, constructors, destructor | the cache, through four virtual methods |
| Partition layout: `validate` in `PartInfo.cpp` | the application's partition table | sizes from percentages, positions for partitions that have none | both `formatDisk` functions |
| GPT writer: `formatDisk` in `GPT.cpp` | work buffer, checksum; then the device's partition list | 64 sectors of entries, two headers, protective MBR, `sync` | applications |
| MBR writer: `formatDisk` in `MBR.cpp` | the same | one sector, `sync` | applications |
| Partition scanner: `Scanner.cpp`, `Disk.cpp` | `Scanner::State`, table being iterated over, indices | `Scanner::next`, `scanPartitions` | applications |
| Types: `GPT.h`, `MBR.h`, `PartInfo.h` | the tables that applications fill in | `PartitionTable::add`, `SmingTypeGuid`, `match`, `getSysTypeFromIndicator` | applications, writers, scanner |
| Checksums: `diskdefs.cpp` | none | `crc32`, `align_up` | GPT writer, scanner |
| Printing and statistics: `Error.cpp`, `printTo`, `toString`, `Stat` | counters | none that the library reads back | applications |

What makes each correct:

* *Cache.* Whatever fails, a read returns the last value written; a successful
  `sync` makes everything before it durable; no other value than an old or a new
  one ever appears; no uninitialised memory is handed out; every call returns.
* *Layout.* If it succeeds, partitions do not overlap and lie in the space
  given; positions and sizes that the application chose are kept; requests that
  can be met are met; it returns.
* *Writers and scanner.* What `formatDisk` has written successfully, a scan
  finds with its types, after a restart too; a disk says it is a GPT disk only if it is one;
  data in the partitions is not touched; the calls return.
* *Functions.* The checksum is CRC-32, also when it is continued from entry to
  entry; CHS addresses denote their sectors; volumes are recognised with their
  size and kind; a file is as large a device when it is opened as when it was made.

The places where this is hard to get right, or hard to test, are listed with
their lines under `hazards` in `PROJECT.json`.

## 2. The modules

```
Storage                what a block device promises, in bytes
BlockDevice            the cache; implements Storage
Layout                 validate, and its arguments as both formatDisk functions compute them
Types                  types, GUIDs and indicators of partitions; the tables' add functions
Disk                   the device as the next two see it: whole sectors
Format, Scanner        formatDisk (GPT and MBR); Scanner::next and scanPartitions
DiskStorage            an application that uses Format and Scanner on one Disk
ReadableDisks          which disks the scanner reads completely (conditions on constants)
Checksum               crc32, and the headers that carry one
Geometry               the CHS numbers of MBR.cpp
Volume                 identify: boot sectors of FAT and exFAT volumes
HostFile               the constructors of HostFileDevice
Checks                 calls of the functions of the last four
MC...                  instances for TLC

BlockDeviceProofs      invariants of BlockDevice
BlockDeviceRefinement  BlockDevice implements Storage        (extends BlockDeviceProofs)
LayoutProofs           what a successful validate has done
PercentageProofs       tables of percentages are placed      (extends LayoutProofs)
DiskStorageProofs      invariants of a disk that is formatted and scanned
RoundTripProofs        a scan finds what was written         (extends DiskStorageProofs, ReadableDisks)
ChecksProofs           geometry, volumes and host files
ChecksumProofs         CRC-32 and sealed headers             (extends ChecksProofs)
```

`map` in `PROJECT.json` gives the source lines of each definition.

### BlockDevice

`disk` is what the raw device returns, `media` what survives a power loss (they
differ while the raw device has a volatile store of its own), `mSize` and
`buffers` the `BufferList` (`mSize = 0` for the null pointer), `call` the call in
progress with its local variables, `ret` what the last one returned (`"reset"` if
the device has been opened anew since, so that `Storage` can tell data lost with
the memory from data lost by a call).

A call takes one step per iteration of its loop: `ReadHit`, `ReadMiss`,
`WriteHit`, `WriteMissWhole`, `WriteMissPartial`, and for the ways an iteration
can fail `FlushFails` (the evicted buffer cannot be written, any number of its
bytes having been) and `LoadFails` (it can, but the new sector cannot be read).
An iteration makes at most one raw write, so a crash inside it leaves what a
crash before or after it does. Calls without buffers are one step. `sync` and
`allocateBuffers` share `FlushBuffer`, one step per buffer, and end in
`FlushBuffersFail`, `Sync` or `AllocateBuffers`. `erase_range` is one step, as it
makes one raw call. `Crash`, `Reopen` (the object is deleted, which flushes
nothing) and `Destage` are the environment's.

`Buffer::sector` keeps its width: `SectorModulus` stands for 2^32 and `invalid` is
its largest value. Bytes of memory that nobody has filled are `Junk`. `Device` and
`Partition` of the Storage library check ranges; this is `Requests`. The function
`getSizeBits` belongs to that library too: `ListSizes` is exact for powers of two
and allows either neighbour for other numbers.

`Storage` is the abstract specification. `view[a]` is the set of values that a
read of byte `a` may return (more than one only after a failed erase), `may[a]`
the set that a power loss may leave. The refinement mapping (`viewOf`, `mayOf`)
takes `view` from the buffer if the sector has one, and `may` from buffer, device
and medium.

### Layout

`validate` as a state machine, one step per iteration: `SizePercentage`,
`NoBlocksLeft`, `SizeExplicit`, `MisAligned`, `ExceedsSpace` for the sizes,
`SortList`, then `PlaceFirst`, `PlaceInGap`, `NoGap` for the positions, and `End` with
the assertion. `uint64_t` (`Word`), `uint32_t` (`Word32`) and `storage_size_t`
(`device.range`, which is one of them according to `ENABLE_STORAGE_SIZE64`) keep
their widths, and each subtraction is taken modulo that of its type. The device,
not the space, is what the model starts from: `firstAvailableBlock` and
`totalAvailableBlocks` are computed as `MBR.cpp:45` and `GPT.cpp:86` do. The `BadParam` for
a first block or a block size of 0 (`PartInfo.cpp:101`) is left out, as neither
`formatDisk` passes one. `Vector::sort` belongs to Sming; it is an insertion sort
that keeps the order of equal elements, and `Sorted` says just that. The inner loop over the
list is the choice of the first gap that is large enough (`Fits`).

### Types, Disk, Format, Scanner, DiskStorage

A partition has a type of Sming's, a kind of volume, a type GUID and an indicator;
`Types` has the conversions between them. A sector holds one of a few kinds of
content: blank, a boot sector (which states kind and size of its volume), an MBR, a GPT header, or partition entries. A checksum
is modelled by the data that it covers. `view` is what reads return; a write
reaches `medium` at some moment before the next `sync`, in any order, and a power
loss leaves `medium`. This is what `Storage` promises, for whole sectors.

`Format` has one action per `device.write` or `device.sync`; each may fail, with or
without having written. Tables come in as the tables' `add` functions and `validate`
leave them: disjoint, in the space, at the starts of sectors, with a GUID or an
indicator (`Added` and the rest of `DiskStorageAssumption`; see section 4 for where it
comes from), and with any number of partitions. A size need not be a whole number of
sectors; the records on the disk have whole sectors only, and `Found` says so. `Scanner`
has one action per sector it reads or entry it takes; each read may fail, as may its allocations. `DiskStorage` adds the
application, which formats, scans, puts file systems into its partitions and
loses power at any time, and the history variables `written` (what the disk must
hold: the last successful `formatDisk`, or what another tool had made) and `mixed`
(a reformat may have left entries and headers of different tables, or the GPT is
another tool's).

### Checksum, Geometry, Volume, HostFile, Checks

These are functions without state. A word in `Checksum` is the set of its bits
that are 1, so that `crc32_byte` is the code's loop over bits and the reference,
`Remainder`, is a division of polynomials. `Volume` builds the boot sectors that
tools write (`FatBoot`, `ExfatBoot`) and reads them as `identify` does. `HostFile` is
what the two constructors make of a file, also when `open` or `ftruncate64` fails. A
behaviour of `Checks` is one call of one of them.

A GPT header in `Checksum` is its whole sector: signature and revision, `header_size`,
`header_crc32`, the other fields, and the rest, which `formatDisk` leaves as the buffer
had it. `verifyGptHeader` sums as many bytes as `header_size` says, which it bounds only
from below (`Scanner.cpp:68`), so `Verdicts` is the *set* of results that it may return:
for a size that leaves the buffer both, as nothing is known of the memory read there. Of
the checks that follow, that of `num_partition_entries` is in `Scanner`, where entries have
one size.

## 3. What TLC checks

| Run | Shows |
|---|---|
| `cache_refines_storage` | `SlotDiscipline`: a buffer is unused and clean, or holds content of a sector and is the one `get()` returns for it. `TransferInBounds`: the loop variables of a transfer agree and stay in the device and the caller's memory. `ReadsInitialised`. `CoherencePreserved`: no step but a failed erase makes a clean buffer differ from the device. `ImplementsStorage`: the cache implements `Storage`. |
| `cache_calls_return` | `SlotDiscipline` and `ImplementsStorage` with several buffers. `FlushProgress`: every buffer that `flushBuffers` has passed is clean or has been counted as a failure. `CallReturns`: each call returns, whatever fails. |
| `layout_sound` | `SuccessIsSound`: partitions are disjoint and on the device, outside of what a GPT needs, if the application's own choices are (`ChosenWell`), none is rounded to nothing (`NoneEmpty`) or larger than the space (`NoneTooLarge`), the device is neither too small to have any nor within 1 MiB of what `storage_size_t` can count (`Roomy`), and offsets and sizes add up without wrapping (`NoWrap`). `PercentagesFit`: tables of percentages are placed, if the device is `Roomy` and the table `NoneEmpty`. `NeverMoved`: chosen positions and sizes are kept. `Returns`: `validate` returns under the conditions of `SuccessIsSound` (`layout_hang` has a device on which it does not). |
| `disk_roundtrip` | `RoundTrip`: a scan finds what was written, in whole sectors, through failures, write-back and power loss, with types, and what other tools wrote, if no read fails. `NothingInvented`: whichever reads fail, a scan finds nothing but partitions that are there. `GptConsistent`: a protective MBR is on the disk only with two valid headers and tables, unless a GPT was being replaced by another one or power was lost with writes of an unfinished `formatDisk` (`mixed`). `DataUntouched`: `formatDisk` writes nothing inside the new partitions. `CallsReturn`. |
| `disk_reformat` | `RoundTrip` and `GptConsistent` for a GPT disk that is formatted again, after success, failure or power loss. |
| `functions` | `ChecksumIsCrc32`: continued over two texts, `crc32` is the remainder of both. `HeadersVerified`: both headers pass `verifyGptHeader`, whatever is behind them, also when a bit behind them changes; when any other bit changes neither passes, unless `header_size` becomes larger by it. `GeometryInverts`: CHS numbers lead back to the sector up to cylinder 1023, which covers every device that 255 heads can address, but for a last cylinder 1024 (`MBR.cpp:61` compares with `> 1024`). `VolumesFound`: size and kind of volumes below 4 GiB. `FilesReopen`: all sectors of a device are in its file, and opening the file gives the device that was made of it. |

**Bounds.** The cache needs two sectors that share a buffer (1 buffer) and two
that do not (3 sectors, 2 buffers), transfers that start and end inside sectors
and cross a border (sectors of 2 bytes, `MaxSize` 3), and two values of a byte.
The theorems below show that the invariants do not depend on these numbers. The
layout has an alignment of 4 blocks, a device of 201 aligned units on a 32-bit
build and one of about 9 on a 64-bit build, and up to 3 partitions (`MaxParts`):
one to be placed, one before and one behind it; offsets and sizes include
aligned and unaligned ones, the ends of the space, percentages that round to
nothing or add up to more than 100. The disk has 12 sectors and entries in 2
sectors, so that each loop runs twice; `MaxFormats` is 1 where all kinds of disks
are formatted and 2 where a GPT disk is formatted again, which is enough for a
table of one format to meet another's leftovers. The functions are called with
texts of up to 4 bytes, headers of 10 with 0, 1 or 6 bytes behind them, so that a larger
`header_size` is within the sector or not, devices on both sides of each limit of the
geometry, and volumes on both sides of those between FAT12 and FAT16 and between
the two fields for the number of sectors.

**Fairness.** `CallReturns`, `Returns` and `CallsReturn` assume weak fairness of the
steps of the call in progress only: the thread that made a call keeps running
it. Nothing is assumed of raw calls, which may fail for ever.

`Layout` and `Checks` are not checked for deadlock: a function returns, and nothing
is left to do.

**Disagreements.** Six runs show that the code does something else than a
comment, an assertion or the documentation says (`findings` in `PROJECT.json`):

* `wide_device`: the number of the last of 2^32 sectors is the mark of an unused
  buffer (`Buffer.h:18`), and a read of it returns uninitialised memory.
* `layout_bytes`: a size in bytes is added to a number of blocks (`PartInfo.cpp:133`),
  and partitions that fit are refused.
* `layout_hang`: without `ENABLE_STORAGE_SIZE64`, behind a partition that ends in the
  last MiB below 4 GiB, `align_up` at `PartInfo.cpp:166` gives 0, and the loop of
  `validate` does not end.
* `layout_small_device`: on a device of less than 1 MiB `MBR.cpp:47` wraps, and `validate`
  succeeds with partitions that are not on the device.
* `mbr_wide_disk`: `Scanner.cpp:252` and `:257` shift 32-bit values, and MBR partitions
  beyond 4 GiB are reported elsewhere.
* `mbr_extended_first`: primary partitions listed behind an extended one are lost
  (`Scanner.cpp:247`).

Without a run, but found on the way: the assertion at `PartInfo.cpp:189` can fail,
as offset plus size of a partition that the application has positioned is never
checked; the table is not "ordered by position" after `validate` (`PartInfo.h:144`),
only a temporary list is; after a size in bytes the clipping of a percentage at
`PartInfo.cpp:120` wraps, and `validate` may return success with a partition larger
than the space; a size within 1 MiB of the largest `storage_size_t` is rounded up to 0 and so
passes the check of the total (hence `NoneTooLarge`); where the last partition is
rounded up past the end of the space the gap at `PartInfo.cpp:169` wraps, the next
partition is placed behind the device, and the assertion at `:189` misses it when offset
plus size wraps as well, which takes a 32-bit build or an MBR device of more than 2^32
sectors (hence `NoWrap`); a size that is no multiple of the sector size is rounded down
on the disk, while the device lists it in full until it is scanned; `formatDisk` drops partitions beyond the 128th and returns success
(`Expected` in `DiskStorage` states what is found then); with more than 124 the
header's sector keeps entries behind the header; the third and later links of a
chain of extended partitions are taken relative to the wrong sector; partitions
of size 0 make `validate` place others on top of each other; `num_fats` 0 passes the
check at `Scanner.cpp:123`, whose comment wants 1 or 2; FAT volumes of 4 GiB and more
are reported too small; the comment at `Scanner.cpp:59` says that the length of a header
is 92, while a larger one is accepted and summed, past the end of the buffer if it says
so; a partition that cannot be read is skipped, and the MBR partitions after it are
named by smaller numbers; a file that cannot be given its length is deleted
although it was there before (`HostFileDevice.cpp:88`).

## 4. What is proved

Every invariant and every safety action property that the passing runs check is a
theorem, except `NothingInvented`. The theorems hold for all values of the constants that meet the named
assumptions, where a run has one small instance.

| Theorem | Statement |
|---|---|
| **BlockDeviceProofs** | assuming `Addressable` |
| `TypeCorrect` | `Spec => []TypeOK` |
| `SlotDisciplineHolds` | `Spec => []SlotDiscipline` |
| `TransfersInBounds` | `Spec => []TransferInBounds` |
| `ReadsAreInitialised` | `Spec => []ReadsInitialised` |
| `CoherenceIsPreserved` | `Spec => CoherencePreserved` |
| **BlockDeviceRefinement** | assuming `Addressable` |
| `FlushProgressHolds` | `Spec => []FlushProgress` |
| `DeviceImplementsStorage` | `Spec => ImplementsStorage` |
| `CallsEnd` | every step of a call lowers `Left`, nothing raises it before the call returns |
| **LayoutProofs** | |
| `TypeCorrect` | `Spec => []TypeOK` |
| `NothingMoved` | `Spec => NeverMoved` |
| `SuccessSound` | `Spec => []SuccessIsSound` |
| `TablesFitDisk` | `Spec => []OnDisk` |
| `ValidateEnds` | every step of `validate` lowers `Left`; while it places partitions, if the table is `Accepted` |
| **PercentageProofs** | |
| `PercentagesAlwaysFit` | `Spec => []PercentagesFit` |
| **DiskStorageProofs** | |
| `TypeCorrect` | `Spec => []TypeOK` |
| `GptAlwaysConsistent` | `Spec => []GptConsistent` |
| `DataStays` | `Spec => DataUntouched` |
| `FormatEnds` | every step of `formatDisk`, also one that fails, lowers `WritesLeft`, nothing raises it |
| `TableScanEnds` | every step of a scan leads to a later `Stage` or lowers `EntriesLeft`, unless it follows an extended partition |
| **RoundTripProofs** | |
| `GptRoundTrip` | `Spec => [](written.scheme = "gpt" => RoundTrip)` |
| `MbrRoundTrip` | `MbrReadable => (Spec => [](written.scheme = "mbr" => RoundTrip))` |
| `RoundTripHolds` | `MbrReadable /\ ForeignReadable(Disks) => (Spec => []RoundTrip)` |
| **ChecksProofs** | |
| `GeometryAlwaysInverts` | `Spec => []GeometryInverts` |
| `VolumesAlwaysFound` | `Spec => []VolumesFound` |
| `FilesAlwaysReopen` | `Spec => []FilesReopen` |
| **ChecksumProofs** | |
| `ChecksumAlwaysCrc32` | `Spec => []ChecksumIsCrc32` |
| `HeadersAlwaysVerified` | `Spec => []HeadersVerified` |

### The cache

None of the invariants is inductive by itself. That a read returns initialised
bytes needs that a buffer in use holds initialised bytes (`SlotDiscipline`); that
a buffer in use stays initialised needs that a write's source is and that the
chunk lies in it (`TransferInBounds`); that the sector number stored in a buffer
is that of a sector of the device needs the same; and all of them need types.
Their conjunction, `Inv`, is inductive: `InitInv` shows that it holds initially, a lemma
per action that the action preserves it, `InvHolds` combines them.
`CoherenceIsPreserved` uses `Inv` and one step per action.

The refinement adds `FlushProgress`: `sync` and `allocateBuffers` go on only if all
buffers are clean, and `Storage` allows neither otherwise. `viewOf` and `mayOf` are
compared sector by sector: a step changes them only for the sector of the buffer that
it writes back, loads or changes, and `get` returns one buffer for a sector, so all
other sectors keep theirs. A lemma per action shows which step of `Storage` it is:
an iteration of `write` changes the chunk's range of addresses, a completed `raw_sync`
shrinks `may` to `view`, a failed write-back may leave old and new bytes, which `may`
had already, a `LoadFails` loses nothing as its buffer was written back first, and so
on.

`CallsEnd` has a number, `Left`, for what a call still has to do: an iteration of `read`
or `write` transfers at least a byte, and a flush, with which `sync` and `allocateBuffers`
begin, looks at every buffer once. No failure, resize or power loss raises it.

`Addressable` is `SectorCount < SectorModulus`; `wide_device` shows that it is needed.

### validate

`Inv` of `LayoutProofs` says that choices of the application stay in the table (`Keeps`),
that the temporary list has every partition once and by offset (`Ordered`), and that
the partitions which have a position are aligned and disjoint (`Placed`). It does *not*
say that they are inside the space, as that is false: a gap may wrap and a partition be
placed behind the end. What makes `Success` sound is the assertion about the last
partition of the list, and what makes the assertion worth anything is that its sum does
not wrap. `Placed` therefore bounds the ends by `Reach`: the end of the space if no gap
can wrap, otherwise one space further with each partition placed. `NoWrap` keeps `Reach`
below the range of `storage_size_t`.

`PercentagesFit` needs the sums: `PercentageProofs` has a function `g` such that the first
`k` partitions have `g[k]` blocks. The sizing loop keeps `g` within the space and at
multiples of the alignment except at the very end (`Granted`); placing takes the
partitions in turn, each where `g` says (`InTurn`); as all but the last are whole units
nothing is lost in between, and the gap behind the last one placed is large enough.

`ValidateEnds` counts the rest of the sizing loop and then the partitions that have no
position. The second falls only if the position that is found is not 0, which `validate`
takes for none: a gap never ends at 0 in a table that is `Accepted`, and `layout_hang` has
a device where one does.

`LayoutAssumption` says what the build fixes: the alignment is a multiple of the sector
size, which is more than one byte, a `uint64_t` can count the bytes of 2^32 sectors, and
the number of sectors of the device is a `storage_size_t`. Offsets and sizes are any values
of that type.

### Disks

`Inv` of `DiskStorageProofs` says how much of a GPT `formatDisk` has written at each step
(`Written`), that a disk which says it is a GPT disk has all of it (`Announced`), and
that between calls a GPT is in the cache *and* on the medium, where no partition that
the application knows of reaches (`Settled`). The last part needs the scanner: an
application writes to what a scan has found, so whatever entry a scan is at, its buffer
holds entries of the table (`Follows`). The places of the two tables and headers are
distinct by arithmetic on `DiskAssumption` only.

`RoundTripProofs` extends this. For a GPT, `Progress` says that a scan without a fault
has found exactly the first `partitionIndex` partitions, also those that are dropped
for want of an entry, and `Kept` that `written` is what is on the disk. For an MBR,
`MbrProgress` says the same of records, which a scan takes in the order of the used
ones (`scanMbrEntries`), and that its 16-bit counter numbers them; `MbrKept` that the
table's sector is the one written. `AllCounted` carries the sizes of volumes, and
`Forgotten` that a scan's result is dropped when a format begins.

Disks of other tools need a statement of what they are, which `ReadableDisks` makes:
no table, a volume, a GPT whose entries are in any sectors and in any order with unused
ones between them, or an MBR with a chain of tables of extended partitions (`Chain`), each
of them in the last record of the table before. A link is relative to the sector of its
table there, as the scanner takes it; tools count from the first extended partition, which
is the same for two tables of logical partitions and not for more. No partition begins in a
sector of the tables, as the application writes there. `OtherKept` says that the disk is
intact but for those sectors (`Intact`), in the cache and on the medium, and where a scan
is (`Reading`): for a GPT it has taken the used items before item `partitionIndex`, and all
of them together are the partitions whatever their order (`AllTaken`); for an MBR it is in
some table `j` of the chain, `mbrPartID` is the number of partitions in the tables before
plus the records taken, and the extended partition is still to come unless `j` is the last
table, which is why a scan without a fault does not end early. `MCReadable` has TLC
evaluate both conditions for the disks of `disk_roundtrip`, extended partitions among them.

`FormatEnds` and `TableScanEnds` count what is left of a call. `formatDisk` has a write for
each sector of entries and one for its copy; that the index of the loop is below the number
of sectors is part of `Written`. A scan goes from the first sector to the header to the
entries, and each entry counts for itself and for the sector that may have to be read after
it. A step into an extended partition begins with a new table, and there the argument ends:
a chain that leads back to one of its own sectors is followed for ever, on a disk that
`ForeignReadable` excludes.

`DiskStorageAssumption` says of the tables what their `add` functions do and what
`validate` does. The part about positions is `OnDisk`: `TablesFitDisk` shows it of every
table that `validate` accepts, in the sectors that `Format` computes. A partition has at
least one whole sector if it has the size of one. `MbrReadable` says that the disk's bytes
can be counted in 32 bits and that no record is that of an extended partition;
`mbr_wide_disk` and `mbr_extended_first` show that both are needed, and the latter has a
disk that `ForeignReadable` excludes.

### Functions

A behaviour of `Checks` is one call, so the invariant is that `output` is what the
function returns for `input`, and the theorems are about the functions: division with
remainder for the geometry, a case for each kind of volume and field, a case for each
failure of a constructor. `ToolMade` says which volumes are meant.

### Checksums

`ChecksumProofs` is about bytes of any number and value, so it needs induction. The
library's induction theorems take a predicate as a parameter, which the provers cannot
instantiate; but that a set of natural numbers without a least element is empty takes
none. `Least` is this fact, `Induction` follows for sets of numbers, and `UpTo` and
`Recursion` say that the two recursive functions of module `Checksum`, the library's loops
and the long division, satisfy their equations.

`crc32` shifts a register to the right and sees one byte at a time; the standard's
definition divides the whole message, four bytes longer, by the polynomial. What holds
after `j` bytes is that the dividend, reduced by its first `8j` terms, is the register,
`8j` places up, plus the bytes that have not been read; `Crc32IsRemainder` takes this to
the end. `Continued` is that a checksum continued over a second piece is that of both
together, as `formatDisk` computes that of the table entry by entry.

That a changed byte is detected (`ChangeDetected`) needs that no two registers become one:
a step of `crc32_bit` with a subtraction sets the top bit of the register, as the
polynomial has its top bit set, and a step without clears it, so a step can be undone.
Two texts that differ in one byte differ in the register from there to the end
(`OneByteDetected`). A header of the size that `formatDisk` writes is such a text with its
checksum taken as zero, in the first bytes of its sector (`HeaderSum`, `SizedVerdicts`), and
the stored checksum is compared as it is. `BitDetected` goes through the parts of the
sector: a changed signature is refused, as is a smaller size, a changed field gives another
sum, a changed checksum is not the sum, and what is behind the header is not summed. About
a larger size nothing is proved, as the sum is then one of other bytes. `HeadersSealed` says
that both headers of `formatDisk` carry the sum of their other bytes.

### Only model-checked

* `NothingInvented`: the invariants of `RoundTripProofs` say where a scan is as long as no
  read has failed.
* `CallReturns`, `Returns` and `CallsReturn`: liveness under fairness is out of the
  prover's reach. That calls do not go on for ever is proved as the fall of a natural
  number (`CallsEnd`, `ValidateEnds`, `FormatEnds`, `TableScanEnds`). What is left to TLC
  is that a call which has not returned can always take a step, which is about `ENABLED`,
  and that a scan comes to the end of a chain of extended partitions.

## 5. Not modelled

* In `DiskStorage`, damaged sectors: a checksum is the data that it covers there. What
  happens to a header with a changed bit is `HeadersVerified`.
* Names, labels and unique GUIDs are one identifier; converting a name to UTF-16 and
  back cuts it off at 36 characters, which no property is about.
* In `DiskStorage`, the bytes behind a header in its sector: `verifyGptHeader` reads them
  only if `header_size` is larger than that of `formatDisk`'s headers, and no disk of
  `DiskStorage` has such a header. They are part of `Checksum`. What memory past the buffer
  holds is modelled nowhere.
* Boot code of an MBR, which nothing reads; in `Volume` the fields that overlap with it are 0.
* A failing `lseek64` in the constructor of `HostFileDevice` (`HostFileDevice.cpp:97`), whose
  result is not checked: it does not fail for a regular file that could be opened.
* FAT volumes whose size does not fit 32 bits, and the size of an exFAT volume on a
  build with a 32-bit `storage_size_t`.
* `HostFileDevice::raw_sync` does nothing, so its durability is that of the host's file
  system; Windows' calls for sparse files.
* A failing `operator new` inside `BufferList`: on the platforms where it throws the
  code's checks are dead, on the others the buffer is a null pointer that the next
  read fills, which is undefined.
* Sector sizes other than the one the library is built with.
* Printing, statistics and `getTypeName`: they change nothing that the library reads.
* `SectorBuffer` beyond its content, and what the kernel's headers define besides the
  two boot sectors: the library does not use it.

## 6. Plan

*Composition.* Show that a scan and a format over the buffered device see the same as over
`Disk`. `Disk` is not simply an abstraction of `Storage`: a power loss may leave a sector of
`Storage` with some bytes old and some new, and a failed erase makes a read return one of
several values, while a sector of `Disk` is written as a whole. It needs a device that
writes sectors atomically, as a third specification between the two.

*Scans whose reads fail.* Prove `NothingInvented`: `Progress`, `MbrProgress` and `Reading`
would have to say which partitions may be missing.
