----------------------------- MODULE BlockDevice -----------------------------
(***************************************************************************)
(* Storage::Disk::BlockDevice: byte-level access to a sector device through*)
(* a direct-mapped, write-back list of sector buffers (BufferList).        *)
(*                                                                         *)
(* The class runs in one thread, so a call runs to its end; what happens   *)
(* around it is failure: any raw_xxx call may fail, a failed raw write may *)
(* have transferred a prefix of its bytes (HostFileDevice compares the     *)
(* count returned by ::write with the size), and memory may be lost        *)
(* between any two raw operations.  A call therefore takes one step per    *)
(* loop iteration; an iteration performs at most one raw write, so a crash *)
(* inside it leaves the device as a crash before or after it does.         *)
(***************************************************************************)
EXTENDS Integers

CONSTANTS
  SectorCount,    \* sectors on the device
  SectorSize,     \* bytes in a sector
  SectorModulus,  \* 2^32: Buffer::sector is a uint32_t
  Byte,           \* values of a byte
  Erased,         \* the byte an erase leaves: 0
  Junk,           \* a byte of memory nobody has initialised
  BufferCounts,   \* arguments applications give to allocateBuffers
  MaxSize         \* bound: longest read or write, in bytes

ASSUME DeviceAssumption ==
  /\ SectorCount \in Nat \ {0}
  /\ SectorSize \in Nat \ {0}
  /\ SectorModulus \in Nat \ {0}
  /\ Erased \in Byte
  /\ Junk \notin Byte
  /\ BufferCounts \subseteq Nat
  /\ MaxSize \in Nat

VARIABLES
  disk,     \* what raw_sector_read returns for each sector
  media,    \* what survives a power loss; raw_sync brings it up to disk
  mSize,    \* number of buffers, 0 when BlockDevice::buffers is null
  buffers,  \* BufferList::list
  call,     \* the call in progress, with its local variables
  ret       \* what the last call returned; "reset" if the device has been reopened since

vars == <<disk, media, mSize, buffers, call, ret>>

Sector == 0 .. SectorCount - 1
Offset == 0 .. SectorSize - 1
Data == [Offset -> Byte]
Content == [Offset -> Byte \cup {Junk}]
DeviceSize == SectorCount * SectorSize

(***************************************************************************)
(* Buffers                                                                 *)
(***************************************************************************)

\* Buffer::invalid is uint32_t(-1).
invalid == SectorModulus - 1

\* Assigning a storage_size_t sector number to Buffer::sector truncates it.
ToUint32(s) == s % SectorModulus

Buffer == [sector : 0 .. SectorModulus - 1, dirty : BOOLEAN, data : Content]

\* A buffer from the BufferList constructor, or one on which a raw read has
\* failed after Buffer::invalidate: its bytes mean nothing.
Invalidated == [sector |-> invalid, dirty |-> FALSE, data |-> [o \in Offset |-> Junk]]

\* BufferList::get: sector & (mSize - 1), mSize being a power of two.
get(s) == s % mSize

\* 1 << getSizeBits(n): n itself for a power of two.  getSizeBits belongs to the
\* Storage library; for other n it may round either way.
IsPowerOf2(m) == \E b \in 0 .. m : m = 2 ^ b
ListSizes(n) == {m \in 1 .. 2 * n : IsPowerOf2(m) /\ n < 2 * m /\ m < 2 * n}

(***************************************************************************)
(* Raw device                                                              *)
(***************************************************************************)

\* Sector content old after the first n bytes of new have been transferred.
Torn(old, new, n) == [o \in Offset |-> IF o < n THEN new[o] ELSE old[o]]

\* flushBuffer(b) with n bytes transferred: a clean buffer is not written.  It
\* succeeds when n = SectorSize.
Transferred(b) == IF b.dirty THEN 0 .. SectorSize ELSE {SectorSize}
Flushed(b, n) ==
  IF b.dirty THEN [disk EXCEPT ![b.sector] = Torn(@, b.data, n)] ELSE disk

(***************************************************************************)
(* Calls                                                                   *)
(***************************************************************************)

\* address is an argument of read and write; sector, offset, size, ptr and data
\* are their locals (size counts down, ptr is how far dstptr or srcptr has
\* moved).  In flushBuffers ptr is the loop's buffer and res its result; size is
\* allocateBuffers' argument.
Locals(fn, addr, data, size) ==
  [fn |-> fn, address |-> addr, sector |-> addr \div SectorSize, offset |-> addr % SectorSize,
   size |-> size, ptr |-> 0, data |-> data, res |-> TRUE]

\* The memory a caller passes.
Memory == UNION {[0 .. n - 1 -> Byte \cup {Junk}] : n \in 0 .. MaxSize}

Call ==
  [fn : {"idle", "read", "write", "sync", "alloc"},
   address : Nat, sector : Nat, offset : Offset, size : Nat, ptr : Nat,
   data : Memory, res : BOOLEAN]

NoData == [k \in {} |-> Erased]
NoCall == Locals("idle", 0, NoData, 0)

Finish(ok) == call' = NoCall /\ ret' = IF ok THEN "true" ELSE "false"

BeginRead(addr, size) ==
  /\ call = NoCall
  /\ call' = Locals("read", addr, [k \in 0 .. size - 1 |-> Junk], size)
  /\ UNCHANGED <<disk, media, mSize, buffers, ret>>

BeginWrite(addr, size, src) ==
  /\ call = NoCall
  /\ call' = Locals("write", addr, src, size)
  /\ UNCHANGED <<disk, media, mSize, buffers, ret>>

(***************************************************************************)
(* read and write without buffers                                          *)
(***************************************************************************)

Transferring(fn) == call.fn = fn /\ call.size # 0

\* CHECK_ALIGN
Misaligned == call.offset # 0 \/ call.size % SectorSize # 0

UnbufferedMisaligned ==
  /\ mSize = 0
  /\ Transferring("read") \/ Transferring("write")
  /\ Misaligned
  /\ Finish(FALSE)
  /\ UNCHANGED <<disk, media, mSize, buffers>>

UnbufferedRead ==
  /\ mSize = 0
  /\ Transferring("read")
  /\ ~Misaligned
  /\ \/ /\ call' = [call EXCEPT
             !.size = 0, !.ptr = call.size,
             !.data = [k \in DOMAIN call.data |->
                         disk[call.sector + k \div SectorSize][k % SectorSize]]]
        /\ UNCHANGED ret
     \/ Finish(FALSE)
  /\ UNCHANGED <<disk, media, mSize, buffers>>

\* raw_sector_write of several sectors, of which n bytes are transferred.
UnbufferedWrite ==
  /\ mSize = 0
  /\ Transferring("write")
  /\ ~Misaligned
  /\ \E n \in 0 .. call.size :
       /\ disk' = [s \in Sector |-> [o \in Offset |->
            LET k == (s - call.sector) * SectorSize + o IN
            IF k \in 0 .. n - 1 THEN call.data[k] ELSE disk[s][o]]]
       /\ IF n = call.size
            THEN call' = [call EXCEPT !.size = 0, !.ptr = call.size] /\ UNCHANGED ret
            ELSE Finish(FALSE)
  /\ UNCHANGED <<media, mSize, buffers>>

(***************************************************************************)
(* read and write through the buffers: one action per loop iteration       *)
(***************************************************************************)

ChunkSize ==
  IF call.size < SectorSize - call.offset THEN call.size ELSE SectorSize - call.offset

Partial == call.offset # 0 \/ ChunkSize # SectorSize

Slot == get(call.sector)
Hit == buffers[Slot].sector = call.sector

\* Mutant of CopyOut: one byte too few is copied.
CopyOutShort(content) ==
  [k \in DOMAIN call.data |->
     IF k \in call.ptr .. call.ptr + ChunkSize - 2
       THEN content[call.offset + k - call.ptr] ELSE call.data[k]]

\* memcpy from the buffer to the destination, and from the source to the buffer
CopyOut(content) ==
  [k \in DOMAIN call.data |->
     IF k \in call.ptr .. call.ptr + ChunkSize - 1
       THEN content[call.offset + k - call.ptr] ELSE call.data[k]]

CopyIn(content) ==
  [o \in Offset |->
     IF o \in call.offset .. call.offset + ChunkSize - 1
       THEN call.data[call.ptr + o - call.offset] ELSE content[o]]

\* Mutant of NextChunk: offset is moved on instead of being reset.
NextChunkKeepsOffset(data) ==
  call' = [call EXCEPT !.sector = @ + 1, !.offset = @ + ChunkSize, !.size = @ - ChunkSize,
                       !.ptr = @ + ChunkSize, !.data = data]

\* Mutant of NextChunk: the next chunk is taken from the same sector.
NextChunkSameSector(data) ==
  call' = [call EXCEPT !.offset = 0, !.size = @ - ChunkSize,
                       !.ptr = @ + ChunkSize, !.data = data]

NextChunk(data) ==
  call' = [call EXCEPT !.sector = @ + 1, !.offset = 0, !.size = @ - ChunkSize,
                       !.ptr = @ + ChunkSize, !.data = data]

SetBuffer(dirty, content) ==
  buffers' = [buffers EXCEPT
    ![Slot] = [sector |-> ToUint32(call.sector), dirty |-> dirty, data |-> content]]

Buffered(fn) == mSize # 0 /\ Transferring(fn)

ReadHit ==
  /\ Buffered("read") /\ Hit
  /\ NextChunk(CopyOut(buffers[Slot].data))
  /\ UNCHANGED <<disk, media, mSize, buffers, ret>>

ReadMiss ==
  /\ Buffered("read") /\ ~Hit
  /\ disk' = Flushed(buffers[Slot], SectorSize)
  /\ SetBuffer(FALSE, disk'[call.sector])
  /\ NextChunk(CopyOut(disk'[call.sector]))
  /\ UNCHANGED <<media, mSize, ret>>

WriteHit ==
  /\ Buffered("write") /\ Hit
  /\ SetBuffer(TRUE, CopyIn(buffers[Slot].data))
  /\ NextChunk(call.data)
  /\ UNCHANGED <<disk, media, mSize, ret>>

\* A whole sector is not read before it is overwritten.
WriteMissWhole ==
  /\ Buffered("write") /\ ~Hit /\ ~Partial
  /\ disk' = Flushed(buffers[Slot], SectorSize)
  /\ SetBuffer(TRUE, CopyIn(buffers[Slot].data))
  /\ NextChunk(call.data)
  /\ UNCHANGED <<media, mSize, ret>>

WriteMissPartial ==
  /\ Buffered("write") /\ ~Hit /\ Partial
  /\ disk' = Flushed(buffers[Slot], SectorSize)
  /\ SetBuffer(TRUE, CopyIn(disk'[call.sector]))
  /\ NextChunk(call.data)
  /\ UNCHANGED <<media, mSize, ret>>

\* The evicted buffer cannot be written: it stays, dirty, and the call fails.
FlushFails ==
  /\ Buffered("read") \/ Buffered("write")
  /\ ~Hit
  /\ \E n \in Transferred(buffers[Slot]) \ {SectorSize} :
       disk' = Flushed(buffers[Slot], n)
  /\ Finish(FALSE)
  /\ UNCHANGED <<media, mSize, buffers>>

\* Mutant of LoadFails: the buffer is not invalidated before the raw read.
LoadFailsKeepsSector ==
  /\ Buffered("read") \/ (Buffered("write") /\ Partial)
  /\ ~Hit
  /\ disk' = Flushed(buffers[Slot], SectorSize)
  /\ buffers' = [buffers EXCEPT ![Slot].dirty = FALSE, ![Slot].data = Invalidated.data]
  /\ Finish(FALSE)
  /\ UNCHANGED <<media, mSize>>

\* The evicted buffer is written, and then the new sector cannot be read.
LoadFails ==
  /\ Buffered("read") \/ (Buffered("write") /\ Partial)
  /\ ~Hit
  /\ disk' = Flushed(buffers[Slot], SectorSize)
  /\ buffers' = [buffers EXCEPT ![Slot] = Invalidated]
  /\ Finish(FALSE)
  /\ UNCHANGED <<media, mSize>>

Return ==
  /\ call.fn \in {"read", "write"}
  /\ call.size = 0
  /\ Finish(TRUE)
  /\ UNCHANGED <<disk, media, mSize, buffers>>

(***************************************************************************)
(* erase_range                                                             *)
(***************************************************************************)

EraseMisaligned(addr, size) ==
  /\ call = NoCall
  /\ addr % SectorSize # 0 \/ size % SectorSize # 0
  /\ Finish(FALSE)
  /\ UNCHANGED <<disk, media, mSize, buffers>>

Zeroed(c, S) == [s \in Sector |-> IF s \in S THEN [o \in Offset |-> Erased] ELSE c[s]]

\* Mutant of ClearBuffers: the buffer is marked clean but not cleared.
ClearDirtyOnly(S) ==
  [i \in DOMAIN buffers |->
     IF \E s \in S : get(s) = i /\ buffers[i].sector = s
       THEN [buffers[i] EXCEPT !.dirty = FALSE] ELSE buffers[i]]

\* The loop over the range: a buffer that holds an erased sector is cleared.
ClearBuffers(S) ==
  [i \in DOMAIN buffers |->
     IF \E s \in S : get(s) = i /\ buffers[i].sector = s
       THEN [buffers[i] EXCEPT !.data = [o \in Offset |-> Erased], !.dirty = FALSE]
       ELSE buffers[i]]

EraseRange(first, count) ==
  LET S == first .. first + count - 1 IN
  /\ call = NoCall
  /\ disk' = Zeroed(disk, S)
  /\ buffers' = ClearBuffers(S)
  /\ Finish(TRUE)
  /\ UNCHANGED <<media, mSize>>

\* raw_sector_erase_range fails, having erased any part of the range.
EraseFails(first, count) ==
  /\ call = NoCall
  /\ \E S \in SUBSET (first .. first + count - 1) : disk' = Zeroed(disk, S)
  /\ Finish(FALSE)
  /\ UNCHANGED <<media, mSize, buffers>>

(***************************************************************************)
(* flushBuffers, as called by sync and by allocateBuffers                  *)
(***************************************************************************)

BeginFlush(fn, arg) ==
  /\ call = NoCall
  /\ call' = Locals(fn, 0, NoData, arg)
  /\ UNCHANGED <<disk, media, mSize, buffers, ret>>

Flushing == call.fn \in {"sync", "alloc"} /\ call.ptr < mSize
FlushDone(fn) == call.fn = fn /\ call.ptr = mSize

\* Mutant of FlushBuffer: after a failure the loop starts again.
FlushBufferRestarts ==
  /\ Flushing
  /\ LET b == buffers[call.ptr] IN
     \E n \in Transferred(b) :
       /\ disk' = Flushed(b, n)
       /\ buffers' = [buffers EXCEPT ![call.ptr].dirty = @ /\ n # SectorSize]
       /\ call' = [call EXCEPT !.ptr = IF n = SectorSize THEN @ + 1 ELSE 0]
  /\ UNCHANGED <<media, mSize, ret>>

\* Mutant of FlushBuffer: the result is that of the last buffer.
FlushBufferForgets ==
  /\ Flushing
  /\ LET b == buffers[call.ptr] IN
     \E n \in Transferred(b) :
       /\ disk' = Flushed(b, n)
       /\ buffers' = [buffers EXCEPT ![call.ptr].dirty = @ /\ n # SectorSize]
       /\ call' = [call EXCEPT !.ptr = @ + 1, !.res = n = SectorSize]
  /\ UNCHANGED <<media, mSize, ret>>

\* One buffer: a failure is remembered and the loop goes on.
FlushBuffer ==
  /\ Flushing
  /\ LET b == buffers[call.ptr] IN
     \E n \in Transferred(b) :
       /\ disk' = Flushed(b, n)
       /\ buffers' = [buffers EXCEPT ![call.ptr].dirty = @ /\ n # SectorSize]
       /\ call' = [call EXCEPT !.ptr = @ + 1, !.res = @ /\ n = SectorSize]
  /\ UNCHANGED <<media, mSize, ret>>

FlushBuffersFail ==
  /\ FlushDone("sync") \/ FlushDone("alloc")
  /\ ~call.res
  /\ Finish(FALSE)
  /\ UNCHANGED <<disk, media, mSize, buffers>>

\* flushBuffers() && raw_sync()
Sync ==
  /\ FlushDone("sync") /\ call.res
  /\ \/ media' = disk /\ Finish(TRUE)
     \/ UNCHANGED media /\ Finish(FALSE)
  /\ UNCHANGED <<disk, mSize, buffers>>

\* Mutant of AllocateBuffers: the old list is dropped whether or not it could be
\* flushed.
AllocateBuffersAnyway ==
  /\ FlushDone("alloc")
  /\ \E m \in IF call.size = 0 THEN {0} ELSE ListSizes(call.size) :
       /\ mSize' = m
       /\ buffers' = [i \in 0 .. m - 1 |-> Invalidated]
       /\ Finish(m = call.size)
  /\ UNCHANGED <<disk, media>>

\* The new list replaces the flushed one; its size may differ from the request,
\* and the call then returns false with the list in place.
AllocateBuffers ==
  /\ FlushDone("alloc") /\ call.res
  /\ \E m \in IF call.size = 0 THEN {0} ELSE ListSizes(call.size) :
       /\ mSize' = m
       /\ buffers' = [i \in 0 .. m - 1 |-> Invalidated]
       /\ Finish(m = call.size)
  /\ UNCHANGED <<disk, media>>

(***************************************************************************)
(* Environment                                                             *)
(***************************************************************************)

\* The raw device moves a sector from its own volatile store to the medium.
Destage(s) ==
  /\ media' = [media EXCEPT ![s] = disk[s]]
  /\ UNCHANGED <<disk, mSize, buffers, call, ret>>

DropBuffers ==
  /\ mSize' = 0 /\ buffers' = [i \in {} |-> Invalidated]
  /\ call' = NoCall /\ ret' = "reset"

\* Power loss: only the medium is left.
Crash ==
  /\ disk' = media
  /\ DropBuffers
  /\ UNCHANGED media

\* The device object is deleted, which flushes nothing, and created again.
Reopen ==
  /\ call = NoCall
  /\ DropBuffers
  /\ UNCHANGED <<disk, media>>

(***************************************************************************)
(* Specification                                                           *)
(***************************************************************************)

Init ==
  /\ disk \in [Sector -> Data]
  /\ media = disk
  /\ mSize = 0
  /\ buffers = [i \in {} |-> Invalidated]
  /\ call = NoCall
  /\ ret = "reset"

\* Device and Partition reject ranges beyond the end of the device.
Requests == {r \in (0 .. DeviceSize - 1) \X (1 .. MaxSize) : r[1] + r[2] <= DeviceSize}

Begin ==
  \/ \E r \in Requests :
       \/ BeginRead(r[1], r[2])
       \/ \E src \in [0 .. r[2] - 1 -> Byte] : BeginWrite(r[1], r[2], src)
  \/ BeginFlush("sync", 0)
  \/ \E n \in BufferCounts : BeginFlush("alloc", n)

Erase ==
  \/ \E r \in Requests : EraseMisaligned(r[1], r[2])
  \/ \E first \in Sector : \E count \in 1 .. SectorCount - first :
       EraseRange(first, count) \/ EraseFails(first, count)

\* The steps of a call in progress.
Step ==
  \/ UnbufferedMisaligned \/ UnbufferedRead \/ UnbufferedWrite
  \/ ReadHit \/ ReadMiss \/ WriteHit \/ WriteMissWhole \/ WriteMissPartial
  \/ FlushFails \/ LoadFails \/ Return
  \/ FlushBuffer \/ FlushBuffersFail \/ Sync \/ AllocateBuffers

Environment == Crash \/ Reopen \/ \E s \in Sector : Destage(s)

Next == Begin \/ Erase \/ Step \/ Environment

Spec == Init /\ [][Next]_vars

\* The thread that made a call keeps running it.
FairSpec == Spec /\ WF_vars(Step)

(***************************************************************************)
(* Properties                                                              *)
(***************************************************************************)

\* Every variable has its type: a buffer's sector number fits 32 bits, a call
\* stays inside its own data, and the list has mSize elements.
TypeOK ==
  /\ disk \in [Sector -> Data]
  /\ media \in [Sector -> Data]
  /\ mSize \in Nat
  /\ buffers \in [0 .. mSize - 1 -> Buffer]
  /\ call \in Call
  /\ ret \in {"true", "false", "reset"}

InUse(i) ==
  buffers[i].sector \in Sector /\ get(buffers[i].sector) = i /\ buffers[i].data \in Data

Unused(i) == buffers[i].sector = invalid /\ ~buffers[i].dirty

\* A buffer in use belongs to a sector of the device and sits where get() will
\* look for that sector; only such a buffer is ever dirty, so flushBuffer never
\* writes a sector that was not written to, and no sector has two buffers.
SlotDiscipline == \A i \in 0 .. mSize - 1 : InUse(i) \/ Unused(i)

\* The source of a write is initialised, the destination of a read need not be.
MemoryByte(fn) == IF fn = "read" THEN Byte \cup {Junk} ELSE Byte

\* The loop variables of read and write agree: sector and offset address byte
\* ptr of the request, ptr and size make up its length, and the rest of it lies
\* within the device, so that no raw call is made for a sector beyond its end
\* and no memcpy runs past the caller's memory.  Without buffers a transfer is
\* made in one piece.
TransferInBounds ==
  call.fn \in {"read", "write"} =>
    /\ call.data \in [0 .. call.ptr + call.size - 1 -> MemoryByte(call.fn)]
    /\ call.address + call.ptr + call.size <= DeviceSize
    /\ call.size # 0 => call.sector * SectorSize + call.offset = call.address + call.ptr
    /\ call.size # 0 /\ mSize = 0 => call.ptr = 0

\* A read never hands out memory nobody has initialised (BufferList allocates
\* its buffers with new uint8_t[], Buffer::invalid marks them unused).
ReadsInitialised ==
  call.fn = "read" => \A k \in DOMAIN call.data : k < call.ptr => call.data[k] \in Byte

\* flushBuffers leaves no dirty buffer behind it unless it remembers a failure:
\* sync and allocateBuffers rely on its result alone before they call raw_sync
\* or throw the list away.
FlushProgress ==
  call.fn \in {"sync", "alloc"} =>
    /\ call.ptr <= mSize
    /\ call.res => \A i \in 0 .. call.ptr - 1 : ~buffers[i].dirty

\* A clean buffer holds what the device holds.
Coherent ==
  \A i \in 0 .. mSize - 1 :
    LET b == buffers[i] IN
    b.sector \in Sector /\ ~b.dirty => b.data = disk[b.sector]

EraseFailing ==
  \E first \in Sector : \E count \in 1 .. SectorCount - first : EraseFails(first, count)

\* No step but a failed erase, whose range nobody may rely on, makes the buffers
\* and the device disagree about a sector that has nothing to be written back.
CoherencePreserved == [][Coherent => Coherent' \/ EraseFailing]_vars

\* Every call returns, whatever fails.
CallReturns == call # NoCall ~> call = NoCall

(***************************************************************************)
(* The device implements Storage.                                          *)
(***************************************************************************)

Cached(s) == mSize # 0 /\ buffers[get(s)].sector = s

\* What a read of offset o of sector s may return, and what a power loss may
\* bring back.
viewAt(s, o) ==
  LET b == buffers[get(s)] IN
  IF ~Cached(s) THEN {disk[s][o]}
  ELSE IF b.dirty THEN {b.data[o]} ELSE {b.data[o], disk[s][o]}

mayAt(s, o) == viewAt(s, o) \cup {disk[s][o], media[s][o]}

viewOf(a) == viewAt(a \div SectorSize, a % SectorSize)
mayOf(a) == mayAt(a \div SectorSize, a % SectorSize)

reqOf ==
  IF call.fn \in {"read", "write"}
    THEN [fn |-> call.fn, addr |-> call.address, data |-> call.data, done |-> call.ptr]
    ELSE [fn |-> call.fn, addr |-> 0, data |-> NoData, done |-> 0]

Abstract == INSTANCE Storage WITH
  Size <- DeviceSize,
  view <- [a \in 0 .. DeviceSize - 1 |-> viewOf(a)],
  may <- [a \in 0 .. DeviceSize - 1 |-> mayOf(a)],
  req <- reqOf

\* Readers always see the last write, through evictions, failed calls and changes
\* of the buffers; after a successful sync a power loss brings back that same
\* content, and at any other time nothing that was not written.
ImplementsStorage == Abstract!Spec
==============================================================================
