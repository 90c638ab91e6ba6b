-------------------------- MODULE BlockDeviceProofs --------------------------
(***************************************************************************)
(* Proofs about BlockDevice, for every number and size of sectors, every   *)
(* number of buffers and every length of a request.                        *)
(*                                                                         *)
(* The buffers number their sectors with a uint32_t whose largest value    *)
(* marks an unused buffer, so the theorems assume a device of fewer        *)
(* sectors than that (Addressable).  Without it they are false: see the    *)
(* run wide_device.                                                        *)
(***************************************************************************)
EXTENDS BlockDevice, TLAPS

Addressable == SectorCount < SectorModulus

\* What holds between any two steps.  SlotDiscipline is not inductive alone: a
\* miss stores call.sector in a buffer, so TransferInBounds must say that it is
\* a sector of the device, and a write copies call.data into it.
Inv == TypeOK /\ SlotDiscipline /\ TransferInBounds /\ ReadsInitialised

(***************************************************************************)
(* Arithmetic                                                              *)
(***************************************************************************)

\* A remainder is below its modulus (get() finds a buffer of the list).
LEMMA ModRange ==
  ASSUME NEW a \in Nat, NEW m \in Nat \ {0}
  PROVE  a % m \in 0 .. m - 1
OBVIOUS

\* Truncation leaves a number below the modulus alone (ToUint32 on a sector of
\* an addressable device).
LEMMA ModSmall ==
  ASSUME NEW a \in Nat, NEW m \in Nat \ {0}, a < m
  PROVE  a % m = a
OBVIOUS

\* Multiplication is monotonic.
LEMMA MulMono ==
  ASSUME NEW a \in Nat, NEW b \in Nat, NEW c \in Nat, a <= b
  PROVE  a * c <= b * c
OBVIOUS

\* The sector of a byte within the device is a sector of the device.
LEMMA MulLess ==
  ASSUME NEW a \in Nat, NEW b \in Nat, NEW c \in Nat, a * c < b * c
  PROVE  a < b
BY MulMono

\* address is address / sectorSize sectors and address % sectorSize bytes.
LEMMA DivMod ==
  ASSUME NEW a \in Nat, NEW m \in Nat \ {0}
  PROVE  /\ a \div m \in Nat
         /\ (a \div m) * m + (a % m) = a
OBVIOUS

\* Moving on by one sector.
LEMMA MulSucc ==
  ASSUME NEW a \in Nat, NEW c \in Nat
  PROVE  (a + 1) * c = a * c + c
OBVIOUS

\* Byte k of one range, seen from the start b of another.
LEMMA Shift ==
  ASSUME NEW a \in Nat, NEW b \in Nat, NEW c \in Nat, NEW n \in Nat, NEW k \in Int,
         a <= k, k <= a + n - 1, b + n <= c
  PROVE  b + k - a \in 0 .. c - 1
OBVIOUS

(***************************************************************************)
(* Operators of the model                                                  *)
(***************************************************************************)

\* An unused buffer is a buffer.
LEMMA InvalidatedType == Invalidated \in Buffer
BY DeviceAssumption DEF Invalidated, Buffer, invalid, Content

\* The memory of a request no longer than MaxSize.
LEMMA InMemory ==
  ASSUME NEW n \in 0 .. MaxSize, NEW d \in [0 .. n - 1 -> Byte \cup {Junk}]
  PROVE  d \in Memory
BY DEF Memory

\* The locals a call starts with.
LEMMA LocalsType ==
  ASSUME NEW fn \in {"idle", "read", "write", "sync", "alloc"}, NEW a \in Nat,
         NEW d \in Memory, NEW n \in Nat
  PROVE  Locals(fn, a, d, n) \in Call
<1>1. a \div SectorSize \in Nat /\ a % SectorSize \in Offset
  BY DeviceAssumption, DivMod, ModRange DEF Offset
<1>2. \A s \in Nat, o \in Offset :
        [fn |-> fn, address |-> a, sector |-> s, offset |-> o, size |-> n, ptr |-> 0,
         data |-> d, res |-> TRUE] \in Call
  BY DEF Call
<1> QED
  BY <1>1, <1>2 DEF Locals

\* sync and allocateBuffers have no memory of the caller's.
LEMMA NoDataType == NoData \in Memory
<1>1. NoData \in [0 .. 0 - 1 -> Byte \cup {Junk}]
  BY DeviceAssumption DEF NoData
<1>2. 0 \in 0 .. MaxSize
  BY DeviceAssumption
<1> QED
  BY <1>1, <1>2, InMemory

\* No call in progress satisfies the invariant's conditions on calls.
LEMMA NoCallType ==
  /\ NoCall \in Call
  /\ NoCall.fn = "idle"
<1>1. NoCall \in Call
  BY LocalsType, NoDataType DEF NoCall
<1> QED
  BY <1>1 DEF NoCall, Locals

\* chunkSize is at least one byte, stays inside the sector and inside the
\* request, and leaves bytes only when it reaches the end of the sector.
LEMMA ChunkInBounds ==
  ASSUME call \in Call, call.size # 0
  PROVE  /\ ChunkSize \in 1 .. call.size
         /\ call.offset + ChunkSize <= SectorSize
         /\ call.size - ChunkSize # 0 => call.offset + ChunkSize = SectorSize
         /\ ~Partial => call.offset = 0 /\ ChunkSize = SectorSize
BY DeviceAssumption DEF Call, ChunkSize, Offset, Partial

\* A transfer in progress is at a sector of the device.
LEMMA SectorInRange ==
  ASSUME TypeOK, TransferInBounds, Transferring("read") \/ Transferring("write")
  PROVE  call.sector \in Sector
<1>1. /\ call.sector \in Nat /\ call.offset \in Nat /\ call.size \in Nat \ {0}
      /\ call.address \in Nat /\ call.ptr \in Nat
  BY DEF TypeOK, Call, Transferring, Offset
<1>2. SectorCount \in Nat /\ SectorSize \in Nat
  BY DeviceAssumption
<1>3. call.sector * SectorSize \in Nat /\ SectorCount * SectorSize \in Nat
  BY <1>1, <1>2
<1>4. call.sector * SectorSize < SectorCount * SectorSize
  BY <1>1, <1>3 DEF TransferInBounds, Transferring, DeviceSize
<1> QED
  BY <1>1, <1>2, <1>4, MulLess DEF Sector

\* The buffer for a sector is one of the list.
LEMMA SlotInRange ==
  ASSUME TypeOK, mSize # 0
  PROVE  Slot \in 0 .. mSize - 1
BY ModRange DEF Slot, get, TypeOK, Call

\* Writing back a buffer, in whole or in part, leaves bytes on the device.
LEMMA FlushedType ==
  ASSUME TypeOK, SlotDiscipline, NEW i \in 0 .. mSize - 1, NEW n \in 0 .. SectorSize
  PROVE  Flushed(buffers[i], n) \in [Sector -> Data]
<1>1. disk \in [Sector -> Data]
  BY DEF TypeOK
<1>2. CASE ~buffers[i].dirty
  BY <1>1, <1>2 DEF Flushed
<1>3. CASE buffers[i].dirty
  <2>1. buffers[i].sector \in Sector /\ buffers[i].data \in Data
    BY <1>3 DEF SlotDiscipline, InUse, Unused
  <2>2. Torn(disk[buffers[i].sector], buffers[i].data, n) \in Data
    BY <1>1, <2>1 DEF Torn, Data
  <2> QED
    BY <1>1, <1>3, <2>1, <2>2 DEF Flushed
<1> QED
  BY <1>2, <1>3

\* The memory of a transfer is as long as what has been and what is still to be
\* moved, and stays so.
LEMMA SameMemory ==
  ASSUME TypeOK, NEW d \in [DOMAIN call.data -> Byte \cup {Junk}]
  PROVE  d \in Memory
<1>1. PICK n \in 0 .. MaxSize : call.data \in [0 .. n - 1 -> Byte \cup {Junk}]
  BY DEF TypeOK, Call, Memory
<1>2. d \in [0 .. n - 1 -> Byte \cup {Junk}]
  BY <1>1
<1> QED
  BY <1>2, InMemory

\* A call that returns leaves nothing to check about calls.
LEMMA FinishInv ==
  ASSUME call' = NoCall
  PROVE  call' \in Call /\ TransferInBounds' /\ ReadsInitialised'
BY NoCallType DEF TransferInBounds, ReadsInitialised

\* The end of an iteration of the loop in read or write.
LEMMA NextChunkInv ==
  ASSUME TypeOK, TransferInBounds, Transferring("read") \/ Transferring("write"),
         NEW d \in [DOMAIN call.data -> MemoryByte(call.fn)],
         mSize # 0, mSize' = mSize, NextChunk(d)
  PROVE  call' \in Call /\ TransferInBounds'
<1>1. call \in Call /\ call.fn \in {"read", "write"} /\ call.size # 0
  BY DEF TypeOK, Transferring
<1>2. call' = [fn |-> call.fn, address |-> call.address, sector |-> call.sector + 1,
              offset |-> 0, size |-> call.size - ChunkSize, ptr |-> call.ptr + ChunkSize,
              data |-> d, res |-> call.res]
  BY <1>1 DEF Call, NextChunk
<1>3. /\ call.sector \in Nat /\ call.offset \in Nat /\ call.size \in Nat
      /\ call.address \in Nat /\ call.ptr \in Nat
      /\ SectorSize \in Nat \ {0}
  BY <1>1, DeviceAssumption DEF Call, Offset
<1>4. /\ ChunkSize \in 1 .. call.size
      /\ call.size - ChunkSize # 0 => call.offset + ChunkSize = SectorSize
  BY <1>1, ChunkInBounds
<1>5. call' \in Call
  <2>1. d \in Memory
    BY SameMemory DEF MemoryByte
  <2>2. 0 \in Offset
    BY <1>3 DEF Offset
  <2> QED
    BY <1>1, <1>2, <1>3, <1>4, <2>1, <2>2 DEF Call
<1>6. call'.ptr + call'.size - 1 = call.ptr + call.size - 1
  BY <1>2, <1>3, <1>4
<1>7. call'.data \in [0 .. call'.ptr + call'.size - 1 -> MemoryByte(call'.fn)]
  <2>1. DOMAIN call.data = 0 .. call.ptr + call.size - 1
    BY <1>1 DEF TransferInBounds
  <2>2. call'.data = d /\ call'.fn = call.fn
    BY <1>2
  <2> QED
    <3>1. d \in [0 .. call.ptr + call.size - 1 -> MemoryByte(call.fn)]
      BY <2>1
    <3> QED
      BY <1>6, <2>2, <3>1
<1>8. call'.address + call'.ptr + call'.size <= DeviceSize
  <2>1. call.address + call.ptr + call.size <= DeviceSize
    BY <1>1 DEF TransferInBounds
  <2> QED
    BY <1>2, <1>3, <1>4, <2>1
<1>9. ASSUME call'.size # 0
      PROVE  call'.sector * SectorSize + call'.offset = call'.address + call'.ptr
  <2>1. call.sector * SectorSize + call.offset = call.address + call.ptr
    BY <1>1 DEF TransferInBounds
  <2>2. (call.sector + 1) * SectorSize = call.sector * SectorSize + SectorSize
    BY <1>3, MulSucc
  <2>3. call.offset + ChunkSize = SectorSize
    BY <1>2, <1>4, <1>9
  <2>4. call.sector * SectorSize \in Nat
    BY <1>3
  <2> QED
    BY <1>2, <1>3, <1>4, <2>1, <2>2, <2>3, <2>4
<1> QED
  BY <1>5, <1>7, <1>8, <1>9 DEF TransferInBounds

\* A read's destination after an iteration: the bytes up to the new ptr are
\* bytes of the device.
LEMMA CopyOutInv ==
  ASSUME TypeOK, TransferInBounds, ReadsInitialised, Transferring("read"),
         NEW content \in Data, mSize # 0, mSize' = mSize, NextChunk(CopyOut(content))
  PROVE  call' \in Call /\ TransferInBounds' /\ ReadsInitialised'
<1>1. call \in Call /\ call.fn = "read" /\ call.size # 0
  BY DEF TypeOK, Transferring
<1>2. /\ call.data \in [0 .. call.ptr + call.size - 1 -> Byte \cup {Junk}]
      /\ call.ptr \in Nat /\ call.size \in Nat /\ call.offset \in Nat
  BY <1>1 DEF TransferInBounds, MemoryByte, Call, Offset
<1>3. ChunkSize \in 1 .. call.size /\ call.offset + ChunkSize <= SectorSize
  BY <1>1, ChunkInBounds
<1>4. ASSUME NEW k \in call.ptr .. call.ptr + ChunkSize - 1
      PROVE  content[call.offset + k - call.ptr] \in Byte
  <2>1. k \in Int /\ call.ptr <= k /\ k <= call.ptr + ChunkSize - 1
    BY <1>2, <1>3
  <2>2. ChunkSize \in Nat /\ SectorSize \in Nat
    BY <1>2, <1>3, DeviceAssumption
  <2>3. call.offset + k - call.ptr \in Offset
    BY <1>2, <1>3, <2>1, <2>2, DeviceAssumption, Shift DEF Offset
  <2> QED
    BY <2>3 DEF Data
<1>5. CopyOut(content) \in [DOMAIN call.data -> Byte \cup {Junk}]
  BY <1>2, <1>4 DEF CopyOut
<1>6. call' \in Call /\ TransferInBounds'
  BY <1>1, <1>5, NextChunkInv DEF MemoryByte
<1>7. call'.data = CopyOut(content) /\ call'.ptr = call.ptr + ChunkSize
  BY <1>1 DEF NextChunk, Call
<1>8. ASSUME NEW k \in DOMAIN call'.data, k < call'.ptr
      PROVE  call'.data[k] \in Byte
  <2>1. k \in DOMAIN call.data /\ k \in Int
    BY <1>2, <1>7 DEF CopyOut
  <2>2. CASE k \in call.ptr .. call.ptr + ChunkSize - 1
    BY <1>4, <1>7, <2>1, <2>2 DEF CopyOut
  <2>3. CASE k \notin call.ptr .. call.ptr + ChunkSize - 1
    <3>1. k < call.ptr
      BY <1>2, <1>3, <1>7, <1>8, <2>1, <2>3
    <3>2. call.data[k] \in Byte
      BY <1>1, <2>1, <3>1 DEF ReadsInitialised
    <3> QED
      BY <1>7, <2>1, <2>3, <3>2 DEF CopyOut
  <2> QED
    BY <2>2, <2>3
<1> QED
  BY <1>6, <1>8 DEF ReadsInitialised

\* A write's buffer after an iteration holds bytes only: it held bytes before, or
\* the whole sector is overwritten.
LEMMA CopyInData ==
  ASSUME TypeOK, TransferInBounds, Transferring("write"),
         NEW content \in Content, content \in Data \/ ~Partial
  PROVE  CopyIn(content) \in Data
<1>1. call \in Call /\ call.fn = "write" /\ call.size # 0
  BY DEF TypeOK, Transferring
<1>2. /\ call.data \in [0 .. call.ptr + call.size - 1 -> Byte]
      /\ call.ptr \in Nat /\ call.size \in Nat /\ call.offset \in Nat
  BY <1>1 DEF TransferInBounds, MemoryByte, Call, Offset
<1>3. /\ ChunkSize \in 1 .. call.size
      /\ ~Partial => call.offset = 0 /\ ChunkSize = SectorSize
  BY <1>1, ChunkInBounds
<1>4. ASSUME NEW o \in Offset
      PROVE  (IF o \in call.offset .. call.offset + ChunkSize - 1
                THEN call.data[call.ptr + o - call.offset] ELSE content[o]) \in Byte
  <2>1. CASE o \in call.offset .. call.offset + ChunkSize - 1
    <3>1. o \in Int /\ call.offset <= o /\ o <= call.offset + ChunkSize - 1
      BY <1>2, <1>3, <2>1
    <3>2. call.ptr + o - call.offset \in 0 .. call.ptr + call.size - 1
      BY <1>2, <1>3, <3>1, Shift
    <3> QED
      BY <1>2, <2>1, <3>2
  <2>2. CASE o \notin call.offset .. call.offset + ChunkSize - 1
    <3>1. Partial
      BY <1>3, <2>2, DeviceAssumption DEF Offset
    <3> QED
      BY <2>2, <3>1 DEF Data
  <2> QED
    BY <2>1, <2>2
<1> QED
  BY <1>4 DEF CopyIn, Data

\* A buffer that holds the sector of a transfer holds bytes: it is in use.
LEMMA HitData ==
  ASSUME Addressable, TypeOK, SlotDiscipline, mSize # 0, call.sector \in Sector, Hit
  PROVE  buffers[Slot].data \in Data
<1>1. Slot \in 0 .. mSize - 1
  BY SlotInRange
<1>2. invalid \notin Sector
  BY DeviceAssumption DEF Addressable, invalid, Sector
<1> QED
  BY <1>1, <1>2 DEF SlotDiscipline, InUse, Unused, Hit

\* Loading a sector into its buffer, or changing it there.
LEMMA SetBufferInv ==
  ASSUME Addressable, TypeOK, SlotDiscipline, mSize # 0, mSize' = mSize, call.sector \in Sector,
         NEW dirty \in BOOLEAN, NEW content \in Data, SetBuffer(dirty, content)
  PROVE  buffers' \in [0 .. mSize' - 1 -> Buffer] /\ SlotDiscipline'
<1>1. Slot \in 0 .. mSize - 1
  BY SlotInRange
<1>2. ToUint32(call.sector) = call.sector /\ call.sector \in 0 .. SectorModulus - 1
  BY DeviceAssumption, ModSmall DEF Addressable, ToUint32, Sector
<1> DEFINE b == [sector |-> call.sector, dirty |-> dirty, data |-> content]
<1>3. buffers' = [buffers EXCEPT ![Slot] = b]
  BY <1>2 DEF SetBuffer
<1>4. b \in Buffer
  <2>1. content \in Content
    BY DEF Content, Data
  <2> QED
    BY <1>2, <2>1 DEF Buffer
<1>5. buffers' \in [0 .. mSize' - 1 -> Buffer]
  BY <1>1, <1>3, <1>4 DEF TypeOK
<1>6. ASSUME NEW i \in 0 .. mSize' - 1
      PROVE  InUse(i)' \/ Unused(i)'
  <2>1. CASE i = Slot
    BY <1>1, <1>3, <2>1 DEF TypeOK, InUse, Slot, get
  <2>2. CASE i # Slot
    BY <1>1, <1>3, <2>2 DEF TypeOK, SlotDiscipline, InUse, Unused, get
  <2> QED
    BY <2>1, <2>2
<1> QED
  BY <1>5, <1>6 DEF SlotDiscipline

\* A step that changes neither the list nor its buffers.
LEMMA SameBuffers ==
  ASSUME SlotDiscipline, buffers' = buffers, mSize' = mSize
  PROVE  SlotDiscipline'
BY DEF SlotDiscipline, InUse, Unused, get

\* The arguments of a read or write put it at the start of its range.
LEMMA LocalsInv ==
  ASSUME NEW fn \in {"read", "write"}, NEW r \in Requests,
         NEW d \in [0 .. r[2] - 1 -> MemoryByte(fn)], call' = Locals(fn, r[1], d, r[2])
  PROVE  call' \in Call /\ TransferInBounds' /\ ReadsInitialised'
<1>1. r[1] \in Nat /\ r[2] \in 1 .. MaxSize /\ r[1] + r[2] <= DeviceSize
  BY DEF Requests
<1>2. SectorSize \in Nat \ {0} /\ MaxSize \in Nat
  BY DeviceAssumption
<1>3. /\ r[1] \div SectorSize \in Nat
      /\ r[1] % SectorSize \in Offset
      /\ (r[1] \div SectorSize) * SectorSize + (r[1] % SectorSize) = r[1]
  BY <1>1, <1>2, DivMod, ModRange DEF Offset
<1>4. d \in Memory
  <2>1. d \in [0 .. r[2] - 1 -> Byte \cup {Junk}] /\ r[2] \in 0 .. MaxSize
    BY <1>1, <1>2 DEF MemoryByte
  <2> QED
    BY <2>1, InMemory
<1>5. call' \in Call
  BY <1>1, <1>2, <1>4, LocalsType
<1>6. /\ call'.fn = fn /\ call'.data = d /\ call'.ptr = 0 /\ call'.size = r[2]
      /\ call'.address = r[1] /\ call'.sector = r[1] \div SectorSize
      /\ call'.offset = r[1] % SectorSize
  BY DEF Locals
<1>7. 0 + r[2] - 1 = r[2] - 1 /\ r[1] + 0 = r[1]
  BY <1>1, <1>2
<1>8. TransferInBounds'
  BY <1>1, <1>3, <1>6, <1>7 DEF TransferInBounds
<1>9. ReadsInitialised'
  <2>1. \A k \in 0 .. r[2] - 1 : ~(k < 0)
    BY <1>1, <1>2
  <2> QED
    BY <1>6, <2>1 DEF ReadsInitialised
<1> QED
  BY <1>5, <1>8, <1>9

(***************************************************************************)
(* One lemma per action: it preserves the invariant.                       *)
(***************************************************************************)

\* BeginRead and BeginWrite, for a range within the device.
LEMMA BeginTransferInv ==
  ASSUME Inv, NEW r \in Requests,
         \/ BeginRead(r[1], r[2])
         \/ \E src \in [0 .. r[2] - 1 -> Byte] : BeginWrite(r[1], r[2], src)
  PROVE  Inv'
<1>1. call' \in Call /\ TransferInBounds' /\ ReadsInitialised'
  <2>1. CASE BeginRead(r[1], r[2])
    <3>1. [k \in 0 .. r[2] - 1 |-> Junk] \in [0 .. r[2] - 1 -> MemoryByte("read")]
      BY DEF MemoryByte
    <3> QED
      BY <2>1, <3>1, LocalsInv DEF BeginRead
  <2>2. ASSUME NEW src \in [0 .. r[2] - 1 -> Byte], BeginWrite(r[1], r[2], src)
        PROVE  call' \in Call /\ TransferInBounds' /\ ReadsInitialised'
    <3>1. src \in [0 .. r[2] - 1 -> MemoryByte("write")]
      BY DEF MemoryByte
    <3> QED
      BY <2>2, <3>1, LocalsInv DEF BeginWrite
  <2> QED
    BY <2>1, <2>2
<1>2. UNCHANGED <<disk, media, mSize, buffers, ret>>
  BY DEF BeginRead, BeginWrite
<1> QED
  BY <1>1, <1>2, SameBuffers DEF Inv, TypeOK

\* sync and allocateBuffers start flushing at the first buffer.
LEMMA BeginFlushInv ==
  ASSUME Inv, NEW fn \in {"sync", "alloc"}, NEW n \in Nat, BeginFlush(fn, n)
  PROVE  Inv'
<1>1. call' = Locals(fn, 0, NoData, n)
  BY DEF BeginFlush
<1>2. call' \in Call /\ call'.fn = fn
  BY <1>1, LocalsType, NoDataType DEF Locals
<1>3. UNCHANGED <<disk, media, mSize, buffers, ret>>
  BY DEF BeginFlush
<1> QED
  BY <1>2, <1>3, SameBuffers DEF Inv, TypeOK, TransferInBounds, ReadsInitialised

\* A call that ends, changing at most the device.
LEMMA EndInv ==
  ASSUME Inv, NEW ok \in BOOLEAN, Finish(ok),
         disk' \in [Sector -> Data], media' \in [Sector -> Data], UNCHANGED <<mSize, buffers>>
  PROVE  Inv'
BY FinishInv, SameBuffers DEF Inv, TypeOK, Finish

\* An unbuffered read of whole sectors.
LEMMA UnbufferedReadInv ==
  ASSUME Inv, UnbufferedRead
  PROVE  Inv'
<1>1. /\ TypeOK /\ SlotDiscipline /\ TransferInBounds /\ call \in Call /\ call.fn = "read"
      /\ call.size # 0 /\ mSize = 0 /\ call.offset = 0
  BY DEF Inv, TypeOK, UnbufferedRead, Transferring, Misaligned
<1>2. /\ call.size \in Nat /\ call.sector \in Nat /\ call.address \in Nat
      /\ SectorSize \in Nat \ {0} /\ SectorCount \in Nat
  BY <1>1, DeviceAssumption DEF Call
<1>3. /\ call.ptr = 0
      /\ call.address + call.size <= SectorCount * SectorSize
      /\ call.sector * SectorSize = call.address
      /\ call.data \in [0 .. call.size - 1 -> Byte \cup {Junk}]
  <2>1. /\ call.ptr = 0
        /\ call.address + call.ptr + call.size <= SectorCount * SectorSize
        /\ call.sector * SectorSize + call.offset = call.address + call.ptr
        /\ call.data \in [0 .. call.ptr + call.size - 1 -> Byte \cup {Junk}]
    BY <1>1 DEF TransferInBounds, MemoryByte, DeviceSize
  <2>2. call.sector * SectorSize \in Nat /\ 0 + call.size - 1 = call.size - 1
    BY <1>2
  <2> QED
    BY <1>1, <1>2, <2>1, <2>2
<1>4. disk \in [Sector -> Data] /\ UNCHANGED <<disk, media, mSize, buffers>>
  BY <1>1 DEF TypeOK, UnbufferedRead
<1>5. ASSUME NEW k \in 0 .. call.size - 1
      PROVE  disk[call.sector + k \div SectorSize][k % SectorSize] \in Byte
  <2>1. k \in Nat /\ k < call.size
    BY <1>2
  <2> DEFINE q == k \div SectorSize
             t == k % SectorSize
  <2>2. q \in Nat /\ t \in Offset /\ t \in Nat /\ q * SectorSize + t = k
    <3>1. q \in Nat /\ q * SectorSize + t = k
      BY <1>2, <2>1, DivMod
    <3>2. t \in 0 .. SectorSize - 1
      BY <1>2, <2>1, ModRange
    <3> HIDE DEF q, t
    <3> QED
      BY <1>2, <3>1, <3>2 DEF Offset
  <2> HIDE DEF q, t
  <2>3. (call.sector + q) * SectorSize = call.sector * SectorSize + q * SectorSize
    BY <1>2, <2>2
  <2>4. q * SectorSize \in Nat /\ SectorCount * SectorSize \in Nat
    BY <1>2, <2>2
  <2>5. (call.sector + q) * SectorSize < SectorCount * SectorSize
    BY <1>2, <1>3, <2>1, <2>2, <2>3, <2>4
  <2>6. call.sector + q \in Sector
    BY <1>2, <2>2, <2>5, MulLess DEF Sector
  <2>7. disk[call.sector + q][t] \in Byte
    BY <1>4, <2>2, <2>6 DEF Data
  <2> QED
    BY <2>7 DEF q, t
<1>6. CASE Finish(FALSE)
  BY <1>1, <1>4, <1>6, EndInv DEF Inv, TypeOK
<1>7. CASE ~Finish(FALSE)
  <2> DEFINE d == [k \in DOMAIN call.data |->
                     disk[call.sector + k \div SectorSize][k % SectorSize]]
  <2>1. d \in [0 .. call.size - 1 -> Byte]
    BY <1>3, <1>5
  <2>2. call' = [call EXCEPT !.size = 0, !.ptr = call.size, !.data = d] /\ ret' = ret
    BY <1>7 DEF UnbufferedRead
  <2> HIDE DEF d
  <2>3. d \in Memory
    BY <1>1, <1>3, <2>1, SameMemory
  <2>4. call' \in Call
    BY <1>1, <1>2, <2>2, <2>3 DEF Call
  <2>5. /\ call'.fn = "read" /\ call'.size = 0 /\ call'.ptr = call.size
        /\ call'.data = d /\ call'.address = call.address
    BY <1>1, <2>2 DEF Call
  <2>6. call.size + 0 - 1 = call.size - 1 /\ call.address + call.size + 0 = call.address + call.size
    BY <1>2
  <2>7. d \in [0 .. call.size - 1 -> MemoryByte("read")]
    BY <2>1 DEF MemoryByte
  <2>8. TransferInBounds'
    BY <1>3, <2>5, <2>6, <2>7 DEF TransferInBounds, DeviceSize
  <2>9. ReadsInitialised'
    BY <2>1, <2>5 DEF ReadsInitialised
  <2> QED
    BY <1>1, <1>4, <2>2, <2>4, <2>8, <2>9, SameBuffers DEF Inv, TypeOK
<1> QED
  BY <1>6, <1>7

\* An unbuffered write of whole sectors, of which any number of bytes arrives.
LEMMA UnbufferedWriteInv ==
  ASSUME Inv, UnbufferedWrite
  PROVE  Inv'
<1>1. /\ TypeOK /\ SlotDiscipline /\ TransferInBounds /\ call \in Call /\ call.fn = "write"
      /\ call.size # 0 /\ mSize = 0
  BY DEF Inv, TypeOK, UnbufferedWrite, Transferring
<1>2. /\ call.size \in Nat /\ call.address \in Nat
      /\ call.ptr = 0
      /\ call.address + call.ptr + call.size <= DeviceSize
      /\ call.data \in [0 .. call.ptr + call.size - 1 -> Byte]
  BY <1>1 DEF Call, TransferInBounds, MemoryByte
<1>3. call.data \in [0 .. call.size - 1 -> Byte]
  <2>1. 0 + call.size - 1 = call.size - 1
    BY <1>2
  <2> QED
    BY <1>2, <2>1
<1>4. UNCHANGED <<media, mSize, buffers>>
  BY DEF UnbufferedWrite
<1>5. PICK n \in 0 .. call.size :
        /\ disk' = [s \in Sector |-> [o \in Offset |->
             LET k == (s - call.sector) * SectorSize + o IN
             IF k \in 0 .. n - 1 THEN call.data[k] ELSE disk[s][o]]]
        /\ IF n = call.size
             THEN call' = [call EXCEPT !.size = 0, !.ptr = call.size] /\ UNCHANGED ret
             ELSE Finish(FALSE)
  BY DEF UnbufferedWrite
<1>6. disk' \in [Sector -> Data]
  <2>1. \A k \in 0 .. n - 1 : call.data[k] \in Byte
    BY <1>2, <1>3
  <2>2. \A s \in Sector, o \in Offset : disk[s][o] \in Byte
    BY <1>1 DEF TypeOK, Data
  <2>3. \A s \in Sector, o \in Offset :
          (LET k == (s - call.sector) * SectorSize + o IN
           IF k \in 0 .. n - 1 THEN call.data[k] ELSE disk[s][o]) \in Byte
    BY <2>1, <2>2
  <2> QED
    BY <1>5, <2>3 DEF Data
<1>7. CASE n # call.size
  BY <1>1, <1>4, <1>5, <1>6, <1>7, EndInv DEF TypeOK
<1>8. CASE n = call.size
  <2>1. call' = [call EXCEPT !.size = 0, !.ptr = call.size] /\ ret' = ret
    BY <1>5, <1>8
  <2>2. call' \in Call
    BY <1>1, <1>2, <2>1 DEF Call
  <2>3. /\ call'.fn = "write" /\ call'.size = 0 /\ call'.ptr = call.size
        /\ call'.data = call.data /\ call'.address = call.address
    BY <1>1, <2>1 DEF Call
  <2>4. /\ call.size + 0 - 1 = call.size - 1
        /\ call.address + call.size + 0 = call.address + 0 + call.size
    BY <1>2
  <2>5. TransferInBounds'
    BY <1>2, <1>3, <2>3, <2>4 DEF TransferInBounds, MemoryByte, DeviceSize
  <2>6. ReadsInitialised'
    BY <2>3 DEF ReadsInitialised
  <2> QED
    BY <1>1, <1>4, <1>6, <2>1, <2>2, <2>5, <2>6, SameBuffers DEF Inv, TypeOK
<1> QED
  BY <1>7, <1>8

\* What every buffered iteration can rely on.
LEMMA Iteration ==
  ASSUME Inv, Buffered("read") \/ Buffered("write")
  PROVE  /\ TypeOK /\ SlotDiscipline /\ TransferInBounds /\ ReadsInitialised
         /\ mSize # 0 /\ call.sector \in Sector /\ Slot \in 0 .. mSize - 1
         /\ Flushed(buffers[Slot], SectorSize) \in [Sector -> Data]
         /\ \A n \in Transferred(buffers[Slot]) : Flushed(buffers[Slot], n) \in [Sector -> Data]
         /\ buffers[Slot].data \in Content
<1>1. /\ TypeOK /\ SlotDiscipline /\ TransferInBounds /\ ReadsInitialised /\ mSize # 0
      /\ Transferring("read") \/ Transferring("write")
  BY DEF Inv, Buffered
<1>2. call.sector \in Sector /\ Slot \in 0 .. mSize - 1
  BY <1>1, SectorInRange, SlotInRange
<1>3. Transferred(buffers[Slot]) \subseteq 0 .. SectorSize /\ SectorSize \in 0 .. SectorSize
  BY DeviceAssumption DEF Transferred
<1>4. \A n \in 0 .. SectorSize : Flushed(buffers[Slot], n) \in [Sector -> Data]
  BY <1>1, <1>2, FlushedType
<1>5. buffers[Slot].data \in Content
  BY <1>1, <1>2 DEF TypeOK, Buffer
<1> QED
  BY <1>1, <1>2, <1>3, <1>4, <1>5

\* A read from a buffer, which holds bytes of the device.
LEMMA ReadHitInv ==
  ASSUME Addressable, Inv, ReadHit
  PROVE  Inv'
<1>1. Buffered("read") /\ Transferring("read") /\ Hit
  BY DEF ReadHit, Buffered
<1>2. /\ TypeOK /\ SlotDiscipline /\ TransferInBounds /\ ReadsInitialised
      /\ mSize # 0 /\ call.sector \in Sector
  BY <1>1, Iteration
<1>3. UNCHANGED <<disk, media, mSize, buffers, ret>> /\ NextChunk(CopyOut(buffers[Slot].data))
  BY DEF ReadHit
<1>4. buffers[Slot].data \in Data
  BY <1>1, <1>2, HitData
<1>5. call' \in Call /\ TransferInBounds' /\ ReadsInitialised'
  BY <1>1, <1>2, <1>3, <1>4, CopyOutInv
<1> QED
  BY <1>2, <1>3, <1>5, SameBuffers DEF Inv, TypeOK

\* A read that evicts a buffer and loads another sector into it.
LEMMA ReadMissInv ==
  ASSUME Addressable, Inv, ReadMiss
  PROVE  Inv'
<1>1. Buffered("read") /\ Transferring("read")
  BY DEF ReadMiss, Buffered
<1>2. /\ TypeOK /\ SlotDiscipline /\ TransferInBounds /\ ReadsInitialised
      /\ mSize # 0 /\ call.sector \in Sector
  BY <1>1, Iteration
<1>3. /\ UNCHANGED <<media, mSize, ret>>
      /\ SetBuffer(FALSE, disk'[call.sector])
      /\ NextChunk(CopyOut(disk'[call.sector]))
  BY DEF ReadMiss
<1>4. disk' \in [Sector -> Data]
  BY <1>1, Iteration DEF ReadMiss
<1>5. disk'[call.sector] \in Data
  BY <1>2, <1>4
<1>6. call' \in Call /\ TransferInBounds' /\ ReadsInitialised'
  BY <1>1, <1>2, <1>3, <1>5, CopyOutInv
<1>7. buffers' \in [0 .. mSize' - 1 -> Buffer] /\ SlotDiscipline'
  BY <1>2, <1>3, <1>5, SetBufferInv
<1> QED
  BY <1>2, <1>3, <1>4, <1>6, <1>7 DEF Inv, TypeOK

\* An iteration of write that ends with its chunk in the buffer.
LEMMA WriteChunkInv ==
  ASSUME Addressable, Inv, Buffered("write"), NEW content \in Content,
         content \in Data \/ ~Partial,
         disk' \in [Sector -> Data], UNCHANGED <<media, mSize, ret>>,
         SetBuffer(TRUE, CopyIn(content)), NextChunk(call.data)
  PROVE  Inv'
<1>1. Transferring("write") /\ call.fn = "write"
  BY DEF Buffered, Transferring
<1>2. /\ TypeOK /\ SlotDiscipline /\ TransferInBounds
      /\ mSize # 0 /\ call.sector \in Sector /\ call \in Call
  BY Iteration DEF TypeOK
<1>3. CopyIn(content) \in Data
  BY <1>1, <1>2, CopyInData
<1>4. buffers' \in [0 .. mSize' - 1 -> Buffer] /\ SlotDiscipline'
  BY <1>2, <1>3, SetBufferInv
<1>5. call.data \in [DOMAIN call.data -> MemoryByte(call.fn)]
  BY <1>1 , <1>2 DEF TransferInBounds
<1>6. call' \in Call /\ TransferInBounds'
  BY <1>1, <1>2, <1>5, NextChunkInv
<1>7. ReadsInitialised'
  BY <1>1, <1>2 DEF ReadsInitialised, NextChunk, Call
<1> QED
  BY <1>2, <1>4, <1>6, <1>7 DEF Inv, TypeOK

\* A write into a buffer that already holds the sector.
LEMMA WriteHitInv ==
  ASSUME Addressable, Inv, WriteHit
  PROVE  Inv'
<1>1. Buffered("write") /\ Hit
  BY DEF WriteHit
<1>2. /\ TypeOK /\ SlotDiscipline /\ mSize # 0 /\ call.sector \in Sector
      /\ buffers[Slot].data \in Content
  BY <1>1, Iteration
<1>3. buffers[Slot].data \in Data
  BY <1>1, <1>2, HitData
<1> QED
  BY <1>1, <1>2, <1>3, WriteChunkInv DEF WriteHit, TypeOK

\* A write of a whole sector into an evicted buffer, whatever that held.
LEMMA WriteMissWholeInv ==
  ASSUME Addressable, Inv, WriteMissWhole
  PROVE  Inv'
<1>1. Buffered("write") /\ ~Partial
  BY DEF WriteMissWhole
<1>2. buffers[Slot].data \in Content /\ disk' \in [Sector -> Data]
  BY <1>1, Iteration DEF WriteMissWhole
<1> QED
  BY <1>1, <1>2, WriteChunkInv DEF WriteMissWhole

\* A write of part of a sector, which is read from the device first.
LEMMA WriteMissPartialInv ==
  ASSUME Addressable, Inv, WriteMissPartial
  PROVE  Inv'
<1>1. Buffered("write")
  BY DEF WriteMissPartial
<1>2. call.sector \in Sector /\ disk' \in [Sector -> Data]
  BY <1>1, Iteration DEF WriteMissPartial
<1>3. disk'[call.sector] \in Data /\ disk'[call.sector] \in Content
  BY <1>2 DEF Data, Content
<1> QED
  BY <1>1, <1>2, <1>3, WriteChunkInv DEF WriteMissPartial

\* The buffer to be evicted cannot be written.
LEMMA FlushFailsInv ==
  ASSUME Inv, FlushFails
  PROVE  Inv'
<1>1. Buffered("read") \/ Buffered("write")
  BY DEF FlushFails
<1>2. disk' \in [Sector -> Data]
  BY <1>1, Iteration DEF FlushFails
<1> QED
  BY <1>2, EndInv DEF Inv, TypeOK, FlushFails

\* The sector cannot be read, and its buffer is unused again.
LEMMA LoadFailsInv ==
  ASSUME Inv, LoadFails
  PROVE  Inv'
<1>1. Buffered("read") \/ Buffered("write")
  BY DEF LoadFails
<1>2. TypeOK /\ SlotDiscipline /\ Slot \in 0 .. mSize - 1 /\ disk' \in [Sector -> Data]
  BY <1>1, Iteration DEF LoadFails
<1>3. /\ buffers' = [buffers EXCEPT ![Slot] = Invalidated] /\ mSize' = mSize /\ media' = media
      /\ call' = NoCall /\ ret' = "false"
  BY DEF LoadFails, Finish
<1>5. buffers' \in [0 .. mSize' - 1 -> Buffer]
  BY <1>2, <1>3, InvalidatedType DEF TypeOK
<1>6. ASSUME NEW i \in 0 .. mSize' - 1
      PROVE  InUse(i)' \/ Unused(i)'
  <2>1. CASE i = Slot
    BY <1>2, <1>3, <2>1 DEF TypeOK, Unused, Invalidated
  <2>2. CASE i # Slot
    BY <1>2, <1>3, <2>2 DEF TypeOK, SlotDiscipline, InUse, Unused, get
  <2> QED
    BY <2>1, <2>2
<1> QED
  BY <1>2, <1>3, <1>5, <1>6, FinishInv DEF Inv, TypeOK, SlotDiscipline

\* A successful erase: the buffers of the range are cleared with it.
LEMMA EraseRangeInv ==
  ASSUME Inv, NEW first \in Sector, NEW count \in 1 .. SectorCount - first,
         EraseRange(first, count)
  PROVE  Inv'
<1> DEFINE S == first .. first + count - 1
           zero == [o \in Offset |-> Erased]
<1>1. /\ disk' = Zeroed(disk, S) /\ buffers' = ClearBuffers(S) /\ mSize' = mSize /\ media' = media
      /\ call' = NoCall /\ ret' = "true"
  BY DEF EraseRange, Finish
<1> HIDE DEF S
<1>2. zero \in Data /\ zero \in Content
  BY DeviceAssumption DEF Data, Content
<1>3. disk' \in [Sector -> Data]
  BY <1>1, <1>2 DEF Inv, TypeOK, Zeroed
<1>4. ASSUME NEW i \in 0 .. mSize - 1
      PROVE  buffers'[i] \in Buffer /\ (InUse(i)' \/ Unused(i)')
  <2>1. buffers[i] \in Buffer /\ (InUse(i) \/ Unused(i))
    BY DEF Inv, TypeOK, SlotDiscipline
  <2>2. CASE buffers'[i] = buffers[i]
    BY <1>1, <2>1, <2>2 DEF InUse, Unused, get
  <2>3. CASE buffers'[i] = [buffers[i] EXCEPT !.data = zero, !.dirty = FALSE]
    <3>1. buffers'[i] = [sector |-> buffers[i].sector, dirty |-> FALSE, data |-> zero]
      BY <2>1, <2>3 DEF Buffer
    <3> QED
      BY <1>1, <1>2, <2>1, <3>1 DEF Buffer, InUse, Unused, get
  <2>4. i \in DOMAIN buffers
    BY DEF Inv, TypeOK
  <2> QED
    BY <1>1, <2>2, <2>3, <2>4 DEF ClearBuffers
<1>5. buffers' \in [0 .. mSize' - 1 -> Buffer]
  <2>1. DOMAIN buffers = 0 .. mSize - 1
    BY DEF Inv, TypeOK
  <2>2. buffers' = [i \in 0 .. mSize - 1 |-> buffers'[i]]
    BY <1>1, <2>1 DEF ClearBuffers
  <2> QED
    BY <1>1, <1>4, <2>2
<1> QED
  BY <1>1, <1>3, <1>4, <1>5, FinishInv DEF Inv, TypeOK, SlotDiscipline

\* A failed erase may have cleared any sectors of the range on the device.
LEMMA EraseFailsInv ==
  ASSUME Inv, NEW first \in Sector, NEW count \in 1 .. SectorCount - first,
         EraseFails(first, count)
  PROVE  Inv'
<1>1. [o \in Offset |-> Erased] \in Data
  BY DeviceAssumption DEF Data
<1>2. disk' \in [Sector -> Data]
  BY <1>1 DEF Inv, TypeOK, EraseFails, Zeroed
<1> QED
  BY <1>2, EndInv DEF Inv, TypeOK, EraseFails

\* An iteration of flushBuffers: the buffer stays where it is, clean if it
\* could be written.
LEMMA FlushBufferInv ==
  ASSUME Inv, FlushBuffer
  PROVE  Inv'
<1>1. /\ TypeOK /\ SlotDiscipline /\ call \in Call /\ call.fn \in {"sync", "alloc"}
      /\ call.ptr \in 0 .. mSize - 1
  BY DEF Inv, TypeOK, Call, FlushBuffer, Flushing
<1>2. PICK n \in Transferred(buffers[call.ptr]) :
        /\ disk' = Flushed(buffers[call.ptr], n)
        /\ buffers' = [buffers EXCEPT ![call.ptr].dirty = @ /\ n # SectorSize]
        /\ call' = [call EXCEPT !.ptr = @ + 1, !.res = @ /\ n = SectorSize]
  BY DEF FlushBuffer
<1>3. mSize' = mSize /\ media' = media /\ ret' = ret
  BY DEF FlushBuffer
<1>4. n \in 0 .. SectorSize
  BY DeviceAssumption DEF Transferred
<1>5. disk' \in [Sector -> Data]
  BY <1>1, <1>2, <1>4, FlushedType
<1>6. call' \in Call /\ call'.fn \in {"sync", "alloc"}
  <2>1. ASSUME NEW b \in BOOLEAN
        PROVE  [call EXCEPT !.ptr = @ + 1, !.res = b] \in Call
    <3>1. [call EXCEPT !.ptr = @ + 1] \in Call
      BY <1>1 DEF Call
    <3>2. \A c \in Call : [c EXCEPT !.res = b] \in Call
      BY Zenon DEF Call
    <3> QED
      BY <3>1, <3>2
  <2>2. call' = [call EXCEPT !.ptr = @ + 1, !.res = call.res /\ n = SectorSize]
    BY <1>2
  <2>3. (call.res /\ n = SectorSize) \in BOOLEAN
    OBVIOUS
  <2>4. call'.fn = call.fn
    BY <1>1, <2>2 DEF Call
  <2> QED
    BY <1>1, <2>1, <2>2, <2>3, <2>4
<1>7. ASSUME NEW i \in 0 .. mSize - 1
      PROVE  buffers'[i] \in Buffer /\ (InUse(i)' \/ Unused(i)')
  <2>1. buffers[i] \in Buffer /\ (InUse(i) \/ Unused(i))
    BY <1>1 DEF TypeOK, SlotDiscipline
  <2>2. CASE i # call.ptr
    BY <1>1, <1>2, <1>3, <2>1, <2>2 DEF TypeOK, InUse, Unused, get
  <2>3. CASE i = call.ptr
    <3>1. buffers'[i] = [sector |-> buffers[i].sector,
                         dirty |-> buffers[i].dirty /\ n # SectorSize, data |-> buffers[i].data]
      BY <1>1, <1>2, <2>1, <2>3 DEF TypeOK, Buffer
    <3> QED
      BY <1>3, <2>1, <3>1 DEF Buffer, InUse, Unused, get
  <2> QED
    BY <2>2, <2>3
<1>8. buffers' \in [0 .. mSize' - 1 -> Buffer]
  BY <1>1, <1>2, <1>3, <1>7 DEF TypeOK
<1> QED
  BY <1>1, <1>3, <1>5, <1>6, <1>7, <1>8
  DEF Inv, TypeOK, SlotDiscipline, TransferInBounds, ReadsInitialised

\* A new list of m unused buffers, when no call goes on.
LEMMA NewListInv ==
  ASSUME Inv, NEW m \in Nat, mSize' = m, buffers' = [i \in 0 .. m - 1 |-> Invalidated],
         call' = NoCall, ret' \in {"true", "false", "reset"},
         disk' \in [Sector -> Data], media' \in [Sector -> Data]
  PROVE  Inv'
<1>1. buffers' \in [0 .. mSize' - 1 -> Buffer]
  BY InvalidatedType
<1>2. SlotDiscipline'
  BY DEF SlotDiscipline, Unused, Invalidated
<1> QED
  BY <1>1, <1>2, FinishInv DEF Inv, TypeOK

\* allocateBuffers, once the old list has been flushed.
LEMMA AllocateBuffersInv ==
  ASSUME Inv, AllocateBuffers
  PROVE  Inv'
<1>1. call.size \in Nat /\ disk' \in [Sector -> Data] /\ media' \in [Sector -> Data]
  BY DEF Inv, TypeOK, Call, AllocateBuffers
<1>2. PICK m \in IF call.size = 0 THEN {0} ELSE ListSizes(call.size) :
        mSize' = m /\ buffers' = [i \in 0 .. m - 1 |-> Invalidated] /\ Finish(m = call.size)
  BY DEF AllocateBuffers
<1>3. m \in Nat
  BY <1>1 DEF ListSizes
<1>4. call' = NoCall /\ ret' \in {"true", "false", "reset"}
  BY <1>2 DEF Finish
<1> QED
  BY <1>1, <1>2, <1>3, <1>4, NewListInv

\* Losing the buffers, by a power loss or with the device object.
LEMMA DropBuffersInv ==
  ASSUME Inv, Crash \/ Reopen
  PROVE  Inv'
<1>1. /\ mSize' = 0 /\ buffers' = [i \in {} |-> Invalidated]
      /\ call' = NoCall /\ ret' = "reset"
      /\ disk' \in [Sector -> Data] /\ media' \in [Sector -> Data]
  BY DEF Inv, TypeOK, Crash, Reopen, DropBuffers
<1>2. 0 .. 0 - 1 = {}
  OBVIOUS
<1> QED
  BY <1>1, <1>2, NewListInv

(***************************************************************************)
(* The invariant                                                           *)
(***************************************************************************)

\* A freshly created device has no buffers and no call in progress.
LEMMA InitInv == Init => Inv
<1> SUFFICES ASSUME Init PROVE Inv
  OBVIOUS
<1>1. 0 .. 0 - 1 = {}
  OBVIOUS
<1>2. TypeOK
  BY <1>1, NoCallType DEF Init, TypeOK
<1>3. SlotDiscipline
  BY <1>1 DEF Init, SlotDiscipline
<1>4. TransferInBounds /\ ReadsInitialised
  BY NoCallType DEF Init, TransferInBounds, ReadsInitialised
<1> QED
  BY <1>2, <1>3, <1>4 DEF Inv

\* Every step of every call, and every failure, preserves the invariant.
LEMMA NextInv ==
  ASSUME Addressable, Inv, [Next]_vars
  PROVE  Inv'
<1>1. CASE Begin
  <2>1. ASSUME NEW r \in Requests,
               \/ BeginRead(r[1], r[2])
               \/ \E src \in [0 .. r[2] - 1 -> Byte] : BeginWrite(r[1], r[2], src)
        PROVE  Inv'
    BY <2>1, BeginTransferInv
  <2>2. CASE BeginFlush("sync", 0)
    BY <2>2, BeginFlushInv
  <2>3. ASSUME NEW n \in BufferCounts, BeginFlush("alloc", n)
        PROVE  Inv'
    BY <2>3, BeginFlushInv, DeviceAssumption
  <2> QED
    BY <1>1, <2>1, <2>2, <2>3 DEF Begin
<1>2. CASE Erase
  <2>1. ASSUME NEW r \in Requests, EraseMisaligned(r[1], r[2])
        PROVE  Inv'
    BY <2>1, EndInv DEF EraseMisaligned, Inv, TypeOK
  <2>2. ASSUME NEW first \in Sector, NEW count \in 1 .. SectorCount - first,
               EraseRange(first, count) \/ EraseFails(first, count)
        PROVE  Inv'
    BY <2>2, EraseRangeInv, EraseFailsInv
  <2> QED
    BY <1>2, <2>1, <2>2 DEF Erase
<1>3. CASE Step
  <2>1. CASE UnbufferedMisaligned \/ Return \/ FlushBuffersFail
    BY <2>1, EndInv DEF UnbufferedMisaligned, Return, FlushBuffersFail, Inv, TypeOK
  <2>2. CASE Sync
    BY <2>2, EndInv DEF Sync, Inv, TypeOK
  <2>3. CASE UnbufferedRead \/ UnbufferedWrite
    BY <2>3, UnbufferedReadInv, UnbufferedWriteInv
  <2>4. CASE ReadHit \/ ReadMiss \/ FlushFails \/ LoadFails
    BY <2>4, ReadHitInv, ReadMissInv, FlushFailsInv, LoadFailsInv
  <2>5. CASE WriteHit \/ WriteMissWhole \/ WriteMissPartial
    BY <2>5, WriteHitInv, WriteMissWholeInv, WriteMissPartialInv
  <2>6. CASE FlushBuffer \/ AllocateBuffers
    BY <2>6, FlushBufferInv, AllocateBuffersInv
  <2> QED
    BY <1>3, <2>1, <2>2, <2>3, <2>4, <2>5, <2>6 DEF Step
<1>4. CASE Environment
  <2>1. CASE Crash \/ Reopen
    BY <2>1, DropBuffersInv
  <2>2. ASSUME NEW s \in Sector, Destage(s)
        PROVE  Inv'
    BY <2>2, SameBuffers
    DEF Destage, Inv, TypeOK, TransferInBounds, ReadsInitialised
  <2> QED
    BY <1>4, <2>1, <2>2 DEF Environment
<1>5. CASE UNCHANGED vars
  BY <1>5, SameBuffers DEF vars, Inv, TypeOK, TransferInBounds, ReadsInitialised
<1> QED
  BY <1>1, <1>2, <1>3, <1>4, <1>5 DEF Next

\* The invariant holds in every reachable state.
LEMMA InvHolds ==
  ASSUME Addressable
  PROVE  Spec => []Inv
<1>1. Inv /\ [Next]_vars => Inv'
  BY NextInv
<1> QED
  BY <1>1, InitInv, PTL DEF Spec

\* Every variable of a BlockDevice keeps its type: in particular only bytes,
\* never uninitialised memory, reach the device.
THEOREM TypeCorrect ==
  ASSUME Addressable
  PROVE  Spec => []TypeOK
<1>1. Inv => TypeOK
  BY DEF Inv
<1> QED
  BY <1>1, InvHolds, PTL

\* A buffer in use is where BufferList::get looks for its sector, and only such
\* a buffer is dirty: flushBuffer never writes to a sector nobody wrote to.
THEOREM SlotDisciplineHolds ==
  ASSUME Addressable
  PROVE  Spec => []SlotDiscipline
<1>1. Inv => SlotDiscipline
  BY DEF Inv
<1> QED
  BY <1>1, InvHolds, PTL

\* read and write stay within the device and within the caller's memory.
THEOREM TransfersInBounds ==
  ASSUME Addressable
  PROVE  Spec => []TransferInBounds
<1>1. Inv => TransferInBounds
  BY DEF Inv
<1> QED
  BY <1>1, InvHolds, PTL

\* read returns only bytes that the device or an earlier write has produced,
\* whatever raw calls have failed before.
THEOREM ReadsAreInitialised ==
  ASSUME Addressable
  PROVE  Spec => []ReadsInitialised
<1>1. Inv => ReadsInitialised
  BY DEF Inv
<1> QED
  BY <1>1, InvHolds, PTL

(***************************************************************************)
(* Clean buffers agree with the device.                                    *)
(***************************************************************************)

\* Coherent, for one buffer.
Agrees(i) ==
  buffers[i].sector \in Sector /\ ~buffers[i].dirty => buffers[i].data = disk[buffers[i].sector]

\* Writing back one buffer changes no sector that another buffer holds: this is
\* what SlotDiscipline is for.
LEMMA FlushOthers ==
  ASSUME TypeOK, SlotDiscipline, NEW i \in 0 .. mSize - 1, NEW j \in 0 .. mSize - 1, i # j,
         buffers[j].sector \in Sector, invalid \notin Sector, NEW n \in 0 .. SectorSize
  PROVE  Flushed(buffers[i], n)[buffers[j].sector] = disk[buffers[j].sector]
<1>1. CASE ~buffers[i].dirty
  BY <1>1 DEF Flushed
<1>2. CASE buffers[i].dirty
  <2>1. InUse(i) /\ InUse(j)
    BY <1>2 DEF SlotDiscipline, Unused
  <2>2. buffers[i].sector # buffers[j].sector
    BY <2>1 DEF InUse
  <2> QED
    BY <1>2, <2>1, <2>2 DEF Flushed, TypeOK, InUse
<1> QED
  BY <1>1, <1>2

\* Writing back the whole of a dirty buffer makes the device agree with it.
LEMMA FlushSelf ==
  ASSUME TypeOK, SlotDiscipline, NEW i \in 0 .. mSize - 1, buffers[i].dirty
  PROVE  Flushed(buffers[i], SectorSize)[buffers[i].sector] = buffers[i].data
<1>1. buffers[i].sector \in Sector /\ buffers[i].data \in Data
  BY DEF SlotDiscipline, InUse, Unused
<1>2. Torn(disk[buffers[i].sector], buffers[i].data, SectorSize) = buffers[i].data
  <2>1. \A o \in Offset : o < SectorSize
    BY DeviceAssumption DEF Offset
  <2> QED
    BY <1>1, <2>1 DEF Torn, Data
<1> QED
  BY <1>1, <1>2 DEF Flushed, TypeOK

\* A sector number of an addressable device is not the mark of an unused buffer.
LEMMA InvalidNotASector ==
  ASSUME Addressable
  PROVE  invalid \notin Sector
BY DeviceAssumption DEF Addressable, invalid, Sector

\* A step that changes neither buffers nor device leaves them in agreement.
LEMMA SameAgrees ==
  ASSUME Coherent, UNCHANGED <<disk, mSize, buffers>>
  PROVE  Coherent'
BY DEF Coherent

\* Without buffers there is nothing to disagree with the device.
LEMMA EmptyAgrees ==
  ASSUME mSize' = 0
  PROVE  Coherent'
<1>1. 0 .. 0 - 1 = {}
  OBVIOUS
<1> QED
  BY <1>1 DEF Coherent

\* An iteration that writes back the buffer of its slot and then changes only
\* that buffer: it agrees with the device, is dirty, or is unused.
LEMMA EvictAgrees ==
  ASSUME Addressable, Inv, Coherent, mSize # 0, mSize' = mSize, NEW n \in 0 .. SectorSize,
         Slot \in 0 .. mSize - 1, disk' = Flushed(buffers[Slot], n),
         NEW b, buffers' = [buffers EXCEPT ![Slot] = b],
         b.sector \in Sector /\ ~b.dirty => b.data = disk'[b.sector]
  PROVE  Coherent'
<1>1. TypeOK /\ SlotDiscipline /\ invalid \notin Sector
  BY InvalidNotASector DEF Inv
<1>2. ASSUME NEW i \in 0 .. mSize - 1
      PROVE  Agrees(i)'
  <2>1. CASE i = Slot
    <3>1. buffers'[i] = b
      BY <1>1, <2>1 DEF TypeOK
    <3> QED
      BY <3>1 DEF Agrees
  <2>2. CASE i # Slot
    <3>1. buffers'[i] = buffers[i]
      BY <1>1, <2>2 DEF TypeOK
    <3>2. buffers[i].sector \in Sector => disk'[buffers[i].sector] = disk[buffers[i].sector]
      BY <1>1, <2>2, FlushOthers
    <3>3. Agrees(i)
      BY DEF Coherent, Agrees
    <3> QED
      BY <3>1, <3>2, <3>3 DEF Agrees
  <2> QED
    BY <2>1, <2>2
<1> QED
  BY <1>2 DEF Coherent, Agrees

\* The iterations of read and write through the buffers.
LEMMA IterationAgrees ==
  ASSUME Addressable, Inv, Coherent,
         \/ ReadHit \/ ReadMiss \/ WriteHit \/ WriteMissWhole \/ WriteMissPartial
         \/ FlushFails \/ LoadFails
  PROVE  Coherent'
<1>1. Buffered("read") \/ Buffered("write")
  BY DEF ReadHit, ReadMiss, WriteHit, WriteMissWhole, WriteMissPartial, FlushFails, LoadFails
<1>2. /\ TypeOK /\ mSize # 0 /\ call.sector \in Sector /\ Slot \in 0 .. mSize - 1
      /\ SectorSize \in 0 .. SectorSize
  BY <1>1, Iteration, DeviceAssumption
<1>3. mSize' = mSize
  BY DEF ReadHit, ReadMiss, WriteHit, WriteMissWhole, WriteMissPartial, FlushFails, LoadFails
<1>4. ToUint32(call.sector) = call.sector
  BY <1>2, DeviceAssumption, ModSmall DEF Addressable, ToUint32, Sector
<1>5. CASE ReadHit
  BY <1>5, SameAgrees DEF ReadHit
<1>6. CASE ReadMiss
  <2> DEFINE b == [sector |-> call.sector, dirty |-> FALSE, data |-> disk'[call.sector]]
  <2>1. buffers' = [buffers EXCEPT ![Slot] = b] /\ disk' = Flushed(buffers[Slot], SectorSize)
    BY <1>4, <1>6 DEF ReadMiss, SetBuffer
  <2>2. b.data = disk'[b.sector]
    OBVIOUS
  <2> HIDE DEF b
  <2> QED
    BY <1>2, <1>3, <2>1, <2>2, EvictAgrees
<1>7. CASE WriteHit
  <2> DEFINE b == [sector |-> call.sector, dirty |-> TRUE, data |-> CopyIn(buffers[Slot].data)]
  <2>1. buffers' = [buffers EXCEPT ![Slot] = b] /\ disk' = disk
    BY <1>4, <1>7 DEF WriteHit, SetBuffer
  <2>2. b.dirty
    OBVIOUS
  <2> HIDE DEF b
  <2>3. ASSUME NEW i \in 0 .. mSize - 1
        PROVE  Agrees(i)'
    BY <1>2, <2>1, <2>2 DEF TypeOK, Coherent, Agrees
  <2> QED
    BY <1>3, <2>3 DEF Coherent, Agrees
<1>8. CASE WriteMissWhole \/ WriteMissPartial
  <2>1. ASSUME NEW content, SetBuffer(TRUE, CopyIn(content)),
               disk' = Flushed(buffers[Slot], SectorSize)
        PROVE  Coherent'
    <3> DEFINE b == [sector |-> call.sector, dirty |-> TRUE, data |-> CopyIn(content)]
    <3>1. buffers' = [buffers EXCEPT ![Slot] = b]
      BY <1>4, <2>1 DEF SetBuffer
    <3>2. b.dirty
      OBVIOUS
    <3> HIDE DEF b
    <3> QED
      BY <1>2, <1>3, <2>1, <3>1, <3>2, EvictAgrees
  <2> QED
    BY <1>8, <2>1 DEF WriteMissWhole, WriteMissPartial
<1>9. CASE FlushFails
  <2>1. PICK n \in Transferred(buffers[Slot]) \ {SectorSize} : disk' = Flushed(buffers[Slot], n)
    BY <1>9 DEF FlushFails
  <2>2. buffers[Slot].dirty /\ n \in 0 .. SectorSize
    BY <1>2 DEF Transferred
  <2>3. buffers' = [buffers EXCEPT ![Slot] = buffers[Slot]]
    BY <1>2, <1>9 DEF FlushFails, TypeOK
  <2> QED
    BY <1>2, <1>3, <2>1, <2>2, <2>3, EvictAgrees
<1>10. CASE LoadFails
  <2>1. buffers' = [buffers EXCEPT ![Slot] = Invalidated]
        /\ disk' = Flushed(buffers[Slot], SectorSize)
    BY <1>10 DEF LoadFails
  <2>2. Invalidated.sector \notin Sector
    BY InvalidNotASector DEF Invalidated
  <2> QED
    BY <1>2, <1>3, <2>1, <2>2, EvictAgrees
<1> QED
  BY <1>5, <1>6, <1>7, <1>8, <1>9, <1>10

\* An iteration of flushBuffers.
LEMMA FlushBufferAgrees ==
  ASSUME Addressable, Inv, Coherent, FlushBuffer
  PROVE  Coherent'
<1>1. /\ TypeOK /\ SlotDiscipline /\ call.ptr \in 0 .. mSize - 1 /\ mSize' = mSize
      /\ invalid \notin Sector
  BY InvalidNotASector DEF Inv, TypeOK, Call, FlushBuffer, Flushing
<1>2. PICK n \in Transferred(buffers[call.ptr]) :
        /\ disk' = Flushed(buffers[call.ptr], n)
        /\ buffers' = [buffers EXCEPT ![call.ptr].dirty = @ /\ n # SectorSize]
  BY DEF FlushBuffer
<1>3. n \in 0 .. SectorSize
  BY DeviceAssumption DEF Transferred
<1>4. ASSUME NEW i \in 0 .. mSize - 1
      PROVE  Agrees(i)'
  <2>1. Agrees(i) /\ buffers[i] \in Buffer
    BY <1>1 DEF Coherent, Agrees, TypeOK
  <2>2. CASE i # call.ptr
    <3>1. buffers'[i] = buffers[i]
      BY <1>1, <1>2, <2>2 DEF TypeOK
    <3>2. buffers[i].sector \in Sector => disk'[buffers[i].sector] = disk[buffers[i].sector]
      BY <1>1, <1>2, <1>3, <2>2, FlushOthers
    <3> QED
      BY <2>1, <3>1, <3>2 DEF Agrees
  <2>3. CASE i = call.ptr
    <3>1. buffers'[i].sector = buffers[i].sector /\ buffers'[i].data = buffers[i].data
      BY <1>1, <1>2, <2>1, <2>3 DEF TypeOK, Buffer
    <3>2. buffers'[i].dirty = (buffers[i].dirty /\ n # SectorSize)
      BY <1>1, <1>2, <2>1, <2>3 DEF TypeOK, Buffer
    <3>3. CASE ~buffers[i].dirty
      BY <1>2, <2>1, <2>3, <3>1, <3>3 DEF Agrees, Flushed
    <3>4. CASE buffers[i].dirty /\ n = SectorSize
      BY <1>1, <1>2, <2>3, <3>1, <3>4, FlushSelf DEF Agrees
    <3>5. CASE buffers[i].dirty /\ n # SectorSize
      BY <3>2, <3>5 DEF Agrees
    <3> QED
      BY <3>3, <3>4, <3>5
  <2> QED
    BY <2>2, <2>3
<1> QED
  BY <1>1, <1>4 DEF Coherent, Agrees

\* A successful erase clears the buffers of the sectors it clears.
LEMMA EraseRangeAgrees ==
  ASSUME Addressable, Inv, Coherent, NEW first \in Sector,
         NEW count \in 1 .. SectorCount - first, EraseRange(first, count)
  PROVE  Coherent'
<1> DEFINE S == first .. first + count - 1
<1>1. /\ disk' = Zeroed(disk, S) /\ buffers' = ClearBuffers(S) /\ mSize' = mSize
      /\ TypeOK /\ SlotDiscipline /\ invalid \notin Sector
  BY InvalidNotASector DEF EraseRange, Inv
<1> HIDE DEF S
<1>2. ASSUME NEW i \in 0 .. mSize - 1
      PROVE  Agrees(i)'
  <2>1. Agrees(i) /\ buffers[i] \in Buffer /\ (InUse(i) \/ Unused(i)) /\ i \in DOMAIN buffers
    BY <1>1 DEF Coherent, Agrees, TypeOK, SlotDiscipline
  <2>2. buffers'[i].sector = buffers[i].sector
    BY <1>1, <2>1 DEF ClearBuffers, Buffer
  <2>3. CASE buffers[i].sector \in S /\ buffers[i].sector \in Sector
    <3>1. InUse(i)
      BY <1>1, <2>1, <2>3 DEF Unused
    <3>2. buffers'[i] = [buffers[i] EXCEPT !.data = [o \in Offset |-> Erased], !.dirty = FALSE]
      BY <1>1, <2>1, <2>3, <3>1 DEF ClearBuffers, InUse
    <3>3. buffers'[i].data = [o \in Offset |-> Erased]
      BY <2>1, <3>2 DEF Buffer
    <3> QED
      BY <1>1, <2>2, <2>3, <3>3 DEF Agrees, Zeroed
  <2>4. CASE buffers[i].sector \notin S
    <3>1. buffers'[i] = buffers[i]
      BY <1>1, <2>1, <2>4 DEF ClearBuffers
    <3> QED
      BY <1>1, <2>1, <2>4, <3>1 DEF Agrees, Zeroed
  <2> QED
    BY <2>2, <2>3, <2>4 DEF Agrees
<1> QED
  BY <1>1, <1>2 DEF Coherent, Agrees

\* AllocateBuffers leaves only unused buffers.
LEMMA AllocateBuffersAgrees ==
  ASSUME Addressable, AllocateBuffers
  PROVE  Coherent'
<1>1. PICK m : mSize' = m /\ buffers' = [i \in 0 .. m - 1 |-> Invalidated]
  BY DEF AllocateBuffers
<1>2. Invalidated.sector \notin Sector
  BY InvalidNotASector DEF Invalidated
<1> QED
  BY <1>1, <1>2 DEF Coherent

\* No step but a failed erase makes a clean buffer and the device disagree.
THEOREM CoherenceIsPreserved ==
  ASSUME Addressable
  PROVE  Spec => CoherencePreserved
<1>1. ASSUME Inv, Next, Coherent
      PROVE  Coherent' \/ EraseFailing
  <2>1. CASE Begin
    BY <1>1, <2>1, SameAgrees DEF Begin, BeginRead, BeginWrite, BeginFlush
  <2>2. CASE Erase
    <3>1. ASSUME NEW r \in Requests, EraseMisaligned(r[1], r[2])
          PROVE  Coherent'
      BY <1>1, <3>1, SameAgrees DEF EraseMisaligned
    <3>2. ASSUME NEW first \in Sector, NEW count \in 1 .. SectorCount - first,
                 EraseRange(first, count) \/ EraseFails(first, count)
          PROVE  Coherent' \/ EraseFailing
      BY <1>1, <3>2, EraseRangeAgrees DEF EraseFailing
    <3> QED
      BY <2>2, <3>1, <3>2 DEF Erase
  <2>3. CASE Step
    <3>1. CASE UnbufferedMisaligned \/ UnbufferedRead \/ Return \/ FlushBuffersFail \/ Sync
      BY <1>1, <3>1, SameAgrees
      DEF UnbufferedMisaligned, UnbufferedRead, Return, FlushBuffersFail, Sync
    <3>2. CASE UnbufferedWrite
      BY <3>2, EmptyAgrees DEF UnbufferedWrite
    <3>3. CASE \/ ReadHit \/ ReadMiss \/ WriteHit \/ WriteMissWhole \/ WriteMissPartial
               \/ FlushFails \/ LoadFails
      BY <1>1, <3>3, IterationAgrees
    <3>4. CASE FlushBuffer
      BY <1>1, <3>4, FlushBufferAgrees
    <3>5. CASE AllocateBuffers
      BY <3>5, AllocateBuffersAgrees
    <3> QED
      BY <2>3, <3>1, <3>2, <3>3, <3>4, <3>5 DEF Step
  <2>4. CASE Environment
    <3>1. CASE Crash \/ Reopen
      BY <3>1, EmptyAgrees DEF Crash, Reopen, DropBuffers
    <3>2. ASSUME NEW s \in Sector, Destage(s)
          PROVE  Coherent'
      BY <1>1, <3>2, SameAgrees DEF Destage
    <3> QED
      BY <2>4, <3>1, <3>2 DEF Environment
  <2> QED
    BY <1>1, <2>1, <2>2, <2>3, <2>4 DEF Next
<1>2. Inv /\ [Next]_vars => [Coherent => Coherent' \/ EraseFailing]_vars
  BY <1>1
<1> QED
  BY <1>2, InvHolds, PTL DEF Spec, CoherencePreserved
==============================================================================
