------------------------ MODULE BlockDeviceRefinement ------------------------
(***************************************************************************)
(* A BlockDevice implements Storage: the initial states map to initial     *)
(* states of Storage, and every step to a step of Storage.                 *)
(*                                                                         *)
(* The argument goes by bytes of sectors.  viewAt(s, o) and mayAt(s, o)    *)
(* change only for the sector of the buffer that a step writes back, loads *)
(* or changes; the byte addresses of Storage enter at the end, when a      *)
(* step's range of addresses is shown to be its range of offsets.          *)
(***************************************************************************)
EXTENDS BlockDeviceProofs

(***************************************************************************)
(* flushBuffers                                                            *)
(***************************************************************************)

\* No call of flushBuffers is in progress.
LEMMA NotFlushing ==
  ASSUME call'.fn \notin {"sync", "alloc"}
  PROVE  FlushProgress'
BY DEF FlushProgress

\* An iteration of flushBuffers that succeeds leaves its buffer clean.
LEMMA FlushBufferProgress ==
  ASSUME Inv, FlushProgress, FlushBuffer
  PROVE  FlushProgress'
<1>1. /\ TypeOK /\ call \in Call /\ call.fn \in {"sync", "alloc"}
      /\ call.ptr \in 0 .. mSize - 1 /\ mSize \in Nat /\ mSize' = mSize
  BY DEF Inv, TypeOK, Call, FlushBuffer, Flushing
<1>2. PICK n \in Transferred(buffers[call.ptr]) :
        /\ buffers' = [buffers EXCEPT ![call.ptr].dirty = @ /\ n # SectorSize]
        /\ call' = [call EXCEPT !.ptr = @ + 1, !.res = @ /\ n = SectorSize]
  BY DEF FlushBuffer
<1>3. call'.ptr = call.ptr + 1 /\ call'.fn = call.fn /\ call'.res = (call.res /\ n = SectorSize)
  BY <1>1, <1>2 DEF Call
<1>4. ASSUME call'.res, NEW i \in 0 .. call'.ptr - 1
      PROVE  ~buffers'[i].dirty
  <2>1. call.res /\ n = SectorSize
    BY <1>3, <1>4
  <2>2. CASE i = call.ptr
    BY <1>1, <1>2, <2>1, <2>2 DEF TypeOK, Buffer
  <2>3. CASE i # call.ptr
    <3>1. i \in 0 .. call.ptr - 1 /\ i \in 0 .. mSize - 1
      BY <1>1, <1>3, <2>3
    <3>2. buffers'[i] = buffers[i]
      BY <1>1, <1>2, <2>3, <3>1 DEF TypeOK
    <3> QED
      BY <1>1, <2>1, <3>1, <3>2 DEF FlushProgress
  <2> QED
    BY <2>2, <2>3
<1> QED
  BY <1>1, <1>3, <1>4 DEF FlushProgress

\* Every step keeps FlushProgress.
LEMMA NextFlushProgress ==
  ASSUME Inv, FlushProgress, [Next]_vars
  PROVE  FlushProgress'
<1>1. CASE UNCHANGED vars
  BY <1>1 DEF vars, FlushProgress
<1>2. CASE call' = NoCall
  BY <1>2, NotFlushing, NoCallType
<1>3. CASE Begin
  <2>1. CASE call'.fn \in {"read", "write"}
    BY <2>1, NotFlushing
  <2>2. ASSUME NEW fn, NEW n, BeginFlush(fn, n)
        PROVE  FlushProgress'
    <3>1. call'.ptr = 0 /\ mSize' = mSize /\ mSize \in Nat
      BY <2>2 DEF BeginFlush, Locals, Inv, TypeOK
    <3>2. 0 .. 0 - 1 = {}
      OBVIOUS
    <3> QED
      BY <3>1, <3>2 DEF FlushProgress
  <2>3. (\E r \in Requests :
            \/ BeginRead(r[1], r[2])
            \/ \E src \in [0 .. r[2] - 1 -> Byte] : BeginWrite(r[1], r[2], src))
        => call'.fn \in {"read", "write"}
    BY DEF BeginRead, BeginWrite, Locals
  <2> QED
    BY <1>3, <2>1, <2>2, <2>3 DEF Begin
<1>4. CASE FlushBuffer
  BY <1>4, FlushBufferProgress
<1>5. CASE \/ UnbufferedRead \/ UnbufferedWrite
           \/ ReadHit \/ ReadMiss \/ WriteHit \/ WriteMissWhole \/ WriteMissPartial
  <2>1. call \in Call /\ call.fn \in {"read", "write"}
    BY <1>5 DEF Inv, TypeOK, UnbufferedRead, UnbufferedWrite, Transferring, Buffered,
                ReadHit, ReadMiss, WriteHit, WriteMissWhole, WriteMissPartial
  <2>2. call' = NoCall \/ call'.fn = call.fn
    BY <1>5, <2>1 DEF Call, UnbufferedRead, UnbufferedWrite, Finish, NextChunk,
                ReadHit, ReadMiss, WriteHit, WriteMissWhole, WriteMissPartial
  <2> QED
    BY <1>2, <2>1, <2>2, NotFlushing
<1>6. CASE Erase
  BY <1>2, <1>6 DEF Erase, EraseMisaligned, EraseRange, EraseFails, Finish
<1>7. CASE \/ UnbufferedMisaligned \/ FlushFails \/ LoadFails \/ Return
           \/ FlushBuffersFail \/ Sync \/ AllocateBuffers
  BY <1>2, <1>7 DEF UnbufferedMisaligned, FlushFails, LoadFails, Return,
                    FlushBuffersFail, Sync, AllocateBuffers, Finish
<1>8. CASE Environment
  <2>1. CASE Crash \/ Reopen
    BY <1>2, <2>1 DEF Crash, Reopen, DropBuffers
  <2>2. ASSUME NEW s \in Sector, Destage(s)
        PROVE  FlushProgress'
    BY <2>2 DEF Destage, FlushProgress
  <2> QED
    BY <1>8, <2>1, <2>2 DEF Environment
<1> QED
  BY <1>1, <1>3, <1>4, <1>5, <1>6, <1>7, <1>8 DEF Next, Step

\* What sync and allocateBuffers find when flushBuffers returns true: no buffer
\* is dirty, whatever order of failures preceded.
THEOREM FlushProgressHolds ==
  ASSUME Addressable
  PROVE  Spec => []FlushProgress
<1>1. Init => FlushProgress
  BY NoCallType DEF Init, FlushProgress
<1>2. Inv /\ FlushProgress /\ [Next]_vars => FlushProgress'
  BY NextFlushProgress
<1> QED
  BY <1>1, <1>2, InvHolds, PTL DEF Spec

(***************************************************************************)
(* Addresses                                                               *)
(***************************************************************************)

\* A quotient and a remainder are the only ones.
LEMMA DivModUnique ==
  ASSUME NEW q \in Nat, NEW r \in Nat, NEW m \in Nat \ {0}, r < m
  PROVE  (q * m + r) \div m = q /\ (q * m + r) % m = r
OBVIOUS

\* The sector and the offset of a byte of the device.
LEMMA AddrSplit ==
  ASSUME NEW a \in 0 .. DeviceSize - 1
  PROVE  /\ a \in Nat /\ DeviceSize \in Nat
         /\ a \div SectorSize \in Sector
         /\ a % SectorSize \in Offset
         /\ (a \div SectorSize) * SectorSize + (a % SectorSize) = a
<1>1. SectorCount \in Nat /\ SectorSize \in Nat \ {0}
  BY DeviceAssumption
<1>2. DeviceSize \in Nat /\ a \in Nat /\ a < DeviceSize
  BY <1>1 DEF DeviceSize
<1> DEFINE q == a \div SectorSize
           t == a % SectorSize
<1>3. q \in Nat /\ q * SectorSize + t = a /\ t \in 0 .. SectorSize - 1
  BY <1>1, <1>2, DivMod, ModRange
<1> HIDE DEF q, t
<1>4. q * SectorSize < SectorCount * SectorSize
  <2>1. q * SectorSize \in Nat
    BY <1>1, <1>3
  <2> QED
    BY <1>1, <1>2, <1>3, <2>1 DEF DeviceSize
<1>5. q \in Sector /\ t \in Offset
  BY <1>1, <1>3, <1>4, MulLess DEF Sector, Offset
<1> QED
  BY <1>2, <1>3, <1>5 DEF q, t

\* view and may of the refinement mapping change for the better at one byte.
SettlesAt(s, o) ==
  /\ viewAt(s, o)' # {}
  /\ viewAt(s, o)' \subseteq viewAt(s, o)
  /\ mayAt(s, o)' \subseteq mayAt(s, o)

\* A step that settles every byte of every sector outside A does so for Storage.
LEMMA SettleBySectors ==
  ASSUME NEW A,
         \A a \in (0 .. DeviceSize - 1) \ A : SettlesAt(a \div SectorSize, a % SectorSize)
  PROVE  Abstract!SettleOutside(A)
BY DEF Abstract!SettleOutside, Abstract!Addr, SettlesAt, viewOf, mayOf

\* The same when every byte settles.
LEMMA SettleAll ==
  ASSUME \A s \in Sector, o \in Offset : SettlesAt(s, o)
  PROVE  Abstract!Settle
<1>1. \A a \in (0 .. DeviceSize - 1) \ {} : SettlesAt(a \div SectorSize, a % SectorSize)
  BY AddrSplit
<1> QED
  BY <1>1, SettleBySectors DEF Abstract!Settle

(***************************************************************************)
(* What happens to one byte                                                *)
(***************************************************************************)

\* A read always has something to return.
LEMMA ViewNonEmpty ==
  ASSUME NEW s, NEW o
  PROVE  viewAt(s, o) # {} /\ viewAt(s, o)' # {}
BY DEF viewAt

\* A sector that a step leaves alone: the same content on the device and the
\* same buffer, or no buffer before and after.
LEMMA SameSector ==
  ASSUME NEW s, NEW o, disk'[s] = disk[s], media'[s] = media[s],
         \/ ~Cached(s) /\ ~Cached(s)'
         \/ Cached(s) /\ Cached(s)' /\ buffers'[get(s)'] = buffers[get(s)]
  PROVE  /\ viewAt(s, o)' = viewAt(s, o)
         /\ mayAt(s, o)' = mayAt(s, o)
         /\ SettlesAt(s, o)
BY DEF viewAt, mayAt, SettlesAt

\* A step that changes neither the device nor its buffers settles every byte.
LEMMA SameSettles ==
  ASSUME UNCHANGED <<disk, media, mSize, buffers>>
  PROVE  Abstract!Settle
<1>1. ASSUME NEW s \in Sector, NEW o \in Offset
      PROVE  SettlesAt(s, o)
  BY ViewNonEmpty DEF SettlesAt, mayAt, viewAt, Cached, get
<1> QED
  BY <1>1, SettleAll

\* The view and the may of Storage do not change either.
LEMMA SameView ==
  ASSUME UNCHANGED <<disk, media, mSize, buffers>>
  PROVE  /\ [a \in 0 .. DeviceSize - 1 |-> viewOf(a)]' = [a \in 0 .. DeviceSize - 1 |-> viewOf(a)]
         /\ [a \in 0 .. DeviceSize - 1 |-> mayOf(a)]' = [a \in 0 .. DeviceSize - 1 |-> mayOf(a)]
BY DEF viewOf, mayOf, mayAt, viewAt, Cached, get

\* The buffer of a cached sector is the only one that holds it.
LEMMA CachedSlot ==
  ASSUME Addressable, TypeOK, SlotDiscipline, NEW s \in Sector, NEW i \in 0 .. mSize - 1
  PROVE  /\ get(s) \in 0 .. mSize - 1
         /\ buffers[i].sector = s => get(s) = i /\ buffers[i].data \in Data
<1>1. mSize \in Nat /\ mSize # 0 /\ s \in Nat /\ invalid \notin Sector
  BY InvalidNotASector, DeviceAssumption DEF TypeOK, Sector
<1> QED
  BY <1>1, ModRange DEF get, SlotDiscipline, InUse, Unused

\* Writing back a buffer leaves the other sectors alone.
LEMMA FlushElsewhere ==
  ASSUME TypeOK, SlotDiscipline, NEW i \in 0 .. mSize - 1, NEW n \in 0 .. SectorSize,
         NEW s \in Sector, buffers[i].dirty => buffers[i].sector # s
  PROVE  Flushed(buffers[i], n)[s] = disk[s]
BY DEF Flushed, TypeOK, SlotDiscipline, InUse, Unused

\* A buffer is written back and replaced: the sector it held is found on the
\* device now, and every sector but the new buffer's settles.
LEMMA EvictSettles ==
  ASSUME Addressable, Inv, NEW i \in 0 .. mSize - 1, NEW b,
         disk' = Flushed(buffers[i], SectorSize), media' = media, mSize' = mSize,
         buffers' = [buffers EXCEPT ![i] = b],
         NEW s \in Sector, NEW o \in Offset, b.sector # s
  PROVE  SettlesAt(s, o)
<1>1. /\ TypeOK /\ SlotDiscipline /\ mSize # 0 /\ get(s) \in 0 .. mSize - 1
      /\ get(s)' = get(s) /\ SectorSize \in 0 .. SectorSize
      /\ buffers \in [0 .. mSize - 1 -> Buffer]
  BY CachedSlot, DeviceAssumption DEF Inv, TypeOK, get
<1>2. CASE buffers[i].sector = s
  <2>1. get(s) = i /\ Cached(s) /\ ~Cached(s)'
    BY <1>1, <1>2, CachedSlot DEF Cached
  <2>2. CASE buffers[i].dirty
    <3>1. disk'[s] = buffers[i].data
      BY <1>1, <1>2, <2>2, FlushSelf
    <3> QED
      BY <2>1, <2>2, <3>1 DEF SettlesAt, viewAt, mayAt
  <2>3. CASE ~buffers[i].dirty
    BY <2>1, <2>3 DEF SettlesAt, viewAt, mayAt, Flushed
  <2> QED
    BY <2>2, <2>3
<1>3. CASE buffers[i].sector # s
  <2>1. disk'[s] = disk[s]
    BY <1>1, <1>3, FlushElsewhere
  <2>2. get(s) = i => ~Cached(s) /\ ~Cached(s)'
    BY <1>1, <1>3 DEF Cached
  <2>3. get(s) # i => buffers'[get(s)'] = buffers[get(s)] /\ Cached(s)' = Cached(s)
    BY <1>1 DEF Cached
  <2> QED
    BY <1>1, <2>1, <2>2, <2>3, SameSector
<1> QED
  BY <1>2, <1>3

\* A buffer is written back, in whole or in part, and stays: clean only if all
\* of it has been written.
LEMMA FlushSettles ==
  ASSUME Addressable, Inv, NEW i \in 0 .. mSize - 1, NEW n \in 0 .. SectorSize, NEW dirty,
         disk' = Flushed(buffers[i], n), media' = media, mSize' = mSize,
         buffers' = [buffers EXCEPT ![i] =
                       [sector |-> buffers[i].sector, dirty |-> dirty, data |-> buffers[i].data]],
         ~buffers[i].dirty => ~dirty,
         buffers[i].dirty /\ n # SectorSize => dirty
  PROVE  Abstract!Settle
<1>1. /\ TypeOK /\ SlotDiscipline /\ mSize # 0 /\ buffers \in [0 .. mSize - 1 -> Buffer]
  BY DEF Inv, TypeOK
<1>2. ASSUME NEW s \in Sector, NEW o \in Offset
      PROVE  SettlesAt(s, o)
  <2>1. get(s) \in 0 .. mSize - 1 /\ get(s)' = get(s)
    BY <1>1, CachedSlot DEF get
  <2>2. CASE buffers[i].sector = s
    <3>1. get(s) = i /\ Cached(s) /\ Cached(s)' /\ buffers[i].data \in Data
      BY <1>1, <2>1, <2>2, CachedSlot DEF Cached
    <3>2. buffers'[i].dirty = dirty /\ buffers'[i].data = buffers[i].data
      BY <1>1
    <3>3. CASE ~buffers[i].dirty
      BY <2>1, <3>1, <3>2, <3>3 DEF SettlesAt, viewAt, mayAt, Flushed
    <3>4. CASE buffers[i].dirty
      <4>1. disk'[s][o] \in {buffers[i].data[o], disk[s][o]}
        BY <1>1, <2>2, <3>4 DEF Flushed, Torn, TypeOK
      <4>2. n = SectorSize => disk'[s][o] = buffers[i].data[o]
        BY <1>1, <2>2, <3>4, FlushSelf
      <4> QED
        BY <2>1, <3>1, <3>2, <3>4, <4>1, <4>2 DEF SettlesAt, viewAt, mayAt
    <3> QED
      BY <3>3, <3>4
  <2>3. CASE buffers[i].sector # s
    <3>1. disk'[s] = disk[s]
      BY <1>1, <2>3, FlushElsewhere
    <3>2. get(s) = i => ~Cached(s) /\ ~Cached(s)'
      BY <1>1, <2>1, <2>3 DEF Cached
    <3>3. get(s) # i => buffers'[get(s)'] = buffers[get(s)] /\ Cached(s)' = Cached(s)
      BY <1>1, <2>1 DEF Cached
    <3> QED
      BY <3>1, <3>2, <3>3, SameSector
  <2> QED
    BY <2>2, <2>3
<1> QED
  BY <1>2, SettleAll

(***************************************************************************)
(* read and write through the buffers                                      *)
(***************************************************************************)

\* The request of Storage for a transfer in progress.
LEMMA ReqTransfer ==
  ASSUME call.fn \in {"read", "write"}
  PROVE  /\ reqOf = [fn |-> call.fn, addr |-> call.address, data |-> call.data, done |-> call.ptr]
         /\ reqOf.fn = call.fn /\ reqOf.addr = call.address
         /\ reqOf.data = call.data /\ reqOf.done = call.ptr
BY DEF reqOf

\* Storage sees no call when there is none.
LEMMA ReqIdle ==
  /\ call = NoCall => reqOf = Abstract!Idle
  /\ call' = NoCall => reqOf' = Abstract!Idle
BY DEF reqOf, NoCall, NoData, Locals, Abstract!Idle

\* The numbers of an iteration.
LEMMA ChunkNumbers ==
  ASSUME Inv, Buffered("read") \/ Buffered("write")
  PROVE  /\ call \in Call /\ call.fn \in {"read", "write"}
         /\ call.address \in Nat /\ call.ptr \in Nat /\ call.size \in Nat \ {0}
         /\ call.offset \in Offset /\ call.offset \in Nat
         /\ call.sector \in Sector /\ call.sector \in Nat
         /\ SectorSize \in Nat \ {0} /\ DeviceSize \in Nat
         /\ call.address + call.ptr + call.size <= DeviceSize
         /\ DOMAIN call.data = 0 .. call.ptr + call.size - 1
         /\ ChunkSize \in Nat /\ 1 <= ChunkSize /\ ChunkSize <= call.size
         /\ call.offset + ChunkSize <= SectorSize
         /\ ~Partial => call.offset = 0 /\ ChunkSize = SectorSize
<1>1. /\ TypeOK /\ TransferInBounds /\ call \in Call /\ call.fn \in {"read", "write"}
      /\ call.size # 0 /\ call.sector \in Sector
  BY Iteration DEF TypeOK, Buffered, Transferring
<1>2. SectorSize \in Nat \ {0} /\ SectorCount \in Nat
  BY DeviceAssumption
<1>3. DeviceSize \in Nat
  BY <1>2 DEF DeviceSize
<1>4. /\ call.address \in Nat /\ call.ptr \in Nat /\ call.size \in Nat \ {0}
      /\ call.offset \in Offset /\ call.offset \in Nat /\ call.sector \in Nat
  BY <1>1, <1>2 DEF Call, Offset
<1>5. /\ call.address + call.ptr + call.size <= DeviceSize
      /\ DOMAIN call.data = 0 .. call.ptr + call.size - 1
  BY <1>1 DEF TransferInBounds
<1>6. ChunkSize \in 1 .. call.size
  BY <1>1, ChunkInBounds
<1>7. ChunkSize \in Nat /\ 1 <= ChunkSize /\ ChunkSize <= call.size
  BY <1>4, <1>6
<1> QED
  BY <1>1, <1>2, <1>3, <1>4, <1>5, <1>7, ChunkInBounds

\* Where the chunk starts.
LEMMA ChunkStart ==
  ASSUME Inv, Buffered("read") \/ Buffered("write")
  PROVE  call.sector * SectorSize + call.offset = call.address + call.ptr
BY DEF Inv, TransferInBounds, Buffered, Transferring

\* Byte k of the request, in the chunk, is a byte of the chunk's sector.
LEMMA ChunkByte ==
  ASSUME Inv, Buffered("read") \/ Buffered("write"),
         NEW k \in call.ptr .. call.ptr + ChunkSize - 1
  PROVE  /\ call.offset + k - call.ptr \in Offset
         /\ call.address + k \in 0 .. DeviceSize - 1
         /\ (call.address + k) \div SectorSize = call.sector
         /\ (call.address + k) % SectorSize = call.offset + k - call.ptr
<1>1. /\ call.address \in Nat /\ call.ptr \in Nat /\ call.size \in Nat /\ call.offset \in Nat
      /\ SectorSize \in Nat \ {0} /\ DeviceSize \in Nat /\ call.sector \in Nat
      /\ ChunkSize \in Nat /\ ChunkSize <= call.size /\ call.offset + ChunkSize <= SectorSize
      /\ call.address + call.ptr + call.size <= DeviceSize
  BY ChunkNumbers
<1>2. k \in Nat /\ call.ptr <= k /\ k <= call.ptr + ChunkSize - 1
  BY <1>1
<1>3. call.offset + k - call.ptr < SectorSize /\ call.offset + k - call.ptr \in Offset
  BY <1>1, <1>2 DEF Offset
<1>4. call.address + k \in 0 .. DeviceSize - 1
  BY <1>1, <1>2
<1>5. call.sector * SectorSize + call.offset = call.address + call.ptr
  BY ChunkStart
<1>6. PICK r \in Nat : r = call.offset + k - call.ptr
  BY <1>1, <1>2
<1>7. PICK base \in Nat : base = call.sector * SectorSize
  BY <1>1
<1>8. call.address + k = base + r
  BY <1>1, <1>2, <1>5, <1>6, <1>7
<1>9. (call.sector * SectorSize + r) \div SectorSize = call.sector
      /\ (call.sector * SectorSize + r) % SectorSize = r
  BY <1>1, <1>3, <1>6, DivModUnique
<1> QED
  BY <1>3, <1>4, <1>6, <1>7, <1>8, <1>9

\* The addresses of a chunk are those of its sector and offsets.
LEMMA ChunkAddresses ==
  ASSUME Inv, Buffered("read") \/ Buffered("write"), NEW a \in 0 .. DeviceSize - 1
  PROVE  /\ a \in Abstract!Transfer(ChunkSize) <=>
              /\ a \div SectorSize = call.sector
              /\ a % SectorSize \in call.offset .. call.offset + ChunkSize - 1
         /\ a \in Abstract!Transfer(ChunkSize) =>
              a - call.address = call.ptr + (a % SectorSize) - call.offset
<1>1. /\ call.fn \in {"read", "write"} /\ ChunkSize \in Nat
      /\ call.address \in Nat /\ call.ptr \in Nat /\ call.offset \in Nat
  BY ChunkNumbers
<1>2. ASSUME a \in Abstract!Transfer(ChunkSize)
      PROVE  /\ a \div SectorSize = call.sector
             /\ a % SectorSize \in call.offset .. call.offset + ChunkSize - 1
             /\ a - call.address = call.ptr + (a % SectorSize) - call.offset
  <2>1. PICK j \in 0 .. ChunkSize - 1 : a = call.address + call.ptr + j
    BY <1>1, <1>2, ReqTransfer DEF Abstract!Transfer
  <2>2. call.ptr + j \in call.ptr .. call.ptr + ChunkSize - 1 /\ a = call.address + (call.ptr + j)
    BY <1>1, <2>1
  <2>3. a \div SectorSize = call.sector /\ a % SectorSize = call.offset + (call.ptr + j) - call.ptr
    BY <2>2, ChunkByte
  <2>4. a % SectorSize = call.offset + j
    BY <1>1, <2>3
  <2> QED
    BY <1>1, <2>1, <2>3, <2>4
<1>3. ASSUME a \div SectorSize = call.sector,
             a % SectorSize \in call.offset .. call.offset + ChunkSize - 1
      PROVE  a \in Abstract!Transfer(ChunkSize)
  <2>1. PICK t \in Nat : t = a % SectorSize
    BY <1>1, <1>3
  <2>2. PICK base \in Int : base = call.sector * SectorSize
    BY ChunkNumbers
  <2>3. base + t = a /\ base + call.offset = call.address + call.ptr
    BY <1>3, <2>1, <2>2, AddrSplit, ChunkStart
  <2>4. t - call.offset \in 0 .. ChunkSize - 1 /\ a = call.address + call.ptr + (t - call.offset)
    BY <1>1, <1>3, <2>1, <2>3
  <2> QED
    BY <1>1, <2>4, ReqTransfer DEF Abstract!Transfer
<1> QED
  BY <1>2, <1>3

\* The chunk lies within the device.
LEMMA ChunkOnDevice ==
  ASSUME Inv, Buffered("read") \/ Buffered("write")
  PROVE  /\ Abstract!Transfer(ChunkSize) \subseteq 0 .. DeviceSize - 1
         /\ ChunkSize \in 1 .. DeviceSize
<1>1. /\ call.fn \in {"read", "write"} /\ ChunkSize \in Nat /\ 1 <= ChunkSize
      /\ ChunkSize <= call.size /\ call.size \in Nat /\ call.address \in Nat /\ call.ptr \in Nat
      /\ call.address + call.ptr + call.size <= DeviceSize /\ DeviceSize \in Nat
  BY ChunkNumbers
<1>2. ASSUME NEW j \in 0 .. ChunkSize - 1
      PROVE  call.address + call.ptr + j \in 0 .. DeviceSize - 1
  BY <1>1
<1>3. ChunkSize \in 1 .. DeviceSize
  BY <1>1
<1> QED
  BY <1>1, <1>2, <1>3, ReqTransfer DEF Abstract!Transfer

\* An iteration moves the request on by a chunk.
LEMMA ChunkProgress ==
  ASSUME Inv, Buffered("read") \/ Buffered("write"), NEW d, NextChunk(d)
  PROVE  reqOf' = [fn |-> call.fn, addr |-> call.address, data |-> d, done |-> call.ptr + ChunkSize]
<1>1. call \in Call /\ call.fn \in {"read", "write"}
  BY ChunkNumbers
<1>2. /\ call'.fn = call.fn /\ call'.address = call.address /\ call'.data = d
      /\ call'.ptr = call.ptr + ChunkSize
  BY <1>1 DEF NextChunk, Call
<1> QED
  BY <1>1, <1>2 DEF reqOf

\* An iteration of read that copies what a reader may see of its sector.
LEMMA ReadChunk ==
  ASSUME Inv, Buffered("read"), NEW content, NextChunk(CopyOut(content)), ret' = ret,
         \A o \in Offset : content[o] \in viewAt(call.sector, o),
         Abstract!Settle
  PROVE  Abstract!ReadSome
<1>1. call.fn = "read" /\ call \in Call
  BY ChunkNumbers DEF Buffered, Transferring
<1>2. /\ reqOf.fn = "read" /\ reqOf.addr = call.address
      /\ reqOf.data = call.data /\ reqOf.done = call.ptr
  BY <1>1, ReqTransfer
<1>3. /\ reqOf'.fn = "read" /\ reqOf'.addr = call.address
      /\ reqOf'.data = CopyOut(content) /\ reqOf'.done = call.ptr + ChunkSize
  BY <1>1, ChunkProgress
<1>4. ASSUME NEW k \in call.ptr .. call.ptr + ChunkSize - 1
      PROVE  content[call.offset + k - call.ptr]
               \in [a \in 0 .. DeviceSize - 1 |-> viewOf(a)][call.address + k]
  BY ChunkByte DEF viewOf
<1>5. \A k \in DOMAIN call.data :
        IF k \in call.ptr .. call.ptr + ChunkSize - 1
          THEN CopyOut(content)[k] \in [a \in 0 .. DeviceSize - 1 |-> viewOf(a)][call.address + k]
          ELSE CopyOut(content)[k] = call.data[k]
  BY <1>4 DEF CopyOut
<1>6. DOMAIN CopyOut(content) = DOMAIN call.data
  BY DEF CopyOut
<1>7. ChunkSize \in 1 .. DeviceSize /\ Abstract!Transfer(ChunkSize) \subseteq Abstract!Addr
  BY ChunkOnDevice DEF Abstract!Addr
<1> QED
  BY <1>2, <1>3, <1>5, <1>6, <1>7 DEF Abstract!ReadSome, Abstract!Total

\* An iteration of write that leaves its chunk, in the content that readers saw
\* before, in a dirty buffer.
LEMMA WriteChunk ==
  ASSUME Addressable, Inv, Buffered("write"), NEW content, NEW s \in Sector, s = call.sector,
         SetBuffer(TRUE, CopyIn(content)), NextChunk(call.data),
         UNCHANGED <<media, mSize, ret>>, disk'[s] = disk[s],
         Partial => \A o \in Offset : content[o] \in viewAt(s, o),
         \A t \in Sector \ {s}, o \in Offset : SettlesAt(t, o)
  PROVE  Abstract!WriteSome
<1>1. /\ call.fn = "write" /\ call \in Call /\ mSize # 0
      /\ Slot \in 0 .. mSize - 1 /\ buffers \in [0 .. mSize - 1 -> Buffer]
  BY ChunkNumbers, Iteration DEF Buffered, Transferring, TypeOK
<1>2. /\ reqOf = [fn |-> "write", addr |-> call.address, data |-> call.data, done |-> call.ptr]
      /\ reqOf.fn = "write" /\ reqOf.addr = call.address
      /\ reqOf.data = call.data /\ reqOf.done = call.ptr
  BY <1>1, ReqTransfer
<1>3. reqOf' = [reqOf EXCEPT !.done = call.ptr + ChunkSize]
  BY <1>1, <1>2, ChunkProgress
<1>4. buffers'[Slot] = [sector |-> s, dirty |-> TRUE, data |-> CopyIn(content)]
  <2>1. ToUint32(call.sector) = call.sector
    BY <1>1, DeviceAssumption, ModSmall DEF Addressable, ToUint32, Sector
  <2> QED
    BY <1>1, <2>1 DEF SetBuffer
<1>5. Cached(s)' /\ get(s)' = Slot
  BY <1>1, <1>4 DEF Cached, get, Slot
<1>6. \A o \in Offset : viewAt(s, o)' = {CopyIn(content)[o]}
  BY <1>4, <1>5 DEF viewAt
<1>7. ASSUME NEW a \in (0 .. DeviceSize - 1) \ Abstract!Transfer(ChunkSize)
      PROVE  SettlesAt(a \div SectorSize, a % SectorSize)
  <2>1. a \div SectorSize \in Sector /\ a % SectorSize \in Offset
    BY AddrSplit
  <2>2. CASE a \div SectorSize # s
    BY <2>1, <2>2
  <2>3. CASE a \div SectorSize = s
    <3> DEFINE o == a % SectorSize
    <3>1. o \notin call.offset .. call.offset + ChunkSize - 1
      BY <1>7, <2>3, ChunkAddresses
    <3>2. Partial
      BY <2>1, <3>1, ChunkNumbers DEF Offset
    <3>3. viewAt(s, o)' = {content[o]} /\ content[o] \in viewAt(s, o)
      BY <1>6, <2>1, <3>1, <3>2 DEF CopyIn
    <3>4. viewAt(s, o)' # {} /\ viewAt(s, o)' \subseteq viewAt(s, o)
      BY <3>3
    <3>5. mayAt(s, o)' \subseteq mayAt(s, o)
      BY <3>4 DEF mayAt
    <3> QED
      BY <2>3, <3>4, <3>5 DEF SettlesAt
  <2> QED
    BY <2>2, <2>3
<1>8. ASSUME NEW a \in Abstract!Transfer(ChunkSize)
      PROVE  /\ [b \in 0 .. DeviceSize - 1 |-> viewOf(b)]'[a] = {call.data[a - call.address]}
             /\ [b \in 0 .. DeviceSize - 1 |-> mayOf(b)]'[a] \subseteq
                  [b \in 0 .. DeviceSize - 1 |-> mayOf(b)][a] \cup {call.data[a - call.address]}
  <2>1. a \in 0 .. DeviceSize - 1
    BY ChunkOnDevice
  <2> DEFINE o == a % SectorSize
  <2>2. /\ o \in Offset /\ a \div SectorSize = s
        /\ o \in call.offset .. call.offset + ChunkSize - 1
        /\ a - call.address = call.ptr + o - call.offset
    BY <2>1, AddrSplit, ChunkAddresses
  <2>3. viewAt(s, o)' = {call.data[a - call.address]}
    BY <1>6, <2>2 DEF CopyIn
  <2>4. mayAt(s, o)' \subseteq mayAt(s, o) \cup {call.data[a - call.address]}
    BY <2>3 DEF mayAt
  <2> QED
    BY <2>1, <2>2, <2>3, <2>4 DEF viewOf, mayOf
<1>9. Abstract!Store(ChunkSize)
  BY <1>2, <1>7, <1>8, SettleBySectors DEF Abstract!Store
<1>10. call.ptr + ChunkSize - 1 \in DOMAIN call.data /\ ChunkSize \in 1 .. DeviceSize
  <2>1. /\ call.ptr \in Nat /\ call.size \in Nat /\ ChunkSize \in Nat
        /\ 1 <= ChunkSize /\ ChunkSize <= call.size
        /\ DOMAIN call.data = 0 .. call.ptr + call.size - 1
    BY ChunkNumbers
  <2> QED
    BY <2>1, ChunkOnDevice
<1> QED
  BY <1>2, <1>3, <1>9, <1>10 DEF Abstract!WriteSome, Abstract!Total

\* Hit and Cached are the same question.
LEMMA HitIsCached ==
  ASSUME mSize # 0
  PROVE  Hit <=> Cached(call.sector)
BY DEF Hit, Slot, Cached

\* read from a buffer.
LEMMA ReadHitRefines ==
  ASSUME Inv, ReadHit
  PROVE  Abstract!ReadSome
<1>1. /\ Buffered("read") /\ Hit /\ NextChunk(CopyOut(buffers[Slot].data)) /\ mSize # 0
      /\ UNCHANGED <<disk, media, mSize, buffers>> /\ ret' = ret
  BY DEF ReadHit, Buffered
<1>2. \A o \in Offset : buffers[Slot].data[o] \in viewAt(call.sector, o)
  BY <1>1, HitIsCached DEF viewAt, Slot
<1>3. Abstract!Settle
  BY <1>1, SameSettles
<1> QED
  BY <1>1, <1>2, <1>3, ReadChunk

\* What a miss finds: the sector has no buffer, and the write-back of the buffer
\* that is in its place leaves it alone on the device.
LEMMA Miss ==
  ASSUME Inv, Buffered("read") \/ Buffered("write"), ~Hit,
         disk' = Flushed(buffers[Slot], SectorSize)
  PROVE  /\ ~Cached(call.sector)
         /\ disk'[call.sector] = disk[call.sector]
         /\ \A o \in Offset : viewAt(call.sector, o) = {disk[call.sector][o]}
<1>1. TypeOK /\ SlotDiscipline /\ mSize # 0 /\ call.sector \in Sector /\ Slot \in 0 .. mSize - 1
  BY Iteration
<1>2. ~Cached(call.sector)
  BY <1>1, HitIsCached
<1>3. SectorSize \in 0 .. SectorSize /\ buffers[Slot].sector # call.sector
  BY DeviceAssumption DEF Hit
<1>4. disk'[call.sector] = disk[call.sector]
  BY <1>1, <1>3, FlushElsewhere
<1> QED
  BY <1>2, <1>4 DEF viewAt

\* The buffer that SetBuffer leaves.
LEMMA SetBufferSlot ==
  ASSUME Addressable, Inv, Buffered("read") \/ Buffered("write"), mSize' = mSize,
         NEW dirty \in BOOLEAN, NEW content, SetBuffer(dirty, content), NEW s \in Sector, s = call.sector
  PROVE  /\ buffers' = [buffers EXCEPT ![Slot] = [sector |-> s, dirty |-> dirty, data |-> content]]
         /\ buffers'[Slot] = [sector |-> s, dirty |-> dirty, data |-> content]
         /\ Cached(s)' /\ get(s)' = Slot
<1>1. mSize # 0 /\ Slot \in 0 .. mSize - 1 /\ buffers \in [0 .. mSize - 1 -> Buffer]
  BY Iteration DEF TypeOK
<1>2. ToUint32(s) = s
  BY DeviceAssumption, ModSmall DEF Addressable, ToUint32, Sector
<1>3. buffers' = [buffers EXCEPT ![Slot] = [sector |-> s, dirty |-> dirty, data |-> content]]
  BY <1>2 DEF SetBuffer
<1> QED
  BY <1>1, <1>3 DEF Cached, get, Slot

\* read that evicts a buffer and loads its sector.
LEMMA ReadMissRefines ==
  ASSUME Addressable, Inv, ReadMiss
  PROVE  Abstract!ReadSome
<1>1. /\ Buffered("read") /\ ~Hit /\ disk' = Flushed(buffers[Slot], SectorSize)
      /\ SetBuffer(FALSE, disk'[call.sector]) /\ NextChunk(CopyOut(disk'[call.sector]))
      /\ media' = media /\ mSize' = mSize /\ ret' = ret
  BY DEF ReadMiss
<1>2. PICK s \in Sector : s = call.sector
  BY <1>1, Iteration
<1>3. ~Cached(s) /\ disk'[s] = disk[s] /\ \A o \in Offset : viewAt(s, o) = {disk[s][o]}
  BY <1>1, <1>2, Miss
<1> DEFINE b == [sector |-> s, dirty |-> FALSE, data |-> disk'[s]]
<1>4. /\ buffers' = [buffers EXCEPT ![Slot] = b] /\ buffers'[Slot] = b
      /\ Cached(s)' /\ get(s)' = Slot
  BY <1>1, <1>2, SetBufferSlot
<1>5. ASSUME NEW t \in Sector, NEW o \in Offset
      PROVE  SettlesAt(t, o)
  <2>1. CASE t = s
    <3>1. viewAt(s, o)' = {disk[s][o]}
      BY <1>3, <1>4 DEF viewAt
    <3> QED
      BY <1>1, <1>3, <2>1, <3>1 DEF SettlesAt, mayAt
  <2>2. CASE t # s
    <3>1. Slot \in 0 .. mSize - 1 /\ b.sector # t
      BY <1>1, <2>2, Iteration
    <3> HIDE DEF b
    <3> QED
      BY <1>1, <1>4, <3>1, EvictSettles
  <2> QED
    BY <2>1, <2>2
<1>6. Abstract!Settle
  BY <1>5, SettleAll
<1>7. \A o \in Offset : disk'[call.sector][o] \in viewAt(call.sector, o)
  BY <1>2, <1>3
<1> QED
  BY <1>1, <1>6, <1>7, ReadChunk

\* write into a buffer that holds the sector.
LEMMA WriteHitRefines ==
  ASSUME Addressable, Inv, WriteHit
  PROVE  Abstract!WriteSome
<1>1. /\ Buffered("write") /\ Hit /\ SetBuffer(TRUE, CopyIn(buffers[Slot].data))
      /\ NextChunk(call.data) /\ UNCHANGED <<media, mSize, ret>> /\ disk' = disk
      /\ mSize' = mSize /\ media' = media /\ mSize # 0
  BY DEF WriteHit, Buffered
<1>2. PICK s \in Sector : s = call.sector
  BY <1>1, Iteration
<1>3. /\ TypeOK /\ SlotDiscipline /\ Slot \in 0 .. mSize - 1
      /\ buffers \in [0 .. mSize - 1 -> Buffer] /\ Cached(s) /\ Slot = get(s)
  BY <1>1, <1>2, Iteration, HitIsCached DEF TypeOK, Slot
<1>4. \A o \in Offset : buffers[Slot].data[o] \in viewAt(s, o)
  BY <1>3 DEF viewAt
<1>5. ASSUME NEW t \in Sector \ {s}, NEW o \in Offset
      PROVE  SettlesAt(t, o)
  <2> DEFINE b == [sector |-> s, dirty |-> TRUE, data |-> CopyIn(buffers[Slot].data)]
  <2>1. buffers' = [buffers EXCEPT ![Slot] = b] /\ b.sector = s
    BY <1>1, <1>2, SetBufferSlot
  <2>2. get(t)' = get(t) /\ get(t) \in 0 .. mSize - 1
    BY <1>1, <1>3, CachedSlot DEF get
  <2>3. get(t) = Slot => ~Cached(t) /\ ~Cached(t)'
    BY <1>3, <2>1, <2>2 DEF Cached
  <2>4. get(t) # Slot => buffers'[get(t)'] = buffers[get(t)] /\ Cached(t)' = Cached(t)
    BY <1>1, <1>3, <2>1, <2>2 DEF Cached
  <2> QED
    BY <1>1, <2>3, <2>4, SameSector
<1> QED
  BY <1>1, <1>2, <1>4, <1>5, WriteChunk

\* write that evicts a buffer.  Of a whole sector none of what the buffer held
\* is left; part of a sector is written over what the device holds.
LEMMA WriteMissRefines ==
  ASSUME Addressable, Inv, WriteMissWhole \/ WriteMissPartial
  PROVE  Abstract!WriteSome
<1>1. /\ Buffered("write") /\ ~Hit /\ disk' = Flushed(buffers[Slot], SectorSize)
      /\ NextChunk(call.data) /\ UNCHANGED <<media, mSize, ret>>
      /\ media' = media /\ mSize' = mSize
  BY DEF WriteMissWhole, WriteMissPartial
<1>2. PICK s \in Sector : s = call.sector
  BY <1>1, Iteration
<1>3. disk'[s] = disk[s] /\ \A o \in Offset : viewAt(s, o) = {disk[s][o]}
  BY <1>1, <1>2, Miss
<1>4. PICK content : /\ SetBuffer(TRUE, CopyIn(content))
                     /\ Partial => content = disk'[s]
  BY <1>2 DEF WriteMissWhole, WriteMissPartial
<1>5. Partial => \A o \in Offset : content[o] \in viewAt(s, o)
  BY <1>3, <1>4
<1>6. ASSUME NEW t \in Sector \ {s}, NEW o \in Offset
      PROVE  SettlesAt(t, o)
  <2> DEFINE b == [sector |-> s, dirty |-> TRUE, data |-> CopyIn(content)]
  <2>1. buffers' = [buffers EXCEPT ![Slot] = b] /\ b.sector = s /\ Slot \in 0 .. mSize - 1
    BY <1>1, <1>2, <1>4, SetBufferSlot, Iteration
  <2> HIDE DEF b
  <2> QED
    BY <1>1, <2>1, EvictSettles
<1> QED
  BY <1>1, <1>2, <1>3, <1>4, <1>5, <1>6, WriteChunk

\* A call that fails and leaves what readers see as it was.
LEMMA FailRefines ==
  ASSUME call.fn \in {"read", "write"}, Finish(FALSE), Abstract!Settle
  PROVE  Abstract!Fail
BY ReqTransfer, ReqIdle DEF Finish, Abstract!Fail

\* The buffer to be evicted cannot be written.
LEMMA FlushFailsRefines ==
  ASSUME Addressable, Inv, FlushFails
  PROVE  Abstract!Fail
<1>1. /\ Buffered("read") \/ Buffered("write")
      /\ Finish(FALSE) /\ media' = media /\ mSize' = mSize /\ buffers' = buffers
  BY DEF FlushFails
<1>2. PICK n \in Transferred(buffers[Slot]) \ {SectorSize} : disk' = Flushed(buffers[Slot], n)
  BY DEF FlushFails
<1>3. n \in 0 .. SectorSize /\ buffers[Slot].dirty /\ n # SectorSize
  BY <1>2, DeviceAssumption DEF Transferred
<1>4. Slot \in 0 .. mSize - 1 /\ buffers \in [0 .. mSize - 1 -> Buffer]
  BY <1>1, Iteration DEF TypeOK
<1>5. buffers' = [buffers EXCEPT ![Slot] = [sector |-> buffers[Slot].sector,
                    dirty |-> buffers[Slot].dirty, data |-> buffers[Slot].data]]
  <2>1. buffers[Slot] = [sector |-> buffers[Slot].sector,
                         dirty |-> buffers[Slot].dirty, data |-> buffers[Slot].data]
    BY <1>4 DEF Buffer
  <2> QED
    BY <1>1, <1>4, <2>1
<1>6. Abstract!Settle
  BY <1>1, <1>2, <1>3, <1>4, <1>5, FlushSettles
<1>7. call.fn \in {"read", "write"}
  BY <1>1, ChunkNumbers
<1> QED
  BY <1>1, <1>6, <1>7, FailRefines

\* The buffer has been evicted and the sector cannot be read.
LEMMA LoadFailsRefines ==
  ASSUME Addressable, Inv, LoadFails
  PROVE  Abstract!Fail
<1>1. /\ Buffered("read") \/ Buffered("write")
      /\ Finish(FALSE) /\ media' = media /\ mSize' = mSize
      /\ disk' = Flushed(buffers[Slot], SectorSize)
      /\ buffers' = [buffers EXCEPT ![Slot] = Invalidated]
  BY DEF LoadFails
<1>2. Slot \in 0 .. mSize - 1 /\ Invalidated.sector \notin Sector
  BY <1>1, Iteration, InvalidNotASector DEF Invalidated
<1>3. ASSUME NEW s \in Sector, NEW o \in Offset
      PROVE  SettlesAt(s, o)
  <2>1. Invalidated.sector # s
    BY <1>2
  <2> QED
    BY <1>1, <1>2, <2>1, EvictSettles
<1>4. call.fn \in {"read", "write"}
  BY <1>1, ChunkNumbers
<1> QED
  BY <1>1, <1>3, <1>4, SettleAll, FailRefines

(***************************************************************************)
(* read and write without buffers                                          *)
(***************************************************************************)

\* Byte k of a range of whole sectors from sector q on.
LEMMA WholeSectors ==
  ASSUME NEW q \in Nat, NEW m \in Nat \ {0}, NEW k \in Nat
  PROVE  (q * m + k) \div m = q + (k \div m) /\ (q * m + k) % m = k % m
<1>1. PICK d \in Nat : d = k \div m
  BY DivMod
<1>2. PICK r \in Nat : r = k % m /\ r < m
  BY ModRange
<1>3. d * m + r = k
  BY <1>1, <1>2, DivMod
<1>4. (q + d) * m = q * m + d * m
  BY <1>1
<1>5. (q + d) * m + r = q * m + k
  BY <1>3, <1>4
<1>6. PICK e \in Nat : e = q + d
  BY <1>1
<1>7. (e * m + r) \div m = e /\ (e * m + r) % m = r
  BY <1>2, DivModUnique
<1> QED
  BY <1>1, <1>2, <1>5, <1>6, <1>7

\* Without buffers readers see the device.
LEMMA NoBuffersView ==
  ASSUME mSize = 0, NEW s, NEW o
  PROVE  viewAt(s, o) = {disk[s][o]} /\ mayAt(s, o) = {disk[s][o], media[s][o]}
BY DEF viewAt, mayAt, Cached

\* The numbers of an unbuffered transfer.
LEMMA WholeNumbers ==
  ASSUME Inv, mSize = 0, Transferring("read") \/ Transferring("write"), ~Misaligned
  PROVE  /\ call \in Call /\ call.fn \in {"read", "write"}
         /\ call.address \in Nat /\ call.size \in Nat /\ 1 <= call.size /\ call.sector \in Nat
         /\ SectorSize \in Nat \ {0} /\ DeviceSize \in Nat
         /\ call.ptr = 0
         /\ call.sector * SectorSize = call.address
         /\ call.address + call.size <= DeviceSize
         /\ DOMAIN call.data = 0 .. call.size - 1
         /\ reqOf = [fn |-> call.fn, addr |-> call.address, data |-> call.data, done |-> 0]
         /\ call.size \in 1 .. DeviceSize
<1>1. /\ TypeOK /\ TransferInBounds /\ call \in Call /\ call.fn \in {"read", "write"}
      /\ call.size # 0 /\ call.offset = 0 /\ call.ptr = 0
  BY DEF Inv, TypeOK, TransferInBounds, Transferring, Misaligned
<1>2. SectorSize \in Nat \ {0} /\ SectorCount \in Nat
  BY DeviceAssumption
<1>3. DeviceSize \in Nat
  BY <1>2 DEF DeviceSize
<1>4. /\ call.address \in Nat /\ call.size \in Nat /\ 1 <= call.size /\ call.sector \in Nat
  BY <1>1 DEF Call
<1>5. /\ call.sector * SectorSize + 0 = call.address + 0
      /\ call.address + 0 + call.size <= DeviceSize
      /\ DOMAIN call.data = 0 .. 0 + call.size - 1
  BY <1>1 DEF TransferInBounds
<1>6. call.sector * SectorSize \in Nat
  BY <1>2, <1>4
<1>7. 0 + call.size - 1 = call.size - 1 /\ call.address + 0 + call.size = call.address + call.size
  BY <1>4
<1>8. call.sector * SectorSize = call.address
  BY <1>4, <1>5, <1>6
<1>9. call.size \in 1 .. DeviceSize
  BY <1>3, <1>4, <1>5
<1> QED
  BY <1>1, <1>2, <1>3, <1>4, <1>5, <1>7, <1>8, <1>9, ReqTransfer

\* The arguments of a raw call of several sectors.
LEMMA UnbufferedReadRefines ==
  ASSUME Inv, UnbufferedRead
  PROVE  Abstract!ReadSome \/ Abstract!Fail
<1>1. /\ mSize = 0 /\ Transferring("read") /\ ~Misaligned /\ call.fn = "read"
      /\ UNCHANGED <<disk, media, mSize, buffers>>
  BY DEF UnbufferedRead, Transferring
<1>2. Abstract!Settle
  BY <1>1, SameSettles
<1>3. CASE Finish(FALSE)
  BY <1>1, <1>2, <1>3, FailRefines
<1>4. CASE ~Finish(FALSE)
  <2> DEFINE d == [k \in DOMAIN call.data |->
                     disk[call.sector + k \div SectorSize][k % SectorSize]]
  <2>1. call' = [call EXCEPT !.size = 0, !.ptr = call.size, !.data = d] /\ ret' = ret
    BY <1>4 DEF UnbufferedRead
  <2>2. /\ call \in Call /\ call.address \in Nat /\ call.size \in Nat /\ call.sector \in Nat
        /\ SectorSize \in Nat \ {0} /\ DeviceSize \in Nat
        /\ call.address + call.size <= DeviceSize /\ call.size \in 1 .. DeviceSize
        /\ DOMAIN call.data = 0 .. call.size - 1
        /\ reqOf = [fn |-> "read", addr |-> call.address, data |-> call.data, done |-> 0]
    BY <1>1, WholeNumbers
  <2>3. ASSUME NEW k \in 0 .. call.size - 1
        PROVE  /\ call.address + 0 + k \in 0 .. DeviceSize - 1
               /\ call.address + 0 + k = call.address + k
               /\ call.address + k \in 0 .. DeviceSize - 1
    BY <2>2
  <2>4. ASSUME NEW k \in 0 .. call.size - 1
        PROVE  d[k] \in [a \in 0 .. DeviceSize - 1 |-> viewOf(a)][call.address + k]
    <3>1. k \in Nat /\ call.sector * SectorSize = call.address
      BY <1>1, <2>2, WholeNumbers
    <3>2. /\ (call.sector * SectorSize + k) \div SectorSize = call.sector + (k \div SectorSize)
          /\ (call.sector * SectorSize + k) % SectorSize = k % SectorSize
      BY <2>2, <3>1, WholeSectors
    <3>3. d[k] = disk[call.sector + (k \div SectorSize)][k % SectorSize]
      BY <2>2
    <3>4. viewOf(call.address + k) = {d[k]}
      BY <1>1, <3>1, <3>2, <3>3, NoBuffersView DEF viewOf
    <3> QED
      BY <2>3, <3>4
  <2>5. DOMAIN d = 0 .. call.size - 1
    BY <2>2
  <2> HIDE DEF d
  <2>6. reqOf' = [fn |-> "read", addr |-> call.address, data |-> d, done |-> call.size]
    <3>1. /\ call'.fn = "read" /\ call'.address = call.address /\ call'.data = d
          /\ call'.ptr = call.size
      BY <1>1, <2>1, <2>2 DEF Call
    <3> QED
      BY <3>1 DEF reqOf
  <2>7. Abstract!Transfer(call.size) \subseteq Abstract!Addr
    BY <2>2, <2>3 DEF Abstract!Transfer, Abstract!Addr
  <2>8. 0 + call.size = call.size /\ 0 + call.size - 1 = call.size - 1
    BY <2>2
  <2> QED
    BY <1>2, <2>1, <2>2, <2>4, <2>5, <2>6, <2>7, <2>8 DEF Abstract!ReadSome, Abstract!Total
<1> QED
  BY <1>3, <1>4

\* raw_sector_write of several sectors, of which n bytes arrive: they are the
\* first n bytes of the request.
LEMMA UnbufferedStore ==
  ASSUME Inv, UnbufferedWrite, NEW n \in 0 .. call.size,
         disk' = [s \in Sector |-> [o \in Offset |->
            LET k == (s - call.sector) * SectorSize + o IN
            IF k \in 0 .. n - 1 THEN call.data[k] ELSE disk[s][o]]]
  PROVE  /\ n # 0 => Abstract!Store(n) /\ n \in 1 .. DeviceSize /\ 0 + n - 1 \in DOMAIN call.data
         /\ n = 0 => Abstract!Settle
<1>1. /\ mSize = 0 /\ Transferring("write") /\ ~Misaligned /\ call.fn = "write"
      /\ mSize' = 0 /\ media' = media
  BY DEF UnbufferedWrite, Transferring
<1>2. /\ call \in Call /\ call.address \in Nat /\ call.size \in Nat /\ call.sector \in Nat
      /\ SectorSize \in Nat \ {0} /\ DeviceSize \in Nat
      /\ call.address + call.size <= DeviceSize /\ call.size \in 1 .. DeviceSize
      /\ DOMAIN call.data = 0 .. call.size - 1
      /\ reqOf = [fn |-> "write", addr |-> call.address, data |-> call.data, done |-> 0]
  BY <1>1, WholeNumbers
<1>3. n \in Nat /\ n <= call.size
  BY <1>2
<1>4. ASSUME NEW a \in 0 .. DeviceSize - 1
      PROVE  /\ a - call.address \in 0 .. n - 1 =>
                  /\ viewOf(a)' = {call.data[a - call.address]}
                  /\ mayOf(a)' \subseteq mayOf(a) \cup {call.data[a - call.address]}
             /\ a - call.address \notin 0 .. n - 1 =>
                  SettlesAt(a \div SectorSize, a % SectorSize)
  <2>1. PICK s \in Sector : s = a \div SectorSize
    BY AddrSplit
  <2>2. PICK o \in Offset : o = a % SectorSize
    BY AddrSplit
  <2>3. s \in Nat /\ o \in Nat /\ a \in Nat
    BY <1>2, DeviceAssumption DEF Sector, Offset
  <2>4. (s - call.sector) * SectorSize + o = a - call.address
    <3>1. PICK x \in Int : x = s * SectorSize
      BY <1>2, <2>3
    <3>2. PICK y \in Int : y = call.sector * SectorSize
      BY <1>2
    <3>3. (s - call.sector) * SectorSize = s * SectorSize - call.sector * SectorSize
      BY <1>2, <2>3
    <3>4. x + o = a /\ y = call.address
      BY <1>1, <2>1, <2>2, <3>1, <3>2, AddrSplit, WholeNumbers
    <3>5. PICK z \in Int : z = (s - call.sector) * SectorSize
      BY <1>2, <2>3
    <3>6. z = x - y
      BY <3>1, <3>2, <3>3, <3>5
    <3>7. z + o = a - call.address
      BY <1>2, <2>3, <3>4, <3>6
    <3> QED
      BY <3>5, <3>7
  <2>5. disk'[s][o] = IF a - call.address \in 0 .. n - 1
                        THEN call.data[a - call.address] ELSE disk[s][o]
    BY <2>4
  <2>6. /\ viewAt(s, o) = {disk[s][o]} /\ mayAt(s, o) = {disk[s][o], media[s][o]}
        /\ viewAt(s, o)' = {disk'[s][o]} /\ mayAt(s, o)' = {disk'[s][o], media[s][o]}
    BY <1>1 DEF viewAt, mayAt, Cached
  <2>7. ASSUME a - call.address \in 0 .. n - 1
        PROVE  /\ viewOf(a)' = {call.data[a - call.address]}
               /\ mayOf(a)' \subseteq mayOf(a) \cup {call.data[a - call.address]}
    BY <2>1, <2>2, <2>5, <2>6, <2>7 DEF viewOf, mayOf
  <2>8. ASSUME a - call.address \notin 0 .. n - 1
        PROVE  SettlesAt(a \div SectorSize, a % SectorSize)
    <3>1. SettlesAt(s, o)
      BY <2>5, <2>6, <2>8 DEF SettlesAt
    <3> QED
      BY <2>1, <2>2, <3>1
  <2> QED
    BY <2>7, <2>8
<1>5. ASSUME n # 0
      PROVE  Abstract!Store(n) /\ n \in 1 .. DeviceSize /\ 0 + n - 1 \in DOMAIN call.data
  <2>1. ASSUME NEW a \in Abstract!Transfer(n)
        PROVE  a - call.address \in 0 .. n - 1 /\ a \in 0 .. DeviceSize - 1
    <3>1. PICK k \in 0 .. n - 1 : a = call.address + 0 + k
      BY <1>2, <2>1 DEF Abstract!Transfer
    <3> QED
      BY <1>2, <1>3, <3>1
  <2>2. ASSUME NEW a \in (0 .. DeviceSize - 1) \ Abstract!Transfer(n)
        PROVE  SettlesAt(a \div SectorSize, a % SectorSize)
    <3>1. CASE a - call.address \in 0 .. n - 1
      <4>1. a = call.address + 0 + (a - call.address)
        BY <1>2
      <4> QED
        BY <1>2, <2>2, <3>1, <4>1 DEF Abstract!Transfer
    <3> QED
      BY <1>4, <3>1
  <2>3. Abstract!SettleOutside(Abstract!Transfer(n))
    BY <2>2, SettleBySectors
  <2>4. ASSUME NEW a \in Abstract!Transfer(n)
        PROVE  /\ [b \in 0 .. DeviceSize - 1 |-> viewOf(b)]'[a] = {call.data[a - call.address]}
               /\ [b \in 0 .. DeviceSize - 1 |-> mayOf(b)]'[a] \subseteq
                    [b \in 0 .. DeviceSize - 1 |-> mayOf(b)][a] \cup {call.data[a - call.address]}
    BY <1>4, <2>1
  <2>5. n \in 1 .. DeviceSize /\ 0 + n - 1 \in DOMAIN call.data
    BY <1>2, <1>3, <1>5
  <2> QED
    BY <1>2, <2>3, <2>4, <2>5 DEF Abstract!Store
<1>6. ASSUME n = 0
      PROVE  Abstract!Settle
  <2>1. 0 .. n - 1 = {}
    BY <1>6
  <2>2. \A a \in (0 .. DeviceSize - 1) \ {} : SettlesAt(a \div SectorSize, a % SectorSize)
    BY <1>4, <2>1
  <2> QED
    BY <2>2, SettleBySectors DEF Abstract!Settle
<1> QED
  BY <1>5, <1>6

\* write without buffers stores its bytes, or a prefix of them when it fails.
LEMMA UnbufferedWriteRefines ==
  ASSUME Inv, UnbufferedWrite
  PROVE  Abstract!WriteSome \/ Abstract!Fail
<1>1. /\ call.fn = "write" /\ call \in Call /\ call.size \in 1 .. DeviceSize
      /\ call.size \in Nat /\ call.size # 0
      /\ reqOf = [fn |-> "write", addr |-> call.address, data |-> call.data, done |-> 0]
  BY WholeNumbers DEF UnbufferedWrite, Transferring
<1>2. PICK n \in 0 .. call.size :
        /\ disk' = [s \in Sector |-> [o \in Offset |->
             LET k == (s - call.sector) * SectorSize + o IN
             IF k \in 0 .. n - 1 THEN call.data[k] ELSE disk[s][o]]]
        /\ IF n = call.size
             THEN call' = [call EXCEPT !.size = 0, !.ptr = call.size] /\ UNCHANGED ret
             ELSE Finish(FALSE)
  BY DEF UnbufferedWrite
<1>3. /\ n # 0 => Abstract!Store(n) /\ n \in 1 .. DeviceSize /\ 0 + n - 1 \in DOMAIN call.data
      /\ n = 0 => Abstract!Settle
  BY <1>2, UnbufferedStore
<1>4. CASE n = call.size
  <2>1. /\ call'.fn = "write" /\ call'.address = call.address /\ call'.data = call.data
        /\ call'.ptr = call.size /\ ret' = ret
    BY <1>1, <1>2, <1>4 DEF Call
  <2>2. reqOf' = [fn |-> "write", addr |-> call.address, data |-> call.data, done |-> call.size]
    BY <2>1 DEF reqOf
  <2>3. 0 + call.size = call.size
    BY <1>1
  <2>4. reqOf' = [reqOf EXCEPT !.done = reqOf.done + call.size]
    BY <1>1, <2>2, <2>3
  <2> QED
    BY <1>1, <1>3, <1>4, <2>1, <2>4 DEF Abstract!WriteSome, Abstract!Total
<1>5. CASE n # call.size
  <2>1. reqOf' = Abstract!Idle /\ ret' = "false"
    BY <1>2, <1>5, ReqIdle DEF Finish
  <2> QED
    BY <1>1, <1>3, <2>1 DEF Abstract!Fail, Abstract!Total
<1> QED
  BY <1>4, <1>5

(***************************************************************************)
(* erase_range                                                             *)
(***************************************************************************)

\* The addresses of a range of sectors.
LEMMA RangeSectors ==
  ASSUME NEW first \in Sector, NEW count \in 1 .. SectorCount - first,
         NEW a \in 0 .. DeviceSize - 1
  PROVE  a \in first * SectorSize .. first * SectorSize + count * SectorSize - 1
           <=> a \div SectorSize \in first .. first + count - 1
<1>1. SectorCount \in Nat /\ SectorSize \in Nat \ {0}
  BY DeviceAssumption
<1>2. first \in Nat /\ count \in Nat
  BY <1>1 DEF Sector
<1>3. PICK s \in Nat : s = a \div SectorSize
  BY <1>1, AddrSplit DEF Sector
<1>4. PICK o \in Nat : o = a % SectorSize /\ o < SectorSize
  BY <1>1, AddrSplit DEF Offset
<1>5. PICK base \in Nat : base = first * SectorSize
  BY <1>1, <1>2
<1>6. PICK len \in Nat : len = count * SectorSize
  BY <1>1, <1>2
<1>7. PICK sec \in Nat : sec = s * SectorSize /\ sec + o = a
  <2>1. s * SectorSize \in Nat
    BY <1>1, <1>3
  <2>2. s * SectorSize + o = a
    BY <1>3, <1>4, AddrSplit
  <2> QED
    BY <2>1, <2>2
<1>8. (first + count) * SectorSize = base + len /\ (s + 1) * SectorSize = sec + SectorSize
  BY <1>1, <1>2, <1>3, <1>5, <1>6, <1>7
<1>9. /\ first <= s => base <= sec
      /\ s + 1 <= first => sec + SectorSize <= base
      /\ s + 1 <= first + count => sec + SectorSize <= base + len
      /\ first + count <= s => base + len <= sec
  <2>1. first <= s => base <= sec
    BY <1>1, <1>2, <1>3, <1>5, <1>7, MulMono
  <2>2. s + 1 <= first => (s + 1) * SectorSize <= first * SectorSize
    BY <1>1, <1>2, <1>3, MulMono
  <2>3. s + 1 <= first + count => (s + 1) * SectorSize <= (first + count) * SectorSize
    BY <1>1, <1>2, <1>3, MulMono
  <2>4. first + count <= s => (first + count) * SectorSize <= s * SectorSize
    BY <1>1, <1>2, <1>3, MulMono
  <2> QED
    BY <1>5, <1>7, <1>8, <2>1, <2>2, <2>3, <2>4
<1>10. a \in base .. base + len - 1 <=> s \in first .. first + count - 1
  BY <1>1, <1>2, <1>4, <1>7, <1>9
<1> QED
  BY <1>3, <1>5, <1>6, <1>10

\* A step of Storage that erases the bytes of a range of sectors: outside of it
\* nothing changes but for the better, inside of it readers see the erased byte
\* or, if the erase has failed, what they saw before.
LEMMA EraseBySectors ==
  ASSUME NEW first \in Sector, NEW count \in 1 .. SectorCount - first,
         call = NoCall, call' = NoCall, ret' \in {"true", "false"},
         \A s \in Sector \ (first .. first + count - 1), o \in Offset : SettlesAt(s, o),
         \A s \in first .. first + count - 1, o \in Offset :
            /\ mayAt(s, o)' \subseteq mayAt(s, o) \cup {Erased}
            /\ viewAt(s, o)' \subseteq IF ret' = "true" THEN {Erased} ELSE viewAt(s, o) \cup {Erased}
  PROVE  Abstract!Erase
<1>1. SectorCount \in Nat /\ SectorSize \in Nat \ {0}
  BY DeviceAssumption
<1>2. first \in Nat /\ count \in Nat /\ 1 <= count /\ first + count <= SectorCount
  BY <1>1 DEF Sector
<1> DEFINE R == first * SectorSize .. first * SectorSize + count * SectorSize - 1
<1>3. first * SectorSize \in Abstract!Addr /\ count * SectorSize \in 0 .. DeviceSize
  <2>1. (first + count) * SectorSize = first * SectorSize + count * SectorSize
    BY <1>1, <1>2
  <2>2. (first + count) * SectorSize <= SectorCount * SectorSize
    BY <1>1, <1>2, MulMono
  <2>3. 1 * SectorSize <= count * SectorSize
    BY <1>1, <1>2, MulMono
  <2>4. PICK x \in Nat : x = first * SectorSize
    BY <1>1, <1>2
  <2>5. PICK y \in Nat : y = count * SectorSize
    BY <1>1, <1>2
  <2>6. PICK z \in Nat : z = SectorCount * SectorSize
    BY <1>1
  <2>7. x + y <= z /\ SectorSize <= y
    BY <1>1, <2>1, <2>2, <2>3, <2>4, <2>5, <2>6
  <2>8. x \in 0 .. z - 1 /\ y \in 0 .. z
    BY <1>1, <2>7
  <2> QED
    BY <2>4, <2>5, <2>6, <2>8 DEF DeviceSize, Abstract!Addr
<1>4. ASSUME NEW a \in (0 .. DeviceSize - 1) \ R
      PROVE  SettlesAt(a \div SectorSize, a % SectorSize)
  <2>1. a \div SectorSize \in Sector /\ a % SectorSize \in Offset
    BY AddrSplit
  <2>2. a \div SectorSize \notin first .. first + count - 1
    BY RangeSectors
  <2> QED
    BY <2>1, <2>2
<1>5. ASSUME NEW a \in R \cap (0 .. DeviceSize - 1)
      PROVE  /\ viewOf(a)' # {} /\ mayOf(a)' \subseteq mayOf(a) \cup {Erased}
             /\ viewOf(a)' \subseteq IF ret' = "true" THEN {Erased} ELSE viewOf(a) \cup {Erased}
  <2>1. a % SectorSize \in Offset
    BY AddrSplit
  <2>2. a \div SectorSize \in first .. first + count - 1
    BY RangeSectors
  <2> QED
    BY <2>1, <2>2, ViewNonEmpty DEF viewOf, mayOf
<1>6. Abstract!SettleOutside(R)
  BY <1>4, SettleBySectors
<1>7. reqOf = Abstract!Idle /\ reqOf' = Abstract!Idle
  BY ReqIdle
<1> HIDE DEF R
<1>8. \A a \in R \cap Abstract!Addr :
        /\ [b \in 0 .. DeviceSize - 1 |-> viewOf(b)]'[a] # {}
        /\ [b \in 0 .. DeviceSize - 1 |-> mayOf(b)]'[a] \subseteq
             [b \in 0 .. DeviceSize - 1 |-> mayOf(b)][a] \cup {Erased}
        /\ [b \in 0 .. DeviceSize - 1 |-> viewOf(b)]'[a] \subseteq
             IF ret' = "true" THEN {Erased}
             ELSE [b \in 0 .. DeviceSize - 1 |-> viewOf(b)][a] \cup {Erased}
  BY <1>5 DEF Abstract!Addr
<1> QED
  BY <1>3, <1>6, <1>7, <1>8 DEF Abstract!Erase, R

\* CHECK_ALIGN fails: an erase of nothing.
LEMMA EraseMisalignedRefines ==
  ASSUME NEW r \in Requests, EraseMisaligned(r[1], r[2])
  PROVE  Abstract!Erase
<1>1. /\ call = NoCall /\ call' = NoCall /\ ret' = "false"
      /\ UNCHANGED <<disk, media, mSize, buffers>>
  BY DEF EraseMisaligned, Finish
<1>2. 0 \in Abstract!Addr /\ 0 \in 0 .. DeviceSize
  BY DeviceAssumption DEF Abstract!Addr, Requests, DeviceSize
<1>3. 0 .. 0 + 0 - 1 = {}
  OBVIOUS
<1>4. Abstract!SettleOutside({})
  BY <1>1, SameSettles DEF Abstract!Settle
<1>5. reqOf = Abstract!Idle /\ reqOf' = Abstract!Idle
  BY <1>1, ReqIdle
<1>6. Abstract!SettleOutside(0 .. 0 + 0 - 1)
  BY <1>3, <1>4
<1> QED
  BY <1>1, <1>2, <1>3, <1>5, <1>6 DEF Abstract!Erase

\* The buffers after the loop of erase_range.
LEMMA ClearBuffersAt ==
  ASSUME Addressable, Inv, mSize' = mSize, mSize # 0,
         NEW S \in SUBSET Sector, buffers' = ClearBuffers(S), NEW s \in Sector
  PROVE  /\ Cached(s)' = Cached(s) /\ get(s)' = get(s)
         /\ s \notin S /\ Cached(s) => buffers'[get(s)] = buffers[get(s)]
         /\ s \in S /\ Cached(s) => /\ buffers'[get(s)].data = [o \in Offset |-> Erased]
                                    /\ ~buffers'[get(s)].dirty
<1>1. buffers \in [0 .. mSize - 1 -> Buffer] /\ get(s) \in 0 .. mSize - 1 /\ get(s)' = get(s)
  <2>1. mSize \in Nat /\ s \in Nat
    BY DeviceAssumption DEF Inv, TypeOK, Sector
  <2> QED
    BY <2>1, ModRange DEF Inv, TypeOK, get
<1>2. buffers[get(s)] \in Buffer /\ get(s) \in DOMAIN buffers
  BY <1>1
<1>3. CASE s \in S /\ Cached(s)
  <2>1. buffers'[get(s)] =
          [buffers[get(s)] EXCEPT !.data = [o \in Offset |-> Erased], !.dirty = FALSE]
    BY <1>2, <1>3 DEF ClearBuffers, Cached
  <2>2. /\ buffers'[get(s)].sector = buffers[get(s)].sector
        /\ buffers'[get(s)].data = [o \in Offset |-> Erased] /\ ~buffers'[get(s)].dirty
    BY <1>2, <2>1 DEF Buffer
  <2> QED
    BY <1>1, <1>3, <2>2 DEF Cached
<1>4. CASE s \notin S /\ Cached(s)
  <2>1. buffers'[get(s)] = buffers[get(s)]
    BY <1>2, <1>4 DEF ClearBuffers, Cached
  <2> QED
    BY <1>1, <1>4, <2>1 DEF Cached
<1>5. CASE ~Cached(s)
  <2>1. buffers'[get(s)].sector = buffers[get(s)].sector
    BY <1>2 DEF ClearBuffers, Buffer
  <2> QED
    BY <1>1, <1>5, <2>1 DEF Cached
<1> QED
  BY <1>3, <1>4, <1>5, <1>1

\* A successful erase.
LEMMA EraseRangeRefines ==
  ASSUME Addressable, Inv, NEW first \in Sector, NEW count \in 1 .. SectorCount - first,
         EraseRange(first, count)
  PROVE  Abstract!Erase
<1> DEFINE S == first .. first + count - 1
<1>1. /\ call = NoCall /\ call' = NoCall /\ ret' = "true"
      /\ disk' = Zeroed(disk, S) /\ buffers' = ClearBuffers(S) /\ media' = media /\ mSize' = mSize
  BY DEF EraseRange, Finish
<1>2. S \in SUBSET Sector
  BY DeviceAssumption DEF Sector
<1> HIDE DEF S
<1>3. ASSUME NEW s \in Sector, mSize # 0
      PROVE  /\ Cached(s)' = Cached(s) /\ get(s)' = get(s)
             /\ s \notin S /\ Cached(s) => buffers'[get(s)] = buffers[get(s)]
             /\ s \in S /\ Cached(s) => /\ buffers'[get(s)].data = [o \in Offset |-> Erased]
                                        /\ ~buffers'[get(s)].dirty
  BY <1>1, <1>2, <1>3, ClearBuffersAt
<1>4. mSize = 0 => \A s : ~Cached(s) /\ ~Cached(s)'
  BY <1>1 DEF Cached
<1>5. ASSUME NEW s \in Sector \ S, NEW o \in Offset
      PROVE  SettlesAt(s, o)
  <2>1. disk'[s] = disk[s] /\ media'[s] = media[s]
    BY <1>1, <1>5 DEF Zeroed
  <2> QED
    BY <1>3, <1>4, <2>1, SameSector
<1>6. ASSUME NEW s \in S, NEW o \in Offset
      PROVE  /\ viewAt(s, o)' \subseteq {Erased}
             /\ mayAt(s, o)' \subseteq mayAt(s, o) \cup {Erased}
  <2>1. s \in Sector /\ disk'[s][o] = Erased /\ media'[s] = media[s]
    BY <1>1, <1>2 DEF Zeroed
  <2>2. viewAt(s, o)' \subseteq {Erased}
    <3>1. CASE ~Cached(s)'
      BY <2>1, <3>1 DEF viewAt
    <3>2. CASE Cached(s)'
      <4>1. mSize # 0
        BY <1>4, <3>2
      <4>2. /\ get(s)' = get(s) /\ buffers'[get(s)].data = [t \in Offset |-> Erased]
            /\ ~buffers'[get(s)].dirty
        BY <1>3, <2>1, <3>2, <4>1
      <4> QED
        BY <2>1, <3>2, <4>2 DEF viewAt
    <3> QED
      BY <3>1, <3>2
  <2> QED
    BY <2>1, <2>2 DEF mayAt
<1> QED
  BY <1>1, <1>5, <1>6, EraseBySectors DEF S

\* An erase that fails after any part of the range has been erased.
LEMMA EraseFailsRefines ==
  ASSUME Inv, NEW first \in Sector, NEW count \in 1 .. SectorCount - first,
         EraseFails(first, count)
  PROVE  Abstract!Erase
<1> DEFINE R == first .. first + count - 1
<1>1. /\ call = NoCall /\ call' = NoCall /\ ret' = "false"
      /\ media' = media /\ mSize' = mSize /\ buffers' = buffers
  BY DEF EraseFails, Finish
<1>2. PICK S \in SUBSET R : disk' = Zeroed(disk, S)
  BY DEF EraseFails
<1>3. R \subseteq Sector
  BY DeviceAssumption DEF Sector
<1> HIDE DEF R
<1>4. \A s : /\ Cached(s)' = Cached(s) /\ get(s)' = get(s)
             /\ buffers'[get(s)'] = buffers[get(s)]
  BY <1>1 DEF Cached, get
<1>5. ASSUME NEW s \in Sector \ R, NEW o \in Offset
      PROVE  SettlesAt(s, o)
  <2>1. disk'[s] = disk[s] /\ media'[s] = media[s]
    BY <1>1, <1>2, <1>5 DEF Zeroed
  <2> QED
    BY <1>4, <2>1, SameSector
<1>6. ASSUME NEW s \in R, NEW o \in Offset
      PROVE  /\ viewAt(s, o)' \subseteq viewAt(s, o) \cup {Erased}
             /\ mayAt(s, o)' \subseteq mayAt(s, o) \cup {Erased}
  <2>1. s \in Sector /\ disk'[s][o] \in {disk[s][o], Erased}
    BY <1>2, <1>3 DEF Zeroed
  <2>2. viewAt(s, o)' \subseteq viewAt(s, o) \cup {Erased}
    BY <1>1, <1>4, <2>1 DEF viewAt
  <2> QED
    BY <1>1, <2>1, <2>2 DEF mayAt
<1> QED
  BY <1>1, <1>5, <1>6, EraseBySectors DEF R

(***************************************************************************)
(* sync, allocateBuffers and the environment                               *)
(***************************************************************************)

\* No buffer is dirty when flushBuffers has returned true.
LEMMA AllClean ==
  ASSUME FlushProgress, FlushDone("sync") \/ FlushDone("alloc"), call.res
  PROVE  \A i \in 0 .. mSize - 1 : ~buffers[i].dirty
BY DEF FlushProgress, FlushDone

\* An iteration of flushBuffers is a write-back.
LEMMA FlushBufferRefines ==
  ASSUME Addressable, Inv, FlushBuffer
  PROVE  Abstract!WriteBack
<1>1. /\ TypeOK /\ call \in Call /\ call.fn \in {"sync", "alloc"}
      /\ call.ptr \in 0 .. mSize - 1 /\ buffers \in [0 .. mSize - 1 -> Buffer]
      /\ mSize' = mSize /\ media' = media /\ ret' = ret
  BY DEF Inv, TypeOK, Call, FlushBuffer, Flushing
<1>2. PICK n \in Transferred(buffers[call.ptr]) :
        /\ disk' = Flushed(buffers[call.ptr], n)
        /\ buffers' = [buffers EXCEPT ![call.ptr].dirty = @ /\ n # SectorSize]
        /\ call' = [call EXCEPT !.ptr = @ + 1, !.res = @ /\ n = SectorSize]
  BY DEF FlushBuffer
<1>3. PICK i \in 0 .. mSize - 1 : i = call.ptr
  BY <1>1
<1>4. n \in 0 .. SectorSize
  BY <1>2, DeviceAssumption DEF Transferred
<1> DEFINE dirty == buffers[i].dirty /\ n # SectorSize
<1>5. buffers[i] \in Buffer
  BY <1>1
<1>6. [buffers[i] EXCEPT !.dirty = @ /\ n # SectorSize] =
        [sector |-> buffers[i].sector, dirty |-> dirty, data |-> buffers[i].data]
  BY <1>5 DEF Buffer
<1>7. buffers' = [buffers EXCEPT ![i] =
                    [sector |-> buffers[i].sector, dirty |-> dirty, data |-> buffers[i].data]]
  BY <1>1, <1>2, <1>3, <1>6
<1>8. Abstract!Settle
  <2>1. ~buffers[i].dirty => ~dirty
    OBVIOUS
  <2>2. buffers[i].dirty /\ n # SectorSize => dirty
    OBVIOUS
  <2>3. disk' = Flushed(buffers[i], n)
    BY <1>2, <1>3
  <2>4. dirty \in BOOLEAN
    OBVIOUS
  <2> HIDE DEF dirty
  <2> QED
    BY <1>1, <1>4, <1>7, <2>1, <2>2, <2>3, <2>4, FlushSettles
<1>9. call'.fn = call.fn
  BY <1>1, <1>2 DEF Call
<1>10. reqOf' = reqOf
  BY <1>1, <1>9 DEF reqOf
<1> QED
  BY <1>1, <1>8, <1>10 DEF Abstract!WriteBack

\* The request of Storage for flushBuffers.
LEMMA ReqFlush ==
  ASSUME call.fn \in {"sync", "alloc"}
  PROVE  reqOf.fn = call.fn
BY DEF reqOf

\* flushBuffers returns false: nothing but write-backs has happened.
LEMMA FlushBuffersFailRefines ==
  ASSUME FlushBuffersFail
  PROVE  Abstract!Sync \/ Abstract!AllocateBuffers
<1>1. /\ call.fn \in {"sync", "alloc"} /\ call' = NoCall /\ ret' = "false"
      /\ UNCHANGED <<disk, media, mSize, buffers>>
  BY DEF FlushBuffersFail, FlushDone, Finish
<1>2. Abstract!Settle /\ reqOf' = Abstract!Idle /\ reqOf.fn = call.fn
  BY <1>1, SameSettles, ReqIdle, ReqFlush
<1> QED
  BY <1>1, <1>2 DEF Abstract!Sync, Abstract!AllocateBuffers

\* flushBuffers() && raw_sync().
LEMMA SyncRefines ==
  ASSUME Inv, FlushProgress, Sync
  PROVE  Abstract!Sync
<1>1. /\ FlushDone("sync") /\ call.res /\ call.fn = "sync" /\ call' = NoCall
      /\ disk' = disk /\ mSize' = mSize /\ buffers' = buffers
      /\ \/ media' = disk /\ ret' = "true"
         \/ media' = media /\ ret' = "false"
  BY DEF Sync, FlushDone, Finish
<1>2. reqOf.fn = "sync" /\ reqOf' = Abstract!Idle
  BY <1>1, ReqIdle, ReqFlush
<1>3. ASSUME NEW s \in Sector, NEW o \in Offset
      PROVE  /\ SettlesAt(s, o)
             /\ ret' = "true" => mayAt(s, o)' \subseteq viewAt(s, o)'
  <2>1. viewAt(s, o)' = viewAt(s, o)
    BY <1>1 DEF viewAt, Cached, get
  <2>2. mayAt(s, o)' \subseteq mayAt(s, o)
    BY <1>1, <2>1 DEF mayAt
  <2>3. disk[s][o] \in viewAt(s, o)
    <3>1. CASE ~Cached(s)
      BY <3>1 DEF viewAt
    <3>2. CASE Cached(s)
      <4>1. mSize \in Nat /\ mSize # 0 /\ s \in Nat
        BY <3>2, DeviceAssumption DEF Inv, TypeOK, Cached, Sector
      <4>2. get(s) \in 0 .. mSize - 1
        BY <4>1, ModRange DEF get
      <4>3. ~buffers[get(s)].dirty
        BY <1>1, <4>2, AllClean
      <4> QED
        BY <3>2, <4>3 DEF viewAt
    <3> QED
      BY <3>1, <3>2
  <2>4. ret' = "true" => mayAt(s, o)' \subseteq viewAt(s, o)'
    BY <1>1, <2>1, <2>3 DEF mayAt
  <2> QED
    BY <2>1, <2>2, <2>4, ViewNonEmpty DEF SettlesAt
<1>4. Abstract!Settle
  BY <1>3, SettleAll
<1>5. ret' = "true" => \A a \in 0 .. DeviceSize - 1 : mayOf(a)' \subseteq viewOf(a)'
  BY <1>3, AddrSplit DEF mayOf, viewOf
<1>6. ret' = "true" => \A a \in Abstract!Addr :
        [b \in 0 .. DeviceSize - 1 |-> mayOf(b)]'[a] \subseteq
          [b \in 0 .. DeviceSize - 1 |-> viewOf(b)]'[a]
  BY <1>5 DEF Abstract!Addr
<1> QED
  BY <1>1, <1>2, <1>4, <1>6 DEF Abstract!Sync

\* A list of unused buffers, or none, in place of buffers that are all clean.
LEMMA AllocateBuffersRefines ==
  ASSUME Addressable, Inv, FlushProgress, AllocateBuffers
  PROVE  Abstract!AllocateBuffers
<1>1. /\ FlushDone("alloc") /\ call.res /\ call.fn = "alloc" /\ disk' = disk /\ media' = media
      /\ call.size \in Nat
  BY DEF AllocateBuffers, FlushDone, Inv, TypeOK, Call
<1>2. PICK m \in IF call.size = 0 THEN {0} ELSE ListSizes(call.size) :
        mSize' = m /\ buffers' = [i \in 0 .. m - 1 |-> Invalidated] /\ Finish(m = call.size)
  BY DEF AllocateBuffers
<1>3. m \in Nat
  BY <1>1 DEF ListSizes
<1>4. ASSUME NEW s \in Sector, NEW o \in Offset
      PROVE  SettlesAt(s, o)
  <2>1. ~Cached(s)'
    <3>1. Invalidated.sector # s /\ s \in Nat
      BY InvalidNotASector, DeviceAssumption DEF Invalidated, Sector
    <3>2. m # 0 => s % m \in 0 .. m - 1
      BY <1>3, <3>1, ModRange
    <3> QED
      BY <1>2, <3>1, <3>2 DEF Cached, get
  <2>2. disk[s][o] \in viewAt(s, o)
    <3>1. CASE ~Cached(s)
      BY <3>1 DEF viewAt
    <3>2. CASE Cached(s)
      <4>1. mSize \in Nat /\ mSize # 0 /\ s \in Nat
        BY <3>2, DeviceAssumption DEF Inv, TypeOK, Cached, Sector
      <4>2. get(s) \in 0 .. mSize - 1
        BY <4>1, ModRange DEF get
      <4>3. ~buffers[get(s)].dirty
        BY <1>1, <4>2, AllClean
      <4> QED
        BY <3>2, <4>3 DEF viewAt
    <3> QED
      BY <3>1, <3>2
  <2>3. viewAt(s, o)' = {disk[s][o]}
    BY <1>1, <2>1 DEF viewAt
  <2> QED
    BY <1>1, <2>2, <2>3 DEF SettlesAt, mayAt
<1>5. call' = NoCall /\ ret' \in {"true", "false"}
  BY <1>2 DEF Finish
<1>6. Abstract!Settle /\ reqOf' = Abstract!Idle /\ reqOf.fn = "alloc"
  BY <1>1, <1>4, <1>5, SettleAll, ReqIdle, ReqFlush
<1> QED
  BY <1>5, <1>6 DEF Abstract!AllocateBuffers

\* The memory is lost, and with it the buffers: what is found is on the device,
\* or on the medium after a power loss.
LEMMA ResetRefines ==
  ASSUME Crash \/ Reopen
  PROVE  Abstract!Reset
<1>1. /\ mSize' = 0 /\ call' = NoCall /\ ret' = "reset" /\ media' = media
      /\ disk' = media \/ disk' = disk
  BY DEF Crash, Reopen, DropBuffers
<1>2. \A s, o : /\ viewAt(s, o)' = {disk'[s][o]}
                /\ mayAt(s, o)' = {disk'[s][o], media[s][o]}
                /\ disk'[s][o] \in mayAt(s, o) /\ media[s][o] \in mayAt(s, o)
  BY <1>1 DEF viewAt, mayAt, Cached
<1>3. ASSUME NEW a \in 0 .. DeviceSize - 1
      PROVE  \E v \in mayOf(a) : viewOf(a)' = {v} /\ mayOf(a)' \subseteq mayOf(a)
  <2>1. disk'[a \div SectorSize][a % SectorSize] \in mayOf(a)
    BY <1>2 DEF mayOf
  <2>2. viewOf(a)' = {disk'[a \div SectorSize][a % SectorSize]}
    BY <1>2 DEF viewOf
  <2>3. mayOf(a)' \subseteq mayOf(a)
    BY <1>2 DEF mayOf
  <2> QED
    BY <2>1, <2>2, <2>3
<1>4. reqOf' = Abstract!Idle
  BY <1>1, ReqIdle
<1> QED
  BY <1>1, <1>3, <1>4 DEF Abstract!Reset, Abstract!Addr

\* The device moves a sector to the medium: a write-back that nobody sees.
LEMMA DestageRefines ==
  ASSUME Inv, NEW s \in Sector, Destage(s)
  PROVE  Abstract!WriteBack
<1>1. /\ media' = [media EXCEPT ![s] = disk[s]] /\ media \in [Sector -> Data]
      /\ UNCHANGED <<disk, mSize, buffers, call, ret>>
  BY DEF Destage, Inv, TypeOK
<1>2. ASSUME NEW t \in Sector, NEW o \in Offset
      PROVE  SettlesAt(t, o)
  <2>1. viewAt(t, o)' = viewAt(t, o)
    BY <1>1 DEF viewAt, Cached, get
  <2>2. media'[t][o] \in {disk[t][o], media[t][o]}
    BY <1>1
  <2>3. mayAt(t, o)' \subseteq mayAt(t, o)
    BY <1>1, <2>1, <2>2 DEF mayAt
  <2> QED
    BY <2>1, <2>3, ViewNonEmpty DEF SettlesAt
<1>3. reqOf' = reqOf
  BY <1>1 DEF reqOf
<1> QED
  BY <1>1, <1>2, <1>3, SettleAll DEF Abstract!WriteBack

(***************************************************************************)
(* The refinement                                                          *)
(***************************************************************************)

\* A call begins: Storage gets a request and nothing else changes.
LEMMA BeginRefines ==
  ASSUME Begin
  PROVE  Abstract!Begin
<1>1. /\ call = NoCall /\ UNCHANGED <<disk, media, mSize, buffers>> /\ ret' = ret
      /\ call'.fn \in {"read", "write", "sync", "alloc"} /\ call'.ptr = 0
  BY DEF Begin, BeginRead, BeginWrite, BeginFlush, Locals
<1>2. reqOf = Abstract!Idle
  BY <1>1, ReqIdle
<1>3. reqOf'.fn # "idle" /\ reqOf'.done = 0
  BY <1>1 DEF reqOf
<1> QED
  BY <1>1, <1>2, <1>3, SameView DEF Abstract!Begin

\* All bytes of a transfer have been moved.
LEMMA ReturnRefines ==
  ASSUME Inv, Return
  PROVE  Abstract!Return
<1>1. /\ call.fn \in {"read", "write"} /\ call.size = 0 /\ call' = NoCall /\ ret' = "true"
      /\ UNCHANGED <<disk, media, mSize, buffers>> /\ call.ptr \in Nat
      /\ DOMAIN call.data = 0 .. call.ptr + call.size - 1
  BY DEF Return, Finish, Inv, TypeOK, Call, TransferInBounds
<1>2. call.ptr \notin DOMAIN call.data
  BY <1>1
<1>3. reqOf.fn = call.fn /\ reqOf.data = call.data /\ reqOf.done = call.ptr
  BY <1>1, ReqTransfer
<1> QED
  BY <1>1, <1>2, <1>3, SameSettles, ReqIdle DEF Abstract!Return, Abstract!Total

\* A fresh device holds the same on the device and the medium, and no buffers.
LEMMA InitRefines == Init => Abstract!Init
<1> SUFFICES ASSUME Init
             PROVE  Abstract!Init
  OBVIOUS
<1>1. /\ disk \in [Sector -> Data] /\ media = disk /\ mSize = 0 /\ call = NoCall /\ ret = "reset"
  BY DEF Init
<1> DEFINE c == [a \in 0 .. DeviceSize - 1 |-> disk[a \div SectorSize][a % SectorSize]]
<1>2. c \in [Abstract!Addr -> Byte]
  <2>1. ASSUME NEW a \in 0 .. DeviceSize - 1
        PROVE  disk[a \div SectorSize][a % SectorSize] \in Byte
    BY <1>1, AddrSplit DEF Data
  <2> QED
    BY <2>1 DEF Abstract!Addr
<1>3. \A a \in 0 .. DeviceSize - 1 : viewOf(a) = {c[a]} /\ mayOf(a) = {c[a]}
  BY <1>1, NoBuffersView DEF viewOf, mayOf
<1> HIDE DEF c
<1>4. /\ [a \in 0 .. DeviceSize - 1 |-> viewOf(a)] = [a \in Abstract!Addr |-> {c[a]}]
      /\ [a \in 0 .. DeviceSize - 1 |-> mayOf(a)] = [a \in Abstract!Addr |-> {c[a]}]
  BY <1>3 DEF Abstract!Addr
<1>5. reqOf = Abstract!Idle
  BY <1>1, ReqIdle
<1> QED
  BY <1>1, <1>2, <1>4, <1>5 DEF Abstract!Init

\* Every step of the device is a step of Storage.
LEMMA StepRefines ==
  ASSUME Addressable, Inv, FlushProgress, Next
  PROVE  Abstract!Next
<1>1. CASE Begin
  BY <1>1, BeginRefines DEF Abstract!Next
<1>2. CASE Erase
  BY <1>2, EraseMisalignedRefines, EraseRangeRefines, EraseFailsRefines DEF Erase, Abstract!Next
<1>3. CASE UnbufferedMisaligned
  <2>1. /\ call.fn \in {"read", "write"} /\ Finish(FALSE)
        /\ UNCHANGED <<disk, media, mSize, buffers>>
    BY <1>3 DEF UnbufferedMisaligned, Transferring
  <2> QED
    BY <2>1, SameSettles, FailRefines DEF Abstract!Next
<1>4. CASE UnbufferedRead \/ UnbufferedWrite
  BY <1>4, UnbufferedReadRefines, UnbufferedWriteRefines DEF Abstract!Next
<1>5. CASE ReadHit \/ ReadMiss
  BY <1>5, ReadHitRefines, ReadMissRefines DEF Abstract!Next
<1>6. CASE WriteHit \/ WriteMissWhole \/ WriteMissPartial
  BY <1>6, WriteHitRefines, WriteMissRefines DEF Abstract!Next
<1>7. CASE FlushFails \/ LoadFails
  BY <1>7, FlushFailsRefines, LoadFailsRefines DEF Abstract!Next
<1>8. CASE Return
  BY <1>8, ReturnRefines DEF Abstract!Next
<1>9. CASE FlushBuffer \/ FlushBuffersFail
  BY <1>9, FlushBufferRefines, FlushBuffersFailRefines DEF Abstract!Next
<1>10. CASE Sync \/ AllocateBuffers
  BY <1>10, SyncRefines, AllocateBuffersRefines DEF Abstract!Next
<1>11. CASE Environment
  BY <1>11, ResetRefines, DestageRefines DEF Environment, Abstract!Next
<1> QED
  BY <1>1, <1>2, <1>3, <1>4, <1>5, <1>6, <1>7, <1>8, <1>9, <1>10, <1>11 DEF Next, Step

\* A device that does not change looks the same.
LEMMA StutterRefines ==
  ASSUME UNCHANGED vars
  PROVE  UNCHANGED <<[a \in 0 .. DeviceSize - 1 |-> viewOf(a)],
                     [a \in 0 .. DeviceSize - 1 |-> mayOf(a)], reqOf, ret>>
<1>1. UNCHANGED <<disk, media, mSize, buffers>> /\ call' = call /\ ret' = ret
  BY DEF vars
<1>2. reqOf' = reqOf
  BY <1>1 DEF reqOf
<1> QED
  BY <1>1, <1>2, SameView

\* Through evictions, failed and torn raw calls, changes of the number of buffers
\* and power loss, a BlockDevice is the byte store of module Storage: a read
\* returns the last write, and after a successful sync so does a power loss.
THEOREM DeviceImplementsStorage ==
  ASSUME Addressable
  PROVE  Spec => ImplementsStorage
<1>1. Init => Abstract!Init
  BY InitRefines
<1>2. Inv /\ FlushProgress /\ [Next]_vars =>
        [Abstract!Next]_<<[a \in 0 .. DeviceSize - 1 |-> viewOf(a)],
                          [a \in 0 .. DeviceSize - 1 |-> mayOf(a)], reqOf, ret>>
  BY StepRefines, StutterRefines
<1> QED
  BY <1>1, <1>2, InvHolds, FlushProgressHolds, PTL DEF Spec, ImplementsStorage, Abstract!Spec

(***************************************************************************)
(* Calls end                                                               *)
(***************************************************************************)

\* Steps that the call in progress can still make: a chunk has at least one byte, and
\* flushBuffers looks at each buffer once.
Left ==
  IF call.fn \in {"read", "write"} THEN call.size + 1
  ELSE IF call.fn \in {"sync", "alloc"} THEN mSize - call.ptr + 1 ELSE 0

LEMMA LeftType ==
  ASSUME Inv, FlushProgress
  PROVE  Left \in Nat /\ (call.fn \in {"read", "write", "sync", "alloc"} => Left > 0)
<1>1. call.size \in Nat /\ call.ptr \in Nat /\ mSize \in Nat
  BY DEF Inv, TypeOK, Call
<1>2. call.fn \in {"sync", "alloc"} => call.ptr <= mSize
  BY DEF FlushProgress
<1> QED
  BY <1>1, <1>2 DEF Left

LEMMA FinishLeft ==
  ASSUME Inv, FlushProgress, call' = NoCall
  PROVE  /\ Left' <= Left
         /\ call.fn \in {"read", "write", "sync", "alloc"} => Left' < Left
<1>1. Left' = 0
  BY NoCallType DEF Left
<1> QED
  BY <1>1, LeftType

LEMMA ChunkLeft ==
  ASSUME Inv, Transferring("read") \/ Transferring("write"), NEW data, NextChunk(data)
  PROVE  Left' < Left
<1>1. call \in Call /\ call.size \in Nat \ {0} /\ call.fn \in {"read", "write"}
  BY DEF Inv, TypeOK, Call, Transferring
<1>2. ChunkSize \in 1 .. call.size
  BY <1>1, ChunkInBounds
<1>3. call'.fn = call.fn /\ call'.size = call.size - ChunkSize
  BY <1>1 DEF NextChunk, Call
<1> QED
  BY <1>1, <1>2, <1>3 DEF Left

LEMMA StepLeft ==
  ASSUME Inv, FlushProgress, Step
  PROVE  Left' < Left
<1>1. call \in Call /\ call.size \in Nat /\ call.ptr \in Nat /\ mSize \in Nat
  BY DEF Inv, TypeOK, Call
<1>2. CASE call' = NoCall
  <2>1. call.fn \in {"read", "write", "sync", "alloc"}
    BY DEF Step, UnbufferedMisaligned, UnbufferedRead, UnbufferedWrite, ReadHit, ReadMiss, WriteHit,
           WriteMissWhole, WriteMissPartial, FlushFails, LoadFails, Return, FlushBuffer,
           FlushBuffersFail, Sync, AllocateBuffers, Buffered, Transferring, Flushing, FlushDone
  <2> QED
    BY <1>2, <2>1, FinishLeft
<1>3. CASE ReadHit \/ ReadMiss \/ WriteHit \/ WriteMissWhole \/ WriteMissPartial
  <2>1. Transferring("read") \/ Transferring("write")
    BY <1>3 DEF ReadHit, ReadMiss, WriteHit, WriteMissWhole, WriteMissPartial, Buffered
  <2>2. \E data : NextChunk(data)
    BY <1>3 DEF ReadHit, ReadMiss, WriteHit, WriteMissWhole, WriteMissPartial
  <2> QED
    BY <2>1, <2>2, ChunkLeft
<1>4. CASE (UnbufferedRead \/ UnbufferedWrite) /\ call' # NoCall
  <2>1. call.fn \in {"read", "write"} /\ call.size # 0
    BY <1>4 DEF UnbufferedRead, UnbufferedWrite, Transferring
  <2>2. call'.fn = call.fn /\ call'.size = 0
    BY <1>1, <1>4 DEF UnbufferedRead, UnbufferedWrite, Finish, Call
  <2> QED
    BY <1>1, <2>1, <2>2 DEF Left
<1>5. CASE FlushBuffer
  <2>1. call.fn \in {"sync", "alloc"} /\ mSize' = mSize
    BY <1>5 DEF FlushBuffer, Flushing
  <2>2. call'.fn = call.fn /\ call'.ptr = call.ptr + 1
    BY <1>1, <1>5 DEF FlushBuffer, Call
  <2> QED
    BY <1>1, <2>1, <2>2 DEF Left
<1>6. UnbufferedMisaligned \/ FlushFails \/ LoadFails \/ Return \/ FlushBuffersFail \/ Sync
        \/ AllocateBuffers => call' = NoCall
  BY DEF UnbufferedMisaligned, FlushFails, LoadFails, Return, FlushBuffersFail, Sync,
         AllocateBuffers, Finish
<1> QED
  BY <1>2, <1>3, <1>4, <1>5, <1>6 DEF Step

\* No call runs for ever, for any numbers of sectors and buffers and whatever fails: each
\* step of a call lowers a natural number, and nothing that the device does meanwhile
\* raises it.
THEOREM CallsEnd ==
  ASSUME Addressable
  PROVE  Spec => /\ [](Left \in Nat)
                 /\ [][/\ Step => Left' < Left
                       /\ call # NoCall => Left' <= Left]_vars
<1>1. Inv /\ FlushProgress => Left \in Nat
  BY LeftType
<1>2. Inv /\ FlushProgress /\ Inv' /\ FlushProgress' /\ [Next]_vars =>
        [/\ Step => Left' < Left
         /\ call # NoCall => Left' <= Left]_vars
  <2> SUFFICES ASSUME Inv, FlushProgress, Inv', FlushProgress', Next
               PROVE  /\ Step => Left' < Left
                      /\ call # NoCall => Left' <= Left
    OBVIOUS
  <2>1. Step => Left' < Left
    BY StepLeft
  <2>2. Left \in Nat /\ Left' \in Nat
    <3>1. call'.size \in Nat /\ call'.ptr \in Nat /\ mSize' \in Nat
      BY DEF Inv, TypeOK, Call
    <3>2. call'.fn \in {"sync", "alloc"} => call'.ptr <= mSize'
      BY DEF FlushProgress
    <3> QED
      BY <3>1, <3>2, LeftType DEF Left
  <2>3. ASSUME call # NoCall, ~Step
        PROVE  Left' <= Left
    <3>1. Crash \/ \E s \in Sector : Destage(s)
      BY <2>3 DEF Next, Begin, BeginRead, BeginWrite, BeginFlush, Erase, EraseMisaligned,
                  EraseRange, EraseFails, Environment, Reopen
    <3>2. CASE Crash
      BY <3>2, FinishLeft DEF Crash, DropBuffers
    <3>3. CASE \E s \in Sector : Destage(s)
      <4>1. Left' = Left
        BY <3>3 DEF Destage, Left
      <4> QED
        BY <2>2, <4>1
    <3> QED
      BY <3>1, <3>2, <3>3
  <2> QED
    BY <2>1, <2>2, <2>3
<1> QED
  BY <1>1, <1>2, InvHolds, FlushProgressHolds, PTL DEF Spec
==============================================================================
