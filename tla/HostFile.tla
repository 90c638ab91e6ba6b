------------------------------ MODULE HostFile ------------------------------
(***************************************************************************)
(* The constructors of HostFileDevice: a device is made of a file, which   *)
(* is created or given another length, or which is taken as it is.         *)
(***************************************************************************)
EXTENDS Integers, Sequences

CONSTANTS
  sectorSize,  \* bytes in a sector
  Size32       \* the largest size that a 32-bit storage_size_t can hold

ASSUME HostFileAssumption == sectorSize \in Nat \ {0} /\ Size32 \in Nat

NoFile == [exists |-> FALSE, bytes |-> <<>>]
File(bytes) == [exists |-> TRUE, bytes |-> bytes]

\* A device without a file has no sectors, so that no request is in its range.
NoDevice == [open |-> FALSE, sectorCount |-> 0, buffers |-> 0]

\* Mutant of DeviceOf: a last sector that is not complete counts.
DeviceOfAll(size) ==
  [open |-> TRUE, sectorCount |-> (size + (sectorSize - 1)) \div sectorSize, buffers |-> 4]

DeviceOf(size) == [open |-> TRUE, sectorCount |-> size \div sectorSize, buffers |-> 4]

\* ftruncate64: what the file had up to its new end stays, what is new is 0.
ftruncate(f, n) == File([k \in 1 .. n |-> IF k \in DOMAIN f.bytes THEN f.bytes[k] ELSE 0])

\* The file is deleted when it cannot be given its length, also if it was there
\* before.
Create(f, size, opens, truncates) ==
  LET dev == DeviceOf(size) IN
  IF ~opens THEN [file |-> f, device |-> NoDevice]
  ELSE IF truncates THEN [file |-> ftruncate(f, dev.sectorCount * sectorSize), device |-> dev]
  ELSE [file |-> NoFile, device |-> [dev EXCEPT !.open = FALSE, !.sectorCount = 0]]

\* size64 is ENABLE_STORAGE_SIZE64.  lseek64, whose result is taken for the length
\* unchecked, does not fail for a file that could be opened, if it is a regular one.
OpenExisting(f, size64) ==
  IF f.exists /\ (Len(f.bytes) > Size32 => size64) THEN DeviceOf(Len(f.bytes)) ELSE NoDevice

\* A read succeeds if it gets as many bytes as it asked for.
raw_sector_read(f, address, size) ==
  f.exists /\ (address + size) * sectorSize <= Len(f.bytes)
==============================================================================
