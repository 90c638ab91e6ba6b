------------------------------- MODULE Format -------------------------------
(***************************************************************************)
(* formatDisk, for GPT and for MBR: one action per call of device.write or *)
(* device.sync, any of which may fail.                                     *)
(***************************************************************************)
EXTENDS Disk

CONSTANT partAlignSectors  \* PARTITION_ALIGN in sectors

ASSUME FormatAssumption == partAlignSectors \in Nat \ {0}

VARIABLES
  fmt,    \* the call in progress: where it is, its table, the sector of entries
  error   \* what the last call returned

NotFormatting == [pc |-> "idle", table |-> <<>>, k |-> 0]

(***************************************************************************)
(* Layout of a GPT disk                                                    *)
(***************************************************************************)

align_up(value, align) == value + ((0 - value) % align)

numPartitionTableSectors == GPT_ITEMS \div entriesPerSector
backupPartitionTableSector == driveSectors - numPartitionTableSectors - 1
firstAllocatableSector == align_up(2 + numPartitionTableSectors, partAlignSectors)

\* entry, for partition p of the table
Entry(p) ==
  [partition_type_guid |-> p.typeGuid, id |-> p.id, starting_lba |-> p.offset \div sectorSize,
   ending_lba |-> ((p.offset + p.size) \div sectorSize) - 1]

\* All entries: partitions beyond GPT_ITEMS have none.
EntryArray(table) ==
  [n \in 1 .. GPT_ITEMS |-> IF n \in DOMAIN table THEN Entry(table[n]) ELSE NoEntry]

\* Mutant of EntrySector: the entries of the first sector are written everywhere.
EntrySectorFirst(table, k) == Entries(SubSeq(EntryArray(table), 1, entriesPerSector))

EntrySector(table, k) ==
  Entries(SubSeq(EntryArray(table), k * entriesPerSector + 1, (k + 1) * entriesPerSector))

\* header.  It is built in the buffer that holds the last sector of entries, whose
\* bytes remain behind it.  header_size says that they are not part of it, and a scan
\* reads no more than header_size says: see HeadersVerified of module Checks.
GptHeader(table, my, alternate, entryLba) ==
  Header(my, alternate, entryLba, GPT_ITEMS, EntryArray(table))

ProtectiveMbr ==
  Mbr(<<Record("gpt", 1, IF driveSectors <= Word32 THEN driveSectors - 1 ELSE Word32 - 1),
        NoRecord, NoRecord, NoRecord>>)

\* mbr.partition_record, for MBR.
MbrTable(table) ==
  Mbr([n \in 1 .. 4 |->
        IF n \in DOMAIN table
          THEN Record(table[n].sysind, table[n].offset \div sectorSize, table[n].size \div sectorSize)
          ELSE NoRecord])

(***************************************************************************)
(* Actions                                                                 *)
(***************************************************************************)

\* formatDisk itself or validate refuses the table, or there is no memory for the
\* buffer: nothing is written.  "Refused" is BadParam, NoMem, or validate's error.
Refuse ==
  /\ fmt = NotFormatting
  /\ error' = "Refused"
  /\ UNCHANGED <<device, partitions, fmt>>

\* A table that validate has accepted.
BeginFormat(scheme, table) ==
  /\ fmt = NotFormatting
  /\ fmt' = [pc |-> IF scheme = "gpt" THEN "entries" ELSE "mbr", table |-> table, k |-> 0]
  /\ UNCHANGED <<device, partitions, error>>

\* device.write(s, c), after which the call goes on at pc; a write that fails may
\* have been made.
WriteSector(s, c, pc, k) ==
  /\ \/ Write(s, c) /\ fmt' = [fmt EXCEPT !.pc = pc, !.k = k] /\ UNCHANGED error
     \/ Write(s, c) /\ fmt' = NotFormatting /\ error' = "WriteFailure"
     \/ UNCHANGED device /\ fmt' = NotFormatting /\ error' = "WriteFailure"
  /\ UNCHANGED partitions

WriteEntries ==
  /\ fmt.pc = "entries"
  /\ WriteSector(2 + fmt.k, EntrySector(fmt.table, fmt.k), "copy", fmt.k)

\* Mutant of MoreEntries: the loop runs once too often.
MoreEntriesInclusive == fmt.k < numPartitionTableSectors

MoreEntries == fmt.k + 1 < numPartitionTableSectors

\* Mutant of WriteEntriesCopy: the copy is placed a sector too early.
WriteEntriesCopyEarly ==
  /\ fmt.pc = "copy"
  /\ WriteSector(backupPartitionTableSector - 1 + fmt.k, EntrySector(fmt.table, fmt.k),
                 IF MoreEntries THEN "entries" ELSE "header", fmt.k + 1)

\* Mutant of WriteEntriesCopy: the loop does not go on to the next sector.
WriteEntriesCopyAgain ==
  /\ fmt.pc = "copy"
  /\ WriteSector(backupPartitionTableSector + fmt.k, EntrySector(fmt.table, fmt.k),
                 IF MoreEntries THEN "entries" ELSE "header", fmt.k)

WriteEntriesCopy ==
  /\ fmt.pc = "copy"
  /\ WriteSector(backupPartitionTableSector + fmt.k, EntrySector(fmt.table, fmt.k),
                 IF MoreEntries THEN "entries" ELSE "header", fmt.k + 1)

WriteHeader ==
  /\ fmt.pc = "header"
  /\ WriteSector(1, GptHeader(fmt.table, 1, driveSectors - 1, 2), "backup", fmt.k)

\* Mutant of WriteHeaderCopy: partition_entry_lba is that of the primary header.
WriteHeaderCopySame ==
  /\ fmt.pc = "backup"
  /\ WriteSector(driveSectors - 1, GptHeader(fmt.table, driveSectors - 1, 1, 2), "pmbr", fmt.k)

WriteHeaderCopy ==
  /\ fmt.pc = "backup"
  /\ WriteSector(driveSectors - 1,
                 GptHeader(fmt.table, driveSectors - 1, 1, backupPartitionTableSector),
                 "pmbr", fmt.k)

WriteProtectiveMbr == fmt.pc = "pmbr" /\ WriteSector(0, ProtectiveMbr, "sync", fmt.k)

WriteMbr == fmt.pc = "mbr" /\ WriteSector(0, MbrTable(fmt.table), "sync", fmt.k)

\* Mutant of SyncDisk: the application may leave it to the device to write back.
SyncDiskNot ==
  /\ fmt.pc = "sync"
  /\ error' = "Success" /\ partitions' = {fmt.table[n] : n \in DOMAIN fmt.table}
  /\ UNCHANGED device
  /\ fmt' = NotFormatting

\* The partitions of the device are replaced only after a successful sync.
SyncDisk ==
  /\ fmt.pc = "sync"
  /\ \/ /\ Sync /\ error' = "Success"
        /\ partitions' = {fmt.table[n] : n \in DOMAIN fmt.table}
     \/ UNCHANGED <<device, partitions>> /\ error' = "WriteFailure"
  /\ fmt' = NotFormatting

FormatStep ==
  \/ WriteEntries \/ WriteEntriesCopy \/ WriteHeader \/ WriteHeaderCopy
  \/ WriteProtectiveMbr \/ WriteMbr \/ SyncDisk
==============================================================================
