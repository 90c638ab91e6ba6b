--------------------------- MODULE ReadableDisks ---------------------------
(***************************************************************************)
(* Which disks the scanner reads completely: conditions on the constants   *)
(* of DiskStorage under which RoundTrip holds.                             *)
(***************************************************************************)
EXTENDS DiskStorage

\* What mbr_wide_disk and mbr_extended_first show to be needed of formatDisk's own
\* tables: the scanner can count the bytes of the disk in 32 bits, and no partition is
\* an extended one.  Every partition has an indicator: "none" is what the model gives
\* to a volume without a partition table.
MbrReadable ==
  /\ driveSectors * sectorSize <= Word32
  /\ \A t \in Tables :
       t.scheme = "mbr" => \A n \in DOMAIN t.table : t.table[n].sysind \notin {"extended", "none"}

(***************************************************************************)
(* Disks of other tools                                                    *)
(***************************************************************************)

StartOf(p) == p.offset \div sectorSize

\* Where an application may write to the disk, as far as DiskStorage is concerned.
FirstSectors(d) ==
  {StartOf(d.partitions[n]) : n \in {m \in DOMAIN d.partitions : d.partitions[m].offset # 0}}

\* No partition table, or a volume instead of one.
NoTable(d) == d.view[0].kind \notin {"boot", "mbr"} /\ d.partitions = <<>>
OneVolume(d) ==
  /\ d.view[0].kind = "boot" /\ Len(d.partitions) = 1
  /\ LET p == d.partitions[1] IN p = PartInfo(p.type, p.systype, NoGuid, "none", 0, 0, p.size)

\* A GPT of at most GPT_ITEMS entries, in any sectors, used and unused ones in any
\* order.  No partition begins in a sector of it.
EntryLba(d, i) == d.view[1].partition_entry_lba + (i \div entriesPerSector)
Item(d, i) == EntriesOf(d.view[EntryLba(d, i)])[(i % entriesPerSector) + 1]
Items(d) == 0 .. d.view[1].num_partition_entries - 1
UsedItems(d) == {i \in Items(d) : Item(d, i).partition_type_guid # NoGuid}
ForeignGpt(d) ==
  /\ IsProtective(d.view[0]) /\ verifyGptHeader(d.view[1])
  /\ 1 \notin FirstSectors(d)
  /\ d.view[1].partition_entry_lba \in Nat
  /\ \A i \in Items(d) : EntryLba(d, i) \in Sector \ FirstSectors(d)
  /\ \A n \in DOMAIN d.partitions : Added(d.partitions[n], "gpt")
  /\ {Item(d, i) : i \in UsedItems(d)} = {Entry(d.partitions[n]) : n \in DOMAIN d.partitions}

\* An MBR and the tables of extended partitions, each of which is in the last record of
\* the one before.  Table j is in sector at[j], with before[j] partitions in earlier ones;
\* partitions are numbered in the order of their records.  A link counts from the sector
\* of the table that it is in, as the scanner does.
RecordOf(p) == Record(p.sysind, StartOf(p), p.size \div sectorSize)
Chain(d, last, at, before) ==
  /\ at[1] = 0 /\ before[1] = 0
  /\ \A j \in 1 .. last :
       LET records == scanMbrEntries(d.view[at[j]], at[j]) IN
       /\ at[j] \notin FirstSectors(d)
       /\ \A k \in 1 .. Len(records) :
            IF j < last /\ k = Len(records)
              THEN records[k].os_type = "extended" /\ records[k].starting_lba = at[j + 1]
              ELSE /\ before[j] + k \in DOMAIN d.partitions
                   /\ records[k] = RecordOf(d.partitions[before[j] + k])
       /\ IF j < last THEN Len(records) > 0 /\ before[j + 1] = before[j] + Len(records) - 1
                      ELSE before[j] + Len(records) = Len(d.partitions)
ForeignMbr(d) ==
  /\ d.view[0].kind = "mbr" /\ ~IsProtective(d.view[0])
  /\ Len(d.partitions) < Word16
  /\ \A n \in DOMAIN d.partitions :
       LET p == d.partitions[n] IN
       /\ Added(p, "mbr") /\ p.id = n /\ p.sysind \notin {"extended", "none"}
       /\ p.offset < Word32 /\ p.size < Word32
  /\ \E last \in 1 .. driveSectors : \E at \in [1 .. last -> Sector] :
       \E before \in [1 .. last -> 0 .. Len(d.partitions)] : Chain(d, last, at, before)

\* mbr_extended_first has a disk that is none of these.
ReadableDisk(d) ==
  /\ DOMAIN d.partitions = 1 .. Len(d.partitions)
  /\ \A n \in DOMAIN d.partitions : StartOf(d.partitions[n]) \in Sector
  /\ 0 \notin FirstSectors(d)
  /\ NoTable(d) \/ OneVolume(d) \/ ForeignGpt(d) \/ ForeignMbr(d)
ForeignReadable(disks) == \A d \in disks : ReadableDisk(d)
==============================================================================
