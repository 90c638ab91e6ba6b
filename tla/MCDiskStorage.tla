---------------------------- MODULE MCDiskStorage ----------------------------
(***************************************************************************)
(* Instances of DiskStorage for TLC: 12 sectors of 2 bytes.  A GPT disk    *)
(* has its entries in sectors 2-3 and 9-10, and partitions in sectors 4-8; *)
(* an MBR disk has partitions in sectors 2-11.                             *)
(***************************************************************************)
EXTENDS ReadableDisks, TLC

Gpt(systype, id, first, sectors) == GptPartition(systype, id, first * sectorSize, sectors * sectorSize)
Sming(type, id, first, sectors) == SmingPartition(type, id, first * sectorSize, sectors * sectorSize)
MbrP(systype, sysind, id, first, sectors) ==
  MbrPartition(systype, sysind, id, first * sectorSize, sectors * sectorSize)

\* The last partition of the GPT ends inside a sector.
MCTables ==
  {[scheme |-> "gpt", table |-> <<Gpt("fat32", 1, 6, 1), Sming("spiffs", 2, 4, 2),
                                  SmingPartition("fat", 3, 7 * sectorSize, 2 * sectorSize + 1)>>],
   [scheme |-> "mbr", table |-> <<MbrP("fat16", "FAT16B", 5, 2, 4), MbrP("unknown", "other", 6, 6, 6)>>]}

\* Two tables for GPT, of which one is longer than the two entries it has in that
\* instance.
MCTwoTables ==
  {[scheme |-> "gpt", table |-> <<Gpt("exfat", 1, 4, 2)>>],
   [scheme |-> "gpt", table |-> <<Sming("spiffs", 2, 4, 2), Gpt("unknown", 3, 6, 2), Gpt("fat12", 4, 8, 1)>>]}

Contents(f) == [s \in Sector |-> IF s \in DOMAIN f THEN f[s] ELSE Blank]

BlankDisk == [view |-> Contents(<<>>), partitions |-> <<>>]

\* One volume, without a partition table.
Floppy == [view |-> Contents(0 :> Boot("fat12", 12)),
           partitions |-> <<MbrP("fat12", "none", 0, 0, 12)>>]

\* A primary partition and an extended one with two logical partitions.
Extended ==
  [view |-> Contents(
     0 :> Mbr(<<Record("FAT32X", 2, 2), Record("extended", 4, 8), NoRecord, NoRecord>>) @@
     2 :> Boot("exfat", 1) @@
     4 :> Mbr(<<Record("IFS", 1, 2), Record("extended", 4, 4), NoRecord, NoRecord>>) @@
     8 :> Mbr(<<Record("other", 1, 3), NoRecord, NoRecord, NoRecord>>)),
   partitions |-> <<MbrP("fat32", "FAT32X", 1, 2, 2), MbrP("exfat", "IFS", 2, 5, 2),
                    MbrP("unknown", "other", 3, 9, 3)>>]

\* A GPT with fewer entries, that are not where formatDisk has them; the last one is
\* beyond the end of the table.
Foreign ==
  [view |-> Contents(
     0 :> Mbr(<<Record("gpt", 1, 11), NoRecord, NoRecord, NoRecord>>) @@
     1 :> Header(1, 11, 3, 3, <<>>) @@
     3 :> Entries(<<Entry(Gpt("fat16", 7, 5, 2)), NoEntry>>) @@
     4 :> Entries(<<Entry(Gpt("exfat", 8, 7, 2)), Entry(Gpt("exfat", 9, 9, 1))>>) @@
     7 :> Boot("exfat", 2)),
   partitions |-> <<Gpt("fat16", 7, 5, 2), Gpt("exfat", 8, 7, 2)>>]

MCDisks == {BlankDisk, Floppy, Extended, Foreign}
MCBlank == {BlankDisk}

\* These disks and tables are such as the proofs are about.
ASSUME MCReadable == Disks = MCDisks => MbrReadable /\ ForeignReadable(Disks)

\* As Extended, with another primary partition behind the extended one.
MCExtendedFirst ==
  {[view |-> Contents(
      0 :> Mbr(<<Record("extended", 4, 4), Record("FAT12", 2, 2), NoRecord, NoRecord>>) @@
      4 :> Mbr(<<Record("FAT12", 1, 3), NoRecord, NoRecord, NoRecord>>)),
    partitions |-> <<MbrP("fat12", "FAT12", 1, 5, 3), MbrP("fat12", "FAT12", 2, 2, 2)>>]}
==============================================================================
