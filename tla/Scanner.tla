------------------------------- MODULE Scanner -------------------------------
(***************************************************************************)
(* scanPartitions and the Scanner it runs: one action per sector that      *)
(* Scanner::next reads or per entry that it looks at.  Any read may fail.  *)
(***************************************************************************)
EXTENDS Disk, FiniteSets

VARIABLES
  scan,     \* the Scanner: its state and where it is
  scanned   \* what the last scanPartitions returned, while it is about this disk

\* mbrPartID is a uint16_t.
Word16 == 65536

\* pc is the sector or entry that next() looks at next; state "idle" to "done" are
\* Scanner::State.  fault is history: a read or an allocation has failed.
NotScanning ==
  [pc |-> "idle", state |-> "idle", sector |-> 0, partitionIndex |-> 0, numPartitionEntries |-> 0,
   mbrEntries |-> <<>>, buffer |-> <<>>, mbrPartID |-> 0, fault |-> FALSE]

NotScanned == [ok |-> FALSE, fault |-> FALSE, state |-> "none"]

\* The caller's loop ends: next() has returned null.  bool(scanner)
ScanEnds(state, fault) ==
  /\ scan' = NotScanning
  /\ scanned' = [ok |-> state # "error", fault |-> fault, state |-> state]

BeginScan ==
  /\ scan = NotScanning
  /\ partitions' = {}
  /\ scan' = [scan EXCEPT !.pc = "sector0"]
  /\ scanned' = NotScanned
  /\ UNCHANGED device

(***************************************************************************)
(* Partition tables                                                        *)
(***************************************************************************)

\* scanMbrEntries: the used records in their order, moved by baseLba.  The code does
\* not look for a signature; a sector that is no MBR has no records here.
RecordsOf(c) == IF c.kind = "mbr" THEN c.records ELSE <<>>
UsedRecords(c) ==
  {n \in DOMAIN RecordsOf(c) : RecordsOf(c)[n].starting_lba # 0 /\ RecordsOf(c)[n].size_in_lba # 0}
scanMbrEntries(c, baseLba) ==
  LET used == UsedRecords(c)
      nth(k) == CHOOSE n \in used : Cardinality({m \in used : m <= n}) = k
  IN [k \in 1 .. Cardinality(used) |->
        [RecordsOf(c)[nth(k)] EXCEPT !.starting_lba = (@ + baseLba) % Word32]]

EntriesOf(c) == IF c.kind = "entries" THEN c.e ELSE [n \in 1 .. entriesPerSector |-> NoEntry]

\* identify: the volume in a partition, or PartInfo without a type and with this
\* size.  The size of a FAT volume is computed in 32 bits, that of an exFAT volume
\* in 64.
Identified(c, guid, sysind, id, offset, size) ==
  IF c.kind # "boot" THEN PartInfo(NoType, "unknown", guid, sysind, id, offset, size)
  ELSE LET bytes == c.sectors * sectorSize IN
       PartInfo("fat", c.systype, guid, sysind, id, offset,
                IF c.systype = "exfat" THEN bytes ELSE bytes % Word32)

\* The shifts of an MBR record's fields are done in 32 bits, those of a GPT
\* entry's in 64.  The indicator decides about the volume type, also against what
\* the boot sector says.
MbrPart(rec, c, id) ==
  LET part == Identified(c, NoGuid, rec.os_type, id, (rec.starting_lba * sectorSize) % Word32,
                         (rec.size_in_lba * sectorSize) % Word32)
      systype == getSysTypeFromIndicator(rec.os_type)
  IN [part EXCEPT !.systype = systype,
                  !.type = IF @ = NoType /\ systype \in fatTypes THEN "fat" ELSE @]

\* Mutant of GptPart: ending_lba is taken for the sector after the last.
GptPartShort(entry, c) ==
  LET guid == entry.partition_type_guid
      offset == entry.starting_lba * sectorSize
      size == (entry.ending_lba - entry.starting_lba) * sectorSize
  IN IF match(guid) # NoType THEN PartInfo(match(guid), "unknown", guid, "none", entry.id, offset, size)
                             ELSE Identified(c, guid, "none", entry.id, offset, size)

GptPart(entry, c) ==
  LET guid == entry.partition_type_guid
      offset == entry.starting_lba * sectorSize
      size == (1 + entry.ending_lba - entry.starting_lba) * sectorSize
  IN IF match(guid) # NoType THEN PartInfo(match(guid), "unknown", guid, "none", entry.id, offset, size)
                             ELSE Identified(c, guid, "none", entry.id, offset, size)

(***************************************************************************)
(* Actions                                                                 *)
(***************************************************************************)

\* READ_SECTORS, or the allocation of entryBuffer, fails where that ends the scan.
ReadFails ==
  /\ scan.pc \in {"sector0", "header", "entries"}
  /\ ScanEnds("error", TRUE)
  /\ UNCHANGED <<device, partitions>>

\* There is no memory for the buffer: the state stays idle.
NoBuffer ==
  /\ scan.pc = "sector0"
  /\ ScanEnds("idle", TRUE)
  /\ UNCHANGED <<device, partitions>>

\* A volume without a partition table, or no table at all: with no signature the
\* state stays idle, and the scan counts as successful.
LoadSector0 ==
  /\ scan.pc = "sector0"
  /\ ~IsProtective(view[0])
  /\ \/ /\ view[0].kind = "boot"
        /\ partitions' = {Identified(view[0], NoGuid, "none", 0, 0, 0)}
        /\ ScanEnds("done", FALSE)
     \/ /\ view[0].kind \notin {"boot", "mbr"}
        /\ ScanEnds("idle", FALSE)
        /\ UNCHANGED partitions
     \/ /\ view[0].kind = "mbr"
        /\ LET entries == scanMbrEntries(view[0], 0) IN
           scan' = [scan EXCEPT !.pc = "record", !.state = "MBR", !.mbrEntries = entries,
                                !.numPartitionEntries = Len(entries)]
        /\ UNCHANGED <<partitions, scanned>>
  /\ UNCHANGED device

FoundProtective ==
  /\ scan.pc = "sector0"
  /\ IsProtective(view[0])
  /\ scan' = [scan EXCEPT !.pc = "header"]
  /\ UNCHANGED <<device, partitions, scanned>>

\* The signature, the sizes and the checksum are right in what is a header here.
verifyGptHeader(c) == c.kind = "header" /\ c.num_partition_entries <= GPT_ITEMS

LoadHeader ==
  /\ scan.pc = "header"
  /\ IF verifyGptHeader(view[1])
       THEN /\ scan' = [scan EXCEPT !.pc = "entries", !.state = "GPT",
                                    !.sector = view[1].partition_entry_lba,
                                    !.numPartitionEntries = view[1].num_partition_entries]
            /\ UNCHANGED scanned
       ELSE ScanEnds("error", FALSE)
  /\ UNCHANGED <<device, partitions>>

More == scan.partitionIndex < scan.numPartitionEntries

LoadEntries ==
  /\ scan.pc = "entries" /\ More
  /\ scan' = [scan EXCEPT !.pc = "entry", !.sector = @ + 1, !.buffer = EntriesOf(view[scan.sector])]
  /\ UNCHANGED <<device, partitions, scanned>>

\* One entry of the table.  A partition whose first sector cannot be read is
\* skipped.
TakeEntry ==
  /\ scan.pc = "entry" /\ More
  /\ LET entry == scan.buffer[(scan.partitionIndex % entriesPerSector) + 1]
         next == scan.partitionIndex + 1
         go(fault) == scan' = [scan EXCEPT !.partitionIndex = next, !.fault = @ \/ fault,
                                 !.pc = IF next % entriesPerSector = 0 THEN "entries" ELSE "entry"]
     IN \/ entry.partition_type_guid = NoGuid /\ go(FALSE) /\ UNCHANGED partitions
        \/ /\ entry.partition_type_guid # NoGuid
           /\ go(FALSE)
           /\ partitions' = partitions \cup {GptPart(entry, view[entry.starting_lba])}
        \/ /\ entry.partition_type_guid # NoGuid /\ match(entry.partition_type_guid) = NoType
           /\ go(TRUE)
           /\ UNCHANGED partitions
  /\ UNCHANGED <<device, scanned>>

\* Mutant of TakeRecord: a failed read is not noticed, and what the buffer held before
\* is taken for the sector.
TakeRecordStale ==
  /\ scan.pc = "record" /\ More
  /\ LET next == scan.partitionIndex + 1
         rec == scan.mbrEntries[next]
         last == IF next = 1 THEN 0 ELSE scan.mbrEntries[next - 1].starting_lba
     IN \E s \in {last, rec.starting_lba} \cap Sector :
          \/ /\ rec.os_type = "extended"
             /\ LET entries == scanMbrEntries(view[s], rec.starting_lba) IN
                scan' = [scan EXCEPT !.partitionIndex = 0, !.mbrEntries = entries,
                                     !.numPartitionEntries = Len(entries)]
             /\ UNCHANGED partitions
          \/ /\ rec.os_type # "extended"
             /\ scan' = [scan EXCEPT !.partitionIndex = next, !.mbrPartID = (@ + 1) % Word16]
             /\ partitions' = partitions \cup {MbrPart(rec, view[s], scan.mbrPartID + 1)}
  /\ UNCHANGED <<device, scanned>>

\* One MBR record, skipped if its first sector cannot be read.  The records of an
\* extended partition replace those of the table that it is in.
TakeRecord ==
  /\ scan.pc = "record" /\ More
  /\ LET next == scan.partitionIndex + 1
         rec == scan.mbrEntries[next]
         id == (scan.mbrPartID + 1) % Word16
     IN \/ /\ scan' = [scan EXCEPT !.partitionIndex = next, !.fault = TRUE]
           /\ UNCHANGED partitions
        \/ /\ rec.starting_lba \in Sector /\ rec.os_type = "extended"
           /\ LET entries == scanMbrEntries(view[rec.starting_lba], rec.starting_lba) IN
              scan' = [scan EXCEPT !.partitionIndex = 0, !.mbrEntries = entries,
                                   !.numPartitionEntries = Len(entries)]
           /\ UNCHANGED partitions
        \/ /\ rec.starting_lba \in Sector /\ rec.os_type # "extended"
           /\ scan' = [scan EXCEPT !.partitionIndex = next, !.mbrPartID = id]
           /\ partitions' = partitions \cup {MbrPart(rec, view[rec.starting_lba], id)}
  /\ UNCHANGED <<device, scanned>>

ScanDone ==
  /\ scan.pc \in {"entries", "entry", "record"} /\ ~More
  /\ ScanEnds("done", scan.fault)
  /\ UNCHANGED <<device, partitions>>

ScanStep ==
  \/ ReadFails \/ NoBuffer \/ LoadSector0 \/ FoundProtective \/ LoadHeader \/ LoadEntries
  \/ TakeEntry \/ TakeRecord \/ ScanDone
==============================================================================
