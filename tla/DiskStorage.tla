----------------------------- MODULE DiskStorage -----------------------------
(***************************************************************************)
(* An application that partitions a device, scans it, uses its partitions  *)
(* and loses power at any moment: Format and Scanner on one Disk.          *)
(*                                                                         *)
(* The library runs in the application's thread, so calls do not overlap,  *)
(* but each may end early with an error, and what it wrote so far stays.   *)
(***************************************************************************)
EXTENDS Format, Scanner

CONSTANTS
  Disks,   \* the device at first: contents, and the partitions another tool gave it
  Tables,  \* a scheme, and a table that validate has accepted for it
  MaxFormats  \* bound: calls of formatDisk that reach the disk

Schemes == {"gpt", "mbr"}

\* Sectors of a partition.
SectorsOf(p) == p.offset \div sectorSize .. ((p.offset + p.size) \div sectorSize) - 1
DataOf(table) == UNION {SectorsOf(table[n]) : n \in DOMAIN table}

\* validate's result: see SuccessIsSound of module Layout.
Space(scheme) ==
  IF scheme = "gpt" THEN firstAllocatableSector .. backupPartitionTableSector - 1
                    ELSE partAlignSectors .. driveSectors - 1

\* A partition as the tables' add functions make it and as validate places it, at
\* the start of a sector: one of a GPT has a GUID, which is that of its type if it is
\* one of Sming's, and one of an MBR has an indicator.
Added(p, scheme) ==
  /\ p = PartInfo(p.type, p.systype, p.typeGuid, p.sysind, p.id, p.offset, p.size)
  /\ p.offset \in Nat /\ p.size \in Nat /\ p.offset % sectorSize = 0
  /\ scheme = "gpt" =>
       /\ p.typeGuid # NoGuid /\ p.sysind = "none"
       /\ p.typeGuid.base = "sming" => p.type = p.typeGuid.type /\ p.type # NoType
  /\ scheme = "mbr" => p.typeGuid = NoGuid /\ p.sysind # "gpt"

\* A volume whose size identify computes without losing bits.
Counted(c) ==
  c.kind = "boot" => c.sectors \in Nat /\ (c.systype # "exfat" => c.sectors * sectorSize < Word32)

ASSUME DiskStorageAssumption ==
  /\ MaxFormats \in Nat /\ sectorSize < Word32
  /\ \A d \in Disks :
       /\ DOMAIN d.view = Sector
       /\ \A s \in Sector :
            /\ d.view[s].kind = "header" => d.view[s].num_partition_entries \in Nat
            /\ Counted(d.view[s])
  /\ \A t \in Tables :
       /\ t.scheme \in Schemes /\ Len(t.table) > 0 /\ DOMAIN t.table = 1 .. Len(t.table)
       /\ t.scheme = "mbr" => Len(t.table) <= 4
       /\ \A n \in DOMAIN t.table : Added(t.table[n], t.scheme)
       /\ DataOf(t.table) \subseteq Space(t.scheme)
       /\ \A n \in DOMAIN t.table : SectorsOf(t.table[n]) # {}
       /\ \A m, n \in DOMAIN t.table :
            m # n => SectorsOf(t.table[m]) \cap SectorsOf(t.table[n]) = {}

VARIABLES
  formats,  \* history: how many such calls there have been
  written,  \* history: scheme and table that the disk must be holding
  mixed     \* history: entries and headers of different tables may be on the disk

vars == <<view, medium, partitions, fmt, error, scan, scanned, formats, written, mixed>>

None == [scheme |-> "none", table |-> <<>>]

Idle == fmt = NotFormatting /\ scan = NotScanning

Init ==
  /\ \E d \in Disks :
       /\ view = d.view
       /\ written = [scheme |-> "other", table |-> d.partitions]
  /\ medium = view
  /\ partitions = {}
  /\ fmt = NotFormatting /\ error = "Success"
  /\ scan = NotScanning /\ scanned = NotScanned
  /\ formats = 0 /\ mixed = IsProtective(view[0])

(***************************************************************************)
(* The application                                                         *)
(***************************************************************************)

StartFormat ==
  /\ Idle
  /\ formats < MaxFormats /\ formats' = formats + 1
  /\ \E t \in Tables :
       /\ BeginFormat(t.scheme, t.table)
       /\ mixed' = (mixed \/ (t.scheme = "gpt" /\ IsProtective(view[0])))
  /\ written' = None
  /\ scanned' = NotScanned
  /\ UNCHANGED scan

RefuseFormat ==
  /\ Idle
  /\ Refuse
  /\ UNCHANGED <<scan, scanned, formats, written, mixed>>

StartScan ==
  /\ Idle
  /\ BeginScan
  /\ UNCHANGED <<fmt, error, formats, written, mixed>>

\* A partition gets a file system, by an application that does not go on after a
\* failed formatDisk.
UsePartition ==
  /\ Idle /\ written # None
  /\ \E p \in partitions : p.offset # 0 /\ Write(p.offset \div sectorSize, Boot("fat16", 1))
  /\ scanned' = NotScanned
  /\ UNCHANGED <<partitions, fmt, error, scan, formats, written, mixed>>

\* Power loss, in the middle of a call or between calls.
PowerLoss ==
  /\ Reset
  /\ fmt' = NotFormatting
  /\ scan' = NotScanning /\ scanned' = NotScanned
  /\ mixed' = (mixed \/ (written = None /\ medium # view))
  /\ UNCHANGED <<error, formats, written>>

(***************************************************************************)
(* The library                                                             *)
(***************************************************************************)

Formatting ==
  /\ FormatStep
  /\ IF fmt' = NotFormatting /\ error' = "Success"
       THEN /\ \E t \in Tables : t.table = fmt.table /\ written' = t
            /\ mixed' = FALSE
       ELSE UNCHANGED <<written, mixed>>
  /\ UNCHANGED <<scan, scanned, formats>>

Scanning == ScanStep /\ UNCHANGED <<fmt, error, formats, written, mixed>>

\* A flush during a scan is as good as one before it: the scan cannot see it.
WriteBack ==
  /\ scan = NotScanning
  /\ Flush
  /\ UNCHANGED <<fmt, error, scan, scanned, formats, written, mixed>>

Next ==
  \/ StartFormat \/ RefuseFormat \/ StartScan \/ UsePartition \/ PowerLoss
  \/ Formatting \/ Scanning \/ WriteBack

Spec == Init /\ [][Next]_vars

\* The application's thread finishes the call that it is in.
FairSpec == Spec /\ WF_vars(Formatting) /\ WF_vars(Scanning)

(***************************************************************************)
(* Properties                                                              *)
(***************************************************************************)

\* The loops of formatDisk and Scanner stay within the device and their tables.
TypeOK ==
  /\ DOMAIN view = Sector /\ DOMAIN medium = Sector
  /\ fmt.pc \in {"idle", "entries", "copy", "header", "backup", "pmbr", "mbr", "sync"}
  /\ fmt.pc \in {"entries", "copy"} => fmt.k \in 0 .. numPartitionTableSectors - 1
  /\ scan.pc \in {"idle", "sector0", "header", "entries", "entry", "record"}
  /\ scan.partitionIndex \in 0 .. scan.numPartitionEntries
  /\ scan.mbrPartID \in 0 .. Word16 - 1
  /\ formats \in 0 .. MaxFormats /\ mixed \in BOOLEAN

\* What a scan must find: a partition keeps its position, its whole sectors and its
\* GUID or indicator.  A GPT disk also keeps names, and types of Sming that are not
\* fat; it has no place for partitions beyond GPT_ITEMS, which formatDisk drops
\* without an error.  Other partitions are what the volume in them says, or else what
\* their indicator says.
Found(p, scheme, n) ==
  LET c == view[p.offset \div sectorSize]
      sming == p.typeGuid.base = "sming"
      volume == c.kind = "boot" /\ ~sming
      systype == getSysTypeFromIndicator(p.sysind)
  IN [p EXCEPT !.id = IF scheme = "mbr" THEN n ELSE @,
               !.size = IF volume THEN c.sectors * sectorSize ELSE @ - (@ % sectorSize),
               !.type = IF sming THEN @ ELSE IF volume \/ systype # "unknown" THEN "fat" ELSE NoType,
               !.systype = IF volume /\ p.sysind = "none" THEN c.systype ELSE systype]
Expected(w) ==
  {Found(w.table[n], w.scheme, n) :
     n \in {m \in DOMAIN w.table : w.scheme = "gpt" => m <= GPT_ITEMS}}

\* After a successful formatDisk, whatever was on the disk before, whatever the
\* application writes to its partitions, and across power losses, a scan in
\* which no read fails finds exactly the partitions that were asked for.  The
\* same goes for partitions that another tool made.
RoundTrip ==
  scan = NotScanning /\ scanned.state # "none" /\ ~scanned.fault /\ written # None =>
    scanned.ok /\ partitions = Expected(written)

\* An MBR partition is named by a number that counts the partitions found before it.
Unnumbered(p) == IF p.typeGuid = NoGuid THEN [p EXCEPT !.id = 0] ELSE p

\* At every moment of a scan, however many reads have failed, what it has found so far
\* is there: a partition that is skipped leaves no trace in those that follow, except
\* for the numbers that MBR partitions get.
NothingInvented ==
  (scan # NotScanning \/ scanned.state # "none") /\ written # None =>
    {Unnumbered(p) : p \in partitions} \subseteq {Unnumbered(q) : q \in Expected(written)}

\* The entries that a header describes, as the disk holds them.
EntriesAt(lba) ==
  [n \in 1 .. GPT_ITEMS |->
     EntriesOf(view[lba + ((n - 1) \div entriesPerSector)])[((n - 1) % entriesPerSector) + 1]]
Valid(lba) ==
  /\ view[lba].kind = "header"
  /\ view[lba].my_lba = lba
  /\ view[lba].partition_entry_array_crc32 = EntriesAt(view[lba].partition_entry_lba)

\* A disk that says it is a GPT disk is one: both headers are there, point to each
\* other and match their copies of the entries, also while formatDisk is running
\* and after it has failed, unless it was changing a disk that was a GPT disk
\* already or power was lost before its writes reached the disk.
GptConsistent ==
  IsProtective(view[0]) /\ ~mixed =>
    /\ Valid(1) /\ Valid(driveSectors - 1)
    /\ view[1].alternate_lba = driveSectors - 1
    /\ view[driveSectors - 1].alternate_lba = 1
    /\ view[driveSectors - 1].partition_entry_lba # view[1].partition_entry_lba

\* formatDisk leaves the contents of the partitions that it creates alone: made
\* again with the same table, a damaged partition table costs no data.
DataUntouched ==
  [][FormatStep => \A s \in DataOf(fmt.table) : view'[s] = view[s]]_vars

\* Every formatDisk and every scanPartitions returns.
CallsReturn == []<>Idle
==============================================================================
