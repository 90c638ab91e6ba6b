--------------------------- MODULE RoundTripProofs ---------------------------
(***************************************************************************)
(* Proofs that a scan finds the partitions that formatDisk or another tool *)
(* has made.                                                               *)
(***************************************************************************)
EXTENDS ReadableDisks, DiskStorageProofs, FiniteSetTheorems

(***************************************************************************)
(* The inductive invariant                                                 *)
(***************************************************************************)

\* The first m partitions of the table, as a scan must find them.
FoundUpTo(table, m) == {Found(table[n], "gpt", n) : n \in {k \in DOMAIN table : k <= m}}

\* A GPT that was written successfully stays: with DiskStorageProofs' invariant this is
\* all that is known of the disk.
Kept == written.scheme = "gpt" => written \in Tables /\ ~mixed /\ IsProtective(view[0])

\* The sizes of volumes are what identify computes.
AllCounted == \A s \in Sector : Counted(view[s]) /\ Counted(medium[s])

\* A scan in which nothing has failed has found all partitions up to where it is, and
\* holds the entries of the sector that it is in.
Progress ==
  written.scheme = "gpt" /\ ~scan.fault =>
    /\ scan.pc \in {"sector0", "header"} => partitions = {}
    /\ scan.pc \in {"entries", "entry"} => partitions = FoundUpTo(written.table, scan.partitionIndex)
    /\ scan.pc = "entry" =>
         scan.buffer = EntrySector(written.table, scan.partitionIndex \div entriesPerSector).e

\* What has been found stays true: whatever changes the disk forgets the scan.
GptFound == written.scheme = "gpt" => RoundTrip

Forgotten == fmt.pc # "idle" => scanned = NotScanned

FoundInv == Inv /\ Kept /\ AllCounted /\ Progress /\ GptFound /\ Forgotten

(***************************************************************************)
(* What the invariant says of a GPT disk                                   *)
(***************************************************************************)

LEMMA GptSettled ==
  ASSUME Inv, Kept, written.scheme = "gpt"
  PROVE  /\ written \in Tables /\ written.table \in TablesFor("gpt") /\ written # None
         /\ HasGpt(view, written.table) /\ HasGpt(medium, written.table)
         /\ Follows(written.table)
         /\ fmt = NotFormatting /\ ~mixed /\ IsProtective(view[0])
<1>1. written \in Tables /\ ~mixed /\ IsProtective(view[0])
  BY DEF Kept
<1>2. written # None
  BY DEF None
<1>3. fmt = NotFormatting
  BY <1>2 DEF Inv, Written
<1>4. /\ written.table \in TablesFor("gpt")
      /\ HasGpt(view, written.table) /\ HasGpt(medium, written.table)
      /\ Follows(written.table)
  BY <1>1, <1>2 DEF Inv, Settled
<1> QED
  BY <1>1, <1>2, <1>3, <1>4

\* Where the scanner looks for entry a it finds the sector that holds it.
LEMMA SectorOfEntry ==
  ASSUME NEW table \in TablesFor("gpt"), HasGpt(view, table), NEW a \in Nat, a < GPT_ITEMS
  PROVE  EntriesOf(view[2 + (a \div entriesPerSector)])
           = EntrySector(table, a \div entriesPerSector).e
<1>1. PICK n \in Nat \ {0}, f \in Nat, B \in Nat, D \in Nat : Places(n, f, B, D)
  BY GptPlaces
<1>2. PICK e \in Nat \ {0} : e = entriesPerSector /\ a < n * e
  BY <1>1, DiskAssumption DEF Places
<1>3. PICK k \in Nat : k = a \div e /\ k < n
  <2>1. a \div e \in Nat
    BY DivMod
  <2>2. a \div e < n
    BY <1>2, DivBelow
  <2> QED
    BY <2>1, <2>2
<1>4. view[2 + k] = EntrySector(table, k)
  BY <1>1, <1>3 DEF HasGpt, HasEntries, Places
<1>5. EntrySector(table, k).kind = "entries"
  BY DEF EntrySector, Entries
<1>6. EntriesOf(view[2 + k]) = EntrySector(table, k).e
  BY <1>4, <1>5 DEF EntriesOf
<1> QED
  BY <1>2, <1>3, <1>6

\* And in that sector, the entry.
LEMMA EntryInSector ==
  ASSUME NEW table \in TablesFor("gpt"), NEW a \in Nat, a < GPT_ITEMS
  PROVE  EntrySector(table, a \div entriesPerSector).e[(a % entriesPerSector) + 1]
           = IF a + 1 \in DOMAIN table THEN Entry(table[a + 1]) ELSE NoEntry
<1>1. PICK e \in Nat \ {0}, g \in Nat : e = entriesPerSector /\ g = GPT_ITEMS
  BY DiskAssumption
<1>2. PICK k \in Nat, j \in 0 .. e - 1 : k = a \div e /\ j = a % e /\ a = k * e + j
  BY DivMod
<1>3. EntrySector(table, k).e[j + 1] = EntryArray(table)[k * e + j + 1]
  <2>1. k * e + j < g /\ j \in 0 .. entriesPerSector - 1
    BY <1>1, <1>2
  <2> QED
    BY <1>1, <2>1, EntryPlace
<1>4. k * e + j + 1 = a + 1
  BY <1>2
<1>5. a + 1 \in 1 .. g
  BY <1>1
<1>6. EntryArray(table)[a + 1] = IF a + 1 \in DOMAIN table THEN Entry(table[a + 1]) ELSE NoEntry
  BY <1>1, <1>5 DEF EntryArray
<1> QED
  BY <1>1, <1>2, <1>3, <1>4, <1>6

\* A partition that begins with sector a and has b whole sectors.
Whole(o, s, a, b, m) ==
  /\ m = sectorSize /\ a = o \div sectorSize /\ b = s \div sectorSize
  /\ o = a * m /\ s - (s % sectorSize) = b * m /\ (o + s) \div sectorSize = a + b

LEMMA WholeSectors ==
  ASSUME NEW o \in Nat, NEW s \in Nat, o % sectorSize = 0
  PROVE  \E a \in Nat, b \in Nat, m \in Nat \ {0} : Whole(o, s, a, b, m)
<1>1. PICK m \in Nat \ {0} : m = sectorSize
  BY DiskAssumption
<1>2. PICK a \in Nat : a = o \div m /\ o = a * m
  <2>1. o \div m \in Nat /\ o = (o \div m) * m + (o % m)
    BY DivMod
  <2>2. PICK a \in Nat : a = o \div m
    BY <2>1
  <2>3. o = a * m + 0
    BY <1>1, <2>1, <2>2
  <2>4. o = a * m
    BY <2>3
  <2> QED
    BY <2>2, <2>4
<1>3. PICK b \in Nat, r \in 0 .. m - 1 : b = s \div m /\ r = s % m /\ s = b * m + r
  <2>1. s \div m \in Nat /\ s % m \in 0 .. m - 1 /\ s = (s \div m) * m + (s % m)
    BY DivMod
  <2> QED
    BY <2>1
<1>4. (o + s) \div m = a + b
  <2>1. PICK q \in Nat : q = a + b
    OBVIOUS
  <2>2. o + s = q * m + r
    <3>1. PICK u \in Nat, v \in Nat : u = a * m /\ v = b * m
      OBVIOUS
    <3>2. (a + b) * m = u + v
      BY <3>1
    <3>3. o + s = u + v + r
      BY <1>2, <1>3, <3>1
    <3> QED
      BY <2>1, <3>2, <3>3
  <2>3. (q * m + r) \div m = q
    BY DivUnique
  <2> QED
    BY <2>1, <2>2, <2>3
<1>5. s - (s % m) = b * m
  BY <1>3
<1> QED
  BY <1>1, <1>2, <1>3, <1>4, <1>5 DEF Whole

\* What an entry holds of a partition: its first sector, and its last.
LEMMA EntryNumbers ==
  ASSUME NEW p, Added(p, "gpt")
  PROVE  \E a \in Nat, b \in Nat, m \in Nat \ {0} :
           /\ m = sectorSize /\ a = p.offset \div sectorSize /\ p.offset = a * m
           /\ Entry(p).starting_lba = a /\ Entry(p).ending_lba = a + b - 1
           /\ p.size - (p.size % sectorSize) = b * m
<1>1. PICK o \in Nat, s \in Nat : o = p.offset /\ s = p.size /\ o % sectorSize = 0
  BY DEF Added
<1>2. PICK a \in Nat, b \in Nat, m \in Nat \ {0} : Whole(o, s, a, b, m)
  BY <1>1, WholeSectors
<1>3. Entry(p).starting_lba = a /\ Entry(p).ending_lba = a + b - 1
  BY <1>1, <1>2 DEF Entry, Whole
<1> QED
  BY <1>1, <1>2, <1>3 DEF Whole

\* The scanner makes of a partition's entry what a scan must find.
LEMMA GptPartFound ==
  ASSUME NEW p, NEW scheme, NEW n, Added(p, "gpt"), scheme # "mbr",
         p.offset \div sectorSize \in Sector, AllCounted
  PROVE  GptPart(Entry(p), view[Entry(p).starting_lba]) = Found(p, scheme, n)
<1>1. PICK a \in Nat, b \in Nat, m \in Nat \ {0} :
        /\ m = sectorSize /\ a \in Sector
        /\ a = p.offset \div sectorSize /\ p.offset = a * m
        /\ Entry(p).starting_lba = a /\ Entry(p).ending_lba = a + b - 1
        /\ p.size - (p.size % sectorSize) = b * m
  BY EntryNumbers
<1>2. PICK c : c = view[a] /\ Counted(c)
  BY <1>1 DEF AllCounted
<1>3. PICK guid : guid = p.typeGuid
  OBVIOUS
<1>4. Entry(p).partition_type_guid = guid /\ Entry(p).id = p.id
  BY <1>3 DEF Entry
<1>5. PICK offset, size : /\ offset = a * m /\ size = b * m
                          /\ p.offset = offset /\ p.size - (p.size % sectorSize) = size
  BY <1>1
<1>6. (1 + Entry(p).ending_lba - Entry(p).starting_lba) * sectorSize = size
  <2>1. 1 + (a + b - 1) - a = b
    OBVIOUS
  <2> QED
    BY <1>1, <1>5, <2>1
<1>7. Entry(p).starting_lba * sectorSize = offset
  BY <1>1, <1>5
<1>8. /\ p = PartInfo(p.type, p.systype, guid, "none", p.id, offset, p.size)
      /\ guid.base = "sming" => p.type = guid.type /\ p.type # NoType
      /\ p.sysind = "none"
  BY <1>3, <1>5 DEF Added
<1>9. getSysTypeFromIndicator("none") = "unknown"
  BY DEF getSysTypeFromIndicator
<1>10. ASSUME NEW size2, NEW type2, NEW systype2
       PROVE  [p EXCEPT !.id = p.id, !.size = size2, !.type = type2, !.systype = systype2]
                = PartInfo(type2, systype2, guid, "none", p.id, offset, size2)
  <2>1. PICK type, systype, id, s : p = PartInfo(type, systype, guid, "none", id, offset, s) /\ id = p.id
    BY <1>8
  <2>2. PICK q : q = [p EXCEPT !.id = p.id]
    OBVIOUS
  <2>3. PICK r : r = [q EXCEPT !.size = size2]
    OBVIOUS
  <2>4. PICK u : u = [r EXCEPT !.type = type2]
    OBVIOUS
  <2>5. PICK v : v = [u EXCEPT !.systype = systype2]
    OBVIOUS
  <2>6. q = PartInfo(type, systype, guid, "none", id, offset, s)
    BY <2>1, <2>2 DEF PartInfo
  <2>7. r = PartInfo(type, systype, guid, "none", id, offset, size2)
    BY <2>3, <2>6 DEF PartInfo
  <2>8. u = PartInfo(type2, systype, guid, "none", id, offset, size2)
    BY <2>4, <2>7 DEF PartInfo
  <2>9. v = PartInfo(type2, systype2, guid, "none", id, offset, size2)
    BY <2>5, <2>8 DEF PartInfo
  <2>10. v = [p EXCEPT !.id = p.id, !.size = size2, !.type = type2, !.systype = systype2]
    BY <2>2, <2>3, <2>4, <2>5
  <2> QED
    BY <2>1, <2>9, <2>10
<1>11. CASE guid.base = "sming"
  <2>1. match(guid) = p.type /\ p.type # NoType
    BY <1>8, <1>11 DEF match
  <2>2. GptPart(Entry(p), c) = PartInfo(p.type, "unknown", guid, "none", p.id, offset, size)
    BY <1>4, <1>6, <1>7, <2>1 DEF GptPart
  <2>3. Found(p, scheme, n) = [p EXCEPT !.id = p.id, !.size = size, !.type = p.type, !.systype = "unknown"]
    BY <1>3, <1>5, <1>8, <1>9, <1>11 DEF Found
  <2>4. [p EXCEPT !.id = p.id, !.size = size, !.type = p.type, !.systype = "unknown"]
          = PartInfo(p.type, "unknown", guid, "none", p.id, offset, size)
    BY <1>10
  <2> QED
    BY <1>1, <1>2, <2>2, <2>3, <2>4
<1>12. CASE guid.base # "sming"
  <2>1. match(guid) = NoType
    BY <1>12 DEF match
  <2>2. GptPart(Entry(p), c) = Identified(c, guid, "none", p.id, offset, size)
    BY <1>4, <1>6, <1>7, <2>1 DEF GptPart
  <2>3. CASE c.kind # "boot"
    <3>1. Identified(c, guid, "none", p.id, offset, size)
            = PartInfo(NoType, "unknown", guid, "none", p.id, offset, size)
      BY <2>3 DEF Identified
    <3>2. Found(p, scheme, n) = [p EXCEPT !.id = p.id, !.size = size, !.type = NoType, !.systype = "unknown"]
      BY <1>1, <1>2, <1>3, <1>5, <1>8, <1>9, <1>12, <2>3 DEF Found
    <3>3. [p EXCEPT !.id = p.id, !.size = size, !.type = NoType, !.systype = "unknown"]
            = PartInfo(NoType, "unknown", guid, "none", p.id, offset, size)
      BY <1>10
    <3> QED
      BY <1>1, <1>2, <2>2, <3>1, <3>2, <3>3
  <2>4. CASE c.kind = "boot"
    <3>1. PICK bytes \in Nat : bytes = c.sectors * sectorSize /\ (c.systype # "exfat" => bytes < Word32)
      <4>1. c.sectors \in Nat /\ (c.systype # "exfat" => c.sectors * sectorSize < Word32)
        BY <1>2, <2>4 DEF Counted
      <4>2. PICK x \in Nat : x = c.sectors
        BY <4>1
      <4>3. x * m \in Nat
        OBVIOUS
      <4> QED
        BY <1>1, <4>1, <4>2, <4>3
    <3>2. (IF c.systype = "exfat" THEN bytes ELSE bytes % Word32) = bytes
      BY <3>1, DiskAssumption
    <3>3. Identified(c, guid, "none", p.id, offset, size)
            = PartInfo("fat", c.systype, guid, "none", p.id, offset, bytes)
      BY <2>4, <3>1, <3>2 DEF Identified
    <3>4. Found(p, scheme, n) = [p EXCEPT !.id = p.id, !.size = bytes, !.type = "fat", !.systype = c.systype]
      BY <1>1, <1>2, <1>3, <1>8, <1>9, <1>12, <2>4, <3>1 DEF Found
    <3>5. [p EXCEPT !.id = p.id, !.size = bytes, !.type = "fat", !.systype = c.systype]
            = PartInfo("fat", c.systype, guid, "none", p.id, offset, bytes)
      BY <1>10
    <3> QED
      BY <1>1, <1>2, <2>2, <3>3, <3>4, <3>5
  <2> QED
    BY <2>3, <2>4
<1> QED
  BY <1>11, <1>12

LEMMA EntryFound ==
  ASSUME NEW table \in TablesFor("gpt"), NEW n \in DOMAIN table, AllCounted
  PROVE  GptPart(Entry(table[n]), view[Entry(table[n]).starting_lba]) = Found(table[n], "gpt", n)
<1>1. PICK p : p = table[n]
  OBVIOUS
<1>2. Added(p, "gpt")
  <2>1. PICK t \in Tables : t.scheme = "gpt" /\ t.table = table
    BY DEF TablesFor
  <2> QED
    BY <1>1, <2>1, DiskStorageAssumption
<1>3. p.offset \div sectorSize \in Sector
  <2>1. p.offset \div sectorSize \in DataOf(table)
    BY <1>1, FirstSector
  <2> QED
    BY <2>1, GptPlaces DEF Places, Sector
<1>4. GptPart(Entry(p), view[Entry(p).starting_lba]) = Found(p, "gpt", n)
  BY <1>2, <1>3, GptPartFound
<1> QED
  BY <1>1, <1>4

(***************************************************************************)
(* The contents of the disk                                                *)
(***************************************************************************)

\* The sectors that change get what was in the cache or on the medium, or a volume
\* whose size is computed without losing bits.
LEMMA CountedNext ==
  ASSUME Inv, AllCounted, [Next]_vars
  PROVE  AllCounted'
<1>1. DOMAIN view = Sector /\ DOMAIN medium = Sector
  BY DEF Inv, Scans
<1>2. \A s \in Sector : Counted(view[s]) /\ Counted(medium[s])
  BY DEF AllCounted
<1>3. ASSUME NEW s, NEW c, Counted(c), UNCHANGED medium,
             view' = view \/ view' = [view EXCEPT ![s] = c]
      PROVE  AllCounted'
  <2>1. \A x \in Sector : view'[x] = view[x] \/ view'[x] = c
    BY <1>1, <1>3
  <2> QED
    BY <1>2, <1>3, <2>1 DEF AllCounted, Counted
<1>4. CASE UNCHANGED <<view, medium>>
  BY <1>2, <1>4 DEF AllCounted, Counted
<1>5. CASE UsePartition
  <2>1. PICK s : view' = [view EXCEPT ![s] = Boot("fat16", 1)] /\ UNCHANGED medium
    BY <1>5 DEF UsePartition, Write
  <2>2. Counted(Boot("fat16", 1))
    BY DiskAssumption, DiskStorageAssumption DEF Counted, Boot
  <2> QED
    BY <1>3, <2>1, <2>2
<1>6. CASE PowerLoss
  <2>1. view' = medium /\ medium' = medium
    BY <1>6 DEF PowerLoss, Reset
  <2> QED
    BY <1>2, <2>1 DEF AllCounted, Counted
<1>7. CASE WriteBack
  <2>1. PICK s \in Sector : medium' = [medium EXCEPT ![s] = view[s]] /\ UNCHANGED view
    BY <1>7 DEF WriteBack, Flush
  <2>2. \A x \in Sector : medium'[x] = medium[x] \/ medium'[x] = view[x]
    BY <1>1, <2>1
  <2> QED
    BY <1>2, <2>1, <2>2 DEF AllCounted, Counted
<1>8. CASE Formatting
  <2>1. CASE SyncDisk
    <3>1. view' = view /\ (medium' = view \/ medium' = medium)
      BY <2>1 DEF SyncDisk, Sync, device
    <3> QED
      BY <1>2, <3>1 DEF AllCounted, Counted
  <2>2. CASE ~SyncDisk
    <3>1. PICK s, c, pc, k : WriteSector(s, c, pc, k) /\ c.kind # "boot"
      BY <1>8, <2>2 DEF Formatting, FormatStep, WriteEntries, WriteEntriesCopy, WriteHeader,
        WriteHeaderCopy, WriteProtectiveMbr, WriteMbr, EntrySector, Entries, GptHeader, Header,
        ProtectiveMbr, MbrTable, Mbr
    <3>2. view' = view \/ view' = [view EXCEPT ![s] = c]
      BY <3>1 DEF WriteSector, Write, device
    <3>3. UNCHANGED medium
      BY <3>1 DEF WriteSector, Write, device
    <3>4. Counted(c)
      BY <3>1 DEF Counted
    <3> QED
      BY <1>3, <3>2, <3>3, <3>4
  <2> QED
    BY <2>1, <2>2
<1>9. CASE StartFormat \/ RefuseFormat \/ StartScan \/ UNCHANGED vars
  <2>1. UNCHANGED <<view, medium>>
    BY <1>9 DEF StartFormat, BeginFormat, RefuseFormat, Refuse, StartScan, BeginScan, vars, device
  <2> QED
    BY <1>4, <2>1
<1>10. CASE Scanning
  <2>1. UNCHANGED <<view, medium>>
    BY <1>10 DEF Scanning, ScanStep, ReadFails, NoBuffer, LoadSector0, FoundProtective, LoadHeader,
      LoadEntries, TakeEntry, TakeRecord, ScanDone, device
  <2> QED
    BY <1>4, <2>1
<1> QED
  BY <1>5, <1>6, <1>7, <1>8, <1>9, <1>10 DEF Next

(***************************************************************************)
(* The application                                                         *)
(***************************************************************************)

\* No table is one of a GPT and one of an MBR.
LEMMA OneScheme ==
  ASSUME NEW table \in TablesFor("gpt")
  PROVE  table \notin TablesFor("mbr")
<1> SUFFICES ASSUME table \in TablesFor("mbr")
             PROVE  FALSE
  OBVIOUS
<1>1. PICK t \in Tables : t.scheme = "gpt" /\ t.table = table
  BY DEF TablesFor
<1>2. PICK u \in Tables : u.scheme = "mbr" /\ u.table = table
  BY DEF TablesFor
<1>3. 1 \in DOMAIN table
  BY <1>1, DiskStorageAssumption
<1>4. Added(table[1], "gpt") /\ Added(table[1], "mbr")
  BY <1>1, <1>2, <1>3, DiskStorageAssumption
<1> QED
  BY <1>4 DEF Added

\* Nothing that was found is still relied on.
LEMMA ForgottenFound ==
  ASSUME scanned' = NotScanned, scan' = NotScanning
  PROVE  Progress' /\ GptFound' /\ Forgotten'
BY DEF Progress, GptFound, RoundTrip, Forgotten, NotScanned, NotScanning

\* What is to be found depends on the sectors that are read.
LEMMA SameUpTo ==
  ASSUME view' = view, NEW table, NEW m
  PROVE  FoundUpTo(table, m)' = FoundUpTo(table, m)
BY DEF FoundUpTo, Found

LEMMA SameFound ==
  ASSUME Kept, Progress, GptFound, Forgotten,
         UNCHANGED <<view, partitions, fmt, scan, scanned, written, mixed>>
  PROVE  Kept' /\ Progress' /\ GptFound' /\ Forgotten'
<1>1. Kept'
  BY DEF Kept
<1>2. Progress'
  <2>1. PICK table, m : table = written.table /\ m = scan.partitionIndex
    OBVIOUS
  <2>2. FoundUpTo(table, m)' = FoundUpTo(table, m)
    BY SameUpTo
  <2>3. table = written.table' /\ m = scan.partitionIndex'
    BY <2>1
  <2>4. FoundUpTo(written.table, scan.partitionIndex)' = FoundUpTo(table, m)'
    BY <2>3
  <2> QED
    BY <2>1, <2>2, <2>4 DEF Progress
<1>3. GptFound'
  BY DEF GptFound, RoundTrip, Expected, Found
<1>4. Forgotten'
  BY DEF Forgotten
<1> QED
  BY <1>1, <1>2, <1>3, <1>4

LEMMA StartFormatFound ==
  ASSUME StartFormat
  PROVE  Kept' /\ Progress' /\ GptFound' /\ Forgotten'
<1>1. written' = None /\ scanned' = NotScanned
  BY DEF StartFormat
<1> QED
  BY <1>1 DEF Kept, Progress, GptFound, Forgotten, None

LEMMA StartScanFound ==
  ASSUME Kept, StartScan
  PROVE  Kept' /\ Progress' /\ GptFound' /\ Forgotten'
<1>1. /\ scan = NotScanning /\ scan' = [scan EXCEPT !.pc = "sector0"] /\ scanned' = NotScanned
      /\ partitions' = {} /\ UNCHANGED <<view, written, mixed>>
  BY DEF StartScan, BeginScan, device
<1>2. scan'.pc = "sector0"
  BY <1>1 DEF NotScanning
<1>3. Kept'
  BY <1>1 DEF Kept
<1>4. Progress'
  BY <1>1, <1>2 DEF Progress
<1>5. GptFound' /\ Forgotten'
  BY <1>1 DEF GptFound, RoundTrip, Forgotten, NotScanned
<1> QED
  BY <1>3, <1>4, <1>5

\* The application's writes do not touch sector 0.
LEMMA UsePartitionFound ==
  ASSUME Inv, Kept, UsePartition
  PROVE  Kept' /\ Progress' /\ GptFound' /\ Forgotten'
<1>1. PICK p \in partitions : p.offset # 0 /\ Write(p.offset \div sectorSize, Boot("fat16", 1))
  BY DEF UsePartition
<1>2. PICK s : s = p.offset \div sectorSize /\ view' = [view EXCEPT ![s] = Boot("fat16", 1)]
  BY <1>1 DEF Write
<1>3. scanned' = NotScanned /\ scan' = NotScanning /\ UNCHANGED <<written, mixed>>
  BY DEF UsePartition, Idle
<1>4. Kept'
  <2> SUFFICES ASSUME written.scheme = "gpt"
               PROVE  Kept'
    BY <1>3 DEF Kept
  <2>1. PICK table \in TablesFor("gpt") : table = written.table /\ Follows(table)
    BY GptSettled
  <2>2. s \in DataOf(table)
    BY <1>1, <1>2, <2>1 DEF Follows
  <2>3. 0 \in GptSectors /\ 0 \in Sector
    BY DiskAssumption DEF GptSectors, Sector
  <2>4. view'[0] = view[0]
    BY <1>2, <2>2, <2>3, DataApart DEF Inv, Scans
  <2> QED
    BY <1>3, <2>4 DEF Kept
<1> QED
  BY <1>3, <1>4, ForgottenFound

\* A GPT that was written successfully is on the medium.
LEMMA PowerLossFound ==
  ASSUME Inv, Kept, PowerLoss
  PROVE  Kept' /\ Progress' /\ GptFound' /\ Forgotten'
<1>1. /\ view' = medium /\ scan' = NotScanning /\ scanned' = NotScanned /\ UNCHANGED written
      /\ mixed' = (mixed \/ (written = None /\ medium # view))
  BY DEF PowerLoss, Reset
<1>2. Kept'
  <2> SUFFICES ASSUME written.scheme = "gpt"
               PROVE  Kept'
    BY <1>1 DEF Kept
  <2>1. written # None /\ ~mixed /\ medium[0] = ProtectiveMbr
    BY GptSettled DEF HasGpt
  <2>2. IsProtective(ProtectiveMbr)
    BY DEF IsProtective, ProtectiveMbr, Mbr, Record
  <2> QED
    BY <1>1, <2>1, <2>2 DEF Kept
<1> QED
  BY <1>1, <1>2, ForgottenFound

\* formatDisk announces a GPT before it reports success.
LEMMA FormattingFound ==
  ASSUME Inv, Forgotten, Formatting
  PROVE  Kept' /\ Progress' /\ GptFound' /\ Forgotten'
<1>1. fmt.pc # "idle"
  BY DEF Formatting, FormatStep, WriteEntries, WriteEntriesCopy, WriteHeader, WriteHeaderCopy,
         WriteProtectiveMbr, WriteMbr, SyncDisk
<1>2. written = None /\ scan = NotScanning /\ scanned = NotScanned
  BY <1>1 DEF Inv, Written, Forgotten
<1>3. scan' = NotScanning /\ scanned' = NotScanned
  BY <1>2 DEF Formatting
<1>4. CASE UNCHANGED written
  BY <1>2, <1>3, <1>4, ForgottenFound DEF Kept, None
<1>5. CASE ~UNCHANGED written
  <2>1. fmt' = NotFormatting /\ error' = "Success" /\ mixed' = FALSE
    BY <1>5 DEF Formatting
  <2>2. PICK t \in Tables : t.table = fmt.table /\ written' = t
    BY <1>5 DEF Formatting
  <2>3. SyncDisk
    <3>1. \A s, c, pc, k : pc # "idle" => ~WriteSector(s, c, pc, k)
      <4> SUFFICES ASSUME NEW s, NEW c, NEW pc, NEW k, pc # "idle", WriteSector(s, c, pc, k)
                   PROVE  FALSE
        OBVIOUS
      <4>1. fmt' = [fmt EXCEPT !.pc = pc, !.k = k]
        BY <2>1 DEF WriteSector
      <4>2. fmt'.pc = pc
        BY <4>1 DEF Inv, Written, FormatRecord
      <4> QED
        BY <2>1, <4>2 DEF NotFormatting
    <3> QED
      BY <3>1 DEF Formatting, FormatStep, WriteEntries, WriteEntriesCopy, WriteHeader,
         WriteHeaderCopy, WriteProtectiveMbr, WriteMbr
  <2>4. view' = view /\ fmt.pc = "sync"
    BY <2>3 DEF SyncDisk, Sync, device
  <2>5. Kept'
    <3> SUFFICES ASSUME t.scheme = "gpt"
                 PROVE  IsProtective(view'[0])
      BY <2>1, <2>2 DEF Kept
    <3>1. fmt.table \in TablesFor("gpt")
      BY <2>2 DEF TablesFor
    <3>2. view[0] = ProtectiveMbr
      BY <2>4, <3>1, OneScheme DEF Inv, Written, HasGpt
    <3> QED
      BY <2>4, <3>2 DEF IsProtective, ProtectiveMbr, Mbr, Record
  <2> QED
    BY <1>3, <2>5, ForgottenFound
<1> QED
  BY <1>4, <1>5
(***************************************************************************)
(* The scanner                                                             *)
(***************************************************************************)

\* No entry has been looked at, or one more.
LEMMA UpToNext ==
  ASSUME NEW table \in TablesFor("gpt"), NEW a \in Nat
  PROVE  /\ FoundUpTo(table, 0) = {}
         /\ a + 1 \in DOMAIN table =>
              FoundUpTo(table, a + 1) = FoundUpTo(table, a) \cup {Found(table[a + 1], "gpt", a + 1)}
         /\ a + 1 \notin DOMAIN table => FoundUpTo(table, a + 1) = FoundUpTo(table, a)
<1>1. DOMAIN table \subseteq Nat \ {0}
  <2>1. PICK t \in Tables : t.table = table
    BY DEF TablesFor
  <2>2. DOMAIN table = 1 .. Len(table)
    BY <2>1, DiskStorageAssumption
  <2> QED
    BY <2>2
<1>2. {k \in DOMAIN table : k <= 0} = {}
  BY <1>1
<1>3. a + 1 \in DOMAIN table => {k \in DOMAIN table : k <= a + 1} = {k \in DOMAIN table : k <= a} \cup {a + 1}
  BY <1>1
<1>4. a + 1 \notin DOMAIN table => {k \in DOMAIN table : k <= a + 1} = {k \in DOMAIN table : k <= a}
  BY <1>1
<1> QED
  BY <1>2, <1>3, <1>4 DEF FoundUpTo

\* A scan that goes on has returned nothing, one that has ended has nothing to find.
LEMMA ScanFound ==
  /\ scan'.pc # "idle" => GptFound'
  /\ scan' = NotScanning => Progress'
BY DEF GptFound, RoundTrip, Progress, NotScanning

\* A scan changes nothing else.
LEMMA ScanningKeeps ==
  ASSUME Inv, Kept, Scanning
  PROVE  /\ UNCHANGED <<view, written, mixed>> /\ scan.pc # "idle"
         /\ Kept' /\ Forgotten'
<1>1. UNCHANGED <<view, written, mixed, fmt>> /\ scan.pc # "idle"
  BY DEF Scanning, ScanStep, ReadFails, NoBuffer, LoadSector0, FoundProtective, LoadHeader,
     LoadEntries, TakeEntry, TakeRecord, ScanDone, device
<1>2. fmt.pc = "idle"
  BY <1>1 DEF Inv, Written, NotScanning
<1> QED
  BY <1>1, <1>2 DEF Kept, Forgotten

\* A read or an allocation has failed: this scan tells nothing.
LEMMA FailedFound ==
  ASSUME NEW state, ScanEnds(state, TRUE)
  PROVE  Progress' /\ GptFound'
BY ScanFound DEF ScanEnds, GptFound, RoundTrip

LEMMA FoundProtectiveFound ==
  ASSUME Inv, Progress, Scanning, FoundProtective
  PROVE  Progress' /\ GptFound'
<1>1. /\ scan.pc = "sector0" /\ scan' = [scan EXCEPT !.pc = "header"]
      /\ UNCHANGED <<partitions, written>>
  BY DEF FoundProtective, Scanning
<1>2. scan'.pc = "header" /\ scan'.fault = scan.fault
  BY <1>1 DEF Inv, Scans, ScanRecord, NotScanning
<1>3. Progress'
  BY <1>1, <1>2 DEF Progress
<1> QED
  BY <1>2, <1>3, ScanFound

\* The header of a GPT disk that formatDisk has made is accepted.
LEMMA LoadHeaderFound ==
  ASSUME Inv, Kept, Progress, Scanning, LoadHeader, written.scheme = "gpt"
  PROVE  Progress' /\ GptFound'
<1>1. PICK table \in TablesFor("gpt") : table = written.table /\ HasGpt(view, table)
  BY GptSettled
<1>2. verifyGptHeader(view[1])
  BY <1>1, DiskAssumption DEF HasGpt, HasHeader, GptHeader, Header, verifyGptHeader
<1>3. PICK lba, count :
        scan' = [scan EXCEPT !.pc = "entries", !.state = "GPT", !.sector = lba, !.numPartitionEntries = count]
  BY <1>2 DEF LoadHeader
<1>4. scan.pc = "header" /\ UNCHANGED <<view, partitions, written>>
  BY DEF LoadHeader, Scanning, device
<1>5. scan.partitionIndex = 0
  BY <1>4 DEF Inv, Scans
<1>6. scan'.pc = "entries" /\ scan'.fault = scan.fault /\ scan'.partitionIndex = 0
  BY <1>3, <1>5 DEF Inv, Scans, ScanRecord, NotScanning
<1>7. FoundUpTo(table, 0)' = {}
  <2>1. FoundUpTo(table, 0) = {}
    BY UpToNext
  <2> QED
    BY <1>4, <2>1, SameUpTo
<1>8. FoundUpTo(written.table, scan.partitionIndex)' = FoundUpTo(table, 0)'
  BY <1>1, <1>4, <1>6
<1>9. Progress'
  BY <1>4, <1>6, <1>7, <1>8 DEF Progress
<1> QED
  BY <1>6, <1>9, ScanFound

LEMMA LoadEntriesFound ==
  ASSUME Inv, Kept, Progress, Scanning, LoadEntries, written.scheme = "gpt"
  PROVE  Progress' /\ GptFound'
<1>1. PICK table \in TablesFor("gpt") : table = written.table /\ HasGpt(view, table) /\ Follows(table)
  BY GptSettled
<1>2. scan.pc = "entries" /\ More /\ UNCHANGED <<view, partitions, written>>
  BY DEF LoadEntries, Scanning, device
<1>3. PICK a \in Nat : a = scan.partitionIndex /\ a < GPT_ITEMS
  BY <1>1, <1>2 DEF Follows, More
<1>4. PICK buffer, sector :
        /\ buffer = EntriesOf(view[scan.sector])
        /\ scan' = [scan EXCEPT !.pc = "entry", !.sector = sector, !.buffer = buffer]
  <2>1. scan' = [scan EXCEPT !.pc = "entry", !.sector = scan.sector + 1,
                             !.buffer = EntriesOf(view[scan.sector])]
    BY ScanFields DEF LoadEntries, Inv, Scans
  <2> QED
    BY <2>1
<1>5. /\ scan'.pc = "entry" /\ scan'.fault = scan.fault /\ scan'.partitionIndex = a
      /\ scan'.buffer = buffer
  BY <1>3, <1>4 DEF Inv, Scans, ScanRecord, NotScanning
<1>6. buffer = EntrySector(table, a \div entriesPerSector).e
  <2>1. scan.sector = 2 + (a \div entriesPerSector)
    BY <1>1, <1>2, <1>3 DEF Follows
  <2> QED
    BY <1>1, <1>3, <1>4, <2>1, SectorOfEntry
<1>7. FoundUpTo(written.table, scan.partitionIndex)' = FoundUpTo(table, a)
  <2>1. FoundUpTo(written.table, scan.partitionIndex)' = FoundUpTo(table, a)'
    BY <1>1, <1>2, <1>5
  <2> QED
    BY <1>2, <2>1, SameUpTo
<1>8. ~scan.fault => partitions = FoundUpTo(table, a)
  BY <1>1, <1>2, <1>3 DEF Progress
<1>9. Progress'
  BY <1>1, <1>2, <1>5, <1>6, <1>7, <1>8 DEF Progress
<1> QED
  BY <1>5, <1>9, ScanFound

\* One entry more: its partition has been found, if it has one.
LEMMA TakeEntryFound ==
  ASSUME Inv, Kept, AllCounted, Progress, Scanning, TakeEntry, written.scheme = "gpt"
  PROVE  Progress' /\ GptFound'
<1>1. PICK table \in TablesFor("gpt") : table = written.table /\ HasGpt(view, table) /\ Follows(table)
  BY GptSettled
<1>2. scan.pc = "entry" /\ More /\ UNCHANGED <<view, written>>
  BY DEF TakeEntry, Scanning, device
<1>3. PICK a \in Nat : a = scan.partitionIndex /\ a < GPT_ITEMS
  BY <1>1, <1>2 DEF Follows, More
<1>4. PICK entry : entry = scan.buffer[(a % entriesPerSector) + 1]
  OBVIOUS
<1>5. PICK pc : pc = IF (a + 1) % entriesPerSector = 0 THEN "entries" ELSE "entry"
  OBVIOUS
<1>6. PICK fault :
        /\ scan' = [scan EXCEPT !.partitionIndex = a + 1, !.fault = fault, !.pc = pc]
        /\ ~fault => /\ ~scan.fault
                     /\ entry.partition_type_guid = NoGuid => partitions' = partitions
                     /\ entry.partition_type_guid # NoGuid =>
                          partitions' = partitions \cup {GptPart(entry, view[entry.starting_lba])}
  <2>1. \/ /\ scan' = [scan EXCEPT !.partitionIndex = a + 1, !.fault = scan.fault \/ FALSE, !.pc = pc]
           /\ \/ entry.partition_type_guid = NoGuid /\ partitions' = partitions
              \/ /\ entry.partition_type_guid # NoGuid
                 /\ partitions' = partitions \cup {GptPart(entry, view[entry.starting_lba])}
        \/ scan' = [scan EXCEPT !.partitionIndex = a + 1, !.fault = scan.fault \/ TRUE, !.pc = pc]
    BY <1>3, <1>4, <1>5 DEF TakeEntry
  <2> QED
    BY <2>1
<1>7. /\ scan'.pc = pc /\ scan'.fault = fault /\ scan'.partitionIndex = a + 1
      /\ scan'.buffer = scan.buffer
  BY <1>6 DEF Inv, Scans, ScanRecord, NotScanning
<1>8. pc \in {"entries", "entry"}
  BY <1>5
<1>9. ASSUME ~fault
      PROVE  /\ partitions' = FoundUpTo(table, a + 1)
             /\ pc = "entry" => scan.buffer = EntrySector(table, (a + 1) \div entriesPerSector).e
  <2>1. ~scan.fault
    BY <1>6, <1>9
  <2>2. /\ partitions = FoundUpTo(table, a)
        /\ scan.buffer = EntrySector(table, a \div entriesPerSector).e
    BY <1>1, <1>2, <1>3, <2>1 DEF Progress
  <2>3. entry = IF a + 1 \in DOMAIN table THEN Entry(table[a + 1]) ELSE NoEntry
    BY <1>3, <1>4, <2>2, EntryInSector
  <2>4. ASSUME pc = "entry"
        PROVE  (a + 1) \div entriesPerSector = a \div entriesPerSector
    BY <1>5, <2>4, NextEntry, DiskAssumption
  <2>5. CASE a + 1 \in DOMAIN table
    <3>1. PICK n \in DOMAIN table : n = a + 1
      BY <2>5
    <3>2. entry = Entry(table[n])
      BY <2>3, <3>1
    <3>3. GptPart(entry, view[entry.starting_lba]) = Found(table[n], "gpt", n)
      BY <3>2, EntryFound
    <3>4. entry.partition_type_guid # NoGuid
      <4>1. PICK t \in Tables : t.scheme = "gpt" /\ t.table = table
        BY DEF TablesFor
      <4>2. Added(table[n], "gpt")
        BY <4>1, DiskStorageAssumption
      <4> QED
        BY <3>2, <4>2 DEF Added, Entry
    <3>5. partitions' = partitions \cup {Found(table[n], "gpt", n)}
      BY <1>6, <1>9, <3>3, <3>4
    <3> QED
      BY <2>2, <2>4, <3>1, <3>5, UpToNext
  <2>6. CASE a + 1 \notin DOMAIN table
    <3>1. entry.partition_type_guid = NoGuid
      BY <2>3, <2>6 DEF NoEntry
    <3>2. partitions' = partitions
      BY <1>6, <1>9, <3>1
    <3> QED
      BY <2>2, <2>4, <2>6, <3>2, UpToNext
  <2> QED
    BY <2>5, <2>6
<1>10. FoundUpTo(written.table, scan.partitionIndex)' = FoundUpTo(table, a + 1)
  <2>1. PICK b : b = a + 1
    OBVIOUS
  <2>2. FoundUpTo(written.table, scan.partitionIndex)' = FoundUpTo(table, b)'
    BY <1>1, <1>2, <1>7, <2>1
  <2>3. FoundUpTo(table, b)' = FoundUpTo(table, b)
    BY <1>2, SameUpTo
  <2> QED
    BY <2>1, <2>2, <2>3
<1>11. Progress'
  BY <1>1, <1>2, <1>7, <1>8, <1>9, <1>10 DEF Progress
<1> QED
  BY <1>7, <1>8, <1>11, ScanFound

\* After the last entry everything has been found.
LEMMA ScanDoneFound ==
  ASSUME Inv, Kept, Progress, Scanning, ScanDone, written.scheme = "gpt"
  PROVE  Progress' /\ GptFound'
<1>1. PICK table \in TablesFor("gpt") : table = written.table /\ Follows(table)
  BY GptSettled
<1>2. /\ scan.pc \in {"entries", "entry", "record"} /\ ~More
      /\ ScanEnds("done", scan.fault) /\ UNCHANGED <<view, partitions, written>>
  BY DEF ScanDone, Scanning, device
<1>3. scan.pc \in {"entries", "entry"} /\ scan.partitionIndex = GPT_ITEMS
  BY <1>1, <1>2, DiskAssumption DEF Follows, More, Inv, Scans
<1>4. ~scan.fault => partitions = FoundUpTo(table, GPT_ITEMS)
  BY <1>1, <1>3 DEF Progress
<1>5. FoundUpTo(table, GPT_ITEMS) = Expected(written)
  BY <1>1 DEF FoundUpTo, Expected
<1>6. Expected(written)' = Expected(written)
  BY <1>2 DEF Expected, Found
<1>7. scanned'.ok /\ scanned'.fault = scan.fault
  BY <1>2 DEF ScanEnds
<1>8. GptFound'
  BY <1>2, <1>4, <1>5, <1>6, <1>7 DEF GptFound, RoundTrip
<1>9. Progress'
  BY <1>2, ScanFound DEF ScanEnds
<1> QED
  BY <1>8, <1>9

LEMMA ScanningFound ==
  ASSUME FoundInv, Scanning
  PROVE  Kept' /\ Progress' /\ GptFound' /\ Forgotten'
<1>1. Inv /\ Kept /\ AllCounted /\ Progress
  BY DEF FoundInv
<1>2. UNCHANGED <<view, written, mixed>> /\ scan.pc # "idle" /\ Kept' /\ Forgotten'
  BY <1>1, ScanningKeeps
<1>3. CASE written.scheme # "gpt"
  BY <1>2, <1>3 DEF Progress, GptFound
<1>4. CASE written.scheme = "gpt"
  <2>1. IsProtective(view[0]) /\ scan.pc # "record"
    BY <1>1, <1>4, GptSettled DEF Follows
  <2>2. ~LoadSector0 /\ ~TakeRecord
    BY <2>1 DEF LoadSector0, TakeRecord
  <2>3. CASE ReadFails \/ NoBuffer
    BY <1>2, <2>3, FailedFound DEF ReadFails, NoBuffer
  <2> QED
    BY <1>1, <1>2, <1>4, <2>2, <2>3, FoundProtectiveFound, LoadHeaderFound, LoadEntriesFound,
       TakeEntryFound, ScanDoneFound DEF Scanning, ScanStep
<1> QED
  BY <1>3, <1>4

(***************************************************************************)
(* Theorems                                                                *)
(***************************************************************************)

LEMMA InitFound == Init => FoundInv
<1> SUFFICES ASSUME Init
             PROVE  FoundInv
  OBVIOUS
<1>1. Inv
  BY InitInv
<1>2. PICK d \in Disks : view = d.view
  BY DEF Init
<1>3. /\ medium = view /\ fmt = NotFormatting /\ scan = NotScanning /\ scanned = NotScanned
      /\ written.scheme = "other"
  BY DEF Init
<1>4. AllCounted
  BY <1>2, <1>3, DiskStorageAssumption DEF AllCounted
<1>5. Kept /\ Progress /\ GptFound /\ Forgotten
  BY <1>3 DEF Kept, Progress, GptFound, Forgotten, NotFormatting
<1> QED
  BY <1>1, <1>4, <1>5 DEF FoundInv

LEMMA NextFound == FoundInv /\ [Next]_vars => FoundInv'
<1> SUFFICES ASSUME FoundInv, [Next]_vars
             PROVE  FoundInv'
  OBVIOUS
<1>1. Inv /\ Kept /\ AllCounted /\ Progress /\ GptFound /\ Forgotten
  BY DEF FoundInv
<1>2. Inv' /\ AllCounted'
  BY <1>1, NextInv, CountedNext
<1>3. CASE RefuseFormat \/ WriteBack \/ UNCHANGED vars
  <2>1. UNCHANGED <<view, partitions, fmt, scan, scanned, written, mixed>>
    BY <1>3 DEF RefuseFormat, Refuse, WriteBack, Flush, vars, device
  <2> QED
    BY <1>1, <1>2, <2>1, SameFound DEF FoundInv
<1>4. CASE StartFormat \/ StartScan \/ UsePartition \/ PowerLoss \/ Formatting \/ Scanning
  BY <1>1, <1>2, <1>4, StartFormatFound, StartScanFound, UsePartitionFound, PowerLossFound,
     FormattingFound, ScanningFound DEF FoundInv
<1> QED
  BY <1>3, <1>4 DEF Next

\* formatDisk's GPT survives until the next formatDisk, and a scan that meets no
\* fault finds it, partition by partition: for every size of the table and of the
\* sectors, for any table, also one with more partitions than the GPT has entries,
\* whatever the application writes to its partitions, and across power losses.
THEOREM GptRoundTrip == Spec => [](written.scheme = "gpt" => RoundTrip)
<1>1. FoundInv => (written.scheme = "gpt" => RoundTrip)
  BY DEF FoundInv, GptFound
<1> QED
  BY <1>1, InitFound, NextFound, PTL DEF Spec

(***************************************************************************)
(* MBR disks: the inductive invariant                                      *)
(***************************************************************************)

MbrUpTo(table, m) == {Found(table[n], "mbr", n) : n \in {k \in DOMAIN table : k <= m}}

\* An MBR that was written successfully is in the cache and on the medium, and nothing
\* that is known of the partitions leads to it.
MbrKept ==
  written.scheme = "mbr" =>
    /\ written \in Tables
    /\ view[0] = MbrTable(written.table) /\ medium[0] = MbrTable(written.table)
    /\ \A p \in partitions : p.offset # 0 => p.offset \div sectorSize \in DataOf(written.table)

MbrWritten ==
  fmt.pc = "sync" /\ fmt.table \in TablesFor("mbr") => view[0] = MbrTable(fmt.table)

\* A scan has taken the records of the table and no others; if nothing has failed it
\* has found all partitions up to where it is, and numbered them.
MbrProgress ==
  written.scheme = "mbr" =>
    /\ scan.pc \in {"idle", "sector0", "record"}
    /\ scan.pc = "sector0" => scan.mbrPartID = 0
    /\ scan.pc = "record" =>
         /\ scan.numPartitionEntries = Len(written.table)
         /\ \A n \in DOMAIN written.table : scan.mbrEntries[n] = RecordOf(written.table[n])
    /\ ~scan.fault =>
         /\ scan.pc = "sector0" => partitions = {}
         /\ scan.pc = "record" => /\ scan.mbrPartID = scan.partitionIndex
                                  /\ partitions = MbrUpTo(written.table, scan.partitionIndex)

MbrFound == written.scheme = "mbr" => RoundTrip

MbrInv == Inv /\ MbrKept /\ MbrWritten /\ AllCounted /\ MbrProgress /\ MbrFound /\ Forgotten

(***************************************************************************)
(* What the scanner makes of the records                                   *)
(***************************************************************************)

LEMMA MulBelow ==
  ASSUME NEW x \in Nat, NEW y \in Nat, NEW m \in Nat \ {0}, x < y
  PROVE  x * m < y * m /\ x <= x * m
<1>1. PICK d \in Nat \ {0} : y = x + d
  <2>1. y - x \in Nat \ {0} /\ y = x + (y - x)
    OBVIOUS
  <2> QED
    BY <2>1
<1>2. PICK k \in Nat : m = k + 1
  <2>1. m - 1 \in Nat /\ m = (m - 1) + 1
    OBVIOUS
  <2> QED
    BY <2>1
<1>3. PICK u \in Nat, v \in Nat \ {0}, w \in Nat : u = x * m /\ v = d * m /\ w = x * k
  BY <1>1, <1>2
<1>4. (x + d) * m = u + v
  BY <1>3
<1>5. x * (k + 1) = w + x
  BY <1>3
<1> QED
  BY <1>1, <1>2, <1>3, <1>4, <1>5

\* The numbers of a record fit it.
LEMMA RecordNumbers ==
  ASSUME MbrReadable, NEW table \in TablesFor("mbr"), NEW n \in DOMAIN table
  PROVE  \E a \in Nat \ {0}, b \in Nat \ {0}, m \in Nat \ {0} :
           /\ m = sectorSize /\ a = table[n].offset \div sectorSize /\ b = table[n].size \div sectorSize
           /\ table[n].offset = a * m /\ table[n].size - (table[n].size % sectorSize) = b * m
           /\ a \in Sector /\ a \in DataOf(table)
           /\ a < Word32 /\ a * m < Word32 /\ b * m < Word32
<1>1. PICK t \in Tables : t.scheme = "mbr" /\ t.table = table
  BY DEF TablesFor
<1>2. /\ Added(table[n], "mbr") /\ SectorsOf(table[n]) # {} /\ DataOf(table) \subseteq Space("mbr")
  BY <1>1, DiskStorageAssumption
<1>3. PICK o \in Nat, s \in Nat : o = table[n].offset /\ s = table[n].size /\ o % sectorSize = 0
  BY <1>2 DEF Added
<1>4. PICK a \in Nat, b \in Nat, m \in Nat \ {0} : Whole(o, s, a, b, m)
  BY <1>3, WholeSectors
<1>5. SectorsOf(table[n]) = a .. (a + b) - 1
  BY <1>3, <1>4 DEF SectorsOf, Whole
<1>6. b # 0
  BY <1>2, <1>5
<1>7. a \in DataOf(table) /\ a + b - 1 \in DataOf(table)
  BY <1>5, <1>6 DEF DataOf
<1>8. PICK f \in Nat \ {0}, D \in Nat \ {0}, W \in Nat : f = partAlignSectors /\ D = driveSectors /\ W = Word32
  BY DiskAssumption, FormatAssumption
<1>9. a \in f .. D - 1 /\ a + b - 1 \in f .. D - 1
  BY <1>2, <1>7, <1>8 DEF Space
<1>10. a < D /\ b < D /\ a # 0
  BY <1>6, <1>9
<1>11. D * m <= W
  BY <1>4, <1>8 DEF MbrReadable, Whole
<1>12. a * m < D * m /\ b * m < D * m /\ a <= a * m
  BY <1>10, MulBelow
<1>13. PICK x \in Nat, y \in Nat, z \in Nat : x = a * m /\ y = b * m /\ z = D * m
  OBVIOUS
<1>14. a < W /\ a * m < W /\ b * m < W
  BY <1>11, <1>12, <1>13
<1>15. a \in Sector
  BY <1>8, <1>9 DEF Sector
<1> QED
  BY <1>3, <1>4, <1>6, <1>7, <1>8, <1>10, <1>14, <1>15 DEF Whole

\* The used records of an MBR are those of its table, in its order.
LEMMA MbrRecords ==
  ASSUME MbrReadable, NEW table \in TablesFor("mbr")
  PROVE  /\ Len(scanMbrEntries(MbrTable(table), 0)) = Len(table)
         /\ \A n \in DOMAIN table : scanMbrEntries(MbrTable(table), 0)[n] = RecordOf(table[n])
<1>1. PICK L \in Nat : L = Len(table) /\ DOMAIN table = 1 .. L /\ L <= 4
  <2>1. PICK t \in Tables : t.scheme = "mbr" /\ t.table = table
    BY DEF TablesFor
  <2>2. DOMAIN table = 1 .. Len(table) /\ Len(table) <= 4 /\ Len(table) > 0
    BY <2>1, DiskStorageAssumption
  <2>3. Len(table) \in Nat
    OBVIOUS
  <2> QED
    BY <2>2, <2>3
<1>2. PICK c : c = MbrTable(table)
  OBVIOUS
<1>3. PICK f : f = RecordsOf(c)
  OBVIOUS
<1>4. f = [n \in 1 .. 4 |-> IF n \in DOMAIN table THEN RecordOf(table[n]) ELSE NoRecord]
  BY <1>2, <1>3 DEF RecordsOf, MbrTable, Mbr, RecordOf, StartOf
<1>5. ASSUME NEW n \in 1 .. L
      PROVE  /\ f[n] = RecordOf(table[n])
             /\ f[n].starting_lba # 0 /\ f[n].size_in_lba # 0
             /\ [f[n] EXCEPT !.starting_lba = (f[n].starting_lba + 0) % Word32] = RecordOf(table[n])
  <2>1. n \in 1 .. 4 /\ n \in DOMAIN table
    BY <1>1
  <2>2. f[n] = RecordOf(table[n])
    BY <1>4, <2>1
  <2>3. PICK a \in Nat \ {0}, b \in Nat \ {0} :
          a = table[n].offset \div sectorSize /\ b = table[n].size \div sectorSize /\ a < Word32
    BY <2>1, RecordNumbers
  <2>4. PICK type : RecordOf(table[n]) = Record(type, a, b)
    BY <2>3 DEF RecordOf, StartOf
  <2>5. (a + 0) % Word32 = a
    BY <2>3, DiskAssumption
  <2>6. [Record(type, a, b) EXCEPT !.starting_lba = a] = Record(type, a, b)
    BY DEF Record
  <2>7. Record(type, a, b).starting_lba = a /\ Record(type, a, b).size_in_lba = b
    BY DEF Record
  <2> QED
    BY <2>2, <2>3, <2>4, <2>5, <2>6, <2>7
<1>6. UsedRecords(c) = 1 .. L
  <2>1. DOMAIN f = 1 .. 4
    BY <1>4
  <2>2. \A n \in 1 .. 4 : n \notin 1 .. L => f[n].starting_lba = 0
    BY <1>1, <1>4 DEF NoRecord, Record
  <2>3. 1 .. L \subseteq 1 .. 4
    BY <1>1
  <2> QED
    BY <1>3, <1>5, <2>1, <2>2, <2>3 DEF UsedRecords
<1>7. \A n \in 0 .. L : Cardinality(1 .. n) = n
  BY FS_Interval
<1>8. \A n \in 1 .. L : Cardinality({m \in 1 .. L : m <= n}) = n
  <2> TAKE n \in 1 .. L
  <2>1. {m \in 1 .. L : m <= n} = 1 .. n
    OBVIOUS
  <2>2. n \in 0 .. L
    OBVIOUS
  <2> QED
    BY <1>7, <2>1, <2>2
<1>9. \A k \in 1 .. L : (CHOOSE n \in 1 .. L : Cardinality({m \in 1 .. L : m <= n}) = k) = k
  <2> TAKE k \in 1 .. L
  <2> DEFINE P(n) == Cardinality({m \in 1 .. L : m <= n}) = k
  <2>1. \E n \in 1 .. L : P(n)
    BY <1>8
  <2>2. PICK x : x = CHOOSE n \in 1 .. L : P(n)
    OBVIOUS
  <2> HIDE DEF P
  <2>3. x \in 1 .. L /\ P(x)
    BY <2>1, <2>2
  <2> USE DEF P
  <2>4. x = k
    BY <1>8, <2>3
  <2> QED
    BY <2>2, <2>4
<1>10. scanMbrEntries(c, 0) =
         [k \in 1 .. L |->
            [f[CHOOSE n \in 1 .. L : Cardinality({m \in 1 .. L : m <= n}) = k]
               EXCEPT !.starting_lba = (@ + 0) % Word32]]
  <2>1. Cardinality(1 .. L) = L
    BY <1>1, <1>7
  <2> QED
    BY <1>3, <1>6, <2>1 DEF scanMbrEntries
<1>11. PICK g : g = scanMbrEntries(c, 0)
  OBVIOUS
<1>12. DOMAIN g = 1 .. L
  BY <1>10, <1>11
<1>13. \A k \in 1 .. L : g[k] = RecordOf(table[k])
  BY <1>5, <1>9, <1>10, <1>11
<1>14. Len(g) = L
  BY <1>10, <1>11
<1> QED
  BY <1>1, <1>2, <1>11, <1>13, <1>14
\* A partition whose bytes can be counted in 32 bits.
Fits(p) ==
  Added(p, "mbr") /\ p.offset < Word32 /\ p.size - (p.size % sectorSize) < Word32

\* What a record holds of it.
LEMMA RecordFits ==
  ASSUME NEW p, Fits(p)
  PROVE  \E a \in Nat, b \in Nat, m \in Nat \ {0} :
           /\ m = sectorSize /\ a = p.offset \div sectorSize /\ b = p.size \div sectorSize
           /\ p.offset = a * m /\ p.size - (p.size % sectorSize) = b * m
           /\ a * m < Word32 /\ b * m < Word32
<1>1. PICK o \in Nat, s \in Nat : o = p.offset /\ s = p.size /\ o % sectorSize = 0
  BY DEF Fits, Added
<1>2. PICK a \in Nat, b \in Nat, m \in Nat \ {0} : Whole(o, s, a, b, m)
  BY <1>1, WholeSectors
<1> QED
  BY <1>1, <1>2 DEF Whole, Fits

LEMMA TableFits ==
  ASSUME MbrReadable, NEW table \in TablesFor("mbr"), NEW n \in DOMAIN table
  PROVE  /\ Fits(table[n]) /\ table[n].sysind \notin {"extended", "none"}
         /\ table[n].offset \div sectorSize \in Sector
<1>1. PICK t \in Tables : t.scheme = "mbr" /\ t.table = table
  BY DEF TablesFor
<1>2. Added(table[n], "mbr") /\ table[n].sysind \notin {"extended", "none"}
  BY <1>1, DiskStorageAssumption DEF MbrReadable
<1>3. /\ table[n].offset < Word32 /\ table[n].size - (table[n].size % sectorSize) < Word32
      /\ table[n].offset \div sectorSize \in Sector
  BY RecordNumbers
<1> QED
  BY <1>2, <1>3 DEF Fits

\* What the scanner makes of a record begins where the partition does.
LEMMA MbrPartLeads ==
  ASSUME NEW p, Fits(p), NEW c, NEW id
  PROVE  /\ MbrPart(RecordOf(p), c, id).offset = p.offset
         /\ MbrPart(RecordOf(p), c, id).offset \div sectorSize = p.offset \div sectorSize
<1>1. PICK a \in Nat, m \in Nat \ {0} :
        m = sectorSize /\ a = p.offset \div sectorSize /\ p.offset = a * m /\ a * m < Word32
  BY RecordFits
<1>2. RecordOf(p).starting_lba = a
  BY <1>1 DEF RecordOf, Record, StartOf
<1>3. PICK x \in Nat : x = a * m
  OBVIOUS
<1>4. x % Word32 = x
  BY <1>1, <1>3, DiskAssumption
<1>5. MbrPart(RecordOf(p), c, id).offset = (RecordOf(p).starting_lba * sectorSize) % Word32
  BY DEF MbrPart, Identified, PartInfo
<1>6. MbrPart(RecordOf(p), c, id).offset = x
  BY <1>1, <1>2, <1>3, <1>4, <1>5
<1>7. x \div m = a
  <2>1. 0 \in 0 .. m - 1
    OBVIOUS
  <2>2. (a * m + 0) \div m = a
    BY <2>1, DivUnique
  <2>3. a * m + 0 = x
    BY <1>3
  <2> QED
    BY <2>2, <2>3
<1> QED
  BY <1>1, <1>3, <1>6, <1>7

LEMMA RecordLeads ==
  ASSUME MbrReadable, NEW table \in TablesFor("mbr"), NEW n \in DOMAIN table, NEW c, NEW id
  PROVE  MbrPart(RecordOf(table[n]), c, id).offset \div sectorSize \in DataOf(table)
<1>1. PICK p : p = table[n] /\ Fits(p)
  BY TableFits
<1>2. MbrPart(RecordOf(p), c, id).offset \div sectorSize = p.offset \div sectorSize
  BY <1>1, MbrPartLeads
<1> QED
  BY <1>1, <1>2, FirstSector

\* The scanner makes of a record, with the number that it gives to the partition, what a
\* scan must find.
LEMMA MbrPartFound ==
  ASSUME AllCounted, NEW p, NEW scheme, NEW n, Fits(p), p.sysind \notin {"extended", "none"},
         p.offset \div sectorSize \in Sector, scheme = "mbr" \/ p.id = n
  PROVE  MbrPart(RecordOf(p), view[RecordOf(p).starting_lba], n) = Found(p, scheme, n)
<1>1. PICK a \in Nat, b \in Nat, m \in Nat \ {0} :
        /\ m = sectorSize /\ a = p.offset \div sectorSize /\ b = p.size \div sectorSize
        /\ p.offset = a * m /\ p.size - (p.size % sectorSize) = b * m
        /\ a \in Sector /\ a * m < Word32 /\ b * m < Word32
  BY RecordFits
<1>2. (IF scheme = "mbr" THEN n ELSE p.id) = n
  OBVIOUS
<1>3. Added(p, "mbr") /\ p.sysind \notin {"extended", "none"}
  BY DEF Fits
<1>4. PICK c : c = view[a] /\ Counted(c)
  BY <1>1 DEF AllCounted
<1>5. PICK offset \in Nat, size \in Nat :
        /\ offset = a * m /\ size = b * m
        /\ p.offset = offset /\ p.size - (p.size % sectorSize) = size
  <2>1. PICK x \in Nat, y \in Nat : x = a * m /\ y = b * m
    OBVIOUS
  <2> QED
    BY <1>1, <2>1
<1>6. PICK sysind, fs : sysind = p.sysind /\ sysind # "none" /\ fs = getSysTypeFromIndicator(sysind)
  BY <1>3
<1>7. RecordOf(p) = Record(sysind, a, b)
  BY <1>1, <1>6 DEF RecordOf, StartOf
<1>8. PICK type, systype, id, s : p = PartInfo(type, systype, NoGuid, sysind, id, offset, s)
  BY <1>3, <1>5, <1>6 DEF Added
<1>9. p.typeGuid.base # "sming"
  BY <1>3 DEF Added, NoGuid
<1>10. offset % Word32 = offset /\ size % Word32 = size
  <2>1. PICK w \in Nat \ {0} : w = Word32
    BY DiskAssumption
  <2>2. offset < w /\ size < w
    BY <1>1, <1>5, <2>1
  <2>3. \A x \in Nat : x < w => x % w = x
    OBVIOUS
  <2> QED
    BY <2>1, <2>2, <2>3
<1>11. fs # "unknown" <=> fs \in fatTypes
  BY <1>6 DEF getSysTypeFromIndicator, fatTypes
<1>12. ASSUME NEW size2, NEW type2
       PROVE  [p EXCEPT !.id = n, !.size = size2, !.type = type2, !.systype = fs]
                = PartInfo(type2, fs, NoGuid, sysind, n, offset, size2)
  <2>1. PICK q : q = [p EXCEPT !.id = n]
    OBVIOUS
  <2>2. PICK r : r = [q EXCEPT !.size = size2]
    OBVIOUS
  <2>3. PICK u : u = [r EXCEPT !.type = type2]
    OBVIOUS
  <2>4. PICK v : v = [u EXCEPT !.systype = fs]
    OBVIOUS
  <2>5. q = PartInfo(type, systype, NoGuid, sysind, n, offset, s)
    BY <1>8, <2>1 DEF PartInfo
  <2>6. r = PartInfo(type, systype, NoGuid, sysind, n, offset, size2)
    BY <2>2, <2>5 DEF PartInfo
  <2>7. u = PartInfo(type2, systype, NoGuid, sysind, n, offset, size2)
    BY <2>3, <2>6 DEF PartInfo
  <2>8. v = PartInfo(type2, fs, NoGuid, sysind, n, offset, size2)
    BY <2>4, <2>7 DEF PartInfo
  <2>9. v = [p EXCEPT !.id = n, !.size = size2, !.type = type2, !.systype = fs]
    BY <2>1, <2>2, <2>3, <2>4
  <2> QED
    BY <2>8, <2>9
<1>13. PICK part : part = Identified(c, NoGuid, sysind, n, offset, size)
  OBVIOUS
<1>14. PICK type2 : type2 = IF part.type = NoType /\ fs \in fatTypes THEN "fat" ELSE part.type
  OBVIOUS
<1>15. MbrPart(RecordOf(p), c, n) = [part EXCEPT !.systype = fs, !.type = type2]
  <2>1. /\ RecordOf(p).os_type = sysind /\ RecordOf(p).starting_lba = a
        /\ RecordOf(p).size_in_lba = b
    BY <1>7 DEF Record
  <2>2. /\ (RecordOf(p).starting_lba * sectorSize) % Word32 = offset
        /\ (RecordOf(p).size_in_lba * sectorSize) % Word32 = size
    BY <1>1, <1>5, <1>10, <2>1
  <2> QED
    BY <1>6, <1>13, <1>14, <2>1, <2>2 DEF MbrPart
<1>16. ASSUME NEW type1, NEW systype1, NEW size1,
              part = PartInfo(type1, systype1, NoGuid, sysind, n, offset, size1)
       PROVE  /\ MbrPart(RecordOf(p), c, n) = PartInfo(type2, fs, NoGuid, sysind, n, offset, size1)
              /\ part.type = type1
  <2>1. PICK u : u = [part EXCEPT !.systype = fs]
    OBVIOUS
  <2>2. PICK v : v = [u EXCEPT !.type = type2]
    OBVIOUS
  <2>3. u = PartInfo(type1, fs, NoGuid, sysind, n, offset, size1)
    BY <1>16, <2>1 DEF PartInfo
  <2>4. v = PartInfo(type2, fs, NoGuid, sysind, n, offset, size1)
    BY <2>2, <2>3 DEF PartInfo
  <2>5. v = [part EXCEPT !.systype = fs, !.type = type2]
    BY <2>1, <2>2
  <2>6. part.type = type1
    BY <1>16 DEF PartInfo
  <2> QED
    BY <1>15, <2>4, <2>5, <2>6
<1>17. view[RecordOf(p).starting_lba] = c
  BY <1>2, <1>4, <1>7 DEF Record
<1>18. CASE c.kind # "boot"
  <2>1. part = PartInfo(NoType, "unknown", NoGuid, sysind, n, offset, size)
    BY <1>13, <1>18 DEF Identified
  <2>2. PICK unknown : unknown = "unknown"
    OBVIOUS
  <2>3. part = PartInfo(NoType, unknown, NoGuid, sysind, n, offset, size)
    BY <2>1, <2>2
  <2>4. /\ MbrPart(RecordOf(p), c, n) = PartInfo(type2, fs, NoGuid, sysind, n, offset, size)
        /\ part.type = NoType
    BY <1>16, <2>3
  <2>5. type2 = IF fs # "unknown" THEN "fat" ELSE NoType
    BY <1>11, <1>14, <2>4
  <2>6. Found(p, scheme, n) = [p EXCEPT !.id = n, !.size = size, !.type = type2, !.systype = fs]
    BY <1>1, <1>2, <1>4, <1>5, <1>6, <1>9, <1>18, <2>5 DEF Found
  <2>7. [p EXCEPT !.id = n, !.size = size, !.type = type2, !.systype = fs]
          = PartInfo(type2, fs, NoGuid, sysind, n, offset, size)
    BY <1>12
  <2> QED
    BY <1>2, <1>17, <2>4, <2>6, <2>7
<1>19. CASE c.kind = "boot"
  <2>1. PICK bytes \in Nat : bytes = c.sectors * sectorSize /\ (c.systype # "exfat" => bytes < Word32)
    <3>1. c.sectors \in Nat /\ (c.systype # "exfat" => c.sectors * sectorSize < Word32)
      BY <1>4, <1>19 DEF Counted
    <3>2. PICK x \in Nat : x = c.sectors
      BY <3>1
    <3>3. x * m \in Nat
      OBVIOUS
    <3> QED
      BY <1>1, <3>1, <3>2, <3>3
  <2>2. (IF c.systype = "exfat" THEN bytes ELSE bytes % Word32) = bytes
    BY <2>1, DiskAssumption
  <2>3. PICK fat, systype1 :
          /\ fat = "fat" /\ fat # NoType
          /\ part = PartInfo(fat, systype1, NoGuid, sysind, n, offset, bytes)
    BY <1>13, <1>19, <2>1, <2>2 DEF Identified, NoType
  <2>4. /\ MbrPart(RecordOf(p), c, n) = PartInfo(type2, fs, NoGuid, sysind, n, offset, bytes)
        /\ part.type = fat
    BY <1>16, <2>3
  <2>5. type2 = "fat"
    BY <1>14, <2>3, <2>4
  <2>6. Found(p, scheme, n) = [p EXCEPT !.id = n, !.size = bytes, !.type = type2, !.systype = fs]
    BY <1>1, <1>2, <1>4, <1>6, <1>9, <1>19, <2>1, <2>5 DEF Found
  <2>7. [p EXCEPT !.id = n, !.size = bytes, !.type = type2, !.systype = fs]
          = PartInfo(type2, fs, NoGuid, sysind, n, offset, bytes)
    BY <1>12
  <2> QED
    BY <1>2, <1>17, <2>4, <2>6, <2>7
<1> QED
  BY <1>18, <1>19

LEMMA RecordFound ==
  ASSUME MbrReadable, AllCounted, NEW table \in TablesFor("mbr"), NEW n \in DOMAIN table
  PROVE  MbrPart(RecordOf(table[n]), view[RecordOf(table[n]).starting_lba], n)
           = Found(table[n], "mbr", n)
<1>1. PICK p : /\ p = table[n] /\ Fits(p) /\ p.sysind \notin {"extended", "none"}
               /\ p.offset \div sectorSize \in Sector
  BY TableFits
<1>2. MbrPart(RecordOf(p), view[RecordOf(p).starting_lba], n) = Found(p, "mbr", n)
  BY <1>1, MbrPartFound
<1> QED
  BY <1>1, <1>2

(***************************************************************************)
(* MBR disks: the application                                              *)
(***************************************************************************)

LEMMA MbrSettled ==
  ASSUME Inv, MbrKept, written.scheme = "mbr"
  PROVE  /\ written.table \in TablesFor("mbr") /\ written # None /\ fmt = NotFormatting
         /\ view[0] = MbrTable(written.table) /\ medium[0] = MbrTable(written.table)
         /\ \A p \in partitions : p.offset # 0 => p.offset \div sectorSize \in DataOf(written.table)
<1>1. written \in Tables /\ written # None
  BY DEF MbrKept, None
<1>2. written.table \in TablesFor("mbr")
  BY <1>1 DEF TablesFor
<1>3. fmt = NotFormatting
  BY <1>1 DEF Inv, Written
<1> QED
  BY <1>1, <1>2, <1>3 DEF MbrKept

\* No partition has the sector of the MBR.
LEMMA MbrApart ==
  ASSUME NEW table \in TablesFor("mbr")
  PROVE  0 \in Sector /\ 0 \notin DataOf(table)
<1>1. PICK f \in Nat \ {0}, D \in Nat \ {0} : f = partAlignSectors /\ D = driveSectors
  BY FormatAssumption, DiskAssumption
<1>2. DataOf(table) \subseteq f .. D - 1
  BY <1>1, TableFacts DEF Space
<1> QED
  BY <1>1, <1>2 DEF Sector

LEMMA ForgottenMbr ==
  ASSUME scanned' = NotScanned, scan' = NotScanning
  PROVE  MbrProgress' /\ MbrFound' /\ Forgotten'
BY DEF MbrProgress, MbrFound, RoundTrip, Forgotten, NotScanned, NotScanning

\* Outside of formatDisk there is nothing to keep of its progress.
LEMMA IdleMbr ==
  ASSUME fmt' = NotFormatting
  PROVE  MbrWritten'
BY DEF MbrWritten, NotFormatting

LEMMA SameMbrUpTo ==
  ASSUME view' = view, NEW table, NEW m
  PROVE  MbrUpTo(table, m)' = MbrUpTo(table, m)
BY DEF MbrUpTo, Found

LEMMA SameMbr ==
  ASSUME MbrWritten, MbrProgress, MbrFound, Forgotten,
         UNCHANGED <<view, partitions, fmt, scan, scanned, written, mixed>>
  PROVE  MbrWritten' /\ MbrProgress' /\ MbrFound' /\ Forgotten'
<1>1. MbrWritten'
  BY DEF MbrWritten
<1>2. MbrProgress'
  <2>1. PICK table, m : table = written.table /\ m = scan.partitionIndex
    OBVIOUS
  <2>2. MbrUpTo(table, m)' = MbrUpTo(table, m)
    BY SameMbrUpTo
  <2>3. table = written.table' /\ m = scan.partitionIndex'
    BY <2>1
  <2>4. MbrUpTo(written.table, scan.partitionIndex)' = MbrUpTo(table, m)'
    BY <2>3
  <2> QED
    BY <2>1, <2>2, <2>4 DEF MbrProgress
<1>3. MbrFound'
  BY DEF MbrFound, RoundTrip, Expected, Found
<1>4. Forgotten'
  BY DEF Forgotten
<1> QED
  BY <1>1, <1>2, <1>3, <1>4

LEMMA StartFormatMbr ==
  ASSUME StartFormat
  PROVE  MbrKept' /\ MbrWritten' /\ MbrProgress' /\ MbrFound' /\ Forgotten'
<1>1. written' = None /\ scanned' = NotScanned
  BY DEF StartFormat
<1>2. fmt'.pc # "sync"
  BY DEF StartFormat, BeginFormat
<1> QED
  BY <1>1, <1>2 DEF MbrKept, MbrWritten, MbrProgress, MbrFound, Forgotten, None

LEMMA StartScanMbr ==
  ASSUME MbrKept, StartScan
  PROVE  MbrKept' /\ MbrWritten' /\ MbrProgress' /\ MbrFound' /\ Forgotten'
<1>1. /\ scan = NotScanning /\ scan' = [scan EXCEPT !.pc = "sector0"] /\ scanned' = NotScanned
      /\ partitions' = {} /\ fmt' = NotFormatting /\ UNCHANGED <<view, medium, written>>
  BY DEF StartScan, BeginScan, device, Idle
<1>2. scan'.pc = "sector0" /\ scan'.mbrPartID = 0
  BY <1>1 DEF NotScanning
<1>3. MbrKept'
  BY <1>1 DEF MbrKept
<1>4. MbrProgress'
  BY <1>1, <1>2 DEF MbrProgress
<1>5. MbrFound' /\ Forgotten'
  BY <1>1 DEF MbrFound, RoundTrip, Forgotten, NotScanned
<1> QED
  BY <1>1, <1>3, <1>4, <1>5, IdleMbr

LEMMA UsePartitionMbr ==
  ASSUME Inv, MbrKept, UsePartition
  PROVE  MbrKept' /\ MbrWritten' /\ MbrProgress' /\ MbrFound' /\ Forgotten'
<1>1. PICK p \in partitions : p.offset # 0 /\ Write(p.offset \div sectorSize, Boot("fat16", 1))
  BY DEF UsePartition
<1>2. PICK s : s = p.offset \div sectorSize /\ view' = [view EXCEPT ![s] = Boot("fat16", 1)]
  BY <1>1 DEF Write
<1>3. /\ scanned' = NotScanned /\ scan' = NotScanning /\ fmt' = NotFormatting
      /\ UNCHANGED <<medium, partitions, written>>
  BY <1>1 DEF UsePartition, Idle, Write
<1>4. MbrKept'
  <2> SUFFICES ASSUME written.scheme = "mbr"
               PROVE  MbrKept'
    BY <1>3 DEF MbrKept
  <2>1. PICK table \in TablesFor("mbr") : table = written.table
    BY MbrSettled
  <2>2. s \in DataOf(table)
    BY <1>1, <1>2, <2>1, MbrSettled
  <2>3. view'[0] = view[0]
    BY <1>2, <2>2, MbrApart DEF Inv, Scans
  <2> QED
    BY <1>3, <2>3 DEF MbrKept
<1> QED
  BY <1>3, <1>4, ForgottenMbr, IdleMbr

LEMMA PowerLossMbr ==
  ASSUME MbrKept, PowerLoss
  PROVE  MbrKept' /\ MbrWritten' /\ MbrProgress' /\ MbrFound' /\ Forgotten'
<1>1. /\ view' = medium /\ medium' = medium /\ partitions' = {} /\ fmt' = NotFormatting
      /\ scan' = NotScanning /\ scanned' = NotScanned /\ UNCHANGED written
  BY DEF PowerLoss, Reset
<1>2. MbrKept'
  BY <1>1 DEF MbrKept
<1> QED
  BY <1>1, <1>2, ForgottenMbr, IdleMbr

LEMMA WriteBackMbr ==
  ASSUME Inv, MbrKept, MbrWritten, MbrProgress, MbrFound, Forgotten, WriteBack
  PROVE  MbrKept' /\ MbrWritten' /\ MbrProgress' /\ MbrFound' /\ Forgotten'
<1>1. UNCHANGED <<view, partitions, fmt, scan, scanned, written, mixed>>
  BY DEF WriteBack, Flush
<1>2. PICK s \in Sector : medium' = [medium EXCEPT ![s] = view[s]]
  BY DEF WriteBack, Flush
<1>3. medium'[0] = medium[0] \/ medium'[0] = view[0]
  <2>1. DOMAIN medium = Sector /\ 0 \in Sector
    BY DiskAssumption DEF Inv, Scans, Sector
  <2> QED
    BY <1>2, <2>1
<1>4. MbrKept'
  BY <1>1, <1>3 DEF MbrKept
<1> QED
  BY <1>1, <1>4, SameMbr

\* formatDisk has written the MBR before it reports success, and hands out the
\* partitions of its table.
LEMMA FormattingMbr ==
  ASSUME Inv, MbrWritten, Forgotten, Formatting
  PROVE  MbrKept' /\ MbrWritten' /\ MbrProgress' /\ MbrFound' /\ Forgotten'
<1>1. fmt.pc # "idle"
  BY DEF Formatting, FormatStep, WriteEntries, WriteEntriesCopy, WriteHeader, WriteHeaderCopy,
         WriteProtectiveMbr, WriteMbr, SyncDisk
<1>2. written = None /\ scan = NotScanning /\ scanned = NotScanned
  BY <1>1 DEF Inv, Written, Forgotten
<1>3. scan' = NotScanning /\ scanned' = NotScanned
  BY <1>2 DEF Formatting
<1>4. MbrProgress' /\ MbrFound' /\ Forgotten'
  BY <1>3, ForgottenMbr
<1>5. FormatRecord
  BY DEF Inv, Written
<1>6. CASE SyncDisk
  <2>1. fmt.pc = "sync" /\ fmt' = NotFormatting /\ view' = view
    BY <1>6 DEF SyncDisk, Sync, device
  <2>2. MbrKept'
    <3>1. CASE UNCHANGED written
      BY <1>2, <3>1 DEF MbrKept, None
    <3>2. CASE ~UNCHANGED written
      <4>1. PICK t \in Tables : t.table = fmt.table /\ written' = t
        BY <3>2 DEF Formatting
      <4>2. medium' = view /\ partitions' = {fmt.table[n] : n \in DOMAIN fmt.table}
        BY <1>6, <3>2 DEF Formatting, SyncDisk, Sync
      <4> SUFFICES ASSUME t.scheme = "mbr"
                   PROVE  MbrKept'
        BY <4>1 DEF MbrKept
      <4>3. PICK table \in TablesFor("mbr") : table = t.table
        BY DEF TablesFor
      <4>4. view[0] = MbrTable(table)
        BY <2>1, <4>1, <4>3 DEF MbrWritten
      <4>5. \A p \in partitions' : p.offset \div sectorSize \in DataOf(table)
        BY <4>1, <4>2, <4>3, FirstSector
      <4> QED
        BY <2>1, <4>1, <4>2, <4>3, <4>4, <4>5 DEF MbrKept
    <3> QED
      BY <3>1, <3>2
  <2> QED
    BY <1>4, <2>1, <2>2, IdleMbr
<1>7. CASE ~SyncDisk
  <2>1. PICK s, c, pc, k :
          /\ WriteSector(s, c, pc, k) /\ pc # "idle"
          /\ pc = "sync" => s = 0 /\ (fmt.table \in TablesFor("mbr") => c = MbrTable(fmt.table))
    <3>1. fmt.pc = "pmbr" => fmt.table \notin TablesFor("mbr")
      BY OneScheme DEF Inv, Written
    <3>2. CASE WriteEntries \/ WriteEntriesCopy
      BY <3>2 DEF WriteEntries, WriteEntriesCopy
    <3>3. CASE WriteHeader \/ WriteHeaderCopy
      BY <3>3 DEF WriteHeader, WriteHeaderCopy
    <3>4. CASE WriteProtectiveMbr \/ WriteMbr
      BY <3>1, <3>4 DEF WriteProtectiveMbr, WriteMbr
    <3> QED
      BY <1>7, <3>2, <3>3, <3>4 DEF Formatting, FormatStep
  <2>2. \/ fmt' = [fmt EXCEPT !.pc = pc, !.k = k] /\ view' = [view EXCEPT ![s] = c]
        \/ fmt' = NotFormatting /\ error' = "WriteFailure"
    BY <2>1 DEF WriteSector, Write
  <2>3. CASE fmt' = NotFormatting /\ error' = "WriteFailure"
    <3>1. UNCHANGED written
      BY <2>3 DEF Formatting
    <3> QED
      BY <1>2, <1>4, <2>3, <3>1, IdleMbr DEF MbrKept, None
  <2>4. CASE fmt' = [fmt EXCEPT !.pc = pc, !.k = k] /\ view' = [view EXCEPT ![s] = c]
    <3>1. fmt'.pc = pc /\ fmt'.table = fmt.table
      BY <1>5, <2>4 DEF FormatRecord
    <3>2. UNCHANGED written
      <4>1. fmt' # NotFormatting
        BY <2>1, <3>1 DEF NotFormatting
      <4> QED
        BY <4>1 DEF Formatting
    <3>3. 0 \in DOMAIN view
      BY DiskAssumption DEF Inv, Scans, Sector
    <3>4. MbrWritten'
      BY <2>1, <2>4, <3>1, <3>3 DEF MbrWritten
    <3> QED
      BY <1>2, <1>4, <3>2, <3>4 DEF MbrKept, None
  <2> QED
    BY <2>2, <2>3, <2>4
<1> QED
  BY <1>6, <1>7
(***************************************************************************)
(* MBR disks: the scanner                                                  *)
(***************************************************************************)

\* No record has been looked at, one more, or all.
LEMMA MbrUpToNext ==
  ASSUME NEW table \in TablesFor("mbr"), NEW a \in Nat
  PROVE  /\ MbrUpTo(table, 0) = {}
         /\ a + 1 \in DOMAIN table =>
              MbrUpTo(table, a + 1) = MbrUpTo(table, a) \cup {Found(table[a + 1], "mbr", a + 1)}
<1>1. DOMAIN table \subseteq Nat \ {0}
  <2>1. PICK t \in Tables : t.table = table
    BY DEF TablesFor
  <2>2. DOMAIN table = 1 .. Len(table)
    BY <2>1, DiskStorageAssumption
  <2> QED
    BY <2>2
<1>2. {k \in DOMAIN table : k <= 0} = {}
  BY <1>1
<1>3. a + 1 \in DOMAIN table => {k \in DOMAIN table : k <= a + 1} = {k \in DOMAIN table : k <= a} \cup {a + 1}
  BY <1>1
<1> QED
  BY <1>2, <1>3 DEF MbrUpTo

LEMMA MbrLength ==
  ASSUME NEW table \in TablesFor("mbr")
  PROVE  \E L \in Nat : L = Len(table) /\ DOMAIN table = 1 .. L /\ L <= 4
<1>1. PICK t \in Tables : t.scheme = "mbr" /\ t.table = table
  BY DEF TablesFor
<1>2. DOMAIN table = 1 .. Len(table) /\ Len(table) <= 4
  BY <1>1, DiskStorageAssumption
<1>3. Len(table) \in Nat
  OBVIOUS
<1> QED
  BY <1>2, <1>3

LEMMA ScanMbrFound ==
  /\ scan'.pc # "idle" => MbrFound'
  /\ scan' = NotScanning => MbrProgress'
BY DEF MbrFound, RoundTrip, MbrProgress, NotScanning

\* An MBR of formatDisk's is one to the scanner, and its records are those of the table.
LEMMA LoadSector0Mbr ==
  ASSUME MbrReadable, Inv, MbrKept, MbrProgress, Scanning, LoadSector0, written.scheme = "mbr"
  PROVE  MbrKept' /\ MbrProgress' /\ MbrFound'
<1>1. PICK table \in TablesFor("mbr") : table = written.table /\ view[0] = MbrTable(table)
  BY MbrSettled
<1>2. scan.pc = "sector0" /\ UNCHANGED <<view, medium, written>>
  BY DEF LoadSector0, Scanning, device
<1>3. view[0].kind = "mbr"
  BY <1>1 DEF MbrTable, Mbr
<1>4. PICK entries :
        /\ entries = scanMbrEntries(MbrTable(table), 0)
        /\ scan' = [scan EXCEPT !.pc = "record", !.state = "MBR", !.mbrEntries = entries,
                                !.numPartitionEntries = Len(entries)]
        /\ UNCHANGED partitions
  BY <1>1, <1>3 DEF LoadSector0
<1>5. /\ scan'.pc = "record" /\ scan'.fault = scan.fault /\ scan'.partitionIndex = scan.partitionIndex
      /\ scan'.mbrPartID = scan.mbrPartID /\ scan'.mbrEntries = entries
      /\ scan'.numPartitionEntries = Len(entries)
  BY <1>4 DEF Inv, Scans, ScanRecord, NotScanning
<1>6. scan.partitionIndex = 0 /\ scan.mbrPartID = 0
  BY <1>2 DEF Inv, Scans, MbrProgress
<1>7. Len(entries) = Len(table) /\ \A n \in DOMAIN table : entries[n] = RecordOf(table[n])
  BY <1>4, MbrRecords
<1>8. MbrUpTo(written.table, scan.partitionIndex)' = {}
  <2>1. MbrUpTo(table, 0) = {}
    BY MbrUpToNext
  <2>2. MbrUpTo(table, 0)' = {}
    BY <1>2, <2>1, SameMbrUpTo
  <2>3. table = written.table' /\ scan.partitionIndex' = 0
    BY <1>1, <1>2, <1>5, <1>6
  <2> QED
    BY <2>2, <2>3
<1>9. ~scan.fault => partitions = {}
  BY <1>2 DEF MbrProgress
<1>10. MbrProgress'
  BY <1>1, <1>2, <1>4, <1>5, <1>6, <1>7, <1>8, <1>9 DEF MbrProgress
<1>11. MbrKept'
  BY <1>2, <1>4 DEF MbrKept
<1> QED
  BY <1>5, <1>10, <1>11, ScanMbrFound

\* One record more: its partition has been found, with its number.
LEMMA TakeRecordMbr ==
  ASSUME MbrReadable, Inv, MbrKept, AllCounted, MbrProgress, Scanning, TakeRecord,
         written.scheme = "mbr"
  PROVE  MbrKept' /\ MbrProgress' /\ MbrFound'
<1>1. PICK table \in TablesFor("mbr") :
        /\ table = written.table
        /\ \A p \in partitions : p.offset # 0 => p.offset \div sectorSize \in DataOf(table)
  BY MbrSettled
<1>2. PICK L \in Nat : L = Len(table) /\ DOMAIN table = 1 .. L /\ L <= 4
  BY MbrLength
<1>3. scan.pc = "record" /\ More /\ UNCHANGED <<view, medium, written>>
  BY DEF TakeRecord, Scanning, device
<1>4. PICK a \in Nat : a = scan.partitionIndex /\ a < L
  <2>1. scan.numPartitionEntries = L
    BY <1>1, <1>2, <1>3 DEF MbrProgress
  <2> QED
    BY <1>3, <2>1 DEF More, Inv, Scans
<1>5. PICK n \in DOMAIN table : n = a + 1
  <2>1. a + 1 \in 1 .. L
    BY <1>4
  <2> QED
    BY <1>2, <2>1
<1>6. PICK rec : rec = scan.mbrEntries[n] /\ rec = RecordOf(table[n])
  BY <1>1, <1>3 DEF MbrProgress
<1>7. rec.os_type # "extended"
  <2>1. PICK t \in Tables : t.scheme = "mbr" /\ t.table = table
    BY DEF TablesFor
  <2> QED
    BY <1>6, <2>1 DEF MbrReadable, RecordOf, Record
<1>8. PICK id : id = (scan.mbrPartID + 1) % Word16
  OBVIOUS
<1>9. \/ /\ scan' = [scan EXCEPT !.partitionIndex = n, !.fault = TRUE]
         /\ UNCHANGED partitions
      \/ /\ scan' = [scan EXCEPT !.partitionIndex = n, !.mbrPartID = id]
         /\ partitions' = partitions \cup {MbrPart(rec, view[rec.starting_lba], id)}
  BY <1>4, <1>5, <1>6, <1>7, <1>8 DEF TakeRecord
<1>10. /\ scan.numPartitionEntries = L
       /\ \A k \in DOMAIN table : scan.mbrEntries[k] = RecordOf(table[k])
  BY <1>1, <1>2, <1>3 DEF MbrProgress
<1>11. CASE /\ scan' = [scan EXCEPT !.partitionIndex = n, !.fault = TRUE]
            /\ UNCHANGED partitions
  <2>1. /\ scan'.pc = "record" /\ scan'.fault = TRUE /\ scan'.mbrEntries = scan.mbrEntries
        /\ scan'.numPartitionEntries = scan.numPartitionEntries
    BY <1>3, <1>11 DEF Inv, Scans, ScanRecord, NotScanning
  <2>2. MbrProgress'
    BY <1>1, <1>2, <1>3, <1>10, <2>1 DEF MbrProgress
  <2>3. MbrKept'
    BY <1>3, <1>11 DEF MbrKept
  <2> QED
    BY <2>1, <2>2, <2>3, ScanMbrFound
<1>12. CASE /\ scan' = [scan EXCEPT !.partitionIndex = n, !.mbrPartID = id]
            /\ partitions' = partitions \cup {MbrPart(rec, view[rec.starting_lba], id)}
  <2>1. /\ scan'.pc = "record" /\ scan'.fault = scan.fault /\ scan'.mbrEntries = scan.mbrEntries
        /\ scan'.numPartitionEntries = scan.numPartitionEntries
        /\ scan'.partitionIndex = n /\ scan'.mbrPartID = id
    BY <1>3, <1>12 DEF Inv, Scans, ScanRecord, NotScanning
  <2>2. ASSUME ~scan.fault
        PROVE  id = n /\ partitions' = MbrUpTo(table, n)
    <3>1. scan.mbrPartID = a /\ partitions = MbrUpTo(table, a)
      BY <1>1, <1>3, <1>4, <2>2 DEF MbrProgress
    <3>2. id = n
      BY <1>2, <1>4, <1>5, <1>8, <3>1 DEF Word16
    <3>3. MbrPart(rec, view[rec.starting_lba], id) = Found(table[n], "mbr", n)
      BY <1>6, <3>2, RecordFound
    <3>4. partitions' = MbrUpTo(table, a) \cup {Found(table[n], "mbr", n)}
      BY <1>12, <3>1, <3>3
    <3>5. MbrUpTo(table, a + 1) = MbrUpTo(table, a) \cup {Found(table[a + 1], "mbr", a + 1)}
      BY <1>5, MbrUpToNext
    <3> QED
      BY <1>5, <3>2, <3>4, <3>5
  <2>3. MbrUpTo(written.table, scan.partitionIndex)' = MbrUpTo(table, n)
    <3>1. table = written.table' /\ n = scan.partitionIndex'
      BY <1>1, <1>3, <2>1
    <3>2. MbrUpTo(written.table, scan.partitionIndex)' = MbrUpTo(table, n)'
      BY <3>1
    <3> QED
      BY <1>3, <3>2, SameMbrUpTo
  <2>4. MbrProgress'
    BY <1>1, <1>2, <1>3, <1>10, <2>1, <2>2, <2>3 DEF MbrProgress
  <2>5. MbrPart(rec, view[rec.starting_lba], id).offset \div sectorSize \in DataOf(table)
    BY <1>6, RecordLeads
  <2>6. \A p \in partitions' : p.offset # 0 => p.offset \div sectorSize \in DataOf(table)
    BY <1>1, <1>12, <2>5
  <2>7. MbrKept'
    BY <1>1, <1>3, <2>6 DEF MbrKept
  <2> QED
    BY <2>1, <2>4, <2>7, ScanMbrFound
<1> QED
  BY <1>9, <1>11, <1>12

\* After the last record everything has been found.
LEMMA ScanDoneMbr ==
  ASSUME Inv, MbrKept, MbrProgress, Scanning, ScanDone, written.scheme = "mbr"
  PROVE  MbrKept' /\ MbrProgress' /\ MbrFound'
<1>1. PICK table \in TablesFor("mbr") : table = written.table
  BY MbrSettled
<1>2. PICK L \in Nat : L = Len(table) /\ DOMAIN table = 1 .. L
  BY MbrLength
<1>3. /\ scan.pc \in {"entries", "entry", "record"} /\ ~More
      /\ ScanEnds("done", scan.fault) /\ UNCHANGED <<view, medium, partitions, written>>
  BY DEF ScanDone, Scanning, device
<1>4. scan.pc = "record"
  BY <1>3 DEF MbrProgress
<1>5. scan.partitionIndex = L
  <2>1. scan.numPartitionEntries = L
    BY <1>1, <1>2, <1>4 DEF MbrProgress
  <2> QED
    BY <1>3, <2>1 DEF More, Inv, Scans
<1>6. ~scan.fault => partitions = MbrUpTo(table, L)
  BY <1>1, <1>4, <1>5 DEF MbrProgress
<1>7. MbrUpTo(table, L) = Expected(written)
  <2>1. {k \in DOMAIN table : k <= L} = DOMAIN table
    BY <1>2
  <2>2. {m \in DOMAIN written.table : written.scheme = "gpt" => m <= GPT_ITEMS} = DOMAIN table
    BY <1>1
  <2> QED
    BY <1>1, <2>1, <2>2 DEF MbrUpTo, Expected
<1>8. Expected(written)' = Expected(written)
  BY <1>3 DEF Expected, Found
<1>9. scanned'.ok /\ scanned'.fault = scan.fault
  BY <1>3 DEF ScanEnds
<1>10. MbrFound'
  BY <1>3, <1>6, <1>7, <1>8, <1>9 DEF MbrFound, RoundTrip
<1>11. MbrProgress'
  BY <1>3, ScanMbrFound DEF ScanEnds
<1>12. MbrKept'
  BY <1>3 DEF MbrKept
<1> QED
  BY <1>10, <1>11, <1>12

LEMMA ScanningMbr ==
  ASSUME MbrReadable, MbrInv, Scanning
  PROVE  MbrKept' /\ MbrWritten' /\ MbrProgress' /\ MbrFound' /\ Forgotten'
<1>1. Inv /\ MbrKept /\ AllCounted /\ MbrProgress
  BY DEF MbrInv
<1>2. UNCHANGED <<view, medium, written, fmt>> /\ scan.pc # "idle"
  BY DEF Scanning, ScanStep, ReadFails, NoBuffer, LoadSector0, FoundProtective, LoadHeader,
     LoadEntries, TakeEntry, TakeRecord, ScanDone, device
<1>3. fmt' = NotFormatting
  BY <1>1, <1>2 DEF Inv, Written, NotScanning
<1>4. MbrWritten' /\ Forgotten'
  BY <1>3, IdleMbr DEF Forgotten, NotFormatting
<1>5. CASE written.scheme # "mbr"
  BY <1>2, <1>4, <1>5 DEF MbrKept, MbrProgress, MbrFound
<1>6. CASE written.scheme = "mbr"
  <2>1. PICK table \in TablesFor("mbr") : view[0] = MbrTable(table)
    BY <1>1, <1>6, MbrSettled
  <2>2. ~IsProtective(view[0])
    <3>1. 1 \in DOMAIN table /\ table[1].sysind # "gpt"
      BY TableFacts
    <3> QED
      BY <2>1, <3>1 DEF MbrTable, Mbr, Record, IsProtective
  <2>3. scan.pc \in {"sector0", "record"}
    BY <1>1, <1>2, <1>6 DEF MbrProgress
  <2>4. ~FoundProtective /\ ~LoadHeader /\ ~LoadEntries /\ ~TakeEntry
    BY <2>2, <2>3 DEF FoundProtective, LoadHeader, LoadEntries, TakeEntry
  <2>5. CASE ReadFails \/ NoBuffer
    <3>1. UNCHANGED partitions /\ \E state : ScanEnds(state, TRUE)
      BY <2>5 DEF ReadFails, NoBuffer
    <3>2. MbrKept'
      BY <1>1, <1>2, <3>1 DEF MbrKept
    <3>3. MbrProgress' /\ MbrFound'
      BY <3>1, ScanMbrFound DEF ScanEnds, MbrFound, RoundTrip
    <3> QED
      BY <1>4, <3>2, <3>3
  <2> QED
    BY <1>1, <1>4, <1>6, <2>4, <2>5, LoadSector0Mbr, TakeRecordMbr, ScanDoneMbr DEF Scanning, ScanStep
<1> QED
  BY <1>5, <1>6

(***************************************************************************)
(* MBR disks: theorem                                                      *)
(***************************************************************************)

LEMMA InitMbr == Init => MbrInv
<1> SUFFICES ASSUME Init
             PROVE  MbrInv
  OBVIOUS
<1>1. Inv /\ AllCounted /\ Forgotten
  BY InitFound DEF FoundInv
<1>2. fmt = NotFormatting /\ written.scheme = "other"
  BY DEF Init
<1>3. MbrKept /\ MbrWritten /\ MbrProgress /\ MbrFound
  BY <1>2 DEF MbrKept, MbrWritten, MbrProgress, MbrFound, NotFormatting
<1> QED
  BY <1>1, <1>3 DEF MbrInv

LEMMA NextMbr == MbrReadable /\ MbrInv /\ [Next]_vars => MbrInv'
<1> SUFFICES ASSUME MbrReadable, MbrInv, [Next]_vars
             PROVE  MbrInv'
  OBVIOUS
<1>1. Inv /\ MbrKept /\ MbrWritten /\ AllCounted /\ MbrProgress /\ MbrFound /\ Forgotten
  BY DEF MbrInv
<1>2. Inv' /\ AllCounted'
  BY <1>1, NextInv, CountedNext
<1>3. CASE RefuseFormat \/ UNCHANGED vars
  <2>1. UNCHANGED <<view, medium, partitions, fmt, scan, scanned, written, mixed>>
    BY <1>3 DEF RefuseFormat, Refuse, vars, device
  <2>2. MbrKept'
    BY <1>1, <2>1 DEF MbrKept
  <2> QED
    BY <1>1, <1>2, <2>1, <2>2, SameMbr DEF MbrInv
<1>4. CASE \/ StartFormat \/ StartScan \/ UsePartition \/ PowerLoss \/ Formatting \/ Scanning
           \/ WriteBack
  BY <1>1, <1>2, <1>4, StartFormatMbr, StartScanMbr, UsePartitionMbr, PowerLossMbr,
     FormattingMbr, ScanningMbr, WriteBackMbr DEF MbrInv
<1> QED
  BY <1>3, <1>4 DEF Next

\* The same for formatDisk's MBR, on a device of at most 4 GiB and for a table without
\* extended partitions: the scan numbers the partitions in the order of the table.
THEOREM MbrRoundTrip == MbrReadable => (Spec => [](written.scheme = "mbr" => RoundTrip))
<1>1. MbrInv => (written.scheme = "mbr" => RoundTrip)
  BY DEF MbrInv, MbrFound
<1> SUFFICES ASSUME MbrReadable
             PROVE  Spec => [](written.scheme = "mbr" => RoundTrip)
  OBVIOUS
<1>2. MbrInv /\ [Next]_vars => MbrInv'
  BY NextMbr
<1> QED
  BY <1>1, <1>2, InitMbr, PTL DEF Spec

(***************************************************************************)
(* Disks of other tools: the inductive invariant                           *)
(***************************************************************************)

\* What the scanner makes of the items of a GPT before item m, and what it must find of
\* the first m partitions of an MBR and its extended partitions.
Taken(d, i) == GptPart(Item(d, i), view[Item(d, i).starting_lba])
TakenUpTo(d, m) == {Taken(d, i) : i \in {k \in UsedItems(d) : k < m}}
OtherUpTo(d, m) ==
  {Found(d.partitions[n], "other", n) : n \in {k \in DOMAIN d.partitions : k <= m}}

\* The disk is what it was, except where its partitions begin, and nothing that is
\* known of the partitions leads anywhere else.
Intact(d) ==
  /\ written.table = d.partitions
  /\ \A s \in Sector \ FirstSectors(d) : view[s] = d.view[s] /\ medium[s] = d.view[s]
  /\ \A p \in partitions : p.offset # 0 => p.offset \div sectorSize \in FirstSectors(d)

\* A scan is in the sector of the item that it looks at next, and has taken all before.
GptReading(d) ==
  /\ scan.numPartitionEntries = d.view[1].num_partition_entries
  /\ scan.pc = "entries" => scan.sector = EntryLba(d, scan.partitionIndex)
  /\ scan.pc = "entry" =>
       /\ scan.sector = EntryLba(d, scan.partitionIndex) + 1
       /\ scan.buffer = EntriesOf(d.view[EntryLba(d, scan.partitionIndex)])
  /\ ~scan.fault => partitions = TakenUpTo(d, scan.partitionIndex)

\* A scan is in table j.  If nothing has failed it has found, and numbered, all
\* partitions up to where it is, and does not stop before the extended partition.
InTable(d, last, at, before, j) ==
  /\ scan.mbrEntries = scanMbrEntries(d.view[at[j]], at[j])
  /\ scan.numPartitionEntries = Len(scanMbrEntries(d.view[at[j]], at[j]))
  /\ ~scan.fault =>
       /\ scan.mbrPartID = before[j] + scan.partitionIndex
       /\ partitions = OtherUpTo(d, scan.mbrPartID)
       /\ j < last => scan.partitionIndex < scan.numPartitionEntries
IsChain(d, last, at, before) ==
  /\ last \in 1 .. driveSectors /\ at \in [1 .. last -> Sector]
  /\ before \in [1 .. last -> 0 .. Len(d.partitions)] /\ Chain(d, last, at, before)
MbrReading(d) ==
  \E last, at, before : /\ IsChain(d, last, at, before)
                        /\ \E j \in 1 .. last : InTable(d, last, at, before, j)

Reading(d) ==
  /\ scan.pc \in {"sector0", "header"} => partitions = {} /\ scan.mbrPartID = 0
  /\ scan.pc \in {"header", "entries", "entry"} => ForeignGpt(d)
  /\ scan.pc \in {"entries", "entry"} => GptReading(d)
  /\ scan.pc = "record" => ForeignMbr(d) /\ MbrReading(d)

OtherKept == written.scheme = "other" => \E d \in Disks : Intact(d) /\ Reading(d)

OtherFound == written.scheme = "other" => RoundTrip

\* Nothing else is ever expected of the disk.
Known == written = None \/ written.scheme \in {"gpt", "mbr", "other"}

OtherInv == Inv /\ AllCounted /\ OtherKept /\ OtherFound /\ Forgotten /\ Known

(***************************************************************************)
(* Disks of other tools: the application                                   *)
(***************************************************************************)

LEMMA IdleReading ==
  ASSUME NEW d, scan' = NotScanning
  PROVE  Reading(d)'
BY DEF Reading, NotScanning

LEMMA ForgottenOther ==
  ASSUME scanned' = NotScanned
  PROVE  OtherFound' /\ Forgotten'
BY DEF OtherFound, RoundTrip, Forgotten, NotScanned

LEMMA SameTaken ==
  ASSUME view' = view, NEW d, NEW m
  PROVE  TakenUpTo(d, m)' = TakenUpTo(d, m) /\ OtherUpTo(d, m)' = OtherUpTo(d, m)
BY DEF TakenUpTo, Taken, OtherUpTo, Found

LEMMA StartFormatOther ==
  ASSUME StartFormat
  PROVE  OtherKept' /\ OtherFound' /\ Forgotten' /\ Known'
<1>1. written' = None /\ scanned' = NotScanned
  BY DEF StartFormat
<1> QED
  BY <1>1, ForgottenOther DEF OtherKept, Known, None

LEMMA StartScanOther ==
  ASSUME OtherKept, Known, StartScan
  PROVE  OtherKept' /\ OtherFound' /\ Forgotten' /\ Known'
<1>1. /\ scan = NotScanning /\ scan' = [scan EXCEPT !.pc = "sector0"] /\ scanned' = NotScanned
      /\ partitions' = {} /\ UNCHANGED <<view, medium, written>>
  BY DEF StartScan, BeginScan, device
<1>2. scan'.pc = "sector0" /\ scan'.mbrPartID = 0
  BY <1>1 DEF NotScanning
<1>3. ASSUME NEW d \in Disks, Intact(d)
      PROVE  Intact(d)' /\ Reading(d)'
  BY <1>1, <1>2, <1>3 DEF Intact, Reading
<1> QED
  BY <1>1, <1>3, ForgottenOther DEF OtherKept, Known

\* The application writes to first sectors of partitions only.
LEMMA UsePartitionOther ==
  ASSUME Inv, OtherKept, Known, UsePartition
  PROVE  OtherKept' /\ OtherFound' /\ Forgotten' /\ Known'
<1>1. PICK p \in partitions : p.offset # 0 /\ Write(p.offset \div sectorSize, Boot("fat16", 1))
  BY DEF UsePartition
<1>2. PICK s : s = p.offset \div sectorSize /\ view' = [view EXCEPT ![s] = Boot("fat16", 1)]
  BY <1>1 DEF Write
<1>3. /\ scanned' = NotScanned /\ scan' = NotScanning
      /\ UNCHANGED <<medium, partitions, written>>
  BY <1>1 DEF UsePartition, Idle, Write
<1>4. ASSUME NEW d \in Disks, Intact(d)
      PROVE  Intact(d)' /\ Reading(d)'
  <2>1. s \in FirstSectors(d)
    BY <1>1, <1>2, <1>4 DEF Intact
  <2>2. \A x \in Sector \ FirstSectors(d) : view'[x] = view[x]
    BY <1>2, <2>1 DEF Inv, Scans
  <2> QED
    BY <1>3, <1>4, <2>2, IdleReading DEF Intact
<1> QED
  BY <1>3, <1>4, ForgottenOther DEF OtherKept, Known

LEMMA PowerLossOther ==
  ASSUME OtherKept, Known, PowerLoss
  PROVE  OtherKept' /\ OtherFound' /\ Forgotten' /\ Known'
<1>1. /\ view' = medium /\ medium' = medium /\ partitions' = {}
      /\ scan' = NotScanning /\ scanned' = NotScanned /\ UNCHANGED written
  BY DEF PowerLoss, Reset
<1>2. ASSUME NEW d \in Disks, Intact(d)
      PROVE  Intact(d)' /\ Reading(d)'
  BY <1>1, <1>2, IdleReading DEF Intact
<1> QED
  BY <1>1, <1>2, ForgottenOther DEF OtherKept, Known

LEMMA SameFoundOther ==
  ASSUME OtherFound, Forgotten, UNCHANGED <<view, partitions, fmt, scan, scanned, written>>
  PROVE  OtherFound' /\ Forgotten'
<1>1. OtherFound'
  BY DEF OtherFound, RoundTrip, Expected, Found
<1>2. Forgotten'
  BY DEF Forgotten
<1> QED
  BY <1>1, <1>2

LEMMA WriteBackOther ==
  ASSUME Inv, OtherKept, OtherFound, Forgotten, Known, WriteBack
  PROVE  OtherKept' /\ OtherFound' /\ Forgotten' /\ Known'
<1>1. /\ UNCHANGED <<view, partitions, fmt, scan, scanned, written>> /\ scan = NotScanning
  BY DEF WriteBack, Flush
<1>2. PICK s \in Sector : medium' = [medium EXCEPT ![s] = view[s]]
  BY DEF WriteBack, Flush
<1>3. \A x \in Sector : medium'[x] = medium[x] \/ medium'[x] = view[x]
  BY <1>2 DEF Inv, Scans
<1>4. ASSUME NEW d \in Disks, Intact(d)
      PROVE  Intact(d)' /\ Reading(d)'
  BY <1>1, <1>3, <1>4, IdleReading DEF Intact
<1> QED
  BY <1>1, <1>4, SameFoundOther DEF OtherKept, Known

LEMMA SameOther ==
  ASSUME OtherKept, OtherFound, Forgotten, Known,
         UNCHANGED <<view, medium, partitions, fmt, scan, scanned, written>>
  PROVE  OtherKept' /\ OtherFound' /\ Forgotten' /\ Known'
<1>1. ASSUME NEW d \in Disks, Intact(d), Reading(d)
      PROVE  Intact(d)' /\ Reading(d)'
  <2>1. Intact(d)'
    BY <1>1 DEF Intact
  <2>2. \A m : TakenUpTo(d, m)' = TakenUpTo(d, m) /\ OtherUpTo(d, m)' = OtherUpTo(d, m)
    BY SameTaken
  <2>3. GptReading(d)' = GptReading(d)
    BY DEF GptReading, TakenUpTo, Taken
  <2>4. MbrReading(d)' = MbrReading(d)
    BY DEF MbrReading, InTable, OtherUpTo, Found
  <2> QED
    BY <1>1, <2>1, <2>3, <2>4 DEF Reading
<1> QED
  BY <1>1, SameFoundOther DEF OtherKept, Known

LEMMA FormattingOther ==
  ASSUME Inv, Forgotten, Formatting
  PROVE  OtherKept' /\ OtherFound' /\ Forgotten' /\ Known'
<1>1. fmt.pc # "idle"
  BY DEF Formatting, FormatStep, WriteEntries, WriteEntriesCopy, WriteHeader, WriteHeaderCopy,
         WriteProtectiveMbr, WriteMbr, SyncDisk
<1>2. written = None /\ scanned = NotScanned
  BY <1>1 DEF Inv, Written, Forgotten
<1>3. scanned' = NotScanned
  BY <1>2 DEF Formatting
<1>4. written' = None \/ \E t \in Tables : written' = t
  BY <1>2 DEF Formatting
<1>5. written' = None \/ written'.scheme \in Schemes
  BY <1>4, DiskStorageAssumption
<1>6. OtherKept' /\ Known'
  BY <1>5 DEF OtherKept, Known, Schemes, None
<1> QED
  BY <1>3, <1>6, ForgottenOther

(***************************************************************************)
(* Disks of other tools: the scanner                                       *)
(***************************************************************************)

\* Sector 0 says what the disk is.
LEMMA OtherKinds ==
  ASSUME NEW d, ReadableDisk(d)
  PROVE  /\ IsProtective(d.view[0]) => ForeignGpt(d)
         /\ d.view[0].kind = "mbr" /\ ~IsProtective(d.view[0]) => ForeignMbr(d)
         /\ d.view[0].kind = "boot" => OneVolume(d)
         /\ d.view[0].kind \notin {"boot", "mbr"} => NoTable(d)
BY DEF ReadableDisk, NoTable, OneVolume, ForeignGpt, ForeignMbr, IsProtective

LEMMA SectorZero ==
  ASSUME NEW d, ReadableDisk(d), Intact(d)
  PROVE  view[0] = d.view[0]
<1>1. 0 \in Sector
  BY DiskAssumption DEF Sector
<1> QED
  BY <1>1 DEF ReadableDisk, Intact

LEMMA ScanOtherFound ==
  scan'.pc # "idle" => OtherFound'
BY DEF OtherFound, RoundTrip, NotScanning

LEMMA SameExpected ==
  ASSUME view' = view, written' = written
  PROVE  Expected(written)' = Expected(written)
BY DEF Expected, Found

\* A scan that has ended has found what is to be found.
LEMMA EndsOther ==
  ASSUME NEW state, NEW fault, ScanEnds(state, fault), UNCHANGED <<view, written>>,
         fault \/ (state # "error" /\ partitions' = Expected(written))
  PROVE  OtherFound'
<1>1. Expected(written)' = Expected(written)
  BY SameExpected
<1>2. scanned'.ok = (state # "error") /\ scanned'.fault = fault
  BY DEF ScanEnds
<1> QED
  BY <1>1, <1>2 DEF OtherFound, RoundTrip

\* What identify makes of a volume that is the whole disk.
LEMMA VolumeFound ==
  ASSUME NEW p, p = PartInfo(p.type, p.systype, NoGuid, "none", 0, 0, p.size),
         NEW c, c = view[0], c.kind = "boot", Counted(c)
  PROVE  /\ Identified(c, NoGuid, "none", 0, 0, 0) = Found(p, "other", 1)
         /\ Identified(c, NoGuid, "none", 0, 0, 0).offset = 0
<1>1. PICK m \in Nat \ {0} : m = sectorSize
  BY DiskAssumption
<1>2. PICK bytes \in Nat : bytes = c.sectors * sectorSize /\ (c.systype # "exfat" => bytes < Word32)
  <2>1. c.sectors \in Nat /\ (c.systype # "exfat" => c.sectors * sectorSize < Word32)
    BY DEF Counted
  <2>2. PICK x \in Nat : x = c.sectors
    BY <2>1
  <2>3. x * m \in Nat
    OBVIOUS
  <2> QED
    BY <1>1, <2>1, <2>2, <2>3
<1>3. (IF c.systype = "exfat" THEN bytes ELSE bytes % Word32) = bytes
  BY <1>2, DiskAssumption
<1>4. Identified(c, NoGuid, "none", 0, 0, 0) = PartInfo("fat", c.systype, NoGuid, "none", 0, 0, bytes)
  BY <1>2, <1>3 DEF Identified
<1>5. PICK type, systype, s : p = PartInfo(type, systype, NoGuid, "none", 0, 0, s)
  OBVIOUS
<1>6. p.id = 0 /\ p.offset = 0 /\ p.sysind = "none" /\ p.typeGuid.base # "sming"
  BY <1>5 DEF PartInfo, NoGuid
<1>7. view[p.offset \div sectorSize] = c
  <2>1. 0 \div m = 0
    OBVIOUS
  <2> QED
    BY <1>1, <1>6, <2>1
<1>8. Found(p, "other", 1) = [p EXCEPT !.id = 0, !.size = bytes, !.type = "fat", !.systype = c.systype]
  BY <1>2, <1>6, <1>7 DEF Found
<1>9. [p EXCEPT !.id = 0, !.size = bytes, !.type = "fat", !.systype = c.systype]
        = PartInfo("fat", c.systype, NoGuid, "none", 0, 0, bytes)
  <2>1. PICK q : q = [p EXCEPT !.id = 0]
    OBVIOUS
  <2>2. PICK r : r = [q EXCEPT !.size = bytes]
    OBVIOUS
  <2>3. PICK u : u = [r EXCEPT !.type = "fat"]
    OBVIOUS
  <2>4. PICK v : v = [u EXCEPT !.systype = c.systype]
    OBVIOUS
  <2>5. q = PartInfo(type, systype, NoGuid, "none", 0, 0, s)
    BY <1>5, <2>1 DEF PartInfo
  <2>6. r = PartInfo(type, systype, NoGuid, "none", 0, 0, bytes)
    BY <2>2, <2>5 DEF PartInfo
  <2>7. u = PartInfo("fat", systype, NoGuid, "none", 0, 0, bytes)
    BY <2>3, <2>6 DEF PartInfo
  <2>8. v = PartInfo("fat", c.systype, NoGuid, "none", 0, 0, bytes)
    BY <2>4, <2>7 DEF PartInfo
  <2>9. v = [p EXCEPT !.id = 0, !.size = bytes, !.type = "fat", !.systype = c.systype]
    BY <2>1, <2>2, <2>3, <2>4
  <2> QED
    BY <2>8, <2>9
<1>10. Identified(c, NoGuid, "none", 0, 0, 0).offset = 0
  BY <1>4 DEF PartInfo
<1> QED
  BY <1>4, <1>8, <1>9, <1>10

\* No partition has been found, one more, or all.
LEMMA OtherUpToNext ==
  ASSUME NEW d, ReadableDisk(d), NEW a \in Nat
  PROVE  /\ OtherUpTo(d, 0) = {}
         /\ a + 1 \in DOMAIN d.partitions =>
              OtherUpTo(d, a + 1)
                = OtherUpTo(d, a) \cup {Found(d.partitions[a + 1], "other", a + 1)}
         /\ written.scheme = "other" /\ written.table = d.partitions =>
              OtherUpTo(d, Len(d.partitions)) = Expected(written)
<1>1. PICK L \in Nat : L = Len(d.partitions) /\ DOMAIN d.partitions = 1 .. L
  BY DEF ReadableDisk
<1>2. PICK f : f = d.partitions /\ DOMAIN f = 1 .. L
  BY <1>1
<1>3. {k \in 1 .. L : k <= 0} = {}
  OBVIOUS
<1>4. a + 1 \in 1 .. L => {k \in 1 .. L : k <= a + 1} = {k \in 1 .. L : k <= a} \cup {a + 1}
  OBVIOUS
<1>5. \A m : OtherUpTo(d, m) = {Found(f[n], "other", n) : n \in {k \in 1 .. L : k <= m}}
  BY <1>2 DEF OtherUpTo
<1>6. ASSUME written.scheme = "other", written.table = f
      PROVE  OtherUpTo(d, L) = Expected(written)
  <2>1. {k \in 1 .. L : k <= L} = 1 .. L
    OBVIOUS
  <2>2. {m \in DOMAIN written.table : written.scheme = "gpt" => m <= GPT_ITEMS} = 1 .. L
    BY <1>2, <1>6
  <2>3. Expected(written) = {Found(f[n], "other", n) : n \in 1 .. L}
    BY <1>6, <2>2 DEF Expected
  <2> QED
    BY <1>5, <2>1, <2>3
<1>7. OtherUpTo(d, 0) = {}
  BY <1>3, <1>5
<1>8. a + 1 \in 1 .. L =>
        OtherUpTo(d, a + 1) = OtherUpTo(d, a) \cup {Found(f[a + 1], "other", a + 1)}
  BY <1>4, <1>5
<1> QED
  BY <1>1, <1>2, <1>6, <1>7, <1>8

LEMMA ItemNumbers ==
  ASSUME NEW d \in Disks, ForeignGpt(d)
  PROVE  d.view[1].num_partition_entries \in Nat /\ Items(d) \subseteq Nat
<1>1. 1 \in Sector
  BY DiskAssumption DEF Sector
<1>2. PICK n \in Nat : n = d.view[1].num_partition_entries
  BY <1>1, DiskStorageAssumption DEF ForeignGpt, verifyGptHeader
<1>3. Items(d) = 0 .. n - 1
  BY <1>2 DEF Items
<1> QED
  BY <1>2, <1>3

\* No item has been looked at, or one more.
LEMMA TakenNext ==
  ASSUME NEW d \in Disks, ForeignGpt(d), NEW a \in Nat
  PROVE  /\ TakenUpTo(d, 0) = {}
         /\ a \in UsedItems(d) => TakenUpTo(d, a + 1) = TakenUpTo(d, a) \cup {Taken(d, a)}
         /\ a \notin UsedItems(d) => TakenUpTo(d, a + 1) = TakenUpTo(d, a)
<1>1. PICK U : U = UsedItems(d) /\ U \subseteq Nat
  BY ItemNumbers DEF UsedItems
<1>2. {k \in U : k < 0} = {}
  BY <1>1
<1>3. a \in U => {k \in U : k < a + 1} = {k \in U : k < a} \cup {a}
  BY <1>1
<1>4. a \notin U => {k \in U : k < a + 1} = {k \in U : k < a}
  BY <1>1
<1>5. \A m : TakenUpTo(d, m) = {Taken(d, i) : i \in {k \in U : k < m}}
  BY <1>1 DEF TakenUpTo
<1>6. TakenUpTo(d, 0) = {}
  BY <1>2, <1>5
<1>7. a \in U => TakenUpTo(d, a + 1) = TakenUpTo(d, a) \cup {Taken(d, a)}
  BY <1>3, <1>5
<1>8. a \notin U => TakenUpTo(d, a + 1) = TakenUpTo(d, a)
  BY <1>4, <1>5
<1> QED
  BY <1>1, <1>6, <1>7, <1>8

\* A volume instead of a partition table, an MBR, or nothing.
LEMMA LoadSector0Other ==
  ASSUME Inv, AllCounted, Scanning, LoadSector0, written.scheme = "other",
         NEW d \in Disks, ReadableDisk(d), Intact(d), Reading(d)
  PROVE  Intact(d)' /\ Reading(d)' /\ OtherFound'
<1>1. view[0] = d.view[0] /\ written.table = d.partitions
  BY SectorZero DEF Intact
<1>2. scan.pc = "sector0" /\ ~IsProtective(view[0]) /\ UNCHANGED <<view, medium, written>>
  BY DEF LoadSector0, Scanning, device
<1>3. partitions = {} /\ scan.mbrPartID = 0 /\ scan.partitionIndex = 0
  BY <1>2 DEF Reading, Inv, Scans
<1>4. CASE /\ view[0].kind = "boot"
           /\ partitions' = {Identified(view[0], NoGuid, "none", 0, 0, 0)}
           /\ ScanEnds("done", FALSE)
  <2>1. PICK p : /\ p = d.partitions[1] /\ p = PartInfo(p.type, p.systype, NoGuid, "none", 0, 0, p.size)
                 /\ DOMAIN d.partitions = {1}
    <3>1. OneVolume(d) /\ DOMAIN d.partitions = 1 .. Len(d.partitions)
      BY <1>1, <1>4, OtherKinds DEF ReadableDisk
    <3>2. DOMAIN d.partitions = {1}
      BY <3>1 DEF OneVolume
    <3> QED
      BY <3>1, <3>2 DEF OneVolume
  <2>2. Expected(written) = {Found(p, "other", 1)}
    <3>1. {m \in DOMAIN written.table : written.scheme = "gpt" => m <= GPT_ITEMS} = {1}
      BY <1>1, <2>1
    <3> QED
      BY <1>1, <2>1, <3>1 DEF Expected
  <2>3. PICK part : part = Identified(view[0], NoGuid, "none", 0, 0, 0)
    OBVIOUS
  <2>4. part = Found(p, "other", 1) /\ part.offset = 0
    <3>1. PICK c : c = view[0] /\ c.kind = "boot" /\ Counted(c)
      <4>1. 0 \in Sector
        BY DiskAssumption DEF Sector
      <4> QED
        BY <1>4, <4>1 DEF AllCounted
    <3>2. part = Found(p, "other", 1) /\ part.offset = 0
      BY <2>1, <2>3, <3>1, VolumeFound
    <3> QED
      BY <3>2
  <2>5. Intact(d)'
    BY <1>2, <1>4, <2>3, <2>4 DEF Intact
  <2>6. Reading(d)'
    BY <1>4, IdleReading DEF ScanEnds
  <2>7. OtherFound'
    BY <1>2, <1>4, <2>2, <2>3, <2>4, EndsOther
  <2> QED
    BY <2>5, <2>6, <2>7
<1>5. CASE /\ view[0].kind \notin {"boot", "mbr"}
           /\ ScanEnds("idle", FALSE) /\ UNCHANGED partitions
  <2>1. d.partitions = <<>>
    BY <1>1, <1>5, OtherKinds DEF NoTable
  <2>2. Expected(written) = {}
    BY <1>1, <2>1 DEF Expected
  <2>3. OtherFound'
    BY <1>2, <1>3, <1>5, <2>2, EndsOther
  <2>4. Intact(d)'
    BY <1>2, <1>5 DEF Intact
  <2> QED
    BY <1>5, <2>3, <2>4, IdleReading DEF ScanEnds
<1>6. CASE view[0].kind = "mbr" /\ scan'.pc = "record"
  <2>1. PICK entries :
          /\ entries = scanMbrEntries(d.view[0], 0)
          /\ scan' = [scan EXCEPT !.pc = "record", !.state = "MBR", !.mbrEntries = entries,
                                  !.numPartitionEntries = Len(entries)]
          /\ UNCHANGED partitions
    BY <1>1, <1>6 DEF LoadSector0
  <2>2. /\ scan'.pc = "record" /\ scan'.fault = scan.fault /\ scan'.partitionIndex = 0
        /\ scan'.mbrPartID = 0 /\ scan'.mbrEntries = entries
        /\ scan'.numPartitionEntries = Len(entries)
    BY <1>3, <2>1 DEF Inv, Scans, ScanRecord, NotScanning
  <2>3. ForeignMbr(d)
    BY <1>1, <1>2, <1>6, OtherKinds
  <2>4. PICK last, at, before : IsChain(d, last, at, before)
    BY <2>3 DEF ForeignMbr, IsChain
  <2>5. 1 \in 1 .. last /\ at[1] = 0 /\ before[1] = 0 /\ (1 < last => Len(entries) > 0)
    <3>1. last \in Nat /\ 1 <= last
      BY <2>4 DEF IsChain
    <3>2. Chain(d, last, at, before) /\ 1 \in 1 .. last
      BY <2>4, <3>1 DEF IsChain
    <3>3. at[1] = 0 /\ before[1] = 0
      BY <3>2 DEF Chain
    <3>4. 1 < last => Len(scanMbrEntries(d.view[at[1]], at[1])) > 0
      BY <3>2 DEF Chain
    <3> QED
      BY <2>1, <3>2, <3>3, <3>4
  <2>6. OtherUpTo(d, 0)' = {}
    <3>1. OtherUpTo(d, 0) = {}
      BY OtherUpToNext
    <3> QED
      BY <1>2, <3>1, SameTaken
  <2>7. InTable(d, last, at, before, 1)'
    BY <1>3, <2>1, <2>2, <2>5, <2>6 DEF InTable
  <2>8. MbrReading(d)'
    BY <2>4, <2>5, <2>7 DEF MbrReading
  <2>9. Reading(d)'
    BY <2>2, <2>3, <2>8 DEF Reading
  <2>10. Intact(d)'
    BY <1>2, <2>1 DEF Intact
  <2> QED
    BY <2>2, <2>9, <2>10, ScanOtherFound
<1>7. view[0].kind = "mbr" => scan'.pc = "record"
  BY DEF LoadSector0, Inv, Scans, ScanRecord, NotScanning
<1> QED
  BY <1>4, <1>5, <1>6, <1>7 DEF LoadSector0

\* A read or an allocation has failed: this scan tells nothing.
LEMMA FailedOther ==
  ASSUME NEW state, ScanEnds(state, TRUE), UNCHANGED <<view, medium, partitions, written>>,
         NEW d, Intact(d)
  PROVE  Intact(d)' /\ Reading(d)' /\ OtherFound'
<1>1. Intact(d)'
  BY DEF Intact
<1>2. Reading(d)'
  BY IdleReading DEF ScanEnds
<1>3. OtherFound'
  BY EndsOther
<1> QED
  BY <1>1, <1>2, <1>3

LEMMA FoundProtectiveOther ==
  ASSUME Inv, Scanning, FoundProtective,
         NEW d \in Disks, ReadableDisk(d), Intact(d), Reading(d)
  PROVE  Intact(d)' /\ Reading(d)' /\ OtherFound'
<1>1. /\ scan.pc = "sector0" /\ scan' = [scan EXCEPT !.pc = "header"] /\ IsProtective(view[0])
      /\ UNCHANGED <<view, medium, partitions, written>>
  BY DEF FoundProtective, Scanning, device
<1>2. scan'.pc = "header" /\ scan'.mbrPartID = scan.mbrPartID
  BY <1>1 DEF Inv, Scans, ScanRecord, NotScanning
<1>3. ForeignGpt(d)
  BY <1>1, SectorZero, OtherKinds
<1>4. Reading(d)'
  BY <1>1, <1>2, <1>3 DEF Reading
<1>5. Intact(d)'
  BY <1>1 DEF Intact
<1> QED
  BY <1>2, <1>4, <1>5, ScanOtherFound

\* What a GPT of another tool is to the scanner.
LEMMA GptHeaderOther ==
  ASSUME NEW d, ForeignGpt(d), Intact(d)
  PROVE  /\ view[1] = d.view[1] /\ verifyGptHeader(view[1])
         /\ d.view[1].partition_entry_lba \in Nat
         /\ \A i \in Items(d) : view[EntryLba(d, i)] = d.view[EntryLba(d, i)]
<1>1. 1 \in Sector
  BY DiskAssumption DEF Sector
<1>2. 1 \notin FirstSectors(d) /\ \A i \in Items(d) : EntryLba(d, i) \in Sector \ FirstSectors(d)
  BY DEF ForeignGpt
<1>3. view[1] = d.view[1] /\ \A i \in Items(d) : view[EntryLba(d, i)] = d.view[EntryLba(d, i)]
  BY <1>1, <1>2 DEF Intact
<1> QED
  BY <1>3 DEF ForeignGpt

LEMMA LoadHeaderOther ==
  ASSUME Inv, Scanning, LoadHeader, NEW d \in Disks, Intact(d), Reading(d)
  PROVE  Intact(d)' /\ Reading(d)' /\ OtherFound'
<1>1. scan.pc = "header" /\ UNCHANGED <<view, medium, partitions, written>>
  BY DEF LoadHeader, Scanning, device
<1>2. ForeignGpt(d) /\ partitions = {} /\ scan.partitionIndex = 0
  BY <1>1 DEF Reading, Inv, Scans
<1>3. PICK lba, count :
        /\ lba = d.view[1].partition_entry_lba /\ count = d.view[1].num_partition_entries
        /\ lba \in Nat
        /\ scan' = [scan EXCEPT !.pc = "entries", !.state = "GPT", !.sector = lba, !.numPartitionEntries = count]
  <2>1. view[1] = d.view[1] /\ verifyGptHeader(view[1]) /\ d.view[1].partition_entry_lba \in Nat
    BY <1>2, GptHeaderOther
  <2>2. scan' = [scan EXCEPT !.pc = "entries", !.state = "GPT",
                             !.sector = view[1].partition_entry_lba,
                             !.numPartitionEntries = view[1].num_partition_entries]
    BY <2>1 DEF LoadHeader
  <2> QED
    BY <2>1, <2>2
<1>4. /\ scan'.pc = "entries" /\ scan'.fault = scan.fault /\ scan'.partitionIndex = 0
      /\ scan'.sector = lba /\ scan'.numPartitionEntries = count
  BY <1>2, <1>3 DEF Inv, Scans, ScanRecord, NotScanning
<1>5. EntryLba(d, 0) = lba
  <2>1. PICK e \in Nat \ {0} : e = entriesPerSector
    BY DiskAssumption
  <2>2. 0 \div e = 0
    OBVIOUS
  <2>3. lba + 0 = lba
    BY <1>3
  <2> QED
    BY <1>3, <2>1, <2>2, <2>3 DEF EntryLba
<1>6. TakenUpTo(d, 0) = {}
  BY <1>2, TakenNext
<1>7. TakenUpTo(d, scan.partitionIndex)' = {}
  <2>1. TakenUpTo(d, scan.partitionIndex)' = TakenUpTo(d, 0)'
    BY <1>4
  <2> QED
    BY <1>1, <1>6, <2>1, SameTaken
<1>8. GptReading(d)'
  BY <1>1, <1>2, <1>3, <1>4, <1>5, <1>7 DEF GptReading
<1>9. Reading(d)'
  BY <1>2, <1>4, <1>8 DEF Reading
<1>10. Intact(d)'
  BY <1>1 DEF Intact
<1> QED
  BY <1>4, <1>9, <1>10, ScanOtherFound

LEMMA LoadEntriesOther ==
  ASSUME Inv, Scanning, LoadEntries, NEW d \in Disks, Intact(d), Reading(d)
  PROVE  Intact(d)' /\ Reading(d)' /\ OtherFound'
<1>1. scan.pc = "entries" /\ More /\ UNCHANGED <<view, medium, partitions, written>>
  BY DEF LoadEntries, Scanning, device
<1>2. ForeignGpt(d) /\ GptReading(d)
  BY <1>1 DEF Reading
<1>3. PICK a \in Nat : a = scan.partitionIndex /\ a \in Items(d)
  <2>1. scan.numPartitionEntries = d.view[1].num_partition_entries
    BY <1>2 DEF GptReading
  <2>2. scan.partitionIndex \in Nat /\ scan.numPartitionEntries \in Nat
    BY DEF Inv, Scans
  <2> QED
    BY <1>1, <2>1, <2>2 DEF More, Items
<1>4. PICK sector : sector = scan.sector + 1 /\ scan.sector = EntryLba(d, a)
  BY <1>1, <1>2, <1>3 DEF GptReading
<1>5. PICK buffer : buffer = EntriesOf(view[scan.sector])
  OBVIOUS
<1>6. scan' = [scan EXCEPT !.pc = "entry", !.sector = sector, !.buffer = buffer]
  <2>1. scan' = [scan EXCEPT !.pc = "entry", !.sector = scan.sector + 1,
                             !.buffer = EntriesOf(view[scan.sector])]
    BY ScanFields DEF LoadEntries, Inv, Scans
  <2> QED
    BY <1>4, <1>5, <2>1
<1>7. /\ scan'.pc = "entry" /\ scan'.fault = scan.fault /\ scan'.partitionIndex = a
      /\ scan'.buffer = buffer /\ scan'.sector = sector
      /\ scan'.numPartitionEntries = scan.numPartitionEntries
  BY <1>3, <1>6 DEF Inv, Scans, ScanRecord, NotScanning
<1>8. buffer = EntriesOf(d.view[EntryLba(d, a)])
  BY <1>2, <1>3, <1>4, <1>5, GptHeaderOther
<1>9. TakenUpTo(d, scan.partitionIndex)' = TakenUpTo(d, a)
  <2>1. TakenUpTo(d, scan.partitionIndex)' = TakenUpTo(d, a)'
    BY <1>7
  <2> QED
    BY <1>1, <2>1, SameTaken
<1>10. /\ scan.numPartitionEntries = d.view[1].num_partition_entries
       /\ ~scan.fault => partitions = TakenUpTo(d, a)
  BY <1>2, <1>3 DEF GptReading
<1>11. GptReading(d)'
  BY <1>1, <1>4, <1>7, <1>8, <1>9, <1>10 DEF GptReading
<1>12. Reading(d)'
  BY <1>2, <1>7, <1>11 DEF Reading
<1>13. Intact(d)'
  BY <1>1 DEF Intact
<1> QED
  BY <1>7, <1>12, <1>13, ScanOtherFound

\* A used item is the entry of a partition: what the scanner makes of it is to be found,
\* and leads to the partition's first sector.
LEMMA ItemFound ==
  ASSUME AllCounted, NEW d \in Disks, ReadableDisk(d), ForeignGpt(d), NEW i \in UsedItems(d)
  PROVE  /\ \E n \in DOMAIN d.partitions : Taken(d, i) = Found(d.partitions[n], "other", n)
         /\ Taken(d, i).offset # 0 => Taken(d, i).offset \div sectorSize \in FirstSectors(d)
<1>1. PICK n \in DOMAIN d.partitions : Item(d, i) = Entry(d.partitions[n])
  <2>1. Item(d, i) \in {Item(d, k) : k \in UsedItems(d)}
    OBVIOUS
  <2>2. Item(d, i) \in {Entry(d.partitions[n]) : n \in DOMAIN d.partitions}
    BY <2>1 DEF ForeignGpt
  <2> QED
    BY <2>2
<1>2. PICK p : p = d.partitions[n] /\ Added(p, "gpt") /\ p.offset \div sectorSize \in Sector
  BY DEF ForeignGpt, ReadableDisk, StartOf
<1>3. GptPart(Entry(p), view[Entry(p).starting_lba]) = Found(p, "other", n)
  BY <1>2, GptPartFound
<1>4. Taken(d, i) = Found(p, "other", n)
  BY <1>1, <1>2, <1>3 DEF Taken
<1>5. Taken(d, i).offset = p.offset
  <2>1. PICK a \in Nat, m \in Nat \ {0} :
          m = sectorSize /\ p.offset = a * m /\ Entry(p).starting_lba = a
    BY <1>2, EntryNumbers
  <2>2. Taken(d, i).offset = Entry(p).starting_lba * sectorSize
    BY <1>1, <1>2, GptPartOffset DEF Taken
  <2> QED
    BY <2>1, <2>2
<1>6. p.offset # 0 => p.offset \div sectorSize \in FirstSectors(d)
  BY <1>2 DEF FirstSectors, StartOf
<1> QED
  BY <1>2, <1>4, <1>5, <1>6

\* All items: all partitions.
LEMMA AllTaken ==
  ASSUME AllCounted, NEW d \in Disks, ReadableDisk(d), ForeignGpt(d),
         written.scheme = "other", written.table = d.partitions
  PROVE  TakenUpTo(d, d.view[1].num_partition_entries) = Expected(written)
<1>1. PICK N \in Nat : N = d.view[1].num_partition_entries
  BY ItemNumbers
<1>2. {k \in UsedItems(d) : k < N} = UsedItems(d)
  <2>1. UsedItems(d) \subseteq 0 .. N - 1
    BY <1>1 DEF UsedItems, Items
  <2> QED
    BY <2>1
<1>3. TakenUpTo(d, N) = {Taken(d, i) : i \in UsedItems(d)}
  BY <1>2 DEF TakenUpTo
<1>4. Expected(written) = {Found(d.partitions[n], "other", n) : n \in DOMAIN d.partitions}
  <2>1. {m \in DOMAIN written.table : written.scheme = "gpt" => m <= GPT_ITEMS} = DOMAIN d.partitions
    OBVIOUS
  <2> QED
    BY <2>1 DEF Expected
<1>5. ASSUME NEW n \in DOMAIN d.partitions
      PROVE  \E i \in UsedItems(d) : Taken(d, i) = Found(d.partitions[n], "other", n)
  <2>1. PICK p : p = d.partitions[n] /\ Added(p, "gpt") /\ p.offset \div sectorSize \in Sector
    BY DEF ForeignGpt, ReadableDisk, StartOf
  <2>2. PICK i \in UsedItems(d) : Item(d, i) = Entry(p)
    <3>1. Entry(p) \in {Entry(d.partitions[k]) : k \in DOMAIN d.partitions}
      BY <2>1
    <3>2. Entry(p) \in {Item(d, k) : k \in UsedItems(d)}
      BY <3>1 DEF ForeignGpt
    <3> QED
      BY <3>2
  <2>3. GptPart(Entry(p), view[Entry(p).starting_lba]) = Found(p, "other", n)
    BY <2>1, GptPartFound
  <2>4. Taken(d, i) = Found(p, "other", n)
    BY <2>2, <2>3 DEF Taken
  <2> QED
    BY <2>1, <2>4
<1>6. \A i \in UsedItems(d) : \E n \in DOMAIN d.partitions : Taken(d, i) = Found(d.partitions[n], "other", n)
  BY ItemFound
<1>7. TakenUpTo(d, N) = Expected(written)
  <2>1. TakenUpTo(d, N) \subseteq Expected(written)
    BY <1>3, <1>4, <1>6
  <2>2. Expected(written) \subseteq TakenUpTo(d, N)
    BY <1>3, <1>4, <1>5
  <2> QED
    BY <2>1, <2>2
<1> QED
  BY <1>1, <1>7

\* One item more.
LEMMA TakeEntryOther ==
  ASSUME Inv, AllCounted, Scanning, TakeEntry,
         NEW d \in Disks, ReadableDisk(d), Intact(d), Reading(d)
  PROVE  Intact(d)' /\ Reading(d)' /\ OtherFound'
<1>1. scan.pc = "entry" /\ More /\ UNCHANGED <<view, medium, written>>
  BY DEF TakeEntry, Scanning, device
<1>2. ForeignGpt(d) /\ GptReading(d)
  BY <1>1 DEF Reading
<1>3. PICK a \in Nat : a = scan.partitionIndex /\ a \in Items(d)
  <2>1. scan.numPartitionEntries = d.view[1].num_partition_entries
    BY <1>2 DEF GptReading
  <2>2. scan.partitionIndex \in Nat /\ scan.numPartitionEntries \in Nat
    BY DEF Inv, Scans
  <2> QED
    BY <1>1, <2>1, <2>2 DEF More, Items
<1>4. PICK entry : entry = scan.buffer[(a % entriesPerSector) + 1]
  OBVIOUS
<1>5. entry = Item(d, a)
  BY <1>1, <1>2, <1>3, <1>4 DEF GptReading, Item
<1>6. PICK pc : pc = IF (a + 1) % entriesPerSector = 0 THEN "entries" ELSE "entry"
  OBVIOUS
<1>7. PICK fault :
        /\ scan' = [scan EXCEPT !.partitionIndex = a + 1, !.fault = fault, !.pc = pc]
        /\ ~fault => /\ ~scan.fault
                     /\ entry.partition_type_guid = NoGuid => partitions' = partitions
                     /\ entry.partition_type_guid # NoGuid =>
                          partitions' = partitions \cup {GptPart(entry, view[entry.starting_lba])}
        /\ \/ partitions' = partitions
           \/ /\ entry.partition_type_guid # NoGuid
              /\ partitions' = partitions \cup {GptPart(entry, view[entry.starting_lba])}
  <2>1. \/ /\ scan' = [scan EXCEPT !.partitionIndex = a + 1, !.fault = scan.fault \/ FALSE, !.pc = pc]
           /\ \/ entry.partition_type_guid = NoGuid /\ partitions' = partitions
              \/ /\ entry.partition_type_guid # NoGuid
                 /\ partitions' = partitions \cup {GptPart(entry, view[entry.starting_lba])}
        \/ /\ scan' = [scan EXCEPT !.partitionIndex = a + 1, !.fault = scan.fault \/ TRUE, !.pc = pc]
           /\ partitions' = partitions
    BY <1>3, <1>4, <1>6 DEF TakeEntry
  <2> QED
    BY <2>1
<1>8. /\ scan'.pc = pc /\ scan'.fault = fault /\ scan'.partitionIndex = a + 1
      /\ scan'.buffer = scan.buffer /\ scan'.sector = scan.sector
      /\ scan'.numPartitionEntries = scan.numPartitionEntries
  BY <1>7 DEF Inv, Scans, ScanRecord, NotScanning
<1>9. pc \in {"entries", "entry"}
  BY <1>6
<1>10. entry.partition_type_guid # NoGuid <=> a \in UsedItems(d)
  BY <1>3, <1>5 DEF UsedItems
<1>11. GptPart(entry, view[entry.starting_lba]) = Taken(d, a)
  BY <1>5 DEF Taken
<1>12. Intact(d)'
  <2>1. a \in UsedItems(d) => (Taken(d, a).offset # 0 => Taken(d, a).offset \div sectorSize \in FirstSectors(d))
    BY <1>2, ItemFound
  <2>2. \A p \in partitions' : p \in partitions \/ (p = Taken(d, a) /\ a \in UsedItems(d))
    BY <1>7, <1>10, <1>11
  <2> QED
    BY <1>1, <2>1, <2>2 DEF Intact
<1>13. ~fault => partitions' = TakenUpTo(d, a + 1)
  <2>1. ~scan.fault => partitions = TakenUpTo(d, a)
    BY <1>2, <1>3 DEF GptReading
  <2> QED
    BY <1>2, <1>7, <1>10, <1>11, <2>1, TakenNext
<1>14. TakenUpTo(d, scan.partitionIndex)' = TakenUpTo(d, a + 1)
  <2>1. PICK b : b = a + 1
    OBVIOUS
  <2>2. TakenUpTo(d, scan.partitionIndex)' = TakenUpTo(d, b)'
    BY <1>8, <2>1
  <2>3. TakenUpTo(d, b)' = TakenUpTo(d, b)
    BY <1>1, SameTaken
  <2> QED
    BY <2>1, <2>2, <2>3
<1>15. PICK lba \in Nat, e \in Nat \ {0} : lba = d.view[1].partition_entry_lba /\ e = entriesPerSector
  BY <1>2, DiskAssumption DEF ForeignGpt
<1>16. /\ scan.sector = lba + (a \div e) + 1
       /\ scan.buffer = EntriesOf(d.view[lba + (a \div e)])
       /\ scan.numPartitionEntries = d.view[1].num_partition_entries
  BY <1>1, <1>2, <1>3, <1>15 DEF GptReading, EntryLba
<1>17. PICK x \in Nat, y \in Nat : x = a \div e /\ y = (a + 1) \div e
  <2>1. a \div e \in Nat /\ (a + 1) \div e \in Nat
    BY DivMod
  <2> QED
    BY <2>1
<1>18. y = IF (a + 1) % e = 0 THEN x + 1 ELSE x
  BY <1>17, NextEntry
<1>19. EntryLba(d, a + 1) = lba + y
  BY <1>15, <1>17 DEF EntryLba
<1>20. /\ pc = "entries" => scan.sector = EntryLba(d, a + 1)
       /\ pc = "entry" => /\ scan.sector = EntryLba(d, a + 1) + 1
                          /\ scan.buffer = EntriesOf(d.view[EntryLba(d, a + 1)])
  <2>1. pc = "entries" => y = x + 1
    BY <1>6, <1>15, <1>18
  <2>2. pc = "entry" => y = x
    BY <1>6, <1>15, <1>18
  <2>3. scan.sector = lba + x + 1 /\ scan.buffer = EntriesOf(d.view[lba + x])
    BY <1>16, <1>17
  <2>4. pc = "entry" => lba + y = lba + x
    BY <2>2
  <2> QED
    BY <1>19, <2>1, <2>2, <2>3, <2>4
<1>21. GptReading(d)'
  BY <1>8, <1>13, <1>14, <1>16, <1>20 DEF GptReading
<1>22. Reading(d)'
  BY <1>2, <1>8, <1>9, <1>21 DEF Reading
<1> QED
  BY <1>8, <1>9, <1>12, <1>22, ScanOtherFound

(***************************************************************************)
(* Disks of other tools: extended partitions                               *)
(***************************************************************************)

\* What a chain of tables says of record k of table j.
LEMMA ChainRecord ==
  ASSUME NEW d, ReadableDisk(d), ForeignMbr(d), NEW last, NEW at, NEW before,
         IsChain(d, last, at, before), NEW j \in 1 .. last,
         NEW records, records = scanMbrEntries(d.view[at[j]], at[j]), NEW k \in 1 .. Len(records)
  PROVE  /\ j < last /\ k = Len(records) =>
              records[k].os_type = "extended" /\ records[k].starting_lba = at[j + 1]
         /\ ~(j < last /\ k = Len(records)) =>
              /\ before[j] + k \in DOMAIN d.partitions
              /\ records[k] = RecordOf(d.partitions[before[j] + k])
<1>1. Chain(d, last, at, before)
  BY DEF IsChain
<1> QED
  BY <1>1 DEF Chain

\* And of table j itself.
LEMMA ChainTable ==
  ASSUME NEW d, ReadableDisk(d), ForeignMbr(d), NEW last, NEW at, NEW before,
         IsChain(d, last, at, before), NEW j \in 1 .. last,
         NEW records, records = scanMbrEntries(d.view[at[j]], at[j])
  PROVE  /\ last \in Nat /\ j \in Nat /\ before[j] \in Nat
         /\ at[j] \in Sector /\ at[j] \notin FirstSectors(d)
         /\ j < last => /\ j + 1 \in 1 .. last /\ Len(records) > 0
                        /\ before[j + 1] = before[j] + Len(records) - 1
         /\ ~(j < last) => before[j] + Len(records) = Len(d.partitions)
<1>1. Chain(d, last, at, before)
  BY DEF IsChain
<1>2. /\ at[j] \notin FirstSectors(d)
      /\ j < last => Len(records) > 0 /\ before[j + 1] = before[j] + Len(records) - 1
      /\ ~(j < last) => before[j] + Len(records) = Len(d.partitions)
  BY <1>1 DEF Chain
<1>3. last \in Nat /\ j \in Nat
  BY DEF IsChain
<1>4. at[j] \in Sector /\ before[j] \in Nat
  <2>1. Len(d.partitions) \in Nat
    OBVIOUS
  <2> QED
    BY <2>1 DEF IsChain
<1>5. j < last => j + 1 \in 1 .. last
  BY <1>3
<1> QED
  BY <1>2, <1>3, <1>4, <1>5

\* A partition of an MBR of another tool.
LEMMA OtherFits ==
  ASSUME NEW d, ReadableDisk(d), ForeignMbr(d), NEW n \in DOMAIN d.partitions
  PROVE  LET p == d.partitions[n]
         IN  /\ Fits(p) /\ p.sysind \notin {"extended", "none"} /\ p.id = n
             /\ p.offset \div sectorSize \in Sector
             /\ p.offset # 0 => p.offset \div sectorSize \in FirstSectors(d)
<1>1. PICK p : p = d.partitions[n]
  OBVIOUS
<1>2. /\ Added(p, "mbr") /\ p.id = n /\ p.sysind \notin {"extended", "none"}
      /\ p.offset < Word32 /\ p.size < Word32
  BY <1>1 DEF ForeignMbr
<1>3. p.size - (p.size % sectorSize) < Word32
  <2>1. PICK s \in Nat, m \in Nat \ {0}, w \in Nat : s = p.size /\ m = sectorSize /\ w = Word32
    BY <1>2, DiskAssumption DEF Added
  <2>2. s % m \in 0 .. m - 1
    BY DivMod
  <2>3. PICK r \in Nat : r = s % m
    BY <2>2
  <2>4. s - r < w
    BY <1>2, <2>1
  <2> QED
    BY <2>1, <2>3, <2>4
<1>4. Fits(p)
  BY <1>2, <1>3 DEF Fits
<1>5. p.offset \div sectorSize \in Sector
  BY <1>1 DEF ReadableDisk, StartOf
<1>6. p.offset # 0 => p.offset \div sectorSize \in FirstSectors(d)
  BY <1>1 DEF FirstSectors, StartOf
<1> QED
  BY <1>1, <1>2, <1>4, <1>5, <1>6

\* One record more, or the records of the extended partition instead.
LEMMA TakeRecordOther ==
  ASSUME Inv, AllCounted, Scanning, TakeRecord,
         NEW d \in Disks, ReadableDisk(d), Intact(d), Reading(d)
  PROVE  Intact(d)' /\ Reading(d)' /\ OtherFound'
<1>1. scan.pc = "record" /\ More /\ UNCHANGED <<view, medium, written>>
  BY DEF TakeRecord, Scanning, device
<1>2. ForeignMbr(d) /\ MbrReading(d)
  BY <1>1 DEF Reading
<1>3. PICK last, at, before : IsChain(d, last, at, before) /\ \E j \in 1 .. last : InTable(d, last, at, before, j)
  BY <1>2 DEF MbrReading
<1>4. PICK j \in 1 .. last : InTable(d, last, at, before, j)
  BY <1>3
<1>5. PICK records : records = scanMbrEntries(d.view[at[j]], at[j])
  OBVIOUS
<1>6. PICK M \in Nat : M = Len(records)
  BY <1>4, <1>5 DEF InTable, Inv, Scans
<1>7. PICK a \in Nat, id0 \in Nat : a = scan.partitionIndex /\ a < M /\ id0 = scan.mbrPartID
  <2>1. scan.numPartitionEntries = M
    BY <1>4, <1>5, <1>6 DEF InTable
  <2> QED
    BY <1>1, <2>1 DEF More, Inv, Scans
<1>8. PICK k \in 1 .. M : k = a + 1
  <2>1. a + 1 \in 1 .. M
    BY <1>7
  <2> QED
    BY <2>1
<1>9. PICK rec : rec = scan.mbrEntries[k] /\ rec = records[k]
  BY <1>4, <1>5 DEF InTable
<1>10. PICK id : id = (id0 + 1) % Word16
  OBVIOUS
<1>11. /\ scan.mbrEntries = records /\ scan.numPartitionEntries = M
       /\ ~scan.fault => id0 = before[j] + a /\ partitions = OtherUpTo(d, id0)
  BY <1>4, <1>5, <1>6, <1>7 DEF InTable
<1>12. PICK l \in Nat, b \in Nat : l = last /\ j \in Nat /\ b = before[j]
  BY <1>2, <1>3, <1>5, ChainTable
<1>13. \/ /\ scan' = [scan EXCEPT !.partitionIndex = k, !.fault = TRUE]
          /\ UNCHANGED partitions
       \/ /\ rec.starting_lba \in Sector /\ rec.os_type = "extended"
          /\ LET entries == scanMbrEntries(view[rec.starting_lba], rec.starting_lba) IN
             scan' = [scan EXCEPT !.partitionIndex = 0, !.mbrEntries = entries,
                                  !.numPartitionEntries = Len(entries)]
          /\ UNCHANGED partitions
       \/ /\ rec.os_type # "extended"
          /\ scan' = [scan EXCEPT !.partitionIndex = k, !.mbrPartID = id]
          /\ partitions' = partitions \cup {MbrPart(rec, view[rec.starting_lba], id)}
  BY <1>7, <1>8, <1>9, <1>10 DEF TakeRecord
<1>14. ASSUME UNCHANGED partitions
       PROVE  Intact(d)'
  BY <1>1, <1>14 DEF Intact
<1>15. ASSUME scan'.pc = "record", NEW i \in 1 .. last, InTable(d, last, at, before, i)'
       PROVE  Reading(d)' /\ OtherFound'
  <2>1. MbrReading(d)'
    BY <1>3, <1>15 DEF MbrReading
  <2> QED
    BY <1>2, <1>15, <2>1, ScanOtherFound DEF Reading
<1>16. CASE /\ scan' = [scan EXCEPT !.partitionIndex = k, !.fault = TRUE]
            /\ UNCHANGED partitions
  <2>1. /\ scan'.pc = "record" /\ scan'.fault = TRUE /\ scan'.mbrEntries = scan.mbrEntries
        /\ scan'.numPartitionEntries = scan.numPartitionEntries
    BY <1>1, <1>16 DEF Inv, Scans, ScanRecord, NotScanning
  <2>2. InTable(d, last, at, before, j)'
    BY <1>5, <1>6, <1>11, <2>1 DEF InTable
  <2> QED
    BY <1>14, <1>15, <1>16, <2>1, <2>2
<1>17. CASE /\ rec.starting_lba \in Sector /\ rec.os_type = "extended"
            /\ LET entries == scanMbrEntries(view[rec.starting_lba], rec.starting_lba) IN
               scan' = [scan EXCEPT !.partitionIndex = 0, !.mbrEntries = entries,
                                    !.numPartitionEntries = Len(entries)]
            /\ UNCHANGED partitions
  <2>1. j < last /\ k = M
    <3> SUFFICES ASSUME ~(j < last /\ k = M)
                 PROVE  FALSE
      OBVIOUS
    <3>1. PICK n \in DOMAIN d.partitions : rec = RecordOf(d.partitions[n])
      BY <1>2, <1>3, <1>5, <1>6, <1>9, ChainRecord
    <3>2. rec.os_type = d.partitions[n].sysind
      BY <3>1 DEF RecordOf, Record
    <3> QED
      BY <1>2, <1>17, <3>2, OtherFits
  <2>2. rec.starting_lba = at[j + 1]
    BY <1>2, <1>3, <1>5, <1>6, <1>9, <2>1, ChainRecord
  <2>3. PICK i \in 1 .. last : i = j + 1 /\ before[i] = b + M - 1
    <3>1. j + 1 \in 1 .. last /\ before[j + 1] = before[j] + Len(records) - 1
      BY <1>2, <1>3, <1>5, <2>1, ChainTable
    <3>2. PICK i : i = j + 1 /\ i \in 1 .. last /\ before[i] = before[j] + Len(records) - 1
      BY <3>1
    <3> QED
      BY <1>6, <1>12, <3>2
  <2>4. PICK entries : entries = scanMbrEntries(d.view[at[i]], at[i])
    OBVIOUS
  <2>5. at[i] \in Sector \ FirstSectors(d) /\ (i < last => Len(entries) > 0)
    BY <1>2, <1>3, <2>4, ChainTable
  <2>6. view[at[i]] = d.view[at[i]]
    BY <2>5 DEF Intact
  <2>7. scan' = [scan EXCEPT !.partitionIndex = 0, !.mbrEntries = entries,
                             !.numPartitionEntries = Len(entries)]
    BY <1>17, <2>2, <2>3, <2>4, <2>6
  <2>8. /\ scan'.pc = "record" /\ scan'.fault = scan.fault /\ scan'.mbrEntries = entries
        /\ scan'.numPartitionEntries = Len(entries) /\ scan'.partitionIndex = 0
        /\ scan'.mbrPartID = id0
    BY <1>1, <1>7, <2>7 DEF Inv, Scans, ScanRecord, NotScanning
  <2>9. ~scan.fault => id0 = before[i] + 0
    BY <1>8, <1>11, <1>12, <2>1, <2>3
  <2>10. OtherUpTo(d, scan.mbrPartID)' = OtherUpTo(d, id0)
    <3>1. OtherUpTo(d, scan.mbrPartID)' = OtherUpTo(d, id0)'
      BY <2>8
    <3> QED
      BY <1>1, <3>1, SameTaken
  <2>11. InTable(d, last, at, before, i)'
    BY <1>11, <1>17, <2>4, <2>5, <2>8, <2>9, <2>10 DEF InTable
  <2> QED
    BY <1>14, <1>15, <1>17, <2>8, <2>11
<1>18. CASE /\ rec.os_type # "extended"
            /\ scan' = [scan EXCEPT !.partitionIndex = k, !.mbrPartID = id]
            /\ partitions' = partitions \cup {MbrPart(rec, view[rec.starting_lba], id)}
  <2>1. ~(j < last /\ k = M)
    BY <1>2, <1>3, <1>5, <1>6, <1>9, <1>18, ChainRecord
  <2>2. PICK n \in DOMAIN d.partitions : n = b + k /\ rec = RecordOf(d.partitions[n])
    BY <1>2, <1>3, <1>5, <1>6, <1>9, <1>12, <2>1, ChainRecord
  <2>3. PICK p : /\ p = d.partitions[n] /\ Fits(p) /\ p.sysind \notin {"extended", "none"} /\ p.id = n
                 /\ p.offset \div sectorSize \in Sector
                 /\ p.offset # 0 => p.offset \div sectorSize \in FirstSectors(d)
    BY <1>2, OtherFits
  <2>4. /\ scan'.pc = "record" /\ scan'.fault = scan.fault /\ scan'.mbrEntries = scan.mbrEntries
        /\ scan'.numPartitionEntries = scan.numPartitionEntries
        /\ scan'.partitionIndex = k /\ scan'.mbrPartID = id
    BY <1>1, <1>18 DEF Inv, Scans, ScanRecord, NotScanning
  <2>5. Intact(d)'
    <3>1. PICK q : q = MbrPart(rec, view[rec.starting_lba], id)
      OBVIOUS
    <3>2. q.offset # 0 => q.offset \div sectorSize \in FirstSectors(d)
      <4>1. q = MbrPart(RecordOf(p), view[rec.starting_lba], id)
        BY <2>2, <2>3, <3>1
      <4>2. q.offset = p.offset
        BY <2>3, <4>1, MbrPartLeads
      <4> QED
        BY <2>3, <4>2
    <3>3. \A x \in partitions' : x \in partitions \/ x = q
      BY <1>18, <3>1
    <3> QED
      BY <1>1, <3>2, <3>3 DEF Intact
  <2>6. ASSUME ~scan.fault
        PROVE  id = n /\ partitions' = OtherUpTo(d, n)
    <3>1. PICK L \in Nat : L = Len(d.partitions) /\ DOMAIN d.partitions = 1 .. L /\ L < Word16
      BY <1>2 DEF ReadableDisk, ForeignMbr
    <3>2. id0 + 1 = n
      BY <1>7, <1>8, <1>11, <1>12, <2>2, <2>6
    <3>3. id = n
      <4>1. n \in 1 .. L /\ L < 65536
        BY <3>1 DEF Word16
      <4>2. PICK v \in Nat : v = n /\ v < 65536
        BY <4>1
      <4>3. v % 65536 = v
        BY <4>2
      <4> QED
        BY <1>10, <3>2, <4>2, <4>3 DEF Word16
    <3>4. MbrPart(RecordOf(p), view[RecordOf(p).starting_lba], n) = Found(p, "other", n)
      BY <2>3, MbrPartFound
    <3>5. partitions' = OtherUpTo(d, id0) \cup {Found(p, "other", n)}
      BY <1>11, <1>18, <2>2, <2>3, <2>6, <3>3, <3>4
    <3>6. OtherUpTo(d, id0 + 1) = OtherUpTo(d, id0) \cup {Found(d.partitions[id0 + 1], "other", id0 + 1)}
      BY <2>2, <3>2, OtherUpToNext
    <3> QED
      BY <2>3, <3>2, <3>3, <3>5, <3>6
  <2>7. OtherUpTo(d, scan.mbrPartID)' = OtherUpTo(d, id)
    <3>1. OtherUpTo(d, scan.mbrPartID)' = OtherUpTo(d, id)'
      BY <2>4
    <3> QED
      BY <1>1, <3>1, SameTaken
  <2>8. j < last => k < M
    BY <1>6, <1>8, <2>1
  <2>9. InTable(d, last, at, before, j)'
    BY <1>5, <1>6, <1>11, <1>12, <2>2, <2>4, <2>6, <2>7, <2>8 DEF InTable
  <2> QED
    BY <1>15, <2>4, <2>5, <2>9
<1> QED
  BY <1>13, <1>16, <1>17, <1>18

\* After the last item, or the last record of the last table, everything has been found.
LEMMA ScanDoneOther ==
  ASSUME Inv, AllCounted, Scanning, ScanDone, written.scheme = "other",
         NEW d \in Disks, ReadableDisk(d), Intact(d), Reading(d)
  PROVE  Intact(d)' /\ Reading(d)' /\ OtherFound'
<1>1. /\ scan.pc \in {"entries", "entry", "record"} /\ ~More
      /\ ScanEnds("done", scan.fault) /\ UNCHANGED <<view, medium, partitions, written>>
  BY DEF ScanDone, Scanning, device
<1>2. scan.partitionIndex = scan.numPartitionEntries /\ scan.partitionIndex \in Nat
  BY <1>1 DEF More, Inv, Scans
<1>3. Intact(d)'
  BY <1>1 DEF Intact
<1>4. Reading(d)'
  BY <1>1, IdleReading DEF ScanEnds
<1>5. written.table = d.partitions
  BY DEF Intact
<1>6. ASSUME ~scan.fault
      PROVE  partitions = Expected(written)
  <2>1. CASE scan.pc \in {"entries", "entry"}
    <3>1. ForeignGpt(d) /\ GptReading(d)
      BY <2>1 DEF Reading
    <3>2. partitions = TakenUpTo(d, d.view[1].num_partition_entries)
      BY <1>2, <1>6, <3>1 DEF GptReading
    <3> QED
      BY <1>5, <3>1, <3>2, AllTaken
  <2>2. CASE scan.pc = "record"
    <3>1. ForeignMbr(d) /\ MbrReading(d)
      BY <2>2 DEF Reading
    <3>2. PICK last, at, before :
            /\ IsChain(d, last, at, before)
            /\ \E j \in 1 .. last : InTable(d, last, at, before, j)
      BY <3>1 DEF MbrReading
    <3>3. PICK j \in 1 .. last : InTable(d, last, at, before, j)
      BY <3>2
    <3>4. PICK records : records = scanMbrEntries(d.view[at[j]], at[j])
      OBVIOUS
    <3>5. /\ scan.numPartitionEntries = Len(records)
          /\ scan.mbrPartID = before[j] + scan.partitionIndex
          /\ partitions = OtherUpTo(d, scan.mbrPartID) /\ ~(j < last)
      BY <1>2, <1>6, <3>3, <3>4 DEF InTable
    <3>6. before[j] + Len(records) = Len(d.partitions)
      BY <3>1, <3>2, <3>4, <3>5, ChainTable
    <3>7. partitions = OtherUpTo(d, Len(d.partitions))
      BY <1>2, <3>5, <3>6
    <3> QED
      BY <1>2, <1>5, <3>7, OtherUpToNext
  <2> QED
    BY <1>1, <2>1, <2>2
<1>7. OtherFound'
  BY <1>1, <1>6, EndsOther
<1> QED
  BY <1>3, <1>4, <1>7

LEMMA ScanningOther ==
  ASSUME ForeignReadable(Disks), OtherInv, Scanning
  PROVE  OtherKept' /\ OtherFound' /\ Forgotten' /\ Known'
<1>1. Inv /\ AllCounted /\ OtherKept /\ OtherFound /\ Known
  BY DEF OtherInv
<1>2. UNCHANGED <<view, medium, written, fmt>> /\ scan.pc # "idle"
  BY DEF Scanning, ScanStep, ReadFails, NoBuffer, LoadSector0, FoundProtective, LoadHeader,
     LoadEntries, TakeEntry, TakeRecord, ScanDone, device
<1>3. fmt' = NotFormatting
  BY <1>1, <1>2 DEF Inv, Written, NotScanning
<1>4. Forgotten' /\ Known'
  BY <1>1, <1>2, <1>3 DEF Forgotten, NotFormatting, Known
<1>5. CASE written.scheme # "other"
  BY <1>2, <1>4, <1>5 DEF OtherKept, OtherFound
<1>6. CASE written.scheme = "other"
  <2>1. PICK d \in Disks : Intact(d) /\ Reading(d)
    BY <1>1, <1>6 DEF OtherKept
  <2>2. ReadableDisk(d)
    BY DEF ForeignReadable
  <2>3. ReadFails \/ NoBuffer => Intact(d)' /\ Reading(d)' /\ OtherFound'
    <3> SUFFICES ASSUME ReadFails \/ NoBuffer
                 PROVE  Intact(d)' /\ Reading(d)' /\ OtherFound'
      OBVIOUS
    <3>1. UNCHANGED partitions /\ \E state : ScanEnds(state, TRUE)
      BY DEF ReadFails, NoBuffer
    <3> QED
      BY <1>2, <2>1, <3>1, FailedOther
  <2>4. Intact(d)' /\ Reading(d)' /\ OtherFound'
    BY <1>1, <1>6, <2>1, <2>2, <2>3, LoadSector0Other, FoundProtectiveOther, LoadHeaderOther,
       LoadEntriesOther, TakeEntryOther, TakeRecordOther, ScanDoneOther DEF Scanning, ScanStep
  <2> QED
    BY <1>4, <2>4 DEF OtherKept
<1> QED
  BY <1>5, <1>6

(***************************************************************************)
(* All disks: theorem                                                      *)
(***************************************************************************)

LEMMA InitOther == Init => OtherInv
<1> SUFFICES ASSUME Init
             PROVE  OtherInv
  OBVIOUS
<1>1. Inv /\ AllCounted /\ Forgotten
  BY InitFound DEF FoundInv
<1>2. PICK d \in Disks : view = d.view /\ written = [scheme |-> "other", table |-> d.partitions]
  BY DEF Init
<1>3. medium = view /\ partitions = {} /\ scan = NotScanning /\ scanned = NotScanned
  BY DEF Init
<1>4. Intact(d)
  BY <1>2, <1>3 DEF Intact
<1>5. Reading(d)
  BY <1>3 DEF Reading, NotScanning
<1>6. OtherFound
  BY <1>3 DEF OtherFound, RoundTrip, NotScanned
<1>7. Known
  BY <1>2 DEF Known
<1> QED
  BY <1>1, <1>4, <1>5, <1>6, <1>7 DEF OtherInv, OtherKept

LEMMA NextOther == ForeignReadable(Disks) /\ OtherInv /\ [Next]_vars => OtherInv'
<1> SUFFICES ASSUME ForeignReadable(Disks), OtherInv, [Next]_vars
             PROVE  OtherInv'
  OBVIOUS
<1>1. Inv /\ AllCounted /\ OtherKept /\ OtherFound /\ Forgotten /\ Known
  BY DEF OtherInv
<1>2. Inv' /\ AllCounted'
  BY <1>1, NextInv, CountedNext
<1>3. CASE RefuseFormat \/ UNCHANGED vars
  <2>1. UNCHANGED <<view, medium, partitions, fmt, scan, scanned, written>>
    BY <1>3 DEF RefuseFormat, Refuse, vars, device
  <2> QED
    BY <1>1, <1>2, <2>1, SameOther DEF OtherInv
<1>4. CASE \/ StartFormat \/ StartScan \/ UsePartition \/ PowerLoss \/ Formatting \/ Scanning
           \/ WriteBack
  BY <1>1, <1>2, <1>4, StartFormatOther, StartScanOther, UsePartitionOther, PowerLossOther,
     FormattingOther, ScanningOther, WriteBackOther DEF OtherInv
<1> QED
  BY <1>3, <1>4 DEF Next

\* The whole of RoundTrip: whatever was on the disk before, whatever the application
\* writes to its partitions, and across power losses, a scan in which no read fails finds
\* exactly the partitions that formatDisk was asked for or that another tool made.  The
\* conditions are on the constants: the tables of formatDisk's MBRs (MbrReadable), and
\* the disks of other tools, with their extended partitions (ForeignReadable).
THEOREM RoundTripHolds == MbrReadable /\ ForeignReadable(Disks) => (Spec => []RoundTrip)
<1>1. FoundInv /\ MbrInv /\ OtherInv => RoundTrip
  <2> SUFFICES ASSUME FoundInv, MbrInv, OtherInv
               PROVE  RoundTrip
    OBVIOUS
  <2>1. written.scheme \in {"gpt", "mbr", "other"} => RoundTrip
    BY DEF FoundInv, GptFound, MbrInv, MbrFound, OtherInv, OtherFound
  <2>2. written = None => RoundTrip
    BY DEF RoundTrip
  <2> QED
    BY <2>1, <2>2 DEF OtherInv, Known
<1> SUFFICES ASSUME MbrReadable, ForeignReadable(Disks)
             PROVE  Spec => []RoundTrip
  OBVIOUS
<1>2. MbrInv /\ [Next]_vars => MbrInv'
  BY NextMbr
<1>3. OtherInv /\ [Next]_vars => OtherInv'
  BY NextOther
<1> QED
  BY <1>1, <1>2, <1>3, InitFound, NextFound, InitMbr, InitOther, PTL DEF Spec
==============================================================================
