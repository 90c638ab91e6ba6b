-------------------------- MODULE DiskStorageProofs --------------------------
(***************************************************************************)
(* Proofs about DiskStorage, for every device and every size of a GPT, for *)
(* any disk that the application finds and any tables that it asks for.    *)
(***************************************************************************)
EXTENDS DiskStorage, SequenceTheorems, TLAPS

(***************************************************************************)
(* The inductive invariant                                                 *)
(***************************************************************************)

TablesFor(scheme) == {t.table : t \in {u \in Tables : u.scheme = scheme}}

\* On v are the first k sectors of entries for this table, with their copies.
HasEntries(v, table, k) ==
  \A j \in 0 .. k - 1 : /\ v[2 + j] = EntrySector(table, j)
                        /\ v[backupPartitionTableSector + j] = EntrySector(table, j)

HasHeader(v, table) == v[1] = GptHeader(table, 1, driveSectors - 1, 2)
HasBackup(v, table) ==
  v[driveSectors - 1] = GptHeader(table, driveSectors - 1, 1, backupPartitionTableSector)

\* v is a GPT disk with this table.
HasGpt(v, table) ==
  /\ v[0] = ProtectiveMbr
  /\ HasHeader(v, table) /\ HasBackup(v, table)
  /\ HasEntries(v, table, numPartitionTableSectors)

\* The fields of the two calls' states.
FormatRecord == fmt = [pc |-> fmt.pc, table |-> fmt.table, k |-> fmt.k]
ScanRecord == DOMAIN scan = DOMAIN NotScanning

\* What formatDisk has written.  A disk that was no GPT disk does not become one
\* before everything else of the table is in place.
Written ==
  /\ FormatRecord
  /\ fmt.pc \in {"idle", "entries", "copy", "header", "backup", "pmbr", "mbr", "sync"}
  /\ fmt.pc = "idle" => fmt = NotFormatting
  /\ fmt.pc # "idle" => written = None /\ scan = NotScanning
  /\ fmt.pc \in {"entries", "copy", "header", "backup", "pmbr"} =>
       fmt.table \in TablesFor("gpt") /\ (mixed \/ ~IsProtective(view[0]))
  /\ fmt.pc \in {"entries", "copy"} =>
       fmt.k \in 0 .. numPartitionTableSectors - 1 /\ HasEntries(view, fmt.table, fmt.k)
  /\ fmt.pc = "copy" => view[2 + fmt.k] = EntrySector(fmt.table, fmt.k)
  /\ fmt.pc \in {"header", "backup", "pmbr"} => HasEntries(view, fmt.table, numPartitionTableSectors)
  /\ fmt.pc \in {"backup", "pmbr"} => HasHeader(view, fmt.table)
  /\ fmt.pc = "pmbr" => HasBackup(view, fmt.table)
  /\ fmt.pc = "mbr" => fmt.table \in TablesFor("mbr")
  /\ fmt.pc = "sync" =>
       \/ fmt.table \in TablesFor("gpt") /\ HasGpt(view, fmt.table)
       \/ fmt.table \in TablesFor("mbr") /\ ~IsProtective(view[0])

\* A disk that says it is a GPT disk has one of the tables that were asked for.
Announced ==
  IsProtective(view[0]) /\ ~mixed => \E table \in TablesFor("gpt") : HasGpt(view, table)

\* What the scanner makes of a GPT disk: the partitions of the table and nothing
\* else, whatever entry it is at.
Follows(table) ==
  /\ scan.pc # "record"
  /\ scan.pc \in {"entries", "entry"} =>
       scan.partitionIndex \in Nat /\ scan.numPartitionEntries = GPT_ITEMS
  /\ scan.pc = "entries" => scan.sector = 2 + (scan.partitionIndex \div entriesPerSector)
  /\ scan.pc = "entry" =>
       /\ scan.sector = 3 + (scan.partitionIndex \div entriesPerSector)
       /\ \A j \in 1 .. entriesPerSector :
            scan.buffer[j] = NoEntry \/ \E n \in DOMAIN table : scan.buffer[j] = Entry(table[n])
  /\ \A p \in partitions : p.offset # 0 => p.offset \div sectorSize \in DataOf(table)

\* While the application may use its partitions a GPT is in the cache and on the
\* medium, and nothing that is known of the partitions leads to its sectors.
Settled ==
  written # None =>
    \/ mixed
    \/ ~IsProtective(view[0]) /\ ~IsProtective(medium[0])
    \/ /\ written.table \in TablesFor("gpt")
       /\ HasGpt(view, written.table) /\ HasGpt(medium, written.table)
       /\ Follows(written.table)

\* Headers have a number of entries, and the scanner is within it.
Counts(v) == \A s \in Sector : v[s].kind = "header" => v[s].num_partition_entries \in Nat
Scans ==
  /\ DOMAIN view = Sector /\ DOMAIN medium = Sector
  /\ Counts(view) /\ Counts(medium)
  /\ ScanRecord
  /\ scan.pc \in {"idle", "sector0", "header", "entries", "entry", "record"}
  /\ scan.numPartitionEntries \in Nat
  /\ scan.partitionIndex \in 0 .. scan.numPartitionEntries
  /\ scan.mbrPartID \in 0 .. Word16 - 1
  /\ scan.pc \in {"sector0", "header"} => scan.partitionIndex = 0
  /\ formats \in 0 .. MaxFormats /\ mixed \in BOOLEAN

Inv == Scans /\ Written /\ Announced /\ Settled

(***************************************************************************)
(* Arithmetic                                                              *)
(***************************************************************************)

\* Division with remainder.
LEMMA DivMod ==
  ASSUME NEW a \in Nat, NEW m \in Nat \ {0}
  PROVE  /\ a \div m \in Nat /\ a % m \in 0 .. m - 1
         /\ a = (a \div m) * m + (a % m)
OBVIOUS

\* Quotients are unique.
LEMMA DivUnique ==
  ASSUME NEW m \in Nat \ {0}, NEW q \in Nat, NEW r \in 0 .. m - 1
  PROVE  (q * m + r) \div m = q /\ (q * m + r) % m = r
OBVIOUS

\* A quotient is below the factor that bounds the dividend.
LEMMA DivBelow ==
  ASSUME NEW a \in Nat, NEW m \in Nat \ {0}, NEW n \in Nat, a < n * m
  PROVE  a \div m < n
<1>1. PICK q \in Nat, r \in 0 .. m - 1 : q = a \div m /\ a = q * m + r
  BY DivMod
<1>2. ~(q >= n)
  <2> SUFFICES ASSUME q >= n
               PROVE  FALSE
    OBVIOUS
  <2>1. PICK d \in Nat : q = n + d
    <3>1. q - n \in Nat /\ q = n + (q - n)
      OBVIOUS
    <3> QED
      BY <3>1
  <2>2. q * m = n * m + d * m /\ d * m \in Nat
    BY <2>1
  <2> QED
    BY <1>1, <2>2
<1> QED
  BY <1>1, <1>2

\* The next entry is in the same sector, or the first of the next.
LEMMA NextEntry ==
  ASSUME NEW a \in Nat, NEW m \in Nat \ {0}
  PROVE  (a + 1) \div m = IF (a + 1) % m = 0 THEN (a \div m) + 1 ELSE a \div m
<1>1. PICK q \in Nat, r \in 0 .. m - 1 : q = a \div m /\ a = q * m + r
  BY DivMod
<1>2. CASE r = m - 1
  <2>1. a + 1 = (q + 1) * m + 0
    BY <1>1, <1>2
  <2>2. (a + 1) \div m = q + 1 /\ (a + 1) % m = 0
    <3>1. PICK x \in Nat : x = q + 1
      OBVIOUS
    <3>2. (x * m + 0) \div m = x /\ (x * m + 0) % m = 0
      BY DivUnique, 0 \in 0 .. m - 1
    <3>3. a + 1 = x * m + 0
      BY <2>1, <3>1
    <3> QED
      BY <3>1, <3>2, <3>3
  <2> QED
    BY <1>1, <2>2
<1>3. CASE r # m - 1
  <2>1. a + 1 = q * m + (r + 1) /\ r + 1 \in 0 .. m - 1 /\ r + 1 # 0
    BY <1>1, <1>3
  <2>2. (a + 1) \div m = q /\ (a + 1) % m = r + 1
    BY <2>1, DivUnique
  <2> QED
    BY <1>1, <2>1, <2>2
<1> QED
  BY <1>2, <1>3

(***************************************************************************)
(* Tables, and where a GPT disk has its sectors                            *)
(***************************************************************************)

\* What validate sees to.
LEMMA TableFacts ==
  ASSUME NEW scheme, NEW table \in TablesFor(scheme)
  PROVE  /\ scheme \in Schemes /\ DOMAIN table = 1 .. Len(table) /\ Len(table) > 0
         /\ DataOf(table) \subseteq Space(scheme)
         /\ \A n \in DOMAIN table :
              /\ SectorsOf(table[n]) # {}
              /\ table[n].offset \in Nat /\ table[n].size \in Nat
              /\ scheme = "mbr" => table[n].sysind # "gpt"
<1>1. PICK t \in Tables : t.scheme = scheme /\ t.table = table
  BY DEF TablesFor
<1>2. /\ scheme \in Schemes /\ DOMAIN table = 1 .. Len(table) /\ Len(table) > 0
      /\ DataOf(table) \subseteq Space(scheme)
      /\ \A n \in DOMAIN table : SectorsOf(table[n]) # {} /\ Added(table[n], scheme)
  BY <1>1, DiskStorageAssumption
<1>3. \A n \in DOMAIN table : /\ table[n].offset \in Nat /\ table[n].size \in Nat
                              /\ scheme = "mbr" => table[n].sysind # "gpt"
  BY <1>2 DEF Added
<1> QED
  BY <1>2, <1>3

\* A partition begins in one of its sectors.
LEMMA FirstSector ==
  ASSUME NEW scheme, NEW table \in TablesFor(scheme), NEW n \in DOMAIN table
  PROVE  table[n].offset \div sectorSize \in DataOf(table)
<1>1. /\ SectorsOf(table[n]) # {} /\ table[n].offset \in Nat /\ table[n].size \in Nat
      /\ sectorSize \in Nat \ {0}
  BY TableFacts, DiskAssumption
<1>2. PICK a \in Nat : a = table[n].offset \div sectorSize
  <2>1. PICK o \in Nat : o = table[n].offset
    BY <1>1
  <2>2. o \div sectorSize \in Nat
    BY <1>1, DivMod
  <2> QED
    BY <2>1, <2>2
<1>3. PICK e \in Int : e = ((table[n].offset + table[n].size) \div sectorSize) - 1
  <2>1. PICK o \in Nat : o = table[n].offset + table[n].size
    BY <1>1
  <2>2. o \div sectorSize \in Nat
    BY <1>1, DivMod
  <2> QED
    BY <2>1, <2>2
<1>4. SectorsOf(table[n]) = a .. e
  BY <1>2, <1>3 DEF SectorsOf
<1>5. a \in a .. e
  BY <1>1, <1>4
<1> QED
  BY <1>2, <1>4, <1>5 DEF DataOf

\* The sectors of a GPT: entries from 2, their copies from B, partitions between
\* them.
Places(n, f, B, D) ==
  /\ n = numPartitionTableSectors /\ f = firstAllocatableSector
  /\ B = backupPartitionTableSector /\ D = driveSectors
  /\ n * entriesPerSector = GPT_ITEMS
  /\ 2 + n <= f /\ f < B /\ B + n + 1 = D

LEMMA GptPlaces ==
  ASSUME NEW table \in TablesFor("gpt")
  PROVE  \E n \in Nat \ {0}, f \in Nat, B \in Nat, D \in Nat :
           Places(n, f, B, D) /\ DataOf(table) \subseteq f .. B - 1
<1>1. PICK n \in Nat \ {0} : n = numPartitionTableSectors /\ n * entriesPerSector = GPT_ITEMS
  <2>1. PICK g \in Nat \ {0}, e \in Nat \ {0} : g = GPT_ITEMS /\ e = entriesPerSector /\ g % e = 0
    BY DiskAssumption
  <2>2. PICK n \in Nat : n = g \div e /\ g = n * e + (g % e)
    BY DivMod
  <2>3. g = n * e
    BY <2>1, <2>2
  <2>4. n # 0
    BY <2>3
  <2> QED
    BY <2>1, <2>2, <2>3, <2>4 DEF numPartitionTableSectors
<1>2. PICK f \in Nat : f = firstAllocatableSector /\ 2 + n <= f
  <2>1. PICK p \in Nat \ {0} : p = partAlignSectors
    BY FormatAssumption
  <2>2. PICK x \in Nat : x = (0 - (2 + n)) % p
    OBVIOUS
  <2>3. firstAllocatableSector = (2 + n) + x
    BY <1>1, <2>1, <2>2 DEF firstAllocatableSector, align_up
  <2> QED
    BY <2>3
<1>3. PICK D \in Nat : D = driveSectors
  BY DiskAssumption
<1>4. PICK B \in Int : B = backupPartitionTableSector /\ B + n + 1 = D
  BY <1>1, <1>3 DEF backupPartitionTableSector
<1>5. DataOf(table) \subseteq f .. B - 1
  BY <1>2, <1>4, TableFacts DEF Space
<1>6. f < B
  <2>1. 1 \in DOMAIN table
    BY TableFacts
  <2>2. table[1].offset \div sectorSize \in f .. B - 1
    BY <1>5, <2>1, FirstSector
  <2> QED
    BY <2>2
<1> QED
  BY <1>1, <1>2, <1>3, <1>4, <1>5, <1>6 DEF Places

\* Entry n of a table is where the scanner looks for it.
LEMMA EntryPlace ==
  ASSUME NEW table, NEW k \in Nat, NEW j \in 0 .. entriesPerSector - 1,
         k * entriesPerSector + j < GPT_ITEMS
  PROVE  EntrySector(table, k).e[j + 1] = EntryArray(table)[k * entriesPerSector + j + 1]
<1>1. PICK e \in Nat \ {0}, g \in Nat, x \in Nat :
        e = entriesPerSector /\ g = GPT_ITEMS /\ x = k * e
  BY DiskAssumption
<1>2. (k + 1) * e = x + e
  BY <1>1
<1>3. PICK a : a = EntryArray(table)
  OBVIOUS
<1>4. PICK S : S = {a[n] : n \in x + 1 .. x + e}
  OBVIOUS
<1>5. \A n \in x + 1 .. x + e : a[n] \in S
  BY <1>4
<1>6. x + 1 \in Int /\ x + e \in Int
  OBVIOUS
<1>7. \A n \in 1 .. (x + e) - (x + 1) + 1 : SubSeq(a, x + 1, x + e)[n] = a[(x + 1) + n - 1]
  BY <1>5, <1>6, SubSeqProperties
<1>8. j + 1 \in 1 .. (x + e) - (x + 1) + 1 /\ (x + 1) + (j + 1) - 1 = x + j + 1
  BY <1>1
<1>9. SubSeq(a, x + 1, x + e)[j + 1] = a[x + j + 1]
  BY <1>7, <1>8
<1>10. EntrySector(table, k).e = SubSeq(a, x + 1, x + e)
  BY <1>1, <1>2, <1>3 DEF EntrySector, Entries
<1> QED
  BY <1>1, <1>3, <1>9, <1>10

\* Where the entries are those of a table, so is their checksum.
LEMMA EntriesFound ==
  ASSUME NEW table \in TablesFor("gpt"), NEW lba \in Nat,
         \A j \in 0 .. numPartitionTableSectors - 1 : view[lba + j] = EntrySector(table, j)
  PROVE  EntriesAt(lba) = EntryArray(table)
<1>1. PICK n \in Nat \ {0}, e \in Nat \ {0}, g \in Nat :
        n = numPartitionTableSectors /\ e = entriesPerSector /\ g = GPT_ITEMS /\ g = n * e
  BY GptPlaces, DiskAssumption DEF Places
<1>2. ASSUME NEW m \in 1 .. g
      PROVE  EntriesOf(view[lba + ((m - 1) \div e)])[((m - 1) % e) + 1] = EntryArray(table)[m]
  <2>1. PICK a \in Nat : a = m - 1 /\ a < g
    OBVIOUS
  <2>2. PICK k \in Nat, j \in 0 .. e - 1 : k = a \div e /\ j = a % e /\ a = k * e + j
    BY DivMod
  <2>3. k < n
    BY <1>1, <2>1, <2>2, DivBelow
  <2>4. view[lba + k] = EntrySector(table, k)
    BY <1>1, <2>3
  <2>5. EntriesOf(view[lba + k]) = EntrySector(table, k).e
    <3>1. EntrySector(table, k).kind = "entries"
      BY DEF EntrySector, Entries
    <3> QED
      BY <2>4, <3>1 DEF EntriesOf
  <2>6. EntrySector(table, k).e[j + 1] = EntryArray(table)[k * e + j + 1]
    <3>1. k * e + j < g
      BY <2>1, <2>2
    <3> QED
      BY <1>1, <3>1, EntryPlace
  <2>7. k * e + j + 1 = m
    BY <2>1, <2>2
  <2> QED
    BY <2>1, <2>2, <2>5, <2>6, <2>7
<1>3. EntriesAt(lba) =
        [m \in 1 .. g |-> EntriesOf(view[lba + ((m - 1) \div e)])[((m - 1) % e) + 1]]
  BY <1>1 DEF EntriesAt
<1>4. EntryArray(table) = [m \in 1 .. g |-> EntryArray(table)[m]]
  BY <1>1 DEF EntryArray
<1> QED
  BY <1>2, <1>3, <1>4

\* A disk with a table's sectors is a consistent GPT disk.
LEMMA GptImplies ==
  ASSUME NEW table \in TablesFor("gpt"), HasGpt(view, table)
  PROVE  /\ Valid(1) /\ Valid(driveSectors - 1)
         /\ view[1].alternate_lba = driveSectors - 1
         /\ view[driveSectors - 1].alternate_lba = 1
         /\ view[driveSectors - 1].partition_entry_lba # view[1].partition_entry_lba
<1>1. PICK n \in Nat \ {0}, f \in Nat, B \in Nat, D \in Nat : Places(n, f, B, D)
  BY GptPlaces
<1>2. B # 2 /\ B \in Nat
  BY <1>1 DEF Places
<1>3. /\ view[1] = GptHeader(table, 1, D - 1, 2)
      /\ view[D - 1] = GptHeader(table, D - 1, 1, B)
  BY <1>1 DEF Places, HasGpt, HasHeader, HasBackup
<1>4. EntriesAt(2) = EntryArray(table) /\ EntriesAt(B) = EntryArray(table)
  <2>1. \A j \in 0 .. numPartitionTableSectors - 1 :
          view[2 + j] = EntrySector(table, j) /\ view[B + j] = EntrySector(table, j)
    BY <1>1 DEF Places, HasGpt, HasEntries
  <2> QED
    BY <2>1, EntriesFound
<1>5. Valid(1) /\ Valid(D - 1)
  BY <1>3, <1>4 DEF Valid, GptHeader, Header
<1>6. D = driveSectors
  BY <1>1 DEF Places
<1> QED
  BY <1>2, <1>3, <1>5, <1>6 DEF GptHeader, Header

(***************************************************************************)
(* Writing                                                                 *)
(***************************************************************************)

\* The sectors that make a GPT.
GptSectors ==
  {0, 1, driveSectors - 1}
    \cup {2 + j : j \in 0 .. numPartitionTableSectors - 1}
    \cup {backupPartitionTableSector + j : j \in 0 .. numPartitionTableSectors - 1}

\* Only these matter.
LEMMA SameGpt ==
  ASSUME NEW v, NEW w, NEW table, HasGpt(v, table), \A s \in GptSectors : w[s] = v[s]
  PROVE  HasGpt(w, table)
BY DEF HasGpt, HasHeader, HasBackup, HasEntries, GptSectors

\* No partition has one of them.
LEMMA DataApart ==
  ASSUME NEW table \in TablesFor("gpt")
  PROVE  GptSectors \subseteq Sector /\ DataOf(table) \cap GptSectors = {}
<1>1. PICK n \in Nat \ {0}, f \in Nat, B \in Nat, D \in Nat :
        Places(n, f, B, D) /\ DataOf(table) \subseteq f .. B - 1
  BY GptPlaces
<1>2. GptSectors = {0, 1, D - 1} \cup {2 + j : j \in 0 .. n - 1} \cup {B + j : j \in 0 .. n - 1}
  BY <1>1 DEF Places, GptSectors
<1>3. ASSUME NEW s \in GptSectors
      PROVE  s \in 0 .. D - 1 /\ s \notin f .. B - 1
  BY <1>1, <1>2 DEF Places
<1> QED
  BY <1>1, <1>3 DEF Places, Sector

\* One write of formatDisk: it is made or not, and the call goes on or ends with an
\* error.
LEMMA WriteFacts ==
  ASSUME Scans, FormatRecord, NEW s \in Sector, NEW c, NEW pc, NEW k, pc # "idle",
         c.kind = "header" => c.num_partition_entries \in Nat,
         WriteSector(s, c, pc, k), Formatting
  PROVE  /\ \/ fmt' = [fmt EXCEPT !.pc = pc, !.k = k] /\ view'[s] = c
            \/ fmt' = NotFormatting
         /\ view'[s] = c \/ view' = view
         /\ \A x \in Sector : x # s => view'[x] = view[x]
         /\ UNCHANGED <<medium, partitions, scan, scanned, formats, written, mixed>>
         /\ Scans'
<1>1. DOMAIN view = Sector
  BY DEF Scans
<1>2. /\ \/ fmt' = [fmt EXCEPT !.pc = pc, !.k = k] /\ view' = [view EXCEPT ![s] = c] /\ UNCHANGED error
         \/ fmt' = NotFormatting /\ error' = "WriteFailure"
      /\ view' = [view EXCEPT ![s] = c] \/ view' = view
      /\ UNCHANGED <<medium, partitions>>
  BY DEF WriteSector, Write, device
<1>3. /\ view' = [view EXCEPT ![s] = c] => view'[s] = c
      /\ \A x \in Sector : x # s => view'[x] = view[x]
      /\ DOMAIN view' = Sector
  BY <1>1, <1>2
<1>4. \/ fmt' = [fmt EXCEPT !.pc = pc, !.k = k] /\ view'[s] = c
      \/ fmt' = NotFormatting
  BY <1>2, <1>3
<1>5. UNCHANGED <<written, mixed, scan, scanned, formats>>
  <2>1. CASE fmt' = NotFormatting /\ error' = "WriteFailure"
    BY <2>1 DEF Formatting
  <2>2. CASE fmt' = [fmt EXCEPT !.pc = pc, !.k = k]
    <3>1. fmt'.pc = pc
      BY <2>2 DEF FormatRecord
    <3>2. NotFormatting.pc = "idle"
      BY DEF NotFormatting
    <3> QED
      BY <3>1, <3>2 DEF Formatting
  <2> QED
    BY <1>2, <2>1, <2>2
<1>6. Counts(view)'
  BY <1>2, <1>3 DEF Scans, Counts
<1>7. Scans'
  BY <1>2, <1>3, <1>5, <1>6 DEF Scans, Counts, ScanRecord
<1> QED
  BY <1>2, <1>3, <1>4, <1>5, <1>7

\* A call that has ended has nothing to keep.
LEMMA StoppedWritten ==
  ASSUME fmt' = NotFormatting
  PROVE  Written'
BY DEF Written, FormatRecord, NotFormatting

\* The writes before the protective MBR: sector 0 stays as it is.
LEMMA EarlyWrite ==
  ASSUME Inv, Formatting, fmt.pc \in {"entries", "copy", "header", "backup"},
         NEW s \in GptSectors \ {0}, NEW c, NEW pc \in {"entries", "copy", "header", "backup", "pmbr"},
         NEW k, c.kind = "header" => c.num_partition_entries \in Nat,
         WriteSector(s, c, pc, k)
  PROVE  /\ Scans' /\ Announced' /\ Settled' /\ written' = None /\ scan' = NotScanning
         /\ fmt.table \in TablesFor("gpt") /\ (mixed' \/ ~IsProtective(view'[0]))
         /\ \A x \in Sector : x # s => view'[x] = view[x]
         /\ \/ /\ FormatRecord' /\ fmt'.pc = pc /\ fmt'.k = k /\ fmt'.table = fmt.table
               /\ view'[s] = c
            \/ fmt' = NotFormatting
<1>1. /\ Scans /\ FormatRecord /\ written = None /\ scan = NotScanning
      /\ fmt.table \in TablesFor("gpt") /\ (mixed \/ ~IsProtective(view[0]))
  BY DEF Inv, Written
<1>2. s \in Sector /\ 0 \in Sector /\ s # 0
  BY <1>1, DataApart, DiskAssumption DEF Sector
<1>3. /\ \/ fmt' = [fmt EXCEPT !.pc = pc, !.k = k] /\ view'[s] = c
         \/ fmt' = NotFormatting
      /\ \A x \in Sector : x # s => view'[x] = view[x]
      /\ UNCHANGED <<medium, partitions, scan, scanned, formats, written, mixed>>
      /\ Scans'
  BY <1>1, <1>2, WriteFacts
<1>4. view'[0] = view[0]
  BY <1>2, <1>3
<1>5. mixed' \/ ~IsProtective(view'[0])
  BY <1>1, <1>3, <1>4
<1>6. Announced'
  BY <1>5 DEF Announced
<1>7. Settled'
  BY <1>1, <1>3 DEF Settled
<1>8. fmt' = [fmt EXCEPT !.pc = pc, !.k = k] =>
        FormatRecord' /\ fmt'.pc = pc /\ fmt'.k = k /\ fmt'.table = fmt.table
  BY <1>1 DEF FormatRecord
<1> QED
  BY <1>1, <1>3, <1>5, <1>6, <1>7, <1>8

\* A sector of entries is no header.
LEMMA EntrySectorKind ==
  ASSUME NEW table, NEW k
  PROVE  EntrySector(table, k).kind # "header"
BY DEF EntrySector, Entries

\* A header counts GPT_ITEMS entries.
LEMMA HeaderKind ==
  ASSUME NEW table, NEW my, NEW alternate, NEW lba
  PROVE  GptHeader(table, my, alternate, lba).num_partition_entries \in Nat
BY DiskAssumption DEF GptHeader, Header

\* What is on the disk already stays there.
LEMMA SameEntries ==
  ASSUME NEW table, NEW k, NEW v, NEW w, HasEntries(v, table, k),
         \A j \in 0 .. k - 1 : /\ w[2 + j] = v[2 + j]
                               /\ w[backupPartitionTableSector + j] = v[backupPartitionTableSector + j]
  PROVE  HasEntries(w, table, k)
BY DEF HasEntries

LEMMA WriteEntriesInv ==
  ASSUME Inv, Formatting, WriteEntries
  PROVE  Inv'
<1>1. /\ fmt.pc = "entries" /\ fmt.table \in TablesFor("gpt")
      /\ fmt.k \in 0 .. numPartitionTableSectors - 1 /\ HasEntries(view, fmt.table, fmt.k)
      /\ WriteSector(2 + fmt.k, EntrySector(fmt.table, fmt.k), "copy", fmt.k)
  BY DEF Inv, Written, WriteEntries
<1>2. PICK table \in TablesFor("gpt") : table = fmt.table
  BY <1>1
<1>3. PICK n \in Nat \ {0}, f \in Nat, B \in Nat, D \in Nat : Places(n, f, B, D)
  BY GptPlaces
<1>4. PICK k \in 0 .. n - 1 : k = fmt.k
  BY <1>1, <1>3 DEF Places
<1>5. 2 + k \in GptSectors \ {0}
  BY <1>3, <1>4 DEF GptSectors, Places
<1>6. PICK c : c = EntrySector(table, k)
  OBVIOUS
<1>7. c.kind # "header"
  BY <1>6, EntrySectorKind
<1>8. /\ Scans' /\ Announced' /\ Settled' /\ written' = None /\ scan' = NotScanning
      /\ (mixed' \/ ~IsProtective(view'[0]))
      /\ \A x \in Sector : x # 2 + k => view'[x] = view[x]
      /\ \/ /\ FormatRecord' /\ fmt'.pc = "copy" /\ fmt'.k = k /\ fmt'.table = table
            /\ view'[2 + k] = c
         \/ fmt' = NotFormatting
  BY <1>1, <1>2, <1>4, <1>5, <1>6, <1>7, EarlyWrite
<1>9. CASE fmt' = NotFormatting
  BY <1>8, <1>9, StoppedWritten DEF Inv
<1>10. CASE fmt' # NotFormatting
  <2>1. HasEntries(view', table, k)
    <3>1. ASSUME NEW j \in 0 .. k - 1
          PROVE  view'[2 + j] = view[2 + j] /\ view'[B + j] = view[B + j]
      <4>1. 2 + j \in Sector /\ 2 + j # 2 + k /\ B + j \in Sector /\ B + j # 2 + k
        BY <1>3 DEF Places, Sector
      <4> QED
        BY <1>8, <4>1
    <3>2. HasEntries(view, table, k) /\ B = backupPartitionTableSector
      BY <1>1, <1>2, <1>3, <1>4 DEF Places
    <3> QED
      BY <3>1, <3>2, SameEntries
  <2>2. Written'
    BY <1>2, <1>3, <1>4, <1>6, <1>8, <1>10, <2>1 DEF Written, Places
  <2> QED
    BY <1>8, <2>2 DEF Inv
<1> QED
  BY <1>9, <1>10

LEMMA WriteEntriesCopyInv ==
  ASSUME Inv, Formatting, WriteEntriesCopy
  PROVE  Inv'
<1>1. /\ fmt.pc = "copy" /\ fmt.table \in TablesFor("gpt")
      /\ fmt.k \in 0 .. numPartitionTableSectors - 1 /\ HasEntries(view, fmt.table, fmt.k)
      /\ view[2 + fmt.k] = EntrySector(fmt.table, fmt.k)
      /\ WriteSector(backupPartitionTableSector + fmt.k, EntrySector(fmt.table, fmt.k),
                     IF MoreEntries THEN "entries" ELSE "header", fmt.k + 1)
  BY DEF Inv, Written, WriteEntriesCopy
<1>2. PICK table \in TablesFor("gpt") : table = fmt.table
  BY <1>1
<1>3. PICK n \in Nat \ {0}, f \in Nat, B \in Nat, D \in Nat : Places(n, f, B, D)
  BY GptPlaces
<1>4. PICK k \in 0 .. n - 1 : k = fmt.k
  BY <1>1, <1>3 DEF Places
<1>5. B + k \in GptSectors \ {0}
  <2>1. B + k # 0
    BY <1>3 DEF Places
  <2>2. B + k \in {backupPartitionTableSector + j : j \in 0 .. numPartitionTableSectors - 1}
    BY <1>3 DEF Places
  <2> QED
    BY <2>1, <2>2 DEF GptSectors
<1>6. PICK c : c = EntrySector(table, k)
  OBVIOUS
<1>7. c.kind # "header"
  BY <1>6, EntrySectorKind
<1>8. PICK pc \in {"entries", "header"} : pc = IF k + 1 < n THEN "entries" ELSE "header"
  OBVIOUS
<1>9. WriteSector(B + k, c, pc, k + 1)
  BY <1>1, <1>2, <1>3, <1>4, <1>6, <1>8 DEF MoreEntries, Places
<1>10. /\ Scans' /\ Announced' /\ Settled' /\ written' = None /\ scan' = NotScanning
       /\ (mixed' \/ ~IsProtective(view'[0]))
       /\ \A x \in Sector : x # B + k => view'[x] = view[x]
       /\ \/ /\ FormatRecord' /\ fmt'.pc = pc /\ fmt'.k = k + 1 /\ fmt'.table = table
             /\ view'[B + k] = c
          \/ fmt' = NotFormatting
  BY <1>1, <1>2, <1>5, <1>7, <1>9, EarlyWrite
<1>11. CASE fmt' = NotFormatting
  BY <1>10, <1>11, StoppedWritten DEF Inv
<1>12. CASE fmt' # NotFormatting
  <2>1. HasEntries(view', table, k + 1)
    <3>1. ASSUME NEW j \in 0 .. (k + 1) - 1
          PROVE  view'[2 + j] = EntrySector(table, j) /\ view'[B + j] = EntrySector(table, j)
      <4>1. 2 + j \in Sector /\ B + j \in Sector /\ 2 + j # B + k /\ (j # k => B + j # B + k)
        BY <1>3 DEF Places, Sector
      <4>2. j # k => view[2 + j] = EntrySector(table, j) /\ view[B + j] = EntrySector(table, j)
        BY <1>1, <1>2, <1>3, <1>4 DEF Places, HasEntries
      <4>3. view[2 + k] = EntrySector(table, k)
        BY <1>1, <1>2, <1>4
      <4>4. view'[2 + j] = view[2 + j] /\ (j # k => view'[B + j] = view[B + j])
        BY <1>10, <4>1
      <4> QED
        BY <1>6, <1>10, <1>12, <4>2, <4>3, <4>4
    <3> QED
      BY <1>3, <3>1 DEF HasEntries, Places
  <2>2. CASE k + 1 < n
    <3>1. k + 1 \in 0 .. n - 1
      BY <2>2
    <3> QED
      BY <1>2, <1>3, <1>8, <1>10, <1>12, <2>1, <2>2, <3>1 DEF Inv, Written, Places
  <2>3. CASE ~(k + 1 < n)
    <3>1. k + 1 = n
      BY <2>3
    <3> QED
      BY <1>2, <1>3, <1>8, <1>10, <1>12, <2>1, <2>3, <3>1 DEF Inv, Written, Places
  <2> QED
    BY <2>2, <2>3
<1> QED
  BY <1>11, <1>12

LEMMA WriteHeaderInv ==
  ASSUME Inv, Formatting, WriteHeader
  PROVE  Inv'
<1>1. /\ fmt.pc = "header" /\ fmt.table \in TablesFor("gpt")
      /\ HasEntries(view, fmt.table, numPartitionTableSectors)
      /\ WriteSector(1, GptHeader(fmt.table, 1, driveSectors - 1, 2), "backup", fmt.k)
  BY DEF Inv, Written, WriteHeader
<1>2. PICK table \in TablesFor("gpt") : table = fmt.table
  BY <1>1
<1>3. PICK n \in Nat \ {0}, f \in Nat, B \in Nat, D \in Nat : Places(n, f, B, D)
  BY GptPlaces
<1>4. 1 \in GptSectors \ {0}
  BY DEF GptSectors
<1>5. PICK c : c = GptHeader(table, 1, driveSectors - 1, 2)
  OBVIOUS
<1>6. c.num_partition_entries \in Nat
  BY <1>5, HeaderKind
<1>7. /\ Scans' /\ Announced' /\ Settled' /\ written' = None /\ scan' = NotScanning
      /\ (mixed' \/ ~IsProtective(view'[0]))
      /\ \A x \in Sector : x # 1 => view'[x] = view[x]
      /\ \/ /\ FormatRecord' /\ fmt'.pc = "backup" /\ fmt'.table = table
            /\ view'[1] = c
         \/ fmt' = NotFormatting
  BY <1>1, <1>2, <1>4, <1>5, <1>6, EarlyWrite
<1>8. CASE fmt' = NotFormatting
  BY <1>7, <1>8, StoppedWritten DEF Inv
<1>9. CASE fmt' # NotFormatting
  <2>1. HasEntries(view', table, n)
    <3>1. ASSUME NEW j \in 0 .. n - 1
          PROVE  view'[2 + j] = view[2 + j] /\ view'[B + j] = view[B + j]
      <4>1. 2 + j \in Sector /\ 2 + j # 1 /\ B + j \in Sector /\ B + j # 1
        BY <1>3 DEF Places, Sector
      <4> QED
        BY <1>7, <4>1
    <3>2. HasEntries(view, table, n) /\ B = backupPartitionTableSector
      BY <1>1, <1>2, <1>3 DEF Places
    <3> QED
      BY <3>1, <3>2, SameEntries
  <2>2. HasHeader(view', table)
    BY <1>5, <1>7, <1>9 DEF HasHeader
  <2>3. Written'
    BY <1>2, <1>3, <1>7, <1>9, <2>1, <2>2 DEF Written, Places
  <2> QED
    BY <1>7, <2>3 DEF Inv
<1> QED
  BY <1>8, <1>9

LEMMA WriteHeaderCopyInv ==
  ASSUME Inv, Formatting, WriteHeaderCopy
  PROVE  Inv'
<1>1. /\ fmt.pc = "backup" /\ fmt.table \in TablesFor("gpt")
      /\ HasEntries(view, fmt.table, numPartitionTableSectors) /\ HasHeader(view, fmt.table)
      /\ WriteSector(driveSectors - 1,
                     GptHeader(fmt.table, driveSectors - 1, 1, backupPartitionTableSector),
                     "pmbr", fmt.k)
  BY DEF Inv, Written, WriteHeaderCopy
<1>2. PICK table \in TablesFor("gpt") : table = fmt.table
  BY <1>1
<1>3. PICK n \in Nat \ {0}, f \in Nat, B \in Nat, D \in Nat : Places(n, f, B, D)
  BY GptPlaces
<1>4. D - 1 \in GptSectors \ {0} /\ D = driveSectors
  BY <1>3 DEF GptSectors, Places
<1>5. PICK c : c = GptHeader(table, driveSectors - 1, 1, backupPartitionTableSector)
  OBVIOUS
<1>6. c.num_partition_entries \in Nat
  BY <1>5, HeaderKind
<1>7. /\ Scans' /\ Announced' /\ Settled' /\ written' = None /\ scan' = NotScanning
      /\ (mixed' \/ ~IsProtective(view'[0]))
      /\ \A x \in Sector : x # D - 1 => view'[x] = view[x]
      /\ \/ /\ FormatRecord' /\ fmt'.pc = "pmbr" /\ fmt'.table = table
            /\ view'[D - 1] = c
         \/ fmt' = NotFormatting
  BY <1>1, <1>2, <1>4, <1>5, <1>6, EarlyWrite
<1>8. CASE fmt' = NotFormatting
  BY <1>7, <1>8, StoppedWritten DEF Inv
<1>9. CASE fmt' # NotFormatting
  <2>1. HasEntries(view', table, n)
    <3>1. ASSUME NEW j \in 0 .. n - 1
          PROVE  view'[2 + j] = view[2 + j] /\ view'[B + j] = view[B + j]
      <4>1. 2 + j \in Sector /\ 2 + j # D - 1 /\ B + j \in Sector /\ B + j # D - 1
        BY <1>3 DEF Places, Sector
      <4> QED
        BY <1>7, <4>1
    <3>2. HasEntries(view, table, n) /\ B = backupPartitionTableSector
      BY <1>1, <1>2, <1>3 DEF Places
    <3> QED
      BY <3>1, <3>2, SameEntries
  <2>2. HasHeader(view', table)
    <3>1. 1 \in Sector /\ 1 # D - 1
      BY <1>3 DEF Places, Sector
    <3> QED
      BY <1>1, <1>2, <1>7, <3>1 DEF HasHeader
  <2>3. HasBackup(view', table)
    BY <1>4, <1>5, <1>7, <1>9 DEF HasBackup
  <2>4. Written'
    BY <1>2, <1>3, <1>7, <1>9, <2>1, <2>2, <2>3 DEF Written, Places
  <2> QED
    BY <1>7, <2>4 DEF Inv
<1> QED
  BY <1>8, <1>9

\* The last write makes the disk a GPT disk, and everything is there.
LEMMA WriteProtectiveMbrInv ==
  ASSUME Inv, Formatting, WriteProtectiveMbr
  PROVE  Inv'
<1>1. /\ fmt.pc = "pmbr" /\ fmt.table \in TablesFor("gpt")
      /\ HasEntries(view, fmt.table, numPartitionTableSectors)
      /\ HasHeader(view, fmt.table) /\ HasBackup(view, fmt.table)
      /\ WriteSector(0, ProtectiveMbr, "sync", fmt.k)
      /\ Scans /\ FormatRecord /\ Announced /\ written = None /\ scan = NotScanning
  BY DEF Inv, Written, WriteProtectiveMbr
<1>2. PICK table \in TablesFor("gpt") : table = fmt.table
  BY <1>1
<1>3. PICK n \in Nat \ {0}, f \in Nat, B \in Nat, D \in Nat : Places(n, f, B, D)
  BY GptPlaces
<1>4. PICK c : c = ProtectiveMbr /\ c.kind # "header"
  <2>1. ProtectiveMbr.kind # "header"
    BY DEF ProtectiveMbr, Mbr
  <2> QED
    BY <2>1
<1>5. 0 \in Sector
  BY <1>3 DEF Places, Sector
<1>6. /\ \/ fmt' = [fmt EXCEPT !.pc = "sync", !.k = fmt.k] /\ view'[0] = c
         \/ fmt' = NotFormatting
      /\ view'[0] = c \/ view' = view
      /\ \A x \in Sector : x # 0 => view'[x] = view[x]
      /\ UNCHANGED <<medium, partitions, scan, scanned, formats, written, mixed>>
      /\ Scans'
  <2>1. PICK s, pc, k :
          s \in Sector /\ s = 0 /\ pc = "sync" /\ k = fmt.k /\ WriteSector(s, c, pc, k) /\ pc # "idle"
    BY <1>1, <1>4, <1>5
  <2>2. c.kind = "header" => c.num_partition_entries \in Nat
    BY <1>4
  <2>3. s \in Sector /\ Scans /\ FormatRecord /\ WriteSector(s, c, pc, k) /\ pc # "idle"
    BY <1>1, <2>1
  <2>4. /\ \/ fmt' = [fmt EXCEPT !.pc = pc, !.k = k] /\ view'[s] = c
           \/ fmt' = NotFormatting
        /\ view'[s] = c \/ view' = view
        /\ \A x \in Sector : x # s => view'[x] = view[x]
        /\ UNCHANGED <<medium, partitions, scan, scanned, formats, written, mixed>>
        /\ Scans'
    BY <2>2, <2>3, WriteFacts
  <2> QED
    BY <2>1, <2>4
<1>7. Settled'
  BY <1>1, <1>6 DEF Settled
<1>8. view'[0] = c => HasGpt(view', table)
  <2>1. HasEntries(view', table, n)
    <3>1. ASSUME NEW j \in 0 .. n - 1
          PROVE  view'[2 + j] = view[2 + j] /\ view'[B + j] = view[B + j]
      <4>1. 2 + j \in Sector /\ 2 + j # 0 /\ B + j \in Sector /\ B + j # 0
        BY <1>3 DEF Places, Sector
      <4> QED
        BY <1>6, <4>1
    <3>2. HasEntries(view, table, n) /\ B = backupPartitionTableSector
      BY <1>1, <1>2, <1>3 DEF Places
    <3> QED
      BY <3>1, <3>2, SameEntries
  <2>2. view'[1] = view[1] /\ view'[D - 1] = view[D - 1]
    <3>1. 1 \in Sector /\ D - 1 \in Sector /\ D - 1 # 0
      BY <1>3 DEF Places, Sector
    <3> QED
      BY <1>6, <3>1
  <2> QED
    BY <1>1, <1>2, <1>3, <1>4, <2>1, <2>2 DEF HasGpt, HasHeader, HasBackup, Places
<1>9. Announced'
  <2>1. CASE view'[0] = c
    BY <1>8, <2>1 DEF Announced
  <2>2. CASE view' = view
    BY <1>1, <1>6, <2>2 DEF Announced
  <2> QED
    BY <1>6, <2>1, <2>2
<1>10. Written'
  <2>1. CASE fmt' = NotFormatting
    BY <2>1, StoppedWritten
  <2>2. CASE fmt' = [fmt EXCEPT !.pc = "sync", !.k = fmt.k] /\ view'[0] = c
    <3>1. FormatRecord' /\ fmt'.pc = "sync" /\ fmt'.table = table
      BY <1>1, <1>2, <2>2 DEF FormatRecord
    <3> QED
      BY <1>1, <1>6, <1>8, <2>2, <3>1 DEF Written
  <2> QED
    BY <1>6, <2>1, <2>2
<1> QED
  BY <1>6, <1>7, <1>9, <1>10 DEF Inv

\* An MBR says at once that this is no GPT disk.
LEMMA WriteMbrInv ==
  ASSUME Inv, Formatting, WriteMbr
  PROVE  Inv'
<1>1. /\ fmt.pc = "mbr" /\ fmt.table \in TablesFor("mbr")
      /\ WriteSector(0, MbrTable(fmt.table), "sync", fmt.k)
      /\ Scans /\ FormatRecord /\ Announced /\ written = None /\ scan = NotScanning
  BY DEF Inv, Written, WriteMbr
<1>2. PICK table \in TablesFor("mbr") : table = fmt.table
  BY <1>1
<1>3. PICK c : c = MbrTable(table) /\ c.kind # "header" /\ ~IsProtective(c)
  <2>1. 1 \in DOMAIN table /\ table[1].sysind # "gpt"
    BY TableFacts
  <2>2. MbrTable(table).kind = "mbr" /\ MbrTable(table).records[1].os_type = table[1].sysind
    BY <2>1 DEF MbrTable, Mbr, Record
  <2> QED
    BY <2>1, <2>2 DEF IsProtective
<1>4. 0 \in Sector
  BY DiskAssumption DEF Sector
<1>5. /\ \/ fmt' = [fmt EXCEPT !.pc = "sync", !.k = fmt.k] /\ view'[0] = c
         \/ fmt' = NotFormatting
      /\ view'[0] = c \/ view' = view
      /\ UNCHANGED <<medium, partitions, scan, scanned, formats, written, mixed>>
      /\ Scans'
  <2>1. PICK s, pc, k :
          s \in Sector /\ s = 0 /\ pc = "sync" /\ k = fmt.k /\ WriteSector(s, c, pc, k) /\ pc # "idle"
    BY <1>1, <1>2, <1>3, <1>4
  <2>2. c.kind = "header" => c.num_partition_entries \in Nat
    BY <1>3
  <2>3. s \in Sector /\ Scans /\ FormatRecord /\ WriteSector(s, c, pc, k) /\ pc # "idle"
    BY <1>1, <2>1
  <2>4. /\ \/ fmt' = [fmt EXCEPT !.pc = pc, !.k = k] /\ view'[s] = c
           \/ fmt' = NotFormatting
        /\ view'[s] = c \/ view' = view
        /\ UNCHANGED <<medium, partitions, scan, scanned, formats, written, mixed>>
        /\ Scans'
    BY <2>2, <2>3, WriteFacts
  <2> QED
    BY <2>1, <2>4
<1>6. Settled'
  BY <1>1, <1>5 DEF Settled
<1>7. Announced'
  <2>1. CASE view'[0] = c
    BY <1>3, <2>1 DEF Announced
  <2>2. CASE view' = view
    BY <1>1, <1>5, <2>2 DEF Announced
  <2> QED
    BY <1>5, <2>1, <2>2
<1>8. Written'
  <2>1. CASE fmt' = NotFormatting
    BY <2>1, StoppedWritten
  <2>2. CASE fmt' = [fmt EXCEPT !.pc = "sync", !.k = fmt.k] /\ view'[0] = c
    <3>1. FormatRecord' /\ fmt'.pc = "sync" /\ fmt'.table = table
      BY <1>1, <1>2, <2>2 DEF FormatRecord
    <3> QED
      BY <1>1, <1>3, <1>5, <2>2, <3>1 DEF Written
  <2> QED
    BY <1>5, <2>1, <2>2
<1> QED
  BY <1>5, <1>6, <1>7, <1>8 DEF Inv

\* After a successful sync the medium is what was written.
LEMMA SyncDiskInv ==
  ASSUME Inv, Formatting, SyncDisk
  PROVE  Inv'
<1>1. /\ fmt.pc = "sync" /\ fmt' = NotFormatting /\ view' = view
      /\ Scans /\ Announced /\ written = None /\ scan = NotScanning
      /\ \/ fmt.table \in TablesFor("gpt") /\ HasGpt(view, fmt.table)
         \/ fmt.table \in TablesFor("mbr") /\ ~IsProtective(view[0])
      /\ UNCHANGED <<scan, scanned, formats>>
  BY DEF Inv, Written, SyncDisk, Sync, device, Formatting
<1>2. Written'
  BY <1>1, StoppedWritten
<1>3. CASE error' = "Success" /\ medium' = view /\ partitions' = {fmt.table[n] : n \in DOMAIN fmt.table}
  <2>1. mixed' = FALSE /\ written'.table = fmt.table
    BY <1>1, <1>3 DEF Formatting
  <2>2. Scans'
    BY <1>1, <1>3, <2>1 DEF Scans, Counts, ScanRecord
  <2>3. Announced'
    BY <1>1 DEF Announced
  <2>4. Settled'
    <3>1. CASE fmt.table \in TablesFor("mbr") /\ ~IsProtective(view[0])
      BY <1>1, <1>3, <3>1 DEF Settled
    <3>2. CASE fmt.table \in TablesFor("gpt") /\ HasGpt(view, fmt.table)
      <4>1. PICK table \in TablesFor("gpt") : table = fmt.table /\ HasGpt(view, table)
        BY <3>2
      <4>2. \A p \in partitions' : p.offset \div sectorSize \in DataOf(table)
        BY <1>3, <4>1, FirstSector
      <4>3. scan'.pc = "idle"
        BY <1>1 DEF NotScanning
      <4>4. Follows(table)'
        BY <4>2, <4>3 DEF Follows
      <4>5. HasGpt(view', table) /\ HasGpt(medium', table)
        BY <1>1, <1>3, <4>1
      <4> QED
        BY <2>1, <4>1, <4>4, <4>5 DEF Settled
    <3> QED
      BY <1>1, <3>1, <3>2
  <2> QED
    BY <1>2, <2>2, <2>3, <2>4 DEF Inv
<1>4. CASE error' = "WriteFailure" /\ UNCHANGED <<medium, partitions>>
  <2>1. UNCHANGED <<written, mixed>>
    BY <1>4 DEF Formatting
  <2>2. Scans'
    BY <1>1, <1>4, <2>1 DEF Scans, Counts, ScanRecord
  <2>3. Announced'
    BY <1>1, <2>1 DEF Announced
  <2>4. Settled'
    BY <1>1, <2>1 DEF Settled
  <2> QED
    BY <1>2, <2>2, <2>3, <2>4 DEF Inv
<1> QED
  BY <1>3, <1>4 DEF SyncDisk, Sync, device

LEMMA FormattingInv ==
  ASSUME Inv, Formatting
  PROVE  Inv'
BY WriteEntriesInv, WriteEntriesCopyInv, WriteHeaderInv, WriteHeaderCopyInv,
   WriteProtectiveMbrInv, WriteMbrInv, SyncDiskInv DEF Formatting, FormatStep

(***************************************************************************)
(* The application                                                         *)
(***************************************************************************)

LEMMA StartFormatInv ==
  ASSUME Inv, StartFormat
  PROVE  Inv'
<1>1. PICK t \in Tables :
        /\ fmt' = [pc |-> IF t.scheme = "gpt" THEN "entries" ELSE "mbr", table |-> t.table, k |-> 0]
        /\ mixed' = (mixed \/ (t.scheme = "gpt" /\ IsProtective(view[0])))
  BY DEF StartFormat, BeginFormat
<1>2. /\ UNCHANGED <<view, medium, partitions, scan>> /\ written' = None /\ scan = NotScanning
      /\ formats < MaxFormats /\ formats' = formats + 1
  BY DEF StartFormat, BeginFormat, device, Idle
<1>3. mixed' \in BOOLEAN
  BY <1>1 DEF Inv, Scans
<1>4. formats' \in 0 .. MaxFormats
  BY <1>2, DiskStorageAssumption DEF Inv, Scans
<1>5. Scans'
  BY <1>2, <1>3, <1>4 DEF Inv, Scans, Counts, ScanRecord
<1>6. Settled'
  BY <1>2 DEF Settled
<1>7. Announced'
  BY <1>1, <1>2 DEF Inv, Announced
<1>8. t.scheme \in Schemes /\ t.table \in TablesFor(t.scheme)
  BY DiskStorageAssumption DEF TablesFor
<1>9. FormatRecord' /\ fmt'.table = t.table /\ fmt'.k = 0
      /\ fmt'.pc = IF t.scheme = "gpt" THEN "entries" ELSE "mbr"
  BY <1>1 DEF FormatRecord
<1>10. CASE t.scheme = "gpt"
  <2>1. PICK n \in Nat \ {0} : n = numPartitionTableSectors
    BY <1>8, <1>10, GptPlaces DEF Places
  <2>2. 0 \in 0 .. numPartitionTableSectors - 1
    BY <2>1
  <2>3. HasEntries(view', t.table, 0)
    BY DEF HasEntries
  <2>4. mixed' \/ ~IsProtective(view'[0])
    BY <1>1, <1>2, <1>10
  <2>5. Written'
    BY <1>2, <1>8, <1>9, <1>10, <2>2, <2>3, <2>4 DEF Written
  <2> QED
    BY <1>5, <1>6, <1>7, <2>5 DEF Inv
<1>11. CASE t.scheme = "mbr"
  <2>1. Written'
    BY <1>2, <1>8, <1>9, <1>11 DEF Written
  <2> QED
    BY <1>5, <1>6, <1>7, <2>1 DEF Inv
<1> QED
  BY <1>8, <1>10, <1>11 DEF Schemes

\* What the invariant is about has not changed.
LEMMA SameInv ==
  ASSUME Inv, UNCHANGED <<view, medium, partitions, fmt, scan, formats, written, mixed>>
  PROVE  Inv'
<1>1. Scans'
  BY DEF Inv, Scans, Counts, ScanRecord
<1>2. Written'
  BY DEF Inv, Written, FormatRecord
<1>3. Announced'
  BY DEF Inv, Announced
<1>4. Settled'
  BY DEF Inv, Settled, Follows
<1> QED
  BY <1>1, <1>2, <1>3, <1>4 DEF Inv

\* An application writes to its partitions: no sector of a GPT is among them.
LEMMA UsePartitionInv ==
  ASSUME Inv, UsePartition
  PROVE  Inv'
<1>1. PICK p \in partitions : p.offset # 0 /\ Write(p.offset \div sectorSize, Boot("fat16", 1))
  BY DEF UsePartition
<1>2. PICK s, c : s = p.offset \div sectorSize /\ c = Boot("fat16", 1)
  OBVIOUS
<1>3. /\ view' = [view EXCEPT ![s] = c] /\ written # None /\ fmt = NotFormatting /\ scan = NotScanning
      /\ UNCHANGED <<medium, partitions, fmt, scan, formats, written, mixed>>
  BY <1>1, <1>2 DEF UsePartition, Write, Idle
<1>4. c.kind = "boot"
  BY <1>2 DEF Boot
<1>5. DOMAIN view = Sector /\ 0 \in Sector
  BY DiskAssumption DEF Inv, Scans, Sector
<1>6. DOMAIN view' = Sector /\ \A x \in Sector : view'[x] = view[x] \/ view'[x] = c
  BY <1>3, <1>5
<1>7. Scans'
  BY <1>3, <1>4, <1>6 DEF Inv, Scans, Counts, ScanRecord
<1>8. Written'
  BY <1>3, StoppedWritten
<1>9. CASE mixed
  BY <1>3, <1>7, <1>8, <1>9 DEF Inv, Announced, Settled
<1>10. CASE ~IsProtective(view[0]) /\ ~IsProtective(medium[0])
  <2>1. ~IsProtective(view'[0])
    BY <1>4, <1>5, <1>6, <1>10 DEF IsProtective
  <2> QED
    BY <1>3, <1>7, <1>8, <1>10, <2>1 DEF Inv, Announced, Settled
<1>11. CASE /\ written.table \in TablesFor("gpt")
            /\ HasGpt(view, written.table) /\ HasGpt(medium, written.table)
            /\ Follows(written.table)
  <2>1. PICK table \in TablesFor("gpt") : table = written.table
    BY <1>11
  <2>2. s \in DataOf(table)
    BY <1>1, <1>2, <1>11, <2>1 DEF Follows
  <2>3. \A x \in GptSectors : view'[x] = view[x]
    BY <1>3, <1>5, <2>2, DataApart
  <2>4. HasGpt(view', table)
    BY <1>11, <2>1, <2>3, SameGpt
  <2>5. Announced'
    BY <2>4 DEF Announced
  <2>6. Follows(table)'
    BY <1>3, <1>11, <2>1 DEF Follows
  <2>7. Settled'
    BY <1>3, <1>11, <2>1, <2>4, <2>6 DEF Settled
  <2> QED
    BY <1>7, <1>8, <2>5, <2>7 DEF Inv
<1> QED
  BY <1>3, <1>9, <1>10, <1>11 DEF Inv, Settled

\* After a power loss the disk is what the medium is.
LEMMA PowerLossInv ==
  ASSUME Inv, PowerLoss
  PROVE  Inv'
<1>1. /\ view' = medium /\ medium' = medium /\ partitions' = {} /\ fmt' = NotFormatting
      /\ scan' = NotScanning /\ UNCHANGED <<formats, written>>
      /\ mixed' = (mixed \/ (written = None /\ medium # view))
  BY DEF PowerLoss, Reset
<1>2. Written'
  BY <1>1, StoppedWritten
<1>3. Scans'
  <2>1. mixed' \in BOOLEAN
    BY <1>1 DEF Inv, Scans
  <2>2. ScanRecord' /\ scan'.pc = "idle" /\ scan'.numPartitionEntries = 0 /\ scan'.partitionIndex = 0
        /\ scan'.mbrPartID = 0
    BY <1>1 DEF ScanRecord, NotScanning
  <2>3. 0 \in 0 .. 0 /\ 0 \in 0 .. Word16 - 1
    BY DEF Word16
  <2> QED
    BY <1>1, <2>1, <2>2, <2>3 DEF Inv, Scans, Counts
<1>4. \A table : Follows(table)'
  <2>1. scan'.pc = "idle"
    BY <1>1 DEF NotScanning
  <2> QED
    BY <1>1, <2>1 DEF Follows
<1>5. Settled'
  BY <1>1, <1>4 DEF Inv, Settled
<1>6. Announced'
  BY <1>1 DEF Inv, Settled, Announced
<1> QED
  BY <1>2, <1>3, <1>5, <1>6 DEF Inv

\* A buffer is written back: the medium gets nearer to what is read.
LEMMA WriteBackInv ==
  ASSUME Inv, WriteBack
  PROVE  Inv'
<1>1. PICK s \in Sector : medium' = [medium EXCEPT ![s] = view[s]]
  BY DEF WriteBack, Flush
<1>2. UNCHANGED <<view, partitions, fmt, scan, formats, written, mixed>>
  BY DEF WriteBack, Flush
<1>3. DOMAIN medium = Sector /\ 0 \in Sector
  BY DiskAssumption DEF Inv, Scans, Sector
<1>4. DOMAIN medium' = Sector /\ \A x \in Sector : medium'[x] = medium[x] \/ medium'[x] = view[x]
  BY <1>1, <1>3
<1>5. Scans'
  BY <1>2, <1>4 DEF Inv, Scans, Counts, ScanRecord
<1>6. Written'
  BY <1>2 DEF Inv, Written, FormatRecord
<1>7. Announced'
  BY <1>2 DEF Inv, Announced
<1>8. Settled'
  <2> SUFFICES ASSUME written # None, ~mixed
               PROVE  \/ ~IsProtective(view[0]) /\ ~IsProtective(medium'[0])
                      \/ /\ written.table \in TablesFor("gpt")
                         /\ HasGpt(view, written.table) /\ HasGpt(medium', written.table)
                         /\ Follows(written.table)
    BY <1>2 DEF Settled, Follows
  <2>1. CASE ~IsProtective(view[0]) /\ ~IsProtective(medium[0])
    BY <1>3, <1>4, <2>1
  <2>2. CASE /\ written.table \in TablesFor("gpt")
             /\ HasGpt(view, written.table) /\ HasGpt(medium, written.table)
             /\ Follows(written.table)
    <3>1. PICK table \in TablesFor("gpt") :
            table = written.table /\ HasGpt(view, table) /\ HasGpt(medium, table)
      BY <2>2
    <3>2. \A x \in GptSectors : medium[x] = view[x]
      BY <3>1 DEF HasGpt, HasHeader, HasBackup, HasEntries, GptSectors
    <3>3. \A x \in GptSectors : medium'[x] = medium[x]
      BY <1>4, <3>2, DataApart
    <3>4. HasGpt(medium', table)
      BY <3>1, <3>3, SameGpt
    <3> QED
      BY <2>2, <3>1, <3>4
  <2> QED
    BY <2>1, <2>2 DEF Inv, Settled
<1> QED
  BY <1>5, <1>6, <1>7, <1>8 DEF Inv

(***************************************************************************)
(* The scanner                                                             *)
(***************************************************************************)

\* The fields of the scanner that steps change.
LEMMA ScanFields ==
  ASSUME ScanRecord
  PROVE  /\ {"pc", "state", "sector", "partitionIndex", "numPartitionEntries", "mbrEntries",
             "buffer", "mbrPartID", "fault"} \subseteq DOMAIN scan
BY DEF ScanRecord, NotScanning

\* Scanning changes nothing on the disk: it is enough to know that the scanner stays
\* within its tables, and on a GPT disk with the entries of the table.
LEMMA ScanKeeps ==
  ASSUME Inv, scan.pc # "idle" \/ fmt = NotFormatting,
         UNCHANGED <<view, medium, fmt, formats, written, mixed>>, ScanRecord',
         scan'.pc \in {"idle", "sector0", "header", "entries", "entry", "record"},
         scan'.numPartitionEntries \in Nat,
         scan'.partitionIndex \in 0 .. scan'.numPartitionEntries,
         scan'.mbrPartID \in 0 .. Word16 - 1,
         scan'.pc \in {"sector0", "header"} => scan'.partitionIndex = 0,
         \A table \in TablesFor("gpt") : HasGpt(view, table) /\ Follows(table) => Follows(table)'
  PROVE  Inv'
<1>1. fmt' = NotFormatting
  BY DEF Inv, Written, NotScanning
<1>2. Written'
  BY <1>1, StoppedWritten
<1>3. Scans'
  BY DEF Inv, Scans, Counts
<1>4. Announced'
  BY DEF Inv, Announced
<1>5. Settled'
  BY DEF Inv, Settled
<1> QED
  BY <1>2, <1>3, <1>4, <1>5 DEF Inv

LEMMA StartScanInv ==
  ASSUME Inv, StartScan
  PROVE  Inv'
<1>1. /\ fmt = NotFormatting /\ scan = NotScanning /\ scan' = [scan EXCEPT !.pc = "sector0"]
      /\ partitions' = {} /\ UNCHANGED <<view, medium, fmt, formats, written, mixed>>
  BY DEF StartScan, Idle, BeginScan, device
<1>2. /\ ScanRecord' /\ scan'.pc = "sector0" /\ scan'.numPartitionEntries = 0
      /\ scan'.partitionIndex = 0 /\ scan'.mbrPartID = 0
  BY <1>1 DEF ScanRecord, NotScanning
<1>3. 0 \in 0 .. 0 /\ 0 \in 0 .. Word16 - 1
  BY DEF Word16
<1>4. \A table : Follows(table)'
  BY <1>1, <1>2 DEF Follows
<1> QED
  BY <1>1, <1>2, <1>3, <1>4, ScanKeeps

\* The scan ends; the partitions stay.
LEMMA ScanEndsInv ==
  ASSUME Inv, scan.pc # "idle", NEW state, NEW fault, ScanEnds(state, fault),
         UNCHANGED <<view, medium, fmt, formats, written, mixed>>,
         \/ UNCHANGED partitions
         \/ ~IsProtective(view[0])
  PROVE  Inv'
<1>1. scan' = NotScanning
  BY DEF ScanEnds
<1>2. /\ ScanRecord' /\ scan'.pc = "idle" /\ scan'.numPartitionEntries = 0
      /\ scan'.partitionIndex = 0 /\ scan'.mbrPartID = 0
  BY <1>1 DEF ScanRecord, NotScanning
<1>3. 0 \in 0 .. 0 /\ 0 \in 0 .. Word16 - 1
  BY DEF Word16
<1>4. \A table : HasGpt(view, table) => IsProtective(view[0])
  BY DEF HasGpt, ProtectiveMbr, Mbr, Record, IsProtective
<1>5. \A table : HasGpt(view, table) /\ Follows(table) => Follows(table)'
  BY <1>2, <1>4 DEF Follows
<1> QED
  BY <1>2, <1>3, <1>5, ScanKeeps

LEMMA LoadSector0Inv ==
  ASSUME Inv, LoadSector0, Scanning
  PROVE  Inv'
<1>1. /\ scan.pc = "sector0" /\ ~IsProtective(view[0])
      /\ UNCHANGED <<view, medium, fmt, formats, written, mixed>>
  BY DEF LoadSector0, Scanning, device
<1>2. CASE \E state : ScanEnds(state, FALSE)
  BY <1>1, <1>2, ScanEndsInv
<1>3. CASE LET entries == scanMbrEntries(view[0], 0) IN
           scan' = [scan EXCEPT !.pc = "record", !.state = "MBR", !.mbrEntries = entries,
                                !.numPartitionEntries = Len(entries)]
  <2>1. PICK entries : scan' = [scan EXCEPT !.pc = "record", !.state = "MBR", !.mbrEntries = entries,
                                            !.numPartitionEntries = Len(entries)]
    BY <1>3
  <2>2. Len(entries) \in Nat
    OBVIOUS
  <2>3. ScanRecord /\ scan.partitionIndex = 0 /\ scan.mbrPartID \in 0 .. Word16 - 1
    BY <1>1 DEF Inv, Scans
  <2>4. /\ ScanRecord' /\ scan'.pc = "record" /\ scan'.numPartitionEntries = Len(entries)
        /\ scan'.partitionIndex = 0 /\ scan'.mbrPartID = scan.mbrPartID
    BY <2>1, <2>3 DEF ScanRecord, NotScanning
  <2>5. \A table : ~HasGpt(view, table)
    BY <1>1 DEF HasGpt, ProtectiveMbr, Mbr, Record, IsProtective
  <2>6. 0 \in 0 .. Len(entries)
    BY <2>2
  <2> QED
    BY <1>1, <2>2, <2>3, <2>4, <2>5, <2>6, ScanKeeps
<1> QED
  BY <1>2, <1>3 DEF LoadSector0

LEMMA FoundProtectiveInv ==
  ASSUME Inv, FoundProtective, Scanning
  PROVE  Inv'
<1>1. /\ scan.pc = "sector0" /\ scan' = [scan EXCEPT !.pc = "header"]
      /\ UNCHANGED <<view, medium, partitions, fmt, formats, written, mixed>>
  BY DEF FoundProtective, Scanning, device
<1>2. /\ ScanRecord /\ scan.partitionIndex = 0 /\ scan.mbrPartID \in 0 .. Word16 - 1
      /\ scan.numPartitionEntries \in Nat
  BY <1>1 DEF Inv, Scans
<1>3. /\ ScanRecord' /\ scan'.pc = "header" /\ scan'.numPartitionEntries = scan.numPartitionEntries
      /\ scan'.partitionIndex = 0 /\ scan'.mbrPartID = scan.mbrPartID
  BY <1>1, <1>2 DEF ScanRecord, NotScanning
<1>4. \A table : Follows(table) => Follows(table)'
  BY <1>1, <1>3 DEF Follows
<1>5. 0 \in 0 .. scan.numPartitionEntries
  BY <1>2
<1> QED
  BY <1>1, <1>2, <1>3, <1>4, <1>5, ScanKeeps

\* On a GPT disk the header leads to the first entry.
LEMMA LoadHeaderInv ==
  ASSUME Inv, LoadHeader, Scanning
  PROVE  Inv'
<1>1. /\ scan.pc = "header" /\ UNCHANGED <<view, medium, partitions, fmt, formats, written, mixed>>
  BY DEF LoadHeader, Scanning, device
<1>2. CASE ScanEnds("error", FALSE)
  BY <1>1, <1>2, ScanEndsInv
<1>3. CASE ~ScanEnds("error", FALSE)
  <2>1. PICK lba, count : /\ lba = view[1].partition_entry_lba /\ count = view[1].num_partition_entries
                          /\ scan' = [scan EXCEPT !.pc = "entries", !.state = "GPT", !.sector = lba,
                                                  !.numPartitionEntries = count]
                          /\ view[1].kind = "header"
    BY <1>3 DEF LoadHeader, verifyGptHeader
  <2>2. count \in Nat
    BY <2>1, DiskAssumption, 1 \in Sector DEF Inv, Scans, Counts, Sector
  <2>3. ScanRecord /\ scan.partitionIndex = 0 /\ scan.mbrPartID \in 0 .. Word16 - 1
    BY <1>1 DEF Inv, Scans
  <2>4. /\ ScanRecord' /\ scan'.pc = "entries" /\ scan'.numPartitionEntries = count
        /\ scan'.partitionIndex = 0 /\ scan'.mbrPartID = scan.mbrPartID /\ scan'.sector = lba
    BY <2>1, <2>3 DEF ScanRecord, NotScanning
  <2>5. ASSUME NEW table \in TablesFor("gpt"), HasGpt(view, table), Follows(table)
        PROVE  Follows(table)'
    <3>1. lba = 2 /\ count = GPT_ITEMS
      BY <2>1, <2>5 DEF HasGpt, HasHeader, GptHeader, Header
    <3>2. 0 \div entriesPerSector = 0
      BY DiskAssumption
    <3>3. lba = 2 + (0 \div entriesPerSector)
      BY <3>1, <3>2
    <3> QED
      BY <1>1, <2>4, <2>5, <3>1, <3>3 DEF Follows
  <2>6. 0 \in 0 .. count
    BY <2>2
  <2> QED
    BY <1>1, <2>2, <2>3, <2>4, <2>5, <2>6, ScanKeeps
<1> QED
  BY <1>2, <1>3

\* A sector of entries holds those of the table.
LEMMA LoadEntriesInv ==
  ASSUME Inv, LoadEntries, Scanning
  PROVE  Inv'
<1>1. /\ scan.pc = "entries" /\ scan.partitionIndex < scan.numPartitionEntries
      /\ UNCHANGED <<view, medium, partitions, fmt, formats, written, mixed>>
  BY DEF LoadEntries, Scanning, device, More
<1>2. PICK sector, buffer :
        /\ sector = scan.sector + 1 /\ buffer = EntriesOf(view[scan.sector])
        /\ scan' = [scan EXCEPT !.pc = "entry", !.sector = sector, !.buffer = buffer]
  <2>1. ScanRecord
    BY DEF Inv, Scans
  <2>2. scan' = [scan EXCEPT !.pc = "entry", !.sector = scan.sector + 1,
                             !.buffer = EntriesOf(view[scan.sector])]
    BY <2>1, ScanFields DEF LoadEntries
  <2> QED
    BY <2>2
<1>3. /\ ScanRecord /\ scan.numPartitionEntries \in Nat
      /\ scan.partitionIndex \in 0 .. scan.numPartitionEntries /\ scan.mbrPartID \in 0 .. Word16 - 1
  BY DEF Inv, Scans
<1>4. /\ ScanRecord' /\ scan'.pc = "entry" /\ scan'.numPartitionEntries = scan.numPartitionEntries
      /\ scan'.partitionIndex = scan.partitionIndex /\ scan'.mbrPartID = scan.mbrPartID
      /\ scan'.sector = sector /\ scan'.buffer = buffer
  BY <1>2, <1>3 DEF ScanRecord, NotScanning
<1>5. ASSUME NEW table \in TablesFor("gpt"), HasGpt(view, table), Follows(table)
      PROVE  Follows(table)'
  <2>1. PICK n \in Nat \ {0}, f \in Nat, B \in Nat, D \in Nat : Places(n, f, B, D)
    BY GptPlaces
  <2>2. PICK a \in Nat, e \in Nat \ {0}, g \in Nat :
          a = scan.partitionIndex /\ e = entriesPerSector /\ g = GPT_ITEMS /\ a < g /\ g = n * e
    <3>1. scan.partitionIndex \in Nat /\ scan.partitionIndex < GPT_ITEMS
      BY <1>1, <1>5 DEF Follows
    <3> QED
      BY <2>1, <3>1, DiskAssumption DEF Places
  <2>3. PICK k \in Nat : k = a \div e /\ k < n
    <3>1. a < n * e
      BY <2>2
    <3>2. a \div e \in Nat
      BY DivMod
    <3>3. a \div e < n
      BY <3>1, DivBelow
    <3> QED
      BY <3>2, <3>3
  <2>4. scan.sector = 2 + k
    BY <1>1, <1>5, <2>2, <2>3 DEF Follows
  <2>5. view[2 + k] = EntrySector(table, k)
    BY <1>5, <2>1, <2>3 DEF HasGpt, HasEntries, Places
  <2>6. buffer = EntrySector(table, k).e
    <3>1. EntrySector(table, k).kind = "entries"
      BY DEF EntrySector, Entries
    <3> QED
      BY <1>2, <2>4, <2>5, <3>1 DEF EntriesOf
  <2>7. ASSUME NEW j \in 1 .. e
        PROVE  buffer[j] = NoEntry \/ \E m \in DOMAIN table : buffer[j] = Entry(table[m])
    <3>1. PICK i \in 0 .. e - 1 : j = i + 1
      <4>1. j - 1 \in 0 .. e - 1 /\ j = (j - 1) + 1
        OBVIOUS
      <4> QED
        BY <4>1
    <3>2. PICK x \in Nat : x = k * e /\ x + e <= g
      <4>1. (k + 1) * e <= n * e
        <5>1. PICK d \in Nat : n = k + 1 + d
          <6>1. n - (k + 1) \in Nat /\ n = k + 1 + (n - (k + 1))
            BY <2>3
          <6> QED
            BY <6>1
        <5>2. n * e = (k + 1) * e + d * e /\ d * e \in Nat /\ (k + 1) * e \in Nat
          BY <5>1
        <5> QED
          BY <5>2
      <4>2. (k + 1) * e = k * e + e /\ k * e \in Nat
        OBVIOUS
      <4> QED
        BY <2>2, <4>1, <4>2
    <3>3. EntrySector(table, k).e[i + 1] = EntryArray(table)[k * e + i + 1]
      <4>1. k * e + i < g
        BY <3>2
      <4> QED
        BY <2>2, <4>1, EntryPlace
    <3>4. PICK m \in 1 .. g : m = k * e + i + 1
      <4>1. x + i + 1 \in 1 .. g
        BY <3>2
      <4> QED
        BY <3>2, <4>1
    <3>5. EntryArray(table)[m] = IF m \in DOMAIN table THEN Entry(table[m]) ELSE NoEntry
      BY <2>2 DEF EntryArray
    <3> QED
      BY <2>6, <3>1, <3>3, <3>4, <3>5
  <2>8. sector = 3 + k
    BY <1>2, <2>4
  <2> QED
    BY <1>1, <1>4, <1>5, <2>2, <2>3, <2>7, <2>8 DEF Follows
<1> QED
  BY <1>1, <1>3, <1>4, <1>5, ScanKeeps

\* What the scanner makes of an entry begins where the entry says.
LEMMA GptPartOffset ==
  ASSUME NEW entry, NEW c
  PROVE  GptPart(entry, c).offset = entry.starting_lba * sectorSize
BY DEF GptPart, Identified, PartInfo

\* An entry of a table leads to a sector of its partition.
LEMMA EntryLeads ==
  ASSUME NEW table \in TablesFor("gpt"), NEW n \in DOMAIN table, NEW c
  PROVE  GptPart(Entry(table[n]), c).offset \div sectorSize \in DataOf(table)
<1>1. PICK m \in Nat \ {0} : m = sectorSize
  BY DiskAssumption
<1>2. PICK a \in Nat : a = table[n].offset \div sectorSize
  <2>1. PICK o \in Nat : o = table[n].offset
    BY TableFacts
  <2>2. o \div m \in Nat
    BY DivMod
  <2> QED
    BY <1>1, <2>1, <2>2
<1>3. Entry(table[n]).starting_lba = a
  BY <1>2 DEF Entry
<1>4. GptPart(Entry(table[n]), c).offset = a * m
  BY <1>1, <1>3, GptPartOffset
<1>5. (a * m) \div m = a
  <2>1. 0 \in 0 .. m - 1
    OBVIOUS
  <2>2. (a * m + 0) \div m = a
    BY <2>1, DivUnique
  <2>3. a * m + 0 = a * m
    OBVIOUS
  <2> QED
    BY <2>2, <2>3
<1>6. a \in DataOf(table)
  BY <1>2, FirstSector
<1> QED
  BY <1>1, <1>4, <1>5, <1>6

\* One entry: on a GPT disk what it adds is a partition of the table.
LEMMA TakeEntryInv ==
  ASSUME Inv, TakeEntry, Scanning
  PROVE  Inv'
<1>1. /\ scan.pc = "entry" /\ scan.partitionIndex < scan.numPartitionEntries
      /\ UNCHANGED <<view, medium, fmt, formats, written, mixed>>
  BY DEF TakeEntry, Scanning, device, More
<1>2. /\ ScanRecord /\ scan.numPartitionEntries \in Nat
      /\ scan.partitionIndex \in 0 .. scan.numPartitionEntries /\ scan.mbrPartID \in 0 .. Word16 - 1
  BY DEF Inv, Scans
<1>3. PICK a \in Nat : a = scan.partitionIndex
  BY <1>2
<1>4. PICK entry : entry = scan.buffer[(a % entriesPerSector) + 1]
  OBVIOUS
<1>5. PICK pc : pc = IF (a + 1) % entriesPerSector = 0 THEN "entries" ELSE "entry"
  OBVIOUS
<1>6. /\ \E fault : scan' = [scan EXCEPT !.partitionIndex = a + 1, !.fault = fault, !.pc = pc]
      /\ \/ partitions' = partitions
         \/ /\ entry.partition_type_guid # NoGuid
            /\ partitions' = partitions \cup {GptPart(entry, view[entry.starting_lba])}
  BY <1>3, <1>4, <1>5 DEF TakeEntry
<1>7. /\ ScanRecord' /\ scan'.pc = pc /\ scan'.numPartitionEntries = scan.numPartitionEntries
      /\ scan'.partitionIndex = a + 1 /\ scan'.mbrPartID = scan.mbrPartID
      /\ scan'.sector = scan.sector /\ scan'.buffer = scan.buffer
  BY <1>2, <1>6 DEF ScanRecord, NotScanning
<1>8. ASSUME NEW table \in TablesFor("gpt"), HasGpt(view, table), Follows(table)
      PROVE  Follows(table)'
  <2>1. PICK e \in Nat \ {0} : e = entriesPerSector
    BY DiskAssumption
  <2>2. PICK k \in Nat, r \in 0 .. e - 1 : k = a \div e /\ r = a % e
    BY DivMod
  <2>3. /\ scan.sector = 3 + k /\ scan.numPartitionEntries = GPT_ITEMS
        /\ entry = NoEntry \/ \E n \in DOMAIN table : entry = Entry(table[n])
    <3>1. r + 1 \in 1 .. e
      OBVIOUS
    <3>2. /\ scan.sector = 3 + (scan.partitionIndex \div entriesPerSector)
          /\ scan.numPartitionEntries = GPT_ITEMS
          /\ \A j \in 1 .. entriesPerSector :
               scan.buffer[j] = NoEntry \/ \E n \in DOMAIN table : scan.buffer[j] = Entry(table[n])
      BY <1>1, <1>8 DEF Follows
    <3> QED
      BY <1>3, <1>4, <2>1, <2>2, <3>1, <3>2
  <2>4. \A p \in partitions' : p.offset # 0 => p.offset \div sectorSize \in DataOf(table)
    <3>1. entry = NoEntry => entry.partition_type_guid = NoGuid
      BY DEF NoEntry
    <3>2. \A p \in partitions : p.offset # 0 => p.offset \div sectorSize \in DataOf(table)
      BY <1>8 DEF Follows
    <3>3. CASE partitions' = partitions
      BY <3>2, <3>3
    <3>4. CASE /\ entry.partition_type_guid # NoGuid
               /\ partitions' = partitions \cup {GptPart(entry, view[entry.starting_lba])}
      <4>1. PICK n \in DOMAIN table : entry = Entry(table[n])
        BY <2>3, <3>1, <3>4
      <4>2. GptPart(entry, view[entry.starting_lba]).offset \div sectorSize \in DataOf(table)
        BY <4>1, EntryLeads
      <4> QED
        BY <3>2, <3>4, <4>2
    <3> QED
      BY <1>6, <3>3, <3>4
  <2>5. (a + 1) \div e = IF (a + 1) % e = 0 THEN k + 1 ELSE k
    BY <2>2, NextEntry
  <2>6. CASE pc = "entries"
    <3>1. (a + 1) \div entriesPerSector = k + 1
      BY <1>5, <2>1, <2>5, <2>6
    <3>2. scan'.sector = 2 + ((a + 1) \div entriesPerSector)
      BY <1>7, <2>3, <3>1
    <3> QED
      BY <1>7, <2>3, <2>4, <2>6, <3>2 DEF Follows
  <2>7. CASE pc = "entry"
    <3>1. (a + 1) \div entriesPerSector = k
      BY <1>5, <2>1, <2>5, <2>7
    <3>2. scan'.sector = 3 + ((a + 1) \div entriesPerSector)
      BY <1>7, <2>3, <3>1
    <3> QED
      BY <1>1, <1>7, <1>8, <2>3, <2>4, <2>7, <3>2 DEF Follows
  <2> QED
    BY <1>5, <2>6, <2>7
<1>9. a + 1 \in 0 .. scan.numPartitionEntries
  BY <1>1, <1>2, <1>3
<1>10. pc \in {"entries", "entry"}
  BY <1>5
<1> QED
  BY <1>1, <1>2, <1>7, <1>8, <1>9, <1>10, ScanKeeps

\* The scanner reads no MBR records on a GPT disk.
LEMMA TakeRecordInv ==
  ASSUME Inv, TakeRecord, Scanning
  PROVE  Inv'
<1>1. /\ scan.pc = "record" /\ scan.partitionIndex < scan.numPartitionEntries
      /\ UNCHANGED <<view, medium, fmt, formats, written, mixed>>
  BY DEF TakeRecord, Scanning, device, More
<1>2. /\ ScanRecord /\ scan.numPartitionEntries \in Nat
      /\ scan.partitionIndex \in 0 .. scan.numPartitionEntries /\ scan.mbrPartID \in 0 .. Word16 - 1
  BY DEF Inv, Scans
<1>3. PICK next : next \in 0 .. scan.numPartitionEntries /\ next = scan.partitionIndex + 1
  BY <1>1, <1>2
<1>4. PICK id : id \in 0 .. Word16 - 1 /\ id = (scan.mbrPartID + 1) % Word16
  <2>1. PICK w \in Nat \ {0} : w = Word16
    BY DEF Word16
  <2>2. PICK y \in Nat : y = scan.mbrPartID
    BY <1>2, <2>1
  <2>3. (y + 1) % w \in 0 .. w - 1
    BY DivMod
  <2> QED
    BY <2>1, <2>2, <2>3
<1>5. \/ scan' = [scan EXCEPT !.partitionIndex = next, !.fault = TRUE]
      \/ \E entries : scan' = [scan EXCEPT !.partitionIndex = 0, !.mbrEntries = entries,
                                           !.numPartitionEntries = Len(entries)]
      \/ scan' = [scan EXCEPT !.partitionIndex = next, !.mbrPartID = id]
  BY <1>3, <1>4 DEF TakeRecord
<1>6. \A table : ~Follows(table)
  BY <1>1 DEF Follows
<1>7. /\ ScanRecord' /\ scan'.pc = "record" /\ scan'.numPartitionEntries \in Nat
      /\ scan'.partitionIndex \in 0 .. scan'.numPartitionEntries
      /\ scan'.mbrPartID \in 0 .. Word16 - 1
  <2>1. CASE scan' = [scan EXCEPT !.partitionIndex = next, !.fault = TRUE]
    BY <1>1, <1>2, <1>3, <2>1 DEF ScanRecord, NotScanning
  <2>2. CASE \E entries : scan' = [scan EXCEPT !.partitionIndex = 0, !.mbrEntries = entries,
                                               !.numPartitionEntries = Len(entries)]
    <3>1. PICK entries : scan' = [scan EXCEPT !.partitionIndex = 0, !.mbrEntries = entries,
                                              !.numPartitionEntries = Len(entries)]
      BY <2>2
    <3>2. Len(entries) \in Nat
      OBVIOUS
    <3>3. 0 \in 0 .. Len(entries)
      BY <3>2
    <3>4. /\ scan'.numPartitionEntries = Len(entries) /\ scan'.partitionIndex = 0
          /\ scan'.pc = scan.pc /\ scan'.mbrPartID = scan.mbrPartID /\ ScanRecord'
      BY <1>2, <3>1 DEF ScanRecord, NotScanning
    <3> QED
      BY <1>1, <1>2, <3>2, <3>3, <3>4
  <2>3. CASE scan' = [scan EXCEPT !.partitionIndex = next, !.mbrPartID = id]
    BY <1>1, <1>2, <1>3, <1>4, <2>3 DEF ScanRecord, NotScanning
  <2> QED
    BY <1>5, <2>1, <2>2, <2>3
<1> QED
  BY <1>1, <1>6, <1>7, ScanKeeps

\* The other steps of a scan end it.
LEMMA ScanningInv ==
  ASSUME Inv, Scanning
  PROVE  Inv'
<1>1. CASE ReadFails \/ NoBuffer \/ ScanDone
  <2>1. UNCHANGED <<view, medium, partitions, fmt, formats, written, mixed>>
    BY <1>1 DEF Scanning, ReadFails, NoBuffer, ScanDone, device
  <2>2. scan.pc # "idle" /\ \E state, fault : ScanEnds(state, fault)
    BY <1>1 DEF ReadFails, NoBuffer, ScanDone
  <2> QED
    BY <2>1, <2>2, ScanEndsInv
<1> QED
  BY <1>1, LoadSector0Inv, FoundProtectiveInv, LoadHeaderInv, LoadEntriesInv, TakeEntryInv,
     TakeRecordInv DEF Scanning, ScanStep

(***************************************************************************)
(* Theorems                                                                *)
(***************************************************************************)

LEMMA InitInv == Init => Inv
<1> SUFFICES ASSUME Init
             PROVE  Inv
  OBVIOUS
<1>1. PICK d \in Disks : view = d.view
  BY DEF Init
<1>2. /\ medium = view /\ fmt = NotFormatting /\ scan = NotScanning /\ formats = 0
      /\ mixed = IsProtective(view[0])
  BY DEF Init
<1>3. /\ DOMAIN view = Sector
      /\ \A s \in Sector : view[s].kind = "header" => view[s].num_partition_entries \in Nat
  BY <1>1, DiskStorageAssumption
<1>4. mixed \in BOOLEAN
  BY <1>2 DEF IsProtective
<1>5. Scans
  <2>1. /\ ScanRecord /\ scan.pc = "idle" /\ scan.numPartitionEntries = 0 /\ scan.partitionIndex = 0
        /\ scan.mbrPartID = 0
    BY <1>2 DEF ScanRecord, NotScanning
  <2>2. 0 \in 0 .. 0 /\ 0 \in 0 .. Word16 - 1 /\ 0 \in 0 .. MaxFormats
    BY DiskStorageAssumption DEF Word16
  <2> QED
    BY <1>2, <1>3, <1>4, <2>1, <2>2 DEF Scans, Counts
<1>6. Written
  BY <1>2 DEF Written, FormatRecord, NotFormatting
<1>7. Announced /\ Settled
  BY <1>2 DEF Announced, Settled
<1> QED
  BY <1>5, <1>6, <1>7 DEF Inv

LEMMA NextInv == Inv /\ [Next]_vars => Inv'
<1> SUFFICES ASSUME Inv, [Next]_vars
             PROVE  Inv'
  OBVIOUS
<1>1. CASE RefuseFormat
  <2>1. UNCHANGED <<view, medium, partitions, fmt, scan, formats, written, mixed>>
    BY <1>1 DEF RefuseFormat, Refuse, device
  <2> QED
    BY <2>1, SameInv
<1>2. CASE UNCHANGED vars
  <2>1. UNCHANGED <<view, medium, partitions, fmt, scan, formats, written, mixed>>
    BY <1>2 DEF vars
  <2> QED
    BY <2>1, SameInv
<1> QED
  BY <1>1, <1>2, StartFormatInv, StartScanInv, UsePartitionInv, PowerLossInv, FormattingInv,
     ScanningInv, WriteBackInv DEF Next

\* The inductive invariant holds.
THEOREM Invariance == Spec => []Inv
BY InitInv, NextInv, PTL DEF Spec

\* The loops of formatDisk over the sectors of entries and those of Scanner::next
\* over entries and records stay within the device and their tables, on any disk.
THEOREM TypeCorrect == Spec => []TypeOK
<1>1. Inv => TypeOK
  BY DEF Inv, Scans, Written, TypeOK
<1> QED
  BY <1>1, Invariance, PTL

\* The order of formatDisk's writes: a disk that announces a GPT has both headers
\* and both copies of the entries, for any table, and at every moment of the call,
\* after a write of it has failed, and after a power loss that cost no writes.  A disk
\* whose GPT is being replaced by another GPT is left out (mixed).
THEOREM GptAlwaysConsistent == Spec => []GptConsistent
<1>1. Inv => GptConsistent
  BY GptImplies DEF Inv, Announced, GptConsistent
<1> QED
  BY <1>1, Invariance, PTL

\* Where formatDisk writes while it makes a table: never to a partition of it.
LEMMA FormatSector ==
  ASSUME Inv, FormatStep
  PROVE  \A x \in DataOf(fmt.table) : view'[x] = view[x]
<1>1. CASE fmt.pc \in {"entries", "copy", "header", "backup", "pmbr"}
  <2>1. PICK table \in TablesFor("gpt") : table = fmt.table
    BY <1>1 DEF Inv, Written
  <2>2. PICK s, c, pc, k : s \in GptSectors /\ WriteSector(s, c, pc, k)
    <3>1. PICK n \in Nat \ {0}, f \in Nat, B \in Nat, D \in Nat : Places(n, f, B, D)
      BY GptPlaces
    <3>2. fmt.pc \in {"entries", "copy"} => fmt.k \in 0 .. numPartitionTableSectors - 1
      BY DEF Inv, Written
    <3>3. CASE WriteEntries \/ WriteEntriesCopy
      BY <3>1, <3>2, <3>3 DEF WriteEntries, WriteEntriesCopy, GptSectors, Places
    <3>4. CASE WriteHeader \/ WriteHeaderCopy \/ WriteProtectiveMbr
      BY <3>4 DEF WriteHeader, WriteHeaderCopy, WriteProtectiveMbr, GptSectors
    <3> QED
      BY <1>1, <3>3, <3>4 DEF FormatStep, WriteMbr, SyncDisk
  <2>3. DataOf(table) \cap GptSectors = {}
    BY DataApart
  <2>4. DataOf(table) \subseteq Sector
    BY GptPlaces DEF Places, Sector
  <2>5. DOMAIN view = Sector
    BY DEF Inv, Scans
  <2>6. view' = [view EXCEPT ![s] = c] \/ view' = view
    BY <2>2 DEF WriteSector, Write, device
  <2> QED
    BY <2>1, <2>2, <2>3, <2>4, <2>5, <2>6
<1>2. CASE fmt.pc = "mbr"
  <2>1. PICK table \in TablesFor("mbr") : table = fmt.table
    BY <1>2 DEF Inv, Written
  <2>2. DataOf(table) \subseteq Sector \ {0}
    <3>1. PICK p \in Nat \ {0}, D \in Nat : p = partAlignSectors /\ D = driveSectors
      BY FormatAssumption, DiskAssumption
    <3>2. DataOf(table) \subseteq p .. D - 1
      BY <3>1, TableFacts DEF Space
    <3> QED
      BY <3>1, <3>2 DEF Sector
  <2>3. DOMAIN view = Sector
    BY DEF Inv, Scans
  <2>4. PICK c : view' = [view EXCEPT ![0] = c] \/ view' = view
    BY <1>2 DEF FormatStep, WriteEntries, WriteEntriesCopy, WriteHeader, WriteHeaderCopy,
                WriteProtectiveMbr, WriteMbr, SyncDisk, WriteSector, Write, device
  <2> QED
    BY <2>1, <2>2, <2>3, <2>4
<1>3. CASE fmt.pc \in {"idle", "sync"}
  <2>1. view' = view
    BY <1>3 DEF FormatStep, WriteEntries, WriteEntriesCopy, WriteHeader, WriteHeaderCopy,
                WriteProtectiveMbr, WriteMbr, SyncDisk, Sync, device
  <2> QED
    BY <2>1
<1> QED
  BY <1>1, <1>2, <1>3 DEF Inv, Written

\* formatDisk changes no sector of a partition that it creates: made again with the
\* same table, a damaged partition table costs no data, whatever else was there.
THEOREM DataStays == Spec => DataUntouched
<1>1. Inv /\ [Next]_vars => [FormatStep => \A s \in DataOf(fmt.table) : view'[s] = view[s]]_vars
  BY FormatSector
<1> QED
  BY <1>1, Invariance, PTL DEF Spec, DataUntouched

(***************************************************************************)
(* The calls end                                                           *)
(***************************************************************************)

\* The writes of formatDisk, and its sync, that are still to come.
WritesLeft ==
  CASE fmt.pc = "entries" -> 2 * (numPartitionTableSectors - fmt.k) + 4
    [] fmt.pc = "copy" -> 2 * (numPartitionTableSectors - fmt.k) + 3
    [] fmt.pc = "header" -> 4
    [] fmt.pc = "backup" -> 3
    [] fmt.pc \in {"pmbr", "mbr"} -> 2
    [] fmt.pc = "sync" -> 1
    [] fmt.pc = "idle" -> 0

\* How far Scanner::next has come, and what is left of the table it is in: every
\* entry counts for itself and for the sector of entries that may follow it.
Stage ==
  CASE scan.pc = "sector0" -> 3
    [] scan.pc = "header" -> 2
    [] scan.pc \in {"entries", "entry", "record"} -> 1
    [] scan.pc = "idle" -> 0
EntriesLeft ==
  2 * (scan.numPartitionEntries - scan.partitionIndex) + (IF scan.pc = "entries" THEN 1 ELSE 0)

\* The scanner goes on with the records of an extended partition.
Descends == scan.pc = "record" /\ scan'.pc = "record" /\ scan'.partitionIndex = 0

LEMMA WritesLeftType == Inv => WritesLeft \in Nat
<1>1. numPartitionTableSectors \in Nat
  BY DivMod, DiskAssumption DEF numPartitionTableSectors
<1> QED
  BY <1>1 DEF Inv, Written, WritesLeft

LEMMA StageType == Inv => Stage \in 0 .. 3 /\ EntriesLeft \in Nat
BY DEF Inv, Scans, Stage, EntriesLeft

\* A write that goes on or fails.
LEMMA WriteGoes ==
  ASSUME FormatRecord, NEW s, NEW c, NEW pc, NEW k, WriteSector(s, c, pc, k)
  PROVE  fmt' = NotFormatting \/ (fmt'.pc = pc /\ fmt'.k = k)
BY DEF WriteSector, FormatRecord

\* Every write of formatDisk brings it closer to its end, whether it succeeds or not.
LEMMA FormatLowers ==
  ASSUME Inv, FormatStep
  PROVE  WritesLeft' < WritesLeft
<1>1. numPartitionTableSectors \in Nat /\ FormatRecord
  BY DivMod, DiskAssumption DEF numPartitionTableSectors, Inv, Written
<1>2. fmt.pc \in {"entries", "copy"} => fmt.k \in 0 .. numPartitionTableSectors - 1
  BY DEF Inv, Written
<1>3. /\ fmt' = NotFormatting => WritesLeft' = 0
      /\ fmt'.pc = "entries" => WritesLeft' = 2 * (numPartitionTableSectors - fmt'.k) + 4
      /\ fmt'.pc = "copy" => WritesLeft' = 2 * (numPartitionTableSectors - fmt'.k) + 3
      /\ fmt'.pc = "header" => WritesLeft' = 4
      /\ fmt'.pc = "backup" => WritesLeft' = 3
      /\ fmt'.pc = "pmbr" => WritesLeft' = 2
      /\ fmt'.pc = "sync" => WritesLeft' = 1
  BY DEF WritesLeft, NotFormatting, numPartitionTableSectors
<1>4. /\ fmt.pc = "entries" => WritesLeft = 2 * (numPartitionTableSectors - fmt.k) + 4
      /\ fmt.pc = "copy" => WritesLeft = 2 * (numPartitionTableSectors - fmt.k) + 3
      /\ fmt.pc = "header" => WritesLeft = 4
      /\ fmt.pc = "backup" => WritesLeft = 3
      /\ fmt.pc \in {"pmbr", "mbr"} => WritesLeft = 2
      /\ fmt.pc = "sync" => WritesLeft = 1
  BY DEF WritesLeft
<1>5. CASE WriteEntries
  <2>1. fmt' = NotFormatting \/ (fmt'.pc = "copy" /\ fmt'.k = fmt.k)
    BY <1>1, <1>5, WriteGoes DEF WriteEntries
  <2> QED
    BY <1>1, <1>2, <1>3, <1>4, <1>5, <2>1 DEF WriteEntries
<1>6. CASE WriteEntriesCopy
  <2>1. \/ fmt' = NotFormatting
        \/ fmt'.pc = (IF MoreEntries THEN "entries" ELSE "header") /\ fmt'.k = fmt.k + 1
    BY <1>1, <1>6, WriteGoes DEF WriteEntriesCopy
  <2> QED
    BY <1>1, <1>2, <1>3, <1>4, <1>6, <2>1 DEF WriteEntriesCopy, MoreEntries
<1>7. CASE WriteHeader
  <2>1. fmt' = NotFormatting \/ fmt'.pc = "backup"
    BY <1>1, <1>7, WriteGoes DEF WriteHeader
  <2> QED
    BY <1>3, <1>4, <1>7, <2>1 DEF WriteHeader
<1>8. CASE WriteHeaderCopy
  <2>1. fmt' = NotFormatting \/ fmt'.pc = "pmbr"
    BY <1>1, <1>8, WriteGoes DEF WriteHeaderCopy
  <2> QED
    BY <1>3, <1>4, <1>8, <2>1 DEF WriteHeaderCopy
<1>9. CASE WriteProtectiveMbr
  <2>1. fmt' = NotFormatting \/ fmt'.pc = "sync"
    BY <1>1, <1>9, WriteGoes DEF WriteProtectiveMbr
  <2> QED
    BY <1>3, <1>4, <1>9, <2>1 DEF WriteProtectiveMbr
<1>10. CASE WriteMbr
  <2>1. fmt' = NotFormatting \/ fmt'.pc = "sync"
    BY <1>1, <1>10, WriteGoes DEF WriteMbr
  <2> QED
    BY <1>3, <1>4, <1>10, <2>1 DEF WriteMbr
<1>11. CASE SyncDisk
  BY <1>3, <1>4, <1>11 DEF SyncDisk
<1> QED
  BY <1>5, <1>6, <1>7, <1>8, <1>9, <1>10, <1>11 DEF FormatStep

\* Every step of the scanner brings it to a later stage or closer to the end of its
\* table, unless it goes on with another table.
LEMMA ScanLowers ==
  ASSUME Inv, ScanStep, ~Descends
  PROVE  Stage' < Stage \/ (Stage' = Stage /\ EntriesLeft' < EntriesLeft)
<1>1. /\ ScanRecord /\ scan.numPartitionEntries \in Nat
      /\ scan.partitionIndex \in 0 .. scan.numPartitionEntries
  BY DEF Inv, Scans
<1>2. scan' = NotScanning => Stage' = 0
  BY DEF Stage, NotScanning
<1>3. CASE scan' = NotScanning
  <2>1. Stage \in {1, 2, 3}
    BY DEF ScanStep, ReadFails, NoBuffer, LoadSector0, FoundProtective, LoadHeader, LoadEntries,
           TakeEntry, TakeRecord, ScanDone, Stage
  <2> QED
    BY <1>2, <1>3, <2>1
<1>4. CASE LoadSector0 /\ scan' # NotScanning
  <2>1. scan'.pc = "record"
    BY <1>1, <1>4, ScanFields DEF LoadSector0, ScanEnds
  <2> QED
    BY <1>4, <2>1 DEF LoadSector0, Stage
<1>5. CASE FoundProtective
  <2>1. scan'.pc = "header"
    BY <1>1, <1>5, ScanFields DEF FoundProtective
  <2> QED
    BY <1>5, <2>1 DEF FoundProtective, Stage
<1>6. CASE LoadHeader /\ scan' # NotScanning
  <2>1. scan'.pc = "entries"
    BY <1>1, <1>6, ScanFields DEF LoadHeader, ScanEnds
  <2> QED
    BY <1>6, <2>1 DEF LoadHeader, Stage
<1>7. CASE LoadEntries
  <2>1. /\ scan'.pc = "entry" /\ scan'.partitionIndex = scan.partitionIndex
        /\ scan'.numPartitionEntries = scan.numPartitionEntries
    BY <1>1, <1>7, ScanFields DEF LoadEntries
  <2> QED
    BY <1>1, <1>7, <2>1 DEF LoadEntries, Stage, EntriesLeft
<1>8. CASE TakeEntry
  <2>1. /\ scan'.pc \in {"entries", "entry"} /\ scan'.partitionIndex = scan.partitionIndex + 1
        /\ scan'.numPartitionEntries = scan.numPartitionEntries
    BY <1>1, <1>8, ScanFields DEF TakeEntry
  <2> QED
    BY <1>1, <1>8, <2>1 DEF TakeEntry, Stage, EntriesLeft
<1>9. CASE TakeRecord
  <2>1. /\ scan'.pc = "record" /\ scan'.partitionIndex = scan.partitionIndex + 1
        /\ scan'.numPartitionEntries = scan.numPartitionEntries
    BY <1>1, <1>9, ScanFields DEF TakeRecord, Descends
  <2> QED
    BY <1>1, <1>9, <2>1 DEF TakeRecord, Stage, EntriesLeft
<1> QED
  BY <1>3, <1>4, <1>5, <1>6, <1>7, <1>8, <1>9 DEF ScanStep, ReadFails, NoBuffer, ScanDone, ScanEnds

\* formatDisk has a number of writes left that every step of it lowers, also when
\* the step fails, and that nothing else raises while the call is on: it ends, for
\* any size of the table of entries.
THEOREM FormatEnds ==
  Spec => /\ [](WritesLeft \in Nat)
          /\ [][/\ Formatting => WritesLeft' < WritesLeft
                /\ fmt # NotFormatting => WritesLeft' <= WritesLeft]_vars
<1>1. ASSUME Inv, [Next]_vars
      PROVE  [/\ Formatting => WritesLeft' < WritesLeft
              /\ fmt # NotFormatting => WritesLeft' <= WritesLeft]_vars
  <2>1. Formatting => WritesLeft' < WritesLeft
    BY <1>1, FormatLowers DEF Formatting
  <2>2. WritesLeft \in Nat /\ WritesLeft' \in Nat
    <3>1. Inv'
      BY <1>1, NextInv
    <3>2. (Inv => WritesLeft \in Nat)'
      BY WritesLeftType, PTL
    <3> QED
      BY <1>1, <3>1, <3>2, WritesLeftType
  <2>3. ASSUME fmt # NotFormatting, ~Formatting
        PROVE  WritesLeft' <= WritesLeft
    <3>1. CASE fmt' = NotFormatting
      <4>1. WritesLeft' = 0
        BY <3>1 DEF WritesLeft, NotFormatting
      <4> QED
        BY <2>2, <4>1
    <3>2. CASE fmt' = fmt
      <4>1. WritesLeft' = WritesLeft
        BY <3>2 DEF WritesLeft, numPartitionTableSectors
      <4> QED
        BY <2>2, <4>1
    <3> QED
      BY <1>1, <2>3, <3>1, <3>2 DEF Next, StartFormat, Idle, RefuseFormat, Refuse, StartScan,
         UsePartition, PowerLoss, Scanning, WriteBack, vars
  <2> QED
    BY <2>1, <2>2, <2>3
<1> QED
  BY <1>1, Invariance, WritesLeftType, PTL DEF Spec

\* Scanner::next goes through its stages and through the entries of a table without
\* turning back, on any disk: only a chain of extended partitions can keep it longer
\* than that.
THEOREM TableScanEnds ==
  Spec => /\ [](Stage \in 0 .. 3 /\ EntriesLeft \in Nat)
          /\ [][/\ Scanning /\ ~Descends =>
                     Stage' < Stage \/ (Stage' = Stage /\ EntriesLeft' < EntriesLeft)
                /\ scan # NotScanning /\ ~Scanning => scan' \in {scan, NotScanning}]_vars
<1>1. ASSUME Inv, [Next]_vars
      PROVE  [/\ Scanning /\ ~Descends =>
                   Stage' < Stage \/ (Stage' = Stage /\ EntriesLeft' < EntriesLeft)
              /\ scan # NotScanning /\ ~Scanning => scan' \in {scan, NotScanning}]_vars
  <2>1. Scanning /\ ~Descends => Stage' < Stage \/ (Stage' = Stage /\ EntriesLeft' < EntriesLeft)
    BY <1>1, ScanLowers DEF Scanning
  <2>2. scan # NotScanning /\ ~Scanning => scan' \in {scan, NotScanning}
    BY <1>1 DEF Next, StartFormat, Idle, RefuseFormat, StartScan, UsePartition, PowerLoss,
       Formatting, WriteBack, vars
  <2> QED
    BY <2>1, <2>2
<1> QED
  BY <1>1, Invariance, StageType, PTL DEF Spec

==============================================================================
