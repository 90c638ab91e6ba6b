---------------------------- MODULE ChecksProofs ----------------------------
(***************************************************************************)
(* Proofs about the functions that Checks calls: geometry, boot sectors    *)
(* and host files.  Checksums are in ChecksumProofs.                       *)
(***************************************************************************)
EXTENDS Checks, SequenceTheorems, TLAPS

(***************************************************************************)
(* Arithmetic                                                              *)
(***************************************************************************)

\* Division with remainder.
LEMMA DivMod ==
  ASSUME NEW a \in Nat, NEW m \in Nat \ {0}
  PROVE  \E q \in Nat, r \in 0 .. m - 1 : q = a \div m /\ r = a % m /\ a = q * m + r
OBVIOUS

\* Quotients are unique.
LEMMA DivUnique ==
  ASSUME NEW m \in Nat \ {0}, NEW q \in Nat, NEW r \in 0 .. m - 1
  PROVE  (q * m + r) \div m = q /\ (q * m + r) % m = r
OBVIOUS

\* Products keep the order.
LEMMA TimesOrder ==
  ASSUME NEW a \in Nat, NEW b \in Nat, NEW m \in Nat, a <= b
  PROVE  a * m <= b * m /\ a * m \in Nat /\ b * m \in Nat
<1>1. PICK d \in Nat : b = a + d
  <2>1. b - a \in Nat /\ b = a + (b - a)
    OBVIOUS
  <2> QED
    BY <2>1
<1>2. b * m = a * m + d * m /\ d * m \in Nat /\ a * m \in Nat
  BY <1>1
<1> QED
  BY <1>2

\* So do quotients.
LEMMA DivOrder ==
  ASSUME NEW a \in Nat, NEW b \in Nat, NEW m \in Nat \ {0}, a <= b
  PROVE  a \div m <= b \div m
<1>1. PICK q \in Nat, r \in 0 .. m - 1 : q = a \div m /\ a = q * m + r
  BY DivMod
<1>2. PICK p \in Nat, t \in 0 .. m - 1 : p = b \div m /\ b = p * m + t
  BY DivMod
<1>3. ~(q >= p + 1)
  <2> SUFFICES ASSUME q >= p + 1
               PROVE  FALSE
    OBVIOUS
  <2>1. (p + 1) * m <= q * m
    <3>1. p + 1 \in Nat /\ p + 1 <= q
      OBVIOUS
    <3> QED
      BY <3>1, TimesOrder
  <2>2. (p + 1) * m = p * m + m
    OBVIOUS
  <2>3. p * m \in Nat /\ q * m \in Nat
    OBVIOUS
  <2> QED
    BY <1>1, <1>2, <2>1, <2>2, <2>3
<1> QED
  BY <1>1, <1>2, <1>3

(***************************************************************************)
(* What a call has returned is the value of the function                   *)
(***************************************************************************)

ChecksumOf == [bcc |-> crc32(crc32({}, input.first), input.second)]
HeadersOf == LET primary == PrimaryHeader(input.fields, input.rest)
             IN [primary |-> primary, backup |-> BackupHeader(primary, input.other)]
GeometryOf == LET heads == numHeads(input.drive)
              IN [heads |-> heads, chs |-> calc_CHS(input.sect, heads)]
VolumeOf == identify(IF input.volume.systype = "exfat" THEN ExfatBoot(input.volume)
                                                       ELSE FatBoot(input.volume))
FileOf == LET made == Create(input.file, input.size, input.opens, input.truncates)
          IN [found |-> OpenExisting(input.file, input.size64), made |-> made,
              again |-> OpenExisting(made.file, input.size64)]

Returned ==
  /\ input \in Inputs
  /\ Called("crc") => result = ChecksumOf
  /\ Called("header") => result = HeadersOf
  /\ Called("chs") => result = GeometryOf
  /\ Called("volume") => result = VolumeOf
  /\ Called("other") => result = identify(OtherSector(input.jmp_boot))
  /\ Called("file") => result = FileOf

LEMMA ReturnGives ==
  ASSUME NEW value, Return(value)
  PROVE  input' = input /\ result' = value
BY DEF Return, result

LEMMA ReturnedHolds == Spec => []Returned
<1>1. Init => Returned
  BY DEF Init, Returned, Called
<1>2. Returned /\ [Next]_vars => Returned'
  <2> SUFFICES ASSUME Returned, [Next]_vars
               PROVE  Returned'
    OBVIOUS
  <2>1. CASE CallChecksum
    <3>1. input.fn = "crc" /\ Return(ChecksumOf)
      BY <2>1 DEF CallChecksum, ChecksumOf
    <3>2. input' = input /\ result' = ChecksumOf
      BY <3>1, ReturnGives
    <3> QED
      BY <3>1, <3>2 DEF Returned, Called, ChecksumOf
  <2>2. CASE CallHeaders
    <3>1. input.fn = "header" /\ Return(HeadersOf)
      BY <2>2 DEF CallHeaders, HeadersOf
    <3>2. input' = input /\ result' = HeadersOf
      BY <3>1, ReturnGives
    <3> QED
      BY <3>1, <3>2 DEF Returned, Called, HeadersOf
  <2>3. CASE CallGeometry
    <3>1. input.fn = "chs" /\ Return(GeometryOf)
      BY <2>3 DEF CallGeometry, GeometryOf
    <3>2. input' = input /\ result' = GeometryOf
      BY <3>1, ReturnGives
    <3> QED
      BY <3>1, <3>2 DEF Returned, Called, GeometryOf
  <2>4. CASE CallIdentify
    <3>1. CASE input.fn = "volume" /\ Return(VolumeOf)
      <4>1. input' = input /\ result' = VolumeOf
        BY <3>1, ReturnGives
      <4> QED
        BY <3>1, <4>1 DEF Returned, Called, VolumeOf
    <3>2. CASE input.fn = "other" /\ Return(identify(OtherSector(input.jmp_boot)))
      <4>1. input' = input /\ result' = identify(OtherSector(input.jmp_boot))
        BY <3>2, ReturnGives
      <4> QED
        BY <3>2, <4>1 DEF Returned, Called
    <3> QED
      BY <2>4, <3>1, <3>2 DEF CallIdentify, VolumeOf
  <2>5. CASE CallConstructors
    <3>1. input.fn = "file" /\ Return(FileOf)
      BY <2>5 DEF CallConstructors, FileOf
    <3>2. input' = input /\ result' = FileOf
      BY <3>1, ReturnGives
    <3> QED
      BY <3>1, <3>2 DEF Returned, Called, FileOf
  <2>6. CASE UNCHANGED vars
    BY <2>6 DEF vars, Returned, Called, result, ChecksumOf, HeadersOf, GeometryOf, VolumeOf, FileOf
  <2> QED
    BY <2>1, <2>2, <2>3, <2>4, <2>5, <2>6 DEF Next
<1> QED
  BY <1>1, <1>2, PTL DEF Spec

(***************************************************************************)
(* Geometry                                                                *)
(***************************************************************************)

\* The loop ends with the smallest number of heads for which there are few enough
\* cylinders, or with 255.
LEMMA HeadsFound ==
  ASSUME NEW drive \in Nat
  PROVE  /\ numHeads(drive) \in {8, 16, 32, 64, 128, 255}
         /\ FewEnough(drive, 255) => FewEnough(drive, numHeads(drive))
<1>1. PICK enough : enough = {h \in {8, 16, 32, 64, 128} : FewEnough(drive, h)}
  OBVIOUS
<1>2. CASE enough = {}
  <2>1. numHeads(drive) = 255
    BY <1>1, <1>2 DEF numHeads
  <2> QED
    BY <2>1
<1>3. CASE enough # {}
  <2>1. \E h \in enough : \A g \in enough : h <= g
    <3>1. 8 \in enough \/ 16 \in enough \/ 32 \in enough \/ 64 \in enough \/ 128 \in enough
      BY <1>1, <1>3
    <3>2. \A g \in enough : g \in {8, 16, 32, 64, 128}
      BY <1>1
    <3>3. CASE 8 \in enough
      BY <3>2, <3>3
    <3>4. CASE 8 \notin enough /\ 16 \in enough
      BY <3>2, <3>4
    <3>5. CASE 8 \notin enough /\ 16 \notin enough /\ 32 \in enough
      BY <3>2, <3>5
    <3>6. CASE 8 \notin enough /\ 16 \notin enough /\ 32 \notin enough /\ 64 \in enough
      BY <3>2, <3>6
    <3>7. CASE 8 \notin enough /\ 16 \notin enough /\ 32 \notin enough /\ 64 \notin enough
      BY <3>1, <3>2, <3>7
    <3> QED
      BY <3>3, <3>4, <3>5, <3>6, <3>7
  <2>2. numHeads(drive) = CHOOSE h \in enough : \A g \in enough : h <= g
    BY <1>1, <1>3 DEF numHeads
  <2>3. numHeads(drive) \in enough
    BY <2>1, <2>2
  <2> QED
    BY <1>1, <2>3
<1> QED
  BY <1>2, <1>3

\* A sector is in a track, and a track in a cylinder.
Address(sect, h, c, t, r, x, z) ==
  /\ c \in Nat /\ t \in 0 .. h - 1 /\ r \in 0 .. 62 /\ x \in Nat /\ z \in Nat
  /\ r = sect % 63 /\ x = sect \div 63 /\ t = x % h /\ c = x \div h
  /\ c = sect \div (h * 63)
  /\ z = c * h /\ sect = (z + t) * 63 + r

LEMMA InCylinder ==
  ASSUME NEW sect \in Nat, NEW h \in Nat \ {0}
  PROVE  \E c, t, r, x, z : Address(sect, h, c, t, r, x, z)
<1>1. PICK x \in Nat, r \in 0 .. 62 : x = sect \div 63 /\ r = sect % 63 /\ sect = x * 63 + r
  BY DivMod, 63 \in Nat \ {0}
<1>2. PICK c \in Nat, t \in 0 .. h - 1 : c = x \div h /\ t = x % h /\ x = c * h + t
  BY DivMod
<1>3. PICK z \in Nat : z = c * h
  OBVIOUS
<1>4. PICK m \in Nat \ {0} : m = h * 63
  BY 0 # h
<1>5. PICK u \in 0 .. m - 1 : u = t * 63 + r
  <2>1. t * 63 + r \in 0 .. m - 1
    BY <1>4
  <2> QED
    BY <2>1
<1>6. c * m = z * 63
  <2>1. c * (h * 63) = (c * h) * 63
    OBVIOUS
  <2> QED
    BY <1>3, <1>4, <2>1
<1>7. sect = (z + t) * 63 + r
  BY <1>1, <1>2, <1>3
<1>8. sect = c * m + u
  BY <1>5, <1>6, <1>7
<1>9. sect \div m = c
  BY <1>8, DivUnique
<1>10. Address(sect, h, c, t, r, x, z)
  BY <1>1, <1>2, <1>3, <1>4, <1>7, <1>9 DEF Address
<1> QED
  BY <1>10

\* The two parts of a cylinder that fits a record.
LEMMA CylinderSplit ==
  ASSUME NEW c \in 0 .. 1023, NEW r \in 0 .. 62
  PROVE  LET s == 1 + r + 64 * ((c \div 256) % 4) IN
         s \div 64 = c \div 256 /\ s % 64 = 1 + r /\ (c % 256) + 256 * (c \div 256) = c
<1>1. PICK q \in 0 .. 3, l \in 0 .. 255 : q = c \div 256 /\ l = c % 256 /\ c = 256 * q + l
  OBVIOUS
<1>2. q % 4 = q
  OBVIOUS
<1>3. (1 + r + 64 * q) \div 64 = q /\ (1 + r + 64 * q) % 64 = 1 + r
  OBVIOUS
<1> QED
  BY <1>1, <1>2, <1>3

\* The numbers lead back to the sector.
LEMMA GeometryRight ==
  ASSUME NEW drive \in Nat, NEW sect \in Nat, sect < drive
  PROVE  LET heads == numHeads(drive)
             cyl == sect \div (heads * N_SEC_TRACK)
         IN /\ heads \in 1 .. 255
            /\ cyl <= 1023 => SectorOf(calc_CHS(sect, heads), heads) = sect
            /\ FewEnough(drive, 255) => cyl <= 1024
<1>1. PICK h : h = numHeads(drive)
  OBVIOUS
<1>2. /\ h \in {8, 16, 32, 64, 128, 255}
      /\ FewEnough(drive, 255) => FewEnough(drive, h)
  BY <1>1, HeadsFound
<1>3. h \in Nat \ {0} /\ h <= 255 /\ h \in 1 .. 255
  BY <1>2
<1>4. PICK c, t, r, x, z : Address(sect, h, c, t, r, x, z)
  BY <1>3, InCylinder
<1>5. /\ c \in Nat /\ t \in 0 .. h - 1 /\ r \in 0 .. 62 /\ x \in Nat /\ z \in Nat
      /\ r = sect % 63 /\ x = sect \div 63 /\ t = x % h /\ c = x \div h
      /\ c = sect \div (h * 63)
      /\ z = c * h /\ sect = (z + t) * 63 + r
  BY <1>4 DEF Address
<1>6. ASSUME c <= 1023
      PROVE  SectorOf(calc_CHS(sect, h), h) = sect
  <2>1. PICK s : s = 1 + r + 64 * ((c \div 256) % 4)
    OBVIOUS
  <2>2. s \div 64 = c \div 256 /\ s % 64 = 1 + r /\ (c % 256) + 256 * (c \div 256) = c
    <3>1. c \in Nat /\ c <= 1023 /\ r \in 0 .. 62
      BY <1>5, <1>6, Zenon
    <3>2. c \in 0 .. 1023
      BY <3>1
    <3> QED
      BY <2>1, <3>1, <3>2, CylinderSplit
  <2>3. t % 256 = t
    <3>1. h \in Nat /\ h <= 255 /\ t \in 0 .. h - 1
      BY <1>3, <1>5, Zenon
    <3> QED
      BY <3>1
  <2>4. calc_CHS(sect, h) = [head |-> t, sector |-> s, track |-> c % 256]
    BY <1>5, <2>1, <2>3 DEF calc_CHS, N_SEC_TRACK
  <2>5. Cylinder(calc_CHS(sect, h)) = c
    <3>1. /\ calc_CHS(sect, h).track = c % 256 /\ calc_CHS(sect, h).sector = s
      BY <2>4
    <3>2. Cylinder(calc_CHS(sect, h)) = (c % 256) + 256 * (s \div 64)
      BY <3>1 DEF Cylinder
    <3> QED
      BY <2>2, <3>2
  <2>6. SectorOf(calc_CHS(sect, h), h) = (z + t) * 63 + (1 + r) - 1
    BY <1>5, <2>2, <2>4, <2>5 DEF SectorOf, N_SEC_TRACK
  <2> QED
    BY <1>5, <2>6
<1>7. ASSUME FewEnough(drive, 255)
      PROVE  c <= 1024
  <2>1. PICK m \in Nat \ {0} : m = h * 63
    BY <1>3
  <2>2. drive \div m <= 1024
    BY <1>2, <1>7, <2>1 DEF FewEnough, N_SEC_TRACK
  <2>3. sect \div m <= drive \div m
    BY DivOrder
  <2>4. sect \div m \in Nat /\ drive \div m \in Nat
    OBVIOUS
  <2> QED
    BY <1>5, <2>1, <2>2, <2>3, <2>4
<1>8. c = sect \div (h * N_SEC_TRACK)
  BY <1>5 DEF N_SEC_TRACK
<1> QED
  BY <1>1, <1>3, <1>6, <1>7, <1>8

\* For every device and every sector of it, the CHS numbers that formatDisk writes to
\* an MBR denote that sector, wherever a record can hold its cylinder.
THEOREM GeometryAlwaysInverts == Spec => []GeometryInverts
<1>1. Returned => GeometryInverts
  <2> SUFFICES ASSUME Returned, Called("chs")
               PROVE  GeometryInverts
    BY DEF GeometryInverts
  <2>1. result = GeometryOf /\ input \in Inputs /\ input.fn = "chs"
    BY DEF Returned, Called
  <2>2. input.drive \in Nat /\ input.sect \in Nat /\ input.sect < input.drive
    BY <2>1, ChecksAssumption DEF Inputs
  <2>3. /\ result.heads = numHeads(input.drive)
        /\ result.chs = calc_CHS(input.sect, numHeads(input.drive))
    BY <2>1 DEF GeometryOf
  <2> QED
    BY <2>2, <2>3, GeometryRight DEF GeometryInverts
<1> QED
  BY <1>1, ReturnedHolds, PTL

(***************************************************************************)
(* Boot sectors                                                            *)
(***************************************************************************)

\* What the fields of a FAT volume's boot sector say.
LEMMA FatFields ==
  ASSUME NEW v, ToolMade(v), v.systype # "exfat"
  PROVE  LET b == FatBoot(v) IN
         /\ b.jmp_boot /\ b.signature = v.signature
         /\ b.fs_type = IF v.systype = "fat32" THEN "FAT32" ELSE "other"
         /\ b.sector_size = 2 ^ v.bits /\ b.sec_per_clus = v.cluster
         /\ (IF b.sectors # 0 THEN b.sectors ELSE b.total_sect) = v.total
BY DEF FatBoot, OtherSector, ToolMade

\* A volume that is not FAT32 passes the checks for volumes without a signature.
LEMMA FatProper ==
  ASSUME NEW v, ToolMade(v), v.systype = "fat"
  PROVE  ProperFat(FatBoot(v))
<1>1. PICK b : b = FatBoot(v)
  OBVIOUS
<1>2. /\ b.sector_size = 2 ^ v.bits /\ b.sec_per_clus = v.cluster /\ b.reserved = 1
      /\ b.num_fats = v.fats /\ b.dir_entries = 16 /\ b.fat_length = v.length
      /\ b.sectors = (IF v.total < 65536 THEN v.total ELSE 0)
      /\ b.total_sect = (IF v.total < 65536 THEN 0 ELSE v.total)
  BY <1>1 DEF FatBoot, OtherSector
<1>3. IsPowerOfTwo(b.sector_size) /\ b.sector_size \in 512 .. 4096
  <2>1. v.bits \in 0 .. 15
    BY DEF ToolMade
  <2>2. 2 ^ v.bits \in 512 .. 4096
    BY SMTT(60) DEF ToolMade
  <2>3. PICK e \in 0 .. 15 : e = v.bits
    BY <2>1
  <2>4. b.sector_size = 2 ^ e
    BY <1>2, <2>3
  <2>5. IsPowerOfTwo(b.sector_size)
    BY <2>4 DEF IsPowerOfTwo
  <2>6. b.sector_size = 2 ^ v.bits
    BY <1>2
  <2>7. b.sector_size \in 512 .. 4096
    BY <2>2, <2>6
  <2> QED
    BY <2>5, <2>7
<1>4. IsPowerOfTwo(b.sec_per_clus)
  BY <1>2 DEF ToolMade
<1>5. /\ b.reserved # 0 /\ b.num_fats - 1 <= 1 /\ b.dir_entries # 0
      /\ b.sectors >= 128 \/ b.total_sect >= 65536
      /\ b.fat_length # 0
  BY <1>2 DEF ToolMade
<1> QED
  BY <1>1, <1>3, <1>4, <1>5 DEF ProperFat

\* Clusters are fewer than all sectors have room for.
LEMMA FewerClusters ==
  ASSUME NEW total \in Nat, NEW used \in Nat, NEW cluster \in Nat \ {0}, NEW w \in Nat \ {0}
  PROVE  (total - used) \div cluster <= (total * w) \div (w * cluster)
<1>1. PICK q \in Nat, r \in 0 .. cluster - 1 : q = total \div cluster /\ total = q * cluster + r
  BY DivMod
<1>2. (total - used) \div cluster <= q
  <2>1. PICK p \in Int, t \in 0 .. cluster - 1 :
          p = (total - used) \div cluster /\ total - used = p * cluster + t
    OBVIOUS
  <2>2. ~(p >= q + 1)
    <3> SUFFICES ASSUME p >= q + 1
                 PROVE  FALSE
      OBVIOUS
    <3>1. PICK y \in Nat : y = p /\ q + 1 <= y /\ q + 1 \in Nat
      OBVIOUS
    <3>2. (q + 1) * cluster <= y * cluster
      BY <3>1, TimesOrder
    <3>3. (q + 1) * cluster = q * cluster + cluster /\ q * cluster \in Nat /\ y * cluster \in Nat
      OBVIOUS
    <3> QED
      BY <1>1, <2>1, <3>1, <3>2, <3>3
  <2> QED
    BY <2>1, <2>2
<1>3. PICK m \in Nat \ {0} : m = w * cluster
  OBVIOUS
<1>4. PICK x \in Nat : x = r * w /\ x < m
  <2>1. r \in Nat /\ r <= cluster - 1 /\ cluster - 1 \in Nat
    OBVIOUS
  <2>2. r * w <= (cluster - 1) * w /\ r * w \in Nat
    BY <2>1, TimesOrder
  <2>3. (cluster - 1) * w = w * cluster - w
    OBVIOUS
  <2> QED
    BY <1>3, <2>2, <2>3
<1>5. total * w = q * m + x
  <2>1. (q * cluster + r) * w = q * (w * cluster) + r * w
    OBVIOUS
  <2> QED
    BY <1>1, <1>3, <1>4, <2>1
<1>6. (total * w) \div m = q
  <2>1. x \in 0 .. m - 1
    BY <1>4
  <2> QED
    BY <1>5, <2>1, DivUnique
<1> QED
  BY <1>2, <1>3, <1>6

\* Every volume that a tool has made is found.
LEMMA VolumeRight ==
  ASSUME NEW v, ToolMade(v), v.systype = "exfat" \/ v.total * 2 ^ v.bits < Word32
  PROVE  LET found == identify(IF v.systype = "exfat" THEN ExfatBoot(v) ELSE FatBoot(v)) IN
         /\ found.size = v.total * 2 ^ v.bits
         /\ v.systype \in {"exfat", "fat32"} => found.systype = v.systype
         /\ v.systype = "fat" => found.systype \in {"fat12", "fat16"}
         /\ found.systype = "fat12" => Clusters(v) <= MAX_FAT12
<1>1. PICK w \in Nat \ {0} : w = 2 ^ v.bits
  <2>1. 2 ^ v.bits \in 512 .. 4096
    BY SMTT(60) DEF ToolMade
  <2>2. PICK w : w = 2 ^ v.bits
    OBVIOUS
  <2>3. w \in 512 .. 4096
    BY <2>1, <2>2
  <2>4. w \in Nat \ {0}
    BY <2>3
  <2> QED
    BY <2>2, <2>4
<1>2. PICK total \in Nat : total = v.total
  BY DEF ToolMade
<1>3. CASE v.systype = "exfat"
  <2>1. PICK b : b = ExfatBoot(v)
    OBVIOUS
  <2>2. b.signature /\ b.fs_type = "EXFAT" /\ b.vol_length = v.total /\ b.sect_size_bits = v.bits
    BY <2>1 DEF ExfatBoot, OtherSector
  <2>3. identify(b) = [systype |-> "exfat", size |-> v.total * 2 ^ v.bits]
    BY <2>2 DEF identify
  <2> QED
    BY <1>3, <2>1, <2>3
<1>4. CASE v.systype # "exfat"
  <2>1. PICK b : b = FatBoot(v)
    OBVIOUS
  <2>2. /\ b.jmp_boot /\ b.signature = v.signature
        /\ b.fs_type = IF v.systype = "fat32" THEN "FAT32" ELSE "other"
        /\ b.sector_size = w /\ b.sec_per_clus = v.cluster
        /\ (IF b.sectors # 0 THEN b.sectors ELSE b.total_sect) = total
    BY <1>1, <1>2, <1>4, <2>1, FatFields
  <2>3. VolumeSize(b) = total * w
    <3>1. VolumeSize(b) = (total * w) % Word32
      BY <2>2 DEF VolumeSize
    <3>2. PICK y \in Nat : y = total * w
      OBVIOUS
    <3>3. y < Word32 /\ Word32 \in Nat \ {0}
      BY <1>1, <1>2, <1>4, <3>2, VolumeAssumption
    <3>4. y % Word32 = y
      BY <3>3
    <3> QED
      BY <3>1, <3>2, <3>4
  <2>4. CASE v.systype = "fat32"
    <3>1. v.signature
      BY <2>4 DEF ToolMade
    <3>2. identify(b) = [systype |-> "fat32", size |-> VolumeSize(b)]
      BY <2>2, <2>4, <3>1 DEF identify
    <3> QED
      BY <1>1, <1>2, <2>1, <2>3, <2>4, <3>2
  <2>5. CASE v.systype = "fat"
    <3>1. ProperFat(b)
      BY <2>1, <2>5, FatProper
    <3>2. identify(b) = [systype |-> IF numClusters(b) <= MAX_FAT12 THEN "fat12" ELSE "fat16",
                         size |-> VolumeSize(b)]
      BY <2>2, <2>5, <3>1 DEF identify
    <3>3. Clusters(v) \in Int /\ numClusters(b) \in Int /\ Clusters(v) <= numClusters(b)
      <4>1. PICK cluster \in Nat \ {0} : cluster = v.cluster
        BY <2>5 DEF ToolMade
      <4>2. PICK used \in Nat : used = 1 + v.fats * v.length + ((16 * 32 + w - 1) \div w)
        <5>1. v.fats \in Nat /\ v.length \in Nat
          BY <2>5 DEF ToolMade
        <5>2. PICK a \in Nat : a = v.fats * v.length
          BY <5>1
        <5>3. PICK y \in Nat : y = 16 * 32 + w - 1
          OBVIOUS
        <5>4. PICK d \in Nat : d = y \div w
          BY DivMod
        <5> QED
          BY <5>2, <5>3, <5>4
      <4>3. Clusters(v) = (total - used) \div cluster
        <5>1. PICK a \in Nat : a = v.fats * v.length
          <6>1. v.fats \in Nat /\ v.length \in Nat
            BY <2>5 DEF ToolMade
          <6> QED
            BY <6>1
        <5>2. PICK d \in Nat : d = (16 * 32 + w - 1) \div w
          <6>1. PICK y \in Nat : y = 16 * 32 + w - 1
            OBVIOUS
          <6>2. y \div w \in Nat
            BY DivMod
          <6> QED
            BY <6>1, <6>2
        <5>3. total - 1 - a - d = total - used
          BY <4>2, <5>1, <5>2
        <5>4. Clusters(v) = (total - 1 - a - d) \div cluster
          BY <1>1, <1>2, <4>1, <5>1, <5>2 DEF Clusters
        <5> QED
          BY <5>3, <5>4
      <4>4. numClusters(b) = (total * w) \div (w * cluster)
        BY <2>2, <2>3, <4>1 DEF numClusters
      <4>5. PICK x \in Int, y \in Int :
              x = (total - used) \div cluster /\ y = (total * w) \div (w * cluster) /\ x <= y
        <5>1. (total - used) \div cluster <= (total * w) \div (w * cluster)
          BY FewerClusters
        <5>2. (total - used) \div cluster \in Int
          OBVIOUS
        <5>3. PICK m \in Nat \ {0}, t \in Nat : m = w * cluster /\ t = total * w
          OBVIOUS
        <5>4. t \div m \in Int
          OBVIOUS
        <5> QED
          BY <5>1, <5>2, <5>3, <5>4
      <4> QED
        BY <4>3, <4>4, <4>5
    <3>4. numClusters(b) <= MAX_FAT12 => Clusters(v) <= MAX_FAT12
      BY <3>3 DEF MAX_FAT12
    <3>5. /\ identify(b).size = total * w
          /\ identify(b).systype = IF numClusters(b) <= MAX_FAT12 THEN "fat12" ELSE "fat16"
      BY <2>3, <3>2
    <3>6. identify(b).systype \in {"fat12", "fat16"}
      BY <3>5
    <3>7. identify(b).systype = "fat12" => Clusters(v) <= MAX_FAT12
      BY <3>4, <3>5
    <3> QED
      BY <1>1, <1>2, <2>1, <2>5, <3>5, <3>6, <3>7
  <2> QED
    BY <1>4, <2>4, <2>5 DEF ToolMade
<1> QED
  BY <1>3, <1>4

\* Boot code is no volume.
LEMMA OtherRight ==
  ASSUME NEW jmp
  PROVE  identify(OtherSector(jmp)) = NoVolume
<1>1. ~ProperFat(OtherSector(jmp))
  BY DEF ProperFat, OtherSector
<1>2. OtherSector(jmp).fs_type = "other"
  BY DEF OtherSector
<1> QED
  BY <1>1, <1>2 DEF identify

\* Every volume of a tool is found by identify with its size and kind, and boot code
\* is not taken for one.
THEOREM VolumesAlwaysFound == Spec => []VolumesFound
<1>1. Returned => VolumesFound
  <2> SUFFICES ASSUME Returned
               PROVE  VolumesFound
    OBVIOUS
  <2>1. Called("other") => result = NoVolume
    BY OtherRight DEF Returned
  <2>2. ASSUME Called("volume"),
               input.volume.systype = "exfat" \/ input.volume.total * 2 ^ input.volume.bits < Word32
        PROVE  /\ result.size = input.volume.total * 2 ^ input.volume.bits
               /\ input.volume.systype \in {"exfat", "fat32"} => result.systype = input.volume.systype
               /\ input.volume.systype = "fat" => result.systype \in {"fat12", "fat16"}
               /\ result.systype = "fat12" => Clusters(input.volume) <= MAX_FAT12
    <3>1. result = VolumeOf /\ input \in Inputs /\ input.fn = "volume"
      BY <2>2 DEF Returned, Called
    <3>2. ToolMade(input.volume)
      BY <3>1, ChecksAssumption DEF Inputs
    <3> QED
      BY <2>2, <3>1, <3>2, VolumeRight DEF VolumeOf
  <2> QED
    BY <2>1, <2>2 DEF VolumesFound
<1> QED
  BY <1>1, ReturnedHolds, PTL

(***************************************************************************)
(* Host files                                                              *)
(***************************************************************************)

\* A file of n bytes has n of them.
LEMMA Length ==
  ASSUME NEW n \in Nat, NEW f, DOMAIN f = 1 .. n, f = [k \in 1 .. n |-> f[k]]
  PROVE  Len(f) = n
<1>1. PICK S : S = {f[k] : k \in 1 .. n}
  OBVIOUS
<1>2. f \in [1 .. n -> S]
  BY <1>1
<1>3. f \in Seq(S)
  BY <1>2, SeqDef
<1>4. Len(f) \in Nat /\ DOMAIN f = 1 .. Len(f)
  BY <1>3, LenProperties
<1> QED
  BY <1>4

\* All sectors of the device that a file makes are in it.
LEMMA AllReadable ==
  ASSUME NEW f, NEW n \in Nat, f.exists, Len(f.bytes) = n
  PROVE  Readable(DeviceOf(n), f)
<1>1. PICK m \in Nat \ {0} : m = sectorSize
  BY HostFileAssumption
<1>2. PICK q \in Nat, r \in 0 .. m - 1 : q = n \div m /\ n = q * m + r
  BY DivMod
<1>3. DeviceOf(n).sectorCount = q
  BY <1>1, <1>2 DEF DeviceOf
<1>4. ASSUME NEW s \in 0 .. q - 1
      PROVE  raw_sector_read(f, s, 1)
  <2>1. s + 1 \in Nat /\ s + 1 <= q
    OBVIOUS
  <2>2. (s + 1) * m <= q * m /\ (s + 1) * m \in Nat /\ q * m \in Nat
    BY <2>1, TimesOrder
  <2>3. (s + 1) * m <= n
    BY <1>2, <2>2
  <2> QED
    BY <1>1, <2>3 DEF raw_sector_read
<1> QED
  BY <1>3, <1>4 DEF Readable

\* A device that is not open has no sector that could be read.
LEMMA NoneReadable ==
  ASSUME NEW dev, NEW f, dev.sectorCount = 0
  PROVE  Readable(dev, f)
BY DEF Readable

\* The device that is made of a file is found again.
LEMMA MadeAgain ==
  ASSUME NEW f, NEW size \in Nat, NEW size64 \in BOOLEAN, size > Size32 => size64
  PROVE  LET dev == DeviceOf(size)
             file == ftruncate(f, dev.sectorCount * sectorSize)
         IN /\ Readable(dev, file) /\ OpenExisting(file, size64) = dev
            /\ \A k \in DOMAIN file.bytes :
                 file.bytes[k] = IF k \in DOMAIN f.bytes THEN f.bytes[k] ELSE 0
<1>1. PICK m \in Nat \ {0} : m = sectorSize
  BY HostFileAssumption
<1>2. PICK q \in Nat, r \in 0 .. m - 1 : q = size \div m /\ size = q * m + r
  BY DivMod
<1>3. PICK n \in Nat : n = q * m
  OBVIOUS
<1>4. DeviceOf(size).sectorCount * sectorSize = n
  BY <1>1, <1>2, <1>3 DEF DeviceOf
<1>5. PICK file : file = ftruncate(f, n)
  OBVIOUS
<1>6. /\ file.exists
      /\ file.bytes = [k \in 1 .. n |-> IF k \in DOMAIN f.bytes THEN f.bytes[k] ELSE 0]
  BY <1>5 DEF ftruncate, File
<1>7. Len(file.bytes) = n
  <2>1. PICK b : b = file.bytes
    OBVIOUS
  <2>2. DOMAIN b = 1 .. n /\ b = [k \in 1 .. n |-> b[k]]
    BY <1>6, <2>1
  <2> QED
    BY <2>1, <2>2, Length
<1>8. n \div m = q
  <2>1. 0 \in 0 .. m - 1
    OBVIOUS
  <2>2. (q * m + 0) \div m = q
    BY <2>1, DivUnique
  <2>3. q * m + 0 = n
    BY <1>3
  <2> QED
    BY <2>2, <2>3
<1>9. DeviceOf(n) = DeviceOf(size)
  BY <1>1, <1>2, <1>8 DEF DeviceOf
<1>10. Readable(DeviceOf(size), file)
  BY <1>6, <1>7, <1>9, AllReadable
<1>11. n > Size32 => size64
  <2>1. n <= size
    BY <1>2, <1>3
  <2> QED
    BY <2>1, HostFileAssumption
<1>12. OpenExisting(file, size64) = DeviceOf(size)
  BY <1>6, <1>7, <1>9, <1>11 DEF OpenExisting
<1> QED
  BY <1>4, <1>5, <1>6, <1>10, <1>12

\* All sectors of a device that was made of a file of any length can be read, and the
\* file makes the same device again, with the bytes that it had; if open or ftruncate64
\* fails there is no device.
THEOREM FilesAlwaysReopen == Spec => []FilesReopen
<1>1. Returned => FilesReopen
  <2> SUFFICES ASSUME Returned, Called("file")
               PROVE  FilesReopen
    BY DEF FilesReopen
  <2>1. result = FileOf /\ input \in Inputs /\ input.fn = "file"
    BY DEF Returned, Called
  <2>2. /\ input.file \in Files /\ input.size \in Nat /\ input.size64 \in BOOLEAN
        /\ input.opens \in BOOLEAN /\ input.truncates \in BOOLEAN
        /\ input.size > Size32 => input.size64
    BY <2>1, ChecksAssumption DEF Inputs
  <2>3. PICK f, size, size64, made :
          /\ f = input.file /\ size = input.size /\ size64 = input.size64
          /\ made = Create(f, size, input.opens, input.truncates)
    OBVIOUS
  <2>4. /\ result.found = OpenExisting(f, size64) /\ result.made = made
        /\ result.again = OpenExisting(made.file, size64)
    BY <2>1, <2>3 DEF FileOf
  <2>5. Readable(result.found, f)
    <3>1. CASE f.exists /\ (Len(f.bytes) > Size32 => size64)
      <4>1. Len(f.bytes) \in Nat
        BY <2>2, <2>3, <3>1, ChecksAssumption DEF NoFile
      <4>2. result.found = DeviceOf(Len(f.bytes))
        BY <2>4, <3>1 DEF OpenExisting
      <4> QED
        BY <3>1, <4>1, <4>2, AllReadable
    <3>2. CASE ~(f.exists /\ (Len(f.bytes) > Size32 => size64))
      <4>1. result.found.sectorCount = 0
        BY <2>4, <3>2 DEF OpenExisting, NoDevice
      <4> QED
        BY <4>1, NoneReadable
    <3> QED
      BY <3>1, <3>2
  <2>6. CASE input.opens /\ input.truncates
    <3>1. PICK file :
            file = ftruncate(f, DeviceOf(size).sectorCount * sectorSize)
            /\ made = [file |-> file, device |-> DeviceOf(size)]
      BY <2>3, <2>6 DEF Create
    <3>2. /\ Readable(DeviceOf(size), file) /\ OpenExisting(file, size64) = DeviceOf(size)
          /\ \A k \in DOMAIN file.bytes :
               file.bytes[k] = IF k \in DOMAIN f.bytes THEN f.bytes[k] ELSE 0
      <4>1. size \in Nat /\ size64 \in BOOLEAN /\ (size > Size32 => size64)
        BY <2>2, <2>3
      <4>2. LET dev == DeviceOf(size)
                new == ftruncate(f, dev.sectorCount * sectorSize)
            IN /\ Readable(dev, new) /\ OpenExisting(new, size64) = dev
               /\ \A k \in DOMAIN new.bytes :
                    new.bytes[k] = IF k \in DOMAIN f.bytes THEN f.bytes[k] ELSE 0
        BY <4>1, MadeAgain
      <4> QED
        BY <3>1, <4>2
    <3>3. made.file = file /\ made.device = DeviceOf(size) /\ DeviceOf(size).open = TRUE
      BY <3>1 DEF DeviceOf
    <3> QED
      BY <2>3, <2>4, <2>5, <3>2, <3>3 DEF FilesReopen
  <2>7. CASE ~(input.opens /\ input.truncates)
    <3>1. made.device.open = FALSE /\ made.device.sectorCount = 0
      BY <2>3, <2>7 DEF Create, NoDevice, DeviceOf
    <3>2. Readable(made.device, made.file)
      BY <3>1, NoneReadable
    <3> QED
      BY <2>3, <2>4, <2>5, <3>1, <3>2 DEF FilesReopen
  <2> QED
    BY <2>6, <2>7
<1> QED
  BY <1>1, ReturnedHolds, PTL

=============================================================================
