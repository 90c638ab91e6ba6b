------------------------------- MODULE Volume -------------------------------
(***************************************************************************)
(* identify: which first sectors of a partition are boot sectors of a FAT  *)
(* or exFAT volume, and what they say about it.                            *)
(***************************************************************************)
EXTENDS Integers

CONSTANT Word32  \* 2^32

ASSUME VolumeAssumption == Word32 \in Nat \ {0}

MAX_FAT12 == 4085

NoVolume == [systype |-> "none", size |-> 0]

(***************************************************************************)
(* A sector, read as fat_boot_sector_t and as exFAT's boot_sector_t:       *)
(* jmp_boot tells whether there is a jump, signature whether there is      *)
(* MSDOS_MBR_SIGNATURE.                                                    *)
(***************************************************************************)

\* What is no boot sector, with a jump if it is the boot code of an MBR.
OtherSector(jmp) ==
  [jmp_boot |-> jmp, signature |-> TRUE, fs_type |-> "other", sector_size |-> 0, sec_per_clus |-> 0,
   reserved |-> 0, num_fats |-> 0, dir_entries |-> 0, sectors |-> 0, total_sect |-> 0, fat_length |-> 0,
   vol_length |-> 0, sect_size_bits |-> 0]

\* The boot sector of volume v, which has 2^bits bytes in a sector.  FAT32 has
\* neither root directory entries nor a 16-bit length of its tables.
FatBoot(v) ==
  LET fat32 == v.systype = "fat32" IN
  [OtherSector(TRUE) EXCEPT
     !.signature = v.signature, !.fs_type = IF fat32 THEN "FAT32" ELSE "other",
     !.sector_size = 2 ^ v.bits, !.sec_per_clus = v.cluster, !.reserved = 1, !.num_fats = v.fats,
     !.dir_entries = IF fat32 THEN 0 ELSE 16, !.fat_length = IF fat32 THEN 0 ELSE v.length,
     !.sectors = IF v.total < 65536 /\ ~fat32 THEN v.total ELSE 0,
     !.total_sect = IF v.total < 65536 /\ ~fat32 THEN 0 ELSE v.total]

ExfatBoot(v) ==
  [OtherSector(TRUE) EXCEPT !.fs_type = "EXFAT", !.vol_length = v.total, !.sect_size_bits = v.bits]

(***************************************************************************)
(* identify                                                                *)
(***************************************************************************)

\* Mutant of VolumeSize: the 16-bit number of sectors is used for every volume.
VolumeSizeShort(b) == (b.sectors * b.sector_size) % Word32

\* (fat.sectors ?: fat.total_sect) * fat.sector_size, a product of 32 bits
VolumeSize(b) == ((IF b.sectors # 0 THEN b.sectors ELSE b.total_sect) * b.sector_size) % Word32

IsPowerOfTwo(n) == \E e \in 0 .. 15 : n = 2 ^ e

\* The checks for volumes without a signature.  num_fats - 1 <= 1 compares signed
\* numbers.
ProperFat(b) ==
  /\ IsPowerOfTwo(b.sector_size) /\ b.sector_size \in 512 .. 4096
  /\ IsPowerOfTwo(b.sec_per_clus)
  /\ b.reserved # 0 /\ b.num_fats - 1 <= 1 /\ b.dir_entries # 0
  /\ b.sectors >= 128 \/ b.total_sect >= 65536
  /\ b.fat_length # 0

\* All sectors of the volume count, not only those that clusters are made of.
numClusters(b) == VolumeSize(b) \div (b.sector_size * b.sec_per_clus)

identify(b) ==
  IF b.signature /\ b.fs_type = "EXFAT"
    THEN [systype |-> "exfat", size |-> b.vol_length * 2 ^ b.sect_size_bits]
  ELSE IF b.jmp_boot /\ b.signature /\ b.fs_type = "FAT32"
    THEN [systype |-> "fat32", size |-> VolumeSize(b)]
  ELSE IF b.jmp_boot /\ ProperFat(b)
    THEN [systype |-> IF numClusters(b) <= MAX_FAT12 THEN "fat12" ELSE "fat16", size |-> VolumeSize(b)]
  ELSE NoVolume
==============================================================================
