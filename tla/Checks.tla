------------------------------- MODULE Checks -------------------------------
(***************************************************************************)
(* The functions of Checksum, Geometry, Volume and HostFile, each compared *)
(* with what it is meant to compute.  A behaviour is one call.             *)
(***************************************************************************)
EXTENDS Checksum, Geometry, Volume, HostFile

CONSTANTS
  Texts,        \* sequences of bytes
  HeaderFields, \* the fields of a header behind its checksum
  Remnants,     \* what a buffer may hold behind a header
  DriveSizes,   \* numbers of sectors of a device
  Sectors,      \* sectors of such a device
  Volumes,      \* volumes that a partition may have been formatted with
  Files,        \* files that may be there, or NoFile
  FileSizes     \* sizes of a device that is to be created

\* Volumes that tools make: sectors of 512 to 4096 bytes and 128 of them or more,
\* one or two tables, and a signature if it is FAT32.
ToolMade(v) ==
  /\ v.systype \in {"fat", "fat32", "exfat"}
  /\ v.bits \in 0 .. 15 /\ 2 ^ v.bits \in 512 .. 4096 /\ v.total \in Nat /\ v.total >= 128
  /\ v.systype # "exfat" =>
       /\ v.cluster \in Nat \ {0} /\ IsPowerOfTwo(v.cluster)
       /\ v.fats \in {1, 2} /\ v.length \in Nat \ {0}
  /\ v.systype = "fat32" => v.signature

ASSUME ChecksAssumption ==
  /\ Texts \subseteq Seq(SUBSET (0 .. 7))
  /\ HeaderFields \subseteq Seq(SUBSET (0 .. 7)) /\ Remnants \subseteq Seq(SUBSET (0 .. 7))
  /\ \A t \in HeaderFields : Len(Signature) + 8 + Len(t) = Number(GPT_HEADER_SIZE)
  /\ DriveSizes \subseteq Nat /\ Sectors \subseteq Nat /\ FileSizes \subseteq Nat
  /\ \A v \in Volumes : ToolMade(v)
  /\ \A f \in Files : f = NoFile \/ (f.exists /\ DOMAIN f.bytes = 1 .. Len(f.bytes) /\ Len(f.bytes) \in Nat)

VARIABLES
  input,   \* the function and its arguments
  output   \* its result, as a sequence that is empty before the call

vars == <<input, output>>

Inputs ==
  [fn : {"crc"}, first : Texts, second : Texts]
    \cup [fn : {"header"}, fields : HeaderFields, other : HeaderFields, rest : Remnants]
    \cup {c \in [fn : {"chs"}, drive : DriveSizes, sect : Sectors] : c.sect < c.drive}
    \cup [fn : {"volume"}, volume : Volumes]
    \cup [fn : {"other"}, jmp_boot : BOOLEAN]
    \cup {c \in [fn : {"file"}, file : Files, size : FileSizes, size64 : BOOLEAN, opens : BOOLEAN,
                 truncates : BOOLEAN] : c.size > Size32 => c.size64}

Init == input \in Inputs /\ output = <<>>

Return(value) == output = <<>> /\ output' = <<value>> /\ UNCHANGED input

\* The entries of a GPT are not contiguous in memory: formatDisk continues the
\* checksum from one to the next.
CallChecksum ==
  input.fn = "crc" /\ Return([bcc |-> crc32(crc32({}, input.first), input.second)])

CallHeaders ==
  /\ input.fn = "header"
  /\ LET primary == PrimaryHeader(input.fields, input.rest)
     IN Return([primary |-> primary, backup |-> BackupHeader(primary, input.other)])

CallGeometry ==
  /\ input.fn = "chs"
  /\ LET heads == numHeads(input.drive)
     IN Return([heads |-> heads, chs |-> calc_CHS(input.sect, heads)])

CallIdentify ==
  \/ /\ input.fn = "volume"
     /\ Return(identify(IF input.volume.systype = "exfat" THEN ExfatBoot(input.volume)
                                                          ELSE FatBoot(input.volume)))
  \/ input.fn = "other" /\ Return(identify(OtherSector(input.jmp_boot)))

\* An application opens the file that it finds, or creates a device and opens its
\* file again later.
CallConstructors ==
  /\ input.fn = "file"
  /\ LET made == Create(input.file, input.size, input.opens, input.truncates)
     IN Return([found |-> OpenExisting(input.file, input.size64), made |-> made,
                again |-> OpenExisting(made.file, input.size64)])

Next == CallChecksum \/ CallHeaders \/ CallGeometry \/ CallIdentify \/ CallConstructors

Spec == Init /\ [][Next]_vars

Called(fn) == output # <<>> /\ input.fn = fn
result == output[1]

(***************************************************************************)
(* Properties                                                              *)
(***************************************************************************)

\* The checksum of a table that was computed entry by entry is the CRC-32 of the
\* whole table, defined by polynomial division.
ChecksumIsCrc32 == Called("crc") => result.bcc = Remainder(input.first \o input.second)

\* h with one bit of its sector changed.
Changed(h) ==
  {[h EXCEPT !.signature[k] = xor(@, {b})] : k \in DOMAIN h.signature, b \in 0 .. 7}
    \cup {[h EXCEPT !.header_size = xor(@, {b})] : b \in Word}
    \cup {[h EXCEPT !.header_crc32 = xor(@, {b})] : b \in Word}
    \cup {[h EXCEPT !.fields[k] = xor(@, {b})] : k \in DOMAIN h.fields, b \in 0 .. 7}
    \cup {[h EXCEPT !.rest[k] = xor(@, {b})] : k \in DOMAIN h.rest, b \in 0 .. 7}

\* The scanner accepts both headers as formatDisk writes them, the second of which
\* is the first with changes, whatever the buffer held before.  When a bit has changed
\* it accepts neither, unless the bit is behind the header, where it does not matter,
\* or makes header_size larger: then the checksum is one of more bytes than were sealed.
HeadersVerified ==
  Called("header") => \A h \in {result.primary, result.backup} :
    /\ Verdicts(h) = {TRUE}
    /\ \A g \in Changed(h) :
         /\ g.rest # h.rest => Verdicts(g) = {TRUE}
         /\ TRUE \in Verdicts(g) => g.rest # h.rest \/ Less(h.header_size, g.header_size)

\* A reader finds the sector back from its cylinder, head and sector numbers if the
\* cylinder is one that a record can hold, which it is for all sectors of a device
\* that 255 heads can address, except for a last cylinder too many.
GeometryInverts ==
  Called("chs") =>
    LET cyl == input.sect \div (result.heads * N_SEC_TRACK) IN
    /\ result.heads \in 1 .. 255
    /\ cyl <= 1023 => SectorOf(result.chs, result.heads) = input.sect
    /\ FewEnough(input.drive, 255) => cyl <= 1024

\* Sectors that clusters are made of.
Clusters(v) == (v.total - 1 - v.fats * v.length - ((16 * 32 + 2 ^ v.bits - 1) \div 2 ^ v.bits)) \div v.cluster

\* Every volume that a tool has made, of 128 sectors or more and below 4 GiB, is found
\* with its size and its kind; volumes with few clusters may pass for FAT16, never the
\* other way round.  Boot code is no volume.
VolumesFound ==
  /\ Called("volume") /\ (input.volume.systype = "exfat" \/ input.volume.total * 2 ^ input.volume.bits < Word32) =>
       LET v == input.volume IN
       /\ result.size = v.total * 2 ^ v.bits
       /\ v.systype \in {"exfat", "fat32"} => result.systype = v.systype
       /\ v.systype = "fat" => result.systype \in {"fat12", "fat16"}
       /\ result.systype = "fat12" => Clusters(v) <= MAX_FAT12
  /\ Called("other") => result = NoVolume

Readable(dev, f) == \A s \in 0 .. dev.sectorCount - 1 : raw_sector_read(f, s, 1)

\* All sectors of a device can be read from its file, whatever length the file had;
\* a device is found again with its size and with what the file held before; and a
\* device that could not be made has no sectors.
FilesReopen ==
  Called("file") =>
    LET dev == result.made.device
        bytes == result.made.file.bytes
    IN /\ Readable(result.found, input.file)
       /\ Readable(dev, result.made.file)
       /\ dev.open =>
            /\ result.again = dev
            /\ \A k \in DOMAIN bytes :
                 bytes[k] = IF k \in DOMAIN input.file.bytes THEN input.file.bytes[k] ELSE 0
       /\ ~dev.open => dev.sectorCount = 0
==============================================================================
