-------------------------------- MODULE Disk --------------------------------
(***************************************************************************)
(* The device as formatDisk and Scanner use it: whole sectors, each with   *)
(* one of the contents that the library gives them.  Reads see the last    *)
(* write, which reaches the medium at some moment before the next sync:    *)
(* this is what module Storage states and BlockDevice implements.  A       *)
(* sector is written as a whole.                                           *)
(***************************************************************************)
EXTENDS Integers, Sequences, Types

CONSTANTS
  driveSectors,      \* sectors of the device
  sectorSize,        \* bytes in a sector
  GPT_ITEMS,         \* entries in a GPT partition table
  entriesPerSector,  \* of which this many are in a sector
  Word32             \* 2^32

ASSUME DiskAssumption ==
  /\ driveSectors \in Nat \ {0, 1} /\ sectorSize \in Nat \ {0}
  /\ GPT_ITEMS \in Nat \ {0} /\ entriesPerSector \in Nat \ {0} /\ GPT_ITEMS % entriesPerSector = 0
  /\ Word32 \in Nat \ {0}

VARIABLES
  view,        \* what a read of each sector returns
  medium,      \* what each sector holds after a power loss
  partitions   \* Device::editablePartitions()

device == <<view, medium>>

Sector == 0 .. driveSectors - 1

(***************************************************************************)
(* Contents of a sector                                                    *)
(***************************************************************************)

Blank == [kind |-> "blank"]

\* The boot sector of a volume of n sectors: see module Volume.
Boot(systype, n) == [kind |-> "boot", systype |-> systype, sectors |-> n]

\* legacy_mbr_t.  A record is gpt_mbr_record_t without its CHS fields: see Geometry.
Mbr(records) == [kind |-> "mbr", records |-> records]
Record(type, start, size) == [os_type |-> type, starting_lba |-> start, size_in_lba |-> size]
NoRecord == Record("none", 0, 0)

\* gpt_header_t with a good header_crc32.  bcc stands for the checksum of the
\* entries, and is the entries themselves.
Header(my, alternate, entryLba, count, bcc) ==
  [kind |-> "header", my_lba |-> my, alternate_lba |-> alternate, partition_entry_lba |-> entryLba,
   num_partition_entries |-> count, partition_entry_array_crc32 |-> bcc]

\* entriesPerSector elements of type gpt_entry_t
Entries(e) == [kind |-> "entries", e |-> e]
NoEntry == [partition_type_guid |-> NoGuid, id |-> 0, starting_lba |-> 0, ending_lba |-> 0]

IsProtective(c) == c.kind = "mbr" /\ c.records[1].os_type = "gpt"

(***************************************************************************)
(* Operations of the device                                                *)
(***************************************************************************)

Write(s, c) == view' = [view EXCEPT ![s] = c] /\ UNCHANGED medium

\* A buffer is flushed to make room, or by a sync that fails later.
Flush ==
  /\ \E s \in Sector : medium[s] # view[s] /\ medium' = [medium EXCEPT ![s] = view[s]]
  /\ UNCHANGED <<view, partitions>>

Sync == medium' = view /\ UNCHANGED view

\* Power loss; the application opens the device again.
Reset == view' = medium /\ partitions' = {} /\ UNCHANGED medium
==============================================================================
