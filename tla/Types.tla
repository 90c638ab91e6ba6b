-------------------------------- MODULE Types --------------------------------
(***************************************************************************)
(* What a partition is for, in the four ways that the library has to say   *)
(* it: the type that Sming gives it, the volume that is in it, the GUID of *)
(* a GPT entry and the indicator of an MBR record.  A table's add          *)
(* functions turn the first two into the others, the scanner turns them    *)
(* back.                                                                   *)
(***************************************************************************)

\* Partition::FullType{}, which is false as a Boolean.  Data::fat and Data::any are
\* "fat" and "any"; any other string is another type that Sming has.
NoType == "none"

fatTypes == {"fat12", "fat16", "fat32", "exfat"}

\* Uuid: no GUID, one that SmingTypeGuid has built from a type, or another one.
NoGuid == [base |-> "none", type |-> NoType]
BasicDataGuid == [base |-> "basic", type |-> NoType]
SmingTypeGuid(type) == [base |-> "sming", type |-> type]

match(guid) == IF guid.base = "sming" THEN guid.type ELSE NoType

\* SI_IFS and SI_EXFAT are one number.
getSysTypeFromIndicator(si) ==
  CASE si = "FAT12" -> "fat12"
    [] si \in {"FAT16", "FAT16B"} -> "fat16"
    [] si = "FAT32X" -> "fat32"
    [] si = "IFS" -> "exfat"
    [] OTHER -> "unknown"

(***************************************************************************)
(* PartInfo; id stands for the name and the unique GUID                    *)
(***************************************************************************)

PartInfo(type, systype, guid, sysind, id, offset, size) ==
  [type |-> type, systype |-> systype, typeGuid |-> guid, sysind |-> sysind, id |-> id,
   offset |-> offset, size |-> size]

DataType(systype) == IF systype \in fatTypes THEN "fat" ELSE "any"

\* GPT::PartitionTable::add, for a volume type and for a Sming type
GptPartition(systype, id, offset, size) ==
  PartInfo(DataType(systype), systype, BasicDataGuid, "none", id, offset, size)
SmingPartition(type, id, offset, size) ==
  PartInfo(type, "unknown", IF type = "fat" THEN BasicDataGuid ELSE SmingTypeGuid(type), "none",
           id, offset, size)

\* MBR::PartitionTable::add
MbrPartition(systype, sysind, id, offset, size) ==
  PartInfo(DataType(systype), systype, NoGuid, sysind, id, offset, size)
==============================================================================
