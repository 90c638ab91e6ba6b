------------------------------ MODULE MCLayout ------------------------------
(***************************************************************************)
(* Instances of Layout for TLC, with an alignment of 4 blocks of 64 bytes  *)
(* and a GPT of 2 sectors.  2^16 stands for 2^32 and 2^24 for 2^64.        *)
(***************************************************************************)
EXTENDS Layout

Device(scheme, sectors, range) == [scheme |-> scheme, sectors |-> sectors, range |-> range]

\* The larger device has room for partitions whose sizes are given in bytes.
MCDevices == {Device("mbr", 804, Word32), Device("gpt", 37, Word)}
MCOffsets == {0, 256, 320, 512, 1024, 1792}
MCSizes == {0, 10, 40, 60, 100, 192, 256, 384}

\* A device that ends within the last alignment unit of a 32-bit offset.
MCLargest == {Device("mbr", 1023, Word32)}
MCLargestOffsets == {0, 65280}

\* Devices of about an alignment unit.
MCSmallest == {Device("mbr", n, w) : n \in {3, 4, 5}, w \in {Word, Word32}}

MCPlainSizes == {10, 100, 192}
==============================================================================
