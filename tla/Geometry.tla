------------------------------ MODULE Geometry ------------------------------
(***************************************************************************)
(* The cylinder, head and sector numbers that formatDisk writes to an MBR. *)
(***************************************************************************)
EXTENDS Integers

N_SEC_TRACK == 63

\* numHeads, which is a uint8_t: the loop ends when the cylinders are few enough or
\* when doubling 128 gives 0.
FewEnough(numDeviceSectors, heads) == numDeviceSectors \div (heads * N_SEC_TRACK) <= 1024

numHeads(numDeviceSectors) ==
  LET enough == {h \in {8, 16, 32, 64, 128} : FewEnough(numDeviceSectors, h)}
  IN IF enough = {} THEN 255 ELSE CHOOSE h \in enough : \A g \in enough : h <= g

\* Mutant of calc_CHS: the upper bits of the cylinder are dropped.
calc_CHSShort(sect, heads) ==
  LET tracks == sect \div N_SEC_TRACK
      cyl == tracks \div heads
  IN [head |-> (tracks % heads) % 256, sector |-> 1 + (sect % N_SEC_TRACK), track |-> cyl % 256]

\* Bits 8 and 9 of the cylinder are bits 6 and 7 of the sector, which is below 64.
calc_CHS(sect, heads) ==
  LET tracks == sect \div N_SEC_TRACK
      cyl == tracks \div heads
  IN [head |-> (tracks % heads) % 256,
      sector |-> 1 + (sect % N_SEC_TRACK) + 64 * ((cyl \div 256) % 4),
      track |-> cyl % 256]

(***************************************************************************)
(* How a reader of the table understands them                              *)
(***************************************************************************)

Cylinder(chs) == chs.track + 256 * (chs.sector \div 64)
SectorOf(chs, heads) ==
  (Cylinder(chs) * heads + chs.head) * N_SEC_TRACK + (chs.sector % 64) - 1
==============================================================================
