---------------------------- MODULE MCBlockDevice ----------------------------
(***************************************************************************)
(* Instances of BlockDevice for TLC.  Two values of a byte tell a written  *)
(* byte from an erased one; SectorModulus stands for 2^32.                 *)
(***************************************************************************)
EXTENDS BlockDevice

MCByte == {0, 1}

\* Without buffers, or with one that all sectors share.
MCNoneOne == {0, 1}

\* Sectors 0 and 2 share a buffer, sector 1 has its own.
MCTwo == {2}
==============================================================================
