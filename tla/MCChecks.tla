------------------------------ MODULE MCChecks ------------------------------
(***************************************************************************)
(* Arguments for the functions in Checks: short texts, devices and sectors *)
(* on both sides of the limits of the geometry, and volumes on both sides  *)
(* of those between FAT12 and FAT16 and between the two sector counts.     *)
(* 2^28 stands for 2^32 in the sizes of FAT volumes.                       *)
(***************************************************************************)
EXTENDS Checks

MCTexts == {<<{}>>, <<{0, 7}>>, <<{0, 7}, {1, 3, 4}>>, <<{2}, 0 .. 7>>}

\* A header of ten bytes.  With one of its clear bits set, its size is within the six
\* bytes behind it or not.
MCHeaderSize == {1, 3}
MCSignature == <<{0, 2}>>
MCHeaderFields == {<<{}>>, <<{0, 7}>>, <<{3}>>, <<0 .. 7>>}
MCRemnants == {<<>>, <<{}>>, <<{1}, {}, {0, 7}, {}, 0 .. 7, {}>>}

Limit(heads) == 1024 * heads * N_SEC_TRACK
MCDriveSizes ==
  UNION {{Limit(h) - 1, Limit(h), Limit(h) + h * N_SEC_TRACK - 1, Limit(h) + h * N_SEC_TRACK} :
           h \in {8, 16, 128, 255}} \cup {3000, 2 * Limit(255)}
MCSectors ==
  UNION {{Limit(h) - 1, Limit(h), Limit(h) \div 4, Limit(h) \div 2 + 5} : h \in {8, 16, 128, 255}}
    \cup {0, 62, 63, 2048}

MCVolumes ==
  [systype : {"fat"}, signature : BOOLEAN, bits : {9, 12}, cluster : {1, 8}, fats : {1, 2}, length : {12, 128},
   total : {300, 4085, 4086, 4500, 32687, 32688, 65535, 65536, 70000, 262144}]
    \cup [systype : {"fat32"}, signature : {TRUE}, bits : {9}, cluster : {8}, fats : {2}, length : {600},
          total : {65525, 65536, 524287}]
    \cup [systype : {"exfat"}, bits : {9, 12}, total : {2048, 262144}]

\* Files of 0 to 7 bytes for sectors of 2, and the largest 32-bit size between them.
MCFiles == {NoFile} \cup {File([k \in 1 .. n |-> k]) : n \in 0 .. 7}
MCFileSizes == 0 .. 7
==============================================================================
