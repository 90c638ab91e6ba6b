------------------------------ MODULE Checksum ------------------------------
(***************************************************************************)
(* The CRC-32 of a GPT: its computation bit by bit, and the header that    *)
(* carries a checksum of itself.  A word is the set of its bits that are   *)
(* 1, bit 0 being the least significant, and a byte is a subset of 0 .. 7. *)
(***************************************************************************)
EXTENDS Integers, Sequences

CONSTANTS
  GPT_HEADER_SIZE,  \* bytes of a header without the rest of its sector, as a word
  Signature         \* the bytes of GPT_HEADER_SIGNATURE and GPT_HEADER_REVISION_V1

Word == 0 .. 31

ASSUME ChecksumAssumption ==
  GPT_HEADER_SIZE \subseteq 0 .. 15 /\ Signature \in Seq(SUBSET (0 .. 7))

xor(a, b) == (a \ b) \cup (b \ a)

\* a >> 1 and ~a
ShiftRight(a) == {b - 1 : b \in a \ {0}}
Complement(a) == Word \ a

\* 0xEDB88320
Polynomial == {5, 8, 9, 15, 19, 20, 21, 23, 24, 26, 27, 29, 30, 31}

crc32_bit(crc) == xor(ShiftRight(crc), IF 0 \in crc THEN Polynomial ELSE {})

\* Mutant of crc32_byte: the loop ends a bit too early.
crc32_byteShort(crc, d) ==
  LET after[i \in 0 .. 7] == IF i = 0 THEN xor(crc, d) ELSE crc32_bit(after[i - 1]) IN after[7]

crc32_byte(crc, d) ==
  LET after[i \in 0 .. 8] == IF i = 0 THEN xor(crc, d) ELSE crc32_bit(after[i - 1]) IN after[8]

crc32(bcc, data) ==
  LET step(k) == [crc \in SUBSET Word |-> crc32_byte(crc, data[k])]
      after[k \in 0 .. Len(data)] == IF k = 0 THEN Complement(bcc) ELSE step(k)[after[k - 1]]
  IN Complement(after[Len(data)])

(***************************************************************************)
(* A header in its buffer: signature and revision, the two words, the      *)
(* other fields, and the rest of the sector                                *)
(***************************************************************************)

\* The bytes of a word in memory, and for words below 2^16 its value.
Bytes(word) == [k \in 1 .. 4 |-> {b - 8 * (k - 1) : b \in word \cap (8 * (k - 1) .. 8 * k - 1)}]
Number(word) ==
  LET value[k \in 0 .. 16] ==
        IF k = 0 THEN 0 ELSE 2 * value[k - 1] + (IF 16 - k \in word THEN 1 ELSE 0)
  IN value[16]

\* a < b: the highest bit in which they differ is one of b.
Less(a, b) == \E i \in b \ a : \A j \in a \ b : j < i

HeaderBytes(h) == h.signature \o Bytes(h.header_size) \o Bytes(h.header_crc32) \o h.fields \o h.rest

\* crc32(&header, size)
SumOver(h, size) == crc32({}, SubSeq(HeaderBytes(h), 1, Number(size)))

\* formatDisk: the first header is sealed when its checksum is still 0, the second
\* one is made of it with other positions.  Behind them is what the buffer held before.
PrimaryHeader(fields, rest) ==
  LET h == [signature |-> Signature, header_size |-> GPT_HEADER_SIZE, header_crc32 |-> {},
            fields |-> fields, rest |-> rest]
  IN [h EXCEPT !.header_crc32 = SumOver(h, GPT_HEADER_SIZE)]

\* Mutant of BackupHeader: header_crc32 is not cleared.
BackupHeaderUncleared(h, fields) ==
  LET g == [h EXCEPT !.fields = fields]
  IN [g EXCEPT !.header_crc32 = SumOver(g, GPT_HEADER_SIZE)]

BackupHeader(h, fields) ==
  LET g == [h EXCEPT !.fields = fields, !.header_crc32 = {}]
  IN [g EXCEPT !.header_crc32 = SumOver(g, GPT_HEADER_SIZE)]

\* verifyGptHeader sums as many bytes as the header says it has.
HeaderChecksum(h) == SumOver([h EXCEPT !.header_crc32 = {}], h.header_size)
InBuffer(h) == h.header_size \subseteq 0 .. 15 /\ Number(h.header_size) <= Len(HeaderBytes(h))

\* What verifyGptHeader may return for the signature, the size and the checksum.  A size
\* that is larger than the buffer makes it read memory of which nothing is known.
Verdicts(h) ==
  IF h.signature # Signature \/ Less(h.header_size, GPT_HEADER_SIZE) THEN {FALSE}
  ELSE IF InBuffer(h) THEN {HeaderChecksum(h) = h.header_crc32} ELSE BOOLEAN

(***************************************************************************)
(* What a CRC is, apart from how it is computed                            *)
(***************************************************************************)

\* The polynomial by distance from its leading term, x^32 + x^26 + x^23 + ... + 1.
Generator == {0, 6, 9, 10, 16, 20, 21, 22, 24, 25, 27, 28, 30, 31, 32}

\* The bits of a text, by distance from the first one.
Message(data) == UNION {{8 * (k - 1) + b : b \in data[k]} : k \in DOMAIN data}

\* A step of the long division: the generator is subtracted if bit k is 1.
Divide(m, k) == IF k \in m THEN xor(m, {g + k : g \in Generator}) ELSE m

\* The remainder of a message, whose first bit is that of the highest power, divided
\* by the generator: the first 32 bits and the remainder are inverted.
Remainder(data) ==
  LET n == 8 * Len(data)
      after[k \in 0 .. n] == IF k = 0 THEN xor(Message(data), Word) ELSE Divide(after[k - 1], k - 1)
  IN Complement({b - n : b \in after[n]})

\* The checksum of the characters "abc" is known to be 0x352441C2; 92 is 0x5C.
ASSUME CheckValue ==
  /\ Number({2, 3, 4, 6}) = 92
  /\ Remainder(<<{0, 5, 6}, {1, 5, 6}, {0, 1, 5, 6}>>) = {1, 6, 7, 8, 14, 18, 21, 24, 26, 28, 29}
==============================================================================
