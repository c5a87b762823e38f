------------------------------ MODULE KeyHash ------------------------------
(***************************************************************************)
(* The hashes of model/key-hash.cc: cyclic redundancy checks that look a   *)
(* byte at a time up in a table.  Words and bytes are the sets of the      *)
(* positions of their 1 bits.                                              *)
(***************************************************************************)
EXTENDS Integers, Sequences, FiniteSetsExt, Loops

CONSTANT Keys          \* the keys that are hashed: sequences of bytes

VARIABLE hash          \* the call of hash_crc32 that is running

Word32 == SUBSET (0 .. 31)
Word16 == SUBSET (0 .. 15)
Byte == SUBSET (0 .. 7)

ASSUME KeyHashAssumption == Keys \subseteq Seq(Byte)

Bits(value, width) == {b \in 0 .. width - 1 : (value \div 2^b) % 2 = 1}

\* A 32-bit constant, from its two halves.
Bits32(high, low) == Bits(low, 16) \cup {b + 16 : b \in Bits(high, 16)}

CRC32_ALG == {"CRC32", "CRC32_BZIP2", "CRC32C", "CRC32D", "CRC32_MPEG", "POSIX", "CRC32Q", "JAMCRC", "XFER"}

CRC32_POLY ==
  [alg \in CRC32_ALG |->
     CASE alg = "CRC32C" -> Bits32(7900, 28481)      \* 0x1EDC6F41
       [] alg = "CRC32D" -> Bits32(43827, 38955)     \* 0xAB33982B
       [] alg = "CRC32Q" -> Bits32(33089, 16811)     \* 0x814141AB
       [] alg = "XFER" -> Bits32(0, 171)             \* 0x000000AB
       [] OTHER -> Bits32(1217, 7607)]               \* 0x04C11DB7

CRC32_NOT_REV == {"CRC32", "CRC32C", "CRC32D", "JAMCRC"}
CRC32_INIT == [alg \in CRC32_ALG |-> IF alg \in {"CRC32_MPEG", "POSIX", "JAMCRC"} THEN 0 .. 31 ELSE {}]
CRC32_XOUT ==
  [alg \in CRC32_ALG |-> IF alg \in {"CRC32", "CRC32_BZIP2", "CRC32C", "CRC32D", "POSIX"} THEN 0 .. 31 ELSE {}]

Left(word, n, width) == {b + n : b \in {b \in word : b + n < width}}
Right(word, n) == {b - n : b \in {b \in word : b >= n}}

EightTimes(Step(_), word) == Step(Step(Step(Step(Step(Step(Step(Step(word))))))))

\* One step of init_crc_tables.
Divided(crc, alg) ==
  IF alg \in CRC32_NOT_REV
  THEN IF 0 \in crc THEN SymDiff(Right(crc, 1), CRC32_POLY[alg]) ELSE Right(crc, 1)
  ELSE IF 31 \in crc THEN SymDiff(Left(crc, 1, 32), CRC32_POLY[alg]) ELSE Left(crc, 1, 32)

\* The tables, filled by init_crc_tables.
CRC32_TABLE ==
  [alg \in CRC32_ALG |-> [i \in Byte |->
     EightTimes(LAMBDA crc : Divided(crc, alg), IF alg \in CRC32_NOT_REV THEN i ELSE Left(i, 24, 32))]]

\* Mutant: the table is indexed by the byte of the other end.
LookedUpFromBelow(crc, byte, alg) ==
  IF alg \in CRC32_NOT_REV
  THEN SymDiff(Right(crc, 8), CRC32_TABLE[alg][SymDiff(crc \cap 0 .. 7, byte)])
  ELSE SymDiff(Left(crc, 8, 32), CRC32_TABLE[alg][SymDiff(crc \cap 0 .. 7, byte)])

\* One step of the loop over the bytes.
LookedUp(crc, byte, alg) ==
  IF alg \in CRC32_NOT_REV
  THEN SymDiff(Right(crc, 8), CRC32_TABLE[alg][SymDiff(crc \cap 0 .. 7, byte)])
  ELSE SymDiff(Left(crc, 8, 32), CRC32_TABLE[alg][SymDiff(Right(crc, 24), byte)])

\* A call of hash_crc32.  Keys are not empty (310).
NoHash == [alg |-> "CRC32", buf |-> <<>>, i |-> 0, crc |-> {}]

HashInit ==
  \E algorithm \in CRC32_ALG, key \in Keys :
    hash = [alg |-> algorithm, buf |-> key, i |-> 0, crc |-> CRC32_INIT[algorithm]]

HashByte ==
  /\ hash.i < Len(hash.buf)
  /\ hash' = [hash EXCEPT !.i = @ + 1, !.crc = LookedUp(@, hash.buf[hash.i + 1], hash.alg)]

hash_crc32 == SymDiff(CRC32_XOUT[hash.alg], hash.crc)

HashSpec == HashInit /\ [][HashByte]_hash

-----------------------------------------------------------------------------
\* The 16-bit hashes.  The algorithms are their numbers in CRC16_ALG.

CRC16_ALG == 0 .. 18

CRC16_POLY ==
  [alg \in CRC16_ALG |->
     CASE alg = 3 -> Bits(1417, 16)                       \* 0x0589
       [] alg \in {4, 5} -> Bits(15717, 16)               \* 0x3D65
       [] alg = 10 -> Bits(35767, 16)                     \* 0x8BB7
       [] alg = 11 -> Bits(41111, 16)                     \* 0xA097
       [] alg \in {0, 1, 2, 7, 12, 15} -> Bits(32773, 16) \* 0x8005
       [] OTHER -> Bits(4129, 16)]                        \* 0x1021

CRC16_NOT_REV == {0, 4, 7, 8, 9, 12, 13, 15, 16}

CRC16_INIT ==
  [alg \in CRC16_ALG |->
     CASE alg = 2 -> Bits(32781, 16)                      \* 0x800D
       [] alg = 3 -> {0}
       [] alg = 9 -> Bits(21837, 16)                      \* 0x554D
       [] alg = 18 -> Bits(7439, 16)                      \* 0x1D0F
       [] alg \in {4, 5, 7, 8, 15, 17} -> 0 .. 15
       [] OTHER -> {}]

CRC16_XOUT ==
  [alg \in CRC16_ALG |->
     CASE alg = 3 -> {0}
       [] alg \in {4, 5, 6, 7, 12, 13} -> 0 .. 15
       [] OTHER -> {}]

\* One step for the tables.  Every step compares with the byte as it is at
\* first: only its lowest bit (or its highest) makes a difference.
Divided16(crc, i, alg) ==
  IF alg \in CRC16_NOT_REV
  THEN IF (0 \in crc) # (0 \in i) THEN SymDiff(Right(crc, 1), CRC16_POLY[alg]) ELSE Right(crc, 1)
  ELSE IF (15 \in crc) # (7 \in i) THEN SymDiff(Left(crc, 1, 16), CRC16_POLY[alg]) ELSE Left(crc, 1, 16)

CRC16_TABLE ==
  [alg \in CRC16_ALG |-> [i \in Byte |-> EightTimes(LAMBDA crc : Divided16(crc, i, alg), {})]]

\* What the array of the 32-bit algorithms, which hash_crc16 indexes by the
\* number of a 16-bit one, can say: past its end, anything.
ReadAsNotRev(alg) == IF alg \in 0 .. 8 THEN {alg \in {0, 2, 3, 7}} ELSE BOOLEAN

\* One step of the loop over the bytes.
LookedUp16(crc, byte, alg, notRev) ==
  IF notRev
  THEN SymDiff(Right(crc, 8), CRC16_TABLE[alg][SymDiff(crc \cap 0 .. 7, byte)])
  ELSE SymDiff(Left(crc, 8, 16), CRC16_TABLE[alg][SymDiff(Right(crc, 8), byte)])

\* The values the hash can have.
hash_crc16(buf, alg) ==
  {SymDiff(CRC16_XOUT[alg],
           Loop(Len(buf), [k \in 1 .. Len(buf) |-> [crc \in Word16 |-> LookedUp16(crc, buf[k], alg, notRev)]],
                CRC16_INIT[alg])) : notRev \in ReadAsNotRev(alg)}

-----------------------------------------------------------------------------
\* The 8-bit hashes, by their numbers in CRC8_ALG.

CRC8_ALG == 0 .. 6

CRC8_POLY ==
  [alg \in CRC8_ALG |->
     CASE alg = 1 -> {0, 3, 4, 5}             \* 0x39
       [] alg = 2 -> {0, 2, 3, 4}             \* 0x1D
       [] alg = 4 -> {0, 4, 5}                \* 0x31
       [] alg = 6 -> {0, 1, 3, 4, 7}          \* 0x9B
       [] OTHER -> {0, 1, 2}]                 \* 0x07

CRC8_NOT_REV == {1, 4, 5, 6}

CRC8_INIT ==
  [alg \in CRC8_ALG |->
     CASE alg = 2 -> {0, 2, 3, 4, 5, 6, 7}    \* 0xFD
       [] alg = 3 -> {0, 2, 4, 6}             \* 0x55
       [] alg = 5 -> 0 .. 7
       [] OTHER -> {}]

CRC8_XOUT == [alg \in CRC8_ALG |-> IF alg = 3 THEN {0, 2, 4, 6} ELSE {}]

\* One step for the tables, which go the other way than those of 32 bits.
Divided8(crc, alg) ==
  IF alg \in CRC8_NOT_REV
  THEN IF 7 \in crc THEN SymDiff(Left(crc, 1, 8), CRC8_POLY[alg]) ELSE Left(crc, 1, 8)
  ELSE IF 0 \in crc THEN SymDiff(Right(crc, 1), CRC8_POLY[alg]) ELSE Right(crc, 1)

CRC8_TABLE == [alg \in CRC8_ALG |-> [i \in Byte |-> EightTimes(LAMBDA crc : Divided8(crc, alg), i)]]

\* The values the hash can have.  The loop runs over as many bytes as the
\* number of the algorithm, past the end of a shorter key, and each step
\* forgets those before it.
hash_crc8(buf, alg) ==
  IF alg = 0 THEN {SymDiff(CRC8_XOUT[0], CRC8_INIT[0])}
  ELSE {SymDiff(CRC8_XOUT[alg], CRC8_TABLE[alg][SymDiff(Bits(alg, 8), byte)]) :
          byte \in IF alg <= Len(buf) THEN {buf[alg]} ELSE Byte}

key_compare(key1, key2, length) == \E i \in 1 .. length : key1[i] # key2[i]

-----------------------------------------------------------------------------
\* The definition of a check of 32 bits, which takes a bit at a time into
\* the end of the word that the division leaves by.

\* The k-th bit of the key to be taken.
KeyBit(buf, k, alg) ==
  LET byte == buf[(k - 1) \div 8 + 1]
      j    == (k - 1) % 8
  IN  (IF alg \in CRC32_NOT_REV THEN j ELSE 7 - j) \in byte

BitTaken(crc, bit, alg) ==
  LET last == (IF alg \in CRC32_NOT_REV THEN 0 ELSE 31)
      divided == (last \in crc) # bit
      moved == IF alg \in CRC32_NOT_REV THEN Right(crc, 1) ELSE Left(crc, 1, 32)
  IN  IF divided THEN SymDiff(moved, CRC32_POLY[alg]) ELSE moved

\* What is left of the division after each bit.
Remainders(buf, alg) ==
  Turns(8 * Len(buf),
        [k \in 1 .. 8 * Len(buf) |-> [crc \in Word32 |-> BitTaken(crc, KeyBit(buf, k, alg), alg)]],
        CRC32_INIT[alg])

(***************************************************************************)
(* For every algorithm of 32 bits and in both bit orders, looking bytes up *)
(* in the tables gives after every byte the remainder of the division of   *)
(* what has been read, a bit at a time, which is what defines the hash     *)
(* (key-hash.cc 315).  The hashes of 16 and 8 bits of the same key are not *)
(* such remainders, but stay within their words (333, 361).                *)
(***************************************************************************)
HashIsRemainder ==
  hash.buf # <<>> =>
    /\ hash_crc32 = SymDiff(CRC32_XOUT[hash.alg], Remainders(hash.buf, hash.alg)[8 * hash.i])
    /\ \A alg \in CRC16_ALG : hash_crc16(hash.buf, alg) \subseteq Word16
    /\ \A alg \in CRC8_ALG : hash_crc8(hash.buf, alg) \subseteq Byte
=============================================================================
