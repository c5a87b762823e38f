-------------------------- MODULE PacketDataProofs --------------------------
(***************************************************************************)
(* What the functions over the data of packets compute, for every input:   *)
(* HashIsRemainder of KeyHash, for every key, and AddressSurvives and      *)
(* KeyKeepsPrefix of Conversions, for every number, width and address.     *)
(*                                                                         *)
(* Hashes.  What hash_crc32 looks up in its tables, a byte at a time, is   *)
(* the remainder of the division that defines the check, a bit at a time.  *)
(* While one byte is taken, the word of the division is the sum of three   *)
(* parts: what the table's own division has made so far of the bits that   *)
(* index the table, the other bits of the word, and those of the byte that *)
(* are not taken yet, both moved as far as the division has gone.  After   *)
(* eight bits the first part is the table's entry, the second the word     *)
(* moved by a byte, and the third is empty.                                *)
(*                                                                         *)
(* Texts.  A loop that writes a number down leaves a quotient after each   *)
(* turn, and its digits are the remainders of those quotients: the number  *)
(* of turns that leaves nothing bounds the digits, a quotient by 256 is    *)
(* every second one by 16, and a loop that takes the digits in again goes  *)
(* through the same quotients backwards.  So the texts are read back as    *)
(* the number, two digits of the hexadecimal text are a byte, and what is  *)
(* read of the first bits of that text is the number without its last bits.*)
(***************************************************************************)
EXTENDS KeyHash, Conversions, LoopTheorems, SequenceTheorems

-----------------------------------------------------------------------------
(* Words.                                                                  *)

LEMMA InSymDiff ==
  ASSUME NEW A, NEW B, NEW x
  PROVE  x \in SymDiff(A, B) <=> ~(x \in A <=> x \in B)
  BY DEF SymDiff

LEMMA InRight ==
  ASSUME NEW w, w \subseteq Nat, NEW n \in Nat, NEW x
  PROVE  x \in Right(w, n) <=> x \in Nat /\ x + n \in w
  <1>1. ASSUME x \in Right(w, n)
        PROVE  x \in Nat /\ x + n \in w
    <2>1. PICK b \in w : b >= n /\ x = b - n
      BY <1>1 DEF Right
    <2> QED
      BY <2>1
  <1>2. ASSUME x \in Nat, x + n \in w
        PROVE  x \in Right(w, n)
    <2>1. x + n >= n /\ x = (x + n) - n
      BY <1>2
    <2> QED
      BY <1>2, <2>1 DEF Right
  <1> QED
    BY <1>1, <1>2

LEMMA InLeft ==
  ASSUME NEW w, w \subseteq Nat, NEW n \in Nat, NEW width \in Nat, NEW x
  PROVE  x \in Left(w, n, width) <=> x \in Nat /\ x < width /\ x - n \in w
  <1>1. ASSUME x \in Left(w, n, width)
        PROVE  x \in Nat /\ x < width /\ x - n \in w
    <2>1. PICK b \in w : b + n < width /\ x = b + n
      BY <1>1 DEF Left
    <2> QED
      BY <2>1
  <1>2. ASSUME x \in Nat, x < width, x - n \in w
        PROVE  x \in Left(w, n, width)
    <2>1. (x - n) + n < width /\ x = (x - n) + n
      BY <1>2
    <2> QED
      BY <1>2, <2>1 DEF Left
  <1> QED
    BY <1>1, <1>2

LEMMA SymDiffWord ==
  ASSUME NEW W, NEW A \in SUBSET W, NEW B \in SUBSET W
  PROVE  SymDiff(A, B) \in SUBSET W
  BY DEF SymDiff

LEMMA SymDiffWord32 ==
  ASSUME NEW A \in Word32, NEW B \in Word32
  PROVE  SymDiff(A, B) \in Word32
  BY SymDiffWord DEF Word32

LEMMA WordIsOfNat ==
  \A w : w \in Word32 \/ w \in Byte \/ w \in SUBSET (8 .. 31) => w \subseteq Nat
  BY DEF Word32, Byte

LEMMA RightWord ==
  ASSUME NEW m \in Nat, NEW w \in SUBSET (0 .. m), NEW n \in Nat
  PROVE  Right(w, n) \in SUBSET (0 .. m)
  BY DEF Right

LEMMA LeftWord ==
  ASSUME NEW m \in Nat, NEW w \in SUBSET (0 .. m), NEW n \in Nat
  PROVE  Left(w, n, m + 1) \in SUBSET (0 .. m)
  BY DEF Left

LEMMA BitsWord ==
  ASSUME NEW value, NEW width
  PROVE  Bits(value, width) \in SUBSET (0 .. width - 1)
  BY DEF Bits

\* The polynomials are words.
LEMMA PolyWord == \A alg \in CRC32_ALG : CRC32_POLY[alg] \in Word32 /\ CRC32_INIT[alg] \in Word32
  <1>1. \A high, low : Bits32(high, low) \in Word32
    BY BitsWord DEF Bits32, Word32
  <1>2. \A alg \in CRC32_ALG : CRC32_POLY[alg] \in Word32
    <2> TAKE alg \in CRC32_ALG
    <2>1. \E high, low : CRC32_POLY[alg] = Bits32(high, low)
      BY DEF CRC32_POLY
    <2> QED
      BY <1>1, <2>1
  <1>3. \A alg \in CRC32_ALG : CRC32_INIT[alg] \in Word32
    BY DEF CRC32_INIT, Word32
  <1> QED
    BY <1>2, <1>3

LEMMA DividedWord ==
  ASSUME NEW alg \in CRC32_ALG, NEW crc \in Word32
  PROVE  Divided(crc, alg) \in Word32
  <1>1. Right(crc, 1) \in Word32 /\ Left(crc, 1, 32) \in Word32
    BY RightWord, LeftWord, 31 + 1 = 32 DEF Word32
  <1>2. CRC32_POLY[alg] \in Word32
    BY PolyWord
  <1> QED
    BY <1>1, <1>2, SymDiffWord32 DEF Divided

\* Taking a bit divides a word to which the bit has been added.
LEMMA BitTakenWord ==
  ASSUME NEW alg \in CRC32_ALG, NEW crc \in Word32, NEW bit
  PROVE  BitTaken(crc, bit, alg) \in Word32
  <1>1. Right(crc, 1) \in Word32 /\ Left(crc, 1, 32) \in Word32
    BY RightWord, LeftWord, 31 + 1 = 32 DEF Word32
  <1>2. CRC32_POLY[alg] \in Word32
    BY PolyWord
  <1>3. /\ SymDiff(Right(crc, 1), CRC32_POLY[alg]) \in Word32
        /\ SymDiff(Left(crc, 1, 32), CRC32_POLY[alg]) \in Word32
    BY <1>1, <1>2, SymDiffWord32
  <1> QED
    BY <1>1, <1>3, Zenon DEF BitTaken

-----------------------------------------------------------------------------
(* One bit, in the order that takes the lowest bit first.                  *)

\* The word of the division after j bits of byte b: t is what is made of the
\* table's index, h what is above the index.
MixedRight(t, h, b, j) == SymDiff(t, SymDiff(Right(h, j), Right(b, j)))

LEMMA InMixedRight ==
  ASSUME NEW t \in Word32, NEW h \in SUBSET (8 .. 31), NEW b \in Byte, NEW j \in Nat, NEW x \in Nat
  PROVE  x \in MixedRight(t, h, b, j) <=> ~(x \in t <=> ~(x + j \in h <=> x + j \in b))
  <1>1. x \in Right(h, j) <=> x + j \in h
    BY WordIsOfNat, InRight
  <1>2. x \in Right(b, j) <=> x + j \in b
    BY WordIsOfNat, InRight
  <1> QED
    BY <1>1, <1>2, InSymDiff DEF MixedRight

LEMMA MixedRightWord ==
  ASSUME NEW t \in Word32, NEW h \in SUBSET (8 .. 31), NEW b \in Byte, NEW j \in Nat
  PROVE  MixedRight(t, h, b, j) \in Word32
  <1>1. h \in SUBSET (0 .. 31) /\ b \in SUBSET (0 .. 31)
    BY DEF Byte
  <1>2. Right(h, j) \in SUBSET (0 .. 31) /\ Right(b, j) \in SUBSET (0 .. 31)
    BY <1>1, RightWord
  <1> QED
    BY <1>2, SymDiffWord32 DEF MixedRight, Word32

LEMMA BitTakenRight ==
  ASSUME NEW alg \in CRC32_NOT_REV, NEW t \in Word32, NEW h \in SUBSET (8 .. 31), NEW b \in Byte,
         NEW j \in 0 .. 7
  PROVE  BitTaken(MixedRight(t, h, b, j), j \in b, alg) = MixedRight(Divided(t, alg), h, b, j + 1)
  <1> DEFINE r == MixedRight(t, h, b, j)
             P == CRC32_POLY[alg]
             left == BitTaken(r, j \in b, alg)
             right == MixedRight(Divided(t, alg), h, b, j + 1)
  <1>0. alg \in CRC32_ALG
    BY DEF CRC32_NOT_REV, CRC32_ALG
  <1>1. r \in Word32
    BY MixedRightWord
  <1>2. 0 \in r <=> ~(0 \in t <=> j \in b)
    <2>1. 0 + j = j /\ j \notin h
      OBVIOUS
    <2> QED
      BY <2>1, InMixedRight
  <1>3. left \in Word32 /\ right \in Word32
    <2>1. left \in Word32
      BY <1>0, <1>1, BitTakenWord, Zenon
    <2>2. Divided(t, alg) \in Word32 /\ j + 1 \in Nat
      BY <1>0, DividedWord
    <2> QED
      BY <2>1, <2>2, MixedRightWord
  <1>4. ASSUME NEW x \in Nat
        PROVE  x \in left <=> x \in right
    <2>1. x \in left <=> ~(x + 1 \in r <=> 0 \in t /\ x \in P)
      <3>1. x \in Right(r, 1) <=> x + 1 \in r
        BY <1>1, WordIsOfNat, InRight
      <3>2. CASE 0 \in t
        <4>1. left = SymDiff(Right(r, 1), P)
          BY <1>2, <3>2 DEF BitTaken
        <4> QED
          BY <3>1, <3>2, <4>1, InSymDiff
      <3>3. CASE 0 \notin t
        <4>1. left = Right(r, 1)
          BY <1>2, <3>3 DEF BitTaken
        <4> QED
          BY <3>1, <3>3, <4>1
      <3> QED
        BY <3>2, <3>3
    <2>2. x \in Divided(t, alg) <=> ~(x + 1 \in t <=> 0 \in t /\ x \in P)
      <3>1. x \in Right(t, 1) <=> x + 1 \in t
        BY WordIsOfNat, InRight
      <3>2. Divided(t, alg) = IF 0 \in t THEN SymDiff(Right(t, 1), P) ELSE Right(t, 1)
        BY DEF Divided
      <3> QED
        BY <3>1, <3>2, InSymDiff
    <2>3. x + 1 \in r <=> ~(x + 1 \in t <=> ~((x + 1) + j \in h <=> (x + 1) + j \in b))
      BY InMixedRight
    <2>4. x \in right <=> ~(x \in Divided(t, alg) <=> ~(x + (j + 1) \in h <=> x + (j + 1) \in b))
      BY <1>0, DividedWord, InMixedRight
    <2>5. x + (j + 1) = (x + 1) + j
      OBVIOUS
    <2> QED
      BY <2>1, <2>2, <2>3, <2>4, <2>5
  <1> QED
    BY <1>3, <1>4 DEF Word32

-----------------------------------------------------------------------------
(* One bit, in the order that takes the highest bit first.                 *)

MixedLeft(t, h, b, j) == SymDiff(t, SymDiff(Left(h, j, 32), Left(Left(b, 24, 32), j, 32)))

LEMMA InMixedLeft ==
  ASSUME NEW t \in Word32, NEW h \in SUBSET (0 .. 23), NEW b \in Byte, NEW j \in Nat, NEW x \in 0 .. 31
  PROVE  x \in MixedLeft(t, h, b, j) <=> ~(x \in t <=> ~(x - j \in h <=> x - j - 24 \in b))
  <1>0. h \subseteq Nat /\ b \subseteq Nat
    BY WordIsOfNat
  <1>1. x \in Left(h, j, 32) <=> x - j \in h
    <2>1. x \in Left(h, j, 32) <=> x \in Nat /\ x < 32 /\ x - j \in h
      BY <1>0, InLeft
    <2> QED
      BY <2>1
  <1>2. Left(b, 24, 32) \subseteq Nat
    BY <1>0 DEF Left
  <1>3. x \in Left(Left(b, 24, 32), j, 32) <=> x - j \in Left(b, 24, 32)
    BY <1>2, InLeft
  <1>4. x - j \in Left(b, 24, 32) <=> x - j - 24 \in b
    <2>1. b \subseteq Nat
      BY WordIsOfNat
    <2>2. x - j \in Left(b, 24, 32) <=> x - j \in Nat /\ x - j < 32 /\ x - j - 24 \in b
      BY <2>1, InLeft
    <2> QED
      BY <2>1, <2>2
  <1> QED
    BY <1>1, <1>3, <1>4, InSymDiff DEF MixedLeft

LEMMA MixedLeftWord ==
  ASSUME NEW t \in Word32, NEW h \in SUBSET (0 .. 23), NEW b \in Byte, NEW j \in Nat
  PROVE  MixedLeft(t, h, b, j) \in Word32
  <1>1. h \in SUBSET (0 .. 31) /\ b \in SUBSET (0 .. 31)
    BY DEF Byte
  <1>2. Left(b, 24, 32) \in SUBSET (0 .. 31)
    BY <1>1, LeftWord, 31 + 1 = 32
  <1>3. Left(h, j, 32) \in SUBSET (0 .. 31) /\ Left(Left(b, 24, 32), j, 32) \in SUBSET (0 .. 31)
    BY <1>1, <1>2, LeftWord, 31 + 1 = 32
  <1> QED
    BY <1>3, SymDiffWord32 DEF MixedLeft, Word32

LEMMA BitTakenLeft ==
  ASSUME NEW alg \in CRC32_ALG \ CRC32_NOT_REV, NEW t \in Word32, NEW h \in SUBSET (0 .. 23), NEW b \in Byte,
         NEW j \in 0 .. 7
  PROVE  BitTaken(MixedLeft(t, h, b, j), 7 - j \in b, alg) = MixedLeft(Divided(t, alg), h, b, j + 1)
  <1> DEFINE r == MixedLeft(t, h, b, j)
             P == CRC32_POLY[alg]
             left == BitTaken(r, 7 - j \in b, alg)
             right == MixedLeft(Divided(t, alg), h, b, j + 1)
  <1>1. r \in Word32
    BY MixedLeftWord
  <1>2. 31 \in r <=> ~(31 \in t <=> 7 - j \in b)
    <2>1. 31 - j \notin h /\ 31 - j - 24 = 7 - j
      OBVIOUS
    <2> QED
      BY <2>1, InMixedLeft
  <1>3. left \in Word32 /\ right \in Word32
    <2>1. left \in Word32
      BY <1>1, BitTakenWord, Zenon
    <2>2. Divided(t, alg) \in Word32 /\ j + 1 \in Nat
      BY DividedWord
    <2> QED
      BY <2>1, <2>2, MixedLeftWord
  <1>4. ASSUME NEW x \in 0 .. 31
        PROVE  x \in left <=> x \in right
    <2>1. x \in left <=> ~(x - 1 \in r <=> 31 \in t /\ x \in P)
      <3>1. x \in Left(r, 1, 32) <=> x - 1 \in r
        BY <1>1, WordIsOfNat, InLeft
      <3>2. CASE 31 \in t
        <4>1. left = SymDiff(Left(r, 1, 32), P)
          BY <1>2, <3>2 DEF BitTaken
        <4> QED
          BY <3>1, <3>2, <4>1, InSymDiff
      <3>3. CASE 31 \notin t
        <4>1. left = Left(r, 1, 32)
          BY <1>2, <3>3 DEF BitTaken
        <4> QED
          BY <3>1, <3>3, <4>1
      <3> QED
        BY <3>2, <3>3
    <2>2. x \in Divided(t, alg) <=> ~(x - 1 \in t <=> 31 \in t /\ x \in P)
      <3>1. x \in Left(t, 1, 32) <=> x - 1 \in t
        BY WordIsOfNat, InLeft
      <3>2. Divided(t, alg) = IF 31 \in t THEN SymDiff(Left(t, 1, 32), P) ELSE Left(t, 1, 32)
        BY DEF Divided
      <3> QED
        BY <3>1, <3>2, InSymDiff
    <2>3. x - 1 \in r <=> ~(x - 1 \in t <=> ~((x - 1) - j \in h <=> (x - 1) - j - 24 \in b))
      <3>1. CASE x = 0
        <4>1. x - 1 \notin r /\ x - 1 \notin t
          BY <1>1, <3>1, WordIsOfNat
        <4>2. (x - 1) - j \notin h /\ (x - 1) - j - 24 \notin b
          BY <3>1 DEF Byte
        <4> QED
          BY <4>1, <4>2
      <3>2. CASE x # 0
        BY <3>2, InMixedLeft
      <3> QED
        BY <3>1, <3>2
    <2>4. x \in right <=> ~(x \in Divided(t, alg) <=> ~(x - (j + 1) \in h <=> x - (j + 1) - 24 \in b))
      BY DividedWord, InMixedLeft
    <2>5. x - (j + 1) = (x - 1) - j
      OBVIOUS
    <2> QED
      BY <2>1, <2>2, <2>3, <2>4, <2>5
  <1> QED
    BY <1>3, <1>4 DEF Word32

-----------------------------------------------------------------------------
(* One byte.                                                               *)

\* The index of a byte in the tables, and what is made of it at first.
Index(crc, byte, alg) ==
  SymDiff(IF alg \in CRC32_NOT_REV THEN crc \cap 0 .. 7 ELSE Right(crc, 24), byte)

First(crc, byte, alg) ==
  IF alg \in CRC32_NOT_REV THEN Index(crc, byte, alg) ELSE Left(Index(crc, byte, alg), 24, 32)

\* The bits of the word that do not index the table.
Rest(crc, alg) == IF alg \in CRC32_NOT_REV THEN crc \cap 8 .. 31 ELSE crc \cap 0 .. 23

Mixed(t, crc, byte, j, alg) ==
  IF alg \in CRC32_NOT_REV THEN MixedRight(t, Rest(crc, alg), byte, j) ELSE MixedLeft(t, Rest(crc, alg), byte, j)

\* The j-th bit of a byte, in the order of the algorithm.
BitOf(byte, j, alg) == (IF alg \in CRC32_NOT_REV THEN j ELSE 7 - j) \in byte

LEMMA IndexIsByte ==
  ASSUME NEW alg \in CRC32_ALG, NEW crc \in Word32, NEW byte \in Byte
  PROVE  Index(crc, byte, alg) \in Byte /\ First(crc, byte, alg) \in Word32
  <1>1. crc \cap 0 .. 7 \in SUBSET (0 .. 7) /\ Right(crc, 24) \in SUBSET (0 .. 7)
    BY DEF Right, Word32
  <1>2. Index(crc, byte, alg) \in Byte
    <2> DEFINE part == IF alg \in CRC32_NOT_REV THEN crc \cap 0 .. 7 ELSE Right(crc, 24)
    <2>1. part \in SUBSET (0 .. 7) /\ byte \in SUBSET (0 .. 7)
      BY <1>1 DEF Byte
    <2> HIDE DEF part
    <2>2. SymDiff(part, byte) \in SUBSET (0 .. 7)
      BY <2>1, SymDiffWord
    <2> QED
      BY <2>2 DEF Index, Byte, part
  <1>3. Index(crc, byte, alg) \in SUBSET (0 .. 31)
    BY <1>2 DEF Byte
  <1>4. Left(Index(crc, byte, alg), 24, 32) \in SUBSET (0 .. 31)
    BY <1>3, LeftWord, 31 + 1 = 32
  <1> QED
    BY <1>2, <1>3, <1>4 DEF First, Word32

\* Before the first bit nothing has been done to the word.
LEMMA MixedAtFirst ==
  ASSUME NEW alg \in CRC32_ALG, NEW crc \in Word32, NEW byte \in Byte
  PROVE  Mixed(First(crc, byte, alg), crc, byte, 0, alg) = crc
  <1> DEFINE t == First(crc, byte, alg)
             m == Mixed(t, crc, byte, 0, alg)
  <1>1. t \in Word32 /\ Index(crc, byte, alg) \in Byte
    BY IndexIsByte
  <1>2. CASE alg \in CRC32_NOT_REV
    <2> DEFINE h == crc \cap 8 .. 31
    <2>1. m = MixedRight(t, h, byte, 0) /\ t = SymDiff(crc \cap 0 .. 7, byte)
      BY <1>2 DEF Mixed, Rest, First, Index
    <2>2. h \in SUBSET (8 .. 31)
      OBVIOUS
    <2>3. m \in Word32
      BY <1>1, <2>1, <2>2, MixedRightWord
    <2>4. ASSUME NEW x \in 0 .. 31
          PROVE  x \in m <=> x \in crc
      <3>1. x \in m <=> ~(x \in t <=> ~(x \in h <=> x \in byte))
        <4>1. x + 0 = x /\ x \in Nat
          OBVIOUS
        <4>2. x \in m <=> ~(x \in t <=> ~(x + 0 \in h <=> x + 0 \in byte))
          BY <1>1, <2>1, <2>2, <4>1, InMixedRight
        <4> QED
          BY <4>1, <4>2
      <3>2. x \in t <=> ~(x \in crc \cap 0 .. 7 <=> x \in byte)
        BY <2>1, InSymDiff
      <3>3. x \in crc <=> ~(x \in crc \cap 0 .. 7 <=> x \in h)
        OBVIOUS
      <3> QED
        BY <3>1, <3>2, <3>3
    <2> QED
      BY <2>3, <2>4 DEF Word32
  <1>3. CASE alg \notin CRC32_NOT_REV
    <2> DEFINE h == crc \cap 0 .. 23
    <2>1. m = MixedLeft(t, h, byte, 0) /\ t = Left(SymDiff(Right(crc, 24), byte), 24, 32)
      BY <1>3 DEF Mixed, Rest, First, Index
    <2>2. h \in SUBSET (0 .. 23)
      OBVIOUS
    <2>3. m \in Word32
      BY <1>1, <2>1, <2>2, MixedLeftWord
    <2>4. ASSUME NEW x \in 0 .. 31
          PROVE  x \in m <=> x \in crc
      <3>1. x \in m <=> ~(x \in t <=> ~(x \in h <=> x - 24 \in byte))
        <4>1. x - 0 = x
          OBVIOUS
        <4>2. x \in m <=> ~(x \in t <=> ~(x - 0 \in h <=> x - 0 - 24 \in byte))
          BY <1>1, <2>1, <2>2, InMixedLeft
        <4> QED
          BY <4>1, <4>2
      <3>2. x \in t <=> x - 24 \in SymDiff(Right(crc, 24), byte)
        <4>1. SymDiff(Right(crc, 24), byte) \in Byte
          BY <1>1, <1>3 DEF Index
        <4> QED
          BY <2>1, <4>1, WordIsOfNat, InLeft
      <3>3. x - 24 \in SymDiff(Right(crc, 24), byte) <=> ~(x - 24 \in Right(crc, 24) <=> x - 24 \in byte)
        BY InSymDiff
      <3>4. x - 24 \in Right(crc, 24) <=> x - 24 \in Nat /\ x \in crc
        <4>1. x - 24 + 24 = x
          OBVIOUS
        <4>2. x - 24 \in Right(crc, 24) <=> x - 24 \in Nat /\ x - 24 + 24 \in crc
          BY WordIsOfNat, InRight
        <4> QED
          BY <4>1, <4>2
      <3>5. x \in crc <=> ~(x - 24 \in Nat /\ x \in crc <=> x \in h)
        OBVIOUS
      <3> QED
        BY <3>1, <3>2, <3>3, <3>4, <3>5
    <2> QED
      BY <2>3, <2>4 DEF Word32
  <1> QED
    BY <1>2, <1>3

\* After the last one the byte has left it.
LEMMA MixedAtLast ==
  ASSUME NEW alg \in CRC32_ALG, NEW crc \in Word32, NEW byte \in Byte, NEW t \in Word32
  PROVE  Mixed(t, crc, byte, 8, alg) =
           SymDiff(IF alg \in CRC32_NOT_REV THEN Right(crc, 8) ELSE Left(crc, 8, 32), t)
  <1>1. CASE alg \in CRC32_NOT_REV
    <2>1. Right(byte, 8) = {}
      BY DEF Right, Byte
    <2>2. Right(crc \cap 8 .. 31, 8) = Right(crc, 8)
      BY DEF Right, Word32
    <2>3. Mixed(t, crc, byte, 8, alg) = SymDiff(t, SymDiff(Right(crc, 8), {}))
      BY <1>1, <2>1, <2>2 DEF Mixed, MixedRight, Rest
    <2> QED
      BY <1>1, <2>3 DEF SymDiff
  <1>2. CASE alg \notin CRC32_NOT_REV
    <2>1. Left(Left(byte, 24, 32), 8, 32) = {}
      BY DEF Left, Byte
    <2>2. Left(crc \cap 0 .. 23, 8, 32) = Left(crc, 8, 32)
      BY DEF Left, Word32
    <2>3. Mixed(t, crc, byte, 8, alg) = SymDiff(t, SymDiff(Left(crc, 8, 32), {}))
      BY <1>2, <2>1, <2>2 DEF Mixed, MixedLeft, Rest
    <2> QED
      BY <1>2, <2>3 DEF SymDiff
  <1> QED
    BY <1>1, <1>2

\* Each bit is a step of the table's own division.
LEMMA BitIsStep ==
  ASSUME NEW alg \in CRC32_ALG, NEW crc \in Word32, NEW byte \in Byte, NEW t \in Word32, NEW j \in 0 .. 7
  PROVE  /\ BitTaken(Mixed(t, crc, byte, j, alg), BitOf(byte, j, alg), alg)
              = Mixed(Divided(t, alg), crc, byte, j + 1, alg)
         /\ Divided(t, alg) \in Word32
  <1>1. Divided(t, alg) \in Word32
    BY DividedWord
  <1>2. CASE alg \in CRC32_NOT_REV
    <2>1. Rest(crc, alg) \in SUBSET (8 .. 31)
      BY <1>2 DEF Rest
    <2>2. BitTaken(MixedRight(t, Rest(crc, alg), byte, j), j \in byte, alg)
            = MixedRight(Divided(t, alg), Rest(crc, alg), byte, j + 1)
      BY <1>2, <2>1, BitTakenRight
    <2> QED
      BY <1>1, <1>2, <2>2 DEF Mixed, BitOf
  <1>3. CASE alg \notin CRC32_NOT_REV
    <2>1. Rest(crc, alg) \in SUBSET (0 .. 23)
      BY <1>3 DEF Rest
    <2>2. BitTaken(MixedLeft(t, Rest(crc, alg), byte, j), 7 - j \in byte, alg)
            = MixedLeft(Divided(t, alg), Rest(crc, alg), byte, j + 1)
      BY <1>3, <2>1, BitTakenLeft
    <2> QED
      BY <1>1, <1>3, <2>2 DEF Mixed, BitOf
  <1> QED
    BY <1>2, <1>3

\* The entry of a table is its index divided eight times.
LEMMA EntryIs ==
  ASSUME NEW alg \in CRC32_ALG, NEW crc \in Word32, NEW byte \in Byte
  PROVE  /\ CRC32_TABLE[alg][Index(crc, byte, alg)] =
              EightTimes(LAMBDA w : Divided(w, alg), First(crc, byte, alg))
         /\ LookedUp(crc, byte, alg) =
              SymDiff(IF alg \in CRC32_NOT_REV THEN Right(crc, 8) ELSE Left(crc, 8, 32),
                      CRC32_TABLE[alg][Index(crc, byte, alg)])
  <1>1. Index(crc, byte, alg) \in Byte
    BY IndexIsByte
  <1> QED
    BY <1>1 DEF CRC32_TABLE, First, LookedUp, Index

\* A byte looked up is eight bits taken.
LEMMA ByteIsEightBits ==
  ASSUME NEW alg \in CRC32_ALG, NEW byte \in Byte, NEW f, f[0] \in Word32,
         \A j \in 0 .. 7 : f[j + 1] = BitTaken(f[j], BitOf(byte, j, alg), alg)
  PROVE  f[8] = LookedUp(f[0], byte, alg)
  <1> DEFINE crc == f[0]
             Is(j, t) == f[j] = Mixed(t, crc, byte, j, alg) /\ t \in Word32
             D(t) == Divided(t, alg)
             t0 == First(crc, byte, alg)
  <1>0. Is(0, t0)
    BY MixedAtFirst, IndexIsByte
  <1>s. ASSUME NEW j \in 0 .. 7, NEW t, Is(j, t)
        PROVE  Is(j + 1, D(t))
    BY <1>s, BitIsStep
  <1> HIDE DEF Is, D, t0
  <1>1. Is(1, D(t0))
    BY <1>0, <1>s, 0 + 1 = 1
  <1>2. Is(2, D(D(t0)))
    BY <1>1, <1>s, 1 + 1 = 2
  <1>3. Is(3, D(D(D(t0))))
    BY <1>2, <1>s, 2 + 1 = 3
  <1>4. Is(4, D(D(D(D(t0)))))
    BY <1>3, <1>s, 3 + 1 = 4
  <1>5. Is(5, D(D(D(D(D(t0))))))
    BY <1>4, <1>s, 4 + 1 = 5
  <1>6. Is(6, D(D(D(D(D(D(t0)))))))
    BY <1>5, <1>s, 5 + 1 = 6
  <1>7. Is(7, D(D(D(D(D(D(D(t0))))))))
    BY <1>6, <1>s, 6 + 1 = 7
  <1>8. Is(8, D(D(D(D(D(D(D(D(t0)))))))))
    BY <1>7, <1>s, 7 + 1 = 8
  <1>9. CRC32_TABLE[alg][Index(crc, byte, alg)] = D(D(D(D(D(D(D(D(t0))))))))
    BY EntryIs DEF EightTimes, D, t0
  <1>10. Is(8, CRC32_TABLE[alg][Index(crc, byte, alg)])
    BY <1>8, <1>9
  <1> DEFINE entry == CRC32_TABLE[alg][Index(crc, byte, alg)]
  <1>11. f[8] = Mixed(entry, crc, byte, 8, alg) /\ entry \in Word32
    BY <1>10 DEF Is
  <1> HIDE DEF entry
  <1>12. f[8] = SymDiff(IF alg \in CRC32_NOT_REV THEN Right(crc, 8) ELSE Left(crc, 8, 32), entry)
    BY <1>11, MixedAtLast
  <1> QED
    BY <1>12, EntryIs DEF entry

-----------------------------------------------------------------------------
(* The hashes of 16 and 8 bits.                                            *)

LEMMA SymDiffWord16 ==
  ASSUME NEW A \in Word16, NEW B \in Word16
  PROVE  SymDiff(A, B) \in Word16
  BY SymDiffWord DEF Word16

LEMMA SymDiffByte ==
  ASSUME NEW A \in Byte, NEW B \in Byte
  PROVE  SymDiff(A, B) \in Byte
  BY SymDiffWord DEF Byte

LEMMA ConstantsWord16 ==
  ASSUME NEW alg \in CRC16_ALG
  PROVE  CRC16_POLY[alg] \in Word16 /\ CRC16_INIT[alg] \in Word16 /\ CRC16_XOUT[alg] \in Word16
  <1>1. \A value : Bits(value, 16) \in Word16
    BY BitsWord, 16 - 1 = 15 DEF Word16
  <1>2. {} \in Word16 /\ {0} \in Word16 /\ 0 .. 15 \in Word16
    BY DEF Word16
  <1>3. CRC16_POLY[alg] \in Word16
    BY <1>1 DEF CRC16_POLY
  <1>4. CRC16_INIT[alg] \in Word16
    BY <1>1, <1>2 DEF CRC16_INIT
  <1>5. CRC16_XOUT[alg] \in Word16
    BY <1>2 DEF CRC16_XOUT
  <1> QED
    BY <1>3, <1>4, <1>5

LEMMA Shifted16 ==
  ASSUME NEW crc \in Word16, NEW n \in Nat
  PROVE  Right(crc, n) \in Word16 /\ Left(crc, n, 16) \in Word16
  BY RightWord, LeftWord, 15 + 1 = 16 DEF Word16

LEMMA TableWord16 ==
  ASSUME NEW alg \in CRC16_ALG, NEW i \in Byte
  PROVE  CRC16_TABLE[alg][i] \in Word16
  <1> DEFINE Step(crc) == Divided16(crc, i, alg)
  <1>1. \A crc \in Word16 : Step(crc) \in Word16
    <2> TAKE crc \in Word16
    <2>1. Right(crc, 1) \in Word16 /\ Left(crc, 1, 16) \in Word16 /\ CRC16_POLY[alg] \in Word16
      BY Shifted16, ConstantsWord16
    <2>2. SymDiff(Right(crc, 1), CRC16_POLY[alg]) \in Word16 /\ SymDiff(Left(crc, 1, 16), CRC16_POLY[alg]) \in Word16
      BY <2>1, SymDiffWord16
    <2> QED
      BY <2>1, <2>2 DEF Divided16
  <1>2. {} \in Word16
    BY DEF Word16
  <1>3. CRC16_TABLE[alg][i] = Step(Step(Step(Step(Step(Step(Step(Step({}))))))))
    BY DEF CRC16_TABLE, EightTimes
  <1> HIDE DEF Step
  <1> QED
    BY <1>1, <1>2, <1>3

LEMMA LookedUp16Word ==
  ASSUME NEW alg \in CRC16_ALG, NEW crc \in Word16, NEW byte \in Byte, NEW notRev
  PROVE  LookedUp16(crc, byte, alg, notRev) \in Word16
  <1>1. crc \cap 0 .. 7 \in Byte /\ Right(crc, 8) \in Byte
    BY DEF Right, Word16, Byte
  <1>2. SymDiff(crc \cap 0 .. 7, byte) \in Byte /\ SymDiff(Right(crc, 8), byte) \in Byte
    BY <1>1, SymDiffByte
  <1>3. /\ CRC16_TABLE[alg][SymDiff(crc \cap 0 .. 7, byte)] \in Word16
        /\ CRC16_TABLE[alg][SymDiff(Right(crc, 8), byte)] \in Word16
    BY <1>2, TableWord16
  <1>4. Right(crc, 8) \in Word16 /\ Left(crc, 8, 16) \in Word16
    BY Shifted16
  <1> QED
    BY <1>3, <1>4, SymDiffWord16 DEF LookedUp16

LEMMA HashIsWord16 ==
  ASSUME NEW alg \in CRC16_ALG, NEW buf \in Seq(Byte)
  PROVE  hash_crc16(buf, alg) \subseteq Word16
  <1> DEFINE Step(notRev) == [k \in 1 .. Len(buf) |-> [crc \in Word16 |-> LookedUp16(crc, buf[k], alg, notRev)]]
             Result(notRev) == Loop(Len(buf), Step(notRev), CRC16_INIT[alg])
  <1>1. ASSUME NEW notRev
        PROVE  Result(notRev) \in Word16
    <2>1. Len(buf) \in Nat /\ \A k \in 1 .. Len(buf) : buf[k] \in Byte
      BY LenProperties, ElementOfSeq
    <2>2. \A k \in 1 .. Len(buf) : \A v \in Word16 : Step(notRev)[k][v] \in Word16
      BY <2>1, LookedUp16Word
    <2>3. CRC16_INIT[alg] \in Word16
      BY ConstantsWord16
    <2> HIDE DEF Step
    <2> QED
      BY <2>1, <2>2, <2>3, LoopStaysIn
  <1>2. hash_crc16(buf, alg) = {SymDiff(CRC16_XOUT[alg], Result(notRev)) : notRev \in ReadAsNotRev(alg)}
    BY DEF hash_crc16
  <1> HIDE DEF Result
  <1> QED
    BY <1>1, <1>2, ConstantsWord16, SymDiffWord16

LEMMA HashIsByte ==
  ASSUME NEW alg \in CRC8_ALG, NEW buf \in Seq(Byte)
  PROVE  hash_crc8(buf, alg) \subseteq Byte
  <1>1. CRC8_POLY[alg] \in Byte /\ CRC8_XOUT[alg] \in Byte /\ CRC8_INIT[alg] \in Byte
    BY DEF CRC8_POLY, CRC8_XOUT, CRC8_INIT, Byte
  <1>2. \A i \in Byte : CRC8_TABLE[alg][i] \in Byte
    <2> TAKE i \in Byte
    <2> DEFINE Step(crc) == Divided8(crc, alg)
    <2>1. \A crc \in Byte : Step(crc) \in Byte
      <3> TAKE crc \in Byte
      <3>1. Right(crc, 1) \in Byte /\ Left(crc, 1, 8) \in Byte
        BY RightWord, LeftWord, 7 + 1 = 8 DEF Byte
      <3>2. SymDiff(Right(crc, 1), CRC8_POLY[alg]) \in Byte /\ SymDiff(Left(crc, 1, 8), CRC8_POLY[alg]) \in Byte
        BY <1>1, <3>1, SymDiffByte
      <3> QED
        BY <3>1, <3>2 DEF Divided8
    <2>2. CRC8_TABLE[alg][i] = Step(Step(Step(Step(Step(Step(Step(Step(i))))))))
      BY DEF CRC8_TABLE, EightTimes
    <2> HIDE DEF Step
    <2> QED
      BY <2>1, <2>2
  <1>3. Bits(alg, 8) \in Byte
    BY BitsWord, 8 - 1 = 7 DEF Byte
  <1>4. CASE alg = 0
    BY <1>1, <1>4, SymDiffByte DEF hash_crc8
  <1>5. CASE alg # 0
    <2> DEFINE bytes == IF alg <= Len(buf) THEN {buf[alg]} ELSE Byte
    <2>1. \A byte \in bytes : byte \in Byte
      <3>1. alg <= Len(buf) => alg \in 1 .. Len(buf)
        BY <1>5, LenProperties DEF CRC8_ALG
      <3> QED
        BY <3>1, ElementOfSeq
    <2>2. hash_crc8(buf, alg) = {SymDiff(CRC8_XOUT[alg], CRC8_TABLE[alg][SymDiff(Bits(alg, 8), byte)]) : byte \in bytes}
      BY <1>5 DEF hash_crc8
    <2> HIDE DEF bytes
    <2>3. \A byte \in bytes : SymDiff(CRC8_XOUT[alg], CRC8_TABLE[alg][SymDiff(Bits(alg, 8), byte)]) \in Byte
      BY <1>1, <1>2, <1>3, <2>1, SymDiffByte
    <2> QED
      BY <2>2, <2>3
  <1> QED
    BY <1>4, <1>5

-----------------------------------------------------------------------------
(* A call of hash_crc32.                                                   *)

\* The word is what is left of the division of the bytes that have been read.
HashInv ==
  /\ hash \in [alg : CRC32_ALG, buf : Seq(Byte), i : Nat, crc : Word32]
  /\ hash.i <= Len(hash.buf)
  /\ hash.crc = Remainders(hash.buf, hash.alg)[8 * hash.i]

\* The division takes the bits in the order of the key.
LEMMA RemaindersAre ==
  ASSUME NEW buf \in Seq(Byte), NEW alg \in CRC32_ALG
  PROVE  /\ Remainders(buf, alg)[0] = CRC32_INIT[alg]
         /\ \A k \in 0 .. 8 * Len(buf) : Remainders(buf, alg)[k] \in Word32
         /\ \A k \in 1 .. 8 * Len(buf) :
              Remainders(buf, alg)[k] = BitTaken(Remainders(buf, alg)[k - 1], KeyBit(buf, k, alg), alg)
  <1> DEFINE n == 8 * Len(buf)
             step == [k \in 1 .. n |-> [crc \in Word32 |-> BitTaken(crc, KeyBit(buf, k, alg), alg)]]
             turns == Turns(n, step, CRC32_INIT[alg])
  <1>1. n \in Nat
    BY LenProperties
  <1>2. CRC32_INIT[alg] \in Word32
    BY PolyWord
  <1>3. \A k \in 1 .. n : \A v \in Word32 : step[k][v] = BitTaken(v, KeyBit(buf, k, alg), alg)
    OBVIOUS
  <1>4. \A k \in 1 .. n : \A v \in Word32 : step[k][v] \in Word32
    BY <1>3, BitTakenWord
  <1>5. Remainders(buf, alg) = turns
    BY DEF Remainders
  <1> HIDE DEF n, step
  <1>6. turns[0] = CRC32_INIT[alg] /\ \A k \in 1 .. n : turns[k] = step[k][turns[k - 1]]
    BY <1>1, TurnsAre
  <1>7. \A k \in 0 .. n : turns[k] \in Word32
    BY <1>1, <1>2, <1>4, TurnsStayIn
  <1> HIDE DEF turns
  <1>8. \A k \in 1 .. n : turns[k - 1] \in Word32
    BY <1>1, <1>7
  <1>9. \A k \in 1 .. n : turns[k] = BitTaken(turns[k - 1], KeyBit(buf, k, alg), alg)
    BY <1>3, <1>6, <1>8
  <1> QED
    BY <1>5, <1>6, <1>7, <1>9 DEF n

LEMMA HashByteInv == ASSUME HashInv, HashByte PROVE HashInv'
  <1> DEFINE buf == hash.buf
             alg == hash.alg
             i == hash.i
             byte == buf[i + 1]
             rem == Remainders(buf, alg)
             f == [j \in 0 .. 8 |-> rem[8 * i + j]]
  <1>1. buf \in Seq(Byte) /\ alg \in CRC32_ALG /\ i \in Nat /\ hash.crc \in Word32 /\ Len(buf) \in Nat
    BY LenProperties DEF HashInv
  <1>2. i < Len(buf) /\ byte \in Byte
    BY <1>1, ElementOfSeq DEF HashByte
  <1>3. hash' = [alg |-> alg, buf |-> buf, i |-> i + 1, crc |-> LookedUp(hash.crc, byte, alg)]
    BY DEF HashByte, HashInv
  <1>4. /\ \A k \in 0 .. 8 * Len(buf) : rem[k] \in Word32
        /\ \A k \in 1 .. 8 * Len(buf) : rem[k] = BitTaken(rem[k - 1], KeyBit(buf, k, alg), alg)
    BY <1>1, RemaindersAre
  <1>5. \A j \in 0 .. 7 : KeyBit(buf, 8 * i + j + 1, alg) = BitOf(byte, j, alg)
    <2> TAKE j \in 0 .. 7
    <2>1. ((8 * i + j + 1) - 1) \div 8 = i /\ ((8 * i + j + 1) - 1) % 8 = j
      BY <1>1
    <2> QED
      BY <2>1 DEF KeyBit, BitOf
  <1> HIDE DEF buf, alg, i, byte, rem
  <1>6. f[0] = hash.crc /\ f[0] \in Word32 /\ f[8] = rem[8 * (i + 1)]
    <2>1. 8 * i + 0 = 8 * i /\ 8 * i + 8 = 8 * (i + 1)
      BY <1>1
    <2>2. hash.crc = rem[8 * i]
      BY DEF HashInv, buf, alg, i, rem
    <2> QED
      BY <1>1, <2>1, <2>2
  <1>7. \A j \in 0 .. 7 : f[j + 1] = BitTaken(f[j], BitOf(byte, j, alg), alg)
    <2> TAKE j \in 0 .. 7
    <2>1. 8 * i + j + 1 \in 1 .. 8 * Len(buf) /\ (8 * i + j + 1) - 1 = 8 * i + j /\ 8 * i + (j + 1) = 8 * i + j + 1
      BY <1>1, <1>2
    <2>2. f[j + 1] = rem[8 * i + j + 1] /\ f[j] = rem[8 * i + j]
      BY <2>1
    <2> QED
      BY <1>4, <1>5, <2>1, <2>2
  <1> HIDE DEF f
  <1>8. f[8] = LookedUp(f[0], byte, alg)
    BY <1>1, <1>2, <1>6, <1>7, ByteIsEightBits
  <1>9. rem[8 * (i + 1)] = LookedUp(hash.crc, byte, alg) /\ rem[8 * (i + 1)] \in Word32
    <2>1. 8 * (i + 1) \in 0 .. 8 * Len(buf)
      BY <1>1, <1>2
    <2> QED
      BY <1>4, <1>6, <1>8, <2>1
  <1>10. hash'.crc = Remainders(hash'.buf, hash'.alg)[8 * hash'.i]
    BY <1>3, <1>9 DEF rem
  <1>11. hash' \in [alg : CRC32_ALG, buf : Seq(Byte), i : Nat, crc : Word32] /\ hash'.i <= Len(hash'.buf)
    BY <1>1, <1>2, <1>3, <1>9
  <1> QED
    BY <1>10, <1>11 DEF HashInv

LEMMA HashInitInv == ASSUME HashInit PROVE HashInv
  <1>1. PICK algorithm \in CRC32_ALG, key \in Keys :
          hash = [alg |-> algorithm, buf |-> key, i |-> 0, crc |-> CRC32_INIT[algorithm]]
    BY DEF HashInit
  <1>2. key \in Seq(Byte) /\ Len(key) \in Nat
    BY KeyHashAssumption, LenProperties
  <1>3. CRC32_INIT[algorithm] \in Word32 /\ Remainders(key, algorithm)[8 * 0] = CRC32_INIT[algorithm]
    BY <1>2, PolyWord, RemaindersAre, 8 * 0 = 0
  <1> QED
    BY <1>1, <1>2, <1>3 DEF HashInv

LEMMA HashInvImplies == ASSUME HashInv PROVE HashIsRemainder
  <1>1. hash.buf \in Seq(Byte)
    BY DEF HashInv
  <1>2. hash_crc32 = SymDiff(CRC32_XOUT[hash.alg], Remainders(hash.buf, hash.alg)[8 * hash.i])
    BY DEF HashInv, hash_crc32
  <1> QED
    BY <1>1, <1>2, HashIsWord16, HashIsByte DEF HashIsRemainder

\* For every key and every algorithm of 32 bits the tables of key-hash.cc give
\* the remainder that defines the check; the hashes of 16 and 8 bits of every
\* key are values of their types, also where hash_crc16 asks the wrong array
\* and hash_crc8 reads past the key.
THEOREM HashesAreRemainders == HashSpec => []HashIsRemainder
  <1>1. HashInit => HashInv
    BY HashInitInv
  <1>2. HashInv /\ [HashByte]_hash => HashInv'
    <2>1. ASSUME HashInv, UNCHANGED hash PROVE HashInv'
      BY <2>1 DEF HashInv
    <2> QED
      BY <2>1, HashByteInv
  <1>3. HashInv => HashIsRemainder
    BY HashInvImplies
  <1> QED
    BY <1>1, <1>2, <1>3, PTL DEF HashSpec

-----------------------------------------------------------------------------
(* Powers of two, and quotients.                                           *)

\* pow is taken by doubling.
LEMMA PowersOfTwo ==
  ASSUME NEW m \in Nat
  PROVE  PowerOfTwo(0) = 1 /\ PowerOfTwo(m) \in Nat \ {0} /\ PowerOfTwo(m + 1) = 2 * PowerOfTwo(m)
  <1> DEFINE step(n) == [k \in 1 .. n |-> [v \in Nat |-> 2 * v]]
             power(n) == Turns(n, step(n), 1)
             V == Nat \ {0}
  <1>1. ASSUME NEW n \in Nat
        PROVE  /\ power(n)[0] = 1
               /\ \A k \in 1 .. n : power(n)[k] = step(n)[k][power(n)[k - 1]]
               /\ \A k \in 0 .. n : power(n)[k] \in V
    <2>1. 1 \in V /\ \A k \in 1 .. n : \A v \in V : step(n)[k][v] \in V
      OBVIOUS
    <2> HIDE DEF step, V
    <2>2. \A k \in 0 .. n : power(n)[k] \in V
      BY <2>1, TurnsStayIn
    <2> QED
      BY <2>2, TurnsAre
  <1>2. ASSUME NEW n \in Nat
        PROVE  \A k \in 1 .. n : power(n)[k - 1] \in V /\ power(n)[k] = 2 * power(n)[k - 1]
    <2> TAKE k \in 1 .. n
    <2>1. k - 1 \in 0 .. n
      OBVIOUS
    <2>2. power(n)[k - 1] \in V /\ power(n)[k] = step(n)[k][power(n)[k - 1]]
      BY <1>1, <2>1
    <2> HIDE DEF power
    <2> QED
      BY <2>2
  <1> DEFINE S == {k \in 0 .. m : power(m + 1)[k] = power(m)[k]}
  <1> HIDE DEF power
  <1>3. 0 \in S
    BY <1>1
  <1>4. ASSUME NEW k \in 0 .. m - 1, k \in S
        PROVE  k + 1 \in S
    <2>1. k + 1 \in 1 .. m /\ k + 1 \in 1 .. m + 1 /\ (k + 1) - 1 = k
      OBVIOUS
    <2>2. power(m)[k + 1] = 2 * power(m)[k]
      BY <1>2, <2>1
    <2>3. power(m + 1)[k + 1] = 2 * power(m + 1)[k]
      BY <1>2, <2>1
    <2> QED
      BY <1>4, <2>1, <2>2, <2>3
  <1>5. 0 .. m \subseteq S
    <2> HIDE DEF S
    <2> QED
      BY <1>3, <1>4, InductionTo
  <1>6. power(m + 1)[m] = power(m)[m]
    BY <1>5
  <1>7. m + 1 \in 1 .. m + 1 /\ (m + 1) - 1 = m
    OBVIOUS
  <1>8. power(m + 1)[m + 1] = 2 * power(m + 1)[m]
    BY <1>2, <1>7
  <1>9. power(m)[m] \in V /\ power(0)[0] = 1
    BY <1>1
  <1>10. \A n : PowerOfTwo(n) = power(n)[n]
    BY DEF PowerOfTwo, Loop, power
  <1> QED
    BY <1>6, <1>8, <1>9, <1>10

\* The powers that bits within a byte count to.
LEMMA SmallPowersOfTwo ==
  /\ PowerOfTwo(0) = 1 /\ PowerOfTwo(1) = 2 /\ PowerOfTwo(2) = 4 /\ PowerOfTwo(3) = 8
  /\ PowerOfTwo(4) = 16 /\ PowerOfTwo(5) = 32 /\ PowerOfTwo(6) = 64 /\ PowerOfTwo(7) = 128
  <1>1. PowerOfTwo(0) = 1 /\ \A m \in Nat : PowerOfTwo(m + 1) = 2 * PowerOfTwo(m)
    BY PowersOfTwo
  <1>2. PowerOfTwo(1) = 2
    BY <1>1, 0 + 1 = 1
  <1>3. PowerOfTwo(2) = 4
    BY <1>1, <1>2, 1 + 1 = 2
  <1>4. PowerOfTwo(3) = 8
    BY <1>1, <1>3, 2 + 1 = 3
  <1>5. PowerOfTwo(4) = 16
    BY <1>1, <1>4, 3 + 1 = 4
  <1>6. PowerOfTwo(5) = 32
    BY <1>1, <1>5, 4 + 1 = 5
  <1>7. PowerOfTwo(6) = 64
    BY <1>1, <1>6, 5 + 1 = 6
  <1>8. PowerOfTwo(7) = 128
    BY <1>1, <1>7, 6 + 1 = 7
  <1> QED
    BY <1>1, <1>2, <1>3, <1>4, <1>5, <1>6, <1>7, <1>8

\* A quotient is the only number of times the divisor fits.
LEMMA QuotientIs ==
  ASSUME NEW a \in Nat, NEW p \in Nat \ {0}, NEW d \in Nat, d * p <= a, a < (d + 1) * p
  PROVE  a \div p = d
  <1> DEFINE e == a \div p
  <1>1. e \in Nat /\ e * p <= a /\ a < (e + 1) * p
    OBVIOUS
  <1> HIDE DEF e
  <1>2. ~(d < e)
    <2>1. ASSUME d < e PROVE FALSE
      <3>1. PICK f \in Nat : e = d + 1 + f
        <4>1. e - d - 1 \in Nat /\ e = d + 1 + (e - d - 1)
          BY <1>1, <2>1
        <4> QED
          BY <4>1
      <3>2. e * p = (d + 1) * p + f * p /\ f * p >= 0
        BY <3>1
      <3> QED
        BY <1>1, <3>2
    <2> QED
      BY <2>1
  <1>3. ~(e < d)
    <2>1. ASSUME e < d PROVE FALSE
      <3>1. PICK f \in Nat : d = e + 1 + f
        <4>1. d - e - 1 \in Nat /\ d = e + 1 + (d - e - 1)
          BY <1>1, <2>1
        <4> QED
          BY <4>1
      <3>2. d * p = (e + 1) * p + f * p /\ f * p >= 0
        BY <1>1, <3>1
      <3> QED
        BY <1>1, <3>2
    <2> QED
      BY <2>1
  <1>4. e = d
    BY <1>1, <1>2, <1>3
  <1> QED
    BY <1>4 DEF e

\* Nothing wraps that is less than the size.
LEMMA RemainderOfLess ==
  ASSUME NEW a \in Nat, NEW m \in Nat, a < m
  PROVE  a % m = a
  <1>1. a \div m = 0
    BY QuotientIs
  <1>2. a = m * (a \div m) + (a % m)
    OBVIOUS
  <1> QED
    BY <1>1, <1>2

\* Dividing by a product is dividing twice.
LEMMA DividedTwice ==
  ASSUME NEW a \in Nat, NEW p \in Nat \ {0}, NEW c \in Nat \ {0}
  PROVE  a \div (c * p) = (a \div p) \div c /\ c * p \in Nat \ {0}
  <1> DEFINE e == a \div p
             d == e \div c
  <1>1. e \in Nat /\ e * p <= a /\ a < (e + 1) * p
    OBVIOUS
  <1> HIDE DEF e
  <1>2. d \in Nat /\ d * c <= e /\ e + 1 <= (d + 1) * c
    BY <1>1
  <1> HIDE DEF d
  <1>3. PICK f \in Nat : e = d * c + f
    <2>1. e - d * c \in Nat /\ e = d * c + (e - d * c)
      BY <1>1, <1>2
    <2> QED
      BY <2>1
  <1>4. PICK g \in Nat : (d + 1) * c = e + 1 + g
    <2>1. (d + 1) * c - e - 1 \in Nat /\ (d + 1) * c = e + 1 + ((d + 1) * c - e - 1)
      BY <1>1, <1>2
    <2> QED
      BY <2>1
  <1>5. e * p = d * (c * p) + f * p /\ f * p >= 0
    BY <1>2, <1>3
  <1>6. (d + 1) * (c * p) = (e + 1) * p + g * p /\ g * p >= 0
    BY <1>1, <1>2, <1>4
  <1>7. c * p \in Nat \ {0}
    OBVIOUS
  <1> DEFINE q == c * p
  <1>8. d * q <= a /\ a < (d + 1) * q
    BY <1>1, <1>2, <1>5, <1>6, <1>7
  <1> HIDE DEF q
  <1>9. a \div q = d
    BY <1>2, <1>7, <1>8, QuotientIs DEF q
  <1> QED
    BY <1>7, <1>9 DEF q, d, e

\* The power of a sum is the product of the powers.
LEMMA PowersOfTwoMultiply ==
  ASSUME NEW a \in Nat, NEW b \in Nat
  PROVE  PowerOfTwo(a + b) = PowerOfTwo(b) * PowerOfTwo(a)
  <1> DEFINE S == {i \in 0 .. b : PowerOfTwo(a + i) = PowerOfTwo(i) * PowerOfTwo(a)}
  <1>1. PowerOfTwo(0) = 1 /\ \A m \in Nat : PowerOfTwo(m) \in Nat /\ PowerOfTwo(m + 1) = 2 * PowerOfTwo(m)
    BY PowersOfTwo
  <1>2. 0 \in S
    BY <1>1, a + 0 = a
  <1>3. ASSUME NEW i \in 0 .. b - 1, i \in S
        PROVE  i + 1 \in S
    <2>1. a + (i + 1) = (a + i) + 1 /\ a + i \in Nat /\ i \in Nat
      OBVIOUS
    <2>2. PowerOfTwo(a + (i + 1)) = 2 * (PowerOfTwo(i) * PowerOfTwo(a)) /\ PowerOfTwo(i + 1) = 2 * PowerOfTwo(i)
      BY <1>1, <1>3, <2>1
    <2>3. \A x, y \in Nat : 2 * (x * y) = (2 * x) * y
      OBVIOUS
    <2>4. PowerOfTwo(a + (i + 1)) = PowerOfTwo(i + 1) * PowerOfTwo(a)
      BY <1>1, <2>1, <2>2, <2>3
    <2> QED
      BY <2>4
  <1>4. 0 .. b \subseteq S
    <2> HIDE DEF S
    <2> QED
      BY <1>2, <1>3, InductionTo
  <1> QED
    BY <1>4

-----------------------------------------------------------------------------
(* The loops that divide a number by a base until nothing is left.         *)

\* The bases of texts and of bytes.
Bases == {10, 16, 256}

\* An unsigned int is a whole number of bytes.
LEMMA SizeIs ==
  /\ 4 * Nibbles \in Nat /\ 4 * Nibbles >= 8 /\ Nibbles \div 2 \in Nat \ {0} /\ Nibbles = 2 * (Nibbles \div 2)
  /\ UintSize \in Nat \ {0}
  <1>1. Nibbles \in Nat \ {0} /\ Nibbles % 2 = 0
    BY ConversionsAssumption
  <1>2. 4 * Nibbles \in Nat /\ 4 * Nibbles >= 8 /\ Nibbles \div 2 \in Nat \ {0} /\ Nibbles = 2 * (Nibbles \div 2)
    BY <1>1
  <1> QED
    BY <1>2, PowersOfTwo DEF UintSize

\* Each turn divides what the one before it left, and leaves no more.
LEMMA QuotientsAre ==
  ASSUME NEW num \in Nat, NEW base \in Bases
  PROVE  /\ Quotients(num, base)[0] = num
         /\ \A k \in 0 .. 4 * Nibbles : Quotients(num, base)[k] \in Nat /\ Quotients(num, base)[k] <= num
         /\ \A k \in 1 .. 4 * Nibbles : Quotients(num, base)[k] = Quotients(num, base)[k - 1] \div base
  <1> DEFINE M == 4 * Nibbles
             step == [k \in 1 .. M |-> [v \in Nat |-> v \div base]]
             q == Turns(M, step, num)
             V == 0 .. num
  <1>1. M \in Nat
    BY SizeIs
  <1>2. \A v \in Nat : v \div base \in Nat /\ v \div base <= v
    BY DEF Bases
  <1>3. num \in V /\ \A k \in 1 .. M : \A v \in V : step[k][v] \in V
    BY <1>2
  <1>4. Quotients(num, base) = q
    BY DEF Quotients
  <1> HIDE DEF M
  <1>5. \A k \in 1 .. M : \A v \in Nat : step[k][v] = v \div base
    OBVIOUS
  <1>6. \A k \in 0 .. M : q[k] \in V
    <2> HIDE DEF V, step
    <2> QED
      BY <1>1, <1>3, TurnsStayIn
  <1>7. q[0] = num /\ \A k \in 1 .. M : q[k] = step[k][q[k - 1]]
    <2> HIDE DEF step
    <2> QED
      BY <1>1, TurnsAre
  <1> HIDE DEF q
  <1>8. \A k \in 1 .. M : q[k] = q[k - 1] \div base
    <2> TAKE k \in 1 .. M
    <2>1. q[k - 1] \in Nat
      BY <1>1, <1>6
    <2> HIDE DEF step
    <2> QED
      BY <1>7, <1>5, <2>1
  <1> QED
    BY <1>4, <1>6, <1>7, <1>8 DEF M

\* Once nothing is left, nothing is left after any further turn.
LEMMA NothingIsLeft ==
  ASSUME NEW num \in Nat, NEW base \in Bases, NEW t \in 0 .. 4 * Nibbles, Quotients(num, base)[t] = 0
  PROVE  \A k \in t .. 4 * Nibbles : Quotients(num, base)[k] = 0
  <1> DEFINE M == 4 * Nibbles
             q == Quotients(num, base)
             S == {i \in 0 .. M - t : q[t + i] = 0}
  <1>1. M \in Nat /\ t \in 0 .. M /\ M - t \in Nat
    BY SizeIs
  <1>2. \A k \in 1 .. M : q[k] = q[k - 1] \div base
    BY QuotientsAre
  <1>3. 0 \div base = 0
    BY DEF Bases
  <1> HIDE DEF M, q
  <1>4. 0 \in S
    BY <1>1 DEF q
  <1>5. ASSUME NEW i \in 0 .. (M - t) - 1, i \in S
        PROVE  i + 1 \in S
    <2>1. t + (i + 1) \in 1 .. M /\ (t + (i + 1)) - 1 = t + i /\ i + 1 \in 0 .. M - t
      BY <1>1
    <2> QED
      BY <1>2, <1>3, <1>5, <2>1
  <1>6. 0 .. M - t \subseteq S
    <2> HIDE DEF S
    <2> QED
      BY <1>1, <1>4, <1>5, InductionTo
  <1>7. \A k \in t .. M : q[k] = 0
    <2> TAKE k \in t .. M
    <2>1. k - t \in 0 .. M - t /\ t + (k - t) = k
      BY <1>1
    <2> QED
      BY <1>6, <2>1
  <1> QED
    BY <1>7 DEF M, q

\* An unsigned int has no more digits of four bits than it has nibbles, and
\* no more digits to a larger base.
LEMMA QuotientsEnd ==
  ASSUME NEW num \in 0 .. UintSize - 1, NEW base \in Bases
  PROVE  /\ Quotients(num, base)[4 * Nibbles] = 0
         /\ base # 10 => Quotients(num, base)[Nibbles] = 0
  <1> DEFINE M == 4 * Nibbles
             q == Quotients(num, base)
  <1>1. M \in Nat /\ M = 4 * Nibbles /\ Nibbles \in Nat \ {0} /\ num \in Nat
    BY SizeIs, ConversionsAssumption
  <1>2. num < PowerOfTwo(M)
    BY SizeIs DEF UintSize
  <1>3. q[0] = num /\ \A k \in 0 .. M : q[k] \in Nat
    BY <1>1, QuotientsAre
  <1>4. \A k \in 1 .. M : q[k] = q[k - 1] \div base
    BY <1>1, QuotientsAre
  <1> HIDE DEF M, q
  <1>5. q[M] = 0
    <2> DEFINE S == {k \in 0 .. M : q[k] < PowerOfTwo(M - k)}
    <2>1. 0 \in S
      BY <1>1, <1>2, <1>3, M - 0 = M
    <2>2. ASSUME NEW k \in 0 .. M - 1, k \in S
          PROVE  k + 1 \in S
      <3>1. k + 1 \in 1 .. M /\ (k + 1) - 1 = k /\ M - (k + 1) \in Nat /\ (M - (k + 1)) + 1 = M - k /\ k \in 0 .. M
        BY <1>1
      <3>2. PowerOfTwo(M - k) = 2 * PowerOfTwo(M - (k + 1)) /\ PowerOfTwo(M - (k + 1)) \in Nat
        BY <3>1, PowersOfTwo
      <3>3. q[k + 1] = q[k] \div base /\ q[k] \in Nat
        BY <1>3, <1>4, <3>1
      <3>4. q[k] \div base < PowerOfTwo(M - (k + 1))
        BY <2>2, <3>2, <3>3 DEF Bases
      <3> QED
        BY <3>1, <3>3, <3>4
    <2>3. 0 .. M \subseteq S
      <3> HIDE DEF S
      <3> QED
        BY <1>1, <2>1, <2>2, InductionTo
    <2>4. q[M] < PowerOfTwo(M - M) /\ M - M = 0 /\ q[M] \in Nat
      BY <1>1, <1>3, <2>3
    <2> QED
      BY <2>4, SmallPowersOfTwo
  <1>6. ASSUME base # 10
        PROVE  q[Nibbles] = 0
    <2> DEFINE S == {k \in 0 .. Nibbles : q[k] < PowerOfTwo(M - 4 * k)}
    <2>1. 0 \in S
      BY <1>1, <1>2, <1>3, M - 4 * 0 = M
    <2>2. ASSUME NEW k \in 0 .. Nibbles - 1, k \in S
          PROVE  k + 1 \in S
      <3> DEFINE r == M - 4 * (k + 1)
      <3>1. k + 1 \in 1 .. M /\ (k + 1) - 1 = k /\ r \in Nat /\ M - 4 * k = r + 1 + 1 + 1 + 1 /\ k \in 0 .. M /\ k + 1 \in 0 .. Nibbles
        BY <1>1
      <3> HIDE DEF r
      <3>2. PowerOfTwo(M - 4 * k) = 16 * PowerOfTwo(r) /\ PowerOfTwo(r) \in Nat
        <4>1. \A m \in Nat : PowerOfTwo(m) \in Nat /\ PowerOfTwo(m + 1) = 2 * PowerOfTwo(m)
          BY PowersOfTwo
        <4>2. PowerOfTwo(r + 1 + 1) = 4 * PowerOfTwo(r) /\ r + 1 \in Nat /\ r + 1 + 1 \in Nat /\ r + 1 + 1 + 1 \in Nat
          BY <3>1, <4>1
        <4>3. PowerOfTwo(r + 1 + 1 + 1 + 1) = 4 * PowerOfTwo(r + 1 + 1)
          BY <4>1, <4>2
        <4> QED
          BY <3>1, <4>1, <4>2, <4>3
      <3>3. q[k + 1] = q[k] \div base /\ q[k] \in Nat
        BY <1>3, <1>4, <3>1
      <3>4. q[k] \div base < PowerOfTwo(r)
        BY <1>6, <2>2, <3>2, <3>3 DEF Bases
      <3> QED
        BY <3>1, <3>3, <3>4 DEF r
    <2>3. 0 .. Nibbles \subseteq S
      <3> HIDE DEF S
      <3> QED
        BY <1>1, <2>1, <2>2, InductionTo
    <2>4. q[Nibbles] < PowerOfTwo(M - 4 * Nibbles) /\ M - 4 * Nibbles = 0 /\ q[Nibbles] \in Nat
      BY <1>1, <1>3, <2>3
    <2> QED
      BY <2>4, SmallPowersOfTwo
  <1> QED
    BY <1>5, <1>6 DEF M, q

\* The digits are what each turn takes off what was left before; the number
\* of turns is the first that leaves nothing.
LEMMA DigitsAre ==
  ASSUME NEW num \in Nat, NEW base \in Bases, NEW z \in 0 .. 4 * Nibbles, Quotients(num, base)[z] = 0
  PROVE  \E t \in 0 .. z :
           /\ LastTurn(Quotients(num, base)) = t
           /\ Quotients(num, base)[t] = 0
           /\ \A k \in 0 .. t - 1 : Quotients(num, base)[k] # 0
           /\ Digits(num, base) = [k \in 1 .. t |-> Quotients(num, base)[k - 1] % base]
           /\ Len(Digits(num, base)) = t
  <1> DEFINE M == 4 * Nibbles
             q == Quotients(num, base)
             S == {k \in 0 .. M : q[k] = 0}
             Ends(t) == q[t] = 0 /\ \A k \in 0 .. t - 1 : q[k] # 0
             t == LastTurn(q)
  <1>1. M \in Nat
    BY SizeIs
  <1>2. z \in S /\ S \subseteq Nat
    OBVIOUS
  <1> HIDE DEF M, q
  <1>3. \E m \in 0 .. M : Ends(m)
    <2>1. PICK m \in S : \A n \in S : m <= n
      <3> HIDE DEF S
      <3> QED
        BY <1>2, LeastNatural
    <2>2. \A k \in 0 .. m - 1 : k \in 0 .. M /\ ~(m <= k)
      BY <1>1, <2>1
    <2>3. Ends(m)
      BY <2>1, <2>2
    <2> QED
      BY <2>1, <2>3
  <1>4. t = CHOOSE m \in 0 .. M : Ends(m)
    BY DEF LastTurn, M
  <1>5. t \in 0 .. M /\ Ends(t)
    <2> HIDE DEF Ends, t
    <2> QED
      BY <1>3, <1>4
  <1>6. t <= z
    BY <1>1, <1>2, <1>5
  <1>7. Digits(num, base) = [k \in 1 .. t |-> q[k - 1] % base]
    BY DEF Digits, q
  <1>8. t \in 0 .. z
    BY <1>1, <1>2, <1>5, <1>6
  <1> HIDE DEF t
  <1>9. Len(Digits(num, base)) = t
    BY <1>7, <1>8
  <1> QED
    BY <1>5, <1>7, <1>8, <1>9 DEF q, t

-----------------------------------------------------------------------------
(* Digits, and the loops that take them in again.                          *)

\* The hexadecimal text has a digit for every nibble, also for those that are
\* zero.
LEMMA HexDigits ==
  ASSUME NEW num \in 0 .. UintSize - 1
  PROVE  Uint32ipToHex(num) = Text(16, [k \in 1 .. Nibbles |-> Quotients(num, 16)[Nibbles - k] % 16])
  <1> DEFINE q == Quotients(num, 16)
             digits == Digits(num, 16)
  <1>1. Nibbles \in Nat \ {0} /\ Nibbles \in 0 .. 4 * Nibbles /\ num \in Nat /\ 16 \in Bases
    BY SizeIs, ConversionsAssumption DEF Bases
  <1>2. q[Nibbles] = 0
    BY <1>1, QuotientsEnd
  <1>3. PICK t \in 0 .. Nibbles :
          /\ q[t] = 0
          /\ digits = [k \in 1 .. t |-> q[k - 1] % 16]
          /\ Len(digits) = t
    BY <1>1, <1>2, DigitsAre
  <1>4. \A k \in t .. 4 * Nibbles : q[k] = 0
    BY <1>1, <1>3, NothingIsLeft
  <1> HIDE DEF q, digits
  <1>5. \A k \in 1 .. Nibbles :
          (IF Nibbles + 1 - k <= t THEN digits[Nibbles + 1 - k] ELSE 0) = q[Nibbles - k] % 16
    <2> TAKE k \in 1 .. Nibbles
    <2>1. CASE Nibbles + 1 - k <= t
      <3>1. Nibbles + 1 - k \in 1 .. t /\ (Nibbles + 1 - k) - 1 = Nibbles - k
        BY <1>1, <2>1
      <3> QED
        BY <1>3, <2>1, <3>1
    <2>2. CASE ~(Nibbles + 1 - k <= t)
      <3>1. Nibbles - k \in t .. 4 * Nibbles
        BY <1>1, <2>2
      <3> QED
        BY <1>4, <2>2, <3>1
    <2> QED
      BY <2>1, <2>2
  <1>6. Uint32ipToHex(num) = Text(16, [k \in 1 .. Nibbles |-> IF Nibbles + 1 - k <= t THEN digits[Nibbles + 1 - k] ELSE 0])
    BY <1>3 DEF Uint32ipToHex, digits
  <1> QED
    BY <1>5, <1>6 DEF q

\* The decimal text of a number whose quotients end.
LEMMA DecimalDigits ==
  ASSUME NEW num \in Nat, NEW z \in 0 .. 4 * Nibbles, Quotients(num, 10)[z] = 0, num # 0
  PROVE  \E t \in 0 .. z :
           /\ Quotients(num, 10)[t] = 0
           /\ UintToString(num) = Text(10, [k \in 1 .. t |-> Quotients(num, 10)[t - k] % 10])
  <1> DEFINE q == Quotients(num, 10)
             digits == Digits(num, 10)
  <1>1. PICK t \in 0 .. z :
          /\ q[t] = 0
          /\ digits = [k \in 1 .. t |-> q[k - 1] % 10]
          /\ Len(digits) = t
    BY DigitsAre DEF Bases
  <1>2. UintToString(num) = Text(10, Reverse(digits))
    BY DEF UintToString
  <1> HIDE DEF q, digits
  <1>3. Reverse(digits) = [k \in 1 .. t |-> digits[(t - k) + 1]]
    BY <1>1 DEF Reverse
  <1>4. \A k \in 1 .. t : digits[(t - k) + 1] = q[t - k] % 10
    <2> TAKE k \in 1 .. t
    <2>1. (t - k) + 1 \in 1 .. t /\ ((t - k) + 1) - 1 = t - k
      BY <1>1
    <2> QED
      BY <1>1, <2>1
  <1>5. Reverse(digits) = [k \in 1 .. t |-> q[t - k] % 10]
    BY <1>3, <1>4
  <1> QED
    BY <1>1, <1>2, <1>5 DEF q

\* Taking a digit in gives back what was left before it was taken off.
LEMMA DigitBack ==
  ASSUME NEW num \in Nat, NEW base \in Bases, NEW t \in 0 .. 4 * Nibbles, NEW k \in 1 .. t
  PROVE  /\ Quotients(num, base)[t - k] \in Nat
         /\ Quotients(num, base)[t - k] <= num
         /\ Quotients(num, base)[t - (k - 1)] * base + (Quotients(num, base)[t - k] % base) = Quotients(num, base)[t - k]
         /\ Quotients(num, base)[t - (k - 1)] \in Nat
  <1> DEFINE q == Quotients(num, base)
  <1>1. t - (k - 1) \in 1 .. 4 * Nibbles /\ (t - (k - 1)) - 1 = t - k /\ t - k \in 0 .. 4 * Nibbles
        /\ t - (k - 1) \in 0 .. 4 * Nibbles
    BY SizeIs
  <1>2. q[t - (k - 1)] = q[t - k] \div base /\ q[t - k] \in Nat /\ q[t - k] <= num /\ q[t - (k - 1)] \in Nat
    <2>1. /\ \A j \in 0 .. 4 * Nibbles : q[j] \in Nat /\ q[j] <= num
          /\ \A j \in 1 .. 4 * Nibbles : q[j] = q[j - 1] \div base
      BY QuotientsAre
    <2> HIDE DEF q
    <2> QED
      BY <1>1, <2>1
  <1> HIDE DEF q
  <1>3. (q[t - k] \div base) * base + (q[t - k] % base) = q[t - k]
    BY <1>2 DEF Bases
  <1> QED
    BY <1>2, <1>3 DEF q

\* A loop that takes the digits in, the first one first, ends with the number.
LEMMA ReadsBack ==
  ASSUME NEW num \in Nat, NEW base \in Bases, NEW t \in 0 .. 4 * Nibbles, Quotients(num, base)[t] = 0,
         NEW step,
         \A k \in 1 .. t : step[k][Quotients(num, base)[t - (k - 1)]] = Quotients(num, base)[t - k]
  PROVE  Loop(t, step, 0) = num
  <1> DEFINE q == Quotients(num, base)
             r == Turns(t, step, 0)
             S == {k \in 0 .. t : r[k] = q[t - k]}
  <1>1. t \in Nat
    BY SizeIs
  <1>2. r[0] = 0 /\ \A k \in 1 .. t : r[k] = step[k][r[k - 1]]
    BY <1>1, TurnsAre
  <1>3. q[0] = num /\ q[t] = 0 /\ t - 0 = t /\ t - t = 0
    BY <1>1, QuotientsAre
  <1>4. \A k \in 1 .. t : step[k][q[t - (k - 1)]] = q[t - k]
    OBVIOUS
  <1> HIDE DEF q, r
  <1>5. 0 \in S
    BY <1>1, <1>2, <1>3
  <1>6. ASSUME NEW k \in 0 .. t - 1, k \in S
        PROVE  k + 1 \in S
    <2>1. k + 1 \in 1 .. t /\ (k + 1) - 1 = k /\ k + 1 \in 0 .. t
      BY <1>1
    <2>2. r[k + 1] = step[k + 1][r[k]] /\ step[k + 1][q[t - k]] = q[t - (k + 1)]
      BY <1>2, <1>4, <2>1
    <2> QED
      BY <1>6, <2>1, <2>2
  <1>7. 0 .. t \subseteq S
    <2> HIDE DEF S
    <2> QED
      BY <1>1, <1>5, <1>6, InductionTo
  <1>8. r[t] = num
    BY <1>1, <1>3, <1>7
  <1> QED
    BY <1>8 DEF r, Loop

\* Both ways of reading a text take a digit in.
LEMMA TextReadsBack ==
  ASSUME NEW num \in 0 .. UintSize - 1, NEW base \in {10, 16}, NEW t \in 0 .. 4 * Nibbles,
         Quotients(num, base)[t] = 0
  PROVE  LET text == Text(base, [k \in 1 .. t |-> Quotients(num, base)[t - k] % base])
         IN  /\ StrToInt(text) = num
             /\ base = 10 => Stoi(text) = num
  <1> DEFINE q == Quotients(num, base)
             digits == [k \in 1 .. t |-> q[t - k] % base]
             text == Text(base, digits)
             wrapped == [k \in 1 .. t |-> [res \in Nat |-> (res * text.base + text.digits[k]) % UintSize]]
             read == [k \in 1 .. t |-> [res \in Nat |-> res * 10 + text.digits[k]]]
  <1>1. t \in Nat /\ num \in Nat /\ base \in Bases /\ UintSize \in Nat
    BY SizeIs DEF Bases
  <1>2. \A k \in 1 .. t :
          /\ q[t - k] \in Nat /\ q[t - k] <= num /\ q[t - (k - 1)] \in Nat
          /\ q[t - (k - 1)] * base + (q[t - k] % base) = q[t - k]
    BY <1>1, DigitBack
  <1> HIDE DEF q
  <1>3. text.base = base /\ text.digits = digits /\ Len(digits) = t
    BY <1>1 DEF Text
  <1>4. \A k \in 1 .. t : digits[k] = q[t - k] % base
    OBVIOUS
  <1> HIDE DEF text, digits
  <1>5. ASSUME NEW k \in 1 .. t
        PROVE  wrapped[k][q[t - (k - 1)]] = q[t - k]
    <2>1. wrapped[k][q[t - (k - 1)]] = (q[t - (k - 1)] * base + (q[t - k] % base)) % UintSize
      BY <1>2, <1>3, <1>4
    <2>2. q[t - k] % UintSize = q[t - k]
      <3>1. q[t - k] < UintSize
        BY <1>1, <1>2
      <3> QED
        BY <1>1, <1>2, <3>1, RemainderOfLess
    <2> QED
      BY <1>2, <2>1, <2>2
  <1>6. ASSUME NEW k \in 1 .. t, base = 10
        PROVE  read[k][q[t - (k - 1)]] = q[t - k]
    <2>1. read[k][q[t - (k - 1)]] = q[t - (k - 1)] * base + (q[t - k] % base)
      BY <1>2, <1>3, <1>4, <1>6
    <2> QED
      BY <1>2, <2>1
  <1>7. StrToInt(text) = Loop(t, wrapped, 0)
    BY <1>3 DEF StrToInt
  <1>8. base = 10 => Stoi(text) = Loop(t, read, 0)
    BY <1>3 DEF Stoi
  <1> HIDE DEF wrapped, read
  <1>9. Loop(t, wrapped, 0) = num
    BY <1>1, <1>5, ReadsBack DEF q
  <1>10. base = 10 => Loop(t, read, 0) = num
    BY <1>1, <1>6, ReadsBack DEF q
  <1> QED
    BY <1>7, <1>8, <1>9, <1>10 DEF text, digits, q

\* The text of 0 has a digit.
LEMMA ZeroReadsBack ==
  StrToInt(Text(10, <<0>>)) = 0 /\ Stoi(Text(10, <<0>>)) = 0
  <1> DEFINE text == Text(10, <<0>>)
             wrapped == [k \in 1 .. 1 |-> [res \in Nat |-> (res * text.base + text.digits[k]) % UintSize]]
             read == [k \in 1 .. 1 |-> [res \in Nat |-> res * 10 + text.digits[k]]]
  <1>1. text.base = 10 /\ text.digits = <<0>> /\ Len(<<0>>) = 1
    BY DEF Text
  <1>2. UintSize \in Nat \ {0} /\ 0 % UintSize = 0
    BY SizeIs, RemainderOfLess
  <1> HIDE DEF text
  <1>3. wrapped[1][0] = 0 /\ read[1][0] = 0
    BY <1>1, <1>2
  <1>4. StrToInt(text) = Loop(1, wrapped, 0) /\ Stoi(text) = Loop(1, read, 0)
    BY <1>1 DEF StrToInt, Stoi
  <1> HIDE DEF wrapped, read
  <1>5. ASSUME NEW step, step[1][0] = 0
        PROVE  Loop(1, step, 0) = 0
    <2>1. Turns(1, step, 0)[0] = 0 /\ Turns(1, step, 0)[1] = step[1][Turns(1, step, 0)[1 - 1]]
      BY TurnsAre
    <2> QED
      BY <1>5, <2>1 DEF Loop
  <1> QED
    BY <1>3, <1>4, <1>5 DEF text

-----------------------------------------------------------------------------
(* The bytes of a number.                                                  *)

\* The bytes of a number are its quotients by 256.
LEMMA NumberBytesAre ==
  ASSUME NEW num \in 0 .. UintSize - 1
  PROVE  /\ NumberBytes(num, Nibbles \div 2) = [j \in 1 .. Nibbles \div 2 |-> Quotients(num, 256)[Nibbles \div 2 - j] % 256]
         /\ \A i \in 0 .. Nibbles \div 2 : Quotients(num, 256)[i] = Quotients(num, 16)[2 * i]
  <1> DEFINE h == Nibbles \div 2
             q == Quotients(num, 256)
             p == Quotients(num, 16)
             array == Digits(num, 256)
             S == {i \in 0 .. h : q[i] = p[2 * i]}
  <1>1. /\ h \in Nat \ {0} /\ Nibbles = 2 * h /\ Nibbles \in Nat
        /\ num \in Nat /\ 16 \in Bases /\ 256 \in Bases
    BY SizeIs DEF Bases
  <1>2. /\ q[0] = num /\ \A k \in 0 .. 4 * Nibbles : q[k] \in Nat
        /\ \A k \in 1 .. 4 * Nibbles : q[k] = q[k - 1] \div 256
    BY <1>1, QuotientsAre
  <1>3. /\ p[0] = num /\ \A k \in 0 .. 4 * Nibbles : p[k] \in Nat
        /\ \A k \in 1 .. 4 * Nibbles : p[k] = p[k - 1] \div 16
    BY <1>1, QuotientsAre
  <1>4. p[Nibbles] = 0
    BY <1>1, QuotientsEnd
  <1> HIDE DEF h, q, p, array
  <1>5. 0 \in S
    BY <1>1, <1>2, <1>3, 2 * 0 = 0
  <1>6. ASSUME NEW i \in 0 .. h - 1, i \in S
        PROVE  i + 1 \in S
    <2>1. /\ i + 1 \in 1 .. 4 * Nibbles /\ (i + 1) - 1 = i /\ i \in 0 .. 4 * Nibbles /\ i + 1 \in 0 .. h
          /\ 2 * i + 1 \in 1 .. 4 * Nibbles /\ (2 * i + 1) - 1 = 2 * i /\ 2 * i \in 0 .. 4 * Nibbles
          /\ 2 * (i + 1) \in 1 .. 4 * Nibbles /\ 2 * (i + 1) - 1 = 2 * i + 1
      BY <1>1
    <2>2. q[i + 1] = q[i] \div 256 /\ q[i] = p[2 * i] /\ p[2 * i] \in Nat
      BY <1>2, <1>3, <1>6, <2>1
    <2>3. p[2 * (i + 1)] = p[2 * i + 1] \div 16 /\ p[2 * i + 1] = p[2 * i] \div 16
      BY <1>3, <2>1
    <2>4. \A v \in Nat : (v \div 16) \div 16 = v \div 256
      OBVIOUS
    <2> QED
      BY <2>1, <2>2, <2>3, <2>4
  <1>7. 0 .. h \subseteq S
    <2> HIDE DEF S
    <2> QED
      BY <1>1, <1>5, <1>6, InductionTo
  <1>8. q[h] = 0
    BY <1>1, <1>4, <1>7
  <1>9. PICK t \in 0 .. h :
          /\ q[t] = 0
          /\ array = [k \in 1 .. t |-> q[k - 1] % 256]
          /\ Len(array) = t
    <2>1. h \in 0 .. 4 * Nibbles
      BY <1>1
    <2> QED
      BY <1>1, <1>8, <2>1, DigitsAre DEF q, array
  <1>10. \A k \in t .. 4 * Nibbles : q[k] = 0
    <2>1. t \in 0 .. 4 * Nibbles
      BY <1>1
    <2> QED
      BY <1>1, <1>9, <2>1, NothingIsLeft DEF q
  <1> DEFINE filled == [i \in 1 .. h |-> IF i <= t THEN array[i] ELSE 0]
  <1>11. (IF t < h THEN h ELSE t) = h
    BY <1>1, <1>9
  <1>12. NumberBytes(num, h) = Reverse(filled)
    <2> DEFINE bytes(n, m) == [i \in 1 .. m |-> IF i <= n THEN array[i] ELSE 0]
    <2>1. NumberBytes(num, h) = Reverse(bytes(Len(array), IF Len(array) < h THEN h ELSE Len(array)))
      BY Zenon DEF NumberBytes, array
    <2>2. filled = bytes(t, h)
      OBVIOUS
    <2> HIDE DEF bytes, filled
    <2> QED
      BY <1>9, <1>11, <2>1, <2>2, Zenon
  <1>13. \A i \in 1 .. h : filled[i] = q[i - 1] % 256
    <2> TAKE i \in 1 .. h
    <2>1. CASE i <= t
      BY <1>1, <1>9, <2>1
    <2>2. CASE ~(i <= t)
      <3>1. i - 1 \in t .. 4 * Nibbles
        BY <1>1, <1>9, <2>2
      <3>2. q[i - 1] = 0 /\ 0 % 256 = 0
        BY <1>10, <3>1
      <3> QED
        BY <2>2, <3>2
    <2> QED
      BY <2>1, <2>2
  <1>14. Len(filled) = h
    BY <1>1
  <1> HIDE DEF filled
  <1>15. Reverse(filled) = [j \in 1 .. h |-> filled[(h - j) + 1]]
    BY <1>14 DEF Reverse
  <1>16. \A j \in 1 .. h : filled[(h - j) + 1] = q[h - j] % 256
    <2> TAKE j \in 1 .. h
    <2>1. (h - j) + 1 \in 1 .. h /\ ((h - j) + 1) - 1 = h - j
      BY <1>1
    <2> QED
      BY <1>13, <2>1
  <1>17. NumberBytes(num, h) = [j \in 1 .. h |-> q[h - j] % 256]
    BY <1>12, <1>15, <1>16
  <1> QED
    BY <1>7, <1>17 DEF h, q, p

\* Two digits of the hexadecimal text are a byte of the number.
LEMMA HexIsBytes ==
  ASSUME NEW num \in 0 .. UintSize - 1
  PROVE  HexstrToBytes(Uint32ipToHex(num)) = NumberBytes(num, Nibbles \div 2)
  <1> DEFINE h == Nibbles \div 2
             q == Quotients(num, 256)
             p == Quotients(num, 16)
             digits == [k \in 1 .. Nibbles |-> p[Nibbles - k] % 16]
  <1>1. /\ h \in Nat \ {0} /\ Nibbles = 2 * h /\ Nibbles \in Nat
        /\ num \in Nat /\ 16 \in Bases
    BY SizeIs DEF Bases
  <1>2. Uint32ipToHex(num) = Text(16, digits)
    BY HexDigits
  <1>3. NumberBytes(num, h) = [j \in 1 .. h |-> q[h - j] % 256]
    BY NumberBytesAre
  <1>4. \A i \in 0 .. h : q[i] = p[2 * i]
    BY NumberBytesAre
  <1>5. /\ \A k \in 0 .. 4 * Nibbles : p[k] \in Nat
        /\ \A k \in 1 .. 4 * Nibbles : p[k] = p[k - 1] \div 16
    BY <1>1, QuotientsAre
  <1>6. Len(digits) = Nibbles /\ Len(digits) \div 2 = h
    BY <1>1
  <1>7. \A k \in 1 .. Nibbles : digits[k] = p[Nibbles - k] % 16
    OBVIOUS
  <1> HIDE DEF h, q, p, digits
  <1>8. HexstrToBytes(Text(16, digits)) = [j \in 1 .. h |-> digits[2 * j - 1] * 16 + digits[2 * j]]
    BY <1>6 DEF HexstrToBytes, Text
  <1>9. \A j \in 1 .. h : digits[2 * j - 1] * 16 + digits[2 * j] = q[h - j] % 256
    <2> TAKE j \in 1 .. h
    <2> DEFINE v == p[Nibbles - 2 * j]
    <2>1. /\ 2 * j - 1 \in 1 .. Nibbles /\ 2 * j \in 1 .. Nibbles /\ h - j \in 0 .. h
          /\ Nibbles - (2 * j - 1) \in 1 .. 4 * Nibbles /\ (Nibbles - (2 * j - 1)) - 1 = Nibbles - 2 * j
          /\ Nibbles - 2 * j \in 0 .. 4 * Nibbles /\ 2 * (h - j) = Nibbles - 2 * j
      BY <1>1
    <2>2. digits[2 * j] = v % 16 /\ v \in Nat /\ q[h - j] = v
      BY <1>4, <1>5, <1>7, <2>1
    <2>3. digits[2 * j - 1] = (v \div 16) % 16
      BY <1>5, <1>7, <2>1
    <2> HIDE DEF v
    <2>4. ((v \div 16) % 16) * 16 + (v % 16) = v % 256
      BY <2>2
    <2> QED
      BY <2>2, <2>3, <2>4
  <1> QED
    BY <1>2, <1>3, <1>8, <1>9 DEF h

\* A number survives its texts.
LEMMA NumberSurvives ==
  ASSUME NEW num \in 0 .. UintSize - 1
  PROVE  /\ ParseParam(Uint32ipToHex(num), 32) = NumberBytes(num, Nibbles \div 2)
         /\ StrToInt(Uint32ipToHex(num)) = num
         /\ StrToInt(UintToString(num)) = num
         /\ num < UintSize \div 2 =>
              ParseParam(UintToString(num), 4 * Nibbles - 1) = NumberBytes(num, Nibbles \div 2)
  <1>1. ParseParam(Uint32ipToHex(num), 32) = NumberBytes(num, Nibbles \div 2)
    BY HexIsBytes DEF ParseParam
  <1>2. num \in Nat /\ Nibbles \in 0 .. 4 * Nibbles /\ 4 * Nibbles \in 0 .. 4 * Nibbles
    BY SizeIs
  <1>3. Quotients(num, 16)[Nibbles] = 0 /\ Quotients(num, 10)[4 * Nibbles] = 0
    BY QuotientsEnd DEF Bases
  <1>4. StrToInt(Uint32ipToHex(num)) = num
    <2> DEFINE text == Text(16, [k \in 1 .. Nibbles |-> Quotients(num, 16)[Nibbles - k] % 16])
    <2>1. StrToInt(text) = num
      BY <1>2, <1>3, TextReadsBack
    <2> QED
      BY <2>1, HexDigits
  <1>5. StrToInt(UintToString(num)) = num /\ Stoi(UintToString(num)) = num
    <2>1. CASE num = 0
      BY <2>1, ZeroReadsBack DEF UintToString
    <2>2. CASE num # 0
      <3>1. PICK t \in 0 .. 4 * Nibbles :
              /\ Quotients(num, 10)[t] = 0
              /\ UintToString(num) = Text(10, [k \in 1 .. t |-> Quotients(num, 10)[t - k] % 10])
        BY <1>2, <1>3, <2>2, DecimalDigits
      <3> DEFINE text == Text(10, [k \in 1 .. t |-> Quotients(num, 10)[t - k] % 10])
      <3>2. StrToInt(text) = num /\ Stoi(text) = num
        BY <3>1, TextReadsBack
      <3> QED
        BY <3>1, <3>2
    <2> QED
      BY <2>1, <2>2
  <1>6. ASSUME num < UintSize \div 2
        PROVE  ParseParam(UintToString(num), 4 * Nibbles - 1) = NumberBytes(num, Nibbles \div 2)
    <2>1. 4 * Nibbles - 1 # 32 /\ Bytes(4 * Nibbles - 1) = Nibbles \div 2
      BY SizeIs DEF Bytes
    <2> QED
      BY <1>5, <1>6, <2>1 DEF ParseParam, IntToBytes
  <1> QED
    BY <1>1, <1>4, <1>5, <1>6

-----------------------------------------------------------------------------
(* The first bits of a text.                                               *)

\* Leaving out the last bits of a number is dividing it by what they count to.
LEMMA BitsLeftOut ==
  ASSUME NEW num \in Nat
  PROVE  \A k \in 0 .. Nibbles, i \in Nat :
           num \div PowerOfTwo(4 * k + i) = Quotients(num, 16)[k] \div PowerOfTwo(i)
  <1> DEFINE p == Quotients(num, 16)
             S == {k \in 0 .. Nibbles : num \div PowerOfTwo(4 * k) = p[k]}
  <1>1. Nibbles \in Nat /\ 16 \in Bases
    BY SizeIs, ConversionsAssumption DEF Bases
  <1>2. /\ p[0] = num
        /\ \A k \in 1 .. 4 * Nibbles : p[k] = p[k - 1] \div 16
    BY <1>1, QuotientsAre
  <1>3. ASSUME NEW m \in Nat, NEW i \in Nat
        PROVE  num \div PowerOfTwo(m + i) = (num \div PowerOfTwo(m)) \div PowerOfTwo(i)
    <2>1. PowerOfTwo(m + i) = PowerOfTwo(i) * PowerOfTwo(m)
      BY PowersOfTwoMultiply
    <2>2. PowerOfTwo(m) \in Nat \ {0} /\ PowerOfTwo(i) \in Nat \ {0}
      BY PowersOfTwo
    <2>3. num \div (PowerOfTwo(i) * PowerOfTwo(m)) = (num \div PowerOfTwo(m)) \div PowerOfTwo(i)
      BY <2>2, DividedTwice
    <2> QED
      BY <2>1, <2>3, Zenon
  <1> HIDE DEF p
  <1>4. 0 \in S
    <2>1. PowerOfTwo(4 * 0) = 1 /\ num \div 1 = num
      BY SmallPowersOfTwo
    <2> QED
      BY <1>1, <1>2, <2>1
  <1>5. ASSUME NEW k \in 0 .. Nibbles - 1, k \in S
        PROVE  k + 1 \in S
    <2>1. k + 1 \in 1 .. 4 * Nibbles /\ (k + 1) - 1 = k /\ k + 1 \in 0 .. Nibbles /\ 4 * k \in Nat /\ 4 * (k + 1) = 4 * k + 4
      BY <1>1
    <2>2. num \div PowerOfTwo(4 * k + 4) = (num \div PowerOfTwo(4 * k)) \div PowerOfTwo(4)
      BY <1>3, <2>1
    <2>3. num \div PowerOfTwo(4 * (k + 1)) = p[k + 1]
      BY <1>2, <1>5, <2>1, <2>2, SmallPowersOfTwo
    <2> QED
      BY <2>1, <2>3
  <1>6. 0 .. Nibbles \subseteq S
    <2> HIDE DEF S
    <2> QED
      BY <1>1, <1>4, <1>5, InductionTo
  <1>7. \A k \in 0 .. Nibbles : 4 * k \in Nat /\ num \div PowerOfTwo(4 * k) = p[k]
    BY <1>6
  <1>8. \A k \in 0 .. Nibbles, i \in Nat : num \div PowerOfTwo(4 * k + i) = p[k] \div PowerOfTwo(i)
    BY <1>3, <1>7
  <1> QED
    BY <1>8 DEF p

\* The two digits of a byte v, the first bits of them.
LEMMA FirstBits ==
  ASSUME NEW v \in Nat, NEW text, NEW j, NEW left \in 1 .. 8,
         Digit(text, 2 * j - 1) = (v \div 16) % 16, Digit(text, 2 * j) = v % 16
  PROVE  (v \div 256) * 256 + PartialByte(text, j, left)
           = (v \div PowerOfTwo(8 - left)) * PowerOfTwo(8 - left)
  <1> DEFINE a == (v \div 16) % 16
             b == v % 16
             c == v \div 256
             part == PartialByte(text, j, left)
             power == PowerOfTwo(8 - left)
  <1>1. a \in 0 .. 15 /\ b \in 0 .. 15 /\ c \in Nat /\ v = c * 256 + a * 16 + b
    OBVIOUS
  <1> HIDE DEF a, b, c, part, power
  <1>2. ASSUME NEW d \in Nat
        PROVE  /\ HighBits(d, 0) = (d \div 16) * 16 /\ HighBits(d, 1) = (d \div 8) * 8
               /\ HighBits(d, 2) = (d \div 4) * 4 /\ HighBits(d, 3) = (d \div 2) * 2
               /\ HighBits(d, 4) = d
    <2>1. 4 - 0 = 4 /\ 4 - 1 = 3 /\ 4 - 2 = 2 /\ 4 - 3 = 1 /\ 4 - 4 = 0
      OBVIOUS
    <2>2. HighBits(d, 4) = (d \div 1) * 1 /\ (d \div 1) * 1 = d
      BY <2>1, SmallPowersOfTwo DEF HighBits
    <2> QED
      BY <2>1, <2>2, SmallPowersOfTwo DEF HighBits
  <1>3. part = IF left <= 4 THEN HighBits(a, left) * 16 ELSE a * 16 + HighBits(b, left - 4)
    BY DEF PartialByte, a, b, part
  <1> SUFFICES c * 256 + part = (v \div power) * power
    BY DEF c, part, power
  <1>4. left \in {1, 2, 3, 4, 5, 6, 7, 8}
    OBVIOUS
  <1>5. CASE left = 1
    <2>1. part = HighBits(a, 1) * 16
      BY <1>3, <1>5
    <2>2. HighBits(a, 1) = ((a \div 8) * 8)
      BY <1>1, <1>2
    <2>3. power = 128
      BY <1>5, 8 - left = 7, SmallPowersOfTwo DEF power
    <2>4. c * 256 + (((a \div 8) * 8) * 16) = (v \div 128) * 128
      BY <1>1
    <2> QED
      BY <2>1, <2>2, <2>3, <2>4, Zenon
  <1>6. CASE left = 2
    <2>1. part = HighBits(a, 2) * 16
      BY <1>3, <1>6
    <2>2. HighBits(a, 2) = ((a \div 4) * 4)
      BY <1>1, <1>2
    <2>3. power = 64
      BY <1>6, 8 - left = 6, SmallPowersOfTwo DEF power
    <2>4. c * 256 + (((a \div 4) * 4) * 16) = (v \div 64) * 64
      BY <1>1
    <2> QED
      BY <2>1, <2>2, <2>3, <2>4, Zenon
  <1>7. CASE left = 3
    <2>1. part = HighBits(a, 3) * 16
      BY <1>3, <1>7
    <2>2. HighBits(a, 3) = ((a \div 2) * 2)
      BY <1>1, <1>2
    <2>3. power = 32
      BY <1>7, 8 - left = 5, SmallPowersOfTwo DEF power
    <2>4. c * 256 + (((a \div 2) * 2) * 16) = (v \div 32) * 32
      BY <1>1
    <2> QED
      BY <2>1, <2>2, <2>3, <2>4, Zenon
  <1>8. CASE left = 4
    <2>1. part = HighBits(a, 4) * 16
      BY <1>3, <1>8
    <2>2. HighBits(a, 4) = a
      BY <1>1, <1>2
    <2>3. power = 16
      BY <1>8, 8 - left = 4, SmallPowersOfTwo DEF power
    <2>4. c * 256 + (a * 16) = (v \div 16) * 16
      BY <1>1
    <2> QED
      BY <2>1, <2>2, <2>3, <2>4, Zenon
  <1>9. CASE left = 5
    <2>1. part = a * 16 + HighBits(b, 1)
      BY <1>3, <1>9, left - 4 = 1
    <2>2. HighBits(b, 1) = ((b \div 8) * 8)
      BY <1>1, <1>2
    <2>3. power = 8
      BY <1>9, 8 - left = 3, SmallPowersOfTwo DEF power
    <2>4. c * 256 + (a * 16 + ((b \div 8) * 8)) = (v \div 8) * 8
      BY <1>1
    <2> QED
      BY <2>1, <2>2, <2>3, <2>4, Zenon
  <1>10. CASE left = 6
    <2>1. part = a * 16 + HighBits(b, 2)
      BY <1>3, <1>10, left - 4 = 2
    <2>2. HighBits(b, 2) = ((b \div 4) * 4)
      BY <1>1, <1>2
    <2>3. power = 4
      BY <1>10, 8 - left = 2, SmallPowersOfTwo DEF power
    <2>4. c * 256 + (a * 16 + ((b \div 4) * 4)) = (v \div 4) * 4
      BY <1>1
    <2> QED
      BY <2>1, <2>2, <2>3, <2>4, Zenon
  <1>11. CASE left = 7
    <2>1. part = a * 16 + HighBits(b, 3)
      BY <1>3, <1>11, left - 4 = 3
    <2>2. HighBits(b, 3) = ((b \div 2) * 2)
      BY <1>1, <1>2
    <2>3. power = 2
      BY <1>11, 8 - left = 1, SmallPowersOfTwo DEF power
    <2>4. c * 256 + (a * 16 + ((b \div 2) * 2)) = (v \div 2) * 2
      BY <1>1
    <2> QED
      BY <2>1, <2>2, <2>3, <2>4, Zenon
  <1>12. CASE left = 8
    <2>1. part = a * 16 + HighBits(b, 4)
      BY <1>3, <1>12, left - 4 = 4
    <2>2. HighBits(b, 4) = b
      BY <1>1, <1>2
    <2>3. power = 1
      BY <1>12, 8 - left = 0, SmallPowersOfTwo DEF power
    <2>4. c * 256 + (a * 16 + b) = (v \div 1) * 1
      BY <1>1
    <2> QED
      BY <2>1, <2>2, <2>3, <2>4, Zenon
  <1> QED
    BY <1>4, <1>5, <1>6, <1>7, <1>8, <1>9, <1>10, <1>11, <1>12

\* A key of this width is the number without the other bits, moved to the
\* front of its last byte.
LEMMA KeyIs ==
  ASSUME NEW num \in 0 .. UintSize - 1, NEW bitWidth \in 1 .. 4 * Nibbles
  PROVE  ValueOf(HexstrToBytesOfWidth(Uint32ipToHex(num), bitWidth))
           = (num \div PowerOfTwo(4 * Nibbles - bitWidth)) * PowerOfTwo(8 * Bytes(bitWidth) - bitWidth)
  <1> DEFINE n == Bytes(bitWidth)
             p == Quotients(num, 16)
             digits == [k \in 1 .. Nibbles |-> p[Nibbles - k] % 16]
             text == Text(16, digits)
             last == bitWidth - 8 * (n - 1)
             key == [j \in 1 .. n |-> IF 8 * j < bitWidth THEN Digit(text, 2 * j - 1) * 16 + Digit(text, 2 * j)
                                                        ELSE PartialByte(text, j, bitWidth - 8 * (j - 1))]
             step == [k \in 1 .. n |-> [value \in Nat |-> value * 256 + key[k]]]
             v == Turns(n, step, 0)
             S == {j \in 0 .. n - 1 : v[j] = p[Nibbles - 2 * j]}
  <1>1. /\ Nibbles \in Nat \ {0} /\ Nibbles % 2 = 0 /\ num \in Nat /\ 16 \in Bases
        /\ bitWidth \in Nat \ {0} /\ bitWidth <= 4 * Nibbles
    BY SizeIs, ConversionsAssumption DEF Bases
  <1>2. /\ n \in Nat \ {0} /\ 2 * n <= Nibbles
        /\ 8 * (n - 1) < bitWidth /\ bitWidth <= 8 * n
        /\ last \in 1 .. 8
    BY <1>1 DEF Bytes
  <1>3. /\ \A k \in 0 .. 4 * Nibbles : p[k] \in Nat
        /\ \A k \in 1 .. 4 * Nibbles : p[k] = p[k - 1] \div 16
    BY <1>1, QuotientsAre
  <1>4. p[Nibbles] = 0
    BY <1>1, QuotientsEnd
  <1>5. Uint32ipToHex(num) = text
    BY HexDigits
  <1>6. \A k \in 1 .. Nibbles : Digit(text, k) = p[Nibbles - k] % 16
    <2>1. text.digits = digits /\ Len(digits) = Nibbles
      BY <1>1 DEF Text
    <2>2. \A k \in 1 .. Nibbles : digits[k] = p[Nibbles - k] % 16
      OBVIOUS
    <2> QED
      BY <1>1, <2>1, <2>2 DEF Digit
  <1> HIDE DEF p, digits, text
  <1>7. HexstrToBytesOfWidth(text, bitWidth) = key
    BY DEF HexstrToBytesOfWidth
  \* What two digits of the text are.
  <1>8. ASSUME NEW j \in 1 .. n
        PROVE  /\ Nibbles - 2 * j \in 0 .. Nibbles
               /\ p[Nibbles - 2 * j] \in Nat
               /\ Digit(text, 2 * j) = p[Nibbles - 2 * j] % 16
               /\ Digit(text, 2 * j - 1) = (p[Nibbles - 2 * j] \div 16) % 16
               /\ p[Nibbles - 2 * (j - 1)] = p[Nibbles - 2 * j] \div 256
    <2>1. /\ 2 * j \in 1 .. Nibbles /\ 2 * j - 1 \in 1 .. Nibbles
          /\ Nibbles - 2 * j \in 0 .. Nibbles /\ Nibbles - 2 * j \in 0 .. 4 * Nibbles
          /\ Nibbles - (2 * j - 1) \in 1 .. 4 * Nibbles /\ (Nibbles - (2 * j - 1)) - 1 = Nibbles - 2 * j
          /\ Nibbles - 2 * (j - 1) \in 1 .. 4 * Nibbles /\ (Nibbles - 2 * (j - 1)) - 1 = Nibbles - (2 * j - 1)
      BY <1>1, <1>2
    <2>2. p[Nibbles - (2 * j - 1)] = p[Nibbles - 2 * j] \div 16 /\ p[Nibbles - 2 * j] \in Nat
      BY <1>3, <2>1
    <2>3. p[Nibbles - 2 * (j - 1)] = p[Nibbles - (2 * j - 1)] \div 16
      BY <1>3, <2>1
    <2>4. \A w \in Nat : (w \div 16) \div 16 = w \div 256
      OBVIOUS
    <2>5. p[Nibbles - 2 * (j - 1)] = p[Nibbles - 2 * j] \div 256
      BY <2>2, <2>3, <2>4
    <2>6. Digit(text, 2 * j) = p[Nibbles - 2 * j] % 16 /\ Digit(text, 2 * j - 1) = p[Nibbles - (2 * j - 1)] % 16
      BY <1>6, <2>1
    <2>7. Digit(text, 2 * j - 1) = (p[Nibbles - 2 * j] \div 16) % 16
      BY <2>2, <2>6, Zenon
    <2> QED
      BY <2>1, <2>2, <2>5, <2>6, <2>7
  <1>9. v[0] = 0 /\ \A k \in 1 .. n : v[k] = step[k][v[k - 1]]
    <2> HIDE DEF step
    <2> QED
      BY <1>2, TurnsAre
  <1>10. \A k \in 1 .. n : \A w \in Nat : step[k][w] = w * 256 + key[k]
    OBVIOUS
  <1>11. /\ \A j \in 1 .. n - 1 : key[j] = Digit(text, 2 * j - 1) * 16 + Digit(text, 2 * j)
         /\ key[n] = PartialByte(text, n, last)
    <2>1. \A j \in 1 .. n - 1 : j \in 1 .. n /\ 8 * j < bitWidth
      BY <1>1, <1>2
    <2>2. n \in 1 .. n /\ ~(8 * n < bitWidth)
      BY <1>1, <1>2
    <2> HIDE DEF n
    <2> QED
      BY <2>1, <2>2
  <1>12. ValueOf(key) = v[n]
    <2>1. Len(key) = n
      BY <1>2
    <2> QED
      BY <2>1 DEF ValueOf, Loop
  <1>13. 8 * n - bitWidth = 8 - last /\ 4 * Nibbles - bitWidth = 4 * (Nibbles - 2 * n) + (8 - last)
    BY <1>1, <1>2
  <1> HIDE DEF n, last, key, step, v
  <1>14. 0 \in S
    BY <1>1, <1>2, <1>4, <1>9, Nibbles - 2 * 0 = Nibbles
  <1>15. ASSUME NEW j \in 0 .. (n - 1) - 1, j \in S
         PROVE  j + 1 \in S
    <2> DEFINE w == p[Nibbles - 2 * (j + 1)]
    <2>1. j + 1 \in 1 .. n /\ j + 1 \in 1 .. n - 1 /\ (j + 1) - 1 = j /\ j + 1 \in 0 .. n - 1
      BY <1>2
    <2>2. /\ w \in Nat /\ Digit(text, 2 * (j + 1)) = w % 16 /\ Digit(text, 2 * (j + 1) - 1) = (w \div 16) % 16
          /\ v[j] = w \div 256
      BY <1>8, <1>15, <2>1
    <2>3. v[j + 1] = step[j + 1][v[j]] /\ v[j] \in Nat
      BY <1>9, <2>1, <2>2
    <2>4. v[j + 1] = (w \div 256) * 256 + (((w \div 16) % 16) * 16 + (w % 16))
      BY <1>10, <1>11, <2>1, <2>2, <2>3
    <2> HIDE DEF w
    <2>5. (w \div 256) * 256 + (((w \div 16) % 16) * 16 + (w % 16)) = w
      BY <2>2
    <2>6. v[j + 1] = w
      BY <2>4, <2>5
    <2> QED
      BY <2>1, <2>6 DEF w
  <1>16. 0 .. n - 1 \subseteq S
    <2>1. n - 1 \in Nat
      BY <1>2
    <2> HIDE DEF S
    <2> QED
      BY <1>14, <1>15, <2>1, InductionTo
  \* The last byte.
  <1> DEFINE w == p[Nibbles - 2 * n]
             r == 8 - last
  <1>17. /\ n \in 1 .. n /\ n - 1 \in 0 .. n - 1 /\ Nibbles - 2 * n \in 0 .. Nibbles
         /\ w \in Nat /\ Digit(text, 2 * n) = w % 16 /\ Digit(text, 2 * n - 1) = (w \div 16) % 16
         /\ v[n - 1] = w \div 256
    BY <1>2, <1>8, <1>16
  <1>18. v[n] = (w \div 256) * 256 + PartialByte(text, n, last)
    <2>1. n \in 1 .. n /\ v[n] = step[n][v[n - 1]]
      BY <1>9, <1>17
    <2>2. v[n - 1] \in Nat
      BY <1>17
    <2>3. v[n] = v[n - 1] * 256 + key[n]
      BY <1>10, <2>1, <2>2
    <2> QED
      BY <1>11, <1>17, <2>3
  <1>19. v[n] = (w \div PowerOfTwo(r)) * PowerOfTwo(r)
    <2> HIDE DEF w
    <2> QED
      BY <1>2, <1>17, <1>18, FirstBits
  <1>20. num \div PowerOfTwo(4 * (Nibbles - 2 * n) + r) = w \div PowerOfTwo(r)
    <2> DEFINE k == Nibbles - 2 * n
    <2>1. r \in Nat /\ k \in 0 .. Nibbles /\ num \in Nat
      BY <1>1, <1>2, <1>17
    <2> HIDE DEF k, r
    <2>2. num \div PowerOfTwo(4 * k + r) = Quotients(num, 16)[k] \div PowerOfTwo(r)
      BY <2>1, BitsLeftOut
    <2> QED
      BY <2>2, Zenon DEF p, k
  <1>21. ValueOf(key) = (num \div PowerOfTwo(4 * Nibbles - bitWidth)) * PowerOfTwo(8 * n - bitWidth)
    BY <1>12, <1>13, <1>19, <1>20, Zenon
  <1> QED
    BY <1>5, <1>7, <1>21 DEF n

-----------------------------------------------------------------------------
(* The text of an address.                                                 *)

\* Where the characters of a part are in a text that continues behind it.
LEMMA PartAppended ==
  ASSUME NEW s \in Seq(Nat), NEW part \in Seq(Nat)
  PROVE  /\ s \o part \in Seq(Nat) /\ Len(s \o part) = Len(s) + Len(part)
         /\ Len(s) \in Nat /\ Len(part) \in Nat
         /\ \A k \in 1 .. Len(s) : (s \o part)[k] = s[k]
         /\ \A k \in 1 .. Len(part) : (s \o part)[Len(s) + k] = part[k]
  <1>1. /\ s \o part \in Seq(Nat) /\ Len(s \o part) = Len(s) + Len(part)
        /\ \A i \in 1 .. Len(s) + Len(part) : (s \o part)[i] = IF i <= Len(s) THEN s[i] ELSE part[i - Len(s)]
    BY ConcatProperties
  <1>2. Len(s) \in Nat /\ Len(part) \in Nat
    BY LenProperties
  <1>3. \A k \in 1 .. Len(s) : k \in 1 .. Len(s) + Len(part) /\ k <= Len(s)
    BY <1>2
  <1>4. \A k \in 1 .. Len(part) :
          Len(s) + k \in 1 .. Len(s) + Len(part) /\ ~(Len(s) + k <= Len(s)) /\ (Len(s) + k) - Len(s) = k
    BY <1>2
  <1>5. \A k \in 1 .. Len(s) : (s \o part)[k] = s[k]
    BY <1>1, <1>3
  <1>6. \A k \in 1 .. Len(part) : (s \o part)[Len(s) + k] = part[k]
    BY <1>1, <1>4
  <1> QED
    BY <1>1, <1>2, <1>5, <1>6

\* An address as Dotted writes it, of any parts.
Joined(p1, p2, p3, p4) == p1 \o <<Dot>> \o p2 \o <<Dot>> \o p3 \o <<Dot>> \o p4

\* The part stands in s behind the first off characters, and a dot at next
\* behind the part.
Stands(s, off, part) ==
  /\ off \in Nat /\ off + Len(part) <= Len(s)
  /\ \A k \in 1 .. Len(part) : s[off + k] = part[k]

DotBehind(s, off, part, next) == next = off + Len(part) + 1 /\ next <= Len(s) /\ s[next] = Dot

\* Where the four parts stand.
Layout(s, p1, p2, p3, p4, o2, o3, o4) ==
  /\ Stands(s, 0, p1) /\ Stands(s, o2, p2) /\ Stands(s, o3, p3) /\ Stands(s, o4, p4)
  /\ DotBehind(s, 0, p1, o2) /\ DotBehind(s, o2, p2, o3) /\ DotBehind(s, o3, p3, o4)
  /\ Len(s) = o4 + Len(p4)

\* The parts of an address stand one after the other, with dots between.
LEMMA FourParts ==
  ASSUME NEW p1 \in Seq(Nat), NEW p2 \in Seq(Nat), NEW p3 \in Seq(Nat), NEW p4 \in Seq(Nat),
         NEW s, s = Joined(p1, p2, p3, p4)
  PROVE  Len(s) \in Nat /\ \E o2, o3, o4 : Layout(s, p1, p2, p3, p4, o2, o3, o4)
  <1> DEFINE o2 == Len(p1) + 1
             o3 == o2 + Len(p2) + 1
             o4 == o3 + Len(p3) + 1
  <1> DEFINE d == <<Dot>>
             s2 == p1 \o d
             s3 == s2 \o p2
             s4 == s3 \o d
             s5 == s4 \o p3
             s6 == s5 \o d
             Follows(t, u, v) ==
               /\ Len(u) = Len(t) + Len(v) /\ Len(t) \in Nat /\ Len(v) \in Nat
               /\ \A k \in 1 .. Len(t) : u[k] = t[k]
               /\ \A k \in 1 .. Len(v) : u[Len(t) + k] = v[k]
  <1>1. d \in Seq(Nat) /\ Len(d) = 1 /\ d[1] = Dot /\ 1 \in 1 .. Len(d)
    BY DEF Dot
  <1>2. ASSUME NEW t \in Seq(Nat), NEW u \in Seq(Nat)
        PROVE  t \o u \in Seq(Nat) /\ Follows(t, t \o u, u)
    BY PartAppended
  <1> HIDE DEF d, Follows
  <1>3. s2 \in Seq(Nat) /\ Follows(p1, s2, d)
    BY <1>2, <1>1
  <1> HIDE DEF s2
  <1>4. s3 \in Seq(Nat) /\ Follows(s2, s3, p2)
    BY <1>2, <1>3
  <1> HIDE DEF s3
  <1>5. s4 \in Seq(Nat) /\ Follows(s3, s4, d)
    BY <1>2, <1>1, <1>4
  <1> HIDE DEF s4
  <1>6. s5 \in Seq(Nat) /\ Follows(s4, s5, p3)
    BY <1>2, <1>5
  <1> HIDE DEF s5
  <1>7. s6 \in Seq(Nat) /\ Follows(s5, s6, d)
    BY <1>2, <1>1, <1>6
  <1> HIDE DEF s6
  <1>8. s \in Seq(Nat) /\ Follows(s6, s, p4)
    <2>1. s = s6 \o p4
      BY DEF Joined, s6, s5, s4, s3, s2, d
    <2> QED
      BY <1>2, <1>7, <2>1
  <1>9. /\ Len(p1) \in Nat /\ Len(p2) \in Nat /\ Len(p3) \in Nat /\ Len(p4) \in Nat
        /\ o2 \in Nat /\ o3 \in Nat /\ o4 \in Nat
        /\ Len(s2) = o2 /\ Len(s3) = o2 + Len(p2) /\ Len(s4) = o3 /\ Len(s5) = o3 + Len(p3)
        /\ Len(s6) = o4 /\ Len(s) = o4 + Len(p4)
        /\ Len(p1) + 1 = o2 /\ Len(s3) + 1 = o3 /\ Len(s5) + 1 = o4
    BY <1>1, <1>3, <1>4, <1>5, <1>6, <1>7, <1>8 DEF Follows
  <1> HIDE DEF o2, o3, o4
  \* What is put behind changes nothing.
  <1>10. /\ \A k \in 1 .. Len(s6) : s[k] = s6[k]
         /\ \A k \in 1 .. Len(s5) : s[k] = s5[k]
         /\ \A k \in 1 .. Len(s4) : s[k] = s4[k]
         /\ \A k \in 1 .. Len(s3) : s[k] = s3[k]
         /\ \A k \in 1 .. Len(s2) : s[k] = s2[k]
         /\ \A k \in 1 .. Len(p1) : s[k] = p1[k]
    <2> DEFINE Starts(t) == \A k \in 1 .. Len(t) : s[k] = t[k]
    <2>1. ASSUME NEW t, NEW u, NEW v, Follows(t, u, v), Starts(u)
          PROVE  Starts(t)
      BY <2>1 DEF Follows
    <2>2. Starts(s6)
      BY <1>8 DEF Follows
    <2> HIDE DEF Starts
    <2>3. Starts(s5)
      BY <1>7, <2>1, <2>2
    <2>4. Starts(s4)
      BY <1>6, <2>1, <2>3
    <2>5. Starts(s3)
      BY <1>5, <2>1, <2>4
    <2>6. Starts(s2)
      BY <1>4, <2>1, <2>5
    <2>7. Starts(p1)
      BY <1>3, <2>1, <2>6
    <2> QED
      BY <2>2, <2>3, <2>4, <2>5, <2>6, <2>7 DEF Starts
  <1>11. s[o2] = Dot /\ s[o3] = Dot /\ s[o4] = Dot
    <2>1. s2[o2] = Dot /\ s4[o3] = Dot /\ s6[o4] = Dot
      BY <1>1, <1>3, <1>5, <1>7, <1>9 DEF Follows
    <2>2. o2 \in 1 .. Len(s2) /\ o3 \in 1 .. Len(s4) /\ o4 \in 1 .. Len(s6)
      BY <1>9
    <2> QED
      BY <1>10, <2>1, <2>2
  <1>12. \A k \in 1 .. Len(p2) : s[o2 + k] = p2[k]
    <2> TAKE k \in 1 .. Len(p2)
    <2>1. o2 + k \in 1 .. Len(s3)
      BY <1>9
    <2>2. s3[o2 + k] = p2[k]
      BY <1>4, <1>9 DEF Follows
    <2> QED
      BY <1>10, <2>1, <2>2
  <1>13. \A k \in 1 .. Len(p3) : s[o3 + k] = p3[k]
    <2> TAKE k \in 1 .. Len(p3)
    <2>1. o3 + k \in 1 .. Len(s5)
      BY <1>9
    <2>2. s5[o3 + k] = p3[k]
      BY <1>6, <1>9 DEF Follows
    <2> QED
      BY <1>10, <2>1, <2>2
  <1>14. \A k \in 1 .. Len(p4) : s[o4 + k] = p4[k]
    BY <1>8, <1>9 DEF Follows
  <1>15. /\ Stands(s, 0, p1) /\ Stands(s, o2, p2) /\ Stands(s, o3, p3) /\ Stands(s, o4, p4)
    <2>1. /\ Len(s) \in Nat /\ 0 \in Nat
          /\ 0 + Len(p1) <= Len(s) /\ o2 + Len(p2) <= Len(s)
          /\ o3 + Len(p3) <= Len(s) /\ o4 + Len(p4) <= Len(s)
      BY <1>9
    <2>2. \A k \in 1 .. Len(p1) : s[0 + k] = p1[k]
      <3> TAKE k \in 1 .. Len(p1)
      <3>1. 0 + k = k
        BY <1>9
      <3>2. s[k] = p1[k]
        BY <1>10
      <3> QED
        BY <3>1, <3>2
    <2>3. Stands(s, 0, p1)
      BY <2>1, <2>2 DEF Stands
    <2>4. Stands(s, o2, p2) /\ Stands(s, o3, p3) /\ Stands(s, o4, p4)
      BY <1>9, <1>12, <1>13, <1>14, <2>1 DEF Stands
    <2> QED
      BY <2>3, <2>4
  <1>16. /\ DotBehind(s, 0, p1, o2) /\ DotBehind(s, o2, p2, o3) /\ DotBehind(s, o3, p3, o4)
    <2>1. o2 = 0 + Len(p1) + 1 /\ o2 <= Len(s) /\ o3 <= Len(s) /\ o4 <= Len(s)
      BY <1>9 DEF o2, o3, o4
    <2>2. o3 = o2 + Len(p2) + 1 /\ o4 = o3 + Len(p3) + 1
      BY DEF o3, o4
    <2> QED
      BY <1>11, <2>1, <2>2 DEF DotBehind
  <1>17. Layout(s, p1, p2, p3, p4, o2, o3, o4) /\ Len(s) \in Nat
    BY <1>9, <1>15, <1>16 DEF Layout
  <1> QED
    BY <1>17

-----------------------------------------------------------------------------
(* The loop over the characters of an address.                             *)

\* Part of an address: digits that, taken in one after the other, make b.
PartMakes(part, b) ==
  /\ part \in Seq(0 .. 9)
  /\ \E made \in [0 .. Len(part) -> Nat] :
       /\ made[0] = 0 /\ made[Len(part)] = b
       /\ \A k \in 1 .. Len(part) : made[k] = made[k - 1] * 10 + part[k]

\* The decimal text of a byte is a part that makes it.
LEMMA PartIs ==
  ASSUME NEW b \in 0 .. 255
  PROVE  PartMakes(UintToString(b).digits, b)
  <1> DEFINE q == Quotients(b, 10)
  <1>1. b \in Nat /\ 10 \in Bases /\ 3 \in 0 .. 4 * Nibbles
    BY SizeIs DEF Bases
  <1>2. CASE b = 0
    <2> DEFINE part == <<0>>
               made == [k \in 0 .. 1 |-> 0]
    <2>1. UintToString(b).digits = part
      BY <1>2 DEF UintToString, Text
    <2>2. part \in Seq(0 .. 9) /\ Len(part) = 1 /\ part[1] = 0
      OBVIOUS
    <2> HIDE DEF part
    <2>3. made \in [0 .. Len(part) -> Nat] /\ made[0] = 0 /\ made[Len(part)] = b
      BY <1>2, <2>2
    <2>4. \A k \in 1 .. Len(part) : made[k] = made[k - 1] * 10 + part[k]
      BY <2>2
    <2> HIDE DEF made
    <2> QED
      BY <2>1, <2>2, <2>3, <2>4 DEF PartMakes
  <1>3. CASE b # 0
    <2>1. /\ q[0] = b /\ \A k \in 0 .. 4 * Nibbles : q[k] \in Nat
          /\ \A k \in 1 .. 4 * Nibbles : q[k] = q[k - 1] \div 10
      BY <1>1, QuotientsAre
    <2>2. q[3] = 0
      <3>1. /\ 1 \in 1 .. 4 * Nibbles /\ 2 \in 1 .. 4 * Nibbles /\ 3 \in 1 .. 4 * Nibbles
            /\ 1 - 1 = 0 /\ 2 - 1 = 1 /\ 3 - 1 = 2
        BY SizeIs
      <3> HIDE DEF q
      <3>2. q[1] = b \div 10 /\ q[2] = q[1] \div 10 /\ q[3] = q[2] \div 10
        BY <2>1, <3>1
      <3> QED
        BY <3>2
    <2>3. PICK t \in 0 .. 3 : q[t] = 0 /\ UintToString(b) = Text(10, [k \in 1 .. t |-> q[t - k] % 10])
      BY <1>1, <1>3, <2>2, DecimalDigits
    <2> DEFINE part == [k \in 1 .. t |-> q[t - k] % 10]
               made == [k \in 0 .. t |-> q[t - k]]
    <2>4. t \in 0 .. 4 * Nibbles /\ t \in Nat
      BY SizeIs
    <2>5. \A k \in 1 .. t :
            /\ q[t - k] \in Nat
            /\ q[t - (k - 1)] * 10 + (q[t - k] % 10) = q[t - k]
      BY <1>1, <2>4, DigitBack
    <2>6. UintToString(b).digits = part
      BY <2>3 DEF Text
    <2> HIDE DEF q
    <2>7. Len(part) = t /\ part \in Seq(0 .. 9)
      <3>1. \A k \in 1 .. t : q[t - k] % 10 \in 0 .. 9
        BY <2>5
      <3>2. part \in [1 .. t -> 0 .. 9]
        BY <3>1
      <3> QED
        BY <2>4, <3>2
    <2>8. \A k \in 0 .. t : t - k \in 0 .. 4 * Nibbles /\ made[k] = q[t - k] /\ made[k] \in Nat
      BY <2>1, <2>4, SizeIs
    <2>9. made \in [0 .. t -> Nat] /\ made[0] = 0 /\ made[t] = b
      <3>1. t - 0 = t /\ t - t = 0 /\ 0 \in 0 .. t /\ t \in 0 .. t
        BY <2>4
      <3> QED
        BY <2>1, <2>3, <2>8, <3>1
    <2>10. \A k \in 1 .. t : made[k] = made[k - 1] * 10 + part[k]
      <3> TAKE k \in 1 .. t
      <3>1. k \in 0 .. t /\ k - 1 \in 0 .. t
        BY <2>4
      <3>2. made[k] = q[t - k] /\ made[k - 1] = q[t - (k - 1)] /\ part[k] = q[t - k] % 10
        BY <2>8, <3>1
      <3> QED
        BY <2>5, <3>2
    <2> HIDE DEF part, made
    <2> QED
      BY <2>6, <2>7, <2>9, <2>10 DEF PartMakes
  <1> QED
    BY <1>2, <1>3

\* What has been read after each character of str.
Readings(str) ==
  Turns(Len(str), [k \in 1 .. Len(str) |-> [s \in IpStates |-> IpCharacter(s, str[k])]],
        [res |-> <<0, 0, 0, 0>>, j |-> 1, temp |-> 0])

\* A state of the loop over the characters.
Reading(res, j, temp) == [res |-> res, j |-> j, temp |-> temp]

\* The bytes of an address, as far as they have been read.
Parts == [1 .. 4 -> 0 .. 255]

\* A character is read as IpCharacter says.
LEMMA CharacterIsRead ==
  ASSUME NEW str, Len(str) \in Nat, NEW k \in 1 .. Len(str),
         NEW res \in Parts, NEW j \in 1 .. 4, NEW temp \in Nat,
         Readings(str)[k - 1] = Reading(res, j, temp)
  PROVE  Readings(str)[k] = IpCharacter(Reading(res, j, temp), str[k])
  <1> DEFINE n == Len(str)
             step == [i \in 1 .. n |-> [s \in IpStates |-> IpCharacter(s, str[i])]]
             first == [res |-> <<0, 0, 0, 0>>, j |-> 1, temp |-> 0]
  <1>1. Reading(res, j, temp) \in IpStates
    BY DEF Reading, IpStates, Parts
  <1>2. step[k][Reading(res, j, temp)] = IpCharacter(Reading(res, j, temp), str[k])
    BY <1>1
  <1>3. Readings(str) = Turns(n, step, first)
    BY DEF Readings
  <1> HIDE DEF n, step, first
  <1>4. \A i \in 1 .. n : Turns(n, step, first)[i] = step[i][Turns(n, step, first)[i - 1]]
    BY TurnsAre DEF n
  <1> QED
    BY <1>2, <1>3, <1>4 DEF n

\* Behind a part, temp is what the part makes.
LEMMA PartIsRead ==
  ASSUME NEW str, Len(str) \in Nat, NEW off \in Nat, NEW part, Stands(str, off, part),
         NEW b, PartMakes(part, b),
         NEW res \in Parts, NEW j \in 1 .. 4,
         Readings(str)[off] = Reading(res, j, 0)
  PROVE  Readings(str)[off + Len(part)] = Reading(res, j, b)
  <1> DEFINE t == Len(part)
             r == Readings(str)
  <1>1. /\ t \in Nat /\ off \in Nat /\ off + t <= Len(str)
        /\ \A k \in 1 .. t : part[k] \in 0 .. 9
    BY LenProperties, ElementOfSeq DEF PartMakes, Stands
  <1>2. \A k \in 1 .. t : str[off + k] = part[k]
    BY DEF Stands
  <1>3. PICK made \in [0 .. t -> Nat] :
          /\ made[0] = 0 /\ made[t] = b
          /\ \A k \in 1 .. t : made[k] = made[k - 1] * 10 + part[k]
    BY DEF PartMakes
  <1> DEFINE S == {k \in 0 .. t : r[off + k] = Reading(res, j, made[k])}
  <1>4. 0 \in S
    BY <1>1, <1>3
  <1>5. ASSUME NEW k \in 0 .. t - 1, k \in S
        PROVE  k + 1 \in S
    <2>1. /\ k + 1 \in 1 .. t /\ (k + 1) - 1 = k /\ k \in 0 .. t /\ k + 1 \in 0 .. t
          /\ off + (k + 1) \in 1 .. Len(str) /\ (off + (k + 1)) - 1 = off + k
      BY <1>1
    <2>2. made[k] \in Nat /\ r[off + k] = Reading(res, j, made[k])
      BY <1>3, <1>5, <2>1
    <2>3. str[off + (k + 1)] = part[k + 1] /\ part[k + 1] # Dot
      <3>1. part[k + 1] \in 0 .. 9
        BY <1>1, <2>1
      <3>2. str[off + (k + 1)] = part[k + 1]
        BY <1>2, <2>1
      <3> QED
        BY <3>1, <3>2 DEF Dot
    <2>4. r[off + (k + 1)] = IpCharacter(Reading(res, j, made[k]), part[k + 1])
      BY <2>1, <2>2, <2>3, CharacterIsRead
    <2>5. r[off + (k + 1)] = Reading(res, j, made[k] * 10 + part[k + 1])
      BY <2>3, <2>4 DEF IpCharacter, Reading
    <2>6. made[k + 1] = made[k] * 10 + part[k + 1]
      BY <1>3, <2>1
    <2> QED
      BY <2>1, <2>5, <2>6
  <1>6. 0 .. t \subseteq S
    <2> HIDE DEF S, t
    <2> QED
      BY <1>1, <1>4, <1>5, InductionTo
  <1>7. t \in S
    BY <1>1, <1>6
  <1> QED
    BY <1>3, <1>7

\* A byte of the address is put down.
Put(res, j, b) == [res EXCEPT ![j] = b]

\* A dot puts the byte down, and starts the next part.
LEMMA DotIsRead ==
  ASSUME NEW str, Len(str) \in Nat, NEW off \in Nat, off + 1 <= Len(str), str[off + 1] = Dot,
         NEW res \in Parts, NEW j \in 1 .. 3, NEW b \in 0 .. 255,
         Readings(str)[off] = Reading(res, j, b)
  PROVE  Readings(str)[off + 1] = Reading(Put(res, j, b), j + 1, 0) /\ Put(res, j, b) \in Parts
  <1>1. off + 1 \in 1 .. Len(str) /\ (off + 1) - 1 = off /\ j \in 1 .. 4 /\ b \in Nat /\ b % 256 = b
    OBVIOUS
  <1>2. Readings(str)[off + 1] = IpCharacter(Reading(res, j, b), Dot)
    BY <1>1, CharacterIsRead
  <1>3. IpCharacter(Reading(res, j, b), Dot) = Reading(Put(res, j, b % 256), j + 1, 0)
    BY DEF IpCharacter, Reading, Put
  <1>4. Put(res, j, b) \in Parts
    BY DEF Parts, Put
  <1> QED
    BY <1>1, <1>2, <1>3, <1>4

\* Before a part: the bytes so far, and the part that is next.
ReadSoFar(str, off, res, j) ==
  Len(str) \in Nat /\ off \in Nat /\ res \in Parts /\ Readings(str)[off] = Reading(res, j, 0)

\* A part and the dot behind it.
LEMMA PartAndDotAreRead ==
  ASSUME NEW str, NEW off, NEW part, NEW next, Stands(str, off, part), DotBehind(str, off, part, next),
         NEW b \in 0 .. 255, PartMakes(part, b), NEW res, NEW j \in 1 .. 3, ReadSoFar(str, off, res, j)
  PROVE  ReadSoFar(str, next, Put(res, j, b), j + 1)
  <1>1. /\ Len(part) \in Nat /\ off \in Nat /\ Len(str) \in Nat
        /\ next = off + Len(part) + 1 /\ next <= Len(str) /\ str[next] = Dot
        /\ res \in Parts /\ Readings(str)[off] = Reading(res, j, 0)
    BY LenProperties DEF PartMakes, DotBehind, ReadSoFar
  <1>2. j \in 1 .. 4 /\ off + Len(part) \in Nat /\ next = (off + Len(part)) + 1 /\ next \in Nat
    BY <1>1
  <1>3. Readings(str)[off + Len(part)] = Reading(res, j, b)
    BY <1>1, <1>2, PartIsRead
  <1> DEFINE behind == off + Len(part)
  <1>4. behind \in Nat /\ next = behind + 1 /\ Readings(str)[behind] = Reading(res, j, b)
    BY <1>1, <1>2, <1>3
  <1> HIDE DEF behind
  <1>5. behind + 1 <= Len(str) /\ str[behind + 1] = Dot
    BY <1>1, <1>4
  <1>6. Readings(str)[behind + 1] = Reading(Put(res, j, b), j + 1, 0) /\ Put(res, j, b) \in Parts
    <2>1. Len(str) \in Nat /\ res \in Parts
      BY <1>1
    <2> QED
      BY <1>4, <1>5, <2>1, DotIsRead
  <1> QED
    BY <1>1, <1>2, <1>4, <1>6 DEF ReadSoFar

\* All four parts are read.
LEMMA AddressIsRead ==
  ASSUME NEW bytes \in [1 .. 4 -> 0 .. 255]
  PROVE  IpStrToBytes(Dotted(bytes)) = bytes
  <1> DEFINE part(i) == UintToString(bytes[i]).digits
             p1 == part(1)
             p2 == part(2)
             p3 == part(3)
             p4 == part(4)
             str == Dotted(bytes)
             r == Readings(str)
             res0 == [i \in 1 .. 4 |-> 0]
             res1 == Put(res0, 1, bytes[1])
             res2 == Put(res1, 2, bytes[2])
             res3 == Put(res2, 3, bytes[3])
  <1>1. /\ bytes[1] \in 0 .. 255 /\ bytes[2] \in 0 .. 255 /\ bytes[3] \in 0 .. 255 /\ bytes[4] \in 0 .. 255
        /\ PartMakes(p1, bytes[1]) /\ PartMakes(p2, bytes[2])
        /\ PartMakes(p3, bytes[3]) /\ PartMakes(p4, bytes[4])
    <2>1. \A i \in 1 .. 4 : bytes[i] \in 0 .. 255
      OBVIOUS
    <2>2. \A i \in 1 .. 4 : PartMakes(part(i), bytes[i])
      BY <2>1, PartIs
    <2> HIDE DEF part
    <2> QED
      BY <2>1, <2>2
  <1>2. str = Joined(p1, p2, p3, p4)
    BY DEF Dotted, Joined
  <1> HIDE DEF p1, p2, p3, p4, str
  <1>3. p1 \in Seq(Nat) /\ p2 \in Seq(Nat) /\ p3 \in Seq(Nat) /\ p4 \in Seq(Nat) /\ Dot \in Nat
    <2>1. Seq(0 .. 9) \subseteq Seq(Nat)
      BY SeqMonotonic, 0 .. 9 \subseteq Nat
    <2> QED
      BY <1>1, <2>1 DEF PartMakes, Dot
  <1>4. Len(str) \in Nat
    BY <1>2, <1>3, FourParts
  <1>5. PICK o2, o3, o4 : Layout(str, p1, p2, p3, p4, o2, o3, o4)
    <2> HIDE DEF r, res0, res1, res2, res3
    <2> QED
      BY <1>2, <1>3, FourParts
  <1>6. <<0, 0, 0, 0>> = res0
    OBVIOUS
  <1> HIDE DEF res0, res1, res2, res3
  <1>7. ReadSoFar(str, 0, res0, 1)
    <2>1. r[0] = [res |-> <<0, 0, 0, 0>>, j |-> 1, temp |-> 0]
      BY <1>4, TurnsAre DEF Readings
    <2>2. res0 \in Parts
      BY DEF res0, Parts
    <2> QED
      BY <1>4, <1>6, <2>1, <2>2 DEF Reading, ReadSoFar
  <1> HIDE DEF r
  <1>8. ReadSoFar(str, o2, res1, 2)
    <2>1. /\ Stands(str, 0, p1) /\ DotBehind(str, 0, p1, o2) /\ bytes[1] \in 0 .. 255
          /\ PartMakes(p1, bytes[1]) /\ 1 \in 1 .. 3 /\ ReadSoFar(str, 0, res0, 1)
      BY <1>1, <1>5, <1>7 DEF Layout
    <2>2. ReadSoFar(str, o2, Put(res0, 1, bytes[1]), 1 + 1)
      BY <2>1, PartAndDotAreRead
    <2> QED
      BY <2>2, 1 + 1 = 2 DEF res1
  <1>9. ReadSoFar(str, o3, res2, 3)
    <2>1. /\ Stands(str, o2, p2) /\ DotBehind(str, o2, p2, o3) /\ bytes[2] \in 0 .. 255
          /\ PartMakes(p2, bytes[2]) /\ 2 \in 1 .. 3 /\ ReadSoFar(str, o2, res1, 2)
      BY <1>1, <1>5, <1>8 DEF Layout
    <2>2. ReadSoFar(str, o3, Put(res1, 2, bytes[2]), 2 + 1)
      BY <2>1, PartAndDotAreRead
    <2> QED
      BY <2>2, 2 + 1 = 3 DEF res2
  <1>10. ReadSoFar(str, o4, res3, 4)
    <2>1. /\ Stands(str, o3, p3) /\ DotBehind(str, o3, p3, o4) /\ bytes[3] \in 0 .. 255
          /\ PartMakes(p3, bytes[3]) /\ 3 \in 1 .. 3 /\ ReadSoFar(str, o3, res2, 3)
      BY <1>1, <1>5, <1>9 DEF Layout
    <2>2. ReadSoFar(str, o4, Put(res2, 3, bytes[3]), 3 + 1)
      BY <2>1, PartAndDotAreRead
    <2> QED
      BY <2>2, 3 + 1 = 4 DEF res3
  <1>11. r[Len(str)] = Reading(res3, 4, bytes[4])
    <2>1. o4 \in Nat /\ res3 \in Parts /\ 4 \in 1 .. 4 /\ Readings(str)[o4] = Reading(res3, 4, 0)
      BY <1>10 DEF ReadSoFar
    <2>2. Readings(str)[o4 + Len(p4)] = Reading(res3, 4, bytes[4])
      BY <1>1, <1>4, <1>5, <2>1, PartIsRead DEF Layout
    <2> QED
      BY <1>5, <2>2 DEF r, Layout
  <1>12. IpStrToBytes(str) = [r[Len(str)].res EXCEPT ![4] = r[Len(str)].temp % 256]
    BY DEF IpStrToBytes, Readings, Loop, r
  <1>13. IpStrToBytes(str) = [res3 EXCEPT ![4] = bytes[4] % 256]
    BY <1>11, <1>12 DEF Reading
  <1>14. [res3 EXCEPT ![4] = bytes[4] % 256] = bytes
    <2>1. bytes[4] % 256 = bytes[4]
      BY <1>1
    <2> QED
      BY <2>1 DEF res0, res1, res2, res3, Put
  <1> QED
    BY <1>13, <1>14 DEF str

-----------------------------------------------------------------------------
(* The properties.                                                         *)

\* The properties hold of what is given, which does not change.
LEMMA SurvivesFirst == ASSUME ConversionsInit PROVE AddressSurvives /\ KeyKeepsPrefix
  <1>1. CASE \E num \in Numbers : input = <<num>>
    <2>1. PICK num \in Numbers : input = <<num>>
      BY <1>1
    <2>2. num \in 0 .. UintSize - 1 /\ Len(input) = 1 /\ input[1] = num
      BY <2>1, ConversionsAssumption
    <2>3. AddressSurvives
      BY <2>2, NumberSurvives DEF AddressSurvives
    <2>4. KeyKeepsPrefix
      BY <2>2, KeyIs DEF KeyKeepsPrefix
    <2> QED
      BY <2>3, <2>4
  <1>2. CASE input \in [1 .. 4 -> AddressBytes]
    <2>1. input \in [1 .. 4 -> 0 .. 255]
      BY <1>2, ConversionsAssumption
    <2>2. Len(input) = 4
      BY <1>2
    <2>3. IpStrToBytes(Dotted(input)) = input
      BY <2>1, AddressIsRead
    <2>4. IpStrToBytesOfWidth(Dotted(input), 24) = SubSeq(input, 1, 3)
      <3>1. Bytes(24) = 3
        BY DEF Bytes
      <3> QED
        BY <2>3, <3>1 DEF IpStrToBytesOfWidth
    <2> QED
      BY <2>3, <2>4, <2>2 DEF AddressSurvives, KeyKeepsPrefix
  <1> QED
    BY <1>1, <1>2 DEF ConversionsInit

\* Every unsigned int that is written as hexadecimal or decimal text is read
\* back as itself and as its bytes, and every dotted address as its four
\* bytes, for every even number of nibbles (helper.cc).
THEOREM AddressesSurvive == ConversionsSpec => []AddressSurvives
  <1>1. ConversionsInit => AddressSurvives
    BY SurvivesFirst
  <1>2. AddressSurvives /\ [UNCHANGED input]_input => AddressSurvives'
    BY DEF AddressSurvives
  <1> QED
    BY <1>1, <1>2, PTL DEF ConversionsSpec

\* Every match key made of hexadecimal text is the first bits of the number
\* the text stands for, whatever the key's width and wherever in a byte or a
\* digit it ends (helper.cc 140).
THEOREM KeysKeepTheirPrefixes == ConversionsSpec => []KeyKeepsPrefix
  <1>1. ConversionsInit => KeyKeepsPrefix
    BY SurvivesFirst
  <1>2. KeyKeepsPrefix /\ [UNCHANGED input]_input => KeyKeepsPrefix'
    BY DEF KeyKeepsPrefix
  <1> QED
    BY <1>1, <1>2, PTL DEF ConversionsSpec
=============================================================================
