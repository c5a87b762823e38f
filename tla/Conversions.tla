---------------------------- MODULE Conversions ----------------------------
(***************************************************************************)
(* The conversions of model/helper.cc between numbers, their texts and the *)
(* bytes a match key is compared as.                                       *)
(*                                                                         *)
(* A text is the sequence of its digits' values; what stands in front of   *)
(* it ("0x", "0b" or nothing) is its base.  An unsigned int has 4 *        *)
(* Nibbles bits.                                                           *)
(***************************************************************************)
EXTENDS Integers, Sequences, SequencesExt, Loops

CONSTANTS
  Nibbles,             \* 8
  Numbers,             \* the unsigned ints that are checked
  AddressBytes         \* the bytes of the addresses that are checked

VARIABLE input         \* what is converted: <<number>>, the four bytes of an
                       \* address, or <<>>

UintSize == PowerOfTwo(4 * Nibbles)

ASSUME ConversionsAssumption ==
  /\ Nibbles \in Nat \ {0} /\ Nibbles % 2 = 0
  /\ Numbers \subseteq 0 .. UintSize - 1
  /\ AddressBytes \subseteq 0 .. 255

Text(base, digits) == [base |-> base, digits |-> digits]

StrToInt(text) ==
  LET n == Len(text.digits)
  IN  Loop(n, [k \in 1 .. n |-> [res \in Nat |-> (res * text.base + text.digits[k]) % UintSize]], 0)

\* What is left of num after each turn of a loop that divides it by base until
\* nothing is left: there are at most as many turns as num has bits.
Quotients(num, base) == Turns(4 * Nibbles, [k \in 1 .. 4 * Nibbles |-> [v \in Nat |-> v \div base]], num)

\* The number of turns.
LastTurn(left) == CHOOSE t \in 0 .. 4 * Nibbles : left[t] = 0 /\ \A k \in 0 .. t - 1 : left[k] # 0

\* The digits of num, the last one first.
Digits(num, base) ==
  LET left == Quotients(num, base)
  IN  [k \in 1 .. LastTurn(left) |-> left[k - 1] % base]

UintToString(num) ==
  Text(10, IF num = 0 THEN <<0>> ELSE Reverse(Digits(num, 10)))

\* Without the place for the 0 that ends the text: nothing is left of "0".
IntToStr(num) == Text(10, Reverse(Digits(num, 10)))

\* Mutant: as many digits as the number has.
Uint32ipToHexShort(ip) == Text(16, IF ip = 0 THEN <<0>> ELSE Reverse(Digits(ip, 16)))

Uint32ipToHex(ip) ==
  LET digits == Digits(ip, 16)
  IN  Text(16, [k \in 1 .. Nibbles |->
                  IF Nibbles + 1 - k <= Len(digits) THEN digits[Nibbles + 1 - k] ELSE 0])

\* Two digits make a byte; a last digit without another is written behind the
\* end of the text and lost.
HexstrToBytes(text) ==
  [j \in 1 .. Len(text.digits) \div 2 |-> text.digits[2 * j - 1] * 16 + text.digits[2 * j]]

Bytes(bitWidth) == (bitWidth + 7) \div 8

\* Mutant: a digit of which fewer than four bits are wanted is left out.
HighBitsOfWhole(digit, bits) == IF bits < 4 THEN 0 ELSE digit

\* The first bits of a digit, in their places.
HighBits(digit, bits) == (digit \div PowerOfTwo(4 - bits)) * PowerOfTwo(4 - bits)

\* The i-th digit; where a text with an odd number of them ends stands the
\* character that ends the text, which HexcharToInt takes for 0.
Digit(text, i) == IF i <= Len(text.digits) THEN text.digits[i] ELSE 0

\* Byte j of a key that has left bits for it, fewer than eight or all.
PartialByte(text, j, left) ==
  IF left <= 4
  THEN HighBits(Digit(text, 2 * j - 1), left) * 16
  ELSE Digit(text, 2 * j - 1) * 16 + HighBits(Digit(text, 2 * j), left - 4)

\* Behind the end of the text the bytes are 0.
HexstrToBytesOfWidth(text, bitWidth) ==
  [j \in 1 .. Bytes(bitWidth) |->
     IF 8 * j < bitWidth THEN Digit(text, 2 * j - 1) * 16 + Digit(text, 2 * j)
                         ELSE PartialByte(text, j, bitWidth - 8 * (j - 1))]

\* The character between the parts of an address.
Dot == 10

(***************************************************************************)
(* The text of an address is the sequence of its characters.  A part that  *)
(* is too large for its char wraps.                                        *)
(***************************************************************************)
IpStates == [res : [1 .. 4 -> 0 .. 255], j : 1 .. 4, temp : Nat]

IpCharacter(s, c) ==
  IF c = Dot THEN [res |-> [s.res EXCEPT ![s.j] = s.temp % 256], j |-> s.j + 1, temp |-> 0]
             ELSE [res |-> s.res, j |-> s.j, temp |-> s.temp * 10 + c]

IpStrToBytes(str) ==
  LET n    == Len(str)
      read == Loop(n, [k \in 1 .. n |-> [s \in IpStates |-> IpCharacter(s, str[k])]],
                   [res |-> <<0, 0, 0, 0>>, j |-> 1, temp |-> 0])
  IN  [read.res EXCEPT ![4] = read.temp % 256]

IpStrToBytesOfWidth(str, bitWidth) == SubSeq(IpStrToBytes(str), 1, Bytes(bitWidth))

\* Zeros are put in front until there are this many bytes.
NumberBytes(num, bytes) ==
  LET array == Digits(num, 256)
      n     == Len(array)
  IN  Reverse([i \in 1 .. (IF n < bytes THEN bytes ELSE n) |-> IF i <= n THEN array[i] ELSE 0])

\* std::stoi stops at the x of a hexadecimal text.
Stoi(text) ==
  LET n == IF text.base = 10 THEN Len(text.digits) ELSE 0
  IN  Loop(n, [k \in 1 .. n |-> [res \in Nat |-> res * 10 + text.digits[k]]], 0)

\* Stands for the exception std::stoi throws when the number is no int.
OutOfRange == <<-1>>

IntToBytes(text, bytes) ==
  IF Stoi(text) < UintSize \div 2 THEN NumberBytes(Stoi(text), bytes) ELSE OutOfRange

\* A parameter of 32 bits is read as hexadecimal, any other as decimal.
ParseParam(text, bitwidth) ==
  IF bitwidth = 32 THEN HexstrToBytes(text) ELSE IntToBytes(text, Bytes(bitwidth))

-----------------------------------------------------------------------------
\* An address as it is written: the digits of its parts with dots between.
Dotted(bytes) ==
  LET part(i) == UintToString(bytes[i]).digits
  IN  part(1) \o <<Dot>> \o part(2) \o <<Dot>> \o part(3) \o <<Dot>> \o part(4)

ValueOf(bytes) ==
  LET n == Len(bytes)
  IN  Loop(n, [k \in 1 .. n |-> [value \in Nat |-> value * 256 + bytes[k]]], 0)

ConversionsInit ==
  \/ \E num \in Numbers : input = <<num>>
  \/ \E bytes \in [1 .. 4 -> AddressBytes] : input = bytes

\* What is given does not change.
ConversionsSpec == ConversionsInit /\ [][UNCHANGED input]_input

(***************************************************************************)
(* The address a host is given, written into the flow table as hexadecimal *)
(* text (p4-simple-forward.cc 355) and read back as a match key            *)
(* (p4-switch-interface.cc 599), is the bytes of the address that a packet *)
(* carries; a handle or index written as text is read back as itself; and  *)
(* a dotted address is read as its four bytes, whatever their lengths.     *)
(***************************************************************************)
AddressSurvives ==
  /\ Len(input) = 1 =>
       LET num == input[1]
       IN  /\ ParseParam(Uint32ipToHex(num), 32) = NumberBytes(num, Nibbles \div 2)
           /\ StrToInt(Uint32ipToHex(num)) = num
           /\ StrToInt(UintToString(num)) = num
           /\ num < UintSize \div 2 =>
                ParseParam(UintToString(num), 4 * Nibbles - 1) = NumberBytes(num, Nibbles \div 2)
  /\ Len(input) = 4 =>
       /\ IpStrToBytes(Dotted(input)) = input
       /\ IpStrToBytesOfWidth(Dotted(input), 24) = SubSeq(input, 1, 3)

(***************************************************************************)
(* A key of bitWidth bits consists of the first bitWidth bits of the text  *)
(* and of zeros, also when the width ends within a byte or within a digit  *)
(* (helper.cc 140).                                                        *)
(***************************************************************************)
KeyKeepsPrefix ==
  Len(input) = 1 =>
    \A bitWidth \in 1 .. 4 * Nibbles :
      LET rest == 4 * Nibbles - bitWidth
      IN  ValueOf(HexstrToBytesOfWidth(Uint32ipToHex(input[1]), bitWidth))
            = (input[1] \div PowerOfTwo(rest)) * PowerOfTwo(8 * Bytes(bitWidth) - bitWidth)
=============================================================================
