--------------------------- MODULE RegisterAccess ---------------------------
(***************************************************************************)
(* What the P4 program asks of the switch for a packet: class              *)
(* RegisterAccess of model/register_access.h packs five 16-bit values into *)
(* two of the packet's 64-bit registers.                                   *)
(*                                                                         *)
(* A word is the set of the positions of its 1 bits: masking is an         *)
(* intersection, or-ing a union, and a shift moves the positions.          *)
(***************************************************************************)
EXTENDS Integers

Short == SUBSET (0 .. 15)
Word == SUBSET (0 .. 63)

\* The registers but for register 0, the length, which is a number.
Registers == [{1, 2} -> Word]

\* A value's register, mask and shift.
CLONE_MIRROR_SESSION_ID == [idx |-> 1, mask |-> 0 .. 15, shift |-> 0]
CLONE_FIELD_LIST == [idx |-> 1, mask |-> 16 .. 31, shift |-> 16]

\* Mutant: a mask without an upper end.
LF_FIELD_LIST_UPPER_HALF == [idx |-> 1, mask |-> 32 .. 63, shift |-> 32]

LF_FIELD_LIST == [idx |-> 1, mask |-> 32 .. 47, shift |-> 32]

\* Mutant: shifted by hexadecimal digits counted wrongly.
RESUBMIT_FLAG_13_DIGITS == [idx |-> 1, mask |-> 48 .. 63, shift |-> 52]

RESUBMIT_FLAG == [idx |-> 1, mask |-> 48 .. 63, shift |-> 48]
RECIRCULATE_FLAG == [idx |-> 2, mask |-> 0 .. 15, shift |-> 0]

Fields == {CLONE_MIRROR_SESSION_ID, CLONE_FIELD_LIST, LF_FIELD_LIST, RESUBMIT_FLAG, RECIRCULATE_FLAG}

MIRROR_SESSION_ID_VALID_MASK == {15}
MIRROR_SESSION_ID_MASK == 0 .. 14

\* The functions get_ and set_ of a value, which differ in its constants only.
get(field, registers) ==
  {b - field.shift : b \in registers[field.idx] \cap field.mask}

set(field, registers, value) ==
  [registers EXCEPT ![field.idx] = (@ \ field.mask) \cup {b + field.shift : b \in value}]

\* Mutant: written before there was a second register.
clear_first(registers) == [registers EXCEPT ![1] = {}]

clear_all(registers) == [registers EXCEPT ![1] = {}, ![2] = {}]

AsksNothing(registers) == \A field \in Fields : get(field, registers) = {}
=============================================================================
