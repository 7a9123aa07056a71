------------------------------ MODULE LC3Word ------------------------------
(***************************************************************************)
(* The 16-bit arithmetic of the LC-3 core and the fields of an instruction *)
(* word, as src/src/cpu.cpp computes them.  A machine word (uint16_t) is a *)
(* number in Word; every sum wraps modulo WordSize, as the C++ assignments *)
(* to uint16_t do.  No operator of this module has state.                  *)
(***************************************************************************)
EXTENDS Integers

\* uint16_t, and the 2^16 locations of the memory it addresses
WordSize == 2^16
Word     == 0 .. (WordSize - 1)
RegNum   == 0 .. (2^3 - 1)

-----------------------------------------------------------------------------
(* Fields.  Bits(w, lo, len) is (w >> lo) & (2^len - 1).                   *)

Bits(w, lo, len) == (w \div 2^lo) % 2^len

Opcode(ir)   == Bits(ir, 12, 4)
DR(ir)       == Bits(ir, 9, 3)     \* also SR of the store instructions
SR1(ir)      == Bits(ir, 6, 3)     \* also BaseR
SR2(ir)      == Bits(ir, 0, 3)
ImmFlag(ir)  == Bits(ir, 5, 1)
LinkFlag(ir) == Bits(ir, 11, 1)    \* IR[11]: JSR (1) or JSRR (0)
TrapVect(ir) == Bits(ir, 0, 8)

HaltVector == 37                   \* x25

-----------------------------------------------------------------------------
(* Arithmetic and logic on words.                                          *)

Plus(a, b) == (a + b) % WordSize

\* val | (0xFFFF << bits) when bit (bits - 1) of val is set, val otherwise
sign_extend(val, bits) ==
    IF Bits(val, bits - 1, 1) = 1
    THEN (WordSize - 2^bits) + (val % 2^bits)
    ELSE val

\* The signed field of the last `bits` bits of an instruction, as a word
Offset(ir, bits) == sign_extend(Bits(ir, 0, bits), bits)

BitNot(a) == (WordSize - 1) - a

BothBits(a, b, i) == IF Bits(a, i, 1) = 1 /\ Bits(b, i, 1) = 1 THEN 2^i ELSE 0

\* a & b, in four groups of four bits
FourBits(a, b, i) == BothBits(a, b, i) + BothBits(a, b, i + 1)
                        + BothBits(a, b, i + 2) + BothBits(a, b, i + 3)

BitAnd(a, b) == FourBits(a, b, 0) + FourBits(a, b, 4)
                   + FourBits(a, b, 8) + FourBits(a, b, 12)

\* The sign bit, which update_cond copies into N
Negative(v) == v >= 2^15

=============================================================================
