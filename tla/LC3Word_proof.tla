--------------------------- MODULE LC3Word_proof ---------------------------
(***************************************************************************)
(* The operators of LC3Word and LC3Memory keep the 16-bit width, and the   *)
(* facts about wrapping arithmetic that the refinement proof rests on.     *)
(***************************************************************************)
EXTENDS LC3Memory, TLAPS

(* An address or a sum never leaves uint16_t.                              *)
LEMMA PlusWord == ASSUME NEW a \in Word, NEW b \in Word
                  PROVE  Plus(a, b) \in Word
  BY DEF Plus, Word, WordSize

(* A field of len bits is below 2^len, for the lengths the core extracts.  *)
LEMMA BitsRange == ASSUME NEW w \in Word
                   PROVE  /\ Opcode(w) \in 0 .. 15
                          /\ DR(w) \in RegNum /\ SR1(w) \in RegNum
                          /\ SR2(w) \in RegNum
                          /\ TrapVect(w) \in Word
                          /\ LinkFlag(w) \in {0, 1}
  BY DEF Opcode, DR, SR1, SR2, TrapVect, LinkFlag, Bits, RegNum, Word, WordSize

(* The three flag bits of a BR are the bits of its mask field.             *)
LEMMA MaskBits == ASSUME NEW w \in Word, Bits(w, 9, 3) = 7
                  PROVE  Bits(w, 11, 1) = 1 /\ Bits(w, 10, 1) = 1 /\ Bits(w, 9, 1) = 1
<1> DEFINE k == w \div 512
<1>1. k \in Nat /\ k % 8 = 7
  BY DEF Bits, Word, WordSize
<1>2. w \div 1024 = k \div 2 /\ w \div 2048 = k \div 4
  BY DEF Word, WordSize
<1>3. k % 2 = 1 /\ (k \div 2) % 2 = 1 /\ (k \div 4) % 2 = 1
  <2> HIDE DEF k
  <2>1. QED
    BY <1>1
<1>4. QED
  BY <1>2, <1>3 DEF Bits

(* Sign extension of the offset fields gives a 16-bit word.                *)
LEMMA OffsetWord == ASSUME NEW w \in Word
                    PROVE  /\ Offset(w, 5) \in Word /\ Offset(w, 6) \in Word
                           /\ Offset(w, 9) \in Word /\ Offset(w, 11) \in Word
  BY DEF Offset, sign_extend, Bits, Word, WordSize

(* NOT and AND give 16-bit words.                                          *)
LEMMA BitNotWord == ASSUME NEW a \in Word PROVE BitNot(a) \in Word
  BY DEF BitNot, Word, WordSize

LEMMA BitAndWord == ASSUME NEW a \in Word, NEW b \in Word
                    PROVE  BitAnd(a, b) \in Word
<1>1. FourBits(a, b, 0) \in Nat /\ FourBits(a, b, 0) <= 15
  BY DEF FourBits, BothBits
<1>2. FourBits(a, b, 4) \in Nat /\ FourBits(a, b, 4) <= 240
  BY DEF FourBits, BothBits
<1>3. FourBits(a, b, 8) \in Nat /\ FourBits(a, b, 8) <= 3840
  BY DEF FourBits, BothBits
<1>4. FourBits(a, b, 12) \in Nat /\ FourBits(a, b, 12) <= 61440
  BY DEF FourBits, BothBits
<1>5. QED
  BY <1>1, <1>2, <1>3, <1>4 DEF BitAnd, Word, WordSize

(* The address before the incremented PC is the address of the instruction *)
(* (Before of LC3Session is Plus(_, WordSize - 1)), also across the wrap.  *)
LEMMA PlusMinus == ASSUME NEW a \in Word
                   PROVE  /\ Plus(Plus(a, 1), WordSize - 1) = a
                          /\ Plus(Plus(a, WordSize - 1), 1) = a
  BY DEF Plus, Word, WordSize

-----------------------------------------------------------------------------

(* Any location of a memory reads as a word.                               *)
LEMMA ReadWord == ASSUME NEW m, IsMemory(m), NEW a \in Word
                  PROVE  ReadMem(m, a) \in Word
<1>1. 0 \in Word
  BY DEF Word, WordSize
<1>2. QED
  BY <1>1 DEF IsMemory, ReadMem

LEMMA WriteIsMemory == ASSUME NEW m, IsMemory(m), NEW a \in Word, NEW v \in Word
                       PROVE  IsMemory(WriteMem(m, a, v))
  BY DEF IsMemory, WriteMem

LEMMA ClearIsMemory == IsMemory(ClearMemory)
  BY DEF IsMemory, ClearMemory

LEMMA WordIsInt == Word \subseteq Int
  BY DEF Word, WordSize

(* A program of words stays within memory, whatever its length and start.  *)
LEMMA LoadIsMemory == ASSUME NEW m, IsMemory(m),
                             NEW data \in Seq(Word), NEW start \in Word
                      PROVE  IsMemory(LoadMem(m, data, start))
<1>1. ASSUME NEW a \in Covered(data, start)
      PROVE  data[(a - start) + 1] \in Word
  <2>1. start \in Int /\ Len(data) \in Nat
    BY WordIsInt
  <2>2. a \in start .. (start + Len(data) - 1)
    BY DEF Covered
  <2>3. (a - start) + 1 \in 1 .. Len(data)
    BY <2>1, <2>2
  <2>4. QED
    BY <2>3
<1>2. Covered(data, start) \subseteq Word
  BY DEF Covered
<1>3. QED
  BY <1>1, <1>2 DEF IsMemory, LoadMem

(* A store is seen by a read of its own address and by no other read.      *)
LEMMA ReadAfterWrite == ASSUME NEW m, NEW a, NEW b, NEW v
                        PROVE  ReadMem(WriteMem(m, a, v), b) =
                                  IF b = a THEN v ELSE ReadMem(m, b)
  BY DEF ReadMem, WriteMem

=============================================================================
