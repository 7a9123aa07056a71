------------------------- MODULE LC3Assembler_proof -------------------------
(***************************************************************************)
(* What encode() returns reads back as the program, for every program the  *)
(* editor can put together.                                                *)
(***************************************************************************)
EXTENDS LC3Editor_proof, LC3Word_proof

-----------------------------------------------------------------------------
(* The fields of a word that Instr composes                                *)

\* The values of a field of that many bits
Field(bits) == 0 .. 2^bits - 1

LEMMA FieldRange == /\ Field(4) = 0 .. 15 /\ Field(5) = 0 .. 31 /\ Field(6) = 0 .. 63
                    /\ Field(9) = 0 .. 511 /\ Field(11) = 0 .. 2047
  BY DEF Field

\* The fields of a word as the handlers extract them
Composed(w, op, a, b, low) ==
    /\ w \in Word /\ Opcode(w) = op /\ DR(w) = a /\ SR1(w) = b
    /\ SR2(w) = low % 8 /\ ImmFlag(w) = low \div 32
    /\ Bits(w, 0, 5) = low % 32 /\ Bits(w, 0, 6) = low
    /\ LinkFlag(w) = a \div 4

LEMMA Instr6 == ASSUME NEW op \in Field(4), NEW a \in RegNum, NEW b \in RegNum, NEW low \in Field(6),
                       NEW w, w = Instr(op, a, b, low)
                PROVE  Composed(w, op, a, b, low)
<1>1. /\ op \in Nat /\ op < 16 /\ a \in Nat /\ a < 8 /\ b \in Nat /\ b < 8 /\ low \in Nat /\ low < 64
      /\ w = op * 4096 + a * 512 + b * 64 + low
  BY FieldRange DEF Instr, RegNum
<1>2. w \div 4096 = op /\ w \in Word
  BY <1>1 DEF Word, WordSize
<1>3. w \div 512 = op * 8 + a
  BY <1>1
<1>4. w \div 64 = op * 64 + a * 8 + b
  BY <1>1
<1>5. w \div 2048 = op * 2 + a \div 4
  BY <1>1
<1>6. w \div 32 = op * 128 + a * 16 + b * 2 + low \div 32
  BY <1>1
<1>7. Opcode(w) = op /\ DR(w) = a /\ SR1(w) = b
  BY <1>1, <1>2, <1>3, <1>4 DEF Opcode, DR, SR1, Bits
<1>8. LinkFlag(w) = a \div 4 /\ ImmFlag(w) = low \div 32
  BY <1>1, <1>5, <1>6 DEF LinkFlag, ImmFlag, Bits
<1>9. Bits(w, 0, 6) = low /\ Bits(w, 0, 5) = low % 32 /\ SR2(w) = low % 8
  BY <1>1 DEF Bits, SR2
<1>10. QED
  BY <1>2, <1>7, <1>8, <1>9 DEF Composed

\* The words with a field of nine bits, and those with one of eleven
Long(op, a, low) == Instr(op, a, 0, low)
Longer(low)      == Instr(4, 4, 0, low)

LEMMA Instr9 == ASSUME NEW op \in Field(4), NEW a \in RegNum, NEW low \in Field(9),
                       NEW w, w = Long(op, a, low)
                PROVE  w \in Word /\ Opcode(w) = op /\ DR(w) = a /\ Bits(w, 0, 9) = low
<1>1. /\ op \in Nat /\ op < 16 /\ a \in Nat /\ a < 8 /\ low \in Nat /\ low < 512
      /\ w = op * 4096 + a * 512 + low
  BY FieldRange DEF Long, Instr, RegNum
<1>2. w \div 4096 = op /\ w \in Word
  BY <1>1 DEF Word, WordSize
<1>3. w \div 512 = op * 8 + a
  BY <1>1
<1>4. Opcode(w) = op /\ DR(w) = a
  BY <1>1, <1>2, <1>3 DEF Opcode, DR, Bits
<1>5. Bits(w, 0, 9) = low
  BY <1>1 DEF Bits
<1>6. QED
  BY <1>2, <1>4, <1>5

LEMMA Instr11 == ASSUME NEW low \in Field(11), NEW w, w = Longer(low)
                 PROVE  w \in Word /\ Opcode(w) = 4 /\ LinkFlag(w) = 1 /\ Bits(w, 0, 11) = low
<1>1. low \in Nat /\ low < 2048 /\ w = 18432 + low
  <2>1. low \in Nat /\ low < 2048
    BY DEF Field
  <2>2. w = 4 * 4096 + 4 * 512 + 0 * 64 + low
    BY DEF Longer, Instr
  <2>3. QED
    BY <2>1, <2>2
<1>2. w \div 4096 = 4 /\ w \in Word /\ w \div 2048 = 9
  BY <1>1 DEF Word, WordSize
<1>3. QED
  BY <1>1, <1>2 DEF Opcode, LinkFlag, Bits

-----------------------------------------------------------------------------
(* A field that fits is sign-extended to the word of the number            *)

LEMMA Extended ==
    ASSUME NEW v \in Int
    PROVE  /\ fits(v, 5) => sext(v, 5) \in Field(5) /\ sign_extend(sext(v, 5), 5) = AsWord(v)
           /\ fits(v, 6) => sext(v, 6) \in Field(6) /\ sign_extend(sext(v, 6), 6) = AsWord(v)
           /\ fits(v, 9) => sext(v, 9) \in Field(9) /\ sign_extend(sext(v, 9), 9) = AsWord(v)
           /\ fits(v, 11) => sext(v, 11) \in Field(11) /\ sign_extend(sext(v, 11), 11) = AsWord(v)
<1>1. ASSUME fits(v, 5) PROVE sext(v, 5) \in Field(5) /\ sign_extend(sext(v, 5), 5) = AsWord(v)
  BY <1>1, FieldRange DEF fits, sext, sign_extend, Bits, AsWord, WordSize
<1>2. ASSUME fits(v, 6) PROVE sext(v, 6) \in Field(6) /\ sign_extend(sext(v, 6), 6) = AsWord(v)
  BY <1>2, FieldRange DEF fits, sext, sign_extend, Bits, AsWord, WordSize
<1>3. ASSUME fits(v, 9) PROVE sext(v, 9) \in Field(9) /\ sign_extend(sext(v, 9), 9) = AsWord(v)
  BY <1>3, FieldRange DEF fits, sext, sign_extend, Bits, AsWord, WordSize
<1>4. ASSUME fits(v, 11) PROVE sext(v, 11) \in Field(11) /\ sign_extend(sext(v, 11), 11) = AsWord(v)
  BY <1>4, FieldRange DEF fits, sext, sign_extend, Bits, AsWord, WordSize
<1>5. QED
  BY <1>1, <1>2, <1>3, <1>4
LEMMA WrapSum == ASSUME NEW x \in Int, NEW v \in Int
                 PROVE  ((x % 65536) + (v % 65536)) % 65536 = (x + v) % 65536
  BY Z3

LEMMA PlusAsWord == ASSUME NEW x \in Int, NEW v \in Int
                    PROVE  Plus(AsWord(x), AsWord(v)) = AsWord(x + v)
<1>1. WordSize = 65536
  BY DEF WordSize
<1>2. QED
  BY <1>1, WrapSum DEF Plus, AsWord

LEMMA WordAsWord == ASSUME NEW a \in Word PROVE a \in Int /\ AsWord(a) = a
  BY DEF Word, WordSize, AsWord

\* Every symbol is the address of the one block that has it as its label
Locates(symbols, blocks) ==
    \A name \in DOMAIN symbols :
        symbols[name] \in Word /\ LabelledAt(name, blocks) = {symbols[name]}

LEMMA Fits == ASSUME NEW v, NEW bits \in {5, 6, 9, 11}, fits(v, bits) PROVE v \in Int
  BY DEF fits

LEMMA Reached ==
    ASSUME NEW target, NEW addr \in Int, NEW symbols, NEW blocks, Locates(symbols, blocks), NEW w,
           NEW bits \in {9, 11}, Resolves(target, bits, addr, symbols),
           Bits(w, 0, bits) = resolveOffset(target, bits, addr, symbols)
    PROVE  Reaches(w, bits, target, addr, blocks)
<1> DEFINE v == OffsetTo(target, addr, symbols)
<1>1. fits(v, bits) /\ target \in NumericNames \cup DOMAIN symbols
  BY DEF Resolves
<1>2. v \in Int
  BY <1>1, Fits
<1>3. Offset(w, bits) = sign_extend(sext(v, bits), bits)
  BY DEF Offset, resolveOffset
<1>4. sign_extend(sext(v, bits), bits) = AsWord(v)
  BY <1>1, <1>2, Extended
<1>5. Plus(AsWord(addr + 1), Offset(w, bits)) = AsWord(addr + 1 + v)
  BY <1>2, <1>3, <1>4, PlusAsWord
<1>6. CASE target \in NumericNames
  BY <1>5, <1>6 DEF OffsetTo, Reaches
<1>7. CASE target \notin NumericNames
  <2>1. /\ v = symbols[target] - (addr + 1) /\ symbols[target] \in Word
        /\ LabelledAt(target, blocks) = {symbols[target]}
    BY <1>1, <1>7 DEF OffsetTo, Locates
  <2>2. addr + 1 + v = symbols[target]
    BY <2>1, WordAsWord
  <2>3. Plus(AsWord(addr + 1), Offset(w, bits)) = symbols[target]
    BY <1>5, <2>1, <2>2, WordAsWord
  <2>4. QED
    BY <1>7, <2>1, <2>3 DEF Reaches
<1>8. QED
  BY <1>6, <1>7

LEMMA Resolved ==
    ASSUME NEW target, NEW addr \in Int, NEW symbols, NEW bits \in {9, 11},
           Resolves(target, bits, addr, symbols)
    PROVE  /\ bits = 9 => resolveOffset(target, bits, addr, symbols) \in Field(9)
           /\ bits = 11 => resolveOffset(target, bits, addr, symbols) \in Field(11)
<1> DEFINE v == OffsetTo(target, addr, symbols)
<1>1. fits(v, bits) /\ v \in Int
  BY Fits DEF Resolves
<1>2. resolveOffset(target, bits, addr, symbols) = sext(v, bits)
  BY DEF resolveOffset
<1> HIDE DEF v
<1>3. (bits = 9 => sext(v, 9) \in Field(9)) /\ (bits = 11 => sext(v, 11) \in Field(11))
  BY <1>1, Extended
<1>4. QED
  BY <1>2, <1>3

-----------------------------------------------------------------------------
(* Each kind of block reads back                                           *)

LEMMA FieldIs == ASSUME NEW b \in TypedBlock, NEW name \in DOMAIN DefaultFields(b.opcode)
                 PROVE  b.fields[name] \in FieldValues(name)
  BY DEF TypedBlock, Typed

LEMMA OperandIs == ASSUME NEW op2 \in Operand
                   PROVE  op2.shape = "reg" => op2.val \in RegNum
<1>1. CASE \E r \in RegNum : op2 = Register(r)
  BY <1>1 DEF Register
<1>2. CASE \E v : op2 = Number(v)
  BY <1>2 DEF Number
<1>3. QED
  BY <1>1, <1>2 DEF Operand

LEMMA ReadOperates ==
    ASSUME NEW b \in TypedBlock, b.opcode \in Operates, NEW addr \in Int, NEW symbols, NEW blocks,
           BlockFits(b, addr, symbols)
    PROVE  ReadsBack(BlockWord(b, addr, symbols), b, addr, blocks)
<1> DEFINE f == b.fields
           w == BlockWord(b, addr, symbols)
           op == IF b.opcode = "ADD" THEN 1 ELSE 5
<1>1. /\ f.DR \in RegNum /\ f.SR1 \in RegNum /\ f.mode \in {"SR2", "imm"} /\ f.op2 \in Operand
      /\ f.mode = "SR2" <=> f.op2.shape = "reg"
  <2>1. DOMAIN DefaultFields(b.opcode) = {"DR", "SR1", "mode", "op2"}
    BY DefaultsAre
  <2>2. f.mode = "SR2" <=> f.op2.shape = "reg"
    BY <2>1 DEF TypedBlock, Typed
  <2>3. QED
    BY <2>1, <2>2, FieldIs, FieldValuesAre
<1>2. w = AluWord(op, f)
  BY DEF BlockWord, Operates
<1>3. op \in Field(4)
  BY FieldRange
<1> HIDE DEF op, w, f
<1>4. CASE f.mode = "SR2"
  <2>1. f.op2.val \in RegNum /\ w = Instr(op, f.DR, f.SR1, f.op2.val)
    BY <1>1, <1>2, <1>4, OperandIs DEF AluWord
  <2>2. f.op2.val \in Field(6) /\ f.op2.val % 8 = f.op2.val /\ f.op2.val \div 32 = 0
    BY <2>1, FieldRange DEF RegNum
  <2>3. /\ w \in Word /\ Opcode(w) = op /\ DR(w) = f.DR /\ SR1(w) = f.SR1
        /\ SR2(w) = f.op2.val /\ ImmFlag(w) = 0
    <3> DEFINE low == f.op2.val
    <3>1. low \in Field(6) /\ low % 8 = low /\ low \div 32 = 0 /\ w = Instr(op, f.DR, f.SR1, low)
      BY <2>1, <2>2
    <3> HIDE DEF low
    <3>2. Composed(w, op, f.DR, f.SR1, low)
      BY <1>1, <1>3, <3>1, Instr6, Zenon
    <3>3. QED
      BY <3>1, <3>2 DEF low, Composed
  <2>4. QED
    BY <1>4, <2>3 DEF ReadsBack, Operates, LoadsPC, StoresPC, f, w, op
<1>5. CASE f.mode = "imm"
  <2>1. fits(f.op2.val, 5)
    BY <1>5 DEF BlockFits, Operates, LoadsPC, StoresPC, f
  <2> w = Instr(op, f.DR, f.SR1, 32 + sext(f.op2.val, 5))
    BY <1>2, <1>5 DEF AluWord
  <2> DEFINE v == f.op2.val
             low == 32 + sext(v, 5)
  <2>2. v \in Int
    BY <2>1, Fits
  <2>3. sext(v, 5) \in Field(5) /\ sign_extend(sext(v, 5), 5) = AsWord(v)
    BY <2>1, <2>2, Extended
  <2>4. low \in Field(6) /\ low % 32 = sext(v, 5) /\ low \div 32 = 1
    BY <2>3, FieldRange
  <2>5. /\ w \in Word /\ Opcode(w) = op /\ DR(w) = f.DR /\ SR1(w) = f.SR1
        /\ ImmFlag(w) = 1 /\ Bits(w, 0, 5) = sext(v, 5)
    <3>1. w = Instr(op, f.DR, f.SR1, low)
      OBVIOUS
    <3> HIDE DEF low
    <3>2. Composed(w, op, f.DR, f.SR1, low)
      BY <1>1, <1>3, <2>4, <3>1, Instr6, Zenon
    <3>3. QED
      BY <2>4, <3>2 DEF Composed
  <2>6. Offset(w, 5) = AsWord(v)
    BY <2>3, <2>5 DEF Offset
  <2>7. QED
    BY <1>5, <2>5, <2>6 DEF ReadsBack, Operates, LoadsPC, StoresPC, f, w, op
<1>6. QED
  BY <1>1, <1>4, <1>5 DEF f, w

LEMMA Relative9 ==
    ASSUME NEW op \in Field(4), NEW a \in RegNum, NEW target, NEW addr \in Int, NEW symbols, NEW blocks,
           Locates(symbols, blocks), Resolves(target, 9, addr, symbols)
    PROVE  LET w == Instr(op, a, 0, resolveOffset(target, 9, addr, symbols))
           IN  w \in Word /\ Opcode(w) = op /\ DR(w) = a /\ Reaches(w, 9, target, addr, blocks)
<1> DEFINE low == resolveOffset(target, 9, addr, symbols)
           w == Long(op, a, low)
<1>1. low \in Field(9) /\ w = Long(op, a, low)
  BY Resolved
<1> HIDE DEF low, w
<1>2. w \in Word /\ Opcode(w) = op /\ DR(w) = a /\ Bits(w, 0, 9) = low
  BY <1>1, Instr9, Zenon
<1>3. Reaches(w, 9, target, addr, blocks)
  BY <1>2, Reached DEF low
<1>4. QED
  BY <1>2, <1>3 DEF w, low, Long

LEMMA ReadLoadsPC ==
    ASSUME NEW b \in TypedBlock, b.opcode \in LoadsPC, NEW addr \in Int, NEW symbols, NEW blocks,
           Locates(symbols, blocks), BlockFits(b, addr, symbols)
    PROVE  ReadsBack(BlockWord(b, addr, symbols), b, addr, blocks)
<1> DEFINE f == b.fields
           w == BlockWord(b, addr, symbols)
           op == CASE b.opcode = "LD" -> 2 [] b.opcode = "LDI" -> 10 [] OTHER -> 14
<1>1. f.DR \in RegNum
  BY DefaultsAre, FieldIs, FieldValuesAre
<1>2. Resolves(f.target, 9, addr, symbols)
  BY DEF BlockFits, Operates, LoadsPC, StoresPC
<1>3. w = Instr(op, f.DR, 0, resolveOffset(f.target, 9, addr, symbols)) /\ op \in Field(4)
  BY FieldRange DEF BlockWord, LoadsPC
<1> HIDE DEF w, f, op
<1>4. w \in Word /\ Opcode(w) = op /\ DR(w) = f.DR /\ Reaches(w, 9, f.target, addr, blocks)
  BY <1>1, <1>2, <1>3, Relative9
<1>5. QED
  BY <1>4 DEF ReadsBack, Operates, LoadsPC, StoresPC, f, w, op

LEMMA ReadStoresPC ==
    ASSUME NEW b \in TypedBlock, b.opcode \in StoresPC, NEW addr \in Int, NEW symbols, NEW blocks,
           Locates(symbols, blocks), BlockFits(b, addr, symbols)
    PROVE  ReadsBack(BlockWord(b, addr, symbols), b, addr, blocks)
<1> DEFINE f == b.fields
           w == BlockWord(b, addr, symbols)
           op == IF b.opcode = "ST" THEN 3 ELSE 11
<1>1. f.SR \in RegNum
  BY DefaultsAre, FieldIs, FieldValuesAre
<1>2. Resolves(f.target, 9, addr, symbols)
  BY DEF BlockFits, Operates, LoadsPC, StoresPC
<1>3. w = Instr(op, f.SR, 0, resolveOffset(f.target, 9, addr, symbols)) /\ op \in Field(4)
  BY FieldRange DEF BlockWord, StoresPC
<1> HIDE DEF w, f, op
<1>4. w \in Word /\ Opcode(w) = op /\ DR(w) = f.SR /\ Reaches(w, 9, f.target, addr, blocks)
  BY <1>1, <1>2, <1>3, Relative9
<1>5. QED
  BY <1>4 DEF ReadsBack, Operates, LoadsPC, StoresPC, f, w, op

\* The flag bits of a BR are those of its mask
LEMMA FlagBits == ASSUME NEW w \in Word, NEW m \in RegNum, Bits(w, 9, 3) = m
                  PROVE  /\ Bits(w, 11, 1) = m \div 4
                         /\ Bits(w, 10, 1) = (m \div 2) % 2
                         /\ Bits(w, 9, 1) = m % 2
<1> DEFINE k == w \div 512
<1>1. k \in Nat /\ k % 8 = m /\ m \in 0 .. 7
  BY DEF Bits, RegNum, Word, WordSize
<1>2. w \div 1024 = k \div 2 /\ w \div 2048 = k \div 4
  BY DEF Word, WordSize
<1>3. k % 2 = m % 2 /\ (k \div 2) % 2 = (m \div 2) % 2 /\ (k \div 4) % 2 = m \div 4
  <2> HIDE DEF k
  <2>1. QED
    BY <1>1
<1>4. QED
  BY <1>2, <1>3 DEF Bits

LEMMA MaskTests == ASSUME NEW w \in Word, NEW nzp, Bits(w, 9, 3) = Mask(nzp)
                   PROVE  BranchesOn(w, nzp)
<1> DEFINE on(c) == c \in nzp \/ nzp = {}
<1>1. Mask(nzp) = (IF on("n") THEN 4 ELSE 0) + (IF on("z") THEN 2 ELSE 0)
                     + (IF on("p") THEN 1 ELSE 0)
  BY DEF Mask
<1> HIDE DEF on
<1>2. Mask(nzp) \in RegNum
  BY <1>1 DEF RegNum
<1>3. /\ Mask(nzp) \div 4 = IF on("n") THEN 1 ELSE 0
      /\ (Mask(nzp) \div 2) % 2 = IF on("z") THEN 1 ELSE 0
      /\ Mask(nzp) % 2 = IF on("p") THEN 1 ELSE 0
  BY <1>1
<1>4. /\ Bits(w, 11, 1) = IF on("n") THEN 1 ELSE 0
      /\ Bits(w, 10, 1) = IF on("z") THEN 1 ELSE 0
      /\ Bits(w, 9, 1) = IF on("p") THEN 1 ELSE 0
  BY <1>2, <1>3, FlagBits
<1>5. QED
  BY <1>4 DEF BranchesOn, on

LEMMA ReadBranch ==
    ASSUME NEW b \in TypedBlock, b.opcode = "BR", NEW addr \in Int, NEW symbols, NEW blocks,
           Locates(symbols, blocks), BlockFits(b, addr, symbols)
    PROVE  ReadsBack(BlockWord(b, addr, symbols), b, addr, blocks)
<1> DEFINE f == b.fields
           w == BlockWord(b, addr, symbols)
<1>1. Mask(f.nzp) \in RegNum
  BY DEF Mask, RegNum
<1>2. Resolves(f.target, 9, addr, symbols)
  BY DEF BlockFits, Operates, LoadsPC, StoresPC
<1>3. w = Instr(0, Mask(f.nzp), 0, resolveOffset(f.target, 9, addr, symbols))
  BY DEF BlockWord
<1> HIDE DEF w, f
<1>4. w \in Word /\ Opcode(w) = 0 /\ DR(w) = Mask(f.nzp) /\ Reaches(w, 9, f.target, addr, blocks)
  <2>1. 0 \in Field(4)
    BY FieldRange
  <2>2. QED
    BY <1>1, <1>2, <1>3, <2>1, Relative9
<1>5. BranchesOn(w, f.nzp)
  BY <1>4, MaskTests DEF DR
<1>6. QED
  BY <1>4, <1>5 DEF ReadsBack, Operates, LoadsPC, StoresPC, f, w

LEMMA ReadBased ==
    ASSUME NEW b \in TypedBlock, b.opcode \in {"LDR", "STR"}, NEW addr \in Int, NEW symbols, NEW blocks,
           BlockFits(b, addr, symbols)
    PROVE  ReadsBack(BlockWord(b, addr, symbols), b, addr, blocks)
<1> DEFINE f == b.fields
           w == BlockWord(b, addr, symbols)
           op == IF b.opcode = "LDR" THEN 6 ELSE 7
           a == IF b.opcode = "LDR" THEN f.DR ELSE f.SR
           low == sext(f.off6, 6)
<1>1. f.BaseR \in RegNum /\ a \in RegNum
  BY DefaultsAre, FieldIs, FieldValuesAre
<1>2. fits(f.off6, 6)
  BY DEF BlockFits, Operates, LoadsPC, StoresPC
<1>3. f.off6 \in Int
  BY <1>2, Fits
<1>4. low \in Field(6) /\ sign_extend(low, 6) = AsWord(f.off6)
  BY <1>2, <1>3, Extended
<1>5. w = Instr(op, a, f.BaseR, low) /\ op \in Field(4)
  BY FieldRange DEF BlockWord
<1> HIDE DEF w, f, op, a, low
<1>6. w \in Word /\ Opcode(w) = op /\ DR(w) = a /\ SR1(w) = f.BaseR /\ Bits(w, 0, 6) = low
  <2>1. Composed(w, op, a, f.BaseR, low)
    BY <1>1, <1>4, <1>5, Instr6, Zenon
  <2>2. QED
    BY <2>1 DEF Composed
<1>7. Offset(w, 6) = AsWord(f.off6)
  BY <1>4, <1>6 DEF Offset
<1>8. QED
  BY <1>6, <1>7 DEF ReadsBack, Operates, LoadsPC, StoresPC, f, w, op, a

LEMMA ReadNot ==
    ASSUME NEW b \in TypedBlock, b.opcode = "NOT", NEW addr, NEW symbols, NEW blocks
    PROVE  ReadsBack(BlockWord(b, addr, symbols), b, addr, blocks)
<1> DEFINE f == b.fields
           w == BlockWord(b, addr, symbols)
<1>1. f.DR \in RegNum /\ f.SR \in RegNum
  BY DefaultsAre, FieldIs, FieldValuesAre
<1>2. w = Instr(9, f.DR, f.SR, 63)
  BY DEF BlockWord
<1> HIDE DEF w, f
<1>3. w \in Word /\ Opcode(w) = 9 /\ DR(w) = f.DR /\ SR1(w) = f.SR
  <2>1. 9 \in Field(4) /\ 63 \in Field(6)
    BY FieldRange
  <2>2. Composed(w, 9, f.DR, f.SR, 63)
    BY <1>1, <1>2, <2>1, Instr6
  <2>3. QED
    BY <2>2 DEF Composed
<1>4. QED
  BY <1>3 DEF ReadsBack, Operates, LoadsPC, StoresPC, f, w

LEMMA ReadJumps ==
    ASSUME NEW b \in TypedBlock, b.opcode \in {"JMP", "JSRR"}, NEW addr, NEW symbols, NEW blocks
    PROVE  ReadsBack(BlockWord(b, addr, symbols), b, addr, blocks)
<1> DEFINE f == b.fields
           w == BlockWord(b, addr, symbols)
           op == IF b.opcode = "JMP" THEN 12 ELSE 4
<1>1. f.BaseR \in RegNum /\ 0 \in RegNum /\ op \in Field(4)
  <2>1. f.BaseR \in RegNum
    BY DefaultsAre, FieldIs, FieldValuesAre
  <2>2. QED
    BY <2>1, FieldRange DEF RegNum
<1>2. w = Instr(op, 0, f.BaseR, 0)
  BY DEF BlockWord
<1> HIDE DEF w, f, op
<1>3. w \in Word /\ Opcode(w) = op /\ SR1(w) = f.BaseR /\ LinkFlag(w) = 0
  <2>1. 0 \in Field(6)
    BY FieldRange
  <2>2. Composed(w, op, 0, f.BaseR, 0)
    BY <1>1, <1>2, <2>1, Instr6, Zenon
  <2>3. QED
    BY <2>2 DEF Composed
<1>4. QED
  BY <1>3 DEF ReadsBack, Operates, LoadsPC, StoresPC, f, w, op

LEMMA ReadCall ==
    ASSUME NEW b \in TypedBlock, b.opcode = "JSR", NEW addr \in Int, NEW symbols, NEW blocks,
           Locates(symbols, blocks), BlockFits(b, addr, symbols)
    PROVE  ReadsBack(BlockWord(b, addr, symbols), b, addr, blocks)
<1> DEFINE f == b.fields
           w == BlockWord(b, addr, symbols)
           low == resolveOffset(f.target, 11, addr, symbols)
<1>1. Resolves(f.target, 11, addr, symbols)
  BY DEF BlockFits, Operates, LoadsPC, StoresPC
<1>2. low \in Field(11)
  BY <1>1, Resolved
<1>3. w = Longer(low)
  BY DEF BlockWord, Longer
<1> HIDE DEF w, f, low
<1>4. w \in Word /\ Opcode(w) = 4 /\ LinkFlag(w) = 1 /\ Bits(w, 0, 11) = low
  BY <1>2, <1>3, Instr11, Zenon
<1>5. Reaches(w, 11, f.target, addr, blocks)
  BY <1>1, <1>4, Reached DEF low
<1>6. QED
  BY <1>4, <1>5 DEF ReadsBack, Operates, LoadsPC, StoresPC, f, w

LEMMA ReadTraps ==
    ASSUME NEW b \in TypedBlock, b.opcode \in {"TRAP", "HALT"}, NEW addr, NEW symbols, NEW blocks
    PROVE  ReadsBack(BlockWord(b, addr, symbols), b, addr, blocks)
<1> DEFINE f == b.fields
           w == BlockWord(b, addr, symbols)
           v == IF b.opcode = "TRAP" THEN f.vector ELSE 37
<1>1. v \in 32 .. 37
  BY DefaultsAre, FieldIs, FieldValuesAre DEF TrapVectors
<1>2. w = Long(15, 0, v)
  BY DEF BlockWord, Long
<1> HIDE DEF w, f, v
<1>3. w \in Word /\ Opcode(w) = 15 /\ TrapVect(w) = v
  BY <1>1, <1>2 DEF Long, Instr, Word, WordSize, Opcode, TrapVect, Bits
<1>4. QED
  BY <1>3 DEF ReadsBack, Operates, LoadsPC, StoresPC, HaltVector, f, w, v

(* One block, alone: what the bit fields of cpu.cpp extract from its word  *)
(* is what the block says, provided that the symbols are the addresses of  *)
(* the labelled blocks (the encode functions, script.js:75-174).           *)
THEOREM BlockReadsBack ==
    ASSUME NEW b \in TypedBlock, NEW addr \in Int, NEW symbols, NEW blocks, Locates(symbols, blocks),
           BlockFits(b, addr, symbols)
    PROVE  ReadsBack(BlockWord(b, addr, symbols), b, addr, blocks)
<1>1. b.opcode \in OpcodeNames
  BY DEF TypedBlock, SomeBlock
<1>2. QED
  BY <1>1, ReadOperates, ReadLoadsPC, ReadStoresPC, ReadBranch, ReadBased, ReadNot, ReadJumps,
     ReadCall, ReadTraps DEF OpcodeNames

-----------------------------------------------------------------------------
(* A program ends below the end of the memory                              *)

Bound == WordSize - ORIG
Short == Len(program) <= Bound

LEMMA BoundIs == Bound = 53248
  BY DEF Bound, WordSize, ORIG

LEMMA PresetShort == ASSUME NEW name \in Presets
                     PROVE  Len(PresetBlocks(name)) <= 7
<1>1. CASE name = "countdown"
  BY <1>1 DEF PresetBlocks
<1>2. CASE name = "addtwo"
  BY <1>2 DEF PresetBlocks
<1>3. CASE name = "notreg"
  BY <1>3 DEF PresetBlocks
<1>4. QED
  BY <1>1, <1>2, <1>3, EditorAssumption

LEMMA InsertShort == ASSUME EditorInv, NEW opcode \in Opcodes, NEW place \in 1 .. Len(program) + 1,
                            InsertNew(opcode, place)
                     PROVE  Short'
<1> DEFINE s == program
           e == makeBlock(opcode, nextId)
<1>1. s \in Seq(TypedBlock) /\ place \in 1 .. Len(s) + 1 /\ e \in TypedBlock
  BY MadeTyped, EditorAssumption DEF EditorInv
<1>2. program' = InsertAt(s, place, e) /\ Len(s) < MaxBlocks
  BY DEF InsertNew, Room
<1> HIDE DEF s, e
<1>3. Len(program') = Len(s) + 1
  BY <1>1, <1>2, Inserted
<1>4. Len(s) \in Nat
  BY <1>1, LenProperties
<1>5. Len(program') <= 53248
  <2>1. MaxBlocks \in Int /\ MaxBlocks <= 53248
    BY EditorAssumption DEF WordSize, ORIG
  <2>2. QED
    BY <1>2, <1>3, <1>4, <2>1
<1>6. QED
  BY <1>5, BoundIs DEF Short

LEMMA MoveShort == ASSUME EditorInv, Short, NEW from \in DOMAIN program,
                          NEW target \in 1 .. Len(program) + 1, dropMove(from, target)
                   PROVE  Short'
<1> DEFINE place == IF from < target THEN target - 1 ELSE target
           rest  == RemoveAt(program, from)
           e     == program[from]
<1>1. Len(program) \in Nat /\ DOMAIN program = 1 .. Len(program) /\ e \in TypedBlock
  BY Places DEF EditorInv
<1>2. rest \in Seq(TypedBlock) /\ Len(rest) = Len(program) - 1
  BY <1>1, Removed DEF EditorInv
<1>3. program' = InsertAt(rest, place, e) /\ place \in 1 .. Len(rest) + 1
  BY <1>1, <1>2 DEF dropMove
<1> HIDE DEF rest, place, e
<1>4. Len(program') = Len(rest) + 1
  BY <1>1, <1>2, <1>3, Inserted
<1>5. QED
  BY <1>1, <1>2, <1>4 DEF Short

LEMMA ShortNext == EditorInv /\ Short /\ EditorNext => Short'
<1> SUFFICES ASSUME EditorInv, Short, EditorNext PROVE Short'
  OBVIOUS
<1>1. /\ program \in Seq(TypedBlock) /\ Len(program) \in Nat
      /\ DOMAIN program = 1 .. Len(program)
  BY Places DEF EditorInv
<1>2. EditorInv'
  BY ArrangeInv, LabelInv, FillInv DEF EditorNext
<1>3. ASSUME NEW opcode \in Opcodes, clickPalette(opcode) PROVE Short'
  <2>1. Len(program) + 1 \in 1 .. Len(program) + 1
    BY <1>1
  <2>2. QED
    BY <1>3, <2>1, InsertShort DEF clickPalette
<1>4. ASSUME NEW opcode \in Opcodes, NEW target \in 1 .. Len(program) + 1, dropNew(opcode, target)
      PROVE  Short'
  BY <1>4, InsertShort DEF dropNew
<1>5. ASSUME NEW i \in DOMAIN program, deleteBlock(i) PROVE Short'
  <2>1. Len(program') = Len(program) - 1
    BY <1>1, <1>5, Removed DEF deleteBlock
  <2>2. QED
    BY <1>1, <2>1, BoundIs DEF Short
<1>6. ASSUME clear PROVE Short'
  BY <1>6, BoundIs DEF clear, Short
<1>7. ASSUME NEW name \in Presets, loadPreset(name) PROVE Short'
  <2> DEFINE blocks == PresetBlocks(name)
  <2>1. Len(blocks) \in Nat /\ DOMAIN blocks = 1 .. Len(blocks) /\ Len(blocks) <= 7
    BY PresetTyped, PresetShort, LenProperties
  <2>2. DOMAIN program' = DOMAIN blocks
    BY <1>7 DEF loadPreset
  <2> HIDE DEF blocks
  <2>3. Len(program') \in Nat /\ DOMAIN program' = 1 .. Len(program')
    BY <1>2, LenProperties DEF EditorInv
  <2>4. QED
    BY <2>1, <2>2, <2>3, BoundIs DEF Short
<1>8. ASSUME Label \/ Fill PROVE Short'
  <2>1. DOMAIN program' = DOMAIN program
    BY <1>8 DEF Label, removeLabel, addLabel, nameBlock, SetLabel, Fill, chooseRegister,
       chooseMode, chooseSR2, typeImm5, typeOff6, checkNZP, chooseTarget, chooseVector, SetField
  <2>2. Len(program') \in Nat /\ DOMAIN program' = 1 .. Len(program')
    BY <1>2, LenProperties DEF EditorInv
  <2>3. QED
    BY <1>1, <2>1, <2>2 DEF Short
<1>9. QED
  BY <1>3, <1>4, <1>5, <1>6, <1>7, <1>8, MoveShort DEF EditorNext, Arrange

LEMMA ShortHolds == EditorSpec => []Short
<1>1. EditorInit => Short
  BY BoundIs DEF EditorInit, Short
<1>2. EditorInv /\ Short /\ [EditorNext]_editorVars => Short'
  BY ShortNext DEF editorVars, Short
<1>3. QED
  BY <1>1, <1>2, EditorInvHolds, PTL DEF EditorSpec

\* Pass 1 of encode(): labels are accepted only if each is that of one block
LEMMA SymbolsLocate == ASSUME EditorInv, Short, LabelsAccepted(program)
                       PROVE  Locates(Symbols(program), program)
<1> SUFFICES ASSUME NEW name \in LabelsOf(program)
             PROVE  /\ Symbols(program)[name] \in Word
                    /\ LabelledAt(name, program) = {Symbols(program)[name]}
  BY DEF Locates, Symbols
<1>1. PICK j \in DOMAIN program : program[j].label = name
  BY DEF LabelsOf
<1>2. name # NoName
  BY DEF LabelsOf
<1>3. \A k \in DOMAIN program : program[k].label = name <=> k = j
  BY <1>1, <1>2 DEF LabelsAccepted
<1>4. (CHOOSE k \in DOMAIN program : program[k].label = name) = j
  BY <1>1, <1>3
<1>5. Symbols(program)[name] = ORIG + j - 1
  BY <1>4 DEF Symbols, Address
<1>6. LabelledAt(name, program) = {ORIG + j - 1}
  BY <1>1, <1>3 DEF LabelledAt
<1>7. ORIG + j - 1 \in Word
  BY <1>1, Places, BoundIs DEF EditorInv, Short, ORIG, Word, WordSize
<1>8. QED
  BY <1>5, <1>6, <1>7

LEMMA EncodedIs == EditorInv /\ Short => EncodedFaithfully
<1> SUFFICES ASSUME EditorInv, Short, Encodes(program), NEW i \in DOMAIN program
             PROVE  ReadsBack(Words(program)[i], program[i], ORIG + i - 1, program)
  BY DEF EncodedFaithfully
<1> DEFINE symbols == Symbols(program)
           addr == ORIG + i - 1
           b == program[i]
<1>1. /\ Len(program) \in Nat /\ DOMAIN program = 1 .. Len(program) /\ b \in TypedBlock
  BY Places DEF EditorInv
<1>2. Locates(symbols, program)
  BY SymbolsLocate DEF Encodes
<1>3. addr \in Int /\ addr = Address(i)
  BY <1>1 DEF Address, ORIG
<1>4. BlockFits(b, addr, symbols)
  BY <1>3 DEF Encodes
<1>5. Words(program)[i] = BlockWord(b, addr, symbols)
  BY <1>3 DEF Words
<1> HIDE DEF symbols, addr, b
<1>6. ReadsBack(BlockWord(b, addr, symbols), b, addr, program)
  BY <1>1, <1>2, <1>3, <1>4, BlockReadsBack
<1>7. QED
  BY <1>5, <1>6 DEF symbols, addr, b

(* Each word that encode() returns reads back, through the bit fields that *)
(* the handlers of cpu.cpp use, as the block it came from, and each target *)
(* leads to its block (script.js:184-209), for every program that can be   *)
(* put together.                                                           *)
THEOREM ProgramsReadBack == EditorSpec => []EncodedFaithfully
  BY EncodedIs, EditorInvHolds, ShortHolds, PTL

(* What is loaded is a sequence of words.                                  *)
LEMMA WordsAreWords == ASSUME EditorInv, Short, Encodes(program)
                       PROVE  Words(program) \in Seq(Word)
<1>1. DOMAIN program = 1 .. Len(program) /\ Len(program) \in Nat
  BY Places DEF EditorInv
<1>2. \A i \in DOMAIN program : Words(program)[i] \in Word
  BY EncodedIs DEF EncodedFaithfully, ReadsBack
<1>3. Words(program) \in [1 .. Len(program) -> Word]
  BY <1>1, <1>2 DEF Words
<1>4. QED
  BY <1>1, <1>3, SeqDef

=============================================================================
