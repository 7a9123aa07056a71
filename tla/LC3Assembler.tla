---------------------------- MODULE LC3Assembler ----------------------------
(***************************************************************************)
(* The block catalog and the encoder of www/script.js (sections 1 to 3): a *)
(* program is a sequence of blocks, and encode() turns it into the words   *)
(* the CPU is loaded with, or throws.  No operator of this module has      *)
(* state; LC3Editor holds the program.                                     *)
(*                                                                         *)
(* Texts the user types are members of Names.  What matters of a text is   *)
(* whether resolveOffset reads it as a number, and which.  The texts       *)
(* '(none)' and '__num__', which the code treats as no text, are left out. *)
(***************************************************************************)
EXTENDS LC3Word, Sequences

CONSTANTS
    Names,            \* the texts a label or a target may be, besides ''
    NumericNames,     \* those that start with '#' or match /^-?\d+$/
    NumericValue,     \* parseInt of each of them
    InheritedNames,   \* those that any JavaScript object has as a property
    NaN               \* what parseInt makes of a text that is no number

NoName == ""          \* '' and null: no label, no target

ASSUME AssemblerAssumption ==
    /\ NoName \notin Names
    /\ NumericNames \subseteq Names /\ InheritedNames \subseteq Names
    /\ NumericValue \in [NumericNames -> Int \cup {NaN}]
    /\ NaN \notin Int

ORIG == 12288                                       \* 0x3000

-----------------------------------------------------------------------------
(* CATALOG: the fields of each block and their defaults.  A register field *)
(* is its number; the second operand of ADD and AND is a text that is      *)
(* shaped like a register or like a number.                                *)

Register(r) == [shape |-> "reg", val |-> r]
Number(v)   == [shape |-> "num", val |-> v]

Operates   == {"ADD", "AND"}
LoadsPC    == {"LD", "LDI", "LEA"}
StoresPC   == {"ST", "STI"}
OpcodeNames == Operates \cup LoadsPC \cup StoresPC
                  \cup {"NOT", "LDR", "STR", "BR", "JMP", "JSR", "JSRR", "TRAP", "HALT"}

DefaultFields(opcode) ==
    CASE opcode \in Operates -> [DR |-> 0, SR1 |-> 0, mode |-> "imm", op2 |-> Number(0)]
      [] opcode \in LoadsPC  -> [DR |-> 0, target |-> NoName]
      [] opcode \in StoresPC -> [SR |-> 0, target |-> NoName]
      [] opcode = "NOT"  -> [DR |-> 0, SR |-> 0]
      [] opcode = "LDR"  -> [DR |-> 0, BaseR |-> 0, off6 |-> 0]
      [] opcode = "STR"  -> [SR |-> 0, BaseR |-> 0, off6 |-> 0]
      [] opcode = "BR"   -> [nzp |-> {"n", "z", "p"}, target |-> NoName]
      [] opcode = "JMP"  -> [BaseR |-> 7]
      [] opcode = "JSR"  -> [target |-> NoName]
      [] opcode = "JSRR" -> [BaseR |-> 0]
      [] opcode = "TRAP" -> [vector |-> 37]
      [] OTHER -> << >>                             \* HALT has no field

makeBlock(opcode, id) ==
    [id |-> id, opcode |-> opcode, fields |-> DefaultFields(opcode), label |-> NoName]

TrapVectors == 32 .. 37                             \* x20 .. x25

-----------------------------------------------------------------------------
(* sext, fits and resolveOffset                                            *)

sext(v, bits) == v % 2^bits                         \* v & ((1 << bits) - 1)
\* Mutant of fits: the bound just above the largest value is let through
fits_OneMore(v, bits) == v \in -(2^(bits - 1)) .. 2^(bits - 1)

fits(v, bits) == v \in -(2^(bits - 1)) .. (2^(bits - 1) - 1)

\* Mutant of OffsetTo: relative to the block, not to the incremented PC
OffsetTo_Block(target, addr, symbols) ==
    IF target \in NumericNames
    THEN NumericValue[target]
    ELSE symbols[target] - addr

\* The offset a target stands for in the block at address addr
OffsetTo(target, addr, symbols) ==
    IF target \in NumericNames
    THEN NumericValue[target]
    ELSE symbols[target] - (addr + 1)

\* resolveOffset returns (it throws for '', a name that is no label of the
\* program, and an offset that does not fit)
Resolves(target, bits, addr, symbols) ==
    /\ target # NoName
    /\ target \in NumericNames \cup DOMAIN symbols
    /\ fits(OffsetTo(target, addr, symbols), bits)

resolveOffset(target, bits, addr, symbols) ==
    sext(OffsetTo(target, addr, symbols), bits)

-----------------------------------------------------------------------------
(* The encode functions of the catalog                                     *)

Instr(op, a, b, low) == op * 4096 + a * 512 + b * 64 + low

AluWord(op, f) ==
    IF f.mode = "SR2"
    THEN Instr(op, f.DR, f.SR1, f.op2.val)
    ELSE Instr(op, f.DR, f.SR1, 32 + sext(f.op2.val, 5))

\* Mutants of Mask: z and p swapped; all three when not all are set
Mask_Swapped(nzp) == LET set == IF nzp = {} THEN {"n", "z", "p"} ELSE nzp
                     IN  (IF "n" \in set THEN 4 ELSE 0)
                           + (IF "p" \in set THEN 2 ELSE 0)
                           + (IF "z" \in set THEN 1 ELSE 0)

Mask_Always(nzp) == 7

Mask(nzp) == LET set == IF nzp = {} THEN {"n", "z", "p"} ELSE nzp
             IN  (IF "n" \in set THEN 4 ELSE 0)
                   + (IF "z" \in set THEN 2 ELSE 0)
                   + (IF "p" \in set THEN 1 ELSE 0)

\* The encode function of the block returns
BlockFits(b, addr, symbols) ==
    LET f == b.fields
    IN  CASE b.opcode \in Operates ->
               f.mode = "SR2" \/ (f.op2.shape = "num" /\ fits(f.op2.val, 5))
          [] b.opcode \in {"LDR", "STR"} -> fits(f.off6, 6)
          [] b.opcode \in LoadsPC \cup StoresPC \cup {"BR"} ->
               Resolves(f.target, 9, addr, symbols)
          [] b.opcode = "JSR" -> Resolves(f.target, 11, addr, symbols)
          [] OTHER -> TRUE

\* ... and this is the word it returns
BlockWord(b, addr, symbols) ==
    LET f == b.fields
        off9 == resolveOffset(f.target, 9, addr, symbols)
    IN  CASE b.opcode = "ADD"  -> AluWord(1, f)
          [] b.opcode = "AND"  -> AluWord(5, f)
          [] b.opcode = "NOT"  -> Instr(9, f.DR, f.SR, 63)
          [] b.opcode = "LD"   -> Instr(2, f.DR, 0, off9)
          [] b.opcode = "LDI"  -> Instr(10, f.DR, 0, off9)
          [] b.opcode = "LEA"  -> Instr(14, f.DR, 0, off9)
          [] b.opcode = "ST"   -> Instr(3, f.SR, 0, off9)
          [] b.opcode = "STI"  -> Instr(11, f.SR, 0, off9)
          [] b.opcode = "LDR"  -> Instr(6, f.DR, f.BaseR, sext(f.off6, 6))
          [] b.opcode = "STR"  -> Instr(7, f.SR, f.BaseR, sext(f.off6, 6))
          [] b.opcode = "BR"   -> Instr(0, Mask(f.nzp), 0, off9)
          [] b.opcode = "JMP"  -> Instr(12, 0, f.BaseR, 0)
          [] b.opcode = "JSR"  ->
               Instr(4, 4, 0, resolveOffset(f.target, 11, addr, symbols))
          [] b.opcode = "JSRR" -> Instr(4, 0, f.BaseR, 0)
          [] b.opcode = "TRAP" -> Instr(15, 0, 0, f.vector)
          [] OTHER -> Instr(15, 0, 0, 37)

-----------------------------------------------------------------------------
(* encode()                                                                *)

Address(i) == ORIG + i - 1          \* of the i-th block, counting from 1

LabelsOf(program) == {program[i].label : i \in DOMAIN program} \ {NoName}

\* Pass 1 throws when symbols[label] is already defined, which it also is for
\* the properties a fresh {} inherits
LabelsAccepted(program) ==
    /\ LabelsOf(program) \cap InheritedNames = {}
    /\ \A i, j \in DOMAIN program :
          program[i].label = program[j].label /\ program[i].label # NoName => i = j

Symbols(program) ==
    [name \in LabelsOf(program) |->
        Address(CHOOSE i \in DOMAIN program : program[i].label = name)]

\* encode() returns (it is called on a program that is not empty) ...
Encodes(program) ==
    /\ LabelsAccepted(program)
    /\ \A i \in DOMAIN program :
          BlockFits(program[i], Address(i), Symbols(program))

\* ... these words, to be loaded at ORIG
Words(program) ==
    [i \in DOMAIN program |->
        BlockWord(program[i], Address(i), Symbols(program))]

-----------------------------------------------------------------------------
(* The reading of an encoded block by the CPU.                             *)

\* The word v as the CPU sees an immediate or an offset
AsWord(v) == v % WordSize

\* The addresses that the blocks with a label are loaded at
LabelledAt(label, blocks) ==
    {ORIG + i - 1 : i \in {j \in DOMAIN blocks : blocks[j].label = label}}

\* From a PC-relative block at addr the CPU goes (or loads, or stores) where
\* the target says: to the one block with that label, or as far from the
\* incremented PC as the number that was typed
Reaches(w, bits, target, addr, blocks) ==
    LET place == Plus(AsWord(addr + 1), Offset(w, bits))
    IN  IF target \in NumericNames
        THEN place = AsWord(addr + 1 + NumericValue[target])
        ELSE LabelledAt(target, blocks) = {place}

\* The bits that execute_br0 tests; a block with no box checked tests all three
BranchesOn(w, nzp) ==
    /\ Bits(w, 11, 1) = 1 <=> "n" \in nzp \/ nzp = {}
    /\ Bits(w, 10, 1) = 1 <=> "z" \in nzp \/ nzp = {}
    /\ Bits(w, 9, 1) = 1  <=> "p" \in nzp \/ nzp = {}

\* The fields that the handlers of cpu.cpp extract from w are those of block b,
\* which is loaded at addr, one of blocks
ReadsBack(w, b, addr, blocks) ==
    LET f == b.fields
    IN  /\ w \in Word
        /\ Opcode(w) = CASE b.opcode = "ADD" -> 1  [] b.opcode = "AND" -> 5
                         [] b.opcode = "NOT" -> 9  [] b.opcode = "LD"  -> 2
                         [] b.opcode = "LDI" -> 10 [] b.opcode = "LEA" -> 14
                         [] b.opcode = "ST"  -> 3  [] b.opcode = "STI" -> 11
                         [] b.opcode = "LDR" -> 6  [] b.opcode = "STR" -> 7
                         [] b.opcode = "BR"  -> 0  [] b.opcode = "JMP" -> 12
                         [] b.opcode \in {"JSR", "JSRR"} -> 4
                         [] OTHER -> 15
        /\ b.opcode \in Operates \cup LoadsPC \cup {"NOT", "LDR"} => DR(w) = f.DR
        /\ b.opcode \in StoresPC \cup {"STR"} => DR(w) = f.SR
        /\ b.opcode \in Operates => SR1(w) = f.SR1
        /\ b.opcode \in Operates /\ f.mode = "SR2" =>
              ImmFlag(w) = 0 /\ SR2(w) = f.op2.val
        /\ b.opcode \in Operates /\ f.mode = "imm" =>
              ImmFlag(w) = 1 /\ Offset(w, 5) = AsWord(f.op2.val)
        /\ b.opcode = "NOT" => SR1(w) = f.SR
        /\ b.opcode \in {"LDR", "STR", "JMP", "JSRR"} => SR1(w) = f.BaseR
        /\ b.opcode \in {"LDR", "STR"} => Offset(w, 6) = AsWord(f.off6)
        /\ b.opcode \in LoadsPC \cup StoresPC \cup {"BR"} =>
              Reaches(w, 9, f.target, addr, blocks)
        /\ b.opcode = "BR" => BranchesOn(w, f.nzp)
        /\ b.opcode = "JSR" => LinkFlag(w) = 1 /\ Reaches(w, 11, f.target, addr, blocks)
        /\ b.opcode = "JSRR" => LinkFlag(w) = 0
        /\ b.opcode = "TRAP" => TrapVect(w) = f.vector
        /\ b.opcode = "HALT" => TrapVect(w) = HaltVector

=============================================================================
