------------------------------ MODULE LC3Editor ------------------------------
(***************************************************************************)
(* The block editor of www/script.js (section 4): the array `program` and  *)
(* the counter `nextId`, and the event handlers of the palette, of the     *)
(* program list and of the fields.  Each handler runs to its end before    *)
(* the browser delivers the next event, so it is one action.  A handler    *)
(* that ends in renderProgram() changes only what is drawn by it: the      *)
(* controls on the page are those the current program calls for.           *)
(***************************************************************************)
EXTENDS LC3Assembler, SequencesExt

CONSTANTS
    Opcodes,       \* the palette blocks the user makes use of
    Registers,     \* the registers the user picks in a field,
    Immediates,    \* what parseInt makes of the numbers typed in a field,
    Texts,         \* and the texts typed for a label or a numeric target
    Trimmed,       \* trim() of each text
    Presets,       \* the presets the user picks
    MaxBlocks,     \* bound on the blocks of a program, presets excepted: it
                   \* fits between ORIG and the end of the memory
    MaxId          \* bound on the ids given out

ASSUME EditorAssumption ==
    /\ Opcodes \subseteq OpcodeNames
    /\ Registers \subseteq RegNum
    /\ Immediates \subseteq Int \cup {NaN}
    /\ Texts \subseteq Names
    /\ Trimmed \in [Texts -> Names \cup {NoName}]
    /\ Presets \subseteq {"countdown", "addtwo", "notreg"}
    /\ MaxBlocks \in 0 .. (WordSize - ORIG) /\ MaxId \in Nat
    /\ "countdown" \in Presets => "LOOP" \in Names \ NumericNames

VARIABLES program,     \* the blocks, in order
          nextId

editorVars == <<program, nextId>>

-----------------------------------------------------------------------------
(* PRESETS                                                                 *)

Block(opcode, fields, label) == [id |-> 0, opcode |-> opcode, fields |-> fields, label |-> label]

Alu(dr, sr1, op2) ==
    [DR |-> dr, SR1 |-> sr1, mode |-> IF op2.shape = "reg" THEN "SR2" ELSE "imm", op2 |-> op2]

HaltBlock == Block("HALT", DefaultFields("HALT"), NoName)

PresetBlocks(name) ==
    CASE name = "countdown" ->
           << Block("AND", Alu(0, 0, Number(0)), NoName),
              Block("ADD", Alu(0, 0, Number(5)), NoName),
              Block("AND", Alu(1, 1, Number(0)), NoName),
              Block("ADD", Alu(1, 1, Register(0)), "LOOP"),
              Block("ADD", Alu(0, 0, Number(-1)), NoName),
              Block("BR", [nzp |-> {"p"}, target |-> "LOOP"], NoName),
              HaltBlock >>
      [] name = "addtwo" ->
           << Block("ADD", Alu(0, 0, Number(5)), NoName),
              Block("ADD", Alu(1, 1, Number(3)), NoName),
              Block("ADD", Alu(2, 0, Register(1)), NoName),
              HaltBlock >>
      [] OTHER ->
           << Block("AND", Alu(0, 0, Number(0)), NoName),
              Block("NOT", [DR |-> 0, SR |-> 0], NoName),
              HaltBlock >>

\* Mutant of loadPreset: one key for all blocks
loadPreset_OneKey(name) ==
    LET blocks == PresetBlocks(name)
        first  == nextId + Len(blocks)
    IN  /\ first + Len(blocks) <= MaxId + 1
        /\ program' = [i \in DOMAIN blocks |-> [blocks[i] EXCEPT !.id = first]]
        /\ nextId' = first + Len(blocks)

\* Every block of a preset is made by makeBlock, and then keyed anew
loadPreset(name) ==
    LET blocks == PresetBlocks(name)
        first  == nextId + Len(blocks)
    IN  /\ first + Len(blocks) <= MaxId + 1
        /\ program' = [i \in DOMAIN blocks |-> [blocks[i] EXCEPT !.id = first + i - 1]]
        /\ nextId' = first + Len(blocks)

-----------------------------------------------------------------------------
(* Palette, deletion and drag-and-drop.  Position Len(program) + 1 stands  *)
(* for a drop on the list outside of every block.                          *)

Room == Len(program) < MaxBlocks /\ nextId <= MaxId

\* Mutant of InsertNew: nextId is not incremented
InsertNew_SameId(opcode, position) ==
    /\ Room
    /\ program' = InsertAt(program, position, makeBlock(opcode, nextId))
    /\ UNCHANGED nextId

InsertNew(opcode, position) ==
    /\ Room
    /\ program' = InsertAt(program, position, makeBlock(opcode, nextId))
    /\ nextId' = nextId + 1

clickPalette(opcode) == InsertNew(opcode, Len(program) + 1)

dropNew(opcode, target) == InsertNew(opcode, target)

\* Mutant of dropMove: the index is not corrected for the block taken out
dropMove_NotShifted(from, target) ==
    /\ from # target
    /\ LET insertAt == IF target > Len(program) THEN Len(program) ELSE target
       IN  program' = InsertAt(RemoveAt(program, from), insertAt, program[from])
    /\ UNCHANGED nextId

dropMove(from, target) ==
    /\ from # target
    /\ LET insertAt == IF from < target THEN target - 1 ELSE target
       IN  program' = InsertAt(RemoveAt(program, from), insertAt, program[from])
    /\ UNCHANGED nextId

\* The filter on ids takes out this block and no other (IdsUnique)
deleteBlock(i) == program' = RemoveAt(program, i) /\ UNCHANGED nextId

clear == program' = << >> /\ UNCHANGED nextId

Arrange == \/ \E opcode \in Opcodes : clickPalette(opcode)
           \/ \E opcode \in Opcodes, target \in 1 .. Len(program) + 1 : dropNew(opcode, target)
           \/ \E from \in DOMAIN program, target \in 1 .. Len(program) + 1 :
                 dropMove(from, target)
           \/ \E i \in DOMAIN program : deleteBlock(i)
           \/ clear
           \/ \E name \in Presets : loadPreset(name)

-----------------------------------------------------------------------------
(* Labels.  The "+ label" button is there while the block has no label; it *)
(* compares the text as typed with the other labels, and stores it trimmed.*)

SetLabel(i, label) == program' = [program EXCEPT ![i].label = label] /\ UNCHANGED nextId

nameBlock(i, text) ==
    /\ \A j \in DOMAIN program : program[j].label # text
    /\ SetLabel(i, Trimmed[text])

addLabel(i, text) == program[i].label = NoName /\ nameBlock(i, text)

removeLabel(i) == program[i].label # NoName /\ SetLabel(i, NoName)

Label == \E i \in DOMAIN program : removeLabel(i) \/ \E text \in Texts : addLabel(i, text)

-----------------------------------------------------------------------------
(* The fields of a block                                                   *)

Has(i, name) == name \in DOMAIN program[i].fields

SetField(i, name, value) ==
    /\ Has(i, name)
    /\ program' = [program EXCEPT ![i].fields[name] = value]
    /\ UNCHANGED nextId

chooseRegister(i, name, r) == SetField(i, name, r)

\* Mutant of chooseMode: op2 is left as it was
chooseMode_KeepsOperand(i, mode) == SetField(i, "mode", mode)

\* Switching the mode of ADD or AND makes the shape of op2 follow it
chooseMode(i, mode) ==
    /\ Has(i, "mode")
    /\ LET op2 == program[i].fields.op2
           fitting == CASE mode = "SR2" /\ op2.shape # "reg" -> Register(0)
                        [] mode = "imm" /\ op2.shape = "reg" -> Number(0)
                        [] OTHER -> op2
       IN  program' = [program EXCEPT ![i].fields.mode = mode, ![i].fields.op2 = fitting]
    /\ UNCHANGED nextId

chooseSR2(i, r) == Has(i, "op2") /\ program[i].fields.mode = "SR2" /\ SetField(i, "op2", Register(r))
typeImm5(i, v)  == Has(i, "op2") /\ program[i].fields.mode = "imm" /\ SetField(i, "op2", Number(v))
typeOff6(i, v)  == SetField(i, "off6", v)

\* The three boxes of BR, after any number of clicks; none stands for all
checkNZP(i, boxes) == SetField(i, "nzp", IF boxes = {} THEN {"n", "z", "p"} ELSE boxes)

\* "(choose target)", a label of the program, or a text from the prompt
chooseTarget(i, target) == SetField(i, "target", target)

chooseVector(i, v) == SetField(i, "vector", v)

Fill == \E i \in DOMAIN program :
    \/ \E name \in {"DR", "SR1", "SR", "BaseR"}, r \in Registers : chooseRegister(i, name, r)
    \/ \E mode \in {"SR2", "imm"} : chooseMode(i, mode)
    \/ \E r \in Registers : chooseSR2(i, r)
    \/ \E v \in Immediates : typeImm5(i, v) \/ typeOff6(i, v)
    \/ \E boxes \in SUBSET {"n", "z", "p"} : checkNZP(i, boxes)
    \/ \E target \in {NoName} \cup LabelsOf(program) \cup Texts : chooseTarget(i, target)
    \/ \E v \in TrapVectors : chooseVector(i, v)

-----------------------------------------------------------------------------

EditorInit == program = << >> /\ nextId = 1

EditorNext == Arrange \/ Label \/ Fill

EditorSpec == EditorInit /\ [][EditorNext]_editorVars

-----------------------------------------------------------------------------

Operand == {Register(r) : r \in RegNum} \cup {Number(v) : v \in Immediates \cup {-1, 0, 3, 5}}

FieldValues(name) ==
    CASE name \in {"DR", "SR1", "SR", "BaseR"} -> RegNum
      [] name = "mode"   -> {"SR2", "imm"}
      [] name = "op2"    -> Operand
      [] name = "off6"   -> Immediates \cup {0}
      [] name = "nzp"    -> (SUBSET {"n", "z", "p"}) \ {{}}
      [] name = "target" -> Names \cup {NoName}
      [] OTHER           -> TrapVectors

(* Type invariant: every block has exactly the fields of its opcode, each  *)
(* with a value its control can give, and an id that was handed out.       *)
EditorTypeOK ==
    /\ nextId \in Nat
    /\ \A i \in DOMAIN program :
          LET b == program[i]
          IN  /\ b.id \in 1 .. (nextId - 1)
              /\ b.opcode \in OpcodeNames
              /\ b.label \in Names \cup {NoName}
              /\ DOMAIN b.fields = DOMAIN DefaultFields(b.opcode)
              /\ \A name \in DOMAIN b.fields : b.fields[name] \in FieldValues(name)

(* No two blocks ever share an id: delete, drag and the highlighting find  *)
(* a block by its id, after any mix of presets, drops and deletions.       *)
IdsUnique == \A i, j \in DOMAIN program : program[i].id = program[j].id => i = j

(* The encoder of ADD and AND slices 'R' off op2 in mode SR2 and parses it *)
(* as a number in mode imm: whichever way the mode was switched, op2 has   *)
(* the shape that the mode reads.                                          *)
ModeReadsOperand ==
    \A i \in DOMAIN program :
        Has(i, "mode") =>
            (program[i].fields.mode = "SR2" <=> program[i].fields.op2.shape = "reg")

(* Whatever the user has put together, when encode() accepts it each word  *)
(* reads back, through the bit fields that the handlers of cpu.cpp use, as *)
(* the block it came from: registers, numbers, the condition bits of BR as *)
(* they are tested, and each label target leads to the block that carries  *)
(* the label, which is the only one.                                       *)
EncodedFaithfully ==
    Encodes(program) =>
        \A i \in DOMAIN program :
            ReadsBack(Words(program)[i], program[i], ORIG + i - 1, program)

(* A dragged block lands right before the block it was dropped on (last,   *)
(* when dropped below the list), from above and from below alike, and the  *)
(* other blocks keep their order.                                          *)
DropLandsBeforeTarget ==
    [][\A from \in DOMAIN program, target \in 1 .. Len(program) + 1 :
          dropMove(from, target) =>
              \E k \in DOMAIN program' :
                 /\ program'[k] = program[from]
                 /\ RemoveAt(program', k) = RemoveAt(program, from)
                 /\ IF target > Len(program)
                    THEN k = Len(program')
                    ELSE k < Len(program') /\ program'[k + 1] = program[target]
      ]_editorVars

-----------------------------------------------------------------------------
(* script.js:278 answers a label that is taken with 'Label already used':  *)
(* no two blocks carry the same label.                                     *)
LabelsUnique ==
    \A i, j \in DOMAIN program :
        program[i].label = program[j].label /\ program[i].label # NoName => i = j

(* README.md:53: "Attach labels to blocks; BR and JSR targets resolve      *)
(* them visually": a target that the page shows as the label of a block    *)
(* leads to that block in the encoded program.                             *)
TargetsReachLabels ==
    Encodes(program) =>
        \A i, j \in DOMAIN program :
            /\ program[i].opcode \in {"BR", "JSR"}
            /\ program[i].fields.target = program[j].label
            => LET bits == IF program[i].opcode = "BR" THEN 9 ELSE 11
               IN  Plus(Address(i) + 1, Offset(Words(program)[i], bits)) = Address(j)

=============================================================================
