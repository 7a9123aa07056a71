------------------------------- MODULE LC3ISA -------------------------------
(***************************************************************************)
(* What the simulator promises its user: the LC-3 as an instruction set.   *)
(* One action executes one whole instruction on the state a programmer     *)
(* sees (registers, PC, condition codes, memory).  There is no IR, MAR,    *)
(* MDR or cycle here; LC3Session shows that the state machine of cpu.cpp   *)
(* implements this specification.                                          *)
(***************************************************************************)
EXTENDS LC3Memory

CONSTANTS Images,     \* the programs a machine may start with
          Reloads     \* the programs it may be restarted with

VARIABLES reg, pc, n, z, p, memory,
          status      \* "running", "halted" (TRAP x25) or "illegal"

cond == <<n, z, p>>
isaVars == <<reg, pc, cond, memory, status>>

Contents(image) == LoadMem(ClearMemory, image.words, image.start)

Init == \E image \in Images :
    /\ reg = [r \in RegNum |-> 0]
    /\ pc = image.start
    /\ n = FALSE /\ z = TRUE /\ p = FALSE
    /\ memory = Contents(image)
    /\ status = "running"

Restart(image) ==
    /\ reg' = [r \in RegNum |-> 0]
    /\ pc' = image.start
    /\ n' = FALSE /\ z' = TRUE /\ p' = FALSE
    /\ memory' = Contents(image)
    /\ status' = "running"

-----------------------------------------------------------------------------
(* The instruction at the PC, and what its operands name                   *)

instr == ReadMem(memory, pc)
next  == Plus(pc, 1)                            \* the incremented PC

Relative(bits) == Plus(next, Offset(instr, bits))
Indexed        == Plus(reg[SR1(instr)], Offset(instr, 6))
Operand        == IF ImmFlag(instr) = 1 THEN Offset(instr, 5) ELSE reg[SR2(instr)]

Executing(opcode) == status = "running" /\ Opcode(instr) = opcode

\* DR <- value, set the condition codes, go on with the next instruction
Result(value) ==
    /\ reg' = [reg EXCEPT ![DR(instr)] = value]
    /\ n' = Negative(value)
    /\ z' = (value = 0)
    /\ p' = (~Negative(value) /\ value # 0)
    /\ pc' = next
    /\ UNCHANGED <<memory, status>>

\* M[address] <- SR, go on with the next instruction
StoreTo(address) ==
    /\ memory' = WriteMem(memory, address, reg[DR(instr)])
    /\ pc' = next
    /\ UNCHANGED <<reg, cond, status>>

Jump(address) == pc' = address /\ UNCHANGED <<reg, cond, memory, status>>

\* R7 <- return address; the target is read from the registers after that
Link == [reg EXCEPT ![7] = next]

-----------------------------------------------------------------------------
(* The instructions                                                        *)

ADD == Executing(1) /\ Result(Plus(reg[SR1(instr)], Operand))
AND == Executing(5) /\ Result(BitAnd(reg[SR1(instr)], Operand))
NOT == Executing(9) /\ Result(BitNot(reg[SR1(instr)]))
LEA == Executing(14) /\ Result(Relative(9))

LD  == Executing(2) /\ Result(ReadMem(memory, Relative(9)))
LDR == Executing(6) /\ Result(ReadMem(memory, Indexed))
LDI == Executing(10) /\ Result(ReadMem(memory, ReadMem(memory, Relative(9))))

ST  == Executing(3) /\ StoreTo(Relative(9))
STR == Executing(7) /\ StoreTo(Indexed)
STI == Executing(11) /\ StoreTo(ReadMem(memory, Relative(9)))

Taken == \/ Bits(instr, 11, 1) = 1 /\ n
         \/ Bits(instr, 10, 1) = 1 /\ z
         \/ Bits(instr, 9, 1) = 1 /\ p

BR  == Executing(0) /\ Jump(IF Taken THEN Relative(9) ELSE next)
JMP == Executing(12) /\ Jump(reg[SR1(instr)])

\* JSR and JSRR.  JSRR through R7 jumps to its own return address: R7 is
\* overwritten before it is read.
JSR == /\ Executing(4)
       /\ reg' = Link
       /\ pc' = IF LinkFlag(instr) = 1 THEN Relative(11) ELSE Link[SR1(instr)]
       /\ UNCHANGED <<cond, memory, status>>

TRAP == /\ Executing(15)
        /\ reg' = Link
        /\ pc' = ReadMem(memory, TrapVect(instr))
        /\ status' = IF TrapVect(instr) = HaltVector THEN "halted" ELSE "running"
        /\ UNCHANGED <<cond, memory>>

\* RTI and the reserved opcode stop the machine, past the offending word
Illegal == /\ Executing(8) \/ Executing(13)
           /\ status' = "illegal"
           /\ pc' = next
           /\ UNCHANGED <<reg, cond, memory>>

Execute == \/ ADD \/ AND \/ NOT \/ LEA
           \/ LD  \/ LDR \/ LDI \/ ST \/ STR \/ STI
           \/ BR  \/ JMP \/ JSR \/ TRAP \/ Illegal

Next == Execute \/ \E image \in Reloads : Restart(image)

Spec == Init /\ [][Next]_isaVars

=============================================================================
