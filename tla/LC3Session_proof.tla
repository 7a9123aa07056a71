-------------------------- MODULE LC3Session_proof --------------------------
(***************************************************************************)
(* The state machine of cpu.cpp implements the instruction set of LC3ISA   *)
(* for every program: SessionSpec => ISA!Spec.  The proof needs what the   *)
(* datapath registers hold in every state (DatapathLatches), which is      *)
(* inductive together with the types.                                      *)
(***************************************************************************)
EXTENDS LC3Session, LC3CPU_proof

(* A program of a session is loaded into a cleared memory.                 *)
LEMMA ContentsIsMemory == ASSUME NEW image \in Images
                          PROVE  IsMemory(Contents(image)) /\ image.start \in Word
  BY CPUAssumption, ClearIsMemory, LoadIsMemory DEF Contents

LEMMA SessionInitInv == SessionInit => Inv
  BY ContentsIsMemory, PowerOnInv DEF SessionInit

LEMMA SessionNextInv == Inv /\ [SessionNext]_vars => Inv'
<1> SUFFICES ASSUME Inv, [SessionNext]_vars PROVE Inv'
  OBVIOUS
<1>1. CASE BoundedStep
  BY <1>1, StepInv DEF BoundedStep
<1>2. ASSUME NEW image \in Reloads, Reload(image) PROVE Inv'
  BY <1>2, SessionAssumption, ContentsIsMemory, RestartInv DEF Reload
<1>3. QED
  BY <1>1, <1>2, StutterInv DEF SessionNext

-----------------------------------------------------------------------------
(* DatapathLatches is inductive                                            *)

LEMMA LatchesFetch == ASSUME Inv, DatapathLatches, Fetch PROVE DatapathLatches'
<1>1. CASE execute_fetch0
  <2>1. MAR' = Before(pc)'
    BY <1>1, PlusMinus DEF execute_fetch0, Before, Inv, TypeOK
  <2>2. QED
    BY <1>1, <2>1 DEF execute_fetch0, transition_to, DatapathLatches, Uncommitted
<1>2. CASE execute_fetch1
  BY <1>2 DEF execute_fetch1, At, transition_to, ReadMDR, SetMDR, fetched, Before,
     DatapathLatches, Uncommitted
<1>3. CASE execute_fetch2
  BY <1>3 DEF execute_fetch2, At, transition_to, fetched, Before,
     DatapathLatches, Uncommitted
<1>4. CASE execute_decode
  <2>1. Dispatch(Opcode(IR)) \notin
           {"FETCH_1", "FETCH_2", "LD_1", "ST_1", "ST_2", "LDI_1", "STI_1",
            "LDR_1", "STR_1", "STR_2", "LD_2", "LDI_2", "STI_2", "LDR_2",
            "LDI_3", "STI_3", "STI_4", "LDI_4", "TRAP_1", "BR_1"}
    BY DEF Dispatch
  <2>2. IR = fetched
    BY <1>4 DEF execute_decode, At, DatapathLatches, Uncommitted, FetchStates
  <2>3. QED
    BY <1>4, <2>1, <2>2 DEF execute_decode, transition_to, fetched, Before,
       DatapathLatches
<1>5. QED
  BY <1>1, <1>2, <1>3, <1>4 DEF Fetch

(* A handler that ends an instruction leaves nothing to be said.           *)
LEMMA LatchesReturn == ASSUME current_state' = "FETCH_0" PROVE DatapathLatches'
  BY DEF DatapathLatches, Uncommitted

LEMMA LatchesLoad == ASSUME Inv, DatapathLatches, Load PROVE DatapathLatches'
<1> USE DEF At, transition_to, DatapathLatches, Uncommitted, FetchStates,
            ExecStates, fetched, Before, SetMAR, SetMDR, ReadMDR, PCRelative,
            BaseRelative
<1>1. CASE execute_ld0 \/ execute_ldr0 \/ execute_ldi0
  BY <1>1 DEF execute_ld0, execute_ldr0, execute_ldi0
<1>2. CASE execute_ld1 \/ execute_ldr1 \/ execute_ldi1
  BY <1>2 DEF execute_ld1, execute_ldr1, execute_ldi1
<1>3. CASE execute_ldi2 \/ execute_ldi3
  BY <1>3 DEF execute_ldi2, execute_ldi3
<1>4. CASE execute_ld2 \/ execute_ldr2 \/ execute_ldi4
  BY <1>4, LatchesReturn DEF execute_ld2, execute_ldr2, execute_ldi4
<1>5. QED
  BY <1>1, <1>2, <1>3, <1>4 DEF Load

LEMMA LatchesStore == ASSUME Inv, DatapathLatches, Store PROVE DatapathLatches'
<1> USE DEF At, transition_to, DatapathLatches, Uncommitted, FetchStates,
            ExecStates, fetched, Before, SetMAR, SetMDR, ReadMDR, PCRelative,
            BaseRelative
<1>1. CASE execute_st0 \/ execute_str0 \/ execute_sti0
  BY <1>1 DEF execute_st0, execute_str0, execute_sti0
<1>2. CASE execute_st1 \/ execute_str1 \/ execute_sti3
  BY <1>2 DEF execute_st1, execute_str1, execute_sti3
<1>3. CASE execute_sti1 \/ execute_sti2
  BY <1>3 DEF execute_sti1, execute_sti2
<1>4. CASE execute_st2 \/ execute_str2 \/ execute_sti4
  BY <1>4, LatchesReturn DEF execute_st2, execute_str2, execute_sti4
<1>5. QED
  BY <1>1, <1>2, <1>3, <1>4 DEF Store

LEMMA LatchesControl == ASSUME Inv, DatapathLatches, Control PROVE DatapathLatches'
<1> USE DEF At, transition_to, DatapathLatches, Uncommitted, FetchStates,
            ExecStates, fetched, Before, SetMAR, SetPC
<1>1. CASE execute_jmp0 \/ execute_jsr1 \/ execute_jsr2 \/ execute_br1
  BY <1>1, LatchesReturn DEF execute_jmp0, execute_jsr1, execute_jsr2, execute_br1
<1>2. CASE execute_jsr0
  BY <1>2 DEF execute_jsr0
<1>3. CASE execute_br0
  BY <1>3 DEF execute_br0, BEN, cond
<1>4. CASE execute_trap0 \/ execute_trap1
  BY <1>4 DEF execute_trap0, execute_trap1
<1>5. CASE execute_trap2
  BY <1>5 DEF execute_trap2
<1>6. QED
  BY <1>1, <1>2, <1>3, <1>4, <1>5 DEF Control

LEMMA LatchesOperateStop == ASSUME Inv, DatapathLatches, Operate \/ Stop
                            PROVE  DatapathLatches'
<1>1. CASE Operate
  BY <1>1, LatchesReturn DEF Operate, execute_add, execute_and, execute_not,
     execute_lea0, transition_to
<1>2. CASE Stop
  BY <1>2 DEF Stop, stop_halt, stop_error, At, DatapathLatches, Uncommitted,
     FetchStates, ExecStates
<1>3. QED
  BY <1>1, <1>2

SessionInv == Inv /\ DatapathLatches

LEMMA SessionInvInit == SessionInit => SessionInv
  BY SessionInitInv DEF SessionInit, PowerOn, SessionInv, DatapathLatches, Uncommitted

LEMMA SessionInvNext == SessionInv /\ [SessionNext]_vars => SessionInv'
<1> SUFFICES ASSUME SessionInv, [SessionNext]_vars PROVE DatapathLatches'
  BY SessionNextInv DEF SessionInv
<1>1. CASE BoundedStep
  BY <1>1, LatchesFetch, LatchesOperateStop, LatchesLoad, LatchesStore,
     LatchesControl DEF BoundedStep, step, SessionInv
<1>2. ASSUME NEW image \in Reloads, Reload(image) PROVE DatapathLatches'
  BY <1>2, LatchesReturn DEF Reload, Restart
<1>3. CASE UNCHANGED vars
  BY <1>3 DEF vars, cond, SessionInv, DatapathLatches, Uncommitted, fetched, Before,
     PCRelative, BaseRelative, BEN
<1>4. QED
  BY <1>1, <1>2, <1>3 DEF SessionNext

(* In a session the datapath registers always hold what the next handler   *)
(* expects of them (cpu.cpp:138-460).                                      *)
THEOREM LatchesCorrect == SessionSpec => []DatapathLatches
<1>1. SessionSpec => []SessionInv
  BY SessionInvInit, SessionInvNext, PTL DEF SessionSpec
<1>2. QED
  BY <1>1, PTL DEF SessionInv

-----------------------------------------------------------------------------
(* Refinement.  What the instruction set computes from the mapped PC is    *)
(* what the handlers compute from IR and the incremented PC.               *)

(* The operators of LC3Word and LC3Memory mean the same in both machines.  *)
LEMMA SameArithmetic ==
    /\ ISA!RegNum = RegNum /\ ISA!HaltVector = HaltVector
    /\ \A a, b, c : ISA!Bits(a, b, c) = Bits(a, b, c)
    /\ \A a, b : ISA!Plus(a, b) = Plus(a, b) /\ ISA!BitAnd(a, b) = BitAnd(a, b)
    /\ \A a : ISA!BitNot(a) = BitNot(a) /\ ISA!Negative(a) = Negative(a)
<1>1. \A a, b, c : ISA!Bits(a, b, c) = Bits(a, b, c)
  BY DEF ISA!Bits, Bits
<1>2. \A a, b, i : ISA!BothBits(a, b, i) = BothBits(a, b, i)
  BY <1>1 DEF ISA!BothBits, BothBits
<1>3. \A a, b, i : ISA!FourBits(a, b, i) = FourBits(a, b, i)
  BY <1>2 DEF ISA!FourBits, FourBits
<1>4. \A a, b : ISA!BitAnd(a, b) = BitAnd(a, b)
  BY <1>3 DEF ISA!BitAnd, BitAnd
<1>5. \A a, b : ISA!Plus(a, b) = Plus(a, b)
  BY DEF ISA!Plus, Plus, ISA!WordSize, WordSize
<1>6. \A a : ISA!BitNot(a) = BitNot(a) /\ ISA!Negative(a) = Negative(a)
  BY DEF ISA!BitNot, BitNot, ISA!Negative, Negative, ISA!WordSize, WordSize
<1>7. ISA!RegNum = RegNum /\ ISA!HaltVector = HaltVector
  BY DEF ISA!RegNum, RegNum, ISA!HaltVector, HaltVector
<1>8. QED
  BY <1>1, <1>4, <1>5, <1>6, <1>7

LEMMA SameFields ==
    /\ \A a : /\ ISA!Opcode(a) = Opcode(a) /\ ISA!DR(a) = DR(a)
              /\ ISA!SR1(a) = SR1(a) /\ ISA!SR2(a) = SR2(a)
              /\ ISA!ImmFlag(a) = ImmFlag(a) /\ ISA!LinkFlag(a) = LinkFlag(a)
              /\ ISA!TrapVect(a) = TrapVect(a)
    /\ \A a, b : ISA!Offset(a, b) = Offset(a, b)
<1>1. \A a, b : ISA!sign_extend(a, b) = sign_extend(a, b)
  BY SameArithmetic DEF ISA!sign_extend, sign_extend, ISA!WordSize, WordSize
<1>2. \A a, b : ISA!Offset(a, b) = Offset(a, b)
  BY <1>1, SameArithmetic DEF ISA!Offset, Offset
<1>3. \A a : /\ ISA!Opcode(a) = Opcode(a) /\ ISA!DR(a) = DR(a)
             /\ ISA!SR1(a) = SR1(a) /\ ISA!SR2(a) = SR2(a)
             /\ ISA!ImmFlag(a) = ImmFlag(a) /\ ISA!LinkFlag(a) = LinkFlag(a)
             /\ ISA!TrapVect(a) = TrapVect(a)
  BY SameArithmetic
     DEF ISA!Opcode, Opcode, ISA!DR, DR, ISA!SR1, SR1, ISA!SR2, SR2, ISA!ImmFlag,
         ImmFlag, ISA!LinkFlag, LinkFlag, ISA!TrapVect, TrapVect
<1>4. QED
  BY <1>2, <1>3

LEMMA SameMemory ==
    /\ ISA!ClearMemory = ClearMemory
    /\ \A a, b : ISA!ReadMem(a, b) = ReadMem(a, b)
    /\ \A a, b, c : ISA!WriteMem(a, b, c) = WriteMem(a, b, c)
    /\ \A a, b, c : ISA!LoadMem(a, b, c) = LoadMem(a, b, c)
<1>1. \A a, b : ISA!Covered(a, b) = Covered(a, b)
  BY DEF ISA!Covered, Covered, ISA!Word, Word, ISA!WordSize, WordSize
<1>2. \A a, b, c : ISA!LoadMem(a, b, c) = LoadMem(a, b, c)
  BY <1>1 DEF ISA!LoadMem, LoadMem
<1>3. \A a, b : ISA!ReadMem(a, b) = ReadMem(a, b)
  BY DEF ISA!ReadMem, ReadMem
<1>4. \A a, b, c : ISA!WriteMem(a, b, c) = WriteMem(a, b, c)
  BY DEF ISA!WriteMem, WriteMem
<1>5. ISA!ClearMemory = ClearMemory
  BY DEF ISA!ClearMemory, ClearMemory
<1>6. QED
  BY <1>2, <1>3, <1>4, <1>5

Decoded == Uncommitted \ {"FETCH_1", "FETCH_2"}

(* Until an instruction commits, the mapped PC names the word in IR and    *)
(* the operands of the two machines agree.                                 *)
LEMMA Reading == ASSUME SessionInv, current_state \in Decoded
                 PROVE  /\ ISA!instr = IR
                        /\ ISA!next = pc
                        /\ \A bits : ISA!Relative(bits) = PCRelative(bits)
                        /\ ISA!Indexed = BaseRelative
                        /\ ISA!Operand = SecondOperand
                        /\ ISA!Taken = BEN
                        /\ isaStatus = "running"
<1>1. isaPC = Before(pc)
  BY DEF Decoded, isaPC, Uncommitted, FetchStates, ExecStates
<1>2. ISA!instr = IR
  BY <1>1, SameMemory DEF ISA!instr, SessionInv, DatapathLatches, Decoded, fetched
<1>3. ISA!next = pc
  BY <1>1, PlusMinus, SameArithmetic DEF ISA!next, Before, SessionInv, Inv, TypeOK
<1>4. \A bits : ISA!Relative(bits) = PCRelative(bits)
  BY <1>2, <1>3, SameArithmetic, SameFields DEF ISA!Relative, PCRelative
<1>5. ISA!Indexed = BaseRelative
  BY <1>2, SameArithmetic, SameFields DEF ISA!Indexed, BaseRelative
<1>6. ISA!Operand = SecondOperand
  BY <1>2, SameFields DEF ISA!Operand, SecondOperand
<1>7. ISA!Taken = BEN
  BY <1>2, SameArithmetic DEF ISA!Taken, BEN
<1>8. isaStatus = "running"
  BY DEF isaStatus, Decoded, Uncommitted, FetchStates, ExecStates
<1>9. QED
  BY <1>2, <1>3, <1>4, <1>5, <1>6, <1>7, <1>8

(* A decoded state belongs to the opcode in IR.                            *)
LEMMA ExecutingOpcode ==
    ASSUME SessionInv, current_state \in Decoded \ {"DECODE"}, NEW opcode \in 0 .. 15,
           \A other \in 0 .. 15 : current_state \in StatesOf(other) => other = opcode
    PROVE  ISA!Executing(opcode)
<1>1. Opcode(IR) \in 0 .. 15
  BY BitsRange DEF SessionInv, Inv, TypeOK
<1>2. current_state \in StatesOf(Opcode(IR))
  BY DEF SessionInv, Inv, FSMPath, Decoded, Uncommitted, FetchStates, ExecStates
<1>3. QED
  BY <1>1, <1>2, Reading, SameFields DEF ISA!Executing

(* The state an instruction ends in shows the architectural PC and status. *)
LEMMA Ended == ASSUME current_state' = "FETCH_0"
               PROVE  isaPC' = pc' /\ isaStatus' = "running"
  BY DEF isaPC, isaStatus, Uncommitted

(* The three ways an instruction ends.                                     *)
LEMMA EndsWithDR == ASSUME SessionInv, current_state \in Decoded, NEW v,
                           SetDR(v), transition_to("FETCH_0")
                    PROVE  ISA!Result(v)
  BY Reading, Ended, SameFields, SameArithmetic
     DEF SetDR, update_cond, transition_to, ISA!Result

LEMMA EndsWithStore == ASSUME SessionInv, current_state \in Decoded,
                              MDR = reg[DR(IR)], StoreMDR, transition_to("FETCH_0")
                       PROVE  ISA!StoreTo(MAR)
  BY Reading, Ended, SameFields, SameMemory
     DEF StoreMDR, transition_to, ISA!StoreTo, ISA!cond, cond

LEMMA EndsWithJump == ASSUME SessionInv, current_state \in Decoded, NEW a,
                             SetPC(a), transition_to("FETCH_0")
                      PROVE  ISA!Jump(a)
  BY Reading, Ended DEF SetPC, transition_to, ISA!Jump, ISA!cond, cond

(* The steps that commit an instruction are steps of the instruction set.  *)

LEMMA CommitOperate == ASSUME SessionInv, Operate PROVE ISA!Execute
<1> USE DEF At, Decoded, Uncommitted, FetchStates, ExecStates, StatesOf
<1>1. CASE execute_add
  <2>1. ISA!Executing(1)
    BY <1>1, ExecutingOpcode DEF execute_add
  <2>2. ISA!Result(Plus(reg[SR1(IR)], SecondOperand))
    BY <1>1, EndsWithDR DEF execute_add
  <2>3. QED
    BY <1>1, <2>1, <2>2, Reading, SameFields, SameArithmetic
       DEF execute_add, ISA!ADD, ISA!Execute
<1>2. CASE execute_and
  <2>1. ISA!Executing(5)
    BY <1>2, ExecutingOpcode DEF execute_and
  <2>2. ISA!Result(BitAnd(reg[SR1(IR)], SecondOperand))
    BY <1>2, EndsWithDR DEF execute_and
  <2>3. QED
    BY <1>2, <2>1, <2>2, Reading, SameFields, SameArithmetic
       DEF execute_and, ISA!AND, ISA!Execute
<1>3. CASE execute_not
  <2>1. ISA!Executing(9)
    BY <1>3, ExecutingOpcode DEF execute_not
  <2>2. ISA!Result(BitNot(reg[SR1(IR)]))
    BY <1>3, EndsWithDR DEF execute_not
  <2>3. QED
    BY <1>3, <2>1, <2>2, Reading, SameFields, SameArithmetic
       DEF execute_not, ISA!NOT, ISA!Execute
<1>4. CASE execute_lea0
  <2>1. ISA!Executing(14)
    BY <1>4, ExecutingOpcode DEF execute_lea0
  <2>2. ISA!Result(PCRelative(9))
    BY <1>4, EndsWithDR DEF execute_lea0
  <2>3. QED
    BY <1>4, <2>1, <2>2, Reading DEF execute_lea0, ISA!LEA, ISA!Execute
<1>5. QED
  BY <1>1, <1>2, <1>3, <1>4 DEF Operate

LEMMA CommitLoad ==
    ASSUME SessionInv, execute_ld2 \/ execute_ldr2 \/ execute_ldi4 PROVE ISA!Execute
<1> USE DEF At, Decoded, Uncommitted, FetchStates, ExecStates, StatesOf
<1>1. CASE execute_ld2
  <2>1. ISA!Executing(2) /\ ISA!Result(MDR)
    BY <1>1, ExecutingOpcode, EndsWithDR DEF execute_ld2
  <2>2. MDR = ISA!ReadMem(memory, ISA!Relative(9))
    BY <1>1, Reading, SameMemory DEF execute_ld2, SessionInv, DatapathLatches
  <2>3. QED
    BY <2>1, <2>2 DEF ISA!LD, ISA!Execute
<1>2. CASE execute_ldr2
  <2>1. ISA!Executing(6) /\ ISA!Result(MDR)
    BY <1>2, ExecutingOpcode, EndsWithDR DEF execute_ldr2
  <2>2. MDR = ISA!ReadMem(memory, ISA!Indexed)
    BY <1>2, Reading, SameMemory DEF execute_ldr2, SessionInv, DatapathLatches
  <2>3. QED
    BY <2>1, <2>2 DEF ISA!LDR, ISA!Execute
<1>3. CASE execute_ldi4
  <2>1. ISA!Executing(10) /\ ISA!Result(MDR)
    BY <1>3, ExecutingOpcode, EndsWithDR DEF execute_ldi4
  <2>2. MDR = ISA!ReadMem(memory, ISA!ReadMem(memory, ISA!Relative(9)))
    BY <1>3, Reading, SameMemory DEF execute_ldi4, SessionInv, DatapathLatches
  <2>3. QED
    BY <2>1, <2>2 DEF ISA!LDI, ISA!Execute
<1>4. QED
  BY <1>1, <1>2, <1>3

LEMMA CommitStore ==
    ASSUME SessionInv, execute_st2 \/ execute_str2 \/ execute_sti4 PROVE ISA!Execute
<1> USE DEF At, Decoded, Uncommitted, FetchStates, ExecStates, StatesOf
<1>1. CASE execute_st2
  <2>1. ISA!Executing(3) /\ ISA!StoreTo(MAR)
    BY <1>1, ExecutingOpcode, EndsWithStore DEF execute_st2, SessionInv, DatapathLatches
  <2>2. MAR = ISA!Relative(9)
    BY <1>1, Reading DEF execute_st2, SessionInv, DatapathLatches
  <2>3. QED
    BY <2>1, <2>2 DEF ISA!ST, ISA!Execute
<1>2. CASE execute_str2
  <2>1. ISA!Executing(7) /\ ISA!StoreTo(MAR)
    BY <1>2, ExecutingOpcode, EndsWithStore DEF execute_str2, SessionInv, DatapathLatches
  <2>2. MAR = ISA!Indexed
    BY <1>2, Reading DEF execute_str2, SessionInv, DatapathLatches
  <2>3. QED
    BY <2>1, <2>2 DEF ISA!STR, ISA!Execute
<1>3. CASE execute_sti4
  <2>1. ISA!Executing(11) /\ ISA!StoreTo(MAR)
    BY <1>3, ExecutingOpcode, EndsWithStore DEF execute_sti4, SessionInv, DatapathLatches
  <2>2. MAR = ISA!ReadMem(memory, ISA!Relative(9))
    BY <1>3, Reading, SameMemory DEF execute_sti4, SessionInv, DatapathLatches
  <2>3. QED
    BY <2>1, <2>2 DEF ISA!STI, ISA!Execute
<1>4. QED
  BY <1>1, <1>2, <1>3

LEMMA CommitJump ==
    ASSUME SessionInv, execute_jmp0 \/ (execute_br0 /\ ~BEN) \/ execute_br1
    PROVE  ISA!Execute
<1> USE DEF At, Decoded, Uncommitted, FetchStates, ExecStates, StatesOf
<1>1. CASE execute_jmp0
  <2>1. ISA!Executing(12) /\ ISA!Jump(reg[SR1(IR)])
    BY <1>1, ExecutingOpcode, EndsWithJump DEF execute_jmp0
  <2>2. QED
    BY <1>1, <2>1, Reading, SameFields DEF execute_jmp0, ISA!JMP, ISA!Execute
<1>2. CASE execute_br0 /\ ~BEN
  <2>1. ISA!Executing(0)
    BY <1>2, ExecutingOpcode DEF execute_br0
  <2>2. ISA!Jump(pc)
    BY <1>2, Ended DEF execute_br0, transition_to, ISA!Jump, ISA!cond, cond,
       isaStatus
  <2>3. QED
    BY <1>2, <2>1, <2>2, Reading DEF execute_br0, ISA!BR, ISA!Execute
<1>3. CASE execute_br1
  <2>1. ISA!Executing(0) /\ ISA!Jump(PCRelative(9))
    BY <1>3, ExecutingOpcode, EndsWithJump DEF execute_br1
  <2>2. BEN
    BY <1>3 DEF execute_br1, SessionInv, DatapathLatches
  <2>3. QED
    BY <1>3, <2>1, <2>2, Reading DEF execute_br1, ISA!BR, ISA!Execute
<1>4. QED
  BY <1>1, <1>2, <1>3

(* The calls commit when R7 is written: from then on the mapped PC is the  *)
(* target the machine is about to load.                                    *)
LEMMA CommitJSR == ASSUME SessionInv, execute_jsr0 PROVE ISA!Execute
<1> USE DEF At, Decoded, Uncommitted, FetchStates, ExecStates, StatesOf
<1>1. ISA!Executing(4)
  BY ExecutingOpcode DEF execute_jsr0
<1>2. /\ ISA!instr = IR /\ ISA!next = pc
      /\ \A bits : ISA!Relative(bits) = PCRelative(bits)
      /\ isaStatus = "running"
  BY Reading DEF execute_jsr0
<1>3. reg' = ISA!Link
  BY <1>2 DEF execute_jsr0, ISA!Link
<1>4. LinkFlag(IR) \in {0, 1}
  BY BitsRange DEF SessionInv, Inv, TypeOK
<1>5. CASE LinkFlag(IR) = 1
  <2>1. isaPC' = PCRelative(11) /\ isaStatus' = "running"
    BY <1>5 DEF execute_jsr0, transition_to, isaPC, isaStatus, PCRelative
  <2>2. QED
    BY <1>1, <1>2, <1>3, <1>5, <2>1, SameFields
       DEF execute_jsr0, ISA!JSR, ISA!Execute, ISA!cond, cond
<1>6. CASE LinkFlag(IR) = 0
  <2>1. isaPC' = reg'[SR1(IR)] /\ isaStatus' = "running"
    BY <1>6 DEF execute_jsr0, transition_to, isaPC, isaStatus
  <2>2. QED
    BY <1>1, <1>2, <1>3, <1>6, <2>1, SameFields
       DEF execute_jsr0, ISA!JSR, ISA!Execute, ISA!cond, cond
<1>7. QED
  BY <1>4, <1>5, <1>6

LEMMA CommitTRAP == ASSUME SessionInv, execute_trap1 PROVE ISA!Execute
<1> USE DEF At, Decoded, Uncommitted, FetchStates, ExecStates, StatesOf
<1>1. ISA!Executing(15)
  BY ExecutingOpcode DEF execute_trap1
<1>2. ISA!instr = IR /\ ISA!next = pc /\ isaStatus = "running"
  BY Reading DEF execute_trap1
<1>3. reg' = ISA!Link
  BY <1>2 DEF execute_trap1, ISA!Link
<1>4. isaPC' = ISA!ReadMem(memory, ISA!TrapVect(IR))
  BY SameMemory, SameFields
     DEF execute_trap1, transition_to, isaPC, SessionInv, DatapathLatches
<1>5. isaStatus' = IF TrapVect(IR) = HaltVector THEN "halted" ELSE "running"
  BY DEF execute_trap1, transition_to, isaStatus
<1>6. QED
  BY <1>1, <1>2, <1>3, <1>4, <1>5, SameFields, SameArithmetic
     DEF execute_trap1, ISA!TRAP, ISA!Execute, ISA!cond, cond

LEMMA CommitIllegal ==
    ASSUME SessionInv, execute_decode, Opcode(IR) \in {8, 13} PROVE ISA!Execute
<1>1. /\ ISA!instr = IR /\ ISA!next = pc /\ isaStatus = "running"
  BY Reading DEF execute_decode, At, Decoded, Uncommitted, FetchStates
<1>2. Dispatch(Opcode(IR)) \in {"ERROR", "RESERVED"}
  BY DEF Dispatch
<1>3. isaPC' = pc /\ isaStatus' = "illegal"
  BY <1>2 DEF execute_decode, transition_to, isaPC, isaStatus, Uncommitted,
     FetchStates, ExecStates
<1>4. QED
  BY <1>1, <1>3, SameFields
     DEF execute_decode, ISA!Illegal, ISA!Executing, ISA!Execute, ISA!cond, cond

-----------------------------------------------------------------------------
(* Every other transition is invisible to the programmer.                  *)

Invisible == UNCHANGED ISA!isaVars

LEMMA Quiet == ASSUME UNCHANGED <<reg, cond, memory>>,
                      isaPC' = isaPC, isaStatus' = isaStatus
               PROVE  Invisible
  BY DEF Invisible, ISA!isaVars, ISA!cond, cond

(* Between two uncommitted states only IR, MAR and MDR change.             *)
LEMMA QuietInside == ASSUME current_state \in Uncommitted, current_state' \in Uncommitted,
                            UNCHANGED <<reg, pc, cond, memory>>
                     PROVE  Invisible
<1>1. isaPC' = isaPC
  <2>1. isaPC = Before(pc)
    BY DEF isaPC, Uncommitted, FetchStates, ExecStates
  <2>2. isaPC' = Before(pc')
    BY DEF isaPC, Uncommitted, FetchStates, ExecStates, Before
  <2>3. QED
    BY <2>1, <2>2
<1>2. isaStatus' = isaStatus
  BY DEF isaStatus, Uncommitted, FetchStates, ExecStates
<1>3. QED
  BY <1>1, <1>2, Quiet

LEMMA QuietFetch ==
    ASSUME SessionInv, Fetch, ~(execute_decode /\ Opcode(IR) \in {8, 13})
    PROVE  Invisible
<1> USE DEF At, transition_to, Uncommitted, FetchStates, ExecStates
<1>1. CASE execute_fetch0
  <2>1. isaPC = pc /\ isaPC' = Before(pc')
    BY <1>1 DEF execute_fetch0, isaPC, Before
  <2>2. Before(pc') = pc
    BY <1>1, PlusMinus DEF execute_fetch0, Before, SessionInv, Inv, TypeOK
  <2>3. isaStatus' = isaStatus
    BY <1>1 DEF execute_fetch0, isaStatus
  <2>4. QED
    BY <1>1, <2>1, <2>2, <2>3, Quiet DEF execute_fetch0
<1>2. CASE execute_fetch1 \/ execute_fetch2
  BY <1>2, QuietInside DEF execute_fetch1, execute_fetch2, ReadMDR, SetMDR
<1>3. CASE execute_decode
  <2>1. Opcode(IR) \in 0 .. 15 /\ Opcode(IR) \notin {8, 13}
    BY <1>3, BitsRange DEF SessionInv, Inv, TypeOK
  <2>2. Dispatch(Opcode(IR)) \in Uncommitted
    BY <2>1 DEF Dispatch
  <2>3. QED
    BY <1>3, <2>2, QuietInside DEF execute_decode
<1>4. QED
  BY <1>1, <1>2, <1>3 DEF Fetch

LEMMA QuietLoadStore ==
    ASSUME SessionInv,
           \/ execute_ld0 \/ execute_ld1 \/ execute_ldr0 \/ execute_ldr1
           \/ execute_ldi0 \/ execute_ldi1 \/ execute_ldi2 \/ execute_ldi3
           \/ execute_st0 \/ execute_st1 \/ execute_str0 \/ execute_str1
           \/ execute_sti0 \/ execute_sti1 \/ execute_sti2 \/ execute_sti3
           \/ execute_trap0 \/ (execute_br0 /\ BEN)
    PROVE  Invisible
<1>1. /\ current_state \in Uncommitted /\ current_state' \in Uncommitted
      /\ UNCHANGED <<reg, pc, cond, memory>>
  BY DEF At, transition_to, Uncommitted, FetchStates, ExecStates, SetMAR, SetMDR,
     ReadMDR, execute_ld0, execute_ld1, execute_ldr0, execute_ldr1, execute_ldi0,
     execute_ldi1, execute_ldi2, execute_ldi3, execute_st0, execute_st1,
     execute_str0, execute_str1, execute_sti0, execute_sti1, execute_sti2,
     execute_sti3, execute_trap0, execute_br0
<1>2. QED
  BY <1>1, QuietInside

(* The end of a call loads the PC that the mapping already shows.          *)
LEMMA QuietCall ==
    ASSUME SessionInv, execute_jsr1 \/ execute_jsr2 \/ execute_trap2
    PROVE  Invisible
<1> USE DEF At, transition_to, SetPC, Uncommitted, FetchStates, ExecStates
<1>1. CASE execute_jsr1
  BY <1>1, Quiet DEF execute_jsr1, isaPC, isaStatus
<1>2. CASE execute_jsr2
  BY <1>2, Quiet DEF execute_jsr2, isaPC, isaStatus
<1>3. CASE execute_trap2
  BY <1>3, Quiet DEF execute_trap2, isaPC, isaStatus
<1>4. QED
  BY <1>1, <1>2, <1>3

LEMMA QuietStop == ASSUME SessionInv, Stop PROVE Invisible
  BY Quiet DEF Stop, stop_halt, stop_error, At, isaPC, isaStatus, Uncommitted,
     FetchStates, ExecStates

-----------------------------------------------------------------------------
(* The refinement theorem                                                  *)

LEMMA StepRefines == ASSUME SessionInv, step PROVE ISA!Execute \/ Invisible
<1>1. CASE Fetch
  BY <1>1, QuietFetch, CommitIllegal
<1>2. CASE Operate
  BY <1>2, CommitOperate
<1>3. CASE Load
  BY <1>3, CommitLoad, QuietLoadStore DEF Load
<1>4. CASE Store
  BY <1>4, CommitStore, QuietLoadStore DEF Store
<1>5. CASE Control
  BY <1>5, CommitJump, CommitJSR, CommitTRAP, QuietLoadStore, QuietCall DEF Control
<1>6. CASE Stop
  BY <1>6, QuietStop
<1>7. QED
  BY <1>1, <1>2, <1>3, <1>4, <1>5, <1>6 DEF step

LEMMA SameContents == \A image : ISA!Contents(image) = Contents(image)
  BY SameMemory DEF ISA!Contents, Contents

LEMMA InitRefines == SessionInit => ISA!Init
<1> SUFFICES ASSUME NEW image \in Images, PowerOn(image.start, Contents(image))
             PROVE  ISA!Init
  BY DEF SessionInit
<1>1. isaPC = image.start /\ isaStatus = "running"
  BY DEF PowerOn, isaPC, isaStatus, Uncommitted
<1>2. QED
  BY <1>1, SameContents, SameArithmetic DEF PowerOn, ISA!Init

LEMMA ReloadRefines == ASSUME NEW image \in Reloads, Reload(image)
                       PROVE  ISA!Restart(image)
  BY Ended, SameContents, SameArithmetic DEF Reload, Restart, ISA!Restart

LEMMA NextRefines == SessionInv /\ [SessionNext]_vars => [ISA!Next]_(ISA!isaVars)
<1> SUFFICES ASSUME SessionInv, [SessionNext]_vars
             PROVE  ISA!Next \/ Invisible
  BY DEF Invisible
<1>1. CASE BoundedStep
  BY <1>1, StepRefines DEF BoundedStep, ISA!Next
<1>2. ASSUME NEW image \in Reloads, Reload(image) PROVE ISA!Next
  BY <1>2, ReloadRefines DEF ISA!Next
<1>3. CASE UNCHANGED vars
  BY <1>3 DEF vars, cond, Invisible, ISA!isaVars, ISA!cond, isaPC, isaStatus, Before,
     PCRelative
<1>4. QED
  BY <1>1, <1>2, <1>3 DEF SessionNext

(* Stepping cycle by cycle through the handlers of cpu.cpp executes the    *)
(* program one LC-3 instruction after the other, for every program.        *)
THEOREM SessionImplementsISA == SessionSpec => ISASpec
<1>1. SessionSpec => []SessionInv
  BY SessionInvInit, SessionInvNext, PTL DEF SessionSpec
<1>2. QED
  BY <1>1, InitRefines, NextRefines, PTL DEF SessionSpec, ISASpec, ISA!Spec

=============================================================================
