------------------------------- MODULE LC3CPU -------------------------------
(***************************************************************************)
(* The CPU class (src/src/cpu.cpp, cpu.h) over its CPUState (cpu_state.h): *)
(* the LC-3 as a finite-state machine that makes one transition per call   *)
(* of step().  There is one action per execute_* handler, under the        *)
(* handler's name; it stands for a whole call of step() that finds the     *)
(* machine in that state: the running test, the handler and the cycle      *)
(* count.  The public mutators of the class are the host's actions.        *)
(***************************************************************************)
EXTENDS LC3Memory

CONSTANTS
    CycleSpan,    \* the cycle counter wraps modulo this (2^64 in the code),
    CountSpan,    \* and get_cycle_count modulo this (2^16 in the code)
    MaxCycles,    \* bound: the host stops stepping at this cycle count
    Images,       \* the programs the host loads: [words |-> , start |-> ]
    HostRegs,     \* the registers the host sets,
    HostWords,    \* the values it gives to them and to the PC and memory,
    HostAddrs     \* and the locations it writes

ASSUME CPUAssumption ==
    /\ CycleSpan \in Nat \ {0}
    /\ CountSpan \in Nat \ {0}
    /\ MaxCycles \in Nat
    /\ Images \subseteq [words : Seq(Word), start : Word]
    /\ HostRegs \subseteq RegNum
    /\ HostWords \subseteq Word
    /\ HostAddrs \subseteq Word

VARIABLES
    reg,              \* R0..R7
    pc,
    n, z, p,          \* the condition codes
    IR, MAR, MDR,
    current_state,
    previous_state,   \* kept for the visualization only
    running,
    halted,
    cycles,
    memory

cond == <<n, z, p>>
vars == <<reg, pc, cond, IR, MAR, MDR, current_state, previous_state,
          running, halted, cycles, memory>>

-----------------------------------------------------------------------------
(* enum class FSMState                                                     *)

FetchStates == {"FETCH_0", "FETCH_1", "FETCH_2", "DECODE"}

ExecStates ==
    {"ADD_0", "AND_0", "NOT_0", "TRAP_0", "TRAP_1", "TRAP_2", "LEA_0",
     "LD_0", "LD_1", "LD_2", "LDR_0", "LDR_1", "LDR_2",
     "LDI_0", "LDI_1", "LDI_2", "LDI_3", "LDI_4",
     "STI_0", "STI_1", "STI_2", "STI_3", "STI_4",
     "STR_0", "STR_1", "STR_2", "ST_0", "ST_1", "ST_2",
     "JSR_0", "JSR_1", "JSR_2", "JMP_0", "BR_0", "BR_1"}

StopStates == {"HALT", "ERROR", "RESERVED"}

FSMState == FetchStates \cup ExecStates \cup StopStates

\* What the RTL text of fsm_state_description says a state writes: "reg" is
\* any of R0..R7, "cond" the condition codes, "M" the memory
Described(state) ==
    CASE state = "FETCH_0" -> {"MAR", "pc"}
      [] state = "FETCH_2" -> {"IR"}
      [] state \in {"FETCH_1", "LD_1", "LDR_1", "LDI_1", "LDI_3", "STI_1",
                    "STI_3", "STR_1", "ST_1", "TRAP_1"} -> {"MDR"}
      [] state \in {"LD_0", "LDR_0", "LDI_0", "LDI_2", "STI_0", "STI_2",
                    "STR_0", "ST_0", "TRAP_0"} -> {"MAR"}
      [] state \in {"ADD_0", "AND_0", "NOT_0", "LEA_0", "LD_2", "LDR_2",
                    "LDI_4"} -> {"reg", "cond"}
      [] state \in {"ST_2", "STR_2", "STI_4"} -> {"M"}
      [] state \in {"JMP_0", "JSR_1", "JSR_2", "BR_1", "TRAP_2"} -> {"pc"}
      [] state = "JSR_0" -> {"reg"}
      [] OTHER -> {}

-----------------------------------------------------------------------------
(* CPUState::reset, Memory::clear_memory and CPU::load_program             *)

\* The values reset() gives, with the PC and the memory that a load leaves
PowerOn(start, contents) ==
    /\ reg = [r \in RegNum |-> 0]
    /\ pc = start
    /\ n = FALSE /\ z = TRUE /\ p = FALSE
    /\ IR = 0 /\ MAR = 0 /\ MDR = 0
    /\ running = TRUE /\ halted = FALSE
    /\ cycles = 0
    /\ current_state = "FETCH_0" /\ previous_state = "FETCH_0"
    /\ memory = contents

\* ... and the step that brings a machine in any state there
Restart(start, contents) ==
    /\ reg' = [r \in RegNum |-> 0]
    /\ pc' = start
    /\ n' = FALSE /\ z' = TRUE /\ p' = FALSE
    /\ IR' = 0 /\ MAR' = 0 /\ MDR' = 0
    /\ running' = TRUE /\ halted' = FALSE
    /\ cycles' = 0
    /\ current_state' = "FETCH_0" /\ previous_state' = "FETCH_0"
    /\ memory' = contents

Origin == 12288                                     \* x3000

reset == Restart(Origin, ClearMemory)

\* Mutant of load_program: a load also starts the machine
load_program_Starts(image) ==
    /\ memory' = LoadMem(memory, image.words, image.start)
    /\ pc' = image.start
    /\ running' = TRUE
    /\ UNCHANGED <<reg, cond, IR, MAR, MDR, current_state, previous_state,
                   halted, cycles>>

load_program(image) ==
    /\ memory' = LoadMem(memory, image.words, image.start)
    /\ pc' = image.start
    /\ UNCHANGED <<reg, cond, IR, MAR, MDR, current_state, previous_state,
                   running, halted, cycles>>

-----------------------------------------------------------------------------
(* What the handlers are made of: the guard and the epilogue of step(),    *)
(* transition_to, update_cond, and the register transfers of the datapath. *)

At(state) == running /\ current_state = state

\* cycles++ at the end of step()
CountCycle == cycles' = (cycles + 1) % CycleSpan

transition_to(newstate) ==
    /\ previous_state' = current_state
    /\ current_state' = newstate
    /\ CountCycle
    /\ UNCHANGED <<running, halted>>

\* Mutant of update_cond: P is the negation of N
update_cond_NotNegative(result) ==
    /\ n' = Negative(result)
    /\ z' = (result = 0)
    /\ p' = ~Negative(result)

update_cond(result) ==
    /\ n' = Negative(result)
    /\ z' = (result = 0)
    /\ p' = (~Negative(result) /\ result # 0)

PCRelative(bits) == Plus(pc, Offset(IR, bits))
BaseRelative     == Plus(reg[SR1(IR)], Offset(IR, 6))

SetMAR(address) == MAR' = address /\ UNCHANGED <<reg, pc, cond, IR, MDR, memory>>
SetMDR(value)   == MDR' = value /\ UNCHANGED <<reg, pc, cond, IR, MAR, memory>>
SetPC(address)  == pc' = address /\ UNCHANGED <<reg, cond, IR, MAR, MDR, memory>>
SetDR(value)    == /\ reg' = [reg EXCEPT ![DR(IR)] = value]
                   /\ update_cond(value)
                   /\ UNCHANGED <<pc, IR, MAR, MDR, memory>>
ReadMDR         == SetMDR(ReadMem(memory, MAR))
StoreMDR        == /\ memory' = WriteMem(memory, MAR, MDR)
                   /\ UNCHANGED <<reg, pc, cond, IR, MAR, MDR>>

-----------------------------------------------------------------------------
(* Fetch and decode                                                        *)

\* Mutant of execute_fetch0: a PC wider than 16 bits
execute_fetch0_Wide ==
    /\ At("FETCH_0")
    /\ MAR' = pc
    /\ pc' = pc + 1
    /\ transition_to("FETCH_1")
    /\ UNCHANGED <<reg, cond, IR, MDR, memory>>

execute_fetch0 ==
    /\ At("FETCH_0")
    /\ MAR' = pc
    /\ pc' = Plus(pc, 1)
    /\ transition_to("FETCH_1")
    /\ UNCHANGED <<reg, cond, IR, MDR, memory>>

\* Mutant of execute_fetch1: reads at the PC, which has moved on
execute_fetch1_AtPC ==
    At("FETCH_1") /\ SetMDR(ReadMem(memory, pc)) /\ transition_to("FETCH_2")

execute_fetch1 == At("FETCH_1") /\ ReadMDR /\ transition_to("FETCH_2")

execute_fetch2 ==
    /\ At("FETCH_2")
    /\ IR' = MDR
    /\ transition_to("DECODE")
    /\ UNCHANGED <<reg, pc, cond, MAR, MDR, memory>>

Dispatch(opcode) ==
    CASE opcode = 0  -> "BR_0"  [] opcode = 1  -> "ADD_0"
      [] opcode = 2  -> "LD_0"  [] opcode = 3  -> "ST_0"
      [] opcode = 4  -> "JSR_0" [] opcode = 5  -> "AND_0"
      [] opcode = 6  -> "LDR_0" [] opcode = 7  -> "STR_0"
      [] opcode = 8  -> "ERROR" [] opcode = 9  -> "NOT_0"
      [] opcode = 10 -> "LDI_0" [] opcode = 11 -> "STI_0"
      [] opcode = 12 -> "JMP_0" [] opcode = 13 -> "RESERVED"
      [] opcode = 14 -> "LEA_0" [] opcode = 15 -> "TRAP_0"
      [] OTHER       -> "ERROR"

execute_decode ==
    /\ At("DECODE")
    /\ transition_to(Dispatch(Opcode(IR)))
    /\ UNCHANGED <<reg, pc, cond, IR, MAR, MDR, memory>>

-----------------------------------------------------------------------------
(* Operate instructions                                                    *)

\* Mutant of SecondOperand: imm5 is not sign-extended
SecondOperand_Unsigned ==
    IF ImmFlag(IR) = 1 THEN Bits(IR, 0, 5) ELSE reg[SR2(IR)]

SecondOperand == IF ImmFlag(IR) = 1 THEN Offset(IR, 5) ELSE reg[SR2(IR)]

execute_add == /\ At("ADD_0")
               /\ SetDR(Plus(reg[SR1(IR)], SecondOperand))
               /\ transition_to("FETCH_0")

execute_and == /\ At("AND_0")
               /\ SetDR(BitAnd(reg[SR1(IR)], SecondOperand))
               /\ transition_to("FETCH_0")

execute_not == /\ At("NOT_0")
               /\ SetDR(BitNot(reg[SR1(IR)]))
               /\ transition_to("FETCH_0")

execute_lea0 == At("LEA_0") /\ SetDR(PCRelative(9)) /\ transition_to("FETCH_0")

(* Loads: the address into MAR, the word into MDR, the word into DR        *)

execute_ld0 == At("LD_0") /\ SetMAR(PCRelative(9)) /\ transition_to("LD_1")
execute_ld1 == At("LD_1") /\ ReadMDR /\ transition_to("LD_2")
execute_ld2 == At("LD_2") /\ SetDR(MDR) /\ transition_to("FETCH_0")

execute_ldr0 == At("LDR_0") /\ SetMAR(BaseRelative) /\ transition_to("LDR_1")
execute_ldr1 == At("LDR_1") /\ ReadMDR /\ transition_to("LDR_2")
execute_ldr2 == At("LDR_2") /\ SetDR(MDR) /\ transition_to("FETCH_0")

\* Mutants: LDI_1 goes on as LD does; LDI_3 goes back to LDI_2
execute_ldi1_AsLD == At("LDI_1") /\ ReadMDR /\ transition_to("LD_2")
execute_ldi3_Back == At("LDI_3") /\ ReadMDR /\ transition_to("LDI_2")

execute_ldi0 == At("LDI_0") /\ SetMAR(PCRelative(9)) /\ transition_to("LDI_1")
execute_ldi1 == At("LDI_1") /\ ReadMDR /\ transition_to("LDI_2")
execute_ldi2 == At("LDI_2") /\ SetMAR(MDR) /\ transition_to("LDI_3")
execute_ldi3 == At("LDI_3") /\ ReadMDR /\ transition_to("LDI_4")
execute_ldi4 == At("LDI_4") /\ SetDR(MDR) /\ transition_to("FETCH_0")

(* Stores: the address into MAR, SR into MDR, MDR into memory              *)

execute_st0 == At("ST_0") /\ SetMAR(PCRelative(9)) /\ transition_to("ST_1")
execute_st1 == At("ST_1") /\ SetMDR(reg[DR(IR)]) /\ transition_to("ST_2")
execute_st2 == At("ST_2") /\ StoreMDR /\ transition_to("FETCH_0")

\* Mutant of execute_str1: stores the base register
execute_str1_Base == At("STR_1") /\ SetMDR(reg[SR1(IR)]) /\ transition_to("STR_2")

execute_str0 == At("STR_0") /\ SetMAR(BaseRelative) /\ transition_to("STR_1")
execute_str1 == At("STR_1") /\ SetMDR(reg[DR(IR)]) /\ transition_to("STR_2")
execute_str2 == At("STR_2") /\ StoreMDR /\ transition_to("FETCH_0")

execute_sti0 == At("STI_0") /\ SetMAR(PCRelative(9)) /\ transition_to("STI_1")
execute_sti1 == At("STI_1") /\ ReadMDR /\ transition_to("STI_2")
execute_sti2 == At("STI_2") /\ SetMAR(MDR) /\ transition_to("STI_3")
execute_sti3 == At("STI_3") /\ SetMDR(reg[DR(IR)]) /\ transition_to("STI_4")
execute_sti4 == At("STI_4") /\ StoreMDR /\ transition_to("FETCH_0")

(* Control: JMP, JSR and JSRR, BR, TRAP                                    *)

execute_jmp0 == At("JMP_0") /\ SetPC(reg[SR1(IR)]) /\ transition_to("FETCH_0")

execute_jsr0 ==
    /\ At("JSR_0")
    /\ reg' = [reg EXCEPT ![7] = pc]
    /\ transition_to(IF LinkFlag(IR) = 0 THEN "JSR_1" ELSE "JSR_2")
    /\ UNCHANGED <<pc, cond, IR, MAR, MDR, memory>>

execute_jsr1 == At("JSR_1") /\ SetPC(reg[SR1(IR)]) /\ transition_to("FETCH_0")
execute_jsr2 == At("JSR_2") /\ SetPC(PCRelative(11)) /\ transition_to("FETCH_0")

\* Mutants of BEN: IR[10] is not tested; IR[10] and IR[9] are swapped
BEN_NoZ == \/ Bits(IR, 11, 1) = 1 /\ n
           \/ Bits(IR, 9, 1) = 1 /\ p

BEN_Swapped == \/ Bits(IR, 11, 1) = 1 /\ n
               \/ Bits(IR, 9, 1) = 1 /\ z
               \/ Bits(IR, 10, 1) = 1 /\ p

BEN == \/ Bits(IR, 11, 1) = 1 /\ n
       \/ Bits(IR, 10, 1) = 1 /\ z
       \/ Bits(IR, 9, 1) = 1 /\ p

\* Mutant of execute_br0: a branch that is not taken stays in BR_0
execute_br0_Stays ==
    /\ At("BR_0")
    /\ transition_to(IF BEN THEN "BR_1" ELSE "BR_0")
    /\ UNCHANGED <<reg, pc, cond, IR, MAR, MDR, memory>>

execute_br0 ==
    /\ At("BR_0")
    /\ transition_to(IF BEN THEN "BR_1" ELSE "FETCH_0")
    /\ UNCHANGED <<reg, pc, cond, IR, MAR, MDR, memory>>

execute_br1 == At("BR_1") /\ SetPC(PCRelative(9)) /\ transition_to("FETCH_0")

execute_trap0 == At("TRAP_0") /\ SetMAR(TrapVect(IR)) /\ transition_to("TRAP_1")

execute_trap1 ==
    /\ At("TRAP_1")
    /\ MDR' = ReadMem(memory, MAR)
    /\ reg' = [reg EXCEPT ![7] = pc]
    /\ transition_to("TRAP_2")
    /\ UNCHANGED <<pc, cond, IR, MAR, memory>>

execute_trap2 ==
    /\ At("TRAP_2")
    /\ SetPC(MDR)
    /\ transition_to(IF TrapVect(IR) = HaltVector THEN "HALT" ELSE "FETCH_0")

(* The stop states: step() clears running and leaves current_state alone   *)

\* Mutant of stop_halt: the halted flag is set and running is not cleared
stop_halt_KeepsRunning ==
    /\ At("HALT")
    /\ halted' = TRUE
    /\ CountCycle
    /\ UNCHANGED <<reg, pc, cond, IR, MAR, MDR, current_state, previous_state,
                   running, memory>>

stop_halt ==
    /\ At("HALT")
    /\ running' = FALSE /\ halted' = TRUE
    /\ CountCycle
    /\ UNCHANGED <<reg, pc, cond, IR, MAR, MDR, current_state, previous_state,
                   memory>>

\* Mutant of stop_error: an illegal opcode counts as a halt
stop_error_Halts ==
    /\ At("ERROR") \/ At("RESERVED")
    /\ running' = FALSE /\ halted' = TRUE
    /\ CountCycle
    /\ UNCHANGED <<reg, pc, cond, IR, MAR, MDR, current_state, previous_state,
                   memory>>

stop_error ==
    /\ At("ERROR") \/ At("RESERVED")
    /\ running' = FALSE
    /\ CountCycle
    /\ UNCHANGED <<reg, pc, cond, IR, MAR, MDR, current_state, previous_state,
                   halted, memory>>

-----------------------------------------------------------------------------
(* CPU::step on a running machine; on a stopped one it returns at once.    *)

Fetch == execute_fetch0 \/ execute_fetch1 \/ execute_fetch2 \/ execute_decode

Operate == execute_add \/ execute_and \/ execute_not \/ execute_lea0

Load == \/ execute_ld0  \/ execute_ld1  \/ execute_ld2
        \/ execute_ldr0 \/ execute_ldr1 \/ execute_ldr2
        \/ execute_ldi0 \/ execute_ldi1 \/ execute_ldi2 \/ execute_ldi3
        \/ execute_ldi4

Store == \/ execute_st0  \/ execute_st1  \/ execute_st2
         \/ execute_str0 \/ execute_str1 \/ execute_str2
         \/ execute_sti0 \/ execute_sti1 \/ execute_sti2 \/ execute_sti3
         \/ execute_sti4

Control == \/ execute_jmp0  \/ execute_jsr0  \/ execute_jsr1 \/ execute_jsr2
           \/ execute_br0   \/ execute_br1
           \/ execute_trap0 \/ execute_trap1 \/ execute_trap2

Stop == stop_halt \/ stop_error

step == Fetch \/ Operate \/ Load \/ Store \/ Control \/ Stop

-----------------------------------------------------------------------------
(* The other public mutators of cpu.h, which may be called at any time     *)

DatapathRest == <<cond, IR, MAR, MDR, current_state, previous_state, running,
                  halted, cycles>>

set_reg(r, val) ==
    reg' = [reg EXCEPT ![r] = val] /\ UNCHANGED <<pc, memory, DatapathRest>>

set_pc(val) == pc' = val /\ UNCHANGED <<reg, memory, DatapathRest>>

write_memory(addr, val) ==
    /\ memory' = WriteMem(memory, addr, val)
    /\ UNCHANGED <<reg, pc, DatapathRest>>

HostCall == \/ reset
            \/ \E image \in Images : load_program(image)
            \/ \E r \in HostRegs, val \in HostWords : set_reg(r, val)
            \/ \E val \in HostWords : set_pc(val)
            \/ \E addr \in HostAddrs, val \in HostWords : write_memory(addr, val)

\* CPU::CPU, CPUState::CPUState and Memory::Memory
Init == PowerOn(Origin, ClearMemory)

BoundedStep == cycles < MaxCycles /\ step

Next == BoundedStep \/ HostCall

Spec == Init /\ [][Next]_vars

\* uint16_t get_cycle_count() returns the low bits of the uint64_t counter
get_cycle_count == cycles % CountSpan

-----------------------------------------------------------------------------
(* Type invariant: every register, address and stored word keeps its width *)
(* (uint16_t), whatever the host pokes in and wherever the PC wraps.       *)

TypeOK ==
    /\ reg \in [RegNum -> Word]
    /\ pc \in Word
    /\ n \in BOOLEAN /\ z \in BOOLEAN /\ p \in BOOLEAN
    /\ IR \in Word /\ MAR \in Word /\ MDR \in Word
    /\ current_state \in FSMState /\ previous_state \in FSMState
    /\ running \in BOOLEAN /\ halted \in BOOLEAN
    /\ cycles \in 0 .. (CycleSpan - 1)
    /\ IsMemory(memory)

(* Exactly one condition code is set in every reachable state: update_cond *)
(* derives P from N and Z, and reset starts with Z.                        *)
CondOneHot ==
    /\ n \/ z \/ p
    /\ ~(n /\ z) /\ ~(n /\ p) /\ ~(z /\ p)

(* The two run flags and the FSM agree: the machine is stopped only in a   *)
(* stop state, and is_halted() tells TRAP x25 from an illegal opcode.      *)
StopFlags ==
    /\ ~running => current_state \in StopStates
    /\ halted <=> (~running /\ current_state = "HALT")

\* The execute states of cpu_state.h that belong to an opcode
StatesOf(opcode) ==
    CASE opcode = 0  -> {"BR_0", "BR_1"}
      [] opcode = 1  -> {"ADD_0"}
      [] opcode = 2  -> {"LD_0", "LD_1", "LD_2"}
      [] opcode = 3  -> {"ST_0", "ST_1", "ST_2"}
      [] opcode = 4  -> {"JSR_0", "JSR_1", "JSR_2"}
      [] opcode = 5  -> {"AND_0"}
      [] opcode = 6  -> {"LDR_0", "LDR_1", "LDR_2"}
      [] opcode = 7  -> {"STR_0", "STR_1", "STR_2"}
      [] opcode = 8  -> {"ERROR"}
      [] opcode = 9  -> {"NOT_0"}
      [] opcode = 10 -> {"LDI_0", "LDI_1", "LDI_2", "LDI_3", "LDI_4"}
      [] opcode = 11 -> {"STI_0", "STI_1", "STI_2", "STI_3", "STI_4"}
      [] opcode = 12 -> {"JMP_0"}
      [] opcode = 13 -> {"RESERVED"}
      [] opcode = 14 -> {"LEA_0"}
      [] opcode = 15 -> {"TRAP_0", "TRAP_1", "TRAP_2", "HALT"}
      [] OTHER -> {}

(* An instruction runs through the states of its own opcode only: none of  *)
(* the forty near-identical handlers strays into another family, JSR_1 and *)
(* JSR_2 are told apart by IR[11], only TRAP x25 reaches HALT, and the     *)
(* previous state shown to the user belongs to the same instruction.       *)
FSMPath ==
    current_state \notin FetchStates =>
        /\ current_state \in StatesOf(Opcode(IR))
        /\ previous_state \in StatesOf(Opcode(IR)) \cup {"DECODE"}
        /\ current_state = "JSR_1" => LinkFlag(IR) = 0
        /\ current_state = "JSR_2" => LinkFlag(IR) = 1
        /\ current_state = "HALT" => TrapVect(IR) = HaltVector

\* How many more steps an instruction may take from a state, at most
CyclesLeft(state) ==
    CASE state = "FETCH_0" -> 0
      [] state = "FETCH_1" -> 8
      [] state = "FETCH_2" -> 7
      [] state = "DECODE" -> 6
      [] state \in {"LDI_0", "STI_0"} -> 5
      [] state \in {"LDI_1", "STI_1", "TRAP_0"} -> 4
      [] state \in {"LDI_2", "STI_2", "LD_0", "LDR_0", "ST_0", "STR_0", "TRAP_1"} -> 3
      [] state \in {"LDI_3", "STI_3", "LD_1", "LDR_1", "ST_1", "STR_1", "TRAP_2",
                    "JSR_0", "BR_0"} -> 2
      [] OTHER -> 1

(* Each call of step() starts an instruction, stops the machine, or brings *)
(* the end of the instruction nearer; no handler stays in its state or     *)
(* goes back.  So an instruction takes at most nine cycles, FETCH_0 and    *)
(* the eight that can be left after it: "step instruction" always ends at  *)
(* a FETCH_0 or a stop, never at the 80-cycle guard of script.js:502.      *)
InstructionProgress ==
    [][(step /\ running') =>
          IF current_state = "FETCH_0"
          THEN current_state' # "FETCH_0"
          ELSE CyclesLeft(current_state') < CyclesLeft(current_state)]_vars

(* A BR with all of N, Z and P set always branches, also before any        *)
(* instruction has set the condition codes.                                *)
UnconditionalBranchTaken ==
    [][(step /\ current_state = "BR_0" /\ Bits(IR, 9, 3) = 7)
            => current_state' = "BR_1"]_vars

(* A stopped machine runs again only after a full reset: loading a program *)
(* or poking registers does not restart it half way through.               *)
StoppedUntilReset ==
    [][(~running /\ running')
            => /\ current_state' = "FETCH_0"
               /\ IR' = 0 /\ cycles' = 0
               /\ memory' = ClearMemory]_vars

(* cpu.h:88 says of get_cycle_count: "get the total cycles that program    *)
(* has executed for".                                                      *)
CycleCountExact == get_cycle_count = cycles

(* README.md:50 promises a trace in which every cycle is logged with its   *)
(* RTL description: a cycle changes nothing that the description of its    *)
(* state (cpu_state.h:116-162) does not name.                              *)
RTLDescribesEffect ==
    [][step => LET named == Described(current_state)
               IN /\ "reg" \notin named => reg' = reg
                  /\ "pc" \notin named => pc' = pc
                  /\ "cond" \notin named => cond' = cond
                  /\ "IR" \notin named => IR' = IR
                  /\ "MAR" \notin named => MAR' = MAR
                  /\ "MDR" \notin named => MDR' = MDR
                  /\ "M" \notin named => memory' = memory]_vars

=============================================================================
