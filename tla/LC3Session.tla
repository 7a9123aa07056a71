----------------------------- MODULE LC3Session -----------------------------
(***************************************************************************)
(* The CPU as its callers in the repository use it: a machine that has     *)
(* just been built or reset is given one program (test.cpp:31-42, and      *)
(* cpu.reset() directly followed by cpu.loadProgram() in script.js:485)    *)
(* and is then stepped; a reload may come at any cycle.  No caller loads   *)
(* a program into a machine it has not reset, or pokes a register.         *)
(*                                                                         *)
(* Used this way, the state machine implements the instruction set of      *)
(* LC3ISA: ISA!Spec below.                                                 *)
(***************************************************************************)
EXTENDS LC3CPU

CONSTANT Reloads      \* the programs the session may be reloaded with

ASSUME SessionAssumption == Reloads \subseteq Images

Contents(image) == LoadMem(ClearMemory, image.words, image.start)

SessionInit == \E image \in Images : PowerOn(image.start, Contents(image))

\* reset() and loadProgram() in one event handler
Reload(image) == Restart(image.start, Contents(image))

SessionNext == BoundedStep \/ \E image \in Reloads : Reload(image)

SessionSpec == SessionInit /\ [][SessionNext]_vars

(* CPU::run steps until running is cleared, and the Run button keeps a     *)
(* timer going that steps: the host does not stop between two cycles.      *)
FairSession == SessionSpec /\ WF_vars(BoundedStep)

-----------------------------------------------------------------------------
(* The refinement mapping.  An instruction takes effect at the transition  *)
(* that first changes something the programmer sees beyond the PC: the     *)
(* last one for most, JSR_0 and TRAP_1 (which write R7) for the calls.     *)
(* Until then the PC already points past the instruction.                  *)

Before(address) == Plus(address, WordSize - 1)

Uncommitted == (FetchStates \cup ExecStates)
                 \ {"FETCH_0", "JSR_1", "JSR_2", "TRAP_2"}

isaPC == CASE current_state \in Uncommitted -> Before(pc)
           [] current_state = "JSR_1"  -> reg[SR1(IR)]
           [] current_state = "JSR_2"  -> PCRelative(11)
           [] current_state = "TRAP_2" -> MDR
           [] OTHER -> pc

isaStatus == CASE current_state \in {"ERROR", "RESERVED"} -> "illegal"
               [] current_state = "HALT" -> "halted"
               [] current_state = "TRAP_2" /\ TrapVect(IR) = HaltVector -> "halted"
               [] OTHER -> "running"

ISA == INSTANCE LC3ISA WITH pc <- isaPC, status <- isaStatus

(* Every behaviour of the state machine is, seen through the mapping, one  *)
(* of the instruction set: each instruction of a program has exactly the   *)
(* effect LC3ISA gives it, in one step, in program order.                  *)
ISASpec == ISA!Spec

-----------------------------------------------------------------------------
(* What the datapath registers hold between the states of an instruction:  *)
(* each state finds in IR, MAR and MDR what the earlier ones left there    *)
(* for it, and no instruction reads a latch left by another one.           *)

fetched == ReadMem(memory, Before(pc))

DatapathLatches ==
    /\ current_state = "FETCH_1" => MAR = Before(pc)
    /\ current_state = "FETCH_2" => MDR = fetched
    /\ current_state \in Uncommitted \ {"FETCH_1", "FETCH_2"} => IR = fetched
    /\ current_state \in {"LD_1", "ST_1", "ST_2", "LDI_1", "STI_1"}
            => MAR = PCRelative(9)
    /\ current_state \in {"LDR_1", "STR_1", "STR_2"} => MAR = BaseRelative
    /\ current_state \in {"LD_2", "LDI_2", "STI_2"}
            => MDR = ReadMem(memory, PCRelative(9))
    /\ current_state = "LDR_2" => MDR = ReadMem(memory, BaseRelative)
    /\ current_state \in {"LDI_3", "STI_3", "STI_4"}
            => MAR = ReadMem(memory, PCRelative(9))
    /\ current_state = "LDI_4"
            => MDR = ReadMem(memory, ReadMem(memory, PCRelative(9)))
    /\ current_state \in {"ST_2", "STR_2", "STI_4"} => MDR = reg[DR(IR)]
    /\ current_state = "TRAP_1" => MAR = TrapVect(IR)
    /\ current_state = "BR_1" => BEN

(* Under run() or the Run button every instruction that is begun is        *)
(* finished, or stops the machine.                                         *)
InstructionCompletes == []<>(current_state = "FETCH_0" \/ ~running)

(* The program of test_sum_loop in test.cpp, with the words its array has  *)
SumLoop == [words |-> <<20512, 21088, 4709, 1027, 4097, 4735, 4092, 61477>>,
            start |-> Origin]

InSumLoop == \A i \in DOMAIN SumLoop.words :
                ReadMem(memory, Origin + i - 1) = SumLoop.words[i]

(* test.cpp:46-54: when its countdown loop has run to the end, R0 holds    *)
(* 1+2+3+4+5, R1 is 0, the machine is halted and only Z is set.            *)
SumLoopResult ==
    (InSumLoop /\ ~running) => /\ reg[0] = 15 /\ reg[1] = 0
                               /\ halted
                               /\ z /\ ~n /\ ~p

(* It halts in its 134th cycle, the count that test.cpp:56 prints: neither *)
(* a turn of the loop nor a state of an instruction is left out, repeated  *)
(* or counted twice.                                                       *)
SumLoopCycles == InSumLoop => IF running THEN cycles < 134 ELSE cycles = 134

(* ... and it does run to the end, unless another program is loaded over   *)
(* it: cpu.run() in test.cpp:43 returns.                                   *)
SumLoopEnds == InSumLoop ~> (~running \/ ~InSumLoop)

=============================================================================
