---------------------------- MODULE LC3CPU_proof ----------------------------
(***************************************************************************)
(* Invariants of the CPU class for every program, every interleaving of    *)
(* host calls and every value of the constants.  TypeOK splits into the    *)
(* part the datapath changes and the part transition_to changes: a handler *)
(* is proved by one fact about its register transfer and one about its     *)
(* transition.  The tables of LC3StateTable, the numbers the page shows    *)
(* and the elements it lights, rest on the same invariant.                 *)
(***************************************************************************)
EXTENDS LC3StateTable, LC3Word_proof

DatapathOK ==
    /\ reg \in [RegNum -> Word]
    /\ pc \in Word
    /\ n \in BOOLEAN /\ z \in BOOLEAN /\ p \in BOOLEAN
    /\ IR \in Word /\ MAR \in Word /\ MDR \in Word
    /\ IsMemory(memory)

ControlOK ==
    /\ current_state \in FSMState /\ previous_state \in FSMState
    /\ running \in BOOLEAN /\ halted \in BOOLEAN
    /\ cycles \in 0 .. (CycleSpan - 1)

LEMMA TypeSplit == TypeOK <=> (DatapathOK /\ ControlOK)
  BY DEF TypeOK, DatapathOK, ControlOK

-----------------------------------------------------------------------------
(* The epilogue of step()                                                  *)

(* The cycle counter wraps within its width.                               *)
LEMMA CounterWraps == ASSUME NEW span \in Nat \ {0}, NEW c \in 0 .. (span - 1)
                      PROVE  (c + 1) % span \in 0 .. (span - 1)
  OBVIOUS

LEMMA CountCycleOK == ASSUME ControlOK, CountCycle
                      PROVE  cycles' \in 0 .. (CycleSpan - 1)
  BY CounterWraps, CPUAssumption DEF ControlOK, CountCycle

(* transition_to(s) keeps the control part well typed.                     *)
LEMMA TransitionOK == ASSUME ControlOK, NEW s \in FSMState, transition_to(s)
                      PROVE  ControlOK'
  BY CountCycleOK DEF ControlOK, transition_to

-----------------------------------------------------------------------------
(* The values the handlers compute are words                               *)

LEMMA OperandsWord == ASSUME DatapathOK
                      PROVE  /\ reg[SR1(IR)] \in Word /\ reg[SR2(IR)] \in Word
                             /\ reg[DR(IR)] \in Word
                             /\ SecondOperand \in Word
                             /\ PCRelative(9) \in Word /\ PCRelative(11) \in Word
                             /\ BaseRelative \in Word
                             /\ TrapVect(IR) \in Word
                             /\ DR(IR) \in RegNum
                             /\ ReadMem(memory, MAR) \in Word
<1>1. /\ SR1(IR) \in RegNum /\ SR2(IR) \in RegNum /\ DR(IR) \in RegNum
      /\ TrapVect(IR) \in Word
  BY BitsRange DEF DatapathOK
<1>2. /\ reg[SR1(IR)] \in Word /\ reg[SR2(IR)] \in Word /\ reg[DR(IR)] \in Word
  BY <1>1 DEF DatapathOK
<1>3. /\ Offset(IR, 5) \in Word /\ Offset(IR, 6) \in Word
      /\ Offset(IR, 9) \in Word /\ Offset(IR, 11) \in Word
  BY OffsetWord DEF DatapathOK
<1>4. SecondOperand \in Word
  BY <1>2, <1>3 DEF SecondOperand
<1>5. PCRelative(9) \in Word /\ PCRelative(11) \in Word
  BY <1>3, PlusWord DEF DatapathOK, PCRelative
<1>6. BaseRelative \in Word
  BY <1>2, <1>3, PlusWord DEF BaseRelative
<1>7. ReadMem(memory, MAR) \in Word
  BY ReadWord DEF DatapathOK
<1>8. QED
  BY <1>1, <1>2, <1>4, <1>5, <1>6, <1>7

(* update_cond leaves exactly one flag set.                                *)
LEMMA UpdateCondOneHot == ASSUME NEW v \in Word, update_cond(v)
                          PROVE  /\ n' \in BOOLEAN /\ z' \in BOOLEAN
                                 /\ p' \in BOOLEAN
                                 /\ CondOneHot'
<1>1. Negative(v) \in BOOLEAN /\ (Negative(v) => v # 0)
  BY DEF Negative, Word, WordSize
<1>2. QED
  BY <1>1 DEF update_cond, CondOneHot

-----------------------------------------------------------------------------
(* Every register transfer keeps the datapath well typed and the condition *)
(* codes one-hot.                                                          *)

Healthy == DatapathOK /\ CondOneHot

LEMMA SetMARHealthy == ASSUME Healthy, NEW a \in Word, SetMAR(a) PROVE Healthy'
  BY DEF Healthy, DatapathOK, CondOneHot, SetMAR, cond

LEMMA SetMDRHealthy == ASSUME Healthy, NEW a \in Word, SetMDR(a) PROVE Healthy'
  BY DEF Healthy, DatapathOK, CondOneHot, SetMDR, cond

LEMMA SetPCHealthy == ASSUME Healthy, NEW a \in Word, SetPC(a) PROVE Healthy'
  BY DEF Healthy, DatapathOK, CondOneHot, SetPC, cond

LEMMA SetDRHealthy == ASSUME Healthy, NEW v \in Word, SetDR(v) PROVE Healthy'
<1>1. reg' \in [RegNum -> Word]
  BY OperandsWord DEF Healthy, DatapathOK, SetDR
<1>2. QED
  BY <1>1, UpdateCondOneHot DEF Healthy, DatapathOK, SetDR

LEMMA ReadMDRHealthy == ASSUME Healthy, ReadMDR PROVE Healthy'
  BY SetMDRHealthy, OperandsWord DEF Healthy, ReadMDR

LEMMA StoreMDRHealthy == ASSUME Healthy, StoreMDR PROVE Healthy'
<1>1. IsMemory(memory')
  BY WriteIsMemory DEF Healthy, DatapathOK, StoreMDR
<1>2. QED
  BY <1>1 DEF Healthy, DatapathOK, CondOneHot, StoreMDR, cond

LEMMA LinkHealthy == ASSUME Healthy, reg' = [reg EXCEPT ![7] = pc],
                            UNCHANGED <<pc, cond, IR, MAR, memory>>,
                            MDR' \in Word
                     PROVE  Healthy'
  BY DEF Healthy, DatapathOK, CondOneHot, cond, RegNum

LEMMA IdleHealthy == ASSUME Healthy,
                            UNCHANGED <<reg, pc, cond, IR, MAR, MDR, memory>>
                     PROVE  Healthy'
  BY DEF Healthy, DatapathOK, CondOneHot, cond

-----------------------------------------------------------------------------
(* ... and so does every handler.                                          *)

LEMMA FetchHealthy == ASSUME Healthy, Fetch PROVE Healthy'
<1>1. CASE execute_fetch0
  <2>1. 1 \in Word
    BY DEF Word, WordSize
  <2>2. MAR' \in Word /\ pc' \in Word
    BY <1>1, <2>1, PlusWord DEF execute_fetch0, Healthy, DatapathOK
  <2>3. QED
    BY <1>1, <2>2 DEF execute_fetch0, Healthy, DatapathOK, CondOneHot, cond
<1>2. CASE execute_fetch1
  BY <1>2, ReadMDRHealthy DEF execute_fetch1
<1>3. CASE execute_fetch2
  BY <1>3 DEF execute_fetch2, Healthy, DatapathOK, CondOneHot, cond
<1>4. CASE execute_decode
  BY <1>4, IdleHealthy DEF execute_decode
<1>5. QED
  BY <1>1, <1>2, <1>3, <1>4 DEF Fetch

LEMMA OperateHealthy == ASSUME Healthy, Operate PROVE Healthy'
<1>1. CASE execute_add \/ execute_and \/ execute_not
            \/ execute_lea0
  BY <1>1, SetDRHealthy, OperandsWord, PlusWord, BitAndWord, BitNotWord
     DEF Healthy, DatapathOK, execute_add, execute_and, execute_not, execute_lea0
<1>2. QED
  BY <1>1 DEF Operate

LEMMA LoadHealthy == ASSUME Healthy, Load PROVE Healthy'
<1>1. CASE execute_ld0 \/ execute_ldr0 \/ execute_ldi0
            \/ execute_ldi2
  BY <1>1, SetMARHealthy, OperandsWord
     DEF Healthy, DatapathOK, execute_ld0, execute_ldr0, execute_ldi0, execute_ldi2
<1>2. CASE execute_ld1 \/ execute_ldr1 \/ execute_ldi1
            \/ execute_ldi3
  BY <1>2, ReadMDRHealthy DEF execute_ld1, execute_ldr1, execute_ldi1, execute_ldi3
<1>3. CASE execute_ld2 \/ execute_ldr2 \/ execute_ldi4
  BY <1>3, SetDRHealthy, OperandsWord
     DEF Healthy, DatapathOK, execute_ld2, execute_ldr2, execute_ldi4
<1>4. QED
  BY <1>1, <1>2, <1>3 DEF Load

LEMMA StoreHealthy == ASSUME Healthy, Store PROVE Healthy'
<1>1. CASE execute_st0 \/ execute_str0 \/ execute_sti0
            \/ execute_sti2
  BY <1>1, SetMARHealthy, OperandsWord
     DEF Healthy, DatapathOK, execute_st0, execute_str0, execute_sti0, execute_sti2
<1>2. CASE execute_st1 \/ execute_str1 \/ execute_sti3
  BY <1>2, SetMDRHealthy, OperandsWord
     DEF Healthy, DatapathOK, execute_st1, execute_str1, execute_sti3
<1>3. CASE execute_st2 \/ execute_str2 \/ execute_sti4
  BY <1>3, StoreMDRHealthy DEF execute_st2, execute_str2, execute_sti4
<1>4. CASE execute_sti1
  BY <1>4, ReadMDRHealthy DEF execute_sti1
<1>5. QED
  BY <1>1, <1>2, <1>3, <1>4 DEF Store

LEMMA ControlHealthy == ASSUME Healthy, Control PROVE Healthy'
<1>1. CASE execute_jmp0 \/ execute_jsr1 \/ execute_jsr2
            \/ execute_br1 \/ execute_trap2
  BY <1>1, SetPCHealthy, OperandsWord
     DEF Healthy, DatapathOK, execute_jmp0, execute_jsr1, execute_jsr2, execute_br1, execute_trap2
<1>2. CASE execute_jsr0
  BY <1>2, LinkHealthy, OperandsWord DEF Healthy, DatapathOK, execute_jsr0
<1>3. CASE execute_br0
  BY <1>3, IdleHealthy DEF execute_br0
<1>4. CASE execute_trap0
  BY <1>4, SetMARHealthy, OperandsWord
     DEF Healthy, DatapathOK, execute_trap0
<1>5. CASE execute_trap1
  BY <1>5, LinkHealthy, OperandsWord DEF Healthy, DatapathOK, execute_trap1
<1>6. QED
  BY <1>1, <1>2, <1>3, <1>4, <1>5 DEF Control

LEMMA StepHealthy == ASSUME Healthy, step PROVE Healthy'
<1>1. CASE Stop
  BY <1>1, IdleHealthy DEF Stop, stop_halt, stop_error
<1>2. QED
  BY <1>1, FetchHealthy, OperateHealthy, LoadHealthy, StoreHealthy,
     ControlHealthy DEF step

-----------------------------------------------------------------------------
(* The path of an instruction through the state machine                    *)

(* DECODE enters the family of states of its opcode.                       *)
LEMMA DispatchFamily == ASSUME NEW opcode \in 0 .. 15
                        PROVE  /\ Dispatch(opcode) \in StatesOf(opcode)
                               /\ Dispatch(opcode) \in FSMState
                               /\ Dispatch(opcode) \notin {"JSR_1", "JSR_2", "HALT"}
  BY DEF Dispatch, StatesOf, FSMState, FetchStates, ExecStates, StopStates

(* The transitions between execute states stay within one family.          *)
LEMMA FamilyClosed ==
    ASSUME NEW opcode \in 0 .. 15
    PROVE  /\ "LD_0" \in StatesOf(opcode) => "LD_1" \in StatesOf(opcode)
           /\ "LD_1" \in StatesOf(opcode) => "LD_2" \in StatesOf(opcode)
           /\ "LDR_0" \in StatesOf(opcode) => "LDR_1" \in StatesOf(opcode)
           /\ "LDR_1" \in StatesOf(opcode) => "LDR_2" \in StatesOf(opcode)
           /\ "LDI_0" \in StatesOf(opcode) => "LDI_1" \in StatesOf(opcode)
           /\ "LDI_1" \in StatesOf(opcode) => "LDI_2" \in StatesOf(opcode)
           /\ "LDI_2" \in StatesOf(opcode) => "LDI_3" \in StatesOf(opcode)
           /\ "LDI_3" \in StatesOf(opcode) => "LDI_4" \in StatesOf(opcode)
           /\ "ST_0" \in StatesOf(opcode) => "ST_1" \in StatesOf(opcode)
           /\ "ST_1" \in StatesOf(opcode) => "ST_2" \in StatesOf(opcode)
           /\ "STR_0" \in StatesOf(opcode) => "STR_1" \in StatesOf(opcode)
           /\ "STR_1" \in StatesOf(opcode) => "STR_2" \in StatesOf(opcode)
           /\ "STI_0" \in StatesOf(opcode) => "STI_1" \in StatesOf(opcode)
           /\ "STI_1" \in StatesOf(opcode) => "STI_2" \in StatesOf(opcode)
           /\ "STI_2" \in StatesOf(opcode) => "STI_3" \in StatesOf(opcode)
           /\ "STI_3" \in StatesOf(opcode) => "STI_4" \in StatesOf(opcode)
           /\ "JSR_0" \in StatesOf(opcode) => "JSR_1" \in StatesOf(opcode)
           /\ "JSR_0" \in StatesOf(opcode) => "JSR_2" \in StatesOf(opcode)
           /\ "BR_0" \in StatesOf(opcode) => "BR_1" \in StatesOf(opcode)
           /\ "TRAP_0" \in StatesOf(opcode) => "TRAP_1" \in StatesOf(opcode)
           /\ "TRAP_1" \in StatesOf(opcode) => "TRAP_2" \in StatesOf(opcode)
           /\ "TRAP_2" \in StatesOf(opcode) => "HALT" \in StatesOf(opcode)
  BY DEF StatesOf

(* What a transition into state s must satisfy for FSMPath to hold there.  *)
Enters(s) ==
    /\ transition_to(s)
    /\ s \in FSMState
    /\ s \notin FetchStates => /\ IR' = IR
                              /\ current_state \in StatesOf(Opcode(IR)) \cup {"DECODE"}
                              /\ s \in StatesOf(Opcode(IR))
    /\ s = "JSR_1" => LinkFlag(IR) = 0
    /\ s = "JSR_2" => LinkFlag(IR) = 1
    /\ s = "HALT" => TrapVect(IR) = HaltVector

Steered == ControlOK /\ StopFlags /\ FSMPath

(* A well-steered machine that makes such a transition stays well steered. *)
LEMMA EntersSteered == ASSUME Steered, running, NEW s, Enters(s) PROVE Steered'
<1>1. ControlOK'
  BY TransitionOK DEF Steered, Enters
<1>2. StopFlags'
  BY DEF Steered, StopFlags, Enters, transition_to, ControlOK
<1>3. FSMPath'
  BY DEF FSMPath, Enters, transition_to
<1>4. QED
  BY <1>1, <1>2, <1>3 DEF Steered

LEMMA FetchSteered == ASSUME Healthy, Steered, Fetch PROVE Steered'
<1>1. CASE execute_fetch0
  <2>1. Enters("FETCH_1") /\ running
    BY <1>1 DEF execute_fetch0, Enters, At, FSMState, FetchStates
  <2>2. QED
    BY <2>1, EntersSteered
<1>2. CASE execute_fetch1
  <2>1. Enters("FETCH_2") /\ running
    BY <1>2 DEF execute_fetch1, Enters, At, FSMState, FetchStates
  <2>2. QED
    BY <2>1, EntersSteered
<1>3. CASE execute_fetch2
  <2>1. Enters("DECODE") /\ running
    BY <1>3 DEF execute_fetch2, Enters, At, FSMState, FetchStates
  <2>2. QED
    BY <2>1, EntersSteered
<1>4. CASE execute_decode
  <2>1. Opcode(IR) \in 0 .. 15
    BY BitsRange DEF Healthy, DatapathOK
  <2>2. Enters(Dispatch(Opcode(IR))) /\ running
    BY <1>4, <2>1, DispatchFamily DEF execute_decode, Enters, At
  <2>3. QED
    BY <2>2, EntersSteered
<1>5. QED
  BY <1>1, <1>2, <1>3, <1>4 DEF Fetch

(* The handlers that end an instruction return to FETCH_0.                 *)
LEMMA ReturnSteered == ASSUME Steered, running, transition_to("FETCH_0")
                       PROVE  Steered'
  BY EntersSteered DEF Enters, FSMState, FetchStates

(* The handlers in the middle of an instruction.                           *)
Follows(s, t) ==
    /\ At(s) /\ transition_to(t) /\ IR' = IR
    /\ s \in ExecStates /\ t \in ExecStates
    /\ \A opcode \in 0 .. 15 : s \in StatesOf(opcode) => t \in StatesOf(opcode)
    /\ t \notin {"JSR_1", "JSR_2"}

LEMMA FollowsSteered == ASSUME Healthy, Steered, NEW s, NEW t, Follows(s, t)
                        PROVE  Steered'
<1>1. Opcode(IR) \in 0 .. 15
  BY BitsRange DEF Healthy, DatapathOK
<1>2. current_state \in StatesOf(Opcode(IR))
  BY DEF Follows, At, Steered, FSMPath, FetchStates, ExecStates
<1>3. Enters(t) /\ running
  BY <1>1, <1>2 DEF Follows, Enters, At, FSMState, ExecStates
<1>4. QED
  BY <1>3, EntersSteered

LEMMA OperateSteered == ASSUME Steered, Operate PROVE Steered'
  BY ReturnSteered DEF Operate, execute_add, execute_and, execute_not, execute_lea0, At

LEMMA LoadSteered == ASSUME Healthy, Steered, Load PROVE Steered'
<1>1. CASE execute_ld0
  <2>1. Follows("LD_0", "LD_1")
    BY <1>1, FamilyClosed
       DEF execute_ld0, Follows, ExecStates, SetMAR
  <2>2. QED
    BY <2>1, FollowsSteered
<1>2. CASE execute_ld1
  <2>1. Follows("LD_1", "LD_2")
    BY <1>2, FamilyClosed
       DEF execute_ld1, Follows, ExecStates, ReadMDR, SetMDR
  <2>2. QED
    BY <2>1, FollowsSteered
<1>3. CASE execute_ldr0
  <2>1. Follows("LDR_0", "LDR_1")
    BY <1>3, FamilyClosed
       DEF execute_ldr0, Follows, ExecStates, SetMAR
  <2>2. QED
    BY <2>1, FollowsSteered
<1>4. CASE execute_ldr1
  <2>1. Follows("LDR_1", "LDR_2")
    BY <1>4, FamilyClosed
       DEF execute_ldr1, Follows, ExecStates, ReadMDR, SetMDR
  <2>2. QED
    BY <2>1, FollowsSteered
<1>5. CASE execute_ldi0
  <2>1. Follows("LDI_0", "LDI_1")
    BY <1>5, FamilyClosed
       DEF execute_ldi0, Follows, ExecStates, SetMAR
  <2>2. QED
    BY <2>1, FollowsSteered
<1>6. CASE execute_ldi1
  <2>1. Follows("LDI_1", "LDI_2")
    BY <1>6, FamilyClosed
       DEF execute_ldi1, Follows, ExecStates, ReadMDR, SetMDR
  <2>2. QED
    BY <2>1, FollowsSteered
<1>7. CASE execute_ldi2
  <2>1. Follows("LDI_2", "LDI_3")
    BY <1>7, FamilyClosed
       DEF execute_ldi2, Follows, ExecStates, SetMAR
  <2>2. QED
    BY <2>1, FollowsSteered
<1>8. CASE execute_ldi3
  <2>1. Follows("LDI_3", "LDI_4")
    BY <1>8, FamilyClosed
       DEF execute_ldi3, Follows, ExecStates, ReadMDR, SetMDR
  <2>2. QED
    BY <2>1, FollowsSteered
<1>9. CASE execute_ld2 \/ execute_ldr2 \/ execute_ldi4
  BY <1>9, ReturnSteered DEF At, execute_ld2, execute_ldr2, execute_ldi4
<1>10. QED
  BY <1>1, <1>2, <1>3, <1>4, <1>5, <1>6, <1>7, <1>8, <1>9 DEF Load

LEMMA StoreSteered == ASSUME Healthy, Steered, Store PROVE Steered'
<1>1. CASE execute_st0
  <2>1. Follows("ST_0", "ST_1")
    BY <1>1, FamilyClosed
       DEF execute_st0, Follows, ExecStates, SetMAR
  <2>2. QED
    BY <2>1, FollowsSteered
<1>2. CASE execute_st1
  <2>1. Follows("ST_1", "ST_2")
    BY <1>2, FamilyClosed
       DEF execute_st1, Follows, ExecStates, SetMDR
  <2>2. QED
    BY <2>1, FollowsSteered
<1>3. CASE execute_str0
  <2>1. Follows("STR_0", "STR_1")
    BY <1>3, FamilyClosed
       DEF execute_str0, Follows, ExecStates, SetMAR
  <2>2. QED
    BY <2>1, FollowsSteered
<1>4. CASE execute_str1
  <2>1. Follows("STR_1", "STR_2")
    BY <1>4, FamilyClosed
       DEF execute_str1, Follows, ExecStates, SetMDR
  <2>2. QED
    BY <2>1, FollowsSteered
<1>5. CASE execute_sti0
  <2>1. Follows("STI_0", "STI_1")
    BY <1>5, FamilyClosed
       DEF execute_sti0, Follows, ExecStates, SetMAR
  <2>2. QED
    BY <2>1, FollowsSteered
<1>6. CASE execute_sti1
  <2>1. Follows("STI_1", "STI_2")
    BY <1>6, FamilyClosed
       DEF execute_sti1, Follows, ExecStates, ReadMDR, SetMDR
  <2>2. QED
    BY <2>1, FollowsSteered
<1>7. CASE execute_sti2
  <2>1. Follows("STI_2", "STI_3")
    BY <1>7, FamilyClosed
       DEF execute_sti2, Follows, ExecStates, SetMAR
  <2>2. QED
    BY <2>1, FollowsSteered
<1>8. CASE execute_sti3
  <2>1. Follows("STI_3", "STI_4")
    BY <1>8, FamilyClosed
       DEF execute_sti3, Follows, ExecStates, SetMDR
  <2>2. QED
    BY <2>1, FollowsSteered
<1>9. CASE execute_st2 \/ execute_str2 \/ execute_sti4
  BY <1>9, ReturnSteered DEF At, execute_st2, execute_str2, execute_sti4
<1>10. QED
  BY <1>1, <1>2, <1>3, <1>4, <1>5, <1>6, <1>7, <1>8, <1>9 DEF Store

LEMMA ControlSteered == ASSUME Healthy, Steered, Control PROVE Steered'
<1>1. CASE execute_trap0
  <2>1. Follows("TRAP_0", "TRAP_1")
    BY <1>1, FamilyClosed
       DEF execute_trap0, Follows, ExecStates, SetMAR
  <2>2. QED
    BY <2>1, FollowsSteered
<1>2. CASE execute_trap1
  <2>1. Follows("TRAP_1", "TRAP_2")
    BY <1>2, FamilyClosed
       DEF execute_trap1, Follows, ExecStates
  <2>2. QED
    BY <2>1, FollowsSteered
<1>3. CASE execute_jmp0 \/ execute_jsr1 \/ execute_jsr2
            \/ execute_br1
  BY <1>3, ReturnSteered DEF At, execute_jmp0, execute_jsr1, execute_jsr2, execute_br1
<1>4. CASE execute_jsr0
  <2>1. Opcode(IR) \in 0 .. 15 /\ LinkFlag(IR) \in {0, 1}
    BY BitsRange DEF Healthy, DatapathOK
  <2>2. "JSR_0" \in StatesOf(Opcode(IR))
    BY <1>4 DEF execute_jsr0, At, Steered, FSMPath, FetchStates
  <2>3. "JSR_1" \in StatesOf(Opcode(IR)) /\ "JSR_2" \in StatesOf(Opcode(IR))
    BY <2>1, <2>2, FamilyClosed
  <2>4. Enters(IF LinkFlag(IR) = 0 THEN "JSR_1" ELSE "JSR_2") /\ running
    BY <1>4, <2>1, <2>2, <2>3 DEF execute_jsr0, Enters, At, FSMState, ExecStates
  <2>5. QED
    BY <2>4, EntersSteered
<1>5. CASE execute_br0
  <2>1. CASE ~BEN
    BY <1>5, <2>1, ReturnSteered DEF execute_br0, At
  <2>2. CASE BEN
    <3>1. Follows("BR_0", "BR_1")
      BY <1>5, <2>2, FamilyClosed DEF execute_br0, Follows, ExecStates
    <3>2. QED
      BY <3>1, FollowsSteered
  <2>3. QED
    BY <2>1, <2>2
<1>6. CASE execute_trap2
  <2>1. CASE TrapVect(IR) # HaltVector
    BY <1>6, <2>1, ReturnSteered DEF execute_trap2, At
  <2>2. CASE TrapVect(IR) = HaltVector
    <3>1. Opcode(IR) \in 0 .. 15
      BY BitsRange DEF Healthy, DatapathOK
    <3>2. "TRAP_2" \in StatesOf(Opcode(IR))
      BY <1>6 DEF execute_trap2, At, Steered, FSMPath, FetchStates
    <3>3. "HALT" \in StatesOf(Opcode(IR))
      BY <3>1, <3>2, FamilyClosed
    <3>4. Enters("HALT") /\ running
      BY <1>6, <2>2, <3>2, <3>3
         DEF execute_trap2, SetPC, Enters, At, FSMState, StopStates
    <3>5. QED
      BY <3>4, EntersSteered
  <2>3. QED
    BY <2>1, <2>2
<1>7. QED
  BY <1>1, <1>2, <1>3, <1>4, <1>5, <1>6 DEF Control

LEMMA StopSteered == ASSUME Steered, Stop PROVE Steered'
<1>1. ControlOK'
  BY CountCycleOK DEF Stop, stop_halt, stop_error, Steered, ControlOK
<1>2. StopFlags'
  BY DEF Stop, stop_halt, stop_error, At, Steered, StopFlags, StopStates
<1>3. FSMPath'
  BY DEF Stop, stop_halt, stop_error, Steered, FSMPath
<1>4. QED
  BY <1>1, <1>2, <1>3 DEF Steered

LEMMA StepSteered == ASSUME Healthy, Steered, step PROVE Steered'
  BY FetchSteered, OperateSteered, LoadSteered, StoreSteered, ControlSteered,
     StopSteered DEF step

-----------------------------------------------------------------------------
(* The inductive invariant: the four state properties of LC3CPU together.  *)
(* The flags need the path (a stop state is entered running), the path     *)
(* needs the types (the opcode of a 16-bit IR is below 16).                *)

Inv == TypeOK /\ CondOneHot /\ StopFlags /\ FSMPath

LEMMA InvSplit == Inv <=> (Healthy /\ Steered)
  BY TypeSplit DEF Inv, Healthy, Steered

LEMMA StepInv == ASSUME Inv, step PROVE Inv'
<1>1. Healthy /\ Steered
  BY InvSplit
<1>2. Healthy' /\ Steered'
  BY <1>1, StepHealthy, StepSteered
<1>3. QED
  BY <1>2, TypeSplit DEF Inv, Healthy, Steered, TypeOK, DatapathOK, ControlOK

(* A machine that has just been built or reset, whatever is loaded in it.  *)
LEMMA PowerOnInv == ASSUME NEW start \in Word, NEW contents, IsMemory(contents),
                           PowerOn(start, contents)
                    PROVE  Inv
<1>1. 0 \in Word
  BY DEF Word, WordSize
<1>2. 0 \in 0 .. (CycleSpan - 1)
  BY CPUAssumption
<1>3. "FETCH_0" \in FSMState
  BY DEF FSMState, FetchStates
<1>4. TypeOK
  BY <1>1, <1>2, <1>3 DEF PowerOn, TypeOK
<1>5. QED
  BY <1>4 DEF PowerOn, Inv, CondOneHot, StopFlags, FSMPath, FetchStates

LEMMA RestartInv == ASSUME NEW start \in Word, NEW contents, IsMemory(contents),
                           Restart(start, contents)
                    PROVE  Inv'
<1>1. 0 \in Word
  BY DEF Word, WordSize
<1>2. 0 \in 0 .. (CycleSpan - 1)
  BY CPUAssumption
<1>3. "FETCH_0" \in FSMState
  BY DEF FSMState, FetchStates
<1>4. TypeOK'
  BY <1>1, <1>2, <1>3 DEF Restart, TypeOK
<1>5. QED
  BY <1>4 DEF Restart, Inv, CondOneHot, StopFlags, FSMPath, FetchStates

LEMMA HostCallInv == ASSUME Inv, HostCall PROVE Inv'
<1> USE DEF Inv
<1>1. CASE reset
  <2>1. Origin \in Word
    BY DEF Origin, Word, WordSize
  <2>2. QED
    BY <1>1, <2>1, ClearIsMemory, RestartInv DEF reset
<1>2. ASSUME NEW image \in Images, load_program(image) PROVE Inv'
  <2>1. image.words \in Seq(Word) /\ image.start \in Word
    BY CPUAssumption
  <2>2. IsMemory(memory')
    BY <1>2, <2>1, LoadIsMemory DEF load_program, TypeOK
  <2>3. QED
    BY <1>2, <2>1, <2>2 DEF load_program, TypeOK, CondOneHot, StopFlags, FSMPath, cond
<1>3. ASSUME NEW r \in HostRegs, NEW val \in HostWords, set_reg(r, val) PROVE Inv'
  <2>1. r \in RegNum /\ val \in Word
    BY CPUAssumption
  <2>2. reg' \in [RegNum -> Word]
    BY <1>3, <2>1 DEF set_reg, TypeOK
  <2>3. QED
    BY <1>3, <2>2
       DEF set_reg, DatapathRest, TypeOK, CondOneHot, StopFlags, FSMPath, cond
<1>4. ASSUME NEW val \in HostWords, set_pc(val) PROVE Inv'
  BY <1>4, CPUAssumption
     DEF set_pc, DatapathRest, TypeOK, CondOneHot, StopFlags, FSMPath, cond
<1>5. ASSUME NEW addr \in HostAddrs, NEW val \in HostWords, write_memory(addr, val)
      PROVE  Inv'
  <2>1. IsMemory(memory')
    BY <1>5, CPUAssumption, WriteIsMemory DEF write_memory, TypeOK
  <2>2. QED
    BY <1>5, <2>1
       DEF write_memory, DatapathRest, TypeOK, CondOneHot, StopFlags, FSMPath, cond
<1>6. QED
  BY <1>1, <1>2, <1>3, <1>4, <1>5 DEF HostCall

LEMMA StutterInv == ASSUME Inv, UNCHANGED vars PROVE Inv'
  BY DEF Inv, vars, cond, TypeOK, CondOneHot, StopFlags, FSMPath

LEMMA InitInv == Init => Inv
<1>1. Origin \in Word
  BY DEF Origin, Word, WordSize
<1>2. QED
  BY <1>1, ClearIsMemory, PowerOnInv DEF Init

(* The CPU class, whatever its host does: the state properties of LC3CPU   *)
(* hold together in every reachable state.                                 *)
THEOREM CPUInvariant == Spec => []Inv
<1>1. Inv /\ [Next]_vars => Inv'
  BY StepInv, HostCallInv, StutterInv DEF Next, BoundedStep
<1>2. QED
  BY <1>1, InitInv, PTL DEF Spec

(* Type correctness: every register, address and stored word of the CPU is *)
(* a uint16_t value and the state is one of enum FSMState.                 *)
THEOREM TypeCorrect == Spec => []TypeOK
  BY CPUInvariant, PTL DEF Inv

(* Exactly one of N, Z and P is set (cpu.cpp:119-123).                     *)
THEOREM OneConditionCode == Spec => []CondOneHot
  BY CPUInvariant, PTL DEF Inv

(* running and halted agree with the FSM state.                            *)
THEOREM FlagsAgree == Spec => []StopFlags
  BY CPUInvariant, PTL DEF Inv

(* No instruction leaves the states of its opcode, and only TRAP x25 halts.*)
THEOREM InstructionPath == Spec => []FSMPath
  BY CPUInvariant, PTL DEF Inv

-----------------------------------------------------------------------------
(* Action properties                                                       *)

(* Which handler step() calls is decided by running and current_state.     *)
LEMMA StepHandler == step => /\ running
                             /\ current_state = "BR_0" => execute_br0
<1>1. execute_br0 => running
  BY DEF execute_br0, At
<1>2. QED
  BY <1>1
     DEF step, Fetch, execute_fetch0, execute_fetch1, execute_fetch2,
         execute_decode, Operate, execute_add, execute_and, execute_not,
         execute_lea0, Load, execute_ld0, execute_ld1, execute_ld2,
         execute_ldr0, execute_ldr1, execute_ldr2, execute_ldi0, execute_ldi1,
         execute_ldi2, execute_ldi3, execute_ldi4, Store, execute_st0,
         execute_st1, execute_st2, execute_str0, execute_str1, execute_str2,
         execute_sti0, execute_sti1, execute_sti2, execute_sti3, execute_sti4,
         Control, execute_jmp0, execute_jsr0, execute_jsr1, execute_jsr2,
         execute_br1, execute_trap0, execute_trap1, execute_trap2,
         Stop, stop_halt, stop_error, At

(* A stopped machine runs again only through reset(), which also clears    *)
(* the memory and restarts the instruction cycle (cpu.cpp:14-33).          *)
THEOREM StoppedMachineStaysStopped == Spec => StoppedUntilReset
<1>1. [Next]_vars =>
        ((~running /\ running')
            => /\ current_state' = "FETCH_0"
               /\ IR' = 0 /\ cycles' = 0
               /\ memory' = ClearMemory)
  <2> SUFFICES ASSUME [Next]_vars, ~running, running'
               PROVE  reset
    BY DEF reset, Restart
  <2>1. CASE BoundedStep
    BY <2>1, StepHandler DEF BoundedStep
  <2>2. CASE HostCall
    BY <2>2 DEF HostCall, load_program, set_reg, set_pc, write_memory, DatapathRest
  <2>3. CASE UNCHANGED vars
    BY <2>3 DEF vars
  <2>4. QED
    BY <2>1, <2>2, <2>3 DEF Next
<1>2. QED
  BY <1>1, PTL DEF Spec, StoppedUntilReset

(* The three flags of a BR cover every machine: with one condition code    *)
(* always set, a mask of 7 always branches (cpu.cpp:439-453).              *)
THEOREM UnconditionalBranches == Spec => UnconditionalBranchTaken
<1>1. Inv => ((step /\ current_state = "BR_0" /\ Bits(IR, 9, 3) = 7)
                  => current_state' = "BR_1")
  <2> SUFFICES ASSUME Inv, step, current_state = "BR_0", Bits(IR, 9, 3) = 7
               PROVE  current_state' = "BR_1"
    OBVIOUS
  <2>1. BEN
    <3>1. /\ Bits(IR, 11, 1) = 1 /\ Bits(IR, 10, 1) = 1 /\ Bits(IR, 9, 1) = 1
      BY MaskBits DEF Inv, TypeOK
    <3>2. QED
      BY <3>1 DEF BEN, Inv, CondOneHot
  <2>2. execute_br0
    BY StepHandler
  <2>3. QED
    BY <2>1, <2>2 DEF execute_br0, transition_to
<1>2. QED
  BY <1>1, CPUInvariant, PTL DEF Spec, UnconditionalBranchTaken

(* Every transition between two states of an instruction gets nearer to    *)
(* its end.                                                                *)
LEMMA CloserToTheEnd ==
    /\ \A s \in FSMState \ {"FETCH_0"} : CyclesLeft("FETCH_0") < CyclesLeft(s)
    /\ CyclesLeft("FETCH_2") < CyclesLeft("FETCH_1")
    /\ CyclesLeft("DECODE") < CyclesLeft("FETCH_2")
    /\ \A opcode \in 0 .. 15 : CyclesLeft(Dispatch(opcode)) < CyclesLeft("DECODE")
    /\ CyclesLeft("LD_1") < CyclesLeft("LD_0")
    /\ CyclesLeft("LD_2") < CyclesLeft("LD_1")
    /\ CyclesLeft("LDR_1") < CyclesLeft("LDR_0")
    /\ CyclesLeft("LDR_2") < CyclesLeft("LDR_1")
    /\ CyclesLeft("LDI_1") < CyclesLeft("LDI_0")
    /\ CyclesLeft("LDI_2") < CyclesLeft("LDI_1")
    /\ CyclesLeft("LDI_3") < CyclesLeft("LDI_2")
    /\ CyclesLeft("LDI_4") < CyclesLeft("LDI_3")
    /\ CyclesLeft("ST_1") < CyclesLeft("ST_0")
    /\ CyclesLeft("ST_2") < CyclesLeft("ST_1")
    /\ CyclesLeft("STR_1") < CyclesLeft("STR_0")
    /\ CyclesLeft("STR_2") < CyclesLeft("STR_1")
    /\ CyclesLeft("STI_1") < CyclesLeft("STI_0")
    /\ CyclesLeft("STI_2") < CyclesLeft("STI_1")
    /\ CyclesLeft("STI_3") < CyclesLeft("STI_2")
    /\ CyclesLeft("STI_4") < CyclesLeft("STI_3")
    /\ CyclesLeft("JSR_1") < CyclesLeft("JSR_0")
    /\ CyclesLeft("JSR_2") < CyclesLeft("JSR_0")
    /\ CyclesLeft("BR_1") < CyclesLeft("BR_0")
    /\ CyclesLeft("TRAP_1") < CyclesLeft("TRAP_0")
    /\ CyclesLeft("TRAP_2") < CyclesLeft("TRAP_1")
    /\ CyclesLeft("HALT") < CyclesLeft("TRAP_2")
  BY DEF CyclesLeft, Dispatch, FSMState, FetchStates, ExecStates, StopStates

Closer == CyclesLeft(current_state') < CyclesLeft(current_state)

LEMMA StepCloser == ASSUME Inv, step, running', current_state # "FETCH_0"
                    PROVE  Closer
<1> USE CloserToTheEnd DEF Closer, At, transition_to
<1>1. current_state \in FSMState \ {"FETCH_0"} /\ Opcode(IR) \in 0 .. 15
  BY BitsRange DEF Inv, TypeOK
<1>2. CASE Fetch
  BY <1>1, <1>2 DEF Fetch, execute_fetch0, execute_fetch1, execute_fetch2, execute_decode
<1>3. CASE Operate
  BY <1>1, <1>3 DEF Operate, execute_add, execute_and, execute_not, execute_lea0
<1>4. CASE Load
  BY <1>1, <1>4 DEF Load, execute_ld0, execute_ld1, execute_ld2, execute_ldr0,
     execute_ldr1, execute_ldr2, execute_ldi0, execute_ldi1, execute_ldi2,
     execute_ldi3, execute_ldi4
<1>5. CASE Store
  BY <1>1, <1>5 DEF Store, execute_st0, execute_st1, execute_st2, execute_str0,
     execute_str1, execute_str2, execute_sti0, execute_sti1, execute_sti2,
     execute_sti3, execute_sti4
<1>6. CASE Control
  BY <1>1, <1>6 DEF Control, execute_jmp0, execute_jsr0, execute_jsr1, execute_jsr2,
     execute_br0, execute_br1, execute_trap0, execute_trap1, execute_trap2
<1>7. CASE Stop
  BY <1>7 DEF Stop, stop_halt, stop_error
<1>8. QED
  BY <1>2, <1>3, <1>4, <1>5, <1>6, <1>7 DEF step

LEMMA StepBegins == ASSUME step, current_state = "FETCH_0"
                    PROVE  current_state' # "FETCH_0"
<1> USE DEF At, transition_to
<1>1. execute_fetch0 => current_state' # "FETCH_0"
  BY DEF execute_fetch0
<1>2. ~execute_fetch1 /\ ~execute_fetch2 /\ ~execute_decode
  BY DEF execute_fetch1, execute_fetch2, execute_decode
<1>3. ~Operate
  BY DEF Operate, execute_add, execute_and, execute_not, execute_lea0
<1>4. ~Load
  BY DEF Load, execute_ld0, execute_ld1, execute_ld2, execute_ldr0,
     execute_ldr1, execute_ldr2, execute_ldi0, execute_ldi1, execute_ldi2,
     execute_ldi3, execute_ldi4
<1>5. ~Store
  BY DEF Store, execute_st0, execute_st1, execute_st2, execute_str0,
     execute_str1, execute_str2, execute_sti0, execute_sti1, execute_sti2,
     execute_sti3, execute_sti4
<1>6. ~Control
  BY DEF Control, execute_jmp0, execute_jsr0, execute_jsr1, execute_jsr2,
     execute_br0, execute_br1, execute_trap0, execute_trap1, execute_trap2
<1>7. ~Stop
  BY DEF Stop, stop_halt, stop_error
<1>8. QED
  BY <1>1, <1>2, <1>3, <1>4, <1>5, <1>6, <1>7 DEF step, Fetch

(* Every call of step() starts an instruction, brings its end nearer, by a *)
(* measure that is at most eight after FETCH_0, or stops the machine: no   *)
(* instruction takes more than nine cycles (cpu.cpp:35-111).               *)
THEOREM InstructionsProgress == Spec => InstructionProgress
<1>1. Inv => ((step /\ running') =>
                 IF current_state = "FETCH_0"
                 THEN current_state' # "FETCH_0"
                 ELSE CyclesLeft(current_state') < CyclesLeft(current_state))
  BY StepBegins, StepCloser DEF Closer
<1>2. QED
  BY <1>1, CPUInvariant, PTL DEF InstructionProgress

-----------------------------------------------------------------------------
(* The numbers of the states, one by one, and of their successors          *)

LEMMA Numbers ==
    /\ StateNumber("FETCH_0") = 18 /\ StateNumber("FETCH_1") = 33
    /\ StateNumber("FETCH_2") = 35 /\ StateNumber("DECODE") = 32
    /\ StateNumber("ADD_0") = 1 /\ StateNumber("AND_0") = 5
    /\ StateNumber("NOT_0") = 9 /\ StateNumber("LEA_0") = 14
    /\ StateNumber("LD_0") = 2 /\ StateNumber("LD_1") = 25 /\ StateNumber("LD_2") = 27
    /\ StateNumber("LDR_0") = 6 /\ StateNumber("LDR_1") = 25 /\ StateNumber("LDR_2") = 27
    /\ StateNumber("LDI_0") = 10 /\ StateNumber("LDI_1") = 24 /\ StateNumber("LDI_2") = 26
    /\ StateNumber("LDI_3") = 25 /\ StateNumber("LDI_4") = 27
    /\ StateNumber("ST_0") = 3 /\ StateNumber("ST_1") = 23 /\ StateNumber("ST_2") = 16
    /\ StateNumber("STR_0") = 7 /\ StateNumber("STR_1") = 23 /\ StateNumber("STR_2") = 16
    /\ StateNumber("STI_0") = 11 /\ StateNumber("STI_1") = 29 /\ StateNumber("STI_2") = 31
    /\ StateNumber("STI_3") = 23 /\ StateNumber("STI_4") = 16
    /\ StateNumber("JSR_0") = 4 /\ StateNumber("JSR_1") = 20 /\ StateNumber("JSR_2") = 21
    /\ StateNumber("JMP_0") = 12 /\ StateNumber("BR_0") = 0 /\ StateNumber("BR_1") = 22
    /\ StateNumber("TRAP_0") = 15 /\ StateNumber("TRAP_1") = 28 /\ StateNumber("TRAP_2") = 30
  BY DEF StateNumber, STATE_NUM

Numbered(s, t) == <<StateNumber(s), StateNumber(t)>> \in Controller

LEMMA FetchNumbered == /\ Numbered("FETCH_0", "FETCH_1") /\ Numbered("FETCH_1", "FETCH_2")
                       /\ Numbered("FETCH_2", "DECODE")
  BY Numbers DEF Numbered, Controller

LEMMA DispatchNumbered == ASSUME NEW opcode \in 0 .. 15, Dispatch(opcode) \notin StopStates
                          PROVE  Numbered("DECODE", Dispatch(opcode))
<1>1. opcode \in (0 .. 15) \ {8, 13}
  BY DEF Dispatch, StopStates
<1>2. StateNumber(Dispatch(opcode)) = opcode
  BY <1>1, Numbers DEF Dispatch
<1>3. QED
  BY <1>1, <1>2, Numbers DEF Numbered, Controller

LEMMA LastNumbered ==
    \A s \in {"ADD_0", "AND_0", "NOT_0", "LEA_0", "LD_2", "LDR_2", "LDI_4",
              "ST_2", "STR_2", "STI_4", "JMP_0", "JSR_1", "JSR_2", "BR_0", "BR_1", "TRAP_2"} :
        Numbered(s, "FETCH_0")
  BY Numbers DEF Numbered, Controller

LEMMA AccessNumbered ==
    /\ Numbered("LD_0", "LD_1") /\ Numbered("LD_1", "LD_2")
    /\ Numbered("LDR_0", "LDR_1") /\ Numbered("LDR_1", "LDR_2")
    /\ Numbered("LDI_0", "LDI_1") /\ Numbered("LDI_1", "LDI_2")
    /\ Numbered("LDI_2", "LDI_3") /\ Numbered("LDI_3", "LDI_4")
    /\ Numbered("ST_0", "ST_1") /\ Numbered("ST_1", "ST_2")
    /\ Numbered("STR_0", "STR_1") /\ Numbered("STR_1", "STR_2")
    /\ Numbered("STI_0", "STI_1") /\ Numbered("STI_1", "STI_2")
    /\ Numbered("STI_2", "STI_3") /\ Numbered("STI_3", "STI_4")
  BY Numbers DEF Numbered, Controller

LEMMA ControlNumbered ==
    /\ Numbered("JSR_0", "JSR_1") /\ Numbered("JSR_0", "JSR_2")
    /\ Numbered("BR_0", "BR_1")
    /\ Numbered("TRAP_0", "TRAP_1") /\ Numbered("TRAP_1", "TRAP_2")
  BY Numbers DEF Numbered, Controller

LEMMA StepNumbered == ASSUME Inv, step, current_state' \notin StopStates
                      PROVE  Numbered(current_state, current_state')
<1>1. CASE Fetch
  <2>1. CASE execute_decode
    <3>1. Opcode(IR) \in 0 .. 15
      BY BitsRange, InvSplit DEF Healthy, DatapathOK
    <3>2. QED
      BY <2>1, <3>1, DispatchNumbered DEF execute_decode, At, transition_to
  <2>2. CASE execute_fetch0 \/ execute_fetch1 \/ execute_fetch2
    BY <2>2, FetchNumbered
       DEF execute_fetch0, execute_fetch1, execute_fetch2, At, transition_to
  <2>3. QED
    BY <1>1, <2>1, <2>2 DEF Fetch
<1>2. CASE Operate
  BY <1>2, LastNumbered
     DEF Operate, execute_add, execute_and, execute_not, execute_lea0, At, transition_to
<1>3. CASE Load
  BY <1>3, LastNumbered, AccessNumbered
     DEF Load, execute_ld0, execute_ld1, execute_ld2, execute_ldr0, execute_ldr1,
         execute_ldr2, execute_ldi0, execute_ldi1, execute_ldi2, execute_ldi3,
         execute_ldi4, At, transition_to
<1>4. CASE Store
  BY <1>4, LastNumbered, AccessNumbered
     DEF Store, execute_st0, execute_st1, execute_st2, execute_str0, execute_str1,
         execute_str2, execute_sti0, execute_sti1, execute_sti2, execute_sti3,
         execute_sti4, At, transition_to
<1>5. CASE Control
  BY <1>5, LastNumbered, ControlNumbered
     DEF Control, execute_jmp0, execute_jsr0, execute_jsr1, execute_jsr2, execute_br0,
         execute_br1, execute_trap0, execute_trap1, execute_trap2, At, transition_to,
         StopStates
<1>6. CASE Stop
  BY <1>6 DEF Stop, stop_halt, stop_error, At, StopStates
<1>7. QED
  BY <1>1, <1>2, <1>3, <1>4, <1>5, <1>6 DEF step

(* The numbers of the trace (script.js:436-445) are a path of the state    *)
(* diagram of Patt and Patel, for every program.                           *)
THEOREM NumbersAreAPath == Spec => NumbersFollowController
<1>1. Inv /\ [Next]_vars
        => [(step /\ current_state' \notin StopStates)
              => <<StateNumber(current_state), StateNumber(current_state')>> \in Controller]_vars
  BY StepNumbered DEF Numbered
<1>2. QED
  BY <1>1, CPUInvariant, PTL DEF Spec, NumbersFollowController

-----------------------------------------------------------------------------
(* The elements that are lit                                               *)

LEMMA LitElements == ASSUME NEW s
    PROVE  /\ "PC" \in Lit(s) <=> "pc" \in Described(s)
           /\ "IR" \in Lit(s) <=> s = "FETCH_2"
           /\ "MAR" \in Lit(s) <=> "MAR" \in Described(s) \/ s \in AccessTexts
           /\ "MDR" \in Lit(s) <=> "MDR" \in Described(s) \/ s \in FromMDRTexts
           /\ "MEM" \in Lit(s) <=> s \in AccessTexts
  BY DEF Lit, When

LEMMA MemoryPhase == \A s : s \in AccessTexts <=> Phase(s) = "mem" \/ s = "FETCH_1"
  BY DEF Phase, AccessTexts, StopStates

(* What a state must say of the step it makes.                             *)
Tells(s) ==
    /\ pc' # pc => "pc" \in Described(s)
    /\ IR' # IR => s = "FETCH_2"
    /\ MAR' # MAR => "MAR" \in Described(s)
    /\ MDR' # MDR => "MDR" \in Described(s)
    /\ memory' # memory => s \in AccessTexts
    /\ s \in AccessTexts => /\ "MDR" \in Described(s) \/ s \in FromMDRTexts
                            /\ MDR' = ReadMem(memory', MAR)

LEMMA LatchStates ==
    /\ \A s \in {"LD_0", "LDR_0", "LDI_0", "LDI_2", "STI_0", "STI_2", "STR_0", "ST_0", "TRAP_0"} :
          "MAR" \in Described(s) /\ s \notin AccessTexts
    /\ \A s \in {"STI_3", "STR_1", "ST_1"} : "MDR" \in Described(s) /\ s \notin AccessTexts
    /\ \A s \in {"FETCH_1", "LD_1", "LDR_1", "LDI_1", "LDI_3", "STI_1", "TRAP_1"} :
          "MDR" \in Described(s)
    /\ \A s \in {"ST_2", "STR_2", "STI_4"} : s \in AccessTexts /\ s \in FromMDRTexts
    /\ \A s \in {"JMP_0", "JSR_1", "JSR_2", "BR_1", "TRAP_2"} :
          "pc" \in Described(s) /\ s \notin AccessTexts
    /\ "pc" \in Described("FETCH_0") /\ "MAR" \in Described("FETCH_0")
    /\ \A s \in {"FETCH_0", "FETCH_2", "DECODE", "ADD_0", "AND_0", "NOT_0", "LEA_0", "LD_2",
                 "LDR_2", "LDI_4", "JSR_0", "BR_0", "HALT", "ERROR", "RESERVED"} :
          s \notin AccessTexts
  BY DEF Described, AccessTexts, FromMDRTexts

LEMMA StepTells == ASSUME step PROVE Tells(current_state)
<1>1. CASE \E a : SetMAR(a) /\ current_state \in
              {"LD_0", "LDR_0", "LDI_0", "LDI_2", "STI_0", "STI_2", "STR_0", "ST_0", "TRAP_0"}
  BY <1>1, LatchStates DEF SetMAR, Tells
<1>2. CASE ReadMDR /\ current_state \in {"FETCH_1", "LD_1", "LDR_1", "LDI_1", "LDI_3", "STI_1"}
  BY <1>2, LatchStates DEF ReadMDR, SetMDR, Tells
<1>3. CASE \E v : SetMDR(v) /\ current_state \in {"STI_3", "STR_1", "ST_1"}
  BY <1>3, LatchStates DEF SetMDR, Tells
<1>4. CASE StoreMDR /\ current_state \in {"ST_2", "STR_2", "STI_4"}
  <2>1. MDR' = ReadMem(memory', MAR)
    BY <1>4, ReadAfterWrite DEF StoreMDR
  <2>2. QED
    BY <1>4, <2>1, LatchStates DEF StoreMDR, Tells
<1>5. CASE \E a : SetPC(a) /\ current_state \in {"JMP_0", "JSR_1", "JSR_2", "BR_1", "TRAP_2"}
  BY <1>5, LatchStates DEF SetPC, Tells
<1>6. CASE UNCHANGED <<pc, IR, MAR, MDR, memory>> /\ current_state \in
             {"DECODE", "ADD_0", "AND_0", "NOT_0", "LEA_0", "LD_2", "LDR_2", "LDI_4", "JSR_0",
              "BR_0", "HALT", "ERROR", "RESERVED"}
  BY <1>6, LatchStates DEF Tells
<1>7. CASE execute_fetch0 \/ execute_fetch2 \/ execute_trap1
  BY <1>7, LatchStates DEF execute_fetch0, execute_fetch2, execute_trap1, At, Tells
<1>8. CASE Fetch
  BY <1>2, <1>6, <1>7, <1>8 DEF Fetch, execute_fetch1, execute_decode, At
<1>9. CASE Operate
  BY <1>6, <1>9 DEF Operate, execute_add, execute_and, execute_not, execute_lea0, At, SetDR
<1>10. CASE Load
  BY <1>1, <1>2, <1>6, <1>10
     DEF Load, execute_ld0, execute_ld1, execute_ld2, execute_ldr0, execute_ldr1,
         execute_ldr2, execute_ldi0, execute_ldi1, execute_ldi2, execute_ldi3,
         execute_ldi4, At, SetDR
<1>11. CASE Store
  BY <1>1, <1>2, <1>3, <1>4, <1>11
     DEF Store, execute_st0, execute_st1, execute_st2, execute_str0, execute_str1,
         execute_str2, execute_sti0, execute_sti1, execute_sti2, execute_sti3,
         execute_sti4, At
<1>12. CASE Control
  BY <1>1, <1>5, <1>6, <1>7, <1>12
     DEF Control, execute_jmp0, execute_jsr0, execute_jsr1, execute_jsr2, execute_br0,
         execute_br1, execute_trap0, execute_trap2, At
<1>13. CASE Stop
  BY <1>6, <1>13 DEF Stop, stop_halt, stop_error, At
<1>14. QED
  BY <1>8, <1>9, <1>10, <1>11, <1>12, <1>13 DEF step

(* Every element of the datapath whose content a cycle changes is lit, and *)
(* the memory is lit for the cycles that go to it (script.js:580-587).     *)
THEOREM LitElementsChange == Spec => LitShowsChanges
<1>1. [Next]_vars => [step => LitTells]_vars
  BY StepTells, LitElements, MemoryPhase DEF Tells, LitTells
<1>2. QED
  BY <1>1, PTL DEF Spec, LitShowsChanges

=============================================================================
