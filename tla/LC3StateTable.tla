---------------------------- MODULE LC3StateTable ----------------------------
(***************************************************************************)
(* What the page derives from the name and the RTL text of an FSM state    *)
(* (cpu_state.h): its number, its colour and the elements of the datapath  *)
(* it lights (www/script.js, STATE_NUM, family and drawDatapath).  The     *)
(* tables are kept apart from the handlers of cpu.cpp they speak of, and   *)
(* are joined to them by names and by patterns in a text.                  *)
(***************************************************************************)
EXTENDS LC3CPU

\* The texts that contain "M[MAR]", and those that read MDR
AccessTexts == {"FETCH_1", "LD_1", "LDR_1", "LDI_1", "LDI_3", "STI_1", "TRAP_1",
                "ST_2", "STR_2", "STI_4"}
FromMDRTexts == {"FETCH_2", "LD_2", "LDR_2", "LDI_2", "LDI_4", "STI_2", "TRAP_2",
                 "ST_2", "STR_2", "STI_4"}

-----------------------------------------------------------------------------

STATE_NUM ==
    [FETCH_0 |-> 18, FETCH_1 |-> 33, FETCH_2 |-> 35, DECODE |-> 32,
     ADD_0 |-> 1, AND_0 |-> 5, NOT_0 |-> 9, LEA_0 |-> 14,
     LD_0 |-> 2, LD_1 |-> 25, LD_2 |-> 27, LDR_0 |-> 6, LDR_1 |-> 25, LDR_2 |-> 27,
     LDI_0 |-> 10, LDI_1 |-> 24, LDI_2 |-> 26, LDI_3 |-> 25, LDI_4 |-> 27,
     ST_0 |-> 3, ST_1 |-> 23, ST_2 |-> 16, STR_0 |-> 7, STR_1 |-> 23, STR_2 |-> 16,
     STI_0 |-> 11, STI_1 |-> 29, STI_2 |-> 31, STI_3 |-> 23, STI_4 |-> 16,
     JSR_0 |-> 4, JSR_1 |-> 20, JSR_2 |-> 21, JMP_0 |-> 12,
     BR_0 |-> 0, BR_1 |-> 22, TRAP_0 |-> 15, TRAP_1 |-> 28, TRAP_2 |-> 30]

NoNumber == -1                                      \* null

\* Mutant of StateNumber: the keys of JSR_1 and JSR_2 are not the texts that
\* fsm_state_to_string returns for them ("JSR, IR11=0", "JSR, IR[11]=1")
StateNumber_OtherKeys(state) ==
    IF state \in DOMAIN STATE_NUM \ {"JSR_1", "JSR_2"} THEN STATE_NUM[state] ELSE NoNumber

\* STATE_NUM[name] ?? null
StateNumber(state) ==
    IF state \in DOMAIN STATE_NUM THEN STATE_NUM[state] ELSE NoNumber

\* family(name, desc)
Phase(state) ==
    CASE state \in {"FETCH_0", "FETCH_1", "FETCH_2"} -> "fetch"
      [] state = "DECODE"        -> "decode"
      [] state \in StopStates    -> "halt"
      [] state \in AccessTexts   -> "mem"
      [] OTHER                   -> "exec"

When(element, condition) == IF condition THEN {element} ELSE {}

\* Mutant of Lit: MDR is lit where the text says "MDR <-", as PC is
Lit_WrittenMDR(state) ==
    UNION {When("PC",  "pc" \in Described(state)),
           When("MAR", "MAR" \in Described(state) \/ state \in AccessTexts),
           When("MDR", "MDR" \in Described(state)),
           When("IR",  state = "FETCH_2"),
           When("MEM", state \in AccessTexts),
           When("ALU", state \in {"ADD_0", "AND_0", "NOT_0"})}

\* lit in drawDatapath: "PC <-", "MAR" and "MDR" anywhere in the text
Lit(state) ==
    UNION {When("PC",  "pc" \in Described(state)),
           When("MAR", "MAR" \in Described(state) \/ state \in AccessTexts),
           When("MDR", "MDR" \in Described(state) \/ state \in FromMDRTexts),
           When("IR",  state = "FETCH_2"),
           When("MEM", state \in AccessTexts),
           When("ALU", state \in {"ADD_0", "AND_0", "NOT_0"})}

-----------------------------------------------------------------------------
\* The lit elements tell what the step of the core does
LitTells ==
    LET lit == Lit(current_state)
    IN  /\ pc' # pc => "PC" \in lit
        /\ IR' # IR => "IR" \in lit
        /\ MAR' # MAR => "MAR" \in lit
        /\ MDR' # MDR => "MDR" \in lit
        /\ memory' # memory => {"MAR", "MDR", "MEM"} \subseteq lit
        /\ "MEM" \in lit => {"MAR", "MDR"} \subseteq lit /\ MDR' = ReadMem(memory', MAR)
        /\ "MEM" \in lit <=> Phase(current_state) = "mem" \/ current_state = "FETCH_1"

(* README.md:51: the elements of the datapath "light up to show which      *)
(* datapath element is active in the current state", and README.md:50: the *)
(* trace is "color-coded by phase".  What a cycle changes of PC, IR, MAR,  *)
(* MDR and memory is lit for that cycle, a cycle that lights the memory    *)
(* leaves the word at MAR in MDR, and outside of the fetch the accesses to *)
(* memory are what is coloured "mem".                                      *)
LitShowsChanges == [][step => LitTells]_vars

\* The transitions between numbered states in Appendix C of Patt and Patel
Controller ==
    {<<18, 33>>, <<33, 35>>, <<35, 32>>, <<0, 18>>, <<0, 22>>, <<22, 18>>,
     <<24, 26>>, <<26, 25>>, <<25, 27>>, <<27, 18>>, <<29, 31>>, <<31, 23>>,
     <<23, 16>>, <<16, 18>>, <<4, 20>>, <<4, 21>>, <<20, 18>>, <<21, 18>>,
     <<2, 25>>, <<6, 25>>, <<10, 24>>, <<11, 29>>, <<3, 23>>, <<7, 23>>,
     <<1, 18>>, <<5, 18>>, <<9, 18>>, <<14, 18>>, <<12, 18>>,
     <<15, 28>>, <<28, 30>>, <<30, 18>>}
        \cup ({32} \X ((0 .. 15) \ {8, 13}))

(* README.md:91: "State numbers in the trace match the canonical           *)
(* microcontroller in Appendix C of that text": the numbers of successive  *)
(* cycles are a path of that state diagram, though the C++ code has more   *)
(* states than the diagram and gives no numbers.                           *)
NumbersFollowController ==
    [][(step /\ current_state' \notin StopStates)
          => <<StateNumber(current_state), StateNumber(current_state')>> \in Controller]_vars

=============================================================================
