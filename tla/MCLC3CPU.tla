------------------------------ MODULE MCLC3CPU ------------------------------
(***************************************************************************)
(* LC3CPU under a host that calls the public mutators of cpu.h at any      *)
(* moment: between two cycles of an instruction, after a stop, with the PC *)
(* at the last location of memory.                                         *)
(***************************************************************************)
EXTENDS LC3StateTable

\* One image per opcode (and per variant of JSR, BR and TRAP), at x3000
Instructions ==
    {\h1FC1,    \* ADD R7, R7, R1
     \h5FE1,    \* AND R7, R7, #1
     \h9FFF,    \* NOT R7, R7
     \hEFFE,    \* LEA R7, #-2
     \h2FFF,    \* LD  R7, #-1
     \h6FC0,    \* LDR R7, R7, #0
     \hAFFF,    \* LDI R7, #-1
     \h3E00,    \* ST  R7, #0
     \h7FC1,    \* STR R7, R7, #1
     \hBFFF,    \* STI R7, #-1
     \hC1C0,    \* JMP R7
     \h4FFF,    \* JSR #-1
     \h41C0,    \* JSRR R7
     \h0FFF,    \* BRnzp #-1
     \h0401,    \* BRz #1
     \hF025,    \* TRAP x25
     \hF021,    \* TRAP x21
     \h8000,    \* the RTI opcode
     \hD000}    \* the reserved opcode

MCImages    == {[words |-> <<w>>, start |-> \h3000] : w \in Instructions}
MCHostRegs  == {7}
MCHostWords == {\h3000, \hFFFF}
MCHostAddrs == {\h3000}

=============================================================================
