---------------------------- MODULE MCLC3Session ----------------------------
(***************************************************************************)
(* LC3Session on families of small programs.  A program sets R7 and R1 to  *)
(* addresses of its own data and R2 to a value that decides the condition  *)
(* codes, then executes the instruction under test and halts.              *)
(***************************************************************************)
EXTENDS LC3Session

HALT == \hF025

SetZ == \h54A0     \* AND R2, R2, #0
SetP == \h14A1     \* ADD R2, R2, #1
SetN == \h14BF     \* ADD R2, R2, #-1

\* x3006: an address near the end of memory; x3007, x3008: pointers
TestProgram(cc, w) ==
    [words |-> <<\hEE06,        \* x3000  LEA R7, #6      R7 = x3007
                 \h2206,        \* x3001  LD  R1, #6      R1 = M[x3008]
                 cc,            \* x3002
                 w,             \* x3003  the instruction under test
                 HALT, HALT,    \* x3004
                 \hFFFE,        \* x3006
                 \h3006,        \* x3007
                 \h3005>>,      \* x3008
     start |-> \h3000]

\* The low nine bits: offsets 0, 1, 2 (the far pointer), 3 and 4 (the near
\* ones), -1, -2, the largest and the smallest; base R0, R1 and R7;
\* immediates 0, -1 and 5; trap vectors x21 and x25
LowBits == {\h000, \h001, \h002, \h003, \h004, \h021, \h025, \h041, \h07F,
            \h0FF, \h100, \h1C0, \h1C7, \h1E0, \h1FE, \h1FF}

\* Opcodes that write registers or memory, with DR (or SR) R0, R1 or R7.  For
\* JSR these are the long negative offset, and JSRR in both spellings.
OtherWords == {op * 4096 + dr * 512 + low :
                    op \in 1 .. 15, dr \in {0, 1, 7}, low \in LowBits}

\* BR with every mask, forward, backward and far
BranchWords == {mask * 512 + low : mask \in 0 .. 7,
                                   low \in {\h000, \h001, \h1FF, \h0FF, \h100}}

\* The last two locations of memory: the third word of the program is dropped
EdgeProgram(w) == [words |-> <<\h103F, w, HALT>>, start |-> \hFFFE]

EdgeWords == {\h2200, \h3000, \h3001, \hA1FE, \hB1FE, \h61C0, \h71C0,
              \hE000, \h4FFE, \h4800, \h4000, \hC000, \h0FFE, \h0E00,
              \hF025, \hF0FF, \h8000, \hD000}

Empty == [words |-> <<>>, start |-> \h3000]      \* a machine nothing is loaded in

MCImages == {TestProgram(SetN, w) : w \in OtherWords}
              \cup {TestProgram(cc, w) : cc \in {SetN, SetZ, SetP}, w \in BranchWords}
              \cup {EdgeProgram(w) : w \in EdgeWords}
              \cup {Empty}

MCReloads == {Empty}

-----------------------------------------------------------------------------
(* Endless loops around one instruction, for liveness: R7 always holds the *)
(* address of the loop, and no register grows; the cycle counter wraps.    *)
LoopProgram(w) == [words |-> <<\hEFFF,      \* x3000  LEA R7, #-1
                               w,           \* x3001
                               \h0FFD>>,    \* x3002  BRnzp #-3
                   start |-> \h3000]

LoopWords == {\h5001, \h1020, \h903F, \hE000, \h21FF, \h61C2, \hA1FE, \h31FF,
              \h71C1, \hB1FE, \hC1C0, \h4FFE, \h41C0, \h0401, \h0BFE, \hF025,
              \hF021, \h8000, \hD000}

LoopImages == {LoopProgram(w) : w \in LoopWords} \cup {SumLoop}
LoopReloads == {LoopProgram(\h5001)}

-----------------------------------------------------------------------------

SumImages == {SumLoop}
None == {}

=============================================================================
