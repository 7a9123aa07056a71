-------------------------- MODULE LC3Programs_proof --------------------------
(***************************************************************************)
(* What programs compute, from the bytes up: each instruction read as its  *)
(* effect on the state a programmer sees, and on that the loop of test.cpp *)
(* and the presets of the page.                                            *)
(***************************************************************************)
EXTENDS LC3View_proof

-----------------------------------------------------------------------------
(* The effect of the instruction w at the mapped PC                        *)

After == Plus(isaPC, 1)

Second(w) == IF ImmFlag(w) = 1 THEN Offset(w, 5) ELSE reg[SR2(w)]

Branches(w) == \/ Bits(w, 11, 1) = 1 /\ n
               \/ Bits(w, 10, 1) = 1 /\ z
               \/ Bits(w, 9, 1) = 1 /\ p

Flagged(v) == n = Negative(v) /\ z = (v = 0) /\ p = (~Negative(v) /\ v # 0)

Yields(r, v) == /\ reg' = [reg EXCEPT ![r] = v]
                /\ n' = Negative(v) /\ z' = (v = 0) /\ p' = (~Negative(v) /\ v # 0)
                /\ isaPC' = After
                /\ UNCHANGED <<memory, isaStatus>>

Goes(a) == isaPC' = a /\ UNCHANGED <<reg, cond, memory, isaStatus>>

Calls(v) == /\ isaStatus' = IF v = HaltVector THEN "halted" ELSE "running"
            /\ reg' = [reg EXCEPT ![7] = After]
            /\ isaPC' = ReadMem(memory, v)
            /\ UNCHANGED <<cond, memory>>

StoreCodes == {3, 7, 11}

LEMMA Effect ==
    ASSUME ISA!Execute, NEW w, w = ReadMem(memory, isaPC)
    PROVE  /\ isaStatus = "running"
           /\ Opcode(w) = 1 => Yields(DR(w), Plus(reg[SR1(w)], Second(w)))
           /\ Opcode(w) = 5 => Yields(DR(w), BitAnd(reg[SR1(w)], Second(w)))
           /\ Opcode(w) = 9 => Yields(DR(w), BitNot(reg[SR1(w)]))
           /\ Opcode(w) = 0 =>
                Goes(IF Branches(w) THEN Plus(After, Offset(w, 9)) ELSE After)
           /\ Opcode(w) = 15 => Calls(TrapVect(w))
           /\ Opcode(w) \notin StoreCodes => memory' = memory
<1>1. ISA!instr = w /\ ISA!next = After
  BY SameMemory, SameArithmetic DEF ISA!instr, ISA!next, After
<1>2. ISA!Operand = Second(w)
  BY <1>1, SameFields DEF ISA!Operand, Second
<1>3. \A k : ISA!Executing(k) <=> isaStatus = "running" /\ Opcode(w) = k
  BY <1>1, SameFields DEF ISA!Executing
<1>4. \A v : ISA!Result(v) => Yields(DR(w), v)
  BY <1>1, SameFields, SameArithmetic DEF ISA!Result, Yields
<1>5. \A a : ISA!Jump(a) => Goes(a)
  BY DEF ISA!Jump, Goes, ISA!cond, cond
<1>6. CASE ISA!ADD \/ ISA!AND \/ ISA!NOT
  <2>1. CASE ISA!ADD
    BY <1>1, <1>2, <1>3, <1>4, <2>1, SameFields, SameArithmetic DEF ISA!ADD, Yields
  <2>2. CASE ISA!AND
    BY <1>1, <1>2, <1>3, <1>4, <2>2, SameFields, SameArithmetic DEF ISA!AND, Yields
  <2>3. CASE ISA!NOT
    BY <1>1, <1>2, <1>3, <1>4, <2>3, SameFields, SameArithmetic DEF ISA!NOT, Yields
  <2>4. QED
    BY <1>6, <2>1, <2>2, <2>3
<1>7. CASE ISA!LEA \/ ISA!LD \/ ISA!LDR \/ ISA!LDI
  BY <1>3, <1>7 DEF ISA!LEA, ISA!LD, ISA!LDR, ISA!LDI, ISA!Result
<1>8. CASE ISA!ST \/ ISA!STR \/ ISA!STI
  BY <1>3, <1>8 DEF ISA!ST, ISA!STR, ISA!STI, StoreCodes
<1>9. CASE ISA!BR
  <2>1. ISA!Taken <=> Branches(w)
    BY <1>1, SameArithmetic DEF ISA!Taken, Branches
  <2>2. ISA!Relative(9) = Plus(After, Offset(w, 9))
    BY <1>1, SameArithmetic, SameFields DEF ISA!Relative
  <2>3. QED
    BY <1>1, <1>3, <1>5, <1>9, <2>1, <2>2 DEF ISA!BR, Goes
<1>10. CASE ISA!JMP \/ ISA!JSR \/ ISA!Illegal
  BY <1>3, <1>10 DEF ISA!JMP, ISA!Jump, ISA!JSR, ISA!Illegal
<1>11. CASE ISA!TRAP
  <2>1. ISA!TrapVect(ISA!instr) = TrapVect(w) /\ ISA!HaltVector = HaltVector
    BY <1>1, SameFields, SameArithmetic
  <2>2. Calls(TrapVect(w))
    BY <1>1, <1>11, <2>1, SameMemory DEF ISA!TRAP, ISA!Link, ISA!cond, cond, Calls
  <2>3. QED
    BY <1>3, <1>11, <2>2 DEF ISA!TRAP, Calls
<1>12. QED
  BY <1>6, <1>7, <1>8, <1>9, <1>10, <1>11 DEF ISA!Execute

-----------------------------------------------------------------------------
(* The loop of test_sum_loop (test.cpp:12-54)                              *)

LEMMA SumLoopWords ==
    /\ DOMAIN SumLoop.words = 1 .. 8
    /\ SumLoop.words[1] = 20512 /\ SumLoop.words[2] = 21088
    /\ SumLoop.words[3] = 4709 /\ SumLoop.words[4] = 1027
    /\ SumLoop.words[5] = 4097 /\ SumLoop.words[6] = 4735
    /\ SumLoop.words[7] = 4092 /\ SumLoop.words[8] = 61477
    /\ SumLoop.start = 12288
  BY DEF SumLoop, Origin

LEMMA SumLoopCode ==
    ASSUME InSumLoop
    PROVE  /\ ReadMem(memory, 12288) = 20512 /\ ReadMem(memory, 12289) = 21088
           /\ ReadMem(memory, 12290) = 4709 /\ ReadMem(memory, 12291) = 1027
           /\ ReadMem(memory, 12292) = 4097 /\ ReadMem(memory, 12293) = 4735
           /\ ReadMem(memory, 12294) = 4092 /\ ReadMem(memory, 12295) = 61477
<1>1. \A i \in 1 .. 8 : ReadMem(memory, 12288 + i - 1) = SumLoop.words[i]
  BY SumLoopWords DEF InSumLoop, Origin
<1>2. /\ 12288 + 1 - 1 = 12288 /\ 12288 + 2 - 1 = 12289 /\ 12288 + 3 - 1 = 12290
      /\ 12288 + 4 - 1 = 12291 /\ 12288 + 5 - 1 = 12292 /\ 12288 + 6 - 1 = 12293
      /\ 12288 + 7 - 1 = 12294 /\ 12288 + 8 - 1 = 12295
  OBVIOUS
<1>3. QED
  BY <1>1, <1>2, SumLoopWords

\* The words of the loop, as the handlers read them
LEMMA SumLoopFields ==
    /\ Opcode(20512) = 5 /\ DR(20512) = 0 /\ ImmFlag(20512) = 1 /\ Offset(20512, 5) = 0
    /\ Opcode(21088) = 5 /\ DR(21088) = 1 /\ ImmFlag(21088) = 1 /\ Offset(21088, 5) = 0
    /\ Opcode(4709) = 1 /\ DR(4709) = 1 /\ SR1(4709) = 1
    /\ ImmFlag(4709) = 1 /\ Offset(4709, 5) = 5
    /\ Opcode(1027) = 0 /\ Bits(1027, 11, 1) = 0 /\ Bits(1027, 10, 1) = 1
    /\ Bits(1027, 9, 1) = 0 /\ Offset(1027, 9) = 3
    /\ Opcode(4097) = 1 /\ DR(4097) = 0 /\ SR1(4097) = 0
    /\ ImmFlag(4097) = 0 /\ SR2(4097) = 1
    /\ Opcode(4735) = 1 /\ DR(4735) = 1 /\ SR1(4735) = 1
    /\ ImmFlag(4735) = 1 /\ Offset(4735, 5) = 65535
    /\ Opcode(4092) = 0 /\ Bits(4092, 11, 1) = 1 /\ Bits(4092, 10, 1) = 1
    /\ Bits(4092, 9, 1) = 1 /\ Offset(4092, 9) = 65532
    /\ Opcode(61477) = 15 /\ TrapVect(61477) = HaltVector
<1>1. /\ Opcode(20512) = 5 /\ DR(20512) = 0 /\ ImmFlag(20512) = 1 /\ Offset(20512, 5) = 0
      /\ Opcode(21088) = 5 /\ DR(21088) = 1 /\ ImmFlag(21088) = 1 /\ Offset(21088, 5) = 0
  BY DEF Opcode, DR, ImmFlag, Offset, sign_extend, Bits, WordSize
<1>2. /\ Opcode(4709) = 1 /\ DR(4709) = 1 /\ SR1(4709) = 1
      /\ ImmFlag(4709) = 1 /\ Offset(4709, 5) = 5
  BY DEF Opcode, DR, SR1, ImmFlag, Offset, sign_extend, Bits, WordSize
<1>3. /\ Opcode(1027) = 0 /\ Bits(1027, 11, 1) = 0 /\ Bits(1027, 10, 1) = 1
      /\ Bits(1027, 9, 1) = 0 /\ Offset(1027, 9) = 3
  BY DEF Opcode, Offset, sign_extend, Bits, WordSize
<1>4. /\ Opcode(4097) = 1 /\ DR(4097) = 0 /\ SR1(4097) = 0
      /\ ImmFlag(4097) = 0 /\ SR2(4097) = 1
  BY DEF Opcode, DR, SR1, SR2, ImmFlag, Bits
<1>5. /\ Opcode(4735) = 1 /\ DR(4735) = 1 /\ SR1(4735) = 1
      /\ ImmFlag(4735) = 1 /\ Offset(4735, 5) = 65535
  BY DEF Opcode, DR, SR1, ImmFlag, Offset, sign_extend, Bits, WordSize
<1>6. /\ Opcode(4092) = 0 /\ Bits(4092, 11, 1) = 1 /\ Bits(4092, 10, 1) = 1
      /\ Bits(4092, 9, 1) = 1 /\ Offset(4092, 9) = 65532
  BY DEF Opcode, Offset, sign_extend, Bits, WordSize
<1>7. Opcode(61477) = 15 /\ TrapVect(61477) = HaltVector
  BY DEF Opcode, TrapVect, Bits, HaltVector
<1>8. QED
  BY <1>1, <1>2, <1>3, <1>4, <1>5, <1>6, <1>7

LEMMA AndZero == ASSUME NEW a PROVE BitAnd(a, 0) = 0
  BY DEF BitAnd, FourBits, BothBits, Bits

LEMMA YieldsIs == ASSUME reg \in [RegNum -> Word], NEW r \in RegNum, NEW v, Yields(r, v)
                  PROVE  /\ reg'[r] = v /\ \A other \in RegNum \ {r} : reg'[other] = reg[other]
                         /\ n' = Negative(v) /\ z' = (v = 0) /\ p' = (~Negative(v) /\ v # 0)
                         /\ isaPC' = After /\ isaStatus' = isaStatus /\ memory' = memory
  BY DEF Yields

LEMMA LowRegisters == 0 \in RegNum /\ 1 \in RegNum /\ 2 \in RegNum
  BY DEF RegNum

LEMMA WordIs == \A a \in Int : a \in Word <=> 0 <= a /\ a < 65536
  BY DEF Word, WordSize

LEMMA WordRange == \A a \in Word : a \in Nat /\ a < 65536
  BY DEF Word, WordSize

(* What a machine reads right after a load: the words that were given, and *)
(* zeros around them.                                                      *)
LEMMA LoadedWords ==
    ASSUME NEW words \in Seq(Word), NEW start \in Word, start + Len(words) <= 65536,
           NEW m, m = Contents([words |-> words, start |-> start])
    PROVE  /\ \A i \in DOMAIN words : ReadMem(m, start + i - 1) = words[i]
           /\ \A a : (\A i \in DOMAIN words : a # start + i - 1) => ReadMem(m, a) = 0
<1> DEFINE last == start + Len(words) - 1
<1>1. /\ start \in Nat /\ Len(words) \in Nat /\ DOMAIN words = 1 .. Len(words)
      /\ last = start + Len(words) - 1 /\ last \in Int /\ last < 65536
  BY LenProperties, WordRange
<1> HIDE DEF last
<1>2. Covered(words, start) = start .. last
  <2>1. Covered(words, start) = (start .. last) \cap Word
    BY <1>1 DEF Covered
  <2>2. \A a \in start .. last : a \in Word
    BY <1>1, WordIs
  <2>3. QED
    BY <2>1, <2>2
<1>3. DOMAIN m = start .. last /\ \A a \in DOMAIN m : m[a] = words[(a - start) + 1]
  <2>1. DOMAIN ClearMemory = {}
    BY DEF ClearMemory
  <2>2. m = LoadMem(ClearMemory, words, start)
    BY DEF Contents
  <2>3. /\ DOMAIN m = Covered(words, start)
        /\ \A a \in Covered(words, start) : m[a] = words[(a - start) + 1]
    BY <2>1, <2>2 DEF LoadMem
  <2>4. DOMAIN m = start .. last
    BY <1>2, <2>3
  <2>5. ASSUME NEW a \in DOMAIN m PROVE m[a] = words[(a - start) + 1]
    BY <2>3, <2>5
  <2>6. QED
    BY <2>4, <2>5
<1>4. ASSUME NEW i \in DOMAIN words PROVE ReadMem(m, start + i - 1) = words[i]
  <2>1. i \in Nat /\ 1 <= i /\ i <= Len(words)
    BY <1>1
  <2> DEFINE at == start + i - 1
  <2>2. at \in start .. last /\ (at - start) + 1 = i
    BY <1>1, <2>1
  <2> HIDE DEF at
  <2>3. at \in DOMAIN m /\ m[at] = words[(at - start) + 1]
    BY <1>1, <1>3, <2>2
  <2>4. ReadMem(m, at) = words[i]
    BY <2>2, <2>3 DEF ReadMem
  <2>5. QED
    BY <2>4 DEF at
<1>5. ASSUME NEW a, \A i \in DOMAIN words : a # start + i - 1 PROVE ReadMem(m, a) = 0
  <2>1. ASSUME a \in start .. last PROVE FALSE
    <3>1. (a - start) + 1 \in DOMAIN words /\ a = start + ((a - start) + 1) - 1
      BY <1>1, <2>1
    <3>2. QED
      BY <1>5, <3>1
  <2>2. QED
    BY <1>3, <2>1 DEF ReadMem
<1>6. QED
  BY <1>4, <1>5

LEMMA SmallPlus == ASSUME NEW a \in Word, NEW b \in Word
                   PROVE  Plus(a, b) = IF a + b < 65536 THEN a + b ELSE a + b - 65536
<1>1. /\ a \in Nat /\ a < 65536 /\ b \in Nat /\ b < 65536
      /\ WordSize = 65536
  BY DEF Word, WordSize
<1>2. (a + b) % 65536 = IF a + b < 65536 THEN a + b ELSE a + b - 65536
  BY <1>1
<1>3. QED
  BY <1>1, <1>2 DEF Plus

\* 65535 is -1
LEMMA SmallMinus == ASSUME NEW a \in Nat, 0 < a, a < 65536 PROVE Plus(a, 65535) = a - 1
<1>1. WordSize = 65536
  BY DEF WordSize
<1>2. (a + 65535) % 65536 = a - 1
  OBVIOUS
<1>3. QED
  BY <1>1, <1>2 DEF Plus

LEMMA SmallNegative == ASSUME NEW a \in Int, a < 32768 PROVE ~Negative(a)
<1>1. 2^15 = 32768
  OBVIOUS
<1>2. QED
  BY <1>1 DEF Negative

(* Line k of the loop, and what R0 and R1 hold there: with k still to be   *)
(* added, R0 is 5 + ... + (k + 1).                                         *)
Line(k) == isaPC = 12288 + k

Added(sum, k) == 2 * sum + k * (k + 1) = 30

SumLines ==
    \/ Line(0)
    \/ Line(1) /\ reg[0] = 0
    \/ Line(2) /\ reg[0] = 0 /\ reg[1] = 0
    \/ Line(3) /\ reg[1] \in 0 .. 5 /\ Added(reg[0], reg[1]) /\ Flagged(reg[1])
    \/ Line(4) /\ reg[1] \in 1 .. 5 /\ Added(reg[0], reg[1])
    \/ Line(5) /\ reg[1] \in 1 .. 5 /\ Added(reg[0], reg[1] - 1)
    \/ Line(6) /\ reg[1] \in 0 .. 4 /\ Added(reg[0], reg[1]) /\ Flagged(reg[1])
    \/ Line(7) /\ reg[1] = 0 /\ reg[0] = 15 /\ Flagged(0)

SumDone == reg[1] = 0 /\ reg[0] = 15 /\ Flagged(0)

SumState == \/ isaStatus = "running" /\ SumLines
            \/ isaStatus = "halted" /\ SumDone

(* The cycle in which the instruction at each line begins, and the cycles  *)
(* that an instruction of the loop takes, TRAP excepted.                   *)
Begun == CASE Line(0) -> 0
           [] Line(1) -> 5
           [] Line(2) -> 10
           [] Line(3) -> 120 - 21 * reg[1]
           [] Line(4) -> 125 - 21 * reg[1]
           [] Line(5) -> 130 - 21 * reg[1]
           [] Line(6) -> 114 - 21 * reg[1]
           [] OTHER   -> 126

Takes(w) == IF Opcode(w) = 0 /\ Branches(w) THEN 6 ELSE 5

LEMMA BegunIs ==
    /\ /\ isaPC = 12288 => Begun = 0
       /\ isaPC = 12289 => Begun = 5
       /\ isaPC = 12290 => Begun = 10
       /\ isaPC = 12291 => Begun = 120 - 21 * reg[1]
       /\ isaPC = 12292 => Begun = 125 - 21 * reg[1]
       /\ isaPC = 12293 => Begun = 130 - 21 * reg[1]
       /\ isaPC = 12294 => Begun = 114 - 21 * reg[1]
       /\ isaPC = 12295 => Begun = 126
    /\ /\ isaPC' = 12288 => Begun' = 0
       /\ isaPC' = 12289 => Begun' = 5
       /\ isaPC' = 12290 => Begun' = 10
       /\ isaPC' = 12291 => Begun' = 120 - 21 * reg'[1]
       /\ isaPC' = 12292 => Begun' = 125 - 21 * reg'[1]
       /\ isaPC' = 12293 => Begun' = 130 - 21 * reg'[1]
       /\ isaPC' = 12294 => Begun' = 114 - 21 * reg'[1]
       /\ isaPC' = 12295 => Begun' = 126
  BY DEF Begun, Line

LEMMA TakesIs == /\ Takes(20512) = 5 /\ Takes(21088) = 5 /\ Takes(4709) = 5
                 /\ Takes(1027) = IF z THEN 6 ELSE 5
                 /\ Takes(4097) = 5 /\ Takes(4735) = 5
                 /\ n \/ z \/ p => Takes(4092) = 6
  BY SumLoopFields DEF Takes, Branches

LEMMA SumLineStep == ASSUME reg \in [RegNum -> Word], InSumLoop, SumLines, ISA!Execute
                     PROVE  /\ SumState'
                            /\ isaStatus' = "running" =>
                                  Begun' = Begun + Takes(ReadMem(memory, isaPC))
<1> DEFINE w == ReadMem(memory, isaPC)
<1>1. isaStatus = "running"
  BY Effect
<1>2. reg[0] \in Word /\ reg[1] \in Word /\ reg[0] \in Nat /\ reg[1] \in Nat
  <2>1. reg[0] \in Word /\ reg[1] \in Word
    BY LowRegisters
  <2>2. QED
    BY <2>1, WordRange
<1>3. \A k \in 0 .. 7 : Line(k) => After = 12288 + k + 1
  BY DEF Line, After, Plus, WordSize
<1>4. CASE Line(0)
  <2>1. w = 20512 /\ After = 12289
    BY <1>3, <1>4, SumLoopCode DEF Line
  <2>2. Yields(0, 0)
    BY <2>1, Effect, SumLoopFields, AndZero DEF Second
  <2>3. isaPC' = 12289 /\ isaStatus' = "running" /\ reg'[0] = 0
    BY <1>1, <2>1, <2>2, YieldsIs, LowRegisters
  <2>4. Begun' = Begun + Takes(w)
    BY <1>4, <2>1, <2>3, BegunIs, TakesIs DEF Line
  <2>5. QED
    BY <2>3, <2>4 DEF SumState, SumLines, Line
<1>5. CASE Line(1) /\ reg[0] = 0
  <2>1. w = 21088 /\ After = 12290
    BY <1>3, <1>5, SumLoopCode DEF Line
  <2>2. Yields(1, 0)
    BY <2>1, Effect, SumLoopFields, AndZero DEF Second
  <2>3. isaPC' = 12290 /\ isaStatus' = "running" /\ reg'[0] = 0 /\ reg'[1] = 0
    BY <1>1, <1>5, <2>1, <2>2, YieldsIs, LowRegisters
  <2>4. Begun' = Begun + Takes(w)
    BY <1>5, <2>1, <2>3, BegunIs, TakesIs DEF Line
  <2>5. QED
    BY <2>3, <2>4 DEF SumState, SumLines, Line
<1>6. CASE Line(2) /\ reg[0] = 0 /\ reg[1] = 0
  <2>1. w = 4709 /\ After = 12291
    BY <1>3, <1>6, SumLoopCode DEF Line
  <2>2. Yields(1, 5)
    BY <1>6, <2>1, Effect, SumLoopFields DEF Second, Plus, WordSize
  <2>3. isaPC' = 12291 /\ isaStatus' = "running" /\ reg'[0] = 0 /\ reg'[1] = 5
    BY <1>1, <1>6, <2>1, <2>2, YieldsIs, LowRegisters
  <2>4. n' = Negative(5) /\ z' = (5 = 0) /\ p' = (~Negative(5) /\ 5 # 0)
    BY <2>2 DEF Yields
  <2>5. Added(0, 5)
    BY DEF Added
  <2>6. Begun' = Begun + Takes(w)
    BY <1>6, <2>1, <2>3, BegunIs, TakesIs DEF Line
  <2>7. QED
    BY <2>3, <2>4, <2>5, <2>6 DEF SumState, SumLines, Line, Flagged, Added
<1>7. CASE Line(3) /\ reg[1] \in 0 .. 5 /\ Added(reg[0], reg[1]) /\ Flagged(reg[1])
  <2>1. w = 1027 /\ After = 12292
    BY <1>3, <1>7, SumLoopCode DEF Line
  <2>2. Goes(IF z THEN Plus(After, 3) ELSE After)
    BY <2>1, Effect, SumLoopFields DEF Branches
  <2>3. CASE z
    <3>1. reg[1] = 0
      BY <1>7, <2>3 DEF Flagged
    <3>2. reg[0] = 15
      BY <1>2, <1>7, <3>1 DEF Added
    <3>3. isaPC' = 12295 /\ isaStatus' = "running" /\ UNCHANGED <<reg, n, z, p>>
      BY <1>1, <2>1, <2>2, <2>3 DEF Goes, Plus, WordSize, cond
    <3>4. Begun' = Begun + Takes(w)
      BY <1>7, <2>1, <2>3, <3>1, <3>3, BegunIs, TakesIs DEF Line
    <3>5. QED
      BY <1>7, <3>1, <3>2, <3>3, <3>4 DEF SumState, SumLines, Line, Flagged
  <2>4. CASE ~z
    <3>1. reg[1] # 0
      BY <1>7, <2>4 DEF Flagged
    <3>2. reg[1] \in 1 .. 5
      BY <1>7, <3>1
    <3>3. isaPC' = 12292 /\ isaStatus' = "running" /\ UNCHANGED reg
      BY <1>1, <2>1, <2>2, <2>4 DEF Goes
    <3>4. Begun' = Begun + Takes(w)
      <4>1. Takes(w) = 5
        BY <2>1, <2>4, TakesIs
      <4>2. reg'[1] = reg[1] /\ reg[1] \in Int
        BY <3>2, <3>3
      <4>3. QED
        BY <1>7, <3>3, <4>1, <4>2, BegunIs DEF Line
    <3>5. QED
      BY <1>7, <3>2, <3>3, <3>4 DEF SumState, SumLines, Line, Added
  <2>5. QED
    BY <2>3, <2>4
<1>8. CASE Line(4) /\ reg[1] \in 1 .. 5 /\ Added(reg[0], reg[1])
  <2>1. w = 4097 /\ After = 12293
    BY <1>3, <1>8, SumLoopCode DEF Line
  <2>2. Yields(0, Plus(reg[0], reg[1]))
    BY <2>1, Effect, SumLoopFields DEF Second
  <2>3. Plus(reg[0], reg[1]) = reg[0] + reg[1] /\ Added(reg[0] + reg[1], reg[1] - 1)
    BY <1>2, <1>8, SmallPlus DEF Added
  <2>4. isaPC' = 12293 /\ isaStatus' = "running" /\ reg'[1] = reg[1] /\ reg'[0] = reg[0] + reg[1]
    BY <1>1, <2>1, <2>2, <2>3, YieldsIs, LowRegisters
  <2>5. Begun' = Begun + Takes(w)
    BY <1>2, <1>8, <2>1, <2>4, BegunIs, TakesIs DEF Line
  <2>6. QED
    BY <1>8, <2>3, <2>4, <2>5 DEF SumState, SumLines, Line, Added
<1>9. CASE Line(5) /\ reg[1] \in 1 .. 5 /\ Added(reg[0], reg[1] - 1)
  <2>1. w = 4735 /\ After = 12294
    BY <1>3, <1>9, SumLoopCode DEF Line
  <2>2. Plus(reg[1], 65535) = reg[1] - 1
    <3>1. reg[1] \in Nat /\ 0 < reg[1] /\ reg[1] < 65536
      BY <1>9
    <3>2. QED
      BY <3>1, SmallMinus
  <2>3. Yields(1, reg[1] - 1)
    BY <2>1, <2>2, Effect, SumLoopFields DEF Second
  <2>4. isaPC' = 12294 /\ isaStatus' = "running" /\ reg'[1] = reg[1] - 1 /\ reg'[0] = reg[0]
    BY <1>1, <2>1, <2>3, YieldsIs, LowRegisters
  <2>5. Flagged(reg[1])'
    BY <2>3, <2>4 DEF Yields, Flagged
  <2>6. reg'[1] \in 0 .. 4 /\ Added(reg'[0], reg'[1])
    BY <1>9, <2>4
  <2>7. Begun' = Begun + Takes(w)
    BY <1>2, <1>9, <2>1, <2>4, BegunIs, TakesIs DEF Line
  <2>8. QED
    BY <2>4, <2>5, <2>6, <2>7 DEF SumState, SumLines, Line, Added
<1>10. CASE Line(6) /\ reg[1] \in 0 .. 4 /\ Added(reg[0], reg[1]) /\ Flagged(reg[1])
  <2>1. w = 4092 /\ After = 12295
    BY <1>3, <1>10, SumLoopCode DEF Line
  <2>2. n \/ z \/ p
    BY <1>10 DEF Flagged
  <2>3. Goes(Plus(After, 65532))
    BY <2>1, <2>2, Effect, SumLoopFields DEF Branches
  <2>4. isaPC' = 12291 /\ isaStatus' = "running" /\ UNCHANGED <<reg, n, z, p>>
    BY <1>1, <2>1, <2>3 DEF Goes, Plus, WordSize, cond
  <2>5. reg[1] \in 0 .. 5
    BY <1>10
  <2>6. Begun' = Begun + Takes(w)
    <3>1. Takes(w) = 6
      BY <2>1, <2>2, TakesIs
    <3>2. reg'[1] = reg[1]
      BY <2>4
    <3>3. QED
      BY <1>2, <1>10, <2>4, <3>1, <3>2, BegunIs DEF Line
  <2>7. QED
    BY <1>10, <2>4, <2>5, <2>6 DEF SumState, SumLines, Line, Flagged, Added
<1>11. CASE Line(7) /\ reg[1] = 0 /\ reg[0] = 15 /\ Flagged(0)
  <2>1. w = 61477
    BY <1>11, SumLoopCode DEF Line
  <2>2. Calls(HaltVector)
    BY <2>1, Effect, SumLoopFields
  <2>3. isaStatus' = "halted" /\ reg' = [reg EXCEPT ![7] = After] /\ UNCHANGED <<n, z, p>>
    BY <2>2 DEF Calls, cond
  <2>4. reg'[0] = reg[0] /\ reg'[1] = reg[1]
    BY <2>3, LowRegisters
  <2>5. QED
    BY <1>11, <2>3, <2>4 DEF SumState, SumDone, Flagged
<1>12. QED
  BY <1>4, <1>5, <1>6, <1>7, <1>8, <1>9, <1>10, <1>11 DEF SumLines

\* A program without a store leaves the memory as it was loaded
NoStores(m) == \A a : Opcode(ReadMem(m, a)) \notin StoreCodes

LEMMA CodeStays == ASSUME NoStores(memory), ISA!Execute PROVE memory' = memory
<1>1. Opcode(ReadMem(memory, isaPC)) \notin StoreCodes
  BY DEF NoStores
<1>2. QED
  BY <1>1, Effect

LEMMA SumStep == ASSUME Inv, InSumLoop, SumState, ISA!Execute
                 PROVE  InSumLoop' /\ SumState'
<1>1. isaStatus = "running"
  BY Effect
<1>2. SumLines /\ reg \in [RegNum -> Word]
  BY <1>1 DEF SumState, Inv, TypeOK
<1>3. memory' = memory
  <2>1. isaPC \in {12288, 12289, 12290, 12291, 12292, 12293, 12294, 12295}
    BY <1>2 DEF SumLines, Line
  <2>2. Opcode(ReadMem(memory, isaPC)) \in {0, 1, 5, 15}
    BY <2>1, SumLoopCode, SumLoopFields
  <2>3. QED
    BY <2>2, Effect DEF StoreCodes
<1>4. QED
  BY <1>2, <1>3, SumLineStep DEF InSumLoop

Begins(image)   == image.start = Origin
                     /\ \A i \in DOMAIN SumLoop.words :
                           ReadMem(Contents(image), Origin + i - 1) = SumLoop.words[i]
Harmless(image) == /\ NoStores(Contents(image))
                   /\ \E i \in DOMAIN SumLoop.words :
                         ReadMem(Contents(image), Origin + i - 1) # SumLoop.words[i]

(* The sessions of test.cpp: the loop is loaded, perhaps with more words   *)
(* behind it; or another program is, that cannot write the loop's words.   *)
SumSessions == \A image \in Images : Begins(image) \/ Harmless(image)

LEMMA SumLoopBegins == Begins(SumLoop)
<1>1. SumLoop.words \in Seq(Word) /\ Len(SumLoop.words) = 8
  <2> DEFINE w == SumLoop.words
  <2>1. w = <<20512, 21088, 4709, 1027, 4097, 4735, 4092, 61477>>
    BY DEF SumLoop
  <2>2. \A v \in {20512, 21088, 4709, 1027, 4097, 4735, 4092, 61477} : v \in Word
    BY DEF Word, WordSize
  <2>3. QED
    BY <2>1, <2>2
<1>2. Origin \in Word /\ Origin + 8 <= 65536
  BY DEF Origin, Word, WordSize
<1>3. SumLoop = [words |-> SumLoop.words, start |-> Origin] /\ SumLoop.start = Origin
  BY DEF SumLoop
<1>4. \A i \in DOMAIN SumLoop.words :
         ReadMem(Contents(SumLoop), Origin + i - 1) = SumLoop.words[i]
  <2> DEFINE w == SumLoop.words
  <2>1. Contents(SumLoop) = Contents([words |-> w, start |-> Origin])
    BY <1>3
  <2> HIDE DEF w
  <2>2. w \in Seq(Word) /\ Origin + Len(w) <= 65536
    BY <1>1, <1>2 DEF w
  <2>3. \A i \in DOMAIN w : ReadMem(Contents(SumLoop), Origin + i - 1) = w[i]
    BY <1>2, <2>1, <2>2, LoadedWords
  <2>4. QED
    BY <2>3 DEF w
<1>5. QED
  BY <1>3, <1>4 DEF Begins

SumInv == (InSumLoop /\ SumState) \/ (~InSumLoop /\ NoStores(memory))

LEMMA SumStarts == ASSUME NEW image, Begins(image) \/ Harmless(image)
                   PROVE  /\ /\ memory = Contents(image) /\ isaPC = image.start
                             /\ isaStatus = "running"
                             => SumInv
                          /\ /\ memory' = Contents(image) /\ isaPC' = image.start
                             /\ isaStatus' = "running"
                             => SumInv'
<1> USE DEF SumInv, InSumLoop, SumState, SumLines, Line
<1>1. CASE Begins(image)
  BY <1>1, SumLoopWords DEF Begins, Origin
<1>2. CASE Harmless(image)
  BY <1>2 DEF Harmless
<1>3. QED
  BY <1>1, <1>2

LEMMA SumInvNext == ASSUME SumSessions
                    PROVE  SessionInv /\ SumInv /\ [SessionNext]_vars => SumInv'
<1> SUFFICES ASSUME SessionInv, SumInv, [SessionNext]_vars PROVE SumInv'
  OBVIOUS
<1>1. CASE Invisible
  BY <1>1 DEF Invisible, ISA!isaVars, ISA!cond, SumInv, InSumLoop, SumState, SumLines, Line,
     SumDone, Flagged
<1>2. CASE ISA!Execute
  BY <1>2, SumStep, CodeStays DEF SumInv, SessionInv, InSumLoop
<1>3. ASSUME NEW image \in Reloads, Reload(image) PROVE SumInv'
  <2>1. memory' = Contents(image) /\ isaPC' = image.start /\ isaStatus' = "running"
    BY <1>3, Ended DEF Reload, Restart
  <2>2. QED
    BY <2>1, SumStarts, SessionAssumption DEF SumSessions
<1>4. CASE UNCHANGED vars
  BY <1>1, <1>4 DEF vars, cond, Invisible, ISA!isaVars, ISA!cond, isaPC, isaStatus, Before,
     PCRelative
<1>5. QED
  BY <1>1, <1>2, <1>3, <1>4, StepRefines DEF SessionNext, BoundedStep

LEMMA SumInvResult == SessionInv /\ SumInv => SumLoopResult
<1> SUFFICES ASSUME SessionInv, SumInv, InSumLoop, ~running
             PROVE  reg[0] = 15 /\ reg[1] = 0 /\ halted /\ z /\ ~n /\ ~p
  BY DEF SumLoopResult
<1>1. current_state \in StopStates /\ (current_state = "HALT" => halted)
  BY DEF SessionInv, Inv, StopFlags
<1>2. isaStatus \in {"running", "halted"}
  BY DEF SumInv, SumState
<1>3. current_state = "HALT" /\ isaStatus = "halted"
  BY <1>1, <1>2 DEF isaStatus, StopStates
<1>4. SumDone
  BY <1>3 DEF SumInv, SumState
<1>5. ~Negative(0)
  BY SmallNegative
<1>6. QED
  BY <1>1, <1>3, <1>4, <1>5 DEF SumDone, Flagged

(* What test_sum_loop asserts of the registers and flags (test.cpp:46-54)  *)
(* holds whenever the machine has stopped on its program: at any cycle, in *)
(* any session that also loads other programs over it.                     *)
THEOREM SumLoopComputes == ASSUME SumSessions PROVE SessionSpec => []SumLoopResult
<1>1. SessionInit => SumInv
  <2> SUFFICES ASSUME NEW image \in Images, PowerOn(image.start, Contents(image))
               PROVE  SumInv
    BY DEF SessionInit
  <2>1. memory = Contents(image) /\ isaPC = image.start /\ isaStatus = "running"
    BY DEF PowerOn, isaPC, isaStatus, Uncommitted
  <2>2. QED
    BY <2>1, SumStarts DEF SumSessions
<1>2. QED
  BY <1>1, SumInvNext, SumInvResult, SessionInvInit, SessionInvNext, PTL DEF SessionSpec

-----------------------------------------------------------------------------
(* Cycles.  An instruction of the loop passes through these states, and    *)
(* has spent so many cycles when it is in one.                             *)

LoopStates == FetchStates \cup {"ADD_0", "AND_0", "BR_0", "BR_1", "TRAP_0", "TRAP_1"}

Spent(state) ==
    CASE state = "FETCH_0" -> 0
      [] state = "FETCH_1" -> 1
      [] state = "FETCH_2" -> 2
      [] state = "DECODE"  -> 3
      [] state \in {"ADD_0", "AND_0", "BR_0", "TRAP_0"} -> 4
      [] state \in {"BR_1", "TRAP_1"} -> 5
      [] state = "TRAP_2"  -> 6
      [] OTHER             -> 7

\* The handler that a state of the loop runs
LEMMA StepAt ==
    ASSUME step
    PROVE  /\ current_state \in FetchStates => Fetch
           /\ current_state \in {"ADD_0", "AND_0"} => execute_add \/ execute_and
           /\ current_state = "BR_0" => execute_br0
           /\ current_state = "BR_1" => execute_br1
           /\ current_state = "TRAP_0" => execute_trap0
           /\ current_state = "TRAP_1" => execute_trap1
           /\ current_state = "TRAP_2" => execute_trap2
           /\ current_state = "HALT" => stop_halt
<1> USE DEF At, FetchStates
<1>1. CASE Fetch
  BY <1>1 DEF Fetch, execute_fetch0, execute_fetch1, execute_fetch2, execute_decode
<1>2. CASE Operate
  BY <1>2 DEF Operate, execute_add, execute_and, execute_not, execute_lea0
<1>3. CASE Load
  <2>1. current_state \in {"LD_0", "LD_1", "LD_2", "LDR_0", "LDR_1", "LDR_2",
                           "LDI_0", "LDI_1", "LDI_2", "LDI_3", "LDI_4"}
    BY <1>3 DEF Load, execute_ld0, execute_ld1, execute_ld2, execute_ldr0, execute_ldr1,
       execute_ldr2, execute_ldi0, execute_ldi1, execute_ldi2, execute_ldi3, execute_ldi4
  <2>2. QED
    BY <2>1
<1>4. CASE Store
  <2>1. current_state \in {"ST_0", "ST_1", "ST_2", "STR_0", "STR_1", "STR_2",
                           "STI_0", "STI_1", "STI_2", "STI_3", "STI_4"}
    BY <1>4 DEF Store, execute_st0, execute_st1, execute_st2, execute_str0, execute_str1,
       execute_str2, execute_sti0, execute_sti1, execute_sti2, execute_sti3, execute_sti4
  <2>2. QED
    BY <2>1
<1>5. CASE Control
  BY <1>5 DEF Control, execute_jmp0, execute_jsr0, execute_jsr1, execute_jsr2, execute_br0,
     execute_br1, execute_trap0, execute_trap1, execute_trap2
<1>6. CASE Stop
  BY <1>6 DEF Stop, stop_halt, stop_error
<1>7. QED
  BY <1>1, <1>2, <1>3, <1>4, <1>5, <1>6 DEF step

\* An instruction that goes on, and one that ends
GoesOn == /\ Invisible
          /\ current_state' \in LoopStates
          /\ Spent(current_state') = Spent(current_state) + 1

Ends(w) == /\ ISA!Execute
           /\ \/ /\ Opcode(w) # 15 /\ current_state' = "FETCH_0"
                 /\ Spent(current_state) + 1 = Takes(w)
              \/ /\ Opcode(w) = 15 /\ current_state' = "TRAP_2"
                 /\ Spent(current_state) = 5

LEMMA LoopCycle ==
    ASSUME SessionInv, step, current_state \in LoopStates, NEW w, w = ReadMem(memory, isaPC),
           Opcode(w) \in {0, 1, 5, 15}
    PROVE  running' /\ (GoesOn \/ Ends(w))
<1> USE DEF LoopStates
<1>1. current_state \in Uncommitted \ {"FETCH_1", "FETCH_2"} => IR = w
  <2> SUFFICES ASSUME current_state \in Uncommitted \ {"FETCH_1", "FETCH_2"} PROVE IR = w
    OBVIOUS
  <2>1. isaPC = Before(pc)
    BY DEF isaPC, Uncommitted, FetchStates, ExecStates
  <2>2. QED
    BY <2>1 DEF SessionInv, DatapathLatches, fetched
<1>2. running
  BY StepEffect
<1>3. CASE current_state \in FetchStates
  <2>1. Fetch
    BY <1>3, StepAt
  <2>2. CASE execute_decode
    <3>1. IR = w
      BY <1>1, <2>2 DEF execute_decode, At, Uncommitted, FetchStates
    <3>2. current_state = "DECODE" /\ current_state' \in {"BR_0", "ADD_0", "AND_0", "TRAP_0"}
      BY <2>2, <3>1 DEF execute_decode, At, transition_to, Dispatch
    <3>3. running' /\ Invisible
      BY <1>2, <2>1, <2>2, <3>1, QuietFetch DEF execute_decode, transition_to
    <3>4. QED
      BY <3>2, <3>3 DEF GoesOn, Spent
  <2>3. CASE execute_fetch0 \/ execute_fetch1 \/ execute_fetch2
    <3>1. ~execute_decode
      BY <2>3 DEF execute_decode, execute_fetch0, execute_fetch1, execute_fetch2, At
    <3>2. Invisible /\ running'
      BY <1>2, <2>1, <2>3, <3>1, QuietFetch
         DEF execute_fetch0, execute_fetch1, execute_fetch2, transition_to
    <3>3. \/ current_state = "FETCH_0" /\ current_state' = "FETCH_1"
          \/ current_state = "FETCH_1" /\ current_state' = "FETCH_2"
          \/ current_state = "FETCH_2" /\ current_state' = "DECODE"
      BY <2>3 DEF execute_fetch0, execute_fetch1, execute_fetch2, At, transition_to
    <3>4. QED
      BY <3>2, <3>3 DEF GoesOn, Spent, FetchStates
  <2>4. QED
    BY <2>1, <2>2, <2>3 DEF Fetch
<1>4. CASE current_state \notin FetchStates
  <2>1. IR = w /\ current_state \in StatesOf(Opcode(w))
    BY <1>1, <1>4 DEF Uncommitted, ExecStates, SessionInv, Inv, FSMPath
  <2>2. CASE current_state \in {"ADD_0", "AND_0"}
    <3>1. execute_add \/ execute_and
      BY <2>2, StepAt
    <3>2. ISA!Execute /\ running' /\ current_state' = "FETCH_0"
      BY <1>2, <3>1, CommitOperate DEF Operate, execute_add, execute_and, transition_to
    <3>3. Opcode(w) \in {1, 5}
      BY <2>1, <2>2 DEF StatesOf
    <3>4. QED
      BY <2>2, <3>2, <3>3 DEF Ends, Takes, Spent
  <2>3. CASE current_state \in {"BR_0", "BR_1"}
    <3>1. Opcode(w) = 0 /\ (Branches(w) <=> BEN)
      BY <2>1, <2>3 DEF StatesOf, Branches, BEN
    <3>2. CASE current_state = "BR_0" /\ BEN
      <4>1. execute_br0
        BY <3>2, StepAt
      <4>2. Invisible /\ running' /\ current_state' = "BR_1"
        BY <1>2, <3>2, <4>1, QuietLoadStore DEF execute_br0, transition_to
      <4>3. QED
        BY <3>2, <4>2 DEF GoesOn, Spent
    <3>3. CASE current_state = "BR_0" /\ ~BEN
      <4>1. execute_br0
        BY <3>3, StepAt
      <4>2. ISA!Execute /\ running' /\ current_state' = "FETCH_0"
        BY <1>2, <3>3, <4>1, CommitJump DEF execute_br0, transition_to
      <4>3. QED
        BY <3>1, <3>3, <4>2 DEF Ends, Takes, Spent
    <3>4. CASE current_state = "BR_1"
      <4>1. execute_br1 /\ BEN
        BY <3>4, StepAt DEF SessionInv, DatapathLatches
      <4>2. ISA!Execute /\ running' /\ current_state' = "FETCH_0"
        BY <1>2, <4>1, CommitJump DEF execute_br1, transition_to
      <4>3. QED
        BY <3>1, <3>4, <4>1, <4>2 DEF Ends, Takes, Spent
    <3>5. QED
      BY <2>3, <3>2, <3>3, <3>4
  <2>4. CASE current_state = "TRAP_0"
    <3>1. execute_trap0
      BY <2>4, StepAt
    <3>2. Invisible /\ running' /\ current_state' = "TRAP_1"
      BY <1>2, <3>1, QuietLoadStore DEF execute_trap0, transition_to
    <3>3. QED
      BY <2>4, <3>2 DEF GoesOn, Spent
  <2>5. CASE current_state = "TRAP_1"
    <3>1. execute_trap1
      BY <2>5, StepAt
    <3>2. ISA!Execute /\ running' /\ current_state' = "TRAP_2"
      BY <1>2, <3>1, CommitTRAP DEF execute_trap1, transition_to
    <3>3. Opcode(w) = 15
      BY <2>1, <2>5 DEF StatesOf
    <3>4. QED
      BY <2>5, <3>2, <3>3 DEF Ends, Spent
  <2>6. QED
    BY <1>4, <2>2, <2>3, <2>4, <2>5
<1>5. QED
  BY <1>3, <1>4

(* The machine is in the middle of the instruction at its line, so many    *)
(* cycles after the one in which that began; or in the last cycles, which  *)
(* follow the commitment of the TRAP.                                      *)
SumClock ==
    IF running
    THEN \/ /\ isaStatus = "running" /\ current_state \in LoopStates
            /\ cycles = Begun + Spent(current_state)
         \/ /\ isaStatus = "halted" /\ current_state \in {"TRAP_2", "HALT"}
            /\ cycles = 126 + Spent(current_state)
    ELSE cycles = 134

ClockInv == InSumLoop => SumClock

\* The counter does not wrap that early (it has 64 bits)
LongCounter == 134 < CycleSpan

\* The clock of an instruction that begins
LEMMA ClockStarts ==
    /\ /\ isaPC = 12288 /\ cycles = 0 /\ running /\ isaStatus = "running"
       /\ current_state = "FETCH_0"
       => SumClock
    /\ /\ isaPC' = 12288 /\ cycles' = 0 /\ running' /\ isaStatus' = "running"
       /\ current_state' = "FETCH_0"
       => SumClock'
  BY BegunIs DEF SumClock, LoopStates, FetchStates, Spent

\* What a line of the loop says of the time: a range, and the word there
LEMMA LineTimes ==
    ASSUME InSumLoop, SumLines
    PROVE  /\ Begun \in 0 .. 126
           /\ Opcode(ReadMem(memory, isaPC)) \in {0, 1, 5, 15}
           /\ Opcode(ReadMem(memory, isaPC)) = 15 =>
                 Begun = 126 /\ TrapVect(ReadMem(memory, isaPC)) = HaltVector
<1>1. CASE Line(0) \/ Line(1) \/ Line(2)
  BY <1>1, BegunIs, SumLoopCode, SumLoopFields DEF Line
<1>2. CASE Line(3) /\ reg[1] \in 0 .. 5
  BY <1>2, BegunIs, SumLoopCode, SumLoopFields DEF Line
<1>3. CASE Line(4) /\ reg[1] \in 1 .. 5
  BY <1>3, BegunIs, SumLoopCode, SumLoopFields DEF Line
<1>4. CASE Line(5) /\ reg[1] \in 1 .. 5
  BY <1>4, BegunIs, SumLoopCode, SumLoopFields DEF Line
<1>5. CASE Line(6) /\ reg[1] \in 0 .. 4
  BY <1>5, BegunIs, SumLoopCode, SumLoopFields DEF Line
<1>6. CASE Line(7)
  BY <1>6, BegunIs, SumLoopCode, SumLoopFields DEF Line
<1>7. QED
  BY <1>1, <1>2, <1>3, <1>4, <1>5, <1>6 DEF SumLines

LEMMA SpentRange == current_state \in LoopStates => Spent(current_state) \in 0 .. 5
  BY DEF LoopStates, FetchStates, Spent

\* cycles++ (cpu.cpp:134) below the wrap
LEMMA Counted == ASSUME LongCounter, cycles \in 0 .. 133, step PROVE cycles' = cycles + 1
<1>1. cycles' = (cycles + 1) % CycleSpan
  BY StepEffect DEF CountCycle
<1>2. CycleSpan \in Nat /\ 134 < CycleSpan
  BY CPUAssumption DEF LongCounter
<1>3. \A t \in Nat : t < CycleSpan => t % CycleSpan = t
  BY <1>2
<1>4. QED
  BY <1>1, <1>2, <1>3

LEMMA ClockStep == ASSUME LongCounter, SessionInv, InSumLoop, SumState, SumClock, step
                   PROVE  SumClock'
<1> DEFINE w == ReadMem(memory, isaPC)
<1>1. running
  BY StepEffect
<1>2. CASE isaStatus = "running"
  <2>1. /\ SumLines /\ current_state \in LoopStates
        /\ cycles = Begun + Spent(current_state)
    BY <1>1, <1>2 DEF SumState, SumClock
  <2>2. /\ Begun \in 0 .. 126 /\ Spent(current_state) \in 0 .. 5
        /\ Opcode(w) \in {0, 1, 5, 15}
        /\ Opcode(w) = 15 => Begun = 126 /\ TrapVect(w) = HaltVector
    BY <2>1, LineTimes, SpentRange
  <2>3. cycles' = Begun + Spent(current_state) + 1
    BY <2>1, <2>2, Counted
  <2>4. running' /\ (GoesOn \/ Ends(w))
    BY <2>1, <2>2, LoopCycle
  <2>5. CASE GoesOn
    <3>1. Begun' = Begun
      BY <2>5 DEF GoesOn, Invisible, ISA!isaVars, Begun, Line
    <3>2. isaStatus' = "running"
      BY <1>2, <2>5 DEF GoesOn, Invisible, ISA!isaVars
    <3>3. cycles' = Begun' + Spent(current_state')
      BY <2>2, <2>3, <2>5, <3>1 DEF GoesOn
    <3>4. QED
      BY <2>4, <2>5, <3>2, <3>3 DEF GoesOn, SumClock
  <2>6. CASE Ends(w) /\ Opcode(w) # 15
    <3>1. current_state' = "FETCH_0" /\ Spent(current_state) + 1 = Takes(w) /\ ISA!Execute
      BY <2>6 DEF Ends
    <3>2. isaStatus' = "running" /\ Spent(current_state') = 0
      BY <3>1, Ended DEF Spent
    <3>3. Begun' = Begun + Takes(w)
      <4>1. reg \in [RegNum -> Word]
        BY DEF SessionInv, Inv, TypeOK
      <4>2. QED
        BY <2>1, <3>1, <3>2, <4>1, SumLineStep
    <3>4. cycles' = Begun' + Spent(current_state')
      BY <2>2, <2>3, <3>1, <3>2, <3>3
    <3>5. QED
      BY <2>4, <3>1, <3>2, <3>4 DEF SumClock, LoopStates, FetchStates
  <2>7. CASE Ends(w) /\ Opcode(w) = 15
    <3>1. current_state' = "TRAP_2" /\ Spent(current_state) = 5 /\ ISA!Execute
      BY <2>7 DEF Ends
    <3>2. isaStatus' = "halted"
      BY <2>2, <2>7, <3>1, Effect DEF Calls
    <3>3. cycles' = 126 + Spent(current_state')
      BY <2>2, <2>3, <2>7, <3>1 DEF Spent
    <3>4. QED
      BY <2>4, <3>1, <3>2, <3>3 DEF SumClock
  <2>8. QED
    BY <2>4, <2>5, <2>6, <2>7 DEF Ends
<1>3. CASE isaStatus = "halted"
  <2>1. current_state \in {"TRAP_2", "HALT"} /\ cycles = 126 + Spent(current_state)
    BY <1>1, <1>3 DEF SumClock
  <2>2. CASE current_state = "TRAP_2"
    <3>1. cycles = 132
      BY <2>1, <2>2 DEF Spent
    <3>2. cycles' = 133
      BY <3>1, Counted
    <3>3. execute_trap2 /\ TrapVect(IR) = HaltVector
      BY <1>3, <2>2, StepAt DEF isaStatus
    <3>4. current_state' = "HALT" /\ running'
      BY <1>1, <3>3 DEF execute_trap2, transition_to
    <3>5. isaStatus' = "halted"
      BY <3>4 DEF isaStatus
    <3>6. QED
      BY <3>2, <3>4, <3>5 DEF SumClock, Spent
  <2>3. CASE current_state = "HALT"
    <3>1. cycles = 133
      BY <2>1, <2>3 DEF Spent
    <3>2. cycles' = 134
      BY <3>1, Counted
    <3>3. ~running'
      BY <2>3, StepAt DEF stop_halt
    <3>4. QED
      BY <3>2, <3>3 DEF SumClock
  <2>4. QED
    BY <2>1, <2>2, <2>3
<1>4. QED
  BY <1>2, <1>3 DEF SumState

LEMMA ClockInvNext ==
    ASSUME SumSessions, LongCounter
    PROVE  SessionInv /\ SumInv /\ ClockInv /\ [SessionNext]_vars => ClockInv'
<1> SUFFICES ASSUME SessionInv, SumInv, ClockInv, [SessionNext]_vars, InSumLoop'
             PROVE  SumClock'
  BY DEF ClockInv
<1>1. CASE BoundedStep
  <2>1. step
    BY <1>1 DEF BoundedStep
  <2>2. InSumLoop
    <3>1. CASE Invisible
      BY <3>1 DEF Invisible, ISA!isaVars, InSumLoop
    <3>2. CASE ISA!Execute /\ ~InSumLoop
      <4>1. memory' = memory
        BY <3>2, CodeStays DEF SumInv
      <4>2. QED
        BY <3>2, <4>1 DEF InSumLoop
    <3>3. QED
      BY <2>1, <3>1, <3>2, StepRefines
  <2>3. QED
    BY <2>1, <2>2, ClockStep DEF SumInv, ClockInv
<1>2. ASSUME NEW image \in Reloads, Reload(image) PROVE SumClock'
  <2>1. /\ memory' = Contents(image) /\ isaPC' = image.start /\ isaStatus' = "running"
        /\ cycles' = 0 /\ running' /\ current_state' = "FETCH_0"
    BY <1>2, Ended DEF Reload, Restart
  <2>2. Begins(image)
    BY <1>2, <2>1, SessionAssumption DEF SumSessions, Harmless, InSumLoop
  <2>3. isaPC' = 12288
    BY <2>1, <2>2 DEF Begins, Origin
  <2>4. QED
    BY <2>1, <2>3, ClockStarts
<1>3. CASE UNCHANGED vars
  BY <1>3 DEF ClockInv, InSumLoop, SumClock, Begun, Line, vars, cond, isaPC, isaStatus, Before,
     PCRelative
<1>4. QED
  BY <1>1, <1>2, <1>3 DEF SessionNext

LEMMA ClockResult == SessionInv /\ SumInv /\ ClockInv => SumLoopCycles
<1> SUFFICES ASSUME SessionInv, SumInv, ClockInv, InSumLoop
             PROVE  IF running THEN cycles < 134 ELSE cycles = 134
  BY DEF SumLoopCycles
<1>1. SumClock /\ SumState
  BY DEF ClockInv, SumInv
<1>2. CASE running /\ isaStatus = "running"
  <2>1. Begun \in 0 .. 126 /\ Spent(current_state) \in 0 .. 5
    BY <1>1, <1>2, LineTimes, SpentRange DEF SumClock, SumState
  <2>2. QED
    BY <1>1, <1>2, <2>1 DEF SumClock
<1>3. CASE running /\ isaStatus = "halted"
  <2>1. cycles = 126 + Spent(current_state) /\ current_state \in {"TRAP_2", "HALT"}
    BY <1>1, <1>3 DEF SumClock
  <2>2. QED
    BY <1>3, <2>1 DEF Spent
<1>4. CASE ~running
  BY <1>1, <1>4 DEF SumClock
<1>5. QED
  BY <1>1, <1>2, <1>3, <1>4 DEF SumState

(* The loop of test_sum_loop halts in its 134th cycle, whatever the bounds *)
(* are: as long as run() goes on stepping (test.cpp:43) it comes to an end.*)
THEOREM SumLoopTakes134 ==
    ASSUME SumSessions, LongCounter PROVE SessionSpec => []SumLoopCycles
<1>1. SessionInit => SumInv /\ ClockInv
  <2> SUFFICES ASSUME NEW image \in Images, PowerOn(image.start, Contents(image))
               PROVE  SumInv /\ ClockInv
    BY DEF SessionInit
  <2>1. /\ memory = Contents(image) /\ isaPC = image.start /\ isaStatus = "running"
        /\ cycles = 0 /\ running /\ current_state = "FETCH_0"
    BY DEF PowerOn, isaPC, isaStatus, Uncommitted
  <2>2. SumInv
    BY <2>1, SumStarts DEF SumSessions
  <2>3. InSumLoop => Begins(image)
    BY <2>1 DEF SumSessions, Harmless, InSumLoop
  <2>4. Begins(image) => isaPC = 12288
    BY <2>1 DEF Begins, Origin
  <2>5. QED
    BY <2>1, <2>2, <2>3, <2>4, ClockStarts DEF ClockInv
<1>2. QED
  BY <1>1, SumInvNext, ClockInvNext, ClockResult, SessionInvInit, SessionInvNext, PTL
     DEF SessionSpec

-----------------------------------------------------------------------------
(* The program of the page, block by block in the memory                   *)

ReadsAs(m, blocks) ==
    /\ \A i \in DOMAIN blocks :
          ReadsBack(ReadMem(m, Address(i)), blocks[i], Address(i), blocks)
    /\ \A a : (\A i \in DOMAIN blocks : a # Address(i)) => ReadMem(m, a) = 0

CodeInv == ~Stores(loaded) => ReadsAs(memory, loaded)

\* A program without a store block has no store instruction
LEMMA NoStoreBlocks == ASSUME NEW m, NEW blocks, ReadsAs(m, blocks), ~Stores(blocks)
                       PROVE  NoStores(m)
<1> SUFFICES ASSUME NEW a PROVE Opcode(ReadMem(m, a)) \notin StoreCodes
  BY DEF NoStores
<1>1. ASSUME NEW i \in DOMAIN blocks, a = Address(i)
      PROVE  Opcode(ReadMem(m, a)) \notin StoreCodes
  <2>1. blocks[i].opcode \notin {"ST", "STI", "STR"}
    BY DEF Stores, StoresPC
  <2>2. ReadsBack(ReadMem(m, a), blocks[i], Address(i), blocks)
    BY <1>1 DEF ReadsAs
  <2>3. QED
    BY <2>1, <2>2 DEF ReadsBack, StoreCodes
<1>2. CASE \A i \in DOMAIN blocks : a # Address(i)
  <2>1. Opcode(0) = 0
    BY DEF Opcode, Bits
  <2>2. QED
    BY <1>2, <2>1 DEF ReadsAs, StoreCodes
<1>3. QED
  BY <1>1, <1>2

LEMMA LoadReadsAs == ASSUME EditorInv, Short, Encodes(program)
                     PROVE  ReadsAs(Contents(Image), program)
<1> DEFINE w == Words(program)
<1>1. w \in Seq(Word) /\ Image = [words |-> w, start |-> ORIG] /\ DOMAIN w = DOMAIN program
  BY WholeProgramLoaded DEF Image, Words
<1>2. ORIG \in Word /\ ORIG + Len(w) <= 65536
  <2>1. Len(program) \in Nat /\ DOMAIN program = 1 .. Len(program) /\ Len(program) <= 53248
    BY Places, BoundIs DEF EditorInv, Short
  <2>2. Len(w) = Len(program)
    BY <1>1, <2>1, LenProperties
  <2>3. QED
    BY <2>1, <2>2, OrigIsWord DEF ORIG
<1>3. \A i \in DOMAIN program : ReadsBack(w[i], program[i], Address(i), program)
  BY EncodedIs DEF EncodedFaithfully, Address
<1>4. Contents(Image) = Contents([words |-> w, start |-> ORIG])
  BY <1>1
<1> HIDE DEF w
<1>5. /\ \A i \in DOMAIN w : ReadMem(Contents(Image), ORIG + i - 1) = w[i]
      /\ \A a : (\A i \in DOMAIN w : a # ORIG + i - 1) => ReadMem(Contents(Image), a) = 0
  BY <1>1, <1>2, <1>4, LoadedWords
<1>6. QED
  BY <1>1, <1>3, <1>5 DEF ReadsAs, Address

\* The machine of the page runs on, stands still, or is given the program
LEMMA PageMachine ==
    [FrontendNext]_allVars =>
        \/ UNCHANGED <<cpuVars, loaded>>
        \/ Cycle /\ UNCHANGED loaded
        \/ Refusal = "" /\ Reload(Image) /\ loaded' = program
  BY DEF FrontendNext, Handlers, boot, loadAndReset, clickStepCycle, stepInstruction, stepCycle,
     startRun, fireTimeout, tick, clickPause, edit, allVars, pageVars

LEMMA PageSessionInv == LoadedInv /\ SessionInv /\ [FrontendNext]_allVars => SessionInv'
<1> SUFFICES ASSUME LoadedInv, SessionInv, [FrontendNext]_allVars PROVE SessionInv'
  OBVIOUS
<1>1. CASE UNCHANGED cpuVars
  BY <1>1, SessionInvNext DEF cpuVars
<1>2. CASE Cycle
  BY <1>2, SessionInvNext DEF Cycle, SessionNext
<1>3. CASE Refusal = "" /\ Reload(Image)
  BY <1>3, ReloadKeepsInv, LatchesReturn DEF Reload, Restart, SessionInv
<1>4. QED
  BY <1>1, <1>2, <1>3, PageMachine

LEMMA CodeInvNext == LoadedInv /\ SessionInv /\ CodeInv /\ [FrontendNext]_allVars => CodeInv'
<1> SUFFICES ASSUME LoadedInv, SessionInv, CodeInv, [FrontendNext]_allVars PROVE CodeInv'
  OBVIOUS
<1>1. CASE UNCHANGED <<cpuVars, loaded>>
  BY <1>1 DEF cpuVars, vars, CodeInv
<1>2. CASE Cycle /\ UNCHANGED loaded
  <2> SUFFICES ASSUME ~Stores(loaded) PROVE memory' = memory
    BY <1>2 DEF CodeInv
  <2>1. NoStores(memory)
    BY NoStoreBlocks DEF CodeInv
  <2>2. ISA!Execute \/ Invisible
    BY <1>2, StepRefines DEF Cycle, BoundedStep
  <2>3. QED
    BY <2>1, <2>2, CodeStays DEF Invisible, ISA!isaVars
<1>3. CASE Refusal = "" /\ Reload(Image) /\ loaded' = program
  <2>1. Encodes(program)
    BY <1>3 DEF Refusal
  <2>2. ReadsAs(Contents(Image), program)
    BY <2>1, LoadReadsAs DEF LoadedInv
  <2>3. memory' = Contents(Image)
    BY <1>3 DEF Reload, Restart
  <2>4. QED
    BY <1>3, <2>2, <2>3 DEF CodeInv
<1>4. QED
  BY <1>1, <1>2, <1>3, PageMachine

LEMMA PageCode == FrontendSpec => [](SessionInv /\ CodeInv)
<1>1. FrontendInit => SessionInv /\ CodeInv
  <2> SUFFICES ASSUME FrontendInit PROVE SessionInv /\ CodeInv
    OBVIOUS
  <2>1. Inv /\ DatapathLatches
    BY InitInv DEF FrontendInit, Init, PowerOn, DatapathLatches, Uncommitted
  <2>2. loaded = << >> /\ memory = ClearMemory
    BY DEF FrontendInit, Init, PowerOn
  <2>3. ReadsAs(ClearMemory, << >>)
    BY DEF ReadsAs, ClearMemory, ReadMem
  <2>4. QED
    BY <2>1, <2>2, <2>3 DEF SessionInv, CodeInv
<1>2. QED
  BY <1>1, PageSessionInv, CodeInvNext, LoadedInvHolds, PTL DEF FrontendSpec

(* From the blocks down to the gates: in the middle of an instruction, the *)
(* word in IR has the fields of the block that was loaded at its address,  *)
(* whatever has been edited, dragged or refused since (script.js:478-488   *)
(* over cpu.cpp:138-151).                                                  *)
THEOREM LoadedBlocksExecute == FrontendSpec => []LoadedBlockExecuted
<1>1. SessionInv /\ CodeInv => LoadedBlockExecuted
  <2> DEFINE at == Before(pc) - ORIG + 1
  <2> SUFFICES ASSUME SessionInv, CodeInv, ~Stores(loaded), at \in DOMAIN loaded,
                      current_state \in Uncommitted \ {"FETCH_1", "FETCH_2"}
               PROVE  ReadsBack(IR, loaded[at], Before(pc), loaded)
    BY DEF LoadedBlockExecuted
  <2>1. Before(pc) \in Int
    BY BeforeIs, WordRange DEF SessionInv, Inv, TypeOK
  <2>2. Address(at) = Before(pc)
    BY <2>1 DEF Address, ORIG
  <2>3. IR = ReadMem(memory, Address(at))
    BY <2>2 DEF SessionInv, DatapathLatches, fetched
  <2> HIDE DEF at
  <2>4. QED
    BY <2>2, <2>3 DEF CodeInv, ReadsAs
<1>2. QED
  BY <1>1, PageCode, PTL

-----------------------------------------------------------------------------
(* The presets (script.js:624-645)                                         *)

\* The blocks of a preset, up to the ids they were given
Like(b, c) == b.opcode = c.opcode /\ b.fields = c.fields /\ b.label = c.label

IsPreset(blocks, name) ==
    LET preset == PresetBlocks(name)
    IN  /\ Len(blocks) = Len(preset) /\ DOMAIN blocks = DOMAIN preset
        /\ \A i \in DOMAIN preset : Like(blocks[i], preset[i])

APreset(blocks) == blocks = << >> \/ \E name \in Presets : IsPreset(blocks, name)

(* Line k of a preset, and what its registers hold there.                  *)
CountdownLines ==
    \/ Line(0)
    \/ Line(1) /\ reg[0] = 0
    \/ Line(2) /\ reg[0] = 5
    \/ Line(3) /\ reg[0] \in 1 .. 5 /\ Added(reg[1], reg[0])
    \/ Line(4) /\ reg[0] \in 1 .. 5 /\ Added(reg[1], reg[0] - 1)
    \/ Line(5) /\ reg[0] \in 0 .. 4 /\ Added(reg[1], reg[0]) /\ Flagged(reg[0])
    \/ Line(6) /\ reg[0] = 0 /\ reg[1] = 15

AddtwoLines ==
    \/ Line(0) /\ reg[0] = 0 /\ reg[1] = 0
    \/ Line(1) /\ reg[0] = 5 /\ reg[1] = 0
    \/ Line(2) /\ reg[0] = 5 /\ reg[1] = 3
    \/ Line(3) /\ reg[2] = 8

NotregLines ==
    \/ Line(0)
    \/ Line(1) /\ reg[0] = 0
    \/ Line(2) /\ reg[0] = 65535

Lines(name) == CASE name = "countdown" -> CountdownLines
                 [] name = "addtwo"    -> AddtwoLines
                 [] OTHER              -> NotregLines

Done(name) == CASE name = "countdown" -> reg[0] = 0 /\ reg[1] = 15
                [] name = "addtwo"    -> reg[2] = 8
                [] OTHER              -> reg[0] = 65535

\* Nothing is loaded, and the machine runs through zeros; or a preset is
PresetState ==
    \/ loaded = << >> /\ isaStatus = "running"
    \/ \E name \in Presets :
          /\ IsPreset(loaded, name)
          /\ \/ isaStatus = "running" /\ Lines(name)
             \/ isaStatus = "halted" /\ Done(name)

(* What the CPU reads in an ADD or AND block with an immediate or with a   *)
(* second register, and does with it.                                      *)
LEMMA ImmediateEffect ==
    ASSUME ISA!Execute, NEW op \in Operates, NEW d, NEW s, NEW v, NEW label, NEW b,
           Like(b, Block(op, Alu(d, s, Number(v)), label)), NEW addr, NEW blocks,
           ReadsBack(ReadMem(memory, isaPC), b, addr, blocks)
    PROVE  Yields(d, IF op = "ADD" THEN Plus(reg[s], AsWord(v)) ELSE BitAnd(reg[s], AsWord(v)))
<1> DEFINE w == ReadMem(memory, isaPC)
<1>1. /\ b.opcode = op /\ b.fields.DR = d /\ b.fields.SR1 = s
      /\ b.fields.mode = "imm" /\ b.fields.op2.val = v
  BY DEF Like, Block, Alu, Number
<1>2. /\ Opcode(w) = IF op = "ADD" THEN 1 ELSE 5
      /\ DR(w) = d /\ SR1(w) = s /\ ImmFlag(w) = 1 /\ Offset(w, 5) = AsWord(v)
  BY <1>1 DEF ReadsBack, Operates
<1>3. Second(w) = AsWord(v)
  BY <1>2 DEF Second
<1>4. QED
  BY <1>2, <1>3, Effect

LEMMA RegisterEffect ==
    ASSUME ISA!Execute, NEW op \in Operates, NEW d, NEW s, NEW r, NEW label, NEW b,
           Like(b, Block(op, Alu(d, s, Register(r)), label)), NEW addr, NEW blocks,
           ReadsBack(ReadMem(memory, isaPC), b, addr, blocks)
    PROVE  Yields(d, IF op = "ADD" THEN Plus(reg[s], reg[r]) ELSE BitAnd(reg[s], reg[r]))
<1> DEFINE w == ReadMem(memory, isaPC)
<1>1. /\ b.opcode = op /\ b.fields.DR = d /\ b.fields.SR1 = s
      /\ b.fields.mode = "SR2" /\ b.fields.op2.val = r
  BY DEF Like, Block, Alu, Register
<1>2. /\ Opcode(w) = IF op = "ADD" THEN 1 ELSE 5
      /\ DR(w) = d /\ SR1(w) = s /\ ImmFlag(w) = 0 /\ SR2(w) = r
  BY <1>1 DEF ReadsBack, Operates
<1>3. Second(w) = reg[r]
  BY <1>2 DEF Second
<1>4. QED
  BY <1>2, <1>3, Effect

LEMMA NotEffect ==
    ASSUME ISA!Execute, NEW d, NEW s, NEW label, NEW b,
           Like(b, Block("NOT", [DR |-> d, SR |-> s], label)), NEW addr, NEW blocks,
           ReadsBack(ReadMem(memory, isaPC), b, addr, blocks)
    PROVE  Yields(d, BitNot(reg[s]))
<1> DEFINE w == ReadMem(memory, isaPC)
<1>1. b.opcode = "NOT" /\ b.fields.DR = d /\ b.fields.SR = s
  BY DEF Like, Block
<1>2. Opcode(w) = 9 /\ DR(w) = d /\ SR1(w) = s
  BY <1>1 DEF ReadsBack
<1>3. QED
  BY <1>2, Effect

LEMMA HaltEffect ==
    ASSUME ISA!Execute, NEW b, Like(b, HaltBlock), NEW addr, NEW blocks,
           ReadsBack(ReadMem(memory, isaPC), b, addr, blocks)
    PROVE  Calls(HaltVector)
<1> DEFINE w == ReadMem(memory, isaPC)
<1>1. b.opcode = "HALT"
  BY DEF Like, HaltBlock, Block
<1>2. Opcode(w) = 15 /\ TrapVect(w) = HaltVector
  BY <1>1 DEF ReadsBack
<1>3. QED
  BY <1>2, Effect

\* The BRp at the end of the loop goes to the block its target names
LEMMA LoopEffect ==
    ASSUME ISA!Execute, NEW b, Like(b, Block("BR", [nzp |-> {"p"}, target |-> "LOOP"], NoName)),
           LabelledAt("LOOP", loaded) = {12291}, "LOOP" \notin NumericNames,
           isaPC + 1 = After, AsWord(After) = After,
           ReadsBack(ReadMem(memory, isaPC), b, isaPC, loaded)
    PROVE  Goes(IF p THEN 12291 ELSE After)
<1> DEFINE w == ReadMem(memory, isaPC)
<1>1. b.opcode = "BR" /\ b.fields.nzp = {"p"} /\ b.fields.target = "LOOP"
  BY DEF Like, Block
<1>2. w \in Word /\ Opcode(w) = 0 /\ BranchesOn(w, {"p"})
  BY <1>1 DEF ReadsBack
<1>3. Reaches(w, 9, "LOOP", isaPC, loaded)
  BY <1>1 DEF ReadsBack
<1>4. Plus(After, Offset(w, 9)) = 12291
  BY <1>3 DEF Reaches
<1>5. Branches(w) <=> p
  BY <1>2 DEF Branches, BranchesOn
<1>6. QED
  BY <1>2, <1>4, <1>5, Effect

(* What the machine finds at line k of a preset.                           *)
LEMMA BlockHere ==
    ASSUME NEW name, IsPreset(loaded, name), ReadsAs(memory, loaded),
           NEW k \in 0 .. 6, k + 1 \in DOMAIN PresetBlocks(name), Line(k)
    PROVE  /\ Like(loaded[k + 1], PresetBlocks(name)[k + 1])
           /\ ReadsBack(ReadMem(memory, isaPC), loaded[k + 1], isaPC, loaded)
<1>1. Like(loaded[k + 1], PresetBlocks(name)[k + 1]) /\ k + 1 \in DOMAIN loaded
  BY DEF IsPreset
<1>2. Address(k + 1) = isaPC
  BY DEF Line, Address, ORIG
<1>3. QED
  BY <1>1, <1>2 DEF ReadsAs

LEMMA LineAfter == \A k \in 0 .. 7 : Line(k) => After = 12288 + k + 1
  BY DEF Line, After, Plus, WordSize

LEMMA Immediate == AsWord(0) = 0 /\ AsWord(5) = 5 /\ AsWord(3) = 3 /\ AsWord(-1) = 65535
<1>1. AsWord(0) = 0 /\ AsWord(5) = 5 /\ AsWord(3) = 3
  BY DEF AsWord, WordSize
<1>2. \A v \in Int : v + 1 = 0 => AsWord(v) = 65535
  BY DEF AsWord, WordSize
<1>3. -1 \in Int /\ -1 + 1 = 0
  OBVIOUS
<1>4. QED
  BY <1>1, <1>2, <1>3

LEMMA AddtwoStep ==
    ASSUME reg \in [RegNum -> Word], IsPreset(loaded, "addtwo"), ReadsAs(memory, loaded),
           AddtwoLines, ISA!Execute
    PROVE  \/ isaStatus' = "running" /\ AddtwoLines'
           \/ isaStatus' = "halted" /\ reg'[2] = 8
<1> DEFINE b == PresetBlocks("addtwo")
<1>1. isaStatus = "running"
  BY Effect
<1>2. /\ DOMAIN b = 1 .. 4
      /\ b[1] = Block("ADD", Alu(0, 0, Number(5)), NoName)
      /\ b[2] = Block("ADD", Alu(1, 1, Number(3)), NoName)
      /\ b[3] = Block("ADD", Alu(2, 0, Register(1)), NoName)
      /\ b[4] = HaltBlock
  BY DEF PresetBlocks
<1>3. \A k \in 0 .. 3 : Line(k) =>
         /\ Like(loaded[k + 1], b[k + 1])
         /\ ReadsBack(ReadMem(memory, isaPC), loaded[k + 1], isaPC, loaded)
  BY <1>2, BlockHere
<1> HIDE DEF b
<1>4. 0 + 1 = 1 /\ 1 + 1 = 2 /\ 2 + 1 = 3 /\ 3 + 1 = 4
  OBVIOUS
<1>5. CASE Line(0) /\ reg[0] = 0 /\ reg[1] = 0
  <2>1. After = 12289
    BY <1>5, LineAfter
  <2>2. Yields(0, 5)
    <3>1. Yields(0, Plus(reg[0], AsWord(5)))
      BY <1>2, <1>3, <1>4, <1>5, ImmediateEffect DEF Operates
    <3>2. Plus(0, 5) = 5
      BY DEF Plus, WordSize
    <3>3. QED
      BY <1>5, <3>1, <3>2, Immediate
  <2>3. isaPC' = 12289 /\ isaStatus' = "running" /\ reg'[0] = 5 /\ reg'[1] = 0
    BY <1>1, <1>5, <2>1, <2>2, YieldsIs, LowRegisters
  <2>4. QED
    BY <2>3 DEF AddtwoLines, Line
<1>6. CASE Line(1) /\ reg[0] = 5 /\ reg[1] = 0
  <2>1. After = 12290
    BY <1>6, LineAfter
  <2>2. Yields(1, 3)
    <3>1. Yields(1, Plus(reg[1], AsWord(3)))
      BY <1>2, <1>3, <1>4, <1>6, ImmediateEffect DEF Operates
    <3>2. Plus(0, 3) = 3
      BY DEF Plus, WordSize
    <3>3. QED
      BY <1>6, <3>1, <3>2, Immediate
  <2>3. isaPC' = 12290 /\ isaStatus' = "running" /\ reg'[0] = 5 /\ reg'[1] = 3
    BY <1>1, <1>6, <2>1, <2>2, YieldsIs, LowRegisters
  <2>4. QED
    BY <2>3 DEF AddtwoLines, Line
<1>7. CASE Line(2) /\ reg[0] = 5 /\ reg[1] = 3
  <2>1. After = 12291
    BY <1>7, LineAfter
  <2>2. Yields(2, 8)
    <3>1. Yields(2, Plus(reg[0], reg[1]))
      BY <1>2, <1>3, <1>4, <1>7, RegisterEffect DEF Operates
    <3>2. Plus(5, 3) = 8
      BY DEF Plus, WordSize
    <3>3. QED
      BY <1>7, <3>1, <3>2
  <2>3. isaPC' = 12291 /\ isaStatus' = "running" /\ reg'[2] = 8
    BY <1>1, <2>1, <2>2, YieldsIs, LowRegisters
  <2>4. QED
    BY <2>3 DEF AddtwoLines, Line
<1>8. CASE Line(3) /\ reg[2] = 8
  <2>1. Calls(HaltVector)
    BY <1>2, <1>3, <1>4, <1>8, HaltEffect
  <2>2. isaStatus' = "halted" /\ reg'[2] = reg[2]
    BY <2>1, LowRegisters DEF Calls
  <2>3. QED
    BY <1>8, <2>2
<1>9. QED
  BY <1>5, <1>6, <1>7, <1>8 DEF AddtwoLines

LEMMA NotregStep ==
    ASSUME reg \in [RegNum -> Word], IsPreset(loaded, "notreg"), ReadsAs(memory, loaded),
           NotregLines, ISA!Execute
    PROVE  \/ isaStatus' = "running" /\ NotregLines'
           \/ isaStatus' = "halted" /\ reg'[0] = 65535
<1> DEFINE b == PresetBlocks("notreg")
<1>1. isaStatus = "running"
  BY Effect
<1>2. /\ DOMAIN b = 1 .. 3
      /\ b[1] = Block("AND", Alu(0, 0, Number(0)), NoName)
      /\ b[2] = Block("NOT", [DR |-> 0, SR |-> 0], NoName)
      /\ b[3] = HaltBlock
  BY DEF PresetBlocks
<1>3. \A k \in 0 .. 2 : Line(k) =>
         /\ Like(loaded[k + 1], b[k + 1])
         /\ ReadsBack(ReadMem(memory, isaPC), loaded[k + 1], isaPC, loaded)
  BY <1>2, BlockHere
<1> HIDE DEF b
<1>4. 0 + 1 = 1 /\ 1 + 1 = 2 /\ 2 + 1 = 3
  OBVIOUS
<1>5. CASE Line(0)
  <2>1. After = 12289
    BY <1>5, LineAfter
  <2>2. Yields(0, BitAnd(reg[0], AsWord(0)))
    BY <1>2, <1>3, <1>4, <1>5, ImmediateEffect DEF Operates
  <2>3. isaPC' = 12289 /\ isaStatus' = "running" /\ reg'[0] = 0
    BY <1>1, <2>1, <2>2, Immediate, AndZero, YieldsIs, LowRegisters
  <2>4. QED
    BY <2>3 DEF NotregLines, Line
<1>6. CASE Line(1) /\ reg[0] = 0
  <2>1. After = 12290
    BY <1>6, LineAfter
  <2>2. Yields(0, BitNot(reg[0]))
    BY <1>2, <1>3, <1>4, <1>6, NotEffect
  <2>3. BitNot(0) = 65535
    BY DEF BitNot, WordSize
  <2>4. isaPC' = 12290 /\ isaStatus' = "running" /\ reg'[0] = 65535
    BY <1>1, <1>6, <2>1, <2>2, <2>3, YieldsIs, LowRegisters
  <2>5. QED
    BY <2>4 DEF NotregLines, Line
<1>7. CASE Line(2) /\ reg[0] = 65535
  <2>1. Calls(HaltVector)
    BY <1>2, <1>3, <1>4, <1>7, HaltEffect
  <2>2. isaStatus' = "halted" /\ reg'[0] = reg[0]
    BY <2>1, LowRegisters DEF Calls
  <2>3. QED
    BY <1>7, <2>2
<1>8. QED
  BY <1>5, <1>6, <1>7 DEF NotregLines

LEMMA LoopBlock == ASSUME IsPreset(loaded, "countdown")
                   PROVE  LabelledAt("LOOP", loaded) = {12291}
<1> DEFINE b == PresetBlocks("countdown")
<1>1. DOMAIN b = 1 .. 7 /\ \A i \in 1 .. 7 : b[i].label = IF i = 4 THEN "LOOP" ELSE NoName
  BY DEF PresetBlocks, Block, HaltBlock
<1>2. DOMAIN loaded = 1 .. 7 /\ \A i \in 1 .. 7 : loaded[i].label = b[i].label
  BY <1>1 DEF IsPreset, Like
<1> HIDE DEF b
<1>3. "LOOP" # NoName
  BY DEF NoName
<1>4. \A i \in DOMAIN loaded : loaded[i].label = "LOOP" <=> i = 4
  BY <1>1, <1>2, <1>3
<1>5. 4 \in DOMAIN loaded /\ ORIG + 4 - 1 = 12291
  BY <1>2 DEF ORIG
<1>6. QED
  BY <1>4, <1>5 DEF LabelledAt

LEMMA CountdownStep ==
    ASSUME reg \in [RegNum -> Word], "countdown" \in Presets,
           IsPreset(loaded, "countdown"), ReadsAs(memory, loaded),
           CountdownLines, ISA!Execute
    PROVE  \/ isaStatus' = "running" /\ CountdownLines'
           \/ isaStatus' = "halted" /\ reg'[0] = 0 /\ reg'[1] = 15
<1> DEFINE b == PresetBlocks("countdown")
<1>1. isaStatus = "running"
  BY Effect
<1>2. /\ DOMAIN b = 1 .. 7
      /\ b[1] = Block("AND", Alu(0, 0, Number(0)), NoName)
      /\ b[2] = Block("ADD", Alu(0, 0, Number(5)), NoName)
      /\ b[3] = Block("AND", Alu(1, 1, Number(0)), NoName)
      /\ b[4] = Block("ADD", Alu(1, 1, Register(0)), "LOOP")
      /\ b[5] = Block("ADD", Alu(0, 0, Number(-1)), NoName)
      /\ b[6] = Block("BR", [nzp |-> {"p"}, target |-> "LOOP"], NoName)
      /\ b[7] = HaltBlock
  BY DEF PresetBlocks
<1>3. \A k \in 0 .. 6 : Line(k) =>
         /\ Like(loaded[k + 1], b[k + 1])
         /\ ReadsBack(ReadMem(memory, isaPC), loaded[k + 1], isaPC, loaded)
  BY <1>2, BlockHere
<1>4. LabelledAt("LOOP", loaded) = {12291}
  BY LoopBlock
<1> HIDE DEF b
<1>5. /\ 0 + 1 = 1 /\ 1 + 1 = 2 /\ 2 + 1 = 3 /\ 3 + 1 = 4
      /\ 4 + 1 = 5 /\ 5 + 1 = 6 /\ 6 + 1 = 7
  OBVIOUS
<1>6. reg[0] \in Word /\ reg[1] \in Word /\ reg[0] \in Nat /\ reg[1] \in Nat
  <2>1. reg[0] \in Word /\ reg[1] \in Word
    BY LowRegisters
  <2>2. QED
    BY <2>1, WordRange
<1>7. CASE Line(0)
  <2>1. After = 12289
    BY <1>7, LineAfter
  <2>2. Yields(0, BitAnd(reg[0], AsWord(0)))
    BY <1>2, <1>3, <1>5, <1>7, ImmediateEffect DEF Operates
  <2>3. isaPC' = 12289 /\ isaStatus' = "running" /\ reg'[0] = 0
    BY <1>1, <2>1, <2>2, Immediate, AndZero, YieldsIs, LowRegisters
  <2>4. QED
    BY <2>3 DEF CountdownLines, Line
<1>8. CASE Line(1) /\ reg[0] = 0
  <2>1. After = 12290
    BY <1>8, LineAfter
  <2>2. Yields(0, Plus(reg[0], AsWord(5)))
    BY <1>2, <1>3, <1>5, <1>8, ImmediateEffect DEF Operates
  <2>3. Plus(0, 5) = 5
    BY DEF Plus, WordSize
  <2>4. isaPC' = 12290 /\ isaStatus' = "running" /\ reg'[0] = 5
    BY <1>1, <1>8, <2>1, <2>2, <2>3, Immediate, YieldsIs, LowRegisters
  <2>5. QED
    BY <2>4 DEF CountdownLines, Line
<1>9. CASE Line(2) /\ reg[0] = 5
  <2>1. After = 12291
    BY <1>9, LineAfter
  <2>2. Yields(1, BitAnd(reg[1], AsWord(0)))
    BY <1>2, <1>3, <1>5, <1>9, ImmediateEffect DEF Operates
  <2>3. isaPC' = 12291 /\ isaStatus' = "running" /\ reg'[0] = 5 /\ reg'[1] = 0
    BY <1>1, <1>9, <2>1, <2>2, Immediate, AndZero, YieldsIs, LowRegisters
  <2>4. Added(0, 5)
    BY DEF Added
  <2>5. QED
    BY <2>3, <2>4 DEF CountdownLines, Line, Added
<1>10. CASE Line(3) /\ reg[0] \in 1 .. 5 /\ Added(reg[1], reg[0])
  <2>1. After = 12292
    BY <1>10, LineAfter
  <2>2. Yields(1, Plus(reg[1], reg[0]))
    BY <1>2, <1>3, <1>5, <1>10, RegisterEffect DEF Operates
  <2>3. Plus(reg[1], reg[0]) = reg[1] + reg[0] /\ Added(reg[1] + reg[0], reg[0] - 1)
    BY <1>6, <1>10, SmallPlus DEF Added
  <2>4. isaPC' = 12292 /\ isaStatus' = "running" /\ reg'[0] = reg[0] /\ reg'[1] = reg[1] + reg[0]
    BY <1>1, <2>1, <2>2, <2>3, YieldsIs, LowRegisters
  <2>5. QED
    BY <1>10, <2>3, <2>4 DEF CountdownLines, Line, Added
<1>11. CASE Line(4) /\ reg[0] \in 1 .. 5 /\ Added(reg[1], reg[0] - 1)
  <2>1. After = 12293
    BY <1>11, LineAfter
  <2>2. Plus(reg[0], 65535) = reg[0] - 1
    <3>1. reg[0] \in Nat /\ 0 < reg[0] /\ reg[0] < 65536
      BY <1>11
    <3>2. QED
      BY <3>1, SmallMinus
  <2>3. Yields(0, reg[0] - 1)
    <3>1. Yields(0, Plus(reg[0], AsWord(-1)))
      BY <1>2, <1>3, <1>5, <1>11, ImmediateEffect DEF Operates
    <3>2. QED
      BY <2>2, <3>1, Immediate
  <2>4. isaPC' = 12293 /\ isaStatus' = "running" /\ reg'[0] = reg[0] - 1 /\ reg'[1] = reg[1]
    BY <1>1, <2>1, <2>3, YieldsIs, LowRegisters
  <2>5. Flagged(reg[0])'
    BY <2>3, <2>4 DEF Yields, Flagged
  <2>6. reg'[0] \in 0 .. 4 /\ Added(reg'[1], reg'[0])
    BY <1>11, <2>4
  <2>7. QED
    BY <2>4, <2>5, <2>6 DEF CountdownLines, Line, Added
<1>12. CASE Line(5) /\ reg[0] \in 0 .. 4 /\ Added(reg[1], reg[0]) /\ Flagged(reg[0])
  <2>1. After = 12294 /\ isaPC + 1 = After /\ AsWord(After) = After
    BY <1>12, LineAfter DEF Line, AsWord, WordSize
  <2>2. Goes(IF p THEN 12291 ELSE After)
    <3>1. /\ Like(loaded[6], Block("BR", [nzp |-> {"p"}, target |-> "LOOP"], NoName))
          /\ ReadsBack(ReadMem(memory, isaPC), loaded[6], isaPC, loaded)
      BY <1>2, <1>3, <1>5, <1>12
    <3>2. "LOOP" \notin NumericNames
      BY EditorAssumption
    <3>3. QED
      BY <1>4, <2>1, <3>1, <3>2, LoopEffect
  <2>3. UNCHANGED reg /\ isaStatus' = "running"
    BY <1>1, <2>2 DEF Goes
  <2>4. CASE p
    <3>1. reg[0] # 0
      BY <1>12, <2>4 DEF Flagged
    <3>2. reg[0] \in 1 .. 5 /\ isaPC' = 12291
      BY <1>12, <2>2, <2>4, <3>1 DEF Goes
    <3>3. QED
      BY <1>12, <2>3, <3>2 DEF CountdownLines, Line, Added
  <2>5. CASE ~p
    <3>1. reg[0] = 0
      <4>1. reg[0] \in Int /\ reg[0] < 32768
        BY <1>12
      <4>2. ~Negative(reg[0])
        BY <4>1, SmallNegative
      <4>3. QED
        BY <1>12, <2>5, <4>2 DEF Flagged
    <3>2. reg[1] = 15
      BY <1>6, <1>12, <3>1 DEF Added
    <3>3. isaPC' = 12294
      BY <2>1, <2>2, <2>5 DEF Goes
    <3>4. QED
      BY <2>3, <3>1, <3>2, <3>3 DEF CountdownLines, Line
  <2>6. QED
    BY <2>4, <2>5
<1>13. CASE Line(6) /\ reg[0] = 0 /\ reg[1] = 15
  <2>1. Calls(HaltVector)
    BY <1>2, <1>3, <1>5, <1>13, HaltEffect
  <2>2. isaStatus' = "halted" /\ reg'[0] = reg[0] /\ reg'[1] = reg[1]
    BY <2>1, LowRegisters DEF Calls
  <2>3. QED
    BY <1>13, <2>2
<1>14. QED
  BY <1>7, <1>8, <1>9, <1>10, <1>11, <1>12, <1>13 DEF CountdownLines

(* A machine in which nothing is loaded runs on through zeros.             *)
LEMMA BlankStep == ASSUME ReadsAs(memory, << >>), ISA!Execute PROVE isaStatus' = "running"
<1>1. ReadMem(memory, isaPC) = 0
  BY DEF ReadsAs
<1>2. Opcode(0) = 0
  BY DEF Opcode, Bits
<1>3. QED
  BY <1>1, <1>2, Effect DEF Goes

LEMMA PresetHasNoStore == ASSUME APreset(loaded) PROVE ~Stores(loaded)
<1>1. ASSUME NEW name \in Presets, IsPreset(loaded, name) PROVE ~Stores(loaded)
  <2> DEFINE b == PresetBlocks(name)
  <2>1. \A i \in DOMAIN b : b[i].opcode \notin {"ST", "STI", "STR"}
    <3>1. CASE name = "countdown"
      BY <3>1 DEF PresetBlocks, Block, HaltBlock
    <3>2. CASE name = "addtwo"
      BY <3>2 DEF PresetBlocks, Block, HaltBlock
    <3>3. CASE name \notin {"countdown", "addtwo"}
      BY <3>3 DEF PresetBlocks, Block, HaltBlock
    <3>4. QED
      BY <3>1, <3>2, <3>3
  <2> HIDE DEF b
  <2>2. QED
    BY <1>1, <2>1 DEF IsPreset, Like, Stores, StoresPC, b
<1>2. QED
  BY <1>1 DEF APreset, Stores

LEMMA PresetStarts == ASSUME APreset(loaded)', loaded' # << >>, isaStatus' = "running",
                             isaPC' = ORIG, reg' = [r \in RegNum |-> 0]
                      PROVE  PresetState'
<1>1. PICK name \in Presets : IsPreset(loaded, name)'
  BY DEF APreset
<1>2. Line(0)' /\ reg'[0] = 0 /\ reg'[1] = 0
  BY LowRegisters DEF Line, ORIG
<1>3. Lines(name)'
  BY <1>2 DEF Lines, CountdownLines, AddtwoLines, NotregLines
<1>4. QED
  BY <1>1, <1>3 DEF PresetState

LEMMA PresetExecute == ASSUME Inv, APreset(loaded), CodeInv, PresetState,
                              ISA!Execute, UNCHANGED loaded
                       PROVE  PresetState'
<1>1. isaStatus = "running" /\ reg \in [RegNum -> Word] /\ ReadsAs(memory, loaded)
  BY Effect, PresetHasNoStore DEF Inv, TypeOK, CodeInv
<1>2. CASE loaded = << >>
  BY <1>1, <1>2, BlankStep DEF PresetState
<1>3. ASSUME NEW name \in Presets, IsPreset(loaded, name), Lines(name) PROVE PresetState'
  <2>1. (isaStatus' = "running" /\ Lines(name)') \/ (isaStatus' = "halted" /\ Done(name)')
    <3>1. CASE name = "countdown"
      BY <1>1, <1>3, <3>1, CountdownStep DEF Lines, Done
    <3>2. CASE name = "addtwo"
      BY <1>1, <1>3, <3>2, AddtwoStep DEF Lines, Done
    <3>3. CASE name = "notreg"
      BY <1>1, <1>3, <3>3, NotregStep DEF Lines, Done
    <3>4. QED
      BY <3>1, <3>2, <3>3, EditorAssumption
  <2>2. QED
    BY <1>3, <2>1 DEF PresetState
<1>4. QED
  BY <1>1, <1>2, <1>3 DEF PresetState

LEMMA PresetResult == Inv /\ PresetState => PresetResults
<1> SUFFICES ASSUME Inv, PresetState, halted
             PROVE  CASE Len(loaded) = 7 -> reg[0] = 0 /\ reg[1] = 15
                      [] Len(loaded) = 4 -> reg[2] = 8
                      [] Len(loaded) = 3 -> reg[0] = WordSize - 1
                      [] OTHER -> FALSE
  BY DEF PresetResults
<1>1. isaStatus = "halted"
  BY DEF Inv, StopFlags, isaStatus, Uncommitted
<1>2. PICK name \in Presets : IsPreset(loaded, name) /\ Done(name)
  BY <1>1 DEF PresetState
<1>3. WordSize - 1 = 65535
  BY DEF WordSize
<1>4. CASE name = "countdown"
  <2>1. Len(loaded) = 7
    BY <1>2, <1>4 DEF IsPreset, PresetBlocks
  <2>2. QED
    BY <1>2, <1>4, <2>1 DEF Done
<1>5. CASE name = "addtwo"
  <2>1. Len(loaded) = 4
    BY <1>2, <1>5 DEF IsPreset, PresetBlocks
  <2>2. QED
    BY <1>2, <1>5, <2>1 DEF Done
<1>6. CASE name = "notreg"
  <2>1. Len(loaded) = 3
    BY <1>2, <1>6 DEF IsPreset, PresetBlocks
  <2>2. QED
    BY <1>2, <1>3, <1>6, <2>1 DEF Done
<1>7. QED
  BY <1>4, <1>5, <1>6, EditorAssumption

\* A user who only picks presets
OnlyPresets == Handlers \/ pickPreset

LEMMA PickIsEdit == [OnlyPresets]_allVars => [FrontendNext]_allVars
  BY DEF OnlyPresets, FrontendNext, pickPreset, edit, EditorNext, Arrange

PickedInv == APreset(program) /\ APreset(loaded) /\ PresetState

LEMMA PickedIsPreset == ASSUME EditorInv', NEW name \in Presets, loadPreset(name)
                        PROVE  APreset(program)'
<1> DEFINE b == PresetBlocks(name)
<1>1. DOMAIN b = 1 .. Len(b) /\ Len(b) \in Nat
  <2>1. CASE name = "countdown"
    BY <2>1 DEF PresetBlocks
  <2>2. CASE name = "addtwo"
    BY <2>2 DEF PresetBlocks
  <2>3. CASE name = "notreg"
    BY <2>3 DEF PresetBlocks
  <2>4. QED
    BY <2>1, <2>2, <2>3, EditorAssumption
<1>2. \A i \in DOMAIN b : Like([b[i] EXCEPT !.id = nextId + Len(b) + i - 1], b[i])
  <2> SUFFICES ASSUME NEW i \in DOMAIN b
               PROVE  Like([b[i] EXCEPT !.id = nextId + Len(b) + i - 1], b[i])
    OBVIOUS
  <2>1. QED
    BY DEF Like
<1> HIDE DEF b
<1>3. DOMAIN program' = DOMAIN b /\ \A i \in DOMAIN b : Like(program'[i], b[i])
  BY <1>2 DEF loadPreset, b
<1>4. Len(program') = Len(b)
  <2>1. Len(program') \in Nat /\ DOMAIN program' = 1 .. Len(program')
    BY LenProperties DEF EditorInv
  <2>2. QED
    BY <1>1, <1>3, <2>1
<1>5. IsPreset(program, name)'
  BY <1>3, <1>4 DEF IsPreset, b
<1>6. QED
  BY <1>5 DEF APreset

LEMMA PickedInvNext ==
    LoadedInv /\ LoadedInv' /\ SessionInv /\ CodeInv /\ PickedInv /\ [OnlyPresets]_allVars
        => PickedInv'
<1> SUFFICES ASSUME LoadedInv, LoadedInv', SessionInv, CodeInv, PickedInv,
                    [OnlyPresets]_allVars
             PROVE  PickedInv'
  OBVIOUS
<1>1. APreset(program)'
  <2>1. CASE UNCHANGED program
    BY <2>1 DEF PickedInv, APreset
  <2>2. CASE \E name \in Presets : loadPreset(name)
    BY <2>2, PickedIsPreset DEF LoadedInv
  <2>3. Handlers => UNCHANGED editorVars
    BY DEF Handlers, boot, loadAndReset, clickStepCycle, stepInstruction, startRun,
       fireTimeout, clickPause
  <2>4. QED
    BY <2>1, <2>2, <2>3 DEF OnlyPresets, pickPreset, allVars, editorVars
<1>2. CASE UNCHANGED <<cpuVars, loaded>>
  <2>1. isaPC' = isaPC /\ isaStatus' = isaStatus /\ UNCHANGED <<reg, n, z, p>>
    BY <1>2 DEF isaPC, isaStatus, Before, PCRelative, cpuVars, vars, cond
  <2>2. QED
    BY <1>1, <1>2, <2>1 DEF PickedInv, APreset, PresetState, Lines, CountdownLines,
       AddtwoLines, NotregLines, Line, Done, Flagged
<1>3. CASE Cycle /\ UNCHANGED loaded
  <2>1. APreset(loaded)'
    BY <1>3 DEF PickedInv, APreset
  <2>2. CASE ISA!Execute
    BY <1>1, <1>3, <2>1, <2>2, PresetExecute DEF PickedInv, LoadedInv
  <2>3. CASE Invisible
    BY <1>1, <1>3, <2>1, <2>3 DEF Invisible, ISA!isaVars, ISA!cond, PickedInv, PresetState,
       Lines, CountdownLines, AddtwoLines, NotregLines, Line, Done, Flagged
  <2>4. QED
    BY <1>3, <2>2, <2>3, StepRefines DEF Cycle, BoundedStep
<1>4. CASE Refusal = "" /\ Reload(Image) /\ loaded' = program
  <2>1. program # << >>
    BY <1>4 DEF Refusal
  <2>2. APreset(loaded)' /\ loaded' # << >>
    BY <1>4, <2>1 DEF PickedInv, APreset
  <2>3. isaPC' = ORIG /\ isaStatus' = "running" /\ reg' = [r \in RegNum |-> 0]
    BY <1>4, Ended DEF Reload, Restart, Image
  <2>4. QED
    BY <1>1, <2>2, <2>3, PresetStarts DEF PickedInv
<1>5. QED
  BY <1>2, <1>3, <1>4, PageMachine, PickIsEdit

(* What the page says its presets compute (index.html:54-56) is what is in *)
(* the registers whenever the machine has halted, for a user who picks     *)
(* presets and loads, runs, steps, pauses and resets them in any order.    *)
THEOREM PresetsCompute == FairPresets => []PresetResults
<1>1. FairPresets => FrontendInit /\ [][OnlyPresets]_allVars
  BY PTL DEF FairPresets, OnlyPresets
<1>2. [][OnlyPresets]_allVars => [][FrontendNext]_allVars
  BY PickIsEdit, PTL
<1>3. FrontendInit => PickedInv
  BY DEF FrontendInit, Init, PowerOn, EditorInit, PickedInv, APreset, PresetState, isaStatus,
     Uncommitted
<1>4. SessionInv /\ PickedInv => PresetResults
  BY PresetResult DEF SessionInv, PickedInv
<1>5. QED
  BY <1>1, <1>2, <1>3, <1>4, PickedInvNext, PageCode, LoadedInvHolds, PTL DEF FrontendSpec

=============================================================================
