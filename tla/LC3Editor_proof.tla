--------------------------- MODULE LC3Editor_proof ---------------------------
(***************************************************************************)
(* The block editor and its rows, for every order of clicks, drops and     *)
(* field edits, and every value of the constants.                          *)
(***************************************************************************)
EXTENDS LC3BlockList, SequenceTheorems, TLAPS

FieldNames == {"DR", "SR1", "SR", "BaseR", "mode", "op2", "off6", "nzp", "target", "vector"}
SomeFields == UNION {[D -> UNION {FieldValues(name) : name \in FieldNames}] : D \in SUBSET FieldNames}

Typed(f) ==
    /\ f \in SomeFields
    /\ \A name \in DOMAIN f : f[name] \in FieldValues(name)
    /\ "mode" \in DOMAIN f => (f.mode = "SR2" <=> f.op2.shape = "reg")

SomeBlock == [id : Nat, opcode : OpcodeNames, fields : SomeFields, label : Names \cup {NoName}]

TypedBlock == {b \in SomeBlock : Typed(b.fields) /\ DOMAIN b.fields = DOMAIN DefaultFields(b.opcode)}

EditorInv ==
    /\ program \in Seq(TypedBlock)
    /\ nextId \in Nat \ {0}
    /\ \A i \in DOMAIN program : program[i].id \in 1 .. (nextId - 1)
    /\ IdsUnique

-----------------------------------------------------------------------------
(* Insertion and removal, element by element                               *)

LEMMA Inserted == ASSUME NEW S, NEW s \in Seq(S), NEW e \in S, NEW i \in 1 .. Len(s) + 1
                  PROVE  /\ InsertAt(s, i, e) \in Seq(S)
                         /\ Len(InsertAt(s, i, e)) = Len(s) + 1
                         /\ \A k \in 1 .. Len(s) + 1 :
                               InsertAt(s, i, e)[k] = IF k < i THEN s[k]
                                                      ELSE IF k = i THEN e ELSE s[k - 1]
<1>1. Len(s) \in Nat /\ i \in Nat
  BY LenProperties
<1> DEFINE before == SubSeq(s, 1, i - 1)
           after  == SubSeq(s, i, Len(s))
           front  == before \o <<e>>
<1>2. before \in Seq(S) /\ Len(before) = i - 1 /\ \A k \in 1 .. i - 1 : before[k] = s[k]
  <2>1. CASE i = 1
    BY <1>1, <2>1, SubSeqProperties, SMTT(20)
  <2>2. CASE i > 1
    BY <1>1, <2>2, SubSeqProperties, SMTT(20)
  <2>3. QED
    BY <1>1, <2>1, <2>2
<1>3. /\ after \in Seq(S) /\ Len(after) = Len(s) - i + 1
      /\ \A k \in 1 .. Len(s) - i + 1 : after[k] = s[i + k - 1]
  BY <1>1, SubSeqProperties, SMTT(20)
<1>4. <<e>> \in Seq(S) /\ Len(<<e>>) = 1 /\ <<e>>[1] = e
  OBVIOUS
<1>5. /\ front \in Seq(S) /\ Len(front) = i
      /\ \A k \in 1 .. i : front[k] = IF k < i THEN s[k] ELSE e
  <2> HIDE DEF before
  <2>1. front \in Seq(S) /\ Len(front) = i
    BY <1>1, <1>2, <1>4, ConcatProperties
  <2>2. \A k \in 1 .. i : front[k] = IF k <= Len(before) THEN before[k] ELSE <<e>>[k - Len(before)]
    BY <1>1, <1>2, <1>4, ConcatProperties
  <2>3. QED
    BY <1>1, <1>2, <1>4, <2>1, <2>2
<1>6. InsertAt(s, i, e) = front \o after
  BY DEF InsertAt
<1> HIDE DEF front, after
<1>7. /\ front \o after \in Seq(S) /\ Len(front \o after) = i + Len(after)
      /\ \A k \in 1 .. i + Len(after) :
            (front \o after)[k] = IF k <= i THEN front[k] ELSE after[k - i]
  BY <1>1, <1>3, <1>5, ConcatProperties, SMTT(20)
<1>8. i + Len(after) = Len(s) + 1
  BY <1>1, <1>3
<1>9. ASSUME NEW k \in 1 .. Len(s) + 1
      PROVE  InsertAt(s, i, e)[k] = IF k < i THEN s[k] ELSE IF k = i THEN e ELSE s[k - 1]
  <2>1. k \in Nat /\ InsertAt(s, i, e)[k] = IF k <= i THEN front[k] ELSE after[k - i]
    BY <1>1, <1>6, <1>7, <1>8
  <2>2. CASE k <= i
    BY <1>1, <1>5, <2>1, <2>2
  <2>3. CASE k > i
    <3>1. k - i \in 1 .. Len(s) - i + 1 /\ i + (k - i) - 1 = k - 1
      BY <1>1, <2>1, <2>3
    <3>2. after[k - i] = s[k - 1]
      BY <1>3, <3>1
    <3>3. QED
      BY <1>1, <2>1, <2>3, <3>2
  <2>4. QED
    BY <1>1, <2>1, <2>2, <2>3
<1>10. QED
  BY <1>6, <1>7, <1>8, <1>9

LEMMA Removed == ASSUME NEW S, NEW s \in Seq(S), NEW i \in 1 .. Len(s)
                 PROVE  /\ RemoveAt(s, i) \in Seq(S)
                        /\ Len(RemoveAt(s, i)) = Len(s) - 1
                        /\ \A k \in 1 .. Len(s) - 1 :
                              RemoveAt(s, i)[k] = IF k < i THEN s[k] ELSE s[k + 1]
<1>1. Len(s) \in Nat /\ i \in Nat
  BY LenProperties
<1> DEFINE before == SubSeq(s, 1, i - 1)
           after  == SubSeq(s, i + 1, Len(s))
<1>2. before \in Seq(S) /\ Len(before) = i - 1 /\ \A k \in 1 .. i - 1 : before[k] = s[k]
  <2>1. CASE i = 1
    BY <1>1, <2>1, SubSeqProperties, SMTT(20)
  <2>2. CASE i > 1
    BY <1>1, <2>2, SubSeqProperties, SMTT(20)
  <2>3. QED
    BY <1>1, <2>1, <2>2
<1>3. /\ after \in Seq(S) /\ Len(after) = Len(s) - i
      /\ \A k \in 1 .. Len(s) - i : after[k] = s[i + k]
  BY <1>1, SubSeqProperties, SMTT(20)
<1>4. RemoveAt(s, i) = before \o after
  BY DEF RemoveAt
<1> HIDE DEF before, after
<1>5. /\ before \o after \in Seq(S) /\ Len(before \o after) = (i - 1) + Len(after)
      /\ \A k \in 1 .. (i - 1) + Len(after) :
            (before \o after)[k] = IF k <= i - 1 THEN before[k] ELSE after[k - (i - 1)]
  <2>1. /\ before \o after \in Seq(S) /\ Len(before \o after) = Len(before) + Len(after)
        /\ \A k \in 1 .. Len(before) + Len(after) :
              (before \o after)[k] = IF k <= Len(before) THEN before[k] ELSE after[k - Len(before)]
    BY <1>2, <1>3, ConcatProperties
  <2>2. QED
    BY <1>2, <2>1
<1>6. (i - 1) + Len(after) = Len(s) - 1
  BY <1>1, <1>3
<1>7. ASSUME NEW k \in 1 .. Len(s) - 1
      PROVE  RemoveAt(s, i)[k] = IF k < i THEN s[k] ELSE s[k + 1]
  <2>1. k \in Nat /\ RemoveAt(s, i)[k] = IF k <= i - 1 THEN before[k] ELSE after[k - (i - 1)]
    BY <1>1, <1>4, <1>5, <1>6
  <2>2. CASE k < i
    BY <1>1, <1>2, <2>1, <2>2
  <2>3. CASE k >= i
    <3>1. k - (i - 1) \in 1 .. Len(s) - i /\ i + (k - (i - 1)) = k + 1
      BY <1>1, <2>1, <2>3
    <3>2. after[k - (i - 1)] = s[k + 1]
      BY <1>3, <3>1
    <3>3. QED
      BY <1>1, <2>1, <2>3, <3>2
  <2>4. QED
    BY <1>1, <2>1, <2>2, <2>3
<1>8. QED
  BY <1>4, <1>5, <1>6, <1>7

-----------------------------------------------------------------------------
(* The blocks that are made, and those that an edit of a field gives       *)

LEMMA FieldValuesAre ==
    /\ FieldValues("DR") = RegNum /\ FieldValues("SR1") = RegNum
    /\ FieldValues("SR") = RegNum /\ FieldValues("BaseR") = RegNum
    /\ FieldValues("mode") = {"SR2", "imm"} /\ FieldValues("op2") = Operand
    /\ FieldValues("off6") = Immediates \cup {0}
    /\ FieldValues("nzp") = (SUBSET {"n", "z", "p"}) \ {{}}
    /\ FieldValues("target") = Names \cup {NoName}
    /\ FieldValues("vector") = TrapVectors
  BY DEF FieldValues

LEMMA DefaultsAre ==
    /\ \A opcode \in Operates : DefaultFields(opcode) = [DR |-> 0, SR1 |-> 0, mode |-> "imm", op2 |-> Number(0)]
    /\ \A opcode \in LoadsPC : DefaultFields(opcode) = [DR |-> 0, target |-> NoName]
    /\ \A opcode \in StoresPC : DefaultFields(opcode) = [SR |-> 0, target |-> NoName]
    /\ DefaultFields("NOT") = [DR |-> 0, SR |-> 0]
    /\ DefaultFields("LDR") = [DR |-> 0, BaseR |-> 0, off6 |-> 0]
    /\ DefaultFields("STR") = [SR |-> 0, BaseR |-> 0, off6 |-> 0]
    /\ DefaultFields("BR") = [nzp |-> {"n", "z", "p"}, target |-> NoName]
    /\ DefaultFields("JMP") = [BaseR |-> 7]
    /\ DefaultFields("JSR") = [target |-> NoName]
    /\ DefaultFields("JSRR") = [BaseR |-> 0]
    /\ DefaultFields("TRAP") = [vector |-> 37]
    /\ DefaultFields("HALT") = << >>
<1>1. \A opcode \in Operates : DefaultFields(opcode) = [DR |-> 0, SR1 |-> 0, mode |-> "imm", op2 |-> Number(0)]
  BY DEF DefaultFields, Operates, LoadsPC, StoresPC
<1>2. \A opcode \in LoadsPC : DefaultFields(opcode) = [DR |-> 0, target |-> NoName]
  BY DEF DefaultFields, Operates, LoadsPC, StoresPC
<1>3. \A opcode \in StoresPC : DefaultFields(opcode) = [SR |-> 0, target |-> NoName]
  BY DEF DefaultFields, Operates, LoadsPC, StoresPC
<1>4. DefaultFields("NOT") = [DR |-> 0, SR |-> 0]
  BY DEF DefaultFields, Operates, LoadsPC, StoresPC
<1>5. DefaultFields("LDR") = [DR |-> 0, BaseR |-> 0, off6 |-> 0]
  BY DEF DefaultFields, Operates, LoadsPC, StoresPC
<1>6. DefaultFields("STR") = [SR |-> 0, BaseR |-> 0, off6 |-> 0]
  BY DEF DefaultFields, Operates, LoadsPC, StoresPC
<1>7. DefaultFields("BR") = [nzp |-> {"n", "z", "p"}, target |-> NoName]
  BY DEF DefaultFields, Operates, LoadsPC, StoresPC
<1>8. DefaultFields("JMP") = [BaseR |-> 7]
  BY DEF DefaultFields, Operates, LoadsPC, StoresPC
<1>9. DefaultFields("JSR") = [target |-> NoName]
  BY DEF DefaultFields, Operates, LoadsPC, StoresPC
<1>10. DefaultFields("JSRR") = [BaseR |-> 0]
  BY DEF DefaultFields, Operates, LoadsPC, StoresPC
<1>11. DefaultFields("TRAP") = [vector |-> 37]
  BY DEF DefaultFields, Operates, LoadsPC, StoresPC
<1>12. DefaultFields("HALT") = << >>
  BY DEF DefaultFields, Operates, LoadsPC, StoresPC
<1>13. QED
  BY <1>1, <1>2, <1>3, <1>4, <1>5, <1>6, <1>7, <1>8, <1>9, <1>10, <1>11, <1>12

LEMMA DefaultsTyped == \A opcode \in OpcodeNames : Typed(DefaultFields(opcode))
<1>1. /\ Number(0) \in Operand /\ Number(0).shape = "num"
      /\ {0, 7} \subseteq RegNum /\ 37 \in TrapVectors
      /\ {"n", "z", "p"} \in FieldValues("nzp")
  <2>1. Number(0) \in Operand /\ Number(0).shape = "num"
    BY DEF Operand, Number
  <2>2. {0, 7} \subseteq RegNum /\ 37 \in TrapVectors
    BY DEF RegNum, TrapVectors
  <2>3. {"n", "z", "p"} \in (SUBSET {"n", "z", "p"}) \ {{}}
    OBVIOUS
  <2>4. QED
    BY <2>1, <2>2, <2>3, FieldValuesAre
<1>2. \A opcode \in Operates : Typed(DefaultFields(opcode))
  <2>1. Typed([DR |-> 0, SR1 |-> 0, mode |-> "imm", op2 |-> Number(0)])
    BY <1>1, FieldValuesAre, SMTT(20) DEF Typed, SomeFields, FieldNames
  <2>2. QED
    BY <2>1, DefaultsAre
<1>3. \A opcode \in LoadsPC : Typed(DefaultFields(opcode))
  <2>1. Typed([DR |-> 0, target |-> NoName])
    BY <1>1, FieldValuesAre DEF Typed, SomeFields, FieldNames
  <2>2. QED
    BY <2>1, DefaultsAre
<1>4. \A opcode \in StoresPC : Typed(DefaultFields(opcode))
  <2>1. Typed([SR |-> 0, target |-> NoName])
    BY <1>1, FieldValuesAre DEF Typed, SomeFields, FieldNames
  <2>2. QED
    BY <2>1, DefaultsAre
<1>5. Typed(DefaultFields("NOT"))
  <2>1. Typed([DR |-> 0, SR |-> 0])
    BY <1>1, FieldValuesAre DEF Typed, SomeFields, FieldNames
  <2>2. QED
    BY <2>1, DefaultsAre
<1>6. Typed(DefaultFields("LDR"))
  <2>1. Typed([DR |-> 0, BaseR |-> 0, off6 |-> 0])
    BY <1>1, FieldValuesAre DEF Typed, SomeFields, FieldNames
  <2>2. QED
    BY <2>1, DefaultsAre
<1>7. Typed(DefaultFields("STR"))
  <2>1. Typed([SR |-> 0, BaseR |-> 0, off6 |-> 0])
    BY <1>1, FieldValuesAre DEF Typed, SomeFields, FieldNames
  <2>2. QED
    BY <2>1, DefaultsAre
<1>8. Typed(DefaultFields("BR"))
  <2> DEFINE f == [nzp |-> {"n", "z", "p"}, target |-> NoName]
  <2>1. Typed(f)
    <3>1. \A name \in DOMAIN f : f[name] \in FieldValues(name)
      BY <1>1, FieldValuesAre
    <3>2. f \in SomeFields
      BY <3>1 DEF SomeFields, FieldNames
    <3>3. QED
      BY <3>1, <3>2 DEF Typed
  <2>2. QED
    BY <2>1, DefaultsAre
<1>9. Typed(DefaultFields("JMP"))
  <2>1. Typed([BaseR |-> 7])
    BY <1>1, FieldValuesAre DEF Typed, SomeFields, FieldNames
  <2>2. QED
    BY <2>1, DefaultsAre
<1>10. Typed(DefaultFields("JSR"))
  <2>1. Typed([target |-> NoName])
    BY <1>1, FieldValuesAre DEF Typed, SomeFields, FieldNames
  <2>2. QED
    BY <2>1, DefaultsAre
<1>11. Typed(DefaultFields("JSRR"))
  <2>1. Typed([BaseR |-> 0])
    BY <1>1, FieldValuesAre DEF Typed, SomeFields, FieldNames
  <2>2. QED
    BY <2>1, DefaultsAre
<1>12. Typed(DefaultFields("TRAP"))
  <2>1. Typed([vector |-> 37])
    BY <1>1, FieldValuesAre DEF Typed, SomeFields, FieldNames
  <2>2. QED
    BY <2>1, DefaultsAre
<1>13. Typed(DefaultFields("HALT"))
  <2>1. Typed(<< >>)
    <3>1. DOMAIN << >> = {} /\ << >> \in [{} -> UNION {FieldValues(name) : name \in FieldNames}]
      OBVIOUS
    <3>2. << >> \in SomeFields
      BY <3>1 DEF SomeFields
    <3>3. QED
      BY <3>1, <3>2 DEF Typed
  <2>2. QED
    BY <2>1, DefaultsAre
<1>14. QED
  BY <1>2, <1>3, <1>4, <1>5, <1>6, <1>7, <1>8, <1>9, <1>10, <1>11, <1>12, <1>13 DEF OpcodeNames

LEMMA TypedIntro == ASSUME NEW opcode \in OpcodeNames, NEW id \in Nat,
                           NEW label \in Names \cup {NoName}, NEW f, Typed(f),
                           DOMAIN f = DOMAIN DefaultFields(opcode)
                    PROVE  [id |-> id, opcode |-> opcode, fields |-> f, label |-> label] \in TypedBlock
  BY DEF TypedBlock, SomeBlock, Typed

LEMMA MadeTyped == ASSUME NEW opcode \in OpcodeNames, NEW id \in Nat
                   PROVE  makeBlock(opcode, id) \in TypedBlock /\ makeBlock(opcode, id).id = id
  BY DefaultsTyped, TypedIntro DEF makeBlock

LEMMA KeyedTyped == ASSUME NEW b \in TypedBlock, NEW id \in Nat
                    PROVE  [b EXCEPT !.id = id] \in TypedBlock /\ [b EXCEPT !.id = id].id = id
  BY DEF TypedBlock, SomeBlock

LEMMA LabelledTyped == ASSUME NEW b \in TypedBlock, NEW label \in Names \cup {NoName}
                       PROVE  /\ [b EXCEPT !.label = label] \in TypedBlock
                              /\ [b EXCEPT !.label = label].id = b.id
  BY DEF TypedBlock, SomeBlock

LEMMA RefilledTyped == ASSUME NEW b \in TypedBlock, NEW f, Typed(f), DOMAIN f = DOMAIN b.fields
                       PROVE  /\ [b EXCEPT !.fields = f] \in TypedBlock
                              /\ [b EXCEPT !.fields = f].id = b.id
  BY DEF TypedBlock, SomeBlock, Typed

LEMMA FieldTyped == ASSUME NEW f, Typed(f), NEW name \in DOMAIN f, NEW v \in FieldValues(name),
                           name # "mode",
                           name = "op2" => (f.mode = "SR2" <=> v.shape = "reg")
                    PROVE  Typed([f EXCEPT ![name] = v])
<1> DEFINE g == [f EXCEPT ![name] = v]
<1>1. DOMAIN f \subseteq FieldNames /\ f \in [DOMAIN f -> UNION {FieldValues(m) : m \in FieldNames}]
  BY DEF Typed, SomeFields
<1>2. g \in SomeFields
  BY <1>1 DEF SomeFields
<1>3. \A m \in DOMAIN g : g[m] \in FieldValues(m)
  BY <1>1 DEF Typed
<1>4. "mode" \in DOMAIN g => (g.mode = "SR2" <=> g.op2.shape = "reg")
  BY <1>1 DEF Typed
<1>5. QED
  BY <1>2, <1>3, <1>4 DEF Typed

-----------------------------------------------------------------------------
(* Presets                                                                 *)

LEMMA AluTyped == ASSUME NEW dr \in RegNum, NEW sr1 \in RegNum, NEW op2 \in Operand
                  PROVE  /\ Typed(Alu(dr, sr1, op2))
                         /\ DOMAIN Alu(dr, sr1, op2) = {"DR", "SR1", "mode", "op2"}
<1> DEFINE f == Alu(dr, sr1, op2)
<1>1. /\ DOMAIN f = {"DR", "SR1", "mode", "op2"}
      /\ f = [DR |-> dr, SR1 |-> sr1, mode |-> f.mode, op2 |-> op2]
      /\ f.mode \in {"SR2", "imm"}
      /\ f.mode = "SR2" <=> op2.shape = "reg"
  BY DEF Alu
<1> HIDE DEF f
<1>2. \A name \in DOMAIN f : f[name] \in FieldValues(name)
  BY <1>1, FieldValuesAre
<1>3. f \in SomeFields
  BY <1>1, <1>2 DEF SomeFields, FieldNames
<1>4. Typed(f)
  BY <1>1, <1>2, <1>3 DEF Typed
<1>5. QED
  BY <1>1, <1>4 DEF f

LEMMA BlockTyped == ASSUME NEW opcode \in OpcodeNames, NEW f, Typed(f),
                           DOMAIN f = DOMAIN DefaultFields(opcode), NEW label \in Names \cup {NoName}
                    PROVE  Block(opcode, f, label) \in TypedBlock
  BY TypedIntro DEF Block

LEMMA AluBlockTyped == ASSUME NEW opcode \in Operates, NEW dr \in RegNum, NEW sr1 \in RegNum,
                              NEW op2 \in Operand, NEW label \in Names \cup {NoName}
                       PROVE  Block(opcode, Alu(dr, sr1, op2), label) \in TypedBlock
<1>1. opcode \in OpcodeNames /\ DOMAIN DefaultFields(opcode) = {"DR", "SR1", "mode", "op2"}
  BY DefaultsAre DEF OpcodeNames
<1>2. QED
  BY <1>1, AluTyped, BlockTyped

LEMMA PresetTyped == ASSUME NEW name \in Presets
                     PROVE  PresetBlocks(name) \in Seq(TypedBlock)
<1>1. \A v \in {-1, 0, 3, 5} : Number(v) \in Operand
  BY DEF Operand
<1>2. Register(0) \in Operand /\ Register(1) \in Operand /\ {0, 1, 2} \subseteq RegNum
  BY DEF Operand, RegNum
<1>3. NoName \in Names \cup {NoName} /\ {"ADD", "AND"} \subseteq Operates
  BY DEF Operates
<1>4. HaltBlock \in TypedBlock
  BY <1>3, DefaultsTyped, BlockTyped DEF HaltBlock, OpcodeNames
<1>5. CASE name = "countdown"
  <2> DEFINE f == [nzp |-> {"p"}, target |-> "LOOP"]
  <2>1. "LOOP" \in Names
    BY <1>5, EditorAssumption
  <2>2. \A m \in DOMAIN f : f[m] \in FieldValues(m)
    <3>1. {"p"} \in (SUBSET {"n", "z", "p"}) \ {{}}
      OBVIOUS
    <3>2. QED
      BY <2>1, <3>1, FieldValuesAre
  <2>3. f \in SomeFields
    BY <2>2 DEF SomeFields, FieldNames
  <2>4. Typed(f) /\ DOMAIN f = DOMAIN DefaultFields("BR")
    BY <2>2, <2>3, DefaultsAre DEF Typed
  <2>5. Block("BR", f, NoName) \in TypedBlock
    BY <2>4, <1>3, BlockTyped DEF OpcodeNames
  <2>6. /\ Block("AND", Alu(0, 0, Number(0)), NoName) \in TypedBlock
        /\ Block("ADD", Alu(0, 0, Number(5)), NoName) \in TypedBlock
        /\ Block("AND", Alu(1, 1, Number(0)), NoName) \in TypedBlock
        /\ Block("ADD", Alu(1, 1, Register(0)), "LOOP") \in TypedBlock
        /\ Block("ADD", Alu(0, 0, Number(-1)), NoName) \in TypedBlock
    BY <1>1, <1>2, <1>3, <2>1, AluBlockTyped
  <2>7. QED
    BY <1>5, <2>5, <2>6, <1>4 DEF PresetBlocks
<1>6. CASE name = "addtwo"
  <2>1. /\ Block("ADD", Alu(0, 0, Number(5)), NoName) \in TypedBlock
        /\ Block("ADD", Alu(1, 1, Number(3)), NoName) \in TypedBlock
        /\ Block("ADD", Alu(2, 0, Register(1)), NoName) \in TypedBlock
    BY <1>1, <1>2, <1>3, AluBlockTyped
  <2>2. QED
    BY <1>6, <2>1, <1>4 DEF PresetBlocks
<1>7. CASE name = "notreg"
  <2>1. Block("NOT", [DR |-> 0, SR |-> 0], NoName) \in TypedBlock
    <3>1. "NOT" \in OpcodeNames /\ DefaultFields("NOT") = [DR |-> 0, SR |-> 0]
      BY DefaultsAre DEF OpcodeNames
    <3>2. QED
      BY <1>3, <3>1, DefaultsTyped, BlockTyped
  <2>2. Block("AND", Alu(0, 0, Number(0)), NoName) \in TypedBlock
    BY <1>1, <1>2, <1>3, AluBlockTyped
  <2>3. QED
    BY <1>7, <2>1, <2>2, <1>4 DEF PresetBlocks
<1>8. QED
  BY <1>5, <1>6, <1>7, EditorAssumption

-----------------------------------------------------------------------------
(* Each handler keeps the blocks typed and their ids apart                 *)

LEMMA Places == ASSUME program \in Seq(TypedBlock)
                PROVE  /\ Len(program) \in Nat
                       /\ DOMAIN program = 1 .. Len(program)
                       /\ \A i \in DOMAIN program : program[i] \in TypedBlock
  BY LenProperties, ElementOfSeq

\* What EditorInv asks of the next state, in its parts
LEMMA NextInv == ASSUME program' \in Seq(TypedBlock), nextId' \in Nat \ {0},
                        \A i \in DOMAIN program' : program'[i].id \in 1 .. (nextId' - 1),
                        \A i, j \in DOMAIN program' : program'[i].id = program'[j].id => i = j
                 PROVE  EditorInv'
  BY DEF EditorInv, IdsUnique

LEMMA InsertInv == ASSUME EditorInv, NEW opcode \in Opcodes, NEW place \in 1 .. Len(program) + 1,
                          InsertNew(opcode, place)
                   PROVE  EditorInv'
<1> DEFINE e == makeBlock(opcode, nextId)
<1>1. program \in Seq(TypedBlock) /\ nextId \in Nat \ {0}
  BY DEF EditorInv
<1>2. e \in TypedBlock /\ e.id = nextId
  BY <1>1, MadeTyped, EditorAssumption
<1> HIDE DEF e
<1>3. program' = InsertAt(program, place, e) /\ nextId' = nextId + 1
  BY DEF InsertNew, e
<1>4. /\ program' \in Seq(TypedBlock) /\ Len(program') = Len(program) + 1
      /\ \A k \in 1 .. Len(program) + 1 :
            program'[k] = IF k < place THEN program[k] ELSE IF k = place THEN e ELSE program[k - 1]
  <2> DEFINE s == program
  <2>1. s \in Seq(TypedBlock) /\ place \in 1 .. Len(s) + 1
    BY <1>1
  <2> HIDE DEF s
  <2>2. /\ InsertAt(s, place, e) \in Seq(TypedBlock)
        /\ Len(InsertAt(s, place, e)) = Len(s) + 1
        /\ \A k \in 1 .. Len(s) + 1 :
              InsertAt(s, place, e)[k]
                 = IF k < place THEN s[k] ELSE IF k = place THEN e ELSE s[k - 1]
    BY <1>2, <2>1, Inserted
  <2>3. QED
    BY <1>3, <2>2 DEF s
<1>5. Len(program) \in Nat /\ DOMAIN program = 1 .. Len(program)
  BY <1>1, Places
<1>6. DOMAIN program' = 1 .. Len(program) + 1
  BY <1>4, LenProperties
<1>7. \A i \in 1 .. Len(program) : program[i].id \in 1 .. (nextId - 1)
  BY <1>5 DEF EditorInv
<1>8. \A i, j \in 1 .. Len(program) : program[i].id = program[j].id => i = j
  BY <1>5 DEF EditorInv, IdsUnique
<1>9. \A i \in DOMAIN program' : program'[i].id \in 1 .. (nextId' - 1)
  <2> SUFFICES ASSUME NEW i \in DOMAIN program'
               PROVE  program'[i].id \in 1 .. nextId
    BY <1>1, <1>3
  <2>1. CASE i < place
    <3>1. i \in 1 .. Len(program) /\ program'[i] = program[i]
      BY <1>1, <1>4, <1>5, <1>6, <2>1
    <3>2. QED
      BY <1>1, <1>7, <3>1
  <2>2. CASE i = place
    BY <1>1, <1>2, <1>4, <2>2
  <2>3. CASE i > place
    <3>1. i - 1 \in 1 .. Len(program) /\ program'[i] = program[i - 1]
      BY <1>1, <1>4, <1>5, <1>6, <2>3
    <3>2. QED
      BY <1>1, <1>7, <3>1
  <2>4. QED
    BY <1>1, <1>5, <1>6, <2>1, <2>2, <2>3
<1> DEFINE Origin(k) == IF k < place THEN k ELSE k - 1
<1>10. \A i, j \in DOMAIN program' : program'[i].id = program'[j].id => i = j
  <2>1. \A k \in DOMAIN program' \ {place} :
           Origin(k) \in 1 .. Len(program) /\ program'[k] = program[Origin(k)]
    BY <1>4, <1>5, <1>6
  <2>2. \A k, m \in DOMAIN program' \ {place} : Origin(k) = Origin(m) => k = m
    BY <1>5, <1>6
  <2>3. program'[place].id = nextId
    BY <1>2, <1>4
  <2> HIDE DEF Origin
  <2>4. \A k \in DOMAIN program' \ {place} : program'[k].id # nextId
    BY <1>1, <1>7, <2>1
  <2>5. QED
    BY <1>8, <2>1, <2>2, <2>3, <2>4
<1>11. QED
  BY <1>1, <1>3, <1>4, <1>9, <1>10, NextInv

LEMMA DeleteInv == ASSUME EditorInv, NEW i \in DOMAIN program, deleteBlock(i)
                   PROVE  EditorInv'
<1>1. program \in Seq(TypedBlock) /\ nextId \in Nat \ {0}
  BY DEF EditorInv
<1>2. Len(program) \in Nat /\ DOMAIN program = 1 .. Len(program)
  BY <1>1, Places
<1>3. /\ program' \in Seq(TypedBlock) /\ Len(program') = Len(program) - 1
      /\ \A k \in 1 .. Len(program) - 1 : program'[k] = IF k < i THEN program[k] ELSE program[k + 1]
  BY <1>1, <1>2, Removed DEF deleteBlock
<1>4. DOMAIN program' = 1 .. Len(program) - 1 /\ nextId' = nextId
  BY <1>3, LenProperties DEF deleteBlock
<1>5. \A k \in 1 .. Len(program) : program[k].id \in 1 .. (nextId - 1)
  BY <1>2 DEF EditorInv
<1>6. \A k, m \in 1 .. Len(program) : program[k].id = program[m].id => k = m
  BY <1>2 DEF EditorInv, IdsUnique
<1>7. \A k \in DOMAIN program' : program'[k].id \in 1 .. (nextId' - 1)
  BY <1>2, <1>3, <1>4, <1>5
<1> DEFINE Origin(k) == IF k < i THEN k ELSE k + 1
<1>8. \A k, m \in DOMAIN program' : program'[k].id = program'[m].id => k = m
  <2>1. \A k \in DOMAIN program' :
           Origin(k) \in 1 .. Len(program) /\ program'[k] = program[Origin(k)]
    BY <1>2, <1>3, <1>4
  <2>2. \A k, m \in DOMAIN program' : Origin(k) = Origin(m) => k = m
    BY <1>2, <1>4
  <2> HIDE DEF Origin
  <2>3. QED
    BY <1>6, <2>1, <2>2
<1>9. QED
  BY <1>1, <1>3, <1>4, <1>7, <1>8, NextInv

LEMMA Moved == ASSUME EditorInv, NEW from \in DOMAIN program, NEW target \in 1 .. Len(program) + 1,
                      dropMove(from, target)
               PROVE  LET place == IF from < target THEN target - 1 ELSE target
                          rest  == RemoveAt(program, from)
                      IN  /\ rest \in Seq(TypedBlock) /\ Len(rest) = Len(program) - 1
                          /\ \A k \in 1 .. Len(program) - 1 :
                                rest[k] = IF k < from THEN program[k] ELSE program[k + 1]
                          /\ place \in 1 .. Len(program)
                          /\ program' \in Seq(TypedBlock) /\ Len(program') = Len(program)
                          /\ \A k \in 1 .. Len(program) :
                                program'[k] = IF k < place THEN rest[k]
                                              ELSE IF k = place THEN program[from] ELSE rest[k - 1]
<1> DEFINE place == IF from < target THEN target - 1 ELSE target
           rest  == RemoveAt(program, from)
           e     == program[from]
<1>1. program \in Seq(TypedBlock) /\ nextId \in Nat \ {0}
  BY DEF EditorInv
<1>2. Len(program) \in Nat /\ DOMAIN program = 1 .. Len(program) /\ e \in TypedBlock
  BY <1>1, Places
<1>3. /\ rest \in Seq(TypedBlock) /\ Len(rest) = Len(program) - 1
      /\ \A k \in 1 .. Len(program) - 1 : rest[k] = IF k < from THEN program[k] ELSE program[k + 1]
  BY <1>1, <1>2, Removed
<1>4. program' = InsertAt(rest, place, e) /\ nextId' = nextId /\ place \in 1 .. Len(program)
  BY <1>2 DEF dropMove
<1> HIDE DEF rest, place
<1>5. /\ program' \in Seq(TypedBlock) /\ Len(program') = Len(program)
      /\ \A k \in 1 .. Len(program) :
            program'[k] = IF k < place THEN rest[k] ELSE IF k = place THEN e ELSE rest[k - 1]
  <2>1. Len(rest) + 1 = Len(program) /\ place \in 1 .. Len(rest) + 1
    BY <1>2, <1>3, <1>4
  <2>2. /\ InsertAt(rest, place, e) \in Seq(TypedBlock)
        /\ Len(InsertAt(rest, place, e)) = Len(rest) + 1
        /\ \A k \in 1 .. Len(rest) + 1 :
              InsertAt(rest, place, e)[k]
                 = IF k < place THEN rest[k] ELSE IF k = place THEN e ELSE rest[k - 1]
    BY ONLY <1>2, <1>3, <2>1, Inserted
  <2>3. QED
    BY <1>4, <2>1, <2>2
<1>6. QED
  BY <1>3, <1>4, <1>5 DEF rest, place

LEMMA MoveInv == ASSUME EditorInv, NEW from \in DOMAIN program, NEW target \in 1 .. Len(program) + 1,
                        dropMove(from, target)
                 PROVE  EditorInv'
<1> DEFINE place == IF from < target THEN target - 1 ELSE target
           rest  == RemoveAt(program, from)
<1>1. program \in Seq(TypedBlock) /\ nextId \in Nat \ {0} /\ nextId' = nextId
  BY DEF EditorInv, dropMove
<1>2. Len(program) \in Nat /\ DOMAIN program = 1 .. Len(program)
  BY <1>1, Places
<1>3. /\ \A k \in 1 .. Len(program) - 1 : rest[k] = IF k < from THEN program[k] ELSE program[k + 1]
      /\ place \in 1 .. Len(program)
      /\ program' \in Seq(TypedBlock) /\ Len(program') = Len(program)
      /\ \A k \in 1 .. Len(program) :
            program'[k] = IF k < place THEN rest[k] ELSE IF k = place THEN program[from] ELSE rest[k - 1]
  BY Moved
<1> HIDE DEF rest, place
<1>4. DOMAIN program' = 1 .. Len(program)
  BY <1>3, LenProperties
<1> DEFINE Origin(k) == IF k = place THEN from
                        ELSE LET m == IF k < place THEN k ELSE k - 1
                             IN  IF m < from THEN m ELSE m + 1
<1>5. \A k \in 1 .. Len(program) :
         Origin(k) \in 1 .. Len(program) /\ program'[k] = program[Origin(k)]
  BY <1>2, <1>3
<1>6. \A k, m \in 1 .. Len(program) : Origin(k) = Origin(m) => k = m
  BY <1>2, <1>3
<1> HIDE DEF Origin
<1>7. \A k \in DOMAIN program' : program'[k].id \in 1 .. (nextId' - 1)
  BY <1>1, <1>2, <1>4, <1>5 DEF EditorInv
<1>8. \A k, m \in DOMAIN program' : program'[k].id = program'[m].id => k = m
  <2>1. \A i, j \in 1 .. Len(program) : program[i].id = program[j].id => i = j
    BY <1>2 DEF EditorInv, IdsUnique
  <2>2. ASSUME NEW k \in 1 .. Len(program), NEW m \in 1 .. Len(program),
               program'[k].id = program'[m].id
        PROVE  k = m
    <3>1. /\ Origin(k) \in 1 .. Len(program) /\ Origin(m) \in 1 .. Len(program)
          /\ program[Origin(k)].id = program[Origin(m)].id
      BY <1>5, <2>2
    <3>2. QED
      BY <1>6, <2>1, <3>1
  <2>3. QED
    BY <1>4, <2>2
<1>9. QED
  BY <1>1, <1>3, <1>7, <1>8, NextInv

LEMMA PresetInv == ASSUME EditorInv, NEW name \in Presets, loadPreset(name)
                   PROVE  EditorInv'
<1> DEFINE blocks == PresetBlocks(name)
           first  == nextId + Len(blocks)
<1>1. nextId \in Nat \ {0}
  BY DEF EditorInv
<1>2. blocks \in Seq(TypedBlock) /\ Len(blocks) \in Nat /\ DOMAIN blocks = 1 .. Len(blocks)
  BY PresetTyped, LenProperties
<1>3. /\ program' = [i \in DOMAIN blocks |-> [blocks[i] EXCEPT !.id = first + i - 1]]
      /\ nextId' = first + Len(blocks)
  BY DEF loadPreset
<1> HIDE DEF blocks
<1>4. \A i \in 1 .. Len(blocks) : /\ program'[i] \in TypedBlock
                                  /\ program'[i].id = first + i - 1
  <2> TAKE i \in 1 .. Len(blocks)
  <2>1. blocks[i] \in TypedBlock /\ first + i - 1 \in Nat
    BY <1>1, <1>2, ElementOfSeq
  <2>2. program'[i] = [blocks[i] EXCEPT !.id = first + i - 1]
    BY <1>2, <1>3
  <2>3. QED
    BY <2>1, <2>2, KeyedTyped
<1>5. DOMAIN program' = 1 .. Len(blocks)
  BY <1>2, <1>3
<1>6. program' \in Seq(TypedBlock)
  BY <1>2, <1>3, <1>4, IsASeq
<1>7. QED
  BY <1>1, <1>2, <1>3, <1>4, <1>5, <1>6, NextInv

LEMMA ReplacedInv == ASSUME EditorInv, NEW i \in DOMAIN program, NEW c \in TypedBlock,
                            c.id = program[i].id,
                            program' = [program EXCEPT ![i] = c], nextId' = nextId
                     PROVE  EditorInv'
<1>1. program \in Seq(TypedBlock) /\ nextId \in Nat \ {0}
  BY DEF EditorInv
<1>2. /\ program' \in Seq(TypedBlock) /\ DOMAIN program' = DOMAIN program
      /\ \A k \in DOMAIN program : program'[k].id = program[k].id
  BY <1>1, Places, ExceptSeq
<1>3. QED
  BY <1>1, <1>2, NextInv DEF EditorInv, IdsUnique

LEMMA RefillInv == ASSUME EditorInv, NEW i \in DOMAIN program, NEW f, Typed(f),
                          DOMAIN f = DOMAIN program[i].fields,
                          program' = [program EXCEPT ![i] = [program[i] EXCEPT !.fields = f]],
                          nextId' = nextId
                   PROVE  EditorInv'
<1>1. program[i] \in TypedBlock
  BY Places DEF EditorInv
<1>2. /\ [program[i] EXCEPT !.fields = f] \in TypedBlock
      /\ [program[i] EXCEPT !.fields = f].id = program[i].id
  BY <1>1, RefilledTyped
<1>3. QED
  BY <1>2, ReplacedInv

LEMMA SetFieldInv == ASSUME EditorInv, NEW i \in DOMAIN program, NEW name, NEW v,
                            SetField(i, name, v), v \in FieldValues(name), name # "mode",
                            name = "op2" => (program[i].fields.mode = "SR2" <=> v.shape = "reg")
                     PROVE  EditorInv'
<1> DEFINE f == [program[i].fields EXCEPT ![name] = v]
<1>1. program[i] \in TypedBlock
  BY Places DEF EditorInv
<1>2. Typed(program[i].fields) /\ name \in DOMAIN program[i].fields
  BY <1>1 DEF TypedBlock, SetField, Has
<1>3. Typed(f) /\ DOMAIN f = DOMAIN program[i].fields
  BY <1>2, FieldTyped
<1>4. program' = [program EXCEPT ![i] = [program[i] EXCEPT !.fields = f]] /\ nextId' = nextId
  BY DEF SetField
<1>5. QED
  BY <1>3, <1>4, RefillInv

LEMMA SetLabelInv == ASSUME EditorInv, NEW i \in DOMAIN program, NEW label \in Names \cup {NoName},
                            SetLabel(i, label)
                     PROVE  EditorInv'
<1>1. program[i] \in TypedBlock
  BY Places DEF EditorInv
<1>2. /\ [program[i] EXCEPT !.label = label] \in TypedBlock
      /\ [program[i] EXCEPT !.label = label].id = program[i].id
  BY <1>1, LabelledTyped
<1>3. program' = [program EXCEPT ![i] = [program[i] EXCEPT !.label = label]] /\ nextId' = nextId
  BY DEF SetLabel
<1>4. QED
  BY <1>2, <1>3, ReplacedInv

LEMMA ModeInv == ASSUME EditorInv, NEW i \in DOMAIN program, NEW mode \in {"SR2", "imm"},
                        chooseMode(i, mode)
                 PROVE  EditorInv'
<1> DEFINE g == program[i].fields
           op2 == g.op2
           fitting == CASE mode = "SR2" /\ op2.shape # "reg" -> Register(0)
                        [] mode = "imm" /\ op2.shape = "reg" -> Number(0)
                        [] OTHER -> op2
           f == [g EXCEPT !.mode = mode, !.op2 = fitting]
<1>1. program[i] \in TypedBlock
  BY Places DEF EditorInv
<1>2. Typed(g) /\ DOMAIN g = DOMAIN DefaultFields(program[i].opcode) /\ program[i].opcode \in OpcodeNames
  BY <1>1 DEF TypedBlock, SomeBlock
<1>3. "mode" \in DOMAIN g
  BY DEF chooseMode, Has
<1>4. "op2" \in DOMAIN g
  BY <1>2, <1>3, DefaultsAre DEF OpcodeNames
<1>5. op2 \in Operand
  BY <1>2, <1>4, FieldValuesAre DEF Typed
<1>6. /\ Register(0) \in Operand /\ Register(0).shape = "reg"
      /\ Number(0) \in Operand /\ Number(0).shape = "num"
  BY DEF Operand, Register, Number, RegNum
<1>7. fitting \in Operand /\ (mode = "SR2" <=> fitting.shape = "reg")
  BY <1>5, <1>6
<1>8. program' = [program EXCEPT ![i] = [program[i] EXCEPT !.fields = f]] /\ nextId' = nextId
  BY DEF chooseMode
<1> HIDE DEF fitting, g
<1>9. DOMAIN g \subseteq FieldNames /\ g \in [DOMAIN g -> UNION {FieldValues(m) : m \in FieldNames}]
  BY <1>2 DEF Typed, SomeFields
<1>10. DOMAIN f = DOMAIN g /\ \A m \in DOMAIN g : f[m] \in FieldValues(m)
  BY <1>2, <1>7, <1>9, FieldValuesAre DEF Typed
<1>11. f \in SomeFields
  BY <1>9, <1>10 DEF SomeFields
<1>12. f.mode = mode /\ f.op2 = fitting
  BY <1>3, <1>4
<1>13. Typed(f)
  BY <1>7, <1>10, <1>11, <1>12 DEF Typed
<1>14. QED
  BY <1>8, <1>10, <1>13, RefillInv DEF g

-----------------------------------------------------------------------------

LEMMA ArrangeInv == EditorInv /\ Arrange => EditorInv'
<1> SUFFICES ASSUME EditorInv, Arrange PROVE EditorInv'
  OBVIOUS
<1>1. program \in Seq(TypedBlock) /\ Len(program) \in Nat
  BY Places DEF EditorInv
<1>2. ASSUME NEW opcode \in Opcodes, clickPalette(opcode) PROVE EditorInv'
  <2>1. Len(program) + 1 \in 1 .. Len(program) + 1
    BY <1>1
  <2>2. QED
    BY <1>2, <2>1, InsertInv DEF clickPalette
<1>3. ASSUME NEW opcode \in Opcodes, NEW target \in 1 .. Len(program) + 1, dropNew(opcode, target)
      PROVE  EditorInv'
  BY <1>3, InsertInv DEF dropNew
<1>4. ASSUME clear PROVE EditorInv'
  <2>1. program' = << >> /\ nextId' = nextId /\ nextId \in Nat \ {0}
    BY <1>4 DEF clear, EditorInv
  <2>2. program' \in Seq(TypedBlock) /\ DOMAIN program' = {}
    BY <2>1
  <2>3. QED
    BY <2>1, <2>2, NextInv
<1>5. QED
  BY <1>2, <1>3, <1>4, MoveInv, DeleteInv, PresetInv DEF Arrange

LEMMA LabelInv == EditorInv /\ Label => EditorInv'
<1>1. \A text \in Texts : Trimmed[text] \in Names \cup {NoName}
  BY EditorAssumption
<1>2. QED
  BY <1>1, SetLabelInv DEF Label, addLabel, nameBlock, removeLabel

LEMMA FillInv == EditorInv /\ Fill => EditorInv'
<1> SUFFICES ASSUME EditorInv, NEW i \in DOMAIN program,
                    \/ \E name \in {"DR", "SR1", "SR", "BaseR"}, r \in Registers : chooseRegister(i, name, r)
                    \/ \E mode \in {"SR2", "imm"} : chooseMode(i, mode)
                    \/ \E r \in Registers : chooseSR2(i, r)
                    \/ \E v \in Immediates : typeImm5(i, v) \/ typeOff6(i, v)
                    \/ \E boxes \in SUBSET {"n", "z", "p"} : checkNZP(i, boxes)
                    \/ \E target \in {NoName} \cup LabelsOf(program) \cup Texts : chooseTarget(i, target)
                    \/ \E v \in TrapVectors : chooseVector(i, v)
             PROVE  EditorInv'
  BY DEF Fill
<1>1. ASSUME NEW name \in {"DR", "SR1", "SR", "BaseR"}, NEW r \in Registers, chooseRegister(i, name, r)
      PROVE  EditorInv'
  BY <1>1, SetFieldInv, FieldValuesAre, EditorAssumption DEF chooseRegister
<1>2. ASSUME NEW r \in Registers, chooseSR2(i, r) PROVE EditorInv'
  <2>1. Register(r) \in FieldValues("op2") /\ Register(r).shape = "reg"
    BY FieldValuesAre, EditorAssumption DEF Operand, Register
  <2>2. QED
    BY <1>2, <2>1, SetFieldInv DEF chooseSR2
<1>3. ASSUME NEW v \in Immediates, typeImm5(i, v) PROVE EditorInv'
  <2>1. Number(v) \in FieldValues("op2") /\ Number(v).shape = "num"
    BY FieldValuesAre DEF Operand, Number
  <2>2. QED
    BY <1>3, <2>1, SetFieldInv DEF typeImm5
<1>4. ASSUME NEW v \in Immediates, typeOff6(i, v) PROVE EditorInv'
  BY <1>4, SetFieldInv, FieldValuesAre DEF typeOff6
<1>5. ASSUME NEW boxes \in SUBSET {"n", "z", "p"}, checkNZP(i, boxes) PROVE EditorInv'
  <2> DEFINE stored == IF boxes = {} THEN {"n", "z", "p"} ELSE boxes
  <2>1. stored \in (SUBSET {"n", "z", "p"}) \ {{}}
    OBVIOUS
  <2>2. stored \in FieldValues("nzp")
    BY <2>1, FieldValuesAre
  <2>3. QED
    BY <1>5, <2>2, SetFieldInv DEF checkNZP
<1>6. ASSUME NEW target \in {NoName} \cup LabelsOf(program) \cup Texts, chooseTarget(i, target)
      PROVE  EditorInv'
  <2>1. LabelsOf(program) \subseteq Names
    BY Places DEF EditorInv, LabelsOf, TypedBlock, SomeBlock
  <2>2. target \in FieldValues("target")
    BY <2>1, FieldValuesAre, EditorAssumption
  <2>3. QED
    BY <1>6, <2>2, SetFieldInv DEF chooseTarget
<1>7. ASSUME NEW v \in TrapVectors, chooseVector(i, v) PROVE EditorInv'
  BY <1>7, SetFieldInv, FieldValuesAre DEF chooseVector
<1>8. QED
  BY <1>1, <1>2, <1>3, <1>4, <1>5, <1>6, <1>7, ModeInv

LEMMA EditorInvHolds == EditorSpec => []EditorInv
<1>1. EditorInit => EditorInv
  BY EmptySeq DEF EditorInit, EditorInv, IdsUnique
<1>2. EditorInv /\ [EditorNext]_editorVars => EditorInv'
  <2>1. EditorInv /\ EditorNext => EditorInv'
    BY ArrangeInv, LabelInv, FillInv DEF EditorNext
  <2>2. EditorInv /\ UNCHANGED editorVars => EditorInv'
    BY DEF EditorInv, IdsUnique, editorVars
  <2>3. QED
    BY <2>1, <2>2
<1>3. QED
  BY <1>1, <1>2, PTL DEF EditorSpec

(* Every block has the fields of its opcode, each with a value its control *)
(* gives, and an id that was handed out (renderField, script.js:303-396).  *)
THEOREM EditorTypes == EditorSpec => []EditorTypeOK
<1>1. EditorInv => EditorTypeOK
  BY Places DEF EditorInv, EditorTypeOK, TypedBlock, SomeBlock, Typed
<1>2. QED
  BY <1>1, EditorInvHolds, PTL

(* No two blocks share an id, which is what delete, drag and highlighting  *)
(* find a block by (script.js:186, 233, 254-271).                          *)
THEOREM IdsStayUnique == EditorSpec => []IdsUnique
<1>1. EditorInv => IdsUnique
  BY DEF EditorInv
<1>2. QED
  BY <1>1, EditorInvHolds, PTL

(* op2 of ADD and AND has the shape that the mode reads (script.js:319-330)*)
THEOREM OperandFitsMode == EditorSpec => []ModeReadsOperand
<1>1. EditorInv => ModeReadsOperand
  BY Places DEF EditorInv, ModeReadsOperand, TypedBlock, Typed, Has
<1>2. QED
  BY <1>1, EditorInvHolds, PTL

LEMMA DropLands ==
    ASSUME EditorInv, NEW from \in DOMAIN program, NEW target \in 1 .. Len(program) + 1,
           dropMove(from, target)
    PROVE  \E k \in DOMAIN program' :
              /\ program'[k] = program[from]
              /\ RemoveAt(program', k) = RemoveAt(program, from)
              /\ IF target > Len(program)
                 THEN k = Len(program')
                 ELSE k < Len(program') /\ program'[k + 1] = program[target]
<1> DEFINE place == IF from < target THEN target - 1 ELSE target
           rest  == RemoveAt(program, from)
<1>1. Len(program) \in Nat /\ DOMAIN program = 1 .. Len(program)
  BY Places DEF EditorInv
<1>2. /\ rest \in Seq(TypedBlock) /\ Len(rest) = Len(program) - 1
      /\ \A k \in 1 .. Len(program) - 1 : rest[k] = IF k < from THEN program[k] ELSE program[k + 1]
      /\ place \in 1 .. Len(program)
      /\ program' \in Seq(TypedBlock) /\ Len(program') = Len(program)
      /\ \A k \in 1 .. Len(program) :
            program'[k] = IF k < place THEN rest[k] ELSE IF k = place THEN program[from] ELSE rest[k - 1]
  BY Moved
<1>3. /\ from # target
      /\ target > Len(program) => place = Len(program)
      /\ target <= Len(program) => \/ target < from /\ place = target
                                   \/ from < target /\ place = target - 1
  <2>1. from # target
    BY DEF dropMove
  <2>2. from \in Nat /\ target \in Nat /\ from <= Len(program) /\ target <= Len(program) + 1
    BY <1>1
  <2>3. place = IF from < target THEN target - 1 ELSE target
    OBVIOUS
  <2> HIDE DEF place
  <2>4. Len(program) \in Nat
    BY <1>1
  <2>5. CASE from < target
    BY <2>2, <2>3, <2>4, <2>5
  <2>6. CASE target < from
    BY <2>2, <2>3, <2>4, <2>6
  <2>7. QED
    BY <2>1, <2>2, <2>5, <2>6
<1> HIDE DEF rest, place
<1>4. DOMAIN program' = 1 .. Len(program) /\ program'[place] = program[from]
  BY <1>2, LenProperties
<1>5. RemoveAt(program', place) = rest
  <2>1. /\ RemoveAt(program', place) \in Seq(TypedBlock)
        /\ Len(RemoveAt(program', place)) = Len(program) - 1
        /\ \A k \in 1 .. Len(program) - 1 :
              RemoveAt(program', place)[k] = IF k < place THEN program'[k] ELSE program'[k + 1]
    <3>1. program' \in Seq(TypedBlock) /\ place \in 1 .. Len(program') /\ Len(program') = Len(program)
      BY <1>2
    <3>2. QED
      BY <3>1, Removed
  <2>2. \A k \in 1 .. Len(program) - 1 : RemoveAt(program', place)[k] = rest[k]
    BY <1>1, <1>2, <2>1
  <2>3. QED
    BY <1>2, <2>1, <2>2, SeqEqual
<1>6. CASE target > Len(program)
  BY <1>2, <1>3, <1>4, <1>5, <1>6 DEF rest
<1>7. CASE target <= Len(program)
  <2>1. place < Len(program) /\ program'[place + 1] = rest[place]
    <3>1. place \in Nat /\ place < Len(program)
      <4>1. /\ from \in Nat /\ from <= Len(program) /\ target \in Nat
            /\ Len(program) \in Nat /\ place \in Nat
        BY <1>1, <1>2
      <4>2. QED
        BY <1>3, <1>7, <4>1
    <3>2. place + 1 \in 1 .. Len(program) /\ ~(place + 1 < place) /\ place + 1 # place
      BY <1>1, <3>1
    <3>3. program'[place + 1] = rest[(place + 1) - 1]
      BY <1>2, <3>2
    <3>4. QED
      BY <3>1, <3>3
  <2>2. place \in 1 .. Len(program) - 1
    BY <1>1, <1>2, <2>1
  <2>3. rest[place] = IF place < from THEN program[place] ELSE program[place + 1]
    BY <1>2, <2>2
  <2>4. from \in Nat /\ target \in Nat
    BY <1>1
  <2>5. rest[place] = program[target]
    BY <1>3, <1>7, <2>2, <2>3, <2>4
  <2>6. place \in DOMAIN program' /\ ~(target > Len(program)) /\ place < Len(program')
    BY <1>1, <1>2, <1>4, <1>7, <2>1
  <2>7. QED
    BY <1>4, <1>5, <2>1, <2>5, <2>6 DEF rest
<1>8. QED
  BY <1>1, <1>6, <1>7

(* A dragged block lands right before the block it was dropped on, from    *)
(* above and from below alike (script.js:406-430).                         *)
THEOREM DropsLand == EditorSpec => DropLandsBeforeTarget
<1>1. EditorInv =>
        \A from \in DOMAIN program, target \in 1 .. Len(program) + 1 :
           dropMove(from, target) =>
              \E k \in DOMAIN program' :
                 /\ program'[k] = program[from]
                 /\ RemoveAt(program', k) = RemoveAt(program, from)
                 /\ IF target > Len(program)
                    THEN k = Len(program')
                    ELSE k < Len(program') /\ program'[k + 1] = program[target]
  BY DropLands
<1>2. QED
  BY <1>1, EditorInvHolds, PTL DEF DropLandsBeforeTarget

-----------------------------------------------------------------------------
(* The rows.  Each stands for the block at its place, so what is done from *)
(* a row is one of the editor's operations on that block.                  *)

SomeRow ==
    [id : Nat, opcode : OpcodeNames, label : Names \cup {NoName},
     fields : UNION {[D -> (UNION {FieldValues(name) : name \in FieldNames}) \cup {{}}] :
                         D \in SUBSET FieldNames}]

ListInv ==
    /\ EditorInv
    /\ rows \in Seq(SomeRow)
    /\ ListShowsProgram

StoredFields(f) ==
    IF "nzp" \in DOMAIN f /\ f.nzp = {} THEN [f EXCEPT !.nzp = {"n", "z", "p"}] ELSE f

LEMMA StoredIs == ASSUME NEW row \in SomeRow
                  PROVE  Stored(row) = [row EXCEPT !.fields = StoredFields(row.fields)]
<1>1. CASE "nzp" \in DOMAIN row.fields /\ row.fields.nzp = {}
  BY <1>1 DEF Stored, StoredFields
<1>2. CASE ~ ("nzp" \in DOMAIN row.fields /\ row.fields.nzp = {})
  BY <1>2 DEF Stored, StoredFields, SomeRow
<1>3. QED
  BY <1>1, <1>2

LEMMA StoredParts == ASSUME NEW row \in SomeRow
                     PROVE  /\ Stored(row).id = row.id
                            /\ Stored(row).label = row.label
                            /\ Stored(row).fields = StoredFields(row.fields)
  BY StoredIs DEF SomeRow

LEMMA TypedIsRow == ASSUME NEW b \in TypedBlock
                    PROVE  b \in SomeRow /\ Stored(b) = b
<1>1. b \in SomeBlock /\ Typed(b.fields)
  BY DEF TypedBlock
<1>2. PICK D \in SUBSET FieldNames : b.fields \in [D -> UNION {FieldValues(name) : name \in FieldNames}]
  BY <1>1 DEF Typed, SomeFields
<1>3. b.fields \in [D -> (UNION {FieldValues(name) : name \in FieldNames}) \cup {{}}]
  BY <1>2
<1>4. b \in SomeRow
  BY <1>1, <1>3 DEF SomeBlock, SomeRow
<1>5. "nzp" \in DOMAIN b.fields => b.fields.nzp # {}
  BY <1>1, FieldValuesAre DEF Typed
<1>6. QED
  BY <1>4, <1>5 DEF Stored

LEMMA DrawnInv == ASSUME EditorInv', rows' = program'
                  PROVE  ListInv'
<1>1. /\ program' \in Seq(TypedBlock) /\ DOMAIN program' = 1 .. Len(program')
      /\ \A k \in DOMAIN program' : program'[k] \in TypedBlock
  <2>1. program' \in Seq(TypedBlock)
    BY DEF EditorInv
  <2>2. QED
    BY <2>1, LenProperties, ElementOfSeq
<1>2. \A k \in DOMAIN program' : program'[k] \in SomeRow /\ program'[k] = Stored(program'[k])
  BY <1>1, TypedIsRow
<1>3. TypedBlock \subseteq SomeRow
  BY TypedIsRow
<1>4. rows' \in Seq(SomeRow)
  BY <1>1, <1>3, SeqMonotonic
<1>5. ListShowsProgram'
  BY <1>2 DEF ListShowsProgram
<1>6. QED
  BY <1>4, <1>5 DEF ListInv

\* What a row and the block it stands for have in common
LEMMA RowOfBlock == ASSUME ListInv, NEW k \in DOMAIN rows
                    PROVE  /\ k \in DOMAIN program /\ rows[k] \in SomeRow
                           /\ program[k] \in TypedBlock
                           /\ program[k] = [rows[k] EXCEPT !.fields = StoredFields(rows[k].fields)]
                           /\ Owner(k) = {k}
                           /\ rows[k].label = program[k].label
                           /\ program[k].fields = StoredFields(rows[k].fields)
                           /\ DOMAIN rows[k].fields = DOMAIN program[k].fields
                           /\ \A name \in DOMAIN rows[k].fields :
                                 name # "nzp" => rows[k].fields[name] = program[k].fields[name]
<1>1. program \in Seq(TypedBlock) /\ rows \in Seq(SomeRow)
  BY DEF ListInv, EditorInv
<1>2. /\ DOMAIN program = 1 .. Len(program) /\ DOMAIN rows = 1 .. Len(program)
      /\ rows[k] \in SomeRow /\ program[k] = Stored(rows[k]) /\ program[k] \in TypedBlock
  <2>1. Len(rows) = Len(program)
    BY DEF ListInv, ListShowsProgram
  <2>2. DOMAIN program = 1 .. Len(program) /\ DOMAIN rows = 1 .. Len(program)
    BY <1>1, <2>1, LenProperties
  <2>3. QED
    BY <1>1, <2>1, <2>2, ElementOfSeq DEF ListInv, ListShowsProgram
<1>3. /\ program[k] = [rows[k] EXCEPT !.fields = StoredFields(rows[k].fields)]
      /\ program[k].id = rows[k].id /\ program[k].label = rows[k].label
      /\ program[k].fields = StoredFields(rows[k].fields)
  BY <1>2, StoredIs, StoredParts
<1>4. Owner(k) = {k}
  BY <1>2, <1>3 DEF Owner, ListInv, EditorInv, IdsUnique
<1>5. /\ DOMAIN rows[k].fields = DOMAIN program[k].fields
      /\ \A name \in DOMAIN rows[k].fields :
            name # "nzp" => rows[k].fields[name] = program[k].fields[name]
  BY <1>3 DEF StoredFields
<1>6. QED
  BY <1>2, <1>3, <1>4, <1>5

AllBoxes(boxes) == IF boxes = {} THEN {"n", "z", "p"} ELSE boxes

IsFunction(f) == f = [m \in DOMAIN f |-> f[m]]
Edited(f, name, v) == [f EXCEPT ![name] = v]

LEMMA StoredEdit == ASSUME NEW f, NEW v, NEW w, IsFunction(f), NEW name \in DOMAIN f,
                           w = IF name = "nzp" THEN AllBoxes(v) ELSE v
                    PROVE  StoredFields(Edited(f, name, v)) = Edited(StoredFields(f), name, w)
<1> USE DEF IsFunction, Edited
<1> DEFINE g == [f EXCEPT ![name] = v]
           D == DOMAIN f
           all == {"n", "z", "p"}
<1>1. DOMAIN g = D /\ g = [m \in D |-> IF m = name THEN v ELSE f[m]]
  OBVIOUS
<1>2. StoredFields(f) = [m \in D |-> IF m = "nzp" /\ f[m] = {} THEN all ELSE f[m]]
  BY <1>1 DEF StoredFields
<1>3. StoredFields(g) = [m \in D |-> IF m = "nzp" /\ g[m] = {} THEN all ELSE g[m]]
  BY <1>1 DEF StoredFields
<1>4. [StoredFields(f) EXCEPT ![name] = w]
         = [m \in D |-> IF m = name THEN w ELSE StoredFields(f)[m]]
  BY <1>2
<1>5. \A m \in D : (IF m = "nzp" /\ g[m] = {} THEN all ELSE g[m])
                     = IF m = name THEN w ELSE StoredFields(f)[m]
  BY <1>1, <1>2 DEF AllBoxes
<1>6. StoredFields(g) = [m \in D |-> IF m = name THEN w ELSE StoredFields(f)[m]]
  BY <1>3, <1>5
<1>7. QED
  BY <1>4, <1>6

LEMMA StoreInv == ASSUME ListInv, EditorInv', NEW k \in DOMAIN rows, NEW name, NEW v, NEW w,
                         name \in DOMAIN rows[k].fields,
                         SetField(k, name, w), Shows(k, name, v),
                         \/ name # "nzp" /\ w = v /\ v \in FieldValues(name)
                         \/ name = "nzp" /\ w = AllBoxes(v) /\ v \in SUBSET {"n", "z", "p"}
                  PROVE  ListInv'
<1> DEFINE Contents == (UNION {FieldValues(m) : m \in FieldNames}) \cup {{}}
           f == rows[k].fields
           g == [f EXCEPT ![name] = v]
           row == [rows[k] EXCEPT !.fields = g]
<1>1. rows[k] \in SomeRow /\ program[k].fields = StoredFields(f) /\ k \in DOMAIN program
      /\ program[k] = [rows[k] EXCEPT !.fields = StoredFields(f)]
  BY RowOfBlock
<1>2. PICK D \in SUBSET FieldNames : f \in [D -> Contents]
  BY <1>1 DEF SomeRow
<1>3. name \in D /\ name \in FieldNames
  BY <1>2
<1>4. v \in Contents
  <2>1. CASE name # "nzp"
    BY <1>3, <2>1
  <2>2. CASE name = "nzp"
    <3>1. v \in {{}} \/ v \in (SUBSET {"n", "z", "p"}) \ {{}}
      BY <2>2
    <3>2. v \in {{}} \/ \E m \in FieldNames : v \in FieldValues(m)
      BY <1>3, <2>2, <3>1, FieldValuesAre
    <3>3. ASSUME NEW m \in FieldNames, v \in FieldValues(m) PROVE v \in Contents
      BY <3>3
    <3>4. v \in {{}} => v \in Contents
      OBVIOUS
    <3> HIDE DEF Contents
    <3>5. QED
      BY <3>2, <3>3, <3>4
  <2>3. QED
    BY <2>1, <2>2
<1>5. g \in [D -> Contents]
  BY <1>2, <1>3, <1>4
<1>6. row \in SomeRow
  BY <1>1, <1>5 DEF SomeRow
<1>7. rows' = [rows EXCEPT ![k] = row]
  BY DEF Shows
<1>8. program' = [program EXCEPT ![k] = [program[k] EXCEPT !.fields = [program[k].fields EXCEPT ![name] = w]]]
  BY DEF SetField
<1>9. StoredFields(g) = [StoredFields(f) EXCEPT ![name] = w]
  <2>1. w = IF name = "nzp" THEN AllBoxes(v) ELSE v
    OBVIOUS
  <2>2. IsFunction(f) /\ name \in DOMAIN f
    BY <1>2 DEF IsFunction
  <2> HIDE DEF f
  <2>3. StoredFields(Edited(f, name, v)) = Edited(StoredFields(f), name, w)
    BY <2>1, <2>2, StoredEdit
  <2>4. QED
    BY <2>3 DEF Edited
<1>10. Stored(row) = [row EXCEPT !.fields = StoredFields(row.fields)]
  BY <1>6, StoredIs
<1>11. row.fields = g
  BY <1>1 DEF SomeRow
<1> HIDE DEF g
<1>12. [row EXCEPT !.fields = StoredFields(g)] = [program[k] EXCEPT !.fields = StoredFields(g)]
  BY <1>1 DEF SomeRow
<1>13. program' = [program EXCEPT ![k] = Stored(row)]
  BY <1>1, <1>8, <1>9, <1>10, <1>11, <1>12
<1> HIDE DEF row
<1>14. /\ rows \in Seq(SomeRow) /\ program \in Seq(TypedBlock) /\ Len(rows) = Len(program)
       /\ \A m \in DOMAIN program : program[m] = Stored(rows[m])
  BY DEF ListInv, EditorInv, ListShowsProgram
<1>15. rows' \in Seq(SomeRow) /\ Len(rows') = Len(rows)
  BY <1>6, <1>7, <1>14, ExceptSeq
<1>16. DOMAIN program = 1 .. Len(program) /\ DOMAIN rows = 1 .. Len(program)
  BY <1>14, LenProperties
<1>17. DOMAIN program' = DOMAIN program /\ Len(program') = Len(program)
  <2>1. program' \in Seq(TypedBlock)
    BY DEF EditorInv
  <2>2. DOMAIN program' = DOMAIN program
    BY <1>13
  <2>3. QED
    BY <1>14, <2>1, <2>2, LenProperties
<1>18. \A m \in DOMAIN program' : program'[m] = Stored(rows'[m])
  BY <1>7, <1>13, <1>14, <1>16, <1>17
<1>19. QED
  BY <1>14, <1>15, <1>17, <1>18 DEF ListInv, ListShowsProgram

-----------------------------------------------------------------------------
(* The handlers that store a value                                         *)

\* The operation of the editor that a control comes to, and what it stores
LEMMA StoreFieldIs == ASSUME ListInv, NEW k \in DOMAIN rows, StoreField(k)
                      PROVE  /\ Fill
                             /\ \E name \in DOMAIN rows[k].fields : \E v, w :
                                   /\ SetField(k, name, w) /\ Shows(k, name, v)
                                   /\ \/ name # "nzp" /\ w = v /\ v \in FieldValues(name)
                                      \/ name = "nzp" /\ w = AllBoxes(v) /\ v \in SUBSET {"n", "z", "p"}
<1> DEFINE f == program[k].fields
           Stores == \E name \in DOMAIN rows[k].fields : \E v, w :
                        /\ SetField(k, name, w) /\ Shows(k, name, v)
                        /\ \/ name # "nzp" /\ w = v /\ v \in FieldValues(name)
                           \/ name = "nzp" /\ w = AllBoxes(v) /\ v \in SUBSET {"n", "z", "p"}
<1>1. /\ k \in DOMAIN program /\ Owner(k) = {k} /\ DOMAIN rows[k].fields = DOMAIN f
      /\ f = StoredFields(rows[k].fields)
      /\ \A name \in DOMAIN rows[k].fields : name # "nzp" => rows[k].fields[name] = f[name]
  BY RowOfBlock
<1>2. program[k] \in TypedBlock
  BY RowOfBlock
<1>3. /\ Typed(f)
      /\ "op2" \in DOMAIN f => "mode" \in DOMAIN f
  <2>1. /\ Typed(f) /\ program[k].opcode \in OpcodeNames
        /\ DOMAIN f = DOMAIN DefaultFields(program[k].opcode)
    BY <1>2 DEF TypedBlock, SomeBlock
  <2>2. "op2" \in DOMAIN f => "mode" \in DOMAIN f
    BY <2>1, DefaultsAre DEF OpcodeNames
  <2>3. QED
    BY <2>1, <2>2
<1>4. ASSUME NEW name \in DOMAIN rows[k].fields, NEW v, storeField(k, name, v),
             name # "nzp", v \in FieldValues(name)
      PROVE  SetField(k, name, v) /\ Stores
  BY <1>1, <1>4 DEF storeField
<1> HIDE DEF Stores
<1>5. ASSUME NEW name \in {"DR", "SR1", "SR", "BaseR"}, NEW r \in Registers, storeField(k, name, r)
      PROVE  Fill /\ Stores
  <2>1. name \in DOMAIN rows[k].fields /\ r \in FieldValues(name) /\ name # "nzp"
    BY <1>5, FieldValuesAre, EditorAssumption DEF storeField, HasControl
  <2>2. SetField(k, name, r) /\ Stores
    BY <1>4, <1>5, <2>1
  <2>3. QED
    BY <1>1, <2>2 DEF Fill, chooseRegister
<1>6. ASSUME NEW r \in Registers, pickOperand(k, r) PROVE Fill /\ Stores
  <2>1. /\ "op2" \in DOMAIN rows[k].fields /\ rows[k].fields.op2.shape = "reg"
        /\ storeField(k, "op2", Register(r))
    BY <1>6 DEF pickOperand, HasControl
  <2>2. Register(r) \in FieldValues("op2")
    BY FieldValuesAre, EditorAssumption DEF Operand
  <2>3. SetField(k, "op2", Register(r)) /\ Stores
    BY <1>4, <2>1, <2>2
  <2>4. f.mode = "SR2" /\ Has(k, "op2")
    BY <1>1, <1>3, <2>1 DEF Typed, Has
  <2>5. QED
    BY <1>1, <2>3, <2>4 DEF Fill, chooseSR2
<1>7. ASSUME NEW v \in Immediates, typeOperand(k, v) PROVE Fill /\ Stores
  <2>1. /\ "op2" \in DOMAIN rows[k].fields /\ rows[k].fields.op2.shape # "reg"
        /\ storeField(k, "op2", Number(v))
    BY <1>7 DEF typeOperand, HasControl
  <2>2. Number(v) \in FieldValues("op2")
    BY FieldValuesAre DEF Operand
  <2>3. SetField(k, "op2", Number(v)) /\ Stores
    BY <1>4, <2>1, <2>2
  <2>4. f.mode = "imm" /\ Has(k, "op2")
    BY <1>1, <1>3, <2>1, FieldValuesAre DEF Typed, Has
  <2>5. QED
    BY <1>1, <2>3, <2>4 DEF Fill, typeImm5
<1>8. ASSUME NEW v \in Immediates, storeField(k, "off6", v) PROVE Fill /\ Stores
  <2>1. "off6" \in DOMAIN rows[k].fields /\ v \in FieldValues("off6")
    BY <1>8, FieldValuesAre DEF storeField, HasControl
  <2>2. SetField(k, "off6", v) /\ Stores
    BY <1>4, <1>8, <2>1
  <2>3. QED
    BY <1>1, <2>2 DEF Fill, typeOff6
<1>9. ASSUME NEW c \in {"n", "z", "p"}, clickBox(k, c) PROVE Fill /\ Stores
  <2> DEFINE boxes == Toggled(rows[k].fields.nzp, c)
  <2>1. "nzp" \in DOMAIN rows[k].fields
    BY <1>9 DEF clickBox, HasControl
  <2>2. rows[k].fields.nzp \in SUBSET {"n", "z", "p"}
    <3>1. CASE rows[k].fields.nzp = {}
      BY <3>1
    <3>2. CASE rows[k].fields.nzp # {}
      <4>1. f.nzp = rows[k].fields.nzp
        BY <1>1, <3>2 DEF StoredFields
      <4>2. f.nzp \in FieldValues("nzp")
        BY <1>1, <1>3, <2>1 DEF Typed
      <4>3. QED
        BY <4>1, <4>2, FieldValuesAre
    <3>3. QED
      BY <3>1, <3>2
  <2>3. boxes \in SUBSET {"n", "z", "p"}
    BY <2>2 DEF Toggled
  <2>4. checkNZP(k, boxes) /\ Shows(k, "nzp", boxes)
    BY <1>1, <1>9 DEF clickBox
  <2>5. SetField(k, "nzp", AllBoxes(boxes))
    BY <2>4 DEF checkNZP, AllBoxes
  <2>6. Stores
    BY <2>1, <2>3, <2>4, <2>5 DEF Stores
  <2> HIDE DEF boxes
  <2>7. QED
    BY <1>1, <2>3, <2>4, <2>6 DEF Fill
<1>10. ASSUME NEW v \in TrapVectors, storeField(k, "vector", v) PROVE Fill /\ Stores
  <2>1. "vector" \in DOMAIN rows[k].fields /\ v \in FieldValues("vector")
    BY <1>10, FieldValuesAre DEF storeField, HasControl
  <2>2. SetField(k, "vector", v) /\ Stores
    BY <1>4, <1>10, <2>1
  <2>3. QED
    BY <1>1, <2>2 DEF Fill, chooseVector
<1>11. QED
  BY <1>5, <1>6, <1>7, <1>8, <1>9, <1>10 DEF StoreField, Stores

LEMMA StoringInv == ListInv /\ Storing => Fill /\ ListInv'
<1> SUFFICES ASSUME ListInv, NEW k \in DOMAIN rows, StoreField(k)
             PROVE  Fill /\ ListInv'
  BY DEF Storing
<1>1. Fill
  BY StoreFieldIs
<1>2. EditorInv'
  BY <1>1, FillInv DEF ListInv
<1>3. QED
  BY <1>1, <1>2, StoreFieldIs, StoreInv

-----------------------------------------------------------------------------
(* The handlers that draw the list again                                   *)

LEMMA RowLabels == ListInv => /\ DOMAIN rows = DOMAIN program
                             /\ LabelsOf(rows) = LabelsOf(program)
<1> SUFFICES ASSUME ListInv PROVE /\ DOMAIN rows = DOMAIN program
                                  /\ LabelsOf(rows) = LabelsOf(program)
  OBVIOUS
<1>1. DOMAIN rows = DOMAIN program
  BY LenProperties DEF ListInv, EditorInv, ListShowsProgram
<1>2. QED
  BY <1>1, RowOfBlock DEF LabelsOf

LEMMA RedrawingIs == ASSUME ListInv, Redrawing
                     PROVE  rows' = program' /\ (EditorNext \/ UNCHANGED editorVars)
<1>1. DOMAIN rows = DOMAIN program /\ LabelsOf(rows) = LabelsOf(program)
  BY RowLabels
<1>2. \A k \in DOMAIN rows : Owner(k) = {k} /\ rows[k].label = program[k].label
  BY RowOfBlock
<1>3. ASSUME ArrangeRows PROVE rows' = program' /\ Arrange
  <2>1. DOMAIN program = 1 .. Len(program) /\ Len(program) \in Nat
    BY LenProperties DEF ListInv, EditorInv
  <2>2. DOMAIN rows \cup {Len(program) + 1} = 1 .. Len(program) + 1
    BY <1>1, <2>1
  <2>3. QED
    BY <1>1, <1>2, <1>3, <2>2 DEF ArrangeRows, renderProgram, Arrange
<1>4. ASSUME NEW k \in DOMAIN rows, LabelRow(k) PROVE rows' = program' /\ Label
  <2>1. k \in DOMAIN program /\ Owner(k) = {k} /\ rows[k].label = program[k].label
    BY <1>1, <1>2
  <2>2. QED
    BY <1>4, <2>1 DEF LabelRow, renderProgram, Label, removeLabel, addLabel
<1>5. ASSUME NEW k \in DOMAIN rows, RedrawField(k)
      PROVE  rows' = program' /\ (Fill \/ UNCHANGED editorVars)
  <2>1. k \in DOMAIN program /\ Owner(k) = {k}
    BY <1>1, <1>2
  <2>2. ASSUME pickTarget(k) PROVE rows' = program' /\ (Fill \/ UNCHANGED editorVars)
    BY <1>1, <2>1, <2>2 DEF pickTarget, renderProgram, Fill
  <2>3. ASSUME NEW mode \in {"SR2", "imm"}, pickMode(k, mode) PROVE rows' = program' /\ Fill
    BY <2>1, <2>3 DEF pickMode, renderProgram, Fill
  <2>4. QED
    BY <1>5, <2>2, <2>3 DEF RedrawField
<1>6. QED
  BY <1>3, <1>4, <1>5 DEF Redrawing, EditorNext

LEMMA RedrawingInv == ListInv /\ Redrawing => ListInv'
<1> SUFFICES ASSUME ListInv, Redrawing PROVE ListInv'
  OBVIOUS
<1>1. rows' = program' /\ (EditorNext \/ UNCHANGED editorVars)
  BY RedrawingIs
<1>2. EditorNext => EditorInv'
  BY ArrangeInv, LabelInv, FillInv DEF EditorNext, ListInv
<1>3. UNCHANGED editorVars => EditorInv'
  BY DEF ListInv, EditorInv, IdsUnique, editorVars
<1>4. QED
  BY <1>1, <1>2, <1>3, DrawnInv

LEMMA ListStutter == ListInv /\ UNCHANGED listVars => ListInv'
  BY DEF listVars, editorVars, ListInv, EditorInv, IdsUnique, ListShowsProgram

LEMMA ListInitInv == ListInit => ListInv
<1> SUFFICES ASSUME ListInit PROVE ListInv
  OBVIOUS
<1>1. program = << >> /\ rows = << >> /\ nextId = 1
  BY DEF ListInit, EditorInit
<1>2. EditorInv /\ rows \in Seq(SomeRow)
  BY <1>1, EmptySeq DEF EditorInv, IdsUnique
<1>3. ListShowsProgram
  BY <1>1 DEF ListShowsProgram
<1>4. QED
  BY <1>2, <1>3 DEF ListInv

LEMMA ListInvHolds == ListSpec => []ListInv
<1>1. ListInv /\ [ListNext]_listVars => ListInv'
  BY StoringInv, RedrawingInv, ListStutter DEF ListNext
<1>2. QED
  BY <1>1, ListInitInv, PTL DEF ListSpec

(* What is loaded is what the rows show (script.js:239-396).               *)
THEOREM RowsShowProgram == ListSpec => []ListShowsProgram
<1>1. ListInv => ListShowsProgram
  BY DEF ListInv
<1>2. QED
  BY <1>1, ListInvHolds, PTL

(* The rows implement the editor: whatever is done from a row is one of    *)
(* the editor's operations on the block it shows (script.js:239-396).      *)
THEOREM RowsImplementEditor == ListSpec => EditorSpec
<1>1. ListInit => EditorInit
  BY DEF ListInit
<1>2. ListInv /\ [ListNext]_listVars => [EditorNext]_editorVars
  <2>1. ListInv /\ ListNext => [EditorNext]_editorVars
    BY StoringInv, RedrawingIs DEF ListNext, EditorNext
  <2>2. UNCHANGED listVars => UNCHANGED editorVars
    BY DEF listVars
  <2>3. QED
    BY <2>1, <2>2
<1>3. QED
  BY <1>1, <1>2, ListInvHolds, PTL DEF ListSpec, EditorSpec

=============================================================================
