---------------------------- MODULE LC3View_proof ----------------------------
(***************************************************************************)
(* The whole page: its machine stays one the CPU's own proofs are about,   *)
(* what is done from the rows is an edit of the driver, and what is drawn  *)
(* is the machine and the program as they are.                             *)
(***************************************************************************)
EXTENDS LC3View, LC3Frontend_proof, LC3Session_proof, LC3Assembler_proof

(* The machine is only ever stepped, or given the words of a program that  *)
(* encodes; no more is known of the program than what the editor keeps.    *)
LoadedInv == Inv /\ EditorInv /\ Short

LEMMA OrigIsWord == ORIG \in Word
<1>1. ORIG = 12288 /\ WordSize = 65536
  BY DEF ORIG, WordSize
<1>2. QED
  BY <1>1 DEF Word

(* The cast of the length loses nothing of a program that fits in memory.  *)
LEMMA WholeProgramLoaded == ASSUME EditorInv, Short, Encodes(program)
                            PROVE  Image.words = Words(program) /\ Image.words \in Seq(Word)
<1> DEFINE w == Words(program)
<1>1. w \in Seq(Word) /\ Len(w) \in Nat
  BY WordsAreWords, LenProperties
<1>2. Len(w) < 65536 /\ WordSize = 65536
  <2>1. DOMAIN w = DOMAIN program
    BY DEF Words
  <2>2. Len(w) = Len(program)
    BY <1>1, <2>1, Places, LenProperties DEF EditorInv
  <2>3. QED
    BY <2>2, <1>1, BoundIs DEF Short, WordSize
<1>3. Image.words = SubSeq(w, 1, Len(w) % WordSize)
  BY DEF Image, loadProgram
<1> HIDE DEF w
<1>4. Len(w) % WordSize = Len(w)
  BY <1>1, <1>2
<1>5. SubSeq(w, 1, Len(w)) = w
  <2>1. /\ SubSeq(w, 1, Len(w)) \in Seq(Word)
        /\ Len(SubSeq(w, 1, Len(w))) = Len(w)
        /\ \A i \in 1 .. Len(w) : SubSeq(w, 1, Len(w))[i] = w[i]
    BY <1>1, SubSeqProperties, SMTT(20)
  <2>2. QED
    BY <1>1, <2>1, SeqEqual
<1>6. QED
  BY <1>1, <1>3, <1>4, <1>5 DEF w

LEMMA ReloadKeepsInv == ASSUME LoadedInv, Refusal = "", Reload(Image)
                        PROVE  Inv'
<1>1. Encodes(program)
  BY DEF Refusal
<1>2. Image.words \in Seq(Word)
  BY <1>1, WholeProgramLoaded DEF LoadedInv
<1>3. ORIG \in Word
  BY OrigIsWord
<1>4. Image.start = ORIG
  BY DEF Image
<1>5. IsMemory(Contents(Image))
  BY <1>2, <1>3, <1>4, ClearIsMemory, LoadIsMemory DEF Contents
<1>6. QED
  BY <1>3, <1>4, <1>5, RestartInv DEF Reload

LEMMA CycleKeepsInv == ASSUME Inv, Cycle PROVE Inv'
  BY StepInv DEF Cycle, BoundedStep

LEMMA IdleKeepsInv == ASSUME Inv, UNCHANGED cpuVars PROVE Inv'
  BY StutterInv DEF cpuVars

LEMMA MachineInv == LoadedInv /\ [FrontendNext]_allVars => Inv'
<1> SUFFICES ASSUME LoadedInv, [FrontendNext]_allVars PROVE Inv'
  OBVIOUS
<1>0. Inv
  BY DEF LoadedInv
<1>1. CASE boot \/ clickPause \/ edit \/ UNCHANGED allVars
  BY <1>0, <1>1, IdleKeepsInv DEF boot, clickPause, edit, allVars
<1>2. CASE loadAndReset
  BY <1>0, <1>2, ReloadKeepsInv, IdleKeepsInv DEF loadAndReset
<1>3. CASE clickStepCycle \/ stepInstruction
  BY <1>0, <1>3, CycleKeepsInv DEF clickStepCycle, stepInstruction, stepCycle
<1>4. CASE startRun \/ fireTimeout
  BY <1>0, <1>4, CycleKeepsInv, IdleKeepsInv DEF startRun, fireTimeout, tick
<1>5. QED
  BY <1>1, <1>2, <1>3, <1>4 DEF FrontendNext, Handlers

LEMMA ProgramStep == [FrontendNext]_allVars => [EditorNext]_editorVars
  BY DEF FrontendNext, Handlers, boot, loadAndReset, clickStepCycle, stepInstruction,
     startRun, fireTimeout, clickPause, edit, allVars

LEMMA LoadedInvHolds == FrontendSpec => []LoadedInv
<1>1. FrontendInit => EditorInit /\ Inv
  BY InitInv DEF FrontendInit
<1>2. FrontendSpec => EditorSpec
  BY <1>1, ProgramStep, PTL DEF FrontendSpec, EditorSpec
<1>3. FrontendSpec => []EditorInv /\ []Short
  BY <1>2, EditorInvHolds, ShortHolds, PTL
<1>4. Inv /\ EditorInv /\ Short /\ [FrontendNext]_allVars => Inv'
  BY MachineInv DEF LoadedInv
<1>5. QED
  BY <1>1, <1>3, <1>4, PTL DEF FrontendSpec, LoadedInv

-----------------------------------------------------------------------------
(* The machine under the page is one of the sessions of LC3Session, when   *)
(* those may be given any program.                                         *)

AnyProgram == Images = [words : Seq(Word), start : Word] /\ Reloads = Images

LEMMA NothingLoaded == Contents([words |-> << >>, start |-> Origin]) = ClearMemory
<1>1. Covered(<< >>, Origin) = {}
  BY DEF Covered, Origin
<1>2. QED
  BY <1>1 DEF Contents, LoadMem, ClearMemory

LEMMA PageSessionInit == ASSUME AnyProgram PROVE FrontendInit => SessionInit
<1> SUFFICES ASSUME FrontendInit PROVE SessionInit
  OBVIOUS
<1> DEFINE image == [words |-> << >>, start |-> Origin]
<1>1. Origin \in Word
  BY DEF Origin, Word, WordSize
<1>2. << >> \in Seq(Word)
  BY EmptySeq
<1>3. image \in Images
  BY <1>1, <1>2 DEF AnyProgram
<1>4. PowerOn(image.start, Contents(image))
  BY NothingLoaded DEF FrontendInit, Init
<1>5. QED
  BY <1>3, <1>4 DEF SessionInit

LEMMA PageSessionStep == ASSUME AnyProgram
                         PROVE  LoadedInv /\ [FrontendNext]_allVars => [SessionNext]_vars
<1> SUFFICES ASSUME LoadedInv, [FrontendNext]_allVars PROVE [SessionNext]_vars
  OBVIOUS
<1>1. CASE UNCHANGED cpuVars
  BY <1>1 DEF cpuVars
<1>2. CASE Cycle
  BY <1>2 DEF Cycle, SessionNext
<1>3. CASE Refusal = "" /\ Reload(Image)
  <2>1. Image.words \in Seq(Word)
    BY <1>3, WholeProgramLoaded DEF LoadedInv, Refusal
  <2>2. Image \in Reloads
    BY <2>1, OrigIsWord DEF Image, AnyProgram
  <2>3. QED
    BY <1>3, <2>2 DEF SessionNext
<1>4. UNCHANGED cpuVars \/ Cycle \/ (Refusal = "" /\ Reload(Image))
  BY DEF FrontendNext, Handlers, boot, loadAndReset, clickStepCycle, stepInstruction, stepCycle,
     startRun, fireTimeout, tick, clickPause, edit, allVars
<1>5. QED
  BY <1>1, <1>2, <1>3, <1>4

(* From the page down to the instruction set: whatever is clicked, every   *)
(* instruction of what was loaded has the effect LC3ISA gives it, in       *)
(* program order (script.js:478-510 over cpu.cpp:118-460).                 *)
THEOREM PageRunsInstructionSet == ASSUME AnyProgram PROVE FrontendSpec => ISASpec
<1>1. FrontendSpec => SessionSpec
  BY PageSessionInit, PageSessionStep, LoadedInvHolds, PTL DEF FrontendSpec, SessionSpec
<1>2. QED
  BY <1>1, SessionImplementsISA, PTL

-----------------------------------------------------------------------------
(* Step instr: in its loop each cycle brings the end of the instruction    *)
(* nearer, and there are nine at most.                                     *)

BurstInv ==
    /\ burst \in Nat
    /\ burst > 0 => current_state # "FETCH_0" /\ burst + CyclesLeft(current_state) <= 9

LEMMA CyclesLeftRange == \A s \in FSMState : CyclesLeft(s) \in 0 .. 8
  BY DEF CyclesLeft

LEMMA BurstStep == Inv /\ Inv' /\ BurstInv /\ stepInstruction
                     => /\ BurstInv'
                        /\ burst > 0 /\ burst' = 0 => current_state' = "FETCH_0" \/ ~running'
<1> SUFFICES ASSUME Inv, Inv', BurstInv, stepInstruction
             PROVE  /\ BurstInv'
                    /\ burst > 0 /\ burst' = 0 => current_state' = "FETCH_0" \/ ~running'
  OBVIOUS
<1>1. step
  BY DEF stepInstruction, stepCycle, Cycle, BoundedStep
<1>2. /\ current_state \in FSMState /\ current_state' \in FSMState
      /\ CyclesLeft(current_state) \in 0 .. 8 /\ CyclesLeft(current_state') \in 0 .. 8
  BY CyclesLeftRange DEF Inv, TypeOK
<1>3. burst \in Nat /\ (burst > 0 => burst <= 9)
  BY <1>2 DEF BurstInv
<1>4. burst' = IF running' /\ current_state' # "FETCH_0" THEN burst + 1 ELSE 0
  BY <1>3 DEF stepInstruction
<1>5. CASE running' /\ current_state' # "FETCH_0" /\ burst = 0
  BY <1>2, <1>4, <1>5 DEF BurstInv
<1>6. CASE running' /\ current_state' # "FETCH_0" /\ burst > 0
  <2>1. CyclesLeft(current_state') < CyclesLeft(current_state)
    BY <1>1, <1>6, StepCloser DEF BurstInv, Closer
  <2>2. QED
    BY <1>2, <1>4, <1>6, <2>1 DEF BurstInv
<1>7. CASE ~(running' /\ current_state' # "FETCH_0")
  BY <1>4, <1>7 DEF BurstInv
<1>8. QED
  BY <1>3, <1>5, <1>6, <1>7

\* The other handlers do not run while the loop does
LEMMA BurstKept == BurstInv /\ [FrontendNext]_allVars /\ ~stepInstruction
                     => BurstInv' /\ burst' = burst /\ (cycles' # cycles => burst = 0)
<1> SUFFICES ASSUME BurstInv, [FrontendNext]_allVars, ~stepInstruction
             PROVE  BurstInv' /\ burst' = burst /\ (cycles' # cycles => burst = 0)
  OBVIOUS
<1>1. burst' = burst
  BY DEF FrontendNext, Handlers, boot, loadAndReset, clickStepCycle, startRun, fireTimeout,
     clickPause, edit, allVars, pageVars
<1>2. burst = 0 \/ UNCHANGED cpuVars
  BY DEF FrontendNext, Handlers, boot, loadAndReset, clickStepCycle, startRun, fireTimeout,
     clickPause, edit, allVars, Ready
<1>3. UNCHANGED cpuVars => UNCHANGED <<current_state, cycles>>
  BY DEF cpuVars, vars
<1>4. QED
  BY <1>1, <1>2, <1>3 DEF BurstInv

(* "Step instr" comes to rest at the end of an instruction or of the       *)
(* program: its guard of 80 cycles is never what ends it                   *)
(* (script.js:501-504).                                                    *)
THEOREM StepInstructionEnds == FrontendSpec => StepInstructionCompletes
<1>1. FrontendInit => BurstInv
  <2> SUFFICES ASSUME FrontendInit PROVE BurstInv
    OBVIOUS
  <2>1. burst = 0
    BY DEF FrontendInit
  <2>2. QED
    BY <2>1 DEF BurstInv
<1>2. Inv /\ Inv' /\ BurstInv /\ [FrontendNext]_allVars => BurstInv'
  BY BurstStep, BurstKept
<1>3. Inv /\ Inv' /\ BurstInv /\ [FrontendNext]_allVars
        => [(cycles' # cycles /\ burst' = 0 /\ burst > 0)
               => current_state' = "FETCH_0" \/ ~running']_allVars
  BY BurstStep, BurstKept
<1>4. LoadedInv => Inv
  BY DEF LoadedInv
<1>5. QED
  BY <1>1, <1>2, <1>3, <1>4, LoadedInvHolds, PTL DEF FrontendSpec, StepInstructionCompletes

-----------------------------------------------------------------------------
(* The rows and the driver                                                 *)

ScreenOnly == bootView \/ loadView \/ clickView \/ tickView \/ pauseView

LEMMA HandlersOfView == ScreenOnly => Handlers /\ UNCHANGED <<rows, editorVars>>
<1>1. ScreenOnly => Handlers /\ UNCHANGED rows
  BY DEF ScreenOnly, bootView, loadView, clickView, tickView, pauseView, Handlers
<1>2. Handlers => UNCHANGED editorVars
  BY DEF Handlers, boot, loadAndReset, clickStepCycle, stepInstruction, startRun,
     fireTimeout, clickPause
<1>3. QED
  BY <1>1, <1>2

LEMMA EditsOfView == ListInv /\ editView
                        => UNCHANGED <<cpuVars, pageVars>> /\ (edit \/ UNCHANGED editorVars)
<1> SUFFICES ASSUME ListInv, editView
             PROVE  UNCHANGED <<cpuVars, pageVars>> /\ (edit \/ UNCHANGED editorVars)
  OBVIOUS
<1>1. burst = 0 /\ UNCHANGED <<cpuVars, pageVars>> /\ (Redrawing \/ Storing)
  BY DEF editView
<1>2. EditorNext \/ UNCHANGED editorVars
  BY <1>1, RedrawingIs, StoringInv DEF EditorNext
<1>3. QED
  BY <1>1, <1>2 DEF edit

LEMMA ViewNextSplit == ViewNext <=> ScreenOnly \/ editView
  BY DEF ViewNext, ScreenOnly

LEMMA ViewListInv == ListInv /\ [ViewNext]_viewVars => ListInv'
<1>1. ListInv /\ ScreenOnly => ListInv'
  BY HandlersOfView, ListStutter DEF listVars
<1>2. ListInv /\ editView => ListInv'
  BY RedrawingInv, StoringInv DEF editView
<1>3. ListInv /\ UNCHANGED viewVars => ListInv'
  BY ListStutter DEF viewVars, allVars, listVars
<1>4. QED
  BY <1>1, <1>2, <1>3, ViewNextSplit

LEMMA ViewListInvHolds == ViewSpec => []ListInv
<1>1. ViewInit => ListInv
  BY ListInitInv DEF ViewInit, FrontendInit, ListInit
<1>2. QED
  BY <1>1, ViewListInv, PTL DEF ViewSpec

(* The page with its rows and its drawing is the driver: what the rows let *)
(* the user do is an edit of LC3Frontend, and drawing changes nothing but  *)
(* what is shown (script.js:239-396, 514-645).                             *)
THEOREM ViewImplementsFrontend == ViewSpec => FrontendSpec
<1>1. ViewInit => FrontendInit
  BY DEF ViewInit
<1>2. ListInv /\ [ViewNext]_viewVars => [FrontendNext]_allVars
  <2>1. ScreenOnly => FrontendNext
    BY HandlersOfView DEF FrontendNext
  <2>2. ListInv /\ editView => FrontendNext \/ UNCHANGED allVars
    BY EditsOfView DEF FrontendNext, allVars
  <2>3. UNCHANGED viewVars => UNCHANGED allVars
    BY DEF viewVars
  <2>4. QED
    BY <2>1, <2>2, <2>3, ViewNextSplit
<1>3. QED
  BY <1>1, <1>2, ViewListInvHolds, PTL DEF ViewSpec, FrontendSpec

-----------------------------------------------------------------------------
(* What is drawn                                                           *)

Drawn == engine = "ready" => shown = Screen

LEMMA SameScreen == UNCHANGED <<cpuVars, trace>> => Screen' = Screen
  BY DEF cpuVars, vars, cond, Screen, StageLine, RegisterTable, Datapath, TraceBox,
     get_cycle_count

\* A handler either draws, or changes nothing that is drawn
DrawsOrKeeps ==
    \/ render
    \/ engine' # "ready" /\ active' = active /\ UNCHANGED <<cpuVars, program, rows>>
    \/ /\ engine' = engine /\ UNCHANGED <<cpuVars, trace, shown, program, rows>>
       /\ active' = active

LEMMA ScreenOnlyDraws == ScreenOnly => DrawsOrKeeps
<1>1. ScreenOnly => UNCHANGED <<rows, program>>
  BY HandlersOfView DEF editorVars
<1>2. bootView => DrawsOrKeeps
  BY <1>1 DEF ScreenOnly, bootView, RenderIf, boot, DrawsOrKeeps
<1>3. loadView => DrawsOrKeeps
  BY <1>1 DEF ScreenOnly, loadView, RenderIf, loadAndReset, DrawsOrKeeps
<1>4. clickView => DrawsOrKeeps
  BY DEF clickView, DrawsOrKeeps
<1>5. tickView => DrawsOrKeeps
  <2> SUFFICES ASSUME tickView, ~running PROVE DrawsOrKeeps
    BY DEF tickView, RenderIf, DrawsOrKeeps
  <2>1. engine' = engine /\ UNCHANGED <<cpuVars, trace>>
    BY CycleRuns DEF tickView, startRun, fireTimeout, tick
  <2>2. UNCHANGED <<shown, active>>
    BY DEF tickView, RenderIf
  <2>3. QED
    BY <1>1, <2>1, <2>2 DEF DrawsOrKeeps, ScreenOnly
<1>6. pauseView => DrawsOrKeeps
  BY <1>1 DEF ScreenOnly, pauseView, clickPause, DrawsOrKeeps
<1>7. QED
  BY <1>2, <1>3, <1>4, <1>5, <1>6 DEF ScreenOnly

LEMMA DrawnStep == Drawn /\ [ViewNext]_viewVars => Drawn'
<1> SUFFICES ASSUME Drawn, [ViewNext]_viewVars PROVE Drawn'
  OBVIOUS
<1>1. ASSUME DrawsOrKeeps PROVE Drawn'
  BY <1>1, SameScreen DEF DrawsOrKeeps, render, Drawn
<1>2. ASSUME UNCHANGED <<cpuVars, pageVars, shown>> PROVE Drawn'
  BY <1>2, SameScreen DEF pageVars, Drawn
<1>3. QED
  BY <1>1, <1>2, ScreenOnlyDraws, ViewNextSplit DEF editView, viewVars, allVars

LEMMA SmallCount == ASSUME NEW span \in Nat \ {0}, NEW c \in Nat, c < span
                    PROVE  c % span = c
  OBVIOUS

(* What the page shows is the machine as it is, after every handler, and   *)
(* its two counts of cycles agree (script.js:514-645).                     *)
THEOREM ViewStaysFresh == ASSUME WideCounter
                          PROVE  ViewSpec => []ViewFresh
<1>1. ViewInit => Drawn
  BY DEF ViewInit, FrontendInit, Drawn
<1>2. FrontendSpec => [](trace \in Seq(FSMState))
  <2>1. PageTypes => trace \in Seq(FSMState)
    BY DEF PageTypes
  <2>2. QED
    BY <2>1, TypesInvariant, PTL
<1>3. Drawn /\ TraceTellsHistory /\ trace \in Seq(FSMState) => ViewFresh
  <2> SUFFICES ASSUME trace \in Seq(FSMState), Len(trace) = cycles, Len(trace) < CountSpan
               PROVE  get_cycle_count = Len(trace)
    BY DEF Drawn, TraceTellsHistory, ViewFresh, Screen, TraceBox
  <2>1. Len(trace) \in Nat
    BY LenProperties
  <2>2. QED
    BY <2>1, SmallCount, CPUAssumption DEF get_cycle_count
<1>4. QED
  BY <1>1, <1>2, <1>3, DrawnStep, ViewImplementsFrontend, TraceIsHistory, PTL DEF ViewSpec

-----------------------------------------------------------------------------
(* The highlighted row                                                     *)

ActiveIsHighlighted ==
    active # NoRow => Highlighted # 0 /\ active = program[Highlighted].id

LEMMA HighlightedInRange == ASSUME program \in Seq(TypedBlock)
                            PROVE  Highlighted \in 0 .. Len(program)
<1>1. Len(program) \in Nat
  BY Places
<1>2. QED
  BY <1>1 DEF Highlighted

\* Highlighted looks at PC, IR and the number of blocks
LEMMA SameHighlight == ASSUME program \in Seq(TypedBlock),
                              UNCHANGED <<cpuVars, active>>,
                              Len(program') = Len(program),
                              \A i \in DOMAIN program : program'[i].id = program[i].id,
                              ActiveIsHighlighted
                       PROVE  ActiveIsHighlighted'
<1>1. UNCHANGED <<pc, IR>>
  BY DEF cpuVars, vars
<1>2. Highlighted' = Highlighted
  BY <1>1 DEF Highlighted
<1>3. Highlighted # 0 => Highlighted \in DOMAIN program
  BY HighlightedInRange, Places
<1>4. QED
  BY <1>2, <1>3 DEF ActiveIsHighlighted

LEMMA FillKeepsIds == ASSUME program \in Seq(TypedBlock), program' \in Seq(TypedBlock), Fill
                      PROVE  /\ Len(program') = Len(program)
                             /\ \A i \in DOMAIN program : program'[i].id = program[i].id
<1>1. PICK i \in DOMAIN program :
         \/ \E name, v : SetField(i, name, v)
         \/ \E mode : chooseMode(i, mode)
  BY DEF Fill, chooseRegister, chooseSR2, typeImm5, typeOff6, checkNZP, chooseTarget, chooseVector
<1>2. \A j \in DOMAIN program : program[j] \in TypedBlock
  BY Places
<1>3. DOMAIN program' = DOMAIN program /\ \A j \in DOMAIN program : program'[j].id = program[j].id
  <2>1. ASSUME NEW name, NEW v, SetField(i, name, v)
        PROVE  DOMAIN program' = DOMAIN program /\ \A j \in DOMAIN program : program'[j].id = program[j].id
    BY <1>2, <2>1 DEF SetField, TypedBlock, SomeBlock
  <2>2. ASSUME NEW mode, chooseMode(i, mode)
        PROVE  DOMAIN program' = DOMAIN program /\ \A j \in DOMAIN program : program'[j].id = program[j].id
    BY <1>2, <2>2 DEF chooseMode, TypedBlock, SomeBlock
  <2>3. QED
    BY <1>1, <2>1, <2>2
<1>4. QED
  BY <1>3, Places, LenProperties

LEMMA ActiveStep == ListInv /\ ListInv' /\ ActiveIsHighlighted /\ [ViewNext]_viewVars
                      => ActiveIsHighlighted'
<1> SUFFICES ASSUME ListInv, ListInv', ActiveIsHighlighted, [ViewNext]_viewVars
             PROVE  ActiveIsHighlighted'
  OBVIOUS
<1>1. program \in Seq(TypedBlock) /\ program' \in Seq(TypedBlock)
  BY DEF ListInv, EditorInv
<1>2. ASSUME UNCHANGED <<cpuVars, active, program>> PROVE ActiveIsHighlighted'
  BY <1>1, <1>2, SameHighlight
<1>3. CASE ScreenOnly
  <2>1. CASE render
    BY <2>1 DEF render, highlightActiveBlock, ActiveIsHighlighted
  <2>2. CASE UNCHANGED <<cpuVars, active, program>>
    BY <1>2, <2>2
  <2>3. QED
    BY <1>3, <2>1, <2>2, ScreenOnlyDraws DEF DrawsOrKeeps
<1>4. CASE editView
  <2>1. CASE Redrawing /\ active' = NoRow
    BY <2>1 DEF ActiveIsHighlighted
  <2>2. CASE Storing /\ UNCHANGED active
    <3>1. Fill
      BY <2>2, StoringInv
    <3>2. UNCHANGED <<cpuVars, active>>
      BY <1>4, <2>2 DEF editView
    <3>3. QED
      BY <1>1, <3>1, <3>2, FillKeepsIds, SameHighlight
  <2>3. QED
    BY <1>4, <2>1, <2>2 DEF editView
<1>5. CASE UNCHANGED viewVars
  BY <1>2, <1>5 DEF viewVars, allVars, editorVars
<1>6. QED
  BY <1>3, <1>4, <1>5, ViewNextSplit

LEMMA ActiveHolds == ViewSpec => []ActiveIsHighlighted
<1>1. ViewInit => ActiveIsHighlighted
  BY DEF ViewInit, ActiveIsHighlighted
<1>2. QED
  BY <1>1, ActiveStep, ViewListInvHolds, PTL DEF ViewSpec

(* The highlighted row is on the page, once, and shows the block PC and IR *)
(* point at in the program as it is (script.js:546-564).                   *)
THEOREM ActiveRowIsShown == ViewSpec => []ActiveBlockShown
<1>1. ListInv /\ ActiveIsHighlighted => ActiveBlockShown
  <2> SUFFICES ASSUME ListInv, ActiveIsHighlighted, active # NoRow
               PROVE  Cardinality({k \in DOMAIN rows : rows[k].id = active}) = 1
    BY DEF ActiveIsHighlighted, ActiveBlockShown
  <2>1. Highlighted \in DOMAIN program
    BY HighlightedInRange, Places DEF ListInv, EditorInv, ActiveIsHighlighted
  <2>2. DOMAIN rows = DOMAIN program
    BY RowLabels
  <2>3. \A k \in DOMAIN rows : rows[k].id = program[k].id
    BY RowOfBlock DEF SomeRow
  <2>4. {k \in DOMAIN rows : rows[k].id = active} = {Highlighted}
    BY <2>1, <2>2, <2>3 DEF ActiveIsHighlighted, ListInv, EditorInv, IdsUnique
  <2>5. QED
    BY <2>4, FS_Singleton
<1>2. QED
  BY <1>1, ActiveHolds, ViewListInvHolds, PTL

LEMMA BeforeIs == ASSUME NEW a \in Word
                  PROVE  Before(a) = IF a = 0 THEN 65535 ELSE a - 1
<1>1. WordSize = 65536
  BY DEF WordSize
<1>2. a \in Nat /\ a < 65536
  BY DEF Word, WordSize
<1>3. (a + 65535) % 65536 = IF a = 0 THEN 65535 ELSE a - 1
  BY <1>2
<1>4. QED
  BY <1>1, <1>3 DEF Before, Plus

(* In the middle of an instruction of the loaded program the highlighted   *)
(* row is the one being executed (script.js:547).                          *)
THEOREM ExecutedRowIsActive == ViewSpec => []ExecutedBlockActive
<1>1. ListInv /\ ActiveIsHighlighted /\ Inv => ExecutedBlockActive
  <2> DEFINE at == Before(pc) - ORIG + 1
  <2> SUFFICES ASSUME ListInv, ActiveIsHighlighted, Inv, active # NoRow,
                      Ids(program) = Ids(loaded), IR # 0, at \in DOMAIN loaded
               PROVE  active = loaded[at].id
    BY DEF ExecutedBlockActive
  <2>1. /\ program \in Seq(TypedBlock) /\ Len(program) \in Nat
        /\ DOMAIN program = 1 .. Len(program)
    BY Places DEF ListInv, EditorInv
  <2>2. DOMAIN loaded = DOMAIN program /\ program[at].id = loaded[at].id
    BY DEF Ids
  <2>3. pc \in Nat /\ Before(pc) = (IF pc = 0 THEN 65535 ELSE pc - 1) /\ ORIG = 12288
    BY BeforeIs DEF Inv, TypeOK, Word, ORIG
  <2>4. Highlighted # 0
    BY DEF ActiveIsHighlighted
  <2>5. pc # 0
    BY <2>1, <2>3, <2>4 DEF Highlighted
  <2>6. pc - 1 - ORIG \in 0 .. Len(program) - 1
    BY <2>1, <2>2, <2>3, <2>5
  <2>7. Highlighted = at
    BY <2>1, <2>3, <2>5, <2>6 DEF Highlighted
  <2>8. QED
    BY <2>2, <2>7 DEF ActiveIsHighlighted
<1>2. LoadedInv => Inv
  BY DEF LoadedInv
<1>3. QED
  BY <1>1, <1>2, ActiveHolds, ViewListInvHolds, ViewImplementsFrontend, LoadedInvHolds, PTL

=============================================================================
