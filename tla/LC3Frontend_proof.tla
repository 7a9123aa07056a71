-------------------------- MODULE LC3Frontend_proof --------------------------
(***************************************************************************)
(* The page's timer and trace, for every program, every order of clicks,   *)
(* ticks and edits, and every value of the constants.                      *)
(***************************************************************************)
EXTENDS LC3Frontend, LC3CPU_proof, FiniteSetTheorems, SequenceTheorems

(* A timeout may outlive Run by one tick (script.js:507 sets it after the  *)
(* stepCycle that stopped); this is what makes that tick harmless.         *)
LeftoverFindsStopped == timer # NoTimer /\ ~runDisabled => ~running

TimerInv ==
    /\ timer \in Nat
    /\ runDisabled \in BOOLEAN
    /\ OneTimeout
    /\ RunMeansTicking
    /\ LeftoverFindsStopped

TraceInv ==
    /\ trace \in Seq(FSMState)
    /\ TraceTellsHistory

-----------------------------------------------------------------------------
(* What one cycle does to the machine, as far as the page can tell         *)

LEMMA StepEffect == step => /\ running
                            /\ current_state \in FSMState
                            /\ CountCycle
                            /\ running' => previous_state' = current_state
                            /\ ~running' => current_state' = current_state
<1>1. ASSUME NEW s, NEW t, At(s), s \in FSMState, transition_to(t)
      PROVE  /\ running /\ running'
             /\ current_state \in FSMState
             /\ CountCycle
             /\ previous_state' = current_state
  BY <1>1 DEF At, transition_to
<1>2. Fetch => \E s \in FSMState, t \in {"FETCH_1", "FETCH_2", "DECODE", Dispatch(Opcode(IR))} :
                    At(s) /\ transition_to(t)
  BY DEF Fetch, execute_fetch0, execute_fetch1, execute_fetch2, execute_decode,
         FSMState, FetchStates
<1>3. Operate => \E s \in FSMState : At(s) /\ transition_to("FETCH_0")
  BY DEF Operate, execute_add, execute_and, execute_not, execute_lea0,
         FSMState, ExecStates
<1>4. Load => \E s \in FSMState, t \in FSMState : At(s) /\ transition_to(t)
  BY DEF Load, execute_ld0, execute_ld1, execute_ld2, execute_ldr0,
         execute_ldr1, execute_ldr2, execute_ldi0, execute_ldi1, execute_ldi2,
         execute_ldi3, execute_ldi4, FSMState, ExecStates, FetchStates
<1>5. Store => \E s \in FSMState, t \in FSMState : At(s) /\ transition_to(t)
  BY DEF Store, execute_st0, execute_st1, execute_st2, execute_str0,
         execute_str1, execute_str2, execute_sti0, execute_sti1, execute_sti2,
         execute_sti3, execute_sti4, FSMState, ExecStates, FetchStates
<1>6. Control => \E s \in FSMState : \E t : At(s) /\ transition_to(t)
  BY DEF Control, execute_jmp0, execute_jsr0, execute_jsr1, execute_jsr2,
         execute_br0, execute_br1, execute_trap0, execute_trap1, execute_trap2,
         FSMState, ExecStates, FetchStates
<1>7. Stop => /\ running /\ ~running'
              /\ current_state \in FSMState
              /\ CountCycle
              /\ current_state' = current_state
  BY DEF Stop, stop_halt, stop_error, At, FSMState, StopStates
<1>8. QED
  BY <1>1, <1>2, <1>3, <1>4, <1>5, <1>6, <1>7 DEF step

LEMMA CycleRuns == Cycle => running
  BY StepEffect DEF Cycle, BoundedStep

(* A handle that setTimeout returns is not one in use.                     *)
LEMMA NewTimerFresh == ASSUME timer \in Nat, OneTimeout
                       PROVE  /\ NewTimer \in Nat /\ NewTimer # NoTimer
                              /\ NewTimer \notin timeouts \cup {timer}
<1>1. \E t \in 1 .. Cardinality(timeouts) + 2 : t \notin timeouts \cup {timer}
  <2>1. CASE timer = NoTimer
    <3>1. timeouts = {} /\ Cardinality(timeouts) = 0
      BY <2>1, FS_EmptySet DEF OneTimeout
    <3>2. QED
      BY <2>1, <3>1 DEF NoTimer
  <2>2. CASE timer # NoTimer
    <3>1. timeouts = {timer} /\ Cardinality(timeouts) = 1
      BY <2>2, FS_Singleton DEF OneTimeout
    <3>2. 1 # timer \/ 2 # timer
      OBVIOUS
    <3>3. QED
      BY <3>1, <3>2
  <2>3. QED
    BY <2>1, <2>2
<1>2. Cardinality(timeouts) \in Nat
  BY FS_EmptySet, FS_Singleton DEF OneTimeout
<1>3. NewTimer \in 1 .. Cardinality(timeouts) + 2 /\ NewTimer \notin timeouts \cup {timer}
  BY <1>1 DEF NewTimer
<1>4. QED
  BY <1>2, <1>3 DEF NoTimer

-----------------------------------------------------------------------------
(* The timer.  stopRun leaves no timeout; tick leaves the one it sets.     *)

LEMMA StopRunClears == ASSUME TimerInv, NEW pending \in SUBSET timeouts, stopRun(pending)
                       PROVE  TimerInv'
<1>1. timeouts' = {} /\ timer' = NoTimer /\ runDisabled' = FALSE
  BY DEF stopRun, TimerInv, OneTimeout
<1>2. QED
  BY <1>1 DEF TimerInv, OneTimeout, RunMeansTicking, LeftoverFindsStopped, NoTimer

LEMMA StepCycleTimer == ASSUME TimerInv, stepCycle PROVE TimerInv'
<1>1. CASE running'
  BY <1>1, CycleRuns
     DEF stepCycle, TimerInv, OneTimeout, RunMeansTicking, LeftoverFindsStopped
<1>2. CASE ~running'
  BY <1>2, StopRunClears DEF stepCycle
<1>3. QED
  BY <1>1, <1>2

(* tick, from a Run click (nothing pending, Run greyed out) or from the    *)
(* timeout itself (no longer pending).                                     *)
LEMMA TickTimer == ASSUME TimerInv, NEW disabled \in BOOLEAN,
                          running => disabled,
                          tick({}, disabled)
                   PROVE  TimerInv'
<1>1. CASE ~running /\ stopRun({})
  BY <1>1, StopRunClears
<1>2. CASE /\ Cycle
           /\ timer' = NewTimer
           /\ timeouts' = (IF running' THEN {} ELSE {} \ {timer}) \cup {NewTimer}
           /\ runDisabled' = (disabled /\ running')
  <2>1. disabled
    BY <1>2, CycleRuns
  <2>2. timer' \in Nat /\ timer' # NoTimer /\ timeouts' = {timer'}
    BY <1>2, NewTimerFresh DEF TimerInv
  <2>3. runDisabled' \in BOOLEAN /\ (runDisabled' <=> running')
    BY <1>2, <2>1
  <2>4. QED
    BY <2>2, <2>3 DEF TimerInv, OneTimeout, RunMeansTicking, LeftoverFindsStopped
<1>3. QED
  BY <1>1, <1>2 DEF tick

(* The timeout that fires is the one stopRun knows of.                     *)
LEMMA FiredTimeout == ASSUME TimerInv, NEW t \in timeouts
                      PROVE  /\ timeouts \ {t} = {}
                             /\ running => runDisabled
  BY DEF TimerInv, OneTimeout, LeftoverFindsStopped

LEMMA TimerStep == TimerInv /\ [FrontendNext]_allVars => TimerInv'
<1> SUFFICES ASSUME TimerInv, [FrontendNext]_allVars
             PROVE  TimerInv'
  OBVIOUS
<1>1. ASSUME UNCHANGED <<running, timer, timeouts, runDisabled>>
      PROVE  TimerInv'
  BY <1>1 DEF TimerInv, OneTimeout, RunMeansTicking, LeftoverFindsStopped
<1>2. CASE boot
  BY <1>1, <1>2 DEF boot, cpuVars, vars
<1>3. CASE loadAndReset
  BY <1>3, StopRunClears DEF loadAndReset
<1>4. CASE clickStepCycle
  BY <1>4, StepCycleTimer DEF clickStepCycle
<1>5. CASE stepInstruction
  BY <1>5, StepCycleTimer DEF stepInstruction
<1>6. CASE startRun
  <2>1. timeouts = {}
    BY <1>6 DEF startRun, TimerInv, OneTimeout
  <2>2. QED
    BY <1>6, <2>1, TickTimer DEF startRun
<1>7. CASE fireTimeout
  <2>1. PICK t \in timeouts : tick(timeouts \ {t}, runDisabled)
    BY <1>7 DEF fireTimeout
  <2>2. QED
    BY <2>1, FiredTimeout, TickTimer DEF TimerInv
<1>8. CASE clickPause
  BY <1>8, StopRunClears DEF clickPause
<1>9. CASE edit
  BY <1>1, <1>9 DEF edit, cpuVars, vars, pageVars
<1>10. CASE UNCHANGED allVars
  BY <1>1, <1>10 DEF allVars, cpuVars, vars, pageVars
<1>11. QED
  BY <1>2, <1>3, <1>4, <1>5, <1>6, <1>7, <1>8, <1>9, <1>10
     DEF FrontendNext, Handlers

LEMMA TimerInvariant == FrontendSpec => []TimerInv
<1>1. FrontendInit => TimerInv
  <2> SUFFICES ASSUME FrontendInit
               PROVE  TimerInv
    OBVIOUS
  <2>1. timer = NoTimer /\ timeouts = {} /\ runDisabled = FALSE
    BY DEF FrontendInit
  <2>2. NoTimer \in Nat
    BY DEF NoTimer
  <2>3. QED
    BY <2>1, <2>2 DEF TimerInv, OneTimeout, RunMeansTicking, LeftoverFindsStopped
<1>2. QED
  BY <1>1, TimerStep, PTL DEF FrontendSpec

(* There is one timeout at most and stopRun cancels it (script.js:505-510).*)
THEOREM OneTimeoutOnly == FrontendSpec => []OneTimeout
  BY TimerInvariant, PTL DEF TimerInv

(* Run is greyed out only while the machine runs and a tick is coming.     *)
THEOREM RunTicks == FrontendSpec => []RunMeansTicking
  BY TimerInvariant, PTL DEF TimerInv

(* A timeout left over after Run changes neither the machine nor the trace.*)
THEOREM LeftoverHarmless == FrontendSpec => IdleTimeoutHarmless
<1>1. TimerInv /\ [FrontendNext]_allVars
        => [fireTimeout /\ ~runDisabled => UNCHANGED <<cpuVars, trace>>]_allVars
  <2> SUFFICES ASSUME TimerInv, fireTimeout, ~runDisabled
               PROVE  UNCHANGED <<cpuVars, trace>>
    OBVIOUS
  <2>1. PICK t \in timeouts : tick(timeouts \ {t}, runDisabled)
    BY DEF fireTimeout
  <2>2. ~running
    BY FiredTimeout
  <2>3. QED
    BY <2>1, <2>2, CycleRuns DEF tick
<1>2. QED
  BY <1>1, TimerInvariant, PTL DEF FrontendSpec, IdleTimeoutHarmless

-----------------------------------------------------------------------------
(* The trace                                                               *)

(* The counter does not wrap within the bound, as a 64-bit one does not    *)
(* within a session.                                                       *)
WideCounter == MaxCycles < CycleSpan

LEMMA AppendLast == ASSUME NEW S, NEW s \in Seq(S), NEW e \in S
                    PROVE  /\ Append(s, e) \in Seq(S)
                           /\ Append(s, e) # << >>
                           /\ Len(Append(s, e)) = Len(s) + 1
                           /\ Last(Append(s, e)) = e
  BY DEF Last

LEMMA CycleTrace == ASSUME WideCounter, TraceInv, Cycle PROVE TraceInv'
<1>1. step /\ cycles < MaxCycles /\ trace' = Append(trace, current_state)
  BY DEF Cycle, BoundedStep
<1>2. cycles \in Nat /\ cycles = Len(trace)
  BY DEF TraceInv, TraceTellsHistory
<1>3. cycles' = cycles + 1
  BY <1>1, <1>2, StepEffect, CPUAssumption DEF CountCycle, WideCounter
<1>4. /\ trace' \in Seq(FSMState) /\ trace' # << >>
      /\ Len(trace') = cycles'
      /\ Last(trace') = current_state
  BY <1>1, <1>2, <1>3, AppendLast, StepEffect DEF TraceInv
<1>5. current_state = IF running' THEN previous_state' ELSE current_state'
  BY <1>1, StepEffect
<1>6. QED
  BY <1>4, <1>5 DEF TraceInv, TraceTellsHistory

LEMMA IdleTrace == ASSUME TraceInv, UNCHANGED <<cpuVars, trace>> PROVE TraceInv'
  BY DEF TraceInv, TraceTellsHistory, cpuVars, vars, Last

LEMMA TraceStep == ASSUME WideCounter
                   PROVE  TraceInv /\ [FrontendNext]_allVars => TraceInv'
<1> SUFFICES ASSUME TraceInv, [FrontendNext]_allVars
             PROVE  TraceInv'
  OBVIOUS
<1>1. CASE boot
  BY <1>1, IdleTrace DEF boot
<1>2. CASE loadAndReset
  <2>1. CASE Refusal = ""
    <3>1. trace' = << >> /\ cycles' = 0
      BY <1>2, <2>1 DEF loadAndReset, Reload, Restart
    <3>2. QED
      BY <3>1 DEF TraceInv, TraceTellsHistory
  <2>2. CASE Refusal # ""
    BY <1>2, <2>2, IdleTrace DEF loadAndReset
  <2>3. QED
    BY <2>1, <2>2
<1>3. CASE clickStepCycle
  BY <1>3, CycleTrace DEF clickStepCycle, stepCycle
<1>4. CASE stepInstruction
  BY <1>4, CycleTrace DEF stepInstruction, stepCycle
<1>5. CASE startRun
  BY <1>5, CycleTrace, IdleTrace DEF startRun, tick
<1>6. CASE fireTimeout
  BY <1>6, CycleTrace, IdleTrace DEF fireTimeout, tick
<1>7. CASE clickPause
  BY <1>7, IdleTrace DEF clickPause
<1>8. CASE edit
  BY <1>8, IdleTrace DEF edit, pageVars
<1>9. CASE UNCHANGED allVars
  BY <1>9, IdleTrace DEF allVars, pageVars
<1>10. QED
  BY <1>1, <1>2, <1>3, <1>4, <1>5, <1>6, <1>7, <1>8, <1>9
     DEF FrontendNext, Handlers

(* The trace on the page is the history of the loaded machine: it has one  *)
(* entry per cycle (script.js:491-499), whatever was clicked in between.   *)
THEOREM TraceIsHistory == ASSUME WideCounter
                          PROVE  FrontendSpec => []TraceTellsHistory
<1>1. FrontendInit => TraceInv
  <2> SUFFICES ASSUME FrontendInit
               PROVE  TraceInv
    OBVIOUS
  <2>1. trace = << >> /\ cycles = 0
    BY DEF FrontendInit, Init, PowerOn
  <2>2. QED
    BY <2>1 DEF TraceInv, TraceTellsHistory
<1>2. TraceInv => TraceTellsHistory
  BY DEF TraceInv
<1>3. QED
  BY <1>1, <1>2, TraceStep, PTL DEF FrontendSpec

(* A load that is refused, before the engine is there or because a block   *)
(* does not encode, touches neither the machine nor its trace              *)
(* (script.js:478-489).                                                    *)
THEOREM RefusedLoads == FrontendSpec => RefusedLoadKeepsMachine
<1>1. (boot \/ loadAndReset) /\ err' # "" => UNCHANGED <<cpuVars, trace>>
  BY DEF boot, loadAndReset
<1>2. [FrontendNext]_allVars
        => [(boot \/ loadAndReset) /\ err' # "" => UNCHANGED <<cpuVars, trace>>]_allVars
  BY <1>1
<1>3. QED
  BY <1>2, PTL DEF FrontendSpec, RefusedLoadKeepsMachine

-----------------------------------------------------------------------------
(* Types                                                                   *)

PageTypes ==
    /\ engine \in {"loading", "ready", "failed"}
    /\ err \in {"", "WASM failed to load", "WASM not loaded yet",
                "Add some blocks first.", "block error"}
    /\ trace \in Seq(FSMState)
    /\ burst \in 0 .. 79

LEMMA ElementTypes == ASSUME NEW S, NEW s \in Seq(S)
                      PROVE  \A i \in DOMAIN s : s[i] \in S
  OBVIOUS

LEMMA EmptyTypes == \A S : << >> \in Seq(S)
  OBVIOUS

LEMMA CycleTypes == ASSUME PageTypes, Cycle PROVE trace' \in Seq(FSMState)
<1>1. current_state \in FSMState /\ trace' = Append(trace, current_state)
  BY StepEffect DEF Cycle, BoundedStep
<1>2. trace \in Seq(FSMState)
  BY DEF PageTypes
<1>3. QED
  BY <1>1, <1>2, AppendLast

LEMMA TypesStep == PageTypes /\ [FrontendNext]_allVars => PageTypes'
<1> SUFFICES ASSUME PageTypes, [FrontendNext]_allVars
             PROVE  PageTypes'
  OBVIOUS
<1>1. CASE boot
  BY <1>1 DEF boot, PageTypes
<1>2. CASE loadAndReset
  <2>1. Refusal \in {"", "WASM not loaded yet", "Add some blocks first.",
                     "block error"}
    BY DEF Refusal
  <2>2. trace' \in Seq(FSMState)
    BY <1>2, EmptyTypes, Zenon DEF loadAndReset, PageTypes
  <2>3. err' = Refusal /\ UNCHANGED <<engine, burst>>
    BY <1>2 DEF loadAndReset
  <2>4. QED
    BY <2>1, <2>2, <2>3 DEF PageTypes
<1>3. CASE clickStepCycle
  BY <1>3, CycleTypes DEF clickStepCycle, stepCycle, PageTypes
<1>4. CASE stepInstruction
  <2>1. trace' \in Seq(FSMState) /\ UNCHANGED <<engine, err>>
    BY <1>4, CycleTypes DEF stepInstruction, stepCycle
  <2>2. burst' \in 0 .. 79
    <3>1. burst \in 0 .. 79
      BY DEF PageTypes
    <3>2. burst' = 0 \/ (burst + 1 < 80 /\ burst' = burst + 1)
      BY <1>4 DEF stepInstruction
    <3>3. QED
      BY <3>1, <3>2
  <2>3. QED
    BY <2>1, <2>2 DEF PageTypes
<1>5. CASE startRun
  BY <1>5, CycleTypes DEF startRun, tick, PageTypes
<1>6. CASE fireTimeout
  BY <1>6, CycleTypes DEF fireTimeout, tick, PageTypes
<1>7. CASE clickPause
  BY <1>7 DEF clickPause, PageTypes
<1>8. CASE edit
  BY <1>8 DEF edit, pageVars, PageTypes
<1>9. CASE UNCHANGED allVars
  BY <1>9 DEF allVars, pageVars, PageTypes
<1>10. QED
  BY <1>1, <1>2, <1>3, <1>4, <1>5, <1>6, <1>7, <1>8, <1>9
     DEF FrontendNext, Handlers

LEMMA TypesInvariant == FrontendSpec => []PageTypes
<1>1. FrontendInit => PageTypes
  <2> SUFFICES ASSUME FrontendInit
               PROVE  PageTypes
    OBVIOUS
  <2>1. engine = "loading" /\ err = ""
    BY DEF FrontendInit
  <2>2. trace \in Seq(FSMState)
    BY EmptyTypes, Zenon DEF FrontendInit
  <2>3. burst = 0
    BY DEF FrontendInit
  <2>4. burst \in 0 .. 79
    BY <2>3
  <2>5. QED
    BY <2>1, <2>2, <2>4 DEF PageTypes
<1>2. QED
  BY <1>1, TypesStep, PTL DEF FrontendSpec

(* The page's own variables keep their types; the trace names FSM states.  *)
THEOREM PageTypeCorrect == FrontendSpec => []FrontendTypeOK
<1>1. PageTypes /\ TimerInv => FrontendTypeOK
  <2> SUFFICES ASSUME PageTypes, TimerInv
               PROVE  FrontendTypeOK
    OBVIOUS
  <2>1. \A i \in DOMAIN trace : trace[i] \in FSMState
    BY ElementTypes DEF PageTypes
  <2>2. timer \in Nat /\ timeouts \subseteq Nat \ {NoTimer} /\ runDisabled \in BOOLEAN
    BY DEF TimerInv, OneTimeout
  <2>3. QED
    BY <2>1, <2>2 DEF PageTypes, FrontendTypeOK
<1>2. QED
  BY <1>1, TypesInvariant, TimerInvariant, PTL

-----------------------------------------------------------------------------
(* The page implements LC3Page.  What it needs beyond TimerInv is that     *)
(* nothing has been run before the engine is there.                        *)

NothingRunYet == engine # "ready" => ~runDisabled /\ running

PageInv == TimerInv /\ trace \in Seq(FSMState) /\ NothingRunYet

PhaseTable ==
    runDisabled \in BOOLEAN =>
        /\ engine # "ready" => pagePhase = "off"
        /\ engine = "ready" /\ runDisabled => pagePhase = "running"
        /\ engine = "ready" /\ ~runDisabled /\ running => pagePhase = "idle"
        /\ engine = "ready" /\ ~runDisabled /\ ~running => pagePhase = "stopped"

LEMMA PhaseCases == PhaseTable /\ PhaseTable'
  BY DEF PhaseTable, pagePhase

(* Pause, and a load that is refused, end a run and change nothing else.   *)
LEMMA StopRunMaps == ASSUME PageInv, runDisabled' = FALSE, engine' = engine,
                            UNCHANGED <<cpuVars, trace>>
                     PROVE  [Page!Next]_(Page!vars)
<1>1. UNCHANGED running
  BY DEF cpuVars, vars
<1>2. runDisabled => running
  BY DEF PageInv, TimerInv, RunMeansTicking
<1>3. CASE engine # "ready"
  BY <1>3, PhaseCases DEF PhaseTable, PageInv, TimerInv, Page!vars
<1>4. CASE engine = "ready" /\ runDisabled
  BY <1>1, <1>2, <1>4, PhaseCases DEF PhaseTable, PageInv, TimerInv, Page!Next, Page!Pause
<1>5. CASE engine = "ready" /\ ~runDisabled /\ running
  BY <1>1, <1>5, PhaseCases DEF PhaseTable, PageInv, TimerInv, Page!vars
<1>6. CASE engine = "ready" /\ ~runDisabled /\ ~running
  BY <1>1, <1>6, PhaseCases DEF PhaseTable, PageInv, TimerInv, Page!vars
<1>7. QED
  BY <1>3, <1>4, <1>5, <1>6

(* A cycle of a machine that is not being run after it, or was before it.  *)
LEMMA CycleMaps == ASSUME PageInv, engine = "ready", engine' = engine, Cycle,
                          runDisabled' = (runDisabled /\ running')
                   PROVE  Page!Cycle
<1>1. running /\ Len(trace') = Len(trace) + 1
  BY CycleRuns, StepEffect, AppendLast DEF Cycle, BoundedStep, PageInv
<1>2. CASE running'
  BY <1>1, <1>2, PhaseCases DEF PhaseTable, PageInv, TimerInv, Page!Cycle, Page!Advance
<1>3. CASE ~running'
  BY <1>1, <1>3, PhaseCases DEF PhaseTable, PageInv, TimerInv, Page!Cycle, Page!Advance
<1>4. QED
  BY <1>2, <1>3

LEMMA StepCycleMaps == ASSUME PageInv, engine = "ready", engine' = engine, stepCycle
                       PROVE  Page!Cycle
<1>1. runDisabled' = (runDisabled /\ running')
  BY DEF stepCycle, stopRun, PageInv, TimerInv
<1>2. QED
  BY <1>1, CycleMaps DEF stepCycle

LEMMA RunMaps == ASSUME PageInv, startRun PROVE [Page!Next]_(Page!vars)
<1>1. engine = "ready" /\ engine' = engine /\ ~runDisabled /\ tick(timeouts, TRUE)
  BY DEF startRun, Ready
<1>2. CASE stopRun(timeouts) /\ UNCHANGED <<cpuVars, trace>>
  BY <1>1, <1>2, StopRunMaps DEF stopRun
<1>3. CASE Cycle /\ runDisabled' = (TRUE /\ running')
  <2>1. running /\ Len(trace') = Len(trace) + 1
    BY <1>3, CycleRuns, StepEffect, AppendLast DEF Cycle, BoundedStep, PageInv
  <2>2. pagePhase = "idle"
    BY <1>1, <2>1, PhaseCases DEF PhaseTable, PageInv, TimerInv
  <2>3. pagePhase' \in {"running", "stopped"}
    BY <1>1, <1>3, PhaseCases DEF PhaseTable, PageInv, TimerInv
  <2>4. QED
    BY <2>1, <2>2, <2>3 DEF Page!Next, Page!Start, Page!Advance
<1>4. QED
  BY <1>1, <1>2, <1>3 DEF tick

LEMMA PageStep == PageInv /\ [FrontendNext]_allVars => [Page!Next]_(Page!vars)
<1> SUFFICES ASSUME PageInv, [FrontendNext]_allVars
             PROVE  [Page!Next]_(Page!vars)
  OBVIOUS
<1>0. ASSUME UNCHANGED <<engine, runDisabled, running, trace>>
      PROVE  [Page!Next]_(Page!vars)
  BY <1>0 DEF pagePhase, Page!vars
<1>1. CASE boot
  <2>1. engine = "loading" /\ ~runDisabled /\ running /\ UNCHANGED <<runDisabled, running, trace>>
    BY <1>1 DEF boot, PageInv, NothingRunYet, cpuVars, vars
  <2>2. pagePhase = "off" /\ (engine' = "ready" => pagePhase' = "idle")
                         /\ (engine' # "ready" => pagePhase' = "off")
    BY <2>1, PhaseCases DEF PhaseTable, PageInv, TimerInv
  <2>3. QED
    BY <2>1, <2>2 DEF Page!Next, Page!Boot, Page!vars
<1>2. CASE loadAndReset
  <2>1. runDisabled' = FALSE /\ engine' = engine
    BY <1>2 DEF loadAndReset, stopRun
  <2>2. CASE Refusal = ""
    <3>1. engine = "ready"
      BY <2>2 DEF Refusal
    <3>2. trace' = << >> /\ running'
      BY <1>2, <2>2 DEF loadAndReset, Reload, Restart
    <3>3. pagePhase # "off" /\ pagePhase' = "idle" /\ Len(trace') = 0
      BY <2>1, <3>1, <3>2, PhaseCases DEF PhaseTable, PageInv, TimerInv
    <3>4. QED
      BY <3>3 DEF Page!Next, Page!Load
  <2>3. CASE Refusal # ""
    BY <1>2, <2>1, <2>3, StopRunMaps DEF loadAndReset
  <2>4. QED
    BY <2>2, <2>3
<1>3. CASE clickStepCycle
  BY <1>3, StepCycleMaps DEF clickStepCycle, Ready, Page!Next
<1>4. CASE stepInstruction
  BY <1>4, StepCycleMaps DEF stepInstruction, Page!Next
<1>5. CASE startRun
  BY <1>5, RunMaps
<1>6. CASE fireTimeout
  <2>1. PICK t \in timeouts : tick(timeouts \ {t}, runDisabled)
    BY <1>6 DEF fireTimeout
  <2>2. engine = "ready" /\ engine' = engine
    BY <1>6 DEF fireTimeout, Ready
  <2>3. CASE stopRun(timeouts \ {t}) /\ UNCHANGED <<cpuVars, trace>>
    BY <2>2, <2>3, StopRunMaps DEF stopRun
  <2>4. CASE Cycle /\ runDisabled' = (runDisabled /\ running')
    BY <2>2, <2>4, CycleMaps DEF Page!Next
  <2>5. QED
    BY <2>1, <2>3, <2>4 DEF tick
<1>7. CASE clickPause
  BY <1>7, StopRunMaps DEF clickPause, stopRun
<1>8. CASE edit
  BY <1>0, <1>8 DEF edit, cpuVars, vars, pageVars
<1>9. CASE UNCHANGED allVars
  BY <1>0, <1>9 DEF allVars, cpuVars, vars, pageVars
<1>10. QED
  BY <1>1, <1>2, <1>3, <1>4, <1>5, <1>6, <1>7, <1>8, <1>9
     DEF FrontendNext, Handlers

LEMMA NothingRunStep == PageInv /\ [FrontendNext]_allVars => NothingRunYet'
<1> SUFFICES ASSUME PageInv, [FrontendNext]_allVars, engine' # "ready"
             PROVE  ~runDisabled' /\ running'
  BY DEF NothingRunYet
<1>1. CASE boot
  BY <1>1 DEF boot, PageInv, NothingRunYet, cpuVars, vars
<1>2. CASE loadAndReset
  <2>1. engine # "ready" /\ Refusal # ""
    BY <1>2 DEF loadAndReset, Refusal
  <2>2. QED
    BY <1>2, <2>1 DEF loadAndReset, stopRun, PageInv, NothingRunYet, cpuVars, vars
<1>3. CASE clickStepCycle \/ stepInstruction \/ startRun \/ fireTimeout
  BY <1>3 DEF clickStepCycle, stepInstruction, startRun, fireTimeout, Ready
<1>4. CASE clickPause
  BY <1>4 DEF clickPause, stopRun, PageInv, NothingRunYet, cpuVars, vars
<1>5. CASE edit
  BY <1>5 DEF edit, PageInv, NothingRunYet, cpuVars, vars, pageVars
<1>6. CASE UNCHANGED allVars
  BY <1>6 DEF allVars, PageInv, NothingRunYet, cpuVars, vars, pageVars
<1>7. QED
  BY <1>1, <1>2, <1>3, <1>4, <1>5, <1>6 DEF FrontendNext, Handlers

(* With its timer, its clicks and the CPU the page does what LC3Page says: *)
(* nothing runs that was not started, a run ends in the cycle that stops   *)
(* the machine, and only a load that succeeds starts a new count           *)
(* (script.js:478-510).                                                    *)
THEOREM FrontendImplementsPage == FrontendSpec => PageSpec
<1>1. FrontendInit => Page!Init /\ NothingRunYet
  <2> SUFFICES ASSUME FrontendInit
               PROVE  Page!Init /\ NothingRunYet
    OBVIOUS
  <2>1. engine = "loading" /\ trace = << >> /\ runDisabled = FALSE /\ running = TRUE
    BY DEF FrontendInit, Init, PowerOn
  <2>2. QED
    BY <2>1, PhaseCases DEF PhaseTable, Page!Init, NothingRunYet
<1>2. FrontendSpec => [](trace \in Seq(FSMState))
  <2>1. PageTypes => trace \in Seq(FSMState)
    BY DEF PageTypes
  <2>2. QED
    BY <2>1, TypesInvariant, PTL
<1>3. QED
  BY <1>1, <1>2, TimerInvariant, NothingRunStep, PageStep, PTL
     DEF FrontendSpec, PageSpec, Page!Spec, PageInv

=============================================================================
