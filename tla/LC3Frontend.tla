----------------------------- MODULE LC3Frontend -----------------------------
(***************************************************************************)
(* The page of www/script.js (section 5) as a driver of the CPU: the       *)
(* buttons, the timer of the Run button and the trace, over the machine of *)
(* LC3Session and the program of LC3Editor.                                *)
(*                                                                         *)
(* The browser runs one event handler at a time, to its end, so a handler  *)
(* is one action.  The exception is stepInstruction, whose loop makes up   *)
(* to 80 calls of stepCycle: each call is a step, and no other handler     *)
(* runs while the loop does (burst > 0).  A timeout may fire at any moment *)
(* between two handlers.                                                   *)
(***************************************************************************)
EXTENDS LC3Session, LC3Editor

CONSTANT LongestInstruction    \* bound: Step instr is clicked when this many
                               \* cycles are left below MaxCycles

ASSUME FrontendAssumption == LongestInstruction \in Nat

VARIABLES
    engine,        \* "loading", "ready" (cpu is not null) or "failed"
    err,           \* what #err shows
    trace,         \* the state names of the cycles made since the last load
    timer,         \* the handle of the last setTimeout, or NoTimer (null)
    timeouts,      \* the handles the browser will still call tick for
    runDisabled,   \* the Run button; Pause is disabled when this is not
    burst,         \* calls of stepCycle made so far by stepInstruction
    loaded         \* history: the blocks of the last load

cpuVars == vars
pageVars == <<engine, err, trace, timer, timeouts, runDisabled, burst, loaded>>
allVars == <<cpuVars, editorVars, pageVars>>

NoTimer == 0

\* setTimeout: a handle that no pending timeout has
NewTimer == CHOOSE t \in 1 .. Cardinality(timeouts) + 2 : t \notin timeouts \cup {timer}

-----------------------------------------------------------------------------
(* stopRun and stepCycle.  pending is what is left of timeouts.            *)

\* Mutant of stopRun: the timeout is forgotten, not cleared
stopRun_NotCleared(pending) ==
    /\ timeouts' = pending
    /\ timer' = NoTimer
    /\ runDisabled' = FALSE

stopRun(pending) ==
    /\ timeouts' = pending \ {timer}
    /\ timer' = NoTimer
    /\ runDisabled' = FALSE

\* Mutant of Cycle: a state has no name in fsm_state_to_string
Cycle_Unnamed ==
    /\ BoundedStep
    /\ trace' = Append(trace, IF current_state = "LDI_4" THEN "UNKNOWN" ELSE current_state)

\* The part of stepCycle before the last test of running
Cycle == BoundedStep /\ trace' = Append(trace, current_state)

stepCycle ==
    /\ Cycle
    /\ IF running' THEN UNCHANGED <<timer, timeouts, runDisabled>> ELSE stopRun(timeouts)

-----------------------------------------------------------------------------
(* Loading the engine                                                      *)

Ready == engine = "ready" /\ burst = 0

boot == /\ engine = "loading"
        /\ \/ engine' = "ready" /\ UNCHANGED err
           \/ engine' = "failed" /\ err' = "WASM failed to load"
        /\ UNCHANGED <<cpuVars, editorVars, trace, timer, timeouts, runDisabled, burst, loaded>>

-----------------------------------------------------------------------------
(* Assemble & load, and Reset, which is the same handler                   *)

\* LC3Wasm::loadProgram: the length of the array is cast to uint16_t
loadProgram(words) == SubSeq(words, 1, Len(words) % WordSize)

Image == [words |-> loadProgram(Words(program)), start |-> ORIG]

Refusal == CASE engine # "ready"  -> "WASM not loaded yet"
             [] program = << >>   -> "Add some blocks first."
             [] ~Encodes(program) -> "block error"
             [] OTHER             -> ""

\* Mutants of loadAndReset: the trace is kept; the machine is reset before
\* the program is encoded
loadAndReset_KeepsTrace ==
    /\ burst = 0
    /\ stopRun(timeouts)
    /\ err' = Refusal
    /\ IF Refusal = ""
       THEN Reload(Image) /\ loaded' = program
       ELSE UNCHANGED <<cpuVars, loaded>>
    /\ UNCHANGED <<editorVars, engine, burst, trace>>

loadAndReset_ResetsFirst ==
    /\ burst = 0
    /\ stopRun(timeouts)
    /\ err' = Refusal
    /\ IF Refusal \in {"", "block error"}
       THEN /\ IF Refusal = "" THEN Reload(Image) ELSE reset
            /\ trace' = << >>
            /\ loaded' = program
       ELSE UNCHANGED <<cpuVars, trace, loaded>>
    /\ UNCHANGED <<editorVars, engine, burst>>

\* Mutant of loadAndReset: stopRun() is not called
loadAndReset_RunsOn ==
    /\ burst = 0
    /\ err' = Refusal
    /\ IF Refusal = ""
       THEN /\ Reload(Image)
            /\ trace' = << >>
            /\ loaded' = program
       ELSE UNCHANGED <<cpuVars, trace, loaded>>
    /\ UNCHANGED <<editorVars, engine, burst, timer, timeouts, runDisabled>>

loadAndReset ==
    /\ burst = 0
    /\ stopRun(timeouts)
    /\ err' = Refusal
    /\ IF Refusal = ""
       THEN /\ Reload(Image)
            /\ trace' = << >>
            /\ loaded' = program
       ELSE UNCHANGED <<cpuVars, trace, loaded>>
    /\ UNCHANGED <<editorVars, engine, burst>>

-----------------------------------------------------------------------------
(* Step cycle and Step instr                                               *)

clickStepCycle ==
    /\ Ready
    /\ stepCycle
    /\ UNCHANGED <<editorVars, engine, err, burst, loaded>>

\* Mutant of stepInstruction: a guard of 8 cycles
stepInstruction_ShortGuard ==
    /\ engine = "ready"
    /\ burst = 0 => cycles + LongestInstruction <= MaxCycles
    /\ stepCycle
    /\ burst' = IF running' /\ current_state' # "FETCH_0" /\ burst + 1 < 8
                THEN burst + 1 ELSE 0
    /\ UNCHANGED <<editorVars, engine, err, loaded>>

\* do { stepCycle(); g++; } while (...): g is burst
stepInstruction ==
    /\ engine = "ready"
    /\ burst = 0 => cycles + LongestInstruction <= MaxCycles
    /\ stepCycle
    /\ burst' = IF running' /\ current_state' # "FETCH_0" /\ burst + 1 < 80
                THEN burst + 1 ELSE 0
    /\ UNCHANGED <<editorVars, engine, err, loaded>>

-----------------------------------------------------------------------------
(* Run and Pause.  tick() ends by setting the next timeout even when its   *)
(* stepCycle has just called stopRun.                                      *)

\* Mutant of tick: stepCycle does not look at running after the step
tick_NoStop(pending, disabled) ==
    \/ /\ ~running
       /\ stopRun(pending)
       /\ UNCHANGED <<cpuVars, trace>>
    \/ /\ Cycle
       /\ timer' = NewTimer
       /\ timeouts' = pending \cup {NewTimer}
       /\ runDisabled' = disabled

tick(pending, disabled) ==
    \/ /\ ~running
       /\ stopRun(pending)
       /\ UNCHANGED <<cpuVars, trace>>
    \/ /\ Cycle
       /\ timer' = NewTimer
       /\ timeouts' = (IF running' THEN pending ELSE pending \ {timer}) \cup {NewTimer}
       /\ runDisabled' = (disabled /\ running')

\* A click on Run, which the page ignores while a timer is set
startRun ==
    /\ Ready
    /\ ~runDisabled
    /\ timer = NoTimer
    /\ tick(timeouts, TRUE)
    /\ UNCHANGED <<editorVars, engine, err, burst, loaded>>

fireTimeout ==
    /\ Ready
    /\ \E t \in timeouts : tick(timeouts \ {t}, runDisabled)
    /\ UNCHANGED <<editorVars, engine, err, burst, loaded>>

\* Mutant of clickPause: only the buttons change
clickPause_ButtonsOnly ==
    /\ burst = 0
    /\ runDisabled
    /\ runDisabled' = FALSE
    /\ UNCHANGED <<cpuVars, editorVars, engine, err, trace, timer, timeouts, burst, loaded>>

clickPause ==
    /\ burst = 0
    /\ runDisabled
    /\ stopRun(timeouts)
    /\ UNCHANGED <<cpuVars, editorVars, engine, err, trace, burst, loaded>>

-----------------------------------------------------------------------------

edit == burst = 0 /\ EditorNext /\ UNCHANGED <<cpuVars, pageVars>>

FrontendInit ==
    /\ Init
    /\ EditorInit
    /\ engine = "loading"
    /\ err = ""
    /\ trace = << >>
    /\ timer = NoTimer /\ timeouts = {} /\ runDisabled = FALSE
    /\ burst = 0
    /\ loaded = << >>

Handlers == \/ boot \/ loadAndReset
            \/ clickStepCycle \/ stepInstruction
            \/ startRun \/ fireTimeout \/ clickPause

FrontendNext == Handlers \/ edit

FrontendSpec == FrontendInit /\ [][FrontendNext]_allVars

\* A user who picks presets and leaves their blocks alone
pickPreset == /\ burst = 0
              /\ \E name \in Presets : loadPreset(name)
              /\ UNCHANGED <<cpuVars, pageVars>>

(* The browser calls tick once its delay has passed, whatever the user is  *)
(* doing, and a handler that has begun goes on to its end.                 *)
FairPresets == /\ FrontendInit /\ [][Handlers \/ pickPreset]_allVars
               /\ WF_allVars(fireTimeout)
               /\ WF_allVars(burst > 0 /\ stepInstruction)

-----------------------------------------------------------------------------

(* Type invariant of the page                                              *)
FrontendTypeOK ==
    /\ engine \in {"loading", "ready", "failed"}
    /\ err \in {"", "WASM failed to load", "WASM not loaded yet",
                "Add some blocks first.", "block error"}
    /\ \A i \in DOMAIN trace : trace[i] \in FSMState
    /\ timer \in Nat /\ timeouts \subseteq Nat \ {NoTimer}
    /\ runDisabled \in BOOLEAN
    /\ burst \in 0 .. 79

(* There is never more than one timeout on its way, and it is the one      *)
(* stopRun would cancel: no order of Run, Pause, Reset and Step clicks     *)
(* makes the machine run twice as fast, or on after Pause.                 *)
OneTimeout == timeouts = IF timer = NoTimer THEN {} ELSE {timer}

(* While Run is greyed out the machine is running and a tick is coming, so *)
(* the page never gets stuck with Run disabled.                            *)
RunMeansTicking == runDisabled => running /\ timer # NoTimer

(* The trace on the page is the history of the machine that is loaded: one *)
(* entry per cycle counted, the last of them the state it has just left.   *)
TraceTellsHistory ==
    /\ Len(trace) = cycles
    /\ trace # << >> =>
          Last(trace) = IF running THEN previous_state ELSE current_state

(* A load that is refused, because the engine is not there or a block does *)
(* not encode, leaves the machine and its trace as they were.              *)
RefusedLoadKeepsMachine ==
    [][(boot \/ loadAndReset) /\ err' # "" => UNCHANGED <<cpuVars, trace>>]_allVars

(* A machine that is not being run moves only under a click: the timeout   *)
(* that is still pending when the program halts finds nothing to do.       *)
IdleTimeoutHarmless ==
    [][fireTimeout /\ ~runDisabled => UNCHANGED <<cpuVars, trace>>]_allVars

(* Step instr comes to rest at the end of an instruction or of the         *)
(* program, never inside an instruction by its 80-cycle guard.             *)
StepInstructionCompletes ==
    [][(cycles' # cycles /\ burst' = 0 /\ burst > 0)
          => current_state' = "FETCH_0" \/ ~running']_allVars

(* What is executed is what was loaded: whatever is edited or refused      *)
(* meanwhile, the instruction in IR reads as the block of the last load    *)
(* that stands at its address.  (A program that stores may overwrite its   *)
(* own blocks.)                                                            *)
Stores(blocks) == \E i \in DOMAIN blocks : blocks[i].opcode \in StoresPC \cup {"STR"}

LoadedBlockExecuted ==
    LET at == Before(pc) - ORIG + 1
    IN  (/\ ~Stores(loaded)
         /\ at \in DOMAIN loaded
         /\ current_state \in Uncommitted \ {"FETCH_1", "FETCH_2"})
            => ReadsBack(IR, loaded[at], Before(pc), loaded)

(* What the page says its presets compute (index.html:54-56), at the end   *)
(* of a run of one: "Add two numbers (5 + 3)", "Bitwise NOT a zero         *)
(* register", "Sum 1..5 with a BR loop".                                   *)
PresetResults ==
    halted =>
        CASE Len(loaded) = 7 -> reg[0] = 0 /\ reg[1] = 15
          [] Len(loaded) = 4 -> reg[2] = 8
          [] Len(loaded) = 3 -> reg[0] = WordSize - 1
          [] OTHER -> FALSE

(* A preset that is loaded and run comes to its end, or is paused or       *)
(* loaded anew: Run does not stay greyed out for ever.  (A machine nothing *)
(* was loaded in runs through its zeros until it is paused.)               *)
RunEnds == (runDisabled /\ loaded # << >>) ~> ~runDisabled

-----------------------------------------------------------------------------
(* What the page is to its user: the machine, with its timer and its       *)
(* clicks, implements LC3Page (PageSpec as a property of the page).        *)
pagePhase == CASE engine # "ready" -> "off"
               [] engine = "ready" /\ runDisabled -> "running"
               [] engine = "ready" /\ ~runDisabled /\ running -> "idle"
               [] OTHER -> "stopped"

Page == INSTANCE LC3Page WITH phase <- pagePhase, done <- Len(trace)

PageSpec == Page!Spec

-----------------------------------------------------------------------------
(* script.js:547: "Highlight which block the CPU is currently              *)
(* fetching/executing".                                                    *)

\* Mutant of Highlighted: PC has not been incremented yet
Highlighted_AtPC ==
    IF pc - ORIG \in 0 .. Len(program) - 1 THEN pc - ORIG + 1 ELSE 0

\* The block that highlightActiveBlock picks, 0 when it picks none
Highlighted ==
    LET count == Len(program)
        byIR  == IF IR # 0 THEN pc - 1 - ORIG ELSE -1
        idx   == IF byIR \in 0 .. count - 1 THEN byIR ELSE pc - ORIG
    IN  IF idx \in 0 .. count - 1 THEN idx + 1 ELSE 0

\* In the middle of an instruction of the program as it was loaded, the
\* highlighted block is the one whose address was fetched
HighlightsCurrentBlock ==
    (program = loaded /\ current_state \in Uncommitted /\ Before(pc) - ORIG \in 0 .. Len(program) - 1)
        => Highlighted = Before(pc) - ORIG + 1

=============================================================================
