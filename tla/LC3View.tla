-------------------------------- MODULE LC3View --------------------------------
(***************************************************************************)
(* The page with what it shows (www/script.js, render and renderProgram):  *)
(* the driver of LC3Frontend, whose edits are made through the rows of     *)
(* LC3BlockList, the machine as it was drawn last, and the highlighted     *)
(* row.  Nothing on the page is bound to the machine or to the program:    *)
(* each handler has to call what draws them anew.                          *)
(***************************************************************************)
EXTENDS LC3Frontend, LC3BlockList, LC3StateTable

VARIABLES shown,      \* what render() drew last, or Blank
          active      \* the id of the row with the class 'active', or NoRow

viewVars == <<allVars, rows, shown, active>>

NoRow == 0
Blank == << >>

-----------------------------------------------------------------------------
(* What render() writes.  The state it names is the one the last cycle was *)
(* made in, not the one the machine is in.                                 *)

StageLine ==
    IF trace = << >> THEN [name |-> "ready", number |-> NoNumber]
                     ELSE [name |-> Last(trace), number |-> StateNumber(Last(trace))]

RegisterTable == [reg |-> reg, pc |-> pc, IR |-> IR, MAR |-> MAR, MDR |-> MDR,
                  codes |-> <<n, z, p>>]

\* drawDatapath
Datapath == [lit   |-> IF trace = << >> THEN {} ELSE Lit(Last(trace)),
             nodes |-> <<pc, IR, MAR, MDR, ReadMem(memory, MAR)>>]

\* renderTrace: the rows are made from the whole trace each time
TraceBox == trace

Screen == [stage |-> StageLine, pill |-> get_cycle_count, registers |-> RegisterTable,
           datapath |-> Datapath, trace |-> TraceBox]

\* The class is taken from every row, and given to the row of the block
\* that Highlighted picks
highlightActiveBlock ==
    active' = IF Highlighted' # 0 /\ \E k \in DOMAIN rows' : rows'[k].id = program'[Highlighted'].id
              THEN program'[Highlighted'].id
              ELSE NoRow

render == shown' = Screen' /\ highlightActiveBlock

RenderIf(condition) == IF condition THEN render ELSE UNCHANGED <<shown, active>>

-----------------------------------------------------------------------------
(* The handlers of LC3Frontend, each with the render() it comes to         *)

bootView == UNCHANGED rows /\ boot /\ RenderIf(engine' = "ready")

loadView == UNCHANGED rows /\ loadAndReset /\ RenderIf(Refusal = "")

clickView == UNCHANGED rows /\ (clickStepCycle \/ stepInstruction) /\ render

\* Mutant of tickView: only the end of the run is drawn
tickView_AtEnd == UNCHANGED rows /\ (startRun \/ fireTimeout) /\ RenderIf(running /\ ~running')

\* tick() makes no cycle when it finds the machine stopped
tickView == UNCHANGED rows /\ (startRun \/ fireTimeout) /\ RenderIf(running)

pauseView == clickPause /\ UNCHANGED <<rows, shown, active>>

\* Mutant of editView: the rows of blocks that are kept keep their class
editView_KeepsClass ==
    /\ burst = 0
    /\ ListNext
    /\ UNCHANGED <<cpuVars, pageVars, shown, active>>

\* renderProgram makes new rows, none of them active
editView ==
    /\ burst = 0
    /\ \/ Redrawing /\ active' = NoRow
       \/ Storing /\ UNCHANGED active
    /\ UNCHANGED <<cpuVars, pageVars, shown>>

-----------------------------------------------------------------------------

ViewInit == FrontendInit /\ rows = << >> /\ shown = Blank /\ active = NoRow

ViewNext == bootView \/ loadView \/ clickView \/ tickView \/ pauseView \/ editView

ViewSpec == ViewInit /\ [][ViewNext]_viewVars

-----------------------------------------------------------------------------

(* After every handler the registers, the datapath, the pill and the trace *)
(* are those of the machine as it is, from Run, Step, Reset and the end of *)
(* boot alike; and the pill (counted by the CPU, script.js:524) tells the  *)
(* same number of cycles as the heading of the trace (counted by the page, *)
(* script.js:570), as long as it fits in the pill's 16 bits.               *)
ViewFresh ==
    engine = "ready" =>
        /\ shown = Screen
        /\ Len(shown.trace) < CountSpan => shown.pill = Len(shown.trace)

(* The highlighted row is never one left over from before an edit: it is   *)
(* there, once, and shows the block that PC and IR point at in the program *)
(* as it is now.                                                           *)
ActiveBlockShown ==
    active # NoRow =>
        /\ Highlighted # 0
        /\ active = program[Highlighted].id
        /\ Cardinality({k \in DOMAIN rows : rows[k].id = active}) = 1

(* script.js:547 does hold once IR is loaded: in the middle of an          *)
(* instruction, while the blocks are those that were loaded (their fields  *)
(* may have been edited), the highlighted row is the block being executed. *)
Ids(blocks) == [i \in DOMAIN blocks |-> blocks[i].id]

ExecutedBlockActive ==
    LET at == Before(pc) - ORIG + 1
    IN  /\ active # NoRow /\ Ids(program) = Ids(loaded)
        /\ IR # 0 /\ current_state \in Uncommitted /\ at \in DOMAIN loaded
        => active = loaded[at].id

=============================================================================
