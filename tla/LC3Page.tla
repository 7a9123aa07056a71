-------------------------------- MODULE LC3Page --------------------------------
(***************************************************************************)
(* What the buttons of the page promise their user (README.md,             *)
(* www/script.js 456-510), without timers, queues of clicks or a CPU: once *)
(* the engine is there, a machine that rests, is being run, or has         *)
(* stopped, and a count of the cycles made since the program was loaded.   *)
(* A stopped machine stays so until the next load; it stops in the cycle   *)
(* that stops it, not when the timer finds out; nothing is run that was    *)
(* not started.  LC3Frontend implements this.                              *)
(***************************************************************************)
EXTENDS Naturals

VARIABLES phase,      \* "off" (no engine), "idle", "running" or "stopped"
          done        \* the cycles since the last load

vars == <<phase, done>>

Boot == phase = "off" /\ phase' = "idle" /\ UNCHANGED done

\* Assemble & load, and Reset
Load == phase # "off" /\ phase' = "idle" /\ done' = 0

\* One cycle, after which the machine is in its next phase unless it stopped
Advance(next) == done' = done + 1 /\ phase' \in {next, "stopped"}

\* A click, a turn of the loop of Step instr, or a tick
Cycle == phase \in {"idle", "running"} /\ Advance(phase)

\* Run makes the first cycle itself
Start == phase = "idle" /\ Advance("running")

\* Pause, and a load that is refused
Pause == phase = "running" /\ phase' = "idle" /\ UNCHANGED done

Init == phase = "off" /\ done = 0

Next == Boot \/ Load \/ Cycle \/ Start \/ Pause

Spec == Init /\ [][Next]_vars

=============================================================================
