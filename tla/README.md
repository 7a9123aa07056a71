# LC-3 FSM simulator: specifications, model checking and proofs

TLA+ models of the LC-3 simulator in `src/`: the cycle-accurate CPU written in
C++ (`src/src`), which the page runs as WebAssembly, and the page itself
(`src/www/script.js`): its block editor, its encoder, its Run/Step driver and
what it draws.

## 1. The system

| Part | Code | State it keeps | Operations |
|---|---|---|---|
| CPU state machine | `cpu.cpp`, `cpu.h`, `cpu_state.h` | R0–R7, PC, N/Z/P, IR, MAR, MDR, current and previous FSM state, running, halted, cycles | `step()` (one of 39 `execute_*` handlers or a stop state), `run`, `reset`, `load_program`, `set_reg`, `set_pc`, `write_memory` |
| Memory | `memory.cpp`, `memory.h` | 2^16 words | `read`, `write`, `clear_memory`, `load_program` |
| State names, RTL texts | `cpu_state.h` | none | `fsm_state_to_string`, `fsm_state_description` |
| WASM bindings | `bindings.cpp` | a `CPU` | forwards `reset`, `loadProgram`, `step`; accessors |
| Native test | `test.cpp` | a `CPU` | loads one program, runs it, asserts the outcome |
| Catalog and encoder | `script.js` 19–215 | none | `sext`, `fits`, `resolveOffset`, the `encode` of each block, `encode()` |
| Block editor | `script.js` 162–430, 616–652 | `program`, `nextId` | palette click, drop of a new block, drag of a block, delete, label, fields, clear, presets |
| Page driver | `script.js` 454–510 | `cpu` (null or not), `trace`, `timer`, the pending timeout, Run/Pause enabled, `#err` | `boot`, `loadAndReset`, `stepCycle`, `stepInstruction`, `startRun`/`tick`, `stopRun` |
| Page view | `script.js` 239–396, 436–452, 512–607, `index.html`, `style.css` | what was drawn: the rows with what their handlers captured, the drawn machine, the class `active` | `renderProgram`, `render`, `drawDatapath`, `renderTrace`, `highlightActiveBlock` |
| Build, compiled engine, examples | `Makefile`, `lc3.js`, `lc3.wasm`, `examples/` | — | not modelled: no logic of the program's own (the `.asm` files are empty; `make native` names a `src/main.cpp` the repository does not have) |

How they interact: the editor changes `program`; `loadAndReset` encodes it,
resets the CPU and loads the words at x3000; each `stepCycle` (a click, a turn
of the loop of `stepInstruction`, or a tick of the Run timer) writes down the
state the machine is about to leave, calls `cpu.step()`, and stops the timer
when the machine has stopped. Only the page driver touches both sides. Nothing
on the page is bound to the machine or the program: each handler has to call
`render()` or `renderProgram()`, and until it does the page shows, and its
controls act on, what was there when it was last drawn.

What is hard here:

* one instruction is spread over 5 to 9 cycles by hand-written handlers that
  hand intermediate values on in IR, MAR and MDR and name their successors;
* a reset, a reload, or (through the public API) a poke of a register, the PC
  or memory may come between any two cycles;
* 16-bit wrap-around of the PC and of addresses, four widths of sign extension,
  programs that reach the end of memory;
* on the page, a timer that outlives the run that set it, clicks in any order,
  handlers that run before the engine is loaded, an encoder that throws in the
  middle of a load, labels that change under the targets that name them;
* what is drawn and what is: rows that keep the position, block and labels they
  were made with, field editors that store without drawing, a highlighted row
  worked out from the PC and an IR that may be stale;
* tables on the page keyed by strings of the C++ code (state numbers), and
  patterns matched against its RTL texts (the lit datapath elements).

`PROJECT.json` lists each of these at its line under `hazards`, with the
properties that cover it.

## 2. The modules

```
LC3Word ── LC3Memory ─┬─ LC3CPU ─┬─ LC3StateTable ───────────────┐
                      │          └─ LC3Session ──┐               │
                      └─ LC3ISA ····(INSTANCE)···┘├─ LC3Frontend ┼─ LC3View
LC3Word ── LC3Assembler ── LC3Editor ─┬───────────┘     :        │
                                      └─ LC3BlockList ──:────────┘
                              LC3Page ·········(INSTANCE)
proofs: LC3Word_proof ── LC3CPU_proof ─┬─ LC3Session_proof ──┐
                                       ├─ LC3Frontend_proof ─┼─ LC3View_proof
        LC3Editor_proof ── LC3Assembler_proof ───────────────┘        │
                                                             LC3Programs_proof
TLC:    MCLC3CPU, MCLC3Session, MCLC3Editor, MCLC3BlockList, MCLC3Frontend,
        MCLC3View
```

**LC3Word** – 16-bit arithmetic and instruction fields, as operators.
`BitAnd` sums the products of the bits, with no recursion, so that the modules
above it can be proved about.

**LC3Memory** – the `Memory` class. The array is a function on the addresses
written since the last `clear_memory`; all others read as 0. `LoadMem` drops
what falls past xFFFF, as the code does.

**LC3CPU** – the `CPU` class. One variable per member of `CPUState`, one action
per `execute_*` handler, under the handler's name. An action is a whole call of
`step()`: the `running` test (`At`), the handler, and `cycles++`
(`transition_to` and the stop actions). A `step()` of a stopped machine returns
at once and is no action. The public mutators are host calls, possible between
any two cycles (`HostCall`). `get_state()` also returns a mutable reference; no
caller writes through it, and it is left out.

**LC3ISA** – what the core promises: the instruction set, one action per
instruction, on registers, PC, condition codes and memory only. It is written
from the effect of each chain of handlers, and is the abstract specification.

**LC3Session** – the CPU as its callers use it: construct or reset, load, step,
perhaps reload at any cycle. It holds the refinement mapping to `LC3ISA`: an
instruction takes effect at the transition that first changes something visible
beyond the PC – the last one for most, `JSR_0` and `TRAP_1` (which write R7)
for calls. Until then the mapped PC is one behind, since FETCH_0 has already
incremented it.

**LC3StateTable** – what the page makes of the strings of `cpu_state.h`:
`StateNumber` (the table `STATE_NUM`, found by the *text* the C++ code returns,
which for JSR_1 and JSR_2 is not the name of the state), `Phase` (`family`) and
`Lit` (the patterns `drawDatapath` matches against the RTL text).

**LC3Assembler** – the block catalog and `encode()`, as operators without
state. A register field is its number; the second operand of ADD and AND keeps
its *shape* (register or number), since the code keeps both in one text field.
A text typed for a label or a target is a member of `Names`; constants say
which texts `resolveOffset` takes for a number, what `parseInt` makes of them,
and which any JavaScript object inherits (`symbols` is a plain `{}`, so a label
`constructor` is reported as a duplicate). An encoder that throws is a
`BlockFits` or `Encodes` that is false. `ReadsBack` is the reference the
encoder is checked against, and uses none of the encoder's own operators: the
fields as the handlers of `cpu.cpp` extract them, the condition bits one by one
as `execute_br0` tests them (`BranchesOn`), and for a label the address of the
one block that carries it (`LabelledAt`).

**LC3Editor** – `program` and `nextId`, one action per event handler. Deletion
filters on the id; it is written as the removal of one place, which `IdsUnique`
makes the same.

**LC3BlockList** – the rows that `renderProgram` draws for the program, each a
block as its controls show it. A row's handlers act on what was captured when it
was drawn: its block (`Owner` finds the place that block has now), its
position, the labels there were. So what the user *can do* depends on `rows`
and what is *done* depends on `program`; `Redrawing` handlers draw the rows
again and `Storing` ones do not. That this is nevertheless the editor of
`LC3Editor` is a refinement (`EditorSpec`), and that the rows show the program
an invariant (`ListShowsProgram`).

**LC3Frontend** – the page: the real CPU of `LC3Session`, the real editor and
encoder, and the driver's own variables. A handler is one action, because the
browser runs one at a time; the loop of `stepInstruction` is a series of steps
during which nothing else is enabled (`burst`). `timer` is the variable of the
code, `timeouts` the browser's side: the handles it will still call `tick` for.
That the two agree is a property (`OneTimeout`), not an assumption. `Pause` is
enabled exactly when `Run` is disabled, so one variable stands for both.
`loaded` is a history variable: the blocks of the last load.
`loadProgram` is the binding between encoder and CPU, with its cast of the
length to 16 bits.

**LC3Page** – what the buttons promise, without timers, loops or a CPU: a phase
(off, idle, running, stopped) and a count of cycles. `LC3Frontend` implements
it (`PageSpec`): nothing runs that was not started, a run ends in the very cycle
that stops the machine, only a load that succeeds starts a new count.

**LC3View** – the whole page: the driver, edited through the rows, with `shown`
(the machine as `render` drew it last) and `active` (the row with that class).
Each handler is that of the driver together with the `render` it comes to, or
does not: a refused load, a pause and a tick that finds the machine stopped do
not draw. `renderProgram` makes new rows, none of them active.

Definitions named `X_Something` just before a definition `X`, with a comment
that begins "Mutant", are faulty variants of it. No specification uses them:
they are there to confirm that each property fails when the code is wrong in
that way.

Each `_proof` module proves what its component promises, `LC3CPU_proof` also
what `LC3StateTable` does, and `LC3Programs_proof` what the programs compute
that the repository runs: the loop of `test.cpp` and the three presets.

## 3. The runs

| Run | Question | Bounds |
|---|---|---|
| `cpu_api` | Does the machine keep its types, one condition code, coherent stop flags and legal state paths under any host? Do the page's numbers and lit elements agree with what each state does? | one-word images, one per opcode and variant; the host sets R7, PC or x3000 to x3000 or xFFFF; 10 cycles |
| `session_isa` | Does each instruction do what `LC3ISA` says, and does each state find the latches it needs? | 859 programs, 36 cycles, a reload at any cycle |
| `session_live` | Is every instruction completed, for ever? Does the program of `test.cpp` end, as asserted, and in its 134th cycle? | 19 endless loops and the test program; the cycle counter wraps at 216, past those 134 cycles, so no behaviour ends at a bound |
| `editor_arrange` | Ids, drops, the mode/op2 pair, label targets, and the rows against the program, under any editing through the rows | ADD and BR, two blocks beside a preset's three, 8 ids, one label |
| `encoder_fields` | Does every accepted block read back as itself? | all opcodes, one block, every edge value of imm5, offset6, PC offsets, masks, vectors |
| `frontend` | Timer, trace, refused loads, and what is drawn, under any order of clicks, ticks and edits; is what is executed what was loaded; is the page an `LC3Page`? | `ViewSpec`; LDI and HALT, 2 blocks, 12 cycles |
| `presets` | Do the presets, encoded, loaded and run, give what the page announces, and does Run end? | the three presets, 130 cycles |
| `cycle_count`, `rtl_text`, `labels_unique`, `label_targets`, `highlight` | five statements of comments, README and page that the code does not keep (section 6) | |

Why the bounds are enough. The longest instruction takes nine cycles, so ten
cycles let a host call fall at each point of each instruction and the machine
go on for one more. In `session_isa` a program sets up registers and condition
codes, executes the instruction under test and runs on into HALT: 36 cycles
cover the longest. The registers R0, R1, R7 and the low-bit patterns are chosen
so that source, base and destination coincide and differ, and that every offset
width meets 0, ±1, its largest and its smallest value. A preset's
three blocks are the least with which a drop can go wrong on both sides of its
target, and two blocks of one's own the least with which a label can be
elsewhere or a row be left over from another block; eight ids let blocks be
deleted and added again. ADD is the opcode whose controls change with a field,
and BR the one with boxes and a target. Twelve cycles contain a whole HALT under Run –
hence the timeout left over after it – and the nine-cycle LDI under Step instr.

`CycleSpan` (2^64 in the code) and `CountSpan` (2^16) are parameters:
in `session_live` the counter wraps at 216, so that endless behaviours are
finite graphs and the 134 cycles of the test program are still told apart;
`cycle_count` uses 64 and 8.

Deadlock is checked except in `cycle_count` and `rtl_text`, which run the one
test program: it really ends.

**Fairness.** `FairSession` has weak fairness of the step: `CPU::run` is
`while (running) step()`, and the Run button keeps a timer going.
`FairPresets` has weak fairness of the timeout – the browser calls a timeout
that is due – and of a `stepInstruction` loop that has begun. Nothing is
assumed of the user: pausing, reloading or doing nothing for ever is allowed.

## 4. The properties

*CPU* – `TypeOK` (widths), `CondOneHot`, `StopFlags`, `FSMPath` (an instruction
stays within the states of its opcode), `InstructionProgress` (a
ranking over every cycle of a machine that goes on running, the ones that would
stay in their state included: at most nine cycles), `UnconditionalBranchTaken`
(to BR_1), `StoppedUntilReset`.

*Session* – `DatapathLatches` (what IR, MAR and MDR hold in each state),
`ISASpec` (refinement), `InstructionCompletes`; of the program of `test.cpp`
`SumLoopResult`, `SumLoopCycles` (134 cycles, neither more nor less) and
`SumLoopEnds`.

*Page's tables* – `NumbersFollowController` (the numbers of successive cycles
are a path of the diagram of Patt and Patel), `LitShowsChanges` (of PC, IR, MAR,
MDR and memory, what a cycle changes is lit in it).

*Editor and encoder* – `EditorTypeOK`, `IdsUnique`, `ModeReadsOperand`,
`DropLandsBeforeTarget`, `EncodedFaithfully`; through the rows
`ListShowsProgram` and the refinement `EditorSpec`.

*Page* – `FrontendTypeOK`, `OneTimeout`, `RunMeansTicking`,
`TraceTellsHistory`, `RefusedLoadKeepsMachine`, `IdleTimeoutHarmless`,
`StepInstructionCompletes`, `LoadedBlockExecuted` (the word in IR reads as the
block of the last load at its address, whatever was edited since),
`PresetResults`, `RunEnds`, the refinement `PageSpec`.

*View* – `ViewFresh` (what is shown is the machine as it is, after every
handler; the pill and the trace count the same cycles), `ActiveBlockShown` (the
highlighted row is there once and belongs to the program as it is),
`ExecutedBlockActive` (it is the block being executed, where the code gets this
right; section 6 has where it does not).

## 5. What is proved

For every value of the constants (any set of programs, any host values, any
counter spans), from the named assumptions on the constants
that TLC evaluates in the runs:

* `Spec => []TypeOK`, `[]CondOneHot`, `[]StopFlags`, `[]FSMPath`. `FSMPath` is
  not inductive alone: JSR_1 and JSR_2 depend on the bit tested in JSR_0, HALT
  on the vector tested in TRAP_2, and a stop state on the opcode of IR.
  `LC3CPU_proof` proves the conjunction `Inv` of the four inductive, one step
  per action, through one lemma per kind of handler (loads MAR, loads MDR,
  writes DR, ...).
* `Spec => StoppedUntilReset`, `UnconditionalBranchTaken` and
  `InstructionProgress`, from the same invariant. For the last, `StepBegins`
  says that FETCH_0 is left, `StepCloser` that in any other state a cycle after
  which the machine still runs lowers `CyclesLeft`, which is at most eight.
* `SessionSpec => []DatapathLatches`: what each handler finds in IR, MAR and
  MDR. It needs `Inv`, and facts about memory (`ReadAfterWrite`): a store
  happens only in the last state of its instruction, so what was fetched cannot
  change under it.
* `SessionSpec => ISASpec`: every step of the state machine is, under the
  mapping, one instruction, a restart, or a stutter. `DatapathLatches` is the
  invariant that makes it go through: at the transition that commits, the
  latches are rewritten as the memory expressions of `LC3ISA`.
* `LC3Word_proof` has the lemmas on words and memory these rest on.
* `FrontendSpec => []OneTimeout`, `[]RunMeansTicking`, `IdleTimeoutHarmless`,
  `RefusedLoadKeepsMachine` and `[]FrontendTypeOK`, for every program and any order of clicks, ticks and edits.
  `tick` sets the next timeout even after its `stepCycle` has stopped the run,
  so the two invariants are not inductive: `LC3Frontend_proof` adds
  `LeftoverFindsStopped`, a timeout pending while Run is enabled finds a machine
  that no longer runs. That the handle `setTimeout` returns is a new one
  (`NewTimerFresh`) is proved, not assumed.
* `FrontendSpec => []TraceTellsHistory` when `MaxCycles < CycleSpan`: a session
  shorter than the counter's 2^64 cycles. `StepEffect` – each handler
  either moves to a next state or stops in place, and counts one cycle – is the
  lemma on the CPU it needs.

* `FrontendSpec => PageSpec`. Beyond the timer it needs only that nothing has
  run before the engine is there; a table of the four phases (`PhaseTable`)
  turns each handler into a step of `LC3Page`.
* `Spec => NumbersFollowController` and `LitShowsChanges`: one lemma per handler
  on what its state number, its RTL text and its effect have to do with each
  other. The numbers need `Inv`: DECODE goes to a state of the opcode in IR.
* `EditorSpec => []EditorTypeOK`, `[]IdsUnique`, `[]ModeReadsOperand` and
  `DropLandsBeforeTarget`. The invariant is `EditorInv`: every block is a
  `TypedBlock` (fields of its opcode, values its controls give, op2 in the shape
  of mode), and every id is below `nextId`, without which new ids need not be
  new. `Inserted` and `Removed` say what drops do element by element.
* `ListSpec => []ListShowsProgram` and `ListSpec => EditorSpec`. `ListInv` adds
  to `EditorInv` that row k shows block k but for the boxes of BR. From it every
  `Owner(k)` is {k} (`RowOfBlock`), so the position, block and labels a row
  captured are still those of its block, though storing handlers do not draw.
* `EditorSpec => []EncodedFaithfully`: the words of a program that `encode()`
  accepts read back as its blocks. `Instr6`, and one lemma per family of
  opcodes, take a word apart with linear arithmetic, and `MaskTests` relates the
  mask that BR is given to the three bits the CPU tests; `BlockReadsBack` is the
  round trip of a single block, on the condition that the symbols are the
  addresses of the labelled blocks (`Locates`). Pass 1 of `encode()` makes them
  so, since it refuses a label of two blocks (`SymbolsLocate`), and `Short` (a program fits between x3000 and
  the end of memory: `MaxBlocks` is at most 53248, by `EditorAssumption`) keeps
  the addresses of labels words.
* `FrontendSpec => ISASpec` when a session may be given any program
  (`AnyProgram`): the page, down to the effect of each instruction. The encoder
  gives words (`WordsAreWords`), the cast of `loadProgram` cuts nothing off
  (`WholeProgramLoaded`), so a load is a `Reload` of `LC3Session`, and every
  cycle of a click or a tick is one of its steps; the rest is
  `SessionImplementsISA`.
* `FrontendSpec => StepInstructionCompletes`. In the loop, the cycles made plus
  `CyclesLeft` of the state are at most nine (`BurstInv`); every cycle of a
  machine that goes on brings the end nearer (`StepCloser`), so the guard of 80
  is never reached. It needs `Inv`, which `LoadedInv` carries to the page.
* `ViewSpec => FrontendSpec`: through the rows the user does what the driver's
  `edit` allows, so all that is proved of the driver holds of the page.
* `ViewSpec => []ViewFresh` (with `MaxCycles < CycleSpan`), `[]ActiveBlockShown`
  and `[]ExecutedBlockActive`. Every handler draws or leaves what is drawn
  alone (`DrawsOrKeeps`); an edit that keeps the rows keeps the ids
  (`FillKeepsIds`), one that moves them clears the class.

* `SessionSpec => []SumLoopResult` and, when the counter is wider than 134,
  `[]SumLoopCycles`. The lemma `Effect` reads every `ISA!Execute` as an effect on
  the state a programmer sees; on it `SumLines` says of each line of the loop
  what holds when control is there (R0 is the sum of the numbers above R1, by
  `2 * R0 + R1 * (R1 + 1) = 30`). A restart of the session may load any image;
  the assumption `SumSessions` is that each image begins with the test program
  (`SumLoopBegins`: the one of `test.cpp` does) or is another program without a
  store, for one that stores could write the test program itself and enter it in
  the middle. `ClockInv` counts: the cycles are those of the lines before
  (`Begun`) and those of the present instruction (`Spent`).
* `FrontendSpec => []LoadedBlockExecuted`. `CodeInv` – memory reads as the
  loaded blocks, until they store – is established by a load through the round
  trip of the encoder (`BlockReadsBack`) and kept by every cycle
  (`NoStoreBlocks`), and `DatapathLatches` takes it from memory into IR.
* `FairPresets => []PresetResults`: each preset leaves what `index.html` says in
  the registers, for a user who picks presets and assembles, runs, pauses, steps
  and resets them in any order. `PresetState` says per preset, line by line,
  what the registers hold; which line it is follows from `CodeInv`, so the proof
  goes from the blocks on the page to the registers. That `LOOP` resolves to the
  label and not to an offset is the last conjunct of `EditorAssumption`: `LOOP`
  is not made of digits (`script.js:185`).

Only model-checked: liveness (`InstructionCompletes`, `SumLoopEnds`, `RunEnds`),
since temporal properties under fairness are out of the prover's reach.
`SumLoopTakes134` and `InstructionProgress` are the safety half of the first
two: they bound the cycles (134 of the program, nine of any instruction), and
fairness says these are made.

## 6. Where the code and its documents disagree

| Run | Statement | Code |
|---|---|---|
| `cycle_count` | `cpu.h:88` "get the total cycles that program has executed for" | the 64-bit count is returned in 16 bits (`cpu.h:86`) |
| `rtl_text` | `README.md:50` every cycle logged with its RTL description | TRAP_1 also writes R7 (`cpu.cpp:241`); its text names MDR only (`cpu_state.h:126`) |
| `labels_unique` | `script.js:278` 'Label already used' | compared untrimmed, stored trimmed (`script.js:278-279`) |
| `label_targets` | `README.md:53` labels: "BR and JSR targets resolve them" | a label like `1` is taken for an offset (`script.js:185`) |
| `highlight` | `script.js:547` highlights the block "currently fetching/executing" | wrong while the first instruction is fetched (`script.js:554`) |

Also seen while modelling. Under the heading "Current state"
(`index.html:74`) the page writes "now in state" with the name of the state the
last cycle was made in, which the machine has left (`script.js:517`; the model's
`StageLine`). A BR whose three boxes are cleared is stored with all three
(`script.js:361`), and the boxes stay empty until the list is drawn again
(`Stored` in `ListShowsProgram`). Number fields store any number and a new block has no
target (`script.js:337`, `344`, `168`); both are refused on assembly only, so
"invalid combinations are unreachable by construction" (`README.md:48`) holds of
what is loaded, not of what is edited. And, where no document says otherwise:
JSRR R7 jumps to its
own return address; TRAP x20–x24 jump to address M[vector], which is 0 unless
the program wrote it, and the machine then runs through zeros as BR that is
never taken; Reset assembles the program as it is now, not as it was loaded;
Run on a machine nothing was loaded into runs through its zeros until Pause.

## 7. Abstractions

* Wording, HTML, colours, layout and scrolling, the stderr line of `step()`. Of
  an RTL text the model keeps what it names and what the page's patterns find.
* Memory as a sparse function (equal to the array, location by location).
* A row keeps its block itself; in the model `Owner` finds it by its id, which
  `IdsUnique` makes the same. The kind of control drawn for op2 is taken from
  the shape of its value.
* `parseInt` of a number field: the model starts from the number (or `NaN`). A
  text such as `1e1`, which the browser accepts as ten and `parseInt` reads as
  one, is therefore beyond the properties (the one hazard without any).
* The delay of the timer: a pending timeout may fire at any time.
* A drag whose block is gone (`fromIdx < 0`): the handler returns.

## 8. Plan

Sections 2 to 6 are done. What could still be added, in this order:

1. The number of cycles each preset takes, as for the test program: the safety
   half of `RunEnds`.
2. Number fields as texts with two readings, the browser's and `parseInt`'s.

Not modelled: the build rules, the compiled engine (`lc3.js`, `lc3.wasm`) and
the empty example files, which have no logic of the program's own; `embind` and
the browser are external and are modelled by how `script.js` uses them (a
timeout that is cleared is not called, a handler runs to its end).
