----------------------------- MODULE LC3BlockList -----------------------------
(***************************************************************************)
(* The block list as the page draws it (www/script.js, renderProgram and   *)
(* renderField), over the program of LC3Editor.  A row is drawn for a      *)
(* block, and its handlers keep what renderProgram captured: the block     *)
(* (b, block), its position (idx), the labels there were (labels), and     *)
(* which controls the fields called for.  What the user can do depends on  *)
(* the rows, what is done depends on the program; only the handlers that   *)
(* end in renderProgram() draw the rows again.                             *)
(***************************************************************************)
EXTENDS LC3Editor

VARIABLE rows       \* the rows of #program, each a block as its controls show it

listVars == <<editorVars, rows>>

-----------------------------------------------------------------------------

renderProgram == rows' = program'

\* The place in the program of the block that row k was drawn for
Owner(k) == {i \in DOMAIN program : program[i].id = rows[k].id}

\* The browser sets the control that is used, then calls its handler
Shows(k, name, value) == rows' = [rows EXCEPT ![k].fields[name] = value]

-----------------------------------------------------------------------------
(* Palette, drops on row k (at its idx) or below the list, buttons         *)

ArrangeRows ==
    /\ \/ \E opcode \in Opcodes : clickPalette(opcode)
       \/ \E opcode \in Opcodes, idx \in DOMAIN rows \cup {Len(program) + 1} :
             dropNew(opcode, idx)
       \/ \E k \in DOMAIN rows, idx \in DOMAIN rows \cup {Len(program) + 1} :
             \E from \in Owner(k) : dropMove(from, idx)
       \/ \E k \in DOMAIN rows : \E i \in Owner(k) : deleteBlock(i)
       \/ clear
       \/ \E name \in Presets : loadPreset(name)
    /\ renderProgram

LabelRow(k) ==
    /\ \E i \in Owner(k) :
          IF rows[k].label = NoName
          THEN \E text \in Texts : nameBlock(i, text)
          ELSE SetLabel(i, NoName)
    /\ renderProgram

-----------------------------------------------------------------------------
(* The fields of a row                                                     *)

HasControl(k, name) == name \in DOMAIN rows[k].fields

\* The controls whose handler stores what they show, and draws nothing
storeField(k, name, value) ==
    /\ HasControl(k, name)
    /\ \E i \in Owner(k) : SetField(i, name, value)
    /\ Shows(k, name, value)

\* The control of op2 is the register or the number box it was drawn as
pickOperand(k, r) ==
    /\ HasControl(k, "op2") /\ rows[k].fields.op2.shape = "reg"
    /\ storeField(k, "op2", Register(r))

typeOperand(k, v) ==
    /\ HasControl(k, "op2") /\ rows[k].fields.op2.shape # "reg"
    /\ storeField(k, "op2", Number(v))

\* Mutant of pickMode: the row keeps the control of the other mode
pickMode_NotDrawn(k, mode) ==
    /\ HasControl(k, "mode")
    /\ \E i \in Owner(k) : chooseMode(i, mode)
    /\ Shows(k, "mode", mode)

pickMode(k, mode) ==
    /\ HasControl(k, "mode")
    /\ \E i \in Owner(k) : chooseMode(i, mode)
    /\ renderProgram

Toggled(boxes, c) == IF c \in boxes THEN boxes \ {c} ELSE boxes \cup {c}

\* Mutant of clickBox: what is stored is `cur`, which has no term for n
clickBox_Cur(k, c) ==
    /\ HasControl(k, "nzp")
    /\ LET boxes == Toggled(rows[k].fields.nzp, c)
       IN  /\ \E i \in Owner(k) : checkNZP(i, boxes \cap {c, "z", "p"})
           /\ Shows(k, "nzp", boxes)

\* cb.onchange: all three are stored when none is checked
clickBox(k, c) ==
    /\ HasControl(k, "nzp")
    /\ LET boxes == Toggled(rows[k].fields.nzp, c)
       IN  /\ \E i \in Owner(k) : checkNZP(i, boxes)
           /\ Shows(k, "nzp", boxes)

\* "(choose target)" or a label; or "numeric offset", unless it is what the
\* box shows, and then a text (an empty one is no target) or Cancel
pickTarget(k) ==
    /\ HasControl(k, "target")
    /\ LET named == {NoName} \cup LabelsOf(rows)
       IN  \/ \E target \in named, i \in Owner(k) : chooseTarget(i, target)
           \/ /\ rows[k].fields.target \in named
              /\ \/ \E text \in {NoName} \cup Texts, i \in Owner(k) : chooseTarget(i, text)
                 \/ UNCHANGED editorVars
    /\ renderProgram

StoreField(k) ==
    \/ \E name \in {"DR", "SR1", "SR", "BaseR"}, r \in Registers : storeField(k, name, r)
    \/ \E r \in Registers : pickOperand(k, r)
    \/ \E v \in Immediates : typeOperand(k, v) \/ storeField(k, "off6", v)
    \/ \E c \in {"n", "z", "p"} : clickBox(k, c)
    \/ \E v \in TrapVectors : storeField(k, "vector", v)

RedrawField(k) == pickTarget(k) \/ \E mode \in {"SR2", "imm"} : pickMode(k, mode)

-----------------------------------------------------------------------------

ListInit == EditorInit /\ rows = << >>

\* The handlers that end in renderProgram(), and those that do not
Redrawing == ArrangeRows \/ \E k \in DOMAIN rows : LabelRow(k) \/ RedrawField(k)
Storing == \E k \in DOMAIN rows : StoreField(k)

ListNext == Redrawing \/ Storing

ListSpec == ListInit /\ [][ListNext]_listVars

-----------------------------------------------------------------------------

\* A row with no box checked stands for a block that stores all three
Stored(row) ==
    IF "nzp" \in DOMAIN row.fields /\ row.fields.nzp = {}
    THEN [row EXCEPT !.fields.nzp = {"n", "z", "p"}]
    ELSE row

(* What is loaded is what the page shows, block by block and field by      *)
(* field, though most field editors store a value without drawing the row  *)
(* again (script.js:313-394); the one exception is a BR whose three boxes  *)
(* are cleared, which branches on all three (script.js:361).               *)
ListShowsProgram ==
    /\ Len(rows) = Len(program)
    /\ \A k \in DOMAIN program : program[k] = Stored(rows[k])

(* The rows refine the editor (EditorSpec as a property of ListSpec): no   *)
(* row ever offers a control that its block no longer calls for, acts on   *)
(* another block than the one it shows, or is left over from a block that  *)
(* is gone, though positions and labels are captured when a row is drawn   *)
(* (script.js:255-299).                                                    *)
=============================================================================
