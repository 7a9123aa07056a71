--------------------------- MODULE MCLC3BlockList ---------------------------
(***************************************************************************)
(* LC3BlockList with two blocks of one's own, one with two modes and one   *)
(* with boxes and a target, among the three of a preset.                   *)
(***************************************************************************)
EXTENDS MCLC3Editor, LC3BlockList

ArrangeOpcodes    == {"ADD", "BR"}
ArrangeRegisters  == {7}
ArrangeImmediates == {16}
ArrangeTexts      == {"LOOP"}
ArrangeTrimmed    == TrimOf(ArrangeTexts)
ArrangePresets    == {"notreg"}

=============================================================================
