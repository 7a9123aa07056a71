---------------------------- MODULE MCLC3Editor ----------------------------
(***************************************************************************)
(* LC3Editor on small programs: texts that trim() changes, texts that read *)
(* as numbers (one that fits no offset, one that fits JSR only, one that   *)
(* is no number after its '#'), and a text every JavaScript object has as  *)
(* a property.                                                             *)
(***************************************************************************)
EXTENDS LC3Editor

MCNames == {"LOOP", " LOOP ", "  ", "1", "-256", "300", "5000", "#x", "constructor"}

MCNumericNames   == {"1", "-256", "300", "5000", "#x"}
MCNumericValue   == [t \in MCNumericNames |->
                        CASE t = "1" -> 1 [] t = "-256" -> -256 [] t = "300" -> 300
                          [] t = "5000" -> 5000 [] OTHER -> NaN]
MCInheritedNames == {"constructor"}

TrimOf(texts) == [t \in texts |-> CASE t = " LOOP " -> "LOOP" [] t = "  " -> NoName [] OTHER -> t]

-----------------------------------------------------------------------------
(* Encoding: all opcodes, and every value that tells a check from its      *)
(* neighbour: the bounds of imm5 and offset6 and the numbers just outside  *)

EncodeImmediates == {-33, -32, -17, -16, -1, 15, 16, 31, 32, NaN}
EncodeRegisters  == {7}
EncodeTexts      == MCNames
EncodeTrimmed    == TrimOf(EncodeTexts)

None == {}

(* Two blocks, for the claims of the page and the README *)

ClaimOpcodes == {"ADD", "BR"}
ClaimImmediates == {16}
ClaimTexts   == {"LOOP", " LOOP ", "1"}
ClaimTrimmed == TrimOf(ClaimTexts)

=============================================================================
