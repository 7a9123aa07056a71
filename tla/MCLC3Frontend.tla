--------------------------- MODULE MCLC3Frontend ---------------------------
(***************************************************************************)
(* LC3Frontend with programs of a few blocks: an LDI (nine cycles) that    *)
(* can miss its target, a HALT; and with the presets, which run to their   *)
(* end.                                                                    *)
(***************************************************************************)
EXTENDS LC3Frontend

NoTexts == << >>
None    == {}

MCNames        == {"LOOP", "-1"}
MCNumericNames == {"-1"}
MCNumericValue == [t \in MCNumericNames |-> -1]

DriverOpcodes == {"LDI", "HALT"}
DriverTexts   == {"-1"}
DriverTrimmed == [t \in DriverTexts |-> t]

AllPresets == {"countdown", "addtwo", "notreg"}

=============================================================================
