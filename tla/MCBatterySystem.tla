--------------------------- MODULE MCBatterySystem ---------------------------
(* A small instance of BatterySystem for TLC: hold, pause and charge, with a *)
(* power that is a whole number of percents and loses one in the register.   *)
EXTENDS BatterySystem

MCRelease == [charge |-> -1, discharge |-> -1]
MCHold == [charge |-> -1, discharge |-> 0]
MCControls == {MCHold, MCRelease, [charge |-> 29, discharge |-> -1]}
MCInexact == {29}
MCNoSet == [charge |-> -1, discharge |-> 1]
=============================================================================
