-------------------------- MODULE MCBatteryControl --------------------------
(* Small instances of BatteryControl for TLC. *)
EXTENDS BatteryControl

MCSoCs == {50, 100}
MCPowers == {-3, 5}
=============================================================================
