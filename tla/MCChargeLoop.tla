---------------------------- MODULE MCChargeLoop ----------------------------
(* A small instance of ChargeLoop for TLC; house, panels and what the battery *)
(* takes in half watts.                                                      *)
EXTENDS ChargeLoop

MCHouses == {0, 3, 7, 12, 17, 18, 24}
MCPVs == {-1, 0, 1, 5, 12, 20, 28, 40}
MCAcceptances == {0, 5, 28}
=============================================================================
