------------------------------ MODULE Sensors ------------------------------
(***************************************************************************)
(* The entities of the bridge, by their ids: those that discovery          *)
(* announces to Home Assistant (core/domain/sensor.go) and those that each *)
(* answer of the devices gives a value to (core/events/event.go).  Names,  *)
(* units, icons and values are left out.                                   *)
(*                                                                         *)
(* Devices are [storage |-> the inverter has a battery, meter |-> there is *)
(* an AC meter].                                                           *)
(***************************************************************************)
EXTENDS Integers, Sequences

Devices == [storage : BOOLEAN, meter : BOOLEAN]

(* What is announced *)

InverterBaseSensors(trackHousePower) ==
    {"inverter_cabinet_temperature", "inverter_operating_state", "inverter_ac_power_flow",
     "inverter_acdc_power", "inverter_dcac_power", "inverter_pv_power"}
      \cup (IF trackHousePower THEN {"house_power"} ELSE {})

InverterStorageSensors ==
    {"battery_soc", "battery_max_capacity", "battery_current_capacity",
     "battery_operating_state", "battery_charge_power", "battery_discharge_power",
     "battery_power_flow"}

ACMeterBaseSensors ==
    {"acmeter_power_flow", "acmeter_import_power", "acmeter_export_power",
     "acmeter_total_energy_imported", "acmeter_total_energy_exported",
     "acmeter_grid_frequency", "acmeter_grid_voltage"}

BridgeSensors == {"bridge"}

BatteryControlSwitches == {"battery_hold", "battery_charge"}
BatteryControlInputNumbers == {"battery_charge_target_soc"}

AnnouncedFor(d, trackHouse) ==
    BridgeSensors \cup InverterBaseSensors(trackHouse /\ d.meter)
      \cup (IF d.storage THEN InverterStorageSensors ELSE {})
      \cup (IF d.meter THEN ACMeterBaseSensors ELSE {})
      \cup (IF d.storage /\ d.meter
            THEN BatteryControlSwitches \cup BatteryControlInputNumbers ELSE {})

(* What is given a value *)

InverterPowerFlowUpdates ==
    {"inverter_ac_power_flow", "inverter_acdc_power", "inverter_dcac_power",
     "inverter_pv_power", "battery_charge_power", "battery_discharge_power",
     "battery_power_flow"}

\* Mutant: the operating state is forgotten.
InverterStateUpdatesWithoutState == {"inverter_cabinet_temperature"}

InverterStateUpdates == {"inverter_cabinet_temperature", "inverter_operating_state"}

StorageStateUpdates ==
    {"battery_soc", "battery_max_capacity", "battery_current_capacity",
     "battery_operating_state"}

ACMeterPowerFlowUpdates ==
    {"acmeter_power_flow", "acmeter_import_power", "acmeter_export_power",
     "acmeter_total_energy_imported", "acmeter_total_energy_exported",
     "acmeter_grid_frequency", "acmeter_grid_voltage"}

HousePowerUpdates == {"house_power"}

\* WaitingPFReceive, when the devices could be read.
PowerFlowUpdates(d, trackHouse) ==
    InverterPowerFlowUpdates
      \cup (IF d.meter THEN ACMeterPowerFlowUpdates ELSE {})
      \cup (IF trackHouse /\ d.meter THEN HousePowerUpdates ELSE {})

\* By the battery control actor; the bridge state by the MQTT client.
BatteryControlSwitchesUpdates == {"battery_hold", "battery_charge"}
BatteryControlSetTargetSoCUpdates == {"battery_charge_target_soc"}
BridgeStateUpdates == {"bridge"}
=============================================================================
