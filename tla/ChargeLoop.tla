----------------------------- MODULE ChargeLoop -----------------------------
(***************************************************************************)
(* DefaultBatteryControlLogic.Loop                                         *)
(* (internal/core/service/battery_charge_control.go): the charge power for *)
(* the next control interval, from the power flow just measured, in closed *)
(* loop with the house, the solar panels and a battery that takes the      *)
(* power it was given, or less (when it is almost full, or cold).          *)
(*                                                                         *)
(* Measured powers are floating point numbers of watts: here integers of   *)
(* 1/Unit watt.  What the loop returns is an integer of watts.             *)
(***************************************************************************)
EXTENDS Integers

CONSTANTS
    StartPowerThreshold, MaxRatePowerIncrease, PowerImportSafetyMargin,
    MaxImportPower,
    MaxCapacityWatt,    \* of the battery
    Houses, PVs,        \* consumptions and productions, in 1/Unit watt
    Acceptances,        \* what the battery may take at most, in 1/Unit watt
    MaxChanges          \* bound: changes of consumption, production, acceptance

Unit == 2

ASSUME ConfigAssumption ==
    /\ StartPowerThreshold \in Nat /\ MaxRatePowerIncrease \in Nat
    /\ PowerImportSafetyMargin \in Nat /\ MaxImportPower \in Nat
    /\ MaxCapacityWatt \in Nat
ASSUME PowersAssumption ==
    Houses \subseteq Nat /\ PVs \subseteq Int /\ Acceptances \subseteq Nat
ASSUME ChangesAssumption == MaxChanges \in Nat

VARIABLES
    power,      \* the last NewPowerValue, the MinChargePowerWatt of charging
    house, pv,  \* what the house consumes, what the panels produce
    acceptance, \* what the battery takes at most
    full,       \* the target state of charge is reached
    exit,       \* the loop asked to leave the charging state
    tick,       \* what the last tick started from: none yet, or the power
    changes

loopVars == <<power, house, pv, acceptance, full, exit, tick, changes>>

-----------------------------------------------------------------------------
(* What the devices measure *)

Least(a, b) == IF a <= b THEN a ELSE b
Most(a, b) == IF a >= b THEN a ELSE b

\* A battery that is charged draws the commanded power, as far as it takes it;
\* the meter sees the rest.
Commanded == IF power > 0 THEN power * Unit ELSE 0
BatteryPower == Least(Commanded, acceptance)
ACPower == pv - BatteryPower
MeterPower == house - ACPower
ImportPower == Most(0, MeterPower)

-----------------------------------------------------------------------------
(* The control logic *)

RealPVPower == Most(0, pv)
ImportLimit == (MaxImportPower - PowerImportSafetyMargin) * Unit

\* Mutant: the import margin is spent again at every tick.
RunningPowerIgnoringImport ==
    LET new == power * Unit + Least(MaxRatePowerIncrease * Unit, ImportLimit)
    IN  IF new < RealPVPower THEN -1 * Unit ELSE new

\* Mutant: a start does not follow what the panels give.
StartPowerByRate ==
    LET powerBudget == ImportLimit + RealPVPower - (ACPower + MeterPower)
    IN  IF powerBudget > RealPVPower /\ powerBudget > StartPowerThreshold * Unit
        THEN Least(MaxRatePowerIncrease * Unit, powerBudget)
        ELSE -1 * Unit

\* "track house power consumption": the power to start with, or none.
StartPower ==
    LET houseConsumption == ACPower + MeterPower
        powerBudget == ImportLimit + RealPVPower - houseConsumption
    IN  IF powerBudget > RealPVPower /\ powerBudget > StartPowerThreshold * Unit
        THEN Least(Most(MaxRatePowerIncrease * Unit, RealPVPower), powerBudget)
        ELSE -1 * Unit

\* Mutant: all that the grid has to give at once.
RunningPowerAtOnce ==
    LET new == power * Unit + ImportLimit - ImportPower
    IN  IF new < RealPVPower THEN -1 * Unit ELSE new

\* "adjust charge power" by what the grid still has to give, or pause.
RunningPower ==
    LET availablePower == ImportLimit - ImportPower
        new == power * Unit + Least(MaxRatePowerIncrease * Unit, availablePower)
    IN  IF new < RealPVPower THEN -1 * Unit ELSE new

\* int32 of a float drops the fraction.
Watts(x) == x \div Unit

\* Mutant: the capacity is not a bound.
NewPowerValueUnbounded ==
    LET new == IF power = -1 THEN StartPower ELSE RunningPower
    IN  IF new <= 0 THEN -1 ELSE Watts(new)

NewPowerValue ==
    LET new == Least(MaxCapacityWatt * Unit,
                     IF power = -1 THEN StartPower ELSE RunningPower)
    IN  IF new <= 0 THEN -1 ELSE Watts(new)

LoopInit ==
    /\ power = -1
    /\ house \in Houses /\ pv \in PVs /\ acceptance \in Acceptances
    /\ full = FALSE /\ exit = FALSE
    /\ tick = "none"
    /\ changes = 0

\* One control tick: measure, compute, command.
Tick ==
    /\ ~exit
    /\ IF full
       THEN exit' = TRUE /\ power' = -1
       ELSE power' = NewPowerValue /\ UNCHANGED exit
    /\ tick' = IF full THEN "exit" ELSE IF power = -1 THEN "start" ELSE "adjust"
    /\ UNCHANGED <<house, pv, acceptance, full, changes>>

\* Consumption, production or what the battery takes change, or it reaches its
\* target.
Change ==
    /\ changes < MaxChanges
    /\ changes' = changes + 1
    /\ house' \in Houses /\ pv' \in PVs /\ acceptance' \in Acceptances
    /\ full' \in BOOLEAN
    /\ full => full'
    /\ tick' = "none"
    /\ UNCHANGED <<power, exit>>

LoopNext == Tick \/ Change

LoopSpec == LoopInit /\ [][LoopNext]_loopVars

\* The control actor ticks as long as it is charging.
LiveSpec == LoopSpec /\ WF_loopVars(Tick)

-----------------------------------------------------------------------------
(* Properties *)

\* Every variable keeps its type; a power is off, or within the battery's.
TypeOk ==
    /\ power \in {-1} \cup 0 .. MaxCapacityWatt
    /\ house \in Houses /\ pv \in PVs /\ acceptance \in Acceptances
    /\ full \in BOOLEAN /\ exit \in BOOLEAN
    /\ tick \in {"none", "start", "adjust", "exit"}
    /\ changes \in 0 .. MaxChanges

\* What the battery does not take of the command.
Shortfall == Commanded - BatteryPower

\* battery_charge_control_test.go:159, "house + batteryChargePower - pvPower <=
\* maxImport": a decision never asks more of the grid than the limit less the
\* margin, and what the battery left untaken.  The loop adds to its own last
\* command, not to what the battery draws, so the command may run ahead of a
\* battery that takes less, by no more than this shortfall.
GridLimit ==
    [][tick' \in {"start", "adjust"} /\ power' > 0 =>
         house + power' * Unit - Most(0, pv) <= ImportLimit + Shortfall]_loopVars

\* A running charge grows by the configured rate at most.
RateLimited ==
    [][tick' = "adjust" => power' <= power + MaxRatePowerIncrease]_loopVars

\* With nothing changing the loop comes to rest, charging or not: it does not
\* start and pause for ever (which would toggle the inverter at every tick).
\* Where it rests with a charge, the grid gives no more than the limit, even
\* when the command had run ahead of the battery before.  This is so while the
\* panels give no more than the battery may be charged with: the capacity caps
\* the power after it was compared with theirs (battery_charge_control.go:63-69),
\* so above it a start is paused by the next tick, and started again by the one
\* after.
Settles ==
    <>[](pv <= MaxCapacityWatt * Unit) =>
        \E p \in {-1} \cup 0 .. MaxCapacityWatt :
            <>[](power = p /\ (power > 0 => ImportPower <= ImportLimit))
=============================================================================
