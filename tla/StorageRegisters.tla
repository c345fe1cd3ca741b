--------------------------- MODULE StorageRegisters ---------------------------
(***************************************************************************)
(* The registers of SunSpec model 124 (storage) by which a battery is      *)
(* controlled, and what SetStorageControl                                  *)
(* (pkg/sunspec_modbus/client_inverter_intsf_storage.go) writes to them: a *)
(* rate of discharge and a rate of charge in percent of the capacity, the  *)
(* bits that switch each on, and the time after which an inverter that     *)
(* hears nothing goes back to its default.  A negative rate of discharge   *)
(* forces a charge.                                                        *)
(***************************************************************************)
EXTENDS Integers

CONSTANTS
    Capacity,               \* WChaMax, in watts
    Steps,                  \* of a rate register per percent: 10^-SF
    Inexact,                \* the powers whose share float64 has just below a whole step
    ControlIntervalMillis   \* of the configuration

ASSUME CapacityAssumption == Capacity \in Nat \ {0}
ASSUME StepsAssumption == Steps \in Nat \ {0} /\ 100 * Steps < 2^15
ASSUME InexactAssumption == Inexact \subseteq Nat \ {0}
\* main.go:173 asks for two seconds; the upper bound keeps RevertSeconds in 16 bits.
ASSUME IntervalAssumption == ControlIntervalMillis \in 2000 .. 1000 * 2^15 - 1

\* Mutant: the interval is taken for minutes.
RevertSecondsOfMinutes == ((ControlIntervalMillis \div 60000) * 2) % 2^16

RevertSeconds == ((ControlIntervalMillis \div 1000) * 2) % 2^16

\* Percent of the capacity in steps of the register; int16 drops the fraction.  Of a
\* whole number of steps float64 may leave a little less, and int16 drops one more:
\* 1450 W of 5000 W are 2899 steps of a hundredth of a percent.
Rate(watt) ==
    LET steps == (100 * Steps * watt) \div Capacity
        short == watt \in Inexact /\ steps * Capacity = 100 * Steps * watt
    IN IF short THEN steps - 1 ELSE steps
FullRate == 100 * Steps

\* Mutant: a limit of zero is taken for no limit.
EncodedDroppingZero(p) ==
    [out |-> IF p.maxDischarge > 0 THEN Rate(p.maxDischarge)
             ELSE IF p.minCharge > 0 THEN -Rate(p.minCharge) ELSE FullRate,
     in |-> IF p.minDischarge > 0 THEN -Rate(p.minDischarge)
            ELSE IF p.maxCharge > 0 THEN Rate(p.maxCharge) ELSE FullRate,
     controlOut |-> p.maxDischarge > 0 \/ p.minCharge > 0,
     controlIn |-> p.minDischarge > 0 \/ p.maxCharge > 0,
     revert |-> RevertSeconds]

\* What is written for StorageControlParams; -1 stands for a power not given.
Encoded(p) ==
    [out |-> IF p.maxDischarge >= 0 THEN Rate(p.maxDischarge)
             ELSE IF p.minCharge >= 0 THEN -Rate(p.minCharge) ELSE FullRate,
     in |-> IF p.minDischarge >= 0 THEN -Rate(p.minDischarge)
            ELSE IF p.maxCharge >= 0 THEN Rate(p.maxCharge) ELSE FullRate,
     controlOut |-> p.maxDischarge >= 0 \/ p.minCharge >= 0,
     controlIn |-> p.minDischarge >= 0 \/ p.maxCharge >= 0,
     revert |-> RevertSeconds]

Writes == 3

\* Mutant: the bits are written before the rates.
WrittenBitsFirst(r, c, n) ==
    CASE n = 1 -> [r EXCEPT !.controlOut = c.controlOut, !.controlIn = c.controlIn]
      [] n = 2 -> [r EXCEPT !.out = c.out, !.in = c.in]
      [] n = 3 -> [r EXCEPT !.revert = c.revert]

\* The n-th of the writes of a command c: the rates, the bits, the time.
Written(r, c, n) ==
    CASE n = 1 -> [r EXCEPT !.out = c.out, !.in = c.in]
      [] n = 2 -> [r EXCEPT !.controlOut = c.controlOut, !.controlIn = c.controlIn]
      [] n = 3 -> [r EXCEPT !.revert = c.revert]

-----------------------------------------------------------------------------
(* What the registers mean to the inverter *)

DefaultRegisters == [out |-> FullRate, in |-> FullRate,
                     controlOut |-> FALSE, controlIn |-> FALSE, revert |-> 0]

\* The revert time has passed without a write; rates and time stay as they are.
Reverted(r) == [r EXCEPT !.controlOut = FALSE, !.controlIn = FALSE]

Free(r) == ~r.controlOut /\ ~r.controlIn
ForcedCharge(r) == r.controlOut /\ r.out < 0
DischargeBlocked(r) == r.controlOut /\ r.out <= 0
\* The power a forced charge has, to one step of the register.
ChargesAt(r, watt) ==
    /\ r.controlOut
    /\ -r.out * Capacity <= FullRate * watt /\ FullRate * watt <= (1 - r.out) * Capacity
=============================================================================
