---------------------------- MODULE BatterySystem ----------------------------
(***************************************************************************)
(* The battery control actor, the Modbus actor as far as it serves         *)
(* SetStorageControl requests, and the inverter's storage registers.       *)
(*                                                                         *)
(* Of the battery control actor this module takes what BatteryControl is   *)
(* shown to implement, StorageController.  Of the Modbus actor it keeps    *)
(* what ModbusActor has of sets: one task at a time, each set served once, *)
(* possibly after a later one (the stash and the read delay send messages  *)
(* again), and a task that outlives its time limit goes on writing on its  *)
(* own.  Each register write is a step of its own, and may fail.           *)
(***************************************************************************)
EXTENDS StorageController, StorageRegisters, Sequences, FiniteSets

CONSTANTS
    MaxAsked,    \* bound: sets not begun when one more is sent
    MaxZombies   \* bound: tasks that outlived their time limit at once

ASSUME BoundsAssumption == MaxAsked \in Nat \ {0} /\ MaxZombies \in Nat
\* What the battery control actor asks for (BatteryControlProofs: ControlsAsAssumed):
\* a power to charge at, a discharge of zero, or neither; -1 stands for a power not
\* given.
ASSUME ControlsAssumption ==
    Controls \cup {Release} \subseteq [charge : Nat \cup {-1}, discharge : {-1, 0}]

VARIABLES
    asked,      \* sets sent and not begun, in the order they were sent
    task,       \* the set the Modbus actor is blocked in, at most one
    zombies,    \* sets whose task timed out and goes on
    registers,
    reverted,   \* since the rates or the bits were last written, the inverter has
                \* reverted
    overtaken   \* since the service was last empty, sets may have been written
                \* out of order

systemVars == <<vars, asked, task, zombies, registers, reverted, overtaken>>

\* The battery control actor never limits a charge or forces a discharge.
StorageControlParams(p) == [minCharge |-> p.charge, maxCharge |-> -1,
                            minDischarge |-> -1, maxDischarge |-> p.discharge]
Command(p) == Encoded(StorageControlParams(p))

Busy == asked # <<>> \/ task # {} \/ zombies # {}

\* The registers are untouched, or as an earlier run of the program left them.
SystemInit ==
    /\ Init
    /\ asked = <<>> /\ task = {} /\ zombies = {}
    /\ registers \in {DefaultRegisters} \cup {Command(p) : p \in Controls}
    /\ reverted = FALSE
    /\ overtaken = FALSE

-----------------------------------------------------------------------------
(* The battery control actor *)

\* What the controller sends joins what the Modbus actor was asked for.  A
\* request whose future is live is answered once.
Send ==
    /\ Len(asked) < MaxAsked
    /\ (\E p \in Controls : Control(p)) \/ Leave
    /\ asked' = Append(asked, [params |-> wanted', live |-> TRUE])
    /\ overtaken' = (overtaken /\ Busy)
    /\ UNCHANGED <<task, zombies, registers, reverted>>

OtherSteps ==
    /\ GiveUp \/ Fail \/ Ignore
    /\ UNCHANGED <<asked, task, zombies, registers, reverted, overtaken>>

-----------------------------------------------------------------------------
(* The Modbus actor *)

\* The future of a request, if it is still live, completes.
Answer(live, ok) == IF live THEN Complete(ok) ELSE UNCHANGED vars

Without(queue, i) == SubSeq(queue, 1, i - 1) \o SubSeq(queue, i + 1, Len(queue))

\* Any of the requests may come next, a later one before an earlier one too;
\* next is the register write to come.
BeginSet(i) ==
    /\ task = {}
    /\ task' = {[params |-> asked[i].params, live |-> asked[i].live, next |-> 1]}
    /\ asked' = Without(asked, i)
    /\ overtaken' = (overtaken \/ i > 1 \/ zombies # {})
    /\ UNCHANGED <<vars, zombies, registers, reverted>>

WriteRegisters ==
    /\ \E t \in task :
          /\ t.next <= Writes
          /\ registers' = Written(registers, Command(t.params), t.next)
          /\ reverted' = (reverted /\ t.next = Writes)
          /\ task' = {[t EXCEPT !.next = @ + 1]}
    /\ UNCHANGED <<vars, asked, zombies, overtaken>>

\* Mutant: a write that fails is logged and answered like one that does not.
EndSetAlwaysWell ==
    /\ \E t \in task : Answer(t.live, TRUE)
    /\ task' = {}
    /\ UNCHANGED <<asked, zombies, registers, reverted, overtaken>>

\* The task ends: after the last write well, at a read or a write that fails
\* with an error, and what was written until then stays.
EndSet ==
    /\ \E t \in task : Answer(t.live, t.next > Writes)
    /\ task' = {}
    /\ UNCHANGED <<asked, zombies, registers, reverted, overtaken>>

\* Its time limit passes: an error is answered, the writes go on.
SetTimesOut ==
    /\ Cardinality(zombies) < MaxZombies
    /\ \E t \in task :
          /\ t.next <= Writes
          /\ zombies' = zombies \cup {[params |-> t.params, next |-> t.next]}
          /\ Answer(t.live, FALSE)
    /\ task' = {}
    /\ UNCHANGED <<asked, registers, reverted, overtaken>>

ZombieWrites ==
    /\ \E z \in zombies :
          /\ registers' = Written(registers, Command(z.params), z.next)
          /\ reverted' = (reverted /\ z.next = Writes)
          /\ zombies' = (zombies \ {z})
                          \cup {t \in {[z EXCEPT !.next = @ + 1]} : t.next <= Writes}
    /\ UNCHANGED <<vars, asked, task, overtaken>>

ZombieFails ==
    /\ \E z \in zombies : zombies' = zombies \ {z}
    /\ UNCHANGED <<vars, asked, task, registers, reverted, overtaken>>

\* The time limit of a future passes while its request waits or is served.
FutureTimesOut ==
    /\ \/ \E i \in DOMAIN asked :
             /\ asked[i].live
             /\ asked' = [asked EXCEPT ![i].live = FALSE]
             /\ UNCHANGED task
       \/ \E t \in task :
             /\ t.live
             /\ task' = {[t EXCEPT !.live = FALSE]}
             /\ UNCHANGED asked
    /\ Complete(FALSE)
    /\ UNCHANGED <<zombies, registers, reverted, overtaken>>

-----------------------------------------------------------------------------
(* The inverter *)

\* Its revert time passes.
Revert ==
    /\ ~Free(registers) /\ registers.revert > 0
    /\ registers' = Reverted(registers)
    /\ reverted' = TRUE
    /\ UNCHANGED <<vars, asked, task, zombies, overtaken>>

-----------------------------------------------------------------------------

Serve ==
    \/ \E i \in DOMAIN asked : BeginSet(i)
    \/ WriteRegisters \/ EndSet \/ SetTimesOut

SystemNext ==
    \/ Send \/ OtherSteps
    \/ Serve \/ ZombieWrites \/ ZombieFails \/ FutureTimesOut
    \/ Revert

SystemSpec == SystemInit /\ [][SystemNext]_systemVars

\* The controller sends again while it controls, and, as it keeps up with its
\* messages, an error answer makes it fail (BatteryControl: ControlGoesOn); the
\* Modbus actor serves what it is asked (ModbusActor: AllAnswered), a task that
\* outlived its limit ends, and an inverter that hears nothing reverts.
SystemFairness ==
    /\ WF_systemVars(controlling /\ (Send \/ (Fail /\ OtherSteps)))
    /\ WF_systemVars(upset /\ Fail /\ OtherSteps)
    /\ WF_systemVars(Serve)
    /\ WF_systemVars(ZombieWrites \/ ZombieFails)
    /\ WF_systemVars(Revert)

SystemLiveSpec == SystemSpec /\ SystemFairness

-----------------------------------------------------------------------------
(* Properties *)

\* What the parameters stand for.
Obeys(r, p) ==
    /\ IF p.discharge = 0 THEN DischargeBlocked(r) /\ ~ForcedCharge(r)
       ELSE IF p.charge >= 0 THEN ChargesAt(r, p.charge)
       ELSE ~r.controlOut
    /\ ~r.controlIn

\* When all that was sent is served and no error is to be read, the registers are
\* those of the last parameters, or the inverter has reverted since they were
\* written: a failed or half-written command never passes for one that was
\* followed, one that came no further than its rates on a free battery least of
\* all.  Only a set that was overtaken by a later one, or whose task outlived its
\* limit, can leave them otherwise.
QuietMeansFollowed ==
    ~Busy /\ ~upset /\ ~overtaken /\ wanted # NoSet
       => Obeys(registers, wanted) \/ (Free(registers) /\ reverted)

\* The order of the writes: a forced charge begins by a command to charge alone,
\* never by the bits of another one with a rate that an earlier command left.
ChargedOnlyWhenAsked ==
    [][~overtaken /\ ForcedCharge(registers') /\ ~ForcedCharge(registers) =>
         \E t \in task \cup zombies : t.params.charge >= 0]_systemVars

\* A controller that keeps to its parameters gets the battery there again and
\* again, however many commands were overtaken, half-written or reverted before.
InverterFollows ==
    \A p \in Controls :
        <>[](controlling /\ wanted = p) => []<>Obeys(registers, p)

\* A battery is not left forced or blocked by a controller that no longer
\* controls it, even one that failed and released nothing, whatever was
\* half-written then: the revert time sees to that, once one command has been
\* written to the end.
IdleFreesBattery ==
    /\ <>[](~controlling)
    /\ <>(\E t \in task : t.next > Writes)
    => <>[]Free(registers)
=============================================================================
