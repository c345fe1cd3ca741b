-------------------------- MODULE DeviceDiscovery --------------------------
(***************************************************************************)
(* From the registers of the devices to the entities in Home Assistant:    *)
(* the Modbus actor opens the inverter and the meter when it starts, which *)
(* surveys their blocks (Survey), and is not ready before; the discovery   *)
(* actor (HADiscovery) then announces what GetInfo tells of them.          *)
(***************************************************************************)
EXTENDS HADiscovery, Survey

CONSTANTS
    InverterDevices,   \* inverters that may be connected
    MeterDevices,      \* meters that may be connected
    NoMeter            \* among them: there is no reader for a meter

ASSUME DevicesAssumption ==
    \A device \in InverterDevices \cup (MeterDevices \ {NoMeter}) : IsDevice(device)

VARIABLES
    inverter, meter,   \* the devices
    inverterBlocks,    \* what the surveys have found: of no device
    meterBlocks,       \* before, and when they fail
    opened             \* how the Modbus actor has started: not, failed, open

surveyVars == <<inverter, meter, inverterBlocks, meterBlocks, opened>>
allVars == <<vars, surveyVars>>

DiscoveryInit ==
    /\ Init
    /\ ~ready /\ devices = [storage |-> FALSE, meter |-> FALSE]
    /\ inverter \in InverterDevices /\ meter \in MeterDevices
    /\ inverterBlocks = {} /\ meterBlocks = {}
    /\ opened = "not"

\* StartingReceive of the Modbus actor on Started: both devices are opened, the
\* inverter first.  If one fails the actor is started again.
Open ==
    /\ opened # "open"
    /\ inverterBlocks' = InverterSurvey(inverter)
    /\ meterBlocks' = IF inverterBlocks' = {} \/ meter = NoMeter THEN {} ELSE MeterSurvey(meter)
    /\ opened' = IF inverterBlocks' # {} /\ (meter = NoMeter \/ meterBlocks' # {})
                 THEN "open" ELSE "failed"
    /\ devices' = [storage |-> \E found \in inverterBlocks' : HasStorage(inverter, found),
                   meter |-> meterBlocks' # {}]
    /\ UNCHANGED <<inverter, meter, trackHouse, ready, state, mailbox, pending, healthyRecv,
                   modbusActorHealthy, mqttActorHealthy, announced>>

\* The Modbus actor answers only when the devices are open.
ModbusAnswered ==
    \E i \in DOMAIN mailbox' : mailbox'[i].type \in {"modbus", "info"} /\ mailbox'[i].ok

DiscoveryNext ==
    \/ Open
    \/ Next /\ (ready' \/ ModbusAnswered => opened = "open") /\ UNCHANGED surveyVars

DiscoverySpec == DiscoveryInit /\ [][DiscoveryNext]_allVars

\* As in LiveSpec; the devices may never be open.
LiveDiscovery ==
    /\ DiscoverySpec
    /\ WF_allVars(Handle /\ UNCHANGED surveyVars)
    /\ \A k \in Kinds : WF_allVars(FutureCompletes(k) /\ UNCHANGED surveyVars)

-----------------------------------------------------------------------------
(* Properties *)

BlockStarts(device, ids) ==
    {Starts(device.blocks)[i] : i \in {j \in DOMAIN device.blocks : device.blocks[j].id \in ids}}

Within(device, limit) ==
    [device EXCEPT !.blocks = SubSeq(@, 1, IF Len(@) <= limit + 2 THEN Len(@) ELSE limit + 2)]

\* Each block tells its length.
Conforming(device) == \A i \in DOMAIN device.blocks : device.blocks[i].says = device.blocks[i].length

\* A walk that only meets blocks, though it may meet them again.
Aligned(device) ==
    LET blocks == Blocks(device)  start == Starts(blocks)
    IN  \A i \in DOMAIN device.blocks : \E j \in DOMAIN blocks :
            (start[i] + blocks[i].says + 2) % Addresses = start[j]

\* What a survey must find: of a device that conforms, the blocks that it has
\* among the first ones, if all that are needed are there; of one that leads the
\* walk in circles, blocks that it has.
FoundRight(device, kinds, required, limit, found) ==
    LET has(kind) == BlockStarts(Within(device, limit), kinds[kind]) # {}
    IN  /\ Conforming(device) =>
              /\ found # {} <=> device.sunspec /\ \A kind \in required : has(kind)
              /\ \A blocks \in found, kind \in DOMAIN kinds : blocks[kind] # 0 <=> has(kind)
        /\ Aligned(device) =>
              \A blocks \in found, kind \in DOMAIN kinds :
                  blocks[kind] \in BlockStarts(device, kinds[kind]) \cup {0}

\* The registers that are read and written later are those of the blocks the
\* devices have, whatever blocks these are, in whatever order, and wherever in
\* the 16-bit addresses the lengths they report lead the walk.
SurveyFindsBlocks ==
    opened # "not" =>
        /\ FoundRight(inverter, InverterBlocks, InverterRequired, InverterLimit, inverterBlocks)
        /\ inverterBlocks # {} /\ meter # NoMeter =>
              FoundRight(meter, MeterBlocks, MeterRequired, MeterLimit, meterBlocks)

\* Home Assistant is told of a battery exactly when the inverter has one and a
\* storage block to control it with, and, with one or two strings of panels,
\* the powers read are those of the panels and of the battery.
BatteryAnnouncedRight ==
    state = "done" /\ Conforming(inverter) =>
        /\ InverterStorageSensors \subseteq announced <=>
              inverter.battery /\ BlockStarts(Within(inverter, InverterLimit), {124}) # {}
        /\ \A strings \in 1 .. 2 : inverter.modules = strings + (IF inverter.battery THEN 2 ELSE 0) =>
              /\ PVModules(inverter.modules) = 0 .. strings - 1
              /\ BatteryModules(inverter.modules) =
                    IF inverter.battery THEN <<strings, strings + 1>> ELSE <<>>
=============================================================================
