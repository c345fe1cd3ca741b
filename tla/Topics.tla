------------------------------- MODULE Topics -------------------------------
(***************************************************************************)
(* The MQTT topics of the bridge: those that discovery tells Home          *)
(* Assistant of (mqtt/ha_discovery.go), those that updates are published   *)
(* to (event2MQTTMessage of adapter/actor/mqtt.go), and those that are     *)
(* read as commands (mqtt/client.go and actorutil/util.go).                *)
(*                                                                         *)
(* A topic is the sequence of its levels below the base topic, a payload   *)
(* is the string it is.  What is no command has no command: the empty set. *)
(***************************************************************************)
EXTENDS Sensors, TLC

SensorStateTopic(id) == <<"sensor", id, "state">>
SwitchStateTopic(id) == <<"switch", id, "state">>
SwitchCommandTopic(id) == <<"switch", id, "command">>
InputNumberStateTopic(id) == <<"number", id, "state">>
InputNumberCommandTopic(id) == <<"number", id, "set">>
BridgeStateTopic == <<"bridge", "state">>

(* What discovery tells Home Assistant *)

AnnouncedStateTopic(id) ==
    CASE id \in BatteryControlSwitches -> SwitchStateTopic(id)
      [] id \in BatteryControlInputNumbers -> InputNumberStateTopic(id)
      [] id \in BridgeSensors -> BridgeStateTopic
      [] OTHER -> SensorStateTopic(id)

Payload(enable) == IF enable THEN "on" ELSE "off"

\* Of the number: Min, Max and Step.
TargetSoCs == {5 * n : n \in 0 .. 20}

(* What updates are published to *)

EventTopic(id) ==
    CASE id \in BatteryControlSwitchesUpdates -> SwitchStateTopic(id)
      [] id \in BatteryControlSetTargetSoCUpdates -> InputNumberStateTopic(id)
      [] id \in BridgeStateUpdates -> BridgeStateTopic
      [] OTHER -> SensorStateTopic(id)

\* What the updates of the switches, the number and the bridge hold; those of
\* the sensors are numbers and texts too.
EventPayloads == {"on", "off", "online", "offline"} \cup {ToString(n) : n \in TargetSoCs}

\* What the proofs assume of ToString, which the TLC module leaves to TLC.
ASSUME NumeralsAssumption ==
    /\ \A m, n \in 0 .. 255 : ToString(m) = ToString(n) => m = n
    /\ \A n \in TargetSoCs : ToString(n) \notin {"on", "off", "online", "offline"}

(* What is read as a command *)

\* Of what the bridge and Home Assistant send, what ParseFloat takes.
IsNumber(payload) == payload \notin {"on", "off", "online", "offline"}

\* An integer of 8 bits, or none.
ParseUint(payload) == {n \in 0 .. 255 : ToString(n) = payload}

\* The expressions are not anchored: more levels may follow.
IsCommandTopic(topic, kind, leaf) == Len(topic) >= 3 /\ topic[1] = kind /\ topic[3] = leaf

ParseMQTTCommand(topic, payload) ==
    IF \/ IsCommandTopic(topic, "switch", "command")
       \/ IsCommandTopic(topic, "number", "set") /\ IsNumber(payload)
    THEN {[DeviceId |-> topic[2], Payload |-> payload]}
    ELSE {}

\* Mutant: the target is read as a percentage below 100.
ParsedMQTTCommandToCommandBelow100(cmd) ==
    CASE cmd.DeviceId = "battery_hold" -> {[type |-> "hold", enable |-> cmd.Payload = "on"]}
      [] cmd.DeviceId = "battery_charge" -> {[type |-> "charge", enable |-> cmd.Payload = "on"]}
      [] cmd.DeviceId = "battery_charge_target_soc" ->
            {[type |-> "target", TargetSoC |-> n] : n \in {m \in ParseUint(cmd.Payload) : m < 100}}
      [] OTHER -> {}

\* The command is chosen by the entity alone, whatever kind its topic is of.
ParsedMQTTCommandToCommand(cmd) ==
    CASE cmd.DeviceId = "battery_hold" -> {[type |-> "hold", enable |-> cmd.Payload = "on"]}
      [] cmd.DeviceId = "battery_charge" -> {[type |-> "charge", enable |-> cmd.Payload = "on"]}
      [] cmd.DeviceId = "battery_charge_target_soc" ->
            {[type |-> "target", TargetSoC |-> n] : n \in {m \in ParseUint(cmd.Payload) : m <= 100}}
      [] OTHER -> {}

Commands(topic, payload) ==
    UNION {ParsedMQTTCommandToCommand(cmd) : cmd \in ParseMQTTCommand(topic, payload)}
=============================================================================
