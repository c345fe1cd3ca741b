---------------------------- MODULE HADiscovery ----------------------------
(***************************************************************************)
(* HADiscoveryActor (internal/core/actor/ha_discovery.go): once the Modbus *)
(* and the MQTT actor are both healthy it asks for the devices and has     *)
(* their entities announced.  If one is not healthy, or the devices cannot *)
(* be asked, it panics, and the supervisor starts a new instance or, when  *)
(* it has done so too often in a short time, stops the actor.              *)
(*                                                                         *)
(* Nothing is sent to the actor but the answers to its requests: the stash *)
(* is always empty and is left out.                                        *)
(***************************************************************************)
EXTENDS ActorUtil, Topics

VARIABLES
    devices,             \* what is connected
    trackHouse,          \* the configuration's TrackHousePower
    ready,               \* both actors have started and answer in time
    state,
    mailbox,
    pending,             \* requests without an answer, by kind
    healthyRecv,
    modbusActorHealthy,
    mqttActorHealthy,
    announced            \* the entities of the PublishDiscoveryRequest

vars == <<devices, trackHouse, ready, state, mailbox, pending, healthyRecv,
          modbusActorHealthy, mqttActorHealthy, announced>>

Kinds == {"modbus", "mqtt", "info"}
Messages == [type : Kinds, ok : BOOLEAN]

Message == Head(mailbox)

\* StartingReceive on Started: the requests of a new instance.
Started ==
    /\ state' = "waitingHealthy"
    /\ healthyRecv' = 0
    /\ modbusActorHealthy' = FALSE /\ mqttActorHealthy' = FALSE
    /\ pending' = [k \in Kinds |-> pending[k] + (IF k = "info" THEN 0 ELSE 1)]

Init ==
    /\ devices \in Devices /\ trackHouse \in BOOLEAN
    /\ ready \in BOOLEAN
    /\ state = "waitingHealthy"
    /\ mailbox = <<>>
    /\ pending = [k \in Kinds |-> IF k = "info" THEN 0 ELSE 1]
    /\ healthyRecv = 0
    /\ modbusActorHealthy = FALSE /\ mqttActorHealthy = FALSE
    /\ announced = {}

\* A panic: a new instance keeps the mailbox.
Panic ==
    /\ \/ Started
       \/ /\ state' = "stopped"
          /\ UNCHANGED <<pending, healthyRecv, modbusActorHealthy, mqttActorHealthy>>
    /\ UNCHANGED announced

-----------------------------------------------------------------------------

\* Mutant: an answer is counted only if it is healthy.
HealthResponseCountingHealthy ==
    /\ state = "waitingHealthy" /\ mailbox # <<>> /\ Message.type \in {"modbus", "mqtt"}
    /\ mailbox' = Tail(mailbox)
    /\ LET modbus == modbusActorHealthy \/ (Message.type = "modbus" /\ Message.ok)
           mqtt == mqttActorHealthy \/ (Message.type = "mqtt" /\ Message.ok)
       IN  /\ healthyRecv' = IF Message.ok THEN healthyRecv + 1 ELSE healthyRecv
           /\ modbusActorHealthy' = modbus /\ mqttActorHealthy' = mqtt
           /\ IF modbus /\ mqtt
              THEN /\ pending' = [pending EXCEPT !["info"] = @ + 1]
                   /\ state' = "waitingInfo"
              ELSE UNCHANGED <<pending, state>>
           /\ UNCHANGED announced
    /\ UNCHANGED <<devices, trackHouse, ready>>

HealthResponse ==
    /\ state = "waitingHealthy" /\ mailbox # <<>> /\ Message.type \in {"modbus", "mqtt"}
    /\ mailbox' = Tail(mailbox)
    /\ LET modbus == modbusActorHealthy \/ (Message.type = "modbus" /\ Message.ok)
           mqtt == mqttActorHealthy \/ (Message.type = "mqtt" /\ Message.ok)
       IN  IF healthyRecv + 1 = 2 /\ ~(modbus /\ mqtt)
           THEN Panic
           ELSE /\ healthyRecv' = healthyRecv + 1
                /\ modbusActorHealthy' = modbus /\ mqttActorHealthy' = mqtt
                /\ IF healthyRecv + 1 = 2
                   THEN /\ pending' = [pending EXCEPT !["info"] = @ + 1]
                        /\ state' = "waitingInfo"
                   ELSE UNCHANGED <<pending, state>>
                /\ UNCHANGED announced
    /\ UNCHANGED <<devices, trackHouse, ready>>

DevicesInfo ==
    /\ state = "waitingInfo" /\ mailbox # <<>> /\ Message.type = "info"
    /\ mailbox' = Tail(mailbox)
    /\ IF Message.ok
       THEN /\ announced' = AnnouncedFor(devices, trackHouse)
            /\ state' = "done"
            /\ UNCHANGED <<pending, healthyRecv, modbusActorHealthy, mqttActorHealthy>>
       ELSE Panic
    /\ UNCHANGED <<devices, trackHouse, ready>>

\* Mutant: a request that takes too long has no answer.
FutureCompletesOrHangs(k) ==
    /\ pending[k] > 0
    /\ pending' = [pending EXCEPT ![k] = @ - 1]
    /\ \/ mailbox' = Append(mailbox, [type |-> k, ok |-> TRUE])
       \/ UNCHANGED mailbox
    /\ UNCHANGED <<devices, trackHouse, ready, state, healthyRecv, modbusActorHealthy,
                   mqttActorHealthy, announced>>

\* PipeToSelfWithRecover: the answer, or the failure made of a future that
\* failed or took longer than two seconds.
FutureCompletes(k) ==
    /\ pending[k] > 0
    /\ pending' = [pending EXCEPT ![k] = @ - 1]
    /\ \E ok \in BOOLEAN :
          /\ ready => ok
          /\ mailbox' = Append(mailbox, [type |-> k, ok |-> ok])
    /\ UNCHANGED <<devices, trackHouse, ready, state, healthyRecv, modbusActorHealthy,
                   mqttActorHealthy, announced>>

\* The other actors get ready, and may be lost again, say by a restart.
ReadyChanges ==
    /\ ready' = ~ready
    /\ UNCHANGED <<devices, trackHouse, state, mailbox, pending, healthyRecv,
                   modbusActorHealthy, mqttActorHealthy, announced>>

-----------------------------------------------------------------------------

Handle == HealthResponse \/ DevicesInfo

Next == Handle \/ (\E k \in Kinds : FutureCompletes(k)) \/ ReadyChanges

Spec == Init /\ [][Next]_vars

\* The dispatcher runs an actor that has messages, and every request ends.
LiveSpec ==
    /\ Spec
    /\ WF_vars(Handle)
    /\ \A k \in Kinds : WF_vars(FutureCompletes(k))

-----------------------------------------------------------------------------
(* Properties *)

Outstanding(k) == pending[k] + (IF InQueue(mailbox, {k}) THEN 1 ELSE 0)

\* The answers counted and those to come are always the two of this instance:
\* a panic leaves none behind for the next one to count.
OneAnswerEach ==
    /\ state = "waitingHealthy" =>
          healthyRecv + Outstanding("modbus") + Outstanding("mqtt") = 2
    /\ state = "waitingInfo" => Outstanding("info") = 1
    /\ state # "waitingInfo" => Outstanding("info") = 0
    /\ \A k \in Kinds : ~(pending[k] = 1 /\ InQueue(mailbox, {k}))

UpdatesOf(d, house) ==
    PowerFlowUpdates(d, house) \cup InverterStateUpdates
      \cup (IF d.storage THEN StorageStateUpdates ELSE {})
      \cup (IF d.storage /\ d.meter
            THEN BatteryControlSwitchesUpdates \cup BatteryControlSetTargetSoCUpdates ELSE {})
      \cup BridgeStateUpdates

EveryUpdate == UpdatesOf(devices, trackHouse)

\* Whatever is connected and configured, each entity that is announced is
\* announced with the topic that some part of the bridge publishes its values
\* to; and, apart from the battery powers, which every inverter reports, only
\* entities that are announced for these devices are given values.
EveryEntityIsFed ==
    /\ {AnnouncedStateTopic(id) : id \in announced} \subseteq {EventTopic(id) : id \in EveryUpdate}
    /\ state = "done" => EveryUpdate \subseteq announced \cup InverterPowerFlowUpdates

TakingCommands == BatteryControlSwitches \cup BatteryControlInputNumbers

\* The entities whose command topic Home Assistant may use: each payload it may
\* send there is the command that the entity stands for.
Understood ==
    {id \in BatteryControlSwitches : \A on \in BOOLEAN :
        Commands(SwitchCommandTopic(id), Payload(on)) =
            {[type |-> IF id = "battery_hold" THEN "hold" ELSE "charge", enable |-> on]}}
      \cup
    {id \in BatteryControlInputNumbers : \A n \in TargetSoCs :
        Commands(InputNumberCommandTopic(id), ToString(n)) = {[type |-> "target", TargetSoC |-> n]}}

\* The entities whose own values, which the bridge receives back as it is
\* subscribed to all topics below its own, are no commands.
Unechoed == {id \in UpdatesOf([storage |-> TRUE, meter |-> TRUE], TRUE) : \A payload \in EventPayloads :
                Commands(EventTopic(id), payload) = {}}

\* What Home Assistant sends to the command topic of an announced entity is
\* what the user asked for, and nothing the bridge publishes is a command to it.
CommandsUnderstood ==
    /\ announced \cap TakingCommands \subseteq Understood
    /\ EveryUpdate \subseteq Unechoed

\* If from some time on both actors answer in time, the entities are announced,
\* however the boot began, unless the supervisor has given up before.
AnnouncedInTheEnd == (<>[]ready) => <>(state \in {"done", "stopped"})
=============================================================================
