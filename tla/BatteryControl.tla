--------------------------- MODULE BatteryControl ---------------------------
(***************************************************************************)
(* BatteryControlActor (internal/core/actor/battery_control.go): the state *)
(* machine that holds or charges the battery by sending                    *)
(* SetStorageControl requests to the Modbus actor, one per control tick.   *)
(*                                                                         *)
(* One action is one message handled by the actor; the remaining actions   *)
(* are what the actor's surroundings do: a user command or a health check  *)
(* arrives, a control timer or the receive timeout fires, a request to the *)
(* Modbus actor completes (with an answer, an error or its time limit).    *)
(***************************************************************************)
EXTENDS ActorUtil

CONSTANTS
    SoCs,          \* levels of charge: targets a user may set, and readings
    Powers,        \* what the control logic may return as NewPowerValue
    LimitKnown,    \* max_import_power is set in the configuration
    MaxRestarts,   \* bound: restarts the supervisor grants
    MaxLoad        \* bound: messages, timers and requests before a new command

ASSUME SoCsAssumption == 100 \in SoCs /\ SoCs \subseteq 0 .. 100
ASSUME PowersAssumption == Powers \subseteq Int
ASSUME LimitAssumption == LimitKnown \in BOOLEAN
ASSUME RestartsAssumption == MaxRestarts \in Nat
ASSUME LoadAssumption == MaxLoad \in Nat

VARIABLES
    stack,           \* the behaviour stack, bottom first
    mailbox,         \* user messages not yet handled
    stash,           \* messages put aside by a waiting state
    targetSOC,
    limited,         \* the control logic has an import limit
    ownTick,         \* the timer of the current state's cancelTick is pending
    orphanTicks,     \* pending tick timers that no state can cancel
    receiveTimeout,  \* the receive timeout is armed
    pending,         \* requests to the Modbus actor without an outcome, by kind
    lastSet,         \* parameters of the last SetStorageControl request sent
    abandoned,       \* the instance that sent it has failed (read by no action)
    published,       \* last value sent to the MQTT actor for each entity
    restarts

vars == <<stack, mailbox, stash, targetSOC, limited, ownTick, orphanTicks,
          receiveTimeout, pending, lastSet, abandoned, published, restarts>>

-----------------------------------------------------------------------------
(* Messages and parameters *)

Kinds == {"info", "set", "flow"}

Commands == [type : {"Hold", "Charge"}, on : BOOLEAN]
              \cup [type : {"SoC"}, soc : SoCs]
Responses == [type : {"Set", "Flow"}, ok : BOOLEAN]
               \cup [type : {"Info"}, ok : BOOLEAN, devices : BOOLEAN]
Messages == Commands \cup Responses \cup [type : {"Tick", "ReceiveTimeout", "Health"}]

\* Mutant: the bounds adjustment is missing.
AdjustedMissing(npv) == npv

\* "add bounds adjustment for safety": a negative power disables the limit.
Adjusted(npv) == IF npv < 0 THEN -1 ELSE npv

ChargePowers == {-1} \cup {p \in Powers : p >= 0}

\* StorageControlParams: forced charge power and discharge limit; -1 is none.
Params == [charge : ChargePowers, discharge : {-1, 0}]
Release == [charge |-> -1, discharge |-> -1]
NoSet == [charge |-> -1, discharge |-> 1]   \* nothing sent

-----------------------------------------------------------------------------
(* States and the behaviour stack.  hold is the position of the hold       *)
(* switch, charge the MinChargePowerWatt of the state's own params.        *)

BaseNames == {"waitingInfo", "idle", "charging", "holding", "done", "stopped"}
AwaitNames == {"awaitStorageControl", "awaitPowerFlow"}
States == [name : BaseNames \cup AwaitNames, hold : BOOLEAN, charge : ChargePowers]

State(n, h, c) == [name |-> n, hold |-> h, charge |-> c]
Plain(n) == State(n, FALSE, -1)
Charging(hold, power) == State("charging", hold, power)
Holding == State("holding", TRUE, -1)

ParamsOf(s) == [charge |-> s.charge,
                discharge |-> IF s.name = "holding" THEN 0 ELSE -1]

Top == stack[Len(stack)]
Base == stack[1]
In(name) == Top.name = name

-----------------------------------------------------------------------------
(* Helpers of the actions *)

Message == Head(mailbox)
Receive(types) == mailbox # <<>> /\ Message.type \in types

\* A request to the Modbus actor, its future piped to self.
Ask(kind) == pending' = [pending EXCEPT ![kind] = @ + 1]

\* OnEnterAction of the await state: a Set request and a receive timeout.
SendSet(params) ==
    /\ Ask("set")
    /\ lastSet' = params /\ abandoned' = FALSE
    /\ receiveTimeout' = TRUE

\* sendStorageControl stacks the await state; the Become around it drops it.
EnterWithAction(s) ==
    /\ stack' = Become(BecomeStacked(stack, Plain("awaitStorageControl")), s)
    /\ SendSet(ParamsOf(s))

\* Mutant: the exit sends the parameters it had instead of releasing them.
EnterIdleKeepingParams ==
    /\ stack' = BecomeStacked(Become(stack, Plain("idle")), Plain("awaitStorageControl"))
    /\ SendSet(ParamsOf(Top))

EnterIdleWithRelease ==
    /\ stack' = BecomeStacked(Become(stack, Plain("idle")), Plain("awaitStorageControl"))
    /\ SendSet(Release)

CancelTick == ownTick' = FALSE

Orphaned == orphanTicks + (IF ownTick THEN 1 ELSE 0)

\* Mutant: the charge switch is forgotten.
HoldSwitchOff(p) == [p EXCEPT !.hold = FALSE, !.soc = targetSOC]

SwitchesOff(p) == [p EXCEPT !.hold = FALSE, !.charge = FALSE, !.soc = targetSOC]

\* The handler panics.  The supervisor restarts the actor: a new instance in
\* its first states, the mailbox kept, the stash and the timer handle gone; or
\* stops it when its restarts are used up.  No request goes to the Modbus actor:
\* the last one sent stays the inverter's.
Fail ==
    /\ receiveTimeout' = FALSE
    /\ stash' = <<>>
    /\ ownTick' = FALSE
    /\ orphanTicks' = Orphaned
    /\ targetSOC' = 100
    /\ abandoned' = TRUE
    /\ IF restarts < MaxRestarts
       THEN /\ restarts' = restarts + 1
            /\ mailbox' = Tail(mailbox)
            /\ stack' = <<Plain("waitingInfo")>>
            /\ Ask("info")
       ELSE /\ mailbox' = <<>>
            /\ stack' = <<Plain("stopped")>>
            /\ UNCHANGED <<restarts, pending>>
    /\ UNCHANGED <<limited, lastSet, published>>

Init ==
    /\ stack = <<Plain("waitingInfo")>>
    /\ mailbox = <<>> /\ stash = <<>>
    /\ targetSOC = 100
    /\ limited = LimitKnown
    /\ ownTick = FALSE /\ orphanTicks = 0
    /\ receiveTimeout = FALSE
    /\ pending = [k \in Kinds |-> IF k = "info" THEN 1 ELSE 0]
    /\ lastSet = NoSet /\ abandoned = FALSE
    /\ published = [hold |-> FALSE, charge |-> FALSE, soc |-> 100]
    /\ restarts = 0

-----------------------------------------------------------------------------
(* Waiting for the devices *)

InfoReceived ==
    /\ In("waitingInfo") /\ Receive({"Info"})
    /\ \/ ~Message.ok /\ Fail
       \/ /\ Message.ok
          /\ IF Message.devices
             THEN /\ stack' = Become(stack, Plain("idle"))
                  /\ limited' = TRUE
                  /\ published' = SwitchesOff(published)
             ELSE /\ stack' = Become(stack, Plain("done"))
                  /\ UNCHANGED <<limited, published>>
          /\ mailbox' = UnstashedAll(Tail(mailbox), stash)
          /\ stash' = <<>>
          /\ UNCHANGED <<targetSOC, ownTick, orphanTicks, receiveTimeout,
                         pending, lastSet, abandoned, restarts>>

-----------------------------------------------------------------------------
(* User commands *)

SetTargetSoC ==
    /\ Top.name \in {"idle", "charging", "holding"} /\ Receive({"SoC"})
    /\ targetSOC' = Message.soc
    /\ published' = [published EXCEPT !.soc = Message.soc]
    /\ mailbox' = Tail(mailbox)
    /\ UNCHANGED <<stack, stash, limited, ownTick, orphanTicks, receiveTimeout,
                   pending, lastSet, abandoned, restarts>>

StartHolding ==
    /\ In("idle") /\ Receive({"Hold"}) /\ Message.on
    /\ EnterWithAction(Holding)
    /\ published' = [published EXCEPT !.hold = TRUE]
    /\ mailbox' = Tail(mailbox)
    /\ UNCHANGED <<stash, targetSOC, limited, ownTick, orphanTicks, restarts>>

\* From idle, or from holding: the hold switch then stays on.
StartCharging ==
    /\ Top.name \in {"idle", "holding"} /\ Receive({"Charge"}) /\ Message.on
    /\ IF In("holding") THEN CancelTick ELSE UNCHANGED ownTick
    /\ EnterWithAction(Charging(In("holding"), -1))
    /\ published' = [published EXCEPT !.charge = TRUE]
    /\ mailbox' = Tail(mailbox)
    /\ UNCHANGED <<stash, targetSOC, limited, orphanTicks, restarts>>

StopHolding ==
    /\ In("holding") /\ Receive({"Hold"}) /\ ~Message.on
    /\ CancelTick
    /\ EnterIdleWithRelease
    /\ published' = SwitchesOff(published)
    /\ mailbox' = Tail(mailbox)
    /\ UNCHANGED <<stash, targetSOC, limited, orphanTicks, restarts>>

\* Charging.Exit: back to holding when the hold switch is on, else to idle.
ExitCharging ==
    /\ CancelTick
    /\ IF Top.hold
       THEN /\ EnterWithAction(Holding)
            /\ published' = [published EXCEPT !.hold = TRUE, !.charge = FALSE]
       ELSE /\ EnterIdleWithRelease
            /\ published' = SwitchesOff(published)
    /\ mailbox' = Tail(mailbox)
    /\ UNCHANGED <<stash, targetSOC, limited, orphanTicks, restarts>>

StopCharging ==
    /\ In("charging") /\ Receive({"Charge"}) /\ ~Message.on
    /\ ExitCharging

HoldWhileCharging ==
    /\ In("charging") /\ Receive({"Hold"}) /\ Message.on # Top.hold
    /\ stack' = Become(stack, Charging(Message.on, Top.charge))
    /\ published' = [published EXCEPT !.hold = Message.on]
    /\ mailbox' = Tail(mailbox)
    /\ UNCHANGED <<stash, targetSOC, limited, ownTick, orphanTicks, receiveTimeout,
                   pending, lastSet, abandoned, restarts>>

-----------------------------------------------------------------------------
(* The control loop *)

\* Holding sends its parameters again; charging asks for the power flow.
ControlTick ==
    /\ Receive({"Tick"})
    /\ \/ /\ In("holding")
          /\ stack' = BecomeStacked(stack, Plain("awaitStorageControl"))
          /\ SendSet(ParamsOf(Top))
       \/ /\ In("charging")
          /\ stack' = BecomeStacked(stack, Plain("awaitPowerFlow"))
          /\ Ask("flow")
          /\ receiveTimeout' = TRUE
          /\ UNCHANGED <<lastSet, abandoned>>
    /\ mailbox' = Tail(mailbox)
    /\ UNCHANGED <<stash, targetSOC, limited, ownTick, orphanTicks, published, restarts>>

\* Mutant: only charging schedules the next tick.
ControlResponseChargingOnly ==
    /\ Top.name \in {"idle", "charging", "holding"} /\ Receive({"Set"})
    /\ \/ ~Message.ok /\ Fail
       \/ /\ Message.ok
          /\ receiveTimeout' = FALSE
          /\ ownTick' = (ownTick \/ In("charging"))
          /\ mailbox' = Tail(mailbox)
          /\ UNCHANGED <<stack, stash, targetSOC, limited, orphanTicks, pending,
                         lastSet, abandoned, published, restarts>>

\* Mutant: the answer that a request failed is taken for any other.
ControlResponseIgnoringErrors ==
    /\ Top.name \in {"idle", "charging", "holding"} /\ Receive({"Set"})
    /\ receiveTimeout' = FALSE
    /\ IF In("idle")
       THEN UNCHANGED <<stack, ownTick, orphanTicks>>
       ELSE /\ stack' = Become(stack, Top)
            /\ ownTick' = TRUE
            /\ orphanTicks' = Orphaned
    /\ mailbox' = Tail(mailbox)
    /\ UNCHANGED <<stash, targetSOC, limited, pending, lastSet, abandoned, published,
                   restarts>>

ControlResponse ==
    /\ Top.name \in {"idle", "charging", "holding"} /\ Receive({"Set"})
    /\ \/ ~Message.ok /\ Fail
       \/ /\ Message.ok
          /\ receiveTimeout' = FALSE
          /\ IF In("idle")
             THEN UNCHANGED <<stack, ownTick, orphanTicks>>
             ELSE /\ stack' = Become(stack, Top)
                  /\ ownTick' = TRUE
                  /\ orphanTicks' = Orphaned
          /\ mailbox' = Tail(mailbox)
          /\ UNCHANGED <<stash, targetSOC, limited, pending, lastSet, abandoned,
                         published, restarts>>

\* One pass of the charge control logic over the power flow just read.
ControlLoop ==
    /\ In("charging") /\ Receive({"Flow"})
    /\ \/ ~Message.ok /\ Fail
       \/ /\ Message.ok
          /\ \E stateOfCharge \in SoCs, npv \in Powers :
                IF stateOfCharge >= targetSOC
                THEN ExitCharging
                ELSE /\ EnterWithAction(Charging(Top.hold, Adjusted(npv)))
                     /\ mailbox' = Tail(mailbox)
                     /\ UNCHANGED <<stash, targetSOC, limited, ownTick, orphanTicks,
                                    published, restarts>>

-----------------------------------------------------------------------------
(* Waiting for a response of the Modbus actor *)

\* Mutant: the waiting state is left without UnstashAll.
ResumeWithoutUnstash(response) ==
    /\ mailbox' = Append(Tail(mailbox), response)
    /\ stack' = UnbecomeStacked(stack)
    /\ UNCHANGED <<stash, targetSOC, limited, ownTick, orphanTicks, pending, lastSet,
                   abandoned, published, restarts>>

\* Forward a response to self, behind what is queued; leave; unstash.
Resume(response) ==
    /\ mailbox' = UnstashedAll(Append(Tail(mailbox), response), stash)
    /\ stash' = <<>>
    /\ stack' = UnbecomeStacked(stack)
    /\ UNCHANGED <<targetSOC, limited, ownTick, orphanTicks, pending, lastSet,
                   abandoned, published, restarts>>

ResponseAwaited ==
    /\ \/ In("awaitStorageControl") /\ Receive({"Set"})
       \/ In("awaitPowerFlow") /\ Receive({"Flow"})
    /\ receiveTimeout' = FALSE
    /\ Resume(Message)

\* No message for two seconds: an error response takes the place of the answer.
WaitTimedOut ==
    /\ Receive({"ReceiveTimeout"})
    /\ \/ /\ In("awaitStorageControl")
          /\ receiveTimeout' = FALSE
          /\ Resume([type |-> "Set", ok |-> FALSE])
       \/ /\ In("awaitPowerFlow")
          /\ UNCHANGED receiveTimeout
          /\ Resume([type |-> "Flow", ok |-> FALSE])

HandledWhileWaiting ==
    CASE In("waitingInfo") -> {"Info"}
      [] In("awaitStorageControl") -> {"Set", "ReceiveTimeout"}
      [] In("awaitPowerFlow") -> {"Flow", "ReceiveTimeout", "Health"}

StashMessage ==
    /\ Top.name \in AwaitNames \cup {"waitingInfo"}
    /\ mailbox # <<>> /\ Message.type \notin HandledWhileWaiting
    /\ stash' = Stashed(stash, Message)
    /\ mailbox' = Tail(mailbox)
    /\ UNCHANGED <<stack, targetSOC, limited, ownTick, orphanTicks, receiveTimeout,
                   pending, lastSet, abandoned, published, restarts>>

\* Messages a state answers (health checks) or drops without a state change.
WithoutEffect(m) ==
    CASE In("idle") -> \/ m.type \in {"Tick", "Flow", "Info", "ReceiveTimeout", "Health"}
                       \/ m.type \in {"Hold", "Charge"} /\ ~m.on
      [] In("charging") -> \/ m.type \in {"Info", "ReceiveTimeout", "Health"}
                           \/ m.type = "Hold" /\ m.on = Top.hold
                           \/ m.type = "Charge" /\ m.on
      [] In("holding") -> \/ m.type \in {"Flow", "Info", "ReceiveTimeout", "Health"}
                          \/ m.type = "Hold" /\ m.on
                          \/ m.type = "Charge" /\ ~m.on
      [] In("done") -> TRUE
      [] In("awaitPowerFlow") -> m.type = "Health"
      [] OTHER -> FALSE

NoEffect ==
    /\ mailbox # <<>> /\ WithoutEffect(Message)
    /\ mailbox' = Tail(mailbox)
    /\ UNCHANGED <<stack, stash, targetSOC, limited, ownTick, orphanTicks,
                   receiveTimeout, pending, lastSet, abandoned, published, restarts>>

-----------------------------------------------------------------------------
(* The surroundings of the actor *)

Deliver(m) ==
    /\ ~In("stopped")
    /\ mailbox' = Append(mailbox, m)

Load == Len(mailbox) + Len(stash) + orphanTicks + (IF ownTick THEN 1 ELSE 0)
          + pending["info"] + pending["set"] + pending["flow"]

Request(m) ==
    /\ Load < MaxLoad
    /\ Deliver(m)
    /\ UNCHANGED <<stack, stash, targetSOC, limited, ownTick, orphanTicks,
                   receiveTimeout, pending, lastSet, abandoned, published, restarts>>

\* A future ends with the actor's answer, an error answer or its time limit.
Outcomes(kind) ==
    CASE kind = "info" -> [type : {"Info"}, ok : BOOLEAN, devices : BOOLEAN]
      [] kind = "set" -> [type : {"Set"}, ok : BOOLEAN]
      [] kind = "flow" -> [type : {"Flow"}, ok : BOOLEAN]

\* Mutant: the error of a future is not mapped to a response.
FutureCompletesUnrecovered(kind) ==
    /\ pending[kind] > 0
    /\ pending' = [pending EXCEPT ![kind] = @ - 1]
    /\ \/ \E m \in Outcomes(kind) : m.ok /\ Deliver(m)
       \/ UNCHANGED mailbox
    /\ UNCHANGED <<stack, stash, targetSOC, limited, ownTick, orphanTicks,
                   receiveTimeout, lastSet, abandoned, published, restarts>>

FutureCompletes(kind) ==
    /\ pending[kind] > 0
    /\ pending' = [pending EXCEPT ![kind] = @ - 1]
    /\ \E m \in Outcomes(kind) : Deliver(m)
    /\ UNCHANGED <<stack, stash, targetSOC, limited, ownTick, orphanTicks,
                   receiveTimeout, lastSet, abandoned, published, restarts>>

TickFires ==
    /\ \/ ownTick /\ ownTick' = FALSE /\ UNCHANGED orphanTicks
       \/ orphanTicks > 0 /\ orphanTicks' = orphanTicks - 1 /\ UNCHANGED ownTick
    /\ Deliver([type |-> "Tick"])
    /\ UNCHANGED <<stack, stash, targetSOC, limited, receiveTimeout, pending,
                   lastSet, abandoned, published, restarts>>

ReceiveTimeoutFires ==
    /\ receiveTimeout
    /\ receiveTimeout' = FALSE
    /\ Deliver([type |-> "ReceiveTimeout"])
    /\ UNCHANGED <<stack, stash, targetSOC, limited, ownTick, orphanTicks, pending,
                   lastSet, abandoned, published, restarts>>

-----------------------------------------------------------------------------

Handle ==
    \/ InfoReceived \/ SetTargetSoC \/ StartHolding \/ StartCharging
    \/ StopHolding \/ StopCharging \/ HoldWhileCharging \/ ControlTick
    \/ ControlResponse \/ ControlLoop \/ ResponseAwaited \/ WaitTimedOut
    \/ StashMessage \/ NoEffect

Environment ==
    \/ \E m \in Commands \cup {[type |-> "Health"]} : Request(m)
    \/ \E kind \in Kinds : FutureCompletes(kind)
    \/ TickFires
    \/ ReceiveTimeoutFires

Next == Handle \/ Environment

Spec == Init /\ [][Next]_vars

\* The dispatcher runs an actor that has messages; every future has a time
\* limit; every timer that is not cancelled fires.
Fairness ==
    /\ WF_vars(Handle)
    /\ \A kind \in Kinds : WF_vars(FutureCompletes(kind))
    /\ WF_vars(TickFires)

LiveSpec == Spec /\ Fairness

-----------------------------------------------------------------------------
(* Properties *)

\* Every variable keeps its type; parameters sent to the inverter are in range.
TypeOk ==
    /\ stack \in Seq(States) /\ stack # <<>>
    /\ mailbox \in Seq(Messages) /\ stash \in Seq(Messages)
    /\ targetSOC \in SoCs /\ limited \in BOOLEAN
    /\ ownTick \in BOOLEAN /\ orphanTicks \in Nat
    /\ receiveTimeout \in BOOLEAN
    /\ pending \in [Kinds -> Nat]
    /\ lastSet \in Params \cup {NoSet} /\ abandoned \in BOOLEAN
    /\ published \in [hold : BOOLEAN, charge : BOOLEAN, soc : SoCs]
    /\ restarts \in 0 .. MaxRestarts

\* A waiting state is only ever stacked directly on the state that made the
\* request, and messages are put aside in a waiting state alone: nothing is
\* left in the stash of a state that never calls UnstashAll.
StashOnlyWhileWaiting ==
    /\ \/ Len(stack) = 1 /\ Base.name \in BaseNames
       \/ Len(stack) = 2 /\ \/ In("awaitStorageControl") /\ Base.name \in {"idle", "holding"}
                            \/ In("awaitPowerFlow") /\ Base.name = "charging"
    /\ stash # <<>> => Top.name \in AwaitNames \cup {"waitingInfo"}

Queued(types) == InQueue(mailbox, types) \/ InQueue(stash, types)

\* A waiting state cannot wait for ever: its answer is still to come or is
\* already in the mailbox (the states that wait stash every other message).
WaitIsBacked ==
    /\ In("waitingInfo") => pending["info"] > 0 \/ InQueue(mailbox, {"Info"})
    /\ In("awaitStorageControl") => pending["set"] > 0 \/ InQueue(mailbox, {"Set"})
    /\ In("awaitPowerFlow") => pending["flow"] > 0 \/ InQueue(mailbox, {"Flow"})

\* The control loop is never lost: while the battery is held or charged, some
\* request, response, tick or timer will make the actor send again, before the
\* inverter's revert time ends the mode behind the actor's back.
LoopAlive ==
    /\ Base.name = "holding" =>
          pending["set"] > 0 \/ Queued({"Set", "Tick"}) \/ ownTick \/ orphanTicks > 0
    /\ Base.name = "charging" =>
          \/ pending["set"] > 0 \/ pending["flow"] > 0 \/ Queued({"Set", "Flow", "Tick"})
          \/ ownTick \/ orphanTicks > 0

\* The switches and the target that Home Assistant shows are those of the state
\* the actor is in, whatever path of commands, exits and restarts led there.
SwitchesMatchState ==
    /\ Base.name = "idle" => ~published.hold /\ ~published.charge
    /\ Base.name = "holding" => published.hold /\ ~published.charge
    /\ Base.name = "charging" => published.hold = Base.hold /\ published.charge
    /\ Base.name \in {"idle", "holding", "charging"} => published.soc = targetSOC

Controlling == Base.name \in {"holding", "charging"}

\* A state that holds or charges has sent its own parameters last, and knows the
\* import limit; any other released the battery, unless a panic led there.
LastSetMatchesState ==
    /\ Controlling => lastSet = ParamsOf(Base) /\ limited /\ ~abandoned
    /\ ~Controlling => lastSet \in {Release, NoSet} \/ abandoned
    /\ Base.name = "idle" => limited
    /\ Base.name = "waitingInfo" => lastSet = NoSet \/ abandoned

\* The last request sent, whichever instance sent it, is the one of the state that
\* a step leads to: by whatever switch, target reached or stale answer the battery is
\* no longer held or charged, its release was sent.  The one exception is a panic
\* (nothing is released then, and the switches are shown off): the command of the
\* failed instance stays the last, but no tick and no late answer of that instance
\* sends it again, so that the inverter's revert time ends it (IdleFreesBattery
\* in BatterySystem): the next request is one that the user asks for.
CommandedMatchesState ==
    [][/\ LastSetMatchesState'
       /\ abandoned /\ pending'["set"] > pending["set"] =>
             Message.type \in {"Hold", "Charge"} /\ Message.on]_vars

\* The answer that a request failed is still to be read.
Upset ==
    LET failure == [type |-> "Set", ok |-> FALSE]
    IN  (\E i \in DOMAIN mailbox : mailbox[i] = failure)
        \/ (\E i \in DOMAIN stash : stash[i] = failure)

\* What the present instance of the actor sent last: a new one has sent nothing.
Wanted == IF abandoned THEN NoSet ELSE lastSet

Controller == INSTANCE StorageController WITH
    Controls <- {ParamsOf(Holding)} \cup {ParamsOf(Charging(FALSE, c)) : c \in ChargePowers},
    controlling <- Controlling, wanted <- Wanted,
    pending <- pending["set"], upset <- Upset

\* Seen from the requests it sends the actor is a StorageController: it starts to
\* control, goes on to and leaves by a request, each with the parameters of the
\* state it is then in, and it never goes on when a request has failed.
ImplementsController == Controller!Spec

\* battery_control.go:239, "on successful control response, schedule next
\* control tick": one control loop has at most one tick to come.
SingleControlLoop == orphanTicks + (IF ownTick THEN 1 ELSE 0) <= 1

\* README.md:33, "Hold energy (don't discharge the battery)": while the hold
\* switch shows on, the last request sent does not free the discharge.
HoldBlocksDischarge == published.hold => lastSet # Release

\* What a waiting state put aside is handed back.
StashDrains == stash # <<>> ~> stash = <<>>

\* Ticks come slower than the messages are handled, as an interval of two seconds
\* or more makes likely (main.go:173): the actor has nothing to do now and then.
KeepsUp == []<>(mailbox = <<>> /\ stash = <<>>)

\* A held or charged battery is served again and again: the actor comes to wait
\* for the Modbus actor once more, or leaves the state.  Without it the revert
\* time of the inverter would silently end the mode.  And if the actor keeps up, a
\* failed request ends the control, also when its answer was put behind others.
ControlGoesOn ==
    /\ Base.name = "holding" ~> In("awaitStorageControl") \/ Base.name # "holding"
    /\ Base.name = "charging" ~> In("awaitPowerFlow") \/ Base.name # "charging"
    /\ KeepsUp => (Upset /\ Controlling ~> ~Controlling)

=============================================================================
