# A TLA+ verification of Frostnews2MQTT

Frostnews2MQTT is a bridge between a solar inverter (Modbus TCP, SunSpec) and Home
Assistant (MQTT). It is a program of actors (protoactor-go) that exchange messages. What
is hard about it is what passes between the messages: behaviours stacked and dropped,
messages put aside and sent again, futures that time out, timers that fire too late,
panics and restarts. The modules here model the actors one message at a time, the
control logic one tick at a time, and check and prove what must hold whatever the order.

## 1. Inventory of the system

All paths are below `src/`.

### Parts, state and operations

| Part | Code | State | Operations |
|---|---|---|---|
| Battery control actor | `internal/core/actor/battery_control.go` | behaviour stack, stash, target SoC, the parameters and timer of the present state | device info, hold/charge/SoC commands, control tick, set response, power flow response, receive timeout, health |
| Charge control logic | `internal/core/service/battery_charge_control.go` | configuration only; the last power is its argument | `Loop` |
| Modbus actor | `internal/adapter/actor/modbus.go` | behaviour stack, stash, timer of the read delay, the two connections | reads, `SetStorageControlRequest`, task results, end of delay, health |
| MQTT actor | `internal/adapter/actor/mqtt.go`, `internal/mqtt/client.go` | behaviour stack, stash, client | connected, subscribed, connection lost, publish, publish result, discovery, health |
| Master of puppets | `internal/core/actor/master.go` | children, stash, the current health check | health request and responses, receive timeout, parsed command, termination of a child |
| Power flow actor | `internal/core/actor/powerflow.go` | `hasStorage`, `currentStateCount`, behaviour stack, stash | tick, power flow, states, device info, health |
| HA discovery actor | `internal/core/actor/ha_discovery.go` | answers counted, health of two actors | health responses, device info |
| Sensors and events | `internal/core/domain/sensor.go`, `internal/core/events/event.go` | none | which entities are announced, which are given values |
| Actor utilities | `internal/util/actorutil/` | the stash, the behaviour stack | `Stash`, `UnstashAll`, `UnstashOldest`, `Become`, `BecomeStacked`, `UnbecomeStacked`, `PipeToSelfWithRecover`, background tasks |
| SunSpec client | `pkg/sunspec_modbus/` | block addresses, connection | survey of the blocks on `Open`, register reads, the writes of a storage command |
| Topics and parsing | `internal/mqtt/ha_discovery.go`, `internal/mqtt/client.go`, `actorutil/util.go` | none | topics announced, published to and read as commands |
| Configuration, HTTP | `internal/config`, `internal/server`, `cmd/api/main.go` | none after the start | checks of the configuration, one route |

### How they interact

* The **master** spawns the others, asks the Modbus, MQTT and power flow actors for
  their health when the HTTP server asks it, routes parsed commands from the MQTT actor
  to the battery control actor and panics when the Modbus actor has been stopped for
  good.
* The **Modbus actor** is the only one that talks to the devices. Power flow, battery
  control and discovery ask it through futures whose outcome, answer or error, is piped
  to self as a message.
* The **battery control actor** sends a `SetStorageControlRequest` per control tick;
  while it charges, it reads the power flow first and runs the control logic on it. The
  inverter undoes a command after its revert time, so the loop has to go on. A command
  is three register writes, each of which may fail.
* **Power flow** and **battery control** send updates to the **MQTT actor**, the
  discovery actor sends it the entities to announce. What Home Assistant sends back
  arrives as topics and payloads, next to all that the bridge itself publishes.

### What is hard

* *Stash and behaviours.* Waiting behaviours put messages aside; what is put aside must
  be handed back by each way out. `Become` drops stacked behaviours too. `UnstashAll`
  sends messages to the end of the mailbox: order changes.
* *Time.* Futures, receive timeouts, cancelled timers that have already fired, tasks
  that go on after their time limit, ticks that come before the answers.
* *Failure.* An error response makes most handlers panic; a new instance keeps the
  mailbox, loses the stash, and gets the timers, answers and callbacks meant for the old
  one.
* *Partial failure.* A storage command can stop after each of its writes, or go on after
  its caller was told it failed; the inverter's revert time is the net.
* *Numbers.* Two formulas (start, adjust) share one budget under one limit; watts become
  percents; register addresses wrap at 16 bits.

The properties each part needs are the ones listed with the runs in section 3;
`PROJECT.json` lists every hazard at its line with the property that covers it, or the
reason none does.

## 2. Modules

`ActorUtil` holds what the actors share: the stash and the behaviour stack.
`ActorUtilLemmas` has the lemmas about it: what appending, taking, stashing and
unstashing do to the number of messages of a kind (`HowMany`), and what the moves of the
behaviour stack leave. The `...Proofs` modules hold the theorems of the module they are
named after; `BatterySystemProofs` those of `ChargeLoop` too, whose `LoopInit`,
`LoopNext` and `LoopSpec` are named so that both can be extended at once, and
`DeviceDiscoveryProofs` those of all that `DeviceDiscovery` is made of (`Survey`,
`HADiscovery`, `Sensors`, `Topics`).

In every actor module `mailbox` is the sequence of user messages not yet handled,
`stash` the messages put aside, `stack` the behaviours, bottom first. Each handler is
one action, from its first condition to its last call. Actions under "The surroundings"
are those of other actors, of the scheduler and of users. protoactor itself is not in
the repository; what the models assume of it: messages from different senders interleave
freely and are handled one at a time; `Become` clears the stack; the receive timeout
fires once and is reset by each user message; a panic makes the supervisor restart the
actor (mailbox kept, fields new) or, too often in a short time, stop it; `Terminated` is
a system message that overtakes the mailbox.

| Module | Models | Correspondence |
|---|---|---|
| `BatteryControl` | the battery control actor | `stack` holds the Go states; `hold` and `charge` of an element are the state's fields; `pending` counts futures to the Modbus actor by kind; `ownTick` is the timer `cancelTick` can cancel and `orphanTicks` those it no longer can; `lastSet` is the last command, whichever instance sent it, `abandoned` that this instance has failed since; `published` is what Home Assistant shows |
| `ChargeLoop` | `DefaultBatteryControlLogic.Loop` | one `Tick` is one call, in closed loop with a house, panels and a battery that takes what it was told, or less (`acceptance`); watts are integers of half a watt, so that truncation shows |
| `ModbusActor` | the Modbus actor | requests are values of their own, so that each can be followed through mailbox, stash, task and reply; `running` is the task that blocks the handler, `zombies` tasks that outlived their time limit, `window` the read delay as physical time, `timer` as the actor's timer |
| `MqttActor` | the MQTT actor and its client | `attempts` are connects and subscribes by client, old clients included; `inFlight` the publications; health checks, parsed commands and discovery requests change no state and are one kind of message |
| `MasterOfPuppets` | the master | `healthy`, `checksReceived`, `respondTo` are `healthCheckResult`; `pending` the futures; `heard`, `verdict`, `cutShort` history |
| `StorageRegisters` | what `SetStorageControl` writes | a record of the five registers, one operator per step: encoding in percent, the three writes in order, the 16-bit revert time; the meaning of the registers is that of SunSpec model 124 |
| `BatterySystem` | battery control, the sets of the Modbus actor, the registers | of the first it takes `StorageController`, of the second `asked` (sets not begun, taken up in any order), `task` and `zombies`; each register write is a step |
| `PowerFlow` | the power flow actor | `timers` counts ticks to come |
| `HADiscovery` | the discovery actor | its stash is always empty and left out |
| `Survey` | the walk over the blocks of a device, and what is read through them | a device is its blocks with the lengths they report (`IsDevice` says which may be connected); addresses modulo 2^16; `Walks` is the loop, step by step, `Walk` where its limit ends it |
| `DeviceDiscovery` | `HADiscovery` with the opening of the devices by the Modbus actor | `Open` surveys the inverter, then the meter; nothing answers before both are open |
| `Sensors` | entities announced and fed | sets of entity ids, one operator per Go function |
| `Topics` | topics and payloads | a topic is the sequence of its levels; announcing, publishing and parsing are separate operators, as they are separate files |
| `StorageController` | *abstract*: the battery control actor as the inverter sees it | parameters sent last, requests without an outcome, an error still to be read |
| `SetService` | *abstract*: the Modbus actor as a server of sets | each set taken up once, one at a time, in no promised order; written once at most, perhaps late |
| `RequestReply` | *abstract*: a server of requests | a request is answered only after it was sent and never twice |

`BatteryControl` implements `StorageController` (`ImplementsController`), `ModbusActor`
implements `SetService` (`SetsPromise`), `MqttActor` and `MasterOfPuppets` (twice:
health requests and commands) implement `RequestReply` (`Promise`), each under a
refinement mapping. `BatterySystem` is built on the first two abstractions rather than
on the two actors themselves: their product is out of TLC's reach, and what it adds,
register writes and failures, needs no more of them. `MCBatteryControl`,
`MCBatterySystem`, `MCChargeLoop` and `MCDeviceDiscovery` give values to constants; the
other modules are small enough for their `.cfg` to do so. Operators whose comment begins
with "Mutant" are faulty variants of the operator after them: with each in its place,
TLC finds the property it is listed with in `PROJECT.json` violated.

## 3. Runs

Twelve runs; states are distinct states. `CHECK_DEADLOCK FALSE` stands in configurations
whose system may rest: an actor that is done or stopped with nothing under way, or one
whose finite set of requests is served. `DeviceDiscovery` and `PowerFlow` always have a
step and are checked for deadlock.

### Runs that pass

* **`battery_control`** (187,465 states) — `BatteryControl`, all commands, SoC levels
  {50, 100}, powers {-3, 5} (off and a charge), 1 restart, load 2.
  * `StashOnlyWhileWaiting`: nothing is left in the stash of a state that never hands it
    back; waiting states stack only on the states that made the request.
  * `WaitIsBacked`: a waiting state has its answer to come.
  * `LoopAlive`: while held or charged, something will make the actor send again.
  * `SwitchesMatchState`: what Home Assistant shows is the state, through every exit
    and restart.
  * `CommandedMatchesState`: what the inverter was last asked, by whichever instance, is
    what the state stands for (`LastSetMatchesState`): every exit sends the release. A
    panic does not: it alone leaves a forced charge or hold behind. What is checked then
    is that no tick and no late answer of the failed instance sends it again, so that
    the next request is one the user asks for; that the inverter's revert time ends what
    was left is `IdleFreesBattery` below.
  * `StashDrains`, `ControlGoesOn` (liveness): the loop goes on, and a failed request
    ends it, *if* the actor keeps up with its messages (`KeepsUp`). Without that, TLC
    shows an error answer that each wait puts behind the next tick, again and again.
  * `ImplementsController`: an error answer is never taken for a good one and a battery
    is never left without a release or a failure.
* **`battery_system`** (418,357) — `BatterySystem`: hold, pause and a charge that loses
  a percent to float64, from registers untouched or as an earlier run left them; two
  sets queued, one task beyond its time limit.
  * `QuietMeansFollowed`: all served and no error to be read, the registers are those of
    the last command, or have reverted since its writes (`reverted`). A command
    that failed half-way never passes for one that was followed.
  * `ChargedOnlyWhenAsked`: a forced charge begins by a charge command alone, never by
    the bits of one command with the rates of another. This rests on the order of the
    writes.
  * `InverterFollows`, `IdleFreesBattery` (liveness): the battery comes to follow a
    controller that keeps on, whatever was overtaken or half-written, and is freed after
    one that stopped or failed. The second needs one command written to the end: without
    one, a first command whose third write fails leaves limits in force with no revert
    time.
* **`modbus`** (81,352) — two reads, two sets, one health check, one failing start.
  `OnePlace`: each request is in exactly one place until answered. `ResultAwaited`: the
  actor awaits a result exactly when one is under way, and takes up no request before
  it. Two tasks do use the devices at once, when one has outlived its time limit
  (`task.go:81`); the property says that this is the only case, and that nobody waits
  for that one any more. `DelayNotCutShort`: no stale timer ends a later delay.
  `ReadsWaitForDelay`: a read runs inside the delay after a set only if a later set has
  let it through. `SetsPromise`: a set is taken up once, and reaches the inverter once
  at most, timed out or not. `AllAnswered`.
* **`charge_loop`** (20,683) — `GridLimit`: no decision asks more of the grid than limit
  less margin, and what the battery left of the last command: the loop adds to its own
  command, so it may run ahead of a battery that takes less. `RateLimited`. `Settles`:
  with nothing changing the power comes to rest within the limit; starting and pausing
  do not alternate for ever, as long as the panels give no more than the battery may be
  charged with. Without this hypothesis TLC finds the alternation described below.
* **`mqtt`** (291,391) — one request, three starts, three messages. `WaitIsBacked`,
  `Promise`, and `ConnectionReplaced`: a lost connection is replaced, *if* messages do
  not outrun the actor (`KeepsUp`). Without this hypothesis TLC shows why it is there:
  the report of the lost connection is stashed behind publications, and each result
  hands back only the oldest message, so that a steady stream of updates can postpone it
  for ever.
* **`master`** (284,621) — two actors, two health requests, one command, one restart.
  `VerdictTrueUnlessCutShort`: a verdict "healthy" is true unless a timeout has cut a
  check short. `Promise`, `AllServed`, `TerminationNoticed`.
* **`power_flow`** (33,080) — every device setup, one health request, ticks while up to
  one answer is unread. `OneTickLoop`: exactly one tick exists at any time.
  `WaitIsBacked`. `StatesPolled`. `AllAnswered`, if ticks now and then come after the
  answers (`PollsInTime`).
* **`ha_discovery`** (26,704) — `DeviceDiscovery`: 52 inverters (blocks missing, in
  either order, the last needed one in 22nd or 23rd place, lengths that lead the walk in
  circles or out of the blocks, batteries and modules) and 6 meters, one of them no
  meter, the other actors ready or not at any time.
  * `SurveyFindsBlocks`: the addresses used are those of the device's blocks; an opened
    device has what is needed, a device that has it within the limit is opened.
  * `BatteryAnnouncedRight`: from the registers to Home Assistant, a battery is
    announced exactly if there is one, and its powers are read from its modules.
  * `EveryEntityIsFed`: each announced state topic is one some part publishes to, and
    the other way round.
  * `CommandsUnderstood`: what Home Assistant may send to an announced command topic is
    the command it stands for, and nothing the bridge publishes comes back as a command.
  * `OneAnswerEach`: no instance counts an answer of another. `AnnouncedInTheEnd`.

### Runs that find a disagreement

Each checks what a comment, test or doc of the repository says.

* **`battery_control_loops`** / `SingleControlLoop` — "schedule next control tick"
  (`battery_control.go:239`). The await state is dropped by the `Become` after it;
  commands are then served while a response is under way, every response schedules a
  tick and overwrites `cancelTick`: two control loops.
* **`battery_control_hold`** / `HoldBlocksDischarge` — "Hold energy (don't discharge the
  battery)" (`README.md:33`). Charging from holding releases the discharge limit, the
  hold switch still on.
* **`master_silent`** / `SilentActorIsUnhealthy` — "if some actor does not respond to
  healthCheck, assume not healthy" (`master.go:173`). A timeout left armed ends a later
  check; answers to that one count in the next. Three actors and three requests are the
  smallest instance that shows it.
* **`power_flow_battery`** / `BatteryMonitored` — the battery's state is monitored
  (`README.md:15-16`). One error at boot ends that for good.

### Noted without a run

* `modbus_test.go:153` asserts of a read in the delay after a set "request should
  timeout". A second set ends the delay and goes behind the reads queued before it,
  which are served inside the delay; `ReadsWaitForDelay` allows this case.
* After a panic the switches of hold and charge are shown off, but no release is sent
  (`battery_control.go:237`, `385`): the battery stays held or charged until the revert
  time of the last command.
* `ha_discovery_topic` is read and checked (`main.go:166`), but `ha_discovery.go:42-50`
  has "homeassistant" written out.
* A control interval of 32768 s or more would overflow the 16-bit revert time; the
  configuration has no upper bound. (Below, `RevertOutlivesInterval` is proved.) An inverter with three strings and no battery would
  be read as one with a battery.
* With panels that give more than the battery may be charged with, the control logic
  can start and pause a charge at every other tick for ever: `Loop` compares the new
  power with that of the panels and caps it afterwards
  (`battery_charge_control.go:62-69`), so that a start leaves it below the panels'
  power, which the next tick takes for a reason to pause. So
  `battery_charge_control_test.go:70`, "charge power must be >= pvPower", is not kept
  where the capacity caps the power. The case TLC shows has a capacity of 14 W, an
  increase of 3 W and panels of 20 W; `PanelsAboveCapacity` proves it for every
  configuration.
* `GetStorageState` scales the capacity by the factor in register 19 of the storage
  block (`client_inverter_intsf_storage.go:133`), which SunSpec has for the gradients of
  charge and discharge; `getStorageCapacity` uses that in register 18 (line 154). Where
  the two differ the cap of the charge power, said to keep the inverter from refusing it
  (`battery_charge_control.go:68`), is off by a power of ten. `ChargesFit` has the
  agreement of the two as its hypothesis.
* `util.go:70` returns no error for a target above 100: the command is dropped silently.
* `battery_charge_control_test.go:145` asserts "NewPowerValue cannot be zero";
  truncation to whole watts can give 0 (`battery_charge_control.go:76`). It
  holds for the test's own inputs.
* `mqtt.go:105` says "init completed" on `MQTTSubscribed`, which may be the callback of
  a client that was replaced.
* Without a battery the inverter's power flow still feeds the three battery powers.

### Bounds, and why they are enough

* `MaxLoad` (`BatteryControl` 2, `MqttActor` 3) stops *new* requests when as many
  messages, timers and futures exist; what is under way may still multiply, so stale
  answers meet every state. With load 3 and no restart `BatteryControl` has 1,041,532
  states and the same properties hold; `MqttActor` was also checked with load 4.
* `MaxRestarts`, `MaxStarts`: one restart puts leftovers of an old instance beside a new
  one; `MqttActor` has two, for callbacks of two old clients.
* Two sets and two reads let a set end the delay of another with a read stashed.
* `MaxUnread` (2) lets a tick come while an answer is unread; 3 was checked by hand
  (262,642 states). `StateCount` is the code's own.
* `MaxAsked` (2), `MaxZombies` (1): one set may overtake another, and a late task writes
  between the writes of a later set. 29 W of a capacity of 100 W are 29 %, which the code
  computes as a little less and writes as 28.
* Of the inverters, 18 and 19 unknown blocks before the last needed one are the two
  sides of the limit of 22 blocks; likewise 10 and 11 for the meter's 12. One circle
  goes back to the first block, one to itself, and one leads out of the blocks.
* `MaxChanges` (3): each change starts a new approach to rest from wherever the last one
  got; houses and panels straddle every comparison of `Loop`, half watts included; the
  panels also give as much as the battery may be charged with, and more than that and
  one increase.
* The safety properties of `MasterOfPuppets` were checked by hand with the code's three
  actors (918,546 states with symmetry); its liveness runs with two.

### Fairness

`WF` on `Handle`: the dispatcher runs an actor that has messages. `WF` on the completion
of each future, attempt or publication: every one has a time limit in the code. `WF` on
timers: a timer that is not cancelled fires. `SF` on `PeriodicUpdate` in `MqttActor`:
polling goes on, slower than a publication. No fairness is assumed of users, of lost
connections or of answers being good. `PollsInTime` and `KeepsUp` are hypotheses of the
properties that need them; `main.go:182-183` (a poll interval of at least a second, the
time limit of a request) makes the first likely, not certain, and `main.go:173` (a
control interval of at least two) that of `BatteryControl`. In `BatterySystem` a
controller that controls sends again or fails, and an error answer makes it fail, which
is `ControlGoesOn` of `BatteryControl`, under its `KeepsUp`; the Modbus actor serves
what it is asked, which is `AllAnswered` of `ModbusActor`; tasks end and an inverter
that hears nothing reverts. No write is assumed to succeed but by the hypotheses of the
properties.

## 4. Proofs

Each proof module holds for every value of the constants of its module: any sets of
requests, actors and commands, any number of restarts, starts, zombies and queued
messages. All have the same outline: an inductive `IInv` (of `ChargeLoop` its types
suffice), `Init => IInv`, one lemma per action, `[Next]_vars` from these by cases, and
the property from `IInv`. TLC checked each `IInv` over the instances of section 3 before
its proof. Every invariant and every action property that a passing run checks is stated
by a theorem, and so are the refinements.

### Battery control: `BatteryControlProofs`

`Spec => []P` for `TypeOk`, `StashOnlyWhileWaiting`, `WaitIsBacked`, `LoopAlive`,
`SwitchesMatchState`, and `Spec => CommandedMatchesState`. `IInv` is the conjunction of
the first five and of `LastSetMatchesState`, what the last request must be in each
state; none can be left out: that a waiting state is stacked on the right state
(`StashOnlyWhileWaiting`) says which state a response returns to, which `LoopAlive` and
`LastSetMatchesState` need; `LoopAlive` needs `WaitIsBacked` in a waiting state, and
unstashing keeps both because the stash is lost only in a panic, which leaves neither
holding nor charging. The other half of `CommandedMatchesState`, that a command left by
a panic is not sent again, follows from it (`OnlyAskedFor`): the instance that comes
after neither holds nor charges, so no tick or answer it handles sends a request.

`ControlsByRequests` is the refinement `Spec => ImplementsController`. It needs more of
the states entered (`AsEntered`: holding never limits a charge; an actor that is done or
stopped has sent nothing itself, which `Wanted` tells from `lastSet`), and that
moving messages neither loses nor makes a failure (`BadQueue`), for `upset` is a failure
anywhere in mailbox or stash. Every handler is then a step of `StorageController`, or a
stutter.

### From a request to the registers: `BatterySystemProofs`

`QuietIsFollowed` and `ChargesOnlyWhenAsked` state `QuietMeansFollowed` and
`ChargedOnlyWhenAsked` for every capacity, resolution and set of parameters. The
invariant adds to the types

* `OneWriter`: as long as no set was overtaken one task at most writes, and the rate in
  the registers is the one it has written. So the second write of a command meets its
  own rate, never an earlier one's.
* `LastCounts`: the last set sent stands for the parameters wanted. It waits at the end
  of the queue; or is being written, with its answer to come and what its first writes
  leave in the registers (`Holds`); or was written to the end. A time limit or a failed
  write breaks this only by an error still to be read (`upset`).

A revert may come between any two writes and takes the bits only; `Holds` allows for it.
`HeldIsObeyed` shows that a command written to the end is obeyed, unless a revert came
after its last write of rates or bits: a truncated rate charges at the power asked for
to one step of the register (`RateBelow`), whichever powers float64 leaves just below a
whole step (`Inexact`).
`RevertOutlivesInterval` and `RatesFit` are about numbers alone: no conversion to 16
bits wraps, and the revert time is longer than the control interval, fractions of a
second dropped. `ControlsAssumption`, what the module assumes of the parameters, is
proved of the battery control actor in `BatteryControlProofs` (`ControlsAsAssumed`).

### Modbus actor: `ModbusActorProofs`

`OnePlace`, `ResultAwaited`, `DelayNotCutShort`, `ReadsWaitForDelay`, and the refinement
`SetsPromise`. The invariant counts: each request is in one place (`Placed`), one result
is under way exactly in the state that awaits it (`OneResult`), and a task that goes on
after its time limit is not the one the actor is blocked in and has had its answer, or
has it under way (`LateOnesAnswered`). For the read delay,
`TimerOfDelay` says that the timer armed is that of the present delay and no end of an
earlier one is left in the mailbox behind a result (`EndsFirst`): this order is what
makes a stale timer harmless, and unstashing a whole stash does not break it.
`SetInDelay` says where the later set is that lets a read run inside a delay.

`SetsWrittenOnce` draws the conclusion from the refinement: no set reaches the inverter
twice. It is proved of `SetService`, where a set waits, is served, may come late or was
written, and only one of these (`Apart`), and holds of the actor because that
implements `SetService`.

### From the registers of a device to Home Assistant: `DeviceDiscoveryProofs`

`OneAnswerEach`, `EveryEntityIsFed`, `SurveyFindsBlocks`, `BatteryAnnouncedRight` and
`CommandsUnderstood`, for every inverter and meter that `IsDevice` allows, with any
number of blocks in any order.

* *Induction.* The walk and the addresses of the blocks are recursive functions. That
  these exist (`RecursionDefines`) and what they compute is proved by induction over
  sets of naturals (`AllNaturals`, from the library's theorem that a well-founded
  relation has minimal elements), for its induction rules over predicates cannot be
  used here.
* *The walk.* The blocks of a device do not overlap (`StartsApart`), so a read at the
  start of a block gives its header (`ReadBlock`). A walk that is led from block to
  block finds what it meets (`AlignedWalk`); on a device that tells its lengths rightly
  the n-th step meets the n-th block, up to the limit, the end block, or the step that
  finds the last kind looked for (`ConformingWalk`). `SurveyedRight` is what follows of
  the result.
* *The invariant.* `AnswersOwed`: the answers counted, unread and to come of each actor
  asked add up to two, one of each. An instance that panics has read all of its own, so
  the next one counts no other's. `OpenFirst`: nothing answers well before the devices
  are open. `KnownAsSurveyed` and `AnnouncedWhenDone`: what is announced is chosen from
  what the surveys found.
* *Entities and topics.* The rest is about the sets of entities and the topics alone:
  every announced topic has a publisher, every command topic is parsed to what it was
  announced for, and no topic that the bridge publishes to is parsed to a command.

### The other actors

* `PowerFlowProofs`: `OneTickLoop` and `WaitIsBacked`. The answers are counted as the
  tick is (`OneAnswer`): a state that waits does not ask again and the answer it waits
  for is never put aside.
* `MqttActorProofs`: `WaitIsBacked`, which with types is inductive as it stands, and the
  refinement `Promise`: a request is in one place at most (`Once`; a restart loses the
  stash), so its answers never exceed one.
* `MasterOfPuppetsProofs`: `VerdictTrueUnlessCutShort` and the two refinements in
  `Promise`. `OwnAnswers` is the reason for the first: until a check is cut short,
  answers received, under way and in the mailbox add up to the number of actors, and
  none belongs to another check. `cutShort` breaks exactly this sum, as the run
  `master_silent` shows.

### Charge control logic: `BatterySystemProofs`

`TypeOk` as an invariant, `GridLimit` and `RateLimited` as action properties from it,
for every configuration, consumption, production and battery. The key is that both
formulas stay within the budget, and the cap and truncation only lower it.

`ChargesSettle` is the safety of `Settles`: where the panels give no more than the
battery may be charged with, a start brings the charge within its budget
(`WithinBudget`), and every later adjustment keeps it there and does not lower it. A
power that only grows, below the capacity, comes to rest; what TLC adds is that it does
so from anywhere, within its instance. The hypothesis of a positive rate is needed: with
none, the half watt that truncation drops is never made up for. `PanelsAboveCapacity` is
the other half: above the capacity and one increase every tick undoes the one before.

`ChargesFit` joins the two parts of the module: the rate of a charge the logic asks for
is 100 % at most, so that it fits its register too, where the capacity that caps the
power is not above the one that it is divided by.

### Assumptions

Only the named `ASSUME`s on constants: bounds are natural numbers; 100 is among the
charge levels; powers are integers and the configuration's numbers not negative; `None`
is no request; the kinds of requests are disjoint; the set of actors asked is finite;
capacity and resolution are positive and a full rate fits its register; the powers that
float64 computes inexactly (`Inexact`) are any positive ones; the control
interval is at least the two seconds that `main.go` asks for and below the 32768 s at
which the revert time would wrap; `ControlsAssumption`; the devices are SunSpec devices
whose blocks lie within the 16-bit addresses and whose status block reaches the register
that tells of a battery (`DevicesAssumption`; the lengths they report may be any);
different numbers have different numerals, and no numeral of a
target is one of the words that are payloads (`NumeralsAssumption`).

### Only model-checked

The liveness properties: `StashDrains`, `ControlGoesOn`, `InverterFollows`,
`IdleFreesBattery`, `AllAnswered`, `Settles`, `ConnectionReplaced`, `AllServed`,
`TerminationNoticed`, `StatesPolled` and `AnnouncedInTheEnd`. Fairness and `ENABLED`
are beyond the prover. Of `Settles` the safety is proved.

## 5. Not modelled

* Of the SunSpec client: scale factors and texts of what is read, `Validate`, and
  `SetPowerLimit` and the other controls, which nothing calls. The meter can be missing
  only where the Modbus actor's reader is nil (`modbus.go:64`), which `NoMeter` stands
  for; `main.go` always gives it one.
* Of a discovery payload all but the topics and payloads; of updates the values of
  sensors.
* Configuration and program start: their checks are assumptions and bounds here.
* The HTTP server: one stateless route, the master's `SendHealthRequest`.
* Logging, formatting, units, names and icons; stopping the whole program.

## 6. Plan

The core came first: battery control, which commands the inverter, then the Modbus actor
every command goes through, the control logic, the actors around them, the devices and entities at both ends, and
the proofs of their safety. Left:

1. Retained values of one topic in `MqttActor` (reordering by `UnstashOldest`).
2. The scale factors of what is read from the storage block, so that the cap of the
   charge power and the capacity it is divided by can be told apart.

New runs take the place of weaker ones or are merged with those of the same module: the
set of runs is meant to stay small.
