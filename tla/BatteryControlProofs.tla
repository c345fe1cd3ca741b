------------------------ MODULE BatteryControlProofs ------------------------
(***************************************************************************)
(* The safety properties of BatteryControl, for every set of charge levels *)
(* and powers, every number of restarts and every load.                    *)
(***************************************************************************)
EXTENDS BatteryControl, ActorUtilLemmas

IInv ==
    /\ TypeOk
    /\ StashOnlyWhileWaiting
    /\ WaitIsBacked
    /\ LoopAlive
    /\ SwitchesMatchState
    /\ LastSetMatchesState

\* What the assumptions say of the constants.
LEMMA ConstantsOk ==
    /\ 100 \in SoCs /\ MaxRestarts \in Nat /\ LimitKnown \in BOOLEAN
    /\ -1 \in ChargePowers
    /\ \A npv \in Powers : Adjusted(npv) \in ChargePowers
BY SoCsAssumption, RestartsAssumption, LimitAssumption, PowersAssumption
   DEF ChargePowers, Adjusted

\* The stack holds a state, or a waiting state on top of it.
LEMMA StackShape ==
    ASSUME TypeOk, StashOnlyWhileWaiting
    PROVE  /\ stack \in Seq(States) /\ Len(stack) \in {1, 2}
           /\ Base \in States /\ Top \in States
           /\ Len(stack) = 1 => Top = Base /\ Top.name \in BaseNames
           /\ Len(stack) = 2 => Top.name \in AwaitNames
           /\ Top.name \in BaseNames => Len(stack) = 1
           /\ Top.name \in AwaitNames => Len(stack) = 2
<1>1. stack \in Seq(States) /\ Len(stack) \in {1, 2}
    BY DEF TypeOk, StashOnlyWhileWaiting
<1>2. Base \in States /\ Top \in States
    BY <1>1, ElementOfSeq DEF Base, Top
<1>3. Len(stack) = 1 => Top = Base /\ Top.name \in BaseNames
    BY DEF StashOnlyWhileWaiting, Base, Top
<1>4. Len(stack) = 2 => Top.name \in AwaitNames
    BY DEF StashOnlyWhileWaiting, AwaitNames, In
<1>5. BaseNames \cap AwaitNames = {}
    BY DEF BaseNames, AwaitNames
<1> QED
    BY <1>1, <1>2, <1>3, <1>4, <1>5

\* The states the actor enters.
LEMMA StateTypes ==
    /\ \A n \in BaseNames \cup AwaitNames : Plain(n) \in States
    /\ \A n \in BaseNames \cup AwaitNames :
          Plain(n).name = n /\ Plain(n).hold = FALSE /\ Plain(n).charge = -1
    /\ Holding \in States
    /\ Holding.name = "holding" /\ Holding.hold = TRUE /\ Holding.charge = -1
    /\ \A h \in BOOLEAN, c \in ChargePowers :
          /\ Charging(h, c) \in States
          /\ Charging(h, c).name = "charging"
          /\ Charging(h, c).hold = h /\ Charging(h, c).charge = c
    /\ \A s \in States : ParamsOf(s) \in Params
    /\ Release \in Params
BY ConstantsOk DEF Plain, Holding, Charging, State, States, BaseNames, AwaitNames,
                   ParamsOf, Params, Release

\* The actor starts in the invariant: it waits for the device info it asked for.
LEMMA InitInv == Init => IInv
<1> SUFFICES ASSUME Init PROVE IInv
    OBVIOUS
<1>1. /\ stack \in Seq(States) /\ Len(stack) = 1 /\ stack[1] = Plain("waitingInfo")
      /\ Base = Plain("waitingInfo") /\ Top = Plain("waitingInfo")
    BY StateTypes DEF Init, Base, Top, BaseNames
<1>2. Base.name = "waitingInfo" /\ Top.name = "waitingInfo"
    BY <1>1, StateTypes DEF BaseNames
<1>3. TypeOk
    <2>1. stack \in Seq(States) /\ stack # <<>> /\ mailbox \in Seq(Messages)
          /\ stash \in Seq(Messages)
        BY <1>1, EmptySeq DEF Init
    <2>2. /\ targetSOC \in SoCs /\ orphanTicks \in Nat /\ restarts \in 0 .. MaxRestarts
          /\ lastSet \in Params \cup {NoSet}
          /\ pending \in [Kinds -> Nat]
          /\ published \in [hold : BOOLEAN, charge : BOOLEAN, soc : SoCs]
        BY ConstantsOk DEF Init
    <2>3. /\ limited \in BOOLEAN /\ ownTick \in BOOLEAN /\ receiveTimeout \in BOOLEAN
          /\ abandoned \in BOOLEAN
        BY ConstantsOk DEF Init
    <2> QED
        BY <2>1, <2>2, <2>3 DEF TypeOk
<1>4. StashOnlyWhileWaiting
    BY <1>1, <1>2 DEF StashOnlyWhileWaiting, Init, BaseNames
<1>5. WaitIsBacked
    BY <1>2 DEF WaitIsBacked, In, Init, Kinds
<1>6. LoopAlive /\ SwitchesMatchState /\ LastSetMatchesState
    BY <1>2 DEF LoopAlive, SwitchesMatchState, LastSetMatchesState, Controlling, Init
<1> QED
    BY <1>3, <1>4, <1>5, <1>6 DEF IInv

\* The message a handler takes from the mailbox.
LEMMA Taken ==
    ASSUME TypeOk, mailbox # <<>>
    PROVE  /\ Message \in Messages
           /\ Tail(mailbox) \in Seq(Messages)
           /\ \A types : InQueue(mailbox, types) =>
                 Message.type \in types \/ InQueue(Tail(mailbox), types)
BY TakeHead DEF TypeOk, Message

-----------------------------------------------------------------------------
(* What the helpers of the actions establish *)

\* A set request sent: it is under way, with its parameters the last sent.
LEMMA SendSetFacts ==
    ASSUME TypeOk, NEW params \in Params, SendSet(params)
    PROVE  /\ pending' \in [Kinds -> Nat] /\ pending'["set"] > 0
           /\ lastSet' = params /\ lastSet' \in Params \cup {NoSet}
           /\ abandoned' = FALSE
           /\ receiveTimeout' \in BOOLEAN
<1>1. pending \in [Kinds -> Nat] /\ "set" \in Kinds
    BY DEF TypeOk, Kinds
<1>2. /\ pending' = [pending EXCEPT !["set"] = @ + 1]
      /\ lastSet' = params /\ abandoned' = FALSE
    BY DEF SendSet, Ask
<1>3. receiveTimeout' \in BOOLEAN
    BY DEF SendSet
<1> QED
    BY <1>1, <1>2, <1>3

\* The await state stacked by sendStorageControl does not survive the Become.
LEMMA EnterWithActionFacts ==
    ASSUME TypeOk, NEW s \in States, EnterWithAction(s)
    PROVE  /\ stack' \in Seq(States) /\ stack' # <<>> /\ Len(stack') = 1
           /\ Base' = s /\ Top' = s
           /\ pending' \in [Kinds -> Nat] /\ pending'["set"] > 0
           /\ lastSet' = ParamsOf(s) /\ lastSet' \in Params \cup {NoSet}
           /\ abandoned' = FALSE
           /\ receiveTimeout' \in BOOLEAN
<1>1. stack' = Become(BecomeStacked(stack, Plain("awaitStorageControl")), s)
      /\ SendSet(ParamsOf(s))
    BY DEF EnterWithAction
<1>2. stack' \in Seq(States) /\ stack' # <<>> /\ Len(stack') = 1 /\ stack'[1] = s
    BY <1>1, BecomeOnly
<1>3. Base' = s /\ Top' = s
    BY <1>2 DEF Base, Top
<1>4. ParamsOf(s) \in Params
    BY StateTypes
<1> QED
    BY <1>1, <1>2, <1>3, <1>4, SendSetFacts

\* The await state of an exit to idle does.
LEMMA EnterIdleFacts ==
    ASSUME TypeOk, EnterIdleWithRelease
    PROVE  /\ stack' \in Seq(States) /\ stack' # <<>> /\ Len(stack') = 2
           /\ Base' = Plain("idle") /\ Top' = Plain("awaitStorageControl")
           /\ pending' \in [Kinds -> Nat] /\ pending'["set"] > 0
           /\ lastSet' = Release /\ lastSet' \in Params \cup {NoSet}
           /\ abandoned' = FALSE
           /\ receiveTimeout' \in BOOLEAN
<1> DEFINE idle == Become(stack, Plain("idle"))
<1>1. stack' = BecomeStacked(idle, Plain("awaitStorageControl")) /\ SendSet(Release)
    BY DEF EnterIdleWithRelease
<1>2. Plain("idle") \in States /\ Plain("awaitStorageControl") \in States
    BY StateTypes DEF BaseNames, AwaitNames
<1>3. idle \in Seq(States) /\ Len(idle) = 1 /\ idle[1] = Plain("idle")
    BY <1>2, BecomeOnly
<1> HIDE DEF idle
<1>4. /\ stack' \in Seq(States) /\ stack' # <<>> /\ Len(stack') = 2
      /\ stack'[1] = Plain("idle") /\ stack'[2] = Plain("awaitStorageControl")
    BY <1>1, <1>2, <1>3, BecomeOnTop
<1>5. Base' = Plain("idle") /\ Top' = Plain("awaitStorageControl")
    BY <1>4 DEF Base, Top
<1>6. Release \in Params
    BY StateTypes
<1> QED
    BY <1>1, <1>4, <1>5, <1>6, SendSetFacts

\* Leaving a waiting state keeps every message, and adds the response.
LEMMA ResumeFacts ==
    ASSUME IInv, mailbox # <<>>, Top.name \in AwaitNames,
           NEW response \in Messages, Resume(response)
    PROVE  /\ stack' \in Seq(States) /\ stack' # <<>> /\ Len(stack') = 1
           /\ Base' = Base /\ Top' = Base
           /\ mailbox' \in Seq(Messages) /\ stash' = <<>>
           /\ \A types : InQueue(mailbox', types)
                           <=> \/ InQueue(Tail(mailbox), types)
                               \/ response.type \in types
                               \/ InQueue(stash, types)
<1>1. TypeOk /\ Len(stack) = 2 /\ stack \in Seq(States)
    BY StackShape DEF IInv
<1>2. stack' = UnbecomeStacked(stack) /\ stash' = <<>>
      /\ mailbox' = UnstashedAll(Append(Tail(mailbox), response), stash)
    BY DEF Resume
<1>3. stack' \in Seq(States) /\ stack' # <<>> /\ Len(stack') = 1 /\ stack'[1] = stack[1]
    BY <1>1, <1>2, UnbecomeToBase
<1>4. Base' = Base /\ Top' = Base
    BY <1>3 DEF Base, Top
<1>5. Tail(mailbox) \in Seq(Messages) /\ stash \in Seq(Messages)
    BY <1>1, Taken DEF TypeOk
<1>6. /\ Append(Tail(mailbox), response) \in Seq(Messages)
      /\ \A types : InQueue(Append(Tail(mailbox), response), types)
                      <=> InQueue(Tail(mailbox), types) \/ response.type \in types
    BY <1>5, AddLast
<1>7. /\ mailbox' \in Seq(Messages)
      /\ \A types : InQueue(mailbox', types)
                      <=> \/ InQueue(Append(Tail(mailbox), response), types)
                          \/ InQueue(stash, types)
    BY <1>2, <1>5, <1>6, UnstashAll
<1> QED
    BY <1>2, <1>3, <1>4, <1>6, <1>7

\* Counting the own timer among the orphaned ones gives a number.
LEMMA OrphanedType == TypeOk => Orphaned \in Nat
BY DEF TypeOk, Orphaned

\* A panic leaves a consistent actor behind, restarted or stopped.
LEMMA FailInv ==
    ASSUME IInv, mailbox # <<>>, Fail
    PROVE  IInv'
<1>1. TypeOk /\ Tail(mailbox) \in Seq(Messages) /\ Orphaned \in Nat
    BY Taken, OrphanedType DEF IInv
<1>2. /\ receiveTimeout' = FALSE /\ stash' = <<>> /\ ownTick' = FALSE
      /\ orphanTicks' = Orphaned /\ targetSOC' = 100
      /\ lastSet' = lastSet /\ abandoned' = TRUE
      /\ limited' = limited /\ published' = published
    BY DEF Fail
<1>3. CASE restarts < MaxRestarts
    <2>1. /\ restarts' = restarts + 1 /\ mailbox' = Tail(mailbox)
          /\ stack' = <<Plain("waitingInfo")>> /\ Ask("info")
        BY <1>3 DEF Fail
    <2>2. /\ stack' \in Seq(States) /\ stack' # <<>> /\ Len(stack') = 1
          /\ Base' = Plain("waitingInfo") /\ Top' = Plain("waitingInfo")
        BY <2>1, StateTypes DEF BaseNames, Base, Top
    <2>3. Base'.name = "waitingInfo" /\ Top'.name = "waitingInfo"
        BY <2>2, StateTypes DEF BaseNames
    <2>4. pending' \in [Kinds -> Nat] /\ pending'["info"] > 0
        BY <1>1, <2>1 DEF TypeOk, Ask, Kinds
    <2>5. restarts' \in 0 .. MaxRestarts
        BY <1>1, <1>3, <2>1, ConstantsOk DEF TypeOk
    <2>6. TypeOk'
        BY <1>1, <1>2, <2>1, <2>2, <2>4, <2>5, ConstantsOk, EmptySeq DEF TypeOk
    <2>7. StashOnlyWhileWaiting'
        BY <1>2, <2>2, <2>3 DEF StashOnlyWhileWaiting, BaseNames
    <2>8. WaitIsBacked'
        BY <2>3, <2>4 DEF WaitIsBacked, In
    <2>9. LoopAlive' /\ SwitchesMatchState' /\ LastSetMatchesState'
        BY <1>2, <2>3
           DEF LoopAlive, SwitchesMatchState, LastSetMatchesState, Controlling
    <2> QED
        BY <2>6, <2>7, <2>8, <2>9 DEF IInv
<1>4. CASE ~(restarts < MaxRestarts)
    <2>1. /\ restarts' = restarts /\ pending' = pending /\ mailbox' = <<>>
          /\ stack' = <<Plain("stopped")>>
        BY <1>4 DEF Fail
    <2>2. /\ stack' \in Seq(States) /\ stack' # <<>> /\ Len(stack') = 1
          /\ Base' = Plain("stopped") /\ Top' = Plain("stopped")
        BY <2>1, StateTypes DEF BaseNames, Base, Top
    <2>3. Base'.name = "stopped" /\ Top'.name = "stopped"
        BY <2>2, StateTypes DEF BaseNames
    <2>4. TypeOk'
        BY <1>1, <1>2, <2>1, <2>2, ConstantsOk, EmptySeq DEF TypeOk
    <2>5. StashOnlyWhileWaiting'
        BY <1>2, <2>2, <2>3 DEF StashOnlyWhileWaiting, BaseNames
    <2>6. WaitIsBacked' /\ LoopAlive' /\ SwitchesMatchState' /\ LastSetMatchesState'
        BY <1>2, <2>3 DEF WaitIsBacked, In, LoopAlive, SwitchesMatchState,
                          LastSetMatchesState, Controlling
    <2> QED
        BY <2>4, <2>5, <2>6 DEF IInv
<1> QED
    BY <1>3, <1>4

-----------------------------------------------------------------------------
(* One lemma per way of changing state *)

Served == {"idle", "charging", "holding"}

\* In a state that serves commands nothing is stacked and nothing put aside.
LEMMA AtBase ==
    ASSUME IInv, Top.name \in Served \cup {"done"}
    PROVE  Len(stack) = 1 /\ Top = Base /\ stash = <<>>
<1>1. Top.name \in BaseNames /\ Top.name \notin AwaitNames \cup {"waitingInfo"}
    BY DEF Served, BaseNames, AwaitNames
<1>2. Len(stack) = 1 /\ Top = Base
    BY <1>1, StackShape DEF IInv
<1>3. stash = <<>>
    BY <1>1 DEF IInv, StashOnlyWhileWaiting
<1> QED
    BY <1>2, <1>3

Shown == [hold : BOOLEAN, charge : BOOLEAN, soc : SoCs]

\* Entering holding or charging with a request.
LEMMA EnterInv ==
    ASSUME IInv, mailbox # <<>>, Top.name \in Served,
           NEW s \in States, s.name \in {"holding", "charging"},
           EnterWithAction(s),
           mailbox' = Tail(mailbox), ownTick' \in BOOLEAN,
           UNCHANGED <<stash, targetSOC, limited, orphanTicks, restarts>>,
           published' \in Shown, published'.soc = targetSOC,
           published'.hold = IF s.name = "holding" THEN TRUE ELSE s.hold,
           published'.charge = (s.name = "charging")
    PROVE  IInv'
<1>1. TypeOk /\ Tail(mailbox) \in Seq(Messages) /\ stash = <<>>
    BY Taken, AtBase DEF IInv
<1>2. /\ stack' \in Seq(States) /\ stack' # <<>> /\ Len(stack') = 1
      /\ Base' = s /\ Top' = s
      /\ pending' \in [Kinds -> Nat] /\ pending'["set"] > 0
      /\ lastSet' = ParamsOf(s) /\ lastSet' \in Params \cup {NoSet}
      /\ abandoned' = FALSE
      /\ receiveTimeout' \in BOOLEAN
    BY <1>1, EnterWithActionFacts
<1>3. limited
    BY AtBase DEF IInv, LastSetMatchesState, Controlling, Served
<1>4. TypeOk'
    BY <1>1, <1>2 DEF TypeOk, Shown
<1>5. StashOnlyWhileWaiting'
    BY <1>1, <1>2 DEF StashOnlyWhileWaiting, BaseNames
<1>6. WaitIsBacked' /\ LoopAlive'
    BY <1>2 DEF WaitIsBacked, LoopAlive, In
<1>7. SwitchesMatchState'
    BY <1>2 DEF SwitchesMatchState
<1>8. LastSetMatchesState'
    BY <1>2, <1>3 DEF LastSetMatchesState, Controlling
<1> QED
    BY <1>4, <1>5, <1>6, <1>7, <1>8 DEF IInv

\* Returning to idle, with the request that releases the battery.
LEMMA ReleaseInv ==
    ASSUME IInv, mailbox # <<>>, Top.name \in Served,
           EnterIdleWithRelease,
           mailbox' = Tail(mailbox), ownTick' \in BOOLEAN,
           UNCHANGED <<stash, targetSOC, limited, orphanTicks, restarts>>,
           published' = SwitchesOff(published)
    PROVE  IInv'
<1>1. TypeOk /\ Tail(mailbox) \in Seq(Messages) /\ stash = <<>>
    BY Taken, AtBase DEF IInv
<1>2. /\ stack' \in Seq(States) /\ stack' # <<>> /\ Len(stack') = 2
      /\ Base' = Plain("idle") /\ Top' = Plain("awaitStorageControl")
      /\ pending' \in [Kinds -> Nat] /\ pending'["set"] > 0
      /\ lastSet' = Release /\ lastSet' \in Params \cup {NoSet}
      /\ abandoned' = FALSE
      /\ receiveTimeout' \in BOOLEAN
    BY <1>1, EnterIdleFacts
<1>3. Base'.name = "idle" /\ Top'.name = "awaitStorageControl"
    BY <1>2, StateTypes DEF BaseNames, AwaitNames
<1>4. limited
    BY AtBase DEF IInv, LastSetMatchesState, Controlling, Served
<1>5. published' \in Shown /\ ~published'.hold /\ ~published'.charge
      /\ published'.soc = targetSOC
    BY <1>1 DEF TypeOk, SwitchesOff, Shown
<1>6. TypeOk'
    BY <1>1, <1>2, <1>5 DEF TypeOk, Shown
<1>7. StashOnlyWhileWaiting'
    BY <1>1, <1>2, <1>3 DEF StashOnlyWhileWaiting, In
<1>8. WaitIsBacked' /\ LoopAlive'
    BY <1>2, <1>3 DEF WaitIsBacked, LoopAlive, In
<1>9. SwitchesMatchState' /\ LastSetMatchesState'
    BY <1>2, <1>3, <1>4, <1>5 DEF SwitchesMatchState, LastSetMatchesState, Controlling
<1> QED
    BY <1>6, <1>7, <1>8, <1>9 DEF IInv

\* Charging.Exit keeps the invariant, whether it leads to holding or to idle.
LEMMA ExitChargingInv ==
    ASSUME IInv, mailbox # <<>>, In("charging"), ExitCharging
    PROVE  IInv'
<1>1. Top.name \in Served /\ Top.name = "charging" /\ TypeOk
    BY DEF In, Served, IInv
<1>2. Top = Base /\ published.charge /\ published.soc = targetSOC
    BY <1>1, AtBase DEF IInv, SwitchesMatchState
<1>3. /\ mailbox' = Tail(mailbox) /\ ownTick' \in BOOLEAN
      /\ UNCHANGED <<stash, targetSOC, limited, orphanTicks, restarts>>
    BY DEF ExitCharging, CancelTick
<1>4. CASE Top.hold
    <2>1. EnterWithAction(Holding)
          /\ published' = [published EXCEPT !.hold = TRUE, !.charge = FALSE]
        BY <1>4 DEF ExitCharging
    <2>2. published' \in Shown /\ published'.soc = targetSOC
          /\ published'.hold = TRUE /\ published'.charge = FALSE
        BY <1>1, <1>2, <2>1 DEF TypeOk, Shown
    <2> QED
        BY <1>1, <1>3, <2>1, <2>2, EnterInv, StateTypes
<1>5. CASE ~Top.hold
    <2>1. EnterIdleWithRelease /\ published' = SwitchesOff(published)
        BY <1>5 DEF ExitCharging
    <2> QED
        BY <1>1, <1>3, <2>1, ReleaseInv
<1> QED
    BY <1>4, <1>5

\* Steps that leave the state of the machine alone and move messages about.
\* The tokens of the loop may move between timers, requests and queues, and the
\* answer a waiting state waits for stays in reach.
Unmoved == <<stack, targetSOC, limited, lastSet, abandoned, published, restarts>>

\* A step that moves messages, timers and requests about but leaves the state
\* of the actor alone keeps the invariant if it loses no answer and no loop.
LEMMA MoveInv ==
    ASSUME IInv, UNCHANGED Unmoved,
           mailbox' \in Seq(Messages), stash' \in Seq(Messages),
           ownTick' \in BOOLEAN, orphanTicks' \in Nat, receiveTimeout' \in BOOLEAN,
           pending' \in [Kinds -> Nat],
           stash' # <<>> => Top.name \in AwaitNames \cup {"waitingInfo"},
           WaitIsBacked', LoopAlive'
    PROVE  IInv'
<1>1. Base' = Base /\ Top' = Top /\ stack' = stack
    BY DEF Unmoved, Base, Top
<1>2. TypeOk'
    BY DEF IInv, TypeOk, Unmoved
<1>3. StashOnlyWhileWaiting'
    BY <1>1 DEF IInv, StashOnlyWhileWaiting, In
<1>4. SwitchesMatchState' /\ LastSetMatchesState'
    BY <1>1 DEF IInv, SwitchesMatchState, LastSetMatchesState, Controlling, Unmoved
<1> QED
    BY <1>2, <1>3, <1>4 DEF IInv

\* A message that arrives is queued beside those that were.
LEMMA Delivered ==
    ASSUME TypeOk, NEW m \in Messages, Deliver(m)
    PROVE  /\ mailbox' \in Seq(Messages)
           /\ \A types : InQueue(mailbox', types)
                           <=> InQueue(mailbox, types) \/ m.type \in types
BY AddLast DEF TypeOk, Deliver

\* A user command or a health check that arrives keeps the invariant.
LEMMA RequestInv ==
    ASSUME IInv, NEW m \in Commands \cup {[type |-> "Health"]}, Request(m)
    PROVE  IInv'
<1>1. m \in Messages /\ TypeOk
    BY DEF Messages, IInv
<1>2. /\ mailbox' \in Seq(Messages)
      /\ \A types : InQueue(mailbox, types) => InQueue(mailbox', types)
    BY <1>1, Delivered DEF Request
<1>3. UNCHANGED <<stack, stash, targetSOC, limited, ownTick, orphanTicks,
                  receiveTimeout, pending, lastSet, abandoned, published, restarts>>
    BY DEF Request
<1>4. Base' = Base /\ Top' = Top
    BY <1>3 DEF Base, Top
<1>5. WaitIsBacked' /\ LoopAlive'
    BY <1>2, <1>3, <1>4 DEF IInv, WaitIsBacked, LoopAlive, Queued, In
<1>6. stash' # <<>> => Top.name \in AwaitNames \cup {"waitingInfo"}
    BY <1>3 DEF IInv, StashOnlyWhileWaiting
<1> QED
    BY <1>1, <1>2, <1>3, <1>5, <1>6, MoveInv DEF Unmoved, TypeOk

\* The outcome of a future is a response to its request.
LEMMA OutcomeTypes ==
    ASSUME NEW kind \in Kinds, NEW m \in Outcomes(kind)
    PROVE  /\ m \in Messages
           /\ kind = "info" => m.type = "Info"
           /\ kind = "set" => m.type = "Set"
           /\ kind = "flow" => m.type = "Flow"
BY DEF Kinds, Outcomes, Messages, Responses

\* A future that completes keeps the invariant: its outcome takes its place.
LEMMA FutureInv ==
    ASSUME IInv, NEW kind \in Kinds, FutureCompletes(kind)
    PROVE  IInv'
<1>1. PICK m \in Outcomes(kind) : Deliver(m)
    BY DEF FutureCompletes
<1>2. m \in Messages /\ TypeOk
    BY OutcomeTypes DEF IInv
<1>3. /\ mailbox' \in Seq(Messages)
      /\ \A types : InQueue(mailbox', types)
                      <=> InQueue(mailbox, types) \/ m.type \in types
    BY <1>1, <1>2, Delivered
<1>4. /\ pending[kind] > 0
      /\ pending' = [pending EXCEPT ![kind] = @ - 1]
      /\ UNCHANGED <<stack, stash, targetSOC, limited, ownTick, orphanTicks,
                     receiveTimeout, lastSet, abandoned, published, restarts>>
    BY DEF FutureCompletes
<1>5. /\ pending' \in [Kinds -> Nat]
      /\ \A k \in Kinds : k # kind => pending'[k] = pending[k]
    BY <1>2, <1>4 DEF TypeOk
<1>6. Base' = Base /\ Top' = Top
    BY <1>4 DEF Base, Top
<1>7. /\ pending["info"] > 0 => pending'["info"] > 0 \/ InQueue(mailbox', {"Info"})
      /\ pending["set"] > 0 => pending'["set"] > 0 \/ InQueue(mailbox', {"Set"})
      /\ pending["flow"] > 0 => pending'["flow"] > 0 \/ InQueue(mailbox', {"Flow"})
    BY <1>1, <1>3, <1>5, OutcomeTypes DEF Kinds
<1>8. WaitIsBacked'
    BY <1>3, <1>6, <1>7 DEF IInv, WaitIsBacked, In
<1>9. LoopAlive'
    <2>1. /\ InQueue(mailbox', {"Set"}) =>
                InQueue(mailbox', {"Set", "Tick"}) /\ InQueue(mailbox', {"Set", "Flow", "Tick"})
          /\ InQueue(mailbox', {"Flow"}) => InQueue(mailbox', {"Set", "Flow", "Tick"})
        BY DEF InQueue
    <2>2. \A types : InQueue(mailbox, types) => InQueue(mailbox', types)
        BY <1>3
    <2> QED
        BY <1>4, <1>6, <1>7, <2>1, <2>2 DEF IInv, LoopAlive, Queued
<1>10. stash' # <<>> => Top.name \in AwaitNames \cup {"waitingInfo"}
    BY <1>4 DEF IInv, StashOnlyWhileWaiting
<1> QED
    BY <1>2, <1>3, <1>4, <1>5, <1>8, <1>9, <1>10, MoveInv DEF Unmoved, TypeOk

\* A timer that fires keeps the invariant: its tick takes its place.
LEMMA TickInv ==
    ASSUME IInv, TickFires
    PROVE  IInv'
<1>1. [type |-> "Tick"] \in Messages /\ TypeOk
    BY DEF Messages, IInv
<1>2. /\ mailbox' \in Seq(Messages)
      /\ \A types : InQueue(mailbox, types) => InQueue(mailbox', types)
      /\ InQueue(mailbox', {"Set", "Tick"}) /\ InQueue(mailbox', {"Set", "Flow", "Tick"})
    BY <1>1, Delivered DEF TickFires
<1>3. /\ ownTick' \in BOOLEAN /\ orphanTicks' \in Nat
      /\ UNCHANGED <<stack, stash, targetSOC, limited, receiveTimeout, pending,
                     lastSet, abandoned, published, restarts>>
    <2>1. ownTick \in BOOLEAN /\ orphanTicks \in Nat
        BY <1>1 DEF TypeOk
    <2>2. \/ ownTick' = FALSE /\ orphanTicks' = orphanTicks
          \/ ownTick' = ownTick /\ orphanTicks > 0 /\ orphanTicks' = orphanTicks - 1
        BY DEF TickFires
    <2>3. ownTick' \in BOOLEAN
        BY <2>1, <2>2
    <2>4. orphanTicks' \in Nat
        BY <2>1, <2>2
    <2> QED
        BY <2>3, <2>4 DEF TickFires
<1>4. Base' = Base /\ Top' = Top
    BY <1>3 DEF Base, Top
<1>5. WaitIsBacked' /\ LoopAlive'
    BY <1>2, <1>3, <1>4 DEF IInv, WaitIsBacked, LoopAlive, Queued, In
<1>6. stash' # <<>> => Top.name \in AwaitNames \cup {"waitingInfo"}
    BY <1>3 DEF IInv, StashOnlyWhileWaiting
<1> QED
    BY <1>1, <1>2, <1>3, <1>5, <1>6, MoveInv DEF Unmoved, TypeOk

\* The receive timeout that fires keeps the invariant.
LEMMA TimeoutInv ==
    ASSUME IInv, ReceiveTimeoutFires
    PROVE  IInv'
<1>1. [type |-> "ReceiveTimeout"] \in Messages /\ TypeOk
    BY DEF Messages, IInv
<1>2. /\ mailbox' \in Seq(Messages)
      /\ \A types : InQueue(mailbox, types) => InQueue(mailbox', types)
    BY <1>1, Delivered DEF ReceiveTimeoutFires
<1>3. /\ receiveTimeout' = FALSE
      /\ UNCHANGED <<stack, stash, targetSOC, limited, ownTick, orphanTicks,
                     pending, lastSet, abandoned, published, restarts>>
    BY DEF ReceiveTimeoutFires
<1>4. Base' = Base /\ Top' = Top
    BY <1>3 DEF Base, Top
<1>5. WaitIsBacked' /\ LoopAlive'
    BY <1>2, <1>3, <1>4 DEF IInv, WaitIsBacked, LoopAlive, Queued, In
<1>6. stash' # <<>> => Top.name \in AwaitNames \cup {"waitingInfo"}
    BY <1>3 DEF IInv, StashOnlyWhileWaiting
<1> QED
    BY <1>1, <1>2, <1>3, <1>5, <1>6, MoveInv DEF Unmoved, TypeOk

\* Putting a message aside keeps the invariant: it is not the awaited one.
LEMMA StashInv ==
    ASSUME IInv, StashMessage
    PROVE  IInv'
<1>1. /\ mailbox # <<>> /\ Top.name \in AwaitNames \cup {"waitingInfo"}
      /\ Message.type \notin HandledWhileWaiting
      /\ stash' = Stashed(stash, Message) /\ mailbox' = Tail(mailbox)
      /\ UNCHANGED <<stack, targetSOC, limited, ownTick, orphanTicks, receiveTimeout,
                     pending, lastSet, abandoned, published, restarts>>
    BY DEF StashMessage
<1>2. TypeOk /\ Message \in Messages /\ mailbox' \in Seq(Messages)
    BY <1>1, Taken DEF IInv
<1>3. \A types : InQueue(mailbox, types) =>
                    Message.type \in types \/ InQueue(mailbox', types)
    BY <1>1, <1>2, Taken
<1>4. /\ stash' \in Seq(Messages)
      /\ \A types : InQueue(stash', types)
                      <=> InQueue(stash, types) \/ Message.type \in types
    BY <1>1, <1>2, AddLast DEF TypeOk, Stashed
<1>5. Base' = Base /\ Top' = Top
    BY <1>1 DEF Base, Top
<1>6. /\ Top.name = "waitingInfo" => Message.type # "Info"
      /\ Top.name = "awaitStorageControl" => Message.type # "Set"
      /\ Top.name = "awaitPowerFlow" => Message.type # "Flow"
    BY <1>1 DEF HandledWhileWaiting, In
<1>7. WaitIsBacked'
    BY <1>1, <1>3, <1>5, <1>6 DEF IInv, WaitIsBacked, In
<1>8. LoopAlive'
    BY <1>1, <1>3, <1>4, <1>5 DEF IInv, LoopAlive, Queued
<1> QED
    BY <1>1, <1>2, <1>4, <1>7, <1>8, MoveInv DEF Unmoved, TypeOk

\* A message without effect keeps the invariant: the loop does not rest on it.
LEMMA NoEffectInv ==
    ASSUME IInv, NoEffect
    PROVE  IInv'
<1>1. /\ mailbox # <<>> /\ WithoutEffect(Message) /\ mailbox' = Tail(mailbox)
      /\ UNCHANGED <<stack, stash, targetSOC, limited, ownTick, orphanTicks,
                     receiveTimeout, pending, lastSet, abandoned, published, restarts>>
    BY DEF NoEffect
<1>2. TypeOk /\ mailbox' \in Seq(Messages)
    BY <1>1, Taken DEF IInv
<1>3. \A types : InQueue(mailbox, types) =>
                    Message.type \in types \/ InQueue(mailbox', types)
    BY <1>1, <1>2, Taken
<1>4. Base' = Base /\ Top' = Top
    BY <1>1 DEF Base, Top
<1>5. /\ Top.name = "waitingInfo" => FALSE
      /\ Top.name = "awaitStorageControl" => FALSE
      /\ Top.name = "awaitPowerFlow" => Message.type = "Health"
      /\ Top.name = "holding" => Message.type \notin {"Set", "Tick"}
      /\ Top.name = "charging" => Message.type \notin {"Set", "Flow", "Tick"}
    BY <1>1 DEF WithoutEffect, In
<1>6. WaitIsBacked'
    BY <1>1, <1>3, <1>4, <1>5 DEF IInv, WaitIsBacked, In
<1>7. Base.name = "holding" => Message.type \notin {"Set", "Tick"}
    BY <1>5, StackShape DEF IInv, StashOnlyWhileWaiting, In, AwaitNames
<1>8. Base.name = "charging" => Message.type \notin {"Set", "Flow", "Tick"}
    BY <1>5, StackShape DEF IInv, StashOnlyWhileWaiting, In, AwaitNames
<1>9. LoopAlive'
    BY <1>1, <1>3, <1>4, <1>7, <1>8 DEF IInv, LoopAlive, Queued
<1>10. stash' # <<>> => Top.name \in AwaitNames \cup {"waitingInfo"}
    BY <1>1 DEF IInv, StashOnlyWhileWaiting
<1> QED
    BY <1>1, <1>2, <1>6, <1>9, <1>10, MoveInv DEF Unmoved, TypeOk

-----------------------------------------------------------------------------
(* One lemma per handler *)

\* The device information, or its failure, keeps the invariant.
LEMMA InfoInv ==
    ASSUME IInv, InfoReceived
    PROVE  IInv'
<1>1. mailbox # <<>> /\ Top.name = "waitingInfo" /\ TypeOk
    BY DEF InfoReceived, Receive, In, IInv
<1>2. CASE ~Message.ok /\ Fail
    BY <1>1, <1>2, FailInv
<1>3. CASE Message.ok /\ ~(~Message.ok /\ Fail)
    <2>1. /\ mailbox' = UnstashedAll(Tail(mailbox), stash) /\ stash' = <<>>
          /\ UNCHANGED <<targetSOC, ownTick, orphanTicks, receiveTimeout,
                         pending, lastSet, abandoned, restarts>>
        BY <1>3 DEF InfoReceived
    <2>2. mailbox' \in Seq(Messages) /\ stash' \in Seq(Messages)
        BY <1>1, <2>1, Taken, UnstashAll, EmptySeq DEF TypeOk
    <2>3. lastSet = NoSet \/ abandoned
        <3>1. Base.name = "waitingInfo"
            BY <1>1, StackShape DEF IInv, BaseNames
        <3> QED
            BY <3>1 DEF IInv, LastSetMatchesState, Controlling
    <2>4. CASE Message.devices
        <3>1. /\ stack' = Become(stack, Plain("idle")) /\ limited' = TRUE
              /\ published' = SwitchesOff(published)
            BY <1>3, <2>4 DEF InfoReceived
        <3>2. /\ stack' \in Seq(States) /\ stack' # <<>> /\ Len(stack') = 1
              /\ stack'[1] = Plain("idle")
            BY <3>1, BecomeOnly, StateTypes DEF BaseNames
        <3>3. Base'.name = "idle" /\ Top'.name = "idle"
            BY <3>2, StateTypes DEF Base, Top, BaseNames
        <3>4. published' \in Shown /\ ~published'.hold /\ ~published'.charge
              /\ published'.soc = targetSOC
            BY <1>1, <3>1 DEF TypeOk, SwitchesOff, Shown
        <3>5. TypeOk'
            BY <1>1, <2>1, <2>2, <3>1, <3>2, <3>4 DEF TypeOk, Shown
        <3>6. StashOnlyWhileWaiting'
            BY <2>1, <3>2, <3>3 DEF StashOnlyWhileWaiting, BaseNames
        <3>7. WaitIsBacked' /\ LoopAlive'
            BY <3>3 DEF WaitIsBacked, LoopAlive, In
        <3>8. SwitchesMatchState' /\ LastSetMatchesState'
            BY <2>1, <2>3, <3>1, <3>3, <3>4
               DEF SwitchesMatchState, LastSetMatchesState, Controlling
        <3> QED
            BY <3>5, <3>6, <3>7, <3>8 DEF IInv
    <2>5. CASE ~Message.devices
        <3>1. stack' = Become(stack, Plain("done"))
              /\ limited' = limited /\ published' = published
            BY <1>3, <2>5 DEF InfoReceived
        <3>2. /\ stack' \in Seq(States) /\ stack' # <<>> /\ Len(stack') = 1
              /\ stack'[1] = Plain("done")
            BY <3>1, BecomeOnly, StateTypes DEF BaseNames
        <3>3. Base'.name = "done" /\ Top'.name = "done"
            BY <3>2, StateTypes DEF Base, Top, BaseNames
        <3>4. TypeOk'
            BY <1>1, <2>1, <2>2, <3>1, <3>2 DEF TypeOk
        <3>5. StashOnlyWhileWaiting'
            BY <2>1, <3>2, <3>3 DEF StashOnlyWhileWaiting, BaseNames
        <3>6. WaitIsBacked' /\ LoopAlive' /\ SwitchesMatchState' /\ LastSetMatchesState'
            BY <2>1, <2>3, <3>3 DEF WaitIsBacked, LoopAlive, In, SwitchesMatchState,
                                    LastSetMatchesState, Controlling
        <3> QED
            BY <3>4, <3>5, <3>6 DEF IInv
    <2> QED
        BY <2>4, <2>5
<1> QED
    BY <1>2, <1>3 DEF InfoReceived

\* A command has the fields its handlers read.
LEMMA CommandTypes ==
    /\ \A m \in Messages : m.type = "SoC" => m.soc \in SoCs
    /\ \A m \in Messages : m.type \in {"Hold", "Charge"} => m.on \in BOOLEAN
    /\ \A m \in Messages : m.type \in {"Set", "Flow"} => m.ok \in BOOLEAN
BY DEF Messages, Commands, Responses

\* A new target of the charge keeps the invariant.
LEMMA TargetInv ==
    ASSUME IInv, SetTargetSoC
    PROVE  IInv'
<1>1. /\ mailbox # <<>> /\ Message.type = "SoC" /\ Top.name \in Served
      /\ targetSOC' = Message.soc
      /\ published' = [published EXCEPT !.soc = Message.soc]
      /\ mailbox' = Tail(mailbox)
      /\ UNCHANGED <<stack, stash, limited, ownTick, orphanTicks, receiveTimeout,
                     pending, lastSet, abandoned, restarts>>
    BY DEF SetTargetSoC, Receive, Served
<1>2. TypeOk /\ Message.soc \in SoCs /\ mailbox' \in Seq(Messages)
    BY <1>1, Taken, CommandTypes DEF IInv
<1>3. \A types : InQueue(mailbox, types) =>
                    Message.type \in types \/ InQueue(mailbox', types)
    BY <1>1, <1>2, Taken
<1>4. Base' = Base /\ Top' = Top
    BY <1>1 DEF Base, Top
<1>5. published' \in Shown /\ published'.soc = targetSOC'
      /\ published'.hold = published.hold /\ published'.charge = published.charge
    BY <1>1, <1>2 DEF TypeOk, Shown
<1>6. TypeOk'
    BY <1>1, <1>2, <1>5 DEF TypeOk, Shown
<1>7. StashOnlyWhileWaiting'
    BY <1>1, <1>4 DEF IInv, StashOnlyWhileWaiting, In
<1>8. WaitIsBacked' /\ LoopAlive'
    BY <1>1, <1>3, <1>4 DEF IInv, WaitIsBacked, LoopAlive, Queued, In
<1>9. SwitchesMatchState' /\ LastSetMatchesState'
    BY <1>1, <1>4, <1>5 DEF IInv, SwitchesMatchState, LastSetMatchesState, Controlling
<1> QED
    BY <1>6, <1>7, <1>8, <1>9 DEF IInv

\* The hold command in the idle state keeps the invariant.
LEMMA StartHoldingInv ==
    ASSUME IInv, StartHolding
    PROVE  IInv'
<1>1. /\ mailbox # <<>> /\ Top.name = "idle" /\ Top.name \in Served
      /\ EnterWithAction(Holding)
      /\ published' = [published EXCEPT !.hold = TRUE]
      /\ mailbox' = Tail(mailbox)
      /\ UNCHANGED <<stash, targetSOC, limited, ownTick, orphanTicks, restarts>>
    BY DEF StartHolding, Receive, In, Served
<1>2. Base.name = "idle" /\ TypeOk
    BY <1>1, AtBase DEF IInv
<1>3. ownTick' \in BOOLEAN
    BY <1>1, <1>2 DEF TypeOk
<1>4. published' \in Shown /\ published'.hold = TRUE /\ published'.charge = FALSE
      /\ published'.soc = targetSOC
    BY <1>1, <1>2 DEF IInv, TypeOk, SwitchesMatchState, Shown
<1> QED
    BY <1>1, <1>3, <1>4, EnterInv, StateTypes

\* The charge command, idle or holding, keeps the invariant.
LEMMA StartChargingInv ==
    ASSUME IInv, StartCharging
    PROVE  IInv'
<1> DEFINE s == Charging(In("holding"), -1)
<1>1. /\ mailbox # <<>> /\ Top.name \in {"idle", "holding"} /\ Top.name \in Served
      /\ EnterWithAction(s)
      /\ published' = [published EXCEPT !.charge = TRUE]
      /\ mailbox' = Tail(mailbox)
      /\ UNCHANGED <<stash, targetSOC, limited, orphanTicks, restarts>>
    BY DEF StartCharging, Receive, Served
<1>2. Top = Base /\ TypeOk
    BY <1>1, AtBase DEF IInv
<1>3. ownTick' \in BOOLEAN
    <2>1. CASE In("holding")
        BY <2>1 DEF StartCharging, CancelTick
    <2>2. CASE ~In("holding")
        BY <2>2, <1>2 DEF StartCharging, TypeOk
    <2> QED
        BY <2>1, <2>2
<1>4. In("holding") \in BOOLEAN /\ -1 \in ChargePowers
    BY ConstantsOk DEF In
<1>5. s \in States /\ s.name = "charging" /\ s.hold = In("holding")
    BY <1>4, StateTypes
<1>6. published.hold = In("holding") /\ published.soc = targetSOC
    <2>1. CASE Base.name = "idle"
        BY <2>1, <1>2 DEF IInv, SwitchesMatchState, In, TypeOk
    <2>2. CASE Base.name = "holding"
        BY <2>2, <1>2 DEF IInv, SwitchesMatchState, In, TypeOk
    <2> QED
        BY <1>1, <1>2, <2>1, <2>2
<1>7. published' \in Shown /\ published'.hold = s.hold /\ published'.charge = TRUE
      /\ published'.soc = targetSOC
    BY <1>1, <1>2, <1>5, <1>6 DEF TypeOk, Shown
<1> HIDE DEF s
<1> QED
    BY <1>1, <1>3, <1>5, <1>7, EnterInv

\* The end of holding keeps the invariant.
LEMMA StopHoldingInv ==
    ASSUME IInv, StopHolding
    PROVE  IInv'
<1>1. /\ mailbox # <<>> /\ Top.name \in Served
      /\ EnterIdleWithRelease
      /\ published' = SwitchesOff(published)
      /\ mailbox' = Tail(mailbox) /\ ownTick' \in BOOLEAN
      /\ UNCHANGED <<stash, targetSOC, limited, orphanTicks, restarts>>
    BY DEF StopHolding, Receive, In, Served, CancelTick
<1> QED
    BY <1>1, ReleaseInv

\* The hold switch of a charging actor keeps the invariant.
LEMMA HoldInv ==
    ASSUME IInv, HoldWhileCharging
    PROVE  IInv'
<1> DEFINE s == Charging(Message.on, Top.charge)
<1>1. /\ mailbox # <<>> /\ Top.name = "charging" /\ Top.name \in Served
      /\ Message.type = "Hold"
      /\ stack' = Become(stack, s)
      /\ published' = [published EXCEPT !.hold = Message.on]
      /\ mailbox' = Tail(mailbox)
      /\ UNCHANGED <<stash, targetSOC, limited, ownTick, orphanTicks, receiveTimeout,
                     pending, lastSet, abandoned, restarts>>
    BY DEF HoldWhileCharging, Receive, In, Served
<1>2. /\ Message \in Messages /\ Message.on \in BOOLEAN /\ TypeOk
      /\ Top = Base /\ Top \in States /\ stash = <<>> /\ mailbox' \in Seq(Messages)
    BY <1>1, Taken, CommandTypes, AtBase, StackShape DEF IInv
<1>3. \A types : InQueue(mailbox, types) =>
                    Message.type \in types \/ InQueue(mailbox', types)
    BY <1>1, <1>2, Taken
<1>4. Top.charge \in ChargePowers
    BY <1>2 DEF States
<1>5. s \in States /\ s.name = "charging" /\ s.hold = Message.on /\ s.charge = Top.charge
    BY <1>2, <1>4, StateTypes
<1> HIDE DEF s
<1>6. /\ stack' \in Seq(States) /\ stack' # <<>> /\ Len(stack') = 1
      /\ Base' = s /\ Top' = s
    <2>1. stack' \in Seq(States) /\ stack' # <<>> /\ Len(stack') = 1 /\ stack'[1] = s
        <3>1. stack' = Become(stack, s) /\ s \in States
            BY <1>1, <1>5
        <3> QED
            BY <3>1, BecomeOnly
    <2> QED
        BY <2>1 DEF Base, Top
<1>7. /\ published' \in Shown /\ published'.hold = Message.on
      /\ published'.charge = published.charge /\ published'.soc = published.soc
    BY <1>1, <1>2 DEF TypeOk, Shown
<1>8. TypeOk'
    BY <1>1, <1>2, <1>6, <1>7 DEF TypeOk, Shown
<1>9. StashOnlyWhileWaiting'
    BY <1>1, <1>2, <1>5, <1>6 DEF StashOnlyWhileWaiting, BaseNames
<1>10. WaitIsBacked' /\ LoopAlive'
    BY <1>1, <1>2, <1>3, <1>5, <1>6 DEF IInv, WaitIsBacked, LoopAlive, Queued, In
<1>11. SwitchesMatchState'
    BY <1>1, <1>2, <1>5, <1>6, <1>7 DEF IInv, SwitchesMatchState
<1>12. LastSetMatchesState'
    BY <1>1, <1>2, <1>5, <1>6 DEF IInv, LastSetMatchesState, Controlling, ParamsOf
<1> QED
    BY <1>8, <1>9, <1>10, <1>11, <1>12 DEF IInv

\* A control tick keeps the invariant: its request takes its place.
LEMMA ControlTickInv ==
    ASSUME IInv, ControlTick
    PROVE  IInv'
<1>1. /\ mailbox # <<>> /\ Top.name \in Served /\ mailbox' = Tail(mailbox)
      /\ UNCHANGED <<stash, targetSOC, limited, ownTick, orphanTicks, published, restarts>>
    BY DEF ControlTick, Receive, In, Served
<1>2. /\ TypeOk /\ Top = Base /\ Len(stack) = 1 /\ stash = <<>>
      /\ stack \in Seq(States) /\ Top \in States /\ mailbox' \in Seq(Messages)
    BY <1>1, Taken, AtBase, StackShape DEF IInv
<1>3. CASE /\ In("holding")
           /\ stack' = BecomeStacked(stack, Plain("awaitStorageControl"))
           /\ SendSet(ParamsOf(Top))
    <2>1. /\ pending' \in [Kinds -> Nat] /\ pending'["set"] > 0
          /\ lastSet' = ParamsOf(Top) /\ lastSet' \in Params \cup {NoSet}
          /\ abandoned' = FALSE
          /\ receiveTimeout' \in BOOLEAN
        BY <1>2, <1>3, SendSetFacts, StateTypes
    <2>2. /\ stack' \in Seq(States) /\ stack' # <<>> /\ Len(stack') = 2
          /\ stack'[1] = stack[1] /\ stack'[2] = Plain("awaitStorageControl")
        BY <1>2, <1>3, BecomeOnTop, StateTypes DEF AwaitNames
    <2>3. Base' = Base /\ Top'.name = "awaitStorageControl" /\ Base.name = "holding"
        BY <1>2, <1>3, <2>2, StateTypes DEF Base, Top, AwaitNames, In
    <2>4. TypeOk'
        BY <1>1, <1>2, <2>1, <2>2 DEF TypeOk
    <2>5. StashOnlyWhileWaiting'
        BY <1>1, <1>2, <2>2, <2>3 DEF StashOnlyWhileWaiting, In
    <2>6. WaitIsBacked' /\ LoopAlive'
        BY <2>1, <2>3 DEF WaitIsBacked, LoopAlive, In
    <2>7. SwitchesMatchState' /\ LastSetMatchesState'
        BY <1>1, <1>2, <2>1, <2>3
           DEF IInv, SwitchesMatchState, LastSetMatchesState, Controlling
    <2> QED
        BY <2>4, <2>5, <2>6, <2>7 DEF IInv
<1>4. CASE /\ In("charging")
           /\ stack' = BecomeStacked(stack, Plain("awaitPowerFlow"))
           /\ Ask("flow") /\ receiveTimeout' = TRUE
           /\ UNCHANGED <<lastSet, abandoned>>
    <2>1. pending' \in [Kinds -> Nat] /\ pending'["flow"] > 0
        BY <1>2, <1>4 DEF TypeOk, Ask, Kinds
    <2>2. /\ stack' \in Seq(States) /\ stack' # <<>> /\ Len(stack') = 2
          /\ stack'[1] = stack[1] /\ stack'[2] = Plain("awaitPowerFlow")
        BY <1>2, <1>4, BecomeOnTop, StateTypes DEF AwaitNames
    <2>3. Base' = Base /\ Top'.name = "awaitPowerFlow" /\ Base.name = "charging"
        <3>1. Base' = Base /\ Top' = Plain("awaitPowerFlow")
            BY <2>2 DEF Base, Top
        <3>2. Base.name = "charging"
            BY <1>2, <1>4 DEF In
        <3> QED
            BY <3>1, <3>2, StateTypes DEF AwaitNames
    <2>4. TypeOk'
        BY <1>1, <1>2, <1>4, <2>1, <2>2 DEF TypeOk
    <2>5. StashOnlyWhileWaiting'
        BY <1>1, <1>2, <2>2, <2>3 DEF StashOnlyWhileWaiting, In
    <2>6. WaitIsBacked' /\ LoopAlive'
        BY <2>1, <2>3 DEF WaitIsBacked, LoopAlive, In
    <2>7. SwitchesMatchState' /\ LastSetMatchesState'
        BY <1>1, <1>2, <1>4, <2>3
           DEF IInv, SwitchesMatchState, LastSetMatchesState, Controlling
    <2> QED
        BY <2>4, <2>5, <2>6, <2>7 DEF IInv
<1> QED
    BY <1>3, <1>4 DEF ControlTick

\* A set response keeps the invariant: the tick it schedules takes its place.
LEMMA ControlResponseInv ==
    ASSUME IInv, ControlResponse
    PROVE  IInv'
<1>1. mailbox # <<>> /\ Message.type = "Set" /\ Top.name \in Served
    BY DEF ControlResponse, Receive, Served
<1>2. /\ TypeOk /\ Top = Base /\ Len(stack) = 1 /\ stash = <<>> /\ Top \in States
      /\ Message \in Messages /\ Tail(mailbox) \in Seq(Messages) /\ Orphaned \in Nat
    BY <1>1, Taken, AtBase, StackShape, OrphanedType DEF IInv
<1>3. \A types : InQueue(mailbox, types) =>
                    Message.type \in types \/ InQueue(Tail(mailbox), types)
    BY <1>1, <1>2, Taken
<1>4. CASE ~Message.ok /\ Fail
    BY <1>1, <1>4, FailInv
<1>5. CASE Message.ok /\ ~(~Message.ok /\ Fail)
    <2>1. /\ receiveTimeout' = FALSE /\ mailbox' = Tail(mailbox)
          /\ UNCHANGED <<stash, targetSOC, limited, pending, lastSet, abandoned,
                         published, restarts>>
        BY <1>5 DEF ControlResponse
    <2>2. CASE In("idle")
        <3>1. UNCHANGED <<stack, ownTick, orphanTicks>>
            BY <1>5, <2>2 DEF ControlResponse
        <3>2. Base' = Base /\ Top' = Top /\ Top.name = "idle"
            BY <2>2, <3>1 DEF Base, Top, In
        <3>3. WaitIsBacked' /\ LoopAlive'
            BY <1>2, <3>2 DEF WaitIsBacked, LoopAlive, In
        <3> QED
            BY <1>2, <2>1, <3>1, <3>3, EmptySeq, MoveInv DEF Unmoved, TypeOk
    <2>3. CASE ~In("idle")
        <3>1. /\ stack' = Become(stack, Top) /\ ownTick' = TRUE /\ orphanTicks' = Orphaned
            BY <1>5, <2>3 DEF ControlResponse
        <3>2. /\ stack' \in Seq(States) /\ stack' # <<>> /\ Len(stack') = 1
              /\ Base' = Base /\ Top' = Top
            BY <1>2, <3>1, BecomeOnly DEF Base, Top
        <3>3. Top.name \in {"charging", "holding"}
            BY <1>1, <2>3 DEF Served, In
        <3>4. TypeOk'
            BY <1>2, <2>1, <3>1, <3>2 DEF TypeOk
        <3>5. StashOnlyWhileWaiting'
            BY <1>2, <2>1, <3>2, <3>3 DEF StashOnlyWhileWaiting, BaseNames
        <3>6. WaitIsBacked' /\ LoopAlive'
            BY <3>1, <3>2, <3>3 DEF WaitIsBacked, LoopAlive, In
        <3>7. SwitchesMatchState' /\ LastSetMatchesState'
            BY <2>1, <3>2 DEF IInv, SwitchesMatchState, LastSetMatchesState, Controlling
        <3> QED
            BY <3>4, <3>5, <3>6, <3>7 DEF IInv
    <2> QED
        BY <2>2, <2>3
<1> QED
    BY <1>4, <1>5 DEF ControlResponse

\* A power flow response while charging keeps the invariant.
LEMMA ControlLoopInv ==
    ASSUME IInv, ControlLoop
    PROVE  IInv'
<1>1. mailbox # <<>> /\ Top.name = "charging" /\ Top.name \in Served /\ In("charging")
    BY DEF ControlLoop, Receive, In, Served
<1>2. TypeOk /\ Top = Base /\ Top \in States
    BY <1>1, AtBase, StackShape DEF IInv
<1>3. CASE ~Message.ok /\ Fail
    BY <1>1, <1>3, FailInv
<1>4. CASE Message.ok /\ ~(~Message.ok /\ Fail)
    <2>1. PICK stateOfCharge \in SoCs, npv \in Powers :
             IF stateOfCharge >= targetSOC
             THEN ExitCharging
             ELSE /\ EnterWithAction(Charging(Top.hold, Adjusted(npv)))
                  /\ mailbox' = Tail(mailbox)
                  /\ UNCHANGED <<stash, targetSOC, limited, ownTick, orphanTicks,
                                 published, restarts>>
        BY <1>4 DEF ControlLoop
    <2>2. CASE stateOfCharge >= targetSOC
        BY <1>1, <2>1, <2>2, ExitChargingInv
    <2>3. CASE ~(stateOfCharge >= targetSOC)
        <3> DEFINE s == Charging(Top.hold, Adjusted(npv))
        <3>1. Top.hold \in BOOLEAN /\ Adjusted(npv) \in ChargePowers
            BY <1>2, ConstantsOk DEF States
        <3>2. s \in States /\ s.name = "charging" /\ s.hold = Top.hold
            BY <3>1, StateTypes
        <3>3. /\ EnterWithAction(s) /\ mailbox' = Tail(mailbox)
              /\ UNCHANGED <<stash, targetSOC, limited, ownTick, orphanTicks,
                             published, restarts>>
            BY <2>1, <2>3
        <3>4. /\ published' \in Shown /\ published'.hold = s.hold
              /\ published'.charge = TRUE /\ published'.soc = targetSOC
            BY <1>1, <1>2, <3>2, <3>3 DEF IInv, TypeOk, SwitchesMatchState, Shown
        <3>5. ownTick' \in BOOLEAN
            BY <1>2, <3>3 DEF TypeOk
        <3> HIDE DEF s
        <3> QED
            BY <1>1, <3>2, <3>3, <3>4, <3>5, EnterInv
    <2> QED
        BY <2>2, <2>3
<1> QED
    BY <1>3, <1>4 DEF ControlLoop

\* Leaving a waiting state, with the answer or with an error in its place.
LEMMA ResumeInv ==
    ASSUME IInv, mailbox # <<>>, NEW response \in Messages, Resume(response),
           receiveTimeout' \in BOOLEAN,
           \/ In("awaitStorageControl") /\ response.type = "Set"
           \/ In("awaitPowerFlow") /\ response.type = "Flow",
           Message.type \in {response.type, "ReceiveTimeout"}
    PROVE  IInv'
<1>1. TypeOk /\ Top.name \in AwaitNames
    BY DEF IInv, In, AwaitNames
<1>2. /\ stack' \in Seq(States) /\ stack' # <<>> /\ Len(stack') = 1
      /\ Base' = Base /\ Top' = Base
      /\ mailbox' \in Seq(Messages) /\ stash' = <<>>
      /\ \A types : InQueue(mailbox', types)
                      <=> \/ InQueue(Tail(mailbox), types)
                          \/ response.type \in types
                          \/ InQueue(stash, types)
    BY <1>1, ResumeFacts
<1>3. UNCHANGED <<targetSOC, limited, ownTick, orphanTicks, pending, lastSet, abandoned,
                  published, restarts>>
    BY DEF Resume
<1>4. Base.name \in {"idle", "holding", "charging"}
    <2>1. Len(stack) = 2
        BY <1>1, StackShape DEF IInv
    <2> QED
        BY <2>1 DEF IInv, StashOnlyWhileWaiting
<1>5. \A types : InQueue(mailbox, types) =>
                    Message.type \in types \/ InQueue(Tail(mailbox), types)
    BY <1>1, Taken
<1>6. TypeOk'
    BY <1>1, <1>2, <1>3, EmptySeq DEF TypeOk
<1>7. StashOnlyWhileWaiting'
    BY <1>2, <1>4 DEF StashOnlyWhileWaiting, BaseNames
<1>8. WaitIsBacked'
    BY <1>2, <1>4 DEF WaitIsBacked, In
<1>9. LoopAlive'
    <2>1. Base.name = "charging" => response.type = "Flow"
        BY <1>1, StackShape DEF IInv, StashOnlyWhileWaiting, In
    <2>2. Base.name = "holding" => response.type = "Set"
        BY <1>1, StackShape DEF IInv, StashOnlyWhileWaiting, In
    <2> QED
        BY <1>2, <2>1, <2>2 DEF LoopAlive, Queued
<1>10. SwitchesMatchState' /\ LastSetMatchesState'
    BY <1>2, <1>3 DEF IInv, SwitchesMatchState, LastSetMatchesState, Controlling
<1> QED
    BY <1>6, <1>7, <1>8, <1>9, <1>10 DEF IInv

\* The awaited response keeps the invariant: it is sent on to the state below.
LEMMA AwaitedInv ==
    ASSUME IInv, ResponseAwaited
    PROVE  IInv'
<1>1. /\ mailbox # <<>> /\ Resume(Message) /\ receiveTimeout' \in BOOLEAN
      /\ \/ In("awaitStorageControl") /\ Message.type = "Set"
         \/ In("awaitPowerFlow") /\ Message.type = "Flow"
    BY DEF ResponseAwaited, Receive
<1>2. Message \in Messages
    BY <1>1, Taken DEF IInv
<1> QED
    BY <1>1, <1>2, ResumeInv

\* The receive timeout of a wait keeps the invariant: an error takes the
\* place of the response.
LEMMA TimedOutInv ==
    ASSUME IInv, WaitTimedOut
    PROVE  IInv'
<1>1. mailbox # <<>> /\ Message.type = "ReceiveTimeout" /\ TypeOk
    BY DEF WaitTimedOut, Receive, IInv
<1>2. CASE /\ In("awaitStorageControl") /\ receiveTimeout' = FALSE
           /\ Resume([type |-> "Set", ok |-> FALSE])
    <2>1. [type |-> "Set", ok |-> FALSE] \in Messages
        BY DEF Messages, Responses
    <2> QED
        BY <1>1, <1>2, <2>1, ResumeInv
<1>3. CASE /\ In("awaitPowerFlow") /\ UNCHANGED receiveTimeout
           /\ Resume([type |-> "Flow", ok |-> FALSE])
    <2>1. [type |-> "Flow", ok |-> FALSE] \in Messages /\ receiveTimeout' \in BOOLEAN
        BY <1>1, <1>3 DEF Messages, Responses, TypeOk
    <2> QED
        BY <1>1, <1>3, <2>1, ResumeInv
<1> QED
    BY <1>2, <1>3 DEF WaitTimedOut

-----------------------------------------------------------------------------

\* Every step of the actor and of its surroundings keeps the invariant.
LEMMA NextInv ==
    ASSUME IInv, [Next]_vars
    PROVE  IInv'
<1>1. CASE Handle
    <2>1. ASSUME StopCharging PROVE IInv'
        BY <2>1, ExitChargingInv DEF StopCharging, Receive
    <2> QED
        BY <1>1, <2>1, InfoInv, TargetInv, StartHoldingInv, StartChargingInv,
           StopHoldingInv, HoldInv, ControlTickInv, ControlResponseInv,
           ControlLoopInv, AwaitedInv, TimedOutInv, StashInv, NoEffectInv
           DEF Handle
<1>2. CASE Environment
    BY <1>2, RequestInv, FutureInv, TickInv, TimeoutInv DEF Environment
<1>3. CASE UNCHANGED vars
    BY <1>3 DEF vars, IInv, TypeOk, StashOnlyWhileWaiting, WaitIsBacked, LoopAlive,
                SwitchesMatchState, LastSetMatchesState, Controlling, Base, Top, In, Queued
<1> QED
    BY <1>1, <1>2, <1>3 DEF Next

\* The invariant holds in every reachable state.
THEOREM Invariance == Spec => []IInv
<1>1. Init => IInv
    BY InitInv
<1>2. IInv /\ [Next]_vars => IInv'
    BY NextInv
<1> QED
    BY <1>1, <1>2, PTL DEF Spec

\* Every variable of the actor keeps its type, and every request to the
\* inverter has its parameters in range.
THEOREM TypeCorrect == Spec => []TypeOk
<1>1. IInv => TypeOk
    BY DEF IInv
<1> QED
    BY <1>1, Invariance, PTL

\* No message is left in the stash of a state that never hands it back.
THEOREM NothingStranded == Spec => []StashOnlyWhileWaiting
<1>1. IInv => StashOnlyWhileWaiting
    BY DEF IInv
<1> QED
    BY <1>1, Invariance, PTL

\* No waiting state waits for an answer that cannot come.
THEOREM NoHang == Spec => []WaitIsBacked
<1>1. IInv => WaitIsBacked
    BY DEF IInv
<1> QED
    BY <1>1, Invariance, PTL

\* The control loop of a held or charged battery is never lost.
THEOREM LoopNeverLost == Spec => []LoopAlive
<1>1. IInv => LoopAlive
    BY DEF IInv
<1> QED
    BY <1>1, Invariance, PTL

\* Home Assistant shows the state the actor is in.
THEOREM SwitchesTrue == Spec => []SwitchesMatchState
<1>1. IInv => SwitchesMatchState
    BY DEF IInv
<1> QED
    BY <1>1, Invariance, PTL

\* After a panic nothing is sent before the user asks for it: the states that send
\* of their own accord are those that hold or charge, and their last request is
\* not the failed instance's.
LEMMA OnlyAskedFor ==
    ASSUME IInv, [Next]_vars, abandoned, pending'["set"] > pending["set"]
    PROVE  Message.type \in {"Hold", "Charge"} /\ Message.on
<1>1. TypeOk /\ ~Controlling
    BY DEF IInv, LastSetMatchesState
<1>2. Top.name \notin {"holding", "charging"}
    BY <1>1, AtBase DEF Served, Controlling
<1>3. pending'["set"] # pending["set"] /\ pending' # pending
    BY <1>1 DEF TypeOk, Kinds
<1>4. ~Fail
    BY <1>1, <1>3 DEF Fail, Ask, TypeOk, Kinds
<1>5. CASE StartHolding \/ StartCharging
    BY <1>5 DEF StartHolding, StartCharging, Receive
<1>6. CASE StopHolding \/ StopCharging \/ HoldWhileCharging \/ ControlTick \/ ControlLoop
    BY <1>2, <1>6 DEF StopHolding, StopCharging, HoldWhileCharging, ControlTick,
                      ControlLoop, In
<1>7. CASE InfoReceived \/ SetTargetSoC \/ ControlResponse \/ StashMessage \/ NoEffect
    BY <1>3, <1>4, <1>7 DEF InfoReceived, SetTargetSoC, ControlResponse, StashMessage,
                            NoEffect
<1>8. CASE ResponseAwaited \/ WaitTimedOut
    BY <1>3, <1>8 DEF ResponseAwaited, WaitTimedOut, Resume
<1>9. CASE Environment
    <2>1. ASSUME NEW kind \in Kinds, FutureCompletes(kind) PROVE FALSE
        <3>1. pending' = [pending EXCEPT ![kind] = @ - 1] /\ pending \in [Kinds -> Nat]
            BY <1>1, <2>1 DEF FutureCompletes, TypeOk
        <3>2. pending'["set"] = pending["set"] \/ pending'["set"] = pending["set"] - 1
            BY <3>1 DEF Kinds
        <3>3. pending["set"] \in Nat
            BY <3>1 DEF Kinds
        <3> QED
            BY <3>2, <3>3
    <2> QED
        BY <1>3, <1>9, <2>1 DEF Environment, Request, TickFires, ReceiveTimeoutFires
<1>10. ~UNCHANGED vars
    BY <1>3 DEF vars
<1> QED
    BY <1>5, <1>6, <1>7, <1>8, <1>9, <1>10 DEF Next, Handle

\* CommandedMatchesState: the last request is the one of the state the actor is
\* in, with a panic as the only way to leave a command behind, and none that is
\* left behind is sent again: the next request is one that the user asks for.
THEOREM CommandedTrue == Spec => CommandedMatchesState
<1>1. IInv' => LastSetMatchesState'
    BY DEF IInv
<1>2. IInv /\ IInv' /\ [Next]_vars =>
        [/\ LastSetMatchesState'
         /\ abandoned /\ pending'["set"] > pending["set"] =>
               Message.type \in {"Hold", "Charge"} /\ Message.on]_vars
    BY <1>1, OnlyAskedFor
<1> QED
    BY <1>2, Invariance, PTL DEF Spec, CommandedMatchesState

-----------------------------------------------------------------------------
(* The refinement of StorageController *)

Failure == [type |-> "Set", ok |-> FALSE]
Bad(q) == \E i \in DOMAIN q : q[i] = Failure

\* What the invariant leaves open of the states below: holding never limits the
\* charge, and an instance that has nothing to do or is stopped has sent nothing.
AsEntered ==
    /\ Base.name = "holding" => Base.charge = -1
    /\ Base.name \in {"done", "stopped"} => Wanted = NoSet

\* A failure in a queue is neither lost nor made by moving messages.
LEMMA BadQueue ==
    /\ ~Bad(<<>>)
    /\ \A q \in Seq(Messages), m \in Messages : Bad(Append(q, m)) <=> Bad(q) \/ m = Failure
    /\ \A q \in Seq(Messages) : q # <<>> => (Bad(q) <=> Bad(Tail(q)) \/ Head(q) = Failure)
    /\ \A q \in Seq(Messages), st \in Seq(Messages) :
          Bad(UnstashedAll(q, st)) <=> Bad(q) \/ Bad(st)
<1> DEFINE F == {Failure}
<1>1. ASSUME NEW q \in Seq(Messages)
      PROVE  HowMany(q, F) \in Nat /\ (Bad(q) <=> HowMany(q, F) > 0)
    <2>1. HowMany(q, F) \in Nat /\ (HowMany(q, F) = 0 <=> \A i \in DOMAIN q : q[i] \notin F)
        BY HowManyNat
    <2> QED
        BY <2>1 DEF Bad
<1>2. ~Bad(<<>>) /\ \A m : m \in F <=> m = Failure
    BY DEF Bad
<1> HIDE DEF F
<1>3. ASSUME NEW q \in Seq(Messages), NEW m \in Messages
      PROVE  Bad(Append(q, m)) <=> Bad(q) \/ m = Failure
    <2>1. Append(q, m) \in Seq(Messages)
        BY AppendProperties
    <2>2. HowMany(Append(q, m), F) = HowMany(q, F) + (IF m \in F THEN 1 ELSE 0)
        BY HowManyAppend
    <2>3. /\ HowMany(q, F) \in Nat /\ (Bad(q) <=> HowMany(q, F) > 0)
          /\ Bad(Append(q, m)) <=> HowMany(Append(q, m), F) > 0
        BY <1>1, <2>1
    <2> QED
        BY <1>2, <2>2, <2>3
<1>4. ASSUME NEW q \in Seq(Messages), q # <<>>
      PROVE  Bad(q) <=> Bad(Tail(q)) \/ Head(q) = Failure
    <2>1. Tail(q) \in Seq(Messages)
        BY <1>4, HeadTailProperties
    <2>2. HowMany(q, F) = HowMany(Tail(q), F) + (IF Head(q) \in F THEN 1 ELSE 0)
        BY <1>4, HowManyTail
    <2>3. /\ HowMany(Tail(q), F) \in Nat /\ (Bad(Tail(q)) <=> HowMany(Tail(q), F) > 0)
          /\ Bad(q) <=> HowMany(q, F) > 0
        BY <1>1, <2>1
    <2> QED
        BY <1>2, <2>2, <2>3
<1>5. ASSUME NEW q \in Seq(Messages), NEW st \in Seq(Messages)
      PROVE  Bad(UnstashedAll(q, st)) <=> Bad(q) \/ Bad(st)
    <2>1. q \o st \in Seq(Messages)
        BY ConcatProperties
    <2>2. HowMany(q \o st, F) = HowMany(q, F) + HowMany(st, F)
        BY HowManyConcat
    <2>3. /\ HowMany(q, F) \in Nat /\ (Bad(q) <=> HowMany(q, F) > 0)
          /\ HowMany(st, F) \in Nat /\ (Bad(st) <=> HowMany(st, F) > 0)
          /\ Bad(q \o st) <=> HowMany(q \o st, F) > 0
        BY <1>1, <2>1
    <2> QED
        BY <2>2, <2>3 DEF UnstashedAll
<1> QED
    BY <1>2, <1>3, <1>4, <1>5

\* Upset is a failure in one of the queues.
LEMMA UpsetIs == /\ Upset <=> Bad(mailbox) \/ Bad(stash)
                 /\ Upset' <=> Bad(mailbox') \/ Bad(stash')
BY DEF Upset, Bad, Failure

\* Taking any other message leaves the failures where they are.
LEMMA OtherTaken ==
    ASSUME TypeOk, mailbox # <<>>, Message # Failure,
           mailbox' = Tail(mailbox), stash' = stash
    PROVE  Upset' = Upset
<1>1. mailbox \in Seq(Messages)
    BY DEF TypeOk
<1>2. Bad(mailbox) <=> Bad(mailbox')
    BY <1>1, BadQueue DEF Message
<1>3. Upset' <=> Upset
    BY <1>2, UpsetIs
<1> QED
    BY <1>3 DEF Upset

\* One more request.
LEMMA Asked ==
    ASSUME TypeOk, NEW params, SendSet(params)
    PROVE  pending'["set"] = pending["set"] + 1 /\ Wanted' = params
BY DEF TypeOk, SendSet, Ask, Kinds, Wanted

\* A step that leaves all four of what the controller tells alone.
LEMMA Stutters ==
    ASSUME AsEntered, Base' = Base, Wanted' = Wanted,
           pending'["set"] = pending["set"], Upset' = Upset
    PROVE  AsEntered' /\ UNCHANGED Controller!vars
BY DEF AsEntered, Controller!vars, Controlling

\* Entering holding or charging is a request to control.
LEMMA EnterControls ==
    ASSUME TypeOk, NEW s \in States, s.name \in {"holding", "charging"},
           s.name = "holding" => s.charge = -1,
           EnterWithAction(s), Upset' = Upset
    PROVE  AsEntered' /\ Controller!Next
<1> DEFINE C == {ParamsOf(Holding)} \cup {ParamsOf(Charging(FALSE, c)) : c \in ChargePowers}
<1>1. Base' = s
    BY EnterWithActionFacts
<1>2. pending'["set"] = pending["set"] + 1 /\ Wanted' = ParamsOf(s)
    BY Asked DEF EnterWithAction
<1>3. ParamsOf(s) \in C
    <2>1. CASE s.name = "holding"
        BY <2>1, StateTypes DEF ParamsOf
    <2>2. CASE s.name = "charging"
        <3>1. s.charge \in ChargePowers
            BY DEF States
        <3>2. ParamsOf(s) = ParamsOf(Charging(FALSE, s.charge))
            BY <2>2, <3>1, StateTypes DEF ParamsOf
        <3> QED
            BY <3>1, <3>2
    <2> QED
        BY <2>1, <2>2
<1>4. Controlling'
    BY <1>1 DEF Controlling
<1>5. Controller!Control(ParamsOf(s))
    BY <1>1, <1>2, <1>4 DEF Controller!Control, Controlling
<1>6. AsEntered'
    BY <1>1 DEF AsEntered
<1> QED
    BY <1>3, <1>5, <1>6 DEF Controller!Next

\* Returning to idle releases the battery.
LEMMA ReleaseLeaves ==
    ASSUME TypeOk, Controlling, EnterIdleWithRelease, Upset' = Upset
    PROVE  AsEntered' /\ Controller!Next
<1>1. Base' = Plain("idle")
    BY EnterIdleFacts
<1>2. Base'.name = "idle"
    BY <1>1, StateTypes DEF BaseNames
<1>3. pending'["set"] = pending["set"] + 1 /\ Wanted' = Release
    BY Asked DEF EnterIdleWithRelease
<1>4. Controlling' = FALSE
    BY <1>2 DEF Controlling
<1>5. Controller!Leave
    BY <1>1, <1>3, <1>4 DEF Controller!Leave
<1>6. AsEntered'
    BY <1>2 DEF AsEntered
<1> QED
    BY <1>5, <1>6 DEF Controller!Next

\* A panic is a failure of the controller.
LEMMA FailFails ==
    ASSUME TypeOk, Fail
    PROVE  AsEntered' /\ Controller!Next
<1>1. Wanted' = NoSet
    BY DEF Fail, Wanted
<1>2. Base' \in {Plain("waitingInfo"), Plain("stopped")}
    BY DEF Fail, Base
<1>3. Base'.name \in {"waitingInfo", "stopped"}
    BY <1>2, StateTypes DEF BaseNames
<1>4. pending'["set"] = pending["set"]
    BY DEF Fail, Ask, TypeOk, Kinds
<1>5. Controlling' = FALSE
    BY <1>3 DEF Controlling
<1>6. Upset' \in BOOLEAN
    BY DEF Upset
<1>7. Controller!Fail
    BY <1>1, <1>4, <1>5, <1>6 DEF Controller!Fail
<1>8. AsEntered'
    BY <1>1, <1>3 DEF AsEntered
<1> QED
    BY <1>7, <1>8 DEF Controller!Next

\* Charging.Exit goes on to hold or releases the battery.
LEMMA ExitLeaves ==
    ASSUME IInv, AsEntered, In("charging"), ExitCharging, Upset' = Upset
    PROVE  AsEntered' /\ Controller!Next
<1>1. TypeOk /\ Top = Base /\ Top.name = "charging"
    BY AtBase DEF IInv, In, Served
<1>2. CASE Top.hold
    BY <1>1, <1>2, EnterControls, StateTypes DEF ExitCharging
<1>3. CASE ~Top.hold
    <2>1. Controlling
        BY <1>1 DEF Controlling
    <2> QED
        BY <1>1, <1>3, <2>1, ReleaseLeaves DEF ExitCharging
<1> QED
    BY <1>2, <1>3

Followed == AsEntered' /\ [Controller!Next]_Controller!vars

\* Each handler is a step of the controller, or none.
LEMMA HandlersFollow ==
    ASSUME IInv, AsEntered, mailbox # <<>>,
           \/ InfoReceived \/ SetTargetSoC \/ StartHolding \/ StartCharging \/ StopHolding
           \/ StopCharging \/ HoldWhileCharging \/ ControlTick \/ ControlResponse
           \/ ControlLoop
    PROVE  Followed
<1>1. /\ TypeOk /\ Message \in Messages
      /\ Message.type \in {"Set", "Flow"} => Message.ok \in BOOLEAN
      /\ mailbox \in Seq(Messages) /\ stash \in Seq(Messages)
    BY Taken, CommandTypes DEF IInv, TypeOk
<1>2. Message.type # "Set" \/ Message.ok = TRUE => Message # Failure
    BY DEF Failure
<1>3. CASE InfoReceived
    <2>1. Base.name = "waitingInfo" /\ Message.type = "Info"
        <3>1. Top.name = "waitingInfo"
            BY <1>3 DEF InfoReceived, In
        <3>2. Top.name \notin AwaitNames
            BY <3>1 DEF AwaitNames
        <3> QED
            BY <1>3, <3>1, <3>2, StackShape DEF IInv, InfoReceived, Receive
    <2>2. CASE ~Message.ok /\ Fail
        BY <1>1, <2>2, FailFails DEF Followed
    <2>3. CASE ~(~Message.ok /\ Fail)
        <3>1. /\ \/ stack' = Become(stack, Plain("idle"))
                 \/ stack' = Become(stack, Plain("done"))
              /\ mailbox' = UnstashedAll(Tail(mailbox), stash) /\ stash' = <<>>
              /\ pending' = pending /\ Wanted' = Wanted
            BY <1>3, <2>3 DEF InfoReceived, Wanted
        <3>2. Base'.name \in {"idle", "done"}
            BY <3>1, StateTypes DEF Base, Become, BaseNames
        <3>3. Wanted = NoSet
            BY <2>1 DEF IInv, LastSetMatchesState, Wanted
        <3>4. Controlling = FALSE /\ Controlling' = FALSE
            BY <2>1, <3>2 DEF Controlling
        <3>5. Upset' = Upset
            <4>1. Tail(mailbox) \in Seq(Messages)
                BY <1>1, Taken
            <4>2. Bad(mailbox') <=> Bad(Tail(mailbox)) \/ Bad(stash)
                BY <1>1, <3>1, <4>1, BadQueue
            <4>3. Bad(mailbox) <=> Bad(Tail(mailbox))
                BY <1>1, <1>2, <2>1, BadQueue DEF Message
            <4>4. ~Bad(stash')
                BY <3>1, BadQueue
            <4>5. Upset' <=> Upset
                BY <4>2, <4>3, <4>4, UpsetIs
            <4> QED
                BY <4>5 DEF Upset
        <3> QED
            BY <3>1, <3>2, <3>3, <3>4, <3>5 DEF Followed, AsEntered, Controller!vars
    <2> QED
        BY <2>2, <2>3
<1>4. CASE SetTargetSoC
    <2>1. Upset' = Upset
        BY <1>1, <1>2, <1>4, OtherTaken DEF SetTargetSoC, Receive
    <2>2. Base' = Base /\ Wanted' = Wanted /\ pending'["set"] = pending["set"]
        BY <1>4 DEF SetTargetSoC, Base, Wanted
    <2> QED
        BY <2>1, <2>2, Stutters DEF Followed
<1>5. CASE StartHolding
    <2>1. Upset' = Upset
        BY <1>1, <1>2, <1>5, OtherTaken DEF StartHolding, Receive
    <2> QED
        BY <1>1, <1>5, <2>1, EnterControls, StateTypes DEF StartHolding, Followed
<1>6. CASE StartCharging
    <2> DEFINE s == Charging(In("holding"), -1)
    <2>1. Upset' = Upset
        BY <1>1, <1>2, <1>6, OtherTaken DEF StartCharging, Receive
    <2>2. s \in States /\ s.name = "charging"
        <3>1. In("holding") \in BOOLEAN
            BY DEF In
        <3> QED
            BY <3>1, ConstantsOk, StateTypes
    <2>3. EnterWithAction(s)
        BY <1>6 DEF StartCharging
    <2> HIDE DEF s
    <2> QED
        BY <1>1, <2>1, <2>2, <2>3, EnterControls DEF Followed
<1>7. CASE StopHolding
    <2>1. Upset' = Upset
        BY <1>1, <1>2, <1>7, OtherTaken DEF StopHolding, Receive
    <2>2. Controlling
        BY <1>7, AtBase DEF StopHolding, In, Served, Controlling
    <2> QED
        BY <1>1, <1>7, <2>1, <2>2, ReleaseLeaves DEF StopHolding, Followed
<1>8. CASE StopCharging
    <2>1. Upset' = Upset
        BY <1>1, <1>2, <1>8, OtherTaken DEF StopCharging, ExitCharging, Receive
    <2> QED
        BY <1>8, <2>1, ExitLeaves DEF StopCharging, Followed
<1>9. CASE HoldWhileCharging
    <2> DEFINE s == Charging(Message.on, Top.charge)
    <2>1. Upset' = Upset
        BY <1>1, <1>2, <1>9, OtherTaken DEF HoldWhileCharging, Receive
    <2>2. Base.name = "charging"
        BY <1>9, AtBase DEF HoldWhileCharging, In, Served
    <2>3. Base'.name = "charging"
        <3>1. stack' = <<s>>
            BY <1>9 DEF HoldWhileCharging, Become
        <3>2. Base' = s
            BY <3>1 DEF Base
        <3> QED
            BY <3>2 DEF Charging, State
    <2>4. Wanted' = Wanted /\ pending'["set"] = pending["set"]
        BY <1>9 DEF HoldWhileCharging, Wanted
    <2>5. Controlling = TRUE /\ Controlling' = TRUE
        BY <2>2, <2>3 DEF Controlling
    <2> QED
        BY <2>1, <2>3, <2>4, <2>5 DEF Followed, AsEntered, Controller!vars
<1>10. CASE ControlTick
    <2>1. Upset' = Upset
        BY <1>1, <1>2, <1>10, OtherTaken DEF ControlTick, Receive
    <2>2. Top = Base /\ Len(stack) = 1 /\ stack \in Seq(States) /\ Base \in States
        BY <1>10, AtBase, StackShape DEF ControlTick, In, Served, IInv
    <2>3. Base' = Base
        <3>1. \A n \in AwaitNames : BecomeStacked(stack, Plain(n))[1] = stack[1]
            BY <2>2, BecomeOnTop, StateTypes
        <3> QED
            BY <1>10, <3>1 DEF ControlTick, AwaitNames, Base
    <2>4. CASE In("holding") /\ SendSet(ParamsOf(Top))
        <3>1. Base.name = "holding" /\ Controlling = TRUE /\ Controlling' = TRUE
            BY <2>2, <2>3, <2>4 DEF In, Controlling
        <3>2. ParamsOf(Top) = ParamsOf(Holding)
            BY <2>2, <3>1, StateTypes DEF AsEntered, ParamsOf
        <3>3. Wanted' = ParamsOf(Top) /\ pending'["set"] = pending["set"] + 1
            BY <1>1, <2>4, Asked
        <3>4. Controller!Control(ParamsOf(Holding))
            BY <2>1, <3>1, <3>2, <3>3 DEF Controller!Control
        <3>5. AsEntered'
            BY <2>3, <3>1 DEF AsEntered
        <3> QED
            BY <3>4, <3>5 DEF Controller!Next, Followed
    <2>5. CASE Ask("flow") /\ UNCHANGED <<lastSet, abandoned>>
        <3>1. pending'["set"] = pending["set"] /\ Wanted' = Wanted
            BY <1>1, <2>5 DEF TypeOk, Ask, Kinds, Wanted
        <3> QED
            BY <2>1, <2>3, <2>5, <3>1, Stutters DEF Followed
    <2> QED
        BY <1>10, <2>4, <2>5 DEF ControlTick
<1>11. CASE ControlResponse
    <2>1. CASE ~Message.ok /\ Fail
        BY <1>1, <2>1, FailFails DEF Followed
    <2>2. CASE Message.ok /\ ~(~Message.ok /\ Fail)
        <3>1. /\ mailbox' = Tail(mailbox) /\ stash' = stash
              /\ Wanted' = Wanted /\ pending'["set"] = pending["set"]
            BY <1>11, <2>2 DEF ControlResponse, Wanted
        <3>2. Upset' = Upset
            <4>1. Message.ok = TRUE
                BY <1>1, <1>11, <2>2 DEF ControlResponse, Receive
            <4> QED
                BY <1>1, <1>2, <3>1, <4>1, OtherTaken
        <3>3. Base' = Base
            <4>1. Top = Base
                BY <1>11, AtBase DEF ControlResponse, Served
            <4>2. stack' = stack \/ stack' = <<Top>>
                BY <1>11, <2>2 DEF ControlResponse, Become
            <4> QED
                BY <4>1, <4>2 DEF Base
        <3> QED
            BY <3>1, <3>2, <3>3, Stutters DEF Followed
    <2> QED
        BY <1>11, <2>1, <2>2 DEF ControlResponse
<1>12. CASE ControlLoop
    <2>1. CASE ~Message.ok /\ Fail
        BY <1>1, <2>1, FailFails DEF Followed
    <2>2. CASE Message.ok /\ ~(~Message.ok /\ Fail)
        <3>1. PICK stateOfCharge \in SoCs, npv \in Powers :
                 IF stateOfCharge >= targetSOC
                 THEN ExitCharging
                 ELSE /\ EnterWithAction(Charging(Top.hold, Adjusted(npv)))
                      /\ mailbox' = Tail(mailbox)
                      /\ UNCHANGED <<stash, targetSOC, limited, ownTick, orphanTicks,
                                     published, restarts>>
            BY <1>12, <2>2 DEF ControlLoop
        <3>2. mailbox' = Tail(mailbox) /\ stash' = stash
            BY <3>1 DEF ExitCharging
        <3>3. Upset' = Upset
            BY <1>1, <1>2, <1>12, <3>2, OtherTaken DEF ControlLoop, Receive
        <3>4. CASE ExitCharging
            BY <1>12, <3>3, <3>4, ExitLeaves DEF ControlLoop, Followed
        <3>5. CASE EnterWithAction(Charging(Top.hold, Adjusted(npv)))
            <4> DEFINE s == Charging(Top.hold, Adjusted(npv))
            <4>1. Top.hold \in BOOLEAN /\ Adjusted(npv) \in ChargePowers
                BY StackShape, ConstantsOk DEF IInv, States
            <4>2. s \in States /\ s.name = "charging" /\ EnterWithAction(s)
                BY <3>5, <4>1, StateTypes
            <4> HIDE DEF s
            <4> QED
                BY <1>1, <3>3, <4>2, EnterControls DEF Followed
        <3> QED
            BY <3>1, <3>4, <3>5
    <2> QED
        BY <1>12, <2>1, <2>2 DEF ControlLoop
<1> QED
    BY <1>3, <1>4, <1>5, <1>6, <1>7, <1>8, <1>9, <1>10, <1>11, <1>12

\* A waiting state is left with the answer it got, or with a failure of its own
\* making.
LEMMA ResumeFollows ==
    ASSUME IInv, AsEntered, ResponseAwaited \/ WaitTimedOut
    PROVE  Followed
<1>1. PICK response \in Messages :
         /\ Resume(response) /\ mailbox # <<>> /\ Top.name \in AwaitNames
         /\ \/ response = Message
            \/ response = Failure /\ Message.type = "ReceiveTimeout"
            \/ response.type # "Set" /\ Message.type = "ReceiveTimeout"
    <2>1. CASE ResponseAwaited
        <3>1. mailbox # <<>> /\ Resume(Message) /\ Top.name \in AwaitNames
            BY <2>1 DEF ResponseAwaited, Receive, In, AwaitNames
        <3> QED
            BY <3>1, Taken DEF IInv
    <2>2. CASE WaitTimedOut
        <3>1. Failure \in Messages /\ [type |-> "Flow", ok |-> FALSE] \in Messages
            BY DEF Failure, Messages, Responses
        <3> QED
            BY <2>2, <3>1 DEF WaitTimedOut, Receive, In, AwaitNames, Failure
    <2> QED
        BY <2>1, <2>2
<1>2. /\ mailbox \in Seq(Messages) /\ stash \in Seq(Messages) /\ Tail(mailbox) \in Seq(Messages)
      /\ Append(Tail(mailbox), response) \in Seq(Messages)
    <2>1. mailbox \in Seq(Messages) /\ stash \in Seq(Messages) /\ Tail(mailbox) \in Seq(Messages)
        BY <1>1, Taken DEF IInv, TypeOk
    <2> QED
        BY <2>1, AppendProperties
<1>3. Base' = Base /\ Wanted' = Wanted /\ pending' = pending /\ stash' = <<>>
    BY <1>1, ResumeFacts DEF Resume, Wanted
<1>4. Bad(mailbox') <=> Bad(Tail(mailbox)) \/ response = Failure \/ Bad(stash)
    <2>1. Bad(Append(Tail(mailbox), response)) <=> Bad(Tail(mailbox)) \/ response = Failure
        BY <1>2, BadQueue
    <2>2. mailbox' = UnstashedAll(Append(Tail(mailbox), response), stash)
        BY <1>1 DEF Resume
    <2> QED
        BY <1>2, <2>1, <2>2, BadQueue
<1>5. Bad(mailbox) <=> Bad(Tail(mailbox)) \/ Message = Failure
    BY <1>1, <1>2, BadQueue DEF Message
<1>6. ~Bad(stash')
    BY <1>3, BadQueue
<1>7. Upset' <=> Upset \/ response = Failure
    <2>1. Message.type = "ReceiveTimeout" => Message # Failure
        BY DEF Failure
    <2>2. response.type # "Set" => response # Failure
        BY DEF Failure
    <2> QED
        BY <1>1, <1>4, <1>5, <1>6, <2>1, <2>2, UpsetIs
<1>8. CASE response = Failure
    <2>1. Upset' = TRUE
        BY <1>7, <1>8 DEF Upset
    <2>2. Controller!GiveUp /\ AsEntered'
        BY <1>3, <2>1 DEF Controller!GiveUp, Controlling, AsEntered
    <2> QED
        BY <2>2 DEF Controller!Next, Followed
<1>9. CASE response # Failure
    <2>1. Upset' = Upset
        BY <1>7, <1>9 DEF Upset
    <2> QED
        BY <1>3, <2>1, Stutters DEF Followed
<1> QED
    BY <1>8, <1>9

\* A failure put aside is still to be read; an actor with nothing to do drops it.
LEMMA DroppedFollows ==
    ASSUME IInv, AsEntered, StashMessage \/ NoEffect
    PROVE  Followed
<1>1. /\ TypeOk /\ mailbox # <<>> /\ Message \in Messages
      /\ mailbox \in Seq(Messages) /\ stash \in Seq(Messages)
      /\ mailbox' = Tail(mailbox) /\ UNCHANGED <<stack, lastSet, abandoned, pending>>
    BY Taken DEF IInv, TypeOk, StashMessage, NoEffect
<1>2. Base' = Base /\ Wanted' = Wanted /\ pending'["set"] = pending["set"]
    BY <1>1 DEF Base, Wanted
<1>3. Bad(mailbox) <=> Bad(mailbox') \/ Message = Failure
    BY <1>1, BadQueue DEF Message
<1>4. CASE StashMessage
    <2>1. Bad(stash') <=> Bad(stash) \/ Message = Failure
        BY <1>1, <1>4, BadQueue DEF StashMessage, Stashed
    <2>2. Upset' = Upset
        <3>1. Upset' <=> Upset
            BY <1>3, <2>1, UpsetIs
        <3> QED
            BY <3>1 DEF Upset
    <2> QED
        BY <1>2, <2>2, Stutters DEF Followed
<1>5. CASE NoEffect /\ Message # Failure
    <2>1. Upset' = Upset
        BY <1>1, <1>5, OtherTaken DEF NoEffect
    <2> QED
        BY <1>2, <2>1, Stutters DEF Followed
<1>6. CASE NoEffect /\ Message = Failure
    <2>1. Top.name = "done"
        BY <1>6 DEF NoEffect, WithoutEffect, In, Failure
    <2>2. Base.name = "done"
        BY <2>1, AtBase
    <2>3. Wanted = NoSet
        BY <2>2 DEF AsEntered
    <2>4. Upset' \in BOOLEAN /\ Upset \in BOOLEAN
        BY DEF Upset
    <2>5. Upset
        BY <1>3, <1>6, UpsetIs
    <2>6. CASE Upset'
        BY <1>2, <2>4, <2>5, <2>6, Stutters DEF Followed
    <2>7. CASE ~Upset'
        <3>1. Controller!Ignore /\ AsEntered'
            BY <1>1, <1>2, <2>3, <2>4, <2>7 DEF Controller!Ignore, AsEntered, Controlling
        <3> QED
            BY <3>1 DEF Controller!Next, Followed
    <2> QED
        BY <2>6, <2>7
<1> QED
    BY <1>4, <1>5, <1>6

\* A request to the Modbus actor completes; everything else that arrives says
\* nothing of the requests.
LEMMA EnvironmentFollows ==
    ASSUME IInv, AsEntered, Environment
    PROVE  Followed
<1>1. /\ TypeOk /\ mailbox \in Seq(Messages) /\ pending \in [Kinds -> Nat]
    BY DEF IInv, TypeOk
<1>2. UNCHANGED <<stack, stash>> /\ Base' = Base /\ Wanted' = Wanted
    BY DEF Environment, Request, FutureCompletes, TickFires, ReceiveTimeoutFires,
           Base, Wanted
<1>3. ASSUME NEW m \in Messages, Deliver(m)
      PROVE  Upset' <=> Upset \/ m = Failure
    <2>1. Bad(mailbox') <=> Bad(mailbox) \/ m = Failure
        BY <1>1, <1>3, BadQueue DEF Deliver
    <2> QED
        BY <1>2, <2>1, UpsetIs
<1>4. ASSUME NEW m \in Messages, m # Failure, Deliver(m), pending'["set"] = pending["set"]
      PROVE  Followed
    <2>1. Upset' = Upset
        BY <1>3, <1>4 DEF Upset
    <2> QED
        BY <1>2, <1>4, <2>1, Stutters DEF Followed
<1>5. ASSUME NEW kind \in Kinds, FutureCompletes(kind)
      PROVE  Followed
    <2>1. PICK m \in Outcomes(kind) : Deliver(m)
        BY <1>5 DEF FutureCompletes
    <2>2. m \in Messages
        BY OutcomeTypes
    <2>3. CASE kind # "set"
        <3>1. m # Failure
            BY <2>3, OutcomeTypes DEF Failure, Kinds
        <3>2. pending'["set"] = pending["set"]
            BY <1>1, <1>5, <2>3 DEF FutureCompletes, Kinds
        <3> QED
            BY <1>4, <2>1, <2>2, <3>1, <3>2
    <2>4. CASE kind = "set"
        <3>1. m = [type |-> "Set", ok |-> m.ok] /\ m.ok \in BOOLEAN
            BY <2>4 DEF Outcomes
        <3>2. /\ pending["set"] > 0 /\ pending'["set"] = pending["set"] - 1
            BY <1>1, <1>5, <2>4 DEF FutureCompletes, Kinds
        <3>3. m = Failure <=> ~m.ok
            BY <3>1 DEF Failure
        <3>4. Upset' = (Upset \/ ~m.ok)
            BY <1>3, <2>1, <2>2, <3>3 DEF Upset
        <3>5. Controller!Complete(m.ok) /\ AsEntered'
            BY <1>2, <3>2, <3>4 DEF Controller!Complete, Controlling, AsEntered
        <3> QED
            BY <3>1, <3>5 DEF Controller!Next, Followed
    <2> QED
        BY <2>3, <2>4
<1>6. ASSUME NEW m \in Commands \cup {[type |-> "Health"]}, Request(m)
      PROVE  Followed
    <2>1. m \in Messages /\ m # Failure
        BY DEF Messages, Commands, Failure
    <2> QED
        BY <1>4, <1>6, <2>1 DEF Request
<1>7. CASE TickFires
    <2>1. [type |-> "Tick"] \in Messages /\ [type |-> "Tick"] # Failure
        BY DEF Messages, Failure
    <2> QED
        BY <1>4, <1>7, <2>1 DEF TickFires
<1>8. CASE ReceiveTimeoutFires
    <2>1. [type |-> "ReceiveTimeout"] \in Messages /\ [type |-> "ReceiveTimeout"] # Failure
        BY DEF Messages, Failure
    <2> QED
        BY <1>4, <1>8, <2>1 DEF ReceiveTimeoutFires
<1> QED
    BY <1>5, <1>6, <1>7, <1>8 DEF Environment

\* Every step is a step of the controller, or none.
LEMMA NextFollows ==
    ASSUME IInv, AsEntered, [Next]_vars
    PROVE  Followed
<1>1. CASE Handle
    <2>1. mailbox # <<>>
        BY <1>1 DEF Handle, InfoReceived, SetTargetSoC, StartHolding, StartCharging,
                    StopHolding, StopCharging, HoldWhileCharging, ControlTick,
                    ControlResponse, ControlLoop, ResponseAwaited, WaitTimedOut,
                    StashMessage, NoEffect, Receive
    <2> QED
        BY <1>1, <2>1, HandlersFollow, ResumeFollows, DroppedFollows DEF Handle
<1>2. CASE Environment
    BY <1>2, EnvironmentFollows
<1>3. CASE UNCHANGED vars
    <2>1. /\ Base' = Base /\ Wanted' = Wanted /\ pending'["set"] = pending["set"]
          /\ Upset' = Upset
        BY <1>3 DEF vars, Base, Upset, Wanted
    <2> QED
        BY <2>1, Stutters DEF Followed
<1> QED
    BY <1>1, <1>2, <1>3 DEF Next

\* ImplementsController: seen from its requests to the inverter the actor is a
\* StorageController: what holds or charges the battery is what was asked for
\* last, and a failed request is never ignored by a state that goes on.
THEOREM ControlsByRequests == Spec => ImplementsController
<1>1. Init => AsEntered /\ Controller!Init
    <2> SUFFICES ASSUME Init PROVE AsEntered /\ Controller!Init
        OBVIOUS
    <2>1. Base.name = "waitingInfo" /\ Wanted = NoSet /\ pending["set"] = 0
        BY StateTypes DEF Init, Base, BaseNames, Kinds, Wanted
    <2>2. ~Upset
        BY UpsetIs, BadQueue DEF Init
    <2>3. Controlling = FALSE /\ Upset = FALSE
        BY <2>1, <2>2 DEF Controlling, Upset
    <2> QED
        BY <2>1, <2>3 DEF AsEntered, Controller!Init
<1>2. IInv /\ AsEntered /\ [Next]_vars => AsEntered' /\ [Controller!Next]_Controller!vars
    BY NextFollows DEF Followed
<1> QED
    BY <1>1, <1>2, Invariance, PTL DEF Spec, ImplementsController, Controller!Spec

\* What the actor asks for is what BatterySystem assumes of it (ControlsAssumption):
\* a power to charge at that is not negative, a discharge of zero, or neither.
THEOREM ControlsAsAssumed ==
    {ParamsOf(Holding)} \cup {ParamsOf(Charging(FALSE, c)) : c \in ChargePowers} \cup {Release}
        \subseteq [charge : Nat \cup {-1}, discharge : {-1, 0}]
<1>1. ChargePowers \subseteq Nat \cup {-1}
    <2> SUFFICES ASSUME NEW p \in Powers, p >= 0 PROVE p \in Nat
        BY DEF ChargePowers
    <2> QED
        BY PowersAssumption
<1>2. ASSUME NEW s, s.charge \in Nat \cup {-1}
      PROVE  ParamsOf(s) \in [charge : Nat \cup {-1}, discharge : {-1, 0}]
    BY <1>2 DEF ParamsOf
<1>3. Holding.charge = -1 /\ \A c : Charging(FALSE, c).charge = c
    BY DEF Holding, Charging, State
<1>4. Release \in [charge : Nat \cup {-1}, discharge : {-1, 0}]
    BY DEF Release
<1>5. ParamsOf(Holding) \in [charge : Nat \cup {-1}, discharge : {-1, 0}]
    BY <1>2, <1>3
<1>6. ASSUME NEW c \in ChargePowers
      PROVE  ParamsOf(Charging(FALSE, c)) \in [charge : Nat \cup {-1}, discharge : {-1, 0}]
    <2>1. Charging(FALSE, c).charge \in Nat \cup {-1}
        BY <1>1, <1>3
    <2> QED
        BY <1>2, <2>1
<1> QED
    BY <1>4, <1>5, <1>6
=============================================================================
