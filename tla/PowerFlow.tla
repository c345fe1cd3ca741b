----------------------------- MODULE PowerFlow -----------------------------
(***************************************************************************)
(* PowerFlowActor (internal/core/actor/powerflow.go): on every tick it     *)
(* asks the Modbus actor for the power flow and waits for the answer; on   *)
(* every third tick it also asks for the states of the inverter and of the *)
(* battery, whose answers come whenever they come.  What it reads it sends *)
(* to the MQTT actor, which is left out.                                   *)
(*                                                                         *)
(* The answers are those of the Modbus actor, or an error when it fails or *)
(* takes longer than a second.                                             *)
(***************************************************************************)
EXTENDS ActorUtil, Sensors, FiniteSets

CONSTANTS
    HealthRequests,   \* of the master, each with a sender to answer
    MaxUnread         \* bound: answers not read yet when a tick comes

ASSUME UnreadAssumption == MaxUnread \in Nat \ {0}

VARIABLES
    devices,            \* what is connected, which only an answer tells
    stack,
    mailbox,
    stash,
    hasStorage,
    currentStateCount,  \* ticks since the states were asked for
    timers,             \* ticks to come
    pending,            \* requests without an answer, by kind
    sent,
    replies

vars == <<devices, stack, mailbox, stash, hasStorage, currentStateCount,
          timers, pending, sent, replies>>

StateCount == 2

Kinds == {"info", "flow", "inverter", "storage"}
Messages ==
    [type : {"Tick"}] \cup [type : {"Health"}, id : HealthRequests]
      \cup [type : Kinds, error : BOOLEAN]

Message == Head(mailbox)
Receive(types) == mailbox # <<>> /\ Message.type \in types
In(name) == stack[Len(stack)] = name

\* StartingReceive on Started, which comes before any message: the first tick
\* is scheduled and the devices are asked for.
Init ==
    /\ devices \in Devices
    /\ stack = <<"waitingInfo">>
    /\ mailbox = <<>> /\ stash = <<>>
    /\ hasStorage = FALSE
    /\ currentStateCount = StateCount
    /\ timers = 1
    /\ pending = [k \in Kinds |-> IF k = "info" THEN 1 ELSE 0]
    /\ sent = {} /\ replies = [r \in HealthRequests |-> 0]

-----------------------------------------------------------------------------

\* The tick may already be stashed, and the default state is entered even when
\* the devices could not be asked.
DevicesInfo ==
    /\ In("waitingInfo") /\ Receive({"info"})
    /\ hasStorage' = (~Message.error /\ devices.storage)
    /\ stack' = Become(stack, "default")
    /\ mailbox' = UnstashedAll(Tail(mailbox), stash)
    /\ stash' = <<>>
    /\ UNCHANGED <<devices, currentStateCount, timers, pending,
                   sent, replies>>

Health ==
    /\ In("default") /\ Receive({"Health"})
    /\ replies' = [replies EXCEPT ![Message.id] = @ + 1]
    /\ mailbox' = Tail(mailbox)
    /\ UNCHANGED <<devices, stack, stash, hasStorage, currentStateCount,
                   timers, pending, sent>>

\* Mutant: the count starts again one tick too soon.
TickWrapping ==
    /\ In("default") /\ Receive({"Tick"})
    /\ LET due == currentStateCount = StateCount
           asked == {"flow"} \cup (IF due THEN {"inverter"} ELSE {})
                      \cup (IF due /\ hasStorage THEN {"storage"} ELSE {})
       IN  /\ pending' = [k \in Kinds |-> pending[k] + (IF k \in asked THEN 1 ELSE 0)]
           /\ currentStateCount' = IF due THEN 0 ELSE (currentStateCount + 1) % StateCount
    /\ timers' = timers + 1
    /\ stack' = BecomeStacked(stack, "waitingPF")
    /\ mailbox' = Tail(mailbox)
    /\ UNCHANGED <<devices, stash, hasStorage, sent, replies>>

Tick ==
    /\ In("default") /\ Receive({"Tick"})
    /\ LET due == currentStateCount = StateCount
           asked == {"flow"} \cup (IF due THEN {"inverter"} ELSE {})
                      \cup (IF due /\ hasStorage THEN {"storage"} ELSE {})
       IN  /\ pending' = [k \in Kinds |-> pending[k] + (IF k \in asked THEN 1 ELSE 0)]
           /\ currentStateCount' = IF due THEN 0 ELSE currentStateCount + 1
    /\ timers' = timers + 1
    /\ stack' = BecomeStacked(stack, "waitingPF")
    /\ mailbox' = Tail(mailbox)
    /\ UNCHANGED <<devices, stash, hasStorage, sent, replies>>

\* Mutant: the next tick is also scheduled when the flow could not be read.
PowerFlowScheduling ==
    /\ In("waitingPF") /\ Receive({"flow"})
    /\ timers' = IF Message.error THEN timers + 1 ELSE timers
    /\ stack' = UnbecomeStacked(stack)
    /\ mailbox' = UnstashedAll(Tail(mailbox), stash)
    /\ stash' = <<>>
    /\ UNCHANGED <<devices, hasStorage, currentStateCount, pending,
                   sent, replies>>

PowerFlowReceived ==
    /\ In("waitingPF") /\ Receive({"flow"})
    /\ stack' = UnbecomeStacked(stack)
    /\ mailbox' = UnstashedAll(Tail(mailbox), stash)
    /\ stash' = <<>>
    /\ UNCHANGED <<devices, hasStorage, currentStateCount, timers, pending,
                   sent, replies>>

StateReceived ==
    /\ In("default") /\ Receive({"inverter", "storage"})
    /\ mailbox' = Tail(mailbox)
    /\ UNCHANGED <<devices, stack, stash, hasStorage, currentStateCount,
                   timers, pending, sent, replies>>

Handled == CASE In("waitingInfo") -> {"info"}
             [] In("waitingPF") -> {"flow"}
             [] In("default") -> {"Tick", "Health", "inverter", "storage"}

\* Mutant: a health request that comes during a wait is dropped.
StashMessageButHealth ==
    /\ mailbox # <<>> /\ Message.type \notin Handled
    /\ stash' = IF Message.type = "Health" THEN stash ELSE Stashed(stash, Message)
    /\ mailbox' = Tail(mailbox)
    /\ UNCHANGED <<devices, stack, hasStorage, currentStateCount, timers,
                   pending, sent, replies>>

StashMessage ==
    /\ mailbox # <<>> /\ Message.type \notin Handled
    /\ stash' = Stashed(stash, Message)
    /\ mailbox' = Tail(mailbox)
    /\ UNCHANGED <<devices, stack, hasStorage, currentStateCount, timers,
                   pending, sent, replies>>

-----------------------------------------------------------------------------
(* The scheduler, the Modbus actor and the master *)

AnswersIn(queue) == Cardinality({i \in DOMAIN queue : queue[i].type \in Kinds})
Unread ==
    pending["info"] + pending["flow"] + pending["inverter"] + pending["storage"]
      + AnswersIn(mailbox) + AnswersIn(stash)

\* A request ends within a second, and the poll interval is a second or more
\* (main.go:183): most ticks come when the answers to the last have been read,
\* but some may come earlier, when the actor lags or the interval is a second.
TimerFires ==
    /\ timers > 0 /\ Unread < MaxUnread
    /\ timers' = timers - 1
    /\ mailbox' = Append(mailbox, [type |-> "Tick"])
    /\ UNCHANGED <<devices, stack, stash, hasStorage, currentStateCount,
                   pending, sent, replies>>

\* Mutant: a request that takes too long has no answer.
FutureCompletesOrHangs(k) ==
    /\ pending[k] > 0
    /\ pending' = [pending EXCEPT ![k] = @ - 1]
    /\ \/ mailbox' = Append(mailbox, [type |-> k, error |-> FALSE])
       \/ UNCHANGED mailbox
    /\ UNCHANGED <<devices, stack, stash, hasStorage, currentStateCount,
                   timers, sent, replies>>

\* PipeToSelfWithRecover: the answer, or the error made of a failed future.
FutureCompletes(k) ==
    /\ pending[k] > 0
    /\ pending' = [pending EXCEPT ![k] = @ - 1]
    /\ \E error \in BOOLEAN : mailbox' = Append(mailbox, [type |-> k, error |-> error])
    /\ UNCHANGED <<devices, stack, stash, hasStorage, currentStateCount,
                   timers, sent, replies>>

AskHealth(r) ==
    /\ r \notin sent
    /\ sent' = sent \cup {r}
    /\ mailbox' = Append(mailbox, [type |-> "Health", id |-> r])
    /\ UNCHANGED <<devices, stack, stash, hasStorage, currentStateCount,
                   timers, pending, replies>>

-----------------------------------------------------------------------------

Handle ==
    DevicesInfo \/ Health \/ Tick \/ PowerFlowReceived \/ StateReceived \/ StashMessage

Next ==
    \/ Handle \/ TimerFires
    \/ \E k \in Kinds : FutureCompletes(k)
    \/ \E r \in HealthRequests : AskHealth(r)

Spec == Init /\ [][Next]_vars

\* The dispatcher runs an actor that has messages, timers fire, and every
\* request ends within a second, with an answer or an error.
Fairness ==
    /\ WF_vars(Handle) /\ WF_vars(TimerFires)
    /\ \A k \in Kinds : WF_vars(FutureCompletes(k))

LiveSpec == Spec /\ Fairness

-----------------------------------------------------------------------------
(* Properties *)

TicksIn(queue) == Cardinality({i \in DOMAIN queue : queue[i].type = "Tick"})

\* There is one tick at all times, to come, in the mailbox or put aside: the
\* polling never dies out and never doubles, whatever fails or arrives late.
OneTickLoop == timers + TicksIn(mailbox) + TicksIn(stash) = 1

\* An actor that waits for an answer has one to come: it cannot hang.
WaitIsBacked ==
    /\ In("waitingPF") => pending["flow"] = 1 \/ InQueue(mailbox, {"flow"})
    /\ In("waitingInfo") => pending["info"] = 1 \/ InQueue(mailbox, {"info"})

\* Now and then a tick comes after all the answers were read.
PollsInTime == []<><<TimerFires /\ Unread = 0>>_vars

\* If so, every health request of the master is answered in the end, though it
\* is put aside while an answer of the Modbus actor is awaited.  (If not, each
\* wait may begin just before the request is unstashed, and put it aside again.)
AllAnswered ==
    PollsInTime => \A r \in HealthRequests : r \in sent ~> replies[r] = 1

\* The states of the inverter are asked for again and again.
StatesPolled == []<>(pending["inverter"] > 0)

\* README.md:15-16: the battery's operating state and its state of charge are
\* monitored.  In the default state they are asked for if there is a battery.
BatteryMonitored == In("default") /\ devices.storage => hasStorage
=============================================================================
