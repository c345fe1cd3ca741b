------------------------------ MODULE MqttActor ------------------------------
(***************************************************************************)
(* MQTTActor (internal/adapter/actor/mqtt.go): connects to the broker,     *)
(* subscribes to the command topics, and publishes one message at a time:  *)
(* while the outcome of a publication is awaited everything else is put    *)
(* aside, and each outcome hands back the oldest message put aside.        *)
(*                                                                         *)
(* The client reports by callbacks, each a message to the actor.  Those of *)
(* a client that a restart has replaced are delivered to the new instance. *)
(* What is published and where to is left out.  Health checks, parsed      *)
(* commands and discovery requests change no state: they are one kind of   *)
(* message, "Other".                                                       *)
(***************************************************************************)
EXTENDS ActorUtil

CONSTANTS
    Asks,         \* PublishMessageRequests, each with a sender to answer
    MaxStarts,    \* bound: times the supervisor starts the actor
    MaxLoad,      \* bound: messages and publications before a new request
    None          \* no sender to answer

ASSUME NoneAssumption == None \notin Asks
ASSUME StartsAssumption == MaxStarts \in Nat \ {0}
ASSUME LoadAssumption == MaxLoad \in Nat

VARIABLES
    stack,       \* the behaviour stack, bottom first
    mailbox,
    stash,
    starts,      \* instances started; the last one owns the present client
    online,      \* the present client is connected
    subscribed,  \* the present instance has asked for the command topics
    attempts,    \* connects and subscribes without an outcome, by client
    inFlight,    \* publications without an outcome, by the sender to answer
    sent,
    replies      \* how often each of Asks was answered

vars == <<stack, mailbox, stash, starts, online, subscribed, attempts, inFlight,
          sent, replies>>

Senders == Asks \cup {None}
Attempts == {"connect", "subscribe"} \X (1 .. MaxStarts)
Messages ==
    [type : {"Connected", "Subscribed", "ConnectionLost", "Update", "Other"}]
      \cup [type : {"Publish"}, id : Asks]
      \cup [type : {"Result"}, replyTo : Senders]

Message == Head(mailbox)
Receive(types) == mailbox # <<>> /\ Message.type \in types
In(name) == stack[Len(stack)] = name

Init ==
    /\ stack = <<"starting">>
    /\ mailbox = <<>> /\ stash = <<>>
    /\ starts = 1
    /\ online = FALSE /\ subscribed = FALSE
    /\ attempts = [a \in Attempts |-> IF a = <<"connect", 1>> THEN 1 ELSE 0]
    /\ inFlight = [s \in Senders |-> 0]
    /\ sent = {} /\ replies = [r \in Asks |-> 0]

-----------------------------------------------------------------------------
(* Starting *)

Connected ==
    /\ In("starting") /\ Receive({"Connected"})
    /\ subscribed' = TRUE
    /\ attempts' = [attempts EXCEPT ![<<"subscribe", starts>>] = @ + 1]
    /\ mailbox' = Tail(mailbox)
    /\ UNCHANGED <<stack, stash, starts, online, inFlight, sent, replies>>

Subscribed ==
    /\ In("starting") /\ Receive({"Subscribed"})
    /\ stack' = Become(stack, "default")
    /\ mailbox' = UnstashedAll(Tail(mailbox), stash)
    /\ stash' = <<>>
    /\ UNCHANGED <<starts, online, subscribed, attempts, inFlight, sent, replies>>

\* "stop actor and let supervisor decide": the client is disconnected, and a
\* new instance connects a new one, while restarts last.
ConnectionLost ==
    /\ In("starting") \/ In("default")
    /\ Receive({"ConnectionLost"})
    /\ online' = FALSE /\ subscribed' = FALSE
    /\ stash' = <<>>
    /\ IF starts < MaxStarts
       THEN /\ starts' = starts + 1
            /\ attempts' = [attempts EXCEPT ![<<"connect", starts + 1>>] = 1]
            /\ stack' = <<"starting">>
            /\ mailbox' = Tail(mailbox)
       ELSE /\ stack' = <<"stopped">>
            /\ mailbox' = <<>>
            /\ UNCHANGED <<starts, attempts>>
    /\ UNCHANGED <<inFlight, sent, replies>>

-----------------------------------------------------------------------------
(* Publishing *)

\* publishSensorValue (no sender to answer) and publishMessage.
Publish ==
    /\ In("default") /\ Receive({"Update", "Publish"})
    /\ LET replyTo == IF Message.type = "Update" THEN None ELSE Message.id
       IN  inFlight' = [inFlight EXCEPT ![replyTo] = @ + 1]
    /\ stack' = BecomeStacked(stack, "publishing")
    /\ mailbox' = Tail(mailbox)
    /\ UNCHANGED <<stash, starts, online, subscribed, attempts, sent, replies>>

Reply(s) == replies' = [r \in Asks |-> replies[r] + (IF r = s THEN 1 ELSE 0)]

\* Mutant: the result is answered to, but hands nothing back.
PublishResultWithoutUnstash ==
    /\ In("publishing") /\ Receive({"Result"})
    /\ Reply(Message.replyTo)
    /\ stack' = UnbecomeStacked(stack)
    /\ mailbox' = Tail(mailbox)
    /\ UNCHANGED <<stash, starts, online, subscribed, attempts, inFlight, sent>>

\* Mutant: the oldest message is sent again but stays in the stash.
PublishResultKeepingOldest ==
    /\ In("publishing") /\ Receive({"Result"})
    /\ Reply(Message.replyTo)
    /\ stack' = UnbecomeStacked(stack)
    /\ mailbox' = UnstashedOldest(Tail(mailbox), stash)
    /\ UNCHANGED <<stash, starts, online, subscribed, attempts, inFlight, sent>>

\* The outcome of a publication, or of one of an earlier instance.
PublishResult ==
    /\ In("publishing") /\ Receive({"Result"})
    /\ Reply(Message.replyTo)
    /\ stack' = UnbecomeStacked(stack)
    /\ mailbox' = UnstashedOldest(Tail(mailbox), stash)
    /\ stash' = WithoutOldest(stash)
    /\ UNCHANGED <<starts, online, subscribed, attempts, inFlight, sent>>

StashMessage ==
    /\ mailbox # <<>>
    /\ \/ In("starting") /\ Message.type \notin {"Connected", "Subscribed", "ConnectionLost"}
       \/ In("publishing") /\ Message.type # "Result"
    /\ stash' = Stashed(stash, Message)
    /\ mailbox' = Tail(mailbox)
    /\ UNCHANGED <<stack, starts, online, subscribed, attempts, inFlight, sent, replies>>

\* Answered or routed without a change of state, or dropped.
NoEffect ==
    /\ In("default") /\ Receive({"Connected", "Subscribed", "Result", "Other"})
    /\ mailbox' = Tail(mailbox)
    /\ UNCHANGED <<stack, stash, starts, online, subscribed, attempts, inFlight,
                   sent, replies>>

-----------------------------------------------------------------------------
(* The client and those who send to the actor *)

Deliver(m) == mailbox' = IF In("stopped") THEN mailbox ELSE Append(mailbox, m)

\* Mutant: the callback of a connect that fails is not called.
AttemptEndsSilently(a) ==
    /\ attempts[a] > 0
    /\ attempts' = [attempts EXCEPT ![a] = @ - 1]
    /\ \/ /\ a[2] < starts \/ (a[1] = "subscribe" => online)
          /\ Deliver([type |-> IF a[1] = "connect" THEN "Connected" ELSE "Subscribed"])
          /\ online' = (online \/ (a = <<"connect", starts>> /\ ~In("stopped")))
       \/ UNCHANGED <<mailbox, online>>
    /\ UNCHANGED <<stack, stash, starts, subscribed, inFlight, sent, replies>>

\* A connect or a subscribe succeeds, fails or takes too long.
AttemptEnds(a) ==
    /\ attempts[a] > 0
    /\ attempts' = [attempts EXCEPT ![a] = @ - 1]
    /\ \/ /\ a[2] < starts \/ (a[1] = "subscribe" => online)
          /\ Deliver([type |-> IF a[1] = "connect" THEN "Connected" ELSE "Subscribed"])
          /\ online' = (online \/ (a = <<"connect", starts>> /\ ~In("stopped")))
       \/ /\ Deliver([type |-> "ConnectionLost"])
          /\ UNCHANGED online
    /\ UNCHANGED <<stack, stash, starts, subscribed, inFlight, sent, replies>>

LoseConnection ==
    /\ online
    /\ online' = FALSE
    /\ Deliver([type |-> "ConnectionLost"])
    /\ UNCHANGED <<stack, stash, starts, subscribed, attempts, inFlight, sent, replies>>

\* Published, failed, or not done in five seconds.
PublicationEnds(s) ==
    /\ inFlight[s] > 0
    /\ inFlight' = [inFlight EXCEPT ![s] = @ - 1]
    /\ Deliver([type |-> "Result", replyTo |-> s])
    /\ UNCHANGED <<stack, stash, starts, online, subscribed, attempts, sent, replies>>

HasRoom == Len(mailbox) + Len(stash) < MaxLoad

Request(m) ==
    /\ HasRoom
    /\ Deliver(m)
    /\ UNCHANGED <<stack, stash, starts, online, subscribed, attempts, inFlight,
                   sent, replies>>

Ask(r) ==
    /\ HasRoom /\ r \notin sent
    /\ sent' = sent \cup {r}
    /\ Deliver([type |-> "Publish", id |-> r])
    /\ UNCHANGED <<stack, stash, starts, online, subscribed, attempts, inFlight, replies>>

\* The power flow actor polls again when the actor has long been idle.
PeriodicUpdate ==
    /\ In("default") /\ mailbox = <<>>
    /\ Deliver([type |-> "Update"])
    /\ UNCHANGED <<stack, stash, starts, online, subscribed, attempts, inFlight,
                   sent, replies>>

-----------------------------------------------------------------------------

Handle ==
    \/ Connected \/ Subscribed \/ ConnectionLost \/ Publish \/ PublishResult
    \/ StashMessage \/ NoEffect

Next ==
    \/ Handle
    \/ \E a \in Attempts : AttemptEnds(a)
    \/ LoseConnection
    \/ \E s \in Senders : PublicationEnds(s)
    \/ \E type \in {"Update", "Other"} : Request([type |-> type])
    \/ \E r \in Asks : Ask(r)
    \/ PeriodicUpdate

Spec == Init /\ [][Next]_vars

\* The dispatcher runs an actor that has messages; every attempt and every
\* publication has a time limit.  The polling goes on for ever, slowly: again
\* and again an update comes when the actor is idle.
Fairness ==
    /\ WF_vars(Handle)
    /\ \A a \in Attempts : WF_vars(AttemptEnds(a))
    /\ \A s \in Senders : WF_vars(PublicationEnds(s))
    /\ SF_vars(PeriodicUpdate)

LiveSpec == Spec /\ Fairness

-----------------------------------------------------------------------------
(* Properties *)

\* The actor never awaits what will not come: a publication has its result and
\* a start its end to come.  Callbacks of an earlier instance may end a wait too
\* soon, but never leave one without an end.
WaitIsBacked ==
    /\ In("publishing") =>
          (\E s \in Senders : inFlight[s] > 0) \/ InQueue(mailbox, {"Result"})
    /\ In("starting") =>
          \/ \E a \in Attempts : attempts[a] > 0
          \/ InQueue(mailbox, {"Connected", "Subscribed", "ConnectionLost"})

Serves == INSTANCE RequestReply WITH Requests <- Asks

\* A request to publish a message is answered only if it was sent, and never
\* twice, whatever is stashed, unstashed or reported late by an old client.
Promise == Serves!Spec

\* From some time on messages to publish do not outrun the actor: what is sent
\* to it comes when it has nothing else to do.
KeepsUp ==
    <>[][(\E type \in {"Update", "Other"} : Request([type |-> type])) \/ (\E r \in Asks : Ask(r))
            => mailbox = <<>> /\ ~In("publishing")]_vars

\* If so, a lost connection is replaced in the end, though its report may lie
\* behind other messages in a stash that only results of publications empty;
\* only an actor out of restarts gives up.
ConnectionReplaced == KeepsUp => (~online ~> online \/ In("stopped"))
=============================================================================
