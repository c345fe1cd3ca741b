--------------------------- MODULE MasterOfPuppets ---------------------------
(***************************************************************************)
(* MasterOfPuppetsActor (internal/core/actor/master.go): starts the other  *)
(* actors, routes the user's commands to the battery control actor, and    *)
(* answers health checks by asking three of the actors.  It is restarted   *)
(* when the Modbus actor has been stopped for good.                        *)
(*                                                                         *)
(* Health requests and commands are values of their own, each sent once.   *)
(* The answer an actor gives to a check names the request of the check, a  *)
(* history the code does not keep.                                         *)
(***************************************************************************)
EXTENDS ActorUtil, FiniteSets

CONSTANTS
    Actors,           \* asked by a health check: modbus, mqtt and powerflow
    HealthRequests,   \* requests of the HTTP health check
    Commands,         \* parsed commands, as routed by the MQTT actor
    Valid,            \* those that stand for a battery control request
    MaxRestarts,      \* bound: restarts granted to the master
    None              \* no request

ASSUME ActorsAssumption == IsFiniteSet(Actors) /\ Actors # {}
ASSUME ValidAssumption == Valid \subseteq Commands
ASSUME NoneAssumption == None \notin HealthRequests
ASSUME RestartsAssumption == MaxRestarts \in Nat

VARIABLES
    stack,           \* the behaviour stack, bottom first
    mailbox,
    stash,
    healthy,         \* actors found healthy by the present check
    checksReceived,
    respondTo,       \* the request the present check answers
    receiveTimeout,  \* the receive timeout is armed
    pending,         \* futures of health checks: <<actor, request>>
    terminated,      \* the Modbus actor has stopped, not yet noticed
    restarts,
    requested, told, \* requests sent; how often each was answered
    arrived, routed, \* commands sent; how often each was routed
    heard,           \* actors that answered the check of a request healthy
    verdict,         \* the answers given
    cutShort         \* a check has ended before its answers were in

vars == <<stack, mailbox, stash, healthy, checksReceived, respondTo, receiveTimeout,
          pending, terminated, restarts, requested, told, arrived, routed, heard,
          verdict, cutShort>>

Verdicts == {"none", "healthy", "unhealthy"}
Messages ==
    [type : {"HealthRequest"}, id : HealthRequests]
      \cup [type : {"HealthResponse"}, who : Actors, healthy : BOOLEAN, of : HealthRequests]
      \cup [type : {"ParsedCommand"}, command : Commands]
      \cup [type : {"ReceiveTimeout", "Terminated"}]

Message == Head(mailbox)
Receive(types) == mailbox # <<>> /\ Message.type \in types
In(name) == stack[Len(stack)] = name

history == <<requested, told, arrived, routed, heard, verdict, cutShort>>
check == <<healthy, checksReceived, respondTo>>

Init ==
    /\ stack = <<"default">>
    /\ mailbox = <<>> /\ stash = <<>>
    /\ healthy = {} /\ checksReceived = 0 /\ respondTo = None
    /\ receiveTimeout = FALSE
    /\ pending = {}
    /\ terminated = FALSE
    /\ restarts = 0
    /\ requested = {} /\ told = [r \in HealthRequests |-> 0]
    /\ arrived = {} /\ routed = [c \in Commands |-> 0]
    /\ heard = [r \in HealthRequests |-> {}]
    /\ verdict = [r \in HealthRequests |-> "none"]
    /\ cutShort = FALSE

-----------------------------------------------------------------------------
(* Health checks *)

\* Mutant: the result of the last check is not reset.
StartHealthCheckWithoutReset ==
    /\ In("default") /\ Receive({"HealthRequest"})
    /\ checksReceived' = 0
    /\ respondTo' = Message.id
    /\ pending' = pending \cup (Actors \X {Message.id})
    /\ receiveTimeout' = TRUE
    /\ stack' = BecomeStacked(stack, "healthCheck")
    /\ mailbox' = Tail(mailbox)
    /\ UNCHANGED <<stash, healthy, terminated, restarts, history>>

StartHealthCheck ==
    /\ In("default") /\ Receive({"HealthRequest"})
    /\ healthy' = {} /\ checksReceived' = 0
    /\ respondTo' = Message.id
    /\ pending' = pending \cup (Actors \X {Message.id})
    /\ receiveTimeout' = TRUE
    /\ stack' = BecomeStacked(stack, "healthCheck")
    /\ mailbox' = Tail(mailbox)
    /\ UNCHANGED <<stash, terminated, restarts, history>>

\* Answer the request with what the check has found.
Respond(found) ==
    /\ told' = [r \in HealthRequests |-> told[r] + (IF r = respondTo THEN 1 ELSE 0)]
    /\ verdict' = [r \in HealthRequests |->
                     IF r # respondTo THEN verdict[r]
                     ELSE IF found = Actors THEN "healthy" ELSE "unhealthy"]

\* Mutant: the check is left without UnstashAll.
LeaveHealthCheckWithoutUnstash ==
    /\ stack' = UnbecomeStacked(stack)
    /\ mailbox' = Tail(mailbox)
    /\ UNCHANGED stash

LeaveHealthCheck ==
    /\ stack' = UnbecomeStacked(stack)
    /\ mailbox' = UnstashedAll(Tail(mailbox), stash)
    /\ stash' = <<>>

\* Mutant: the timeout answers, but the check goes on.
HealthTimeoutStaying ==
    /\ In("healthCheck") /\ Receive({"ReceiveTimeout"})
    /\ Respond(healthy)
    /\ receiveTimeout' = TRUE
    /\ cutShort' = TRUE
    /\ mailbox' = Tail(mailbox)
    /\ UNCHANGED <<stack, stash, check, pending, terminated, restarts,
                   requested, arrived, routed, heard>>

\* "if some actor does not respond to healthCheck, assume not healthy".
HealthTimeout ==
    /\ In("healthCheck") /\ Receive({"ReceiveTimeout"})
    /\ Respond(healthy)
    /\ cutShort' = TRUE
    /\ LeaveHealthCheck
    /\ UNCHANGED <<check, receiveTimeout, pending, terminated, restarts,
                   requested, arrived, routed, heard>>

HealthResponse ==
    /\ In("healthCheck") /\ Receive({"HealthResponse"})
    /\ checksReceived' = checksReceived + 1
    /\ healthy' = IF Message.healthy THEN healthy \cup {Message.who} ELSE healthy
    /\ heard' = IF Message.healthy
                THEN [heard EXCEPT ![Message.of] = @ \cup {Message.who}] ELSE heard
    /\ IF checksReceived' = Cardinality(Actors)
       THEN /\ Respond(healthy')
            /\ LeaveHealthCheck
            /\ UNCHANGED receiveTimeout
       ELSE /\ receiveTimeout' = TRUE
            /\ mailbox' = Tail(mailbox)
            /\ UNCHANGED <<stack, stash, told, verdict>>
    /\ UNCHANGED <<respondTo, pending, terminated, restarts, requested, arrived,
                   routed, cutShort>>

-----------------------------------------------------------------------------
(* Commands *)

RouteCommand ==
    /\ In("default") /\ Receive({"ParsedCommand"})
    /\ routed' = IF Message.command \in Valid
                 THEN [routed EXCEPT ![Message.command] = @ + 1] ELSE routed
    /\ mailbox' = Tail(mailbox)
    /\ UNCHANGED <<stack, stash, check, receiveTimeout, pending, terminated, restarts,
                   requested, told, arrived, heard, verdict, cutShort>>

-----------------------------------------------------------------------------
(* The Modbus actor is gone *)

\* Panic: a new instance starts new children; or the master stops.  What
\* the mailbox holds is kept, what was put aside is lost.
Restart(rest) ==
    /\ stash' = <<>>
    /\ healthy' = {} /\ checksReceived' = 0 /\ respondTo' = None
    /\ receiveTimeout' = FALSE
    /\ terminated' = FALSE
    /\ IF restarts < MaxRestarts
       THEN /\ restarts' = restarts + 1
            /\ stack' = <<"default">>
            /\ mailbox' = rest
       ELSE /\ stack' = <<"stopped">>
            /\ mailbox' = <<>>
            /\ UNCHANGED restarts
    /\ UNCHANGED <<pending, history>>

\* Mutant: the termination is dropped during a health check.
NoticeTerminationOrDrop ==
    /\ terminated
    /\ \/ In("default") /\ Restart(mailbox)
       \/ /\ In("healthCheck")
          /\ terminated' = FALSE
          /\ UNCHANGED <<stack, mailbox, stash, check, receiveTimeout, pending,
                         restarts, history>>

\* A system message, ahead of the mailbox; during a health check it is put aside.
NoticeTermination ==
    /\ terminated
    /\ \/ In("default") /\ Restart(mailbox)
       \/ /\ In("healthCheck")
          /\ stash' = Stashed(stash, [type |-> "Terminated"])
          /\ terminated' = FALSE
          /\ UNCHANGED <<stack, mailbox, check, receiveTimeout, pending, restarts, history>>

TerminatedUnstashed ==
    /\ In("default") /\ Receive({"Terminated"})
    /\ Restart(Tail(mailbox))

StashMessage ==
    /\ mailbox # <<>>
    /\ \/ In("default") /\ Message.type \in {"HealthResponse", "ReceiveTimeout"}
       \/ In("healthCheck") /\ Message.type \in {"HealthRequest", "ParsedCommand", "Terminated"}
    /\ stash' = Stashed(stash, Message)
    /\ mailbox' = Tail(mailbox)
    /\ UNCHANGED <<stack, check, receiveTimeout, pending, terminated, restarts, history>>

-----------------------------------------------------------------------------
(* The surroundings *)

Deliver(m) == ~In("stopped") /\ mailbox' = Append(mailbox, m)

SendHealthRequest(r) ==
    /\ r \notin requested
    /\ requested' = requested \cup {r}
    /\ Deliver([type |-> "HealthRequest", id |-> r])
    /\ UNCHANGED <<stack, stash, check, receiveTimeout, pending, terminated, restarts,
                   told, arrived, routed, heard, verdict, cutShort>>

SendCommand(c) ==
    /\ c \notin arrived
    /\ arrived' = arrived \cup {c}
    /\ Deliver([type |-> "ParsedCommand", command |-> c])
    /\ UNCHANGED <<stack, stash, check, receiveTimeout, pending, terminated, restarts,
                   requested, told, routed, heard, verdict, cutShort>>

\* An actor answers, or its future ends after half a second: not healthy.
ActorAnswers(who, r) ==
    /\ <<who, r>> \in pending
    /\ pending' = pending \ {<<who, r>>}
    /\ \E h \in BOOLEAN :
          Deliver([type |-> "HealthResponse", who |-> who, healthy |-> h, of |-> r])
    /\ UNCHANGED <<stack, stash, check, receiveTimeout, terminated, restarts, history>>

\* One second without a message: by then every future has ended.
ReceiveTimeoutFires ==
    /\ receiveTimeout /\ pending = {}
    /\ receiveTimeout' = FALSE
    /\ Deliver([type |-> "ReceiveTimeout"])
    /\ UNCHANGED <<stack, stash, check, pending, terminated, restarts, history>>

\* The supervisor gives the Modbus actor up.
ModbusStops ==
    /\ ~terminated /\ ~In("stopped")
    /\ ~InQueue(mailbox, {"Terminated"}) /\ ~InQueue(stash, {"Terminated"})
    /\ terminated' = TRUE
    /\ UNCHANGED <<stack, mailbox, stash, check, receiveTimeout, pending, restarts, history>>

-----------------------------------------------------------------------------

Handle ==
    \/ StartHealthCheck \/ HealthTimeout \/ HealthResponse \/ RouteCommand
    \/ NoticeTermination \/ TerminatedUnstashed \/ StashMessage

Next ==
    \/ Handle
    \/ \E r \in HealthRequests : SendHealthRequest(r)
    \/ \E c \in Commands : SendCommand(c)
    \/ \E who \in Actors, r \in HealthRequests : ActorAnswers(who, r)
    \/ ReceiveTimeoutFires
    \/ ModbusStops

Spec == Init /\ [][Next]_vars

\* The dispatcher runs an actor that has messages; every future has a time
\* limit and the receive timeout fires.
Fairness ==
    /\ WF_vars(Handle)
    /\ \A who \in Actors, r \in HealthRequests : WF_vars(ActorAnswers(who, r))
    /\ WF_vars(ReceiveTimeoutFires)

LiveSpec == Spec /\ Fairness

-----------------------------------------------------------------------------
(* Properties *)

\* As long as no receive timeout has cut a check short, a request told "healthy"
\* is one that all the actors have answered healthy, for that very request.
VerdictTrueUnlessCutShort ==
    ~cutShort => \A r \in HealthRequests : verdict[r] = "healthy" => heard[r] = Actors

\* master.go:173, "if some actor does not respond to healthCheck, assume not
\* healthy": told "healthy" only if all have responded so to this check.
SilentActorIsUnhealthy ==
    \A r \in HealthRequests : verdict[r] = "healthy" => heard[r] = Actors

Checks == INSTANCE RequestReply
    WITH Requests <- HealthRequests, sent <- requested, replies <- told
Routing == INSTANCE RequestReply
    WITH Requests <- Commands, sent <- arrived, replies <- routed

\* A health request is answered at most once, by the check it started itself,
\* and a command reaches the battery control actor at most once, although both
\* are put aside and sent again while a check runs.
Promise == Checks!Spec /\ Routing!Spec

\* Every health request is answered and every valid command is routed in the
\* end, whatever checks run in between, unless a restart of the master forgets it.
AllServed ==
    /\ \A r \in HealthRequests :
          r \in requested ~> told[r] > 0 \/ restarts > 0 \/ In("stopped")
    /\ \A c \in Valid : c \in arrived ~> routed[c] > 0 \/ restarts > 0 \/ In("stopped")

\* A Modbus actor that is gone is replaced: the master restarts, or is stopped.
TerminationNoticed ==
    \A n \in 0 .. MaxRestarts :
        terminated /\ restarts = n ~> restarts > n \/ In("stopped")
=============================================================================
