----------------------------- MODULE ModbusActor -----------------------------
(***************************************************************************)
(* ModbusActor (internal/adapter/actor/modbus.go): the one actor that      *)
(* talks to the inverter and the meter.  It serves one request at a time:  *)
(* reads, SetStorageControl requests (Sets) and health checks (Checks).    *)
(* A Set is followed by a delay in which reads wait, because the inverter  *)
(* needs time before its registers tell the new state.                     *)
(*                                                                         *)
(* Every request is a value of its own, sent once; its reply goes to the   *)
(* sender, whether or not the sender's future still waits for it.          *)
(***************************************************************************)
EXTENDS ActorUtil, FiniteSets

CONSTANTS
    Reads,        \* requests for device information, state or power flow
    Sets,         \* SetStorageControl requests
    Checks,       \* ActorHealth requests
    MaxStarts,    \* bound: times the supervisor starts the actor
    None          \* no request

ASSUME KindsAreDisjoint ==
    /\ Reads \cap Sets = {} /\ Reads \cap Checks = {} /\ Sets \cap Checks = {}
    /\ None \notin Reads \cup Sets \cup Checks
ASSUME StartsAssumption == MaxStarts \in Nat \ {0}

VARIABLES
    stack,     \* the behaviour stack, bottom first
    mailbox,
    stash,
    running,   \* the request of the background task the actor is blocked in
    zombies,   \* Sets whose task timed out and goes on without the actor
    timer,     \* the timer of the read delay is pending
    window,    \* the read delay since the last Set has not passed
    applied,   \* Sets in the order they reached the inverter
    sent,
    replies,   \* how often each request was answered
    starts

vars == <<stack, mailbox, stash, running, zombies, timer, window, applied,
          sent, replies, starts>>

Requests == Reads \cup Sets \cup Checks
Messages == [type : {"Request", "Result"}, id : Requests]
              \cup [type : {"TimeoutEnd"}, id : {None}]
Behaviours == {"starting", "default", "waitingModbus", "waitingReadTimeout", "stopped"}

Message == Head(mailbox)
In(name) == stack[Len(stack)] = name
\* The actor takes a message; it takes none while a task blocks it.
Receive(type, ids) ==
    /\ running = None /\ mailbox # <<>>
    /\ Message.type = type /\ Message.id \in ids

Init ==
    /\ stack = <<"starting">>
    /\ mailbox = <<>> /\ stash = <<>>
    /\ running = None /\ zombies = {}
    /\ timer = FALSE /\ window = FALSE
    /\ applied = <<>>
    /\ sent = {} /\ replies = [r \in Requests |-> 0]
    /\ starts = 1

-----------------------------------------------------------------------------
(* Starting *)

\* Both devices open.
Start ==
    /\ In("starting")
    /\ stack' = Become(stack, "default")
    /\ mailbox' = UnstashedAll(mailbox, stash)
    /\ stash' = <<>>
    /\ UNCHANGED <<running, zombies, timer, window, applied, sent, replies, starts>>

\* A device does not open: panic; a new instance starts, while restarts last.
\* Started comes before any other message, so nothing has been put aside.
StartFails ==
    /\ In("starting")
    /\ IF starts < MaxStarts
       THEN starts' = starts + 1 /\ UNCHANGED <<stack, mailbox>>
       ELSE stack' = <<"stopped">> /\ mailbox' = <<>> /\ UNCHANGED starts
    /\ UNCHANGED <<stash, running, zombies, timer, window, applied, sent, replies>>

-----------------------------------------------------------------------------
(* Serving requests *)

Reply(r) == replies' = [replies EXCEPT ![r] = @ + 1]

HealthCheck ==
    /\ In("default") \/ In("waitingReadTimeout")
    /\ Receive("Request", Checks)
    /\ Reply(Message.id)
    /\ mailbox' = Tail(mailbox)
    /\ UNCHANGED <<stack, stash, running, zombies, timer, window, applied, sent, starts>>

\* The handler blocks in the background task of the request.
Begin ==
    /\ In("default") /\ Receive("Request", Reads \cup Sets)
    /\ running' = Message.id
    /\ mailbox' = Tail(mailbox)
    /\ UNCHANGED <<stack, stash, zombies, timer, window, applied, sent, replies, starts>>

\* The task ends, well, with an error, or by its time limit; the result goes to
\* the end of the mailbox and the handler stacks the waiting behaviour.
Finish ==
    /\ running # None
    /\ \/ UNCHANGED <<zombies, applied>>
       \/ /\ running \in Sets
          /\ applied' = Append(applied, running)
          /\ UNCHANGED zombies
       \/ /\ running \in Sets
          /\ zombies' = zombies \cup {running}
          /\ UNCHANGED applied
    /\ mailbox' = Append(mailbox, [type |-> "Result", id |-> running])
    /\ stack' = BecomeStacked(stack, "waitingModbus")
    /\ running' = None
    /\ UNCHANGED <<stash, timer, window, sent, replies, starts>>

\* io.WithTimeout gives up the wait, not the task: its writes still happen.
ZombieEnds(r) ==
    /\ r \in zombies
    /\ zombies' = zombies \ {r}
    /\ applied' = Append(applied, r)
    /\ UNCHANGED <<stack, mailbox, stash, running, timer, window, sent, replies, starts>>

\* Mutant: what is sent again stays in the stash.
ReadResultKeepingStash ==
    /\ In("waitingModbus") /\ Receive("Result", Reads)
    /\ Reply(Message.id)
    /\ stack' = UnbecomeStacked(stack)
    /\ mailbox' = UnstashedAll(Tail(mailbox), stash)
    /\ UNCHANGED <<stash, running, zombies, timer, window, applied, sent, starts>>

ReadResult ==
    /\ In("waitingModbus") /\ Receive("Result", Reads)
    /\ Reply(Message.id)
    /\ stack' = UnbecomeStacked(stack)
    /\ mailbox' = UnstashedAll(Tail(mailbox), stash)
    /\ stash' = <<>>
    /\ UNCHANGED <<running, zombies, timer, window, applied, sent, starts>>

\* Mutant: the waiting behaviour is not popped.
SetResultStacking ==
    /\ In("waitingModbus") /\ Receive("Result", Sets)
    /\ Reply(Message.id)
    /\ stack' = BecomeStacked(stack, "waitingReadTimeout")
    /\ timer' = TRUE /\ window' = TRUE
    /\ mailbox' = Tail(mailbox)
    /\ UNCHANGED <<stash, running, zombies, applied, sent, starts>>

\* Mutant: the result of a Set starts no delay.
SetResultAtOnce ==
    /\ In("waitingModbus") /\ Receive("Result", Sets)
    /\ Reply(Message.id)
    /\ stack' = UnbecomeStacked(stack)
    /\ window' = TRUE
    /\ mailbox' = UnstashedAll(Tail(mailbox), stash)
    /\ stash' = <<>>
    /\ UNCHANGED <<timer, running, zombies, applied, sent, starts>>

\* The result of a Set starts the read delay; the stash stays as it is.
SetResult ==
    /\ In("waitingModbus") /\ Receive("Result", Sets)
    /\ Reply(Message.id)
    /\ stack' = BecomeStacked(UnbecomeStacked(stack), "waitingReadTimeout")
    /\ timer' = TRUE /\ window' = TRUE
    /\ mailbox' = Tail(mailbox)
    /\ UNCHANGED <<stash, running, zombies, applied, sent, starts>>

StashMessage ==
    /\ \/ In("waitingModbus") /\ (Receive("Request", Requests) \/ Receive("TimeoutEnd", {None}))
       \/ In("waitingReadTimeout") /\ Receive("Request", Reads)
    /\ stash' = Stashed(stash, Message)
    /\ mailbox' = Tail(mailbox)
    /\ UNCHANGED <<stack, running, zombies, timer, window, applied, sent, replies, starts>>

\* Mutant: the timer of the delay is not cancelled.
SetDuringDelayKeepingTimer ==
    /\ In("waitingReadTimeout") /\ Receive("Request", Sets)
    /\ mailbox' = Append(Tail(mailbox), Message)
    /\ stack' = UnbecomeStacked(stack)
    /\ UNCHANGED <<stash, running, zombies, timer, window, applied, sent, replies, starts>>

\* Mutant: the Set is answered when it is sent again.
SetDuringDelayReplying ==
    /\ In("waitingReadTimeout") /\ Receive("Request", Sets)
    /\ timer' = FALSE
    /\ Reply(Message.id)
    /\ mailbox' = Append(Tail(mailbox), Message)
    /\ stack' = UnbecomeStacked(stack)
    /\ UNCHANGED <<stash, running, zombies, window, applied, sent, starts>>

\* A Set ends the read delay at once: it is sent again, to the end of the
\* mailbox, and handled by the default behaviour.
SetDuringDelay ==
    /\ In("waitingReadTimeout") /\ Receive("Request", Sets)
    /\ timer' = FALSE
    /\ mailbox' = Append(Tail(mailbox), Message)
    /\ stack' = UnbecomeStacked(stack)
    /\ UNCHANGED <<stash, running, zombies, window, applied, sent, replies, starts>>

\* Mutant: the delay ends without UnstashAll.
DelayOverWithoutUnstash ==
    /\ In("waitingReadTimeout") /\ Receive("TimeoutEnd", {None})
    /\ stack' = UnbecomeStacked(stack)
    /\ mailbox' = Tail(mailbox)
    /\ UNCHANGED <<stash, running, zombies, timer, window, applied, sent, replies, starts>>

DelayOver ==
    /\ In("waitingReadTimeout") /\ Receive("TimeoutEnd", {None})
    /\ stack' = UnbecomeStacked(stack)
    /\ mailbox' = UnstashedAll(Tail(mailbox), stash)
    /\ stash' = <<>>
    /\ UNCHANGED <<running, zombies, timer, window, applied, sent, replies, starts>>

\* The timer had fired before a Set cancelled it.
StaleTimeout ==
    /\ In("default") /\ Receive("TimeoutEnd", {None})
    /\ mailbox' = Tail(mailbox)
    /\ UNCHANGED <<stack, stash, running, zombies, timer, window, applied, sent,
                   replies, starts>>

-----------------------------------------------------------------------------
(* The surroundings *)

Send(r) ==
    /\ r \in Requests \ sent /\ ~In("stopped")
    /\ sent' = sent \cup {r}
    /\ mailbox' = Append(mailbox, [type |-> "Request", id |-> r])
    /\ UNCHANGED <<stack, stash, running, zombies, timer, window, applied, replies, starts>>

\* The delay since the last Set passes; the timer fires if it is still pending.
DelayPasses ==
    /\ window
    /\ window' = FALSE /\ timer' = FALSE
    /\ mailbox' = IF timer
                  THEN Append(mailbox, [type |-> "TimeoutEnd", id |-> None])
                  ELSE mailbox
    /\ UNCHANGED <<stack, stash, running, zombies, applied, sent, replies, starts>>

-----------------------------------------------------------------------------

Handle ==
    \/ HealthCheck \/ Begin \/ ReadResult \/ SetResult \/ StashMessage
    \/ SetDuringDelay \/ DelayOver \/ StaleTimeout

Next ==
    \/ Start \/ StartFails \/ Handle \/ Finish \/ DelayPasses
    \/ \E r \in Requests : Send(r) \/ ZombieEnds(r)

Spec == Init /\ [][Next]_vars

\* The dispatcher runs an actor that has messages, a task ends by its time
\* limit at the latest, a timer that is not cancelled fires.
Fairness == WF_vars(Start) /\ WF_vars(Handle) /\ WF_vars(Finish) /\ WF_vars(DelayPasses)

LiveSpec == Spec /\ Fairness

-----------------------------------------------------------------------------
(* Properties *)

Count(queue, r) == Cardinality({i \in DOMAIN queue : queue[i].id = r})

\* Serial service: a sent request is in exactly one place, the mailbox, the
\* stash, the task that runs or its result, until it is answered; whatever is
\* stashed, sent again or unstashed in between, none is lost or served twice.
OnePlace ==
    \A r \in sent :
        In("stopped") \/
        Count(mailbox, r) + Count(stash, r) + (IF running = r THEN 1 ELSE 0)
          + replies[r] = 1

\* The actor waits for a result exactly when one is on its way, and takes up no
\* request before it is handled.  Two tasks do use the devices at once, but only
\* when one of them has outlived its time limit (task.go:81); that one is never
\* the task the actor is blocked in, and nobody waits for it any more: its sender
\* was answered, or the answer is the result on its way.
ResultAwaited ==
    LET results == {i \in DOMAIN mailbox : mailbox[i].type = "Result"}
    IN  /\ In("waitingModbus") => \E i \in results : results = {i}
        /\ ~In("waitingModbus") => results = {}
        /\ ~InQueue(stash, {"Result"})
        /\ running # None => In("default")
        /\ \A s \in zombies :
              /\ s # running
              /\ replies[s] > 0 \/ \E i \in results : mailbox[i].id = s

\* Only a delay that has passed ends: no TimeoutEnd of an earlier delay is left
\* to cut the present one short.
DelayNotCutShort ==
    In("waitingReadTimeout") /\ window => timer /\ ~InQueue(mailbox, {"TimeoutEnd"})

\* The read delay holds reads back: one that runs in it was let through by a
\* later Set that ended the delay, and that Set is still to be served.
ReadsWaitForDelay ==
    running \in Reads /\ window => \E i \in DOMAIN mailbox : mailbox[i].id \in Sets

Asking(queue, r) == \E i \in DOMAIN queue : queue[i] = [type |-> "Request", id |-> r]

SetsServed == INSTANCE SetService WITH
    asked <- sent \cap Sets,
    waiting <- {s \in Sets : Asking(mailbox, s) \/ Asking(stash, s)},
    serving <- IF running \in Sets THEN running ELSE None,
    late <- zombies

\* The actor takes up each Set once, one at a time, although its message may be
\* put aside and sent again, even behind later ones; and no Set reaches the
\* inverter twice, not even one whose task outlives the answer "timed out".
SetsPromise == SetsServed!Spec

\* Every request is answered in the end, unless the actor is stopped.
AllAnswered == \A r \in Requests : r \in sent ~> replies[r] > 0 \/ In("stopped")
=============================================================================
