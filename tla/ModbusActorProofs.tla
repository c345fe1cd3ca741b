-------------------------- MODULE ModbusActorProofs --------------------------
(***************************************************************************)
(* The safety of ModbusActor and that it implements SetService, for every  *)
(* set of requests and every number of starts.                             *)
(***************************************************************************)
EXTENDS ModbusActor, ActorUtilLemmas

\* The messages of a request, of all sets, the results and the ends of delays.
Of(r) == {m \in Messages : m.id = r}
OfSets == {m \in Messages : m.id \in Sets}
Results == {m \in Messages : m.type \in {"Result"}}
TimeoutEnds == {m \in Messages : m.type \in {"TimeoutEnd"}}

TypeOk ==
    /\ mailbox \in Seq(Messages) /\ stash \in Seq(Messages)
    /\ running \in Requests \cup {None} /\ zombies \subseteq Sets
    /\ timer \in BOOLEAN /\ window \in BOOLEAN
    /\ sent \subseteq Requests /\ replies \in [Requests -> Nat]

Stacks == {<<"starting">>, <<"default">>, <<"stopped">>,
           <<"default", "waitingModbus">>, <<"default", "waitingReadTimeout">>}

\* Nothing is put aside and no delay begun before the start has succeeded.
StackShape ==
    /\ stack \in Stacks
    /\ stack \in {<<"starting">>, <<"stopped">>} =>
          stash = <<>> /\ running = None /\ zombies = {} /\ ~timer /\ ~window

\* One result is on its way to a waiting actor, and none to another.
OneResult ==
    /\ HowMany(mailbox, Results) = IF In("waitingModbus") THEN 1 ELSE 0
    /\ HowMany(stash, Results) = 0
    /\ running # None => In("default")

\* Where a request is, counted: nowhere before it is sent.
Places(r) == HowMany(mailbox, Of(r)) + HowMany(stash, Of(r))
               + (IF running = r THEN 1 ELSE 0) + replies[r]
Placed == In("stopped") \/ \A r \in Requests : Places(r) = IF r \in sent THEN 1 ELSE 0

ResultOf(s) == {[type |-> "Result", id |-> s]}

\* A task that has outlived its time limit is not the one the actor is blocked in,
\* and its sender has the answer or it is the result the actor waits for.
LateOnesAnswered ==
    \A s \in zombies :
        /\ s # running
        /\ \/ replies[s] > 0
           \/ In("waitingModbus") /\ HowMany(mailbox, ResultOf(s)) > 0

\* No end of a delay lies behind a result: what ends an earlier delay is put
\* aside before the result of a Set is handled.
EndsFirst(queue) ==
    \A i, j \in DOMAIN queue :
        queue[i].type = "Result" /\ queue[j].type = "TimeoutEnd" => j < i

\* The timer is that of the present delay, and its end is not yet in the mailbox.
TimerOfDelay ==
    /\ timer => window /\ In("waitingReadTimeout") /\ HowMany(mailbox, TimeoutEnds) = 0
    /\ In("waitingReadTimeout") /\ window => timer
    /\ EndsFirst(mailbox)

\* Only a later Set, still to be served, lets reads run in the delay of a Set.
SetInDelay ==
    window =>
        \/ In("waitingReadTimeout")
        \/ running \in Sets
        \/ HowMany(mailbox, OfSets) > 0
        \/ In("waitingModbus") /\ HowMany(stash, OfSets) > 0

IInv ==
    /\ TypeOk /\ StackShape /\ OneResult /\ Placed /\ LateOnesAnswered
    /\ TimerOfDelay /\ SetInDelay

-----------------------------------------------------------------------------
(* Messages, the stack and the mailbox *)

\* What a message of each type is counted as.
LEMMA MessageKinds ==
    /\ \A r \in Requests :
          LET m == [type |-> "Request", id |-> r]
          IN  /\ m \in Messages /\ m \notin Results /\ m \notin TimeoutEnds
              /\ m \in OfSets <=> r \in Sets
              /\ \A s \in Requests : m \in Of(s) <=> s = r
    /\ \A r \in Requests :
          LET m == [type |-> "Result", id |-> r]
          IN  /\ m \in Messages /\ m \in Results /\ m \notin TimeoutEnds
              /\ m \in OfSets <=> r \in Sets
              /\ \A s \in Requests : m \in Of(s) <=> s = r
    /\ LET m == [type |-> "TimeoutEnd", id |-> None]
       IN  /\ m \in Messages /\ m \notin Results /\ m \in TimeoutEnds
           /\ m \notin OfSets
           /\ \A s \in Requests : m \notin Of(s)
    /\ None \notin Requests
    /\ Reads \subseteq Requests /\ Sets \subseteq Requests /\ Checks \subseteq Requests
BY KindsAreDisjoint DEF Messages, Results, TimeoutEnds, OfSets, Of, Requests

\* The message a handler takes: what it is, and what is left.
LEMMA Taken ==
    ASSUME TypeOk, NEW type, NEW ids, Receive(type, ids)
    PROVE  /\ running = None /\ mailbox # <<>>
           /\ Message \in Messages /\ Message.type = type /\ Message.id \in ids
           /\ Tail(mailbox) \in Seq(Messages)
           /\ \A P : HowMany(mailbox, P) =
                        HowMany(Tail(mailbox), P) + (IF Message \in P THEN 1 ELSE 0)
           /\ \A P : HowMany(Tail(mailbox), P) \in Nat
<1>1. running = None /\ mailbox # <<>> /\ Message.type = type /\ Message.id \in ids
    BY DEF Receive
<1>2. mailbox \in Seq(Messages)
    BY DEF TypeOk
<1>3. Message \in Messages /\ Tail(mailbox) \in Seq(Messages)
    BY <1>1, <1>2, HeadTailProperties DEF Message
<1> QED
    BY <1>1, <1>2, <1>3, HowManyTail, HowManyNat DEF Message

\* The kind of the message taken.
LEMMA MessageIs ==
    ASSUME NEW m \in Messages
    PROVE  /\ m.type \in {"Request", "Result"} => m.id \in Requests /\ m = [type |-> m.type, id |-> m.id]
           /\ m.type = "TimeoutEnd" => m = [type |-> "TimeoutEnd", id |-> None]
           /\ m \in Results <=> m.type = "Result"
           /\ m \in TimeoutEnds <=> m.type = "TimeoutEnd"
           /\ m \in OfSets <=> m.id \in Sets
           /\ \A r : m \in Of(r) <=> m.id = r
BY DEF Messages, Results, TimeoutEnds, OfSets, Of

\* The counts are numbers.
LEMMA CountsAreNat ==
    ASSUME TypeOk
    PROVE  \A P : HowMany(mailbox, P) \in Nat /\ HowMany(stash, P) \in Nat
BY HowManyNat DEF TypeOk

\* The top of a stack of one or two behaviours.
LEMMA TopOf ==
    /\ \A a : <<a>>[Len(<<a>>)] = a
    /\ \A a, b : <<a, b>>[Len(<<a, b>>)] = b
    /\ \A a, b : <<a>> # <<a, b>>
OBVIOUS

\* The behaviour tells the stack.
LEMMA StackOfTop ==
    ASSUME StackShape
    PROVE  /\ In("starting") <=> stack = <<"starting">>
           /\ In("stopped") <=> stack = <<"stopped">>
           /\ In("default") <=> stack = <<"default">>
           /\ In("waitingModbus") <=> stack = <<"default", "waitingModbus">>
           /\ In("waitingReadTimeout") <=> stack = <<"default", "waitingReadTimeout">>
BY TopOf DEF StackShape, Stacks, In

-----------------------------------------------------------------------------
(* The order of the results and of the ends of delays *)

\* Taking the first message keeps the order; when that is a result, no end of a
\* delay is left.
LEMMA EndsFirstTail ==
    ASSUME NEW q \in Seq(Messages), q # <<>>, EndsFirst(q)
    PROVE  /\ EndsFirst(Tail(q))
           /\ Head(q).type = "Result" => HowMany(Tail(q), TimeoutEnds) = 0
<1>1. /\ Tail(q) \in Seq(Messages) /\ Len(Tail(q)) = Len(q) - 1
      /\ \A i \in 1 .. Len(Tail(q)) : Tail(q)[i] = q[i + 1]
      /\ Len(q) \in Nat \ {0} /\ DOMAIN q = 1 .. Len(q)
      /\ DOMAIN Tail(q) = 1 .. Len(Tail(q))
    BY HeadTailProperties, EmptySeq, LenProperties
<1>2. Head(q) = q[1]
    OBVIOUS
<1>3. EndsFirst(Tail(q))
    BY <1>1 DEF EndsFirst
<1>4. ASSUME Head(q).type = "Result"
      PROVE  HowMany(Tail(q), TimeoutEnds) = 0
    <2>1. ASSUME NEW i \in DOMAIN Tail(q)
          PROVE  Tail(q)[i].type # "TimeoutEnd"
        <3>1. i + 1 \in DOMAIN q /\ Tail(q)[i] = q[i + 1] /\ 1 \in DOMAIN q /\ ~(i + 1 < 1)
            BY <1>1
        <3> QED
            BY <3>1, <1>2, <1>4 DEF EndsFirst
    <2>2. \A i \in DOMAIN Tail(q) : Tail(q)[i] \notin TimeoutEnds
        BY <2>1 DEF TimeoutEnds
    <2> QED
        BY <1>1, <2>2, HowManyNat
<1> QED
    BY <1>3, <1>4

\* The order holds where there is no result, and adding anything but the end of a
\* delay keeps it; an end may be added when no result is there.
LEMMA EndsFirstAppend ==
    ASSUME NEW q \in Seq(Messages), NEW m \in Messages
    PROVE  /\ HowMany(q, Results) = 0 => EndsFirst(q)
           /\ EndsFirst(q) /\ m.type # "TimeoutEnd" => EndsFirst(Append(q, m))
           /\ HowMany(q, Results) = 0 /\ m.type # "Result" => EndsFirst(Append(q, m))
<1>1. ASSUME NEW p \in Seq(Messages), HowMany(p, Results) = 0
      PROVE  EndsFirst(p)
    <2>1. \A i \in DOMAIN p : p[i] \notin Results /\ p[i] \in Messages
        BY <1>1, HowManyNat, LenProperties, ElementOfSeq
    <2> QED
        BY <2>1, MessageIs DEF EndsFirst
<1>2. ASSUME EndsFirst(q), m.type # "TimeoutEnd"
      PROVE  EndsFirst(Append(q, m))
    <2>1. /\ Len(Append(q, m)) = Len(q) + 1 /\ Len(q) \in Nat
          /\ DOMAIN q = 1 .. Len(q) /\ DOMAIN Append(q, m) = 1 .. Len(q) + 1
          /\ \A i \in 1 .. Len(q) : Append(q, m)[i] = q[i]
          /\ Append(q, m)[Len(q) + 1] = m
        BY AppendProperties, LenProperties
    <2> QED
        BY <1>2, <2>1 DEF EndsFirst
<1>3. ASSUME HowMany(q, Results) = 0, m.type # "Result"
      PROVE  EndsFirst(Append(q, m))
    <2>1. m \notin Results
        BY <1>3, MessageIs
    <2>2. Append(q, m) \in Seq(Messages) /\ HowMany(Append(q, m), Results) = 0
        BY <1>3, <2>1, HowManyAppend, AppendProperties
    <2> QED
        BY <1>1, <2>2
<1> QED
    BY <1>1, <1>2, <1>3

-----------------------------------------------------------------------------
(* Every action keeps the invariant *)

LEMMA InitInv == Init => IInv
<1> SUFFICES ASSUME Init PROVE IInv
    OBVIOUS
<1>1. /\ mailbox \in Seq(Messages) /\ stash \in Seq(Messages)
      /\ \A P : HowMany(mailbox, P) = 0 /\ HowMany(stash, P) = 0
    BY HowManyShort DEF Init
<1>2. TypeOk /\ StackShape
    BY <1>1 DEF Init, TypeOk, StackShape, Stacks
<1>3. ~In("waitingModbus") /\ ~In("waitingReadTimeout") /\ EndsFirst(mailbox)
    BY <1>2, StackOfTop DEF Init, EndsFirst
<1>4. Placed
    <2>1. ASSUME NEW r \in Requests PROVE Places(r) = 0
        BY <1>1, MessageKinds DEF Init, Places
    <2> QED
        BY <2>1 DEF Placed, Init
<1> QED
    BY <1>1, <1>2, <1>3, <1>4
       DEF IInv, OneResult, TimerOfDelay, SetInDelay, LateOnesAnswered, Init

\* The start hands back an empty stash.
LEMMA StartInv ==
    ASSUME IInv, Start
    PROVE  IInv'
<1>1. /\ stack = <<"starting">> /\ stash = <<>> /\ running = None /\ zombies = {}
      /\ ~timer /\ ~window
      /\ TypeOk /\ StackShape
    BY StackOfTop DEF IInv, StackShape, Start
<1>2. stack' = <<"default">> /\ stash' = stash /\ mailbox' = mailbox
    <2>1. mailbox \o <<>> = mailbox
        BY <1>1, ConcatEmptySeq DEF TypeOk
    <2> QED
        BY <1>1, <2>1, StackOps DEF Start, UnstashedAll
<1>3. UNCHANGED <<running, zombies, timer, window, applied, sent, replies>>
    BY DEF Start
<1>4. TypeOk' /\ StackShape'
    BY <1>1, <1>2, <1>3 DEF TypeOk, StackShape, Stacks
<1>5. /\ ~In("stopped") /\ ~In("waitingModbus") /\ ~In("waitingReadTimeout")
      /\ In("default")' /\ ~In("waitingModbus")' /\ ~In("waitingReadTimeout")'
    BY <1>1, <1>2, TopOf DEF In
<1>6. OneResult'
    BY <1>2, <1>3, <1>5 DEF IInv, OneResult
<1>7. Placed'
    BY <1>2, <1>3, <1>5 DEF IInv, Placed, Places
<1>8. TimerOfDelay' /\ SetInDelay' /\ LateOnesAnswered'
    BY <1>1, <1>2, <1>3, <1>5 DEF IInv, TimerOfDelay, SetInDelay, LateOnesAnswered
<1> QED
    BY <1>4, <1>6, <1>7, <1>8 DEF IInv

\* A start that fails, with nothing under way, begins again or stops the actor.
LEMMA StartFailsInv ==
    ASSUME IInv, StartFails
    PROVE  IInv'
<1>1. /\ stack = <<"starting">> /\ stash = <<>> /\ running = None /\ zombies = {}
      /\ ~timer /\ ~window
      /\ TypeOk /\ StackShape
    BY StackOfTop DEF IInv, StackShape, StartFails
<1>2. UNCHANGED <<stash, running, zombies, timer, window, applied, sent, replies>>
    BY DEF StartFails
<1>3. CASE UNCHANGED <<stack, mailbox>>
    BY <1>2, <1>3 DEF IInv, TypeOk, StackShape, OneResult, Placed, Places, TimerOfDelay,
                      SetInDelay, LateOnesAnswered, In
<1>4. CASE stack' = <<"stopped">> /\ mailbox' = <<>>
    <2>1. TypeOk' /\ StackShape'
        BY <1>1, <1>2, <1>4 DEF TypeOk, StackShape, Stacks
    <2>2. /\ In("stopped")' /\ ~In("waitingModbus")' /\ ~In("waitingReadTimeout")'
          /\ ~In("waitingModbus")
        BY <1>1, <1>4, TopOf DEF In
    <2>3. OneResult'
        BY <1>1, <1>2, <1>4, <2>2, HowManyShort DEF OneResult
    <2>4. Placed' /\ TimerOfDelay' /\ SetInDelay' /\ LateOnesAnswered'
        BY <1>1, <1>2, <1>4, <2>2
           DEF Placed, TimerOfDelay, SetInDelay, LateOnesAnswered, EndsFirst
    <2> QED
        BY <2>1, <2>3, <2>4 DEF IInv
<1> QED
    BY <1>3, <1>4 DEF StartFails

\* A health check is answered where it is taken.
LEMMA HealthCheckInv ==
    ASSUME IInv, HealthCheck
    PROVE  IInv'
<1> DEFINE c == Message.id
<1>1. /\ In("default") \/ In("waitingReadTimeout")
      /\ Receive("Request", Checks) /\ Reply(c) /\ mailbox' = Tail(mailbox)
      /\ UNCHANGED <<stack, stash, running, zombies, timer, window, applied, sent, starts>>
    BY DEF HealthCheck
<1>2. /\ TypeOk /\ StackShape /\ running = None /\ mailbox # <<>>
      /\ Message \in Messages /\ Message.type = "Request" /\ c \in Checks
      /\ mailbox' \in Seq(Messages)
      /\ \A P : HowMany(mailbox, P) =
                   HowMany(mailbox', P) + (IF Message \in P THEN 1 ELSE 0)
      /\ \A P : HowMany(mailbox', P) \in Nat
    BY <1>1, Taken DEF IInv
<1>3. /\ c \in Requests /\ c \notin Sets
      /\ Message \notin Results /\ Message \notin TimeoutEnds /\ Message \notin OfSets
      /\ \A r : Message \in Of(r) <=> r = c
    BY <1>2, MessageIs, KindsAreDisjoint DEF Requests
<1>4. replies' = [replies EXCEPT ![c] = @ + 1] /\ replies \in [Requests -> Nat]
    BY <1>1, <1>2 DEF Reply, TypeOk
<1> HIDE DEF c
<1>5. TypeOk' /\ StackShape'
    BY <1>1, <1>2, <1>3, <1>4 DEF TypeOk, StackShape
<1>6. OneResult'
    BY <1>1, <1>2, <1>3 DEF IInv, OneResult, In
<1>7. ASSUME NEW r \in Requests PROVE Places(r)' = Places(r)
    <2>1. /\ HowMany(mailbox, Of(r)) = HowMany(mailbox', Of(r)) + (IF r = c THEN 1 ELSE 0)
          /\ HowMany(mailbox', Of(r)) \in Nat /\ HowMany(stash, Of(r)) \in Nat
        BY <1>2, <1>3, CountsAreNat
    <2>2. replies'[r] = replies[r] + (IF r = c THEN 1 ELSE 0) /\ replies[r] \in Nat
        BY <1>3, <1>4
    <2> QED
        BY <1>1, <2>1, <2>2 DEF Places
<1>8. Placed'
    BY <1>1, <1>7 DEF IInv, Placed, In
<1>9. TimerOfDelay' /\ SetInDelay'
    BY <1>1, <1>2, <1>3, EndsFirstTail DEF IInv, TimerOfDelay, SetInDelay, In, TypeOk
<1>10. LateOnesAnswered'
    <2>1. ~In("waitingModbus")
        BY <1>1 DEF In
    <2>2. ASSUME NEW z \in zombies PROVE replies'[z] > 0 /\ z # running'
        <3>1. z \in Requests /\ replies[z] > 0 /\ z # running
            BY <1>2, <2>1, MessageKinds DEF IInv, LateOnesAnswered, TypeOk
        <3> QED
            BY <1>1, <1>3, <1>4, <3>1
    <2> QED
        BY <1>1, <2>2 DEF LateOnesAnswered
<1> QED
    BY <1>5, <1>6, <1>8, <1>9, <1>10 DEF IInv

\* A task begins: the request moves from the mailbox to it.
LEMMA BeginInv ==
    ASSUME IInv, Begin
    PROVE  IInv'
<1> DEFINE q == Message.id
<1>1. /\ In("default") /\ Receive("Request", Reads \cup Sets)
      /\ running' = q /\ mailbox' = Tail(mailbox)
      /\ UNCHANGED <<stack, stash, zombies, timer, window, applied, sent, replies, starts>>
    BY DEF Begin
<1>2. /\ TypeOk /\ StackShape /\ running = None /\ mailbox # <<>>
      /\ Message \in Messages /\ Message.type = "Request" /\ q \in Reads \cup Sets
      /\ mailbox' \in Seq(Messages)
      /\ \A P : HowMany(mailbox, P) =
                   HowMany(mailbox', P) + (IF Message \in P THEN 1 ELSE 0)
      /\ \A P : HowMany(mailbox', P) \in Nat
    BY <1>1, Taken DEF IInv
<1>3. /\ q \in Requests /\ None \notin Requests
      /\ Message \notin Results /\ Message \notin TimeoutEnds
      /\ Message \in OfSets <=> q \in Sets
      /\ \A r : Message \in Of(r) <=> r = q
    BY <1>2, MessageIs, KindsAreDisjoint DEF Requests
<1>4. stack = <<"default">> /\ ~In("waitingModbus") /\ ~In("waitingReadTimeout")
    BY <1>1, <1>2, StackOfTop, TopOf DEF In
<1> HIDE DEF q
<1>5. TypeOk' /\ StackShape'
    BY <1>1, <1>2, <1>3, <1>4, TopOf DEF TypeOk, StackShape
<1>6. OneResult'
    BY <1>1, <1>2, <1>3 DEF IInv, OneResult, In
<1>7. ASSUME NEW r \in Requests PROVE Places(r)' = Places(r)
    <2>1. /\ HowMany(mailbox, Of(r)) = HowMany(mailbox', Of(r)) + (IF r = q THEN 1 ELSE 0)
          /\ HowMany(mailbox', Of(r)) \in Nat
        BY <1>2, <1>3
    <2>2. HowMany(stash, Of(r)) \in Nat /\ replies[r] \in Nat
        BY <1>2, CountsAreNat DEF TypeOk
    <2> QED
        BY <1>1, <1>2, <1>3, <2>1, <2>2 DEF Places
<1>8. Placed'
    BY <1>1, <1>7 DEF IInv, Placed, In
<1>9. TimerOfDelay'
    BY <1>1, <1>2, <1>4, EndsFirstTail DEF IInv, TimerOfDelay, In, TypeOk
<1>10. SetInDelay'
    <2>1. CASE q \in Sets
        BY <1>1, <2>1 DEF SetInDelay
    <2>2. CASE q \notin Sets
        <3>1. HowMany(mailbox', OfSets) = HowMany(mailbox, OfSets)
            BY <1>2, <1>3, <2>2
        <3>2. running \notin Sets
            BY <1>2, KindsAreDisjoint
        <3> QED
            BY <1>1, <1>4, <3>1, <3>2 DEF IInv, SetInDelay, In
    <2> QED
        BY <2>1, <2>2
<1>11. LateOnesAnswered'
    <2>1. ASSUME NEW z \in zombies PROVE replies'[z] > 0 /\ z # running'
        <3>1. z \in Requests /\ replies[z] > 0
            BY <1>2, <1>4, MessageKinds DEF IInv, LateOnesAnswered, TypeOk
        <3>2. Places(z) <= 1
            BY <1>4, <3>1, TopOf DEF IInv, Placed, In
        <3>3. HowMany(mailbox, Of(z)) = 0
            <4>1. HowMany(mailbox, Of(z)) \in Nat /\ HowMany(stash, Of(z)) \in Nat
                BY <1>2, CountsAreNat
            <4>2. replies[z] \in Nat /\ (IF running = z THEN 1 ELSE 0) \in Nat
                BY <1>2, <3>1 DEF TypeOk
            <4> QED
                BY <3>1, <3>2, <4>1, <4>2 DEF Places
        <3>4. z # q
            BY <1>2, <1>3, <3>3
        <3> QED
            BY <1>1, <3>1, <3>4
    <2> QED
        BY <1>1, <2>1 DEF LateOnesAnswered
<1> QED
    BY <1>5, <1>6, <1>8, <1>9, <1>10, <1>11 DEF IInv

\* A task ends: the request moves from it to the result.
LEMMA FinishInv ==
    ASSUME IInv, Finish
    PROVE  IInv'
<1> DEFINE m == [type |-> "Result", id |-> running]
<1>1. /\ running # None /\ running' = None
      /\ mailbox' = Append(mailbox, m)
      /\ stack' = BecomeStacked(stack, "waitingModbus")
      /\ UNCHANGED <<stash, timer, window, sent, replies, starts>>
      /\ zombies' = zombies \/ (running \in Sets /\ zombies' = zombies \cup {running})
    BY DEF Finish
<1>2. TypeOk /\ StackShape /\ running \in Requests /\ In("default") /\ stack = <<"default">>
    BY <1>1, StackOfTop DEF IInv, OneResult, TypeOk
<1>3. /\ m \in Messages /\ m \in Results /\ m \notin TimeoutEnds
      /\ m \in OfSets <=> running \in Sets
      /\ \A s \in Requests : m \in Of(s) <=> s = running
      /\ m.type = "Result" /\ None \notin Requests /\ Sets \subseteq Requests
    BY <1>2, MessageKinds
<1> HIDE DEF m
<1>4. /\ mailbox' \in Seq(Messages)
      /\ \A P : HowMany(mailbox', P) = HowMany(mailbox, P) + (IF m \in P THEN 1 ELSE 0)
      /\ \A P : HowMany(mailbox, P) \in Nat /\ HowMany(stash, P) \in Nat
    BY <1>1, <1>2, <1>3, AppendProperties, HowManyAppend, CountsAreNat DEF TypeOk
<1>5. stack' = <<"default", "waitingModbus">>
    BY <1>1, <1>2, StackOps
<1>6. /\ ~In("stopped") /\ ~In("waitingModbus") /\ ~In("waitingReadTimeout")
      /\ In("waitingModbus")' /\ ~In("waitingReadTimeout")' /\ ~In("stopped")'
    BY <1>2, <1>5, TopOf DEF In
<1>7. TypeOk' /\ StackShape'
    BY <1>1, <1>2, <1>4, <1>5, TopOf DEF TypeOk, StackShape, Stacks
<1>8. OneResult'
    BY <1>1, <1>3, <1>4, <1>6 DEF IInv, OneResult
<1>9. ASSUME NEW r \in Requests PROVE Places(r)' = Places(r)
    <2>1. /\ HowMany(mailbox', Of(r)) =
                HowMany(mailbox, Of(r)) + (IF r = running THEN 1 ELSE 0)
          /\ HowMany(mailbox, Of(r)) \in Nat /\ HowMany(stash, Of(r)) \in Nat
        BY <1>3, <1>4
    <2>2. replies[r] \in Nat /\ running' # r
        BY <1>1, <1>2, <1>3 DEF TypeOk
    <2> QED
        BY <1>1, <2>1, <2>2 DEF Places
<1>10. Placed'
    BY <1>1, <1>6, <1>9 DEF IInv, Placed
<1>11. TimerOfDelay'
    <2>1. HowMany(mailbox, Results) = 0
        BY <1>6 DEF IInv, OneResult
    <2>2. EndsFirst(mailbox')
        BY <1>1, <1>2, <1>3, <2>1, EndsFirstAppend DEF TypeOk
    <2> QED
        BY <1>1, <1>3, <1>4, <1>6, <2>2 DEF IInv, TimerOfDelay
<1>12. SetInDelay'
    BY <1>1, <1>3, <1>4, <1>6 DEF IInv, SetInDelay
<1>13. LateOnesAnswered'
    <2>1. ASSUME NEW z \in zombies PROVE replies'[z] > 0 /\ z # running'
        BY <1>1, <1>2, <1>3, <1>6 DEF IInv, LateOnesAnswered, TypeOk
    <2>2. HowMany(mailbox', ResultOf(running)) > 0
        BY <1>4, MessageKinds DEF ResultOf, m
    <2>3. running # running'
        BY <1>1
    <2> QED
        BY <1>1, <1>6, <2>1, <2>2, <2>3 DEF LateOnesAnswered
<1> QED
    BY <1>7, <1>8, <1>10, <1>11, <1>12, <1>13 DEF IInv

\* A task that was given up does not concern the actor any more.
LEMMA ZombieInv ==
    ASSUME IInv, NEW z, ZombieEnds(z)
    PROVE  IInv'
BY DEF ZombieEnds, IInv, TypeOk, StackShape, OneResult, Placed, Places, TimerOfDelay,
       SetInDelay, LateOnesAnswered, In

\* The result that a waiting actor takes is the only one.
LEMMA OtherResult ==
    ASSUME IInv, In("waitingModbus"), mailbox # <<>>, Message.type = "Result",
           NEW z, z # Message.id
    PROVE  ~(HowMany(mailbox, ResultOf(z)) > 0)
<1>1. /\ mailbox \in Seq(Messages) /\ Message \in Messages
      /\ Tail(mailbox) \in Seq(Messages)
    BY HeadTailProperties DEF IInv, TypeOk, Message
<1>2. Message \in Results /\ Message \notin ResultOf(z)
    BY <1>1, MessageIs DEF ResultOf
<1>3. HowMany(Tail(mailbox), Results) = 0
    <2>1. HowMany(mailbox, Results) = 1
        BY DEF IInv, OneResult
    <2>2. HowMany(mailbox, Results) = HowMany(Tail(mailbox), Results) + 1
        BY <1>1, <1>2, HowManyTail DEF Message
    <2>3. HowMany(Tail(mailbox), Results) \in Nat
        BY <1>1, HowManyNat
    <2> QED
        BY <2>1, <2>2, <2>3
<1>4. \A i \in DOMAIN Tail(mailbox) : Tail(mailbox)[i] \notin ResultOf(z)
    <2>1. ASSUME NEW i \in DOMAIN Tail(mailbox)
          PROVE  Tail(mailbox)[i] \in Messages /\ Tail(mailbox)[i] \notin Results
        BY <1>1, <1>3, HowManyNat, LenProperties, ElementOfSeq
    <2> QED
        BY <2>1, MessageIs DEF ResultOf
<1>5. HowMany(Tail(mailbox), ResultOf(z)) = 0
    BY <1>1, <1>4, HowManyNat
<1>6. HowMany(mailbox, ResultOf(z)) = HowMany(Tail(mailbox), ResultOf(z)) + 0
    BY <1>1, <1>2, HowManyTail DEF Message
<1> QED
    BY <1>5, <1>6

\* The result of a read is answered; what was put aside comes back.
LEMMA ReadResultInv ==
    ASSUME IInv, ReadResult
    PROVE  IInv'
<1> DEFINE q == Message.id
           rest == Tail(mailbox)
<1>1. /\ In("waitingModbus") /\ Receive("Result", Reads) /\ Reply(q)
      /\ stack' = UnbecomeStacked(stack) /\ mailbox' = rest \o stash /\ stash' = <<>>
      /\ UNCHANGED <<running, zombies, timer, window, applied, sent, starts>>
    BY DEF ReadResult, UnstashedAll
<1>2. /\ TypeOk /\ StackShape /\ running = None /\ mailbox # <<>>
      /\ Message \in Messages /\ Message.type = "Result" /\ q \in Reads
      /\ rest \in Seq(Messages)
      /\ \A P : HowMany(mailbox, P) = HowMany(rest, P) + (IF Message \in P THEN 1 ELSE 0)
      /\ \A P : HowMany(rest, P) \in Nat /\ HowMany(stash, P) \in Nat
    BY <1>1, Taken, CountsAreNat DEF IInv
<1>3. /\ q \in Requests /\ None \notin Requests /\ q \notin Sets
      /\ Message \in Results /\ Message \notin OfSets
      /\ \A r : Message \in Of(r) <=> r = q
    BY <1>2, MessageIs, KindsAreDisjoint DEF Requests
<1>4. replies' = [replies EXCEPT ![q] = @ + 1] /\ replies \in [Requests -> Nat]
    BY <1>1, <1>2 DEF Reply, TypeOk
<1>5. stack = <<"default", "waitingModbus">> /\ stack' = <<"default">>
    BY <1>1, <1>2, StackOfTop, StackOps
<1>6. /\ ~In("stopped") /\ ~In("waitingReadTimeout") /\ ~In("stopped")'
      /\ In("default")' /\ ~In("waitingModbus")' /\ ~In("waitingReadTimeout")'
    BY <1>5, TopOf DEF In
<1> HIDE DEF q, rest
<1>7. /\ mailbox' \in Seq(Messages) /\ stash' \in Seq(Messages)
      /\ \A P : HowMany(mailbox', P) = HowMany(rest, P) + HowMany(stash, P)
      /\ \A P : HowMany(stash', P) = 0
    <2>1. stash \in Seq(Messages)
        BY <1>2 DEF TypeOk
    <2>2. /\ rest \o stash \in Seq(Messages)
          /\ \A P : HowMany(rest \o stash, P) = HowMany(rest, P) + HowMany(stash, P)
        BY <1>2, <2>1, ConcatProperties, HowManyConcat
    <2>3. <<>> \in Seq(Messages)
        OBVIOUS
    <2>4. \A P : HowMany(<<>>, P) = 0
        BY HowManyShort
    <2> QED
        BY <1>1, <2>2, <2>3, <2>4
<1>8. TypeOk' /\ StackShape'
    <2>1. TypeOk'
        BY <1>1, <1>2, <1>3, <1>4, <1>7 DEF TypeOk
    <2>2. StackShape'
        BY <1>5, TopOf DEF StackShape, Stacks
    <2> QED
        BY <2>1, <2>2
<1>9. OneResult'
    <2>1. HowMany(rest, Results) = 0 /\ HowMany(stash, Results) = 0
        BY <1>1, <1>2, <1>3 DEF IInv, OneResult
    <2>2. HowMany(mailbox', Results) = 0 /\ HowMany(stash', Results) = 0
        BY <1>7, <2>1
    <2> QED
        BY <1>1, <1>2, <1>6, <2>2 DEF OneResult
<1>10. ASSUME NEW r \in Requests PROVE Places(r)' = Places(r)
    <2>1. /\ HowMany(mailbox, Of(r)) = HowMany(rest, Of(r)) + (IF r = q THEN 1 ELSE 0)
          /\ HowMany(mailbox', Of(r)) = HowMany(rest, Of(r)) + HowMany(stash, Of(r))
          /\ HowMany(rest, Of(r)) \in Nat /\ HowMany(stash, Of(r)) \in Nat
          /\ HowMany(stash', Of(r)) = 0
        BY <1>2, <1>3, <1>7
    <2>2. replies'[r] = replies[r] + (IF r = q THEN 1 ELSE 0) /\ replies[r] \in Nat
        BY <1>3, <1>4
    <2>3. running' = running
        BY <1>1
    <2> QED
        BY <2>1, <2>2, <2>3 DEF Places
<1>11. Placed'
    BY <1>1, <1>6, <1>10 DEF IInv, Placed
<1>12. TimerOfDelay'
    <2>1. EndsFirst(mailbox')
        BY <1>6, <1>7, <1>9, EndsFirstAppend, MessageKinds DEF OneResult
    <2> QED
        BY <1>1, <1>6, <2>1 DEF IInv, TimerOfDelay
<1>13. SetInDelay'
    <2>1. /\ HowMany(mailbox, OfSets) = HowMany(rest, OfSets)
          /\ HowMany(mailbox', OfSets) = HowMany(rest, OfSets) + HowMany(stash, OfSets)
          /\ HowMany(rest, OfSets) \in Nat /\ HowMany(stash, OfSets) \in Nat
        BY <1>2, <1>3, <1>7
    <2>2. running \notin Sets
        BY <1>2, KindsAreDisjoint
    <2> QED
        BY <1>1, <1>6, <2>1, <2>2 DEF IInv, SetInDelay
<1>14. LateOnesAnswered'
    <2>1. ASSUME NEW z \in zombies PROVE replies'[z] > 0 /\ z # running'
        <3>1. z \in Sets /\ z \in Requests /\ z # running /\ z # q
            BY <1>2, <1>3, MessageKinds DEF IInv, LateOnesAnswered, TypeOk
        <3>2. replies[z] > 0
            BY <1>1, <1>2, <3>1, OtherResult DEF IInv, LateOnesAnswered, q
        <3> QED
            BY <1>1, <1>3, <1>4, <3>1, <3>2
    <2> QED
        BY <1>1, <2>1 DEF LateOnesAnswered
<1> QED
    BY <1>8, <1>9, <1>11, <1>12, <1>13, <1>14 DEF IInv

\* The result of a Set is answered and begins the delay.
LEMMA SetResultInv ==
    ASSUME IInv, SetResult
    PROVE  IInv'
<1> DEFINE q == Message.id
<1>1. /\ In("waitingModbus") /\ Receive("Result", Sets) /\ Reply(q)
      /\ stack' = BecomeStacked(UnbecomeStacked(stack), "waitingReadTimeout")
      /\ timer' = TRUE /\ window' = TRUE /\ mailbox' = Tail(mailbox)
      /\ UNCHANGED <<stash, running, zombies, applied, sent, starts>>
    BY DEF SetResult
<1>2. /\ TypeOk /\ StackShape /\ running = None /\ mailbox # <<>>
      /\ Message \in Messages /\ Message.type = "Result" /\ q \in Sets
      /\ mailbox' \in Seq(Messages)
      /\ \A P : HowMany(mailbox, P) =
                   HowMany(mailbox', P) + (IF Message \in P THEN 1 ELSE 0)
      /\ \A P : HowMany(mailbox', P) \in Nat /\ HowMany(stash, P) \in Nat
    BY <1>1, Taken, CountsAreNat DEF IInv
<1>3. /\ q \in Requests /\ Message \in Results
      /\ \A r : Message \in Of(r) <=> r = q
    BY <1>2, MessageIs DEF Requests
<1>4. replies' = [replies EXCEPT ![q] = @ + 1] /\ replies \in [Requests -> Nat]
    BY <1>1, <1>2 DEF Reply, TypeOk
<1>5. /\ stack = <<"default", "waitingModbus">>
      /\ stack' = <<"default", "waitingReadTimeout">>
    <2>1. stack = <<"default", "waitingModbus">>
        BY <1>1, <1>2, StackOfTop
    <2>2. UnbecomeStacked(stack) = <<"default">>
        BY <2>1, StackOps
    <2> QED
        BY <1>1, <2>1, <2>2, StackOps
<1>6. /\ ~In("stopped") /\ ~In("stopped")'
      /\ ~In("waitingModbus")' /\ In("waitingReadTimeout")'
    BY <1>5, TopOf DEF In
<1> HIDE DEF q
<1>7. TypeOk' /\ StackShape'
    BY <1>1, <1>2, <1>3, <1>4, <1>5, TopOf DEF TypeOk, StackShape, Stacks
<1>8. OneResult'
    BY <1>1, <1>2, <1>3, <1>6 DEF IInv, OneResult
<1>9. ASSUME NEW r \in Requests PROVE Places(r)' = Places(r)
    <2>1. /\ HowMany(mailbox, Of(r)) = HowMany(mailbox', Of(r)) + (IF r = q THEN 1 ELSE 0)
          /\ HowMany(mailbox', Of(r)) \in Nat /\ HowMany(stash, Of(r)) \in Nat
        BY <1>2, <1>3
    <2>2. replies'[r] = replies[r] + (IF r = q THEN 1 ELSE 0) /\ replies[r] \in Nat
        BY <1>3, <1>4
    <2> QED
        BY <1>1, <2>1, <2>2 DEF Places
<1>10. Placed'
    BY <1>1, <1>6, <1>9 DEF IInv, Placed
<1>11. TimerOfDelay'
    <2>1. EndsFirst(mailbox') /\ HowMany(mailbox', TimeoutEnds) = 0
        BY <1>1, <1>2, EndsFirstTail DEF IInv, TimerOfDelay, TypeOk, Message
    <2> QED
        BY <1>1, <1>6, <2>1 DEF TimerOfDelay
<1>12. SetInDelay'
    BY <1>6 DEF SetInDelay
<1>13. LateOnesAnswered'
    <2>1. ASSUME NEW z \in zombies PROVE replies'[z] > 0 /\ z # running'
        <3>1. z \in Requests /\ z # running /\ replies[z] \in Nat
            BY <1>2, MessageKinds DEF IInv, LateOnesAnswered, TypeOk
        <3>2. z # q => replies[z] > 0
            BY <1>1, <1>2, <3>1, OtherResult DEF IInv, LateOnesAnswered, q
        <3> QED
            BY <1>1, <1>3, <1>4, <3>1, <3>2
    <2> QED
        BY <1>1, <2>1 DEF LateOnesAnswered
<1> QED
    BY <1>7, <1>8, <1>10, <1>11, <1>12, <1>13 DEF IInv

\* A message put aside moves from the mailbox to the stash.
LEMMA StashInv ==
    ASSUME IInv, StashMessage
    PROVE  IInv'
<1>1. /\ \/ /\ In("waitingModbus")
            /\ Receive("Request", Requests) \/ Receive("TimeoutEnd", {None})
         \/ In("waitingReadTimeout") /\ Receive("Request", Reads)
      /\ stash' = Append(stash, Message) /\ mailbox' = Tail(mailbox)
      /\ UNCHANGED <<stack, running, zombies, timer, window, applied, sent, replies, starts>>
    BY DEF StashMessage, Stashed
<1>2. /\ TypeOk /\ StackShape /\ running = None /\ mailbox # <<>>
      /\ Message \in Messages /\ Message.type \in {"Request", "TimeoutEnd"}
      /\ mailbox' \in Seq(Messages)
      /\ \A P : HowMany(mailbox, P) =
                   HowMany(mailbox', P) + (IF Message \in P THEN 1 ELSE 0)
      /\ \A P : HowMany(mailbox', P) \in Nat /\ HowMany(stash, P) \in Nat
    BY <1>1, Taken, CountsAreNat DEF IInv
<1>3. /\ stash' \in Seq(Messages)
      /\ \A P : HowMany(stash', P) = HowMany(stash, P) + (IF Message \in P THEN 1 ELSE 0)
    BY <1>1, <1>2, AppendProperties, HowManyAppend DEF TypeOk
<1>4. Message \notin Results
    BY <1>2, MessageIs
<1>5. In("waitingModbus") \/ In("waitingReadTimeout")
    BY <1>1
<1>6. TypeOk' /\ StackShape'
    <2>1. stack \notin {<<"starting">>, <<"stopped">>}
        BY <1>5, TopOf DEF In
    <2> QED
        BY <1>1, <1>2, <1>3, <2>1 DEF TypeOk, StackShape
<1>7. OneResult'
    <2>1. /\ HowMany(mailbox', Results) = HowMany(mailbox, Results)
          /\ HowMany(stash', Results) = HowMany(stash, Results)
        BY <1>2, <1>3, <1>4
    <2>2. UNCHANGED <<stack, running>>
        BY <1>1
    <2> QED
        BY <2>1, <2>2 DEF IInv, OneResult, In
<1>8. ASSUME NEW r \in Requests PROVE Places(r)' = Places(r)
    <2>1. /\ HowMany(mailbox, Of(r)) =
                HowMany(mailbox', Of(r)) + (IF Message \in Of(r) THEN 1 ELSE 0)
          /\ HowMany(stash', Of(r)) =
                HowMany(stash, Of(r)) + (IF Message \in Of(r) THEN 1 ELSE 0)
          /\ HowMany(mailbox', Of(r)) \in Nat /\ HowMany(stash, Of(r)) \in Nat
        BY <1>2, <1>3
    <2>2. replies[r] \in Nat
        BY <1>2 DEF TypeOk
    <2> QED
        BY <1>1, <2>1, <2>2 DEF Places
<1>9. Placed'
    BY <1>1, <1>8 DEF IInv, Placed, In
<1>10. TimerOfDelay'
    BY <1>1, <1>2, EndsFirstTail DEF IInv, TimerOfDelay, TypeOk, In
<1>11. SetInDelay'
    <2>1. /\ HowMany(mailbox, OfSets) =
                HowMany(mailbox', OfSets) + (IF Message \in OfSets THEN 1 ELSE 0)
          /\ HowMany(stash', OfSets) =
                HowMany(stash, OfSets) + (IF Message \in OfSets THEN 1 ELSE 0)
          /\ HowMany(mailbox', OfSets) \in Nat /\ HowMany(stash, OfSets) \in Nat
        BY <1>2, <1>3
    <2> QED
        BY <1>1, <1>5, <2>1 DEF IInv, SetInDelay, In
<1>12. LateOnesAnswered'
    <2>1. \A z : HowMany(mailbox', ResultOf(z)) = HowMany(mailbox, ResultOf(z))
        <3>1. \A z : Message \notin ResultOf(z)
            BY <1>2 DEF ResultOf
        <3> QED
            BY <1>2, <3>1
    <2> QED
        BY <1>1, <2>1 DEF IInv, LateOnesAnswered, In
<1> QED
    BY <1>6, <1>7, <1>9, <1>10, <1>11, <1>12 DEF IInv

\* A Set in the delay ends it, and is the Set that is still to be served.
LEMMA SetDuringDelayInv ==
    ASSUME IInv, SetDuringDelay
    PROVE  IInv'
<1> DEFINE rest == Tail(mailbox)
<1>1. /\ In("waitingReadTimeout") /\ Receive("Request", Sets)
      /\ timer' = FALSE /\ mailbox' = Append(rest, Message)
      /\ stack' = UnbecomeStacked(stack)
      /\ UNCHANGED <<stash, running, zombies, window, applied, sent, replies, starts>>
    BY DEF SetDuringDelay
<1>2. /\ TypeOk /\ StackShape /\ running = None /\ mailbox # <<>>
      /\ Message \in Messages /\ Message.type = "Request" /\ Message.id \in Sets
      /\ rest \in Seq(Messages)
      /\ \A P : HowMany(mailbox, P) = HowMany(rest, P) + (IF Message \in P THEN 1 ELSE 0)
      /\ \A P : HowMany(rest, P) \in Nat
    BY <1>1, Taken DEF IInv
<1>3. Message \in OfSets
    BY <1>2, MessageIs
<1>4. stack = <<"default", "waitingReadTimeout">> /\ stack' = <<"default">>
    BY <1>1, <1>2, StackOfTop, StackOps
<1>5. /\ ~In("stopped") /\ ~In("stopped")' /\ ~In("waitingModbus")
      /\ ~In("waitingModbus")' /\ ~In("waitingReadTimeout")' /\ In("default")'
    BY <1>4, TopOf DEF In
<1> HIDE DEF rest
<1>6. /\ mailbox' \in Seq(Messages)
      /\ \A P : HowMany(mailbox', P) = HowMany(rest, P) + (IF Message \in P THEN 1 ELSE 0)
    BY <1>1, <1>2, AppendProperties, HowManyAppend
<1>7. \A P : HowMany(mailbox', P) = HowMany(mailbox, P)
    BY <1>2, <1>6
<1>8. TypeOk' /\ StackShape'
    BY <1>1, <1>2, <1>4, <1>6, TopOf DEF TypeOk, StackShape, Stacks
<1>9. OneResult'
    BY <1>1, <1>2, <1>5, <1>7 DEF IInv, OneResult
<1>10. Placed'
    BY <1>1, <1>5, <1>7 DEF IInv, Placed, Places
<1>11. TimerOfDelay'
    <2>1. EndsFirst(mailbox')
        BY <1>5, <1>6, <1>9, EndsFirstAppend, MessageKinds DEF OneResult
    <2> QED
        BY <1>1, <1>5, <2>1 DEF TimerOfDelay
<1>12. SetInDelay'
    BY <1>2, <1>3, <1>6 DEF SetInDelay
<1>13. LateOnesAnswered'
    BY <1>1, <1>5 DEF IInv, LateOnesAnswered
<1> QED
    BY <1>8, <1>9, <1>10, <1>11, <1>12, <1>13 DEF IInv

\* The delay is over: what was put aside comes back.
LEMMA DelayOverInv ==
    ASSUME IInv, DelayOver
    PROVE  IInv'
<1> DEFINE rest == Tail(mailbox)
<1>1. /\ In("waitingReadTimeout") /\ Receive("TimeoutEnd", {None})
      /\ stack' = UnbecomeStacked(stack) /\ mailbox' = rest \o stash /\ stash' = <<>>
      /\ UNCHANGED <<running, zombies, timer, window, applied, sent, replies, starts>>
    BY DEF DelayOver, UnstashedAll
<1>2. /\ TypeOk /\ StackShape /\ running = None /\ mailbox # <<>>
      /\ Message \in Messages /\ Message.type = "TimeoutEnd"
      /\ rest \in Seq(Messages)
      /\ \A P : HowMany(mailbox, P) = HowMany(rest, P) + (IF Message \in P THEN 1 ELSE 0)
      /\ \A P : HowMany(rest, P) \in Nat /\ HowMany(stash, P) \in Nat
    BY <1>1, Taken, CountsAreNat DEF IInv
<1>3. /\ Message \in TimeoutEnds /\ Message \notin Results
      /\ \A r \in Requests : Message \notin Of(r)
    BY <1>2, MessageIs, MessageKinds
<1>4. stack = <<"default", "waitingReadTimeout">> /\ stack' = <<"default">>
    BY <1>1, <1>2, StackOfTop, StackOps
<1>5. /\ ~In("stopped") /\ ~In("stopped")' /\ ~In("waitingModbus")
      /\ ~In("waitingModbus")' /\ ~In("waitingReadTimeout")' /\ In("default")'
    BY <1>4, TopOf DEF In
<1> HIDE DEF rest
<1>6. ~timer /\ ~window
    <2>1. HowMany(mailbox, TimeoutEnds) > 0
        BY <1>2, <1>3
    <2> QED
        BY <1>1, <2>1 DEF IInv, TimerOfDelay
<1>7. /\ mailbox' \in Seq(Messages) /\ stash' \in Seq(Messages)
      /\ \A P : HowMany(mailbox', P) = HowMany(rest, P) + HowMany(stash, P)
      /\ \A P : HowMany(stash', P) = 0
    <2>1. stash \in Seq(Messages)
        BY <1>2 DEF TypeOk
    <2>2. /\ rest \o stash \in Seq(Messages)
          /\ \A P : HowMany(rest \o stash, P) = HowMany(rest, P) + HowMany(stash, P)
        BY <1>2, <2>1, ConcatProperties, HowManyConcat
    <2>3. <<>> \in Seq(Messages)
        OBVIOUS
    <2>4. \A P : HowMany(<<>>, P) = 0
        BY HowManyShort
    <2> QED
        BY <1>1, <2>2, <2>3, <2>4
<1>8. TypeOk'
    BY <1>1, <1>2, <1>7 DEF TypeOk
<1>9. StackShape'
    BY <1>4, TopOf DEF StackShape, Stacks
<1>10. OneResult'
    <2>1. HowMany(rest, Results) = 0 /\ HowMany(stash, Results) = 0
        BY <1>2, <1>3, <1>5 DEF IInv, OneResult
    <2>2. HowMany(mailbox', Results) = 0 /\ HowMany(stash', Results) = 0
        BY <1>7, <2>1
    <2> QED
        BY <1>1, <1>2, <1>5, <2>2 DEF OneResult
<1>11. ASSUME NEW r \in Requests PROVE Places(r)' = Places(r)
    <2>1. /\ HowMany(mailbox, Of(r)) = HowMany(rest, Of(r))
          /\ HowMany(mailbox', Of(r)) = HowMany(rest, Of(r)) + HowMany(stash, Of(r))
          /\ HowMany(rest, Of(r)) \in Nat /\ HowMany(stash, Of(r)) \in Nat
          /\ HowMany(stash', Of(r)) = 0
        BY <1>2, <1>3, <1>7
    <2>2. UNCHANGED <<running, replies>>
        BY <1>1
    <2> QED
        BY <2>1, <2>2 DEF Places
<1>12. Placed'
    BY <1>1, <1>5, <1>11 DEF IInv, Placed
<1>13. TimerOfDelay'
    <2>1. EndsFirst(mailbox')
        BY <1>5, <1>7, <1>10, EndsFirstAppend, MessageKinds DEF OneResult
    <2> QED
        BY <1>1, <1>5, <1>6, <2>1 DEF TimerOfDelay
<1>14. SetInDelay'
    BY <1>1, <1>6 DEF SetInDelay
<1>15. LateOnesAnswered'
    BY <1>1, <1>5 DEF IInv, LateOnesAnswered
<1> QED
    BY <1>8, <1>9, <1>10, <1>12, <1>13, <1>14, <1>15 DEF IInv

\* The late end of a delay that a Set has ended is dropped.
LEMMA StaleTimeoutInv ==
    ASSUME IInv, StaleTimeout
    PROVE  IInv'
<1>1. /\ In("default") /\ Receive("TimeoutEnd", {None}) /\ mailbox' = Tail(mailbox)
      /\ UNCHANGED <<stack, stash, running, zombies, timer, window, applied, sent,
                     replies, starts>>
    BY DEF StaleTimeout
<1>2. /\ TypeOk /\ StackShape /\ running = None /\ mailbox # <<>>
      /\ Message \in Messages /\ Message.type = "TimeoutEnd"
      /\ mailbox' \in Seq(Messages)
      /\ \A P : HowMany(mailbox, P) =
                   HowMany(mailbox', P) + (IF Message \in P THEN 1 ELSE 0)
      /\ \A P : HowMany(mailbox', P) \in Nat
    BY <1>1, Taken DEF IInv
<1>3. /\ Message \notin Results /\ Message \notin OfSets
      /\ \A r \in Requests : Message \notin Of(r)
    BY <1>2, MessageIs, MessageKinds
<1>4. stack = <<"default">>
    BY <1>1, <1>2, StackOfTop
<1>5. ~In("waitingModbus") /\ ~In("waitingReadTimeout")
    BY <1>4, TopOf DEF In
<1>6. TypeOk' /\ StackShape'
    BY <1>1, <1>2 DEF TypeOk, StackShape
<1>7. OneResult'
    BY <1>1, <1>2, <1>3 DEF IInv, OneResult, In
<1>8. ASSUME NEW r \in Requests PROVE HowMany(mailbox', Of(r)) = HowMany(mailbox, Of(r))
    BY <1>2, <1>3
<1>9. Placed'
    BY <1>1, <1>8 DEF IInv, Placed, Places, In
<1>10. TimerOfDelay'
    BY <1>1, <1>2, <1>5, EndsFirstTail DEF IInv, TimerOfDelay, TypeOk, In
<1>11. SetInDelay'
    <2>1. HowMany(mailbox', OfSets) = HowMany(mailbox, OfSets)
        BY <1>2, <1>3
    <2> QED
        BY <1>1, <2>1 DEF IInv, SetInDelay, In
<1>12. LateOnesAnswered'
    BY <1>1, <1>5 DEF IInv, LateOnesAnswered
<1> QED
    BY <1>6, <1>7, <1>9, <1>10, <1>11, <1>12 DEF IInv

\* A request is sent.
LEMMA SendInv ==
    ASSUME IInv, NEW q \in Requests, Send(q)
    PROVE  IInv'
<1> DEFINE m == [type |-> "Request", id |-> q]
<1>1. /\ q \notin sent /\ ~In("stopped")
      /\ sent' = sent \cup {q} /\ mailbox' = Append(mailbox, m)
      /\ UNCHANGED <<stack, stash, running, zombies, timer, window, applied, replies, starts>>
    BY DEF Send
<1>2. /\ m \in Messages /\ m \notin Results /\ m \notin TimeoutEnds
      /\ \A s \in Requests : m \in Of(s) <=> s = q
      /\ m.type = "Request"
    BY MessageKinds
<1> HIDE DEF m
<1>3. /\ TypeOk /\ StackShape /\ mailbox' \in Seq(Messages)
      /\ \A P : HowMany(mailbox', P) = HowMany(mailbox, P) + (IF m \in P THEN 1 ELSE 0)
      /\ \A P : HowMany(mailbox, P) \in Nat /\ HowMany(stash, P) \in Nat
    BY <1>1, <1>2, AppendProperties, HowManyAppend, CountsAreNat DEF IInv, TypeOk
<1>4. TypeOk' /\ StackShape'
    BY <1>1, <1>3 DEF TypeOk, StackShape
<1>5. OneResult'
    BY <1>1, <1>2, <1>3 DEF IInv, OneResult, In
<1>6. ASSUME NEW r \in Requests
      PROVE  Places(r)' = Places(r) + (IF r = q THEN 1 ELSE 0)
    <2>1. /\ HowMany(mailbox', Of(r)) = HowMany(mailbox, Of(r)) + (IF r = q THEN 1 ELSE 0)
          /\ HowMany(mailbox, Of(r)) \in Nat /\ HowMany(stash, Of(r)) \in Nat
        BY <1>2, <1>3
    <2>2. replies[r] \in Nat /\ UNCHANGED <<running, replies, stash>>
        BY <1>1, <1>3 DEF TypeOk
    <2> QED
        BY <2>1, <2>2 DEF Places
<1>7. Placed'
    BY <1>1, <1>6 DEF IInv, Placed, In
<1>8. TimerOfDelay'
    <2>1. EndsFirst(mailbox')
        BY <1>1, <1>2, EndsFirstAppend DEF IInv, TimerOfDelay, TypeOk
    <2>2. HowMany(mailbox', TimeoutEnds) = HowMany(mailbox, TimeoutEnds)
        BY <1>2, <1>3
    <2> QED
        BY <1>1, <2>1, <2>2 DEF IInv, TimerOfDelay, In
<1>9. SetInDelay'
    <2>1. HowMany(mailbox', OfSets) >= HowMany(mailbox, OfSets) /\ HowMany(mailbox, OfSets) \in Nat
        BY <1>3
    <2>2. HowMany(mailbox, OfSets) > 0 => HowMany(mailbox', OfSets) > 0
        BY <1>3
    <2> QED
        BY <1>1, <2>2 DEF IInv, SetInDelay, In
<1>10. LateOnesAnswered'
    <2>1. \A z : HowMany(mailbox, ResultOf(z)) > 0 => HowMany(mailbox', ResultOf(z)) > 0
        BY <1>3
    <2> QED
        BY <1>1, <2>1 DEF IInv, LateOnesAnswered, In
<1> QED
    BY <1>4, <1>5, <1>7, <1>8, <1>9, <1>10 DEF IInv

\* The delay passes, and its timer fires if no Set has cancelled it.
LEMMA DelayPassesInv ==
    ASSUME IInv, DelayPasses
    PROVE  IInv'
<1> DEFINE m == [type |-> "TimeoutEnd", id |-> None]
<1>1. /\ window /\ window' = FALSE /\ timer' = FALSE
      /\ mailbox' = IF timer THEN Append(mailbox, m) ELSE mailbox
      /\ UNCHANGED <<stack, stash, running, zombies, applied, sent, replies, starts>>
    BY DEF DelayPasses
<1>2. /\ m \in Messages /\ m \notin Results /\ m.type = "TimeoutEnd"
      /\ \A s \in Requests : m \notin Of(s)
    BY MessageKinds
<1> HIDE DEF m
<1>3. TypeOk /\ StackShape /\ \A P : HowMany(mailbox, P) \in Nat
    BY CountsAreNat DEF IInv
<1>4. /\ mailbox' \in Seq(Messages)
      /\ HowMany(mailbox', Results) = HowMany(mailbox, Results)
      /\ \A s \in Requests : HowMany(mailbox', Of(s)) = HowMany(mailbox, Of(s))
    BY <1>1, <1>2, <1>3, AppendProperties, HowManyAppend DEF TypeOk
<1>5. TypeOk' /\ StackShape'
    BY <1>1, <1>3, <1>4 DEF TypeOk, StackShape
<1>6. OneResult' /\ Placed'
    BY <1>1, <1>4 DEF IInv, OneResult, Placed, Places, In
<1>7. EndsFirst(mailbox')
    <2>1. CASE timer
        <3>1. stack = <<"default", "waitingReadTimeout">>
            BY <1>3, <2>1, StackOfTop DEF IInv, TimerOfDelay
        <3>2. ~In("waitingModbus")
            BY <3>1, TopOf DEF In
        <3>3. HowMany(mailbox, Results) = 0
            BY <3>2 DEF IInv, OneResult
        <3> QED
            BY <1>1, <1>2, <1>3, <2>1, <3>3, EndsFirstAppend DEF TypeOk
    <2>2. CASE ~timer
        BY <1>1, <2>2 DEF IInv, TimerOfDelay
    <2> QED
        BY <2>1, <2>2
<1>8. TimerOfDelay' /\ SetInDelay'
    BY <1>1, <1>7 DEF TimerOfDelay, SetInDelay
<1>9. LateOnesAnswered'
    <2>1. ASSUME NEW z, HowMany(mailbox, ResultOf(z)) > 0
          PROVE  HowMany(mailbox', ResultOf(z)) > 0
        <3>1. HowMany(Append(mailbox, m), ResultOf(z)) =
                 HowMany(mailbox, ResultOf(z)) + (IF m \in ResultOf(z) THEN 1 ELSE 0)
            BY <1>2, <1>3, HowManyAppend DEF TypeOk
        <3> QED
            BY <1>1, <1>3, <2>1, <3>1
    <2> QED
        BY <1>1, <2>1 DEF IInv, LateOnesAnswered, In
<1> QED
    BY <1>5, <1>6, <1>8, <1>9 DEF IInv

-----------------------------------------------------------------------------

\* Every step keeps the invariant.
LEMMA NextInv ==
    ASSUME IInv, [Next]_vars
    PROVE  IInv'
<1>1. CASE Handle
    BY <1>1, HealthCheckInv, BeginInv, ReadResultInv, SetResultInv, StashInv,
       SetDuringDelayInv, DelayOverInv, StaleTimeoutInv DEF Handle
<1>2. ASSUME NEW r \in Requests, Send(r) \/ ZombieEnds(r)
      PROVE  IInv'
    BY <1>2, SendInv, ZombieInv
<1>3. CASE UNCHANGED vars
    BY <1>3 DEF vars, IInv, TypeOk, StackShape, OneResult, Placed, Places, TimerOfDelay,
                SetInDelay, LateOnesAnswered, In
<1> QED
    BY <1>1, <1>2, <1>3, StartInv, StartFailsInv, FinishInv, DelayPassesInv DEF Next

\* The invariant holds in every reachable state.
THEOREM Invariance == Spec => []IInv
<1>1. Init => IInv
    BY InitInv
<1>2. IInv /\ [Next]_vars => IInv'
    BY NextInv
<1> QED
    BY <1>1, <1>2, PTL DEF Spec

(* What the invariant says of the runs' properties *)

\* Counting the messages of a request by identity or by membership is the same.
LEMMA CountIs ==
    ASSUME NEW q \in Seq(Messages), NEW r
    PROVE  Count(q, r) = HowMany(q, Of(r))
<1>1. \A i \in DOMAIN q : q[i] \in Messages
    BY LenProperties, ElementOfSeq
<1>2. {i \in DOMAIN q : q[i].id = r} = {i \in DOMAIN q : q[i] \in Of(r)}
    BY <1>1 DEF Of
<1> QED
    BY <1>2 DEF Count, HowMany

\* A sent request is in exactly one place until it is answered once.
LEMMA OnePlaceHolds == IInv => OnePlace
<1> SUFFICES ASSUME IInv, NEW r \in sent, ~In("stopped")
             PROVE  Count(mailbox, r) + Count(stash, r) + (IF running = r THEN 1 ELSE 0)
                      + replies[r] = 1
    BY DEF OnePlace
<1>1. mailbox \in Seq(Messages) /\ stash \in Seq(Messages) /\ r \in Requests
    BY DEF IInv, TypeOk
<1>2. Places(r) = 1
    BY <1>1 DEF IInv, Placed
<1>3. Count(mailbox, r) = HowMany(mailbox, Of(r)) /\ Count(stash, r) = HowMany(stash, Of(r))
    BY <1>1, CountIs
<1> QED
    BY <1>2, <1>3 DEF Places

\* One message of a kind: its position is the only one.
LEMMA OnlyOne ==
    ASSUME NEW S, NEW q \in Seq(S), NEW P, HowMany(q, P) = 1
    PROVE  \E i \in DOMAIN q : {j \in DOMAIN q : q[j] \in P} = {i}
<1> DEFINE at == {j \in DOMAIN q : q[j] \in P}
<1>1. IsFiniteSet(at) /\ Cardinality(at) = 1
    BY HowManyNat DEF HowMany
<1>2. PICK i : at = {i}
    <2> HIDE DEF at
    <2> QED
        BY <1>1, FS_Singleton
<1> QED
    BY <1>2

\* The actor waits for a result exactly when one is on its way, and nobody for a
\* task that has outlived its time limit.
LEMMA ResultAwaitedHolds == IInv => ResultAwaited
<1> SUFFICES ASSUME IInv PROVE ResultAwaited
    OBVIOUS
<1> DEFINE results == {i \in DOMAIN mailbox : mailbox[i].type = "Result"}
<1>1. mailbox \in Seq(Messages) /\ stash \in Seq(Messages)
    BY DEF IInv, TypeOk
<1>2. results = {i \in DOMAIN mailbox : mailbox[i] \in Results}
    <2>1. \A i \in DOMAIN mailbox : mailbox[i] \in Messages
        BY <1>1, LenProperties, ElementOfSeq
    <2> QED
        BY <2>1 DEF Results
<1>3. In("waitingModbus") => \E i \in results : results = {i}
    <2> SUFFICES ASSUME In("waitingModbus") PROVE \E i \in results : results = {i}
        OBVIOUS
    <2>1. HowMany(mailbox, Results) = 1
        BY DEF IInv, OneResult
    <2>2. PICK i \in DOMAIN mailbox : {j \in DOMAIN mailbox : mailbox[j] \in Results} = {i}
        BY <1>1, <2>1, OnlyOne
    <2> QED
        BY <1>2, <2>2
<1>4. ~In("waitingModbus") => results = {}
    <2> SUFFICES ASSUME ~In("waitingModbus") PROVE results = {}
        OBVIOUS
    <2>1. HowMany(mailbox, Results) = 0
        BY DEF IInv, OneResult
    <2>2. \A i \in DOMAIN mailbox : mailbox[i] \notin Results
        BY <1>1, <2>1, HowManyNat
    <2> QED
        BY <1>2, <2>2
<1>5. ~InQueue(stash, {"Result"})
    <2>1. HowMany(stash, {m \in Messages : m.type \in {"Result"}}) = 0
        BY DEF IInv, OneResult, Results
    <2>2. InQueue(stash, {"Result"})
            <=> HowMany(stash, {m \in Messages : m.type \in {"Result"}}) > 0
        BY <1>1, HowManyOfTypes
    <2> QED
        BY <2>1, <2>2
<1>6. running # None => In("default")
    BY DEF IInv, OneResult
<1>7. ASSUME NEW s \in zombies
      PROVE  s # running /\ (replies[s] > 0 \/ \E i \in results : mailbox[i].id = s)
    <2>1. /\ s # running
          /\ replies[s] > 0 \/ HowMany(mailbox, ResultOf(s)) # 0
        BY DEF IInv, LateOnesAnswered
    <2>2. ASSUME HowMany(mailbox, ResultOf(s)) # 0
          PROVE  \E i \in results : mailbox[i].id = s
        <3>1. PICK i \in DOMAIN mailbox : mailbox[i] \in ResultOf(s)
            BY <1>1, <2>2, HowManyNat
        <3>2. mailbox[i].type = "Result" /\ mailbox[i].id = s
            BY <3>1 DEF ResultOf
        <3> QED
            BY <3>2
    <2> QED
        BY <2>1, <2>2
<1> QED
    BY <1>3, <1>4, <1>5, <1>6, <1>7 DEF ResultAwaited

\* No end of an earlier delay is left to cut the present one short.
LEMMA DelayNotCutShortHolds == IInv => DelayNotCutShort
<1> SUFFICES ASSUME IInv, In("waitingReadTimeout"), window
             PROVE  timer /\ ~InQueue(mailbox, {"TimeoutEnd"})
    BY DEF DelayNotCutShort
<1>1. timer /\ HowMany(mailbox, TimeoutEnds) = 0 /\ mailbox \in Seq(Messages)
    BY DEF IInv, TimerOfDelay, TypeOk
<1>2. InQueue(mailbox, {"TimeoutEnd"}) <=> HowMany(mailbox, TimeoutEnds) > 0
    BY <1>1, HowManyOfTypes DEF TimeoutEnds
<1> QED
    BY <1>1, <1>2

\* A read that runs in the delay was let through by a Set still to be served.
LEMMA ReadsWaitForDelayHolds == IInv => ReadsWaitForDelay
<1> SUFFICES ASSUME IInv, running \in Reads, window
             PROVE  \E i \in DOMAIN mailbox : mailbox[i].id \in Sets
    BY DEF ReadsWaitForDelay
<1>1. running # None /\ running \notin Sets
    BY KindsAreDisjoint
<1>2. In("default") /\ mailbox \in Seq(Messages) /\ StackShape
    BY <1>1 DEF IInv, OneResult, TypeOk
<1>3. ~In("waitingModbus") /\ ~In("waitingReadTimeout")
    <2>1. stack = <<"default">>
        BY <1>2, StackOfTop
    <2> QED
        BY <2>1, TopOf DEF In
<1>4. HowMany(mailbox, OfSets) > 0
    BY <1>1, <1>3 DEF IInv, SetInDelay
<1>5. PICK i \in DOMAIN mailbox : mailbox[i] \in OfSets
    <2>1. HowMany(mailbox, OfSets) # 0
        BY <1>4
    <2> QED
        BY <1>2, <2>1, HowManyNat
<1> QED
    BY <1>5 DEF OfSets

\* OnePlace: a sent request is in exactly one place, whatever is stashed, sent
\* again or unstashed, until it is answered.
THEOREM EachInOnePlace == Spec => []OnePlace
BY Invariance, OnePlaceHolds, PTL

\* ResultAwaited: the actor waits for a result exactly when one is on its way, and
\* takes up no request before it is handled; a task that goes on beside the next
\* one has outlived its time limit and its sender was answered.
THEOREM AwaitsItsResult == Spec => []ResultAwaited
BY Invariance, ResultAwaitedHolds, PTL

\* DelayNotCutShort: only a delay that has passed ends.
THEOREM DelayLasts == Spec => []DelayNotCutShort
BY Invariance, DelayNotCutShortHolds, PTL

\* ReadsWaitForDelay: the delay of a Set holds reads back, unless a later Set,
\* still to be served, has ended it.
THEOREM ReadsWait == Spec => []ReadsWaitForDelay
BY Invariance, ReadsWaitForDelayHolds, PTL

-----------------------------------------------------------------------------
(* The refinement of SetService *)

Asks(s) == {[type |-> "Request", id |-> s]}

\* The number of messages that ask for a Set, in the mailbox and put aside.
AskCount(s) == HowMany(mailbox, Asks(s)) + HowMany(stash, Asks(s))

WaitingSets == {s \in Sets : Asking(mailbox, s) \/ Asking(stash, s)}
ServedSet == IF running \in Sets THEN running ELSE None

\* A Set waits exactly when a message that asks for it is held.
LEMMA WaitingIs ==
    ASSUME NEW q \in Seq(Messages), NEW st \in Seq(Messages), NEW s
    PROVE  /\ Asking(q, s) \/ Asking(st, s)
                <=> HowMany(q, Asks(s)) + HowMany(st, Asks(s)) > 0
           /\ HowMany(q, Asks(s)) \in Nat /\ HowMany(st, Asks(s)) \in Nat
<1>1. ASSUME NEW p \in Seq(Messages)
      PROVE  HowMany(p, Asks(s)) \in Nat /\ (Asking(p, s) <=> HowMany(p, Asks(s)) > 0)
    <2>1. HowMany(p, Asks(s)) \in Nat
             /\ (HowMany(p, Asks(s)) = 0 <=> \A i \in DOMAIN p : p[i] \notin Asks(s))
        BY HowManyNat
    <2>2. Asking(p, s) <=> \E i \in DOMAIN p : p[i] \in Asks(s)
        BY DEF Asking, Asks
    <2> QED
        BY <2>1, <2>2
<1>2. /\ HowMany(q, Asks(s)) \in Nat /\ (Asking(q, s) <=> HowMany(q, Asks(s)) > 0)
      /\ HowMany(st, Asks(s)) \in Nat /\ (Asking(st, s) <=> HowMany(st, Asks(s)) > 0)
    BY <1>1
<1> QED
    BY <1>2

\* The Sets that wait stay the same when no message that asks for one appears or goes.
LEMMA SameWaiting ==
    ASSUME TypeOk, TypeOk', \A s \in Sets : AskCount(s)' = AskCount(s)
    PROVE  WaitingSets' = WaitingSets
<1>1. /\ mailbox \in Seq(Messages) /\ stash \in Seq(Messages)
      /\ mailbox' \in Seq(Messages) /\ stash' \in Seq(Messages)
    BY DEF TypeOk
<1>2. ASSUME NEW s \in Sets
      PROVE  Asking(mailbox', s) \/ Asking(stash', s) <=> Asking(mailbox, s) \/ Asking(stash, s)
    <2>1. HowMany(mailbox', Asks(s)) + HowMany(stash', Asks(s))
             = HowMany(mailbox, Asks(s)) + HowMany(stash, Asks(s))
        BY DEF AskCount, Asks
    <2> QED
        BY <1>1, <2>1, WaitingIs
<1> QED
    BY <1>2 DEF WaitingSets, Asking

\* Nothing the service tells of changes.
Stutter == UNCHANGED <<sent, WaitingSets, ServedSet, zombies, applied>>

\* A step that moves messages, without taking or sending a Set, is no step of the
\* service.
LEMMA StutterServes ==
    ASSUME Stutter
    PROVE  UNCHANGED SetsServed!vars
BY DEF Stutter, SetsServed!vars, WaitingSets, ServedSet

\* A Set request taken from the mailbox asks for that Set alone.
LEMMA AskedBy ==
    ASSUME NEW m \in Messages, NEW s
    PROVE  m \in Asks(s) <=> m.type = "Request" /\ m.id = s
<1>1. ASSUME m.type = "Request" /\ m.id = s
      PROVE  m = [type |-> "Request", id |-> s]
    BY <1>1 DEF Messages
<1> QED
    BY <1>1 DEF Asks

\* Handlers that only take a message, put it aside or send it again, or hand back
\* the stash, change nothing the service tells of.
LEMMA HandlersStutter ==
    ASSUME IInv, IInv',
           HealthCheck \/ ReadResult \/ SetResult \/ StashMessage \/ SetDuringDelay
             \/ DelayOver \/ StaleTimeout
    PROVE  Stutter
<1> DEFINE t == Tail(mailbox)
<1>1. TypeOk /\ TypeOk' /\ mailbox \in Seq(Messages) /\ stash \in Seq(Messages)
    BY DEF IInv, TypeOk
<1>2. PICK type, ids : Receive(type, ids)
    BY DEF HealthCheck, ReadResult, SetResult, StashMessage, SetDuringDelay, DelayOver,
           StaleTimeout
<1>3. /\ Message \in Messages /\ t \in Seq(Messages)
      /\ \A s : HowMany(mailbox, Asks(s)) =
                   HowMany(t, Asks(s)) + (IF Message \in Asks(s) THEN 1 ELSE 0)
      /\ \A s : HowMany(t, Asks(s)) \in Nat
      /\ \A s : HowMany(stash, Asks(s)) \in Nat
    BY <1>1, <1>2, Taken, CountsAreNat
<1>4. UNCHANGED <<sent, running, zombies, applied>>
    BY DEF HealthCheck, ReadResult, SetResult, StashMessage, SetDuringDelay, DelayOver,
           StaleTimeout
<1>5. \/ /\ mailbox' = t /\ stash' = stash
         /\ \A s \in Sets : Message \notin Asks(s)
      \/ /\ mailbox' = UnstashedAll(t, stash) /\ stash' = <<>>
         /\ \A s \in Sets : Message \notin Asks(s)
      \/ mailbox' = t /\ stash' = Append(stash, Message)
      \/ mailbox' = Append(t, Message) /\ stash' = stash
    <2>1. ASSUME HealthCheck \/ SetResult \/ StaleTimeout
          PROVE  mailbox' = t /\ stash' = stash /\ \A s \in Sets : Message \notin Asks(s)
        <3>1. mailbox' = t /\ stash' = stash
            BY <2>1 DEF HealthCheck, SetResult, StaleTimeout
        <3>2. Message.type # "Request" \/ Message.id \notin Sets
            BY <2>1, KindsAreDisjoint DEF HealthCheck, SetResult, StaleTimeout, Receive
        <3> QED
            BY <1>3, <3>1, <3>2, AskedBy
    <2>2. ASSUME ReadResult \/ DelayOver
          PROVE  /\ mailbox' = UnstashedAll(t, stash) /\ stash' = <<>>
                 /\ \A s \in Sets : Message \notin Asks(s)
        <3>1. mailbox' = UnstashedAll(t, stash) /\ stash' = <<>>
            BY <2>2 DEF ReadResult, DelayOver
        <3>2. Message.type # "Request"
            BY <2>2 DEF ReadResult, DelayOver, Receive
        <3> QED
            BY <1>3, <3>1, <3>2, AskedBy
    <2>3. ASSUME StashMessage
          PROVE  mailbox' = t /\ stash' = Append(stash, Message)
        BY <2>3 DEF StashMessage, Stashed
    <2>4. ASSUME SetDuringDelay
          PROVE  mailbox' = Append(t, Message) /\ stash' = stash
        BY <2>4 DEF SetDuringDelay
    <2> QED
        BY <2>1, <2>2, <2>3, <2>4
<1> HIDE DEF t
<1>6. ASSUME NEW s \in Sets PROVE AskCount(s)' = AskCount(s)
    <2> DEFINE one == IF Message \in Asks(s) THEN 1 ELSE 0
    <2>1. /\ HowMany(mailbox, Asks(s)) = HowMany(t, Asks(s)) + one
          /\ HowMany(t, Asks(s)) \in Nat /\ HowMany(stash, Asks(s)) \in Nat
        BY <1>3
    <2>2. /\ HowMany(Append(t, Message), Asks(s)) = HowMany(t, Asks(s)) + one
          /\ HowMany(Append(stash, Message), Asks(s)) = HowMany(stash, Asks(s)) + one
        BY <1>1, <1>3, HowManyAppend
    <2>3. HowMany(t \o stash, Asks(s)) = HowMany(t, Asks(s)) + HowMany(stash, Asks(s))
        BY <1>1, <1>3, HowManyConcat
    <2>4. HowMany(<<>>, Asks(s)) = 0
        BY HowManyShort
    <2>5. AskCount(s)' = HowMany(mailbox', Asks(s)) + HowMany(stash', Asks(s))
        BY DEF AskCount, Asks
    <2>6. CASE mailbox' = t /\ stash' = stash /\ Message \notin Asks(s)
        BY <2>1, <2>5, <2>6 DEF AskCount
    <2>7. CASE mailbox' = UnstashedAll(t, stash) /\ stash' = <<>> /\ Message \notin Asks(s)
        BY <2>1, <2>3, <2>4, <2>5, <2>7 DEF AskCount, UnstashedAll
    <2>8. CASE mailbox' = t /\ stash' = Append(stash, Message)
        BY <2>1, <2>2, <2>5, <2>8 DEF AskCount
    <2>9. CASE mailbox' = Append(t, Message) /\ stash' = stash
        BY <2>1, <2>2, <2>5, <2>9 DEF AskCount
    <2> QED
        BY <1>5, <2>6, <2>7, <2>8, <2>9
<1>7. WaitingSets' = WaitingSets
    BY <1>1, <1>6, SameWaiting
<1> QED
    BY <1>4, <1>7 DEF Stutter, ServedSet

\* A Set is taken up: the one message that asks for it leaves the mailbox.
LEMMA BeginServes ==
    ASSUME IInv, IInv', Begin
    PROVE  [SetsServed!Next]_SetsServed!vars
<1> DEFINE r == Message.id
           t == Tail(mailbox)
<1>1. /\ In("default") /\ Receive("Request", Reads \cup Sets)
      /\ running' = r /\ mailbox' = t /\ stash' = stash
      /\ UNCHANGED <<zombies, applied, sent>>
    BY DEF Begin
<1>2. /\ TypeOk /\ TypeOk' /\ StackShape /\ running = None
      /\ Message \in Messages /\ Message.type = "Request" /\ r \in Reads \cup Sets
      /\ t \in Seq(Messages)
      /\ \A P : HowMany(mailbox, P) = HowMany(t, P) + (IF Message \in P THEN 1 ELSE 0)
      /\ \A P : HowMany(t, P) \in Nat
    BY <1>1, Taken DEF IInv
<1>3. /\ r \in Requests /\ None \notin Requests /\ ServedSet = None
      /\ \A s : Message \in Asks(s) <=> r = s
    BY <1>2, AskedBy, KindsAreDisjoint DEF Requests, ServedSet
<1>4. mailbox \in Seq(Messages) /\ stash \in Seq(Messages)
    BY <1>2 DEF TypeOk
<1> HIDE DEF r, t
<1>5. ASSUME NEW s \in Sets, s # r
      PROVE  Asking(mailbox', s) \/ Asking(stash', s) <=> Asking(mailbox, s) \/ Asking(stash, s)
    <2>1. HowMany(mailbox, Asks(s)) = HowMany(t, Asks(s)) /\ HowMany(t, Asks(s)) \in Nat
        BY <1>2, <1>3, <1>5
    <2>2. /\ Asking(t, s) \/ Asking(stash, s)
                <=> HowMany(t, Asks(s)) + HowMany(stash, Asks(s)) > 0
          /\ Asking(mailbox, s) \/ Asking(stash, s)
                <=> HowMany(mailbox, Asks(s)) + HowMany(stash, Asks(s)) > 0
        BY <1>2, <1>4, WaitingIs
    <2> QED
        BY <1>1, <2>1, <2>2
<1>6. CASE r \in Sets
    <2>1. r \in WaitingSets
        <3>1. HowMany(mailbox, Asks(r)) = HowMany(t, Asks(r)) + 1 /\ HowMany(t, Asks(r)) \in Nat
            BY <1>2, <1>3
        <3>2. /\ HowMany(stash, Asks(r)) \in Nat
              /\ Asking(mailbox, r) \/ Asking(stash, r)
                    <=> HowMany(mailbox, Asks(r)) + HowMany(stash, Asks(r)) > 0
            BY <1>4, WaitingIs
        <3> QED
            BY <1>6, <3>1, <3>2 DEF WaitingSets
    <2>2. HowMany(t, Of(r)) = 0 /\ HowMany(stash, Of(r)) = 0
        <3>1. ~In("stopped")
            <4>1. stack = <<"default">>
                BY <1>1, <1>2, StackOfTop
            <4> QED
                BY <4>1, TopOf DEF In
        <3>2. Places(r) \in {0, 1}
            BY <1>3, <3>1 DEF IInv, Placed
        <3>3. HowMany(mailbox, Of(r)) = HowMany(t, Of(r)) + 1
            <4>1. Message \in Of(r)
                BY <1>2 DEF Of, r
            <4> QED
                BY <1>2, <4>1
        <3>4. /\ HowMany(t, Of(r)) \in Nat /\ HowMany(stash, Of(r)) \in Nat
              /\ replies[r] \in Nat
            BY <1>2, <1>3, CountsAreNat DEF TypeOk
        <3> QED
            BY <3>2, <3>3, <3>4 DEF Places
    <2>3. r \notin WaitingSets'
        <3>1. ASSUME NEW q \in Seq(Messages), HowMany(q, Of(r)) = 0
              PROVE  ~Asking(q, r)
            <4>1. \A i \in DOMAIN q : q[i] \notin Of(r)
                BY <3>1, HowManyNat
            <4>2. [type |-> "Request", id |-> r] \in Of(r)
                BY <1>3 DEF Of, Messages
            <4> QED
                BY <4>1, <4>2 DEF Asking
        <3>2. ~Asking(t, r) /\ ~Asking(stash, r)
            BY <1>2, <1>4, <2>2, <3>1
        <3> QED
            BY <1>1, <3>2 DEF WaitingSets
    <2>4. WaitingSets' = WaitingSets \ {r}
        BY <1>5, <2>3 DEF WaitingSets
    <2>5. ServedSet' = r
        BY <1>1, <1>6 DEF ServedSet
    <2>6. SetsServed!Take(r)
        BY <1>1, <1>3, <2>1, <2>4, <2>5 DEF SetsServed!Take, WaitingSets, ServedSet
    <2> QED
        BY <1>6, <2>6 DEF SetsServed!Next
<1>7. CASE r \notin Sets
    <2>1. WaitingSets' = WaitingSets
        BY <1>5, <1>7 DEF WaitingSets
    <2>2. ServedSet' = ServedSet
        BY <1>1, <1>3, <1>7 DEF ServedSet
    <2> QED
        BY <1>1, <2>1, <2>2, StutterServes DEF Stutter
<1> QED
    BY <1>6, <1>7

\* A task ends: a Set is served, failed or given up; its result asks for nothing.
LEMMA FinishServes ==
    ASSUME IInv, IInv', Finish
    PROVE  [SetsServed!Next]_SetsServed!vars
<1>1. /\ running # None /\ running' = None /\ UNCHANGED <<stash, sent>>
      /\ mailbox' = Append(mailbox, [type |-> "Result", id |-> running])
      /\ \/ UNCHANGED <<zombies, applied>>
         \/ running \in Sets /\ applied' = Append(applied, running) /\ UNCHANGED zombies
         \/ running \in Sets /\ zombies' = zombies \cup {running} /\ UNCHANGED applied
    BY DEF Finish
<1>2. TypeOk /\ TypeOk' /\ mailbox \in Seq(Messages) /\ running \in Requests
    BY <1>1 DEF IInv, TypeOk
<1>3. [type |-> "Result", id |-> running] \in Messages
    BY <1>2 DEF Messages
<1>4. ASSUME NEW s \in Sets PROVE AskCount(s)' = AskCount(s)
    <2>1. [type |-> "Result", id |-> running] \notin Asks(s)
        BY <1>3, AskedBy
    <2>2. /\ HowMany(mailbox', Asks(s)) = HowMany(mailbox, Asks(s)) + 0
          /\ HowMany(mailbox, Asks(s)) \in Nat
        BY <1>1, <1>2, <1>3, <2>1, HowManyAppend, CountsAreNat
    <2>3. AskCount(s)' = HowMany(mailbox', Asks(s)) + HowMany(stash', Asks(s))
        BY DEF AskCount, Asks
    <2> QED
        BY <1>1, <2>2, <2>3 DEF AskCount
<1>5. WaitingSets' = WaitingSets
    BY <1>2, <1>4, SameWaiting
<1>6. ServedSet' = None
    BY <1>1, KindsAreDisjoint DEF ServedSet
<1>7. CASE running \in Sets
    <2>1. ServedSet = running /\ ServedSet # None
        BY <1>1, <1>7 DEF ServedSet
    <2>2. SetsServed!Finish
        BY <1>1, <1>5, <1>6, <2>1 DEF SetsServed!Finish, WaitingSets, ServedSet
    <2> QED
        BY <2>2 DEF SetsServed!Next
<1>8. CASE running \notin Sets
    <2>1. ServedSet' = ServedSet
        BY <1>6, <1>8 DEF ServedSet
    <2> QED
        BY <1>1, <1>5, <1>8, <2>1, StutterServes DEF Stutter
<1> QED
    BY <1>7, <1>8

\* A task given up ends without the actor.
LEMMA ZombieServes ==
    ASSUME IInv, NEW r, ZombieEnds(r)
    PROVE  [SetsServed!Next]_SetsServed!vars
<1>1. /\ r \in zombies /\ r \in Sets
      /\ zombies' = zombies \ {r} /\ applied' = Append(applied, r)
      /\ UNCHANGED <<mailbox, stash, running, sent>>
    BY DEF IInv, TypeOk, ZombieEnds
<1>2. WaitingSets' = WaitingSets /\ ServedSet' = ServedSet
    BY <1>1 DEF WaitingSets, ServedSet, Asking
<1>3. SetsServed!ApplyLate(r)
    BY <1>1, <1>2 DEF SetsServed!ApplyLate, WaitingSets, ServedSet
<1> QED
    BY <1>1, <1>3 DEF SetsServed!Next

\* A Set is asked for; another request says nothing to the service.
LEMMA SendServes ==
    ASSUME IInv, IInv', NEW r \in Requests, Send(r)
    PROVE  [SetsServed!Next]_SetsServed!vars
<1> DEFINE m == [type |-> "Request", id |-> r]
<1>1. /\ r \notin sent /\ sent' = sent \cup {r} /\ mailbox' = Append(mailbox, m)
      /\ UNCHANGED <<stash, running, zombies, applied>>
    BY DEF Send
<1>2. /\ TypeOk /\ TypeOk' /\ mailbox \in Seq(Messages) /\ stash \in Seq(Messages)
      /\ mailbox' \in Seq(Messages)
    BY DEF IInv, TypeOk
<1>3. m \in Messages /\ \A s : m \in Asks(s) <=> r = s
    BY AskedBy, MessageKinds
<1> HIDE DEF m
<1>4. ServedSet' = ServedSet
    BY <1>1 DEF ServedSet
<1>5. ASSUME NEW s \in Sets
      PROVE  Asking(mailbox', s) \/ Asking(stash', s)
                <=> Asking(mailbox, s) \/ Asking(stash, s) \/ s = r
    <2>1. HowMany(mailbox', Asks(s)) = HowMany(mailbox, Asks(s)) + (IF r = s THEN 1 ELSE 0)
        BY <1>1, <1>2, <1>3, HowManyAppend
    <2>2. /\ HowMany(mailbox, Asks(s)) \in Nat /\ HowMany(stash, Asks(s)) \in Nat
          /\ Asking(mailbox, s) \/ Asking(stash, s)
                <=> HowMany(mailbox, Asks(s)) + HowMany(stash, Asks(s)) > 0
        BY <1>2, WaitingIs
    <2>3. Asking(mailbox', s) \/ Asking(stash, s)
             <=> HowMany(mailbox', Asks(s)) + HowMany(stash, Asks(s)) > 0
        BY <1>2, WaitingIs
    <2> QED
        BY <1>1, <2>1, <2>2, <2>3
<1>6. CASE r \in Sets
    <2>1. WaitingSets' = WaitingSets \cup {r}
        BY <1>5, <1>6 DEF WaitingSets
    <2>2. r \notin sent \cap Sets /\ (sent \cap Sets)' = (sent \cap Sets) \cup {r}
        BY <1>1, <1>6
    <2>3. SetsServed!Ask(r)
        BY <1>1, <1>4, <2>1, <2>2 DEF SetsServed!Ask, WaitingSets, ServedSet
    <2> QED
        BY <1>6, <2>3 DEF SetsServed!Next
<1>7. CASE r \notin Sets
    <2>1. WaitingSets' = WaitingSets
        BY <1>5, <1>7 DEF WaitingSets
    <2>2. (sent \cap Sets)' = sent \cap Sets
        BY <1>1, <1>7
    <2> QED
        BY <1>1, <1>4, <2>1, <2>2 DEF SetsServed!vars, WaitingSets, ServedSet
<1> QED
    BY <1>6, <1>7

\* The end of a delay, and the start, change nothing the service tells of.
LEMMA DelayPassesServes ==
    ASSUME IInv, IInv', DelayPasses
    PROVE  Stutter
<1> DEFINE m == [type |-> "TimeoutEnd", id |-> None]
<1>1. /\ mailbox' = Append(mailbox, m) \/ mailbox' = mailbox
      /\ UNCHANGED <<stash, running, zombies, applied, sent>>
    BY DEF DelayPasses
<1>2. TypeOk /\ TypeOk' /\ mailbox \in Seq(Messages) /\ m \in Messages
    BY MessageKinds DEF IInv, TypeOk
<1>3. \A s : m \notin Asks(s)
    BY <1>2, AskedBy
<1> HIDE DEF m
<1>4. ASSUME NEW s \in Sets PROVE AskCount(s)' = AskCount(s)
    <2>1. /\ HowMany(Append(mailbox, m), Asks(s)) = HowMany(mailbox, Asks(s)) + 0
          /\ HowMany(mailbox, Asks(s)) \in Nat
        BY <1>2, <1>3, HowManyAppend, CountsAreNat
    <2>2. AskCount(s)' = HowMany(mailbox', Asks(s)) + HowMany(stash', Asks(s))
        BY DEF AskCount, Asks
    <2>3. HowMany(mailbox', Asks(s)) = HowMany(mailbox, Asks(s)) /\ stash' = stash
        <3>1. CASE mailbox' = mailbox
            BY <1>1, <3>1
        <3>2. CASE mailbox' = Append(mailbox, m)
            <4>1. HowMany(mailbox', Asks(s)) = HowMany(mailbox, Asks(s)) + 0
                BY <2>1, <3>2
            <4> QED
                BY <1>1, <2>1, <4>1
        <3> QED
            BY <1>1, <3>1, <3>2
    <2> QED
        BY <2>2, <2>3 DEF AskCount
<1>5. WaitingSets' = WaitingSets
    BY <1>2, <1>4, SameWaiting
<1> QED
    BY <1>1, <1>5 DEF Stutter, ServedSet

\* A start that succeeds hands back an empty stash; one that fails for good drops
\* what waits.
LEMMA StartServes ==
    ASSUME IInv, Start \/ StartFails
    PROVE  [SetsServed!Next]_SetsServed!vars
<1>1. /\ stash = <<>> /\ mailbox \o <<>> = mailbox
      /\ UNCHANGED <<running, zombies, applied, sent>>
    <2>1. stack = <<"starting">>
        BY StackOfTop DEF IInv, Start, StartFails
    <2>2. stash = <<>> /\ mailbox \o <<>> = mailbox
        BY <2>1, ConcatEmptySeq DEF IInv, StackShape, TypeOk
    <2> QED
        BY <2>2 DEF Start, StartFails
<1>2. CASE UNCHANGED <<mailbox, stash>>
    <2>1. WaitingSets' = WaitingSets /\ ServedSet' = ServedSet
        BY <1>1, <1>2 DEF WaitingSets, ServedSet, Asking
    <2> QED
        BY <1>1, <2>1, StutterServes DEF Stutter
<1>3. CASE mailbox' = <<>> /\ stash' = <<>>
    <2>1. WaitingSets' = {} /\ ServedSet' = ServedSet
        BY <1>1, <1>3 DEF WaitingSets, ServedSet, Asking
    <2>2. SetsServed!Drop
        BY <1>1, <2>1 DEF SetsServed!Drop, WaitingSets, ServedSet
    <2> QED
        BY <2>2 DEF SetsServed!Next
<1> QED
    BY <1>1, <1>2, <1>3 DEF Start, StartFails, UnstashedAll

\* Every step is a step of the service, or none.
LEMMA NextServes ==
    ASSUME IInv, IInv', [Next]_vars
    PROVE  [SetsServed!Next]_SetsServed!vars
<1>1. CASE Handle
    BY <1>1, HandlersStutter, BeginServes, StutterServes DEF Handle
<1>2. ASSUME NEW r \in Requests, Send(r) \/ ZombieEnds(r)
      PROVE  [SetsServed!Next]_SetsServed!vars
    BY <1>2, SendServes, ZombieServes
<1>3. CASE UNCHANGED vars
    <2>1. WaitingSets' = WaitingSets /\ ServedSet' = ServedSet
        BY <1>3 DEF vars, WaitingSets, ServedSet, Asking
    <2> QED
        BY <1>3, <2>1, StutterServes DEF vars, Stutter
<1> QED
    BY <1>1, <1>2, <1>3, StartServes, FinishServes, DelayPassesServes, StutterServes DEF Next

\* SetsPromise: the actor implements SetService: it takes up each Set once, one at
\* a time, and none reaches the inverter twice.
THEOREM ServesSets == Spec => SetsPromise
<1>1. Init => SetsServed!Init
    <2> SUFFICES ASSUME Init PROVE SetsServed!Init
        OBVIOUS
    <2>1. WaitingSets = {} /\ ServedSet = None
        BY KindsAreDisjoint DEF Init, WaitingSets, ServedSet, Asking
    <2> QED
        BY <2>1 DEF Init, SetsServed!Init, WaitingSets, ServedSet
<1>2. IInv /\ IInv' /\ [Next]_vars => [SetsServed!Next]_SetsServed!vars
    BY NextServes
<1> QED
    BY <1>1, <1>2, Invariance, PTL DEF Spec, SetsPromise, SetsServed!Spec


-----------------------------------------------------------------------------
(* What SetService promises, of the Modbus actor *)

AskedSets == sent \cap Sets

\* No set reaches the inverter twice, and none that was not asked for.
WrittenOnce ==
    /\ \A i, j \in DOMAIN applied : applied[i] = applied[j] => i = j
    /\ \A i \in DOMAIN applied : applied[i] \in AskedSets

\* A set waits, is served, may come late or was written, and only one of these.
Apart ==
    /\ applied \in Seq(Sets) /\ WrittenOnce
    /\ WaitingSets \subseteq AskedSets /\ zombies \subseteq AskedSets
    /\ ServedSet \in AskedSets \cup {None}
    /\ ServedSet \notin WaitingSets \cup zombies /\ WaitingSets \cap zombies = {}
    /\ \A i \in DOMAIN applied :
          applied[i] # ServedSet /\ applied[i] \notin WaitingSets \cup zombies

\* A set that is written, and was not before, is written once.
LEMMA OneMore ==
    ASSUME NEW p \in Seq(Sets), NEW s \in Sets, \A i \in DOMAIN p : p[i] # s,
           \A i, j \in DOMAIN p : p[i] = p[j] => i = j
    PROVE  LET q == Append(p, s)
           IN  /\ q \in Seq(Sets)
               /\ \A i, j \in DOMAIN q : q[i] = q[j] => i = j
               /\ \A i \in DOMAIN q : q[i] = s \/ \E j \in DOMAIN p : q[i] = p[j]
<1> DEFINE q == Append(p, s)
<1>1. /\ q \in Seq(Sets) /\ Len(q) = Len(p) + 1 /\ q[Len(p) + 1] = s
      /\ \A i \in 1 .. Len(p) : q[i] = p[i]
    OBVIOUS
<1>2. DOMAIN q = 1 .. Len(p) + 1 /\ DOMAIN p = 1 .. Len(p) /\ Len(p) \in Nat
    BY <1>1
<1>3. \A i \in DOMAIN q : i = Len(p) + 1 \/ i \in DOMAIN p
    BY <1>2
<1> HIDE DEF q
<1>4. ASSUME NEW i \in DOMAIN q, NEW j \in DOMAIN q, q[i] = q[j] PROVE i = j
    <2>1. CASE i = Len(p) + 1
        BY <1>1, <1>2, <1>3, <1>4, <2>1
    <2>2. CASE j = Len(p) + 1
        BY <1>1, <1>2, <1>3, <1>4, <2>2
    <2>3. CASE i \in DOMAIN p /\ j \in DOMAIN p
        BY <1>1, <1>2, <1>4, <2>3
    <2> QED
        BY <1>3, <2>1, <2>2, <2>3
<1>5. ASSUME NEW i \in DOMAIN q PROVE q[i] = s \/ \E j \in DOMAIN p : q[i] = p[j]
    BY <1>1, <1>2, <1>3
<1> QED
    BY <1>1, <1>4, <1>5 DEF q

\* A set that was served or came late is written once, and is nowhere else.
LEMMA WrittenNow ==
    ASSUME Apart, NEW s \in AskedSets, \A i \in DOMAIN applied : applied[i] # s,
           applied' = Append(applied, s), AskedSets' = AskedSets,
           WaitingSets' = WaitingSets, s \notin WaitingSets,
           zombies' = zombies \ {s}, ServedSet' \in {ServedSet, None}, ServedSet' # s
    PROVE  Apart'
<1>1. None \notin Sets
    BY KindsAreDisjoint
<1>2. /\ applied \in Seq(Sets) /\ s \in Sets
      /\ \A i, j \in DOMAIN applied : applied[i] = applied[j] => i = j
      /\ \A i \in DOMAIN applied : applied[i] \in AskedSets
    BY DEF Apart, WrittenOnce, AskedSets
<1>3. /\ applied' \in Seq(Sets)
      /\ \A i, j \in DOMAIN applied' : applied'[i] = applied'[j] => i = j
      /\ \A i \in DOMAIN applied' :
            applied'[i] = s \/ \E j \in DOMAIN applied : applied'[i] = applied[j]
    BY <1>2, OneMore
<1>4. ASSUME NEW i \in DOMAIN applied'
      PROVE  /\ applied'[i] \in AskedSets /\ applied'[i] # ServedSet'
             /\ applied'[i] \notin WaitingSets /\ applied'[i] \notin zombies \ {s}
    <2>1. CASE applied'[i] = s
        BY <2>1
    <2>2. CASE \E j \in DOMAIN applied : applied'[i] = applied[j]
        <3>1. PICK j \in DOMAIN applied : applied'[i] = applied[j]
            BY <2>2
        <3>2. applied[j] \in AskedSets /\ applied[j] # None
            BY <1>1, <1>2 DEF AskedSets
        <3>3. applied[j] # ServedSet /\ applied[j] \notin WaitingSets \cup zombies
            BY DEF Apart
        <3> QED
            BY <3>1, <3>2, <3>3
    <2> QED
        BY <1>3, <2>1, <2>2
<1>5. WrittenOnce'
    BY <1>3, <1>4 DEF WrittenOnce
<1>6. /\ WaitingSets \subseteq AskedSets /\ zombies \ {s} \subseteq AskedSets
      /\ ServedSet' \in AskedSets \cup {None}
      /\ ServedSet' \notin WaitingSets \cup (zombies \ {s})
      /\ WaitingSets \cap (zombies \ {s}) = {}
    <2>1. None \notin WaitingSets \cup zombies
        BY <1>1 DEF Apart, AskedSets
    <2> QED
        BY <2>1 DEF Apart
<1> QED
    BY <1>3, <1>4, <1>5, <1>6 DEF Apart

\* SetService keeps each set in one place.
LEMMA ServiceKeepsApart ==
    ASSUME Apart, [SetsServed!Next]_SetsServed!vars
    PROVE  Apart'
<1>1. None \notin Sets
    BY KindsAreDisjoint
<1>2. ASSUME NEW s \in Sets, SetsServed!Ask(s) PROVE Apart'
    <2>1. /\ s \notin AskedSets /\ AskedSets' = AskedSets \cup {s}
          /\ WaitingSets' = WaitingSets \cup {s}
          /\ ServedSet' = ServedSet /\ zombies' = zombies /\ applied' = applied
        BY <1>2 DEF SetsServed!Ask, WaitingSets, ServedSet, AskedSets
    <2> QED
        BY <1>1, <2>1 DEF Apart, WrittenOnce
<1>3. ASSUME NEW s \in Sets, SetsServed!Take(s) PROVE Apart'
    <2>1. /\ ServedSet = None /\ s \in WaitingSets
          /\ ServedSet' = s /\ WaitingSets' = WaitingSets \ {s}
          /\ AskedSets' = AskedSets /\ zombies' = zombies /\ applied' = applied
        BY <1>3 DEF SetsServed!Take, WaitingSets, ServedSet, AskedSets
    <2> QED
        BY <1>1, <2>1 DEF Apart, WrittenOnce
<1>4. ASSUME SetsServed!Finish PROVE Apart'
    <2>1. /\ ServedSet # None /\ ServedSet' = None
          /\ AskedSets' = AskedSets /\ WaitingSets' = WaitingSets
          /\ \/ applied' = Append(applied, ServedSet) /\ zombies' = zombies
             \/ applied' = applied /\ zombies' = zombies
             \/ applied' = applied /\ zombies' = zombies \cup {ServedSet}
        BY <1>4 DEF SetsServed!Finish, WaitingSets, ServedSet, AskedSets
    <2>2. ServedSet \in AskedSets /\ ServedSet \notin zombies /\ ServedSet \notin WaitingSets
        BY <2>1 DEF Apart
    <2>3. CASE applied' = Append(applied, ServedSet) /\ zombies' = zombies
        <3>1. /\ zombies' = zombies \ {ServedSet}
              /\ \A i \in DOMAIN applied : applied[i] # ServedSet
            BY <2>2, <2>3 DEF Apart
        <3>2. ServedSet' \in {ServedSet, None} /\ ServedSet' # ServedSet
            BY <2>1
        <3> QED
            BY <2>1, <2>2, <2>3, <3>1, <3>2, WrittenNow
    <2>4. CASE applied' = applied
        <3>1. None \notin WaitingSets \cup zombies \cup {ServedSet}
            BY <1>1, <2>1 DEF Apart, AskedSets
        <3>2. \A i \in DOMAIN applied : applied[i] # None
            BY <1>1 DEF Apart, WrittenOnce, AskedSets
        <3> QED
            BY <2>1, <2>2, <2>4, <3>1, <3>2 DEF Apart, WrittenOnce
    <2> QED
        BY <2>1, <2>3, <2>4
<1>5. ASSUME NEW s \in Sets, SetsServed!ApplyLate(s) PROVE Apart'
    <2>1. /\ s \in zombies /\ zombies' = zombies \ {s} /\ applied' = Append(applied, s)
          /\ AskedSets' = AskedSets /\ WaitingSets' = WaitingSets /\ ServedSet' = ServedSet
        BY <1>5 DEF SetsServed!ApplyLate, WaitingSets, ServedSet, AskedSets
    <2>2. /\ s \in AskedSets /\ s \notin WaitingSets /\ ServedSet # s
          /\ \A i \in DOMAIN applied : applied[i] # s
        BY <2>1 DEF Apart
    <2>3. ServedSet' \in {ServedSet, None} /\ ServedSet' # s
        BY <2>1, <2>2
    <2> QED
        BY <2>1, <2>2, <2>3, WrittenNow
<1>6. ASSUME SetsServed!Drop PROVE Apart'
    <2>1. /\ WaitingSets' = {} /\ AskedSets' = AskedSets /\ ServedSet' = ServedSet
          /\ zombies' = zombies /\ applied' = applied
        BY <1>6 DEF SetsServed!Drop, WaitingSets, ServedSet, AskedSets
    <2> QED
        BY <2>1 DEF Apart, WrittenOnce
<1>7. CASE UNCHANGED SetsServed!vars
    <2>1. /\ WaitingSets' = WaitingSets /\ AskedSets' = AskedSets /\ ServedSet' = ServedSet
          /\ zombies' = zombies /\ applied' = applied
        BY <1>7 DEF SetsServed!vars, WaitingSets, ServedSet, AskedSets
    <2> QED
        BY <2>1 DEF Apart, WrittenOnce
<1> QED
    BY <1>2, <1>3, <1>4, <1>5, <1>6, <1>7 DEF SetsServed!Next

\* A set is written once at most, however often its message was put aside and sent
\* again (modbus.go, WaitingModbus and WaitingReadTimeout), and though the task of a
\* set that was answered "timed out" goes on (task.go): so every SetService, and so
\* the Modbus actor.
THEOREM SetsWrittenOnce == Spec => []WrittenOnce
<1>1. SetsServed!Init => Apart
    <2> SUFFICES ASSUME SetsServed!Init PROVE Apart
        OBVIOUS
    <2>1. /\ AskedSets = {} /\ WaitingSets = {} /\ ServedSet = None /\ zombies = {}
          /\ applied = <<>>
        BY DEF SetsServed!Init, WaitingSets, ServedSet, AskedSets
    <2> QED
        BY <2>1 DEF Apart, WrittenOnce
<1>2. Apart /\ [SetsServed!Next]_SetsServed!vars => Apart'
    BY ServiceKeepsApart
<1>3. Apart => WrittenOnce
    BY DEF Apart
<1> QED
    BY <1>1, <1>2, <1>3, ServesSets, PTL DEF SetsPromise, SetsServed!Spec
=============================================================================
