---------------------------- MODULE MqttActorProofs ----------------------------
(***************************************************************************)
(* The safety of MqttActor, for every set of requests, every number of     *)
(* restarts and every load.                                                *)
(***************************************************************************)
EXTENDS MqttActor, ActorUtilLemmas

\* The messages that stand for request r, before and after its publication.
Of(r) == {m \in Messages : \/ m.type = "Publish" /\ m.id = r
                           \/ m.type = "Result" /\ m.replyTo = r}

TypeOk ==
    /\ stack \in {<<"starting">>, <<"default">>, <<"default", "publishing">>, <<"stopped">>}
    /\ mailbox \in Seq(Messages) /\ stash \in Seq(Messages)
    /\ starts \in 1 .. MaxStarts
    /\ attempts \in [Attempts -> Nat] /\ inFlight \in [Senders -> Nat]
    /\ sent \in SUBSET Asks /\ replies \in [Asks -> Nat]

\* A request is in one place at most: waiting, put aside, being published,
\* reported, or answered; and nowhere before it is sent.
Places(r) == HowMany(mailbox, Of(r)) + HowMany(stash, Of(r)) + inFlight[r] + replies[r]
Once == \A r \in Asks : Places(r) <= IF r \in sent THEN 1 ELSE 0

IInv == TypeOk /\ WaitIsBacked /\ Once

-----------------------------------------------------------------------------

\* What a message stands for.
LEMMA MessageKinds ==
    /\ \A m \in Messages, r \in Asks : m.type = "Publish" => m.id \in Asks /\ (m \in Of(r) <=> m.id = r)
    /\ \A m \in Messages, r \in Asks :
          m.type = "Result" => m.replyTo \in Senders /\ (m \in Of(r) <=> m.replyTo = r)
    /\ \A m \in Messages, r \in Asks : m.type \notin {"Publish", "Result"} => m \notin Of(r)
BY DEF Messages, Of

\* The messages that arrive.
LEMMA Arriving ==
    /\ \A t \in {"Connected", "Subscribed", "ConnectionLost", "Update", "Other"} :
          [type |-> t] \in Messages
    /\ \A r \in Asks : [type |-> "Publish", id |-> r] \in Messages
    /\ \A s \in Senders : [type |-> "Result", replyTo |-> s] \in Messages
BY DEF Messages

\* The behaviour tells the stack.
LEMMA StackOfTop ==
    ASSUME TypeOk
    PROVE  /\ In("starting") => stack = <<"starting">>
           /\ In("default") => stack = <<"default">>
           /\ In("publishing") => stack = <<"default", "publishing">>
           /\ In("stopped") => stack = <<"stopped">>
<1>1. /\ \A a : <<a>>[Len(<<a>>)] = a
      /\ \A a, b : <<a, b>>[Len(<<a, b>>)] = b
    OBVIOUS
<1>2. CASE stack = <<"starting">>
    BY <1>1, <1>2 DEF In
<1>3. CASE stack = <<"default">>
    BY <1>1, <1>3 DEF In
<1>4. CASE stack = <<"default", "publishing">>
    BY <1>1, <1>4 DEF In
<1>5. CASE stack = <<"stopped">>
    BY <1>1, <1>5 DEF In
<1> QED
    BY <1>2, <1>3, <1>4, <1>5 DEF TypeOk

\* The behaviour after a step, from the stack after it.
LEMMA TopOfNext ==
    /\ stack' = <<"default">> => ~In("starting")' /\ ~In("publishing")'
    /\ stack' = <<"stopped">> => ~In("starting")' /\ ~In("publishing")'
    /\ stack' = <<"starting">> => In("starting")' /\ ~In("publishing")'
    /\ stack' = <<"default", "publishing">> => ~In("starting")' /\ In("publishing")'
    /\ stack' = stack => \A name : In(name)' = In(name)
<1>1. /\ \A a : <<a>>[Len(<<a>>)] = a
      /\ \A a, b : <<a, b>>[Len(<<a, b>>)] = b
    OBVIOUS
<1> QED
    BY <1>1 DEF In

\* An actor that waits does nothing else.
LEMMA OneBehaviour ==
    /\ In("default") => ~In("starting") /\ ~In("publishing")
    /\ In("starting") => ~In("publishing") /\ ~In("stopped")
    /\ In("publishing") => ~In("stopped")
BY DEF In

\* What the queues hold of P after a handler has taken its message.
LEMMA Taken ==
    ASSUME TypeOk, mailbox # <<>>, NEW P
    PROVE  /\ Message \in Messages /\ Tail(mailbox) \in Seq(Messages)
           /\ Append(stash, Message) \in Seq(Messages)
           /\ UnstashedAll(Tail(mailbox), stash) \in Seq(Messages)
           /\ <<>> \in Seq(Messages)
           /\ HowMany(Tail(mailbox), P) \in Nat /\ HowMany(stash, P) \in Nat
           /\ HowMany(mailbox, P) = HowMany(Tail(mailbox), P) + (IF Message \in P THEN 1 ELSE 0)
           /\ HowMany(Append(stash, Message), P)
                = HowMany(stash, P) + (IF Message \in P THEN 1 ELSE 0)
           /\ HowMany(UnstashedAll(Tail(mailbox), stash), P)
                = HowMany(Tail(mailbox), P) + HowMany(stash, P)
           /\ HowMany(<<>>, P) = 0
<1>1. mailbox \in Seq(Messages) /\ stash \in Seq(Messages)
    BY DEF TypeOk
<1>2. Message = Head(mailbox)
    BY DEF Message
<1> HIDE DEF Message
<1>3. /\ Message \in Messages /\ Tail(mailbox) \in Seq(Messages)
      /\ Append(stash, Message) \in Seq(Messages)
      /\ UnstashedAll(Tail(mailbox), stash) \in Seq(Messages)
      /\ <<>> \in Seq(Messages)
    BY <1>1, <1>2, QueueMoves
<1> QED
    BY <1>1, <1>2, <1>3, QueueMoves

\* At the start no request is anywhere, and the connection is under way.
LEMMA InitInv == Init => IInv
<1> SUFFICES ASSUME Init PROVE IInv
    OBVIOUS
<1>1. \A P : HowMany(<<>>, P) = 0
    BY HowManyShort
<1>2. <<>> \in Seq(Messages)
    OBVIOUS
<1>3. 1 \in 1 .. MaxStarts
    BY StartsAssumption
<1>4. TypeOk
    BY <1>2, <1>3 DEF Init, TypeOk
<1>5. WaitIsBacked
    <2>1. <<"connect", 1>> \in Attempts /\ attempts[<<"connect", 1>>] > 0
        BY <1>3 DEF Init, Attempts
    <2>2. ~In("publishing")
        BY DEF Init, In
    <2> QED
        BY <2>1, <2>2 DEF WaitIsBacked
<1>6. Once
    <2> SUFFICES ASSUME NEW r \in Asks PROVE Places(r) <= 0
        BY DEF Init, Once
    <2>1. inFlight[r] = 0 /\ replies[r] = 0
        BY DEF Init, Senders
    <2> QED
        BY <1>1, <2>1 DEF Init, Places
<1> QED
    BY <1>4, <1>5, <1>6 DEF IInv

\* A message that is dropped, put aside or handed back while the publications and
\* the answers stay as they are.
LEMMA MovesOnce ==
    ASSUME IInv, mailbox # <<>>,
           \/ mailbox' = Tail(mailbox) /\ stash' = stash
           \/ mailbox' = Tail(mailbox) /\ stash' = Append(stash, Message)
           \/ mailbox' = UnstashedAll(Tail(mailbox), stash) /\ stash' = <<>>
           \/ mailbox' = Tail(mailbox) /\ stash' = <<>>
           \/ mailbox' = <<>> /\ stash' = <<>>,
           UNCHANGED <<inFlight, sent, replies>>
    PROVE  Once' /\ mailbox' \in Seq(Messages) /\ stash' \in Seq(Messages)
<1>1. TypeOk
    BY DEF IInv
<1>2. mailbox' \in Seq(Messages) /\ stash' \in Seq(Messages)
    BY <1>1, Taken DEF TypeOk
<1>3. ASSUME NEW r \in Asks
      PROVE  Places(r)' <= Places(r)
    <2> DEFINE a == HowMany(mailbox, Of(r))
               b == HowMany(stash, Of(r))
               c == HowMany(Tail(mailbox), Of(r))
    <2>1. /\ c \in Nat /\ b \in Nat /\ a = c + (IF Message \in Of(r) THEN 1 ELSE 0)
          /\ HowMany(Append(stash, Message), Of(r)) = b + (IF Message \in Of(r) THEN 1 ELSE 0)
          /\ HowMany(UnstashedAll(Tail(mailbox), stash), Of(r)) = c + b
          /\ HowMany(<<>>, Of(r)) = 0
        BY <1>1, Taken
    <2>2. inFlight[r] \in Nat /\ replies[r] \in Nat
        BY <1>1 DEF TypeOk, Senders
    <2>3. Places(r) = a + b + inFlight[r] + replies[r]
        BY DEF Places
    <2>4. Places(r)' = HowMany(mailbox', Of(r)) + HowMany(stash', Of(r)) + inFlight[r] + replies[r]
        BY DEF Places, Of
    <2> HIDE DEF a, b, c
    <2>5. CASE mailbox' = Tail(mailbox) /\ stash' = stash
        BY <2>1, <2>2, <2>3, <2>4, <2>5 DEF b, c
    <2>6. CASE mailbox' = Tail(mailbox) /\ stash' = Append(stash, Message)
        BY <2>1, <2>2, <2>3, <2>4, <2>6 DEF c
    <2>7. CASE mailbox' = UnstashedAll(Tail(mailbox), stash) /\ stash' = <<>>
        BY <2>1, <2>2, <2>3, <2>4, <2>7
    <2>8. CASE mailbox' = Tail(mailbox) /\ stash' = <<>>
        BY <2>1, <2>2, <2>3, <2>4, <2>8 DEF c
    <2>9. CASE mailbox' = <<>> /\ stash' = <<>>
        BY <2>1, <2>2, <2>3, <2>4, <2>9
    <2> QED
        BY <2>5, <2>6, <2>7, <2>8, <2>9
<1>4. ASSUME NEW r \in Asks
      PROVE  Places(r) \in Nat /\ Places(r)' \in Nat
    <2>1. inFlight[r] \in Nat /\ replies[r] \in Nat
        BY <1>1 DEF TypeOk, Senders
    <2>2. mailbox \in Seq(Messages) /\ stash \in Seq(Messages)
        BY <1>1 DEF TypeOk
    <2>3. HowMany(mailbox, Of(r)) \in Nat /\ HowMany(stash, Of(r)) \in Nat
        BY <2>2, HowManyNat
    <2>4. HowMany(mailbox', Of(r)) \in Nat /\ HowMany(stash', Of(r)) \in Nat
        BY <1>2, HowManyNat
    <2>5. Places(r) \in Nat
        BY <2>1, <2>3 DEF Places
    <2>6. Places(r)' = HowMany(mailbox', Of(r)) + HowMany(stash', Of(r)) + inFlight[r] + replies[r]
        BY DEF Places, Of
    <2> QED
        BY <2>1, <2>4, <2>5, <2>6
<1>6. \A r \in Asks : Places(r) <= IF r \in sent THEN 1 ELSE 0
    BY DEF IInv, Once
<1> QED
    BY <1>2, <1>3, <1>4, <1>6 DEF Once

\* What waits in the mailbox after its first message is taken and dropped or put
\* aside, if that message ends no wait.
LEMMA StillBacked ==
    ASSUME IInv, mailbox # <<>>, mailbox' = Tail(mailbox),
           In("publishing") => Message.type # "Result",
           In("starting") => Message.type \notin {"Connected", "Subscribed", "ConnectionLost"},
           UNCHANGED <<stack, inFlight, attempts>>
    PROVE  WaitIsBacked'
<1>1. mailbox \in Seq(Messages)
    BY DEF IInv, TypeOk
<1>2. \A types : InQueue(mailbox, types) => Message.type \in types \/ InQueue(mailbox', types)
    BY <1>1, TakeHead DEF Message
<1>3. /\ InQueue(mailbox, {"Result"}) /\ In("publishing") => InQueue(mailbox', {"Result"})
      /\ /\ InQueue(mailbox, {"Connected", "Subscribed", "ConnectionLost"}) /\ In("starting")
         => InQueue(mailbox', {"Connected", "Subscribed", "ConnectionLost"})
    BY <1>2
<1>4. In("starting")' = In("starting") /\ In("publishing")' = In("publishing")
    BY TopOfNext
<1> QED
    BY <1>3, <1>4 DEF IInv, WaitIsBacked

\* A message put aside or dropped.
LEMMA AsideInv ==
    ASSUME IInv, StashMessage \/ NoEffect
    PROVE  IInv'
<1>1. /\ TypeOk /\ mailbox # <<>> /\ mailbox' = Tail(mailbox)
      /\ stash' = stash \/ stash' = Append(stash, Message)
      /\ UNCHANGED <<stack, starts, attempts, inFlight, sent, replies>>
    BY DEF IInv, StashMessage, NoEffect, Receive, Stashed
<1>2. Once' /\ mailbox' \in Seq(Messages) /\ stash' \in Seq(Messages)
    BY <1>1, MovesOnce
<1>3. TypeOk'
    BY <1>1, <1>2 DEF TypeOk
<1>4. /\ In("publishing") => Message.type # "Result"
      /\ In("starting") => Message.type \notin {"Connected", "Subscribed", "ConnectionLost"}
    BY OneBehaviour DEF StashMessage, NoEffect
<1>5. WaitIsBacked'
    BY <1>1, <1>4, StillBacked
<1> QED
    BY <1>2, <1>3, <1>5 DEF IInv

\* A connection made is a subscription asked for.
LEMMA ConnectedInv ==
    ASSUME IInv, Connected
    PROVE  IInv'
<1>1. /\ TypeOk /\ mailbox # <<>> /\ mailbox' = Tail(mailbox) /\ stash' = stash
      /\ In("starting") /\ attempts' = [attempts EXCEPT ![<<"subscribe", starts>>] = @ + 1]
      /\ UNCHANGED <<stack, starts, inFlight, sent, replies>>
    BY DEF IInv, Connected, Receive
<1>2. Once' /\ mailbox' \in Seq(Messages) /\ stash' \in Seq(Messages)
    BY <1>1, MovesOnce
<1>3. <<"subscribe", starts>> \in Attempts
    BY <1>1 DEF TypeOk, Attempts
<1>4. attempts' \in [Attempts -> Nat] /\ attempts'[<<"subscribe", starts>>] > 0
    <2>1. attempts \in [Attempts -> Nat] /\ attempts[<<"subscribe", starts>>] \in Nat
        BY <1>1, <1>3 DEF TypeOk
    <2>2. attempts'[<<"subscribe", starts>>] = attempts[<<"subscribe", starts>>] + 1
        BY <1>1, <1>3, <2>1
    <2> QED
        BY <1>1, <1>3, <2>1, <2>2
<1>5. TypeOk'
    BY <1>1, <1>2, <1>4 DEF TypeOk
<1>6. In("starting")' /\ ~In("publishing")'
    BY <1>1, OneBehaviour, TopOfNext
<1>7. WaitIsBacked'
    BY <1>3, <1>4, <1>6 DEF WaitIsBacked, Attempts
<1> QED
    BY <1>2, <1>5, <1>7 DEF IInv

\* A start that has ended.
LEMMA SubscribedInv ==
    ASSUME IInv, Subscribed
    PROVE  IInv'
<1>1. /\ TypeOk /\ mailbox # <<>> /\ stack' = <<"default">>
      /\ mailbox' = UnstashedAll(Tail(mailbox), stash) /\ stash' = <<>>
      /\ UNCHANGED <<starts, attempts, inFlight, sent, replies>>
    BY DEF IInv, Subscribed, Receive, Become
<1>2. Once' /\ mailbox' \in Seq(Messages) /\ stash' \in Seq(Messages)
    BY <1>1, MovesOnce
<1>3. TypeOk'
    BY <1>1, <1>2 DEF TypeOk
<1>4. WaitIsBacked'
    BY <1>1, TopOfNext DEF WaitIsBacked
<1> QED
    BY <1>2, <1>3, <1>4 DEF IInv

\* A connection lost is a new instance, which connects, or the end of the actor.
LEMMA LostInv ==
    ASSUME IInv, ConnectionLost
    PROVE  IInv'
<1>1. TypeOk /\ mailbox # <<>> /\ stash' = <<>> /\ UNCHANGED <<inFlight, sent, replies>>
    BY DEF IInv, ConnectionLost, Receive
<1>2. CASE starts < MaxStarts
    <2>1. /\ starts' = starts + 1 /\ stack' = <<"starting">> /\ mailbox' = Tail(mailbox)
          /\ attempts' = [attempts EXCEPT ![<<"connect", starts + 1>>] = 1]
        BY <1>2 DEF ConnectionLost
    <2>2. Once' /\ mailbox' \in Seq(Messages) /\ stash' \in Seq(Messages)
        BY <1>1, <2>1, MovesOnce
    <2>3. starts + 1 \in 1 .. MaxStarts
        BY <1>1, <1>2, StartsAssumption DEF TypeOk
    <2>4. <<"connect", starts + 1>> \in Attempts
        BY <2>3 DEF Attempts
    <2>5. attempts' \in [Attempts -> Nat] /\ attempts'[<<"connect", starts + 1>>] > 0
        <3>1. attempts \in [Attempts -> Nat]
            BY <1>1 DEF TypeOk
        <3>2. attempts'[<<"connect", starts + 1>>] = 1
            BY <2>1, <2>4, <3>1
        <3> QED
            BY <2>1, <2>4, <3>1, <3>2
    <2>6. TypeOk'
        BY <1>1, <2>1, <2>2, <2>3, <2>5 DEF TypeOk
    <2>7. WaitIsBacked'
        BY <2>1, <2>4, <2>5, TopOfNext DEF WaitIsBacked, Attempts
    <2> QED
        BY <2>2, <2>6, <2>7 DEF IInv
<1>3. CASE ~(starts < MaxStarts)
    <2>1. /\ stack' = <<"stopped">> /\ mailbox' = <<>> /\ UNCHANGED <<starts, attempts>>
        BY <1>3 DEF ConnectionLost
    <2>2. Once' /\ mailbox' \in Seq(Messages) /\ stash' \in Seq(Messages)
        BY <1>1, <2>1, MovesOnce
    <2>3. TypeOk'
        BY <1>1, <2>1, <2>2 DEF TypeOk
    <2>4. WaitIsBacked'
        BY <2>1, TopOfNext DEF WaitIsBacked
    <2> QED
        BY <2>2, <2>3, <2>4 DEF IInv
<1> QED
    BY <1>2, <1>3

\* A request leaves the mailbox for its publication.
LEMMA PublishInv ==
    ASSUME IInv, Publish
    PROVE  IInv'
<1> DEFINE s == IF Message.type = "Update" THEN None ELSE Message.id
<1>1. /\ TypeOk /\ In("default") /\ mailbox # <<>> /\ Message.type \in {"Update", "Publish"}
      /\ inFlight' = [inFlight EXCEPT ![s] = @ + 1]
      /\ stack' = BecomeStacked(stack, "publishing") /\ mailbox' = Tail(mailbox)
      /\ UNCHANGED <<stash, starts, attempts, sent, replies>>
    BY DEF IInv, Publish, Receive
<1>2. stack' = <<"default", "publishing">>
    <2>1. stack = <<"default">>
        BY <1>1, StackOfTop
    <2> QED
        BY <1>1, <2>1, StackOps
<1>3. Message \in Messages /\ mailbox' \in Seq(Messages)
    BY <1>1, Taken
<1>4. s \in Senders /\ \A r \in Asks : s = r <=> Message \in Of(r)
    <2>1. CASE Message.type = "Update"
        <3>1. \A r \in Asks : Message \notin Of(r)
            BY <1>3, <2>1, MessageKinds
        <3> QED
            BY <2>1, <3>1, NoneAssumption DEF Senders
    <2>2. CASE Message.type = "Publish"
        <3>1. Message.id \in Asks
            BY <1>3, <2>2 DEF Messages
        <3> QED
            BY <1>3, <2>2, <3>1, MessageKinds DEF Senders
    <2> QED
        BY <1>1, <2>1, <2>2
<1> HIDE DEF s
<1>5. /\ inFlight' \in [Senders -> Nat] /\ inFlight'[s] > 0
      /\ \A r \in Asks : inFlight'[r] = inFlight[r] + (IF s = r THEN 1 ELSE 0)
    <2>1. inFlight \in [Senders -> Nat] /\ inFlight[s] \in Nat /\ Asks \subseteq Senders
        BY <1>1, <1>4 DEF TypeOk, Senders
    <2>2. inFlight'[s] = inFlight[s] + 1
        BY <1>1, <1>4, <2>1
    <2>3. \A r \in Asks : inFlight'[r] = inFlight[r] + (IF s = r THEN 1 ELSE 0)
        BY <1>1, <2>1
    <2> QED
        BY <1>1, <1>4, <2>1, <2>2, <2>3
<1>6. TypeOk'
    BY <1>1, <1>2, <1>3, <1>5 DEF TypeOk
<1>7. WaitIsBacked'
    BY <1>2, <1>4, <1>5, TopOfNext DEF WaitIsBacked, Senders
<1>8. Once'
    <2>1. ASSUME NEW r \in Asks
          PROVE  Places(r)' = Places(r)
        <3>1. /\ HowMany(Tail(mailbox), Of(r)) \in Nat /\ HowMany(stash, Of(r)) \in Nat
              /\ HowMany(mailbox, Of(r))
                   = HowMany(Tail(mailbox), Of(r)) + (IF s = r THEN 1 ELSE 0)
            BY <1>1, <1>4, Taken
        <3>2. inFlight[r] \in Nat /\ replies[r] \in Nat
            BY <1>1 DEF TypeOk, Senders
        <3>3. inFlight'[r] = inFlight[r] + (IF s = r THEN 1 ELSE 0)
            BY <1>5
        <3>4. Places(r)' = HowMany(Tail(mailbox), Of(r)) + HowMany(stash, Of(r))
                             + inFlight'[r] + replies[r]
            BY <1>1 DEF Places, Of
        <3>5. Places(r) = HowMany(mailbox, Of(r)) + HowMany(stash, Of(r))
                             + inFlight[r] + replies[r]
            BY DEF Places
        <3> QED
            BY <3>1, <3>2, <3>3, <3>4, <3>5
    <2> QED
        BY <1>1, <2>1 DEF IInv, Once
<1> QED
    BY <1>6, <1>7, <1>8 DEF IInv

\* A result in the mailbox becomes the answer.
LEMMA ResultInv ==
    ASSUME IInv, PublishResult
    PROVE  IInv'
<1> DEFINE s == Message.replyTo
           t == Tail(mailbox)
<1>1. /\ TypeOk /\ In("publishing") /\ mailbox # <<>> /\ Message.type = "Result"
      /\ replies' = [r \in Asks |-> replies[r] + (IF r = s THEN 1 ELSE 0)]
      /\ stack' = UnbecomeStacked(stack)
      /\ mailbox' = UnstashedOldest(t, stash) /\ stash' = WithoutOldest(stash)
      /\ UNCHANGED <<starts, attempts, inFlight, sent>>
    BY DEF IInv, PublishResult, Receive, Reply
<1>2. stack' = <<"default">>
    <2>1. stack = <<"default", "publishing">>
        BY <1>1, StackOfTop
    <2> QED
        BY <1>1, <2>1, StackOps
<1>3. Message \in Messages /\ t \in Seq(Messages) /\ stash \in Seq(Messages)
    BY <1>1, Taken DEF TypeOk
<1>4. \A r \in Asks : r = s <=> Message \in Of(r)
    BY <1>1, <1>3, MessageKinds
<1> HIDE DEF s, t
<1>5. mailbox' \in Seq(Messages) /\ stash' \in Seq(Messages)
    BY <1>1, <1>3, OldestMoves
<1>6. replies' \in [Asks -> Nat]
    <2>1. replies \in [Asks -> Nat]
        BY <1>1 DEF TypeOk
    <2> QED
        BY <1>1, <2>1
<1>7. TypeOk'
    BY <1>1, <1>2, <1>5, <1>6 DEF TypeOk
<1>8. WaitIsBacked'
    BY <1>2, TopOfNext DEF WaitIsBacked
<1>9. Once'
    <2>1. ASSUME NEW r \in Asks
          PROVE  Places(r)' = Places(r)
        <3>1. /\ HowMany(t, Of(r)) \in Nat /\ HowMany(stash, Of(r)) \in Nat
              /\ HowMany(mailbox, Of(r)) = HowMany(t, Of(r)) + (IF r = s THEN 1 ELSE 0)
            BY <1>1, <1>4, Taken DEF t
        <3>2. /\ HowMany(mailbox', Of(r)) \in Nat /\ HowMany(stash', Of(r)) \in Nat
              /\ HowMany(mailbox', Of(r)) + HowMany(stash', Of(r))
                   = HowMany(t, Of(r)) + HowMany(stash, Of(r))
            BY <1>1, <1>3, OldestMoves
        <3>3. inFlight[r] \in Nat /\ replies[r] \in Nat
            BY <1>1 DEF TypeOk, Senders
        <3>4. replies'[r] = replies[r] + (IF r = s THEN 1 ELSE 0)
            BY <1>1
        <3>5. Places(r)' = HowMany(mailbox', Of(r)) + HowMany(stash', Of(r))
                             + inFlight[r] + replies'[r]
            BY <1>1 DEF Places, Of
        <3>6. Places(r) = HowMany(mailbox, Of(r)) + HowMany(stash, Of(r))
                             + inFlight[r] + replies[r]
            BY DEF Places
        <3> QED
            BY <3>1, <3>2, <3>3, <3>4, <3>5, <3>6
    <2> QED
        BY <1>1, <2>1 DEF IInv, Once
<1> QED
    BY <1>7, <1>8, <1>9 DEF IInv

-----------------------------------------------------------------------------

\* What arrives takes the place of what it was to come from, and ends the wait
\* that it was awaited for.
LEMMA ArrivalInv ==
    ASSUME IInv, NEW m \in Messages, Deliver(m),
           UNCHANGED <<stack, stash, starts, replies>>,
           attempts' \in [Attempts -> Nat], inFlight' \in [Senders -> Nat],
           sent' \in SUBSET Asks, sent \subseteq sent',
           attempts' = attempts \/ m.type \in {"Connected", "Subscribed", "ConnectionLost"},
           inFlight' = inFlight \/ m.type = "Result",
           \A r \in Asks :
              \/ m \notin Of(r) /\ inFlight'[r] = inFlight[r]
              \/ m \in Of(r) /\ inFlight'[r] = inFlight[r] - 1
              \/ m \in Of(r) /\ inFlight'[r] = inFlight[r] /\ r \notin sent /\ r \in sent'
    PROVE  IInv'
<1>1. TypeOk /\ mailbox \in Seq(Messages) /\ stash \in Seq(Messages)
    BY DEF IInv, TypeOk
<1>2. mailbox' = Append(mailbox, m) \/ (In("stopped") /\ mailbox' = mailbox)
    BY DEF Deliver
<1>3. Append(mailbox, m) \in Seq(Messages)
    BY <1>1, AppendProperties
<1>4. TypeOk'
    BY <1>1, <1>2, <1>3 DEF TypeOk
<1>5. WaitIsBacked'
    <2>1. /\ In("starting")' = In("starting") /\ In("publishing")' = In("publishing")
        BY TopOfNext
    <2>2. CASE mailbox' = Append(mailbox, m)
        <3>1. \A types : InQueue(mailbox', types) <=> InQueue(mailbox, types) \/ m.type \in types
            BY <1>1, <2>2, AddLast
        <3>2. InQueue(mailbox', {"Result"})
                <=> InQueue(mailbox, {"Result"}) \/ m.type = "Result"
            BY <3>1
        <3>3. InQueue(mailbox', {"Connected", "Subscribed", "ConnectionLost"})
                <=> \/ InQueue(mailbox, {"Connected", "Subscribed", "ConnectionLost"})
                    \/ m.type \in {"Connected", "Subscribed", "ConnectionLost"}
            BY <3>1
        <3> QED
            BY <2>1, <3>2, <3>3 DEF IInv, WaitIsBacked
    <2>3. CASE In("stopped")
        BY <2>1, <2>3, OneBehaviour DEF WaitIsBacked
    <2> QED
        BY <1>2, <2>2, <2>3
<1>6. ASSUME NEW r \in Asks
      PROVE  Places(r)' <= IF r \in sent' THEN 1 ELSE 0
    <2> DEFINE a == HowMany(mailbox, Of(r))
               b == HowMany(stash, Of(r))
               d == HowMany(mailbox', Of(r))
    <2>1. a \in Nat /\ b \in Nat
        BY <1>1, HowManyNat
    <2>2. d = a + (IF m \in Of(r) THEN 1 ELSE 0) \/ d = a
        <3>1. HowMany(Append(mailbox, m), Of(r)) = a + (IF m \in Of(r) THEN 1 ELSE 0)
            BY <1>1, HowManyAppend
        <3>2. CASE mailbox' = Append(mailbox, m)
            BY <3>1, <3>2
        <3>3. CASE mailbox' = mailbox
            BY <3>3
        <3> QED
            BY <1>2, <3>2, <3>3
    <2>3. /\ inFlight[r] \in Nat /\ inFlight'[r] \in Nat /\ replies[r] \in Nat
        BY <1>1 DEF TypeOk, Senders
    <2>4. a + b + inFlight[r] + replies[r] <= IF r \in sent THEN 1 ELSE 0
        BY DEF IInv, Once, Places
    <2>5. Places(r)' = d + b + inFlight'[r] + replies[r]
        BY DEF Places, Of
    <2> HIDE DEF a, b, d
    <2>6. r \in sent => r \in sent'
        OBVIOUS
    <2>7. CASE m \notin Of(r) /\ inFlight'[r] = inFlight[r]
        BY <2>1, <2>2, <2>3, <2>4, <2>5, <2>6, <2>7
    <2>8. CASE m \in Of(r) /\ inFlight'[r] = inFlight[r] - 1
        BY <2>1, <2>2, <2>3, <2>4, <2>5, <2>6, <2>8
    <2>9. CASE m \in Of(r) /\ inFlight'[r] = inFlight[r] /\ r \notin sent /\ r \in sent'
        BY <2>1, <2>2, <2>3, <2>4, <2>5, <2>9
    <2> QED
        BY <2>7, <2>8, <2>9
<1> QED
    BY <1>4, <1>5, <1>6 DEF IInv, Once

\* A connect or a subscribe ends, a connection is lost.
LEMMA ConnectionInv ==
    ASSUME IInv, LoseConnection \/ \E a \in Attempts : AttemptEnds(a)
    PROVE  IInv'
<1>1. PICK m : /\ m \in {[type |-> "Connected"], [type |-> "Subscribed"],
                         [type |-> "ConnectionLost"]}
               /\ Deliver(m)
    BY DEF LoseConnection, AttemptEnds
<1>2. m \in Messages /\ m.type \in {"Connected", "Subscribed", "ConnectionLost"}
    BY <1>1, Arriving
<1>3. /\ UNCHANGED <<stack, stash, starts, inFlight, sent, replies>>
      /\ inFlight \in [Senders -> Nat] /\ sent \in SUBSET Asks
    BY DEF IInv, TypeOk, LoseConnection, AttemptEnds
<1>4. attempts' \in [Attempts -> Nat]
    <2>1. attempts \in [Attempts -> Nat]
        BY DEF IInv, TypeOk
    <2>2. CASE LoseConnection
        BY <2>1, <2>2 DEF LoseConnection
    <2>3. ASSUME NEW a \in Attempts, AttemptEnds(a)
          PROVE  attempts' \in [Attempts -> Nat]
        <3>1. attempts[a] > 0 /\ attempts' = [attempts EXCEPT ![a] = @ - 1]
            BY <2>3 DEF AttemptEnds
        <3>2. attempts[a] \in Nat /\ attempts[a] - 1 \in Nat
            BY <2>1, <3>1
        <3> QED
            BY <2>1, <3>1, <3>2
    <2> QED
        BY <2>2, <2>3
<1>5. \A r \in Asks : m \notin Of(r)
    BY <1>2, MessageKinds
<1> QED
    BY <1>1, <1>2, <1>3, <1>4, <1>5, ArrivalInv

\* A publication is reported.
LEMMA PublicationInv ==
    ASSUME IInv, NEW s \in Senders, PublicationEnds(s)
    PROVE  IInv'
<1> DEFINE m == [type |-> "Result", replyTo |-> s]
<1>1. /\ inFlight[s] > 0 /\ inFlight' = [inFlight EXCEPT ![s] = @ - 1] /\ Deliver(m)
      /\ UNCHANGED <<stack, stash, starts, attempts, sent, replies>>
    BY DEF PublicationEnds
<1>2. /\ inFlight \in [Senders -> Nat] /\ attempts \in [Attempts -> Nat] /\ sent \in SUBSET Asks
    BY DEF IInv, TypeOk
<1>3. m \in Messages /\ m.type = "Result" /\ \A r \in Asks : m \in Of(r) <=> s = r
    BY Arriving, MessageKinds
<1>4. inFlight[s] \in Nat /\ inFlight[s] - 1 \in Nat
    BY <1>1, <1>2
<1>5. inFlight' \in [Senders -> Nat]
    BY <1>1, <1>2, <1>4
<1>6. ASSUME NEW r \in Asks
      PROVE  \/ m \notin Of(r) /\ inFlight'[r] = inFlight[r]
             \/ m \in Of(r) /\ inFlight'[r] = inFlight[r] - 1
    <2>1. r \in Senders
        BY DEF Senders
    <2> QED
        BY <1>1, <1>2, <1>3, <2>1
<1> HIDE DEF m
<1> QED
    BY <1>1, <1>2, <1>3, <1>5, <1>6, ArrivalInv

\* Those who send to the actor.
LEMMA RequestsInv ==
    ASSUME IInv,
           \/ \E type \in {"Update", "Other"} : Request([type |-> type])
           \/ \E r \in Asks : Ask(r)
           \/ PeriodicUpdate
    PROVE  IInv'
<1>1. /\ inFlight \in [Senders -> Nat] /\ attempts \in [Attempts -> Nat] /\ sent \in SUBSET Asks
    BY DEF IInv, TypeOk
<1>2. ASSUME NEW t \in {"Update", "Other"}, Deliver([type |-> t]),
             UNCHANGED <<stack, stash, starts, attempts, inFlight, sent, replies>>
      PROVE  IInv'
    <2>1. [type |-> t] \in Messages /\ \A r \in Asks : [type |-> t] \notin Of(r)
        BY Arriving, MessageKinds
    <2> QED
        BY <1>1, <1>2, <2>1, ArrivalInv
<1>3. ASSUME NEW r \in Asks, Ask(r)
      PROVE  IInv'
    <2> DEFINE m == [type |-> "Publish", id |-> r]
    <2>1. /\ r \notin sent /\ sent' = sent \cup {r} /\ Deliver(m)
          /\ UNCHANGED <<stack, stash, starts, attempts, inFlight, replies>>
        BY <1>3 DEF Ask
    <2>2. m \in Messages /\ m.type = "Publish" /\ \A x \in Asks : m \in Of(x) <=> r = x
        BY Arriving, MessageKinds
    <2>3. \A x \in Asks :
             \/ m \notin Of(x) /\ inFlight'[x] = inFlight[x]
             \/ m \in Of(x) /\ inFlight'[x] = inFlight[x] /\ x \notin sent /\ x \in sent'
        BY <2>1, <2>2
    <2>4. sent' \in SUBSET Asks /\ sent \subseteq sent'
        BY <1>1, <2>1
    <2> HIDE DEF m
    <2> QED
        BY <1>1, <2>1, <2>2, <2>3, <2>4, ArrivalInv
<1> QED
    BY <1>2, <1>3 DEF Request, PeriodicUpdate

-----------------------------------------------------------------------------

\* Every step keeps the invariant.
LEMMA NextInv ==
    ASSUME IInv, [Next]_vars
    PROVE  IInv'
<1>1. CASE UNCHANGED vars
    BY <1>1 DEF vars, IInv, TypeOk, WaitIsBacked, Once, Places, Of, In
<1> QED
    BY <1>1, AsideInv, ConnectedInv, SubscribedInv, LostInv, PublishInv, ResultInv,
       ConnectionInv, PublicationInv, RequestsInv DEF Next, Handle

\* The invariant holds in every reachable state.
THEOREM Invariance == Spec => []IInv
<1>1. Init => IInv
    BY InitInv
<1>2. IInv /\ [Next]_vars => IInv'
    BY NextInv
<1> QED
    BY <1>1, <1>2, PTL DEF Spec

\* WaitIsBacked: a publication awaited has its result to come, and a start its
\* end, whatever callbacks of an earlier instance arrive.
THEOREM NoHang == Spec => []WaitIsBacked
<1>1. IInv => WaitIsBacked
    BY DEF IInv
<1> QED
    BY <1>1, Invariance, PTL

\* The result of a publication is the one answer of its request.
LEMMA ResultServes ==
    ASSUME IInv, PublishResult
    PROVE  [Serves!Next]_<<sent, replies>>
<1> DEFINE s == Message.replyTo
<1>1. /\ TypeOk /\ mailbox # <<>> /\ Message.type = "Result" /\ sent' = sent
      /\ replies' = [r \in Asks |-> replies[r] + (IF r = s THEN 1 ELSE 0)]
    BY DEF IInv, PublishResult, Receive, Reply
<1>2. replies \in [Asks -> Nat] /\ inFlight \in [Senders -> Nat]
    BY <1>1 DEF TypeOk
<1>3. CASE s \in Asks
    <2>1. Message \in Of(s)
        BY <1>1, <1>3, Taken, MessageKinds
    <2>2. /\ HowMany(Tail(mailbox), Of(s)) \in Nat /\ HowMany(stash, Of(s)) \in Nat
          /\ HowMany(mailbox, Of(s)) = HowMany(Tail(mailbox), Of(s)) + 1
        BY <1>1, <2>1, Taken
    <2>3. inFlight[s] \in Nat /\ replies[s] \in Nat
        BY <1>2, <1>3 DEF Senders
    <2>4. HowMany(mailbox, Of(s)) + HowMany(stash, Of(s)) + inFlight[s] + replies[s]
             <= IF s \in sent THEN 1 ELSE 0
        BY <1>3 DEF IInv, Once, Places
    <2> HIDE DEF s
    <2>5. s \in sent /\ replies[s] = 0
        BY <2>2, <2>3, <2>4
    <2>6. replies' = [replies EXCEPT ![s] = 1]
        <3>1. \A r \in Asks : replies'[r] = [replies EXCEPT ![s] = 1][r]
            BY <1>1, <1>2, <1>3, <2>5
        <3>2. /\ replies' = [r \in Asks |-> replies'[r]]
              /\ [replies EXCEPT ![s] = 1] = [r \in Asks |-> [replies EXCEPT ![s] = 1][r]]
            BY <1>1, <1>2
        <3> QED
            BY <3>1, <3>2
    <2> QED
        BY <1>1, <1>3, <2>5, <2>6 DEF Serves!Next, Serves!Answer
<1>4. CASE s \notin Asks
    <2>1. \A r \in Asks : replies'[r] = replies[r]
        BY <1>1, <1>2, <1>4
    <2>2. replies' = replies
        BY <1>1, <1>2, <2>1
    <2> QED
        BY <1>1, <2>2
<1> QED
    BY <1>3, <1>4

\* Every step is one of RequestReply, or none.
LEMMA NextServes ==
    ASSUME IInv, [Next]_vars
    PROVE  [Serves!Next]_<<sent, replies>>
<1>1. ASSUME NEW r \in Asks, Ask(r)
      PROVE  Serves!Next
    BY <1>1 DEF Ask, Serves!Next, Serves!Send
<1>2. CASE UNCHANGED vars
    BY <1>2 DEF vars
<1>3. CASE Connected \/ Subscribed \/ ConnectionLost \/ Publish \/ StashMessage \/ NoEffect
    BY <1>3 DEF Connected, Subscribed, ConnectionLost, Publish, StashMessage, NoEffect
<1>4. CASE LoseConnection \/ PeriodicUpdate \/ (\E a \in Attempts : AttemptEnds(a))
    BY <1>4 DEF LoseConnection, PeriodicUpdate, AttemptEnds
<1>5. CASE \/ \E s \in Senders : PublicationEnds(s)
           \/ \E type \in {"Update", "Other"} : Request([type |-> type])
    BY <1>5 DEF PublicationEnds, Request
<1> QED
    BY <1>1, <1>2, <1>3, <1>4, <1>5, ResultServes DEF Next, Handle

\* Promise: a request to publish is answered only if it was sent, and never
\* twice, whatever is put aside, handed back or reported late by an old client.
THEOREM ServesRequests == Spec => Promise
<1>1. Init => Serves!Init
    BY DEF Init, Serves!Init
<1>2. IInv /\ [Next]_vars => [Serves!Next]_<<sent, replies>>
    BY NextServes
<1> QED
    BY <1>1, <1>2, Invariance, PTL DEF Spec, Promise, Serves!Spec
=============================================================================
