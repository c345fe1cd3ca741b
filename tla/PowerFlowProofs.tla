---------------------------- MODULE PowerFlowProofs ----------------------------
(***************************************************************************)
(* The safety of PowerFlow, for every set of health requests and every     *)
(* number of answers that a tick may find unread.                          *)
(***************************************************************************)
EXTENDS PowerFlow, ActorUtilLemmas

Ticks == {m \in Messages : m.type = "Tick"}
Answers(k) == {m \in Messages : m.type \in {k}}

TypeOk ==
    /\ stack \in {<<"waitingInfo">>, <<"default">>, <<"default", "waitingPF">>}
    /\ mailbox \in Seq(Messages) /\ stash \in Seq(Messages)
    /\ timers \in Nat /\ pending \in [Kinds -> Nat]

\* The one tick, counted.
OneTick == timers + HowMany(mailbox, Ticks) + HowMany(stash, Ticks) = 1

Outstanding(k) == pending[k] + HowMany(mailbox, Answers(k))

\* The answer awaited is the only one of its kind, and nothing awaited is ever
\* put aside: a state that waits does not ask again, and no answer comes late.
OneAnswer ==
    /\ Outstanding("flow") = (IF In("waitingPF") THEN 1 ELSE 0)
    /\ Outstanding("info") = (IF In("waitingInfo") THEN 1 ELSE 0)
    /\ HowMany(stash, Answers("flow")) = 0 /\ HowMany(stash, Answers("info")) = 0

IInv == TypeOk /\ OneTick /\ OneAnswer

-----------------------------------------------------------------------------

\* What a message is counted as.
LEMMA MessageKinds ==
    /\ \A m \in Messages : m \in Ticks <=> m.type = "Tick"
    /\ \A m \in Messages, k \in Kinds : m \in Answers(k) <=> m.type = k
    /\ [type |-> "Tick"] \in Messages
    /\ \A r \in HealthRequests : [type |-> "Health", id |-> r] \in Messages
    /\ \A k \in Kinds, e \in BOOLEAN : [type |-> k, error |-> e] \in Messages
    /\ \A k \in Kinds : k \notin {"Tick", "Health"}
BY DEF Messages, Ticks, Answers, Kinds

\* The behaviour tells the stack.
LEMMA StackOfTop ==
    ASSUME TypeOk
    PROVE  /\ In("waitingInfo") <=> stack = <<"waitingInfo">>
           /\ In("default") <=> stack = <<"default">>
           /\ In("waitingPF") <=> stack = <<"default", "waitingPF">>
<1>1. /\ \A a : <<a>>[Len(<<a>>)] = a
      /\ \A a, b : <<a, b>>[Len(<<a, b>>)] = b
    OBVIOUS
<1>2. CASE stack = <<"waitingInfo">>
    BY <1>1, <1>2 DEF In
<1>3. CASE stack = <<"default">>
    BY <1>1, <1>3 DEF In
<1>4. CASE stack = <<"default", "waitingPF">>
    BY <1>1, <1>4 DEF In
<1> QED
    BY <1>2, <1>3, <1>4 DEF TypeOk

\* The behaviour after a step, from the stack after it.
LEMMA TopOfNext ==
    /\ stack' = <<"default">> =>
          ~In("waitingInfo")' /\ In("default")' /\ ~In("waitingPF")'
    /\ stack' = <<"default", "waitingPF">> =>
          ~In("waitingInfo")' /\ ~In("default")' /\ In("waitingPF")'
    /\ stack' = stack =>
          /\ In("waitingInfo")' = In("waitingInfo") /\ In("default")' = In("default")
          /\ In("waitingPF")' = In("waitingPF")
<1>1. /\ \A a : <<a>>[Len(<<a>>)] = a
      /\ \A a, b : <<a, b>>[Len(<<a, b>>)] = b
    OBVIOUS
<1> QED
    BY <1>1 DEF In

\* What the queues hold of P after a handler has taken its message.
LEMMA Taken ==
    ASSUME TypeOk, mailbox # <<>>, NEW P
    PROVE  /\ Message \in Messages /\ Tail(mailbox) \in Seq(Messages)
           /\ Append(stash, Message) \in Seq(Messages)
           /\ UnstashedAll(Tail(mailbox), stash) \in Seq(Messages)
           /\ <<>> \in Seq(Messages)
           /\ HowMany(Tail(mailbox), P) \in Nat /\ HowMany(stash, P) \in Nat
           /\ HowMany(mailbox, P) = HowMany(Tail(mailbox), P) + (IF Message \in P THEN 1 ELSE 0)
           /\ HowMany(Append(stash, Message), P)
                = HowMany(stash, P) + (IF Message \in P THEN 1 ELSE 0)
           /\ HowMany(UnstashedAll(Tail(mailbox), stash), P)
                = HowMany(Tail(mailbox), P) + HowMany(stash, P)
           /\ HowMany(<<>>, P) = 0
BY QueueMoves DEF TypeOk, Message

\* At the start one tick is to come and the devices are asked for.
LEMMA InitInv == Init => IInv
<1> SUFFICES ASSUME Init PROVE IInv
    OBVIOUS
<1>1. \A P : HowMany(<<>>, P) = 0
    BY HowManyShort
<1>2. <<>> \in Seq(Messages)
    OBVIOUS
<1>3. TypeOk
    BY <1>2 DEF Init, TypeOk, Kinds
<1>4. In("waitingInfo") /\ ~In("waitingPF")
    BY DEF Init, In
<1>5. OneTick /\ OneAnswer
    BY <1>1, <1>4 DEF Init, OneTick, OneAnswer, Outstanding, Kinds
<1> QED
    BY <1>3, <1>5 DEF IInv

\* The wait for the devices ends with its answer.
LEMMA DevicesInv ==
    ASSUME IInv, DevicesInfo
    PROVE  IInv'
<1> DEFINE t == Tail(mailbox)
           u == UnstashedAll(t, stash)
<1>1. /\ TypeOk /\ In("waitingInfo") /\ mailbox # <<>> /\ Message.type = "info"
      /\ stack' = Become(stack, "default") /\ mailbox' = u /\ stash' = <<>>
      /\ UNCHANGED <<timers, pending>>
    BY DEF IInv, DevicesInfo, Receive
<1>2. stack = <<"waitingInfo">> /\ stack' = <<"default">> /\ ~In("waitingPF")
    <2>1. stack = <<"waitingInfo">> /\ stack' = <<"default">>
        BY <1>1, StackOfTop, StackOps
    <2> QED
        BY <1>1, <2>1, StackOfTop
<1>3. ~In("waitingInfo")' /\ ~In("waitingPF")'
    BY <1>2, TopOfNext
<1>4. /\ Message \in Messages /\ u \in Seq(Messages) /\ <<>> \in Seq(Messages)
    BY <1>1, Taken
<1>5. TypeOk'
    BY <1>1, <1>2, <1>4 DEF TypeOk
<1>6. ASSUME NEW P
      PROVE  /\ HowMany(t, P) \in Nat /\ HowMany(stash, P) \in Nat
             /\ HowMany(mailbox, P) = HowMany(t, P) + (IF Message \in P THEN 1 ELSE 0)
             /\ HowMany(mailbox', P) = HowMany(t, P) + HowMany(stash, P)
             /\ HowMany(stash', P) = 0
    BY <1>1, Taken
<1>7. /\ Message \notin Ticks /\ Message \notin Answers("flow") /\ Message \in Answers("info")
    BY <1>1, <1>4, MessageKinds DEF Kinds
<1>8. pending["flow"] \in Nat /\ pending["info"] \in Nat /\ timers \in Nat
    BY <1>1 DEF TypeOk, Kinds
<1> HIDE DEF t, u
<1>9. OneTick'
    <2>1. /\ HowMany(t, Ticks) \in Nat /\ HowMany(stash, Ticks) \in Nat
          /\ HowMany(mailbox, Ticks) = HowMany(t, Ticks)
          /\ HowMany(mailbox', Ticks) = HowMany(t, Ticks) + HowMany(stash, Ticks)
          /\ HowMany(stash', Ticks) = 0
        BY <1>6, <1>7
    <2>2. timers' = timers
        BY <1>1
    <2> QED
        BY <1>8, <2>1, <2>2 DEF IInv, OneTick, Ticks
<1>10. Outstanding("flow")' = 0 /\ HowMany(stash', Answers("flow")) = 0
    <2>1. /\ HowMany(t, Answers("flow")) \in Nat /\ HowMany(stash, Answers("flow")) = 0
          /\ HowMany(mailbox, Answers("flow")) = HowMany(t, Answers("flow"))
          /\ HowMany(mailbox', Answers("flow"))
               = HowMany(t, Answers("flow")) + HowMany(stash, Answers("flow"))
          /\ HowMany(stash', Answers("flow")) = 0
        BY <1>6, <1>7 DEF IInv, OneAnswer
    <2>2. pending' = pending /\ Outstanding("flow") = 0
        BY <1>1, <1>2 DEF IInv, OneAnswer
    <2> QED
        BY <1>8, <2>1, <2>2 DEF Outstanding, Answers
<1>11. Outstanding("info")' = 0 /\ HowMany(stash', Answers("info")) = 0
    <2>1. /\ HowMany(t, Answers("info")) \in Nat /\ HowMany(stash, Answers("info")) = 0
          /\ HowMany(mailbox, Answers("info")) = HowMany(t, Answers("info")) + 1
          /\ HowMany(mailbox', Answers("info"))
               = HowMany(t, Answers("info")) + HowMany(stash, Answers("info"))
          /\ HowMany(stash', Answers("info")) = 0
        BY <1>6, <1>7 DEF IInv, OneAnswer
    <2>2. pending' = pending /\ Outstanding("info") = 1
        BY <1>1 DEF IInv, OneAnswer
    <2> QED
        BY <1>8, <2>1, <2>2 DEF Outstanding, Answers
<1>12. OneAnswer'
    BY <1>3, <1>10, <1>11 DEF OneAnswer, Answers
<1> QED
    BY <1>5, <1>9, <1>12 DEF IInv

\* A message without effect on the polling is dropped or put aside: neither the
\* tick nor, when it is put aside, an answer that is awaited is lost.
LEMMA AsideInv ==
    ASSUME IInv, Health \/ StateReceived \/ StashMessage
    PROVE  IInv'
<1> DEFINE t == Tail(mailbox)
           aside == stash' = Append(stash, Message)
<1>1. /\ TypeOk /\ mailbox # <<>> /\ mailbox' = t /\ (stash' = stash \/ aside)
      /\ UNCHANGED <<stack, timers, pending>>
    BY DEF IInv, Health, StateReceived, StashMessage, Receive, Stashed
<1>2. /\ Message \in Messages /\ t \in Seq(Messages) /\ Append(stash, Message) \in Seq(Messages)
    BY <1>1, Taken
<1>3. TypeOk'
    BY <1>1, <1>2 DEF TypeOk
<1>4. /\ In("waitingInfo")' = In("waitingInfo") /\ In("waitingPF")' = In("waitingPF")
    BY <1>1, TopOfNext
<1>5. ASSUME NEW P
      PROVE  /\ HowMany(t, P) \in Nat /\ HowMany(stash, P) \in Nat
             /\ HowMany(mailbox, P) = HowMany(t, P) + (IF Message \in P THEN 1 ELSE 0)
             /\ HowMany(Append(stash, Message), P)
                  = HowMany(stash, P) + (IF Message \in P THEN 1 ELSE 0)
    BY <1>1, Taken
<1>6. pending["flow"] \in Nat /\ pending["info"] \in Nat /\ timers \in Nat
    BY <1>1 DEF TypeOk, Kinds
<1>7. Message.type \notin {"flow", "info"}
    <2>1. CASE Health \/ StateReceived
        BY <2>1 DEF Health, StateReceived, Receive
    <2>2. CASE StashMessage
        <3>1. Message.type \notin Handled
            BY <2>2 DEF StashMessage
        <3>2. ASSUME NEW k \in {"flow", "info"}, Message.type = k
              PROVE  Outstanding(k) # 0
            <4>1. Message \in Answers(k)
                BY <1>2, <3>2, MessageKinds DEF Kinds
            <4>2. HowMany(mailbox, Answers(k)) = HowMany(t, Answers(k)) + 1
                    /\ HowMany(t, Answers(k)) \in Nat
                BY <1>5, <4>1
            <4> QED
                BY <1>6, <4>2 DEF Outstanding
        <3>3. In("waitingInfo") \/ In("default") \/ In("waitingPF")
            BY <1>1, StackOfTop DEF TypeOk
        <3>4. In("waitingInfo") => Message.type # "info"
            <4>1. In("waitingInfo") => ~In("waitingPF") /\ ~In("default")
                BY <1>1, StackOfTop
            <4>2. In("waitingInfo") => Handled = {"info"}
                BY <4>1 DEF Handled
            <4> QED
                BY <3>1, <4>2
        <3>5. In("waitingPF") => Message.type # "flow"
            <4>1. In("waitingPF") => ~In("waitingInfo") /\ ~In("default")
                <5>1. Len(<<"default">>) = 1 /\ Len(<<"default", "waitingPF">>) = 2
                      /\ Len(<<"waitingInfo">>) = 1
                    OBVIOUS
                <5>2. In("waitingPF") => stack = <<"default", "waitingPF">>
                    BY <1>1, StackOfTop
                <5>3. /\ In("waitingInfo") => stack = <<"waitingInfo">>
                      /\ In("default") => stack = <<"default">>
                    BY <1>1, StackOfTop
                <5> QED
                    BY <5>1, <5>2, <5>3
            <4>2. In("waitingPF") => Handled = {"flow"}
                BY <4>1 DEF Handled
            <4> QED
                BY <3>1, <4>2
        <3>6. /\ ~In("waitingPF") => Outstanding("flow") = 0
              /\ ~In("waitingInfo") => Outstanding("info") = 0
            BY DEF IInv, OneAnswer
        <3> QED
            BY <3>2, <3>4, <3>5, <3>6
    <2> QED
        BY <2>1, <2>2
<1>8. aside \/ Message.type # "Tick"
    BY DEF Health, StateReceived, StashMessage, Receive, Stashed
<1>9. /\ Message \notin Answers("flow") /\ Message \notin Answers("info")
      /\ Message \in Ticks <=> Message.type = "Tick"
    BY <1>2, <1>7, MessageKinds DEF Kinds
<1> HIDE DEF t
<1>10. OneTick'
    <2>1. /\ HowMany(t, Ticks) \in Nat /\ HowMany(stash, Ticks) \in Nat
          /\ HowMany(mailbox, Ticks) = HowMany(t, Ticks) + (IF Message \in Ticks THEN 1 ELSE 0)
          /\ HowMany(Append(stash, Message), Ticks)
               = HowMany(stash, Ticks) + (IF Message \in Ticks THEN 1 ELSE 0)
        BY <1>5
    <2>2. timers' = timers /\ mailbox' = t
        BY <1>1
    <2>3. HowMany(t, Ticks) + HowMany(stash', Ticks)
             = HowMany(mailbox, Ticks) + HowMany(stash, Ticks)
        <3>1. CASE aside
            BY <2>1, <3>1
        <3>2. CASE stash' = stash /\ Message \notin Ticks
            BY <2>1, <3>2
        <3> QED
            BY <1>1, <1>8, <1>9, <3>1, <3>2
    <2>4. timers + HowMany(mailbox, Ticks) + HowMany(stash, Ticks) = 1
        BY DEF IInv, OneTick
    <2>5. timers + HowMany(t, Ticks) + HowMany(stash', Ticks) = 1
        <3>1. HowMany(mailbox, Ticks) \in Nat
            BY <2>1
        <3>2. HowMany(stash', Ticks) \in Nat
            <4>1. HowMany(Append(stash, Message), Ticks) \in Nat
                BY <2>1
            <4> QED
                BY <1>1, <2>1, <4>1
        <3> QED
            BY <1>6, <2>1, <2>3, <2>4, <3>1, <3>2
    <2> QED
        BY <2>2, <2>5 DEF OneTick, Ticks
<1>11. ASSUME NEW k \in {"flow", "info"}
       PROVE  Outstanding(k)' = Outstanding(k) /\ HowMany(stash', Answers(k)) = 0
    <2>1. /\ HowMany(t, Answers(k)) \in Nat /\ HowMany(stash, Answers(k)) = 0
          /\ HowMany(mailbox, Answers(k)) = HowMany(t, Answers(k))
          /\ HowMany(Append(stash, Message), Answers(k)) = HowMany(stash, Answers(k))
        BY <1>5, <1>9 DEF IInv, OneAnswer
    <2>2. mailbox' = t /\ pending' = pending /\ HowMany(stash', Answers(k)) = 0
        BY <1>1, <2>1
    <2> QED
        BY <2>1, <2>2 DEF Outstanding, Answers
<1>12. OneAnswer'
    <2>1. /\ Outstanding("flow")' = Outstanding("flow") /\ HowMany(stash', Answers("flow")) = 0
          /\ Outstanding("info")' = Outstanding("info") /\ HowMany(stash', Answers("info")) = 0
        BY <1>11
    <2> QED
        BY <1>4, <2>1 DEF IInv, OneAnswer, Answers
<1> QED
    BY <1>3, <1>10, <1>12 DEF IInv

\* The tick becomes the timer of the next one, and asks for the flow.
LEMMA TickInv ==
    ASSUME IInv, Tick
    PROVE  IInv'
<1> DEFINE t == Tail(mailbox)
<1>1. /\ TypeOk /\ In("default") /\ mailbox # <<>> /\ Message.type = "Tick"
      /\ timers' = timers + 1 /\ stack' = BecomeStacked(stack, "waitingPF")
      /\ mailbox' = t /\ stash' = stash
    BY DEF IInv, Tick, Receive
<1>2. stack = <<"default">> /\ stack' = <<"default", "waitingPF">>
    <2>1. stack = <<"default">>
        BY <1>1, StackOfTop
    <2> QED
        BY <1>1, <2>1, StackOps
<1>3. /\ ~In("waitingInfo") /\ ~In("waitingPF")
      /\ ~In("waitingInfo")' /\ In("waitingPF")'
    BY <1>1, <1>2, StackOfTop, TopOfNext
<1>4. /\ pending' \in [Kinds -> Nat] /\ pending'["flow"] = pending["flow"] + 1
      /\ pending'["info"] = pending["info"]
      /\ pending["flow"] \in Nat /\ pending["info"] \in Nat /\ timers \in Nat
    <2>1. PICK asked \in SUBSET Kinds :
             /\ "flow" \in asked /\ "info" \notin asked
             /\ pending' = [k \in Kinds |-> pending[k] + (IF k \in asked THEN 1 ELSE 0)]
        BY DEF Tick, Kinds
    <2>2. pending \in [Kinds -> Nat] /\ "flow" \in Kinds /\ "info" \in Kinds /\ timers \in Nat
        BY <1>1 DEF TypeOk, Kinds
    <2> QED
        BY <2>1, <2>2
<1>5. Message \in Messages /\ t \in Seq(Messages)
    BY <1>1, Taken
<1>6. ASSUME NEW P
      PROVE  /\ HowMany(t, P) \in Nat /\ HowMany(stash, P) \in Nat
             /\ HowMany(mailbox, P) = HowMany(t, P) + (IF Message \in P THEN 1 ELSE 0)
    BY <1>1, Taken
<1>7. Message \in Ticks /\ Message \notin Answers("flow") /\ Message \notin Answers("info")
    BY <1>1, <1>5, MessageKinds DEF Kinds
<1>8. TypeOk'
    BY <1>1, <1>2, <1>4, <1>5 DEF TypeOk
<1> HIDE DEF t
<1>9. OneTick'
    <2>1. /\ HowMany(mailbox, Ticks) = HowMany(t, Ticks) + 1
          /\ HowMany(t, Ticks) \in Nat /\ HowMany(stash, Ticks) \in Nat
        BY <1>6, <1>7
    <2>2. timers' = timers + 1 /\ mailbox' = t /\ stash' = stash
        BY <1>1
    <2> QED
        BY <1>4, <2>1, <2>2 DEF IInv, OneTick, Ticks
<1>10. Outstanding("flow")' = 1 /\ Outstanding("info")' = 0
    <2>1. /\ HowMany(mailbox, Answers("flow")) = HowMany(t, Answers("flow"))
          /\ HowMany(mailbox, Answers("info")) = HowMany(t, Answers("info"))
          /\ HowMany(t, Answers("flow")) \in Nat /\ HowMany(t, Answers("info")) \in Nat
        BY <1>6, <1>7
    <2>2. Outstanding("flow") = 0 /\ Outstanding("info") = 0 /\ mailbox' = t
        BY <1>1, <1>3 DEF IInv, OneAnswer
    <2> QED
        BY <1>4, <2>1, <2>2 DEF Outstanding, Answers
<1>11. OneAnswer'
    BY <1>1, <1>3, <1>10 DEF IInv, OneAnswer, Answers
<1> QED
    BY <1>8, <1>9, <1>11 DEF IInv

\* The wait for the flow ends with its answer.
LEMMA FlowInv ==
    ASSUME IInv, PowerFlowReceived
    PROVE  IInv'
<1> DEFINE t == Tail(mailbox)
           u == UnstashedAll(t, stash)
<1>1. /\ TypeOk /\ In("waitingPF") /\ mailbox # <<>> /\ Message.type = "flow"
      /\ stack' = UnbecomeStacked(stack) /\ mailbox' = u /\ stash' = <<>>
      /\ UNCHANGED <<timers, pending>>
    BY DEF IInv, PowerFlowReceived, Receive
<1>2. stack = <<"default", "waitingPF">> /\ stack' = <<"default">>
    <2>1. stack = <<"default", "waitingPF">>
        BY <1>1, StackOfTop
    <2> QED
        BY <1>1, <2>1, StackOps
<1>3. ~In("waitingInfo") /\ ~In("waitingInfo")' /\ ~In("waitingPF")'
    BY <1>1, <1>2, StackOfTop, TopOfNext
<1>4. Message \in Messages /\ u \in Seq(Messages) /\ <<>> \in Seq(Messages)
    BY <1>1, Taken
<1>5. TypeOk'
    BY <1>1, <1>2, <1>4 DEF TypeOk
<1>6. ASSUME NEW P
      PROVE  /\ HowMany(t, P) \in Nat /\ HowMany(stash, P) \in Nat
             /\ HowMany(mailbox, P) = HowMany(t, P) + (IF Message \in P THEN 1 ELSE 0)
             /\ HowMany(mailbox', P) = HowMany(t, P) + HowMany(stash, P)
             /\ HowMany(stash', P) = 0
    BY <1>1, Taken
<1>7. Message \notin Ticks /\ Message \in Answers("flow") /\ Message \notin Answers("info")
    BY <1>1, <1>4, MessageKinds DEF Kinds
<1>8. pending["flow"] \in Nat /\ pending["info"] \in Nat /\ timers \in Nat
    BY <1>1 DEF TypeOk, Kinds
<1> HIDE DEF t, u
<1>9. OneTick'
    <2>1. /\ HowMany(t, Ticks) \in Nat /\ HowMany(stash, Ticks) \in Nat
          /\ HowMany(mailbox, Ticks) = HowMany(t, Ticks)
          /\ HowMany(mailbox', Ticks) = HowMany(t, Ticks) + HowMany(stash, Ticks)
          /\ HowMany(stash', Ticks) = 0
        BY <1>6, <1>7
    <2>2. timers' = timers
        BY <1>1
    <2> QED
        BY <1>8, <2>1, <2>2 DEF IInv, OneTick, Ticks
<1>10. Outstanding("flow")' = 0 /\ HowMany(stash', Answers("flow")) = 0
    <2>1. /\ HowMany(t, Answers("flow")) \in Nat /\ HowMany(stash, Answers("flow")) = 0
          /\ HowMany(mailbox, Answers("flow")) = HowMany(t, Answers("flow")) + 1
          /\ HowMany(mailbox', Answers("flow"))
               = HowMany(t, Answers("flow")) + HowMany(stash, Answers("flow"))
          /\ HowMany(stash', Answers("flow")) = 0
        BY <1>6, <1>7 DEF IInv, OneAnswer
    <2>2. pending' = pending /\ Outstanding("flow") = 1
        BY <1>1 DEF IInv, OneAnswer
    <2> QED
        BY <1>8, <2>1, <2>2 DEF Outstanding, Answers
<1>11. Outstanding("info")' = 0 /\ HowMany(stash', Answers("info")) = 0
    <2>1. /\ HowMany(t, Answers("info")) \in Nat /\ HowMany(stash, Answers("info")) = 0
          /\ HowMany(mailbox, Answers("info")) = HowMany(t, Answers("info"))
          /\ HowMany(mailbox', Answers("info"))
               = HowMany(t, Answers("info")) + HowMany(stash, Answers("info"))
          /\ HowMany(stash', Answers("info")) = 0
        BY <1>6, <1>7 DEF IInv, OneAnswer
    <2>2. pending' = pending /\ Outstanding("info") = 0
        BY <1>1, <1>3 DEF IInv, OneAnswer
    <2> QED
        BY <1>8, <2>1, <2>2 DEF Outstanding, Answers
<1>12. OneAnswer'
    BY <1>3, <1>10, <1>11 DEF OneAnswer, Answers
<1> QED
    BY <1>5, <1>9, <1>12 DEF IInv

\* What arrives takes the place of what it was to come from.
LEMMA ArrivalInv ==
    ASSUME IInv, NEW m \in Messages, mailbox' = Append(mailbox, m),
           UNCHANGED <<stack, stash>>,
           timers' \in Nat, timers' = timers - (IF m.type = "Tick" THEN 1 ELSE 0),
           pending' \in [Kinds -> Nat],
           \A k \in Kinds : pending'[k] = pending[k] - (IF m.type = k THEN 1 ELSE 0)
    PROVE  IInv'
<1>1. mailbox \in Seq(Messages) /\ timers \in Nat /\ pending \in [Kinds -> Nat] /\ TypeOk
    BY DEF IInv, TypeOk
<1>2. ASSUME NEW P
      PROVE  /\ mailbox' \in Seq(Messages) /\ HowMany(mailbox, P) \in Nat
             /\ HowMany(mailbox', P) = HowMany(mailbox, P) + (IF m \in P THEN 1 ELSE 0)
    BY <1>1, QueueGrows
<1>3. TypeOk'
    BY <1>1, <1>2 DEF TypeOk
<1>4. OneTick'
    <2>1. /\ HowMany(mailbox, Ticks) \in Nat
          /\ HowMany(mailbox', Ticks) = HowMany(mailbox, Ticks) + (IF m.type = "Tick" THEN 1 ELSE 0)
        BY <1>2, MessageKinds
    <2>2. HowMany(stash, Ticks) \in Nat /\ stash' = stash
        BY HowManyNat DEF IInv, TypeOk
    <2> QED
        BY <1>1, <2>1, <2>2 DEF IInv, OneTick, Ticks
<1>5. ASSUME NEW k \in Kinds PROVE Outstanding(k)' = Outstanding(k)
    <2>1. /\ HowMany(mailbox, Answers(k)) \in Nat
          /\ HowMany(mailbox', Answers(k)) = HowMany(mailbox, Answers(k)) + (IF m.type = k THEN 1 ELSE 0)
        BY <1>2, MessageKinds
    <2>2. pending'[k] = pending[k] - (IF m.type = k THEN 1 ELSE 0) /\ pending[k] \in Nat
        BY <1>1
    <2>3. pending'[k] + HowMany(mailbox', Answers(k)) = pending[k] + HowMany(mailbox, Answers(k))
        <3>1. CASE m.type = k
            BY <2>1, <2>2, <3>1
        <3>2. CASE m.type # k
            BY <2>1, <2>2, <3>2
        <3> QED
            BY <3>1, <3>2
    <2> QED
        BY <2>3 DEF Outstanding, Answers
<1>6. In("waitingInfo")' = In("waitingInfo") /\ In("waitingPF")' = In("waitingPF")
    BY TopOfNext
<1>7. OneAnswer'
    <2>1. Outstanding("flow")' = Outstanding("flow") /\ Outstanding("info")' = Outstanding("info")
        BY <1>5 DEF Kinds
    <2> QED
        BY <1>6, <2>1 DEF IInv, OneAnswer, Answers
<1> QED
    BY <1>3, <1>4, <1>7 DEF IInv

\* The timer fires, a request ends, the master asks.
LEMMA SurroundingsInv ==
    ASSUME IInv,
           \/ TimerFires
           \/ \E k \in Kinds : FutureCompletes(k)
           \/ \E r \in HealthRequests : AskHealth(r)
    PROVE  IInv'
<1>1. pending \in [Kinds -> Nat] /\ timers \in Nat /\ \A k \in Kinds : k \notin {"Tick", "Health"}
    BY MessageKinds DEF IInv, TypeOk
<1>2. CASE TimerFires
    <2>1. /\ timers' = timers - 1 /\ timers > 0 /\ mailbox' = Append(mailbox, [type |-> "Tick"])
          /\ UNCHANGED <<stack, stash, pending>>
        BY <1>2 DEF TimerFires
    <2>2. timers' \in Nat /\ [type |-> "Tick"] \in Messages
        BY <1>1, <2>1, MessageKinds
    <2>3. \A k \in Kinds : pending'[k] = pending[k] - (IF "Tick" = k THEN 1 ELSE 0)
        BY <1>1, <2>1
    <2> QED
        BY <1>1, <2>1, <2>2, <2>3, ArrivalInv
<1>3. ASSUME NEW k \in Kinds, FutureCompletes(k)
      PROVE  IInv'
    <2>1. PICK error \in BOOLEAN : mailbox' = Append(mailbox, [type |-> k, error |-> error])
        BY <1>3 DEF FutureCompletes
    <2>2. /\ pending[k] > 0 /\ pending' = [pending EXCEPT ![k] = @ - 1]
          /\ UNCHANGED <<stack, stash, timers>>
        BY <1>3 DEF FutureCompletes
    <2>3. /\ pending' \in [Kinds -> Nat]
          /\ \A j \in Kinds : pending'[j] = pending[j] - (IF k = j THEN 1 ELSE 0)
        BY <1>1, <2>2
    <2>4. [type |-> k, error |-> error] \in Messages /\ k # "Tick"
        BY <1>1, MessageKinds
    <2>5. timers' = timers - 0 /\ timers' \in Nat
        BY <1>1, <2>2
    <2> QED
        BY <2>1, <2>2, <2>3, <2>4, <2>5, ArrivalInv
<1>4. ASSUME NEW r \in HealthRequests, AskHealth(r)
      PROVE  IInv'
    <2>1. /\ mailbox' = Append(mailbox, [type |-> "Health", id |-> r])
          /\ UNCHANGED <<stack, stash, timers, pending>>
        BY <1>4 DEF AskHealth
    <2>2. [type |-> "Health", id |-> r] \in Messages
        BY MessageKinds
    <2>3. \A k \in Kinds : pending'[k] = pending[k] - (IF "Health" = k THEN 1 ELSE 0)
        BY <1>1, <2>1
    <2>4. timers' = timers - 0 /\ timers' \in Nat /\ pending' \in [Kinds -> Nat]
        BY <1>1, <2>1
    <2> QED
        BY <2>1, <2>2, <2>3, <2>4, ArrivalInv
<1> QED
    BY <1>2, <1>3, <1>4

-----------------------------------------------------------------------------

\* Every step keeps the invariant.
LEMMA NextInv ==
    ASSUME IInv, [Next]_vars
    PROVE  IInv'
<1>1. CASE UNCHANGED vars
    BY <1>1 DEF vars, IInv, TypeOk, OneTick, OneAnswer, Outstanding, In, Ticks, Answers
<1> QED
    BY <1>1, DevicesInv, AsideInv, TickInv, FlowInv, SurroundingsInv DEF Next, Handle

\* The invariant holds in every reachable state.
THEOREM Invariance == Spec => []IInv
<1>1. Init => IInv
    BY InitInv
<1>2. IInv /\ [Next]_vars => IInv'
    BY NextInv
<1> QED
    BY <1>1, <1>2, PTL DEF Spec

\* OneTickLoop: there is one tick at all times, to come, in the mailbox or put
\* aside; the polling neither dies out nor doubles.
THEOREM PollingGoesOn == Spec => []OneTickLoop
<1>1. IInv => OneTickLoop
    <2>1. ASSUME NEW q \in Seq(Messages) PROVE TicksIn(q) = HowMany(q, Ticks)
        <3>1. \A i \in DOMAIN q : q[i] \in Messages
            BY LenProperties, ElementOfSeq
        <3>2. {i \in DOMAIN q : q[i].type = "Tick"} = {i \in DOMAIN q : q[i] \in Ticks}
            BY <3>1, MessageKinds
        <3> QED
            BY <3>2 DEF TicksIn, HowMany
    <2> QED
        BY <2>1 DEF IInv, TypeOk, OneTick, OneTickLoop
<1> QED
    BY <1>1, Invariance, PTL

\* WaitIsBacked: an actor that waits for an answer has one to come, so it cannot
\* hang.
THEOREM NoHang == Spec => []WaitIsBacked
<1>1. IInv => WaitIsBacked
    <2> SUFFICES ASSUME IInv PROVE WaitIsBacked
        OBVIOUS
    <2>1. ASSUME NEW k \in {"flow", "info"}, Outstanding(k) = 1
          PROVE  pending[k] = 1 \/ InQueue(mailbox, {k})
        <3>1. /\ mailbox \in Seq(Messages) /\ pending[k] \in Nat
            BY DEF IInv, TypeOk, Kinds
        <3>2. HowMany(mailbox, Answers(k)) \in Nat
            BY <3>1, HowManyNat
        <3>3. InQueue(mailbox, {k}) <=> HowMany(mailbox, Answers(k)) > 0
            BY <3>1, HowManyOfTypes DEF Answers
        <3> QED
            BY <2>1, <3>1, <3>2, <3>3 DEF Outstanding
    <2> QED
        BY <2>1 DEF IInv, OneAnswer, WaitIsBacked
<1> QED
    BY <1>1, Invariance, PTL
=============================================================================
