------------------------- MODULE MasterOfPuppetsProofs -------------------------
(***************************************************************************)
(* The safety of MasterOfPuppets, for every finite set of actors to ask,   *)
(* every set of requests and commands, and every number of restarts.       *)
(***************************************************************************)
EXTENDS MasterOfPuppets, ActorUtilLemmas

Requesting(r) == {m \in Messages : m.type = "HealthRequest" /\ m.id = r}
Commanding(c) == {m \in Messages : m.type = "ParsedCommand" /\ m.command = c}
Responses == {m \in Messages : m.type = "HealthResponse"}
Foreign(r) == {m \in Responses : m.of # r}

TypeOk ==
    /\ stack \in {<<"default">>, <<"default", "healthCheck">>, <<"stopped">>}
    /\ mailbox \in Seq(Messages) /\ stash \in Seq(Messages)
    /\ healthy \in SUBSET Actors /\ checksReceived \in Nat
    /\ respondTo \in HealthRequests \cup {None}
    /\ pending \in SUBSET (Actors \X HealthRequests)
    /\ told \in [HealthRequests -> Nat] /\ routed \in [Commands -> Nat]
    /\ heard \in [HealthRequests -> SUBSET Actors]
    /\ verdict \in [HealthRequests -> Verdicts]

\* A request waits, is put aside, is checked or was told its answer, one of
\* these at most, and none before it is sent.
Checking(r) == IF In("healthCheck") /\ respondTo = r THEN 1 ELSE 0
RequestPlaces(r) ==
    HowMany(mailbox, Requesting(r)) + HowMany(stash, Requesting(r)) + Checking(r) + told[r]
RequestOnce ==
    \A r \in HealthRequests : RequestPlaces(r) <= IF r \in requested THEN 1 ELSE 0

\* So with a command, which waits, is put aside or was routed.
CommandPlaces(c) ==
    HowMany(mailbox, Commanding(c)) + HowMany(stash, Commanding(c)) + routed[c]
CommandOnce ==
    \A c \in Commands : CommandPlaces(c) <= IF c \in arrived THEN 1 ELSE 0

\* A check that was never cut short takes in the answers it asked for, all of
\* them and no others; none is left when it ends.
Asked ==
    /\ respondTo \in HealthRequests /\ healthy \subseteq heard[respondTo]
    /\ pending \subseteq Actors \X {respondTo}
    /\ HowMany(mailbox, Foreign(respondTo)) = 0
    /\ checksReceived + Cardinality(pending) + HowMany(mailbox, Responses) = Cardinality(Actors)
OwnAnswers ==
    /\ HowMany(stash, Responses) = 0
    /\ IF In("healthCheck") THEN Asked
       ELSE pending = {} /\ HowMany(mailbox, Responses) = 0
    /\ \A r \in HealthRequests : verdict[r] = "healthy" => heard[r] = Actors

IInv == TypeOk /\ RequestOnce /\ CommandOnce /\ (~cutShort => OwnAnswers)

-----------------------------------------------------------------------------

\* What a message stands for.
LEMMA MessageKinds ==
    /\ \A m \in Messages : m \in Responses <=> m.type = "HealthResponse"
    /\ \A m \in Messages : m.type = "HealthResponse" =>
          m.who \in Actors /\ m.healthy \in BOOLEAN /\ m.of \in HealthRequests
    /\ \A m \in Messages : \A r : m \in Foreign(r) <=> m.type = "HealthResponse" /\ m.of # r
    /\ \A m \in Messages : \A r : m \in Requesting(r) <=> m.type = "HealthRequest" /\ m.id = r
    /\ \A m \in Messages : \A c : m \in Commanding(c) <=> m.type = "ParsedCommand" /\ m.command = c
    /\ \A m \in Messages : m.type = "HealthRequest" => m.id \in HealthRequests
    /\ \A m \in Messages : m.type = "ParsedCommand" => m.command \in Commands
BY DEF Messages, Responses, Foreign, Requesting, Commanding

\* The messages that arrive or are put aside.
LEMMA Arriving ==
    /\ \A r \in HealthRequests : [type |-> "HealthRequest", id |-> r] \in Messages
    /\ \A c \in Commands : [type |-> "ParsedCommand", command |-> c] \in Messages
    /\ \A w \in Actors, h \in BOOLEAN, r \in HealthRequests :
          [type |-> "HealthResponse", who |-> w, healthy |-> h, of |-> r] \in Messages
    /\ [type |-> "ReceiveTimeout"] \in Messages /\ [type |-> "Terminated"] \in Messages
BY DEF Messages

\* The behaviour tells the stack.
LEMMA StackOfTop ==
    ASSUME TypeOk
    PROVE  /\ In("default") => stack = <<"default">>
           /\ In("healthCheck") => stack = <<"default", "healthCheck">>
           /\ In("stopped") => stack = <<"stopped">>
<1>1. /\ \A a : <<a>>[Len(<<a>>)] = a
      /\ \A a, b : <<a, b>>[Len(<<a, b>>)] = b
    OBVIOUS
<1>2. CASE stack = <<"default">>
    BY <1>1, <1>2 DEF In
<1>3. CASE stack = <<"default", "healthCheck">>
    BY <1>1, <1>3 DEF In
<1>4. CASE stack = <<"stopped">>
    BY <1>1, <1>4 DEF In
<1> QED
    BY <1>2, <1>3, <1>4 DEF TypeOk

\* The behaviour after a step, from the stack after it.
LEMMA TopOfNext ==
    /\ stack' = <<"default">> => In("healthCheck")' = FALSE
    /\ stack' = <<"stopped">> => In("healthCheck")' = FALSE
    /\ stack' = <<"default", "healthCheck">> => In("healthCheck")' = TRUE
    /\ stack' = stack => \A name : In(name)' = In(name)
<1>1. /\ \A a : <<a>>[Len(<<a>>)] = a
      /\ \A a, b : <<a, b>>[Len(<<a, b>>)] = b
    OBVIOUS
<1> QED
    BY <1>1 DEF In

\* A master that checks does nothing else.
LEMMA OneBehaviour == In("default") \/ In("stopped") => In("healthCheck") = FALSE
BY DEF In

\* What the queues hold of P after a handler has taken its message.
LEMMA Taken ==
    ASSUME TypeOk, mailbox # <<>>, NEW P
    PROVE  /\ Message \in Messages /\ Tail(mailbox) \in Seq(Messages)
           /\ Append(stash, Message) \in Seq(Messages)
           /\ UnstashedAll(Tail(mailbox), stash) \in Seq(Messages)
           /\ <<>> \in Seq(Messages)
           /\ HowMany(Tail(mailbox), P) \in Nat /\ HowMany(stash, P) \in Nat
           /\ HowMany(mailbox, P) = HowMany(Tail(mailbox), P) + (IF Message \in P THEN 1 ELSE 0)
           /\ HowMany(Append(stash, Message), P)
                = HowMany(stash, P) + (IF Message \in P THEN 1 ELSE 0)
           /\ HowMany(UnstashedAll(Tail(mailbox), stash), P)
                = HowMany(Tail(mailbox), P) + HowMany(stash, P)
           /\ HowMany(<<>>, P) = 0
<1>1. mailbox \in Seq(Messages) /\ stash \in Seq(Messages)
    BY DEF TypeOk
<1>2. Message = Head(mailbox)
    BY DEF Message
<1> HIDE DEF Message
<1>3. /\ Message \in Messages /\ Tail(mailbox) \in Seq(Messages)
      /\ Append(stash, Message) \in Seq(Messages)
      /\ UnstashedAll(Tail(mailbox), stash) \in Seq(Messages)
      /\ <<>> \in Seq(Messages)
    BY <1>1, <1>2, QueueMoves
<1> QED
    BY <1>1, <1>2, <1>3, QueueMoves

\* Nothing is sent twice by what a handler does with its message and the stash.
LEMMA Moves ==
    ASSUME TypeOk, mailbox # <<>>, NEW P,
           \/ mailbox' = Tail(mailbox) /\ stash' = stash
           \/ mailbox' = Tail(mailbox) /\ stash' = Append(stash, Message)
           \/ mailbox' = UnstashedAll(Tail(mailbox), stash) /\ stash' = <<>>
           \/ mailbox' = Tail(mailbox) /\ stash' = <<>>
           \/ mailbox' = <<>> /\ stash' = <<>>
    PROVE  /\ mailbox' \in Seq(Messages) /\ stash' \in Seq(Messages)
           /\ HowMany(mailbox, P) \in Nat /\ HowMany(stash, P) \in Nat
           /\ HowMany(mailbox', P) \in Nat /\ HowMany(stash', P) \in Nat
           /\ HowMany(mailbox', P) + HowMany(stash', P) <= HowMany(mailbox, P) + HowMany(stash, P)
<1> DEFINE a == HowMany(mailbox, P)
           b == HowMany(stash, P)
           c == HowMany(Tail(mailbox), P)
<1>1. mailbox \in Seq(Messages) /\ stash \in Seq(Messages)
    BY DEF TypeOk
<1>2. mailbox' \in Seq(Messages) /\ stash' \in Seq(Messages)
    BY <1>1, Taken
<1>3. /\ HowMany(mailbox, P) \in Nat /\ HowMany(stash, P) \in Nat
      /\ HowMany(mailbox', P) \in Nat /\ HowMany(stash', P) \in Nat
    BY <1>1, <1>2, HowManyNat
<1>4. /\ c \in Nat /\ b \in Nat /\ a = c + (IF Message \in P THEN 1 ELSE 0)
      /\ HowMany(Append(stash, Message), P) = b + (IF Message \in P THEN 1 ELSE 0)
      /\ HowMany(UnstashedAll(Tail(mailbox), stash), P) = c + b
      /\ HowMany(<<>>, P) = 0
    BY Taken
<1> HIDE DEF a, b, c
<1>5. CASE mailbox' = Tail(mailbox) /\ stash' = stash
    BY <1>2, <1>3, <1>4, <1>5 DEF a, b, c
<1>6. CASE mailbox' = Tail(mailbox) /\ stash' = Append(stash, Message)
    BY <1>2, <1>3, <1>4, <1>6 DEF a, b, c
<1>7. CASE mailbox' = UnstashedAll(Tail(mailbox), stash) /\ stash' = <<>>
    BY <1>2, <1>3, <1>4, <1>7 DEF a, b
<1>8. CASE mailbox' = Tail(mailbox) /\ stash' = <<>>
    BY <1>2, <1>3, <1>4, <1>8 DEF a, b, c
<1>9. CASE mailbox' = <<>> /\ stash' = <<>>
    <2>1. HowMany(mailbox', P) = 0 /\ HowMany(stash', P) = 0
        BY <1>4, <1>9
    <2> QED
        BY <1>2, <1>3, <2>1
<1> QED
    BY <1>5, <1>6, <1>7, <1>8, <1>9

\* The counts of requests and commands after a step, written out.
LEMMA PlacesOfNext ==
    /\ \A r : RequestPlaces(r)' = HowMany(mailbox', Requesting(r)) + HowMany(stash', Requesting(r))
                                    + Checking(r)' + told'[r]
    /\ \A c : CommandPlaces(c)' = HowMany(mailbox', Commanding(c)) + HowMany(stash', Commanding(c))
                                    + routed'[c]
BY DEF RequestPlaces, CommandPlaces, Requesting, Commanding

\* Queues that hold no more of a request than before, and a check and answers
\* that take the place of each other.
LEMMA RequestsKept ==
    ASSUME IInv, requested' = requested,
           \A P : /\ HowMany(mailbox, P) \in Nat /\ HowMany(stash, P) \in Nat
                  /\ HowMany(mailbox', P) \in Nat /\ HowMany(stash', P) \in Nat
                  /\ HowMany(mailbox', P) + HowMany(stash', P)
                       <= HowMany(mailbox, P) + HowMany(stash, P),
           \A r \in HealthRequests : /\ Checking(r)' + told'[r] = Checking(r) + told[r]
                                     /\ Checking(r)' \in Nat /\ told'[r] \in Nat
    PROVE  RequestOnce'
<1>1. ASSUME NEW r \in HealthRequests
      PROVE  RequestPlaces(r)' <= IF r \in requested THEN 1 ELSE 0
    <2> DEFINE P == Requesting(r)
    <2>1. /\ HowMany(mailbox, P) \in Nat /\ HowMany(stash, P) \in Nat
          /\ HowMany(mailbox', P) \in Nat /\ HowMany(stash', P) \in Nat
          /\ HowMany(mailbox', P) + HowMany(stash', P) <= HowMany(mailbox, P) + HowMany(stash, P)
        OBVIOUS
    <2>2. told[r] \in Nat /\ Checking(r) \in Nat
        BY DEF IInv, TypeOk, Checking
    <2>3. Checking(r)' + told'[r] = Checking(r) + told[r] /\ Checking(r)' \in Nat /\ told'[r] \in Nat
        OBVIOUS
    <2>4. HowMany(mailbox, P) + HowMany(stash, P) + Checking(r) + told[r]
             <= IF r \in requested THEN 1 ELSE 0
        BY DEF IInv, RequestOnce, RequestPlaces
    <2>5. RequestPlaces(r)' = HowMany(mailbox', P) + HowMany(stash', P) + Checking(r)' + told'[r]
        BY PlacesOfNext
    <2> HIDE DEF P
    <2> QED
        BY <2>1, <2>2, <2>3, <2>4, <2>5
<1> QED
    BY <1>1 DEF RequestOnce

\* The same for the commands, when none is routed.
LEMMA CommandsKept ==
    ASSUME IInv, UNCHANGED <<routed, arrived>>,
           \A P : /\ HowMany(mailbox, P) \in Nat /\ HowMany(stash, P) \in Nat
                  /\ HowMany(mailbox', P) \in Nat /\ HowMany(stash', P) \in Nat
                  /\ HowMany(mailbox', P) + HowMany(stash', P)
                       <= HowMany(mailbox, P) + HowMany(stash, P)
    PROVE  CommandOnce'
<1>1. ASSUME NEW c \in Commands
      PROVE  CommandPlaces(c)' <= IF c \in arrived THEN 1 ELSE 0
    <2> DEFINE P == Commanding(c)
    <2>1. /\ HowMany(mailbox, P) \in Nat /\ HowMany(stash, P) \in Nat
          /\ HowMany(mailbox', P) \in Nat /\ HowMany(stash', P) \in Nat
          /\ HowMany(mailbox', P) + HowMany(stash', P) <= HowMany(mailbox, P) + HowMany(stash, P)
        OBVIOUS
    <2>2. routed[c] \in Nat
        BY DEF IInv, TypeOk
    <2>3. HowMany(mailbox, P) + HowMany(stash, P) + routed[c] <= IF c \in arrived THEN 1 ELSE 0
        BY DEF IInv, CommandOnce, CommandPlaces
    <2>4. CommandPlaces(c)' = HowMany(mailbox', P) + HowMany(stash', P) + routed[c]
        BY PlacesOfNext
    <2> HIDE DEF P
    <2> QED
        BY <2>1, <2>2, <2>3, <2>4
<1> QED
    BY <1>1 DEF CommandOnce

\* The initial state: nothing anywhere.
LEMMA InitInv == Init => IInv
<1> SUFFICES ASSUME Init PROVE IInv
    OBVIOUS
<1>1. \A P : HowMany(<<>>, P) = 0
    BY HowManyShort
<1>2. <<>> \in Seq(Messages)
    OBVIOUS
<1>3. TypeOk
    BY <1>2 DEF Init, TypeOk, Verdicts
<1>4. In("healthCheck") = FALSE
    BY DEF Init, In
<1>5. RequestOnce
    <2> SUFFICES ASSUME NEW r \in HealthRequests PROVE RequestPlaces(r) <= 0
        BY DEF Init, RequestOnce
    <2>1. told[r] = 0 /\ Checking(r) = 0
        BY <1>4 DEF Init, Checking
    <2> QED
        BY <1>1, <2>1 DEF Init, RequestPlaces
<1>6. CommandOnce
    <2> SUFFICES ASSUME NEW c \in Commands PROVE CommandPlaces(c) <= 0
        BY DEF Init, CommandOnce
    <2>1. routed[c] = 0
        BY DEF Init
    <2> QED
        BY <1>1, <2>1 DEF Init, CommandPlaces
<1>7. OwnAnswers
    BY <1>1, <1>4 DEF Init, OwnAnswers
<1> QED
    BY <1>3, <1>5, <1>6, <1>7 DEF IInv

\* Nothing of a check changes while the master only moves messages about that are
\* no answers of the check.
LEMMA OwnKept ==
    ASSUME IInv, ~cutShort => OwnAnswers,
           UNCHANGED <<stack, check, pending, heard, verdict, cutShort>>,
           ~cutShort => \A P \in {Responses, Foreign(respondTo)} :
               HowMany(mailbox', P) = HowMany(mailbox, P) /\ HowMany(stash', P) = HowMany(stash, P)
    PROVE  ~cutShort' => OwnAnswers'
<1>1. SUFFICES ASSUME ~cutShort PROVE OwnAnswers'
    OBVIOUS
<1>2. /\ HowMany(mailbox', Responses) = HowMany(mailbox, Responses)
      /\ HowMany(stash', Responses) = HowMany(stash, Responses)
      /\ HowMany(mailbox', Foreign(respondTo)) = HowMany(mailbox, Foreign(respondTo))
    BY <1>1
<1>3. In("healthCheck")' = In("healthCheck")
    BY TopOfNext
<1>4. UNCHANGED <<healthy, checksReceived, respondTo, pending, heard, verdict>>
    BY DEF check
<1>5. OwnAnswers
    BY <1>1
<1>6. Asked => Asked'
    BY <1>2, <1>4 DEF Asked, Responses, Foreign
<1>7. HowMany(stash', Responses) = 0
    BY <1>2, <1>5 DEF OwnAnswers
<1>8. ~In("healthCheck") => pending' = {} /\ HowMany(mailbox', Responses) = 0
    BY <1>2, <1>4, <1>5 DEF OwnAnswers
<1>9. In("healthCheck") => Asked
    BY <1>5 DEF OwnAnswers
<1>10. \A r \in HealthRequests : verdict'[r] = "healthy" => heard'[r] = Actors
    BY <1>4, <1>5 DEF OwnAnswers
<1> QED
    BY <1>3, <1>6, <1>7, <1>8, <1>9, <1>10 DEF OwnAnswers, Responses

\* A message put aside is none that the check awaits.
LEMMA AsideInv ==
    ASSUME IInv, StashMessage
    PROVE  IInv'
<1>1. /\ TypeOk /\ mailbox # <<>> /\ mailbox' = Tail(mailbox) /\ stash' = Append(stash, Message)
      /\ UNCHANGED <<stack, check, pending, requested, told, arrived, routed, heard, verdict,
                     cutShort>>
    BY DEF IInv, StashMessage, Stashed, history
<1>2. \A P : /\ mailbox' \in Seq(Messages) /\ stash' \in Seq(Messages)
             /\ HowMany(mailbox, P) \in Nat /\ HowMany(stash, P) \in Nat
             /\ HowMany(mailbox', P) \in Nat /\ HowMany(stash', P) \in Nat
             /\ HowMany(mailbox', P) + HowMany(stash', P)
                  <= HowMany(mailbox, P) + HowMany(stash, P)
    BY <1>1, Moves
<1>3. mailbox' \in Seq(Messages) /\ stash' \in Seq(Messages)
    BY <1>2
<1>4. TypeOk'
    BY <1>1, <1>3 DEF TypeOk, check
<1>5. In("healthCheck")' = In("healthCheck")
    BY <1>1, TopOfNext
<1>6. \A r \in HealthRequests : /\ Checking(r)' + told'[r] = Checking(r) + told[r]
                                /\ Checking(r)' \in Nat /\ told'[r] \in Nat
    BY <1>1, <1>5 DEF TypeOk, Checking, check
<1>7. RequestOnce'
    BY <1>1, <1>2, <1>6, RequestsKept
<1>8. CommandOnce'
    BY <1>1, <1>2, CommandsKept
<1>9. ~cutShort => Message \notin Responses
    <2> SUFFICES ASSUME ~cutShort, Message \in Responses PROVE FALSE
        OBVIOUS
    <2>1. Message.type = "HealthResponse"
        BY <1>1, Taken, MessageKinds
    <2>2. In("default")
        BY <2>1 DEF StashMessage
    <2>3. HowMany(mailbox, Responses) = 0
        BY <2>2, OneBehaviour DEF IInv, OwnAnswers
    <2>4. /\ HowMany(Tail(mailbox), Responses) \in Nat
          /\ HowMany(mailbox, Responses) = HowMany(Tail(mailbox), Responses) + 1
        BY <1>1, Taken
    <2> QED
        BY <2>3, <2>4
<1>10. ASSUME ~cutShort, NEW P \in {Responses, Foreign(respondTo)}
       PROVE  HowMany(mailbox', P) = HowMany(mailbox, P) /\ HowMany(stash', P) = HowMany(stash, P)
    <2>1. Message \notin P
        BY <1>1, <1>9, <1>10 DEF Foreign
    <2>2. /\ HowMany(Tail(mailbox), P) \in Nat /\ HowMany(stash, P) \in Nat
          /\ HowMany(mailbox, P) = HowMany(Tail(mailbox), P) + 0
          /\ HowMany(Append(stash, Message), P) = HowMany(stash, P) + 0
        BY <1>1, <2>1, Taken
    <2> QED
        BY <1>1, <2>2
<1>11. ~cutShort' => OwnAnswers'
    BY <1>1, <1>10, OwnKept DEF IInv
<1> QED
    BY <1>4, <1>7, <1>8, <1>11 DEF IInv

\* The master is told of the end of the Modbus actor during a check.
LEMMA TerminationAsideInv ==
    ASSUME IInv, In("healthCheck"), NoticeTermination
    PROVE  IInv'
<1> DEFINE m == [type |-> "Terminated"]
<1>1. /\ TypeOk /\ mailbox' = mailbox /\ stash' = Append(stash, m)
      /\ UNCHANGED <<stack, check, pending, requested, told, arrived, routed, heard, verdict,
                     cutShort>>
    BY OneBehaviour DEF IInv, NoticeTermination, Stashed, history
<1>2. /\ m \in Messages /\ \A r : m \notin Requesting(r) /\ m \notin Commanding(r) /\ m \notin Foreign(r)
      /\ m \notin Responses
    BY Arriving, MessageKinds
<1>3. mailbox \in Seq(Messages) /\ stash \in Seq(Messages)
    BY <1>1 DEF TypeOk
<1> HIDE DEF m
<1>4. ASSUME NEW P, m \notin P
      PROVE  /\ HowMany(mailbox', P) = HowMany(mailbox, P) /\ HowMany(stash', P) = HowMany(stash, P)
             /\ HowMany(stash, P) \in Nat
    <2>1. /\ HowMany(stash, P) \in Nat
          /\ HowMany(Append(stash, m), P) = HowMany(stash, P) + 0
        BY <1>2, <1>3, <1>4, QueueGrows
    <2> QED
        BY <1>1, <2>1
<1>5. mailbox' \in Seq(Messages) /\ stash' \in Seq(Messages)
    BY <1>1, <1>2, <1>3, AppendProperties
<1>6. TypeOk'
    BY <1>1, <1>5 DEF TypeOk, check
<1>7. In("healthCheck")' = In("healthCheck")
    BY <1>1, TopOfNext
<1>8. \A r : Checking(r)' = Checking(r)
    BY <1>1, <1>7 DEF Checking, check
<1>9. RequestOnce'
    <2>1. \A r : RequestPlaces(r)' = RequestPlaces(r)
        BY <1>1, <1>2, <1>4, <1>8, PlacesOfNext DEF RequestPlaces
    <2> QED
        BY <1>1, <2>1 DEF IInv, RequestOnce
<1>10. CommandOnce'
    <2>1. \A c : CommandPlaces(c)' = CommandPlaces(c)
        BY <1>1, <1>2, <1>4, PlacesOfNext DEF CommandPlaces
    <2> QED
        BY <1>1, <2>1 DEF IInv, CommandOnce
<1>11. ~cutShort' => OwnAnswers'
    BY <1>1, <1>2, <1>4, OwnKept DEF IInv
<1> QED
    BY <1>6, <1>9, <1>10, <1>11 DEF IInv

\* A command is routed, if it is valid.
LEMMA RouteInv ==
    ASSUME IInv, RouteCommand
    PROVE  IInv'
<1> DEFINE k == Message.command
           t == Tail(mailbox)
<1>1. /\ TypeOk /\ mailbox # <<>> /\ mailbox' = t /\ stash' = stash
      /\ Message.type = "ParsedCommand"
      /\ routed' = IF k \in Valid THEN [routed EXCEPT ![k] = @ + 1] ELSE routed
      /\ UNCHANGED <<stack, check, pending, requested, told, arrived, heard, verdict, cutShort>>
    BY DEF IInv, RouteCommand, Receive
<1>2. \A P : /\ mailbox' \in Seq(Messages) /\ stash' \in Seq(Messages)
             /\ HowMany(mailbox, P) \in Nat /\ HowMany(stash, P) \in Nat
             /\ HowMany(mailbox', P) \in Nat /\ HowMany(stash', P) \in Nat
             /\ HowMany(mailbox', P) + HowMany(stash', P)
                  <= HowMany(mailbox, P) + HowMany(stash, P)
    BY <1>1, Moves
<1>3. mailbox' \in Seq(Messages) /\ stash' \in Seq(Messages)
    BY <1>2
<1>4. Message \in Messages /\ k \in Commands
    BY <1>1, Taken, MessageKinds
<1>5. /\ \A c : Message \in Commanding(c) <=> k = c
      /\ Message \notin Responses /\ \A r : Message \notin Foreign(r)
    BY <1>1, <1>4, MessageKinds
<1> HIDE DEF k
<1>6. /\ routed' \in [Commands -> Nat]
      /\ \A c \in Commands : routed'[c] = routed[c] \/ (k = c /\ routed'[c] = routed[c] + 1)
    <2>1. routed \in [Commands -> Nat]
        BY <1>1 DEF TypeOk
    <2>2. CASE k \in Valid
        BY <1>1, <1>4, <2>1, <2>2
    <2>3. CASE k \notin Valid
        BY <1>1, <2>1, <2>3
    <2> QED
        BY <2>2, <2>3
<1>7. TypeOk'
    BY <1>1, <1>3, <1>6 DEF TypeOk, check
<1>8. In("healthCheck")' = In("healthCheck")
    BY <1>1, TopOfNext
<1>9. \A r \in HealthRequests : /\ Checking(r)' + told'[r] = Checking(r) + told[r]
                                /\ Checking(r)' \in Nat /\ told'[r] \in Nat
    BY <1>1, <1>8 DEF TypeOk, Checking, check
<1>10. RequestOnce'
    BY <1>1, <1>2, <1>9, RequestsKept
<1>11. CommandOnce'
    <2>1. ASSUME NEW c \in Commands
          PROVE  CommandPlaces(c)' <= IF c \in arrived THEN 1 ELSE 0
        <3>1. /\ HowMany(t, Commanding(c)) \in Nat /\ HowMany(stash, Commanding(c)) \in Nat
              /\ HowMany(mailbox, Commanding(c))
                   = HowMany(t, Commanding(c)) + (IF k = c THEN 1 ELSE 0)
            BY <1>1, <1>5, Taken
        <3>2. /\ routed[c] \in Nat /\ routed'[c] \in Nat
              /\ routed'[c] = routed[c] \/ (k = c /\ routed'[c] = routed[c] + 1)
            BY <1>1, <1>6 DEF TypeOk
        <3>3. HowMany(mailbox, Commanding(c)) + HowMany(stash, Commanding(c)) + routed[c]
                 <= IF c \in arrived THEN 1 ELSE 0
            BY DEF IInv, CommandOnce, CommandPlaces
        <3>4. CommandPlaces(c)' = HowMany(t, Commanding(c)) + HowMany(stash, Commanding(c))
                                    + routed'[c]
            BY <1>1, PlacesOfNext
        <3> HIDE DEF t
        <3> QED
            BY <3>1, <3>2, <3>3, <3>4
    <2> QED
        BY <1>1, <2>1 DEF CommandOnce
<1>12. ASSUME NEW P \in {Responses, Foreign(respondTo)}
       PROVE  HowMany(mailbox', P) = HowMany(mailbox, P) /\ HowMany(stash', P) = HowMany(stash, P)
    <2>1. HowMany(t, P) \in Nat /\ HowMany(mailbox, P) = HowMany(t, P) + 0
        BY <1>1, <1>5, <1>12, Taken
    <2> QED
        BY <1>1, <2>1
<1>13. ~cutShort' => OwnAnswers'
    BY <1>1, <1>12, OwnKept DEF IInv
<1> QED
    BY <1>7, <1>10, <1>11, <1>13 DEF IInv

\* A check asks every actor, once, for its own request.
LEMMA StartInv ==
    ASSUME IInv, StartHealthCheck
    PROVE  IInv'
<1> DEFINE r0 == Message.id
           t == Tail(mailbox)
<1>1. /\ TypeOk /\ In("default") /\ mailbox # <<>> /\ mailbox' = t /\ stash' = stash
      /\ Message.type = "HealthRequest"
      /\ healthy' = {} /\ checksReceived' = 0 /\ respondTo' = r0
      /\ pending' = pending \cup (Actors \X {r0})
      /\ stack' = BecomeStacked(stack, "healthCheck")
      /\ UNCHANGED <<requested, told, arrived, routed, heard, verdict, cutShort>>
    BY DEF IInv, StartHealthCheck, Receive, history
<1>2. stack' = <<"default", "healthCheck">>
    <2>1. stack = <<"default">>
        BY <1>1, StackOfTop
    <2> QED
        BY <1>1, <2>1, StackOps
<1>3. ~In("healthCheck") /\ In("healthCheck")'
    BY <1>1, <1>2, OneBehaviour, TopOfNext
<1>4. Message \in Messages /\ t \in Seq(Messages) /\ r0 \in HealthRequests
    BY <1>1, Taken, MessageKinds
<1>5. /\ \A r : Message \in Requesting(r) <=> r0 = r
      /\ \A c : Message \notin Commanding(c)
      /\ Message \notin Responses
    BY <1>1, <1>4, MessageKinds
<1>6. \A P : /\ HowMany(mailbox, P) \in Nat /\ HowMany(stash, P) \in Nat
             /\ HowMany(mailbox', P) \in Nat /\ HowMany(stash', P) \in Nat
             /\ HowMany(mailbox', P) + HowMany(stash', P)
                  <= HowMany(mailbox, P) + HowMany(stash, P)
    BY <1>1, Moves
<1> HIDE DEF r0
<1>7. TypeOk'
    <2>1. pending' \in SUBSET (Actors \X HealthRequests)
        BY <1>1, <1>4 DEF TypeOk
    <2> QED
        BY <1>1, <1>2, <1>4, <2>1 DEF TypeOk
<1>8. CommandOnce'
    BY <1>1, <1>6, CommandsKept
<1>9. RequestOnce'
    <2>1. ASSUME NEW r \in HealthRequests
          PROVE  RequestPlaces(r)' <= IF r \in requested THEN 1 ELSE 0
        <3>1. /\ HowMany(t, Requesting(r)) \in Nat /\ HowMany(stash, Requesting(r)) \in Nat
              /\ HowMany(mailbox, Requesting(r))
                   = HowMany(t, Requesting(r)) + (IF r0 = r THEN 1 ELSE 0)
            BY <1>1, <1>5, Taken
        <3>2. told[r] \in Nat /\ Checking(r) = 0
            BY <1>1, <1>3 DEF TypeOk, Checking
        <3>3. Checking(r)' = IF r0 = r THEN 1 ELSE 0
            BY <1>1, <1>3 DEF Checking
        <3>4. HowMany(mailbox, Requesting(r)) + HowMany(stash, Requesting(r)) + Checking(r) + told[r]
                 <= IF r \in requested THEN 1 ELSE 0
            BY DEF IInv, RequestOnce, RequestPlaces
        <3>5. RequestPlaces(r)' = HowMany(t, Requesting(r)) + HowMany(stash, Requesting(r))
                                    + Checking(r)' + told[r]
            BY <1>1, PlacesOfNext
        <3> HIDE DEF t
        <3> QED
            BY <3>1, <3>2, <3>3, <3>4, <3>5
    <2> QED
        BY <1>1, <2>1 DEF RequestOnce
<1>10. ASSUME ~cutShort PROVE OwnAnswers'
    <2>1. /\ pending = {} /\ HowMany(mailbox, Responses) = 0 /\ HowMany(stash, Responses) = 0
          /\ \A r \in HealthRequests : verdict[r] = "healthy" => heard[r] = Actors
        BY <1>3, <1>10 DEF IInv, OwnAnswers
    <2>2. HowMany(t, Responses) = 0
        <3>1. /\ HowMany(t, Responses) \in Nat
              /\ HowMany(mailbox, Responses) = HowMany(t, Responses) + 0
            BY <1>1, <1>5, Taken
        <3> QED
            BY <2>1, <3>1
    <2>3. HowMany(t, Foreign(r0)) = 0
        <3>1. \A i \in DOMAIN t : t[i] \notin Responses
            BY <1>4, <2>2, HowManyNat
        <3>2. \A i \in DOMAIN t : t[i] \notin Foreign(r0)
            BY <3>1 DEF Foreign
        <3> QED
            BY <1>4, <3>2, HowManyNat
    <2>4. pending' = Actors \X {r0} /\ Cardinality(pending') = Cardinality(Actors)
        <3>1. pending' = Actors \X {r0}
            BY <1>1, <2>1
        <3>2. Cardinality(Actors) \in Nat /\ IsFiniteSet({r0}) /\ Cardinality({r0}) = 1
            BY ActorsAssumption, FS_CardinalityType, FS_Singleton
        <3>3. Cardinality(Actors \X {r0}) = Cardinality(Actors) * 1
            BY <3>2, ActorsAssumption, FS_Product
        <3> QED
            BY <3>1, <3>2, <3>3
    <2>5. Cardinality(Actors) \in Nat
        BY ActorsAssumption, FS_CardinalityType
    <2>6. Asked'
        <3>1. checksReceived' + Cardinality(pending') + HowMany(mailbox', Responses)
                = Cardinality(Actors)
            BY <1>1, <2>2, <2>4, <2>5
        <3>2. HowMany(mailbox', Foreign(respondTo')) = 0
            BY <1>1, <2>3
        <3> QED
            BY <1>1, <1>4, <2>4, <3>1, <3>2 DEF Asked, Responses, Foreign
    <2> QED
        BY <1>1, <1>3, <2>1, <2>6 DEF OwnAnswers, Responses
<1> QED
    BY <1>1, <1>7, <1>8, <1>9, <1>10 DEF IInv

\* The answer of a check takes the place of the check.
LEMMA AnsweredOnce ==
    ASSUME IInv, In("healthCheck"), stack' = <<"default">>,
           NEW found, Respond(found)
    PROVE  /\ told' \in [HealthRequests -> Nat] /\ verdict' \in [HealthRequests -> Verdicts]
           /\ \A r \in HealthRequests : /\ Checking(r)' + told'[r] = Checking(r) + told[r]
                                        /\ Checking(r)' \in Nat /\ told'[r] \in Nat
<1>1. /\ told \in [HealthRequests -> Nat] /\ verdict \in [HealthRequests -> Verdicts]
    BY DEF IInv, TypeOk
<1>2. /\ told' = [r \in HealthRequests |-> told[r] + (IF r = respondTo THEN 1 ELSE 0)]
      /\ verdict' = [r \in HealthRequests |->
                       IF r # respondTo THEN verdict[r]
                       ELSE IF found = Actors THEN "healthy" ELSE "unhealthy"]
    BY DEF Respond
<1>3. told' \in [HealthRequests -> Nat]
    BY <1>1, <1>2
<1>4. verdict' \in [HealthRequests -> Verdicts]
    BY <1>1, <1>2 DEF Verdicts
<1>5. ASSUME NEW r \in HealthRequests
      PROVE  /\ Checking(r)' + told'[r] = Checking(r) + told[r]
             /\ Checking(r)' \in Nat /\ told'[r] \in Nat
    <2>1. Checking(r)' = 0
        BY TopOfNext DEF Checking
    <2>2. Checking(r) = IF r = respondTo THEN 1 ELSE 0
        BY DEF Checking
    <2>3. told[r] \in Nat /\ told'[r] = told[r] + (IF r = respondTo THEN 1 ELSE 0)
        BY <1>1, <1>2
    <2> QED
        BY <2>1, <2>2, <2>3
<1> QED
    BY <1>3, <1>4, <1>5

\* A check cut short answers for what it has found.
LEMMA TimeoutInv ==
    ASSUME IInv, HealthTimeout
    PROVE  IInv'
<1>1. /\ TypeOk /\ In("healthCheck") /\ mailbox # <<>> /\ Respond(healthy) /\ cutShort'
      /\ stack' = UnbecomeStacked(stack)
      /\ mailbox' = UnstashedAll(Tail(mailbox), stash) /\ stash' = <<>>
      /\ UNCHANGED <<healthy, checksReceived, respondTo, pending, requested, arrived, routed,
                     heard>>
    BY DEF IInv, HealthTimeout, Receive, LeaveHealthCheck, check
<1>2. stack' = <<"default">>
    <2>1. stack = <<"default", "healthCheck">>
        BY <1>1, StackOfTop
    <2> QED
        BY <1>1, <2>1, StackOps
<1>3. \A P : /\ mailbox' \in Seq(Messages) /\ stash' \in Seq(Messages)
             /\ HowMany(mailbox, P) \in Nat /\ HowMany(stash, P) \in Nat
             /\ HowMany(mailbox', P) \in Nat /\ HowMany(stash', P) \in Nat
             /\ HowMany(mailbox', P) + HowMany(stash', P)
                  <= HowMany(mailbox, P) + HowMany(stash, P)
    BY <1>1, Moves
<1>4. mailbox' \in Seq(Messages) /\ stash' \in Seq(Messages)
    BY <1>3
<1>5. /\ told' \in [HealthRequests -> Nat] /\ verdict' \in [HealthRequests -> Verdicts]
      /\ \A r \in HealthRequests : /\ Checking(r)' + told'[r] = Checking(r) + told[r]
                                   /\ Checking(r)' \in Nat /\ told'[r] \in Nat
    BY <1>1, <1>2, AnsweredOnce
<1>6. TypeOk'
    BY <1>1, <1>2, <1>4, <1>5 DEF TypeOk
<1>7. RequestOnce'
    BY <1>1, <1>3, <1>5, RequestsKept
<1>8. CommandOnce'
    BY <1>1, <1>3, CommandsKept
<1> QED
    BY <1>1, <1>6, <1>7, <1>8 DEF IInv

\* An actor that answers is heard, by the check that asked it; the last one ends
\* the check, with all its answers in.
LEMMA ResponseInv ==
    ASSUME IInv, HealthResponse
    PROVE  IInv'
<1> DEFINE t == Tail(mailbox)
           n == Cardinality(Actors)
           last == checksReceived + 1 = n
<1>1. /\ TypeOk /\ In("healthCheck") /\ mailbox # <<>> /\ Message.type = "HealthResponse"
      /\ checksReceived' = checksReceived + 1
      /\ healthy' = IF Message.healthy THEN healthy \cup {Message.who} ELSE healthy
      /\ heard' = IF Message.healthy
                  THEN [heard EXCEPT ![Message.of] = @ \cup {Message.who}] ELSE heard
      /\ UNCHANGED <<respondTo, pending, requested, arrived, routed, cutShort>>
    BY DEF IInv, HealthResponse, Receive
<1>2. /\ last => /\ Respond(healthy') /\ stack' = UnbecomeStacked(stack)
                 /\ mailbox' = UnstashedAll(t, stash) /\ stash' = <<>>
      /\ ~last => mailbox' = t /\ UNCHANGED <<stack, stash, told, verdict>>
    BY <1>1 DEF HealthResponse, LeaveHealthCheck
<1>3. last => stack' = <<"default">>
    <2>1. stack = <<"default", "healthCheck">>
        BY <1>1, StackOfTop
    <2> QED
        BY <1>2, <2>1, StackOps
<1>4. /\ Message \in Messages /\ t \in Seq(Messages) /\ Message \in Responses
      /\ Message.who \in Actors /\ Message.of \in HealthRequests
    BY <1>1, Taken, MessageKinds
<1>5. \A P : /\ mailbox' \in Seq(Messages) /\ stash' \in Seq(Messages)
             /\ HowMany(mailbox, P) \in Nat /\ HowMany(stash, P) \in Nat
             /\ HowMany(mailbox', P) \in Nat /\ HowMany(stash', P) \in Nat
             /\ HowMany(mailbox', P) + HowMany(stash', P)
                  <= HowMany(mailbox, P) + HowMany(stash, P)
    BY <1>1, <1>2, Moves
<1>6. mailbox' \in Seq(Messages) /\ stash' \in Seq(Messages)
    BY <1>5
<1>7. /\ heard \in [HealthRequests -> SUBSET Actors] /\ heard' \in [HealthRequests -> SUBSET Actors]
      /\ \A r \in HealthRequests : heard[r] \subseteq heard'[r]
      /\ Message.healthy => Message.who \in heard'[Message.of]
      /\ healthy' \in SUBSET Actors
    <2>1. heard \in [HealthRequests -> SUBSET Actors] /\ healthy \in SUBSET Actors
        BY <1>1 DEF TypeOk
    <2>2. CASE Message.healthy
        BY <1>1, <1>4, <2>1, <2>2
    <2>3. CASE ~Message.healthy
        BY <1>1, <2>1, <2>3
    <2> QED
        BY <2>2, <2>3
<1>8. /\ told' \in [HealthRequests -> Nat] /\ verdict' \in [HealthRequests -> Verdicts]
      /\ \A r \in HealthRequests : /\ Checking(r)' + told'[r] = Checking(r) + told[r]
                                   /\ Checking(r)' \in Nat /\ told'[r] \in Nat
    <2>1. CASE last
        BY <1>1, <1>2, <1>3, <2>1, AnsweredOnce
    <2>2. CASE ~last
        <3>1. told' = told /\ verdict' = verdict /\ In("healthCheck")' = In("healthCheck")
            BY <1>2, <2>2, TopOfNext
        <3>2. \A r : Checking(r)' = Checking(r)
            BY <1>1, <3>1 DEF Checking
        <3>3. \A r : Checking(r) \in Nat
            BY DEF Checking
        <3> QED
            BY <1>1, <3>1, <3>2, <3>3 DEF TypeOk
    <2> QED
        BY <2>1, <2>2
<1>9. TypeOk'
    <2>1. stack' \in {<<"default">>, <<"default", "healthCheck">>, <<"stopped">>}
        BY <1>1, <1>2, <1>3 DEF TypeOk
    <2>2. checksReceived' \in Nat
        BY <1>1 DEF TypeOk
    <2> QED
        BY <1>1, <1>6, <1>7, <1>8, <2>1, <2>2 DEF TypeOk
<1>10. RequestOnce'
    BY <1>1, <1>5, <1>8, RequestsKept
<1>11. CommandOnce'
    BY <1>1, <1>5, CommandsKept
<1>12. ASSUME ~cutShort PROVE OwnAnswers'
    <2>1. OwnAnswers /\ Asked
        BY <1>1, <1>12 DEF IInv, OwnAnswers
    <2>2. Message.of = respondTo
        <3>1. Message \notin Foreign(respondTo)
            <4>1. HowMany(mailbox, Foreign(respondTo)) = 0
                BY <2>1 DEF Asked
            <4>2. /\ HowMany(t, Foreign(respondTo)) \in Nat
                  /\ HowMany(mailbox, Foreign(respondTo))
                       = HowMany(t, Foreign(respondTo))
                           + (IF Message \in Foreign(respondTo) THEN 1 ELSE 0)
                BY <1>1, Taken
            <4> QED
                BY <4>1, <4>2
        <3> QED
            BY <1>4, <3>1 DEF Foreign
    <2>3. /\ healthy' \subseteq heard'[respondTo] /\ respondTo \in HealthRequests
        BY <1>1, <1>7, <2>1, <2>2 DEF Asked
    <2>4. /\ HowMany(t, Responses) \in Nat
          /\ HowMany(mailbox, Responses) = HowMany(t, Responses) + 1
          /\ HowMany(UnstashedAll(t, stash), Responses) = HowMany(t, Responses) + HowMany(stash, Responses)
          /\ HowMany(stash, Responses) = 0 /\ HowMany(<<>>, Responses) = 0
        BY <1>1, <1>4, <2>1, Taken DEF OwnAnswers
    <2>5. /\ IsFiniteSet(pending) /\ Cardinality(pending) \in Nat
          /\ Cardinality(pending) = 0 => pending = {}
        <3>1. IsFiniteSet(Actors \X {respondTo})
            BY ActorsAssumption, FS_Singleton, FS_Product
        <3>2. IsFiniteSet(pending)
            BY <2>1, <3>1, FS_Subset DEF Asked
        <3> QED
            BY <3>2, FS_CardinalityType, FS_EmptySet
    <2>6. /\ checksReceived + Cardinality(pending) + HowMany(mailbox, Responses) = n
          /\ checksReceived \in Nat
        BY <1>1, <2>1 DEF Asked, TypeOk
    <2>7. \A r \in HealthRequests : verdict[r] = "healthy" => heard[r] = Actors
        BY <2>1 DEF OwnAnswers
    <2>8. ASSUME NEW r \in HealthRequests, heard[r] = Actors
          PROVE  heard'[r] = Actors
        BY <1>7, <2>8
    <2>9. CASE last
        <3>1. Cardinality(pending) = 0 /\ HowMany(t, Responses) = 0
            <4> HIDE DEF n, t
            <4> QED
                BY <2>4, <2>5, <2>6, <2>9
        <3>2. pending' = {} /\ HowMany(mailbox', Responses) = 0 /\ HowMany(stash', Responses) = 0
            BY <1>1, <1>2, <2>4, <2>5, <2>9, <3>1
        <3>3. In("healthCheck")' = FALSE
            BY <1>3, <2>9, TopOfNext
        <3>4. ASSUME NEW r \in HealthRequests, verdict'[r] = "healthy"
              PROVE  heard'[r] = Actors
            <4>1. verdict'[r] = IF r # respondTo THEN verdict[r]
                                ELSE IF healthy' = Actors THEN "healthy" ELSE "unhealthy"
                BY <1>2, <2>9 DEF Respond
            <4>2. CASE r # respondTo
                BY <2>7, <2>8, <3>4, <4>1, <4>2
            <4>3. CASE r = respondTo
                <5>1. healthy' = Actors
                    BY <3>4, <4>1, <4>3
                <5>2. heard'[r] \subseteq Actors
                    BY <1>7
                <5> QED
                    BY <2>3, <4>3, <5>1, <5>2
            <4> QED
                BY <4>2, <4>3
        <3> QED
            BY <3>2, <3>3, <3>4 DEF OwnAnswers, Responses
    <2>10. CASE ~last
        <3>1. /\ mailbox' = t /\ stash' = stash /\ verdict' = verdict
              /\ In("healthCheck")' = In("healthCheck")
            BY <1>2, <2>10, TopOfNext
        <3>2. checksReceived' + Cardinality(pending') + HowMany(mailbox', Responses) = n
            <4>1. checksReceived' = checksReceived + 1 /\ pending' = pending
                BY <1>1
            <4> HIDE DEF n, t
            <4> QED
                BY <2>4, <2>5, <2>6, <3>1, <4>1
        <3>3. HowMany(mailbox', Foreign(respondTo)) = 0
            <4>1. HowMany(mailbox, Foreign(respondTo)) = 0
                BY <2>1 DEF Asked
            <4>2. /\ HowMany(t, Foreign(respondTo)) \in Nat
                  /\ HowMany(mailbox, Foreign(respondTo))
                       = HowMany(t, Foreign(respondTo))
                           + (IF Message \in Foreign(respondTo) THEN 1 ELSE 0)
                BY <1>1, Taken
            <4> QED
                BY <3>1, <4>1, <4>2
        <3>4. pending \subseteq Actors \X {respondTo}
            BY <2>1 DEF Asked
        <3>5. Asked'
            BY <1>1, <2>3, <3>2, <3>3, <3>4 DEF Asked, Responses, Foreign
        <3>6. \A r \in HealthRequests : verdict'[r] = "healthy" => heard'[r] = Actors
            BY <2>7, <2>8, <3>1
        <3> QED
            BY <1>1, <2>4, <3>1, <3>5, <3>6 DEF OwnAnswers, Responses
    <2> QED
        BY <2>9, <2>10
<1> QED
    BY <1>1, <1>9, <1>10, <1>11, <1>12 DEF IInv

\* A restart happens between two checks; what was put aside is lost, and of what
\* waits nothing is sent twice.
LEMMA RestartInv ==
    ASSUME IInv, \/ In("default") /\ NoticeTermination
                 \/ TerminatedUnstashed
    PROVE  IInv'
<1>1. /\ TypeOk /\ In("default") /\ stash' = <<>>
      /\ healthy' = {} /\ checksReceived' = 0 /\ respondTo' = None
      /\ UNCHANGED <<pending, requested, told, arrived, routed, heard, verdict, cutShort>>
    BY OneBehaviour DEF IInv, NoticeTermination, TerminatedUnstashed, Restart, history
<1>2. /\ \/ mailbox' = mailbox
         \/ mailbox # <<>> /\ mailbox' = Tail(mailbox)
         \/ mailbox' = <<>>
      /\ stack' = <<"default">> \/ stack' = <<"stopped">>
    BY OneBehaviour DEF NoticeTermination, TerminatedUnstashed, Restart, Receive
<1>3. mailbox \in Seq(Messages) /\ stash \in Seq(Messages) /\ <<>> \in Seq(Messages)
    BY <1>1 DEF TypeOk
<1>4. mailbox' \in Seq(Messages) /\ stash' \in Seq(Messages)
    BY <1>1, <1>2, <1>3, HeadTailProperties
<1>5. ASSUME NEW P
      PROVE  /\ HowMany(mailbox, P) \in Nat /\ HowMany(stash, P) \in Nat
             /\ HowMany(mailbox', P) \in Nat /\ HowMany(stash', P) = 0
             /\ HowMany(mailbox', P) <= HowMany(mailbox, P)
             /\ HowMany(mailbox', P) + HowMany(stash', P)
                  <= HowMany(mailbox, P) + HowMany(stash, P)
    <2>1. /\ HowMany(mailbox, P) \in Nat /\ HowMany(stash, P) \in Nat
          /\ HowMany(mailbox', P) \in Nat /\ HowMany(<<>>, P) = 0
        BY <1>3, <1>4, HowManyNat, HowManyShort
    <2>2. HowMany(mailbox', P) <= HowMany(mailbox, P)
        <3>1. CASE mailbox' = mailbox
            BY <2>1, <3>1
        <3>2. CASE mailbox # <<>> /\ mailbox' = Tail(mailbox)
            <4>1. HowMany(mailbox, P) = HowMany(mailbox', P) + (IF Message \in P THEN 1 ELSE 0)
                BY <1>1, <3>2, Taken
            <4> QED
                BY <2>1, <4>1
        <3>3. CASE mailbox' = <<>>
            BY <2>1, <3>3
        <3> QED
            BY <1>2, <3>1, <3>2, <3>3
    <2>3. HowMany(stash', P) = 0
        BY <1>1, <2>1
    <2> QED
        BY <2>1, <2>2, <2>3
<1>6. TypeOk'
    BY <1>1, <1>2, <1>4 DEF TypeOk
<1>7. ~In("healthCheck") /\ ~In("healthCheck")'
    BY <1>1, <1>2, OneBehaviour, TopOfNext
<1>8. \A r \in HealthRequests : /\ Checking(r)' + told'[r] = Checking(r) + told[r]
                                /\ Checking(r)' \in Nat /\ told'[r] \in Nat
    BY <1>1, <1>7 DEF TypeOk, Checking
<1>9. \A P : /\ HowMany(mailbox, P) \in Nat /\ HowMany(stash, P) \in Nat
             /\ HowMany(mailbox', P) \in Nat /\ HowMany(stash', P) \in Nat
             /\ HowMany(mailbox', P) + HowMany(stash', P)
                  <= HowMany(mailbox, P) + HowMany(stash, P)
    BY <1>5
<1>10. RequestOnce'
    BY <1>1, <1>8, <1>9, RequestsKept
<1>11. CommandOnce'
    BY <1>1, <1>9, CommandsKept
<1>12. ASSUME ~cutShort PROVE OwnAnswers'
    <2>1. /\ pending = {} /\ HowMany(mailbox, Responses) = 0
          /\ \A r \in HealthRequests : verdict[r] = "healthy" => heard[r] = Actors
        BY <1>7, <1>12 DEF IInv, OwnAnswers
    <2>2. HowMany(mailbox', Responses) = 0 /\ HowMany(stash', Responses) = 0
        <3>1. /\ HowMany(mailbox', Responses) \in Nat /\ HowMany(stash', Responses) = 0
              /\ HowMany(mailbox', Responses) <= HowMany(mailbox, Responses)
            BY <1>5
        <3> QED
            BY <2>1, <3>1
    <2> QED
        BY <1>1, <1>7, <2>1, <2>2 DEF OwnAnswers, Responses
<1> QED
    BY <1>1, <1>6, <1>10, <1>11, <1>12 DEF IInv

-----------------------------------------------------------------------------

\* One message more.
LEMMA Arrives ==
    ASSUME IInv, NEW m \in Messages, Deliver(m), stash' = stash, NEW P
    PROVE  /\ mailbox' \in Seq(Messages) /\ stash' \in Seq(Messages)
           /\ HowMany(mailbox, P) \in Nat /\ HowMany(stash, P) \in Nat
           /\ HowMany(stash', P) = HowMany(stash, P)
           /\ HowMany(mailbox', P) = HowMany(mailbox, P) + (IF m \in P THEN 1 ELSE 0)
<1>1. mailbox \in Seq(Messages) /\ stash \in Seq(Messages) /\ mailbox' = Append(mailbox, m)
    BY DEF IInv, TypeOk, Deliver
<1>2. HowMany(stash, P) \in Nat
    BY <1>1, HowManyNat
<1> QED
    BY <1>1, <1>2, QueueGrows

\* What neither asks nor answers changes none of the counts.
LEMMA OtherArrivalInv ==
    ASSUME IInv, NEW m \in Messages, Deliver(m),
           m.type \in {"ReceiveTimeout", "Terminated"} \/ m.type = "HealthResponse",
           UNCHANGED <<stack, stash, check, history>>
    PROVE  RequestOnce' /\ CommandOnce'
<1>1. UNCHANGED <<respondTo, requested, told, arrived, routed>>
    BY DEF check, history
<1>2. \A r : m \notin Requesting(r) /\ m \notin Commanding(r)
    BY MessageKinds
<1>3. ASSUME NEW P, m \notin P
      PROVE  HowMany(mailbox', P) = HowMany(mailbox, P) /\ HowMany(stash', P) = HowMany(stash, P)
    <2>1. /\ HowMany(mailbox, P) \in Nat /\ HowMany(stash', P) = HowMany(stash, P)
          /\ HowMany(mailbox', P) = HowMany(mailbox, P) + 0
        BY <1>3, Arrives
    <2> QED
        BY <2>1
<1>4. \A r : Checking(r)' = Checking(r)
    BY <1>1, TopOfNext DEF Checking
<1>5. \A r : RequestPlaces(r)' = RequestPlaces(r) /\ CommandPlaces(r)' = CommandPlaces(r)
    BY <1>1, <1>2, <1>3, <1>4, PlacesOfNext DEF RequestPlaces, CommandPlaces
<1> QED
    BY <1>1, <1>5 DEF IInv, RequestOnce, CommandOnce

\* A request is sent once.
LEMMA RequestInv ==
    ASSUME IInv, NEW r0 \in HealthRequests, SendHealthRequest(r0)
    PROVE  IInv'
<1> DEFINE m == [type |-> "HealthRequest", id |-> r0]
<1>1. /\ TypeOk /\ r0 \notin requested /\ requested' = requested \cup {r0} /\ Deliver(m)
      /\ UNCHANGED <<stack, stash, check, pending, told, arrived, routed, heard, verdict, cutShort>>
    BY DEF IInv, SendHealthRequest
<1>2. /\ m \in Messages /\ m \notin Responses
      /\ \A r : (m \in Requesting(r) <=> r0 = r) /\ m \notin Commanding(r) /\ m \notin Foreign(r)
    BY Arriving, MessageKinds
<1> HIDE DEF m
<1>3. \A P : /\ mailbox' \in Seq(Messages) /\ stash' \in Seq(Messages)
             /\ HowMany(mailbox, P) \in Nat /\ HowMany(stash, P) \in Nat
             /\ HowMany(stash', P) = HowMany(stash, P)
             /\ HowMany(mailbox', P) = HowMany(mailbox, P) + (IF m \in P THEN 1 ELSE 0)
    BY <1>1, <1>2, Arrives
<1>4. TypeOk'
    BY <1>1, <1>3 DEF TypeOk, check
<1>5. ASSUME NEW P, m \notin P
      PROVE  HowMany(mailbox', P) = HowMany(mailbox, P) /\ HowMany(stash', P) = HowMany(stash, P)
    <2>1. /\ HowMany(mailbox, P) \in Nat /\ HowMany(stash', P) = HowMany(stash, P)
          /\ HowMany(mailbox', P) = HowMany(mailbox, P) + 0
        BY <1>3, <1>5
    <2> QED
        BY <2>1
<1>6. ~cutShort' => OwnAnswers'
    BY <1>1, <1>2, <1>5, OwnKept DEF IInv
<1>7. CommandOnce'
    <2>1. \A c : CommandPlaces(c)' = CommandPlaces(c)
        BY <1>1, <1>2, <1>5, PlacesOfNext DEF CommandPlaces
    <2> QED
        BY <1>1, <2>1 DEF IInv, CommandOnce
<1>8. RequestOnce'
    <2>1. ASSUME NEW r \in HealthRequests
          PROVE  RequestPlaces(r)' <= IF r \in requested' THEN 1 ELSE 0
        <3>1. Checking(r)' = Checking(r) /\ Checking(r) \in Nat
            BY <1>1, TopOfNext DEF Checking, check
        <3>2. /\ HowMany(mailbox, Requesting(r)) \in Nat /\ HowMany(stash, Requesting(r)) \in Nat
              /\ HowMany(stash', Requesting(r)) = HowMany(stash, Requesting(r))
              /\ HowMany(mailbox', Requesting(r))
                   = HowMany(mailbox, Requesting(r)) + (IF r0 = r THEN 1 ELSE 0)
            BY <1>2, <1>3
        <3>3. told[r] \in Nat
            BY <1>1 DEF TypeOk
        <3>4. HowMany(mailbox, Requesting(r)) + HowMany(stash, Requesting(r)) + Checking(r) + told[r]
                 <= IF r \in requested THEN 1 ELSE 0
            BY DEF IInv, RequestOnce, RequestPlaces
        <3>5. RequestPlaces(r)' = HowMany(mailbox', Requesting(r)) + HowMany(stash', Requesting(r))
                                    + Checking(r) + told[r]
            BY <1>1, <3>1, PlacesOfNext
        <3>6. CASE r0 = r
            BY <1>1, <3>1, <3>2, <3>3, <3>4, <3>5, <3>6
        <3>7. CASE r0 # r
            BY <1>1, <3>1, <3>2, <3>3, <3>4, <3>5, <3>7
        <3> QED
            BY <3>6, <3>7
    <2> QED
        BY <2>1 DEF RequestOnce
<1> QED
    BY <1>4, <1>6, <1>7, <1>8 DEF IInv

\* A command is sent once.
LEMMA CommandInv ==
    ASSUME IInv, NEW c0 \in Commands, SendCommand(c0)
    PROVE  IInv'
<1> DEFINE m == [type |-> "ParsedCommand", command |-> c0]
<1>1. /\ TypeOk /\ c0 \notin arrived /\ arrived' = arrived \cup {c0} /\ Deliver(m)
      /\ UNCHANGED <<stack, stash, check, pending, requested, told, routed, heard, verdict, cutShort>>
    BY DEF IInv, SendCommand
<1>2. /\ m \in Messages /\ m \notin Responses
      /\ \A c : (m \in Commanding(c) <=> c0 = c) /\ m \notin Requesting(c) /\ m \notin Foreign(c)
    BY Arriving, MessageKinds
<1> HIDE DEF m
<1>3. \A P : /\ mailbox' \in Seq(Messages) /\ stash' \in Seq(Messages)
             /\ HowMany(mailbox, P) \in Nat /\ HowMany(stash, P) \in Nat
             /\ HowMany(stash', P) = HowMany(stash, P)
             /\ HowMany(mailbox', P) = HowMany(mailbox, P) + (IF m \in P THEN 1 ELSE 0)
    BY <1>1, <1>2, Arrives
<1>4. TypeOk'
    BY <1>1, <1>3 DEF TypeOk, check
<1>5. ASSUME NEW P, m \notin P
      PROVE  HowMany(mailbox', P) = HowMany(mailbox, P) /\ HowMany(stash', P) = HowMany(stash, P)
    <2>1. /\ HowMany(mailbox, P) \in Nat /\ HowMany(stash', P) = HowMany(stash, P)
          /\ HowMany(mailbox', P) = HowMany(mailbox, P) + 0
        BY <1>3, <1>5
    <2> QED
        BY <2>1
<1>6. ~cutShort' => OwnAnswers'
    BY <1>1, <1>2, <1>5, OwnKept DEF IInv
<1>7. RequestOnce'
    <2>1. \A r : Checking(r)' = Checking(r)
        BY <1>1, TopOfNext DEF Checking, check
    <2>2. \A r : RequestPlaces(r)' = RequestPlaces(r)
        BY <1>1, <1>2, <1>5, <2>1, PlacesOfNext DEF RequestPlaces
    <2> QED
        BY <1>1, <2>2 DEF IInv, RequestOnce
<1>8. CommandOnce'
    <2>1. ASSUME NEW c \in Commands
          PROVE  CommandPlaces(c)' <= IF c \in arrived' THEN 1 ELSE 0
        <3>1. /\ HowMany(mailbox, Commanding(c)) \in Nat /\ HowMany(stash, Commanding(c)) \in Nat
              /\ HowMany(stash', Commanding(c)) = HowMany(stash, Commanding(c))
              /\ HowMany(mailbox', Commanding(c))
                   = HowMany(mailbox, Commanding(c)) + (IF c0 = c THEN 1 ELSE 0)
            BY <1>2, <1>3
        <3>2. routed[c] \in Nat
            BY <1>1 DEF TypeOk
        <3>3. HowMany(mailbox, Commanding(c)) + HowMany(stash, Commanding(c)) + routed[c]
                 <= IF c \in arrived THEN 1 ELSE 0
            BY DEF IInv, CommandOnce, CommandPlaces
        <3>4. CommandPlaces(c)' = HowMany(mailbox', Commanding(c)) + HowMany(stash', Commanding(c))
                                    + routed[c]
            BY <1>1, PlacesOfNext
        <3>5. CASE c0 = c
            BY <1>1, <3>1, <3>2, <3>3, <3>4, <3>5
        <3>6. CASE c0 # c
            BY <1>1, <3>1, <3>2, <3>3, <3>4, <3>6
        <3> QED
            BY <3>5, <3>6
    <2> QED
        BY <2>1 DEF CommandOnce
<1> QED
    BY <1>4, <1>6, <1>7, <1>8 DEF IInv

\* An answer comes from an actor that was asked, for the check that asked it.
LEMMA AnswerInv ==
    ASSUME IInv, NEW w \in Actors, NEW r0 \in HealthRequests, ActorAnswers(w, r0)
    PROVE  IInv'
<1>1. PICK h \in BOOLEAN :
         Deliver([type |-> "HealthResponse", who |-> w, healthy |-> h, of |-> r0])
    BY DEF ActorAnswers
<1> DEFINE m == [type |-> "HealthResponse", who |-> w, healthy |-> h, of |-> r0]
<1>2. /\ TypeOk /\ <<w, r0>> \in pending /\ pending' = pending \ {<<w, r0>>} /\ Deliver(m)
      /\ UNCHANGED <<stack, stash, check, history>>
    BY <1>1 DEF IInv, ActorAnswers
<1>3. /\ UNCHANGED <<healthy, checksReceived, respondTo, requested, told, arrived, routed, heard,
                     verdict, cutShort>>
    BY <1>2 DEF check, history
<1>4. /\ m \in Messages /\ m.type = "HealthResponse" /\ m \in Responses
      /\ \A r : m \in Foreign(r) <=> r0 # r
    BY Arriving, MessageKinds
<1> HIDE DEF m
<1>5. \A P : /\ mailbox' \in Seq(Messages) /\ stash' \in Seq(Messages)
             /\ HowMany(mailbox, P) \in Nat /\ HowMany(stash, P) \in Nat
             /\ HowMany(stash', P) = HowMany(stash, P)
             /\ HowMany(mailbox', P) = HowMany(mailbox, P) + (IF m \in P THEN 1 ELSE 0)
    BY <1>2, <1>4, Arrives
<1>6. TypeOk'
    BY <1>2, <1>3, <1>5 DEF TypeOk
<1>7. RequestOnce' /\ CommandOnce'
    BY <1>2, <1>4, OtherArrivalInv
<1>8. ASSUME ~cutShort PROVE OwnAnswers'
    <2>1. OwnAnswers /\ In("healthCheck") /\ Asked
        BY <1>2, <1>8 DEF IInv, OwnAnswers
    <2>2. r0 = respondTo
        BY <1>2, <2>1 DEF Asked
    <2>3. /\ HowMany(mailbox', Responses) = HowMany(mailbox, Responses) + 1
          /\ HowMany(mailbox, Responses) \in Nat
          /\ HowMany(stash', Responses) = 0
        BY <1>4, <1>5, <2>1 DEF OwnAnswers
    <2>4. HowMany(mailbox', Foreign(respondTo)) = 0
        <3>1. /\ HowMany(mailbox', Foreign(respondTo)) = HowMany(mailbox, Foreign(respondTo)) + 0
            BY <1>4, <1>5, <2>2
        <3>2. HowMany(mailbox, Foreign(respondTo)) = 0
            BY <2>1 DEF Asked
        <3> QED
            BY <3>1, <3>2
    <2>5. /\ Cardinality(pending) \in Nat /\ Cardinality(pending') = Cardinality(pending) - 1
        <3>1. IsFiniteSet(Actors \X {respondTo})
            BY ActorsAssumption, FS_Singleton, FS_Product
        <3>2. IsFiniteSet(pending)
            BY <2>1, <3>1, FS_Subset DEF Asked
        <3> QED
            BY <1>2, <3>2, FS_CardinalityType, FS_RemoveElement
    <2>6. checksReceived' + Cardinality(pending') + HowMany(mailbox', Responses) = Cardinality(Actors)
        <3>1. /\ checksReceived + Cardinality(pending) + HowMany(mailbox, Responses)
                   = Cardinality(Actors)
              /\ checksReceived \in Nat /\ checksReceived' = checksReceived
            BY <1>2, <1>3, <2>1 DEF Asked, TypeOk
        <3> QED
            BY <2>3, <2>5, <3>1
    <2>7. /\ pending' \subseteq Actors \X {respondTo}
          /\ respondTo \in HealthRequests /\ healthy \subseteq heard[respondTo]
        BY <1>2, <2>1 DEF Asked
    <2>8. Asked'
        BY <1>3, <2>4, <2>6, <2>7 DEF Asked, Responses, Foreign
    <2>9. In("healthCheck")'
        BY <1>2, <2>1, TopOfNext
    <2>10. \A r \in HealthRequests : verdict'[r] = "healthy" => heard'[r] = Actors
        BY <1>3, <2>1 DEF OwnAnswers
    <2> QED
        BY <2>3, <2>8, <2>9, <2>10 DEF OwnAnswers, Responses
<1> QED
    BY <1>3, <1>6, <1>7, <1>8 DEF IInv

\* The receive timeout fires.
LEMMA FiresInv ==
    ASSUME IInv, ReceiveTimeoutFires
    PROVE  IInv'
<1> DEFINE m == [type |-> "ReceiveTimeout"]
<1>1. /\ TypeOk /\ Deliver(m) /\ UNCHANGED <<stack, stash, check, pending, history>>
    BY DEF IInv, ReceiveTimeoutFires
<1>2. /\ m \in Messages /\ m.type = "ReceiveTimeout" /\ m \notin Responses
      /\ \A r : m \notin Foreign(r)
    BY Arriving, MessageKinds
<1>3. UNCHANGED <<heard, verdict, cutShort, told, routed>>
    BY <1>1 DEF history
<1> HIDE DEF m
<1>4. ASSUME NEW P
      PROVE  /\ mailbox' \in Seq(Messages) /\ stash' \in Seq(Messages)
             /\ m \notin P => /\ HowMany(mailbox', P) = HowMany(mailbox, P)
                              /\ HowMany(stash', P) = HowMany(stash, P)
    <2>1. /\ mailbox' \in Seq(Messages) /\ stash' \in Seq(Messages)
          /\ HowMany(mailbox, P) \in Nat /\ HowMany(stash', P) = HowMany(stash, P)
          /\ HowMany(mailbox', P) = HowMany(mailbox, P) + (IF m \in P THEN 1 ELSE 0)
        BY <1>1, <1>2, Arrives
    <2> QED
        BY <2>1
<1>5. TypeOk'
    BY <1>1, <1>3, <1>4 DEF TypeOk, check
<1>6. RequestOnce' /\ CommandOnce'
    BY <1>1, <1>2, OtherArrivalInv
<1>7. ~cutShort' => OwnAnswers'
    BY <1>1, <1>2, <1>3, <1>4, OwnKept DEF IInv
<1> QED
    BY <1>5, <1>6, <1>7 DEF IInv

-----------------------------------------------------------------------------

\* Every step keeps the invariant.
LEMMA NextInv ==
    ASSUME IInv, [Next]_vars
    PROVE  IInv'
<1>1. CASE UNCHANGED vars \/ ModbusStops
    <2>1. UNCHANGED <<stack, mailbox, stash, healthy, checksReceived, respondTo, pending,
                      requested, told, arrived, routed, heard, verdict, cutShort>>
        BY <1>1 DEF vars, ModbusStops, check, history
    <2> QED
        BY <2>1 DEF IInv, TypeOk, RequestOnce, RequestPlaces, Checking, CommandOnce, CommandPlaces,
                    OwnAnswers, Asked, Requesting, Commanding, Responses, Foreign, In
<1>2. CASE NoticeTermination
    <2>1. In("default") \/ In("healthCheck")
        BY <1>2 DEF NoticeTermination
    <2> QED
        BY <1>2, <2>1, TerminationAsideInv, RestartInv
<1> QED
    BY <1>1, <1>2, StartInv, TimeoutInv, ResponseInv, RouteInv, RestartInv, AsideInv,
       RequestInv, CommandInv, AnswerInv, FiresInv DEF Next, Handle

\* The invariant holds in every reachable state.
THEOREM Invariance == Spec => []IInv
<1>1. Init => IInv
    BY InitInv
<1>2. IInv /\ [Next]_vars => IInv'
    BY NextInv
<1> QED
    BY <1>1, <1>2, PTL DEF Spec

\* VerdictTrueUnlessCutShort: until a receive timeout has cut a check short, a
\* request is told "healthy" only if every actor has answered its check so.
THEOREM VerdictsAreTrue == Spec => []VerdictTrueUnlessCutShort
<1>1. IInv => VerdictTrueUnlessCutShort
    BY DEF IInv, OwnAnswers, VerdictTrueUnlessCutShort
<1> QED
    BY <1>1, Invariance, PTL

\* The answer of a check is the one answer of its request.
LEMMA RespondServes ==
    ASSUME IInv, In("healthCheck"), NEW found, Respond(found), requested' = requested
    PROVE  [Checks!Next]_<<requested, told>>
<1>1. /\ told \in [HealthRequests -> Nat]
      /\ mailbox \in Seq(Messages) /\ stash \in Seq(Messages)
    BY DEF IInv, TypeOk
<1>2. told' = [r \in HealthRequests |-> told[r] + (IF r = respondTo THEN 1 ELSE 0)]
    BY DEF Respond
<1>3. CASE respondTo \in HealthRequests
    <2> DEFINE P == Requesting(respondTo)
    <2>1. HowMany(mailbox, P) \in Nat /\ HowMany(stash, P) \in Nat
        BY <1>1, HowManyNat
    <2>2. HowMany(mailbox, P) + HowMany(stash, P) + 1 + told[respondTo]
             <= IF respondTo \in requested THEN 1 ELSE 0
        BY <1>3 DEF IInv, RequestOnce, RequestPlaces, Checking
    <2>3. told[respondTo] \in Nat
        BY <1>1, <1>3
    <2> HIDE DEF P
    <2>4. respondTo \in requested /\ told[respondTo] = 0
        BY <2>1, <2>2, <2>3
    <2>5. told' = [told EXCEPT ![respondTo] = 1]
        <3>1. \A r \in HealthRequests : told'[r] = [told EXCEPT ![respondTo] = 1][r]
            BY <1>1, <1>2, <1>3, <2>4
        <3>2. /\ told' = [r \in HealthRequests |-> told'[r]]
              /\ [told EXCEPT ![respondTo] = 1]
                   = [r \in HealthRequests |-> [told EXCEPT ![respondTo] = 1][r]]
            BY <1>1, <1>2
        <3> QED
            BY <3>1, <3>2
    <2> QED
        BY <1>3, <2>4, <2>5 DEF Checks!Next, Checks!Answer
<1>4. CASE respondTo \notin HealthRequests
    <2>1. \A r \in HealthRequests : told'[r] = told[r]
        BY <1>1, <1>2, <1>4
    <2>2. told' = told
        BY <1>1, <1>2, <2>1
    <2> QED
        BY <2>2
<1> QED
    BY <1>3, <1>4

\* Every step is one of the service of health checks, or none.
LEMMA NextChecks ==
    ASSUME IInv, [Next]_vars
    PROVE  [Checks!Next]_<<requested, told>>
<1>1. CASE UNCHANGED vars
    BY <1>1 DEF vars
<1>2. CASE HealthTimeout
    BY <1>2, RespondServes DEF HealthTimeout
<1>3. CASE HealthResponse
    <2>1. (In("healthCheck") /\ Respond(healthy')) \/ told' = told
        BY <1>3 DEF HealthResponse
    <2>2. requested' = requested
        BY <1>3 DEF HealthResponse
    <2> QED
        BY <2>1, <2>2, RespondServes
<1>4. CASE StartHealthCheck \/ RouteCommand \/ StashMessage \/ NoticeTermination \/ TerminatedUnstashed
    BY <1>4 DEF StartHealthCheck, RouteCommand, StashMessage, NoticeTermination,
                TerminatedUnstashed, Restart, history
<1>5. ASSUME NEW r \in HealthRequests, SendHealthRequest(r)
      PROVE  Checks!Next
    BY <1>5 DEF SendHealthRequest, Checks!Next, Checks!Send
<1>6. CASE \/ \E c \in Commands : SendCommand(c)
           \/ \E who \in Actors, r \in HealthRequests : ActorAnswers(who, r)
           \/ ReceiveTimeoutFires \/ ModbusStops
    BY <1>6 DEF SendCommand, ActorAnswers, ReceiveTimeoutFires, ModbusStops, history
<1> QED
    BY <1>1, <1>2, <1>3, <1>4, <1>5, <1>6 DEF Next, Handle

\* A valid command that is routed had not been routed.
LEMMA RouteServes ==
    ASSUME IInv, RouteCommand
    PROVE  [Routing!Next]_<<arrived, routed>>
<1> DEFINE k == Message.command
<1>1. /\ TypeOk /\ mailbox # <<>> /\ Message.type = "ParsedCommand" /\ arrived' = arrived
      /\ routed' = IF k \in Valid THEN [routed EXCEPT ![k] = @ + 1] ELSE routed
    BY DEF IInv, RouteCommand, Receive
<1>2. k \in Commands /\ Message \in Commanding(k)
    BY <1>1, Taken, MessageKinds
<1>3. /\ HowMany(Tail(mailbox), Commanding(k)) \in Nat /\ HowMany(stash, Commanding(k)) \in Nat
      /\ HowMany(mailbox, Commanding(k)) = HowMany(Tail(mailbox), Commanding(k)) + 1
    BY <1>1, <1>2, Taken
<1>4. routed \in [Commands -> Nat]
    BY <1>1 DEF TypeOk
<1>5. HowMany(mailbox, Commanding(k)) + HowMany(stash, Commanding(k)) + routed[k]
         <= IF k \in arrived THEN 1 ELSE 0
    BY <1>2 DEF IInv, CommandOnce, CommandPlaces
<1> HIDE DEF k
<1>6. routed[k] \in Nat
    BY <1>2, <1>4
<1>7. k \in arrived /\ routed[k] = 0
    BY <1>3, <1>5, <1>6
<1>8. routed' = [routed EXCEPT ![k] = 1] \/ routed' = routed
    BY <1>1, <1>7
<1> QED
    BY <1>1, <1>2, <1>7, <1>8 DEF Routing!Next, Routing!Answer

\* Every step is one of the routing of commands, or none.
LEMMA NextRouting ==
    ASSUME IInv, [Next]_vars
    PROVE  [Routing!Next]_<<arrived, routed>>
<1>1. CASE UNCHANGED vars
    BY <1>1 DEF vars
<1>2. CASE HealthTimeout \/ HealthResponse \/ StartHealthCheck \/ StashMessage
           \/ NoticeTermination \/ TerminatedUnstashed
    BY <1>2 DEF HealthTimeout, HealthResponse, StartHealthCheck, StashMessage, NoticeTermination,
                TerminatedUnstashed, Restart, history
<1>3. ASSUME NEW c \in Commands, SendCommand(c)
      PROVE  Routing!Next
    BY <1>3 DEF SendCommand, Routing!Next, Routing!Send
<1>4. CASE \/ \E r \in HealthRequests : SendHealthRequest(r)
           \/ \E who \in Actors, r \in HealthRequests : ActorAnswers(who, r)
           \/ ReceiveTimeoutFires \/ ModbusStops
    BY <1>4 DEF SendHealthRequest, ActorAnswers, ReceiveTimeoutFires, ModbusStops, history
<1> QED
    BY <1>1, <1>2, <1>3, <1>4, RouteServes DEF Next, Handle

\* Promise: a health request is answered at most once and a command routed at
\* most once, and neither before it is sent, whatever a check puts aside and
\* whatever a restart forgets.
THEOREM ServesRequests == Spec => Promise
<1>1. Init => Checks!Init /\ Routing!Init
    BY DEF Init, Checks!Init, Routing!Init
<1>2. IInv /\ [Next]_vars => [Checks!Next]_<<requested, told>>
    BY NextChecks
<1>3. IInv /\ [Next]_vars => [Routing!Next]_<<arrived, routed>>
    BY NextRouting
<1> QED
    BY <1>1, <1>2, <1>3, Invariance, PTL DEF Spec, Promise, Checks!Spec, Routing!Spec
=============================================================================
