--------------------------- MODULE ActorUtilLemmas ---------------------------
(* What the operators of ActorUtil preserve: types, the messages held and how *)
(* many of them there are.                                                    *)
EXTENDS ActorUtil, FiniteSetTheorems, SequenceTheorems, TLAPS

\* Taking the first message: it is the one sought, or the tail still holds it.
LEMMA TakeHead ==
    ASSUME NEW S, NEW q \in Seq(S), q # <<>>
    PROVE  /\ Head(q) \in S
           /\ Tail(q) \in Seq(S)
           /\ \A types : InQueue(q, types) =>
                 Head(q).type \in types \/ InQueue(Tail(q), types)
           /\ \A types : InQueue(Tail(q), types) => InQueue(q, types)
<1>1. /\ Head(q) \in S /\ Tail(q) \in Seq(S)
      /\ Len(Tail(q)) = Len(q) - 1
      /\ \A i \in 1 .. Len(Tail(q)) : Tail(q)[i] = q[i + 1]
    BY HeadTailProperties
<1>2. /\ Len(q) \in Nat \ {0} /\ DOMAIN q = 1 .. Len(q)
      /\ DOMAIN Tail(q) = 1 .. Len(Tail(q))
    BY <1>1, EmptySeq, LenProperties
<1>3. Head(q) = q[1]
    OBVIOUS
<1>4. ASSUME NEW types, InQueue(q, types), Head(q).type \notin types
      PROVE  InQueue(Tail(q), types)
    <2>1. PICK i \in 1 .. Len(q) : q[i].type \in types
        BY <1>2, <1>4 DEF InQueue
    <2>2. i - 1 \in 1 .. Len(Tail(q)) /\ Tail(q)[i - 1] = q[i]
        BY <2>1, <1>1, <1>2, <1>3, <1>4
    <2> QED
        BY <2>1, <2>2, <1>2 DEF InQueue
<1>5. ASSUME NEW types, InQueue(Tail(q), types)
      PROVE  InQueue(q, types)
    <2>1. PICK i \in 1 .. Len(Tail(q)) : Tail(q)[i].type \in types
        BY <1>2, <1>5 DEF InQueue
    <2>2. i + 1 \in 1 .. Len(q) /\ q[i + 1].type \in types
        BY <2>1, <1>1, <1>2
    <2> QED
        BY <2>2, <1>2 DEF InQueue
<1> QED
    BY <1>1, <1>4, <1>5

\* Adding a message at the end.
LEMMA AddLast ==
    ASSUME NEW S, NEW q \in Seq(S), NEW m \in S
    PROVE  /\ Append(q, m) \in Seq(S)
           /\ \A types : InQueue(Append(q, m), types)
                           <=> InQueue(q, types) \/ m.type \in types
<1>1. /\ Append(q, m) \in Seq(S)
      /\ Len(Append(q, m)) = Len(q) + 1
      /\ \A i \in 1 .. Len(q) : Append(q, m)[i] = q[i]
      /\ Append(q, m)[Len(q) + 1] = m
    BY AppendProperties
<1>2. /\ Len(q) \in Nat /\ DOMAIN q = 1 .. Len(q)
      /\ DOMAIN Append(q, m) = 1 .. Len(q) + 1
    BY <1>1, LenProperties
<1>3. ASSUME NEW types
      PROVE  InQueue(Append(q, m), types) <=> InQueue(q, types) \/ m.type \in types
    BY <1>1, <1>2 DEF InQueue
<1> QED
    BY <1>1, <1>3

\* UnstashAll loses nothing and invents nothing.
LEMMA UnstashAll ==
    ASSUME NEW S, NEW q \in Seq(S), NEW st \in Seq(S)
    PROVE  /\ UnstashedAll(q, st) \in Seq(S)
           /\ \A types : InQueue(UnstashedAll(q, st), types)
                           <=> InQueue(q, types) \/ InQueue(st, types)
<1>1. /\ q \o st \in Seq(S)
      /\ Len(q \o st) = Len(q) + Len(st)
      /\ \A i \in 1 .. Len(q) + Len(st) :
            (q \o st)[i] = IF i <= Len(q) THEN q[i] ELSE st[i - Len(q)]
    BY ConcatProperties
<1>2. /\ Len(q) \in Nat /\ Len(st) \in Nat
      /\ DOMAIN q = 1 .. Len(q) /\ DOMAIN st = 1 .. Len(st)
      /\ DOMAIN (q \o st) = 1 .. Len(q) + Len(st)
    BY <1>1, LenProperties
<1>3. ASSUME NEW types
      PROVE  InQueue(q \o st, types) <=> InQueue(q, types) \/ InQueue(st, types)
    <2>1. ASSUME InQueue(q \o st, types)
          PROVE  InQueue(q, types) \/ InQueue(st, types)
        <3>1. PICK i \in 1 .. Len(q) + Len(st) : (q \o st)[i].type \in types
            BY <2>1, <1>2 DEF InQueue
        <3>2. CASE i <= Len(q)
            BY <3>1, <3>2, <1>1, <1>2 DEF InQueue
        <3>3. CASE ~(i <= Len(q))
            <4>1. i - Len(q) \in 1 .. Len(st) /\ st[i - Len(q)].type \in types
                BY <3>1, <3>3, <1>1, <1>2
            <4> QED
                BY <4>1, <1>2 DEF InQueue
        <3> QED
            BY <3>2, <3>3
    <2>2. ASSUME InQueue(q, types)
          PROVE  InQueue(q \o st, types)
        BY <2>2, <1>1, <1>2 DEF InQueue
    <2>3. ASSUME InQueue(st, types)
          PROVE  InQueue(q \o st, types)
        <3>1. PICK i \in 1 .. Len(st) : st[i].type \in types
            BY <2>3, <1>2 DEF InQueue
        <3>2. /\ i + Len(q) \in 1 .. Len(q) + Len(st)
              /\ (q \o st)[i + Len(q)].type \in types
            BY <3>1, <1>1, <1>2
        <3> QED
            BY <3>2, <1>2 DEF InQueue
    <2> QED
        BY <2>1, <2>2, <2>3
<1> QED
    BY <1>1, <1>3 DEF UnstashedAll

\* How many messages of the queue are in P.
HowMany(queue, P) == Cardinality({i \in DOMAIN queue : queue[i] \in P})

\* A set of positions moved by k has as many members.
LEMMA Shifted ==
    ASSUME NEW A \in SUBSET Int, IsFiniteSet(A), NEW k \in Int
    PROVE  /\ IsFiniteSet({i + k : i \in A})
           /\ Cardinality({i + k : i \in A}) = Cardinality(A)
<1> DEFINE B == {i + k : i \in A}
           f == [i \in A |-> i + k]
<1>1. f \in [A -> B] /\ \A i \in A : f[i] = i + k
    OBVIOUS
<1>2. \A i, j \in A : f[i] = f[j] => i = j
    BY <1>1
<1>3. \A b \in B : \E i \in A : f[i] = b
    BY <1>1
<1>4. f \in Bijection(A, B)
    BY <1>1, <1>2, <1>3 DEF Bijection, Injection, Surjection, IsInjective
<1> QED
    BY <1>4, FS_Bijection DEF ExistsBijection

\* The positions counted are finitely many.
LEMMA HowManyNat ==
    ASSUME NEW S, NEW q \in Seq(S), NEW P
    PROVE  /\ IsFiniteSet({i \in DOMAIN q : q[i] \in P})
           /\ HowMany(q, P) \in Nat
           /\ HowMany(q, P) = 0 <=> \A i \in DOMAIN q : q[i] \notin P
<1> DEFINE at == {i \in DOMAIN q : q[i] \in P}
<1>1. DOMAIN q = 1 .. Len(q) /\ Len(q) \in Nat
    BY LenProperties
<1>2. IsFiniteSet(1 .. Len(q))
    BY <1>1, FS_Interval
<1>3. IsFiniteSet(at)
    BY <1>1, <1>2, FS_Subset
<1>4. Cardinality(at) \in Nat /\ (Cardinality(at) = 0 <=> at = {})
    BY <1>3, FS_CardinalityType, FS_EmptySet
<1> QED
    BY <1>3, <1>4 DEF HowMany

\* Messages put behind one another are counted one after the other.
LEMMA HowManyConcat ==
    ASSUME NEW S, NEW q \in Seq(S), NEW r \in Seq(S), NEW P
    PROVE  HowMany(q \o r, P) = HowMany(q, P) + HowMany(r, P)
<1> DEFINE atQ == {i \in DOMAIN q : q[i] \in P}
           atR == {i \in DOMAIN r : r[i] \in P}
           shifted == {i + Len(q) : i \in atR}
           at == {i \in DOMAIN (q \o r) : (q \o r)[i] \in P}
<1>1. /\ q \o r \in Seq(S)
      /\ Len(q \o r) = Len(q) + Len(r)
      /\ \A i \in 1 .. Len(q) + Len(r) :
            (q \o r)[i] = IF i <= Len(q) THEN q[i] ELSE r[i - Len(q)]
    BY ConcatProperties
<1>2. /\ Len(q) \in Nat /\ Len(r) \in Nat
      /\ DOMAIN q = 1 .. Len(q) /\ DOMAIN r = 1 .. Len(r)
      /\ DOMAIN (q \o r) = 1 .. Len(q) + Len(r)
    BY <1>1, LenProperties
<1>3. IsFiniteSet(atQ) /\ IsFiniteSet(atR) /\ Cardinality(atQ) \in Nat
    BY HowManyNat DEF HowMany
<1>4. IsFiniteSet(shifted) /\ Cardinality(shifted) = Cardinality(atR)
    <2>1. atR \in SUBSET Int /\ Len(q) \in Int
        BY <1>2
    <2> HIDE DEF atR
    <2> QED
        BY <1>3, <2>1, Shifted
<1>5. at = atQ \cup shifted
    <2>1. ASSUME NEW i \in at PROVE i \in atQ \cup shifted
        <3>1. CASE i <= Len(q)
            BY <2>1, <3>1, <1>1, <1>2
        <3>2. CASE ~(i <= Len(q))
            <4>1. i - Len(q) \in atR /\ (i - Len(q)) + Len(q) = i
                BY <2>1, <3>2, <1>1, <1>2
            <4> QED
                BY <4>1
        <3> QED
            BY <3>1, <3>2
    <2>2. ASSUME NEW i \in atQ PROVE i \in at
        BY <1>1, <1>2
    <2>3. ASSUME NEW i \in atR PROVE i + Len(q) \in at
        BY <1>1, <1>2
    <2> QED
        BY <2>1, <2>2, <2>3
<1>6. atQ \cap shifted = {}
    BY <1>2
<1>7. Cardinality(at) = Cardinality(atQ) + Cardinality(shifted) - Cardinality({})
    BY <1>3, <1>4, <1>5, <1>6, FS_Union
<1>8. Cardinality(at) = Cardinality(atQ) + Cardinality(atR)
    <2>1. Cardinality(atR) \in Nat
        BY HowManyNat DEF HowMany
    <2>2. Cardinality({}) = 0
        BY FS_EmptySet
    <2> HIDE DEF at, atQ, atR, shifted
    <2> QED
        BY <1>3, <1>4, <1>7, <2>1, <2>2
<1> QED
    BY <1>8 DEF HowMany

\* A queue of one message, and of none.
LEMMA HowManyShort ==
    ASSUME NEW m, NEW P
    PROVE  /\ HowMany(<<>>, P) = 0
           /\ HowMany(<<m>>, P) = IF m \in P THEN 1 ELSE 0
<1>1. {i \in DOMAIN <<>> : <<>>[i] \in P} = {}
    OBVIOUS
<1>2. {i \in DOMAIN <<m>> : <<m>>[i] \in P} = IF m \in P THEN {1} ELSE {}
    OBVIOUS
<1> QED
    BY <1>1, <1>2, FS_EmptySet, FS_Singleton DEF HowMany

\* One more message at the end.
LEMMA HowManyAppend ==
    ASSUME NEW S, NEW q \in Seq(S), NEW m \in S, NEW P
    PROVE  HowMany(Append(q, m), P) = HowMany(q, P) + (IF m \in P THEN 1 ELSE 0)
<1>1. Append(q, m) = q \o <<m>> /\ <<m>> \in Seq(S)
    BY AppendIsConcat
<1>2. HowMany(q \o <<m>>, P) = HowMany(q, P) + HowMany(<<m>>, P)
    BY <1>1, HowManyConcat
<1> QED
    BY <1>1, <1>2, HowManyShort

\* One message less at the front.
LEMMA HowManyTail ==
    ASSUME NEW S, NEW q \in Seq(S), q # <<>>, NEW P
    PROVE  HowMany(q, P) = HowMany(Tail(q), P) + (IF Head(q) \in P THEN 1 ELSE 0)
<1>1. /\ Head(q) \in S /\ Tail(q) \in Seq(S) /\ <<Head(q)>> \in Seq(S)
      /\ q = <<Head(q)>> \o Tail(q)
    BY HeadTailProperties
<1>2. HowMany(Tail(q), P) \in Nat
    BY <1>1, HowManyNat
<1>3. HowMany(q, P) = HowMany(<<Head(q)>>, P) + HowMany(Tail(q), P)
    BY <1>1, HowManyConcat
<1> QED
    BY <1>2, <1>3, HowManyShort

\* A handler takes the first message: it drops it, puts it aside, or hands back
\* what was put aside.  What each of the queues then holds of P.
LEMMA QueueMoves ==
    ASSUME NEW S, NEW q \in Seq(S), NEW st \in Seq(S), q # <<>>, NEW P
    PROVE  /\ Head(q) \in S /\ Tail(q) \in Seq(S)
           /\ Append(st, Head(q)) \in Seq(S) /\ UnstashedAll(Tail(q), st) \in Seq(S)
           /\ <<>> \in Seq(S)
           /\ HowMany(Tail(q), P) \in Nat /\ HowMany(st, P) \in Nat
           /\ HowMany(q, P) = HowMany(Tail(q), P) + (IF Head(q) \in P THEN 1 ELSE 0)
           /\ HowMany(Append(st, Head(q)), P)
                = HowMany(st, P) + (IF Head(q) \in P THEN 1 ELSE 0)
           /\ HowMany(UnstashedAll(Tail(q), st), P) = HowMany(Tail(q), P) + HowMany(st, P)
           /\ HowMany(<<>>, P) = 0
<1>1. Head(q) \in S /\ Tail(q) \in Seq(S)
    BY HeadTailProperties
<1>2. Append(st, Head(q)) \in Seq(S) /\ Tail(q) \o st \in Seq(S)
    BY <1>1, AppendProperties, ConcatProperties
<1>3. <<>> \in Seq(S)
    OBVIOUS
<1>4. HowMany(Tail(q), P) \in Nat /\ HowMany(st, P) \in Nat
    BY <1>1, HowManyNat
<1>5. HowMany(q, P) = HowMany(Tail(q), P) + (IF Head(q) \in P THEN 1 ELSE 0)
    BY HowManyTail
<1>6. HowMany(Append(st, Head(q)), P) = HowMany(st, P) + (IF Head(q) \in P THEN 1 ELSE 0)
    BY <1>1, HowManyAppend
<1>7. HowMany(Tail(q) \o st, P) = HowMany(Tail(q), P) + HowMany(st, P)
    BY <1>1, HowManyConcat
<1>8. HowMany(<<>>, P) = 0
    BY HowManyShort
<1> QED
    BY <1>1, <1>2, <1>3, <1>4, <1>5, <1>6, <1>7, <1>8 DEF UnstashedAll

\* A message arrives.
LEMMA QueueGrows ==
    ASSUME NEW S, NEW q \in Seq(S), NEW m \in S, NEW P
    PROVE  /\ Append(q, m) \in Seq(S) /\ HowMany(q, P) \in Nat
           /\ HowMany(Append(q, m), P) = HowMany(q, P) + (IF m \in P THEN 1 ELSE 0)
BY AppendProperties, HowManyNat, HowManyAppend

\* A handler that hands back the oldest message put aside: none is lost, and
\* none is there twice.
LEMMA OldestMoves ==
    ASSUME NEW S, NEW q \in Seq(S), NEW st \in Seq(S), NEW P
    PROVE  /\ UnstashedOldest(q, st) \in Seq(S) /\ WithoutOldest(st) \in Seq(S)
           /\ HowMany(UnstashedOldest(q, st), P) \in Nat
           /\ HowMany(WithoutOldest(st), P) \in Nat
           /\ HowMany(UnstashedOldest(q, st), P) + HowMany(WithoutOldest(st), P)
                = HowMany(q, P) + HowMany(st, P)
<1>1. HowMany(q, P) \in Nat /\ HowMany(st, P) \in Nat
    BY HowManyNat
<1>2. CASE st = <<>>
    <2>1. UnstashedOldest(q, st) = q
        BY <1>2 DEF UnstashedOldest
    <2>2. SubSeq(st, 2, Len(st)) = <<>>
        BY <1>2
    <2>3. WithoutOldest(st) = st
        BY <1>2, <2>2 DEF WithoutOldest
    <2> QED
        BY <1>1, <2>1, <2>3
<1>3. CASE st # <<>>
    <2>1. Head(st) \in S /\ Tail(st) \in Seq(S)
        BY <1>3, HeadTailProperties
    <2>2. UnstashedOldest(q, st) = Append(q, Head(st))
        BY <1>3 DEF UnstashedOldest
    <2>3. WithoutOldest(st) = Tail(st)
        BY <1>3 DEF WithoutOldest
    <2>4. Append(q, Head(st)) \in Seq(S)
        BY <2>1, AppendProperties
    <2>5. HowMany(Append(q, Head(st)), P) = HowMany(q, P) + (IF Head(st) \in P THEN 1 ELSE 0)
        BY <2>1, HowManyAppend
    <2>6. HowMany(st, P) = HowMany(Tail(st), P) + (IF Head(st) \in P THEN 1 ELSE 0)
        BY <1>3, HowManyTail
    <2>7. HowMany(Tail(st), P) \in Nat
        BY <2>1, HowManyNat
    <2> QED
        BY <1>1, <2>1, <2>2, <2>3, <2>4, <2>5, <2>6, <2>7
<1> QED
    BY <1>2, <1>3

\* A message of a type is a message of the set of those that have the type.
LEMMA HowManyOfTypes ==
    ASSUME NEW S, NEW q \in Seq(S), NEW types
    PROVE  InQueue(q, types) <=> HowMany(q, {m \in S : m.type \in types}) > 0
<1> DEFINE P == {m \in S : m.type \in types}
<1>1. DOMAIN q = 1 .. Len(q) /\ \A i \in 1 .. Len(q) : q[i] \in S
    BY LenProperties, ElementOfSeq
<1>2. HowMany(q, P) \in Nat /\ (HowMany(q, P) = 0 <=> \A i \in DOMAIN q : q[i] \notin P)
    BY HowManyNat
<1>3. InQueue(q, types) <=> \E i \in DOMAIN q : q[i] \in P
    BY <1>1 DEF InQueue
<1> QED
    BY <1>2, <1>3

\* The behaviour stack after each operation.
LEMMA BecomeOnly ==
    ASSUME NEW S, NEW st, NEW s \in S
    PROVE  /\ Become(st, s) \in Seq(S) /\ Become(st, s) # <<>>
           /\ Len(Become(st, s)) = 1 /\ Become(st, s)[1] = s
BY DEF Become

\* A behaviour stacked on the only one.
LEMMA BecomeOnTop ==
    ASSUME NEW S, NEW st \in Seq(S), NEW s \in S
    PROVE  Len(st) = 1 =>
               /\ BecomeStacked(st, s) \in Seq(S) /\ BecomeStacked(st, s) # <<>>
               /\ Len(BecomeStacked(st, s)) = 2
               /\ BecomeStacked(st, s)[1] = st[1] /\ BecomeStacked(st, s)[2] = s
<1>1. /\ Append(st, s) \in Seq(S)
      /\ Len(Append(st, s)) = Len(st) + 1
      /\ Append(st, s)[Len(st) + 1] = s
      /\ \A i \in 1 .. Len(st) : Append(st, s)[i] = st[i]
    BY AppendProperties
<1>2. ASSUME Len(st) = 1
      PROVE  Append(st, s)[1] = st[1] /\ Len(Append(st, s)) = 2 /\ Append(st, s)[2] = s
    BY <1>1, <1>2
<1>3. Len(st) = 1 => Append(st, s) # <<>>
    BY <1>2, EmptySeq
<1> QED
    BY <1>1, <1>2, <1>3 DEF BecomeStacked

\* Back from a stacked behaviour to the one below.
LEMMA UnbecomeToBase ==
    ASSUME NEW S, NEW st \in Seq(S), Len(st) = 2
    PROVE  /\ UnbecomeStacked(st) \in Seq(S) /\ UnbecomeStacked(st) # <<>>
           /\ Len(UnbecomeStacked(st)) = 1
           /\ UnbecomeStacked(st)[1] = st[1]
<1>1. UnbecomeStacked(st) = SubSeq(st, 1, 1) /\ \A i \in 1 .. 1 : st[i] \in S
    BY ElementOfSeq DEF UnbecomeStacked
<1>2. /\ SubSeq(st, 1, 1) \in Seq(S) /\ Len(SubSeq(st, 1, 1)) = 1
      /\ SubSeq(st, 1, 1)[1] = st[1]
    BY <1>1, SubSeqProperties
<1>3. \A q : Len(q) = 1 => q # <<>>
    OBVIOUS
<1> QED
    BY <1>1, <1>2, <1>3

\* A stack of one or two behaviours, written out.
LEMMA StackOps ==
    ASSUME NEW a, NEW b, NEW st
    PROVE  /\ Become(st, a) = <<a>>
           /\ BecomeStacked(<<a>>, b) = <<a, b>>
           /\ UnbecomeStacked(<<a, b>>) = <<a>>
<1> DEFINE S == {a, b}
<1>1. <<a>> \in Seq(S) /\ <<a, b>> \in Seq(S)
    OBVIOUS
<1>2. Append(<<a>>, b) = <<a, b>>
    <2>1. /\ Append(<<a>>, b) \in Seq(S) /\ Len(Append(<<a>>, b)) = 2
          /\ Append(<<a>>, b)[1] = a /\ Append(<<a>>, b)[2] = b
        BY <1>1, AppendProperties
    <2>2. Len(<<a, b>>) = 2 /\ <<a, b>>[1] = a /\ <<a, b>>[2] = b
        OBVIOUS
    <2>3. \A i \in 1 .. 2 : Append(<<a>>, b)[i] = <<a, b>>[i]
        BY <2>1, <2>2
    <2> QED
        BY <1>1, <2>1, <2>2, <2>3, SeqEqual
<1>3. SubSeq(<<a, b>>, 1, 1) = <<a>>
    <2>1. /\ SubSeq(<<a, b>>, 1, 1) \in Seq(S) /\ Len(SubSeq(<<a, b>>, 1, 1)) = 1
          /\ SubSeq(<<a, b>>, 1, 1)[1] = a
        BY <1>1, SubSeqProperties
    <2>2. Len(<<a>>) = 1 /\ <<a>>[1] = a
        OBVIOUS
    <2>3. \A i \in 1 .. 1 : SubSeq(<<a, b>>, 1, 1)[i] = <<a>>[i]
        BY <2>1, <2>2
    <2> QED
        BY <1>1, <2>1, <2>2, <2>3, SeqEqual
<1>4. Len(<<a, b>>) - 1 = 1
    OBVIOUS
<1> QED
    BY <1>2, <1>3, <1>4 DEF Become, BecomeStacked, UnbecomeStacked
=============================================================================
