-------------------------- MODULE BatterySystemProofs --------------------------
(***************************************************************************)
(* The safety of BatterySystem: what the registers hold when all is quiet, *)
(* and the order in which a forced charge comes about, for every capacity, *)
(* resolution and interval, all parameters, and any number of sets waiting *)
(* and of tasks that have outlived their limit; then the powers that       *)
(* ChargeLoop sets, for every configuration, consumption and production,   *)
(* and that they fit the registers.                                        *)
(***************************************************************************)
EXTENDS BatterySystem, ChargeLoop, SequenceTheorems, TLAPS

Sets == Controls \cup {Release}
Asked == [params : Sets, live : BOOLEAN]
Tasks == [params : Sets, live : BOOLEAN, next : 1 .. Writes + 1]
Zombies == [params : Sets, next : 1 .. Writes]
Registers == [out : Int, in : Int, controlOut : BOOLEAN, controlIn : BOOLEAN,
              revert : {0, RevertSeconds}]

SystemTypeOk ==
    /\ wanted \in Sets \cup {NoSet} /\ upset \in BOOLEAN
    /\ asked \in Seq(Asked) /\ task \subseteq Tasks /\ zombies \subseteq Zombies
    /\ registers \in Registers /\ reverted \in BOOLEAN /\ overtaken \in BOOLEAN

\* As long as no set is overtaken one task at most writes, and the rate is the
\* one that it has written.
OneWriter ==
    ~overtaken =>
        /\ task = {} \/ zombies = {}
        /\ \A y, z \in zombies : y = z
        /\ \A t \in task \cup zombies : t.next > 1 => registers.out = Command(t.params).out

\* What the first writes of a command have left, n being the write to come: the
\* bits may have been cleared by a revert since, which v tells.
Holds(r, v, c, n) ==
    /\ n > 1 => r.out = c.out /\ r.in = c.in
    /\ n > 2 => (Free(r) /\ v) \/ (r.controlOut = c.controlOut /\ r.controlIn = c.controlIn)

\* The parameters that the controller stands for are those of the last set it
\* sent, which still waits, is being written with an answer to come, or was
\* written to the end.
LastCounts ==
    ~overtaken /\ ~upset /\ wanted # NoSet =>
        /\ asked # <<>> => asked[Len(asked)] = [params |-> wanted, live |-> TRUE]
        /\ asked = <<>> =>
              /\ zombies = {}
              /\ \A t \in task : /\ t.params = wanted /\ t.live
                                 /\ Holds(registers, reverted, Command(wanted), t.next)
              /\ task = {} => Holds(registers, reverted, Command(wanted), Writes + 1)

IInv == SystemTypeOk /\ OneWriter /\ LastCounts

-----------------------------------------------------------------------------
(* The registers *)

\* What division leaves.
LEMMA Division ==
    ASSUME NEW a \in Nat, NEW b \in Nat \ {0}
    PROVE  a \div b \in Nat /\ (a \div b) * b <= a /\ a < (a \div b + 1) * b
OBVIOUS

\* A power that is not negative has the rate below it, in steps of the register: by
\* less than one step, or by one that float64 took.
LEMMA RateBelow ==
    ASSUME NEW w \in Nat
    PROVE  /\ Rate(w) \in Nat /\ Rate(0) = 0
           /\ Rate(w) * Capacity <= FullRate * w /\ FullRate * w <= (1 + Rate(w)) * Capacity
<1>1. Capacity \in Nat \ {0} /\ Steps \in Nat \ {0}
    BY CapacityAssumption, StepsAssumption
<1>2. 100 * Steps \in Nat /\ 100 * Steps * w \in Nat /\ 100 * Steps * 0 = 0
    BY <1>1
<1> DEFINE a == 100 * Steps * w
           q == a \div Capacity
<1>n. a \in Nat
    BY <1>2
<1>3. q \in Nat /\ q * Capacity <= a /\ a < (q + 1) * Capacity
    BY <1>1, <1>2, Division
<1>4. Rate(0) = 0
    <2>1. (100 * Steps * 0) \div Capacity = 0
        <3>1. 0 \div Capacity = 0
            BY <1>1
        <3> QED
            BY <1>2, <3>1
    <2>2. 0 \notin Inexact
        BY InexactAssumption
    <2> QED
        BY <2>1, <2>2 DEF Rate
<1>5. /\ FullRate * w = a
      /\ Rate(w) = IF w \in Inexact /\ q * Capacity = a THEN q - 1 ELSE q
    BY DEF Rate, FullRate
<1>6. w \in Inexact => a > 0
    BY <1>1, InexactAssumption
<1> HIDE DEF a, q
<1>7. CASE w \in Inexact /\ q * Capacity = a
    <2>1. Rate(w) = q - 1 /\ q # 0
        BY <1>1, <1>5, <1>6, <1>7
    <2> DEFINE r == q - 1
    <2>2. r \in Nat /\ 1 + r = q /\ r <= q
        BY <1>3, <2>1
    <2>3. Rate(w) = r
        BY <2>1
    <2> HIDE DEF r
    <2>4. r * Capacity <= q * Capacity
        BY <1>1, <1>3, <2>2
    <2>5. r * Capacity <= a /\ a <= (1 + r) * Capacity
        BY <1>7, <2>2, <2>4, <1>n, <1>3
    <2>6. Rate(w) \in Nat /\ Rate(w) * Capacity <= a /\ a <= (1 + Rate(w)) * Capacity
        BY <2>2, <2>3, <2>5
    <2> QED
        BY <1>4, <1>5, <2>6
<1>8. CASE ~(w \in Inexact /\ q * Capacity = a)
    <2>1. Rate(w) = q /\ 1 + q = q + 1
        BY <1>3, <1>5, <1>8
    <2>2. (1 + q) * Capacity \in Int /\ a <= (1 + q) * Capacity
        BY <1>1, <1>n, <1>3, <2>1
    <2>3. Rate(w) \in Nat /\ Rate(w) * Capacity <= a /\ a <= (1 + Rate(w)) * Capacity
        BY <1>3, <2>1, <2>2
    <2> QED
        BY <1>4, <1>5, <2>3
<1> QED
    BY <1>7, <1>8

\* What is written for the parameters of the battery control actor.
LEMMA CommandFacts ==
    ASSUME NEW p \in Sets
    PROVE  /\ Command(p).out \in Int /\ Command(p).in \in Int
           /\ Command(p).controlOut \in BOOLEAN /\ ~Command(p).controlIn
           /\ Command(p).controlIn \in BOOLEAN
           /\ Command(p) \in Registers
           /\ Command(p).out < 0 => p.charge >= 0
           /\ p.discharge = 0 => Command(p).out = 0 /\ Command(p).controlOut
           /\ p.discharge # 0 /\ p.charge >= 0 =>
                 /\ Command(p).controlOut /\ p.charge \in Nat
                 /\ Command(p).out = -Rate(p.charge)
           /\ p.discharge # 0 /\ ~(p.charge >= 0) =>
                 ~Command(p).controlOut /\ Command(p).out = FullRate
<1>1. /\ p.charge \in Nat \cup {-1} /\ p.discharge \in {-1, 0}
    BY ControlsAssumption DEF Sets
<1>2. FullRate \in Nat /\ Rate(0) = 0
    BY StepsAssumption, RateBelow DEF FullRate
<1> DEFINE q == StorageControlParams(p)
<1>3. /\ q.minCharge = p.charge /\ q.maxCharge = -1 /\ q.minDischarge = -1
      /\ q.maxDischarge = p.discharge
    BY DEF StorageControlParams
<1>4. ~(-1 >= 0)
    OBVIOUS
<1>5. /\ Command(p).out = IF q.maxDischarge >= 0 THEN Rate(q.maxDischarge)
                          ELSE IF q.minCharge >= 0 THEN -Rate(q.minCharge) ELSE FullRate
      /\ Command(p).in = IF q.minDischarge >= 0 THEN -Rate(q.minDischarge)
                         ELSE IF q.maxCharge >= 0 THEN Rate(q.maxCharge) ELSE FullRate
      /\ Command(p).controlOut = (q.maxDischarge >= 0 \/ q.minCharge >= 0)
      /\ Command(p).controlIn = (q.minDischarge >= 0 \/ q.maxCharge >= 0)
      /\ Command(p) = [out |-> Command(p).out, in |-> Command(p).in,
                       controlOut |-> Command(p).controlOut, controlIn |-> Command(p).controlIn,
                       revert |-> RevertSeconds]
    BY DEF Command, Encoded
<1> HIDE DEF q
<1>6. /\ Command(p).in = FullRate /\ Command(p).controlIn = FALSE
      /\ Command(p).controlOut \in BOOLEAN
    BY <1>3, <1>4, <1>5
<1> DEFINE c == Command(p)
<1>a. ASSUME c.out \in Int PROVE c \in Registers
    <2>1. /\ c = [out |-> c.out, in |-> c.in, controlOut |-> c.controlOut,
                  controlIn |-> c.controlIn, revert |-> RevertSeconds]
          /\ c.in \in Int /\ c.controlOut \in BOOLEAN /\ c.controlIn \in BOOLEAN
        BY <1>2, <1>5, <1>6
    <2> HIDE DEF c
    <2> QED
        BY <1>a, <2>1 DEF Registers
<1> HIDE DEF c
<1>b. /\ c.in \in Int /\ c.controlOut \in BOOLEAN /\ c.controlIn \in BOOLEAN /\ ~c.controlIn
    <2>1. c.in = FullRate /\ c.controlIn = FALSE /\ c.controlOut \in BOOLEAN
        BY <1>6 DEF c
    <2>2. c.in \in Int
        BY <1>2, <2>1
    <2> QED
        BY <2>1, <2>2
<1>7. CASE p.discharge = 0
    <2>1. q.maxDischarge >= 0 /\ q.maxDischarge = 0
        BY <1>3, <1>7
    <2>2. c.out = 0 /\ c.controlOut
        BY <1>2, <1>5, <2>1 DEF c
    <2> QED
        BY <1>7, <1>a, <1>b, <2>2 DEF c
<1>8. CASE p.discharge # 0 /\ p.charge >= 0
    <2>1. p.discharge = -1 /\ p.charge \in Nat
        BY <1>1, <1>8
    <2>2. c.out = -Rate(p.charge) /\ c.controlOut
        BY <1>3, <1>4, <1>5, <1>8, <2>1 DEF c
    <2>3. Rate(p.charge) \in Nat
        BY <2>1, RateBelow
    <2>4. c.out \in Int
        BY <2>2, <2>3
    <2> QED
        BY <1>8, <1>a, <1>b, <2>1, <2>2, <2>4 DEF c
<1>9. CASE p.discharge # 0 /\ ~(p.charge >= 0)
    <2>1. p.discharge = -1
        BY <1>1, <1>9
    <2>2. c.out = FullRate /\ ~c.controlOut
        BY <1>3, <1>4, <1>5, <1>9, <2>1 DEF c
    <2>3. c.out \in Int /\ ~(c.out < 0)
        BY <1>2, <2>2
    <2> QED
        BY <1>9, <1>a, <1>b, <2>1, <2>2, <2>3 DEF c
<1> QED
    BY <1>7, <1>8, <1>9

\* A command written to the end is obeyed, until the inverter reverts.
LEMMA HeldIsObeyed ==
    ASSUME NEW p \in Sets, Holds(registers, reverted, Command(p), Writes + 1)
    PROVE  Obeys(registers, p) \/ (Free(registers) /\ reverted)
<1> SUFFICES ASSUME ~(Free(registers) /\ reverted) PROVE Obeys(registers, p)
    OBVIOUS
<1>1. /\ registers.out = Command(p).out
      /\ registers.controlOut = Command(p).controlOut
      /\ registers.controlIn = Command(p).controlIn
    BY DEF Holds, Writes
<1>2. ~registers.controlIn
    BY <1>1, CommandFacts
<1>3. CASE p.discharge = 0
    <2>1. registers.out = 0 /\ registers.controlOut
        BY <1>1, <1>3, CommandFacts
    <2> QED
        BY <1>2, <1>3, <2>1 DEF Obeys, DischargeBlocked, ForcedCharge
<1>4. CASE p.discharge # 0 /\ p.charge >= 0
    <2> DEFINE q == Rate(p.charge)
    <2>1. registers.out = -q /\ registers.controlOut /\ p.charge \in Nat
        BY <1>1, <1>4, CommandFacts
    <2>2. /\ q \in Nat /\ q * Capacity <= FullRate * p.charge
          /\ FullRate * p.charge <= (1 + q) * Capacity
        BY <2>1, RateBelow
    <2> HIDE DEF q
    <2>3. -registers.out * Capacity = q * Capacity /\ 1 - registers.out = 1 + q
        BY <2>1, <2>2, CapacityAssumption
    <2>4. ChargesAt(registers, p.charge)
        BY <2>1, <2>2, <2>3 DEF ChargesAt
    <2> QED
        BY <1>2, <1>4, <2>4 DEF Obeys
<1>5. CASE p.discharge # 0 /\ ~(p.charge >= 0)
    BY <1>1, <1>2, <1>5, CommandFacts DEF Obeys
<1> QED
    BY <1>3, <1>4, <1>5

\* A write leaves what the writes before it have left, and its own.
LEMMA WriteHolds ==
    ASSUME NEW r \in Registers, NEW p \in Sets, NEW n \in 1 .. Writes
    PROVE  /\ Written(r, Command(p), n) \in Registers
           /\ \A u, v \in BOOLEAN :
                 Holds(r, v, Command(p), n) /\ (n = Writes /\ v => u) =>
                     Holds(Written(r, Command(p), n), u, Command(p), n + 1)
           /\ n > 1 /\ r.out = Command(p).out => Written(r, Command(p), n).out = Command(p).out
           /\ n = 1 => Written(r, Command(p), n).out = Command(p).out
           /\ ForcedCharge(Written(r, Command(p), n)) /\ ~ForcedCharge(r)
                 => p.charge >= 0 \/ (n = 2 /\ r.out < 0)
<1> DEFINE c == Command(p)
           w == Written(r, c, n)
<1>1. /\ c \in Registers
      /\ c.out < 0 => p.charge >= 0
    BY CommandFacts
<1>2. n \in {1, 2, 3}
    BY DEF Writes
<1> HIDE DEF c, w
<1>f. /\ r.out \in Int /\ r.in \in Int /\ r.controlOut \in BOOLEAN /\ r.controlIn \in BOOLEAN
      /\ r.revert \in {0, RevertSeconds}
      /\ r = [out |-> r.out, in |-> r.in, controlOut |-> r.controlOut,
              controlIn |-> r.controlIn, revert |-> r.revert]
      /\ c.out \in Int /\ c.in \in Int /\ c.controlOut \in BOOLEAN /\ c.controlIn \in BOOLEAN
      /\ c.revert \in {0, RevertSeconds}
    BY <1>1 DEF Registers
<1>3. CASE n = 1
    <2>0. w = [r EXCEPT !.out = c.out, !.in = c.in]
        BY <1>3 DEF Written, w
    <2>1. w = [out |-> c.out, in |-> c.in, controlOut |-> r.controlOut,
                 controlIn |-> r.controlIn, revert |-> r.revert]
        BY <1>f, <2>0
    <2>2. /\ w.out = c.out /\ w.in = c.in /\ w.controlOut = r.controlOut
          /\ w \in Registers
        BY <1>f, <2>1 DEF Registers
    <2> QED
        BY <1>1, <1>3, <2>2 DEF Holds, ForcedCharge, c, w
<1>4. CASE n = 2
    <2>0. w = [r EXCEPT !.controlOut = c.controlOut, !.controlIn = c.controlIn]
        BY <1>4 DEF Written, w
    <2>1. w = [out |-> r.out, in |-> r.in, controlOut |-> c.controlOut,
                 controlIn |-> c.controlIn, revert |-> r.revert]
        BY <1>f, <2>0
    <2>2. /\ w.out = r.out /\ w.in = r.in /\ w.controlOut = c.controlOut
          /\ w.controlIn = c.controlIn /\ w \in Registers
        BY <1>f, <2>1 DEF Registers
    <2> QED
        BY <1>1, <1>4, <2>2 DEF Holds, ForcedCharge, c, w
<1>5. CASE n = 3
    <2>0. w = [r EXCEPT !.revert = c.revert]
        BY <1>5 DEF Written, w
    <2>1. w = [out |-> r.out, in |-> r.in, controlOut |-> r.controlOut,
                 controlIn |-> r.controlIn, revert |-> c.revert]
        BY <1>f, <2>0
    <2>2. /\ w.out = r.out /\ w.in = r.in /\ w.controlOut = r.controlOut
          /\ w.controlIn = r.controlIn /\ w \in Registers
        BY <1>f, <2>1 DEF Registers
    <2> QED
        BY <1>1, <1>5, <2>2 DEF Holds, ForcedCharge, Free, Writes, c, w
<1> QED
    BY <1>2, <1>3, <1>4, <1>5

\* A revert takes nothing but the bits away.
LEMMA RevertHolds ==
    ASSUME NEW r \in Registers
    PROVE  /\ Reverted(r) \in Registers /\ Reverted(r).out = r.out /\ ~ForcedCharge(Reverted(r))
           /\ \A v, c, n : Holds(r, v, c, n) => Holds(Reverted(r), TRUE, c, n)
<1>1. /\ Reverted(r).out = r.out /\ Reverted(r).in = r.in
      /\ Reverted(r).controlOut = FALSE /\ Reverted(r).controlIn = FALSE
      /\ Reverted(r) \in Registers
    BY DEF Reverted, Registers
<1> QED
    BY <1>1 DEF Holds, Free, ForcedCharge

-----------------------------------------------------------------------------
(* The queue of what was asked for *)

\* A queue without one of its members; without the first its last one stays.
LEMMA WithoutFacts ==
    ASSUME NEW S, NEW q \in Seq(S), NEW i \in DOMAIN q
    PROVE  /\ Without(q, i) \in Seq(S)
           /\ i = 1 /\ Without(q, i) # <<>> => Without(q, i)[Len(Without(q, i))] = q[Len(q)]
           /\ i = 1 /\ Without(q, i) = <<>> => q[i] = q[Len(q)]
<1> DEFINE a == SubSeq(q, 1, i - 1)
           b == SubSeq(q, i + 1, Len(q))
<1>1. /\ Len(q) \in Nat /\ i \in 1 .. Len(q) /\ i \in Int /\ i - 1 \in Int /\ i + 1 \in Int
      /\ \A j \in 1 .. Len(q) : q[j] \in S
    BY LenProperties, ElementOfSeq
<1>2. /\ \A j \in 1 .. i - 1 : q[j] \in S
      /\ \A j \in i + 1 .. Len(q) : q[j] \in S
    BY <1>1
<1>3. a \in Seq(S)
    BY <1>1, <1>2, SubSeqProperties
<1>4. /\ b \in Seq(S)
      /\ Len(b) = IF i + 1 <= Len(q) THEN Len(q) - (i + 1) + 1 ELSE 0
      /\ \A j \in 1 .. Len(q) - (i + 1) + 1 : b[j] = q[(i + 1) + j - 1]
    BY <1>1, <1>2, SubSeqProperties
<1>5. a \o b \in Seq(S)
    BY <1>3, <1>4, ConcatProperties
<1>6. Without(q, i) = a \o b
    BY DEF Without
<1>7. ASSUME i = 1 PROVE Without(q, i) = b
    <2>1. a = <<>>
        BY <1>1, <1>7, SubSeqEmpty
    <2> HIDE DEF a, b
    <2>2. <<>> \o b = b
        BY <1>4, ConcatEmptySeq
    <2> QED
        BY <1>6, <2>1, <2>2
<1> HIDE DEF a, b
<1>8. ASSUME i = 1, b # <<>> PROVE b[Len(b)] = q[Len(q)]
    <2>1. Len(b) # 0
        BY <1>4, <1>8, EmptySeq
    <2>2. Len(q) > 1 /\ Len(b) = Len(q) - 1
        BY <1>1, <1>4, <1>8, <2>1
    <2>3. b[Len(q) - 1] = q[(1 + 1) + (Len(q) - 1) - 1]
        BY <1>1, <1>4, <1>8, <2>2
    <2>4. (1 + 1) + (Len(q) - 1) - 1 = Len(q)
        BY <1>1
    <2> QED
        BY <2>2, <2>3, <2>4
<1>9. ASSUME i = 1, b = <<>> PROVE q[i] = q[Len(q)]
    <2>1. Len(b) = 0
        BY <1>9
    <2>2. ~(1 + 1 <= Len(q))
        BY <1>1, <1>4, <1>9, <2>1
    <2> DEFINE l == Len(q)
    <2>4. l \in Nat /\ i \in Int /\ 1 <= i /\ i <= l
        BY <1>1
    <2> HIDE DEF l
    <2>5. ~(2 <= l)
        BY <2>2 DEF l
    <2>6. l = 1
        BY <2>4, <2>5
    <2>3. Len(q) = 1
        BY <2>6 DEF l
    <2> QED
        BY <1>9, <2>3
<1> QED
    BY <1>5, <1>6, <1>7, <1>8, <1>9

-----------------------------------------------------------------------------
(* The invariant *)

\* At the start nothing was asked for.
LEMMA InitInv == SystemInit => IInv
<1> SUFFICES ASSUME SystemInit PROVE IInv
    OBVIOUS
<1>1. /\ wanted = NoSet /\ upset = FALSE /\ asked = <<>> /\ task = {} /\ zombies = {}
      /\ reverted = FALSE /\ overtaken = FALSE
    BY DEF SystemInit, Init
<1>2. FullRate \in Int
    BY StepsAssumption DEF FullRate
<1>3. DefaultRegisters \in Registers
    BY <1>2 DEF DefaultRegisters, Registers
<1>4. \A p \in Controls : Command(p) \in Registers
    BY CommandFacts DEF Sets
<1>5. registers \in Registers
    BY <1>3, <1>4 DEF SystemInit
<1>6. SystemTypeOk
    BY <1>1, <1>5, EmptySeq DEF SystemTypeOk
<1>7. OneWriter /\ LastCounts
    BY <1>1 DEF OneWriter, LastCounts
<1> QED
    BY <1>6, <1>7 DEF IInv

\* A set that is sent is the last one, and is sent for the parameters wanted.
LEMMA SendInv == IInv /\ Send => IInv'
<1> SUFFICES ASSUME IInv, Send PROVE IInv'
    OBVIOUS
<1> DEFINE m == [params |-> wanted', live |-> TRUE]
<1>1. /\ wanted' \in Sets /\ upset' = upset /\ asked' = Append(asked, m)
      /\ overtaken' = (overtaken /\ Busy) /\ UNCHANGED <<task, zombies, registers, reverted>>
    BY DEF Send, Control, Leave, Sets
<1>2. m \in Asked
    BY <1>1 DEF Asked
<1> HIDE DEF m
<1>3. /\ asked' \in Seq(Asked) /\ asked' # <<>> /\ asked'[Len(asked')] = m
    BY <1>1, <1>2, AppendProperties DEF IInv, SystemTypeOk
<1>4. SystemTypeOk'
    BY <1>1, <1>3 DEF IInv, SystemTypeOk
<1>5. OneWriter'
    BY <1>1 DEF IInv, OneWriter, Busy
<1>6. LastCounts'
    BY <1>1, <1>3 DEF LastCounts, m
<1> QED
    BY <1>4, <1>5, <1>6 DEF IInv

\* An error answer to come, or a controller that stands for nothing.
LEMMA OtherInv == IInv /\ OtherSteps => IInv'
<1> SUFFICES ASSUME IInv, OtherSteps PROVE IInv'
    OBVIOUS
<1>1. /\ UNCHANGED <<asked, task, zombies, registers, reverted, overtaken>>
      /\ wanted' \in {wanted, NoSet} /\ upset' \in BOOLEAN
      /\ upset' \/ wanted' = NoSet
    BY DEF OtherSteps, GiveUp, Fail, Ignore
<1>2. SystemTypeOk'
    BY <1>1 DEF IInv, SystemTypeOk
<1>3. OneWriter'
    BY <1>1 DEF IInv, OneWriter
<1>4. LastCounts'
    BY <1>1 DEF LastCounts
<1> QED
    BY <1>2, <1>3, <1>4 DEF IInv

\* A set that is not the first, or begins while a task goes on, is overtaking.
LEMMA BeginInv == ASSUME IInv, NEW i \in DOMAIN asked, BeginSet(i) PROVE IInv'
<1> DEFINE u == [params |-> asked[i].params, live |-> asked[i].live, next |-> 1]
<1>1. /\ task = {} /\ task' = {u} /\ asked' = Without(asked, i)
      /\ overtaken' = (overtaken \/ i > 1 \/ zombies # {})
      /\ UNCHANGED <<wanted, upset, zombies, registers, reverted>>
    BY DEF BeginSet, vars
<1>2. asked \in Seq(Asked) /\ i \in 1 .. Len(asked) /\ asked[i] \in Asked /\ asked # <<>>
    BY ElementOfSeq, LenProperties DEF IInv, SystemTypeOk
<1>3. u \in Tasks
    BY <1>2 DEF Asked, Tasks, Writes
<1>4. SystemTypeOk'
    BY <1>1, <1>2, <1>3, WithoutFacts DEF IInv, SystemTypeOk
<1>5. ASSUME ~overtaken' PROVE i = 1 /\ zombies = {} /\ ~overtaken
    <2>1. ~overtaken /\ ~(i > 1) /\ zombies = {}
        BY <1>1, <1>5
    <2>2. i \in Nat /\ 1 <= i
        BY <1>2, LenProperties
    <2> QED
        BY <2>1, <2>2
<1>6. u.next = 1 /\ u.params = asked[i].params /\ u.live = asked[i].live
    OBVIOUS
<1> HIDE DEF u
<1>7. OneWriter'
    BY <1>1, <1>5, <1>6 DEF OneWriter
<1>8. LastCounts'
    <2> SUFFICES ASSUME ~overtaken', ~upset', wanted' # NoSet
                 PROVE  /\ asked' # <<>> => asked'[Len(asked')] = [params |-> wanted', live |-> TRUE]
                        /\ asked' = <<>> => /\ zombies' = {} /\ u.params = wanted' /\ u.live
                                            /\ Holds(registers', reverted', Command(wanted'), u.next)
        BY <1>1 DEF LastCounts
    <2>1. asked[Len(asked)] = [params |-> wanted, live |-> TRUE]
        BY <1>1, <1>2, <1>5 DEF IInv, LastCounts
    <2>2. asked' # <<>> => asked'[Len(asked')] = asked[Len(asked)]
        BY <1>1, <1>2, <1>5, WithoutFacts
    <2>3. asked' = <<>> => asked[i] = asked[Len(asked)]
        BY <1>1, <1>2, <1>5, WithoutFacts
    <2>4. Holds(registers', reverted', Command(wanted'), u.next)
        BY <1>6 DEF Holds
    <2> QED
        BY <1>1, <1>5, <1>6, <2>1, <2>2, <2>3, <2>4
<1> QED
    BY <1>4, <1>7, <1>8 DEF IInv

\* What a task writes is what its command has there.
LEMMA WriteInv == IInv /\ WriteRegisters => IInv'
<1> SUFFICES ASSUME IInv, WriteRegisters PROVE IInv'
    OBVIOUS
<1>1. PICK t \in task : /\ t.next <= Writes
                        /\ registers' = Written(registers, Command(t.params), t.next)
                        /\ reverted' = (reverted /\ t.next = Writes)
                        /\ task' = {[t EXCEPT !.next = @ + 1]}
    BY DEF WriteRegisters
<1>2. UNCHANGED <<wanted, upset, asked, zombies, overtaken>>
    BY DEF WriteRegisters, vars
<1> DEFINE u == [t EXCEPT !.next = @ + 1]
           n == t.next
           p == t.params
<1>3. t \in Tasks /\ registers \in Registers /\ reverted \in BOOLEAN
    BY DEF IInv, SystemTypeOk
<1>4. p \in Sets /\ n \in 1 .. Writes
    BY <1>1, <1>3 DEF Tasks, Writes
<1>5. u \in Tasks /\ u.next = n + 1 /\ u.params = p /\ u.live = t.live
    BY <1>1, <1>3 DEF Tasks, Writes
<1>6. /\ task' = {u} /\ registers' = Written(registers, Command(p), n)
      /\ reverted' = (reverted /\ n = Writes)
    BY <1>1
<1> HIDE DEF u, n, p
<1>a. reverted' \in BOOLEAN /\ (n = Writes /\ reverted => reverted')
    BY <1>3, <1>6
<1>7. /\ registers' \in Registers
      /\ Holds(registers, reverted, Command(p), n) => Holds(registers', reverted', Command(p), n + 1)
      /\ n > 1 /\ registers.out = Command(p).out => registers'.out = Command(p).out
      /\ n = 1 => registers'.out = Command(p).out
    BY <1>3, <1>4, <1>6, <1>a, WriteHolds
<1>8. SystemTypeOk'
    BY <1>2, <1>5, <1>6, <1>7, <1>a DEF IInv, SystemTypeOk
<1>9. ASSUME ~overtaken PROVE zombies = {} /\ registers'.out = Command(p).out
    <2>1. zombies = {} /\ (n > 1 => registers.out = Command(p).out)
        BY <1>9 DEF IInv, OneWriter, n, p
    <2>2. n = 1 \/ n > 1
        BY <1>4 DEF Writes
    <2> QED
        BY <1>7, <2>1, <2>2
<1>10. OneWriter'
    BY <1>2, <1>5, <1>6, <1>9 DEF OneWriter
<1>11. LastCounts'
    <2> SUFFICES ASSUME ~overtaken, ~upset, wanted # NoSet, asked = <<>>
                 PROVE  zombies = {} /\ p = wanted /\ t.live
                          /\ Holds(registers', reverted', Command(wanted), n + 1)
        BY <1>2, <1>5, <1>6 DEF IInv, LastCounts
    <2>1. zombies = {} /\ p = wanted /\ t.live /\ Holds(registers, reverted, Command(p), n)
        BY DEF IInv, LastCounts, n, p
    <2> QED
        BY <1>7, <2>1
<1> QED
    BY <1>8, <1>10, <1>11 DEF IInv

\* A task that ends leaves the registers of its whole command, or an error answer
\* to the one who waits for it.
LEMMA EndInv == IInv /\ EndSet => IInv'
<1> SUFFICES ASSUME IInv, EndSet PROVE IInv'
    OBVIOUS
<1>1. PICK t \in task : Answer(t.live, t.next > Writes)
    BY DEF EndSet
<1>2. task' = {} /\ UNCHANGED <<asked, zombies, registers, reverted, overtaken>>
    BY DEF EndSet
<1>3. /\ wanted' = wanted /\ upset' \in BOOLEAN /\ (upset => upset')
      /\ t.live /\ ~(t.next > Writes) => upset'
    BY <1>1 DEF Answer, Complete, vars, IInv, SystemTypeOk
<1>4. SystemTypeOk'
    BY <1>2, <1>3 DEF IInv, SystemTypeOk
<1>5. OneWriter'
    BY <1>2 DEF IInv, OneWriter
<1>6. LastCounts'
    <2> SUFFICES ASSUME ~overtaken, ~upset', ~upset, wanted # NoSet, asked = <<>>
                 PROVE  zombies = {} /\ Holds(registers, reverted, Command(wanted), Writes + 1)
        BY <1>2, <1>3 DEF IInv, LastCounts
    <2>1. zombies = {} /\ t.live /\ Holds(registers, reverted, Command(wanted), t.next)
        BY DEF IInv, LastCounts
    <2>2. t.next \in 1 .. Writes + 1 /\ t.next > Writes
        BY <1>3, <2>1 DEF IInv, SystemTypeOk, Tasks
    <2>3. t.next = Writes + 1
        BY <2>2 DEF Writes
    <2> QED
        BY <2>1, <2>3
<1> QED
    BY <1>4, <1>5, <1>6 DEF IInv

\* A task that outlives its limit has had its answer, an error one.
LEMMA TimeOutInv == IInv /\ SetTimesOut => IInv'
<1> SUFFICES ASSUME IInv, SetTimesOut PROVE IInv'
    OBVIOUS
<1> DEFINE Z(t) == [params |-> t.params, next |-> t.next]
<1>1. PICK t \in task : /\ t.next <= Writes /\ zombies' = zombies \cup {Z(t)}
                        /\ Answer(t.live, FALSE)
    BY DEF SetTimesOut
<1>2. task' = {} /\ UNCHANGED <<asked, registers, reverted, overtaken>>
    BY DEF SetTimesOut
<1>3. wanted' = wanted /\ upset' \in BOOLEAN /\ (upset => upset') /\ (t.live => upset')
    BY <1>1 DEF Answer, Complete, vars, IInv, SystemTypeOk
<1>4. Z(t) \in Zombies
    <2>1. t \in Tasks
        BY DEF IInv, SystemTypeOk
    <2> QED
        BY <1>1, <2>1 DEF Tasks, Zombies, Writes
<1>5. Z(t).params = t.params /\ Z(t).next = t.next
    OBVIOUS
<1> HIDE DEF Z
<1>6. SystemTypeOk'
    BY <1>1, <1>2, <1>3, <1>4 DEF IInv, SystemTypeOk
<1>7. OneWriter'
    <2> SUFFICES ASSUME ~overtaken
                 PROVE  /\ \A y, z \in zombies' : y = z
                        /\ \A z \in zombies' : z.next > 1 => registers.out = Command(z.params).out
        BY <1>2 DEF OneWriter
    <2>1. zombies = {} /\ (t.next > 1 => registers.out = Command(t.params).out)
        BY DEF IInv, OneWriter
    <2>2. zombies' = {Z(t)}
        BY <1>1, <2>1
    <2> QED
        BY <1>5, <2>1, <2>2
<1>8. LastCounts'
    <2> SUFFICES ASSUME ~overtaken, ~upset, ~t.live, wanted # NoSet, asked = <<>> PROVE FALSE
        BY <1>2, <1>3 DEF IInv, LastCounts
    <2> QED
        BY DEF IInv, LastCounts
<1> QED
    BY <1>6, <1>7, <1>8 DEF IInv

\* What is left of a task goes on writing what its command has there.
LEMMA ZombieInv == IInv /\ ZombieWrites => IInv'
<1> SUFFICES ASSUME IInv, ZombieWrites PROVE IInv'
    OBVIOUS
<1> DEFINE U(z) == [z EXCEPT !.next = @ + 1]
<1>1. PICK z \in zombies :
          /\ registers' = Written(registers, Command(z.params), z.next)
          /\ reverted' = (reverted /\ z.next = Writes)
          /\ zombies' = (zombies \ {z}) \cup {t \in {U(z)} : t.next <= Writes}
    BY DEF ZombieWrites
<1>2. UNCHANGED <<wanted, upset, asked, task, overtaken>>
    BY DEF ZombieWrites, vars
<1>3. z \in Zombies /\ registers \in Registers
    BY DEF IInv, SystemTypeOk
<1>4. z.params \in Sets /\ z.next \in 1 .. Writes
    BY <1>3 DEF Zombies
<1>5. /\ U(z).next = z.next + 1 /\ U(z).params = z.params
      /\ U(z).next <= Writes => U(z) \in Zombies
    BY <1>3 DEF Zombies, Writes
<1> HIDE DEF U
<1>6. /\ registers' \in Registers
      /\ z.next > 1 /\ registers.out = Command(z.params).out
            => registers'.out = Command(z.params).out
      /\ z.next = 1 => registers'.out = Command(z.params).out
    BY <1>1, <1>3, <1>4, WriteHolds
<1>7. SystemTypeOk'
    BY <1>1, <1>2, <1>5, <1>6 DEF IInv, SystemTypeOk
<1>8. OneWriter'
    <2> SUFFICES ASSUME ~overtaken
                 PROVE  /\ task = {} /\ \A x, y \in zombies' : x = y
                        /\ \A y \in zombies' : registers'.out = Command(y.params).out
        BY <1>2 DEF OneWriter
    <2>1. task = {} /\ (\A y \in zombies : y = z)
        BY DEF IInv, OneWriter
    <2>2. \A y \in zombies' : y = U(z)
        BY <1>1, <2>1
    <2>3. z.next > 1 => registers.out = Command(z.params).out
        BY DEF IInv, OneWriter
    <2>4. z.next = 1 \/ z.next > 1
        BY <1>4 DEF Writes
    <2> QED
        BY <1>5, <1>6, <2>1, <2>2, <2>3, <2>4
<1>9. LastCounts'
    BY <1>2 DEF IInv, LastCounts
<1> QED
    BY <1>7, <1>8, <1>9 DEF IInv

\* A task that fails after its limit writes no more.
LEMMA ZombieFailsInv == IInv /\ ZombieFails => IInv'
<1> SUFFICES ASSUME IInv, ZombieFails PROVE IInv'
    OBVIOUS
<1>1. zombies # {} /\ zombies' \subseteq zombies /\ UNCHANGED <<wanted, upset, asked, task, registers, reverted, overtaken>>
    BY DEF ZombieFails, vars
<1>2. SystemTypeOk'
    BY <1>1 DEF IInv, SystemTypeOk
<1>3. OneWriter'
    BY <1>1 DEF IInv, OneWriter
<1>4. LastCounts'
    BY <1>1 DEF IInv, LastCounts
<1> QED
    BY <1>2, <1>3, <1>4 DEF IInv

\* The limit of a future makes the one who waits read an error.
LEMMA FutureInv == IInv /\ FutureTimesOut => IInv'
<1> SUFFICES ASSUME IInv, FutureTimesOut PROVE IInv'
    OBVIOUS
<1>1. wanted' = wanted /\ upset' = TRUE /\ UNCHANGED <<zombies, registers, reverted, overtaken>>
    BY DEF FutureTimesOut, Complete
<1>2. LastCounts'
    BY <1>1 DEF LastCounts
<1>3. CASE \E i \in DOMAIN asked : asked' = [asked EXCEPT ![i].live = FALSE] /\ task' = task
    <2>1. PICK i \in DOMAIN asked : asked' = [asked EXCEPT ![i] = [@ EXCEPT !.live = FALSE]]
        BY <1>3
    <2>2. asked \in Seq(Asked) /\ i \in 1 .. Len(asked) /\ asked[i] \in Asked
        BY ElementOfSeq, LenProperties DEF IInv, SystemTypeOk
    <2> DEFINE m == [asked[i] EXCEPT !.live = FALSE]
    <2>3. m \in Asked
        BY <2>2 DEF Asked
    <2>4. asked' = [asked EXCEPT ![i] = m]
        BY <2>1
    <2> HIDE DEF m
    <2>5. asked' \in Seq(Asked)
        BY <2>2, <2>3, <2>4, ExceptSeq
    <2>6. SystemTypeOk'
        BY <1>1, <1>3, <2>5 DEF IInv, SystemTypeOk
    <2>7. OneWriter'
        BY <1>1, <1>3 DEF IInv, OneWriter
    <2> QED
        BY <1>2, <2>6, <2>7 DEF IInv
<1>4. CASE \E t \in task : task' = {[t EXCEPT !.live = FALSE]} /\ asked' = asked
    <2>1. PICK t \in task : task' = {[t EXCEPT !.live = FALSE]} /\ asked' = asked
        BY <1>4
    <2> DEFINE u == [t EXCEPT !.live = FALSE]
    <2>2. t \in Tasks
        BY DEF IInv, SystemTypeOk
    <2>3. u \in Tasks /\ u.next = t.next /\ u.params = t.params
        BY <2>2 DEF Tasks
    <2>4. task' = {u} /\ asked' = asked
        BY <2>1
    <2> HIDE DEF u
    <2>5. SystemTypeOk'
        BY <1>1, <2>3, <2>4 DEF IInv, SystemTypeOk
    <2>6. OneWriter'
        BY <1>1, <2>3, <2>4 DEF IInv, OneWriter
    <2> QED
        BY <1>2, <2>5, <2>6 DEF IInv
<1> QED
    BY <1>3, <1>4 DEF FutureTimesOut

\* A revert takes the bits, and nothing that was written last.
LEMMA RevertInv == IInv /\ Revert => IInv'
<1> SUFFICES ASSUME IInv, Revert PROVE IInv'
    OBVIOUS
<1>1. /\ registers' = Reverted(registers) /\ reverted' = TRUE
      /\ UNCHANGED <<wanted, upset, asked, task, zombies, overtaken>>
    BY DEF Revert, vars
<1>2. registers \in Registers
    BY DEF IInv, SystemTypeOk
<1>3. /\ registers' \in Registers /\ registers'.out = registers.out
      /\ \A c, n : Holds(registers, reverted, c, n) => Holds(registers', reverted', c, n)
    BY <1>1, <1>2, RevertHolds
<1>4. SystemTypeOk'
    BY <1>1, <1>3 DEF IInv, SystemTypeOk
<1>5. OneWriter'
    BY <1>1, <1>3 DEF IInv, OneWriter
<1>6. LastCounts'
    BY <1>1, <1>3 DEF IInv, LastCounts
<1> QED
    BY <1>4, <1>5, <1>6 DEF IInv

\* The invariant is kept by every step.
LEMMA NextInv == IInv /\ [SystemNext]_systemVars => IInv'
<1>1. IInv /\ UNCHANGED systemVars => IInv'
    BY DEF systemVars, vars, IInv, SystemTypeOk, OneWriter, LastCounts
<1> QED
    BY <1>1, SendInv, OtherInv, BeginInv, WriteInv, EndInv, TimeOutInv, ZombieInv,
       ZombieFailsInv, FutureInv, RevertInv DEF SystemNext, Serve

-----------------------------------------------------------------------------
(* The theorems *)

\* The invariant holds in every state that can be reached.
THEOREM Invariance == SystemSpec => []IInv
<1> QED
    BY InitInv, NextInv, PTL DEF SystemSpec

\* When all is served and no error is to be read, the registers are those of the
\* parameters the battery control actor stands for, or the inverter has reverted since
\* they were written, unless a set was overtaken.
THEOREM QuietIsFollowed == SystemSpec => []QuietMeansFollowed
<1>1. IInv => QuietMeansFollowed
    <2> SUFFICES ASSUME IInv, ~Busy, ~upset, ~overtaken, wanted # NoSet
                 PROVE  Obeys(registers, wanted) \/ (Free(registers) /\ reverted)
        BY DEF QuietMeansFollowed
    <2>1. wanted \in Sets
        BY DEF IInv, SystemTypeOk
    <2>2. Holds(registers, reverted, Command(wanted), Writes + 1)
        BY DEF IInv, LastCounts, Busy
    <2> QED
        BY <2>1, <2>2, HeldIsObeyed
<1> QED
    BY <1>1, Invariance, PTL

\* A battery begins to be charged from the grid only by the writes of a command to
\* charge, for the rates are written before the bits.
THEOREM ChargesOnlyWhenAsked == SystemSpec => ChargedOnlyWhenAsked
<1> DEFINE Asks == ~overtaken /\ ForcedCharge(registers') /\ ~ForcedCharge(registers) =>
                       \E t \in task \cup zombies : t.params.charge >= 0
<1>1. ASSUME IInv, [SystemNext]_systemVars PROVE Asks
    <2> SUFFICES ASSUME ~overtaken, ForcedCharge(registers'), ~ForcedCharge(registers)
                 PROVE  \E t \in task \cup zombies : t.params.charge >= 0
        OBVIOUS
    <2>1. ASSUME NEW t \in task \cup zombies, t.next \in 1 .. Writes, t.params \in Sets,
                 registers' = Written(registers, Command(t.params), t.next)
          PROVE  t.params.charge >= 0
        <3>1. t.next > 1 => registers.out = Command(t.params).out
            BY <1>1 DEF IInv, OneWriter
        <3>2. t.params.charge >= 0 \/ (t.next = 2 /\ registers.out < 0)
            BY <1>1, <2>1, WriteHolds DEF IInv, SystemTypeOk
        <3>3. Command(t.params).out < 0 => t.params.charge >= 0
            BY <2>1, CommandFacts
        <3> QED
            BY <3>1, <3>2, <3>3
    <2>2. CASE WriteRegisters
        <3>1. PICK t \in task : /\ t.next <= Writes
                                /\ registers' = Written(registers, Command(t.params), t.next)
            BY <2>2 DEF WriteRegisters
        <3>2. t \in Tasks
            BY <1>1 DEF IInv, SystemTypeOk
        <3>3. t.next \in 1 .. Writes /\ t.params \in Sets
            BY <3>1, <3>2 DEF Tasks, Writes
        <3> QED
            BY <2>1, <3>1, <3>3
    <2>3. CASE ZombieWrites
        <3>1. PICK z \in zombies : registers' = Written(registers, Command(z.params), z.next)
            BY <2>3 DEF ZombieWrites
        <3>2. z \in Zombies
            BY <1>1 DEF IInv, SystemTypeOk
        <3>3. z.next \in 1 .. Writes /\ z.params \in Sets
            BY <3>2 DEF Zombies
        <3> QED
            BY <2>1, <3>1, <3>3
    <2>4. CASE Revert
        <3>1. ~ForcedCharge(Reverted(registers))
            BY <1>1, RevertHolds DEF IInv, SystemTypeOk
        <3> QED
            BY <2>4, <3>1 DEF Revert
    <2>5. CASE registers' = registers
        BY <2>5
    <2> QED
        BY <1>1, <2>2, <2>3, <2>4, <2>5
        DEF SystemNext, Serve, Send, OtherSteps, BeginSet, EndSet, SetTimesOut, ZombieFails,
            FutureTimesOut, systemVars
<1>2. IInv /\ [SystemNext]_systemVars => Asks
    BY <1>1
<1> QED
    BY <1>2, Invariance, PTL DEF SystemSpec, ChargedOnlyWhenAsked

\* Numbers that are multiplied by the same one compare as they do.
LEMMA Cancel ==
    ASSUME NEW a \in Int, NEW b \in Int, NEW c \in Nat \ {0}, a * c <= b * c
    PROVE  a <= b
<1> SUFFICES ASSUME b + 1 <= a PROVE FALSE
    OBVIOUS
<1>1. (b + 1) * c <= a * c
    OBVIOUS
<1>2. (b + 1) * c = b * c + c
    OBVIOUS
<1> QED
    BY <1>1, <1>2

\* The revert time does not wrap in its 16 bits, and an inverter does not revert
\* between two ticks of a controller that goes on: whatever the fraction of a second
\* dropped, the revert time is longer than the control interval.
THEOREM RevertOutlivesInterval ==
    RevertSeconds \in 1 .. 2^16 - 1 /\ RevertSeconds * 1000 > ControlIntervalMillis
<1> DEFINE q == ControlIntervalMillis \div 1000
<1>1. ControlIntervalMillis \in 2000 .. 1000 * 2^15 - 1
    BY IntervalAssumption
<1>2. q \in Nat /\ q * 1000 <= ControlIntervalMillis /\ ControlIntervalMillis < (q + 1) * 1000
    BY <1>1, Division, SMT
<1>3. RevertSeconds = (q * 2) % 2^16
    BY DEF RevertSeconds
<1> HIDE DEF q
<1>4. q \in 2 .. 2^15 - 1
    BY <1>1, <1>2, SMT
<1>5. (q * 2) % 2^16 = q * 2
    BY <1>4, SMT
<1> QED
    BY <1>1, <1>2, <1>3, <1>4, <1>5, SMT

\* The rate of a charge that the capacity allows (ChargesFit) does not wrap in
\* the 16 bits of its register.
THEOREM RatesFit ==
    ASSUME NEW p \in Sets, p.charge <= Capacity
    PROVE  Command(p).out \in -2^15 .. 2^15 - 1
<1>1. FullRate \in Nat /\ FullRate < 2^15 /\ Capacity \in Nat \ {0}
    BY StepsAssumption, CapacityAssumption DEF FullRate
<1>2. CASE p.discharge = 0
    <2>1. Command(p).out = 0
        BY <1>2, CommandFacts
    <2> QED
        BY <2>1
<1>3. CASE p.discharge # 0 /\ p.charge >= 0
    <2>1. p.charge \in Nat /\ Command(p).out = -Rate(p.charge)
        BY <1>3, CommandFacts
    <2>2. Rate(p.charge) \in Nat /\ Rate(p.charge) * Capacity <= FullRate * p.charge
        BY <2>1, RateBelow
    <2>3. FullRate * p.charge <= FullRate * Capacity
        BY <1>1, <2>1
    <2>4. Rate(p.charge) * Capacity <= FullRate * Capacity
        BY <1>1, <2>1, <2>2, <2>3
    <2>5. Rate(p.charge) <= FullRate
        BY <1>1, <2>2, <2>4, Cancel
    <2> QED
        BY <1>1, <2>1, <2>2, <2>5
<1>4. CASE p.discharge # 0 /\ ~(p.charge >= 0)
    <2>1. Command(p).out = FullRate
        BY <1>4, CommandFacts
    <2> QED
        BY <1>1, <2>1
<1> QED
    BY <1>2, <1>3, <1>4

-----------------------------------------------------------------------------
(* The charge control logic *)

USE DEF Unit

\* Truncation to whole watts gives an integer, not above the power.
LEMMA HalfOfAnInteger ==
    ASSUME NEW x \in Int
    PROVE  /\ Watts(x) \in Int
           /\ 2 * Watts(x) <= x
           /\ x >= 0 => Watts(x) >= 0
  BY DEF Watts

\* The powers the loop computes with are integers.
LEMMA MeasuredAreIntegers ==
    ASSUME TypeOk
    PROVE  /\ power \in Int /\ house \in Nat /\ pv \in Int
           /\ ACPower \in Int /\ MeterPower \in Int /\ ImportPower \in Int
           /\ RealPVPower \in Int /\ ImportLimit \in Int
           /\ RealPVPower >= pv
           /\ Commanded \in Int /\ BatteryPower \in Int /\ Shortfall \in Nat
           /\ power >= 0 => ImportPower >= house - pv + power * 2 - Shortfall
  <1>1. /\ power \in Int /\ power >= -1 /\ house \in Nat /\ pv \in Int
        /\ acceptance \in Nat
    BY ConfigAssumption, PowersAssumption DEF TypeOk
  <1>2. /\ Commanded \in Int /\ BatteryPower \in Int /\ Shortfall \in Nat
        /\ power >= 0 => Commanded = power * 2
    BY <1>1 DEF Commanded, BatteryPower, Shortfall, Least
  <1>3. BatteryPower = Commanded - Shortfall
    BY <1>2 DEF Shortfall
  <1>4. /\ ACPower \in Int /\ MeterPower \in Int /\ ImportPower \in Int
        /\ ImportPower >= house - pv + BatteryPower
    BY <1>1, <1>2 DEF ACPower, MeterPower, ImportPower, Most
  <1>5. RealPVPower \in Int /\ RealPVPower >= pv /\ ImportLimit \in Int
    BY <1>1, ConfigAssumption DEF RealPVPower, ImportLimit, Most
  <1> QED BY <1>1, <1>2, <1>3, <1>4, <1>5

\* A start leaves the grid within its limit.
LEMMA StartWithinLimit ==
    ASSUME TypeOk
    PROVE  /\ StartPower \in Int
           /\ StartPower > 0 => house + StartPower - RealPVPower <= ImportLimit
  <1>1. StartPower \in Int
    BY MeasuredAreIntegers, ConfigAssumption DEF StartPower, Least, Most
  <1>2. ASSUME StartPower > 0
        PROVE  house + StartPower - RealPVPower <= ImportLimit
    <2>1. ACPower + MeterPower = house
      BY MeasuredAreIntegers DEF MeterPower
    <2>2. StartPower <= ImportLimit + RealPVPower - (ACPower + MeterPower)
      BY <1>2, MeasuredAreIntegers, ConfigAssumption DEF StartPower, Least, Most
    <2> QED BY <1>1, <2>1, <2>2, MeasuredAreIntegers
  <1> QED BY <1>1, <1>2

\* So does an adjustment, but for what the battery left untaken; it also grows
\* by the rate at most.
LEMMA AdjustmentWithinLimits ==
    ASSUME TypeOk, power # -1
    PROVE  /\ RunningPower \in Int
           /\ RunningPower > 0 =>
                house + RunningPower - RealPVPower <= ImportLimit + Shortfall
           /\ RunningPower <= (power + MaxRatePowerIncrease) * 2
  <1>1. power >= 0
    BY ConfigAssumption DEF TypeOk
  <1>2. RunningPower \in Int
    BY MeasuredAreIntegers, ConfigAssumption DEF RunningPower, Least
  <1>3. ASSUME RunningPower > 0
        PROVE  RunningPower <= power * 2 + (ImportLimit - ImportPower)
    BY <1>3, MeasuredAreIntegers, ConfigAssumption DEF RunningPower, Least
  <1>4. RunningPower <= (power + MaxRatePowerIncrease) * 2
    BY <1>1, MeasuredAreIntegers, ConfigAssumption DEF RunningPower, Least
  <1> QED BY <1>1, <1>2, <1>3, <1>4, MeasuredAreIntegers

\* The bounds keep what the start or the adjustment kept.
LEMMA BoundedValue ==
    ASSUME TypeOk,
           NEW chosen, chosen = IF power = -1 THEN StartPower ELSE RunningPower
    PROVE  /\ chosen \in Int
           /\ NewPowerValue \in {-1} \cup 0 .. MaxCapacityWatt
           /\ NewPowerValue = -1 \/ (chosen > 0 /\ 2 * NewPowerValue <= chosen)
  <1>1. chosen \in Int
    BY StartWithinLimit, AdjustmentWithinLimits
  <1> DEFINE new == Least(MaxCapacityWatt * Unit, chosen)
  <1>2. new \in Int /\ new <= chosen /\ new <= MaxCapacityWatt * 2
    <2>1. MaxCapacityWatt * 2 \in Int
      BY ConfigAssumption
    <2>2. \A a, b \in Int : Least(a, b) \in Int /\ Least(a, b) <= a /\ Least(a, b) <= b
      BY DEF Least
    <2> QED BY <1>1, <2>1, <2>2
  <1>3. NewPowerValue = IF new <= 0 THEN -1 ELSE Watts(new)
    BY DEF NewPowerValue
  <1> HIDE DEF new
  <1>4. CASE new <= 0
    BY <1>1, <1>3, <1>4
  <1>5. CASE new > 0
    <2>1. Watts(new) \in Int /\ 2 * Watts(new) <= new /\ Watts(new) >= 0
      BY <1>2, <1>5, HalfOfAnInteger
    <2> QED BY <1>1, <1>2, <1>3, <1>5, <2>1, ConfigAssumption
  <1> QED BY <1>2, <1>4, <1>5

-----------------------------------------------------------------------------

\* A power is off or within the capacity of the battery, always.
THEOREM LoopTypes == LoopSpec => []TypeOk
  <1>1. LoopInit => TypeOk
    <2> SUFFICES ASSUME LoopInit PROVE TypeOk
      OBVIOUS
    <2>1. power \in {-1} \cup 0 .. MaxCapacityWatt /\ changes \in 0 .. MaxChanges
      BY ChangesAssumption DEF LoopInit
    <2>2. /\ house \in Houses /\ pv \in PVs /\ acceptance \in Acceptances
          /\ full \in BOOLEAN /\ exit \in BOOLEAN
          /\ tick \in {"none", "start", "adjust", "exit"}
      BY Zenon DEF LoopInit
    <2> QED BY <2>1, <2>2 DEF TypeOk
  <1>2. TypeOk /\ [LoopNext]_loopVars => TypeOk'
    <2> SUFFICES ASSUME TypeOk, [LoopNext]_loopVars PROVE TypeOk'
      OBVIOUS
    <2>1. CASE Tick
      <3>1. CASE full
        BY <2>1, <3>1 DEF Tick, TypeOk
      <3>2. CASE ~full
        <4>1. /\ power' = NewPowerValue
              /\ UNCHANGED <<house, pv, acceptance, full, exit, changes>>
              /\ tick' \in {"start", "adjust"}
          BY <2>1, <3>2 DEF Tick
        <4>2. NewPowerValue \in {-1} \cup 0 .. MaxCapacityWatt
          BY BoundedValue
        <4> QED BY <4>1, <4>2 DEF TypeOk
      <3> QED BY <3>1, <3>2
    <2>2. CASE Change
      BY <2>2, ChangesAssumption DEF Change, TypeOk
    <2>3. CASE UNCHANGED loopVars
      BY <2>3 DEF loopVars, TypeOk
    <2> QED BY <2>1, <2>2, <2>3 DEF LoopNext
  <1> QED BY <1>1, <1>2, PTL DEF LoopSpec

\* No decision takes the grid over its limit less the margin by more than what
\* the battery left untaken of the last one.
THEOREM GridProtected == LoopSpec => GridLimit
  <1>1. TypeOk /\ [LoopNext]_loopVars =>
          [tick' \in {"start", "adjust"} /\ power' > 0 =>
             house + power' * Unit - Most(0, pv) <= ImportLimit + Shortfall]_loopVars
    <2> SUFFICES ASSUME TypeOk, [LoopNext]_loopVars, loopVars' # loopVars,
                        tick' \in {"start", "adjust"}, power' > 0
                 PROVE  house + power' * Unit - Most(0, pv) <= ImportLimit + Shortfall
      OBVIOUS
    <2>1. Tick /\ ~full
      BY DEF LoopNext, Tick, Change
    <2>2. power' = NewPowerValue
      BY <2>1 DEF Tick
    <2> DEFINE chosen == IF power = -1 THEN StartPower ELSE RunningPower
    <2>3. /\ NewPowerValue \in {-1} \cup 0 .. MaxCapacityWatt
          /\ chosen \in Int
          /\ NewPowerValue = -1 \/ (chosen > 0 /\ 2 * NewPowerValue <= chosen)
      BY BoundedValue
    <2>4. chosen > 0 => house + chosen - RealPVPower <= ImportLimit + Shortfall
      <3>1. StartPower > 0 => house + StartPower - RealPVPower <= ImportLimit + Shortfall
        BY StartWithinLimit, MeasuredAreIntegers
      <3> QED BY <3>1, AdjustmentWithinLimits
    <2> HIDE DEF chosen
    <2>5. house + NewPowerValue * 2 - RealPVPower <= ImportLimit + Shortfall
      BY <2>2, <2>3, <2>4, MeasuredAreIntegers, ConfigAssumption
    <2> QED BY <2>2, <2>5 DEF RealPVPower
  <1> QED BY <1>1, LoopTypes, PTL DEF LoopSpec, GridLimit

\* The power of a running charge never grows faster than the configured rate.
THEOREM RateNeverExceeded == LoopSpec => RateLimited
  <1>1. TypeOk /\ [LoopNext]_loopVars =>
          [tick' = "adjust" => power' <= power + MaxRatePowerIncrease]_loopVars
    <2> SUFFICES ASSUME TypeOk, [LoopNext]_loopVars, tick' = "adjust", loopVars' # loopVars
                 PROVE  power' <= power + MaxRatePowerIncrease
      OBVIOUS
    <2>1. Tick /\ ~full /\ power # -1
      BY DEF LoopNext, Tick, Change
    <2>2. power' = NewPowerValue
      BY <2>1 DEF Tick
    <2>3. power >= 0 /\ power \in Int /\ TypeOk
      BY <2>1, ConfigAssumption DEF TypeOk
    <2>4. /\ RunningPower \in Int
          /\ RunningPower <= (power + MaxRatePowerIncrease) * 2
      BY <2>1, <2>3, AdjustmentWithinLimits
    <2>5. /\ NewPowerValue \in {-1} \cup 0 .. MaxCapacityWatt
          /\ NewPowerValue = -1 \/ 2 * NewPowerValue <= RunningPower
      BY <2>1, <2>3, BoundedValue
    <2> QED BY <2>2, <2>3, <2>4, <2>5, ConfigAssumption
  <1> QED BY <1>1, LoopTypes, PTL DEF LoopSpec, RateLimited

\* battery_charge_control.go:68, "charge power cannot exceed battery max capacity (an
\* error is returned otherwise)": the rate of a charge that the loop asks for is 100 %
\* at most, where the capacity that bounds it (GetStorageState, with the scale factor
\* in register 19) is not above the one it is divided by (getStorageCapacity, with
\* that in register 18).
THEOREM ChargesFit ==
    ASSUME MaxCapacityWatt <= Capacity
    PROVE  LoopSpec => [](power \in Nat => Rate(power) \in 0 .. FullRate)
  <1>1. TypeOk => (power \in Nat => Rate(power) \in 0 .. FullRate)
    <2> SUFFICES ASSUME TypeOk, power \in Nat PROVE Rate(power) \in 0 .. FullRate
      OBVIOUS
    <2>1. /\ FullRate \in Nat /\ Capacity \in Nat \ {0} /\ MaxCapacityWatt \in Nat
      BY StepsAssumption, CapacityAssumption, ConfigAssumption DEF FullRate
    <2>2. power <= Capacity
      BY <2>1 DEF TypeOk
    <2>3. Rate(power) \in Nat /\ Rate(power) * Capacity <= FullRate * power
      BY RateBelow
    <2>4. FullRate * power <= FullRate * Capacity
      BY <2>1, <2>2
    <2>5. Rate(power) * Capacity <= FullRate * Capacity
      BY <2>1, <2>3, <2>4
    <2>6. Rate(power) <= FullRate
      BY <2>1, <2>3, <2>5, Cancel
    <2> QED BY <2>1, <2>3, <2>6
  <1> QED BY <1>1, LoopTypes, PTL


\* A charge is within what the grid gives, and its next adjustment is no pause.
WithinBudget ==
    /\ power > 0 /\ ImportPower <= ImportLimit
    /\ RealPVPower <= power * Unit + Least(MaxRatePowerIncrease * Unit, ImportLimit - ImportPower)

\* What the panels give does not exceed what the battery may be charged with.
PanelsFit == pv \in 0 .. MaxCapacityWatt * Unit

\* A start brings a charge within its budget, and there the loop keeps it: it pauses and
\* lowers it no more until something changes.
StartedIsKept ==
    [][PanelsFit /\ \/ tick' = "start" /\ power' > 0
                    \/ tick' = "adjust" /\ WithinBudget
         => WithinBudget' /\ power' >= power]_loopVars

\* With panels that give more than a capped charge can come to in one adjustment, a
\* house that leaves something to import, and so much to start with, every tick undoes
\* the one before.
TogglesAboveCapacity ==
    [][/\ tick' \in {"start", "adjust"}
       /\ pv > (MaxCapacityWatt + MaxRatePowerIncrease) * Unit
       /\ house < ImportLimit /\ StartPowerThreshold * Unit < pv
       => power' = IF power = -1 THEN MaxCapacityWatt ELSE -1]_loopVars


\* The numbers of a tick that follows a charge: h of the house, v of the panels, a what
\* the battery accepts, p and q the power before and after, i and j the import.
AdjustedFrom(c, r, limit, h, a, v, p, q, n, i, j) ==
    /\ c \in Nat /\ r \in Nat /\ limit \in Int /\ h \in Nat /\ a \in Nat
    /\ v \in 0 .. c * 2 /\ p \in 1 .. c /\ q \in Int /\ n \in Int /\ i \in Int /\ j \in Int
    /\ i = Most(0, h - (v - Least(p * 2, a))) /\ j = Most(0, h - (v - Least(q * 2, a)))
    /\ i <= limit /\ v <= n /\ n = p * 2 + Least(r * 2, limit - i)
    /\ q * 2 <= Least(c * 2, n) /\ Least(c * 2, n) <= q * 2 + 1

\* An adjustment within its budget leaves the next one within it.
LEMMA KeepsItsBudget ==
    ASSUME NEW c, NEW r, NEW limit, NEW h, NEW a, NEW v, NEW p, NEW q, NEW n, NEW i, NEW j,
           AdjustedFrom(c, r, limit, h, a, v, p, q, n, i, j)
    PROVE  q >= p /\ j <= limit /\ v <= q * 2 + Least(r * 2, limit - j)
<1> USE DEF AdjustedFrom
<1>1. limit - i \in Nat /\ n >= p * 2 /\ n <= p * 2 + (limit - i) /\ n <= p * 2 + r * 2
    BY DEF Least, Most
<1>2. q >= p
    BY <1>1 DEF Least
<1>3. h - (v - Least(q * 2, a)) <= h - (v - Least(p * 2, a)) + (q * 2 - p * 2)
    BY <1>2 DEF Least
<1>4. h - (v - Least(p * 2, a)) <= i /\ i >= 0
    BY DEF Most, Least
<1>5. q * 2 <= n
    BY DEF Least
<1>6. j = 0 \/ j <= i + (q * 2 - p * 2)
    BY <1>3, <1>4 DEF Most, Least
<1>7. j <= limit /\ j \in Nat
    BY <1>1, <1>4, <1>5, <1>6 DEF Most, Least
<1>8. CASE v <= q * 2
    BY <1>7, <1>8 DEF Least
<1>9. CASE v > q * 2
    <2>1. n = q * 2 + 1 /\ v = n
        BY <1>9 DEF Least
    <2>2. j <= limit - 1 /\ r * 2 >= 1
        BY <1>1, <1>2, <1>4, <1>6, <2>1
    <2> QED
        BY <1>7, <2>1, <2>2 DEF Least
<1> QED
    BY <1>2, <1>7, <1>8, <1>9

\* The numbers of a start: s is what the panels and the grid give to start with.
LEMMA StartsInItsBudget ==
    ASSUME NEW c \in Nat, NEW r \in Nat \ {0}, NEW limit \in Int, NEW h \in Nat, NEW a \in Nat,
           NEW v \in 0 .. c * 2, NEW q \in Int, NEW s \in Int, NEW j \in Int,
           j = Most(0, h - (v - Least(q * 2, a))),
           limit + v - h > v, s = Least(Most(r * 2, v), limit + v - h),
           q * 2 <= Least(c * 2, s), Least(c * 2, s) <= q * 2 + 1
    PROVE  j <= limit /\ v <= q * 2 + Least(r * 2, limit - j)
<1>1. s >= v /\ s <= limit + v - h /\ limit >= 1
    BY DEF Least, Most
<1>2. q * 2 <= s /\ Least(q * 2, a) <= q * 2
    BY DEF Least
<1>3. j = 0 \/ j <= h - v + q * 2
    BY <1>2 DEF Most, Least
<1>4. j \in Nat /\ j <= limit
    BY <1>1, <1>2, <1>3 DEF Most, Least
<1>5. CASE v <= q * 2
    BY <1>4, <1>5 DEF Least
<1>6. CASE v > q * 2
    <2>1. s = q * 2 + 1 /\ v = s
        BY <1>1, <1>6 DEF Least
    <2>2. j <= limit - 1
        BY <1>1, <1>3, <2>1
    <2> QED
        BY <1>4, <2>1, <2>2 DEF Least
<1> QED
    BY <1>5, <1>6


\* Bounds of integers are integers.
LEMMA BoundsAreIntegers ==
    \A a, b \in Int : Least(a, b) \in Int /\ Most(a, b) \in Int
  BY DEF Least, Most

\* What is left of n half watts in whole ones.
LEMMA HalfWatts ==
    ASSUME NEW n \in Int, NEW q \in Int, q * 2 <= n, n <= q * 2 + 1
    PROVE  /\ n >= 2 => q > 0
           /\ \A c \in Int : n = c * 2 => q = c
  OBVIOUS

\* What a tick that goes on does: the power is the decision, in whole watts.
LEMMA DecidedPower ==
    ASSUME TypeOk, Tick, ~full,
           NEW chosen, chosen = IF power = -1 THEN StartPower ELSE RunningPower
    PROVE  /\ chosen \in Int /\ power' \in Int
           /\ house' = house /\ pv' = pv /\ acceptance' = acceptance
           /\ Least(MaxCapacityWatt * 2, chosen) \in Int
           /\ Least(MaxCapacityWatt * 2, chosen) <= 0 => power' = -1
           /\ Least(MaxCapacityWatt * 2, chosen) > 0 =>
                /\ power' * 2 <= Least(MaxCapacityWatt * 2, chosen)
                /\ Least(MaxCapacityWatt * 2, chosen) <= power' * 2 + 1
  <1>1. chosen \in Int
    BY BoundedValue
  <1> DEFINE new == Least(MaxCapacityWatt * 2, chosen)
  <1>2. new \in Int
    <2>1. MaxCapacityWatt * 2 \in Int
      BY ConfigAssumption
    <2> QED BY <1>1, <2>1, BoundsAreIntegers, Zenon
  <1>3. power' = IF new <= 0 THEN -1 ELSE Watts(new)
    BY DEF Tick, NewPowerValue
  <1>4. Watts(new) \in Int /\ Watts(new) * 2 <= new /\ new <= Watts(new) * 2 + 1
    <2> HIDE DEF new
    <2> QED BY <1>2 DEF Watts
  <1>5. house' = house /\ pv' = pv /\ acceptance' = acceptance
    BY DEF Tick
  <1> HIDE DEF new
  <1>6. power' \in Int /\ (new <= 0 => power' = -1)
        /\ (new > 0 => power' * 2 <= new /\ new <= power' * 2 + 1)
    BY <1>2, <1>3, <1>4
  <1> QED BY <1>1, <1>2, <1>5, <1>6 DEF new

\* The import that a charge leads to.
LEMMA ImportOfCharge ==
    ASSUME TypeOk, power > 0
    PROVE  /\ ImportPower = Most(0, house - (pv - Least(power * 2, acceptance)))
           /\ power \in 1 .. MaxCapacityWatt
           /\ house \in Nat /\ acceptance \in Nat /\ pv \in Int
  <1>1. ImportPower = Most(0, house - (pv - Least(power * 2, acceptance)))
    BY DEF ImportPower, MeterPower, ACPower, BatteryPower, Commanded
  <1> QED BY <1>1, ConfigAssumption, PowersAssumption DEF TypeOk

\* The same of a start and of an adjustment.
LEMMA TickKeepsBudget ==
    ASSUME TypeOk, TypeOk', Tick, ~full, PanelsFit, MaxRatePowerIncrease > 0,
           \/ power = -1 /\ power' > 0
           \/ power # -1 /\ WithinBudget
    PROVE  WithinBudget' /\ power' >= power
  <1>1. /\ MaxRatePowerIncrease \in Nat \ {0} /\ MaxCapacityWatt \in Nat
        /\ ImportLimit \in Int /\ ImportLimit' = ImportLimit
        /\ StartPowerThreshold \in Nat
    BY ConfigAssumption DEF ImportLimit
  <1>2. pv \in 0 .. MaxCapacityWatt * 2 /\ RealPVPower = pv
    BY <1>1 DEF PanelsFit, RealPVPower, Most
  <1> DEFINE chosen == IF power = -1 THEN StartPower ELSE RunningPower
             n == Least(MaxCapacityWatt * 2, chosen)
  <1>3. /\ chosen \in Int /\ power' \in Int /\ n \in Int
        /\ house' = house /\ pv' = pv /\ acceptance' = acceptance
        /\ n <= 0 => power' = -1
        /\ n > 0 => power' * 2 <= n /\ n <= power' * 2 + 1
    BY DecidedPower
  <1>4. RealPVPower' = pv
    BY <1>1, <1>2, <1>3 DEF PanelsFit, RealPVPower, Most
  <1>5. house \in Nat /\ acceptance \in Nat
    BY PowersAssumption DEF TypeOk
  <1>6. ASSUME power' > 0
        PROVE  /\ ImportPower' = Most(0, house - (pv - Least(power' * 2, acceptance)))
               /\ ImportPower' \in Int
    <2>1. ImportPower' = Most(0, house' - (pv' - Least(power' * 2, acceptance')))
      BY <1>6 DEF ImportPower, MeterPower, ACPower, BatteryPower, Commanded
    <2>2. ImportPower' = Most(0, house - (pv - Least(power' * 2, acceptance)))
      BY <1>3, <2>1
    <2>3. Least(power' * 2, acceptance) \in Int
      BY <1>3, <1>5, BoundsAreIntegers
    <2>4. house - (pv - Least(power' * 2, acceptance)) \in Int
      BY <1>2, <1>5, <2>3
    <2> QED BY <2>2, <2>4, BoundsAreIntegers
  <1>7. CASE power = -1 /\ power' > 0
    <2> DEFINE s == Least(Most(MaxRatePowerIncrease * 2, pv), ImportLimit + pv - house)
    <2>1. ACPower + MeterPower = house
      BY MeasuredAreIntegers DEF MeterPower
    <2>2. s \in Int
      BY <1>1, <1>2, <1>5 DEF Least, Most
    <2>3. n > 0
      BY <1>3, <1>7
    <2>4. chosen > 0
      BY <1>1, <1>3, <2>3 DEF Least
    <2>5. chosen = StartPower
      BY <1>7
    <2>6. ImportLimit + pv - house > pv /\ chosen = s
      <3>1. StartPower = IF /\ ImportLimit + pv - house > pv
                            /\ ImportLimit + pv - house > StartPowerThreshold * 2
                         THEN s ELSE -1 * 2
        BY <1>2, <2>1 DEF StartPower
      <3> HIDE DEF s, chosen
      <3> QED BY <2>4, <2>5, <3>1
    <2> HIDE DEF chosen
    <2>7. /\ power' * 2 <= Least(MaxCapacityWatt * 2, s)
          /\ Least(MaxCapacityWatt * 2, s) <= power' * 2 + 1
      BY <1>3, <2>3, <2>6
    <2>8. /\ ImportPower' <= ImportLimit
          /\ pv <= power' * 2 + Least(MaxRatePowerIncrease * 2, ImportLimit - ImportPower')
      <3> HIDE DEF n
      <3> QED
        BY <1>1, <1>2, <1>3, <1>5, <1>6, <1>7, <2>2, <2>6, <2>7, StartsInItsBudget
    <2> QED BY <1>1, <1>3, <1>4, <1>7, <2>8 DEF WithinBudget
  <1>8. CASE power # -1 /\ WithinBudget
    <2> DEFINE m == power * 2 + Least(MaxRatePowerIncrease * 2, ImportLimit - ImportPower)
    <2>1. /\ power \in 1 .. MaxCapacityWatt /\ ImportPower <= ImportLimit /\ pv <= m
          /\ ImportPower = Most(0, house - (pv - Least(power * 2, acceptance)))
      BY <1>2, <1>8, ImportOfCharge DEF WithinBudget
    <2>2. ImportPower \in Int /\ m \in Int /\ m >= power * 2
      <3>1. ImportPower \in Int
        BY MeasuredAreIntegers
      <3> QED BY <1>1, <2>1, <3>1 DEF Least
    <2>3. RunningPower = m
      <3>1. RunningPower = IF m < RealPVPower THEN -1 * 2 ELSE m
        BY DEF RunningPower
      <3> HIDE DEF m
      <3> QED BY <1>2, <2>1, <2>2, <3>1
    <2>4. chosen = m
      BY <1>8, <2>3
    <2> HIDE DEF m, chosen
    <2>5. n > 0 /\ n = Least(MaxCapacityWatt * 2, m)
      BY <1>1, <2>1, <2>2, <2>4 DEF Least
    <2> HIDE DEF n
    <2>6. power' > 0
      <3>1. n >= 2
        BY <1>1, <2>1, <2>2, <2>5 DEF Least
      <3>2. power' * 2 <= n /\ n <= power' * 2 + 1 /\ n \in Int /\ power' \in Int
        BY <1>3, <2>5
      <3> QED BY <3>1, <3>2, HalfWatts
    <2>7. /\ power' * 2 <= Least(MaxCapacityWatt * 2, m)
          /\ Least(MaxCapacityWatt * 2, m) <= power' * 2 + 1
      BY <1>3, <2>5
    <2>8. /\ power' >= power /\ ImportPower' <= ImportLimit
          /\ pv <= power' * 2 + Least(MaxRatePowerIncrease * 2, ImportLimit - ImportPower')
      <3>1. m = power * 2 + Least(MaxRatePowerIncrease * 2, ImportLimit - ImportPower)
        BY DEF m
      <3>2. /\ MaxRatePowerIncrease \in Nat /\ power' \in Int /\ ImportPower' \in Int
            /\ ImportPower' = Most(0, house - (pv - Least(power' * 2, acceptance)))
        BY <1>1, <1>3, <1>6, <2>6
      <3>3. /\ MaxCapacityWatt \in Nat /\ ImportLimit \in Int
            /\ pv \in 0 .. MaxCapacityWatt * 2 /\ house \in Nat /\ acceptance \in Nat
        BY <1>1, <1>2, <1>5
      <3> DEFINE q == power'  i == ImportPower  j == ImportPower'
      <3>4. /\ q \in Int /\ i \in Int /\ j \in Int /\ m \in Int
            /\ i = Most(0, house - (pv - Least(power * 2, acceptance)))
            /\ j = Most(0, house - (pv - Least(q * 2, acceptance)))
            /\ i <= ImportLimit /\ pv <= m /\ power \in 1 .. MaxCapacityWatt
            /\ m = power * 2 + Least(MaxRatePowerIncrease * 2, ImportLimit - i)
            /\ q * 2 <= Least(MaxCapacityWatt * 2, m)
            /\ Least(MaxCapacityWatt * 2, m) <= q * 2 + 1
        BY <2>1, <2>2, <2>7, <3>1, <3>2
      <3> HIDE DEF q, i, j
      <3>5. /\ q >= power /\ j <= ImportLimit
            /\ pv <= q * 2 + Least(MaxRatePowerIncrease * 2, ImportLimit - j)
        <4>1. AdjustedFrom(MaxCapacityWatt, MaxRatePowerIncrease, ImportLimit, house,
                           acceptance, pv, power, q, m, i, j)
          BY <3>2, <3>3, <3>4 DEF AdjustedFrom
        <4> QED BY <4>1, KeepsItsBudget
      <3> QED BY <3>5 DEF q, i, j
    <2> QED BY <1>1, <1>3, <1>4, <2>6, <2>8 DEF WithinBudget
  <1> QED BY <1>7, <1>8

\* The safety of Settles: where the panels do not exceed the capacity, a charge that was
\* started grows, by the rate at most and up to the capacity, until something changes;
\* so start and pause do not alternate.
THEOREM ChargesSettle ==
    ASSUME MaxRatePowerIncrease > 0
    PROVE  LoopSpec => StartedIsKept
  <1>1. TypeOk /\ TypeOk' /\ [LoopNext]_loopVars =>
          [PanelsFit /\ \/ tick' = "start" /\ power' > 0
                        \/ tick' = "adjust" /\ WithinBudget
             => WithinBudget' /\ power' >= power]_loopVars
    <2> SUFFICES ASSUME TypeOk, TypeOk', [LoopNext]_loopVars, loopVars' # loopVars, PanelsFit,
                        \/ tick' = "start" /\ power' > 0
                        \/ tick' = "adjust" /\ WithinBudget
                 PROVE  WithinBudget' /\ power' >= power
      OBVIOUS
    <2>1. Tick /\ ~full
      BY DEF LoopNext, Tick, Change
    <2>2. tick' = IF power = -1 THEN "start" ELSE "adjust"
      BY <2>1 DEF Tick
    <2>3. \/ power = -1 /\ power' > 0
          \/ power # -1 /\ WithinBudget
      BY <2>2
    <2> QED BY <2>1, <2>3, TickKeepsBudget
  <1> QED BY <1>1, LoopTypes, PTL DEF LoopSpec, StartedIsKept

\* battery_charge_control_test.go:70, "charge power must be >= pvPower, otherwise the
\* inverter will keep working on DC-AC mode": Loop compares the power with that of the
\* panels before it caps it (battery_charge_control.go:62-69).  Where the panels give
\* more than the cap and one increase, it starts and pauses at every other tick, for as
\* long as they do.
THEOREM PanelsAboveCapacity ==
    ASSUME MaxCapacityWatt > 0
    PROVE  LoopSpec => TogglesAboveCapacity
  <1>1. TypeOk /\ [LoopNext]_loopVars =>
          [/\ tick' \in {"start", "adjust"}
           /\ pv > (MaxCapacityWatt + MaxRatePowerIncrease) * Unit
           /\ house < ImportLimit /\ StartPowerThreshold * Unit < pv
           => power' = IF power = -1 THEN MaxCapacityWatt ELSE -1]_loopVars
    <2> SUFFICES ASSUME TypeOk, [LoopNext]_loopVars, loopVars' # loopVars,
                        tick' \in {"start", "adjust"},
                        pv > (MaxCapacityWatt + MaxRatePowerIncrease) * 2,
                        house < ImportLimit, StartPowerThreshold * 2 < pv
                 PROVE  power' = IF power = -1 THEN MaxCapacityWatt ELSE -1
      OBVIOUS
    <2>1. Tick /\ ~full
      BY DEF LoopNext, Tick, Change
    <2>2. /\ MaxRatePowerIncrease \in Nat /\ MaxCapacityWatt \in Nat \ {0}
          /\ ImportLimit \in Int /\ StartPowerThreshold \in Nat /\ pv \in Int /\ house \in Nat
      BY ConfigAssumption, MeasuredAreIntegers
    <2>3. RealPVPower = pv
      BY <2>2 DEF RealPVPower, Most
    <2> DEFINE chosen == IF power = -1 THEN StartPower ELSE RunningPower
               n == Least(MaxCapacityWatt * 2, chosen)
    <2>4. /\ chosen \in Int /\ power' \in Int /\ n \in Int
          /\ n <= 0 => power' = -1
          /\ n > 0 => power' * 2 <= n /\ n <= power' * 2 + 1
      BY <2>1, DecidedPower
    <2>5. CASE power = -1
      <3>1. ACPower + MeterPower = house
        BY MeasuredAreIntegers DEF MeterPower
      <3>2. chosen = Least(Most(MaxRatePowerIncrease * 2, pv), ImportLimit + pv - house)
        BY <2>2, <2>3, <2>5, <3>1 DEF StartPower
      <3>3. n = MaxCapacityWatt * 2
        <4>1. chosen > MaxCapacityWatt * 2
          BY <2>2, <2>4, <3>2 DEF Least, Most
        <4> HIDE DEF chosen
        <4> QED BY <2>2, <2>4, <4>1 DEF Least
      <3>4. n > 0
        BY <2>2, <3>3
      <3> HIDE DEF n, chosen
      <3>5. power' * 2 <= n /\ n <= power' * 2 + 1 /\ n \in Int /\ power' \in Int
        BY <2>4, <3>4
      <3>6. power' = MaxCapacityWatt
        <4>1. \A c \in Int : n = c * 2 => power' = c
          BY <3>5, HalfWatts, Zenon
        <4>2. MaxCapacityWatt \in Int
          BY <2>2
        <4> QED BY <3>3, <4>1, <4>2, Zenon
      <3> QED BY <2>5, <3>6
    <2>6. CASE power # -1
      <3>1. power \in 0 .. MaxCapacityWatt
        BY <2>6 DEF TypeOk
      <3>2. chosen = -1 * 2
        <4>1. ImportPower \in Int
          BY MeasuredAreIntegers
        <4>2. power * 2 + Least(MaxRatePowerIncrease * 2, ImportLimit - ImportPower) < RealPVPower
          BY <2>2, <2>3, <3>1, <4>1 DEF Least
        <4> QED BY <2>6, <4>2 DEF RunningPower
      <3>3. n <= 0
        <4> HIDE DEF chosen
        <4> QED BY <2>2, <3>2 DEF Least
      <3> QED BY <2>4, <2>6, <3>3
    <2> QED BY <2>5, <2>6
  <1> QED BY <1>1, LoopTypes, PTL DEF LoopSpec, TogglesAboveCapacity
=============================================================================
