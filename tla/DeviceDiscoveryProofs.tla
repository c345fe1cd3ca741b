------------------------ MODULE DeviceDiscoveryProofs ------------------------
(***************************************************************************)
(* What is announced to Home Assistant, proved for every inverter and      *)
(* every meter: the survey finds the blocks of the devices, the entities   *)
(* announced are those of what it found, and each is given its values and  *)
(* understood when it is commanded.                                        *)
(***************************************************************************)
EXTENDS DeviceDiscovery, ActorUtilLemmas, WellFoundedInduction

-----------------------------------------------------------------------------
(* Induction and recursion over the naturals, for sets and functions: the   *)
(* library states them for operators.                                       *)

\* A set of naturals with zero and every successor is all of them.
LEMMA AllNaturals ==
    ASSUME NEW T \in SUBSET Nat, 0 \in T, \A n \in T : n + 1 \in T
    PROVE  T = Nat
<1> DEFINE U == Nat \ T
<1> SUFFICES ASSUME U # {} PROVE FALSE
    OBVIOUS
<1>1. PICK x \in U : \A y \in U : ~(<<y, x>> \in OpToRel(<, Nat))
    BY NatLessThanWellFounded, WFMin, Zenon
<1>2. \A y \in U : ~(y < x)
    BY <1>1 DEF OpToRel
<1>3. x - 1 \in Nat /\ x - 1 \notin U
    BY <1>2
<1> QED
    BY <1>3

Iterates(f, S, a, b, g, l) ==
    /\ f \in [b .. b + l -> S] /\ f[b] = a
    /\ \A n \in b + 1 .. b + l : f[n] = g[n][f[n - 1]]

\* A function that starts with a and goes on by the steps of g exists.
LEMMA RecursionDefines ==
    ASSUME NEW S, NEW a \in S, NEW b \in Nat, NEW g \in [Nat -> [S -> S]], NEW l \in Nat
    PROVE  \E f : Iterates(f, S, a, b, g, l)
<1> DEFINE Defines(f, k) == Iterates(f, S, a, b, g, k)
           T == {k \in Nat : \E f : Defines(f, k)}
<1>1. 0 \in T
    <2>1. Defines([n \in b .. b + 0 |-> a], 0)
        BY DEF Iterates
    <2> QED
        BY <2>1
<1>2. ASSUME NEW k \in T PROVE k + 1 \in T
    <2>1. PICK f : Defines(f, k)
        OBVIOUS
    <2> DEFINE h == [n \in b .. b + (k + 1) |->
                        IF n = b + k + 1 THEN g[n][f[n - 1]] ELSE f[n]]
    <2>2. b + k \in b .. b + k /\ f[b + k] \in S /\ g[b + k + 1] \in [S -> S]
        BY <2>1 DEF Iterates
    <2>3. h \in [b .. b + (k + 1) -> S] /\ h[b] = a
        <3>1. ASSUME NEW n \in b .. b + (k + 1) PROVE h[n] \in S
            <4>1. CASE n = b + k + 1
                BY <4>1, <2>2
            <4>2. CASE n # b + k + 1
                BY <4>2, <2>1 DEF Iterates
            <4> QED
                BY <4>1, <4>2
        <3> QED
            BY <3>1, <2>1 DEF Iterates
    <2>4. ASSUME NEW n \in b + 1 .. b + (k + 1) PROVE h[n] = g[n][h[n - 1]]
        BY <2>1 DEF Iterates
    <2>5. Defines(h, k + 1)
        BY <2>3, <2>4 DEF Iterates
    <2> HIDE DEF h, Defines
    <2> QED
        BY <2>5
<1>3. T = Nat
    <2> HIDE DEF Defines
    <2>1. T \in SUBSET Nat
        OBVIOUS
    <2> HIDE DEF T
    <2> QED
        BY <1>1, <1>2, <2>1, AllNaturals
<1>4. PICK f : Defines(f, l)
    BY <1>3
<1> QED
    BY <1>4

-----------------------------------------------------------------------------
(* Where the blocks of a device are *)

\* The first block has a place of its own, and each of the others follows the
\* one before it.
LEMMA StartsFollow ==
    ASSUME NEW blocks, NEW n \in Nat \ {0}, DOMAIN blocks = 1 .. n,
           \A i \in 1 .. n : blocks[i].length \in Nat
    PROVE  /\ Starts(blocks) \in [1 .. n -> Nat]
           /\ Starts(blocks)[1] = FirstBlock
           /\ \A i \in 1 .. n - 1 :
                 Starts(blocks)[i + 1] = Starts(blocks)[i] + 2 + blocks[i].length
<1> DEFINE g == [i \in Nat |-> [x \in Nat |->
                    IF i \in 2 .. n THEN x + 2 + blocks[i - 1].length ELSE x]]
<1>1. g \in [Nat -> [Nat -> Nat]]
    <2>1. ASSUME NEW i \in Nat, NEW x \in Nat
          PROVE  (IF i \in 2 .. n THEN x + 2 + blocks[i - 1].length ELSE x) \in Nat
        <3>1. CASE i \in 2 .. n
            <4>1. i - 1 \in 1 .. n
                BY <3>1
            <4> QED
                BY <4>1
        <3>2. CASE i \notin 2 .. n
            BY <3>2
        <3> QED
            BY <3>1, <3>2
    <2> QED
        BY <2>1
<1>2. FirstBlock \in Nat /\ 1 \in Nat /\ n - 1 \in Nat /\ 1 + (n - 1) = n
    BY DEF FirstBlock
<1>3. PICK f : /\ f \in [1 .. n -> Nat] /\ f[1] = FirstBlock
               /\ \A i \in 2 .. n : f[i] = g[i][f[i - 1]]
    <2> HIDE DEF g
    <2>1. PICK f : Iterates(f, Nat, FirstBlock, 1, g, n - 1)
        BY <1>1, <1>2, RecursionDefines, Zenon
    <2> QED
        BY <1>2, <2>1 DEF Iterates
<1>4. ASSUME NEW i \in 1 .. n
      PROVE  f[i] = IF i = 1 THEN FirstBlock ELSE f[i - 1] + 2 + blocks[i - 1].length
    <2>1. CASE i = 1
        BY <1>3, <2>1
    <2>2. CASE i # 1
        <3>1. i \in 2 .. n /\ i - 1 \in 1 .. n /\ i \in Nat
            BY <2>2
        <3>2. f[i] = g[i][f[i - 1]] /\ f[i - 1] \in Nat
            BY <1>3, <3>1
        <3> QED
            BY <2>2, <3>1, <3>2
    <2> QED
        BY <2>1, <2>2
<1>5. f = [i \in DOMAIN blocks |->
              IF i = 1 THEN FirstBlock ELSE f[i - 1] + 2 + blocks[i - 1].length]
    BY <1>3, <1>4
<1> HIDE DEF g
<1>6. Starts(blocks) = [i \in DOMAIN blocks |->
              IF i = 1 THEN FirstBlock
              ELSE Starts(blocks)[i - 1] + 2 + blocks[i - 1].length]
    BY <1>5 DEF Starts
<1> DEFINE s == Starts(blocks)
<1>7. \A i \in 1 .. n : s[i] = IF i = 1 THEN FirstBlock
                               ELSE s[i - 1] + 2 + blocks[i - 1].length
    BY <1>6
<1>8. s = [i \in 1 .. n |-> s[i]]
    BY <1>6
<1> HIDE DEF s
<1> DEFINE T == {k \in Nat : k + 1 \in 1 .. n => s[k + 1] \in Nat}
<1>9. T = Nat
    <2>1. 0 \in T
        BY <1>2, <1>7
    <2>2. ASSUME NEW k \in T PROVE k + 1 \in T
        <3>1. SUFFICES ASSUME k + 2 \in 1 .. n PROVE s[k + 2] \in Nat
            OBVIOUS
        <3>2. k + 1 \in 1 .. n /\ s[k + 1] \in Nat /\ blocks[k + 1].length \in Nat
            BY <3>1
        <3>3. s[k + 2] = s[k + 1] + 2 + blocks[k + 1].length
            BY <1>7, <3>1
        <3> QED
            BY <3>2, <3>3
    <2>3. T \in SUBSET Nat
        OBVIOUS
    <2> HIDE DEF T
    <2> QED
        BY <2>1, <2>2, <2>3, AllNaturals
<1>10. ASSUME NEW i \in 1 .. n PROVE s[i] \in Nat
    <2>1. i - 1 \in Nat /\ (i - 1) + 1 = i
        OBVIOUS
    <2>2. i - 1 \in T
        <3> HIDE DEF T
        <3> QED
            BY <1>9, <2>1
    <2> QED
        BY <2>1, <2>2
<1>11. s \in [1 .. n -> Nat]
    BY <1>8, <1>10
<1>12. s[1] = FirstBlock
    BY <1>2, <1>7
<1>13. ASSUME NEW i \in 1 .. n - 1 PROVE s[i + 1] = s[i] + 2 + blocks[i].length
    <2>1. i + 1 \in 1 .. n /\ i + 1 # 1 /\ (i + 1) - 1 = i
        OBVIOUS
    <2> QED
        BY <1>7, <2>1
<1> QED
    BY <1>11, <1>12, <1>13 DEF s

\* The blocks do not overlap, and follow each other in the addresses.
LEMMA StartsApart ==
    ASSUME NEW blocks, NEW n \in Nat \ {0}, DOMAIN blocks = 1 .. n,
           \A i \in 1 .. n : blocks[i].length \in Nat,
           NEW i \in 1 .. n, NEW j \in 1 .. n, i < j
    PROVE  Starts(blocks)[i] + blocks[i].length + 2 <= Starts(blocks)[j]
<1> DEFINE s == Starts(blocks)
<1>1. /\ s \in [1 .. n -> Nat]
      /\ \A k \in 1 .. n - 1 : s[k + 1] = s[k] + 2 + blocks[k].length
    BY StartsFollow
<1> HIDE DEF s
<1> DEFINE T == {k \in Nat : i + 1 + k \in 1 .. n => s[i] + blocks[i].length + 2 <= s[i + 1 + k]}
<1>2. 0 \in T
    <2>1. i \in 1 .. n - 1 /\ i + 1 \in 1 .. n /\ s[i + 1] \in Int /\ s[i] \in Int
          /\ blocks[i].length \in Nat
        BY <1>1
    <2>2. s[i + 1] = s[i] + 2 + blocks[i].length
        BY <1>1, <2>1
    <2> QED
        BY <2>1, <2>2
<1>3. ASSUME NEW k \in T PROVE k + 1 \in T
    <2>1. SUFFICES ASSUME i + 1 + (k + 1) \in 1 .. n
                   PROVE  s[i] + blocks[i].length + 2 <= s[i + 1 + (k + 1)]
        OBVIOUS
    <2>2. /\ i + 1 + k \in 1 .. n - 1 /\ i + 1 + k \in 1 .. n
          /\ s[i] + blocks[i].length + 2 <= s[i + 1 + k]
        BY <2>1
    <2>3. s[i + 1 + (k + 1)] = s[i + 1 + k] + 2 + blocks[i + 1 + k].length
        <3>1. i + 1 + (k + 1) = (i + 1 + k) + 1
            OBVIOUS
        <3> QED
            BY <1>1, <2>2, <3>1
    <2>4. /\ s[i] \in Nat /\ s[i + 1 + k] \in Nat /\ blocks[i].length \in Nat
          /\ blocks[i + 1 + k].length \in Nat
        BY <1>1, <2>2
    <2> HIDE DEF T
    <2> QED
        BY <2>2, <2>3, <2>4
<1>4. T = Nat
    <2>1. T \in SUBSET Nat
        OBVIOUS
    <2> HIDE DEF T
    <2> QED
        BY <1>2, <1>3, <2>1, AllNaturals
<1>5. j - i - 1 \in T /\ i + 1 + (j - i - 1) = j
    <2>1. j - i - 1 \in Nat
        OBVIOUS
    <2> HIDE DEF T
    <2> QED
        BY <1>4, <2>1
<1> QED
    BY <1>5 DEF s

\* Where a block is depends on those before it alone.
LEMMA StartsOfPrefix ==
    ASSUME NEW blocks, NEW more, NEW n \in Nat \ {0}, NEW m \in Nat, n <= m,
           DOMAIN blocks = 1 .. n, DOMAIN more = 1 .. m,
           \A i \in 1 .. m : more[i].length \in Nat,
           \A i \in 1 .. n : blocks[i] = more[i],
           NEW j \in 1 .. n
    PROVE  Starts(blocks)[j] = Starts(more)[j]
<1> DEFINE s == Starts(blocks)
           t == Starts(more)
<1>1. /\ s[1] = FirstBlock
      /\ \A i \in 1 .. n - 1 : s[i + 1] = s[i] + 2 + blocks[i].length
    BY StartsFollow
<1>2. /\ t[1] = FirstBlock
      /\ \A i \in 1 .. m - 1 : t[i + 1] = t[i] + 2 + more[i].length
    BY StartsFollow
<1> HIDE DEF s, t
<1> DEFINE T == {k \in Nat : k + 1 \in 1 .. n => s[k + 1] = t[k + 1]}
<1>3. 0 \in T
    BY <1>1, <1>2
<1>4. ASSUME NEW k \in T PROVE k + 1 \in T
    <2>1. SUFFICES ASSUME k + 2 \in 1 .. n PROVE s[k + 2] = t[k + 2]
        OBVIOUS
    <2>2. /\ k + 1 \in 1 .. n /\ k + 1 \in 1 .. n - 1 /\ k + 1 \in 1 .. m - 1
          /\ k + 2 = (k + 1) + 1
          /\ s[k + 1] = t[k + 1]
        BY <2>1
    <2>3. s[k + 2] = s[k + 1] + 2 + blocks[k + 1].length
        BY <1>1, <2>2
    <2>4. t[k + 2] = t[k + 1] + 2 + more[k + 1].length
        BY <1>2, <2>2
    <2> QED
        BY <2>2, <2>3, <2>4
<1>5. T = Nat
    <2>1. T \in SUBSET Nat
        OBVIOUS
    <2> HIDE DEF T
    <2> QED
        BY <1>3, <1>4, <2>1, AllNaturals
<1>6. j - 1 \in T /\ (j - 1) + 1 = j
    <2>1. j - 1 \in Nat
        OBVIOUS
    <2> HIDE DEF T
    <2> QED
        BY <1>5, <2>1
<1> QED
    BY <1>6 DEF s, t

-----------------------------------------------------------------------------
(* What is read of a device *)

LastBlock(d) == Len(d.blocks) + 1

\* The blocks of a device and its end block have their places in the 16-bit
\* addresses, and only the end block has the id of one.
LEMMA DeviceBlocks ==
    ASSUME NEW d, IsDevice(d)
    PROVE  /\ Len(d.blocks) \in Nat /\ DOMAIN d.blocks = 1 .. Len(d.blocks)
           /\ LastBlock(d) \in Nat \ {0} /\ DOMAIN Blocks(d) = 1 .. LastBlock(d)
           /\ \A i \in 1 .. Len(d.blocks) :
                 /\ Blocks(d)[i] = d.blocks[i]
                 /\ Blocks(d)[i].id \in 0 .. EndBlock - 1
           /\ Blocks(d)[LastBlock(d)] = [id |-> EndBlock, length |-> 0, says |-> 0]
           /\ \A i \in 1 .. LastBlock(d) :
                 /\ Blocks(d)[i].id \in 0 .. EndBlock
                 /\ Blocks(d)[i].length \in Nat
                 /\ Blocks(d)[i].says \in 0 .. Addresses - 1
<1> DEFINE n == Len(d.blocks)
           R == [id : 0 .. EndBlock - 1, length : Nat, says : 0 .. Addresses - 1]
           E == [id : 0 .. EndBlock, length : Nat, says : 0 .. Addresses - 1]
           end == [id |-> EndBlock, length |-> 0, says |-> 0]
<1>1. d.blocks \in Seq(R)
    BY DEF IsDevice
<1>2. R \subseteq E /\ end \in E
    <2>1. 0 .. EndBlock - 1 \subseteq 0 .. EndBlock
        <3>1. \A e \in Nat : 0 .. e - 1 \subseteq 0 .. e
            OBVIOUS
        <3>2. EndBlock \in Nat
            BY SMT DEF EndBlock
        <3> QED
            BY <3>1, <3>2
    <2>2. EndBlock \in 0 .. EndBlock /\ 0 \in Nat /\ 0 \in 0 .. Addresses - 1
        BY SMT DEF EndBlock, Addresses
    <2>3. R \subseteq E
        BY <2>1
    <2>4. end \in E
        BY <2>2
    <2> QED
        BY <2>3, <2>4
<1>3. n \in Nat /\ DOMAIN d.blocks = 1 .. n /\ \A i \in 1 .. n : d.blocks[i] \in R
    <2> HIDE DEF R
    <2> QED
        BY <1>1, LenProperties, ElementOfSeq
<1>4. d.blocks \in Seq(E)
    <2> HIDE DEF R, E
    <2> QED
        BY <1>1, <1>2, SeqMonotonic
<1> HIDE DEF R, E, end
<1>5. /\ Append(d.blocks, end) \in Seq(E)
      /\ Len(Append(d.blocks, end)) = n + 1
      /\ \A i \in 1 .. n : Append(d.blocks, end)[i] = d.blocks[i]
      /\ Append(d.blocks, end)[n + 1] = end
    BY <1>2, <1>4, AppendProperties
<1>6. Blocks(d) = Append(d.blocks, end)
    BY DEF Blocks, end
<1>7. DOMAIN Blocks(d) = 1 .. n + 1 /\ \A i \in 1 .. n + 1 : Blocks(d)[i] \in E
    BY <1>3, <1>5, <1>6, LenProperties, ElementOfSeq
<1>8. ASSUME NEW i \in 1 .. n
      PROVE  Blocks(d)[i] = d.blocks[i] /\ Blocks(d)[i].id \in 0 .. EndBlock - 1
    <2>1. Blocks(d)[i] = d.blocks[i] /\ d.blocks[i] \in R
        BY <1>3, <1>5, <1>6
    <2> QED
        BY <2>1 DEF R
<1>9. ASSUME NEW i \in 1 .. n + 1
      PROVE  /\ Blocks(d)[i].id \in 0 .. EndBlock
             /\ Blocks(d)[i].length \in Nat
             /\ Blocks(d)[i].says \in 0 .. Addresses - 1
    BY <1>7 DEF E
<1>10. Blocks(d)[n + 1] = [id |-> EndBlock, length |-> 0, says |-> 0]
    BY <1>5, <1>6 DEF end
<1> QED
    BY <1>3, <1>7, <1>8, <1>9, <1>10 DEF LastBlock

\* Every block, the end block too, is within the addresses.
LEMMA WithinAddresses ==
    ASSUME NEW d, IsDevice(d), NEW i \in 1 .. LastBlock(d)
    PROVE  /\ Starts(Blocks(d))[i] \in FirstBlock .. Addresses - 2
           /\ i <= Len(d.blocks) =>
                 /\ Starts(Blocks(d))[i + 1] = Starts(Blocks(d))[i] + 2 + Blocks(d)[i].length
                 /\ Starts(Blocks(d))[i] + 2 + Blocks(d)[i].length < Addresses
<1> DEFINE s == Starts(Blocks(d))
           n == Len(d.blocks)
<1>1. /\ n \in Nat /\ LastBlock(d) = n + 1 /\ LastBlock(d) \in Nat \ {0}
      /\ DOMAIN Blocks(d) = 1 .. n + 1
      /\ \A j \in 1 .. n + 1 : Blocks(d)[j].length \in Nat
    BY DeviceBlocks DEF LastBlock
<1>2. /\ s \in [1 .. n + 1 -> Nat] /\ s[1] = FirstBlock
      /\ \A j \in 1 .. n : s[j + 1] = s[j] + 2 + Blocks(d)[j].length
    <2>1. n + 1 \in Nat \ {0} /\ (n + 1) - 1 = n
        BY <1>1
    <2> HIDE DEF n
    <2> QED
        BY <1>1, <2>1, StartsFollow
<1>3. s[n + 1] + 1 < Addresses
    BY DEF IsDevice
<1>4. \A j \in 1 .. n + 1, k \in 1 .. n + 1 : j < k => s[j] + Blocks(d)[j].length + 2 <= s[k]
    <2>1. n + 1 \in Nat \ {0}
        BY <1>1
    <2> HIDE DEF n
    <2> QED
        BY <1>1, <2>1, StartsApart
<1>5. i \in 1 .. n + 1 /\ 1 \in 1 .. n + 1 /\ n + 1 \in 1 .. n + 1
    BY <1>1
<1> HIDE DEF s, n
<1>6. s[i] \in Nat /\ s[n + 1] \in Nat /\ Blocks(d)[i].length \in Nat /\ Blocks(d)[1].length \in Nat
    BY <1>1, <1>2, <1>5
<1>7. s[i] >= FirstBlock
    <2>1. CASE i = 1
        BY <1>2, <2>1 DEF FirstBlock
    <2>2. CASE i # 1
        <3>1. s[1] + Blocks(d)[1].length + 2 <= s[i]
            BY <1>4, <1>5, <2>2
        <3> QED
            BY <1>2, <1>6, <3>1 DEF FirstBlock
    <2> QED
        BY <2>1, <2>2
<1>8. s[i] + 1 < Addresses /\ (i <= n => s[i] + 2 + Blocks(d)[i].length < Addresses)
    <2>1. CASE i = n + 1
        BY <1>1, <1>3, <2>1
    <2>2. CASE i # n + 1
        <3>1. s[i] + Blocks(d)[i].length + 2 <= s[n + 1]
            BY <1>4, <1>5, <1>1, <2>2
        <3> QED
            BY <1>3, <1>6, <3>1 DEF Addresses
    <2> QED
        BY <2>1, <2>2
<1>9. i <= n => s[i + 1] = s[i] + 2 + Blocks(d)[i].length
    BY <1>1, <1>2, <1>5
<1>10. s[i] \in FirstBlock .. Addresses - 2
    BY <1>6, <1>7, <1>8 DEF FirstBlock, Addresses
<1> QED
    BY <1>8, <1>9, <1>10 DEF s, n

\* Whatever register is read, it holds a number or cannot be read.
LEMMA RegistersAreNumbers ==
    ASSUME NEW d, IsDevice(d), NEW address
    PROVE  ReadRegister(d, address) \in Int
<1> DEFINE blocks == Blocks(d)
           start == Starts(blocks)
           in == {i \in DOMAIN blocks : address \in start[i] .. start[i] + blocks[i].length + 1}
           block == CHOOSE i \in in : TRUE
<1>1. CASE in = {}
    BY <1>1 DEF ReadRegister, Unreadable
<1>2. CASE in # {}
    <2>1. block \in in /\ block \in DOMAIN blocks
        BY <1>2
    <2>2. blocks[block].id \in Int /\ blocks[block].says \in Int
        BY <2>1, DeviceBlocks
    <2>3. Holds(d, blocks[block].id, address - start[block]) \in Int
        <3>1. d.modules \in Int
            BY DEF IsDevice
        <3> QED
            BY <3>1 DEF Holds
    <2>4. ReadRegister(d, address)
            = CASE address = start[block] -> blocks[block].id
                [] address = start[block] + 1 -> blocks[block].says
                [] OTHER -> Holds(d, blocks[block].id, address - start[block])
        BY <1>2 DEF ReadRegister
    <2> HIDE DEF blocks, start, block
    <2> QED
        BY <2>2, <2>3, <2>4
<1> QED
    BY <1>1, <1>2


\* A register of a block holds what the block has there.
LEMMA ReadBlock ==
    ASSUME NEW d, IsDevice(d), NEW i \in 1 .. LastBlock(d),
           NEW o \in 0 .. Blocks(d)[i].length + 1
    PROVE  ReadRegister(d, Starts(Blocks(d))[i] + o)
              = IF o = 0 THEN Blocks(d)[i].id
                ELSE IF o = 1 THEN Blocks(d)[i].says
                ELSE Holds(d, Blocks(d)[i].id, o)
<1> DEFINE blocks == Blocks(d)
           start == Starts(blocks)
           address == start[i] + o
           in == {j \in DOMAIN blocks : address \in start[j] .. start[j] + blocks[j].length + 1}
           block == CHOOSE j \in in : TRUE
<1>1. /\ LastBlock(d) \in Nat \ {0} /\ DOMAIN blocks = 1 .. LastBlock(d)
      /\ \A j \in 1 .. LastBlock(d) : blocks[j].length \in Nat
    BY DeviceBlocks
<1>2. \A j \in 1 .. LastBlock(d) : start[j] \in Nat
    <2>1. ASSUME NEW j \in 1 .. LastBlock(d) PROVE start[j] \in Nat
        <3>1. start[j] \in FirstBlock .. Addresses - 2
            BY WithinAddresses
        <3> QED
            BY <3>1 DEF FirstBlock
    <2> QED
        BY <2>1
<1>3. \A j \in 1 .. LastBlock(d), k \in 1 .. LastBlock(d) :
         j < k => start[j] + blocks[j].length + 2 <= start[k]
    BY <1>1, StartsApart
<1>4. in = {i}
    <2> HIDE DEF blocks, start
    <2>1. i \in in
        BY <1>1, <1>2 DEF blocks
    <2>2. ASSUME NEW j \in in, j # i PROVE FALSE
        <3>1. /\ j \in 1 .. LastBlock(d) /\ j \in Int /\ i \in Int
              /\ start[j] \in Nat /\ start[i] \in Nat
              /\ blocks[j].length \in Nat /\ blocks[i].length \in Nat
            BY <1>1, <1>2
        <3>2. /\ start[j] <= start[i] + o /\ start[i] + o <= start[j] + blocks[j].length + 1
              /\ 0 <= o /\ o <= blocks[i].length + 1 /\ o \in Int
            BY <3>1 DEF blocks
        <3>3. CASE j < i
            <4>1. start[j] + blocks[j].length + 2 <= start[i]
                BY <1>3, <3>1, <3>3
            <4> QED
                BY <3>1, <3>2, <4>1
        <3>4. CASE i < j
            <4>1. start[i] + blocks[i].length + 2 <= start[j]
                BY <1>3, <3>1, <3>4
            <4> QED
                BY <3>1, <3>2, <4>1
        <3> QED
            BY <2>2, <3>1, <3>3, <3>4
    <2> QED
        BY <2>1, <2>2
<1>5. block = i
    BY <1>4
<1>6. ReadRegister(d, address)
        = CASE address = start[i] -> blocks[i].id
            [] address = start[i] + 1 -> blocks[i].says
            [] OTHER -> Holds(d, blocks[i].id, address - start[i])
    <2>1. ReadRegister(d, address)
            = CASE address = start[block] -> blocks[block].id
                [] address = start[block] + 1 -> blocks[block].says
                [] OTHER -> Holds(d, blocks[block].id, address - start[block])
        BY <1>4 DEF ReadRegister
    <2> HIDE DEF block
    <2> QED
        BY <1>5, <2>1
<1>7. start[i] \in Nat /\ o \in Int /\ address - start[i] = o
      /\ (address = start[i] <=> o = 0) /\ (address = start[i] + 1 <=> o = 1)
    <2>1. start[i] \in Nat /\ o \in Int
        BY <1>1, <1>2
    <2> HIDE DEF start
    <2> QED
        BY <2>1
<1> HIDE DEF blocks, start, address
<1> QED
    BY <1>6, <1>7 DEF blocks, start, address

-----------------------------------------------------------------------------
(* The walk, step by step *)

WalksOf(kinds) ==
    [at : Int, found : [DOMAIN kinds -> Int], ended : BOOLEAN, failed : BOOLEAN]

NoneVisited(kinds) ==
    [at |-> FirstBlock, found |-> [kind \in DOMAIN kinds |-> 0],
     ended |-> FALSE, failed |-> FALSE]

NextWalk(d, kinds, walk) == IF walk.ended THEN walk ELSE Visited(d, kinds, walk)

\* A step of the walk leads to a place that may be walked from.
LEMMA VisitedIsWalk ==
    ASSUME NEW d, IsDevice(d), NEW kinds, NEW walk \in WalksOf(kinds)
    PROVE  NextWalk(d, kinds, walk) \in WalksOf(kinds)
<1> DEFINE id == ReadRegister(d, walk.at)
           length == ReadRegister(d, (walk.at + 1) % Addresses)
           found == [kind \in DOMAIN kinds |->
                        IF id \in kinds[kind] THEN walk.at ELSE walk.found[kind]]
<1>1. id \in Int /\ length \in Int
    BY RegistersAreNumbers
<1>2. /\ walk.at \in Int /\ walk.found \in [DOMAIN kinds -> Int]
      /\ walk = [at |-> walk.at, found |-> walk.found, ended |-> walk.ended,
                 failed |-> walk.failed]
      /\ walk.ended \in BOOLEAN /\ walk.failed \in BOOLEAN
    BY DEF WalksOf
<1> HIDE DEF length
<1>3. found \in [DOMAIN kinds -> Int]
    <2> HIDE DEF id
    <2> QED
        BY <1>2
<1>4. (walk.at + length + 2) % Addresses \in Int
    BY <1>1, <1>2 DEF Addresses
<1>5. AllBlocksDefined(found) \in BOOLEAN
    BY DEF AllBlocksDefined
<1>6. [at |-> (walk.at + length + 2) % Addresses, found |-> found,
       ended |-> AllBlocksDefined(found), failed |-> FALSE] \in WalksOf(kinds)
    <2> HIDE DEF found
    <2> QED
        BY <1>3, <1>4, <1>5 DEF WalksOf
<1>7. /\ [walk EXCEPT !.ended = TRUE, !.failed = TRUE] \in WalksOf(kinds)
      /\ [walk EXCEPT !.ended = TRUE] \in WalksOf(kinds)
    BY DEF WalksOf
<1>8. Visited(d, kinds, walk)
        = IF Unreadable \in {id, length} THEN [walk EXCEPT !.ended = TRUE, !.failed = TRUE]
          ELSE IF id = EndBlock THEN [walk EXCEPT !.ended = TRUE]
          ELSE [at |-> (walk.at + length + 2) % Addresses, found |-> found,
                ended |-> AllBlocksDefined(found), failed |-> FALSE]
    BY DEF Visited, length
<1> HIDE DEF id, found
<1>9. Visited(d, kinds, walk) \in WalksOf(kinds)
    BY <1>6, <1>7, <1>8, Zenon
<1> QED
    BY <1>9 DEF NextWalk

\* The walk starts at the first block, and each step follows the one before it.
LEMMA WalksFollow ==
    ASSUME NEW d, IsDevice(d), NEW kinds, NEW limit \in Nat
    PROVE  /\ Walks(d, kinds, limit)[0] = NoneVisited(kinds)
           /\ \A n \in 0 .. limit + 2 : Walks(d, kinds, limit)[n] \in WalksOf(kinds)
           /\ \A n \in 0 .. limit + 1 :
                 Walks(d, kinds, limit)[n + 1] = NextWalk(d, kinds, Walks(d, kinds, limit)[n])
<1> DEFINE W == WalksOf(kinds)
           g == [n \in Nat |-> [walk \in W |-> NextWalk(d, kinds, walk)]]
           none == NoneVisited(kinds)
<1>1. none \in W
    BY DEF NoneVisited, WalksOf, FirstBlock
<1>2. g \in [Nat -> [W -> W]]
    BY VisitedIsWalk
<1>3. 0 \in Nat /\ limit + 2 \in Nat /\ 0 + (limit + 2) = limit + 2 /\ 0 + 1 = 1
    OBVIOUS
<1>4. PICK f : /\ f \in [0 .. limit + 2 -> W] /\ f[0] = none
               /\ \A n \in 1 .. limit + 2 : f[n] = g[n][f[n - 1]]
    <2> HIDE DEF W, g, none
    <2>1. PICK f : Iterates(f, W, none, 0, g, limit + 2)
        BY <1>1, <1>2, <1>3, RecursionDefines, Zenon
    <2> QED
        BY <1>3, <2>1 DEF Iterates
<1>5. ASSUME NEW n \in 1 .. limit + 2 PROVE f[n] = NextWalk(d, kinds, f[n - 1])
    <2>1. n - 1 \in 0 .. limit + 2 /\ n \in Nat
        OBVIOUS
    <2>2. f[n - 1] \in W /\ f[n] = g[n][f[n - 1]]
        BY <1>4, <2>1
    <2> HIDE DEF W
    <2> QED
        BY <2>1, <2>2
<1> DEFINE F(h) == [n \in 0 .. limit + 2 |->
                        IF n = 0 THEN none
                        ELSE IF h[n - 1].ended THEN h[n - 1] ELSE Visited(d, kinds, h[n - 1])]
<1>6. f = F(f)
    <2> HIDE DEF W, g, none
    <2>1. ASSUME NEW n \in 0 .. limit + 2
          PROVE  f[n] = IF n = 0 THEN none
                        ELSE IF f[n - 1].ended THEN f[n - 1] ELSE Visited(d, kinds, f[n - 1])
        <3>1. CASE n = 0
            BY <1>4, <3>1
        <3>2. CASE n # 0
            <4>1. n \in 1 .. limit + 2
                BY <3>2
            <4>2. f[n] = NextWalk(d, kinds, f[n - 1])
                BY <1>5, <4>1
            <4> QED
                BY <3>2, <4>2 DEF NextWalk
        <3> QED
            BY <3>1, <3>2
    <2>2. f = [n \in 0 .. limit + 2 |-> f[n]]
        BY <1>4
    <2> QED
        BY <2>1, <2>2
<1> DEFINE walks == Walks(d, kinds, limit)
<1>7. walks = CHOOSE h : h = F(h)
    BY DEF Walks, NoneVisited
<1>8. walks = F(walks)
    <2> HIDE DEF F, walks
    <2> QED
        BY <1>6, <1>7
<1>9. walks[0] = none
    <2> HIDE DEF walks, none
    <2> QED
        BY <1>8
<1>10. ASSUME NEW n \in 0 .. limit + 1
       PROVE  walks[n + 1] = NextWalk(d, kinds, walks[n])
    <2>1. n + 1 \in 0 .. limit + 2 /\ n + 1 # 0 /\ (n + 1) - 1 = n
        OBVIOUS
    <2> HIDE DEF walks, none
    <2> QED
        BY <1>8, <2>1 DEF NextWalk
<1> DEFINE T == {n \in Nat : n <= limit + 2 => walks[n] \in W}
<1>11. T = Nat
    <2> HIDE DEF walks, none, W
    <2>1. 0 \in T
        BY <1>1, <1>9
    <2>2. ASSUME NEW n \in T PROVE n + 1 \in T
        <3>1. SUFFICES ASSUME n + 1 <= limit + 2 PROVE walks[n + 1] \in W
            OBVIOUS
        <3>2. n \in 0 .. limit + 1 /\ walks[n] \in W
            BY <3>1
        <3> QED
            BY <1>10, <3>2, VisitedIsWalk DEF W
    <2>3. T \in SUBSET Nat
        OBVIOUS
    <2> HIDE DEF T
    <2> QED
        BY <2>1, <2>2, <2>3, AllNaturals
<1>12. ASSUME NEW n \in 0 .. limit + 2 PROVE walks[n] \in W
    <2>1. n \in T
        <3> HIDE DEF T
        <3> QED
            BY <1>11
    <2> HIDE DEF walks, W
    <2> QED
        BY <2>1
<1> HIDE DEF walks
<1> QED
    BY <1>9, <1>10, <1>12 DEF walks


\* What is found after a block: its address under what it is.
FoundAt(d, kinds, found, i) ==
    [kind \in DOMAIN kinds |->
        IF Blocks(d)[i].id \in kinds[kind] THEN Starts(Blocks(d))[i] ELSE found[kind]]

\* A step of the walk from where a block is: the end block ends it, another one
\* is found and leads where the length that it reports says.
LEMMA VisitedBlock ==
    ASSUME NEW d, IsDevice(d), NEW kinds, NEW walk \in WalksOf(kinds), ~walk.ended,
           NEW i \in 1 .. LastBlock(d), walk.at = Starts(Blocks(d))[i]
    PROVE  NextWalk(d, kinds, walk)
              = IF i = LastBlock(d) THEN [walk EXCEPT !.ended = TRUE]
                ELSE [at |-> (Starts(Blocks(d))[i] + Blocks(d)[i].says + 2) % Addresses,
                      found |-> FoundAt(d, kinds, walk.found, i),
                      ended |-> AllBlocksDefined(FoundAt(d, kinds, walk.found, i)),
                      failed |-> FALSE]
<1> DEFINE start == Starts(Blocks(d))[i]
           block == Blocks(d)[i]
<1>1. /\ block.id \in 0 .. EndBlock /\ block.length \in Nat
      /\ block.says \in 0 .. Addresses - 1
      /\ block.id = EndBlock <=> i = LastBlock(d)
    <2>1. /\ block.id \in 0 .. EndBlock /\ block.length \in Nat
          /\ block.says \in 0 .. Addresses - 1
        BY DeviceBlocks
    <2>2. CASE i = LastBlock(d)
        BY <2>1, <2>2, DeviceBlocks
    <2>3. CASE i # LastBlock(d)
        <3>1. i \in 1 .. Len(d.blocks)
            BY <2>3, DeviceBlocks DEF LastBlock
        <3>2. block.id \in 0 .. EndBlock - 1
            BY <3>1, DeviceBlocks
        <3>3. EndBlock \notin 0 .. EndBlock - 1
            BY SMT DEF EndBlock
        <3> HIDE DEF block
        <3> QED
            BY <2>1, <2>3, <3>2, <3>3
    <2> QED
        BY <2>2, <2>3
<1>2. start \in Nat /\ (start + 1) % Addresses = start + 1
    <2>1. start \in FirstBlock .. Addresses - 2
        BY WithinAddresses
    <2> HIDE DEF start
    <2> QED
        BY <2>1, SMT DEF FirstBlock, Addresses
<1>3. /\ 0 \in 0 .. block.length + 1 /\ 1 \in 0 .. block.length + 1
      /\ start + 0 = start
    <2> HIDE DEF start, block
    <2> QED
        BY <1>1, <1>2
<1>4. ReadRegister(d, start) = block.id
    <2>1. ReadRegister(d, start + 0) = block.id
        BY <1>3, ReadBlock
    <2> HIDE DEF start, block
    <2> QED
        BY <1>3, <2>1
<1>5. ReadRegister(d, start + 1) = block.says
    BY <1>3, ReadBlock
<1>6. FoundAt(d, kinds, walk.found, i)
        = [kind \in DOMAIN kinds |->
              IF block.id \in kinds[kind] THEN walk.at ELSE walk.found[kind]]
    BY DEF FoundAt
<1>7. Unreadable \notin {block.id, block.says}
    <2> HIDE DEF block
    <2>1. \A n : Unreadable \notin 0 .. n
        BY DEF Unreadable
    <2> QED
        BY <1>1, <2>1
<1> HIDE DEF start, block
<1>8. walk.at = start
    BY DEF start
<1>9. NextWalk(d, kinds, walk) = Visited(d, kinds, walk)
    BY DEF NextWalk
<1>10. Visited(d, kinds, walk)
        = IF block.id = EndBlock THEN [walk EXCEPT !.ended = TRUE]
          ELSE [at |-> (start + block.says + 2) % Addresses,
                found |-> FoundAt(d, kinds, walk.found, i),
                ended |-> AllBlocksDefined(FoundAt(d, kinds, walk.found, i)),
                failed |-> FALSE]
    BY <1>2, <1>4, <1>5, <1>6, <1>7, <1>8, Zenon DEF Visited
<1> QED
    BY <1>1, <1>9, <1>10, Zenon DEF start, block

\* A walk that is where blocks are stays there and finds only blocks, whatever
\* lengths they report.
LEMMA AlignedWalk ==
    ASSUME NEW d, IsDevice(d), Aligned(d), NEW kinds, NEW limit \in Nat
    PROVE  LET walk == Walk(d, kinds, limit)
           IN  /\ walk \in WalksOf(kinds) /\ ~walk.failed
               /\ \A kind \in DOMAIN kinds :
                     walk.found[kind] # 0 =>
                        \E i \in 1 .. Len(d.blocks) :
                            /\ Blocks(d)[i].id \in kinds[kind]
                            /\ walk.found[kind] = Starts(Blocks(d))[i]
<1> DEFINE start == Starts(Blocks(d))
           walks == Walks(d, kinds, limit)
           Found(found) == \A kind \in DOMAIN kinds :
               found[kind] # 0 => \E i \in 1 .. Len(d.blocks) :
                   Blocks(d)[i].id \in kinds[kind] /\ found[kind] = start[i]
           Good(walk) == /\ walk \in WalksOf(kinds) /\ ~walk.failed
                         /\ \E i \in 1 .. LastBlock(d) : walk.at = start[i]
                         /\ Found(walk.found)
           T == {n \in Nat : n <= limit + 2 => Good(walks[n])}
<1>1. Len(d.blocks) \in Nat /\ LastBlock(d) = Len(d.blocks) + 1 /\ 1 \in 1 .. LastBlock(d)
    BY DeviceBlocks DEF LastBlock
<1>2. start[1] = FirstBlock
    <2>1. /\ LastBlock(d) \in Nat \ {0} /\ DOMAIN Blocks(d) = 1 .. LastBlock(d)
          /\ \A i \in 1 .. LastBlock(d) : Blocks(d)[i].length \in Nat
        BY DeviceBlocks
    <2> QED
        BY <2>1, StartsFollow
<1>3. \A i \in 1 .. Len(d.blocks) : \E j \in 1 .. LastBlock(d) :
         (start[i] + Blocks(d)[i].says + 2) % Addresses = start[j]
    BY DeviceBlocks DEF Aligned
<1>4. 0 \in T
    <2>1. walks[0] = NoneVisited(kinds) /\ walks[0] \in WalksOf(kinds)
        BY WalksFollow
    <2> HIDE DEF walks, start
    <2>2. Good(walks[0])
        BY <1>1, <1>2, <2>1 DEF NoneVisited
    <2> QED
        BY <2>2
<1>5. ASSUME NEW n \in T PROVE n + 1 \in T
    <2>1. SUFFICES ASSUME n + 1 <= limit + 2 PROVE Good(walks[n + 1])
        OBVIOUS
    <2>2. n \in 0 .. limit + 1 /\ n + 1 \in 0 .. limit + 2 /\ Good(walks[n])
        BY <2>1
    <2>3. walks[n + 1] = NextWalk(d, kinds, walks[n]) /\ walks[n + 1] \in WalksOf(kinds)
        BY <2>2, WalksFollow
    <2> DEFINE walk == walks[n]
    <2> HIDE DEF walks, start
    <2>4. CASE walk.ended
        <3>1. walks[n + 1] = walks[n]
            BY <2>3, <2>4 DEF NextWalk
        <3> HIDE DEF Good
        <3> QED
            BY <2>2, <3>1
    <2>5. CASE ~walk.ended
        <3>1. PICK i \in 1 .. LastBlock(d) : walk.at = start[i]
            BY <2>2
        <3> DEFINE found == FoundAt(d, kinds, walk.found, i)
        <3>2. walks[n + 1]
                = IF i = LastBlock(d) THEN [walk EXCEPT !.ended = TRUE]
                  ELSE [at |-> (start[i] + Blocks(d)[i].says + 2) % Addresses,
                        found |-> found, ended |-> AllBlocksDefined(found), failed |-> FALSE]
            <4>1. walk \in WalksOf(kinds) /\ walks[n + 1] = NextWalk(d, kinds, walk)
                BY <2>2, <2>3
            <4> HIDE DEF walk
            <4> QED
                BY <2>5, <3>1, <4>1, VisitedBlock DEF start
        <3>3. CASE i = LastBlock(d)
            <4>1. walks[n + 1] = [walk EXCEPT !.ended = TRUE]
                BY <3>2, <3>3
            <4>2. /\ walks[n + 1].at = walk.at /\ walks[n + 1].found = walk.found
                  /\ walks[n + 1].failed = walk.failed
                BY <2>2, <4>1 DEF WalksOf
            <4> QED
                BY <2>2, <2>3, <4>2
        <3>4. CASE i # LastBlock(d)
            <4>1. i \in 1 .. Len(d.blocks)
                BY <1>1, <3>4
            <4>2. \A kind \in DOMAIN kinds :
                    found[kind] = IF Blocks(d)[i].id \in kinds[kind] THEN start[i]
                                  ELSE walk.found[kind]
                BY DEF FoundAt, start
            <4>3. Found(found)
                <5> HIDE DEF found, walk
                <5>1. Found(walk.found)
                    BY <2>2 DEF walk
                <5> QED
                    BY <4>1, <4>2, <5>1
            <4> HIDE DEF found, Found
            <4>4. /\ walks[n + 1].at = (start[i] + Blocks(d)[i].says + 2) % Addresses
                  /\ walks[n + 1].found = found /\ walks[n + 1].failed = FALSE
                BY <3>2, <3>4
            <4>5. \E j \in 1 .. LastBlock(d) : walks[n + 1].at = start[j]
                BY <1>3, <4>1, <4>4
            <4> QED
                BY <2>3, <4>3, <4>4, <4>5
        <3> QED
            BY <3>3, <3>4
    <2> QED
        BY <2>4, <2>5
<1>6. T = Nat
    <2>1. T \in SUBSET Nat
        OBVIOUS
    <2> HIDE DEF T
    <2> QED
        BY <1>4, <1>5, <2>1, AllNaturals
<1>7. Good(walks[limit + 2])
    <2>1. limit + 2 \in T
        <3> HIDE DEF T
        <3> QED
            BY <1>6
    <2> HIDE DEF Good, walks
    <2> QED
        BY <2>1
<1> QED
    BY <1>7 DEF Walk


\* Lengths that are told rightly lead from block to block.
LEMMA ConformingIsAligned ==
    ASSUME NEW d, IsDevice(d), Conforming(d)
    PROVE  Aligned(d)
<1> DEFINE start == Starts(Blocks(d))
<1>1. /\ Len(d.blocks) \in Nat /\ DOMAIN d.blocks = 1 .. Len(d.blocks)
      /\ LastBlock(d) = Len(d.blocks) + 1 /\ DOMAIN Blocks(d) = 1 .. LastBlock(d)
    BY DeviceBlocks DEF LastBlock
<1>2. ASSUME NEW i \in 1 .. Len(d.blocks)
      PROVE  /\ i + 1 \in 1 .. LastBlock(d)
             /\ (start[i] + Blocks(d)[i].says + 2) % Addresses = start[i + 1]
    <2>1. i \in 1 .. LastBlock(d) /\ i + 1 \in 1 .. LastBlock(d) /\ i <= Len(d.blocks)
        BY <1>1
    <2>2. /\ start[i + 1] = start[i] + 2 + Blocks(d)[i].length
          /\ start[i] + 2 + Blocks(d)[i].length < Addresses
          /\ start[i] \in FirstBlock .. Addresses - 2
        BY <2>1, WithinAddresses
    <2>3. /\ Blocks(d)[i].says = Blocks(d)[i].length /\ Blocks(d)[i].length \in Nat
        BY <1>1, <2>1, DeviceBlocks DEF Conforming
    <2> DEFINE l == Blocks(d)[i].length
               s == start[i]
    <2>4. (s + l + 2) % Addresses = s + 2 + l
        <3>1. s \in Nat /\ l \in Nat /\ s + 2 + l < Addresses
            BY <2>2, <2>3, SMT DEF FirstBlock
        <3> HIDE DEF s, l
        <3> QED
            BY <3>1, SMT DEF Addresses
    <2> HIDE DEF start
    <2> QED
        BY <2>1, <2>2, <2>3, <2>4
<1> HIDE DEF start
<1> QED
    BY <1>1, <1>2 DEF Aligned, start

\* Of a device that tells its lengths rightly the walk finds what is among the
\* first blocks, two more than its counter allows, and nothing else.
LEMMA ConformingWalk ==
    ASSUME NEW d, IsDevice(d), Conforming(d), NEW kinds, NEW limit \in Nat,
           NEW kind \in DOMAIN kinds
    PROVE  Walk(d, kinds, limit).found[kind] # 0
             <=> \E i \in 1 .. Len(d.blocks) :
                    i <= limit + 2 /\ Blocks(d)[i].id \in kinds[kind]
<1> DEFINE start == Starts(Blocks(d))
           walks == Walks(d, kinds, limit)
           n == Len(d.blocks)
           UpTo(found, m) == \A k \in DOMAIN kinds :
               found[k] # 0 <=> \E i \in 1 .. m : Blocks(d)[i].id \in kinds[k]
           Progress(walk, m, step) ==
               /\ m \in 0 .. n /\ m <= step
               /\ UpTo(walk.found, m)
               /\ ~walk.ended => m = step /\ walk.at = start[m + 1]
               /\ walk.ended => m = n \/ \A k \in DOMAIN kinds : walk.found[k] # 0
           Good(walk, step) == walk \in WalksOf(kinds) /\ \E m \in 0 .. n : Progress(walk, m, step)
           T == {step \in Nat : step <= limit + 2 => Good(walks[step], step)}
<1>1. /\ n \in Nat /\ LastBlock(d) = n + 1
      /\ \A i \in 1 .. n : /\ start[i + 1] = (start[i] + Blocks(d)[i].says + 2) % Addresses
                           /\ start[i] # 0
    <2>1. n \in Nat /\ LastBlock(d) = n + 1
        BY DeviceBlocks DEF LastBlock
    <2>2. ASSUME NEW i \in 1 .. n
          PROVE  /\ start[i + 1] = (start[i] + Blocks(d)[i].says + 2) % Addresses
                 /\ start[i] # 0
        <3>1. i \in 1 .. LastBlock(d) /\ i <= Len(d.blocks)
            BY <2>1
        <3>2. /\ start[i + 1] = start[i] + 2 + Blocks(d)[i].length
              /\ start[i] + 2 + Blocks(d)[i].length < Addresses
              /\ start[i] \in FirstBlock .. Addresses - 2
            BY <3>1, WithinAddresses
        <3>3. /\ Blocks(d)[i].says = Blocks(d)[i].length /\ Blocks(d)[i].length \in Nat
            BY <3>1, DeviceBlocks DEF Conforming
        <3> DEFINE l == Blocks(d)[i].length
                   s == start[i]
        <3>4. (s + l + 2) % Addresses = s + 2 + l /\ s # 0
            <4>1. s \in Nat /\ s # 0 /\ l \in Nat /\ s + 2 + l < Addresses
                BY <3>2, <3>3, SMT DEF FirstBlock
            <4> HIDE DEF s, l
            <4> QED
                BY <4>1, SMT DEF Addresses
        <3> HIDE DEF start
        <3> QED
            BY <3>2, <3>3, <3>4
    <2> HIDE DEF start
    <2> QED
        BY <2>1, <2>2
<1>2. start[1] = FirstBlock
    <2>1. /\ LastBlock(d) \in Nat \ {0} /\ DOMAIN Blocks(d) = 1 .. LastBlock(d)
          /\ \A i \in 1 .. LastBlock(d) : Blocks(d)[i].length \in Nat
        BY DeviceBlocks
    <2> QED
        BY <2>1, StartsFollow
<1> HIDE DEF n
<1>3. 0 \in T
    <2>1. walks[0] = NoneVisited(kinds) /\ walks[0] \in WalksOf(kinds)
        BY WalksFollow
    <2> HIDE DEF walks, start
    <2>2. Progress(walks[0], 0, 0)
        BY <1>1, <1>2, <2>1 DEF NoneVisited
    <2>3. 0 \in 0 .. n
        BY <1>1
    <2> HIDE DEF Progress
    <2> QED
        BY <2>1, <2>2, <2>3
<1>4. ASSUME NEW step \in T PROVE step + 1 \in T
    <2>1. SUFFICES ASSUME step + 1 <= limit + 2 PROVE Good(walks[step + 1], step + 1)
        OBVIOUS
    <2>2. step \in 0 .. limit + 1 /\ step + 1 \in 0 .. limit + 2 /\ Good(walks[step], step)
        BY <2>1
    <2> DEFINE walk == walks[step]
               next == walks[step + 1]
    <2>3. next = NextWalk(d, kinds, walk) /\ next \in WalksOf(kinds)
        BY <2>2, WalksFollow
    <2>4. PICK m \in 0 .. n : Progress(walk, m, step)
        BY <2>2
    <2>5. walk \in WalksOf(kinds)
        BY <2>2
    <2> HIDE DEF walk, next, start
    <2>6. CASE walk.ended
        <3>1. next = walk
            BY <2>3, <2>6 DEF NextWalk
        <3>2. Progress(next, m, step + 1)
            BY <2>4, <2>6, <3>1
        <3> HIDE DEF Progress
        <3> QED
            BY <2>3, <3>2 DEF next
    <2>7. CASE ~walk.ended
        <3> DEFINE i == m + 1
                   found == FoundAt(d, kinds, walk.found, i)
        <3>1. m = step /\ i \in 1 .. LastBlock(d) /\ walk.at = start[i]
            BY <1>1, <2>4, <2>7
        <3>2. next = IF i = LastBlock(d) THEN [walk EXCEPT !.ended = TRUE]
                     ELSE [at |-> (start[i] + Blocks(d)[i].says + 2) % Addresses,
                           found |-> found, ended |-> AllBlocksDefined(found), failed |-> FALSE]
            <4> HIDE DEF i
            <4> QED
                BY <2>3, <2>5, <2>7, <3>1, VisitedBlock DEF start
        <3>3. CASE i = LastBlock(d)
            <4>1. next = [walk EXCEPT !.ended = TRUE]
                BY <3>2, <3>3
            <4>2. next.found = walk.found /\ next.ended = TRUE
                BY <2>5, <4>1 DEF WalksOf
            <4>3. m = n
                BY <1>1, <3>3
            <4>4. Progress(next, m, step + 1)
                BY <2>4, <4>2, <4>3, <3>1
            <4> HIDE DEF Progress
            <4> QED
                BY <2>3, <4>4 DEF next
        <3>4. CASE i # LastBlock(d)
            <4>1. i \in 1 .. n /\ i \in 0 .. n /\ m \in Nat /\ i = m + 1
                BY <1>1, <3>1, <3>4
            <4>2. \A k \in DOMAIN kinds :
                    found[k] = IF Blocks(d)[i].id \in kinds[k] THEN start[i]
                                  ELSE walk.found[k]
                BY DEF FoundAt, start
            <4>3. UpTo(found, i)
                <5> SUFFICES ASSUME NEW k \in DOMAIN kinds
                             PROVE  found[k] # 0 <=> \E j \in 1 .. i : Blocks(d)[j].id \in kinds[k]
                    OBVIOUS
                <5>1. walk.found[k] # 0 <=> \E j \in 1 .. m : Blocks(d)[j].id \in kinds[k]
                    BY <2>4
                <5>2. \A j : j \in 1 .. i <=> j \in 1 .. m \/ j = i
                    BY <4>1
                <5>3. start[i] # 0
                    BY <1>1, <4>1
                <5> HIDE DEF found, i
                <5> QED
                    BY <4>2, <5>1, <5>2, <5>3
            <4> HIDE DEF found
            <4>4. /\ next.at = (start[i] + Blocks(d)[i].says + 2) % Addresses
                  /\ next.found = found /\ next.ended = AllBlocksDefined(found)
                BY <3>2, <3>4
            <4>5. next.at = start[i + 1]
                BY <1>1, <4>1, <4>4
            <4>6. next.ended => \A k \in DOMAIN kinds : next.found[k] # 0
                <5>1. DOMAIN found = DOMAIN kinds
                    BY DEF found, FoundAt
                <5>2. next.found \in [DOMAIN kinds -> Int]
                    BY <2>3 DEF WalksOf
                <5>3. SUFFICES ASSUME next.ended, NEW k \in DOMAIN kinds PROVE next.found[k] # 0
                    OBVIOUS
                <5>4. AllBlocksDefined(found)
                    BY <4>4, <5>3
                <5>5. found[k] > 0 /\ found[k] \in Int
                    BY <4>4, <5>1, <5>2, <5>4 DEF AllBlocksDefined
                <5> QED
                    BY <4>4, <5>5
            <4>7. Progress(next, i, step + 1)
                <5>1. UpTo(next.found, i)
                    BY <4>3, <4>4
                <5> HIDE DEF UpTo
                <5> QED
                    BY <3>1, <4>1, <4>5, <4>6, <5>1
            <4> HIDE DEF Progress, i
            <4> QED
                BY <2>3, <4>1, <4>7 DEF next
        <3> QED
            BY <3>3, <3>4
    <2> QED
        BY <2>6, <2>7
<1>5. T = Nat
    <2>1. T \in SUBSET Nat
        OBVIOUS
    <2> HIDE DEF T
    <2> QED
        BY <1>3, <1>4, <2>1, AllNaturals
<1>6. Good(walks[limit + 2], limit + 2)
    <2>1. limit + 2 \in T
        <3> HIDE DEF T
        <3> QED
            BY <1>5
    <2> HIDE DEF Good, walks
    <2> QED
        BY <2>1
<1> DEFINE walk == walks[limit + 2]
<1>7. PICK m \in 0 .. n : Progress(walk, m, limit + 2)
    BY <1>6
<1>8. walk.found[kind] # 0 <=> \E i \in 1 .. m : Blocks(d)[i].id \in kinds[kind]
    BY <1>7
<1>9. m \in Nat /\ n \in Nat /\ m <= n /\ m <= limit + 2
    BY <1>1, <1>7
<1>10. m = n \/ m = limit + 2 \/ walk.found[kind] # 0
    <2> HIDE DEF walk, UpTo
    <2> QED
        BY <1>7
<1> HIDE DEF walk, Progress
<1>11. walk.found[kind] # 0
         <=> \E i \in 1 .. n : i <= limit + 2 /\ Blocks(d)[i].id \in kinds[kind]
    BY <1>8, <1>9, <1>10
<1> QED
    BY <1>11 DEF walk, walks, Walk, n

-----------------------------------------------------------------------------
(* The survey *)

\* Some block of a kind is among the first ones exactly if it has an address there.
LEMMA HasBlocks ==
    ASSUME NEW d, IsDevice(d), NEW limit \in Nat, NEW ids
    PROVE  BlockStarts(Within(d, limit), ids) # {}
             <=> \E i \in 1 .. Len(d.blocks) : i <= limit + 2 /\ Blocks(d)[i].id \in ids
<1> DEFINE n == Len(d.blocks)
           m == IF n <= limit + 2 THEN n ELSE limit + 2
           first == SubSeq(d.blocks, 1, m)
           R == [id : 0 .. EndBlock - 1, length : Nat, says : 0 .. Addresses - 1]
<1>1. d.blocks \in Seq(R)
    BY DEF IsDevice
<1>2. n \in Nat /\ \A i \in 1 .. n : Blocks(d)[i] = d.blocks[i]
    BY DeviceBlocks
<1>3. m \in 0 .. n /\ \A i : i \in 1 .. m <=> i \in 1 .. n /\ i <= limit + 2
    BY <1>2
<1>4. DOMAIN first = 1 .. m /\ \A i \in 1 .. m : first[i] = d.blocks[i]
    <2>1. \A i \in 1 .. m : d.blocks[i] \in R
        <3> HIDE DEF R, m
        <3> QED
            BY <1>1, <1>3, ElementOfSeq
    <2>2. /\ first \in Seq(R) /\ Len(first) = m
          /\ \A i \in 1 .. m : first[i] = d.blocks[i]
        <3> HIDE DEF R, m
        <3>1. m \in Nat /\ 1 \in Nat
            BY <1>2, <1>3
        <3> QED
            BY <1>1, <2>1, <3>1, SubSeqProperties, SMT
    <2> HIDE DEF R, m, first
    <2> QED
        BY <2>2, LenProperties
<1>5. Within(d, limit).blocks = first
    BY DEF Within, IsDevice
<1>6. BlockStarts(Within(d, limit), ids)
        = {Starts(first)[i] : i \in {j \in DOMAIN first : first[j].id \in ids}}
    BY <1>5 DEF BlockStarts
<1> HIDE DEF m, first, n
<1> QED
    BY <1>2, <1>3, <1>4, <1>6 DEF n

\* The address of a block is one of its kind.
LEMMA BlockHasStart ==
    ASSUME NEW d, IsDevice(d), NEW ids, NEW i \in 1 .. Len(d.blocks),
           Blocks(d)[i].id \in ids
    PROVE  Starts(Blocks(d))[i] \in BlockStarts(d, ids)
<1>1. /\ Len(d.blocks) \in Nat \ {0} /\ LastBlock(d) \in Nat
      /\ Len(d.blocks) <= LastBlock(d)
      /\ DOMAIN d.blocks = 1 .. Len(d.blocks) /\ DOMAIN Blocks(d) = 1 .. LastBlock(d)
      /\ \A j \in 1 .. LastBlock(d) : Blocks(d)[j].length \in Nat
      /\ \A j \in 1 .. Len(d.blocks) : d.blocks[j] = Blocks(d)[j]
    BY DeviceBlocks DEF LastBlock
<1>2. Starts(d.blocks)[i] = Starts(Blocks(d))[i]
    BY <1>1, StartsOfPrefix
<1>3. Starts(d.blocks)[i] \in BlockStarts(d, ids)
    BY <1>1 DEF BlockStarts
<1> QED
    BY <1>2, <1>3

\* A survey finds what it must.
LEMMA SurveyedRight ==
    ASSUME NEW d, IsDevice(d), NEW kinds, NEW limit \in Nat,
           NEW required \in SUBSET DOMAIN kinds
    PROVE  FoundRight(d, kinds, required, limit, Surveyed(d, kinds, required, limit))
<1> DEFINE has(kind) == BlockStarts(Within(d, limit), kinds[kind]) # {}
           walk == Walk(d, kinds, limit)
           found == Surveyed(d, kinds, required, limit)
<1>1. found = IF d.sunspec /\ ~walk.failed /\ \A kind \in required : walk.found[kind] > 0
              THEN {walk.found} ELSE {}
    BY DEF Surveyed
<1>2. Aligned(d) =>
         /\ walk \in WalksOf(kinds) /\ ~walk.failed
         /\ \A kind \in DOMAIN kinds : walk.found[kind] # 0 =>
               walk.found[kind] > 0 /\ walk.found[kind] \in BlockStarts(d, kinds[kind])
    <2> SUFFICES ASSUME Aligned(d)
                 PROVE  /\ walk \in WalksOf(kinds) /\ ~walk.failed
                        /\ \A kind \in DOMAIN kinds : walk.found[kind] # 0 =>
                              walk.found[kind] > 0
                                /\ walk.found[kind] \in BlockStarts(d, kinds[kind])
        OBVIOUS
    <2>1. walk \in WalksOf(kinds) /\ ~walk.failed
        BY AlignedWalk
    <2>2. ASSUME NEW kind \in DOMAIN kinds, walk.found[kind] # 0
          PROVE  walk.found[kind] > 0 /\ walk.found[kind] \in BlockStarts(d, kinds[kind])
        <3>1. PICK i \in 1 .. Len(d.blocks) : /\ Blocks(d)[i].id \in kinds[kind]
                                              /\ walk.found[kind] = Starts(Blocks(d))[i]
            BY <2>2, AlignedWalk
        <3>2. walk.found[kind] \in BlockStarts(d, kinds[kind])
            BY <3>1, BlockHasStart
        <3>3. i \in 1 .. LastBlock(d)
            BY DeviceBlocks DEF LastBlock
        <3>4. Starts(Blocks(d))[i] \in FirstBlock .. Addresses - 2
            BY <3>3, WithinAddresses
        <3> HIDE DEF walk
        <3> QED
            BY <3>1, <3>2, <3>4, SMT DEF FirstBlock
    <2> QED
        BY <2>1, <2>2
<1> HIDE DEF walk
<1>3. ASSUME Conforming(d)
      PROVE  /\ found # {} <=> d.sunspec /\ \A kind \in required : has(kind)
             /\ \A blocks \in found, kind \in DOMAIN kinds : blocks[kind] # 0 <=> has(kind)
    <2>1. Aligned(d)
        BY <1>3, ConformingIsAligned
    <2>2. ASSUME NEW kind \in DOMAIN kinds PROVE walk.found[kind] # 0 <=> has(kind)
        BY <1>3, ConformingWalk, HasBlocks DEF walk
    <2>3. ASSUME NEW kind \in DOMAIN kinds PROVE walk.found[kind] > 0 <=> has(kind)
        BY <1>2, <2>1, <2>2
    <2> HIDE DEF has, found
    <2> QED
        BY <1>1, <1>2, <2>1, <2>2, <2>3
<1>4. ASSUME Aligned(d)
      PROVE  \A blocks \in found, kind \in DOMAIN kinds :
                blocks[kind] \in BlockStarts(d, kinds[kind]) \cup {0}
    <2> HIDE DEF has, found
    <2> QED
        BY <1>1, <1>2, <1>4
<1> QED
    BY <1>3, <1>4 DEF FoundRight

-----------------------------------------------------------------------------
(* The discovery actor *)

Of(k) == {m \in Messages : m.type = k}

\* Requests of a kind that are not answered, and answers that are not read.
Owed(p, q, k) == p[k] + HowMany(q, Of(k))

TypeOk ==
    /\ devices \in Devices /\ trackHouse \in BOOLEAN /\ ready \in BOOLEAN
    /\ state \in {"waitingHealthy", "waitingInfo", "done", "stopped"}
    /\ mailbox \in Seq(Messages)
    /\ pending \in [Kinds -> Nat]
    /\ healthyRecv \in 0 .. 2
    /\ modbusActorHealthy \in BOOLEAN /\ mqttActorHealthy \in BOOLEAN
    /\ inverter \in InverterDevices /\ meter \in MeterDevices
    /\ opened \in {"not", "failed", "open"}

\* Of each kind at most one answer is owed, and of the health checks as many as
\* are not counted; an instance that is gone leaves none behind.
AnswersOwed ==
    /\ state = "waitingHealthy" =>
          /\ healthyRecv < 2
          /\ healthyRecv + Owed(pending, mailbox, "modbus") + Owed(pending, mailbox, "mqtt") = 2
          /\ Owed(pending, mailbox, "modbus") <= 1 /\ Owed(pending, mailbox, "mqtt") <= 1
    /\ state # "waitingHealthy" =>
          Owed(pending, mailbox, "modbus") = 0 /\ Owed(pending, mailbox, "mqtt") = 0
    /\ Owed(pending, mailbox, "info") = IF state = "waitingInfo" THEN 1 ELSE 0

Answered(q) == \E i \in DOMAIN q : q[i].type \in {"modbus", "info"} /\ q[i].ok

\* Nobody hears of a Modbus actor that is well before the devices are open.
OpenFirst ==
    \/ ready \/ Answered(mailbox)
    \/ state = "waitingHealthy" /\ modbusActorHealthy
    \/ state \in {"waitingInfo", "done"}
    => opened = "open"

AnnouncedWhenDone ==
    announced = IF state = "done" THEN AnnouncedFor(devices, trackHouse) ELSE {}

\* What is known of the devices is what the last surveys told.
KnownAsSurveyed ==
    opened # "not" =>
        /\ inverterBlocks = InverterSurvey(inverter)
        /\ meterBlocks = IF inverterBlocks = {} \/ meter = NoMeter THEN {} ELSE MeterSurvey(meter)
        /\ devices = [storage |-> \E found \in inverterBlocks : HasStorage(inverter, found),
                      meter |-> meterBlocks # {}]
        /\ opened = "open" => inverterBlocks # {}

IInv == TypeOk /\ AnswersOwed /\ OpenFirst /\ AnnouncedWhenDone /\ KnownAsSurveyed


\* A message that is read leaves those behind it.
LEMMA Taken ==
    ASSUME NEW q \in Seq(Messages), q # <<>>
    PROVE  /\ Head(q) \in Messages /\ Tail(q) \in Seq(Messages)
           /\ \A k \in Kinds :
                 /\ HowMany(Tail(q), Of(k)) \in Nat
                 /\ HowMany(q, Of(k))
                      = HowMany(Tail(q), Of(k)) + (IF Head(q).type = k THEN 1 ELSE 0)
           /\ Head(q).type \in {"modbus", "info"} /\ Head(q).ok => Answered(q)
<1>1. Head(q) \in Messages /\ Tail(q) \in Seq(Messages)
    BY HeadTailProperties
<1>2. ASSUME NEW k \in Kinds
      PROVE  /\ HowMany(Tail(q), Of(k)) \in Nat
             /\ HowMany(q, Of(k))
                  = HowMany(Tail(q), Of(k)) + (IF Head(q).type = k THEN 1 ELSE 0)
    <2>1. HowMany(q, Of(k)) = HowMany(Tail(q), Of(k)) + (IF Head(q) \in Of(k) THEN 1 ELSE 0)
        BY HowManyTail
    <2>2. Head(q) \in Of(k) <=> Head(q).type = k
        BY <1>1 DEF Of
    <2>3. HowMany(Tail(q), Of(k)) \in Nat
        BY <1>1, HowManyNat
    <2> QED
        BY <2>1, <2>2, <2>3
<1>3. 1 \in DOMAIN q /\ q[1] = Head(q)
    <2>1. Len(q) \in Nat /\ Len(q) # 0 /\ DOMAIN q = 1 .. Len(q)
        BY LenProperties, EmptySeq
    <2> QED
        BY <2>1
<1> QED
    BY <1>1, <1>2, <1>3 DEF Answered

\* The counts of the requests and of the answers are numbers.
LEMMA OwedIsNumber ==
    ASSUME NEW p \in [Kinds -> Nat], NEW q \in Seq(Messages), NEW k \in Kinds
    PROVE  p[k] \in Nat /\ HowMany(q, Of(k)) \in Nat /\ Owed(p, q, k) \in Nat
<1>1. p[k] \in Nat
    OBVIOUS
<1>2. HowMany(q, Of(k)) \in Nat
    BY HowManyNat
<1> QED
    BY <1>1, <1>2 DEF Owed

\* The types stay right if those of what the actor changes do.
LEMMA TypesKept ==
    ASSUME TypeOk, UNCHANGED surveyVars, UNCHANGED <<devices, trackHouse, ready>>,
           state' \in {"waitingHealthy", "waitingInfo", "done", "stopped"},
           mailbox' \in Seq(Messages), pending' \in [Kinds -> Nat], healthyRecv' \in 0 .. 2,
           modbusActorHealthy' \in BOOLEAN, mqttActorHealthy' \in BOOLEAN
    PROVE  TypeOk'
BY DEF TypeOk, surveyVars

\* Opening the devices, at the start or again, disturbs nobody who was told of them.
LEMMA OpenKeeps ==
    IInv /\ Open => IInv'
<1> SUFFICES ASSUME IInv, Open PROVE IInv'
    OBVIOUS
<1>1. /\ TypeOk /\ AnswersOwed /\ OpenFirst /\ AnnouncedWhenDone
      /\ UNCHANGED <<inverter, meter, trackHouse, ready, state, mailbox, pending, healthyRecv,
                     modbusActorHealthy, mqttActorHealthy, announced>>
    BY DEF IInv, Open
<1>2. opened # "open" /\ opened' \in {"failed", "open"}
    BY DEF Open
<1>3. state \notin {"waitingInfo", "done"} /\ ~ready /\ ~Answered(mailbox)
      /\ ~(state = "waitingHealthy" /\ modbusActorHealthy)
    BY <1>1, <1>2 DEF OpenFirst
<1>4. devices' \in Devices
    BY DEF Open, Devices
<1>5. TypeOk'
    BY <1>1, <1>2, <1>4 DEF TypeOk
<1>6. AnswersOwed'
    BY <1>1 DEF AnswersOwed
<1>7. OpenFirst'
    BY <1>1, <1>3 DEF OpenFirst
<1>8. AnnouncedWhenDone'
    BY <1>1, <1>3 DEF AnnouncedWhenDone
<1>9. KnownAsSurveyed'
    BY <1>1 DEF Open, KnownAsSurveyed
<1> QED
    BY <1>5, <1>6, <1>7, <1>8, <1>9 DEF IInv

\* The steps of the discovery actor leave the devices as they are.
LEMMA DevicesStay ==
    ASSUME IInv, Next, UNCHANGED surveyVars
    PROVE  /\ devices' = devices /\ trackHouse' = trackHouse
           /\ KnownAsSurveyed'
<1>1. devices' = devices /\ trackHouse' = trackHouse
    BY DEF Next, Handle, HealthResponse, DevicesInfo, FutureCompletes, ReadyChanges
<1>2. KnownAsSurveyed'
    BY <1>1 DEF IInv, KnownAsSurveyed, surveyVars
<1> QED
    BY <1>1, <1>2

\* One of the answers that are owed is read.
LEMMA OneLessOwed ==
    ASSUME NEW r \in Nat, NEW x \in Nat, NEW y \in Nat, NEW b \in Nat, NEW c \in Nat,
           NEW h \in Nat, NEW i \in Nat, (h = b + 1 /\ i = c) \/ (h = b /\ i = c + 1),
           r + (x + h) + (y + i) = 2, x + h <= 1, y + i <= 1
    PROVE  r + (x + b) + (y + c) = 1 /\ x + b <= 1 /\ y + c <= 1
OBVIOUS

\* The health checks: the answers to come are those of the instance that counts.
LEMMA HealthResponseKeeps ==
    ASSUME IInv, HealthResponse, UNCHANGED surveyVars
    PROVE  TypeOk' /\ AnswersOwed'
<1>1. /\ TypeOk /\ AnswersOwed /\ state = "waitingHealthy" /\ mailbox # <<>>
      /\ Message.type \in {"modbus", "mqtt"} /\ mailbox' = Tail(mailbox)
      /\ mailbox \in Seq(Messages) /\ pending \in [Kinds -> Nat]
      /\ UNCHANGED <<devices, trackHouse, ready>>
    BY DEF IInv, HealthResponse, TypeOk
<1> DEFINE am == HowMany(Tail(mailbox), Of("modbus"))
           aq == HowMany(Tail(mailbox), Of("mqtt"))
           ai == HowMany(Tail(mailbox), Of("info"))
           t == Message.type
<1>2. /\ mailbox' \in Seq(Messages)
      /\ \A k \in Kinds :
            /\ HowMany(Tail(mailbox), Of(k)) \in Nat
            /\ HowMany(mailbox, Of(k))
                 = HowMany(Tail(mailbox), Of(k)) + (IF t = k THEN 1 ELSE 0)
    BY <1>1, Taken DEF Message
<1>3. "modbus" \in Kinds /\ "mqtt" \in Kinds /\ "info" \in Kinds
    BY DEF Kinds
<1>4. /\ healthyRecv \in {0, 1}
      /\ pending["modbus"] \in Nat /\ pending["mqtt"] \in Nat /\ pending["info"] \in Nat
      /\ healthyRecv + (pending["modbus"] + HowMany(mailbox, Of("modbus")))
            + (pending["mqtt"] + HowMany(mailbox, Of("mqtt"))) = 2
      /\ pending["modbus"] + HowMany(mailbox, Of("modbus")) <= 1
      /\ pending["mqtt"] + HowMany(mailbox, Of("mqtt")) <= 1
      /\ pending["info"] + HowMany(mailbox, Of("info")) = 0
    <2>1. healthyRecv \in {0, 1}
        BY <1>1 DEF TypeOk, AnswersOwed
    <2> QED
        BY <1>1, <1>3, <2>1 DEF AnswersOwed, Owed
<1>5. /\ HowMany(mailbox', Of("modbus")) = am /\ HowMany(mailbox', Of("mqtt")) = aq
      /\ HowMany(mailbox', Of("info")) = ai
    BY <1>1
<1>6. /\ healthyRecv + (pending["modbus"] + am) + (pending["mqtt"] + aq) = 1
      /\ pending["modbus"] + am <= 1 /\ pending["mqtt"] + aq <= 1
      /\ pending["info"] + ai = 0
      /\ am \in Nat /\ aq \in Nat /\ ai \in Nat
    <2>1. /\ am \in Nat /\ aq \in Nat /\ ai \in Nat
          /\ HowMany(mailbox, Of("modbus")) = am + (IF t = "modbus" THEN 1 ELSE 0)
          /\ HowMany(mailbox, Of("mqtt")) = aq + (IF t = "mqtt" THEN 1 ELSE 0)
          /\ HowMany(mailbox, Of("info")) = ai + (IF t = "info" THEN 1 ELSE 0)
        BY <1>2, <1>3
    <2>4. /\ healthyRecv \in Nat
          /\ HowMany(mailbox, Of("modbus")) \in Nat /\ HowMany(mailbox, Of("mqtt")) \in Nat
          /\ HowMany(mailbox, Of("info")) \in Nat /\ am \in Nat /\ aq \in Nat /\ ai \in Nat
        <3>1. \A k : HowMany(mailbox, Of(k)) \in Nat
            BY <1>1, HowManyNat
        <3> QED
            BY <1>4, <2>1, <3>1
    <2> HIDE DEF am, aq, ai, t
    <2>2. /\ \/ HowMany(mailbox, Of("modbus")) = am + 1
                /\ HowMany(mailbox, Of("mqtt")) = aq
             \/ HowMany(mailbox, Of("modbus")) = am
                /\ HowMany(mailbox, Of("mqtt")) = aq + 1
          /\ HowMany(mailbox, Of("info")) = ai
        <3>1. CASE t = "modbus"
            BY <2>1, <3>1
        <3>2. CASE t = "mqtt"
            BY <2>1, <3>2
        <3> QED
            BY <1>1, <3>1, <3>2 DEF t
    <2>3. /\ healthyRecv + (pending["modbus"] + am) + (pending["mqtt"] + aq) = 1
          /\ pending["modbus"] + am <= 1 /\ pending["mqtt"] + aq <= 1
        BY <1>4, <2>2, <2>4, OneLessOwed
    <2> QED
        BY <1>4, <2>1, <2>2, <2>3
<1>6a. healthyRecv = 1 => pending["modbus"] + am = 0 /\ pending["mqtt"] + aq = 0
    <2> DEFINE x == pending["modbus"] + am
               y == pending["mqtt"] + aq
    <2>1. x \in Nat /\ y \in Nat
        BY <1>4, <1>6
    <2>2. healthyRecv + x + y = 1
        BY <1>6
    <2> HIDE DEF x, y
    <2>3. healthyRecv = 1 => x = 0 /\ y = 0
        BY <2>1, <2>2
    <2> QED
        BY <2>3 DEF x, y
<1>6b. /\ pending["modbus"] \in Nat /\ pending["mqtt"] \in Nat /\ am \in Nat /\ aq \in Nat
       /\ pending["modbus"] + am \in Nat /\ pending["mqtt"] + aq \in Nat
    BY <1>4, <1>6
<1> HIDE DEF am, aq, ai, t
<1> DEFINE modbus == modbusActorHealthy \/ (Message.type = "modbus" /\ Message.ok)
           mqtt == mqttActorHealthy \/ (Message.type = "mqtt" /\ Message.ok)
<1>7. Message \in Messages /\ modbus \in BOOLEAN /\ mqtt \in BOOLEAN
    <2>1. Message \in Messages
        BY <1>1, Taken DEF Message
    <2>2. Message.ok \in BOOLEAN
        BY <2>1 DEF Messages
    <2> QED
        BY <1>1, <2>1, <2>2 DEF TypeOk
<1>8. \/ healthyRecv = 1 /\ Started
      \/ /\ healthyRecv = 1 /\ state' = "stopped"
         /\ UNCHANGED <<pending, healthyRecv, modbusActorHealthy, mqttActorHealthy>>
      \/ /\ healthyRecv' = healthyRecv + 1
         /\ modbusActorHealthy' = modbus /\ mqttActorHealthy' = mqtt
         /\ IF healthyRecv + 1 = 2
            THEN pending' = [pending EXCEPT !["info"] = @ + 1] /\ state' = "waitingInfo"
            ELSE UNCHANGED <<pending, state>>
    <2>1. IF healthyRecv + 1 = 2 /\ ~(modbus /\ mqtt)
          THEN Panic
          ELSE /\ healthyRecv' = healthyRecv + 1
               /\ modbusActorHealthy' = modbus /\ mqttActorHealthy' = mqtt
               /\ IF healthyRecv + 1 = 2
                  THEN pending' = [pending EXCEPT !["info"] = @ + 1] /\ state' = "waitingInfo"
                  ELSE UNCHANGED <<pending, state>>
        BY DEF HealthResponse
    <2> HIDE DEF modbus, mqtt
    <2>2. healthyRecv + 1 = 2 <=> healthyRecv = 1
        BY <1>4
    <2> QED
        BY <2>1, <2>2 DEF Panic
<1> HIDE DEF modbus, mqtt
<1>9. CASE healthyRecv = 1 /\ Started
    <2>1. /\ pending' \in [Kinds -> Nat] /\ pending'["modbus"] = pending["modbus"] + 1
          /\ pending'["mqtt"] = pending["mqtt"] + 1 /\ pending'["info"] = pending["info"]
        BY <1>1, <1>3, <1>9 DEF Started
    <2>2. /\ healthyRecv' = 0 /\ state' = "waitingHealthy"
          /\ modbusActorHealthy' = FALSE /\ mqttActorHealthy' = FALSE
        BY <1>9 DEF Started
    <2>3. TypeOk'
        <3>1. /\ healthyRecv' \in 0 .. 2
              /\ state' \in {"waitingHealthy", "waitingInfo", "done", "stopped"}
            BY <2>2
        <3>2. modbusActorHealthy' \in BOOLEAN /\ mqttActorHealthy' \in BOOLEAN
            BY <2>2, Zenon
        <3> QED
            BY <1>1, <1>2, <2>1, <3>1, <3>2, TypesKept
    <2>4. pending["modbus"] + am = 0 /\ pending["mqtt"] + aq = 0
        BY <1>9, <1>6a
    <2>5. /\ Owed(pending', mailbox', "modbus") = 1 /\ Owed(pending', mailbox', "mqtt") = 1
          /\ Owed(pending', mailbox', "info") = 0
        <3>1. (pending["modbus"] + 1) + am = 1 /\ (pending["mqtt"] + 1) + aq = 1
            <4>1. \A x, y \in Nat : x + y = 0 => (x + 1) + y = 1
                OBVIOUS
            <4> QED
                BY <1>6b, <2>4, <4>1
        <3> QED
            BY <1>5, <1>6, <2>1, <3>1 DEF Owed
    <2>6. AnswersOwed'
        BY <2>2, <2>5 DEF AnswersOwed
    <2> QED
        BY <2>3, <2>6
<1>10. CASE /\ healthyRecv = 1 /\ state' = "stopped"
            /\ UNCHANGED <<pending, healthyRecv, modbusActorHealthy, mqttActorHealthy>>
    <2>1. TypeOk'
        BY <1>1, <1>2, <1>10, TypesKept DEF TypeOk
    <2>2. pending["modbus"] + am = 0 /\ pending["mqtt"] + aq = 0
        BY <1>10, <1>6a
    <2>3. AnswersOwed'
        BY <1>4, <1>5, <1>6, <1>10, <2>2 DEF AnswersOwed, Owed
    <2> QED
        BY <2>1, <2>3
<1>11. CASE /\ healthyRecv' = healthyRecv + 1
            /\ modbusActorHealthy' = modbus /\ mqttActorHealthy' = mqtt
            /\ IF healthyRecv + 1 = 2
               THEN pending' = [pending EXCEPT !["info"] = @ + 1] /\ state' = "waitingInfo"
               ELSE UNCHANGED <<pending, state>>
    <2>1. CASE healthyRecv = 1
        <3>1. /\ healthyRecv' = 2 /\ state' = "waitingInfo"
              /\ pending' = [pending EXCEPT !["info"] = @ + 1]
            BY <1>11, <2>1
        <3>2. /\ pending' \in [Kinds -> Nat] /\ pending'["modbus"] = pending["modbus"]
              /\ pending'["mqtt"] = pending["mqtt"] /\ pending'["info"] = pending["info"] + 1
            BY <1>1, <1>3, <1>4, <3>1
        <3>3. TypeOk'
            BY <1>1, <1>2, <1>7, <1>11, <3>1, <3>2, TypesKept
        <3>4. pending["modbus"] + am = 0 /\ pending["mqtt"] + aq = 0
            BY <2>1, <1>6a
        <3>5. /\ Owed(pending', mailbox', "modbus") = 0 /\ Owed(pending', mailbox', "mqtt") = 0
              /\ Owed(pending', mailbox', "info") = 1
            <4>1. (pending["info"] + 1) + ai = 1
                BY <1>4, <1>6
            <4> QED
                BY <1>5, <3>2, <3>4, <4>1 DEF Owed
        <3>6. AnswersOwed'
            BY <3>1, <3>5 DEF AnswersOwed
        <3> QED
            BY <3>3, <3>6
    <2>2. CASE healthyRecv = 0
        <3>1. healthyRecv' = 1 /\ UNCHANGED <<pending, state>>
            BY <1>11, <2>2
        <3>2. TypeOk'
            BY <1>1, <1>2, <1>7, <1>11, <3>1, TypesKept
        <3>3. /\ healthyRecv' + Owed(pending', mailbox', "modbus")
                    + Owed(pending', mailbox', "mqtt") = 2
              /\ Owed(pending', mailbox', "modbus") <= 1 /\ Owed(pending', mailbox', "mqtt") <= 1
              /\ Owed(pending', mailbox', "info") = 0
            <4>1. /\ pending' = pending
                  /\ healthyRecv' = 1
                BY <3>1
            <4>2. 0 + (pending["modbus"] + am) + (pending["mqtt"] + aq) = 1
                BY <1>6, <2>2
            <4> DEFINE x == pending["modbus"] + am
                       y == pending["mqtt"] + aq
            <4>3. /\ x \in Nat /\ y \in Nat
                BY <1>6b
            <4>4. 0 + x + y = 1
                BY <4>2
            <4>5. /\ Owed(pending', mailbox', "modbus") = x
                  /\ Owed(pending', mailbox', "mqtt") = y
                  /\ Owed(pending', mailbox', "info") = 0
                BY <1>5, <1>6, <4>1 DEF Owed
            <4> HIDE DEF x, y
            <4>6. 1 + x + y = 2 /\ x <= 1 /\ y <= 1
                BY <4>3, <4>4
            <4> QED
                BY <4>1, <4>5, <4>6
        <3>4. AnswersOwed'
            BY <1>1, <3>1, <3>3 DEF AnswersOwed
        <3> QED
            BY <3>2, <3>4
    <2> QED
        BY <1>4, <2>1, <2>2
<1> QED
    BY <1>8, <1>9, <1>10, <1>11

\* The answer of the devices, and the panic without one.
LEMMA DevicesInfoKeeps ==
    ASSUME IInv, DevicesInfo, UNCHANGED surveyVars
    PROVE  TypeOk' /\ AnswersOwed'
<1>1. /\ TypeOk /\ AnswersOwed /\ state = "waitingInfo" /\ mailbox # <<>>
      /\ Message.type = "info" /\ mailbox' = Tail(mailbox)
      /\ mailbox \in Seq(Messages) /\ pending \in [Kinds -> Nat]
      /\ UNCHANGED <<devices, trackHouse, ready>>
    BY DEF IInv, DevicesInfo, TypeOk
<1>2. /\ mailbox' \in Seq(Messages)
      /\ \A k \in Kinds :
            /\ HowMany(Tail(mailbox), Of(k)) \in Nat
            /\ HowMany(mailbox, Of(k))
                 = HowMany(Tail(mailbox), Of(k)) + (IF Message.type = k THEN 1 ELSE 0)
    BY <1>1, Taken DEF Message
<1>3. "modbus" \in Kinds /\ "mqtt" \in Kinds /\ "info" \in Kinds
    BY DEF Kinds
<1>4. /\ pending["modbus"] \in Nat /\ pending["mqtt"] \in Nat /\ pending["info"] \in Nat
      /\ pending["modbus"] + HowMany(mailbox, Of("modbus")) = 0
      /\ pending["mqtt"] + HowMany(mailbox, Of("mqtt")) = 0
      /\ pending["info"] + HowMany(mailbox, Of("info")) = 1
    BY <1>1, <1>3 DEF AnswersOwed, Owed
<1>5. /\ pending["modbus"] + HowMany(mailbox', Of("modbus")) = 0
      /\ pending["mqtt"] + HowMany(mailbox', Of("mqtt")) = 0
      /\ pending["info"] + HowMany(mailbox', Of("info")) = 0
      /\ HowMany(mailbox', Of("modbus")) \in Nat /\ HowMany(mailbox', Of("mqtt")) \in Nat
      /\ HowMany(mailbox', Of("info")) \in Nat
    <2>1. /\ HowMany(mailbox', Of("modbus")) \in Nat /\ HowMany(mailbox', Of("mqtt")) \in Nat
          /\ HowMany(mailbox', Of("info")) \in Nat
          /\ HowMany(mailbox, Of("modbus")) = HowMany(mailbox', Of("modbus"))
          /\ HowMany(mailbox, Of("mqtt")) = HowMany(mailbox', Of("mqtt"))
          /\ HowMany(mailbox, Of("info")) = HowMany(mailbox', Of("info")) + 1
        BY <1>1, <1>2, <1>3
    <2> QED
        BY <1>4, <2>1
<1>6. \/ Started
      \/ /\ state' \in {"stopped", "done"}
         /\ UNCHANGED <<pending, healthyRecv, modbusActorHealthy, mqttActorHealthy>>
    BY DEF DevicesInfo, Panic
<1>7. CASE Started
    <2>1. /\ pending' \in [Kinds -> Nat] /\ pending'["modbus"] = pending["modbus"] + 1
          /\ pending'["mqtt"] = pending["mqtt"] + 1 /\ pending'["info"] = pending["info"]
        BY <1>1, <1>3, <1>7 DEF Started
    <2>2. /\ healthyRecv' = 0 /\ state' = "waitingHealthy"
          /\ modbusActorHealthy' = FALSE /\ mqttActorHealthy' = FALSE
        BY <1>7 DEF Started
    <2>3. TypeOk'
        <3>1. /\ healthyRecv' \in 0 .. 2
              /\ state' \in {"waitingHealthy", "waitingInfo", "done", "stopped"}
            BY <2>2
        <3>2. modbusActorHealthy' \in BOOLEAN /\ mqttActorHealthy' \in BOOLEAN
            BY <2>2, Zenon
        <3> QED
            BY <1>1, <1>2, <2>1, <3>1, <3>2, TypesKept
    <2>4. AnswersOwed'
        BY <1>4, <1>5, <2>1, <2>2 DEF AnswersOwed, Owed
    <2> QED
        BY <2>3, <2>4
<1>8. CASE /\ state' \in {"stopped", "done"}
           /\ UNCHANGED <<pending, healthyRecv, modbusActorHealthy, mqttActorHealthy>>
    <2>1. TypeOk'
        BY <1>1, <1>2, <1>8, TypesKept DEF TypeOk
    <2>2. AnswersOwed'
        BY <1>4, <1>5, <1>8 DEF AnswersOwed, Owed
    <2> QED
        BY <2>1, <2>2
<1> QED
    BY <1>6, <1>7, <1>8

\* An answer takes the place of its request.
LEMMA FutureKeeps ==
    ASSUME IInv, NEW k \in Kinds, FutureCompletes(k), UNCHANGED surveyVars
    PROVE  TypeOk' /\ AnswersOwed'
<1>1. /\ TypeOk /\ AnswersOwed /\ mailbox \in Seq(Messages) /\ pending \in [Kinds -> Nat]
      /\ pending[k] > 0 /\ pending' = [pending EXCEPT ![k] = @ - 1]
      /\ UNCHANGED <<devices, trackHouse, ready, state, healthyRecv, modbusActorHealthy,
                     mqttActorHealthy, announced>>
    BY DEF IInv, FutureCompletes, TypeOk
<1>2. PICK ok \in BOOLEAN : mailbox' = Append(mailbox, [type |-> k, ok |-> ok])
    BY DEF FutureCompletes
<1>3. [type |-> k, ok |-> ok] \in Messages
    BY DEF Messages
<1>4. \A j \in Kinds :
         /\ pending'[j] = IF j = k THEN pending[j] - 1 ELSE pending[j]
         /\ HowMany(mailbox', Of(j)) = HowMany(mailbox, Of(j)) + (IF j = k THEN 1 ELSE 0)
         /\ HowMany(mailbox, Of(j)) \in Nat /\ pending[j] \in Nat
    <2> SUFFICES ASSUME NEW j \in Kinds
                 PROVE  /\ pending'[j] = IF j = k THEN pending[j] - 1 ELSE pending[j]
                        /\ HowMany(mailbox', Of(j))
                             = HowMany(mailbox, Of(j)) + (IF j = k THEN 1 ELSE 0)
                        /\ HowMany(mailbox, Of(j)) \in Nat /\ pending[j] \in Nat
        OBVIOUS
    <2>1. [type |-> k, ok |-> ok] \in Of(j) <=> j = k
        BY <1>3 DEF Of
    <2>2. HowMany(mailbox', Of(j))
            = HowMany(mailbox, Of(j)) + (IF [type |-> k, ok |-> ok] \in Of(j) THEN 1 ELSE 0)
        BY <1>1, <1>2, <1>3, QueueGrows
    <2>3. HowMany(mailbox, Of(j)) \in Nat
        BY <1>1, HowManyNat
    <2> QED
        BY <1>1, <2>1, <2>2, <2>3
<1>5. \A j \in Kinds : Owed(pending', mailbox', j) = Owed(pending, mailbox, j)
    <2> SUFFICES ASSUME NEW j \in Kinds
                 PROVE  Owed(pending', mailbox', j) = Owed(pending, mailbox, j)
        OBVIOUS
    <2> QED
        BY <1>4 DEF Owed
<1>6. mailbox' \in Seq(Messages)
    BY <1>1, <1>2, <1>3, AppendProperties
<1>7. pending' \in [Kinds -> Nat]
    BY <1>1
<1>8. TypeOk'
    BY <1>1, <1>6, <1>7, TypesKept DEF TypeOk
<1>9. "modbus" \in Kinds /\ "mqtt" \in Kinds /\ "info" \in Kinds
    BY DEF Kinds
<1>10. AnswersOwed'
    BY <1>1, <1>5, <1>9 DEF AnswersOwed
<1> QED
    BY <1>8, <1>10

\* Types and counts stay right, whatever the actor does.
LEMMA CountsKept ==
    ASSUME IInv, Next, UNCHANGED surveyVars
    PROVE  TypeOk' /\ AnswersOwed'
<1>1. CASE HealthResponse
    BY <1>1, HealthResponseKeeps
<1>2. CASE DevicesInfo
    BY <1>2, DevicesInfoKeeps
<1>3. CASE \E k \in Kinds : FutureCompletes(k)
    BY <1>3, FutureKeeps
<1>4. CASE ReadyChanges
    BY <1>4 DEF ReadyChanges, IInv, TypeOk, AnswersOwed, surveyVars
<1> QED
    BY <1>1, <1>2, <1>3, <1>4 DEF Next, Handle

\* Nothing is known to be well, and nothing announced, that the devices, once
\* open, do not stand for.
LEMMA AnnouncementKept ==
    ASSUME IInv, Next, UNCHANGED surveyVars, ready' \/ ModbusAnswered => opened = "open"
    PROVE  OpenFirst' /\ AnnouncedWhenDone'
<1>1. /\ opened' = opened /\ devices' = devices /\ trackHouse' = trackHouse
      /\ mailbox \in Seq(Messages) /\ healthyRecv \in 0 .. 2
    BY DevicesStay DEF surveyVars, IInv, TypeOk
<1>2. ready' \/ Answered(mailbox') => opened = "open"
    BY DEF ModbusAnswered, Answered
<1>3. AnnouncedWhenDone /\ OpenFirst
    BY DEF IInv
<1>4. CASE HealthResponse
    <2>1. mailbox # <<>> /\ state = "waitingHealthy" /\ UNCHANGED announced
        BY <1>4 DEF HealthResponse, Panic
    <2>2. /\ state' # "done"
          /\ state' = "waitingInfo" \/ modbusActorHealthy' =>
                modbusActorHealthy \/ (Message.type = "modbus" /\ Message.ok)
        BY <1>1, <1>4 DEF HealthResponse, Panic, Started
    <2>3. Message.type = "modbus" /\ Message.ok => opened = "open"
        BY <1>1, <1>3, <2>1, Taken DEF Message, OpenFirst
    <2>4. OpenFirst'
        BY <1>1, <1>2, <1>3, <2>1, <2>2, <2>3 DEF OpenFirst
    <2>5. AnnouncedWhenDone'
        BY <1>3, <2>1, <2>2 DEF AnnouncedWhenDone
    <2> QED
        BY <2>4, <2>5
<1>5. CASE DevicesInfo
    <2>1. opened = "open" /\ state = "waitingInfo"
        BY <1>3, <1>5 DEF DevicesInfo, OpenFirst
    <2>2. OpenFirst'
        BY <1>1, <2>1 DEF OpenFirst
    <2>3. AnnouncedWhenDone'
        BY <1>1, <1>3, <1>5, <2>1 DEF AnnouncedWhenDone, DevicesInfo, Panic, Started
    <2> QED
        BY <2>2, <2>3
<1>6. CASE (\E k \in Kinds : FutureCompletes(k)) \/ ReadyChanges
    <2>1. UNCHANGED <<state, modbusActorHealthy, announced>>
        BY <1>6 DEF FutureCompletes, ReadyChanges
    <2>2. OpenFirst'
        BY <1>1, <1>2, <1>3, <2>1 DEF OpenFirst
    <2>3. AnnouncedWhenDone'
        BY <1>1, <1>3, <2>1 DEF AnnouncedWhenDone
    <2> QED
        BY <2>2, <2>3
<1> QED
    BY <1>4, <1>5, <1>6 DEF Next, Handle

\* The invariant holds at the start and is kept by every step.
LEMMA DiscoveryInvariant ==
    /\ DiscoveryInit => IInv
    /\ IInv /\ [DiscoveryNext]_allVars => IInv'
<1>1. DiscoveryInit => IInv
    <2> SUFFICES ASSUME DiscoveryInit PROVE IInv
        OBVIOUS
    <2>1. TypeOk
        <3>1. /\ devices \in Devices /\ trackHouse \in BOOLEAN /\ ready = FALSE
              /\ state = "waitingHealthy" /\ mailbox = <<>> /\ healthyRecv = 0
              /\ modbusActorHealthy = FALSE /\ mqttActorHealthy = FALSE
              /\ inverter \in InverterDevices /\ meter \in MeterDevices /\ opened = "not"
            BY DEF DiscoveryInit, Init
        <3>2. pending \in [Kinds -> Nat]
            BY DEF DiscoveryInit, Init
        <3>3. <<>> \in Seq(Messages)
            OBVIOUS
        <3>4. ready \in BOOLEAN /\ modbusActorHealthy \in BOOLEAN /\ mqttActorHealthy \in BOOLEAN
            BY <3>1
        <3>5. /\ state \in {"waitingHealthy", "waitingInfo", "done", "stopped"}
              /\ healthyRecv \in 0 .. 2 /\ opened \in {"not", "failed", "open"}
              /\ mailbox \in Seq(Messages)
            BY <3>1, <3>3
        <3> QED
            BY <3>1, <3>2, <3>4, <3>5, Zenon DEF TypeOk
    <2>2. AnswersOwed
        <3>1. mailbox = <<>> /\ state = "waitingHealthy" /\ healthyRecv = 0
              /\ pending = [k \in Kinds |-> IF k = "info" THEN 0 ELSE 1]
            BY DEF DiscoveryInit, Init
        <3>2. \A k \in Kinds : HowMany(mailbox, Of(k)) = 0
            BY <3>1, HowManyShort
        <3> QED
            BY <3>1, <3>2 DEF AnswersOwed, Owed, Kinds
    <2>3. OpenFirst
        BY DEF DiscoveryInit, Init, OpenFirst, Answered
    <2>4. AnnouncedWhenDone /\ KnownAsSurveyed
        BY DEF DiscoveryInit, Init, AnnouncedWhenDone, KnownAsSurveyed
    <2> QED
        BY <2>1, <2>2, <2>3, <2>4 DEF IInv
<1>2. IInv /\ [DiscoveryNext]_allVars => IInv'
    <2> SUFFICES ASSUME IInv, [DiscoveryNext]_allVars PROVE IInv'
        OBVIOUS
    <2>1. CASE Open
        BY <2>1, OpenKeeps
    <2>2. CASE /\ Next /\ (ready' \/ ModbusAnswered => opened = "open")
               /\ UNCHANGED surveyVars
        BY <2>2, CountsKept, AnnouncementKept, DevicesStay DEF IInv
    <2>3. CASE UNCHANGED allVars
        BY <2>3 DEF allVars, vars, surveyVars, IInv, TypeOk, AnswersOwed, OpenFirst,
                    AnnouncedWhenDone, KnownAsSurveyed
    <2> QED
        BY <2>1, <2>2, <2>3 DEF DiscoveryNext
<1> QED
    BY <1>1, <1>2

-----------------------------------------------------------------------------
(* What the invariant gives *)

\* The answers counted and to come are those of the running instance.
LEMMA OwedGivesOutstanding ==
    IInv => OneAnswerEach
<1> SUFFICES ASSUME IInv PROVE OneAnswerEach
    OBVIOUS
<1>1. TypeOk /\ AnswersOwed /\ mailbox \in Seq(Messages) /\ pending \in [Kinds -> Nat]
    BY DEF IInv, TypeOk
<1>2. ASSUME NEW k \in Kinds
      PROVE  /\ Owed(pending, mailbox, k) <= 1 => Outstanding(k) = Owed(pending, mailbox, k)
             /\ Owed(pending, mailbox, k) <= 1 => ~(pending[k] = 1 /\ InQueue(mailbox, {k}))
    <2>1. InQueue(mailbox, {k}) <=> HowMany(mailbox, {m \in Messages : m.type \in {k}}) > 0
        BY <1>1, HowManyOfTypes
    <2>2. {m \in Messages : m.type \in {k}} = Of(k)
        BY DEF Of
    <2>3. HowMany(mailbox, Of(k)) \in Nat /\ pending[k] \in Nat
        BY <1>1, OwedIsNumber
    <2> DEFINE h == HowMany(mailbox, Of(k))
               p == pending[k]
    <2>4. InQueue(mailbox, {k}) <=> h > 0
        BY <2>1, <2>2
    <2>5. h \in Nat /\ p \in Nat
        BY <2>3
    <2>6. Owed(pending, mailbox, k) = p + h
        BY DEF Owed
    <2>7. Outstanding(k) = p + (IF h > 0 THEN 1 ELSE 0)
        BY <2>4 DEF Outstanding
    <2> HIDE DEF h, p
    <2>8. p + h <= 1 => p + (IF h > 0 THEN 1 ELSE 0) = p + h /\ ~(p = 1 /\ h > 0)
        BY <2>5
    <2> QED
        BY <2>4, <2>6, <2>7, <2>8 DEF p
<1>3. \A k \in Kinds : Owed(pending, mailbox, k) <= 1
    BY <1>1 DEF AnswersOwed, Kinds
<1>4. \A k \in Kinds : Outstanding(k) = Owed(pending, mailbox, k)
                         /\ ~(pending[k] = 1 /\ InQueue(mailbox, {k}))
    BY <1>2, <1>3
<1>5. "modbus" \in Kinds /\ "mqtt" \in Kinds /\ "info" \in Kinds
    BY DEF Kinds
<1> QED
    BY <1>1, <1>4, <1>5 DEF AnswersOwed, OneAnswerEach

\* The entities announced and the updates given to them have the same topics.
LEMMA SameTopics ==
    ASSUME NEW id
    PROVE  AnnouncedStateTopic(id) = EventTopic(id)
BY DEF AnnouncedStateTopic, EventTopic, BatteryControlSwitches, BatteryControlInputNumbers,
       BridgeSensors, BatteryControlSwitchesUpdates, BatteryControlSetTargetSoCUpdates,
       BridgeStateUpdates

\* Every entity is given values, and all but the powers of a battery that is not
\* there are announced.
LEMMA AnnouncedAndUpdated ==
    ASSUME NEW d \in Devices, NEW house \in BOOLEAN
    PROVE  /\ AnnouncedFor(d, house) \subseteq UpdatesOf(d, house)
           /\ UpdatesOf(d, house) \subseteq AnnouncedFor(d, house) \cup InverterPowerFlowUpdates
<1> USE DEF AnnouncedFor, UpdatesOf, PowerFlowUpdates, BridgeSensors, BridgeStateUpdates
<1>1. BatteryControlSwitches \cup BatteryControlInputNumbers
         = BatteryControlSwitchesUpdates \cup BatteryControlSetTargetSoCUpdates
    BY DEF BatteryControlSwitches, BatteryControlInputNumbers, BatteryControlSwitchesUpdates,
           BatteryControlSetTargetSoCUpdates
<1>2. ACMeterBaseSensors = ACMeterPowerFlowUpdates
    BY DEF ACMeterBaseSensors, ACMeterPowerFlowUpdates
<1>3. /\ InverterStorageSensors \subseteq InverterPowerFlowUpdates \cup StorageStateUpdates
      /\ StorageStateUpdates \subseteq InverterStorageSensors
    BY DEF InverterStorageSensors, InverterPowerFlowUpdates, StorageStateUpdates
<1>4. \A track \in BOOLEAN :
         /\ InverterBaseSensors(track)
              \subseteq InverterPowerFlowUpdates \cup InverterStateUpdates
                          \cup (IF track THEN HousePowerUpdates ELSE {})
         /\ InverterStateUpdates \subseteq InverterBaseSensors(track)
         /\ track => HousePowerUpdates \subseteq InverterBaseSensors(track)
    BY DEF InverterBaseSensors, InverterPowerFlowUpdates, InverterStateUpdates, HousePowerUpdates
<1>5. (house /\ d.meter) \in BOOLEAN
    BY DEF Devices
<1>6. AnnouncedFor(d, house) \subseteq UpdatesOf(d, house)
    BY <1>1, <1>2, <1>3, <1>4, <1>5
<1>7. UpdatesOf(d, house) \subseteq AnnouncedFor(d, house) \cup InverterPowerFlowUpdates
    BY <1>1, <1>2, <1>3, <1>4, <1>5
<1> QED
    BY <1>6, <1>7

\* So no entity is announced that nothing feeds.
LEMMA AnnouncedAreFed ==
    IInv => EveryEntityIsFed
<1> SUFFICES ASSUME IInv PROVE EveryEntityIsFed
    OBVIOUS
<1>1. /\ announced = IF state = "done" THEN AnnouncedFor(devices, trackHouse) ELSE {}
      /\ devices \in Devices /\ trackHouse \in BOOLEAN
    BY DEF IInv, TypeOk, AnnouncedWhenDone
<1>2. announced \subseteq EveryUpdate
    BY <1>1, AnnouncedAndUpdated DEF EveryUpdate
<1>3. state = "done" => EveryUpdate \subseteq announced \cup InverterPowerFlowUpdates
    BY <1>1, AnnouncedAndUpdated DEF EveryUpdate
<1>4. {AnnouncedStateTopic(id) : id \in announced} \subseteq {EventTopic(id) : id \in EveryUpdate}
    BY <1>2, SameTopics
<1> QED
    BY <1>3, <1>4 DEF EveryEntityIsFed

\* The blocks that the surveys found are right, for all the devices there may be.
LEMMA SurveysAreRight ==
    IInv => SurveyFindsBlocks
<1> SUFFICES ASSUME IInv, opened # "not"
             PROVE  /\ FoundRight(inverter, InverterBlocks, InverterRequired, InverterLimit,
                                  inverterBlocks)
                    /\ inverterBlocks # {} /\ meter # NoMeter =>
                          FoundRight(meter, MeterBlocks, MeterRequired, MeterLimit, meterBlocks)
    BY DEF SurveyFindsBlocks
<1>1. /\ inverterBlocks = InverterSurvey(inverter)
      /\ inverterBlocks # {} /\ meter # NoMeter => meterBlocks = MeterSurvey(meter)
      /\ inverter \in InverterDevices /\ meter \in MeterDevices
    BY DEF IInv, KnownAsSurveyed, TypeOk
<1>2. FoundRight(inverter, InverterBlocks, InverterRequired, InverterLimit, inverterBlocks)
    <2>1. InverterLimit \in Nat /\ InverterRequired \in SUBSET DOMAIN InverterBlocks
        BY DEF InverterLimit, InverterRequired, InverterBlocks
    <2>2. IsDevice(inverter)
        BY <1>1, DevicesAssumption
    <2> QED
        BY <1>1, <2>1, <2>2, SurveyedRight DEF InverterSurvey
<1>3. ASSUME inverterBlocks # {}, meter # NoMeter
      PROVE  FoundRight(meter, MeterBlocks, MeterRequired, MeterLimit, meterBlocks)
    <2>1. MeterLimit \in Nat /\ MeterRequired \in SUBSET DOMAIN MeterBlocks
        BY DEF MeterLimit, MeterRequired, MeterBlocks
    <2>2. IsDevice(meter)
        BY <1>1, <1>3, DevicesAssumption
    <2> QED
        BY <1>1, <1>3, <2>1, <2>2, SurveyedRight DEF MeterSurvey
<1> QED
    BY <1>2, <1>3


\* Of a device that tells its lengths rightly the survey says that it has a
\* battery to control if it has one and a storage block.
LEMMA BatteryIsRead ==
    ASSUME NEW d, IsDevice(d), Conforming(d), NEW found \in InverterSurvey(d)
    PROVE  HasStorage(d, found)
             <=> d.battery /\ BlockStarts(Within(d, InverterLimit), {124}) # {}
<1> DEFINE walk == Walk(d, InverterBlocks, InverterLimit)
<1>1. /\ InverterLimit \in Nat /\ Aligned(d)
      /\ InverterRequired \in SUBSET DOMAIN InverterBlocks
      /\ "status" \in DOMAIN InverterBlocks /\ "storage" \in DOMAIN InverterBlocks
      /\ "status" \in InverterRequired
      /\ InverterBlocks["status"] = {122} /\ InverterBlocks["storage"] = {124}
    BY ConformingIsAligned DEF InverterLimit, InverterRequired, InverterBlocks
<1>2. /\ found = walk.found
      /\ \A kind \in InverterRequired : walk.found[kind] > 0
    BY DEF InverterSurvey, Surveyed
<1>3. walk.found \in [DOMAIN InverterBlocks -> Int]
    <2>1. walk \in WalksOf(InverterBlocks)
        BY <1>1, AlignedWalk
    <2> HIDE DEF walk
    <2> QED
        BY <2>1 DEF WalksOf
<1>4. PICK i \in 1 .. Len(d.blocks) : /\ Blocks(d)[i].id \in {122}
                                      /\ walk.found["status"] = Starts(Blocks(d))[i]
    <2>1. walk.found["status"] # 0
        <3> HIDE DEF walk
        <3> QED
            BY <1>1, <1>2, <1>3
    <2> QED
        BY <1>1, <2>1, AlignedWalk
<1>5. /\ i \in 1 .. LastBlock(d) /\ Blocks(d)[i].length \in Nat /\ Blocks(d)[i].length >= 2
    <2>1. /\ i \in 1 .. LastBlock(d) /\ i \in DOMAIN d.blocks
          /\ Blocks(d)[i] = d.blocks[i] /\ d.blocks[i].id = 122
        BY <1>4, DeviceBlocks DEF LastBlock
    <2> QED
        BY <2>1, DeviceBlocks DEF IsDevice
<1>6. ReadRegister(d, found.status + 3) = IF d.battery THEN 1 ELSE 0
    <2>1. 3 \in 0 .. Blocks(d)[i].length + 1
        BY <1>5
    <2>2. ReadRegister(d, Starts(Blocks(d))[i] + 3) = Holds(d, Blocks(d)[i].id, 3)
        BY <1>5, <2>1, ReadBlock
    <2>3. Holds(d, 122, 3) = IF d.battery THEN 1 ELSE 0
        BY DEF Holds
    <2>4. found.status = Starts(Blocks(d))[i] /\ Blocks(d)[i].id = 122
        BY <1>2, <1>4
    <2> QED
        BY <2>2, <2>3, <2>4
<1>7. found.storage > 0 <=> BlockStarts(Within(d, InverterLimit), {124}) # {}
    <2>1. FoundRight(d, InverterBlocks, InverterRequired, InverterLimit, InverterSurvey(d))
        BY <1>1, SurveyedRight DEF InverterSurvey
    <2>2. found["storage"] # 0 <=> BlockStarts(Within(d, InverterLimit), {124}) # {}
        <3>1. \A blocks \in InverterSurvey(d), kind \in DOMAIN InverterBlocks :
                  blocks[kind] # 0
                      <=> BlockStarts(Within(d, InverterLimit), InverterBlocks[kind]) # {}
            BY <2>1 DEF FoundRight
        <3>2. found["storage"] # 0
                  <=> BlockStarts(Within(d, InverterLimit), InverterBlocks["storage"]) # {}
            <4>1. "storage" \in DOMAIN InverterBlocks
                BY <1>1
            <4> QED
                BY <3>1, <4>1, Zenon
        <3>3. InverterBlocks["storage"] = {124}
            BY <1>1
        <3> QED
            BY <3>2, <3>3, Zenon
    <2>3. found["storage"] # 0 <=> found["storage"] > 0
        <3>1. walk.found["storage"] # 0 => walk.found["storage"] > 0
            <4>1. ASSUME walk.found["storage"] # 0 PROVE walk.found["storage"] > 0
                <5>1. PICK j \in 1 .. Len(d.blocks) :
                          walk.found["storage"] = Starts(Blocks(d))[j]
                    BY <1>1, <4>1, AlignedWalk
                <5>2. Starts(Blocks(d))[j] \in FirstBlock .. Addresses - 2
                    BY WithinAddresses, DeviceBlocks DEF LastBlock
                <5> HIDE DEF walk
                <5> QED
                    BY <5>1, <5>2, SMT DEF FirstBlock
            <4> QED
                BY <4>1
        <3> HIDE DEF walk
        <3> QED
            BY <1>1, <1>2, <1>3, <3>1
    <2> QED
        BY <2>2, <2>3
<1>8. d.battery \in BOOLEAN
    BY DEF IsDevice
<1>9. (IF d.battery THEN 1 ELSE 0) % 2 = 1 <=> d.battery
    BY <1>8
<1> QED
    BY <1>6, <1>7, <1>9 DEF HasStorage

\* So Home Assistant is told of the battery that is there.
LEMMA BatteryIsAnnounced ==
    IInv => BatteryAnnouncedRight
<1> SUFFICES ASSUME IInv, state = "done", Conforming(inverter)
             PROVE  /\ InverterStorageSensors \subseteq announced <=>
                          /\ inverter.battery
                          /\ BlockStarts(Within(inverter, InverterLimit), {124}) # {}
                    /\ \A strings \in 1 .. 2 :
                          inverter.modules = strings + (IF inverter.battery THEN 2 ELSE 0) =>
                             /\ PVModules(inverter.modules) = 0 .. strings - 1
                             /\ BatteryModules(inverter.modules) =
                                   IF inverter.battery THEN <<strings, strings + 1>> ELSE <<>>
    BY DEF BatteryAnnouncedRight
<1>1. /\ opened = "open" /\ announced = AnnouncedFor(devices, trackHouse)
      /\ inverterBlocks = InverterSurvey(inverter) /\ inverterBlocks # {}
      /\ devices = [storage |-> \E found \in inverterBlocks : HasStorage(inverter, found),
                    meter |-> meterBlocks # {}]
      /\ inverter \in InverterDevices
    BY DEF IInv, OpenFirst, AnnouncedWhenDone, KnownAsSurveyed, TypeOk
<1>2. IsDevice(inverter)
    BY <1>1, DevicesAssumption
<1>3. devices.storage <=> /\ inverter.battery
                          /\ BlockStarts(Within(inverter, InverterLimit), {124}) # {}
    <2>1. devices.storage <=> \E found \in inverterBlocks : HasStorage(inverter, found)
        BY <1>1
    <2> QED
        BY <1>1, <1>2, <2>1, BatteryIsRead
<1>4. InverterStorageSensors \subseteq announced <=> devices.storage
    <2>1. "battery_soc" \in InverterStorageSensors
        BY DEF InverterStorageSensors
    <2>2. \A track : "battery_soc" \notin InverterBaseSensors(track)
        BY DEF InverterBaseSensors
    <2>3. /\ "battery_soc" \notin BridgeSensors /\ "battery_soc" \notin ACMeterBaseSensors
          /\ "battery_soc" \notin BatteryControlSwitches
          /\ "battery_soc" \notin BatteryControlInputNumbers
        BY DEF BridgeSensors, ACMeterBaseSensors, BatteryControlSwitches,
               BatteryControlInputNumbers
    <2> QED
        BY <1>1, <2>1, <2>2, <2>3 DEF AnnouncedFor
<1>5. ASSUME NEW strings \in 1 .. 2,
             inverter.modules = strings + (IF inverter.battery THEN 2 ELSE 0)
      PROVE  /\ PVModules(inverter.modules) = 0 .. strings - 1
             /\ BatteryModules(inverter.modules) =
                   IF inverter.battery THEN <<strings, strings + 1>> ELSE <<>>
    <2>1. inverter.battery \in BOOLEAN
        BY <1>2 DEF IsDevice
    <2>2. CASE inverter.battery
        <3>1. inverter.modules = strings + 2
            BY <1>5, <2>2
        <3>2. PVModules(strings + 2) = 0 .. strings - 1
            BY DEF PVModules
        <3>3. BatteryModules(strings + 2) = <<strings, strings + 1>>
            BY DEF BatteryModules
        <3> QED
            BY <2>2, <3>1, <3>2, <3>3
    <2>3. CASE ~inverter.battery
        <3>1. inverter.modules = strings
            BY <1>5, <2>3
        <3>2. PVModules(strings) = 0 .. strings - 1
            BY DEF PVModules
        <3>3. BatteryModules(strings) = <<>>
            BY DEF BatteryModules
        <3> QED
            BY <2>3, <3>1, <3>2, <3>3
    <2> QED
        BY <2>1, <2>2, <2>3
<1> QED
    BY <1>3, <1>4, <1>5

\* A payload sent to a switch is the command of the switch.
LEMMA SwitchesUnderstood ==
    ASSUME NEW id \in BatteryControlSwitches, NEW on \in BOOLEAN
    PROVE  Commands(SwitchCommandTopic(id), Payload(on))
              = {[type |-> IF id = "battery_hold" THEN "hold" ELSE "charge", enable |-> on]}
<1> DEFINE cmd == [DeviceId |-> id, Payload |-> Payload(on)]
<1>1. ParseMQTTCommand(SwitchCommandTopic(id), Payload(on)) = {cmd}
    BY DEF ParseMQTTCommand, IsCommandTopic, SwitchCommandTopic
<1>2. ParsedMQTTCommandToCommand(cmd)
        = {[type |-> IF id = "battery_hold" THEN "hold" ELSE "charge", enable |-> on]}
    <2>1. cmd.DeviceId = id /\ (cmd.Payload = "on") = on
        BY DEF Payload
    <2>2. id \in {"battery_hold", "battery_charge"}
        BY DEF BatteryControlSwitches
    <2> HIDE DEF cmd
    <2>3. CASE id = "battery_hold"
        BY <2>1, <2>3 DEF ParsedMQTTCommandToCommand
    <2>4. CASE id = "battery_charge"
        BY <2>1, <2>4 DEF ParsedMQTTCommandToCommand
    <2> QED
        BY <2>2, <2>3, <2>4
<1> HIDE DEF cmd
<1>3. {ParsedMQTTCommandToCommand(c) : c \in {cmd}} = {ParsedMQTTCommandToCommand(cmd)}
    OBVIOUS
<1>4. Commands(SwitchCommandTopic(id), Payload(on)) = ParsedMQTTCommandToCommand(cmd)
    BY <1>1, <1>3 DEF Commands
<1> QED
    BY <1>2, <1>4

\* Each value of the number is read back from what is sent for it.
LEMMA NumbersUnderstood ==
    ASSUME NEW id \in BatteryControlInputNumbers, NEW n \in TargetSoCs
    PROVE  Commands(InputNumberCommandTopic(id), ToString(n))
              = {[type |-> "target", TargetSoC |-> n]}
<1> DEFINE cmd == [DeviceId |-> id, Payload |-> ToString(n)]
<1>1. n \in 0 .. 255 /\ n <= 100
    BY DEF TargetSoCs
<1>2. IsNumber(ToString(n)) /\ ParseUint(ToString(n)) = {n}
    BY <1>1, NumeralsAssumption DEF IsNumber, ParseUint
<1>3. ParseMQTTCommand(InputNumberCommandTopic(id), ToString(n)) = {cmd}
    BY <1>2 DEF ParseMQTTCommand, IsCommandTopic, InputNumberCommandTopic
<1>4. ParsedMQTTCommandToCommand(cmd) = {[type |-> "target", TargetSoC |-> n]}
    <2>1. cmd.DeviceId = "battery_charge_target_soc" /\ cmd.Payload = ToString(n)
        BY DEF BatteryControlInputNumbers
    <2> HIDE DEF cmd
    <2>2. ParsedMQTTCommandToCommand(cmd)
            = {[type |-> "target", TargetSoC |-> k] :
                  k \in {m \in ParseUint(cmd.Payload) : m <= 100}}
        BY <2>1 DEF ParsedMQTTCommandToCommand
    <2>3. {m \in ParseUint(cmd.Payload) : m <= 100} = {n}
        BY <1>1, <1>2, <2>1
    <2> QED
        BY <2>2, <2>3
<1> HIDE DEF cmd
<1>5. {ParsedMQTTCommandToCommand(c) : c \in {cmd}} = {ParsedMQTTCommandToCommand(cmd)}
    OBVIOUS
<1>6. Commands(InputNumberCommandTopic(id), ToString(n)) = ParsedMQTTCommandToCommand(cmd)
    BY <1>3, <1>5 DEF Commands
<1> QED
    BY <1>4, <1>6

\* What the bridge publishes of an entity is no command.
LEMMA NothingEchoes ==
    ASSUME NEW id, NEW payload
    PROVE  Commands(EventTopic(id), payload) = {}
<1>1. ParseMQTTCommand(EventTopic(id), payload) = {}
    <2>1. CASE id \in BatteryControlSwitchesUpdates
        BY <2>1 DEF ParseMQTTCommand, IsCommandTopic, EventTopic, SwitchStateTopic,
                    BatteryControlSwitchesUpdates, BatteryControlSetTargetSoCUpdates,
                    BridgeStateUpdates
    <2>2. CASE id \in BatteryControlSetTargetSoCUpdates
        BY <2>2 DEF ParseMQTTCommand, IsCommandTopic, EventTopic, InputNumberStateTopic,
                    BatteryControlSwitchesUpdates, BatteryControlSetTargetSoCUpdates,
                    BridgeStateUpdates
    <2>3. CASE id \in BridgeStateUpdates
        BY <2>3 DEF ParseMQTTCommand, IsCommandTopic, EventTopic, BridgeStateTopic,
                    BatteryControlSwitchesUpdates, BatteryControlSetTargetSoCUpdates,
                    BridgeStateUpdates
    <2>4. CASE /\ id \notin BatteryControlSwitchesUpdates /\ id \notin BridgeStateUpdates
               /\ id \notin BatteryControlSetTargetSoCUpdates
        BY <2>4 DEF ParseMQTTCommand, IsCommandTopic, EventTopic, SensorStateTopic
    <2> QED
        BY <2>1, <2>2, <2>3, <2>4
<1>2. {ParsedMQTTCommandToCommand(cmd) : cmd \in {}} = {}
    OBVIOUS
<1> QED
    BY <1>1, <1>2 DEF Commands

\* So the commands of the entities are understood, and nothing else is one.
LEMMA CommandsAreUnderstood ==
    IInv => CommandsUnderstood
<1> SUFFICES ASSUME IInv PROVE CommandsUnderstood
    OBVIOUS
<1>1. TakingCommands \subseteq Understood
    BY SwitchesUnderstood, NumbersUnderstood DEF TakingCommands, Understood
<1>2. devices \in Devices /\ trackHouse \in BOOLEAN
    BY DEF IInv, TypeOk
<1>3. EveryUpdate \subseteq UpdatesOf([storage |-> TRUE, meter |-> TRUE], TRUE)
    BY <1>2 DEF EveryUpdate, UpdatesOf, PowerFlowUpdates, Devices
<1>4. UpdatesOf([storage |-> TRUE, meter |-> TRUE], TRUE) \subseteq Unechoed
    BY NothingEchoes DEF Unechoed
<1> QED
    BY <1>1, <1>3, <1>4 DEF CommandsUnderstood

-----------------------------------------------------------------------------
(* For every inverter and every meter *)

\* The answers counted and to come are always the two of the running instance
\* (ha_discovery.go, WaitingHealthyReceive): an instance that panicked leaves no
\* answer behind for the next one to count.
THEOREM NoAnswerCountedTwice == DiscoverySpec => []OneAnswerEach
<1>1. IInv => OneAnswerEach
    BY OwedGivesOutstanding
<1> QED
    BY <1>1, DiscoveryInvariant, PTL DEF DiscoverySpec

\* Whatever is connected and configured, each entity that is announced has a topic
\* that its values are published to, and only entities that are announced for the
\* devices are given values, apart from the battery powers.
THEOREM AnnouncedEntitiesFed == DiscoverySpec => []EveryEntityIsFed
<1>1. IInv => EveryEntityIsFed
    BY AnnouncedAreFed
<1> QED
    BY <1>1, DiscoveryInvariant, PTL DEF DiscoverySpec

\* The walk over the register blocks finds those the devices have, whatever and
\* how many they are and whatever lengths they report.
THEOREM BlocksFound == DiscoverySpec => []SurveyFindsBlocks
<1>1. IInv => SurveyFindsBlocks
    BY SurveysAreRight
<1> QED
    BY <1>1, DiscoveryInvariant, PTL DEF DiscoverySpec

\* Home Assistant is told of a battery exactly when the inverter has one and a
\* storage block among those that are walked over, and the modules read are the
\* right ones.
THEOREM BatteryAnnounced == DiscoverySpec => []BatteryAnnouncedRight
<1>1. IInv => BatteryAnnouncedRight
    BY BatteryIsAnnounced
<1> QED
    BY <1>1, DiscoveryInvariant, PTL DEF DiscoverySpec

\* What Home Assistant sends to the command topics of announced entities is what
\* the user asked for, and no update of the bridge is a command to it.
THEOREM EveryCommandUnderstood == DiscoverySpec => []CommandsUnderstood
<1>1. IInv => CommandsUnderstood
    BY CommandsAreUnderstood
<1> QED
    BY <1>1, DiscoveryInvariant, PTL DEF DiscoverySpec
=============================================================================
