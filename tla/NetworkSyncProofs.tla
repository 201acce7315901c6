------------------------- MODULE NetworkSyncProofs -------------------------
(***************************************************************************)
(* Proofs about NetworkSync: types, the agreement of requests and answers, *)
(* the end of a suspension, the chains of ids still to get, and the order  *)
(* in which blocks go to the delegate.                                     *)
(***************************************************************************)
EXTENDS NetworkSync, NumberLemmas

Ids == Blocks \cup {Genesis}

(* c is the chain from a first block to b.                                 *)
IsChain(c, b) ==
    /\ c \in Seq(Blocks)
    /\ b = Genesis => c = <<>>
    /\ b # Genesis => /\ c # <<>> /\ c[Len(c)] = b /\ Parent[c[1]] = Genesis
                      /\ \A i \in 1 .. Len(c) - 1 : Parent[c[i + 1]] = c[i]

(* A chain without its last block is the chain to the parent.              *)
LEMMA ChainShorter ==
    ASSUME NEW b \in Blocks, NEW c, IsChain(c, b)
    PROVE  /\ IsChain(SubSeq(c, 1, Len(c) - 1), Parent[b])
           /\ c = Append(SubSeq(c, 1, Len(c) - 1), b)
<1> DEFINE d == SubSeq(c, 1, Len(c) - 1)
<1>1. /\ c \in Seq(Blocks) /\ c # <<>> /\ c[Len(c)] = b /\ Parent[c[1]] = Genesis
      /\ \A i \in 1 .. Len(c) - 1 : Parent[c[i + 1]] = c[i]
  BY SyncAssumption DEF IsChain
<1>2. Len(c) \in Nat /\ Len(c) >= 1 /\ Len(c) - 1 \in Nat /\ (Len(c) - 1) + 1 = Len(c)
  <2>1. Len(c) \in Nat /\ Len(c) # 0
    BY <1>1
  <2> QED
    BY ONLY <2>1
<1>3. d \in Seq(Blocks) /\ Len(d) = Len(c) - 1 /\ \A i \in 1 .. Len(c) - 1 : d[i] = c[i]
  BY ONLY <1>1, <1>2
<1>4. c = Append(d, b)
  <2>1. Append(d, b) \in Seq(Blocks) /\ Len(Append(d, b)) = Len(c)
    BY <1>2, <1>3
  <2> HIDE DEF d
  <2>2. \A i \in 1 .. Len(c) : Append(d, b)[i] = c[i]
    <3>1. SUFFICES ASSUME NEW i \in 1 .. Len(c) PROVE Append(d, b)[i] = c[i]
      OBVIOUS
    <3>2. CASE i = Len(c)
      BY ONLY <1>1, <1>2, <1>3, <3>2
    <3>3. CASE i # Len(c)
      <4>1. i \in 1 .. Len(c) - 1
        <5>1. PICK n \in Nat : n = Len(c)
          BY <1>2
        <5>2. i \in Int /\ 1 <= i /\ i <= n /\ i # n
          BY <3>3, <5>1
        <5>3. i \in 1 .. n - 1
          BY ONLY <5>2, n \in Nat
        <5> QED
          BY ONLY <5>1, <5>3
      <4> QED
        BY ONLY <1>3, <4>1
    <3> QED
      BY <3>2, <3>3
  <2> QED
    BY <1>1, <2>1, <2>2
<1>5. CASE Len(c) = 1
  <2>1. d = <<>> /\ Parent[b] = Genesis
    BY <1>1, <1>3, <1>5
  <2> QED
    BY <1>3, <1>4, <2>1 DEF IsChain
<1>6. CASE Len(c) # 1
  <2>0. Len(c) - 1 \in 1 .. Len(c) - 1 /\ Len(c) - 1 \in 1 .. Len(c) /\ 1 \in 1 .. Len(c) - 1
    BY ONLY <1>2, <1>6
  <2>1. Parent[c[(Len(c) - 1) + 1]] = c[Len(c) - 1]
    BY ONLY <1>1, <2>0
  <2>2. Parent[b] = c[Len(c) - 1] /\ c[Len(c) - 1] \in Blocks
    BY ONLY <1>1, <1>2, <2>0, <2>1
  <2>3. Parent[b] # Genesis
    BY <2>2, SyncAssumption
  <2>4. d # <<>> /\ d[Len(d)] = Parent[b] /\ Parent[d[1]] = Genesis
    <3> HIDE DEF d
    <3> QED
      BY ONLY <1>1, <1>2, <1>3, <2>0, <2>2
  <2>5. \A i \in 1 .. Len(d) - 1 : Parent[d[i + 1]] = d[i]
    BY <1>1, <1>2, <1>3
  <2> HIDE DEF d
  <2> QED
    BY <1>3, <1>4, <2>3, <2>4, <2>5 DEF IsChain
<1> QED
  BY <1>5, <1>6

(* The chain to a block is the one to its parent and the block.            *)
LEMMA ChainLonger ==
    ASSUME NEW b \in Blocks, NEW c, IsChain(c, Parent[b])
    PROVE  IsChain(Append(c, b), b)
<1> DEFINE d == Append(c, b)
<1>1. c \in Seq(Blocks) /\ Len(c) \in Nat
  BY DEF IsChain
<1>2. /\ d \in Seq(Blocks) /\ Len(d) = Len(c) + 1 /\ d[Len(d)] = b
      /\ \A i \in 1 .. Len(c) : d[i] = c[i]
  BY <1>1
<1>3. d # <<>> /\ b # Genesis
  <2>1. Len(d) # 0
    BY <1>1, <1>2
  <2> HIDE DEF d
  <2> QED
    BY <2>1, SyncAssumption
<1>4. CASE Parent[b] = Genesis
  <2>1. c = <<>>
    BY <1>4 DEF IsChain
  <2> QED
    BY <1>2, <1>3, <1>4, <2>1 DEF IsChain
<1>5. CASE Parent[b] # Genesis
  <2>1. /\ c # <<>> /\ c[Len(c)] = Parent[b] /\ Parent[c[1]] = Genesis
        /\ \A i \in 1 .. Len(c) - 1 : Parent[c[i + 1]] = c[i]
    BY <1>5 DEF IsChain
  <2>2. Len(c) >= 1
    BY <1>1, <2>1
  <2>3. Parent[d[1]] = Genesis
    BY <1>1, <1>2, <2>1, <2>2
  <2>4. \A i \in 1 .. Len(d) - 1 : Parent[d[i + 1]] = d[i]
    <3>1. SUFFICES ASSUME NEW i \in 1 .. Len(d) - 1 PROVE Parent[d[i + 1]] = d[i]
      OBVIOUS
    <3>2. CASE i = Len(c)
      BY <1>1, <1>2, <2>1, <2>2, <3>2
    <3>3. CASE i # Len(c)
      <4>1. i \in 1 .. Len(c) - 1 /\ i \in 1 .. Len(c) /\ i + 1 \in 1 .. Len(c)
        BY ONLY <1>1, <1>2, <3>1, <3>3
      <4> HIDE DEF d
      <4> QED
        BY <1>2, <2>1, <4>1
    <3> QED
      BY <3>2, <3>3
  <2> HIDE DEF d
  <2> QED
    BY <1>2, <1>3, <2>3, <2>4 DEF IsChain
<1> QED
  BY <1>4, <1>5

(* Every block has one chain.                                              *)
LEMMA ChainUnique ==
    ASSUME NEW b \in Ids, NEW c, NEW d, IsChain(c, b), IsChain(d, b)
    PROVE  c = d
<1> DEFINE Bad == {x \in Blocks : \E e, f : IsChain(e, x) /\ IsChain(f, x) /\ e # f}
<1>1. ASSUME Bad # {} PROVE FALSE
  <2>1. PICK x \in Bad : Parent[x] \notin Bad
    BY <1>1, TreeAssumption
  <2>2. PICK e, f : IsChain(e, x) /\ IsChain(f, x) /\ e # f
    OBVIOUS
  <2> DEFINE e0 == SubSeq(e, 1, Len(e) - 1)
             f0 == SubSeq(f, 1, Len(f) - 1)
  <2>3. /\ IsChain(e0, Parent[x]) /\ e = Append(e0, x)
        /\ IsChain(f0, Parent[x]) /\ f = Append(f0, x)
    BY <2>1, <2>2, ChainShorter
  <2> HIDE DEF e0, f0
  <2>4. e0 = f0
    <3>1. CASE Parent[x] = Genesis
      BY <2>3, <3>1 DEF IsChain
    <3>2. CASE Parent[x] # Genesis
      <4>1. Parent[x] \in Blocks
        BY <2>1, <3>2, SyncAssumption
      <4> QED
        BY <2>1, <2>3, <4>1
    <3> QED
      BY <3>1, <3>2
  <2> QED
    BY <2>2, <2>3, <2>4
<1>2. CASE b = Genesis
  BY <1>2 DEF IsChain
<1>3. CASE b # Genesis
  BY <1>1, <1>3 DEF Ids
<1> QED
  BY <1>2, <1>3

(* Every block has a chain from a first block to it, as no set of blocks   *)
(* holds the parents of all its members.                                   *)
LEMMA ChainExists ==
    ASSUME NEW b \in Ids
    PROVE  \E c : IsChain(c, b)
<1> DEFINE Bad == {x \in Blocks : ~(\E c : IsChain(c, x))}
<1>1. IsChain(<<>>, Genesis)
  BY DEF IsChain
<1>2. ASSUME Bad # {} PROVE FALSE
  <2>1. PICK x \in Bad : Parent[x] \notin Bad
    BY <1>2, TreeAssumption
  <2>2. Parent[x] \in Ids
    BY <2>1, SyncAssumption DEF Ids
  <2>3. PICK c : IsChain(c, Parent[x])
    <3>1. CASE Parent[x] = Genesis
      BY <1>1, <3>1
    <3>2. CASE Parent[x] # Genesis
      BY <2>1, <2>2, <3>2 DEF Ids
    <3> QED
      BY <3>1, <3>2
  <2>4. IsChain(Append(c, x), x)
    BY <2>1, <2>3, ChainLonger
  <2> QED
    BY <2>1, <2>4
<1>3. CASE b = Genesis
  BY <1>1, <1>3
<1>4. CASE b # Genesis
  BY <1>2, <1>4 DEF Ids
<1> QED
  BY <1>3, <1>4

(* ChainTo gives it.                                                       *)
LEMMA ChainFacts ==
    ASSUME NEW b \in Ids
    PROVE  IsChain(ChainTo[b], b)
<1> DEFINE f == [x \in Ids |-> CHOOSE c : IsChain(c, x)]
           Step(g) == g = [x \in Blocks \cup {Genesis} |->
                              IF x = Genesis THEN <<>> ELSE Append(g[Parent[x]], x)]
<1>1. \A x \in Ids : IsChain(f[x], x)
  BY ChainExists
<1> HIDE DEF f
<1>2. \A x \in Blocks : f[x] = Append(f[Parent[x]], x)
  <2>1. SUFFICES ASSUME NEW x \in Blocks PROVE f[x] = Append(f[Parent[x]], x)
    OBVIOUS
  <2>2. Parent[x] \in Ids /\ x \in Ids
    BY SyncAssumption DEF Ids
  <2>3. IsChain(Append(f[Parent[x]], x), x)
    BY <1>1, <2>2, ChainLonger
  <2> QED
    BY <1>1, <2>2, <2>3, ChainUnique
<1>3. f[Genesis] = <<>>
  BY <1>1 DEF Ids, IsChain
<1>4. Step(f)
  <2>1. f = [x \in Blocks \cup {Genesis} |-> f[x]]
    BY DEF f, Ids
  <2>2. \A x \in Blocks \cup {Genesis} :
           f[x] = IF x = Genesis THEN <<>> ELSE Append(f[Parent[x]], x)
    BY <1>2, <1>3, SyncAssumption
  <2> QED
    BY <2>1, <2>2
<1>5. ChainTo = CHOOSE g : Step(g)
  BY DEF ChainTo
<1>6. Step(ChainTo)
  <2> HIDE DEF Step
  <2> QED
    BY <1>4, <1>5
<1>7. /\ ChainTo[Genesis] = <<>>
      /\ \A x \in Blocks : ChainTo[x] = Append(ChainTo[Parent[x]], x)
  <2>1. \A x \in Blocks \cup {Genesis} :
           ChainTo[x] = IF x = Genesis THEN <<>> ELSE Append(ChainTo[Parent[x]], x)
    BY <1>6
  <2> QED
    BY <2>1, SyncAssumption
<1> DEFINE Bad == {x \in Blocks : ~IsChain(ChainTo[x], x)}
<1>8. IsChain(ChainTo[Genesis], Genesis)
  BY <1>7 DEF IsChain
<1>9. ASSUME Bad # {} PROVE FALSE
  <2>1. PICK x \in Bad : Parent[x] \notin Bad
    BY <1>9, TreeAssumption
  <2>2. Parent[x] \in Ids
    BY <2>1, SyncAssumption DEF Ids
  <2>3. IsChain(ChainTo[Parent[x]], Parent[x])
    BY <1>8, <2>1, <2>2 DEF Ids
  <2>4. IsChain(ChainTo[x], x)
    BY <1>7, <2>1, <2>3, ChainLonger
  <2> QED
    BY <2>1, <2>4
<1> QED
  BY <1>8, <1>9 DEF Ids

-----------------------------------------------------------------------------
(* The next rung is above this one and at most one above the last.         *)
LEMMA NextRung ==
    ASSUME NEW high \in Nat, NEW n \in 1 .. high
    PROVE  n + (high - n + 2) \div 2 \in n + 1 .. high + 1
<1>1. PICK d \in Nat : d = high - n /\ high = n + d
  OBVIOUS
<1>2. (d + 2) \div 2 \in 1 .. d + 1
  <2>1. PICK q \in Int : q = (d + 2) \div 2 /\ 2 * q <= d + 2 /\ d + 2 < 2 * q + 2
    BY d \in Nat
  <2> QED
    BY <2>1, d \in Nat
<1> QED
  BY <1>1, <1>2

(* The function that Rungs is defined by: its value at n are the own ones  *)
(* of the rungs from n on.                                                 *)
IsRungs(f, high, own) ==
    /\ f \in [1 .. high + 1 -> Seq(own)]
    /\ \A n \in 1 .. high + 1 :
          f[n] = IF n > high THEN <<>>
                 ELSE (IF n \in own THEN <<n>> ELSE <<>>) \o f[n + (high - n + 2) \div 2]

(* There is such a function.                                               *)
LEMMA RungsFrom ==
    ASSUME NEW high \in Nat, NEW own
    PROVE  \E f : IsRungs(f, high, own) /\ Rungs(high, own) = f[1]
<1> DEFINE next(n) == n + (high - n + 2) \div 2
           here(n) == IF n \in own THEN <<n>> ELSE <<>>
           Up(g, m) == /\ g \in [m .. high + 1 -> Seq(own)]
                       /\ \A n \in m .. high + 1 :
                             g[n] = IF n > high THEN <<>> ELSE here(n) \o g[next(n)]
           Step(g) == g = [n \in 1 .. high + 1 |->
                              IF n > high THEN <<>> ELSE here(n) \o g[next(n)]]
           Bad == {k \in 0 .. high : ~(\E g : Up(g, high + 1 - k))}
<1>1. \A n \in 1 .. high : next(n) \in n + 1 .. high + 1
  BY NextRung
<1>2. \A n : here(n) \in Seq(own)
  OBVIOUS
<1> HIDE DEF next, here
<1>3. ASSUME Bad # {} PROVE FALSE
  <2>1. PICK k \in Bad : \A j \in Bad : k <= j
    <3>1. Bad \in SUBSET Nat
      OBVIOUS
    <3> HIDE DEF Bad
    <3> QED
      BY <1>3, <3>1, LeastNumber
  <2>2. k \in 0 .. high /\ ~(\E g : Up(g, high + 1 - k))
    <3> HIDE DEF Up
    <3> QED
      OBVIOUS
  <2>3. CASE k = 0
    <3> DEFINE h == [n \in high + 1 .. high + 1 |-> <<>>]
    <3>1. Up(h, high + 1)
      <4>1. \A n \in high + 1 .. high + 1 : n > high /\ h[n] = <<>>
        OBVIOUS
      <4>2. h \in [high + 1 .. high + 1 -> Seq(own)]
        OBVIOUS
      <4> HIDE DEF h
      <4> QED
        BY ONLY <4>1, <4>2
    <3>2. high + 1 - k = high + 1
      BY ONLY <2>3, high \in Nat
    <3> HIDE DEF Up
    <3> QED
      BY ONLY <2>2, <3>1, <3>2
  <2>4. CASE k # 0
    <3> DEFINE m == high + 1 - k
    <3>1. m \in 1 .. high /\ k - 1 \in 0 .. high /\ high + 1 - (k - 1) = m + 1 /\ m + 1 \in 2 .. high + 1
      BY ONLY <2>2, <2>4, high \in Nat
    <3>2. k - 1 \notin Bad
      <4> HIDE DEF Bad, Up
      <4> QED
        BY ONLY <2>1, <2>2, <2>4, k - 1 \notin Bad \/ k <= k - 1
    <3>3. PICK g : Up(g, m + 1)
      <4> HIDE DEF Up, m
      <4> QED
        BY <3>1, <3>2
    <3> HIDE DEF m
    <3> DEFINE h == [n \in m .. high + 1 |-> IF n = m THEN here(m) \o g[next(m)] ELSE g[n]]
    <3>4. next(m) \in m + 1 .. high + 1
      BY ONLY <1>1, <3>1
    <3>5. g[next(m)] \in Seq(own) /\ here(m) \in Seq(own)
      BY ONLY <1>2, <3>3, <3>4
    <3>6. here(m) \o g[next(m)] \in Seq(own)
      BY ONLY <3>5
    <3>7. \A n \in m .. high + 1 : n = m \/ n \in m + 1 .. high + 1
      BY ONLY <3>1, high \in Nat
    <3>8. h \in [m .. high + 1 -> Seq(own)]
      BY ONLY <3>3, <3>6, <3>7
    <3>9. \A n \in m .. high + 1 : h[n] = IF n > high THEN <<>> ELSE here(n) \o h[next(n)]
      <4>1. SUFFICES ASSUME NEW n \in m .. high + 1
                     PROVE  h[n] = IF n > high THEN <<>> ELSE here(n) \o h[next(n)]
        OBVIOUS
      <4>2. \A j \in m + 1 .. high + 1 : h[j] = g[j]
        BY ONLY <3>1, high \in Nat
      <4>3. CASE n = m
        <5>1. h[n] = here(n) \o g[next(n)] /\ ~(n > high)
          BY ONLY <3>1, <4>3, n \in m .. high + 1
        <5> HIDE DEF h
        <5> QED
          BY ONLY <3>4, <4>2, <4>3, <5>1
      <4>4. CASE n # m
        <5>1. n \in m + 1 .. high + 1
          BY ONLY <3>7, <4>4, n \in m .. high + 1
        <5>2. g[n] = IF n > high THEN <<>> ELSE here(n) \o g[next(n)]
          BY ONLY <3>3, <5>1
        <5>3. n > high \/ next(n) \in m + 1 .. high + 1
          <6>1. CASE n > high
            BY <6>1
          <6>2. CASE ~(n > high)
            <7>1. n \in 1 .. high
              BY ONLY <3>1, <5>1, <6>2, high \in Nat
            <7>2. next(n) \in n + 1 .. high + 1
              BY ONLY <1>1, <7>1
            <7> QED
              BY ONLY <3>1, <5>1, <7>2, high \in Nat
          <6> QED
            BY <6>1, <6>2
        <5> HIDE DEF h
        <5> QED
          BY ONLY <4>2, <5>1, <5>2, <5>3
      <4> QED
        BY <4>3, <4>4
    <3>10. Up(h, m)
      <4> HIDE DEF h
      <4> QED
        BY ONLY <3>8, <3>9
    <3> QED
      <4> HIDE DEF Up, h
      <4> QED
        BY ONLY <2>2, <3>10 DEF m
  <2> QED
    BY <2>3, <2>4
<1>4. PICK g : Up(g, 1)
  <2>1. high \in 0 .. high /\ high + 1 - high = 1
    OBVIOUS
  <2> HIDE DEF Up
  <2> QED
    BY <1>3, <2>1
<1>5. Step(g)
  BY ONLY <1>4
<1> DEFINE from == CHOOSE f : Step(f)
<1>6. Step(from)
  <2> HIDE DEF Step
  <2> QED
    BY <1>5
<1>7. Rungs(high, own) = from[1]
  BY DEF Rungs, next, here
<1> HIDE DEF from
<1>8. \A k \in 0 .. high : from[high + 1 - k] \in Seq(own)
  <2> DEFINE Wrong == {k \in 0 .. high : from[high + 1 - k] \notin Seq(own)}
  <2>1. ASSUME Wrong # {} PROVE FALSE
    <3>1. PICK k \in Wrong : \A j \in Wrong : k <= j
      <4>1. Wrong \in SUBSET Nat
        OBVIOUS
      <4> HIDE DEF Wrong
      <4> QED
        BY <2>1, <4>1, LeastNumber
    <3>2. PICK n \in 1 .. high + 1 : n = high + 1 - k /\ from[n] \notin Seq(own) /\ k \in 0 .. high
      OBVIOUS
    <3>3. from[n] = IF n > high THEN <<>> ELSE here(n) \o from[next(n)]
      BY ONLY <1>6, <3>2
    <3>4. n \in 1 .. high
      BY ONLY <3>2, <3>3, high \in Nat
    <3>5. next(n) \in n + 1 .. high + 1
      BY ONLY <1>1, <3>4
    <3>6. PICK j \in 0 .. high : j = high + 1 - next(n) /\ high + 1 - j = next(n) /\ j < k
      BY ONLY <3>2, <3>5, high \in Nat
    <3>7. j \notin Wrong
      <4> HIDE DEF Wrong
      <4>1. k \in Int /\ j \in Int
        BY ONLY <3>2, <3>6, high \in Nat
      <4> QED
        BY ONLY <3>1, <3>6, <4>1
    <3>8. from[next(n)] \in Seq(own)
      BY <3>6, <3>7
    <3>9. from[n] \in Seq(own)
      BY ONLY <1>2, <3>3, <3>4, <3>8
    <3> QED
      BY ONLY <3>2, <3>9
  <2> QED
    BY <2>1
<1>9. \A n \in 1 .. high + 1 : from[n] \in Seq(own)
  <2>1. SUFFICES ASSUME NEW n \in 1 .. high + 1 PROVE from[n] \in Seq(own)
    OBVIOUS
  <2>2. high + 1 - n \in 0 .. high /\ high + 1 - (high + 1 - n) = n
    BY ONLY high \in Nat, n \in 1 .. high + 1
  <2> QED
    BY ONLY <1>8, <2>2
<1>10. from \in [1 .. high + 1 -> Seq(own)]
  <2>1. from = [n \in 1 .. high + 1 |-> from[n]]
    BY ONLY <1>6
  <2> QED
    BY ONLY <1>9, <2>1
<1>11. IsRungs(from, high, own)
  <2>1. \A n \in 1 .. high + 1 : from[n] = IF n > high THEN <<>> ELSE here(n) \o from[next(n)]
    BY ONLY <1>6
  <2> QED
    BY ONLY <1>10, <2>1 DEF IsRungs, here, next
<1> QED
  BY ONLY <1>7, <1>11

(* The rungs are numbers of the own ones.                                  *)
LEMMA RungsType ==
    ASSUME NEW high \in Nat, NEW own
    PROVE  Rungs(high, own) \in Seq(own)
<1>1. PICK f : IsRungs(f, high, own) /\ Rungs(high, own) = f[1]
  BY RungsFrom
<1>2. 1 \in 1 .. high + 1
  OBVIOUS
<1> QED
  BY ONLY <1>1, <1>2 DEF IsRungs

(* The last rung is one of them.                                           *)
LEMMA RungsReach ==
    ASSUME NEW high \in Nat, high >= 1, NEW own, high \in own
    PROVE  Rungs(high, own) # <<>>
<1>1. PICK f : IsRungs(f, high, own) /\ Rungs(high, own) = f[1]
  BY RungsFrom
<1> DEFINE next(n) == n + (high - n + 2) \div 2
           here(n) == IF n \in own THEN <<n>> ELSE <<>>
           Wrong == {k \in 1 .. high : f[high + 1 - k] = <<>>}
<1>2. \A n \in 1 .. high + 1 : f[n] = IF n > high THEN <<>> ELSE here(n) \o f[next(n)]
  BY <1>1 DEF IsRungs
<1>3. \A n \in 1 .. high + 1 : f[n] \in Seq(own)
  BY <1>1 DEF IsRungs
<1>4. \A n : here(n) \in Seq(own)
  OBVIOUS
<1>5. ASSUME NEW n \in 1 .. high, n # high PROVE next(n) \in n + 1 .. high
  <2>1. PICK d \in Nat : d = high - n /\ high = n + d /\ d >= 1
    BY <1>5
  <2>2. PICK q \in Int : q = (d + 2) \div 2 /\ 2 * q <= d + 2 /\ d + 2 < 2 * q + 2
    BY d \in Nat
  <2>3. next(n) = n + q
    BY <2>1, <2>2
  <2> HIDE DEF next
  <2> QED
    BY ONLY <2>1, <2>2, <2>3, n \in 1 .. high, d \in Nat, q \in Int
<1>6. here(high) = <<high>>
  OBVIOUS
<1>7. high + 1 \in 1 .. high + 1 /\ next(high) = high + 1
  <2>1. (high - high + 2) \div 2 = 1
    OBVIOUS
  <2> QED
    BY <2>1
<1> HIDE DEF next, here
<1>8. ASSUME Wrong # {} PROVE FALSE
  <2>1. PICK k \in Wrong : \A j \in Wrong : k <= j
    <3>1. Wrong \in SUBSET Nat
      OBVIOUS
    <3> HIDE DEF Wrong
    <3> QED
      BY <1>8, <3>1, LeastNumber
  <2>2. PICK n \in 1 .. high : n = high + 1 - k /\ f[n] = <<>> /\ k \in 1 .. high
    OBVIOUS
  <2>3. f[n] = here(n) \o f[next(n)]
    <3>1. n \in 1 .. high + 1 /\ ~(n > high)
      BY ONLY n \in 1 .. high, high \in Nat
    <3> QED
      BY ONLY <1>2, <3>1
  <2>4. CASE n = high
    <3>1. f[n] = <<high>> \o f[high + 1]
      BY ONLY <1>6, <1>7, <2>3, <2>4
    <3>2. f[high + 1] \in Seq(own) /\ <<high>> \in Seq(own)
      BY <1>3, <1>7
    <3>3. Len(<<high>> \o f[high + 1]) >= 1
      BY ONLY <3>2
    <3> QED
      BY ONLY <2>2, <3>1, <3>3
  <2>5. CASE n # high
    <3>1. next(n) \in n + 1 .. high
      BY ONLY <1>5, <2>5, n \in 1 .. high
    <3>2. PICK j \in 1 .. high : j = high + 1 - next(n) /\ high + 1 - j = next(n) /\ j < k
      BY ONLY <2>2, <3>1, high \in Nat, n \in 1 .. high
    <3>3. j \notin Wrong
      <4> HIDE DEF Wrong
      <4>1. k \in Int /\ j \in Int
        BY ONLY <2>2, <3>2, high \in Nat
      <4> QED
        BY ONLY <2>1, <3>2, <4>1
    <3>4. f[next(n)] # <<>>
      BY <3>2, <3>3
    <3>5. next(n) \in 1 .. high + 1
      BY ONLY <3>1, high \in Nat, n \in 1 .. high
    <3>6. f[next(n)] \in Seq(own) /\ here(n) \in Seq(own)
      BY ONLY <1>3, <1>4, <3>5
    <3>7. here(n) \o f[next(n)] # <<>>
      <4>1. PICK x \in Seq(own), y \in Seq(own) : x = here(n) /\ y = f[next(n)] /\ y # <<>>
        BY ONLY <3>4, <3>6
      <4>2. Len(y) >= 1 /\ Len(x) >= 0
        BY ONLY <4>1, x \in Seq(own), y \in Seq(own)
      <4>3. Len(x \o y) >= 1
        BY ONLY <4>2, x \in Seq(own), y \in Seq(own)
      <4> QED
        BY ONLY <4>1, <4>3
    <3> QED
      BY ONLY <2>2, <2>3, <3>7
  <2> QED
    BY <2>4, <2>5
<1>9. high \in 1 .. high /\ high + 1 - high = 1
  OBVIOUS
<1> QED
  BY <1>1, <1>8, <1>9
-----------------------------------------------------------------------------
States == {"active", "closing", "failed", "closed", "dropped"}

Connection ==
    [st : States, need : BOOLEAN, toGet : Seq(Blocks), processing : SUBSET Blocks,
     unfetched : Int, asked : Seq(Blocks) \cup {NotAsked}, want : SUBSET Blocks,
     wantItem : SUBSET Blocks, told : SUBSET Blocks, offered : SUBSET Blocks, seen : Ids]

(* Each block of a list is the parent of the next one.                     *)
Linked(s) == \A i \in 1 .. Len(s) - 1 : Parent[s[i + 1]] = s[i]

(* The number of a block is a positive number.                             *)
LEMMA NumberType ==
    ASSUME NEW b \in Blocks
    PROVE  Number(b) \in Nat /\ Number(b) >= 1
<1>1. b \in Ids /\ b # Genesis
  BY SyncAssumption DEF Ids
<1>2. ChainTo[b] \in Seq(Blocks) /\ ChainTo[b] # <<>>
  BY <1>1, ChainFacts DEF IsChain
<1>3. Len(ChainTo[b]) \in Nat /\ Len(ChainTo[b]) # 0
  BY <1>2
<1> QED
  BY <1>3 DEF Number

(* A synopsis is a sequence of blocks.                                     *)
LEMMA DelegateSynopsisType ==
    ASSUME NEW h \in Ids, NEW seen \in Ids, NEW more \in Nat
    PROVE  get_blockchain_synopsis(h, seen, more) \in Seq(Blocks)
<1> DEFINE b == IF seen = Genesis THEN h ELSE seen
           c == ChainTo[b]
           r == Rungs(Len(c) + more, 1 .. Len(c))
<1>1. c \in Seq(Blocks) /\ Len(c) \in Nat
  BY ChainFacts DEF IsChain
<1> HIDE DEF c
<1>2. r \in Seq(1 .. Len(c))
  BY <1>1, RungsType
<1> HIDE DEF r
<1>3. [i \in DOMAIN r |-> c[r[i]]] \in Seq(Blocks)
  <2>1. PICK n \in Nat : DOMAIN r = 1 .. n
    BY <1>2
  <2>2. \A i \in 1 .. n : c[r[i]] \in Blocks
    BY <1>1, <1>2, <2>1
  <2> QED
    BY <2>1, <2>2
<1> QED
  BY <1>3 DEF get_blockchain_synopsis, r, c

(* What is in a sequence over a set is in the set.                         *)
LEMMA ElementType ==
    ASSUME NEW S, NEW s \in Seq(S), NEW i \in DOMAIN s
    PROVE  s[i] \in S
OBVIOUS

(* The synopsis for a peer, that of the delegate and the rungs taken from  *)
(* the ids still to get, is a list of blocks.                              *)
LEMMA SynopsisType ==
    ASSUME NEW h \in Ids, NEW c \in Connection
    PROVE  create_blockchain_synopsis(h, c) \in Seq(Blocks)
<1>1. c.toGet \in Seq(Blocks) /\ c.seen \in Ids /\ Len(c.toGet) \in Nat
  BY DEF Connection
<1>2. PICK s \in Seq(Blocks) : s = get_blockchain_synopsis(h, c.seen, Len(c.toGet))
  BY <1>1, DelegateSynopsisType
<1> DEFINE first == Number(c.toGet[1])
           last  == first + Len(c.toGet) - 1
           r     == Rungs(last, first .. last)
           rest  == [i \in DOMAIN r |-> c.toGet[r[i] - first + 1]]
<1>3. create_blockchain_synopsis(h, c) = s \o IF c.toGet = <<>> THEN <<>> ELSE rest
  BY <1>2 DEF create_blockchain_synopsis
<1>4. CASE c.toGet = <<>>
  <2> HIDE DEF rest
  <2> QED
    BY <1>3, <1>4
<1>5. CASE c.toGet # <<>>
  <2>1. c.toGet[1] \in Blocks /\ Len(c.toGet) >= 1
    BY <1>1, <1>5
  <2>2. first \in Nat
    BY <2>1, NumberType
  <2> HIDE DEF first
  <2>3. last \in Nat
    BY ONLY <1>1, <2>1, <2>2
  <2>4. r \in Seq(first .. last)
    BY <2>3, RungsType
  <2> HIDE DEF r
  <2>5. PICK n \in Nat : DOMAIN r = 1 .. n
    BY <2>4
  <2>6. \A i \in 1 .. n : r[i] - first + 1 \in 1 .. Len(c.toGet)
    <3>1. SUFFICES ASSUME NEW i \in 1 .. n PROVE r[i] - first + 1 \in 1 .. Len(c.toGet)
      OBVIOUS
    <3>2. r[i] \in first .. last
      <4> HIDE DEF last
      <4>1. i \in DOMAIN r
        BY ONLY <2>5, i \in 1 .. n
      <4> QED
        BY ONLY <2>4, <4>1, ElementType
    <3> QED
      BY ONLY <1>1, <2>2, <3>2
  <2>7. \A i \in 1 .. n : c.toGet[r[i] - first + 1] \in Blocks
    BY ONLY <1>1, <2>6
  <2>8. rest \in Seq(Blocks)
    BY ONLY <2>5, <2>7
  <2> HIDE DEF rest
  <2> QED
    BY <1>3, <1>5, <2>8
<1> QED
  BY <1>4, <1>5

(* Asking for ids leaves alone what the proofs are about.                  *)
LEMMA AskIdsFacts ==
    ASSUME NEW h \in Ids, NEW c \in Connection
    PROVE  /\ AskIds(h, c) \in Connection
           /\ AskIds(h, c).want = c.want /\ AskIds(h, c).wantItem = c.wantItem
           /\ AskIds(h, c).toGet = c.toGet /\ AskIds(h, c).st \in {c.st, "failed"}
           /\ AskIds(h, c).st # "failed" => AskIds(h, c).asked \in Seq(Blocks)
<1>1. PICK s \in Seq(Blocks) : s = create_blockchain_synopsis(h, c)
  BY SynopsisType
<1>2. CASE c.seen \in known \cup {Genesis}
  <2>1. AskIds(h, c) = [c EXCEPT !.asked = s]
    BY <1>1, <1>2 DEF AskIds
  <2> QED
    BY <2>1 DEF Connection
<1>3. CASE c.seen \notin known \cup {Genesis}
  <2>1. AskIds(h, c) = [c EXCEPT !.st = "failed"]
    BY <1>3 DEF AskIds
  <2> QED
    BY <2>1 DEF Connection, States
<1> QED
  BY <1>2, <1>3

(* start_synchronizing_with_peer empties the list of ids and keeps the     *)
(* blocks that were asked for; the connection fails or has a synopsis.     *)
LEMMA RestartFacts ==
    ASSUME NEW h \in Ids, NEW c \in Connection
    PROVE  /\ Restart(h, c) \in Connection
           /\ Restart(h, c).want = c.want /\ Restart(h, c).wantItem = c.wantItem
           /\ Restart(h, c).toGet = <<>> /\ Restart(h, c).st \in {c.st, "failed"}
           /\ Restart(h, c).st # "failed" => Restart(h, c).asked \in Seq(Blocks)
<1> DEFINE d == [c EXCEPT !.toGet = <<>>, !.unfetched = 0, !.need = TRUE, !.seen = Genesis]
<1>1. d \in Connection /\ d.want = c.want /\ d.wantItem = c.wantItem /\ d.toGet = <<>> /\ d.st = c.st
  <2>0. PICK e \in Seq(Blocks), z \in Int : e = <<>> /\ z = 0
    <3>1. <<>> \in Seq(Blocks) /\ 0 \in Int
      BY ONLY TRUE
    <3> QED
      BY ONLY <3>1
  <2>1. PICK c1 : c1 = [c EXCEPT !.toGet = e]
    OBVIOUS
  <2>2. c1 \in Connection /\ c1.want = c.want /\ c1.wantItem = c.wantItem /\ c1.toGet = e /\ c1.st = c.st
    BY ONLY <2>1, c \in Connection, e \in Seq(Blocks) DEF Connection
  <2>3. PICK c2 : c2 = [c1 EXCEPT !.unfetched = z]
    OBVIOUS
  <2>4. c2 \in Connection /\ c2.want = c.want /\ c2.wantItem = c.wantItem /\ c2.toGet = e /\ c2.st = c.st
    BY ONLY <2>2, <2>3, z \in Int DEF Connection
  <2>5. PICK c3 : c3 = [c2 EXCEPT !.need = TRUE]
    OBVIOUS
  <2>6. c3 \in Connection /\ c3.want = c.want /\ c3.wantItem = c.wantItem /\ c3.toGet = e /\ c3.st = c.st
    BY ONLY <2>4, <2>5 DEF Connection
  <2>7. d = [c3 EXCEPT !.seen = Genesis]
    BY <2>0, <2>1, <2>3, <2>5
  <2> HIDE DEF d
  <2> QED
    BY ONLY <2>0, <2>6, <2>7 DEF Connection, Ids
<1>2. Restart(h, c) = AskIds(h, d)
  BY DEF Restart
<1> HIDE DEF d
<1> QED
  BY <1>1, <1>2, AskIdsFacts

(* A new connection.                                                       *)
LEMMA FreshFacts ==
    ASSUME NEW st \in States
    PROVE  /\ [Fresh EXCEPT !.st = st] \in Connection /\ Fresh \in Connection
           /\ [Fresh EXCEPT !.st = st].want = {} /\ [Fresh EXCEPT !.st = st].toGet = <<>>
           /\ [Fresh EXCEPT !.st = st].wantItem = {}
           /\ Fresh.want = {} /\ Fresh.wantItem = {} /\ Fresh.st = "active"
<1>1. /\ Fresh \in Connection /\ Fresh.want = {} /\ Fresh.wantItem = {} /\ Fresh.toGet = <<>>
      /\ Fresh.st = "active"
  <2>1. /\ <<>> \in Seq(Blocks) /\ {} \in SUBSET Blocks /\ Genesis \in Ids /\ TRUE \in BOOLEAN
        /\ NotAsked \in Seq(Blocks) \cup {NotAsked} /\ "active" \in States /\ 0 \in Int
    BY DEF Ids, States
  <2> QED
    BY <2>1 DEF Fresh, Connection
<1> HIDE DEF Fresh
<1> QED
  BY <1>1 DEF Connection

(* A reply lists consecutive blocks.                                       *)
LEMMA BlockIdsFacts ==
    ASSUME NEW h \in Ids, NEW synopsis \in Seq(Blocks)
    PROVE  /\ get_block_ids(h, synopsis).ids \in Seq(Blocks)
           /\ get_block_ids(h, synopsis).left \in Int
           /\ Linked(get_block_ids(h, synopsis).ids)
<1> DEFINE c    == ChainTo[h]
           I    == {i \in 1 .. Len(synopsis) : Contains(c, synopsis[i])}
           last == SelectLastInSeq(synopsis, LAMBDA b : Contains(c, b))
           from == IF synopsis = <<>> THEN 1 ELSE Number(synopsis[last])
           to   == IF Len(c) < from + IdsLimit - 1 THEN Len(c) ELSE from + IdsLimit - 1
           ids  == SubSeq(c, from, to)
<1>1. c \in Seq(Blocks) /\ Len(c) \in Nat /\ Linked(c)
  <2>1. IsChain(c, h)
    BY ChainFacts
  <2>2. c \in Seq(Blocks) /\ Len(c) \in Nat
    BY <2>1 DEF IsChain
  <2>3. CASE c = <<>>
    BY <2>2, <2>3 DEF Linked
  <2>4. CASE c # <<>>
    BY <2>1, <2>4 DEF IsChain, Linked
  <2> QED
    BY <2>2, <2>3, <2>4
<1>2. last = IF I # {} THEN Max(I) ELSE 0
  BY DEF SelectLastInSeq
<1>3. last = 0 \/ last \in 1 .. Len(synopsis)
  <2>1. Len(synopsis) \in Nat
    OBVIOUS
  <2>2. I \subseteq 1 .. Len(synopsis)
    OBVIOUS
  <2> HIDE DEF I, last
  <2>3. CASE I = {}
    BY <1>2, <2>3
  <2>4. CASE I # {}
    <3>1. Max(I) \in I
      BY <2>1, <2>2, <2>4, MaxOfBounded
    <3> QED
      BY <1>2, <2>2, <2>4, <3>1
  <2> QED
    BY <2>3, <2>4
<1>4. get_block_ids(h, synopsis) =
         IF synopsis # <<>> /\ last = 0 THEN [ids |-> <<>>, left |-> 0]
         ELSE [ids |-> ids, left |-> Len(c) - (from + Len(ids) - 1)]
  BY DEF get_block_ids
<1> HIDE DEF c, last
<1>5. CASE synopsis # <<>> /\ last = 0
  BY <1>4, <1>5 DEF Linked
<1>6. CASE ~(synopsis # <<>> /\ last = 0)
  <2>1. from \in Nat /\ from >= 1
    <3>1. CASE synopsis = <<>>
      BY <3>1
    <3>2. CASE synopsis # <<>>
      <4>1. synopsis[last] \in Blocks
        BY <1>3, <1>6, <3>2
      <4> QED
        BY <3>2, <4>1, NumberType
    <3> QED
      BY <3>1, <3>2
  <2> HIDE DEF from
  <2>2. IdsLimit \in Nat /\ IdsLimit >= 1
    BY SyncAssumption
  <2>3. to \in Int /\ to <= Len(c)
    BY ONLY <1>1, <2>1, <2>2
  <2> HIDE DEF to
  <2>4. /\ ids \in Seq(Blocks) /\ Len(ids) \in Nat
        /\ \A i \in 1 .. Len(ids) : ids[i] = c[from + i - 1] /\ from + i - 1 \in 1 .. Len(c)
    <3>1. CASE from <= to
      BY ONLY <1>1, <2>1, <2>3, <3>1
    <3>2. CASE ~(from <= to)
      BY ONLY <1>1, <2>1, <2>3, <3>2
    <3> QED
      BY <3>1, <3>2
  <2> HIDE DEF ids
  <2>5. Linked(ids)
    <3>1. SUFFICES ASSUME NEW i \in 1 .. Len(ids) - 1 PROVE Parent[ids[i + 1]] = ids[i]
      BY DEF Linked
    <3>2. i \in 1 .. Len(ids) /\ i + 1 \in 1 .. Len(ids) /\ from + (i + 1) - 1 = (from + i - 1) + 1
      BY ONLY <2>1, <2>4, i \in 1 .. Len(ids) - 1
    <3>3. PICK k \in Nat : k = from + i - 1
      BY ONLY <2>1, <3>2, <2>4
    <3>4. ids[i] = c[k] /\ ids[i + 1] = c[k + 1] /\ k \in 1 .. Len(c) - 1
      BY ONLY <1>1, <2>1, <2>4, <3>2, <3>3
    <3> QED
      BY ONLY <1>1, <3>4 DEF Linked
  <2>6. Len(c) - (from + Len(ids) - 1) \in Int
    BY ONLY <1>1, <2>1, <2>4
  <2> QED
    BY <1>4, <1>6, <2>4, <2>5, <2>6
<1> QED
  BY <1>5, <1>6
-----------------------------------------------------------------------------
Call == [block : Blocks, sync : BOOLEAN, from : Peers \cup {Genesis},
         result : {"waits", "accepted", "rejected", "unlinkable"}]

OutMessage == [type : {"fetch_ids", "fetch_items"}, ids : Seq(Blocks)]

InMessage ==
    {m \in [type : {"ids", "inventory", "synopsis", "block", "missing"}, ids : Seq(Blocks), left : Int] :
        IF m.type = "ids" THEN Linked(m.ids) ELSE m.ids # <<>>}

Typed ==
    /\ known \in SUBSET Blocks /\ head \in known \cup {Genesis}
    /\ calls \in Seq(Call)
    /\ conn \in [Peers -> Connection]
    /\ active \in SUBSET Blocks /\ items \in SUBSET Blocks
    /\ received \in Seq(Blocks) /\ fresh \in Seq(Blocks)
    /\ wake \in SUBSET {"sync", "items", "backlog"}
    /\ out \in [Peers -> Seq(OutMessage)] /\ in \in [Peers -> Seq(InMessage)]
    /\ peerHead \in [Peers -> Ids]

(* The ids still to get are consecutive, for every connection.             *)
Lists == \A p \in Peers : Linked(conn[p].toGet)

(* A connection waits for blocks to synchronize or for advertised ones.    *)
OneKind == \A p \in Peers : conn[p].want = {} \/ conn[p].wantItem = {}

(* A connection that is gone waits for nothing.                            *)
Gone == \A p \in Peers : conn[p].st = "closed" => conn[p].want = {}

(* The delegate has at most as many sync blocks as it may.                 *)
Limited == SyncCalls(calls) \in Nat /\ SyncCalls(calls) <= MaxHandle

IndInv == Typed /\ Lists /\ OneKind /\ Gone /\ RequestsMatch /\ SuspensionEnds /\ Limited

(* OnTheWay for given messages.                                            *)
Waits(o, i, b) ==
    \/ \E k \in DOMAIN o : o[k].type = "fetch_items" /\ Contains(o[k].ids, b)
    \/ \E k \in DOMAIN i : i[k].type \in {"block", "missing"} /\ i[k].ids[1] = b

(* OnTheWay is Waits for the messages of the connection.                   *)
LEMMA WaitsIs ==
    ASSUME NEW p \in Peers, NEW b
    PROVE  OnTheWay(p, b) <=> Waits(out[p], in[p], b)
BY DEF OnTheWay, Waits

(* Messages that are added hide no answer.                                 *)
LEMMA WaitsAdded ==
    ASSUME NEW S, NEW o \in Seq(S), NEW x \in Seq(S), NEW i, NEW b, Waits(o, i, b)
    PROVE  Waits(o \o x, i, b)
<1>1. \A k \in DOMAIN o : k \in DOMAIN (o \o x) /\ (o \o x)[k] = o[k]
  OBVIOUS
<1> QED
  BY <1>1 DEF Waits

(* A message that is sent hides no answer.                                 *)
LEMMA WaitsSent ==
    ASSUME NEW S, NEW o \in Seq(S), NEW m \in S, NEW i, NEW b, Waits(o, i, b)
    PROVE  Waits(Append(o, m), i, b)
<1>1. \A k \in DOMAIN o : k \in DOMAIN Append(o, m) /\ Append(o, m)[k] = o[k]
  OBVIOUS
<1> QED
  BY <1>1 DEF Waits

(* A message that arrives hides no answer.                                 *)
LEMMA WaitsReceived ==
    ASSUME NEW S, NEW o, NEW i \in Seq(S), NEW m \in S, NEW b, Waits(o, i, b)
    PROVE  Waits(o, Append(i, m), b)
<1>1. \A k \in DOMAIN i : k \in DOMAIN Append(i, m) /\ Append(i, m)[k] = i[k]
  OBVIOUS
<1> QED
  BY <1>1 DEF Waits

(* A message that is read takes away no other answer.                      *)
LEMMA WaitsRead ==
    ASSUME NEW S, NEW o, NEW i \in Seq(S), i # <<>>, NEW b, Waits(o, i, b),
           ~(Head(i).type \in {"block", "missing"} /\ Head(i).ids[1] = b)
    PROVE  Waits(o, Tail(i), b)
<1>1. CASE \E k \in DOMAIN o : o[k].type = "fetch_items" /\ Contains(o[k].ids, b)
  BY <1>1 DEF Waits
<1>2. CASE \E k \in DOMAIN i : i[k].type \in {"block", "missing"} /\ i[k].ids[1] = b
  <2>1. PICK k \in DOMAIN i : i[k].type \in {"block", "missing"} /\ i[k].ids[1] = b
    BY <1>2
  <2>2. Head(i) = i[1] /\ k # 1
    BY <2>1
  <2>3. PICK n \in Nat : n = Len(i) /\ k \in 2 .. n
    BY <2>1, <2>2
  <2>4. k - 1 \in DOMAIN Tail(i) /\ Tail(i)[k - 1] = i[(k - 1) + 1]
    BY <2>3
  <2>5. Tail(i)[k - 1] = i[k]
    BY <2>3, <2>4
  <2> QED
    BY <2>1, <2>4, <2>5 DEF Waits
<1> QED
  BY <1>1, <1>2 DEF Waits

(* A request is answered for every block it asks for.                      *)
LEMMA WaitsAnswered ==
    ASSUME NEW o \in Seq(OutMessage), NEW i \in Seq(InMessage), o # <<>>,
           Head(o).type = "fetch_items", NEW b, Waits(o, i, b), NEW lacks
    PROVE  Waits(Tail(o), i \o Answers(Head(o).ids, lacks), b)
<1>1. Head(o) \in OutMessage /\ Head(o) = o[1]
  BY o # <<>>
<1>2. Head(o).ids \in Seq(Blocks)
  BY <1>1 DEF OutMessage
<1> DEFINE t(k) == IF Head(o).ids[k] \in lacks THEN "missing" ELSE "block"
           x == [k \in DOMAIN Head(o).ids |->
                    [type |-> t(k), ids |-> <<Head(o).ids[k]>>, left |-> 0]]
           T == [type : {"block", "missing"}, ids : Seq(Blocks), left : Int]
<1>a. Answers(Head(o).ids, lacks) = x
  BY DEF Answers
<1>3. x \in Seq(T) /\ DOMAIN x = DOMAIN Head(o).ids
  <2>1. PICK n \in Nat : DOMAIN Head(o).ids = 1 .. n
    BY <1>2
  <2>2. \A k \in 1 .. n : Head(o).ids[k] \in Blocks
    BY <1>2, <2>1
  <2>3. \A k \in 1 .. n : [type |-> t(k), ids |-> <<Head(o).ids[k]>>, left |-> 0] \in T
    BY <2>2
  <2>4. DOMAIN x = 1 .. n /\ x = [k \in 1 .. n |-> x[k]]
    BY <2>1
  <2>5. \A k \in 1 .. n : x[k] \in T
    BY <2>1, <2>3
  <2> HIDE DEF x, T
  <2> QED
    BY ONLY <2>1, <2>4, <2>5, n \in Nat, SMTT(30)
<1>4. \A k \in DOMAIN x : x[k].type \in {"block", "missing"} /\ x[k].ids[1] = Head(o).ids[k]
  OBVIOUS
<1> HIDE DEF x, t
<1>5. i \in Seq(InMessage \cup T) /\ x \in Seq(InMessage \cup T)
  <2>1. InMessage \subseteq InMessage \cup T /\ T \subseteq InMessage \cup T
    OBVIOUS
  <2> HIDE DEF T
  <2> QED
    BY <1>3, <2>1
<1>6. \A k \in DOMAIN i : k \in DOMAIN (i \o x) /\ (i \o x)[k] = i[k]
  BY ONLY <1>5
<1>7. \A k \in DOMAIN x : Len(i) + k \in DOMAIN (i \o x) /\ (i \o x)[Len(i) + k] = x[k]
  BY ONLY <1>5
<1>8. CASE \E k \in DOMAIN i : i[k].type \in {"block", "missing"} /\ i[k].ids[1] = b
  BY <1>a, <1>6, <1>8 DEF Waits
<1>9. CASE \E k \in DOMAIN o : o[k].type = "fetch_items" /\ Contains(o[k].ids, b)
  <2>1. PICK k \in DOMAIN o : o[k].type = "fetch_items" /\ Contains(o[k].ids, b)
    BY <1>9
  <2>2. CASE k = 1
    <3>1. PICK j \in DOMAIN Head(o).ids : Head(o).ids[j] = b
      BY <1>1, <1>2, <2>1, <2>2 DEF Contains
    <3>2. (i \o x)[Len(i) + j].type \in {"block", "missing"} /\ (i \o x)[Len(i) + j].ids[1] = b
      BY <1>3, <1>4, <1>7, <3>1
    <3> QED
      BY <1>a, <1>3, <1>7, <3>1, <3>2 DEF Waits
  <2>3. CASE k # 1
    <3>1. PICK n \in Nat : n = Len(o) /\ k \in 2 .. n
      BY <2>1, <2>3
    <3>2. k - 1 \in DOMAIN Tail(o) /\ Tail(o)[k - 1] = o[(k - 1) + 1]
      BY <3>1
    <3>3. Tail(o)[k - 1] = o[k]
      BY <3>1, <3>2
    <3> QED
      BY <2>1, <3>2, <3>3 DEF Waits
  <2> QED
    BY <2>2, <2>3
<1> QED
  BY <1>8, <1>9 DEF Waits

(* What is asked for and awaited stays the same.                           *)
LEMMA RequestsKept ==
    ASSUME OneKind, RequestsMatch, active' = active, denied' = denied,
           \A p \in Peers : /\ conn'[p].want = conn[p].want
                            /\ conn'[p].wantItem \subseteq conn[p].wantItem
                            /\ \A b \in conn[p].want :
                                  Waits(out[p], in[p], b) => Waits(out'[p], in'[p], b)
    PROVE  OneKind' /\ RequestsMatch'
<1>1. OneKind'
  BY DEF OneKind
<1>2. {conn'[p].want : p \in Peers} = {conn[p].want : p \in Peers}
  OBVIOUS
<1>3. \A p \in Peers : \A b \in conn'[p].want : OnTheWay(p, b)'
  BY WaitsIs DEF RequestsMatch, OnTheWay, Waits
<1> QED
  BY <1>1, <1>2, <1>3 DEF RequestsMatch

(* The calls stay the same, and the backlog is woken if it was.            *)
LEMMA CallsKept ==
    ASSUME SuspensionEnds, Limited, calls' = calls, suspended' = suspended,
           "backlog" \in wake => "backlog" \in wake'
    PROVE  SuspensionEnds' /\ Limited'
BY DEF SuspensionEnds, Limited, SyncCalls

(* A request for ids that is sent.                                         *)
LEMMA AskingFacts ==
    ASSUME out \in [Peers -> Seq(OutMessage)], NEW ps, NEW c,
           \A p \in Peers \cap ps : c[p].st # "failed" => c[p].asked \in Seq(Blocks)
    PROVE  /\ Asking(ps, c) \in [Peers -> Seq(OutMessage)]
           /\ \A p \in Peers : \A i, b : Waits(out[p], i, b) => Waits(Asking(ps, c)[p], i, b)
<1>1. ASSUME NEW p \in Peers
      PROVE  /\ Asking(ps, c)[p] \in Seq(OutMessage)
             /\ \A i, b : Waits(out[p], i, b) => Waits(Asking(ps, c)[p], i, b)
  <2>1. CASE p \in ps /\ c[p].st # "failed"
    <3>1. Sent(c[p]) \in OutMessage
      BY <1>1, <2>1 DEF Sent, OutMessage
    <3>2. Asking(ps, c)[p] = Append(out[p], Sent(c[p]))
      BY <1>1, <2>1 DEF Asking
    <3>3. out[p] \in Seq(OutMessage)
      BY <1>1
    <3> QED
      BY <3>1, <3>2, <3>3, WaitsSent
  <2>2. CASE ~(p \in ps /\ c[p].st # "failed")
    <3>1. Asking(ps, c)[p] = out[p] /\ out[p] \in Seq(OutMessage)
      BY <1>1, <2>2 DEF Asking
    <3> QED
      BY <3>1
  <2> QED
    BY <2>1, <2>2
<1>2. Asking(ps, c) = [p \in Peers |-> Asking(ps, c)[p]]
  BY DEF Asking
<1> QED
  BY <1>1, <1>2
-----------------------------------------------------------------------------
(* The invariant holds when the node starts.                               *)
LEMMA InitInv == Init => IndInv
<1> SUFFICES ASSUME Init PROVE IndInv
  OBVIOUS
<1>1. Start \in Ids /\ PeerStart \in [Peers -> Ids]
  BY SyncAssumption DEF Ids
<1>2. known \in SUBSET Blocks /\ head \in known \cup {Genesis}
  <2>1. IsChain(ChainTo[Start], Start)
    BY <1>1, ChainFacts
  <2>2. known = {ChainTo[Start][i] : i \in DOMAIN ChainTo[Start]} /\ head = Start
    BY DEF Init, ToSet
  <2>3. ChainTo[Start] \in Seq(Blocks)
    BY <2>1 DEF IsChain
  <2>4. CASE Start = Genesis
    BY <2>2, <2>3, <2>4
  <2>5. CASE Start # Genesis
    <3>1. ChainTo[Start] # <<>> /\ ChainTo[Start][Len(ChainTo[Start])] = Start
      BY <2>1, <2>5 DEF IsChain
    <3>2. Len(ChainTo[Start]) \in DOMAIN ChainTo[Start]
      BY <2>3, <3>1
    <3> QED
      BY <2>2, <2>3, <3>1, <3>2
  <2> QED
    BY <2>4, <2>5
<1>3. \A p \in Peers : /\ conn[p] = Restart(Start, Fresh) /\ conn[p] \in Connection
                       /\ conn[p].want = {} /\ conn[p].toGet = <<>>
                       /\ conn[p].st # "failed" => conn[p].asked \in Seq(Blocks)
  <2>1. "active" \in States
    BY DEF States
  <2>2. Fresh \in Connection /\ Fresh.want = {}
    BY <2>1, FreshFacts
  <2>3. \A p \in Peers : conn[p] = Restart(Start, Fresh)
    BY DEF Init
  <2> QED
    BY <1>1, <2>2, <2>3, RestartFacts
<1>4. conn \in [Peers -> Connection]
  <2>1. conn = [p \in Peers |-> conn[p]]
    BY DEF Init
  <2> QED
    BY <1>3, <2>1
<1>5. \A p \in Peers : conn[p].st # "failed"
  <2>1. \A p \in Peers : conn[p] = Restart(Start, Fresh)
    BY <1>3
  <2>2. Restart(Start, Fresh).st = "active"
    BY DEF Restart, AskIds, Fresh
  <2> QED
    BY <2>1, <2>2
<1>6. out \in [Peers -> Seq(OutMessage)] /\ in \in [Peers -> Seq(InMessage)]
  <2>1. \A p \in Peers : Sent(conn[p]) \in OutMessage
    BY <1>3, <1>5 DEF Sent, OutMessage
  <2>2. \A p \in Peers : <<Sent(conn[p])>> \in Seq(OutMessage)
    BY <2>1
  <2>3. out = [p \in Peers |-> <<Sent(conn[p])>>] /\ in = [p \in Peers |-> <<>>]
    BY DEF Init
  <2> QED
    BY <2>2, <2>3
<1>7. Typed
  BY <1>1, <1>2, <1>4, <1>6 DEF Init, Typed
<1>8. Lists /\ OneKind /\ Gone
  BY <1>3 DEF Lists, Linked, OneKind, Gone
<1>9. RequestsMatch
  BY <1>3 DEF Init, RequestsMatch
<1>10. SuspensionEnds
  BY DEF Init, SuspensionEnds
<1>11. Limited
  <2>1. {i \in DOMAIN calls : calls[i].sync} = {}
    BY DEF Init
  <2>2. SyncCalls(calls) = 0
    BY <2>1, FS_EmptySet DEF SyncCalls
  <2> QED
    BY <2>2, SyncAssumption DEF Limited
<1> QED
  BY <1>7, <1>8, <1>9, <1>10, <1>11 DEF IndInv

(* The parts of the invariant under names of their own.                    *)
LEMMA Parts ==
    ASSUME IndInv
    PROVE  /\ Typed /\ Lists /\ OneKind /\ Gone /\ RequestsMatch /\ SuspensionEnds /\ Limited
           /\ known \in SUBSET Blocks /\ head \in Ids /\ head \in known \cup {Genesis}
           /\ calls \in Seq(Call)
           /\ conn \in [Peers -> Connection]
           /\ active \in SUBSET Blocks /\ items \in SUBSET Blocks
           /\ received \in Seq(Blocks) /\ fresh \in Seq(Blocks)
           /\ wake \in SUBSET {"sync", "items", "backlog"}
           /\ out \in [Peers -> Seq(OutMessage)] /\ in \in [Peers -> Seq(InMessage)]
           /\ peerHead \in [Peers -> Ids]
BY DEF IndInv, Typed, Ids

(* A message that is read.                                                 *)
LEMMA ReadsFacts ==
    ASSUME in \in [Peers -> Seq(InMessage)], NEW p \in Peers, NEW type, Reads(p, type)
    PROVE  /\ in' \in [Peers -> Seq(InMessage)]
           /\ Head(in[p]) \in InMessage /\ Head(in[p]).type = type
           /\ \A q \in Peers : \A o, b :
                 Waits(o, in[q], b) /\ ~(q = p /\ type \in {"block", "missing"} /\ Head(in[p]).ids[1] = b)
                 => Waits(o, in'[q], b)
<1>1. /\ in[p] # <<>> /\ Head(in[p]).type = type /\ in' = [in EXCEPT ![p] = Tail(in[p])]
  BY DEF Reads
<1>2. in[p] \in Seq(InMessage)
  OBVIOUS
<1>3. Tail(in[p]) \in Seq(InMessage) /\ Head(in[p]) \in InMessage
  BY <1>1, <1>2
<1>4. in' \in [Peers -> Seq(InMessage)]
  BY <1>1, <1>3
<1>5. \A q \in Peers : in'[q] = IF q = p THEN Tail(in[p]) ELSE in[q]
  BY <1>1
<1>6. ASSUME NEW q \in Peers, NEW o, NEW b, Waits(o, in[q], b),
             ~(q = p /\ type \in {"block", "missing"} /\ Head(in[p]).ids[1] = b)
      PROVE  Waits(o, in'[q], b)
  <2>1. CASE q = p
    BY <1>1, <1>2, <1>5, <1>6, <2>1, WaitsRead
  <2>2. CASE q # p
    BY <1>5, <1>6, <2>2
  <2> QED
    BY <2>1, <2>2
<1> QED
  BY <1>1, <1>3, <1>4, <1>6

(* on_fetch_blockchain_item_ids_message and on_fetch_items_message.        *)
LEMMA PeerRepliesPreserves ==
    ASSUME IndInv, NEW p \in Peers, PeerReplies(p)
    PROVE  IndInv'
<1>1. /\ Typed /\ Lists /\ OneKind /\ Gone /\ RequestsMatch /\ SuspensionEnds /\ Limited
      /\ out \in [Peers -> Seq(OutMessage)] /\ in \in [Peers -> Seq(InMessage)]
      /\ peerHead \in [Peers -> Ids]
  BY Parts
<1>2. /\ out[p] # <<>> /\ out' = [out EXCEPT ![p] = Tail(out[p])]
      /\ UNCHANGED <<known, head, calls, conn, active, received, fresh, accepted, items,
                     suspended, wake, peerHead, denied>>
  BY DEF PeerReplies
<1>3. out[p] \in Seq(OutMessage) /\ in[p] \in Seq(InMessage)
  BY <1>1
<1>4. PICK m \in OutMessage : m = Head(out[p])
  BY <1>2, <1>3
<1>5. Tail(out[p]) \in Seq(OutMessage)
  BY <1>2, <1>3
<1>6. /\ out' \in [Peers -> Seq(OutMessage)] /\ out'[p] = Tail(out[p])
      /\ \A q \in Peers : q # p => out'[q] = out[q]
  BY <1>1, <1>2, <1>5
<1>7. \E x \in Seq(InMessage) :
         /\ in' = [in EXCEPT ![p] = x]
         /\ \A b : Waits(out[p], in[p], b) => Waits(Tail(out[p]), x, b)
  <2>1. CASE m.type = "fetch_ids"
    <3> DEFINE r == get_block_ids(peerHead[p], m.ids)
               e == [type |-> "ids", ids |-> r.ids, left |-> r.left]
    <3>1. in' = [in EXCEPT ![p] = Append(in[p], e)]
      BY <1>4, <2>1 DEF PeerReplies
    <3>2. m.ids \in Seq(Blocks) /\ peerHead[p] \in Ids
      BY <1>1 DEF OutMessage
    <3>3. r.ids \in Seq(Blocks) /\ r.left \in Int /\ Linked(r.ids)
      BY <3>2, BlockIdsFacts
    <3> HIDE DEF r
    <3>4. e \in InMessage
      BY <3>3 DEF InMessage
    <3> HIDE DEF e
    <3>5. Append(in[p], e) \in Seq(InMessage)
      BY <1>3, <3>4
    <3>6. ASSUME NEW b, Waits(out[p], in[p], b)
          PROVE  Waits(Tail(out[p]), Append(in[p], e), b)
      <4>1. Waits(out[p], Append(in[p], e), b)
        BY <1>3, <3>4, <3>6, WaitsReceived
      <4>2. CASE \E k \in DOMAIN out[p] : out[p][k].type = "fetch_items" /\ Contains(out[p][k].ids, b)
        <5>1. PICK k \in DOMAIN out[p] : out[p][k].type = "fetch_items" /\ Contains(out[p][k].ids, b)
          BY <4>2
        <5>2. k # 1
          BY <1>3, <1>4, <2>1, <5>1
        <5>3. PICK n \in Nat : n = Len(out[p]) /\ k \in 2 .. n
          BY <1>3, <5>1, <5>2
        <5>4. k - 1 \in DOMAIN Tail(out[p]) /\ Tail(out[p])[k - 1] = out[p][(k - 1) + 1]
          BY <1>3, <5>3
        <5>5. Tail(out[p])[k - 1] = out[p][k]
          BY <5>3, <5>4
        <5> QED
          BY <5>1, <5>4, <5>5 DEF Waits
      <4>3. CASE \E k \in DOMAIN Append(in[p], e) :
                    /\ Append(in[p], e)[k].type \in {"block", "missing"}
                    /\ Append(in[p], e)[k].ids[1] = b
        BY <4>3 DEF Waits
      <4> QED
        BY <4>1, <4>2, <4>3 DEF Waits
    <3> QED
      BY <3>1, <3>5, <3>6
  <2>2. CASE m.type # "fetch_ids"
    <3>1. m.type = "fetch_items" /\ m.ids \in Seq(Blocks)
      BY <2>2 DEF OutMessage
    <3>2. PICK lacks : in' = [in EXCEPT ![p] = in[p] \o Answers(m.ids, lacks)]
      BY <1>4, <2>2 DEF PeerReplies
    <3> DEFINE x == Answers(m.ids, lacks)
    <3>3. x \in Seq(InMessage)
      <4>1. PICK n \in Nat : DOMAIN m.ids = 1 .. n
        BY <3>1
      <4>2. \A i \in 1 .. n : m.ids[i] \in Blocks
        BY <3>1, <4>1
      <4>3. ASSUME NEW b \in Blocks, NEW type \in {"block", "missing"}
            PROVE  [type |-> type, ids |-> <<b>>, left |-> 0] \in InMessage
        BY DEF InMessage
      <4>4. \A i \in 1 .. n : x[i] \in InMessage
        BY <4>1, <4>2, <4>3 DEF Answers
      <4>5. x = [i \in 1 .. n |-> x[i]]
        BY <4>1 DEF Answers
      <4> HIDE DEF x
      <4> QED
        BY ONLY <4>4, <4>5, n \in Nat
    <3>4. in[p] \o x \in Seq(InMessage)
      <4> HIDE DEF x
      <4> QED
        BY <1>3, <3>3
    <3>5. \A b : Waits(out[p], in[p], b) => Waits(Tail(out[p]), in[p] \o x, b)
      BY <1>2, <1>3, <1>4, <3>1, WaitsAnswered
    <3> HIDE DEF x
    <3>6. in' = [in EXCEPT ![p] = in[p] \o x]
      BY <3>2 DEF x
    <3> QED
      BY <3>4, <3>5, <3>6
  <2> QED
    BY <2>1, <2>2
<1>8. PICK x \in Seq(InMessage) :
         /\ in' = [in EXCEPT ![p] = x]
         /\ \A b : Waits(out[p], in[p], b) => Waits(Tail(out[p]), x, b)
  BY <1>7
<1>9. /\ in' \in [Peers -> Seq(InMessage)] /\ in'[p] = x
      /\ \A q \in Peers : q # p => in'[q] = in[q]
  BY <1>1, <1>8
<1>10. Typed'
  BY <1>1, <1>2, <1>6, <1>9 DEF Typed
<1>11. Lists' /\ Gone'
  BY <1>1, <1>2 DEF Lists, Gone
<1>12. OneKind' /\ RequestsMatch'
  <2>1. \A q \in Peers : \A b : Waits(out[q], in[q], b) => Waits(out'[q], in'[q], b)
    BY <1>6, <1>8, <1>9, ZenonT(60)
  <2>2. \A q \in Peers : conn'[q].want = conn[q].want /\ conn'[q].wantItem \subseteq conn[q].wantItem
    BY <1>2
  <2> QED
    BY <1>1, <1>2, <2>1, <2>2, RequestsKept
<1>13. SuspensionEnds' /\ Limited'
  BY <1>1, <1>2, CallsKept
<1> QED
  BY <1>10, <1>11, <1>12, <1>13 DEF IndInv

(* A peer gets a new head.                                                 *)
LEMMA PeerAdvancesPreserves ==
    ASSUME IndInv, NEW p \in Peers, PeerAdvances(p)
    PROVE  IndInv'
<1>1. /\ Typed /\ Lists /\ OneKind /\ Gone /\ RequestsMatch /\ SuspensionEnds /\ Limited
      /\ in \in [Peers -> Seq(InMessage)] /\ peerHead \in [Peers -> Ids]
  BY Parts
<1>2. PICK b \in Blocks, type \in {"inventory", "synopsis", "block", "missing"} :
         /\ peerHead' = [peerHead EXCEPT ![p] = b]
         /\ in' = IF serving[p] \/ conn[p].st # "active" THEN in
                  ELSE [in EXCEPT ![p] = Append(in[p], [type |-> type, ids |-> <<b>>, left |-> 0])]
  BY DEF PeerAdvances
<1>3. UNCHANGED <<known, head, calls, conn, active, received, fresh, accepted, items, suspended, wake,
                  out, serving, denied>>
  BY DEF PeerAdvances
<1>4. PICK m \in InMessage : m = [type |-> type, ids |-> <<b>>, left |-> 0]
  <2>1. [type |-> type, ids |-> <<b>>, left |-> 0] \in InMessage
    BY ONLY b \in Blocks, type \in {"inventory", "synopsis", "block", "missing"} DEF InMessage
  <2> QED
    BY ONLY <2>1
<1>5. /\ in' \in [Peers -> Seq(InMessage)]
      /\ \A q \in Peers : \A d : Waits(out[q], in[q], d) => Waits(out[q], in'[q], d)
  <2>1. CASE in' = in
    BY <1>1, <2>1
  <2>2. CASE in' = [in EXCEPT ![p] = Append(in[p], m)]
    <3>1. in[p] \in Seq(InMessage) /\ Append(in[p], m) \in Seq(InMessage)
      BY <1>1
    <3>2. \A q \in Peers : in'[q] = IF q = p THEN Append(in[p], m) ELSE in[q]
      BY <1>1, <2>2
    <3>3. \A d : Waits(out[p], in[p], d) => Waits(out[p], Append(in[p], m), d)
      BY <3>1, WaitsReceived
    <3> QED
      BY <1>1, <2>2, <3>1, <3>2, <3>3
  <2> QED
    BY <1>2, <1>4, <2>1, <2>2
<1>6. peerHead' \in [Peers -> Ids]
  BY <1>1, <1>2 DEF Ids
<1>7. Typed'
  BY <1>1, <1>3, <1>5, <1>6 DEF Typed
<1>8. Lists' /\ Gone'
  BY <1>1, <1>3 DEF Lists, Gone
<1>9. OneKind' /\ RequestsMatch'
  BY <1>1, <1>3, <1>5, RequestsKept
<1>10. SuspensionEnds' /\ Limited'
  BY <1>1, <1>3, CallsKept
<1> QED
  BY <1>7, <1>8, <1>9, <1>10 DEF IndInv
-----------------------------------------------------------------------------
(* The ids from any place of a list on are consecutive if those of the list*)
(* are.                                                                    *)
LEMMA LinkedFrom ==
    ASSUME NEW s \in Seq(Blocks), Linked(s), NEW n \in 1 .. Len(s) + 1
    PROVE  SubSeq(s, n, Len(s)) \in Seq(Blocks) /\ Linked(SubSeq(s, n, Len(s)))
<1> DEFINE t == SubSeq(s, n, Len(s))
<1>1. PICK l \in Nat : l = Len(s) /\ n \in 1 .. l + 1
  OBVIOUS
<1>2. /\ t \in Seq(Blocks) /\ Len(t) = l - n + 1
      /\ \A i \in 1 .. l - n + 1 : t[i] = s[n + i - 1]
  BY <1>1
<1> HIDE DEF t
<1>3. ASSUME NEW i \in 1 .. Len(t) - 1
      PROVE  Parent[t[i + 1]] = t[i]
  <2>1. PICK k \in Nat : k = n + i - 1 /\ k + 1 = n + (i + 1) - 1 /\ k \in 1 .. l - 1
    BY ONLY <1>1, <1>2, i \in 1 .. Len(t) - 1
  <2>2. i \in 1 .. l - n + 1 /\ i + 1 \in 1 .. l - n + 1
    BY ONLY <1>1, <1>2, i \in 1 .. Len(t) - 1
  <2>3. t[i] = s[k] /\ t[i + 1] = s[k + 1]
    BY ONLY <1>2, <2>1, <2>2
  <2>4. Parent[s[k + 1]] = s[k]
    BY <1>1, <2>1 DEF Linked
  <2> QED
    BY ONLY <2>3, <2>4
<1> QED
  BY <1>2, <1>3 DEF Linked, t

(* So are those behind the first.                                          *)
LEMMA LinkedTail ==
    ASSUME NEW s \in Seq(Blocks), s # <<>>, Linked(s)
    PROVE  Tail(s) \in Seq(Blocks) /\ Linked(Tail(s))
<1>1. PICK l \in Nat : l = Len(s) /\ l # 0
  OBVIOUS
<1>2. Tail(s) = SubSeq(s, 2, Len(s))
  BY <1>1
<1>3. 2 \in 1 .. Len(s) + 1
  BY <1>1
<1> QED
  BY <1>2, <1>3, LinkedFrom

(* A list goes on at the block it shares with another.                     *)
LEMMA LinkedJoin ==
    ASSUME NEW s \in Seq(Blocks), NEW t \in Seq(Blocks), Linked(s), Linked(t), t # <<>>,
           NEW k \in 1 .. Len(s), s[k] = t[1]
    PROVE  SubSeq(s, 1, k - 1) \o t \in Seq(Blocks) /\ Linked(SubSeq(s, 1, k - 1) \o t)
<1> DEFINE a == SubSeq(s, 1, k - 1)
           u == a \o t
<1>1. PICK l \in Nat, n \in Nat : l = Len(s) /\ n = Len(t) /\ n # 0 /\ k \in 1 .. l
  OBVIOUS
<1>2. a \in Seq(Blocks) /\ Len(a) = k - 1 /\ \A i \in 1 .. k - 1 : a[i] = s[i]
  BY <1>1
<1> HIDE DEF a
<1>3. /\ u \in Seq(Blocks) /\ Len(u) = (k - 1) + n
      /\ \A i \in 1 .. k - 1 : u[i] = a[i]
      /\ \A i \in 1 .. n : u[(k - 1) + i] = t[i]
  BY <1>1, <1>2
<1> HIDE DEF u
<1>4. ASSUME NEW i \in 1 .. Len(u) - 1
      PROVE  Parent[u[i + 1]] = u[i]
  <2>1. CASE i < k - 1
    <3>1. i \in 1 .. k - 1 /\ i + 1 \in 1 .. k - 1 /\ i \in 1 .. l - 1
      BY ONLY <1>1, <1>3, <2>1, i \in 1 .. Len(u) - 1
    <3>2. u[i] = s[i] /\ u[i + 1] = s[i + 1]
      BY ONLY <1>2, <1>3, <3>1
    <3> QED
      BY <1>1, <3>1, <3>2 DEF Linked
  <2>2. CASE i = k - 1
    <3>1. i \in 1 .. k - 1 /\ i + 1 = (k - 1) + 1 /\ 1 \in 1 .. n /\ i \in 1 .. l - 1 /\ i + 1 = k
      BY ONLY <1>1, <1>3, <2>2, i \in 1 .. Len(u) - 1
    <3>2. u[i] = s[i] /\ u[i + 1] = t[1]
      BY ONLY <1>2, <1>3, <3>1
    <3>3. Parent[s[i + 1]] = s[i]
      BY <1>1, <3>1 DEF Linked
    <3> QED
      BY <3>1, <3>2, <3>3
  <2>3. CASE i > k - 1
    <3>1. PICK j \in 1 .. n - 1 : i = (k - 1) + j /\ i + 1 = (k - 1) + (j + 1)
      <4>1. i - (k - 1) \in 1 .. n - 1
        BY ONLY <1>1, <1>3, <2>3, i \in 1 .. Len(u) - 1
      <4>2. i = (k - 1) + (i - (k - 1)) /\ i + 1 = (k - 1) + ((i - (k - 1)) + 1)
        BY ONLY <1>1, <1>3, <2>3, i \in 1 .. Len(u) - 1
      <4> QED
        BY ONLY <4>1, <4>2
    <3>2. j \in 1 .. n /\ j + 1 \in 1 .. n
      BY ONLY <1>1, <3>1
    <3>3. u[i] = t[j] /\ u[i + 1] = t[j + 1]
      BY ONLY <1>3, <3>1, <3>2
    <3> QED
      BY <1>1, <3>1, <3>3 DEF Linked
  <2> QED
    BY ONLY <1>1, <1>3, <2>1, <2>2, <2>3, i \in 1 .. Len(u) - 1
<1> QED
  BY <1>3, <1>4 DEF Linked, u, a

(* A change of a field that the requests do not depend on.                 *)
LEMMA FieldFacts ==
    ASSUME NEW c \in Connection
    PROVE  /\ \A x \in Seq(Blocks) :
                 /\ [c EXCEPT !.toGet = x] \in Connection /\ [c EXCEPT !.toGet = x].toGet = x
                 /\ [c EXCEPT !.toGet = x].want = c.want /\ [c EXCEPT !.toGet = x].wantItem = c.wantItem
                 /\ [c EXCEPT !.toGet = x].st = c.st
                 /\ [c EXCEPT !.toGet = x].processing = c.processing
                 /\ [c EXCEPT !.toGet = x].seen = c.seen
           /\ \A x \in Ids :
                 /\ [c EXCEPT !.seen = x] \in Connection /\ [c EXCEPT !.seen = x].toGet = c.toGet
                 /\ [c EXCEPT !.seen = x].want = c.want /\ [c EXCEPT !.seen = x].wantItem = c.wantItem
                 /\ [c EXCEPT !.seen = x].st = c.st
                 /\ [c EXCEPT !.seen = x].processing = c.processing
           /\ \A x \in Int :
                 /\ [c EXCEPT !.unfetched = x] \in Connection
                 /\ [c EXCEPT !.unfetched = x].toGet = c.toGet
                 /\ [c EXCEPT !.unfetched = x].want = c.want
                 /\ [c EXCEPT !.unfetched = x].wantItem = c.wantItem
                 /\ [c EXCEPT !.unfetched = x].st = c.st
           /\ \A x \in {"closing", "failed"} :
                 /\ [c EXCEPT !.st = x] \in Connection /\ [c EXCEPT !.st = x].toGet = c.toGet
                 /\ [c EXCEPT !.st = x].want = c.want /\ [c EXCEPT !.st = x].wantItem = c.wantItem
                 /\ [c EXCEPT !.st = x].st = x
           /\ \A x \in SUBSET Blocks :
                 /\ [c EXCEPT !.processing = x] \in Connection
                 /\ [c EXCEPT !.processing = x].toGet = c.toGet
                 /\ [c EXCEPT !.processing = x].want = c.want
                 /\ [c EXCEPT !.processing = x].wantItem = c.wantItem
                 /\ [c EXCEPT !.processing = x].st = c.st
           /\ \A x \in SUBSET Blocks :
                 /\ [c EXCEPT !.offered = x] \in Connection /\ [c EXCEPT !.offered = x].toGet = c.toGet
                 /\ [c EXCEPT !.offered = x].want = c.want
                 /\ [c EXCEPT !.offered = x].wantItem = c.wantItem
                 /\ [c EXCEPT !.offered = x].st = c.st
           /\ \A x \in SUBSET Blocks :
                 /\ [c EXCEPT !.told = x] \in Connection /\ [c EXCEPT !.told = x].toGet = c.toGet
                 /\ [c EXCEPT !.told = x].want = c.want
                 /\ [c EXCEPT !.told = x].wantItem = c.wantItem
                 /\ [c EXCEPT !.told = x].st = c.st
           /\ \A x \in BOOLEAN :
                 /\ [c EXCEPT !.need = x] \in Connection /\ [c EXCEPT !.need = x].toGet = c.toGet
                 /\ [c EXCEPT !.need = x].want = c.want /\ [c EXCEPT !.need = x].wantItem = c.wantItem
                 /\ [c EXCEPT !.need = x].st = c.st
           /\ [c EXCEPT !.asked = NotAsked] \in Connection
           /\ [c EXCEPT !.asked = NotAsked].toGet = c.toGet
           /\ [c EXCEPT !.asked = NotAsked].want = c.want
           /\ [c EXCEPT !.asked = NotAsked].wantItem = c.wantItem
           /\ [c EXCEPT !.asked = NotAsked].st = c.st
BY DEF Connection, States

(* And of the requests.                                                    *)
LEMMA WantFacts ==
    ASSUME NEW c \in Connection, NEW x \in SUBSET Blocks
    PROVE  /\ [c EXCEPT !.want = x] \in Connection /\ [c EXCEPT !.want = x].toGet = c.toGet
           /\ [c EXCEPT !.want = x].want = x /\ [c EXCEPT !.want = x].wantItem = c.wantItem
           /\ [c EXCEPT !.want = x].st = c.st /\ [c EXCEPT !.wantItem = x].st = c.st
           /\ [c EXCEPT !.wantItem = x] \in Connection /\ [c EXCEPT !.wantItem = x].toGet = c.toGet
           /\ [c EXCEPT !.wantItem = x].want = c.want /\ [c EXCEPT !.wantItem = x].wantItem = x
BY DEF Connection

(* What stays of a connection that another one takes the place of.         *)
Same(c, d) ==
    /\ d \in Connection /\ Linked(d.toGet)
    /\ d.want = c.want /\ d.wantItem \subseteq c.wantItem
    /\ d.st = "closed" => c.st = "closed"

(* Changes of one field that leave it alone.                               *)
LEMMA SameFields ==
    ASSUME NEW c \in Connection, Linked(c.toGet)
    PROVE  /\ Same(c, c)
           /\ \A x \in Seq(Blocks) : Linked(x) => Same(c, [c EXCEPT !.toGet = x])
           /\ \A x \in Ids : Same(c, [c EXCEPT !.seen = x])
           /\ \A x \in Int : Same(c, [c EXCEPT !.unfetched = x])
           /\ \A x \in {"closing", "failed"} : Same(c, [c EXCEPT !.st = x])
           /\ \A x \in SUBSET Blocks : Same(c, [c EXCEPT !.processing = x])
           /\ \A x \in SUBSET Blocks : Same(c, [c EXCEPT !.offered = x])
           /\ \A x \in SUBSET Blocks : Same(c, [c EXCEPT !.told = x])
           /\ \A x \in BOOLEAN : Same(c, [c EXCEPT !.need = x])
           /\ Same(c, [c EXCEPT !.asked = NotAsked])
<1>1. Same(c, c)
  BY DEF Same
<1>2. ASSUME NEW x \in Seq(Blocks), Linked(x) PROVE Same(c, [c EXCEPT !.toGet = x])
  <2>1. /\ [c EXCEPT !.toGet = x] \in Connection /\ [c EXCEPT !.toGet = x].toGet = x
        /\ [c EXCEPT !.toGet = x].want = c.want /\ [c EXCEPT !.toGet = x].wantItem = c.wantItem
        /\ [c EXCEPT !.toGet = x].st = c.st
    BY FieldFacts, ZenonT(60)
  <2> QED
    BY <1>2, <2>1 DEF Same
<1>3. ASSUME NEW x \in Ids PROVE Same(c, [c EXCEPT !.seen = x])
  <2>1. /\ [c EXCEPT !.seen = x] \in Connection /\ [c EXCEPT !.seen = x].toGet = c.toGet
        /\ [c EXCEPT !.seen = x].want = c.want /\ [c EXCEPT !.seen = x].wantItem = c.wantItem
        /\ [c EXCEPT !.seen = x].st = c.st
    BY FieldFacts
  <2> QED
    BY <2>1 DEF Same
<1>4. ASSUME NEW x \in Int PROVE Same(c, [c EXCEPT !.unfetched = x])
  <2>1. /\ [c EXCEPT !.unfetched = x] \in Connection /\ [c EXCEPT !.unfetched = x].toGet = c.toGet
        /\ [c EXCEPT !.unfetched = x].want = c.want /\ [c EXCEPT !.unfetched = x].wantItem = c.wantItem
        /\ [c EXCEPT !.unfetched = x].st = c.st
    BY FieldFacts
  <2> QED
    BY <2>1 DEF Same
<1>5. ASSUME NEW x \in {"closing", "failed"} PROVE Same(c, [c EXCEPT !.st = x])
  <2>1. /\ [c EXCEPT !.st = x] \in Connection /\ [c EXCEPT !.st = x].toGet = c.toGet
        /\ [c EXCEPT !.st = x].want = c.want /\ [c EXCEPT !.st = x].wantItem = c.wantItem
        /\ [c EXCEPT !.st = x].st = x
    BY FieldFacts, ZenonT(60)
  <2> QED
    BY <2>1 DEF Same
<1>6. ASSUME NEW x \in SUBSET Blocks PROVE Same(c, [c EXCEPT !.processing = x])
  <2>1. /\ [c EXCEPT !.processing = x] \in Connection /\ [c EXCEPT !.processing = x].toGet = c.toGet
        /\ [c EXCEPT !.processing = x].want = c.want /\ [c EXCEPT !.processing = x].wantItem = c.wantItem
        /\ [c EXCEPT !.processing = x].st = c.st
    BY FieldFacts
  <2> QED
    BY <2>1 DEF Same
<1>7. ASSUME NEW x \in SUBSET Blocks PROVE Same(c, [c EXCEPT !.offered = x])
  <2>1. /\ [c EXCEPT !.offered = x] \in Connection /\ [c EXCEPT !.offered = x].toGet = c.toGet
        /\ [c EXCEPT !.offered = x].want = c.want /\ [c EXCEPT !.offered = x].wantItem = c.wantItem
        /\ [c EXCEPT !.offered = x].st = c.st
    BY FieldFacts
  <2> QED
    BY <2>1 DEF Same
<1>8. ASSUME NEW x \in SUBSET Blocks PROVE Same(c, [c EXCEPT !.told = x])
  <2>1. /\ [c EXCEPT !.told = x] \in Connection /\ [c EXCEPT !.told = x].toGet = c.toGet
        /\ [c EXCEPT !.told = x].want = c.want /\ [c EXCEPT !.told = x].wantItem = c.wantItem
        /\ [c EXCEPT !.told = x].st = c.st
    BY FieldFacts
  <2> QED
    BY <2>1 DEF Same
<1>9. ASSUME NEW x \in BOOLEAN PROVE Same(c, [c EXCEPT !.need = x])
  <2>1. /\ [c EXCEPT !.need = x] \in Connection /\ [c EXCEPT !.need = x].toGet = c.toGet
        /\ [c EXCEPT !.need = x].want = c.want /\ [c EXCEPT !.need = x].wantItem = c.wantItem
        /\ [c EXCEPT !.need = x].st = c.st
    BY FieldFacts
  <2> QED
    BY <2>1 DEF Same
<1>10. Same(c, [c EXCEPT !.asked = NotAsked])
  BY FieldFacts DEF Same
<1> QED
  BY <1>1, <1>2, <1>3, <1>4, <1>5, <1>6, <1>7, <1>8, <1>9, <1>10

(* Two changes that leave the requests of a connection alone are one.      *)
LEMMA SameTwice ==
    ASSUME NEW c, NEW d, NEW e, Same(c, d), Same(d, e)
    PROVE  Same(c, e)
BY DEF Same

(* Asking for ids is such a change.                                        *)
LEMMA SameAsked ==
    ASSUME NEW h \in Ids, NEW c \in Connection, Linked(c.toGet)
    PROVE  Same(c, AskIds(h, c)) /\ Same(c, Restart(h, c))
<1>1. Linked(<<>>)
  BY DEF Linked
<1> QED
  BY <1>1, AskIdsFacts, RestartFacts DEF Same

(* The list after a reply.                                                 *)
LEMMA ExtendedFacts ==
    ASSUME IndInv, NEW p \in Peers, NEW ids \in Seq(Blocks), Linked(ids)
    PROVE  Same(conn[p], Extended(p, ids))
<1>1. /\ conn[p] \in Connection /\ Linked(conn[p].toGet)
      /\ known \in SUBSET Blocks
  BY Parts DEF Lists
<1>2. PICK c \in Connection : c = conn[p] /\ Linked(c.toGet)
  BY <1>1
<1>3. c.toGet \in Seq(Blocks)
  BY DEF Connection
<1> DEFINE shared == SelectLastInSeq(c.toGet, LAMBDA b : b = ids[1])
           others == \E q \in Active(conn) \ {p} : conn[q].toGet # <<>> /\ conn[q].toGet[1] = ids[1]
           n      == FirstNew(ids)
           joined == [c EXCEPT !.toGet = SubSeq(c.toGet, 1, shared - 1) \o ids]
           tailed == [c EXCEPT !.toGet = Tail(ids), !.seen = ids[1]]
           whole  == [c EXCEPT !.toGet = ids]
           cut    == [c EXCEPT !.toGet = SubSeq(ids, n, Len(ids)),
                               !.seen  = IF n = 1 THEN c.seen ELSE ids[n - 1]]
<1>4. Extended(p, ids) =
         IF ids = <<>> THEN c
         ELSE IF c.toGet # <<>> /\ shared # 0 THEN joined
         ELSE IF c.toGet # <<>> THEN tailed
         ELSE IF others THEN whole ELSE cut
  BY <1>2 DEF Extended
<1>5. shared = 0 \/ (shared \in 1 .. Len(c.toGet) /\ c.toGet[shared] = ids[1])
  <2> DEFINE I == {i \in 1 .. Len(c.toGet) : c.toGet[i] = ids[1]}
  <2>1. shared = IF I # {} THEN Max(I) ELSE 0
    BY DEF SelectLastInSeq
  <2>2. Len(c.toGet) \in Nat
    BY <1>3
  <2>3. I \in SUBSET Nat /\ \A k \in I : k <= Len(c.toGet)
    BY <2>2
  <2>4. I # {} => Max(I) \in I
    <3> HIDE DEF I
    <3> QED
      BY <2>2, <2>3, MaxOfBounded
  <2> QED
    BY <2>1, <2>4
<1> HIDE DEF shared
<1>6. CASE ids = <<>>
  BY <1>2, <1>4, <1>6 DEF Same
<1>7. CASE ids # <<>> /\ c.toGet # <<>> /\ shared # 0
  <2>1. PICK x \in Seq(Blocks) : x = SubSeq(c.toGet, 1, shared - 1) \o ids /\ Linked(x)
    BY <1>2, <1>3, <1>5, <1>7, LinkedJoin
  <2>2. Extended(p, ids) = [c EXCEPT !.toGet = x]
    BY <1>4, <1>7, <2>1
  <2>3. Same(c, [c EXCEPT !.toGet = x])
    BY ONLY <1>2, <2>1, SameFields, c \in Connection, x \in Seq(Blocks)
  <2> QED
    BY ONLY <1>2, <2>2, <2>3
<1>8. CASE ids # <<>> /\ c.toGet # <<>> /\ shared = 0
  <2>1. PICK x \in Seq(Blocks) : x = Tail(ids) /\ Linked(x)
    BY <1>8, LinkedTail
  <2>2. PICK b \in Ids : b = ids[1]
    BY <1>8 DEF Ids
  <2>3. PICK d \in Connection : d = [c EXCEPT !.toGet = x] /\ Same(c, d)
    <3>1. Same(c, [c EXCEPT !.toGet = x])
      BY ONLY <1>2, <2>1, SameFields, c \in Connection, x \in Seq(Blocks)
    <3> QED
      BY <3>1 DEF Same
  <2>4. Extended(p, ids) = [d EXCEPT !.seen = b]
    BY <1>4, <1>8, <2>1, <2>2, <2>3
  <2>5. [d EXCEPT !.seen = b] \in Connection /\ [d EXCEPT !.seen = b].toGet = d.toGet
        /\ [d EXCEPT !.seen = b].want = d.want /\ [d EXCEPT !.seen = b].wantItem = d.wantItem
        /\ [d EXCEPT !.seen = b].st = d.st
    BY FieldFacts, ZenonT(60)
  <2> QED
    BY <1>2, <2>3, <2>4, <2>5 DEF Same
<1>9. CASE ids # <<>> /\ c.toGet = <<>> /\ others
  <2>1. Extended(p, ids) = [c EXCEPT !.toGet = ids]
    BY <1>4, <1>9
  <2> QED
    BY <1>2, <2>1, SameFields
<1>10. CASE ids # <<>> /\ c.toGet = <<>> /\ ~others
  <2>1. PICK l \in Nat : l = Len(ids)
    OBVIOUS
  <2>2. n \in 1 .. l + 1
    <3> DEFINE u == Append(ids, Genesis)
               I == {i \in 1 .. Len(u) : u[i] \notin known}
    <3>1. n = IF I # {} THEN Min(I) ELSE 0
      BY DEF FirstNew, SelectInSeq
    <3>2. Len(u) = l + 1 /\ u[l + 1] = Genesis
      BY <2>1
    <3>3. Genesis \notin known
      BY <1>1, SyncAssumption
    <3>4. l + 1 \in I
      BY <2>1, <3>2, <3>3
    <3>5. I \in SUBSET Nat /\ I \subseteq 1 .. l + 1
      BY <3>2
    <3> HIDE DEF I, n
    <3>6. Min(I) \in I
      BY <3>4, <3>5, MinIsLeast
    <3> QED
      BY <3>1, <3>4, <3>5, <3>6
  <2> HIDE DEF n
  <2>3. PICK x \in Seq(Blocks) : x = SubSeq(ids, n, Len(ids)) /\ Linked(x)
    BY <2>1, <2>2, LinkedFrom
  <2>4. PICK b \in Ids : b = IF n = 1 THEN c.seen ELSE ids[n - 1]
    <3>1. CASE n = 1
      BY <3>1 DEF Connection
    <3>2. CASE n # 1
      <4>1. n - 1 \in 1 .. l
        BY <2>2, <3>2
      <4>2. ids[n - 1] \in Blocks
        BY <2>1, <4>1
      <4> QED
        BY <3>2, <4>2 DEF Ids
    <3> QED
      BY <3>1, <3>2
  <2>5. PICK d \in Connection : d = [c EXCEPT !.toGet = x] /\ Same(c, d)
    <3>1. Same(c, [c EXCEPT !.toGet = x])
      BY ONLY <1>2, <2>3, SameFields, c \in Connection, x \in Seq(Blocks)
    <3> QED
      BY <3>1 DEF Same
  <2>6. Extended(p, ids) = [d EXCEPT !.seen = b]
    BY <1>4, <1>10, <2>3, <2>4, <2>5
  <2>7. [d EXCEPT !.seen = b] \in Connection /\ [d EXCEPT !.seen = b].toGet = d.toGet
        /\ [d EXCEPT !.seen = b].want = d.want /\ [d EXCEPT !.seen = b].wantItem = d.wantItem
        /\ [d EXCEPT !.seen = b].st = d.st
    BY FieldFacts, ZenonT(60)
  <2> QED
    BY <1>2, <2>5, <2>6, <2>7 DEF Same
<1> QED
  BY <1>6, <1>7, <1>8, <1>9, <1>10

(* Connections are replaced by others that wait for the same blocks.       *)
LEMMA ConnectionsReplaced ==
    ASSUME IndInv,
           conn' = [q \in Peers |-> conn'[q]], \A q \in Peers : Same(conn[q], conn'[q]),
           active' = active, denied' = denied, peerHead' = peerHead, SuspensionEnds', Limited',
           calls' \in Seq(Call),
           known' \in SUBSET Blocks, head' \in known' \cup {Genesis},
           received' \in Seq(Blocks), fresh' \in Seq(Blocks),
           items' \in SUBSET Blocks, wake' \in SUBSET {"sync", "items", "backlog"},
           out' \in [Peers -> Seq(OutMessage)], in' \in [Peers -> Seq(InMessage)],
           \A q \in Peers : \A b \in conn[q].want :
              Waits(out[q], in[q], b) => Waits(out'[q], in'[q], b)
    PROVE  IndInv'
<1>1. Typed /\ OneKind /\ Gone /\ RequestsMatch
  BY Parts
<1>2. conn' \in [Peers -> Connection]
  BY DEF Same
<1>3. Typed'
  BY <1>1, <1>2 DEF Typed
<1>4. Lists' /\ Gone'
  BY <1>1 DEF Lists, Gone, Same
<1>5. \A q \in Peers : conn'[q].want = conn[q].want /\ conn'[q].wantItem \subseteq conn[q].wantItem
  BY DEF Same
<1>6. OneKind' /\ RequestsMatch'
  BY <1>1, <1>5, RequestsKept
<1> QED
  BY <1>3, <1>4, <1>6 DEF IndInv

(* The same for a step that leaves the delegate alone.                     *)
LEMMA ConnectionsKept ==
    ASSUME IndInv,
           conn' = [q \in Peers |-> conn'[q]], \A q \in Peers : Same(conn[q], conn'[q]),
           active' = active, denied' = denied, calls' = calls, suspended' = suspended,
           "backlog" \in wake => "backlog" \in wake',
           known' = known, head' = head, received' = received, fresh' = fresh, peerHead' = peerHead,
           items' \in SUBSET Blocks, wake' \in SUBSET {"sync", "items", "backlog"},
           out' \in [Peers -> Seq(OutMessage)], in' \in [Peers -> Seq(InMessage)],
           \A q \in Peers : \A b \in conn[q].want :
              Waits(out[q], in[q], b) => Waits(out'[q], in'[q], b)
    PROVE  IndInv'
<1>1. Typed /\ SuspensionEnds /\ Limited
  BY Parts
<1>2. SuspensionEnds' /\ Limited'
  BY <1>1, CallsKept
<1>3. /\ calls' \in Seq(Call) /\ known' \in SUBSET Blocks /\ head' \in known' \cup {Genesis}
      /\ received' \in Seq(Blocks) /\ fresh' \in Seq(Blocks)
  BY <1>1 DEF Typed
<1> QED
  BY <1>2, <1>3, ConnectionsReplaced

(* Connections that are being closed.                                      *)
LEMMA ClosingFacts ==
    ASSUME IndInv, NEW ps
    PROVE  /\ Closing(conn, ps) = [q \in Peers |-> Closing(conn, ps)[q]]
           /\ \A q \in Peers : Same(conn[q], Closing(conn, ps)[q])
<1>1. conn \in [Peers -> Connection] /\ \A q \in Peers : Linked(conn[q].toGet)
  BY Parts DEF Lists
<1>2. ASSUME NEW q \in Peers PROVE Same(conn[q], Closing(conn, ps)[q])
  <2>1. conn[q] \in Connection
    BY <1>1
  <2>2. Same(conn[q], [conn[q] EXCEPT !.st = "closing"])
    BY <1>1, <2>1, SameFields
  <2>3. Same(conn[q], conn[q])
    BY <1>1, <2>1 DEF Same
  <2> QED
    BY <2>2, <2>3 DEF Closing
<1> QED
  BY <1>2 DEF Closing

(* One connection is replaced.                                             *)
Replaced(p, d) == [conn EXCEPT ![p] = d]

(* If the change is such a one, all connections have changed in that way.  *)
LEMMA ReplacedFacts ==
    ASSUME IndInv, NEW p \in Peers, NEW d, Same(conn[p], d)
    PROVE  /\ Replaced(p, d) = [q \in Peers |-> Replaced(p, d)[q]] /\ Replaced(p, d)[p] = d
           /\ \A q \in Peers : Same(conn[q], Replaced(p, d)[q])
<1>1. conn \in [Peers -> Connection] /\ \A q \in Peers : Linked(conn[q].toGet)
  BY Parts DEF Lists
<1>2. \A q \in Peers : Same(conn[q], conn[q])
  BY <1>1 DEF Same
<1> QED
  BY <1>1, <1>2 DEF Replaced

(* on_blockchain_item_ids_inventory_message.                               *)
LEMMA OnIdsPreserves ==
    ASSUME IndInv, NEW p \in Peers, OnIds(p)
    PROVE  IndInv'
<1>1. /\ conn \in [Peers -> Connection] /\ out \in [Peers -> Seq(OutMessage)]
      /\ in \in [Peers -> Seq(InMessage)] /\ head \in Ids /\ items \in SUBSET Blocks
      /\ wake \in SUBSET {"sync", "items", "backlog"} /\ \A q \in Peers : Linked(conn[q].toGet)
  BY Parts DEF Lists
<1>2. /\ Reads(p, "ids")
      /\ UNCHANGED <<known, head, calls, active, received, fresh, accepted, items, suspended,
                     peerVars, events, denied>>
  BY DEF OnIds
<1>3. /\ in' \in [Peers -> Seq(InMessage)] /\ Head(in[p]) \in InMessage /\ Head(in[p]).type = "ids"
      /\ \A q \in Peers : \A o, b : Waits(o, in[q], b) => Waits(o, in'[q], b)
  BY <1>1, <1>2, ReadsFacts
<1>4. PICK m \in InMessage : m = Head(in[p]) /\ m.type = "ids"
  BY <1>3
<1>5. m.ids \in Seq(Blocks) /\ m.left \in Int /\ Linked(m.ids)
  BY <1>4 DEF InMessage
<1> DEFINE e == [Extended(p, m.ids) EXCEPT !.asked = NotAsked, !.unfetched = m.left]
           n == Replaced(p, AskIds(head, e))
<1>6. e \in Connection /\ Linked(e.toGet) /\ Same(conn[p], e)
  <2>1. PICK x : x = Extended(p, m.ids) /\ Same(conn[p], x)
    BY <1>5, ExtendedFacts
  <2>2. x \in Connection /\ Linked(x.toGet)
    BY <2>1 DEF Same
  <2>3. PICK y : y = [x EXCEPT !.asked = NotAsked] /\ Same(x, y)
    BY <2>2, SameFields
  <2>4. y \in Connection /\ Linked(y.toGet)
    BY <2>3 DEF Same
  <2>5. Same(y, [y EXCEPT !.unfetched = m.left])
    BY <1>5, <2>4, SameFields
  <2>6. e = [y EXCEPT !.unfetched = m.left]
    BY ONLY <2>1, <2>3
  <2> HIDE DEF e
  <2>7. Same(conn[p], e)
    BY ONLY <2>1, <2>3, <2>5, <2>6, SameTwice
  <2> QED
    BY ONLY <2>7 DEF Same
<1> HIDE DEF e
<1>7. /\ Same(conn[p], AskIds(head, e))
      /\ AskIds(head, e).st # "failed" => AskIds(head, e).asked \in Seq(Blocks)
  BY ONLY <1>1, <1>6, SameAsked, SameTwice, AskIdsFacts
<1>8. Same(conn[p], [[conn[p] EXCEPT !.need = FALSE] EXCEPT !.asked = NotAsked])
  <2>1. PICK x : x = [conn[p] EXCEPT !.need = FALSE] /\ Same(conn[p], x)
    BY <1>1, SameFields
  <2>2. x \in Connection /\ Linked(x.toGet)
    BY <2>1 DEF Same
  <2>3. Same(x, [x EXCEPT !.asked = NotAsked])
    BY <2>2, SameFields
  <2> QED
    BY ONLY <2>1, <2>3, SameTwice
<1>9. /\ conn' = [q \in Peers |-> conn'[q]] /\ \A q \in Peers : Same(conn[q], conn'[q])
      /\ out' \in [Peers -> Seq(OutMessage)]
      /\ \A q \in Peers : \A i, b : Waits(out[q], i, b) => Waits(out'[q], i, b)
      /\ wake' \in SUBSET {"sync", "items", "backlog"} /\ wake \subseteq wake'
  <2>0. \A q \in Peers : Same(conn[q], conn[q])
    BY <1>1, SameFields
  <2>1. CASE UNCHANGED <<conn, out, wake>>
    BY <1>1, <2>0, <2>1
  <2>2. CASE conn' = Closing(conn, {p}) /\ UNCHANGED <<out, wake>>
    BY <1>1, <2>2, ClosingFacts
  <2>3. CASE conn' = [conn EXCEPT ![p].need = FALSE, ![p].asked = NotAsked] /\ UNCHANGED <<out, wake>>
    <3>1. conn' = [conn EXCEPT ![p] = [[conn[p] EXCEPT !.need = FALSE] EXCEPT !.asked = NotAsked]]
      BY <1>1, <2>3
    <3>2. PICK d : d = [[conn[p] EXCEPT !.need = FALSE] EXCEPT !.asked = NotAsked]
      OBVIOUS
    <3>3. PICK c : c = Replaced(p, d)
      OBVIOUS
    <3>4. Same(conn[p], d)
      BY ONLY <1>8, <3>2
    <3>5. c = [q \in Peers |-> c[q]] /\ \A q \in Peers : Same(conn[q], c[q])
      BY ONLY <3>3, <3>4, ReplacedFacts, IndInv, p \in Peers
    <3>6. conn' = c
      BY ONLY <3>1, <3>2, <3>3 DEF Replaced
    <3> QED
      BY ONLY <1>1, <2>3, <3>5, <3>6
  <2>4. CASE conn' = n /\ out' = Asking({p}, n) /\ UNCHANGED wake
    <3>1. n = [q \in Peers |-> n[q]] /\ n[p] = AskIds(head, e) /\ \A q \in Peers : Same(conn[q], n[q])
      BY <1>7, ReplacedFacts
    <3> HIDE DEF n
    <3>2. /\ Asking({p}, n) \in [Peers -> Seq(OutMessage)]
          /\ \A q \in Peers : \A i, b : Waits(out[q], i, b) => Waits(Asking({p}, n)[q], i, b)
      BY <1>1, <1>7, <3>1, AskingFacts
    <3> QED
      BY <1>1, <2>4, <3>1, <3>2
  <2>5. CASE conn' = [conn EXCEPT ![p] = e] /\ wake' = wake \cup {"sync"} /\ UNCHANGED out
    <3>1. conn' = Replaced(p, e)
      BY ONLY <2>5 DEF Replaced
    <3> QED
      BY <1>1, <1>6, <2>5, <3>1, ReplacedFacts
  <2> QED
    BY <1>4, <2>1, <2>2, <2>3, <2>4, <2>5 DEF OnIds, e, Replaced
<1> QED
  BY <1>1, <1>2, <1>3, <1>9, ConnectionsKept DEF peerVars

(* on_fetch_blockchain_item_ids_message.                                   *)
LEMMA OnSynopsisPreserves ==
    ASSUME IndInv, NEW p \in Peers, OnSynopsis(p)
    PROVE  IndInv'
<1>1. /\ conn \in [Peers -> Connection] /\ out \in [Peers -> Seq(OutMessage)]
      /\ in \in [Peers -> Seq(InMessage)] /\ head \in Ids /\ items \in SUBSET Blocks
      /\ wake \in SUBSET {"sync", "items", "backlog"} /\ \A q \in Peers : Linked(conn[q].toGet)
  BY Parts DEF Lists
<1>2. /\ Reads(p, "synopsis")
      /\ UNCHANGED <<known, head, calls, active, received, fresh, accepted, items, suspended, wake,
                     peerVars, events, denied>>
  BY DEF OnSynopsis
<1>3. /\ in' \in [Peers -> Seq(InMessage)]
      /\ \A q \in Peers : \A o, b : Waits(o, in[q], b) => Waits(o, in'[q], b)
  BY <1>1, <1>2, ReadsFacts
<1>4. PICK d : d = Restart(head, conn[p]) /\ Same(conn[p], d) /\ (d.st # "failed" => d.asked \in Seq(Blocks))
  BY <1>1, SameAsked, RestartFacts
<1>5. /\ conn' = [q \in Peers |-> conn'[q]] /\ \A q \in Peers : Same(conn[q], conn'[q])
      /\ out' \in [Peers -> Seq(OutMessage)]
      /\ \A q \in Peers : \A i, b : Waits(out[q], i, b) => Waits(out'[q], i, b)
  <2>1. CASE UNCHANGED <<conn, out>>
    <3>1. \A q \in Peers : Same(conn[q], conn[q])
      BY <1>1, SameFields
    <3> QED
      BY <1>1, <2>1, <3>1
  <2>2. CASE conn' = [conn EXCEPT ![p] = d] /\ out' = Asking({p}, conn')
    <3>1. conn' = [q \in Peers |-> conn'[q]] /\ conn'[p] = d /\ \A q \in Peers : Same(conn[q], conn'[q])
      <4>1. PICK c : c = Replaced(p, d)
        OBVIOUS
      <4>2. c = [q \in Peers |-> c[q]] /\ c[p] = d /\ \A q \in Peers : Same(conn[q], c[q])
        BY ONLY <1>4, <4>1, ReplacedFacts, IndInv, p \in Peers
      <4>3. conn' = c
        BY ONLY <2>2, <4>1 DEF Replaced
      <4> QED
        BY ONLY <4>2, <4>3
    <3>2. /\ Asking({p}, conn') \in [Peers -> Seq(OutMessage)]
          /\ \A q \in Peers : \A i, b : Waits(out[q], i, b) => Waits(Asking({p}, conn')[q], i, b)
      BY <1>1, <1>4, <3>1, AskingFacts
    <3> QED
      BY <2>2, <3>1, <3>2
  <2> QED
    BY <1>4, <2>1, <2>2 DEF OnSynopsis
<1> QED
  BY <1>1, <1>2, <1>3, <1>5, ConnectionsKept DEF peerVars

(* on_item_ids_inventory_message.                                          *)
LEMMA OnInventoryPreserves ==
    ASSUME IndInv, NEW p \in Peers, OnInventory(p)
    PROVE  IndInv'
<1>1. /\ conn \in [Peers -> Connection] /\ out \in [Peers -> Seq(OutMessage)]
      /\ in \in [Peers -> Seq(InMessage)] /\ items \in SUBSET Blocks
      /\ wake \in SUBSET {"sync", "items", "backlog"} /\ \A q \in Peers : Linked(conn[q].toGet)
  BY Parts DEF Lists
<1>2. /\ Reads(p, "inventory")
      /\ UNCHANGED <<known, head, calls, active, received, fresh, accepted, suspended, out,
                     peerVars, events, denied>>
  BY DEF OnInventory
<1>3. /\ in' \in [Peers -> Seq(InMessage)] /\ Head(in[p]) \in InMessage /\ Head(in[p]).type = "inventory"
      /\ \A q \in Peers : \A o, b : Waits(o, in[q], b) => Waits(o, in'[q], b)
  BY <1>1, <1>2, ReadsFacts
<1>4. PICK b \in Blocks : b = Head(in[p]).ids[1]
  <2>1. PICK m \in InMessage : m = Head(in[p]) /\ m.type = "inventory"
    BY <1>3
  <2>2. m.ids \in Seq(Blocks) /\ m.ids # <<>>
    BY <2>1 DEF InMessage
  <2> QED
    BY <2>1, <2>2
<1>5. PICK x \in SUBSET Blocks : x = conn[p].told \cup {b}
  BY <1>1 DEF Connection
<1>6. conn' = conn \/ conn' = [conn EXCEPT ![p] = [conn[p] EXCEPT !.told = x]]
  BY <1>1, <1>4, <1>5 DEF OnInventory
<1>7. conn' = [q \in Peers |-> conn'[q]] /\ \A q \in Peers : Same(conn[q], conn'[q])
  <2>1. CASE conn' = conn
    BY <1>1, <2>1, SameFields
  <2>2. CASE conn' = [conn EXCEPT ![p] = [conn[p] EXCEPT !.told = x]]
    <3>1. PICK d : d = [conn[p] EXCEPT !.told = x] /\ Same(conn[p], d)
      BY ONLY <1>1, SameFields, p \in Peers, x \in SUBSET Blocks
    <3>2. PICK c : c = Replaced(p, d)
      OBVIOUS
    <3>3. c = [q \in Peers |-> c[q]] /\ \A q \in Peers : Same(conn[q], c[q])
      BY ONLY <3>1, <3>2, ReplacedFacts, IndInv, p \in Peers
    <3>4. conn' = c
      BY ONLY <2>2, <3>1, <3>2 DEF Replaced
    <3> QED
      BY ONLY <3>3, <3>4
  <2> QED
    BY <1>6, <2>1, <2>2
<1>8. items' \in SUBSET Blocks /\ wake' \in SUBSET {"sync", "items", "backlog"} /\ wake \subseteq wake'
  <2>1. items' = items \/ items' = items \cup {b}
    BY <1>4 DEF OnInventory
  <2>2. wake' = wake \/ wake' = wake \cup {"items"}
    BY DEF OnInventory
  <2> QED
    BY <1>1, <2>1, <2>2
<1> QED
  BY <1>1, <1>2, <1>3, <1>7, <1>8, ConnectionsKept DEF peerVars
-----------------------------------------------------------------------------
SyncOnes(s) == {i \in DOMAIN s : s[i].sync}

(* How many sync blocks the delegate has, as calls are made.               *)
LEMMA CallAdded ==
    ASSUME NEW s \in Seq(Call), NEW k \in Call
    PROVE  /\ SyncCalls(s) \in Nat
           /\ Append(s, k) \in Seq(Call)
           /\ SyncCalls(Append(s, k)) = IF k.sync THEN SyncCalls(s) + 1 ELSE SyncCalls(s)
           /\ \A i \in DOMAIN s : i \in DOMAIN Append(s, k) /\ Append(s, k)[i] = s[i]
           /\ k.sync => \E i \in DOMAIN Append(s, k) : Append(s, k)[i].sync
<1>1. PICK n \in Nat : n = Len(s) /\ DOMAIN s = 1 .. n
  OBVIOUS
<1>2. /\ Append(s, k) \in Seq(Call) /\ DOMAIN Append(s, k) = 1 .. n + 1 /\ Append(s, k)[n + 1] = k
      /\ \A i \in 1 .. n : Append(s, k)[i] = s[i]
  BY <1>1
<1>3. IsFiniteSet(SyncOnes(s)) /\ n + 1 \notin SyncOnes(s)
  <2>1. IsFiniteSet(1 .. n)
    BY FS_Interval
  <2>2. SyncOnes(s) \subseteq 1 .. n
    BY <1>1 DEF SyncOnes
  <2>3. n + 1 \notin 1 .. n
    OBVIOUS
  <2> QED
    BY <2>1, <2>2, <2>3, FS_Subset
<1>4. SyncOnes(Append(s, k)) = IF k.sync THEN SyncOnes(s) \cup {n + 1} ELSE SyncOnes(s)
  <2>1. \A i \in 1 .. n + 1 : i \in 1 .. n \/ i = n + 1
    OBVIOUS
  <2>2. \A i \in 1 .. n : i \in 1 .. n + 1 /\ i # n + 1
    OBVIOUS
  <2>3. n + 1 \in 1 .. n + 1
    OBVIOUS
  <2>4. PICK t : t = Append(s, k)
    OBVIOUS
  <2>5. DOMAIN t = 1 .. n + 1 /\ t[n + 1] = k /\ \A i \in 1 .. n : t[i] = s[i]
    BY ONLY <1>2, <2>4
  <2>6. SyncOnes(t) = IF k.sync THEN SyncOnes(s) \cup {n + 1} ELSE SyncOnes(s)
    BY ONLY <1>1, <2>1, <2>2, <2>3, <2>5 DEF SyncOnes
  <2> QED
    BY ONLY <2>4, <2>6
<1>5. Cardinality(SyncOnes(s)) \in Nat /\ Cardinality(SyncOnes(s) \cup {n + 1}) = Cardinality(SyncOnes(s)) + 1
  BY <1>3, FS_CardinalityType, FS_AddElement
<1>6. SyncCalls(s) = Cardinality(SyncOnes(s)) /\ SyncCalls(Append(s, k)) = Cardinality(SyncOnes(Append(s, k)))
  BY DEF SyncCalls, SyncOnes
<1>7. \A i \in DOMAIN s : i \in DOMAIN Append(s, k) /\ Append(s, k)[i] = s[i]
  BY <1>1, <1>2
<1>8. k.sync => \E i \in DOMAIN Append(s, k) : Append(s, k)[i].sync
  BY <1>2
<1> QED
  BY <1>2, <1>4, <1>5, <1>6, <1>7, <1>8

(* And as they return.                                                     *)
LEMMA CallGone ==
    ASSUME NEW s \in Seq(Call), s # <<>>
    PROVE  /\ Tail(s) \in Seq(Call)
           /\ SyncCalls(s) \in Nat /\ SyncCalls(Tail(s)) \in Nat /\ SyncCalls(Tail(s)) <= SyncCalls(s)
           /\ (\E i \in DOMAIN s : s[i].sync) /\ ~Head(s).sync => \E i \in DOMAIN Tail(s) : Tail(s)[i].sync
<1>1. PICK n \in Nat : n = Len(s) /\ DOMAIN s = 1 .. n /\ n # 0
  OBVIOUS
<1>2. PICK t \in Seq(Call) : t = Tail(s) /\ Len(t) = n - 1 /\ DOMAIN t = 1 .. n - 1
                             /\ \A i \in 1 .. n - 1 : t[i] = s[i + 1]
  <2>1. Tail(s) \in Seq(Call) /\ Len(Tail(s)) = n - 1 /\ \A i \in 1 .. n - 1 : Tail(s)[i] = s[i + 1]
    BY <1>1
  <2>2. DOMAIN Tail(s) = 1 .. n - 1
    BY <2>1
  <2> QED
    BY ONLY <2>1, <2>2
<1>3. IsFiniteSet(SyncOnes(s))
  <2>1. IsFiniteSet(1 .. n)
    BY FS_Interval
  <2>2. SyncOnes(s) \subseteq 1 .. n
    BY <1>1 DEF SyncOnes
  <2> QED
    BY <2>1, <2>2, FS_Subset
<1> DEFINE f == [i \in SyncOnes(t) |-> i + 1]
<1>4. f \in Injection(SyncOnes(t), SyncOnes(s))
  <2>1. \A i \in SyncOnes(t) : i \in Int /\ i + 1 \in SyncOnes(s)
    <3>1. \A i \in 1 .. n - 1 : i \in Int /\ i + 1 \in 1 .. n
      BY <1>1
    <3> QED
      BY ONLY <1>1, <1>2, <3>1 DEF SyncOnes
  <2>2. f \in [SyncOnes(t) -> SyncOnes(s)]
    BY ONLY <2>1
  <2>3. \A i, j \in SyncOnes(t) : f[i] = f[j] => i = j
    BY ONLY <2>1
  <2> HIDE DEF f
  <2> QED
    BY ONLY <2>2, <2>3 DEF Injection, IsInjective
<1>5. IsFiniteSet(SyncOnes(t)) /\ Cardinality(SyncOnes(t)) <= Cardinality(SyncOnes(s))
  <2> HIDE DEF f
  <2> QED
    BY <1>3, <1>4, FS_Injection
<1>6. Cardinality(SyncOnes(t)) \in Nat /\ Cardinality(SyncOnes(s)) \in Nat
  BY <1>3, <1>5, FS_CardinalityType
<1>7. SyncCalls(s) = Cardinality(SyncOnes(s)) /\ SyncCalls(t) = Cardinality(SyncOnes(t))
  BY DEF SyncCalls, SyncOnes
<1>8. ASSUME NEW i \in DOMAIN s, s[i].sync, ~Head(s).sync
      PROVE  \E j \in DOMAIN t : t[j].sync
  <2>1. Head(s) = s[1] /\ i # 1
    BY <1>8
  <2>2. i - 1 \in 1 .. n - 1 /\ (i - 1) + 1 = i
    BY <1>1, <2>1
  <2>3. t[i - 1] = s[i]
    BY ONLY <1>2, <2>2
  <2> QED
    BY <1>2, <1>8, <2>2, <2>3
<1> QED
  BY <1>2, <1>5, <1>6, <1>7, <1>8

(* A limit that is reached means that there is such a call.                *)
LEMMA CallExists ==
    ASSUME NEW s \in Seq(Call), SyncCalls(s) >= MaxHandle
    PROVE  \E i \in DOMAIN s : s[i].sync
<1>1. MaxHandle \in Nat \ {0}
  BY SyncAssumption
<1>2. SUFFICES ASSUME ~\E i \in DOMAIN s : s[i].sync PROVE FALSE
  OBVIOUS
<1>3. {i \in DOMAIN s : s[i].sync} = {}
  BY <1>2
<1>4. SyncCalls(s) = 0
  BY <1>3, FS_EmptySet DEF SyncCalls
<1> QED
  BY <1>1, <1>4

(* A block is accepted in normal operation.                                *)
LEMMA BroadcastFacts ==
    ASSUME NEW c \in [Peers -> Connection], \A q \in Peers : Linked(c[q].toGet), NEW b \in Blocks
    PROVE  /\ Broadcast(c, b) = [q \in Peers |-> Broadcast(c, b)[q]]
           /\ \A q \in Peers : Same(c[q], Broadcast(c, b)[q])
<1>1. ASSUME NEW q \in Peers PROVE Same(c[q], Broadcast(c, b)[q])
  <2>1. PICK d \in Connection : d = c[q] /\ Linked(d.toGet)
    OBVIOUS
  <2>2. PICK x \in SUBSET Blocks, y \in Ids : x = d.offered \cup {b} /\ y = b
    BY DEF Connection, Ids
  <2>3. Same(d, d) /\ Same(d, [d EXCEPT !.seen = y]) /\ Same(d, [d EXCEPT !.offered = x])
    BY ONLY <2>1, SameFields, d \in Connection, x \in SUBSET Blocks, y \in Ids
  <2>4. \/ Broadcast(c, b)[q] = d
        \/ Broadcast(c, b)[q] = [d EXCEPT !.seen = y]
        \/ Broadcast(c, b)[q] = [d EXCEPT !.offered = x]
    BY <2>1, <2>2 DEF Broadcast
  <2> QED
    BY ONLY <2>1, <2>3, <2>4
<1> QED
  BY <1>1 DEF Broadcast

(* process_block_message.                                                  *)
LEMMA OnBlockPreserves ==
    ASSUME IndInv, NEW p \in Peers, OnBlock(p)
    PROVE  IndInv'
<1>1. /\ conn \in [Peers -> Connection] /\ out \in [Peers -> Seq(OutMessage)]
      /\ in \in [Peers -> Seq(InMessage)] /\ head \in Ids /\ items \in SUBSET Blocks
      /\ wake \in SUBSET {"sync", "items", "backlog"} /\ \A q \in Peers : Linked(conn[q].toGet)
      /\ Typed /\ OneKind /\ Gone /\ RequestsMatch /\ SuspensionEnds /\ Limited
  BY Parts DEF Lists
<1>2. /\ Reads(p, "block")
      /\ UNCHANGED <<known, head, items, suspended, peerHead, denied>>
  BY DEF OnBlock, peerVars
<1>3. /\ in' \in [Peers -> Seq(InMessage)] /\ Head(in[p]) \in InMessage /\ Head(in[p]).type = "block"
      /\ \A q \in Peers : \A o, d : Waits(o, in[q], d) /\ ~(q = p /\ Head(in[p]).ids[1] = d)
                                    => Waits(o, in'[q], d)
  BY <1>1, <1>2, ReadsFacts
<1>4. PICK b \in Blocks : b = Head(in[p]).ids[1]
  <2>1. PICK m \in InMessage : m = Head(in[p]) /\ m.type = "block"
    BY <1>3
  <2>2. m.ids \in Seq(Blocks) /\ m.ids # <<>>
    BY <2>1 DEF InMessage
  <2> QED
    BY <2>1, <2>2
<1>5. PICK x \in SUBSET Blocks, y \in SUBSET Blocks :
         x = conn[p].wantItem \ {b} /\ y = conn[p].want \ {b}
  BY <1>1 DEF Connection
<1>6. PICK d : d = [conn[p] EXCEPT !.wantItem = x] /\ Same(conn[p], d)
  <2>1. conn[p] \in Connection /\ Linked(conn[p].toGet)
    BY <1>1
  <2>2. PICK c \in Connection : c = conn[p] /\ Linked(c.toGet)
    BY <2>1
  <2>3. PICK d : d = [c EXCEPT !.wantItem = x]
    OBVIOUS
  <2>4. /\ d \in Connection /\ d.toGet = c.toGet /\ d.want = c.want /\ d.wantItem = x /\ d.st = c.st
    BY ONLY <2>3, WantFacts, c \in Connection, x \in SUBSET Blocks
  <2>5. Same(c, d)
    BY ONLY <1>5, <2>2, <2>4 DEF Same
  <2> QED
    BY ONLY <2>2, <2>3, <2>5
<1>7. PICK e : /\ e = [conn[p] EXCEPT !.want = y]
               /\ e \in Connection /\ Linked(e.toGet) /\ e.want = y /\ e.wantItem = conn[p].wantItem
               /\ e.st = conn[p].st
  <2>1. conn[p] \in Connection /\ Linked(conn[p].toGet)
    BY <1>1
  <2>2. PICK c \in Connection : c = conn[p] /\ Linked(c.toGet)
    BY <2>1
  <2>3. PICK e : e = [c EXCEPT !.want = y]
    OBVIOUS
  <2>4. e \in Connection /\ e.toGet = c.toGet /\ e.want = y /\ e.wantItem = c.wantItem /\ e.st = c.st
    BY ONLY <2>3, WantFacts, c \in Connection, y \in SUBSET Blocks
  <2> QED
    BY ONLY <2>2, <2>3, <2>4
<1>8. /\ Replaced(p, d) = [q \in Peers |-> Replaced(p, d)[q]] /\ Replaced(p, d)[p] = d
      /\ \A q \in Peers : Same(conn[q], Replaced(p, d)[q])
  BY <1>6, ReplacedFacts
<1>9. CASE /\ b \in conn[p].wantItem /\ conn' = Replaced(p, d)
           /\ calls' = Append(calls, [block |-> b, sync |-> FALSE, from |-> p, result |-> "waits"])
           /\ UNCHANGED <<active, received, fresh, accepted, wake, out>>
  <2>1. conn[p].want = {}
    BY <1>1, <1>9 DEF OneKind
  <2>2. \A q \in Peers : \A f \in conn[q].want : Waits(out[q], in[q], f) => Waits(out'[q], in'[q], f)
    BY <1>3, <1>9, <2>1
  <2>3. PICK k \in Call : k = [block |-> b, sync |-> FALSE, from |-> p, result |-> "waits"]
    BY DEF Call
  <2>4. calls' = Append(calls, k) /\ calls \in Seq(Call) /\ k.sync = FALSE
    BY <1>1, <1>9, <2>3 DEF Typed
  <2>5. /\ calls' \in Seq(Call) /\ SyncCalls(calls)' = SyncCalls(calls)
        /\ \A i \in DOMAIN calls : i \in DOMAIN calls' /\ calls'[i] = calls[i]
    BY <2>4, CallAdded DEF SyncCalls
  <2>6. SuspensionEnds' /\ Limited'
    BY <1>1, <1>2, <1>9, <2>5 DEF SuspensionEnds, Limited
  <2>7. /\ known' \in SUBSET Blocks /\ head' \in known' \cup {Genesis}
        /\ received' \in Seq(Blocks) /\ fresh' \in Seq(Blocks)
    BY <1>1, <1>2, <1>9 DEF Typed
  <2>8. conn' = [q \in Peers |-> conn'[q]] /\ \A q \in Peers : Same(conn[q], conn'[q])
    BY ONLY <1>8, <1>9
  <2>9. /\ active' = active /\ denied' = denied /\ peerHead' = peerHead /\ items' \in SUBSET Blocks
        /\ wake' \in SUBSET {"sync", "items", "backlog"} /\ out' \in [Peers -> Seq(OutMessage)]
    BY <1>1, <1>2, <1>9
  <2> QED
    BY <1>3, <2>2, <2>5, <2>6, <2>7, <2>8, <2>9, ConnectionsReplaced
<1>10. CASE /\ b \in conn[p].wantItem /\ conn' = Broadcast(Replaced(p, d), b)
            /\ wake' = wake \cup WakeItems(d)
            /\ UNCHANGED <<calls, active, received, fresh, accepted, out>>
  <2>1. conn[p].want = {}
    BY <1>1, <1>10 DEF OneKind
  <2>2. \A q \in Peers : \A f \in conn[q].want : Waits(out[q], in[q], f) => Waits(out'[q], in'[q], f)
    BY <1>3, <1>10, <2>1
  <2>3. PICK c : c = Replaced(p, d)
    OBVIOUS
  <2>4. c \in [Peers -> Connection] /\ \A q \in Peers : Linked(c[q].toGet) /\ Same(conn[q], c[q])
    BY ONLY <1>8, <2>3 DEF Same
  <2>5. conn' = [q \in Peers |-> conn'[q]] /\ \A q \in Peers : Same(conn[q], conn'[q])
    <3>1. /\ Broadcast(c, b) = [q \in Peers |-> Broadcast(c, b)[q]]
          /\ \A q \in Peers : Same(c[q], Broadcast(c, b)[q])
      BY <2>4, BroadcastFacts
    <3>2. conn' = Broadcast(c, b)
      BY ONLY <1>10, <2>3
    <3> QED
      BY ONLY <2>4, <3>1, <3>2, SameTwice
  <2>6. wake' \in SUBSET {"sync", "items", "backlog"} /\ wake \subseteq wake'
    BY <1>1, <1>10 DEF WakeItems
  <2>7. out' \in [Peers -> Seq(OutMessage)] /\ items' \in SUBSET Blocks
    BY <1>1, <1>2, <1>10
  <2> QED
    BY <1>2, <1>3, <1>10, <2>2, <2>5, <2>6, <2>7, ConnectionsKept
<1>11. CASE /\ b \notin conn[p].wantItem /\ b \in conn[p].want
            /\ active' = active \ {b} /\ fresh' = Append(fresh, b)
            /\ \/ conn' = Replaced(p, e) /\ out' = out
               \/ conn' = Replaced(p, AskIds(head, e)) /\ out' = Asking({p}, conn')
            /\ wake' \in SUBSET {"sync", "items", "backlog"} /\ wake \subseteq wake'
            /\ UNCHANGED <<calls, received, accepted>>
  <2>1. \E g : /\ conn' = Replaced(p, g) /\ Same(e, g) /\ g.wantItem = e.wantItem
               /\ \/ out' = out
                  \/ /\ out' = Asking({p}, conn')
                     /\ g.st # "failed" => g.asked \in Seq(Blocks)
    <3>1. Same(e, e) /\ Same(e, AskIds(head, e)) /\ AskIds(head, e).wantItem = e.wantItem
          /\ (AskIds(head, e).st # "failed" => AskIds(head, e).asked \in Seq(Blocks))
      BY ONLY <1>1, <1>7, SameFields, SameAsked, AskIdsFacts
    <3>2. CASE conn' = Replaced(p, e) /\ out' = out
      BY ONLY <3>1, <3>2
    <3>3. CASE conn' = Replaced(p, AskIds(head, e)) /\ out' = Asking({p}, conn')
      BY ONLY <3>1, <3>3
    <3> QED
      BY ONLY <1>11, <3>2, <3>3
  <2>2. PICK g : /\ conn' = Replaced(p, g) /\ Same(e, g) /\ g.wantItem = e.wantItem
                 /\ \/ out' = out
                    \/ /\ out' = Asking({p}, conn')
                       /\ g.st # "failed" => g.asked \in Seq(Blocks)
    BY ONLY <2>1
  <2>3. /\ conn' \in [Peers -> Connection] /\ conn'[p] = g
        /\ \A q \in Peers : q # p => conn'[q] = conn[q]
        /\ conn'[p].want = conn[p].want \ {b} /\ conn'[p].wantItem = conn[p].wantItem
        /\ Linked(conn'[p].toGet) /\ (conn'[p].st = "closed" => conn[p].st = "closed")
    <3>1. /\ g \in Connection /\ g.want = conn[p].want \ {b} /\ g.wantItem = conn[p].wantItem
          /\ Linked(g.toGet) /\ (g.st = "closed" => conn[p].st = "closed")
      BY ONLY <1>5, <1>7, <2>2 DEF Same
    <3>2. conn' = [conn EXCEPT ![p] = g]
      BY ONLY <2>2 DEF Replaced
    <3> QED
      BY ONLY <1>1, <3>1, <3>2, p \in Peers
  <2>4. /\ out' \in [Peers -> Seq(OutMessage)]
        /\ \A q \in Peers : \A i, f : Waits(out[q], i, f) => Waits(out'[q], i, f)
    <3>1. CASE out' = out
      BY <1>1, <3>1
    <3>2. CASE /\ out' = Asking({p}, conn') /\ (g.st # "failed" => g.asked \in Seq(Blocks))
      BY <1>1, <2>3, <3>2, AskingFacts
    <3> QED
      BY <2>2, <3>1, <3>2
  <2>5. Typed'
    <3>1. fresh' \in Seq(Blocks) /\ active' \in SUBSET Blocks
      BY <1>1, <1>11 DEF Typed
    <3> QED
      BY <1>1, <1>2, <1>3, <1>11, <2>3, <2>4, <3>1 DEF Typed
  <2>6. Lists'
    BY <1>1, <2>3 DEF Lists
  <2>7. OneKind' /\ Gone'
    BY <1>1, <2>3 DEF OneKind, Gone
  <2>8. \A q \in Peers : q # p => b \notin conn[q].want
    BY <1>1, <1>11 DEF RequestsMatch
  <2>9. \A q \in Peers : conn'[q].want = conn[q].want \ {b}
    BY <2>3, <2>8
  <2>10. RequestsMatch'
    <3>1. /\ active' = denied' \cup UNION {conn'[q].want : q \in Peers}
          /\ \A q \in Peers : conn'[q].want \cap denied' = {}
      <4>1. /\ active = denied \cup UNION {conn[q].want : q \in Peers}
            /\ \A q \in Peers : conn[q].want \cap denied = {}
        BY <1>1 DEF RequestsMatch
      <4>2. denied' = denied /\ active' = active \ {b} /\ b \in conn[p].want
        BY <1>2, <1>11
      <4> QED
        BY ONLY <2>9, <4>1, <4>2, p \in Peers
    <3>2. \A q, r \in Peers : q # r => conn'[q].want \cap conn'[r].want = {}
      BY <1>1, <2>9 DEF RequestsMatch
    <3>3. ASSUME NEW q \in Peers, NEW f \in conn'[q].want PROVE OnTheWay(q, f)'
      <4>1. f \in conn[q].want /\ f # b
        BY <2>9
      <4>2. Waits(out[q], in[q], f)
        BY <1>1, <4>1, WaitsIs DEF RequestsMatch
      <4>3. Waits(out'[q], in'[q], f)
        BY <1>3, <1>4, <2>4, <4>1, <4>2
      <4> QED
        BY <4>3 DEF OnTheWay, Waits
    <3> QED
      BY <3>1, <3>2, <3>3 DEF RequestsMatch
  <2>11. SuspensionEnds' /\ Limited'
    BY <1>1, <1>2, <1>11, CallsKept
  <2> QED
    BY <2>5, <2>6, <2>7, <2>10, <2>11 DEF IndInv
<1>12. CASE /\ b \notin conn[p].want /\ conn' = Closing(conn, {p})
            /\ UNCHANGED <<calls, active, received, fresh, accepted, wake, out>>
  <2>1. \A q \in Peers : \A f \in conn[q].want : Waits(out[q], in[q], f) => Waits(out'[q], in'[q], f)
    BY <1>3, <1>4, <1>12
  <2>2. conn' = [q \in Peers |-> conn'[q]] /\ \A q \in Peers : Same(conn[q], conn'[q])
    BY <1>12, ClosingFacts
  <2>3. /\ out' \in [Peers -> Seq(OutMessage)] /\ items' \in SUBSET Blocks
        /\ wake' \in SUBSET {"sync", "items", "backlog"}
    BY <1>1, <1>2, <1>12
  <2> QED
    BY <1>2, <1>3, <1>12, <2>1, <2>2, <2>3, ConnectionsKept
<1>13. /\ [conn EXCEPT ![p].wantItem = @ \ {b}] = Replaced(p, d)
       /\ [conn EXCEPT ![p].want = @ \ {b}] = Replaced(p, e)
       /\ Replaced(p, e)[p] = e
       /\ [Replaced(p, e) EXCEPT ![p] = AskIds(head, e)] = Replaced(p, AskIds(head, e))
  BY <1>1, <1>5, <1>6, <1>7 DEF Replaced
<1> QED
  <2> DEFINE norm == [conn EXCEPT ![p].wantItem = @ \ {b}]
             sync == [conn EXCEPT ![p].want = @ \ {b}]
             more == /\ IsIdle(sync[p]) /\ sync[p].unfetched > 0
                     /\ Len(sync[p].toGet) < MinIds
             new  == [sync EXCEPT ![p] = AskIds(head, sync[p])]
  <2>1. \/ /\ b \in conn[p].wantItem /\ b \notin accepted
           /\ conn' = norm
           /\ calls' = Append(calls, [block |-> b, sync |-> FALSE, from |-> p, result |-> "waits"])
           /\ UNCHANGED <<active, received, fresh, accepted, wake, out>>
        \/ /\ b \in conn[p].wantItem /\ b \in accepted
           /\ conn' = Broadcast(norm, b)
           /\ wake' = wake \cup WakeItems(norm[p])
           /\ UNCHANGED <<calls, active, received, fresh, accepted, out>>
        \/ /\ b \notin conn[p].wantItem /\ b \in conn[p].want
           /\ active' = active \ {b}
           /\ fresh' = Append(fresh, b)
           /\ conn' = IF more THEN new ELSE sync
           /\ out' = IF more THEN Asking({p}, new) ELSE out
           /\ wake' = wake \cup {"backlog"}
                           \cup IF IsIdle(sync[p]) /\ ~more THEN {"sync"} ELSE {}
           /\ UNCHANGED <<calls, received, accepted>>
        \/ /\ b \notin conn[p].wantItem /\ b \notin conn[p].want
           /\ conn' = Closing(conn, {p})
           /\ UNCHANGED <<calls, active, received, fresh, accepted, wake, out>>
    BY <1>4 DEF OnBlock
  <2>2. norm = Replaced(p, d) /\ sync = Replaced(p, e) /\ sync[p] = e /\ new = Replaced(p, AskIds(head, e))
        /\ norm[p] = d
    BY ONLY <1>8, <1>13
  <2> HIDE DEF norm, sync, more, new
  <2> QED
    BY <1>1, <1>9, <1>10, <1>11, <1>12, <2>1, <2>2

(* on_item_not_available_message: a block that is taken out of the requests*)
(* of its connection is denied from then on.                               *)
LEMMA OnMissingPreserves ==
    ASSUME IndInv, NEW p \in Peers, OnMissing(p)
    PROVE  IndInv'
<1>1. /\ conn \in [Peers -> Connection] /\ out \in [Peers -> Seq(OutMessage)]
      /\ in \in [Peers -> Seq(InMessage)] /\ items \in SUBSET Blocks
      /\ wake \in SUBSET {"sync", "items", "backlog"} /\ \A q \in Peers : Linked(conn[q].toGet)
      /\ Typed /\ OneKind /\ Gone /\ RequestsMatch /\ SuspensionEnds /\ Limited
  BY Parts DEF Lists
<1>2. /\ Reads(p, "missing")
      /\ UNCHANGED <<known, head, calls, active, received, fresh, accepted, suspended, out, peerHead>>
  BY DEF OnMissing, peerVars
<1>3. /\ in' \in [Peers -> Seq(InMessage)] /\ Head(in[p]) \in InMessage /\ Head(in[p]).type = "missing"
      /\ \A q \in Peers : \A o, d : Waits(o, in[q], d) /\ ~(q = p /\ Head(in[p]).ids[1] = d)
                                    => Waits(o, in'[q], d)
  BY <1>1, <1>2, ReadsFacts
<1>4. PICK b \in Blocks : b = Head(in[p]).ids[1]
  <2>1. PICK m \in InMessage : m = Head(in[p]) /\ m.type = "missing"
    BY <1>3
  <2>2. m.ids \in Seq(Blocks) /\ m.ids # <<>>
    BY <2>1 DEF InMessage
  <2> QED
    BY <2>1, <2>2
<1>5. PICK x \in SUBSET Blocks, y \in SUBSET Blocks, z \in SUBSET Blocks :
         x = conn[p].wantItem \ {b} /\ y = conn[p].want \ {b} /\ z = conn[p].told \ {b}
  BY <1>1 DEF Connection
<1>6. PICK c \in Connection : c = conn[p] /\ Linked(c.toGet)
  BY <1>1
<1>7. PICK d : d = [[c EXCEPT !.wantItem = x] EXCEPT !.told = z] /\ Same(conn[p], d)
  <2>1. PICK e : e = [c EXCEPT !.wantItem = x]
    OBVIOUS
  <2>2. /\ e \in Connection /\ e.toGet = c.toGet /\ e.want = c.want /\ e.wantItem = x /\ e.st = c.st
    BY ONLY <2>1, WantFacts, c \in Connection, x \in SUBSET Blocks
  <2>3. Same(c, e) /\ Linked(e.toGet)
    BY ONLY <1>5, <1>6, <2>2 DEF Same
  <2>4. Same(e, [e EXCEPT !.told = z])
    BY ONLY <2>2, <2>3, SameFields, z \in SUBSET Blocks
  <2>5. Same(c, [e EXCEPT !.told = z])
    BY ONLY <2>3, <2>4, SameTwice
  <2> QED
    BY ONLY <1>6, <2>1, <2>5
<1>8. CASE /\ b \in conn[p].wantItem /\ conn' = Replaced(p, d)
           /\ items' \in SUBSET Blocks /\ wake' = wake \cup {"items"} /\ denied' = denied
  <2>1. conn[p].want = {}
    BY <1>1, <1>8 DEF OneKind
  <2>2. \A q \in Peers : \A f \in conn[q].want : Waits(out[q], in[q], f) => Waits(out'[q], in'[q], f)
    BY <1>2, <1>3, <2>1
  <2>3. conn' = [q \in Peers |-> conn'[q]] /\ \A q \in Peers : Same(conn[q], conn'[q])
    BY <1>7, <1>8, ReplacedFacts
  <2>4. wake' \in SUBSET {"sync", "items", "backlog"} /\ wake \subseteq wake'
    BY <1>1, <1>8
  <2> QED
    BY <1>1, <1>2, <1>3, <1>8, <2>2, <2>3, <2>4, ConnectionsKept
<1>9. CASE /\ b \in conn[p].want /\ conn' = Closing([conn EXCEPT ![p].want = @ \ {b}], {p})
           /\ items' = items /\ wake' = wake \cup {"sync"} /\ denied' = denied \cup {b}
  <2>1. PICK e : /\ e = [[c EXCEPT !.want = y] EXCEPT !.st = "closing"]
                 /\ e \in Connection /\ Linked(e.toGet) /\ e.want = y /\ e.wantItem = c.wantItem
                 /\ e.st = "closing"
    <3>1. PICK g : g = [c EXCEPT !.want = y]
      OBVIOUS
    <3>2. g \in Connection /\ g.toGet = c.toGet /\ g.want = y /\ g.wantItem = c.wantItem
      BY ONLY <3>1, WantFacts, c \in Connection, y \in SUBSET Blocks
    <3>3. PICK e : e = [g EXCEPT !.st = "closing"]
      OBVIOUS
    <3>4. e \in Connection /\ e.toGet = g.toGet /\ e.want = g.want /\ e.wantItem = g.wantItem
          /\ e.st = "closing"
      BY ONLY <3>2, <3>3 DEF Connection, States
    <3> QED
      BY ONLY <1>6, <3>1, <3>2, <3>3, <3>4
  <2>2. /\ conn' \in [Peers -> Connection] /\ conn'[p] = e
        /\ \A q \in Peers : q # p => conn'[q] = conn[q]
    <3>1. PICK s : s = [conn EXCEPT ![p].want = @ \ {b}]
      OBVIOUS
    <3>2. \A q \in Peers : s[q] = IF q = p THEN [c EXCEPT !.want = y] ELSE conn[q]
      BY ONLY <1>1, <1>5, <1>6, <3>1, p \in Peers
    <3>3. conn' = [q \in Peers |-> IF q \in {p} THEN [s[q] EXCEPT !.st = "closing"] ELSE s[q]]
      BY ONLY <1>9, <3>1 DEF Closing
    <3>4. \A q \in Peers : conn'[q] = IF q = p THEN e ELSE conn[q]
      BY ONLY <2>1, <3>2, <3>3
    <3>5. conn' = [q \in Peers |-> conn'[q]] /\ \A q \in Peers : conn[q] \in Connection
      BY ONLY <1>1, <3>3
    <3> QED
      BY ONLY <2>1, <3>4, <3>5, p \in Peers
  <2>3. Typed'
    <3>1. wake' \in SUBSET {"sync", "items", "backlog"} /\ items' \in SUBSET Blocks
      BY <1>1, <1>9
    <3> QED
      BY <1>1, <1>2, <1>3, <2>2, <3>1 DEF Typed
  <2>4. Lists'
    BY <1>1, <2>1, <2>2 DEF Lists
  <2>5. OneKind' /\ Gone'
    BY <1>1, <1>5, <1>6, <2>1, <2>2 DEF OneKind, Gone
  <2>6. /\ active = denied \cup UNION {conn[q].want : q \in Peers}
        /\ \A q \in Peers : conn[q].want \cap denied = {}
        /\ \A q, r \in Peers : q # r => conn[q].want \cap conn[r].want = {}
    BY <1>1 DEF RequestsMatch
  <2>7. \A q \in Peers : conn'[q].want = conn[q].want \ {b}
    <3>1. \A q \in Peers : q # p => b \notin conn[q].want
      BY <1>9, <2>6
    <3> QED
      BY <1>5, <2>1, <2>2, <3>1
  <2>8. RequestsMatch'
    <3>1. /\ active' = denied' \cup UNION {conn'[q].want : q \in Peers}
          /\ \A q \in Peers : conn'[q].want \cap denied' = {}
          /\ \A q, r \in Peers : q # r => conn'[q].want \cap conn'[r].want = {}
      <4>1. active' = active /\ denied' = denied \cup {b} /\ b \in conn[p].want
        BY <1>2, <1>9
      <4> QED
        BY ONLY <2>6, <2>7, <4>1, p \in Peers
    <3>2. ASSUME NEW q \in Peers, NEW f \in conn'[q].want PROVE OnTheWay(q, f)'
      <4>1. f \in conn[q].want /\ f # b
        BY <2>7
      <4>2. Waits(out[q], in[q], f)
        BY <1>1, <4>1, WaitsIs DEF RequestsMatch
      <4>3. Waits(out'[q], in'[q], f)
        BY <1>2, <1>3, <1>4, <4>1, <4>2
      <4> QED
        BY <4>3 DEF OnTheWay, Waits
    <3> QED
      BY <3>1, <3>2 DEF RequestsMatch
  <2>9. SuspensionEnds' /\ Limited'
    BY <1>1, <1>2, <1>9, CallsKept
  <2> QED
    BY <2>3, <2>4, <2>5, <2>8, <2>9 DEF IndInv
<1>10. CASE b \notin conn[p].want /\ UNCHANGED <<conn, items, wake, denied>>
  <2>1. \A q \in Peers : \A f \in conn[q].want : Waits(out[q], in[q], f) => Waits(out'[q], in'[q], f)
    BY <1>2, <1>3, <1>4, <1>10
  <2>2. conn' = [q \in Peers |-> conn'[q]] /\ \A q \in Peers : Same(conn[q], conn'[q])
    BY <1>1, <1>10, SameFields
  <2> QED
    BY <1>1, <1>2, <1>3, <1>10, <2>1, <2>2, ConnectionsKept
<1> QED
  <2> DEFINE norm == [conn EXCEPT ![p].wantItem = @ \ {b}, ![p].told = @ \ {b}]
             told == \E q \in Active(norm) : b \in norm[q].told
  <2>1. \/ /\ b \in conn[p].wantItem /\ conn' = norm
           /\ items' = IF told THEN items \cup {b} ELSE items
           /\ wake' = wake \cup {"items"} /\ UNCHANGED denied
        \/ /\ b \notin conn[p].wantItem /\ b \in conn[p].want
           /\ conn' = Closing([conn EXCEPT ![p].want = @ \ {b}], {p})
           /\ wake' = wake \cup {"sync"} /\ denied' = denied \cup {b} /\ UNCHANGED items
        \/ /\ b \notin conn[p].wantItem /\ b \notin conn[p].want
           /\ UNCHANGED <<conn, items, wake, denied>>
    BY <1>4 DEF OnMissing
  <2>2. norm = Replaced(p, d)
    BY ONLY <1>1, <1>5, <1>6, <1>7, p \in Peers DEF Replaced
  <2> HIDE DEF norm, told
  <2>3. items \cup {b} \in SUBSET Blocks
    BY <1>1
  <2> QED
    BY <1>1, <1>8, <1>9, <1>10, <2>1, <2>2, <2>3

(* A call returns; the fiber of a sync block wakes the backlog.            *)
LEMMA ReturnFacts ==
    ASSUME IndInv, NEW sync \in BOOLEAN, NEW results, Returned(sync, results),
           suspended' = suspended, wake \subseteq wake', sync => "backlog" \in wake'
    PROVE  /\ SuspensionEnds' /\ Limited' /\ calls' \in Seq(Call)
           /\ Head(calls) \in Call /\ calls # <<>>
<1>1. calls \in Seq(Call) /\ SuspensionEnds /\ Limited
  BY Parts
<1>2. calls # <<>> /\ Head(calls).sync = sync /\ calls' = Tail(calls)
  BY DEF Returned
<1>3. Head(calls) \in Call
  BY <1>1, <1>2
<1>4. /\ Tail(calls) \in Seq(Call) /\ SyncCalls(calls) \in Nat /\ SyncCalls(Tail(calls)) \in Nat
      /\ SyncCalls(Tail(calls)) <= SyncCalls(calls)
      /\ (\E i \in DOMAIN calls : calls[i].sync) /\ ~Head(calls).sync
            => \E i \in DOMAIN Tail(calls) : Tail(calls)[i].sync
  BY <1>1, <1>2, CallGone
<1>5. Limited'
  <2>1. SyncCalls(calls)' = SyncCalls(Tail(calls))
    BY <1>2 DEF SyncCalls
  <2>2. MaxHandle \in Nat
    BY SyncAssumption
  <2> QED
    BY <1>1, <1>4, <2>1, <2>2 DEF Limited
<1>6. SuspensionEnds'
  BY <1>1, <1>2, <1>4 DEF SuspensionEnds
<1> QED
  BY <1>2, <1>3, <1>4, <1>5, <1>6

(* send_sync_block_to_node_delegate, the block was accepted.               *)
LEMMA SyncAcceptedPreserves ==
    ASSUME IndInv, SyncAccepted
    PROVE  IndInv'
<1>1. /\ conn \in [Peers -> Connection] /\ out \in [Peers -> Seq(OutMessage)]
      /\ in \in [Peers -> Seq(InMessage)] /\ head \in Ids /\ Typed
      /\ wake \in SUBSET {"sync", "items", "backlog"} /\ \A q \in Peers : Linked(conn[q].toGet)
  BY Parts DEF Lists
<1> DEFINE b       == Head(calls).block
           blank   == {p \in Active(conn) : conn[p].toGet = <<>> /\ conn[p].processing = {}}
           with    == {p \in Active(conn) \ blank : b \in conn[p].processing}
           emptied == {p \in with : /\ conn[p].toGet = <<>> /\ conn[p].unfetched = 0
                                    /\ conn[p].processing = {b}}
           again   == {p \in blank : ~conn[p].need}
<1>2. /\ Returned(TRUE, {"accepted"}) /\ wake' = wake \cup {"backlog"}
      /\ conn' = [p \in Peers |->
                    IF p \in emptied THEN AskIds(head, Finished(conn[p], b))
                    ELSE IF p \in with THEN Finished(conn[p], b)
                    ELSE IF p \in again THEN Restart(head, conn[p])
                    ELSE conn[p]]
      /\ out' = Asking(emptied \cup again, conn')
      /\ UNCHANGED <<known, head, active, received, fresh, items, suspended, in, peerHead, denied>>
  BY DEF SyncAccepted, peerVars
<1>3. \A p \in again : p \notin with
  OBVIOUS
<1>4. /\ SuspensionEnds' /\ Limited' /\ calls' \in Seq(Call) /\ Head(calls) \in Call /\ calls # <<>>
  BY <1>2, ReturnFacts
<1>5. b \in Blocks
  BY <1>4 DEF Call
<1> HIDE DEF b, blank, with, emptied, again
<1>6. ASSUME NEW p \in Peers
      PROVE  /\ Same(conn[p], conn'[p])
             /\ p \in emptied \cup again => (conn'[p].st # "failed" => conn'[p].asked \in Seq(Blocks))
  <2>1. PICK c \in Connection : c = conn[p] /\ Linked(c.toGet)
    BY <1>1
  <2>2. PICK f : f = Finished(c, b) /\ Same(c, f)
    <3>1. PICK x \in Ids, y \in SUBSET Blocks : x = b /\ y = c.processing \ {b}
      BY <1>5 DEF Ids, Connection
    <3>2. PICK g : g = [c EXCEPT !.seen = x] /\ Same(c, g)
      BY ONLY <2>1, SameFields, c \in Connection, x \in Ids
    <3>3. g \in Connection /\ Linked(g.toGet) /\ g.processing = c.processing
      BY <3>2, FieldFacts DEF Same
    <3>4. PICK f : f = [g EXCEPT !.processing = y] /\ Same(g, f)
      BY ONLY <3>3, SameFields, y \in SUBSET Blocks
    <3>5. f = Finished(c, b)
      BY ONLY <3>1, <3>2, <3>4 DEF Finished
    <3> QED
      BY ONLY <3>2, <3>4, <3>5, SameTwice
  <2>3. f \in Connection /\ Linked(f.toGet)
    BY <2>2 DEF Same
  <2>4. PICK a : /\ a = AskIds(head, f) /\ Same(f, a) /\ (a.st # "failed" => a.asked \in Seq(Blocks))
    BY <1>1, <2>3, SameAsked, AskIdsFacts
  <2>5. PICK r : /\ r = Restart(head, c) /\ Same(c, r) /\ (r.st # "failed" => r.asked \in Seq(Blocks))
    BY <1>1, <2>1, SameAsked, RestartFacts
  <2>6. Same(c, c) /\ Same(c, a)
    BY <2>1, <2>2, <2>4, SameFields, SameTwice
  <2>7. conn'[p] = IF p \in emptied THEN a ELSE IF p \in with THEN f
                   ELSE IF p \in again THEN r ELSE c
    BY <1>2, <2>1, <2>2, <2>4, <2>5
  <2>8. p \in again => p \notin with
    BY <1>3
  <2>9. p \in emptied => p \in with
    BY DEF emptied
  <2> QED
    BY ONLY <2>1, <2>2, <2>4, <2>5, <2>6, <2>7, <2>8, <2>9
<1>7. conn' = [p \in Peers |-> conn'[p]]
  BY <1>2
<1>8. /\ out' \in [Peers -> Seq(OutMessage)]
      /\ \A q \in Peers : \A i, d : Waits(out[q], i, d) => Waits(out'[q], i, d)
  <2>1. PICK ps : ps = emptied \cup again
    OBVIOUS
  <2>2. \A p \in Peers \cap ps : conn'[p].st # "failed" => conn'[p].asked \in Seq(Blocks)
    BY <1>6, <2>1
  <2>3. /\ Asking(ps, conn') \in [Peers -> Seq(OutMessage)]
        /\ \A q \in Peers : \A i, d : Waits(out[q], i, d) => Waits(Asking(ps, conn')[q], i, d)
    BY <1>1, <2>2, AskingFacts
  <2> QED
    BY ONLY <1>2, <2>1, <2>3
<1>9. /\ known' \in SUBSET Blocks /\ head' \in known' \cup {Genesis} /\ items' \in SUBSET Blocks
      /\ received' \in Seq(Blocks) /\ fresh' \in Seq(Blocks)
      /\ wake' \in SUBSET {"sync", "items", "backlog"} /\ in' = in
      /\ active' = active /\ denied' = denied /\ peerHead' = peerHead /\ in' \in [Peers -> Seq(InMessage)]
  BY <1>1, <1>2 DEF Typed
<1> QED
  BY <1>4, <1>6, <1>7, <1>8, <1>9, ConnectionsReplaced

(* A call returns and connections are closed.                              *)
LEMMA ReturnCloses ==
    ASSUME IndInv, NEW sync \in BOOLEAN, NEW results, Returned(sync, results),
           NEW ps, conn' = Closing(conn, ps),
           wake \subseteq wake', wake' \in SUBSET {"sync", "items", "backlog"},
           sync => "backlog" \in wake',
           UNCHANGED <<known, head, active, received, fresh, items, suspended, out, in, peerHead, denied>>
    PROVE  IndInv'
<1>1. Typed
  BY Parts
<1>2. /\ SuspensionEnds' /\ Limited' /\ calls' \in Seq(Call)
  BY ReturnFacts
<1>3. conn' = [q \in Peers |-> conn'[q]] /\ \A q \in Peers : Same(conn[q], conn'[q])
  BY ClosingFacts
<1>4. /\ known' \in SUBSET Blocks /\ head' \in known' \cup {Genesis} /\ items' \in SUBSET Blocks
      /\ received' \in Seq(Blocks) /\ fresh' \in Seq(Blocks)
      /\ out' \in [Peers -> Seq(OutMessage)] /\ in' \in [Peers -> Seq(InMessage)]
  BY <1>1 DEF Typed
<1> QED
  BY <1>2, <1>3, <1>4, ConnectionsReplaced

(* The same for a block that was not accepted.                             *)
LEMMA SyncRejectedPreserves ==
    ASSUME IndInv, SyncRejected
    PROVE  IndInv'
<1>1. wake \in SUBSET {"sync", "items", "backlog"}
  BY Parts
<1>2. PICK ps : ps = {p \in Active(conn) : Head(calls).block \in conn[p].processing}
  OBVIOUS
<1>3. /\ Returned(TRUE, {"rejected", "unlinkable"}) /\ wake' = wake \cup {"backlog"}
      /\ conn' = Closing(conn, ps)
      /\ UNCHANGED <<known, head, active, received, fresh, items, suspended, out, in, peerHead, denied>>
  BY <1>2 DEF SyncRejected, peerVars
<1> QED
  BY <1>1, <1>3, ReturnCloses

(* process_block_during_normal_operation.                                  *)
LEMMA NormalRejectedPreserves ==
    ASSUME IndInv, NormalRejected
    PROVE  IndInv'
<1>1. wake \in SUBSET {"sync", "items", "backlog"}
  BY Parts
<1>2. PICK ps : ps = {Head(calls).from} \cup {p \in Active(conn) :
                        conn[p].toGet # <<>> /\ conn[p].toGet[1] = Head(calls).block}
  OBVIOUS
<1>3. /\ Returned(FALSE, {"rejected"}) /\ wake' = wake \cup WakeItems(conn[Head(calls).from])
      /\ conn' = Closing(conn, ps)
      /\ UNCHANGED <<known, head, active, received, fresh, items, suspended, out, in, peerHead, denied>>
  BY <1>2 DEF NormalRejected, peerVars
<1>4. wake' \in SUBSET {"sync", "items", "backlog"} /\ wake \subseteq wake'
  BY <1>1, <1>3 DEF WakeItems
<1> QED
  BY <1>3, <1>4, ReturnCloses

(* A block taken in normal operation is announced to the peers, and no     *)
(* request changes.                                                        *)
LEMMA NormalAcceptedPreserves ==
    ASSUME IndInv, NormalAccepted
    PROVE  IndInv'
<1>1. /\ conn \in [Peers -> Connection] /\ Typed
      /\ wake \in SUBSET {"sync", "items", "backlog"} /\ \A q \in Peers : Linked(conn[q].toGet)
  BY Parts DEF Lists
<1>2. /\ Returned(FALSE, {"accepted"}) /\ wake' = wake \cup WakeItems(conn[Head(calls).from])
      /\ conn' = Broadcast(conn, Head(calls).block)
      /\ UNCHANGED <<known, head, active, received, fresh, items, suspended, out, in, peerHead, denied>>
  BY DEF NormalAccepted, peerVars
<1>3. wake' \in SUBSET {"sync", "items", "backlog"} /\ wake \subseteq wake'
  BY <1>1, <1>2 DEF WakeItems
<1>4. /\ SuspensionEnds' /\ Limited' /\ calls' \in Seq(Call) /\ Head(calls) \in Call
  BY <1>2, <1>3, ReturnFacts
<1>5. Head(calls).block \in Blocks
  BY <1>4 DEF Call
<1>6. conn' = [q \in Peers |-> conn'[q]] /\ \A q \in Peers : Same(conn[q], conn'[q])
  BY <1>1, <1>2, <1>5, BroadcastFacts
<1>7. /\ known' \in SUBSET Blocks /\ head' \in known' \cup {Genesis} /\ items' \in SUBSET Blocks
      /\ received' \in Seq(Blocks) /\ fresh' \in Seq(Blocks)
      /\ out' \in [Peers -> Seq(OutMessage)] /\ in' \in [Peers -> Seq(InMessage)]
  BY <1>1, <1>2 DEF Typed
<1> QED
  BY <1>2, <1>3, <1>4, <1>6, <1>7, ConnectionsReplaced

(* A block that does not link makes the node synchronize with its peer     *)
(* again.                                                                  *)
LEMMA NormalUnlinkablePreserves ==
    ASSUME IndInv, NormalUnlinkable
    PROVE  IndInv'
<1>1. /\ conn \in [Peers -> Connection] /\ Typed /\ head \in Ids /\ out \in [Peers -> Seq(OutMessage)]
      /\ \A q \in Peers : Linked(conn[q].toGet)
  BY Parts DEF Lists
<1>2. PICK p : p = Head(calls).from
  OBVIOUS
<1>3. /\ Returned(FALSE, {"unlinkable"})
      /\ conn' = [conn EXCEPT ![p] = Restart(head, conn[p])] /\ out' = Asking({p}, conn')
      /\ UNCHANGED <<known, head, active, received, fresh, items, suspended, wake, in, peerHead, denied>>
  BY <1>2 DEF NormalUnlinkable, peerVars
<1>4. SuspensionEnds' /\ Limited' /\ calls' \in Seq(Call)
  BY <1>3, ReturnFacts
<1>5. /\ conn' = [q \in Peers |-> conn'[q]] /\ \A q \in Peers : Same(conn[q], conn'[q])
      /\ p \in Peers => (conn'[p].st # "failed" => conn'[p].asked \in Seq(Blocks))
  <2>1. CASE p \in Peers
    <3>1. PICK d : d = Restart(head, conn[p]) /\ Same(conn[p], d)
                   /\ (d.st # "failed" => d.asked \in Seq(Blocks))
      BY <1>1, <2>1, SameAsked, RestartFacts
    <3>2. /\ Replaced(p, d) = [q \in Peers |-> Replaced(p, d)[q]] /\ Replaced(p, d)[p] = d
          /\ \A q \in Peers : Same(conn[q], Replaced(p, d)[q])
      BY <2>1, <3>1, ReplacedFacts
    <3>3. conn' = Replaced(p, d)
      BY ONLY <1>3, <3>1 DEF Replaced
    <3> QED
      BY ONLY <3>1, <3>2, <3>3
  <2>2. CASE p \notin Peers
    <3>1. conn' = conn
      BY ONLY <1>1, <1>3, <2>2
    <3>2. \A q \in Peers : Same(conn[q], conn[q])
      BY <1>1, SameFields
    <3> QED
      BY ONLY <1>1, <2>2, <3>1, <3>2
  <2> QED
    BY <2>1, <2>2
<1>6. /\ out' \in [Peers -> Seq(OutMessage)]
      /\ \A q \in Peers : \A i, b : Waits(out[q], i, b) => Waits(out'[q], i, b)
  <2>1. \A q \in Peers \cap {p} : conn'[q].st # "failed" => conn'[q].asked \in Seq(Blocks)
    BY <1>5
  <2>2. /\ Asking({p}, conn') \in [Peers -> Seq(OutMessage)]
        /\ \A q \in Peers : \A i, b : Waits(out[q], i, b) => Waits(Asking({p}, conn')[q], i, b)
    BY <1>1, <2>1, AskingFacts
  <2> QED
    BY ONLY <1>3, <2>2
<1>7. /\ known' \in SUBSET Blocks /\ head' \in known' \cup {Genesis} /\ items' \in SUBSET Blocks
      /\ received' \in Seq(Blocks) /\ fresh' \in Seq(Blocks) /\ in' = in
      /\ wake' \in SUBSET {"sync", "items", "backlog"} /\ in' \in [Peers -> Seq(InMessage)]
      /\ active' = active /\ denied' = denied /\ peerHead' = peerHead
  BY <1>1, <1>3 DEF Typed
<1> QED
  BY <1>4, <1>5, <1>6, <1>7, ConnectionsReplaced

(* handle_block.                                                           *)
LEMMA DelegateHandlesPreserves ==
    ASSUME IndInv, DelegateHandles
    PROVE  IndInv'
<1>1. /\ conn \in [Peers -> Connection] /\ Typed /\ SuspensionEnds /\ Limited
      /\ calls \in Seq(Call) /\ known \in SUBSET Blocks /\ head \in known \cup {Genesis}
      /\ \A q \in Peers : Linked(conn[q].toGet)
  BY Parts DEF Lists
<1>2. PICK i \in DOMAIN calls, r \in {"unlinkable", "rejected", "accepted"} :
         /\ calls' = [calls EXCEPT ![i].result = r]
         /\ known' = IF r = "accepted" THEN known \cup {calls[i].block} ELSE known
         /\ head' = IF r = "accepted" /\ Number(calls[i].block) > Number(head)
                    THEN calls[i].block ELSE head
         /\ UNCHANGED <<conn, active, received, fresh, items, suspended, wake, out, in, peerHead, denied>>
  <2>1. PICK i \in DOMAIN calls :
           LET b  == calls[i].block
               r  == IF Parent[b] \notin known \cup {Genesis} THEN "unlinkable"
                     ELSE IF b \in Invalid THEN "rejected" ELSE "accepted"
           IN  /\ calls' = [calls EXCEPT ![i].result = r]
               /\ known' = IF r = "accepted" THEN known \cup {b} ELSE known
               /\ head' = IF r = "accepted" /\ Number(b) > Number(head) THEN b ELSE head
               /\ UNCHANGED <<conn, active, received, fresh, items, suspended, wake, out, in, peerHead, denied>>
    BY DEF DelegateHandles, peerVars
  <2>2. PICK r : r = IF Parent[calls[i].block] \notin known \cup {Genesis} THEN "unlinkable"
                     ELSE IF calls[i].block \in Invalid THEN "rejected" ELSE "accepted"
    OBVIOUS
  <2>3. r \in {"unlinkable", "rejected", "accepted"}
    BY ONLY <2>2
  <2> QED
    BY <2>1, <2>2, <2>3
<1>3. calls[i] \in Call
  BY <1>1, <1>2
<1>4. PICK k \in Call : k = [calls[i] EXCEPT !.result = r] /\ k.sync = calls[i].sync
  <2>1. PICK c \in Call : c = calls[i]
    BY <1>3
  <2>2. [c EXCEPT !.result = r] \in Call /\ [c EXCEPT !.result = r].sync = c.sync
    BY ONLY c \in Call, r \in {"unlinkable", "rejected", "accepted"} DEF Call
  <2> QED
    BY ONLY <2>1, <2>2
<1>5. calls' = [calls EXCEPT ![i] = k]
  BY ONLY <1>2, <1>4
<1>6. /\ calls' \in Seq(Call) /\ DOMAIN calls' = DOMAIN calls
      /\ \A j \in DOMAIN calls : calls'[j].sync = calls[j].sync
  BY ONLY <1>1, <1>4, <1>5, i \in DOMAIN calls, k \in Call
<1>7. Limited' /\ SuspensionEnds'
  <2>1. {j \in DOMAIN calls' : calls'[j].sync} = {j \in DOMAIN calls : calls[j].sync}
    BY ONLY <1>6
  <2>2. SyncCalls(calls)' = SyncCalls(calls)
    BY ONLY <2>1 DEF SyncCalls
  <2>3. suspended' = suspended /\ wake' = wake
    BY <1>2
  <2> QED
    BY ONLY <1>1, <1>6, <2>2, <2>3 DEF Limited, SuspensionEnds
<1>8. known' \in SUBSET Blocks /\ head' \in known' \cup {Genesis}
  <2>1. calls[i].block \in Blocks
    BY <1>3 DEF Call
  <2> QED
    BY ONLY <1>1, <1>2, <2>1
<1>9. conn' = [q \in Peers |-> conn'[q]] /\ \A q \in Peers : Same(conn[q], conn'[q])
  <2>1. conn' = conn
    BY <1>2
  <2> QED
    BY <1>1, <2>1, SameFields
<1>10. /\ items' \in SUBSET Blocks /\ received' \in Seq(Blocks) /\ fresh' \in Seq(Blocks)
       /\ wake' \in SUBSET {"sync", "items", "backlog"} /\ in' \in [Peers -> Seq(InMessage)]
       /\ out' \in [Peers -> Seq(OutMessage)] /\ in' = in /\ out' = out
       /\ active' = active /\ denied' = denied /\ peerHead' = peerHead
  BY <1>1, <1>2 DEF Typed
<1> QED
  BY <1>6, <1>7, <1>8, <1>9, <1>10, ConnectionsReplaced

-----------------------------------------------------------------------------
(* on_connection_closed.                                                   *)
LEMMA ClosedPreserves ==
    ASSUME IndInv, NEW p \in Peers, NEW st \in {"closed", "dropped"}, Closed(p, st)
    PROVE  IndInv'
<1>1. /\ conn \in [Peers -> Connection] /\ out \in [Peers -> Seq(OutMessage)]
      /\ in \in [Peers -> Seq(InMessage)] /\ items \in SUBSET Blocks
      /\ wake \in SUBSET {"sync", "items", "backlog"} /\ Lists
      /\ Typed /\ OneKind /\ Gone /\ RequestsMatch /\ SuspensionEnds /\ Limited
  BY Parts
<1>2. PICK d : /\ d = [Fresh EXCEPT !.st = st] /\ d \in Connection
               /\ d.want = {} /\ d.wantItem = {} /\ d.toGet = <<>>
  <2>1. st \in States
    BY DEF States
  <2> QED
    BY <2>1, FreshFacts
<1>3. PICK again \in SUBSET Blocks : items' = items \cup again
  <2>1. PICK x : x = {b \in conn[p].wantItem :
                        \E q \in Active([conn EXCEPT ![p] = d]) : b \in conn[q].told}
    OBVIOUS
  <2>2. items' = items \cup x
    BY <1>2, <2>1 DEF Closed
  <2>3. x \in SUBSET Blocks
    BY <1>1, <2>1 DEF Connection
  <2> QED
    BY ONLY <2>2, <2>3
<1>4. /\ conn' = [conn EXCEPT ![p] = d] /\ active' = active \ conn[p].want
      /\ out' = [out EXCEPT ![p] = <<>>] /\ in' = [in EXCEPT ![p] = <<>>]
      /\ UNCHANGED <<known, head, calls, received, fresh, accepted, suspended, peerHead, denied>>
  BY <1>2 DEF Closed
<1>5. wake' \in SUBSET {"sync", "items", "backlog"} /\ wake \subseteq wake'
  <2>1. wake' = wake \cup (IF conn[p].want = {} THEN {} ELSE {"sync"})
                     \cup (IF conn[p].wantItem = {} THEN {} ELSE {"items"})
    BY DEF Closed
  <2> QED
    BY ONLY <1>1, <2>1
<1>6. /\ conn' \in [Peers -> Connection] /\ conn'[p] = d
      /\ \A q \in Peers : q # p => conn'[q] = conn[q]
  BY ONLY <1>1, <1>2, <1>4, p \in Peers
<1>7. /\ out' \in [Peers -> Seq(OutMessage)] /\ in' \in [Peers -> Seq(InMessage)]
      /\ \A q \in Peers : q # p => out'[q] = out[q] /\ in'[q] = in[q]
  BY ONLY <1>1, <1>4, p \in Peers
<1>8. Typed'
  <2>1. items' \in SUBSET Blocks /\ active' \in SUBSET Blocks
    BY <1>1, <1>3, <1>4 DEF Typed
  <2> QED
    BY <1>1, <1>4, <1>5, <1>6, <1>7, <2>1 DEF Typed
<1>9. Lists' /\ OneKind' /\ Gone'
  <2>1. Linked(<<>>)
    BY DEF Linked
  <2> QED
    BY <1>1, <1>2, <1>6, <2>1 DEF Lists, OneKind, Gone
<1>10. RequestsMatch'
  <2>1. /\ active' = denied' \cup UNION {conn'[q].want : q \in Peers}
        /\ \A q \in Peers : conn'[q].want \cap denied' = {}
    <3>1. /\ active = denied \cup UNION {conn[q].want : q \in Peers}
          /\ \A q \in Peers : conn[q].want \cap denied = {}
          /\ \A q, r \in Peers : q # r => conn[q].want \cap conn[r].want = {}
      BY <1>1 DEF RequestsMatch
    <3>2. conn'[p].want = {} /\ \A q \in Peers : q # p => conn'[q].want = conn[q].want
      BY <1>2, <1>6
    <3>3. active' = active \ conn[p].want /\ denied' = denied
      BY <1>4
    <3> QED
      BY ONLY <3>1, <3>2, <3>3, p \in Peers
  <2>2. \A q, r \in Peers : q # r => conn'[q].want \cap conn'[r].want = {}
    BY <1>1, <1>2, <1>6 DEF RequestsMatch
  <2>3. ASSUME NEW q \in Peers, NEW b \in conn'[q].want PROVE OnTheWay(q, b)'
    <3>1. q # p /\ b \in conn[q].want
      BY <1>2, <1>6
    <3>2. Waits(out[q], in[q], b)
      BY <1>1, <3>1, WaitsIs DEF RequestsMatch
    <3>3. Waits(out'[q], in'[q], b)
      BY <1>7, <3>1, <3>2
    <3> QED
      BY <3>3 DEF OnTheWay, Waits
  <2> QED
    BY <2>1, <2>2, <2>3 DEF RequestsMatch
<1>11. SuspensionEnds' /\ Limited'
  BY <1>1, <1>4, <1>5, CallsKept
<1> QED
  BY <1>8, <1>9, <1>10, <1>11 DEF IndInv

(* new_peer_just_added: the connection before it waited for nothing.       *)
LEMMA ReconnectPreserves ==
    ASSUME IndInv, NEW p \in Peers, Reconnect(p)
    PROVE  IndInv'
<1>1. /\ conn \in [Peers -> Connection] /\ head \in Ids /\ out \in [Peers -> Seq(OutMessage)]
      /\ in \in [Peers -> Seq(InMessage)] /\ items \in SUBSET Blocks
      /\ wake \in SUBSET {"sync", "items", "backlog"} /\ Gone
  BY Parts
<1>2. PICK d : d = Restart(head, Fresh)
  OBVIOUS
<1>3. /\ conn[p].st = "closed" /\ conn' = Replaced(p, d) /\ out' = Asking({p}, conn')
      /\ UNCHANGED <<known, head, calls, active, received, fresh, items, suspended, wake, in, peerHead, denied>>
  BY <1>2 DEF Reconnect, peerVars, Replaced
<1>4. Same(conn[p], d) /\ (d.st # "failed" => d.asked \in Seq(Blocks))
  <2>1. "active" \in States /\ Linked(<<>>)
    BY DEF States, Linked
  <2>2. Fresh \in Connection /\ Fresh.want = {} /\ Fresh.wantItem = {} /\ Fresh.st = "active"
    BY <2>1, FreshFacts
  <2>3. conn[p].want = {}
    BY <1>1, <1>3 DEF Gone
  <2> QED
    BY <1>1, <1>2, <1>3, <2>1, <2>2, <2>3, RestartFacts DEF Same
<1>5. conn' = [q \in Peers |-> conn'[q]] /\ conn'[p] = d /\ \A q \in Peers : Same(conn[q], conn'[q])
  BY <1>3, <1>4, ReplacedFacts
<1>6. /\ out' \in [Peers -> Seq(OutMessage)]
      /\ \A q \in Peers : \A i, b : Waits(out[q], i, b) => Waits(out'[q], i, b)
  <2>1. /\ Asking({p}, conn') \in [Peers -> Seq(OutMessage)]
        /\ \A q \in Peers : \A i, b : Waits(out[q], i, b) => Waits(Asking({p}, conn')[q], i, b)
    BY <1>1, <1>4, <1>5, AskingFacts
  <2> QED
    BY ONLY <1>3, <2>1
<1> QED
  BY <1>1, <1>3, <1>5, <1>6, ConnectionsKept
-----------------------------------------------------------------------------
(* fetch_items_loop: only a peer that waits for nothing is asked.          *)
LEMMA FetchItemsPreserves ==
    ASSUME IndInv, FetchItems
    PROVE  IndInv'
<1>1. /\ conn \in [Peers -> Connection] /\ out \in [Peers -> Seq(OutMessage)]
      /\ in \in [Peers -> Seq(InMessage)] /\ items \in SUBSET Blocks
      /\ wake \in SUBSET {"sync", "items", "backlog"} /\ Lists
      /\ Typed /\ OneKind /\ Gone /\ RequestsMatch /\ SuspensionEnds /\ Limited
  BY Parts
<1>2. /\ wake' = wake \ {"items"}
      /\ UNCHANGED <<known, head, calls, active, received, fresh, suspended, in, peerHead, denied>>
  BY DEF FetchItems, peerVars
<1> DEFINE ready(b) == {p \in Active(conn) : IsIdle(conn[p]) /\ b \in conn[p].told}
           Asks(T, f) ==
              /\ \A b \in T : f[b] \in ready(b)
              /\ items' = items \ T
              /\ conn' = [p \in Peers |-> [conn[p] EXCEPT !.wantItem = @ \cup {b \in T : f[b] = p}]]
              /\ out' = [p \in Peers |-> out[p] \o
                            IF \E b \in T : f[b] = p
                            THEN Items(<<CHOOSE b \in T : f[b] = p>>) ELSE <<>>]
<1>a. \E T \in SUBSET items : \E f \in [T -> Peers] : Asks(T, f)
  BY Zenon DEF FetchItems
<1> HIDE DEF Asks
<1>b. PICK S \in SUBSET items : \E f \in [S -> Peers] : Asks(S, f)
  BY <1>a
<1>c. PICK from \in [S -> Peers] : Asks(S, from)
  BY <1>b
<1>3. /\ S \in SUBSET items /\ from \in [S -> Peers] /\ \A b \in S : IsIdle(conn[from[b]])
      /\ items' = items \ S
      /\ conn' = [p \in Peers |-> [conn[p] EXCEPT !.wantItem = conn[p].wantItem \cup {b \in S : from[b] = p}]]
      /\ out' = [p \in Peers |-> out[p] \o
                    IF \E b \in S : from[b] = p
                    THEN Items(<<CHOOSE b \in S : from[b] = p>>) ELSE <<>>]
  <2>1. \A b \in S : IsIdle(conn[from[b]])
    BY <1>c DEF Asks
  <2> QED
    BY <1>b, <1>c, <2>1 DEF Asks
<1> HIDE DEF ready
<1>4. ASSUME NEW p \in Peers
      PROVE  /\ conn'[p] \in Connection /\ conn'[p].want = conn[p].want /\ conn'[p].st = conn[p].st
             /\ conn'[p].toGet = conn[p].toGet
             /\ conn'[p].want = {} \/ conn'[p].wantItem = {}
  <2>1. PICK c \in Connection : c = conn[p]
    BY <1>1
  <2>2. PICK x \in SUBSET Blocks : x = c.wantItem \cup {b \in S : from[b] = p}
    BY <1>1 DEF Connection
  <2>3. conn'[p] = [c EXCEPT !.wantItem = x]
    BY <1>3, <2>1, <2>2
  <2>4. /\ conn'[p] \in Connection /\ conn'[p].toGet = c.toGet
        /\ conn'[p].want = c.want /\ conn'[p].wantItem = x /\ conn'[p].st = c.st
    <3>1. PICK d : d = [c EXCEPT !.wantItem = x]
      OBVIOUS
    <3>2. /\ d \in Connection /\ d.toGet = c.toGet
          /\ d.want = c.want /\ d.wantItem = x /\ d.st = c.st
      BY ONLY <3>1, WantFacts, c \in Connection, x \in SUBSET Blocks
    <3> QED
      BY ONLY <2>3, <3>1, <3>2
  <2>5. c.want = {} \/ x = {}
    <3>1. CASE \E b \in S : from[b] = p
      BY <1>3, <2>1, <3>1 DEF IsIdle
    <3>2. CASE ~\E b \in S : from[b] = p
      BY <1>1, <2>1, <2>2, <3>2 DEF OneKind
    <3> QED
      BY <3>1, <3>2
  <2> QED
    BY ONLY <2>1, <2>4, <2>5
<1>5. ASSUME NEW p \in Peers
      PROVE  /\ out'[p] \in Seq(OutMessage)
             /\ \A i, b : Waits(out[p], i, b) => Waits(out'[p], i, b)
  <2>1. \E x \in Seq(OutMessage) : out'[p] = out[p] \o x
    <3>1. CASE \E b \in S : from[b] = p
      <4>1. PICK d \in Blocks : d = CHOOSE b \in S : from[b] = p
        BY <1>1, <3>1
      <4>2. out'[p] = out[p] \o Items(<<d>>)
        BY ONLY <1>3, <3>1, <4>1, p \in Peers
      <4>3. Items(<<d>>) = <<[type |-> "fetch_items", ids |-> <<d>>]>>
        BY DEF Items
      <4>4. [type |-> "fetch_items", ids |-> <<d>>] \in OutMessage
        BY DEF OutMessage
      <4>5. <<[type |-> "fetch_items", ids |-> <<d>>]>> \in Seq(OutMessage)
        BY ONLY <4>4
      <4> QED
        BY ONLY <4>2, <4>3, <4>5
    <3>2. CASE ~\E b \in S : from[b] = p
      <4>1. out'[p] = out[p] \o <<>>
        BY ONLY <1>3, <3>2, p \in Peers
      <4>2. <<>> \in Seq(OutMessage)
        OBVIOUS
      <4> QED
        BY ONLY <4>1, <4>2
    <3> QED
      BY <3>1, <3>2
  <2>2. out[p] \in Seq(OutMessage)
    BY <1>1
  <2> QED
    BY <2>1, <2>2, WaitsAdded
<1>6. conn' = [p \in Peers |-> conn'[p]] /\ out' = [p \in Peers |-> out'[p]]
  BY <1>3
<1>7. conn' \in [Peers -> Connection] /\ out' \in [Peers -> Seq(OutMessage)]
  BY ONLY <1>4, <1>5, <1>6
<1>8. Typed'
  <2>1. items' \in SUBSET Blocks
    BY <1>1, <1>3
  <2> QED
    BY <1>1, <1>2, <1>7, <2>1 DEF Typed
<1>9. Lists' /\ OneKind' /\ Gone'
  BY <1>1, <1>4 DEF Lists, OneKind, Gone
<1>10. RequestsMatch'
  <2>1. /\ active' = denied' \cup UNION {conn'[q].want : q \in Peers}
        /\ \A q \in Peers : conn'[q].want \cap denied' = {}
    <3>1. active' = active /\ denied' = denied /\ \A q \in Peers : conn'[q].want = conn[q].want
      BY <1>2, <1>4
    <3>2. /\ active = denied \cup UNION {conn[q].want : q \in Peers}
          /\ \A q \in Peers : conn[q].want \cap denied = {}
      BY <1>1 DEF RequestsMatch
    <3> QED
      BY ONLY <3>1, <3>2
  <2>2. \A q, r \in Peers : q # r => conn'[q].want \cap conn'[r].want = {}
    BY <1>1, <1>4 DEF RequestsMatch
  <2>3. ASSUME NEW q \in Peers, NEW b \in conn'[q].want PROVE OnTheWay(q, b)'
    <3>1. Waits(out[q], in[q], b)
      BY <1>1, <1>4, WaitsIs DEF RequestsMatch
    <3>2. Waits(out'[q], in'[q], b)
      BY <1>2, <1>5, <3>1
    <3> QED
      BY <3>2 DEF OnTheWay, Waits
  <2> QED
    BY <2>1, <2>2, <2>3 DEF RequestsMatch
<1>11. SuspensionEnds' /\ Limited'
  BY <1>1, <1>2, CallsKept
<1> QED
  BY <1>8, <1>9, <1>10, <1>11 DEF IndInv

(* Only blocks that nobody was asked for are asked of a peer, and only of  *)
(* one that waits for nothing.                                             *)
LEMMA FetchableFacts ==
    ASSUME IndInv, NEW p \in Peers, NEW taken
    PROVE  /\ Fetchable(p, taken) \in Seq({b \in Blocks : b \notin active \cup taken})
           /\ Fetchable(p, taken) # <<>> => conn[p].st = "active" /\ IsIdle(conn[p])
<1> DEFINE T == {b \in Blocks : b \notin active \cup taken}
           ids == conn[p].toGet
           n == Len(ids)
           Take(i, s) == IF Len(s) < PerPeer /\ Open(ids[i], taken) THEN Append(s, ids[i]) ELSE s
           step == [x \in (1 .. n) \X Seq(T) |-> Take(x[1], x[2])]
           Step(g) == g = [i \in 0 .. n |->
                              IF i = 0 THEN <<>>
                              ELSE IF Len(g[i - 1]) < PerPeer /\ Open(ids[i], taken)
                                   THEN Append(g[i - 1], ids[i])
                              ELSE g[i - 1]]
           first == CHOOSE g : Step(g)
<1>1. ids \in Seq(Blocks) /\ n \in Nat
  <2>1. conn[p] \in Connection
    BY Parts
  <2> QED
    BY <2>1 DEF Connection
<1>2. Fetchable(p, taken) = IF p \in Active(conn) /\ conn[p].need /\ IsIdle(conn[p])
                            THEN first[n] ELSE <<>>
  BY DEF Fetchable
<1> HIDE DEF ids, n
<1>3. \A i \in 1 .. n : Open(ids[i], taken) => ids[i] \in T
  BY <1>1 DEF Open, n
<1> HIDE DEF T
<1>4. \A i \in 1 .. n : \A s \in Seq(T) : Take(i, s) \in Seq(T)
  BY <1>3
<1> HIDE DEF Take
<1>5. step \in [(1 .. n) \X Seq(T) -> Seq(T)] /\ <<>> \in Seq(T)
  BY <1>4
<1>6. \A i \in 1 .. n : \A s \in Seq(T) : step[<<i, s>>] = Take(i, s)
  OBVIOUS
<1> HIDE DEF step
<1>7. PICK f \in [0 .. n -> Seq(T)] : f[0] = <<>> /\ \A i \in 1 .. n : f[i] = step[<<i, f[i - 1]>>]
  <2>1. step \in Steps(n, Seq(T))
    BY ONLY <1>5 DEF Steps
  <2>2. PICK f : Iteration(n, Seq(T), <<>>, step, f)
    BY ONLY <1>1, <1>5, <2>1, IterateExists
  <2> QED
    BY ONLY <2>2 DEF Iteration
<1>8. \A i \in 1 .. n : f[i] = Take(i, f[i - 1])
  <2>1. \A i \in 1 .. n : i - 1 \in 0 .. n
    BY <1>1
  <2> QED
    BY <1>6, <1>7, <2>1
<1>9. Step(f)
  <2>1. \A i \in 0 .. n : f[i] = IF i = 0 THEN <<>> ELSE Take(i, f[i - 1])
    <3>1. \A i \in 0 .. n : i = 0 \/ i \in 1 .. n
      BY <1>1
    <3>2. \A i \in 1 .. n : i # 0
      OBVIOUS
    <3> QED
      BY ONLY <1>7, <1>8, <3>1, <3>2
  <2>2. f = [i \in 0 .. n |-> IF i = 0 THEN <<>> ELSE Take(i, f[i - 1])]
    BY ONLY <2>1, f \in [0 .. n -> Seq(T)]
  <2> QED
    BY ONLY <2>2 DEF Take
<1>10. Step(first)
  <2> HIDE DEF Step
  <2> QED
    BY <1>9
<1> HIDE DEF first
<1>11. first[0] = <<>> /\ \A i \in 1 .. n : first[i] = Take(i, first[i - 1])
  <2>1. 0 \in 0 .. n /\ \A i \in 1 .. n : i \in 0 .. n /\ i # 0
    BY <1>1
  <2> QED
    BY ONLY <1>10, <2>1 DEF Take
<1>12. first[n] \in Seq(T)
  <2>1. first[0] \in Seq(T)
    BY <1>5, <1>11
  <2>2. \A i \in 1 .. n : first[i - 1] \in Seq(T) => first[i] \in Seq(T)
    BY ONLY <1>4, <1>11
  <2>3. \A i \in 0 .. n : first[i] \in Seq(T)
    BY ONLY <1>1, <2>1, <2>2, IterateKeeps
  <2>4. n \in 0 .. n
    BY <1>1
  <2> QED
    BY ONLY <2>3, <2>4
<1>13. Fetchable(p, taken) \in Seq(T)
  BY ONLY <1>2, <1>5, <1>12
<1>14. Fetchable(p, taken) # <<>> => conn[p].st = "active" /\ IsIdle(conn[p])
  BY ONLY <1>2 DEF Active
<1> QED
  BY <1>13, <1>14 DEF T

(* What fetch_sync_items_loop may ask the peers for.                       *)
Requests ==
    {a \in [Peers -> Seq({b \in Blocks : b \notin active})] :
        /\ \A p, q \in Peers : p # q => ToSet(a[p]) \cap ToSet(a[q]) = {}
        /\ \A p \in Peers : a[p] # <<>> => conn[p].st = "active" /\ IsIdle(conn[p])}

(* What it asks for, in whatever order it goes through the peers.          *)
LEMMA ScheduledFacts ==
    ASSUME IndInv, NEW order \in SetToSeqs(Peers)
    PROVE  Scheduled(order) \in Requests
<1> DEFINE F == {b \in Blocks : b \notin active}
           n == Len(order)
           Give(i, a) == [a EXCEPT ![order[i]] =
                             Fetchable(order[i], UNION {ToSet(a[q]) : q \in Peers})]
           step == [x \in (1 .. n) \X Requests |-> Give(x[1], x[2])]
           none == [p \in Peers |-> <<>>]
           Step(g) == g = [i \in 0 .. n |->
                              IF i = 0 THEN [p \in Peers |-> <<>>]
                              ELSE [g[i - 1] EXCEPT ![order[i]] =
                                      Fetchable(order[i], UNION {ToSet(g[i - 1][q]) : q \in Peers})]]
           asked == CHOOSE g : Step(g)
<1>1. n \in Nat /\ \A i \in 1 .. n : order[i] \in Peers
  <2>1. PICK m \in Nat : m = Cardinality(Peers)
    BY SyncAssumption, FS_CardinalityType
  <2>2. order \in [1 .. m -> Peers]
    BY <2>1 DEF SetToSeqs
  <2> QED
    BY <2>2
<1>2. Scheduled(order) = asked[n]
  BY DEF Scheduled
<1> HIDE DEF n
<1>3. none \in Requests
  <2>1. none \in [Peers -> Seq(F)]
    OBVIOUS
  <2>2. \A p \in Peers : none[p] = <<>> /\ ToSet(none[p]) = {}
    BY DEF ToSet
  <2> HIDE DEF none
  <2> QED
    BY <2>1, <2>2 DEF Requests
<1>4. ASSUME NEW i \in 1 .. n, NEW a \in Requests PROVE Give(i, a) \in Requests
  <2>1. PICK p \in Peers : p = order[i]
    BY <1>1
  <2>2. PICK U : U = UNION {ToSet(a[q]) : q \in Peers}
    OBVIOUS
  <2>3. PICK s : /\ s = Fetchable(p, U) /\ s \in Seq({b \in Blocks : b \notin active \cup U})
                 /\ s # <<>> => conn[p].st = "active" /\ IsIdle(conn[p])
    BY FetchableFacts
  <2>4. PICK g : g = [a EXCEPT ![p] = s]
    OBVIOUS
  <2>5. Give(i, a) = g
    BY ONLY <2>1, <2>2, <2>3, <2>4
  <2>6. /\ a \in [Peers -> Seq(F)] /\ \A q, r \in Peers : q # r => ToSet(a[q]) \cap ToSet(a[r]) = {}
        /\ \A q \in Peers : a[q] # <<>> => conn[q].st = "active" /\ IsIdle(conn[q])
    BY DEF Requests
  <2>7. s \in Seq(F) /\ ToSet(s) \cap U = {}
    <3>1. ToSet(s) \subseteq {b \in Blocks : b \notin active \cup U}
      BY <2>3 DEF ToSet
    <3>2. {b \in Blocks : b \notin active \cup U} \subseteq F
      OBVIOUS
    <3> HIDE DEF F
    <3>3. s \in Seq(F)
      BY <2>3, <3>2
    <3> QED
      BY <3>1, <3>3
  <2> HIDE DEF F
  <2>8. g \in [Peers -> Seq(F)] /\ g[p] = s /\ \A q \in Peers : q # p => g[q] = a[q]
    BY ONLY <2>4, <2>6, <2>7, p \in Peers
  <2>9. \A q \in Peers : q # p => ToSet(g[q]) \cap ToSet(s) = {}
    <3>1. \A q \in Peers : ToSet(a[q]) \subseteq U
      BY ONLY <2>2
    <3> QED
      BY ONLY <2>7, <2>8, <3>1
  <2>10. \A q, r \in Peers : q # r => ToSet(g[q]) \cap ToSet(g[r]) = {}
    BY ONLY <2>6, <2>8, <2>9
  <2>11. \A q \in Peers : g[q] # <<>> => conn[q].st = "active" /\ IsIdle(conn[q])
    BY ONLY <2>3, <2>6, <2>8
  <2>12. g \in Requests
    BY ONLY <2>8, <2>10, <2>11 DEF Requests, F
  <2> QED
    BY ONLY <2>5, <2>12
<1> HIDE DEF Give, none, F
<1>5. step \in [(1 .. n) \X Requests -> Requests]
  BY ONLY <1>4
<1>6. \A i \in 1 .. n : \A a \in Requests : step[<<i, a>>] = Give(i, a)
  OBVIOUS
<1> HIDE DEF step
<1>7. PICK f \in [0 .. n -> Requests] : f[0] = none /\ \A i \in 1 .. n : f[i] = step[<<i, f[i - 1]>>]
  <2>1. step \in Steps(n, Requests)
    BY ONLY <1>5 DEF Steps
  <2>2. PICK f : Iteration(n, Requests, none, step, f)
    BY ONLY <1>1, <1>3, <2>1, IterateExists
  <2> QED
    BY ONLY <2>2 DEF Iteration
<1>8. \A i \in 1 .. n : f[i] = Give(i, f[i - 1])
  <2>1. \A i \in 1 .. n : i - 1 \in 0 .. n
    BY <1>1
  <2> QED
    BY <1>6, <1>7, <2>1
<1>9. Step(f)
  <2>1. \A i \in 0 .. n : f[i] = IF i = 0 THEN none ELSE Give(i, f[i - 1])
    <3>1. \A i \in 0 .. n : i = 0 \/ i \in 1 .. n
      BY <1>1
    <3>2. \A i \in 1 .. n : i # 0
      OBVIOUS
    <3> QED
      BY ONLY <1>7, <1>8, <3>1, <3>2
  <2>2. f = [i \in 0 .. n |-> IF i = 0 THEN none ELSE Give(i, f[i - 1])]
    BY ONLY <2>1, f \in [0 .. n -> Requests]
  <2> QED
    BY ONLY <2>2 DEF Give, none
<1>10. Step(asked)
  <2> HIDE DEF Step
  <2> QED
    BY <1>9
<1> HIDE DEF asked
<1>11. asked[0] = none /\ \A i \in 1 .. n : asked[i] = Give(i, asked[i - 1])
  <2>1. 0 \in 0 .. n /\ \A i \in 1 .. n : i \in 0 .. n /\ i # 0
    BY <1>1
  <2> QED
    BY ONLY <1>10, <2>1 DEF Give, none
<1>12. asked[n] \in Requests
  <2>1. asked[0] \in Requests
    BY <1>3, <1>11
  <2>2. \A i \in 1 .. n : asked[i - 1] \in Requests => asked[i] \in Requests
    BY ONLY <1>4, <1>11
  <2>3. \A i \in 0 .. n : asked[i] \in Requests
    BY ONLY <1>1, <2>1, <2>2, IterateKeeps
  <2>4. n \in 0 .. n
    BY <1>1
  <2> QED
    BY ONLY <2>3, <2>4
<1> QED
  BY ONLY <1>2, <1>12

(* A request that is sent is on its way.                                   *)
LEMMA ItemsFacts ==
    ASSUME NEW o \in Seq(OutMessage), NEW s \in Seq(Blocks)
    PROVE  /\ o \o Items(s) \in Seq(OutMessage)
           /\ \A i, b : Waits(o, i, b) \/ b \in ToSet(s) => Waits(o \o Items(s), i, b)
<1>1. CASE s = <<>>
  <2>1. Items(s) = <<>> /\ ToSet(s) = {}
    BY <1>1 DEF Items, ToSet
  <2>2. o \o <<>> = o
    OBVIOUS
  <2> QED
    BY ONLY <2>1, <2>2, o \in Seq(OutMessage)
<1>2. CASE s # <<>>
  <2>1. PICK m \in OutMessage : m = [type |-> "fetch_items", ids |-> s]
    BY DEF OutMessage
  <2>2. m.type = "fetch_items" /\ m.ids = s
    BY ONLY <2>1
  <2>3. Items(s) = <<m>>
    BY ONLY <1>2, <2>1 DEF Items
  <2>4. PICK x \in Seq(OutMessage) : x = <<m>>
    <3>1. <<m>> \in Seq(OutMessage)
      BY ONLY m \in OutMessage
    <3> QED
      BY ONLY <3>1
  <2>5. o \o x \in Seq(OutMessage) /\ Len(o) + 1 \in DOMAIN (o \o x) /\ (o \o x)[Len(o) + 1] = m
    BY ONLY <2>4, o \in Seq(OutMessage), m \in OutMessage
  <2>6. ASSUME NEW i, NEW b, Waits(o, i, b) PROVE Waits(o \o x, i, b)
    BY <2>6, WaitsAdded
  <2>7. ASSUME NEW i, NEW b \in ToSet(s) PROVE Waits(o \o x, i, b)
    <3>1. Contains(s, b)
      BY DEF Contains, ToSet
    <3> QED
      BY ONLY <2>2, <2>5, <3>1 DEF Waits
  <2> QED
    BY ONLY <2>3, <2>4, <2>5, <2>6, <2>7
<1> QED
  BY <1>1, <1>2

(* fetch_sync_items_loop.                                                  *)
LEMMA FetchSyncItemsPreserves ==
    ASSUME IndInv, FetchSyncItems
    PROVE  IndInv'
<1>1. /\ conn \in [Peers -> Connection] /\ out \in [Peers -> Seq(OutMessage)]
      /\ in \in [Peers -> Seq(InMessage)] /\ active \in SUBSET Blocks
      /\ wake \in SUBSET {"sync", "items", "backlog"} /\ Lists
      /\ Typed /\ OneKind /\ Gone /\ RequestsMatch /\ SuspensionEnds /\ Limited
  BY Parts
<1>2. /\ wake' = wake \ {"sync"}
      /\ UNCHANGED <<known, head, calls, received, fresh, items, suspended, in, peerHead, denied>>
  BY DEF FetchSyncItems, peerVars
<1>3. PICK asked \in Requests :
         /\ conn' = [p \in Peers |-> [conn[p] EXCEPT !.want = conn[p].want \cup ToSet(asked[p])]]
         /\ active' = active \cup UNION {ToSet(asked[p]) : p \in Peers}
         /\ out' = [p \in Peers |-> out[p] \o Items(asked[p])]
  <2> DEFINE Asks(a) ==
                /\ conn' = [p \in Peers |-> [conn[p] EXCEPT !.want = @ \cup ToSet(a[p])]]
                /\ active' = active \cup UNION {ToSet(a[p]) : p \in Peers}
                /\ out' = [p \in Peers |-> out[p] \o Items(a[p])]
             none == [p \in Peers |-> <<>>]
  <2>1. PICK order \in SetToSeqs(Peers) : Asks(IF suspended THEN none ELSE Scheduled(order))
    BY Zenon DEF FetchSyncItems
  <2>2. Scheduled(order) \in Requests
    BY ScheduledFacts
  <2>3. none \in Requests
    <3> DEFINE F == {b \in Blocks : b \notin active}
    <3>1. none \in [Peers -> Seq(F)]
      OBVIOUS
    <3>2. \A p \in Peers : none[p] = <<>> /\ ToSet(none[p]) = {}
      BY DEF ToSet
    <3> HIDE DEF none
    <3> QED
      BY <3>1, <3>2 DEF Requests
  <2> HIDE DEF Asks, none
  <2>4. PICK a \in Requests : Asks(a)
    BY ONLY <2>1, <2>2, <2>3
  <2> QED
    BY ONLY <2>4 DEF Asks
<1>4. /\ \A p \in Peers : asked[p] \in Seq(Blocks) /\ ToSet(asked[p]) \in SUBSET (Blocks \ active)
      /\ \A p, q \in Peers : p # q => ToSet(asked[p]) \cap ToSet(asked[q]) = {}
      /\ \A p \in Peers : asked[p] # <<>> => conn[p].st = "active" /\ IsIdle(conn[p])
  <2> DEFINE F == {b \in Blocks : b \notin active}
  <2>1. \A p \in Peers : asked[p] \in Seq(F)
    BY DEF Requests
  <2>2. \A p \in Peers : asked[p] \in Seq(Blocks) /\ ToSet(asked[p]) \subseteq F
    <3>1. SUFFICES ASSUME NEW p \in Peers PROVE asked[p] \in Seq(Blocks) /\ ToSet(asked[p]) \subseteq F
      OBVIOUS
    <3>2. F \subseteq Blocks
      OBVIOUS
    <3>3. asked[p] \in Seq(F)
      BY <2>1
    <3> HIDE DEF F
    <3>4. asked[p] \in Seq(Blocks)
      BY ONLY <3>2, <3>3
    <3>5. ToSet(asked[p]) \subseteq F
      BY ONLY <3>3 DEF ToSet
    <3> QED
      BY <3>4, <3>5
  <2> QED
    BY <2>2 DEF Requests
<1>5. ASSUME NEW p \in Peers
      PROVE  /\ conn'[p] \in Connection /\ conn'[p].want = conn[p].want \cup ToSet(asked[p])
             /\ conn'[p].st = conn[p].st /\ conn'[p].toGet = conn[p].toGet
             /\ conn'[p].want = {} \/ conn'[p].wantItem = {}
             /\ conn'[p].st = "closed" => conn'[p].want = {}
  <2>1. PICK c \in Connection : c = conn[p]
    BY <1>1
  <2>2. PICK x \in SUBSET Blocks : x = c.want \cup ToSet(asked[p])
    <3>1. c.want \in SUBSET Blocks
      BY DEF Connection
    <3> QED
      BY ONLY <1>4, <3>1, p \in Peers
  <2>3. conn'[p] = [c EXCEPT !.want = x]
    BY ONLY <1>3, <2>1, <2>2, p \in Peers
  <2>4. /\ conn'[p] \in Connection /\ conn'[p].toGet = c.toGet
        /\ conn'[p].want = x /\ conn'[p].wantItem = c.wantItem /\ conn'[p].st = c.st
    <3>1. PICK d : d = [c EXCEPT !.want = x]
      OBVIOUS
    <3>2. /\ d \in Connection /\ d.toGet = c.toGet
          /\ d.want = x /\ d.wantItem = c.wantItem /\ d.st = c.st
      BY ONLY <3>1, WantFacts, c \in Connection, x \in SUBSET Blocks
    <3> QED
      BY ONLY <2>3, <3>1, <3>2
  <2>5. (x = {} \/ c.wantItem = {}) /\ (c.st = "closed" => x = {})
    <3>1. CASE asked[p] = <<>>
      <4>1. x = c.want
        BY <2>2, <3>1 DEF ToSet
      <4> QED
        BY <1>1, <2>1, <4>1 DEF OneKind, Gone
    <3>2. CASE asked[p] # <<>>
      BY <1>4, <2>1, <3>2 DEF IsIdle
    <3> QED
      BY <3>1, <3>2
  <2> QED
    BY ONLY <2>1, <2>2, <2>4, <2>5
<1>6. ASSUME NEW p \in Peers
      PROVE  /\ out'[p] \in Seq(OutMessage)
             /\ \A i, b : Waits(out[p], i, b) \/ b \in ToSet(asked[p]) => Waits(out'[p], i, b)
  <2>1. out'[p] = out[p] \o Items(asked[p])
    BY <1>3
  <2>2. out[p] \in Seq(OutMessage) /\ asked[p] \in Seq(Blocks)
    BY <1>1, <1>4
  <2> QED
    BY ONLY <2>1, <2>2, ItemsFacts
<1>7. conn' \in [Peers -> Connection] /\ out' \in [Peers -> Seq(OutMessage)]
  <2>1. conn' = [p \in Peers |-> conn'[p]] /\ out' = [p \in Peers |-> out'[p]]
    BY <1>3
  <2> QED
    BY ONLY <1>5, <1>6, <2>1
<1>8. Typed'
  <2>1. active' \in SUBSET Blocks
    BY <1>1, <1>3, <1>4
  <2> QED
    BY <1>1, <1>2, <1>7, <2>1 DEF Typed
<1>9. Lists' /\ OneKind' /\ Gone'
  BY <1>1, <1>5 DEF Lists, OneKind, Gone
<1>10. RequestsMatch'
  <2>1. /\ active = denied \cup UNION {conn[q].want : q \in Peers}
        /\ \A q \in Peers : conn[q].want \cap denied = {}
        /\ \A q, r \in Peers : q # r => conn[q].want \cap conn[r].want = {}
    BY <1>1 DEF RequestsMatch
  <2>2. \A q \in Peers : conn'[q].want = conn[q].want \cup ToSet(asked[q])
    BY <1>5
  <2>3. /\ active' = denied' \cup UNION {conn'[q].want : q \in Peers}
        /\ \A q \in Peers : conn'[q].want \cap denied' = {}
    <3>1. active' = active \cup UNION {ToSet(asked[q]) : q \in Peers} /\ denied' = denied
      BY <1>2, <1>3
    <3>2. \A q \in Peers : ToSet(asked[q]) \cap active = {}
      BY ONLY <1>4
    <3> QED
      BY ONLY <2>1, <2>2, <3>1, <3>2
  <2>4. \A q, r \in Peers : q # r => conn'[q].want \cap conn'[r].want = {}
    <3>1. \A q \in Peers : conn[q].want \subseteq active /\ ToSet(asked[q]) \cap active = {}
      BY ONLY <1>4, <2>1
    <3> QED
      BY ONLY <1>4, <2>1, <2>2, <3>1
  <2>5. ASSUME NEW q \in Peers, NEW b \in conn'[q].want PROVE OnTheWay(q, b)'
    <3>1. Waits(out[q], in[q], b) \/ b \in ToSet(asked[q])
      BY <1>1, <2>2, WaitsIs DEF RequestsMatch
    <3>2. Waits(out'[q], in'[q], b)
      BY <1>2, <1>6, <3>1
    <3> QED
      BY <3>2 DEF OnTheWay, Waits
  <2> QED
    BY <2>3, <2>4, <2>5 DEF RequestsMatch
<1>11. SuspensionEnds' /\ Limited'
  BY <1>1, <1>2, CallsKept
<1> QED
  BY <1>8, <1>9, <1>10, <1>11 DEF IndInv

(* A block goes to the delegate: the lists it leads are one shorter.       *)
LEMMA PoppedFacts ==
    ASSUME NEW c \in [Peers -> Connection], \A q \in Peers : Same(conn[q], c[q]), NEW b \in Blocks
    PROVE  /\ Popped(c, b) \in [Peers -> Connection]
           /\ \A q \in Peers : Same(conn[q], Popped(c, b)[q])
<1>1. ASSUME NEW q \in Peers PROVE Same(conn[q], Popped(c, b)[q])
  <2>1. PICK d \in Connection : d = c[q] /\ Same(conn[q], d)
    OBVIOUS
  <2>2. Linked(d.toGet) /\ d.toGet \in Seq(Blocks)
    BY <2>1 DEF Same, Connection
  <2>3. CASE q \in Active(c) /\ d.toGet # <<>> /\ d.toGet[1] = b
    <3>1. PICK x \in Seq(Blocks), y \in SUBSET Blocks :
             x = Tail(d.toGet) /\ Linked(x) /\ y = d.processing \cup {b}
      <4>1. Tail(d.toGet) \in Seq(Blocks) /\ Linked(Tail(d.toGet))
        BY <2>2, <2>3, LinkedTail
      <4>2. d.processing \cup {b} \in SUBSET Blocks
        BY DEF Connection
      <4> QED
        BY ONLY <4>1, <4>2
    <3>2. PICK e : e = [d EXCEPT !.toGet = x]
      OBVIOUS
    <3>3. Same(d, e) /\ e.processing = d.processing
      <4>1. Same(d, [d EXCEPT !.toGet = x])
        BY ONLY <2>2, <3>1, SameFields, d \in Connection, x \in Seq(Blocks)
      <4>2. [d EXCEPT !.toGet = x].processing = d.processing
        BY ONLY d \in Connection DEF Connection
      <4> QED
        BY ONLY <3>2, <4>1, <4>2
    <3>4. e \in Connection /\ Linked(e.toGet)
      BY ONLY <3>3 DEF Same
    <3>5. PICK f : f = [e EXCEPT !.processing = y]
      OBVIOUS
    <3>6. Same(e, f)
      BY ONLY <3>4, <3>5, SameFields, y \in SUBSET Blocks
    <3>7. Popped(c, b)[q] = [d EXCEPT !.toGet = Tail(d.toGet), !.processing = d.processing \cup {b}]
      BY ONLY <2>1, <2>3, q \in Peers DEF Popped
    <3>8. Popped(c, b)[q] = f
      BY ONLY <3>1, <3>2, <3>5, <3>7
    <3> QED
      BY ONLY <2>1, <3>3, <3>6, <3>8, SameTwice
  <2>4. CASE ~(q \in Active(c) /\ d.toGet # <<>> /\ d.toGet[1] = b)
    <3>1. Popped(c, b)[q] = d
      BY ONLY <2>1, <2>4, q \in Peers DEF Popped
    <3> QED
      BY ONLY <2>1, <3>1
  <2> QED
    BY <2>3, <2>4
<1>2. Popped(c, b) = [q \in Peers |-> Popped(c, b)[q]]
  BY DEF Popped
<1>3. \A q \in Peers : Popped(c, b)[q] \in Connection
  BY <1>1 DEF Same
<1> QED
  BY <1>1, <1>2, <1>3

(* A block is taken out of a sequence.                                     *)
LEMMA RemoveAtType ==
    ASSUME NEW s \in Seq(Blocks), NEW n \in 1 .. Len(s)
    PROVE  RemoveAt(s, n) \in Seq(Blocks)
<1>1. PICK l \in Nat : l = Len(s) /\ n \in 1 .. l
  OBVIOUS
<1>2. PICK x \in Seq(Blocks), y \in Seq(Blocks) : x = SubSeq(s, 1, n - 1) /\ y = SubSeq(s, n + 1, Len(s))
  <2>1. SubSeq(s, 1, n - 1) \in Seq(Blocks)
    BY <1>1
  <2>2. SubSeq(s, n + 1, Len(s)) \in Seq(Blocks)
    BY <1>1
  <2> QED
    BY ONLY <2>1, <2>2
<1>3. RemoveAt(s, n) = x \o y
  BY <1>2 DEF RemoveAt
<1> QED
  BY ONLY <1>3, x \in Seq(Blocks), y \in Seq(Blocks)

(* What the loop of process_backlog_of_sync_blocks keeps: it goes on only  *)
(* while the delegate can take another block.                              *)
Loop ==
    {s \in [conn : [Peers -> Connection], received : Seq(Blocks), calls : Seq(Call), stop : BOOLEAN] :
        /\ \A q \in Peers : Same(conn[q], s.conn[q])
        /\ SyncCalls(s.calls) \in Nat /\ SyncCalls(s.calls) <= MaxHandle
        /\ s.stop = FALSE => SyncCalls(s.calls) < MaxHandle}

(* A state of the loop from its parts.                                     *)
LEMMA LoopIs ==
    ASSUME NEW c \in [Peers -> Connection], NEW r \in Seq(Blocks), NEW k \in Seq(Call), NEW t \in BOOLEAN,
           \A q \in Peers : Same(conn[q], c[q]),
           SyncCalls(k) \in Nat, SyncCalls(k) <= MaxHandle, t = FALSE => SyncCalls(k) < MaxHandle
    PROVE  [conn |-> c, received |-> r, calls |-> k, stop |-> t] \in Loop
<1>1. PICK s : s = [conn |-> c, received |-> r, calls |-> k, stop |-> t]
  OBVIOUS
<1>2. /\ s \in [conn : [Peers -> Connection], received : Seq(Blocks), calls : Seq(Call), stop : BOOLEAN]
      /\ s.conn = c /\ s.calls = k /\ s.stop = t
  BY ONLY <1>1, c \in [Peers -> Connection], r \in Seq(Blocks), k \in Seq(Call), t \in BOOLEAN
<1>3. s \in Loop
  BY <1>2 DEF Loop
<1> QED
  BY ONLY <1>1, <1>3

(* One turn of it.                                                         *)
LEMMA TurnFacts ==
    ASSUME NEW s \in Loop
    PROVE  Turn(s) \in Loop
<1>1. PICK c \in [Peers -> Connection], r \in Seq(Blocks), k \in Seq(Call), t \in BOOLEAN :
         /\ c = s.conn /\ r = s.received /\ k = s.calls /\ t = s.stop
         /\ s = [conn |-> c, received |-> r, calls |-> k, stop |-> t]
  BY DEF Loop
<1>2. /\ \A q \in Peers : Same(conn[q], c[q])
      /\ SyncCalls(k) \in Nat /\ SyncCalls(k) <= MaxHandle
      /\ t = FALSE => SyncCalls(k) < MaxHandle
  BY <1>1 DEF Loop
<1> DEFINE I == {i \in 1 .. Len(r) : IsNext(c, r[i])}
           n == SelectInSeq(r, LAMBDA b : IsNext(c, b))
           b == r[n]
           a == [block |-> b, sync |-> TRUE, from |-> Genesis, result |-> "waits"]
           more == Append(k, a)
<1>3. n = IF I # {} THEN Min(I) ELSE 0
  BY DEF SelectInSeq
<1>4. n = 0 \/ n \in 1 .. Len(r)
  <2>1. I \in SUBSET Nat /\ I \subseteq 1 .. Len(r)
    OBVIOUS
  <2> HIDE DEF I, n
  <2>2. CASE I = {}
    BY <1>3, <2>2
  <2>3. CASE I # {}
    <3>1. Min(I) \in I
      BY <2>1, <2>3, MinIsLeast
    <3> QED
      BY <1>3, <2>1, <2>3, <3>1
  <2> QED
    BY <2>2, <2>3
<1>5. Turn(s) = IF t \/ n = 0 THEN [s EXCEPT !.stop = TRUE]
                ELSE IF b \in accepted THEN [s EXCEPT !.conn = Popped(c, b), !.stop = TRUE]
                ELSE [conn |-> Popped(c, b), received |-> RemoveAt(r, n), calls |-> more,
                      stop |-> SyncCalls(more) >= MaxHandle]
  BY <1>1 DEF Turn
<1> HIDE DEF n
<1>6. CASE t \/ n = 0
  <2>1. Turn(s) = [conn |-> c, received |-> r, calls |-> k, stop |-> TRUE]
    BY ONLY <1>1, <1>5, <1>6
  <2> QED
    BY ONLY <1>2, <2>1, LoopIs, c \in [Peers -> Connection], r \in Seq(Blocks), k \in Seq(Call)
<1>7. CASE ~(t \/ n = 0)
  <2>1. n \in 1 .. Len(r) /\ b \in Blocks
    BY <1>4, <1>7
  <2> HIDE DEF b
  <2>2. PICK d \in [Peers -> Connection] : d = Popped(c, b) /\ \A q \in Peers : Same(conn[q], d[q])
    BY <1>2, <2>1, PoppedFacts
  <2>3. CASE b \in accepted
    <3>1. Turn(s) = [conn |-> d, received |-> r, calls |-> k, stop |-> TRUE]
      BY ONLY <1>1, <1>5, <1>7, <2>2, <2>3
    <3> QED
      BY ONLY <1>2, <2>2, <3>1, LoopIs, d \in [Peers -> Connection], r \in Seq(Blocks), k \in Seq(Call)
  <2>4. CASE b \notin accepted
    <3>1. PICK x \in Seq(Blocks) : x = RemoveAt(r, n)
      BY <2>1, RemoveAtType
    <3>2. a \in Call /\ a.sync = TRUE
      BY <2>1 DEF Call
    <3> HIDE DEF a
    <3>3. more \in Seq(Call) /\ SyncCalls(more) = SyncCalls(k) + 1
      BY <3>2, CallAdded
    <3> HIDE DEF more
    <3>4. t = FALSE /\ MaxHandle \in Nat
      BY <1>7, SyncAssumption
    <3>5. SyncCalls(more) \in Nat /\ SyncCalls(more) <= MaxHandle
      BY ONLY <1>2, <3>3, <3>4
    <3>6. Turn(s) = [conn |-> d, received |-> x, calls |-> more, stop |-> SyncCalls(more) >= MaxHandle]
      BY ONLY <1>5, <1>7, <2>2, <2>4, <3>1
    <3>7. PICK u \in BOOLEAN : /\ u = (SyncCalls(more) >= MaxHandle)
                               /\ u = FALSE => SyncCalls(more) < MaxHandle
      <4>1. CASE SyncCalls(more) >= MaxHandle
        BY ONLY <4>1
      <4>2. CASE ~(SyncCalls(more) >= MaxHandle)
        <5>1. SyncCalls(more) < MaxHandle
          BY ONLY <3>4, <3>5, <4>2
        <5>2. FALSE = (SyncCalls(more) >= MaxHandle) /\ FALSE \in BOOLEAN
          BY ONLY <4>2
        <5> QED
          BY ONLY <5>1, <5>2, Zenon
      <4> QED
        BY <4>1, <4>2
    <3>8. Turn(s) = [conn |-> d, received |-> x, calls |-> more, stop |-> u]
      BY ONLY <3>6, <3>7
    <3> QED
      BY ONLY <2>2, <3>3, <3>5, <3>7, <3>8, LoopIs, d \in [Peers -> Connection], x \in Seq(Blocks), u \in BOOLEAN
  <2> QED
    BY <2>3, <2>4
<1> QED
  BY <1>6, <1>7

(* What every turn keeps holds after the whole of it.                      *)
LEMMA BacklogKeeps ==
    ASSUME IndInv, NEW L,
           [conn |-> conn, received |-> fresh \o received, calls |-> calls, stop |-> FALSE] \in L,
           \A s \in L : Turn(s) \in L
    PROVE  Backlog \in L
<1> DEFINE all == fresh \o received
           n == Len(all)
           none == [conn |-> conn, received |-> all, calls |-> calls, stop |-> FALSE]
           step == [x \in (1 .. n) \X L |-> Turn(x[2])]
           Step(g) == g = [i \in 0 .. n |->
                              IF i = 0 THEN [conn |-> conn, received |-> all, calls |-> calls, stop |-> FALSE]
                              ELSE Turn(g[i - 1])]
           after == CHOOSE g : Step(g)
<1>1. received \in Seq(Blocks) /\ fresh \in Seq(Blocks)
  BY Parts
<1>2. all \in Seq(Blocks) /\ n \in Nat
  BY <1>1
<1>3. Backlog = after[n]
  BY DEF Backlog
<1>4. none \in L /\ \A s \in L : Turn(s) \in L
  OBVIOUS
<1> HIDE DEF n, all, none
<1>5. step \in Steps(n, L)
  BY <1>4 DEF Steps
<1>6. \A i \in 1 .. n : \A s \in L : step[<<i, s>>] = Turn(s)
  OBVIOUS
<1> HIDE DEF step
<1>7. PICK f \in [0 .. n -> L] : f[0] = none /\ \A i \in 1 .. n : f[i] = step[<<i, f[i - 1]>>]
  <2>1. PICK f : Iteration(n, L, none, step, f)
    BY ONLY <1>2, <1>4, <1>5, IterateExists
  <2> QED
    BY ONLY <2>1 DEF Iteration
<1>8. \A i \in 1 .. n : f[i] = Turn(f[i - 1])
  <2>1. \A i \in 1 .. n : i - 1 \in 0 .. n
    BY <1>2
  <2> QED
    BY <1>6, <1>7, <2>1
<1>9. Step(f)
  <2>1. \A i \in 0 .. n : f[i] = IF i = 0 THEN none ELSE Turn(f[i - 1])
    <3>1. \A i \in 0 .. n : i = 0 \/ i \in 1 .. n
      BY <1>2
    <3>2. \A i \in 1 .. n : i # 0
      OBVIOUS
    <3> QED
      BY ONLY <1>7, <1>8, <3>1, <3>2
  <2>2. f = [i \in 0 .. n |-> IF i = 0 THEN none ELSE Turn(f[i - 1])]
    BY ONLY <2>1, f \in [0 .. n -> L]
  <2> QED
    BY ONLY <2>2 DEF none
<1>10. Step(after)
  <2> HIDE DEF Step
  <2> QED
    BY <1>9
<1> HIDE DEF after
<1>11. after[0] = none /\ \A i \in 1 .. n : after[i] = Turn(after[i - 1])
  <2>1. 0 \in 0 .. n /\ \A i \in 1 .. n : i \in 0 .. n /\ i # 0
    BY <1>2
  <2> QED
    BY ONLY <1>10, <2>1 DEF none
<1>12. \A i \in 0 .. n : after[i] \in L
  <2>1. after[0] \in L
    BY <1>4, <1>11
  <2>2. \A i \in 1 .. n : after[i - 1] \in L => after[i] \in L
    BY ONLY <1>4, <1>11
  <2> QED
    BY ONLY <1>2, <2>1, <2>2, IterateKeeps
<1>13. n \in 0 .. n
  BY <1>2
<1> QED
  BY ONLY <1>3, <1>12, <1>13

(* It begins if the delegate can take a block.                             *)
LEMMA BacklogStarts ==
    ASSUME IndInv, ~(SyncCalls(calls) >= MaxHandle)
    PROVE  [conn |-> conn, received |-> fresh \o received, calls |-> calls, stop |-> FALSE] \in Loop
<1>1. /\ conn \in [Peers -> Connection] /\ calls \in Seq(Call) /\ received \in Seq(Blocks)
      /\ fresh \in Seq(Blocks) /\ Limited /\ \A q \in Peers : Linked(conn[q].toGet)
  BY Parts DEF Lists
<1>2. PICK all \in Seq(Blocks) : all = fresh \o received
  <2>1. fresh \o received \in Seq(Blocks)
    BY ONLY <1>1
  <2> QED
    BY ONLY <2>1
<1>3. \A q \in Peers : Same(conn[q], conn[q])
  BY <1>1, SameFields
<1>4. SyncCalls(calls) \in Nat /\ SyncCalls(calls) <= MaxHandle /\ SyncCalls(calls) < MaxHandle
  <2>1. SyncCalls(calls) \in Nat /\ SyncCalls(calls) <= MaxHandle
    BY <1>1 DEF Limited
  <2>2. MaxHandle \in Nat
    BY SyncAssumption
  <2> QED
    BY <2>1, <2>2
<1>5. FALSE \in BOOLEAN
  OBVIOUS
<1>6. [conn |-> conn, received |-> all, calls |-> calls, stop |-> FALSE] \in Loop
  BY ONLY <1>1, <1>3, <1>4, <1>5, LoopIs, all \in Seq(Blocks)
<1> QED
  BY ONLY <1>2, <1>6

(* It keeps the types and the limit.                                       *)
LEMMA BacklogFacts ==
    ASSUME IndInv, ~(SyncCalls(calls) >= MaxHandle)
    PROVE  Backlog \in Loop
<1>1. PICK L : L = Loop
  OBVIOUS
<1>2. [conn |-> conn, received |-> fresh \o received, calls |-> calls, stop |-> FALSE] \in L
  BY <1>1, BacklogStarts
<1>3. \A s \in L : Turn(s) \in L
  BY <1>1, TurnFacts
<1> QED
  BY ONLY <1>1, <1>2, <1>3, IndInv, BacklogKeeps

(* process_backlog_of_sync_blocks.                                         *)
LEMMA ProcessBacklogPreserves ==
    ASSUME IndInv, ProcessBacklog
    PROVE  IndInv'
<1>1. /\ conn \in [Peers -> Connection] /\ calls \in Seq(Call) /\ Typed /\ SuspensionEnds /\ Limited
      /\ wake \in SUBSET {"sync", "items", "backlog"} /\ \A q \in Peers : Linked(conn[q].toGet)
  BY Parts DEF Lists
<1>2. UNCHANGED <<known, head, active, items, out, in, peerHead, denied>>
  BY DEF ProcessBacklog, peerVars
<1>3. /\ conn' = [q \in Peers |-> conn'[q]] /\ \A q \in Peers : Same(conn[q], conn'[q])
      /\ calls' \in Seq(Call) /\ received' \in Seq(Blocks) /\ fresh' \in Seq(Blocks)
      /\ wake' \in SUBSET {"sync", "items", "backlog"}
      /\ SuspensionEnds' /\ Limited'
  <2>1. CASE SyncCalls(calls) >= MaxHandle
    <3>1. wake' = wake \ {"backlog"} /\ UNCHANGED <<conn, received, fresh, calls, suspended>>
      BY <2>1 DEF ProcessBacklog
    <3>2. \E i \in DOMAIN calls : calls[i].sync
      BY <1>1, <2>1, CallExists
    <3>3. \A q \in Peers : Same(conn[q], conn[q])
      BY <1>1, SameFields
    <3>4. SuspensionEnds' /\ Limited'
      BY <1>1, <3>1, <3>2 DEF SuspensionEnds, Limited, SyncCalls
    <3> QED
      BY <1>1, <3>1, <3>3, <3>4 DEF Typed
  <2>2. CASE ~(SyncCalls(calls) >= MaxHandle)
    <3>1. PICK s \in Loop : s = Backlog
      BY <2>2, BacklogFacts
    <3>2. /\ conn' = s.conn /\ received' = s.received /\ fresh' = <<>> /\ calls' = s.calls
          /\ suspended' = (SyncCalls(s.calls) >= MaxHandle /\ Len(s.received) >= MaxReceived)
          /\ wake' \in SUBSET {"sync", "items", "backlog"}
      <4>1. /\ conn' = s.conn /\ received' = s.received /\ fresh' = <<>> /\ calls' = s.calls
            /\ suspended' = (SyncCalls(s.calls) >= MaxHandle /\ Len(s.received) >= MaxReceived)
        BY <2>2, <3>1 DEF ProcessBacklog
      <4>2. wake' = (wake \ {"backlog"}) \cup
                    IF SyncCalls(s.calls) >= MaxHandle /\ Len(s.received) >= MaxReceived THEN {} ELSE {"sync"}
        BY <2>2, <3>1 DEF ProcessBacklog
      <4> QED
        BY <1>1, <4>1, <4>2
    <3>3. /\ s.conn \in [Peers -> Connection] /\ s.received \in Seq(Blocks) /\ s.calls \in Seq(Call)
          /\ \A q \in Peers : Same(conn[q], s.conn[q])
          /\ SyncCalls(s.calls) \in Nat /\ SyncCalls(s.calls) <= MaxHandle
      BY DEF Loop
    <3>4. Limited'
      <4>1. SyncCalls(calls)' = SyncCalls(s.calls)
        BY <3>2 DEF SyncCalls
      <4> QED
        BY <3>3, <4>1 DEF Limited
    <3>5. SuspensionEnds'
      <4>1. CASE suspended'
        <5>1. SyncCalls(s.calls) >= MaxHandle
          BY <3>2, <4>1
        <5>2. \E i \in DOMAIN s.calls : s.calls[i].sync
          BY <3>3, <5>1, CallExists
        <5> QED
          BY ONLY <3>2, <5>2 DEF SuspensionEnds
      <4>2. CASE ~suspended'
        BY <4>2 DEF SuspensionEnds
      <4> QED
        BY <4>1, <4>2
    <3>6. <<>> \in Seq(Blocks)
      OBVIOUS
    <3> QED
      BY ONLY <3>2, <3>3, <3>4, <3>5, <3>6
  <2> QED
    BY <2>1, <2>2
<1>4. /\ known' \in SUBSET Blocks /\ head' \in known' \cup {Genesis} /\ items' \in SUBSET Blocks
      /\ in' \in [Peers -> Seq(InMessage)] /\ out' \in [Peers -> Seq(OutMessage)]
      /\ in' = in /\ out' = out /\ active' = active /\ denied' = denied /\ peerHead' = peerHead
  BY <1>1, <1>2 DEF Typed
<1> QED
  BY <1>3, <1>4, ConnectionsReplaced
-----------------------------------------------------------------------------
(* Every step keeps the invariant.                                         *)
LEMMA NextInv == IndInv /\ [Next]_vars => IndInv'
<1> SUFFICES ASSUME IndInv, [Next]_vars PROVE IndInv'
  OBVIOUS
<1>1. CASE Node
  BY <1>1, FetchSyncItemsPreserves, FetchItemsPreserves, ProcessBacklogPreserves,
     DelegateHandlesPreserves DEF Node
<1>2. CASE Returns
  BY <1>2, SyncAcceptedPreserves, SyncRejectedPreserves, NormalAcceptedPreserves,
     NormalUnlinkablePreserves, NormalRejectedPreserves DEF Returns
<1>3. ASSUME NEW p \in Peers, Handles(p) PROVE IndInv'
  BY <1>3, OnIdsPreserves, OnSynopsisPreserves, OnInventoryPreserves, OnBlockPreserves,
        OnMissingPreserves DEF Handles
<1>4. ASSUME NEW p \in Peers, PeerReplies(p) \/ PeerAdvances(p) PROVE IndInv'
  BY <1>4, PeerRepliesPreserves, PeerAdvancesPreserves
<1>5. ASSUME NEW p \in Peers, ClosingEnds(p) \/ ConnectionLost(p) PROVE IndInv'
  <2>1. Closed(p, "closed") \/ Closed(p, "dropped")
    BY <1>5 DEF ClosingEnds, ConnectionLost
  <2> QED
    BY <2>1, ClosedPreserves
<1>6. ASSUME NEW p \in Peers, Reconnect(p) PROVE IndInv'
  BY <1>6, ReconnectPreserves
<1>7. CASE UNCHANGED vars
  <2>1. Typed' /\ Lists' /\ OneKind' /\ Gone'
    BY <1>7 DEF vars, IndInv, Typed, Lists, OneKind, Gone
  <2>2. RequestsMatch'
    BY <1>7 DEF vars, IndInv, RequestsMatch, OnTheWay
  <2>3. SuspensionEnds' /\ Limited'
    BY <1>7 DEF vars, IndInv, SuspensionEnds, Limited, SyncCalls
  <2> QED
    BY <2>1, <2>2, <2>3 DEF IndInv
<1> QED
  BY <1>1, <1>2, <1>3, <1>4, <1>5, <1>6, <1>7 DEF Next

(* The invariant holds at all times, whatever the peers answer, also that  *)
(* they lack a block they listed.                                          *)
THEOREM Invariance == Spec => []IndInv
BY InitInv, NextInv, PTL DEF Spec

(* The delegate never has more sync blocks than                            *)
(* _maximum_number_of_blocks_to_handle_at_one_time, whatever order blocks, *)
(* returns of handle_block and lost connections come in, and every list of *)
(* a connection holds blocks only.                                         *)
THEOREM TypeCorrectness == Spec => []TypeOK
<1>1. IndInv => TypeOK
  <2> SUFFICES ASSUME IndInv PROVE TypeOK
    OBVIOUS
  <2>1. /\ Limited /\ known \in SUBSET Blocks /\ head \in known \cup {Genesis} /\ calls \in Seq(Call)
        /\ conn \in [Peers -> Connection] /\ active \in SUBSET Blocks /\ items \in SUBSET Blocks
        /\ received \in Seq(Blocks) /\ fresh \in Seq(Blocks)
        /\ wake \in SUBSET {"sync", "items", "backlog"}
    BY Parts
  <2>2. ToSet(received \o fresh) \subseteq Blocks
    <3>0. received \o fresh \in Seq(Blocks)
      BY <2>1
    <3>1. PICK s \in Seq(Blocks) : s = received \o fresh
      BY ONLY <3>0
    <3>2. \A i \in DOMAIN s : s[i] \in Blocks
      OBVIOUS
    <3> QED
      BY <3>1, <3>2 DEF ToSet
  <2>3. \A i \in DOMAIN calls : calls[i].block \in Blocks
    <3>1. \A i \in DOMAIN calls : calls[i] \in Call
      BY <2>1
    <3> QED
      BY <3>1 DEF Call
  <2>4. ASSUME NEW p \in Peers
        PROVE  /\ conn[p].st \in {"active", "closing", "failed", "closed", "dropped"}
               /\ ToSet(conn[p].toGet) \cup conn[p].processing \cup conn[p].want \subseteq Blocks
               /\ conn[p].seen \in Blocks \cup {Genesis}
               /\ conn[p].asked # NotAsked => ToSet(conn[p].asked) \subseteq Blocks
    <3>1. PICK c \in Connection : c = conn[p]
      BY <2>1
    <3>2. /\ c.st \in States /\ c.toGet \in Seq(Blocks) /\ c.processing \in SUBSET Blocks
          /\ c.want \in SUBSET Blocks /\ c.seen \in Ids
          /\ c.asked # NotAsked => c.asked \in Seq(Blocks)
      BY DEF Connection
    <3>3. \A s \in Seq(Blocks) : ToSet(s) \subseteq Blocks
      BY DEF ToSet
    <3> QED
      BY <3>1, <3>2, <3>3 DEF States, Ids
  <2> QED
    BY <2>1, <2>2, <2>3, <2>4 DEF TypeOK, Limited
<1> QED
  BY <1>1, Invariance, PTL

(* Requests and answers agree whatever connections are lost, refused and   *)
(* made again: _active_sync_requests holds exactly the blocks that one     *)
(* connection waits for and those that on_item_not_available_message left  *)
(* there.  No two connections wait for the same one, none for one that is  *)
(* left there, and the answer to each request is on its way.               *)
THEOREM RequestsAgree == Spec => []RequestsMatch
<1>1. IndInv => RequestsMatch
  BY DEF IndInv
<1> QED
  BY <1>1, Invariance, PTL

(* A suspension of fetching never outlives what ends it: while the flag    *)
(* _suspend_fetching_sync_blocks is set, a call of the delegate is under   *)
(* way or the backlog is to be looked at.                                  *)
THEOREM SuspensionIsLeft == Spec => []SuspensionEnds
<1>1. IndInv => SuspensionEnds
  BY DEF IndInv
<1> QED
  BY <1>1, Invariance, PTL

(* The ids still to get from a peer form a chain after every reply, pop    *)
(* and restart, even if the peer changed forks between two replies.        *)
THEOREM ListsAreChains == Spec => []ListsFollow
<1>1. IndInv => ListsFollow
  BY DEF IndInv, Lists, Linked, ListsFollow, Active
<1> QED
  BY <1>1, Invariance, PTL
-----------------------------------------------------------------------------
(***************************************************************************)
(* The order in which blocks go to the delegate.  A block is tainted if    *)
(* its chain holds an invalid block.  A block is sure if it needs no more  *)
(* care: the delegate has it or will have it before any block that is      *)
(* handed over from now on, or it is tainted.                              *)
(***************************************************************************)
Tainted(b) == ToSet(ChainTo[b]) \cap Invalid # {}

UnderWay(cs, b) == \E i \in DOMAIN cs : cs[i].sync /\ cs[i].result = "waits" /\ cs[i].block = b

Sure(k, cs, b) == b \in k \cup {Genesis} \/ UnderWay(cs, b) \/ Tainted(b)

(* The first id of a list may be handed over.                              *)
Leads(k, cs, s) == s # <<>> => Tainted(s[1]) \/ Sure(k, cs, Parent[s[1]])

(* It may for a connection; and what a reply may begin with, a block of    *)
(* the synopsis, is sure or still in the list.                             *)
Follows(k, cs, c) ==
    c.st = "active" =>
       /\ Leads(k, cs, c.toGet)
       /\ c.asked # NotAsked => \A i \in DOMAIN c.asked :
             Sure(k, cs, c.asked[i]) \/ \E j \in DOMAIN c.toGet : c.toGet[j] = c.asked[i]
       /\ c.asked = <<>> => c.toGet = <<>>

(* A call that waits finds the parent of its block when its turn comes.    *)
InTurn(k, cs, i) ==
    \/ Tainted(cs[i].block)
    \/ Parent[cs[i].block] \in k \cup {Genesis}
    \/ \E j \in 1 .. i - 1 :
          cs[j].sync /\ cs[j].result = "waits" /\ cs[j].block = Parent[cs[i].block]

CallsFollow(k, cs) ==
    \A i \in DOMAIN cs :
       /\ cs[i].result = "accepted" => cs[i].block \in k
       /\ cs[i].sync /\ cs[i].result = "unlinkable" => Tainted(cs[i].block)
       /\ cs[i].sync /\ cs[i].result = "waits" => InTurn(k, cs, i)

KnownFollow(k) == \A b \in k : Parent[b] \in k \cup {Genesis}

InOrder ==
    /\ KnownFollow(known)
    /\ accepted \subseteq known \cup {Genesis}
    /\ CallsFollow(known, calls)
    /\ \A p \in Peers : Follows(known, calls, conn[p])

(* A block is tainted by its parent and by itself.                         *)
LEMMA TaintedFacts ==
    ASSUME NEW b \in Blocks
    PROVE  /\ Tainted(Parent[b]) => Tainted(b)
           /\ b \in Invalid => Tainted(b)
<1>1. b \in Ids /\ Parent[b] \in Ids
  BY SyncAssumption DEF Ids
<1>2. PICK c : c = ChainTo[Parent[b]] /\ IsChain(c, Parent[b])
  BY <1>1, ChainFacts
<1>3. ChainTo[b] = Append(c, b)
  BY <1>1, <1>2, ChainFacts, ChainLonger, ChainUnique
<1>4. c \in Seq(Blocks)
  BY <1>2 DEF IsChain
<1>5. /\ \A i \in DOMAIN c : i \in DOMAIN Append(c, b) /\ Append(c, b)[i] = c[i]
      /\ Len(c) + 1 \in DOMAIN Append(c, b) /\ Append(c, b)[Len(c) + 1] = b
  BY <1>4
<1> QED
  BY <1>2, <1>3, <1>5 DEF Tainted, ToSet

(* A first block has no parent.                                            *)
LEMMA FirstBlock ==
    ASSUME NEW b \in Blocks, Number(b) = 1
    PROVE  Parent[b] = Genesis
<1>1. b \in Ids /\ b # Genesis
  BY SyncAssumption DEF Ids
<1>2. IsChain(ChainTo[b], b) /\ Len(ChainTo[b]) = 1
  BY <1>1, ChainFacts DEF Number
<1> QED
  BY <1>1, <1>2 DEF IsChain

(* The delegate has the whole chain of each block it has.                  *)
LEMMA KnownChain ==
    ASSUME NEW k \in SUBSET Blocks, KnownFollow(k), NEW b \in k \cup {Genesis}
    PROVE  \A i \in DOMAIN ChainTo[b] : ChainTo[b][i] \in k
<1> DEFINE Whole(x) == \A i \in DOMAIN ChainTo[x] : ChainTo[x][i] \in k
           Bad == {x \in k : ~Whole(x)}
<1>1. Whole(Genesis)
  <2>1. ChainTo[Genesis] = <<>>
    BY ChainFacts DEF Ids, IsChain
  <2> QED
    BY <2>1
<1>2. ASSUME NEW x \in k, Whole(Parent[x]) PROVE Whole(x)
  <2>1. x \in Ids /\ Parent[x] \in Ids /\ x \in Blocks
    BY SyncAssumption DEF Ids
  <2>2. PICK c : c = ChainTo[Parent[x]] /\ IsChain(c, Parent[x])
    BY <2>1, ChainFacts
  <2>3. ChainTo[x] = Append(c, x)
    BY <2>1, <2>2, ChainFacts, ChainLonger, ChainUnique
  <2>4. c \in Seq(Blocks) /\ \A i \in DOMAIN c : c[i] \in k
    BY <1>2, <2>2 DEF IsChain
  <2>5. \A i \in DOMAIN Append(c, x) : Append(c, x)[i] \in k
    BY ONLY <2>4, x \in k
  <2> QED
    BY ONLY <2>3, <2>5
<1>3. ASSUME Bad # {} PROVE FALSE
  <2>1. Bad \in SUBSET Blocks
    OBVIOUS
  <2>2. PICK x \in Bad : Parent[x] \notin Bad
    <3> HIDE DEF Bad
    <3> QED
      BY <1>3, <2>1, TreeAssumption
  <2>3. x \in k /\ ~Whole(x) /\ Parent[x] \in k \cup {Genesis}
    <3> HIDE DEF Whole
    <3> QED
      BY <2>2 DEF KnownFollow
  <2>4. Whole(Parent[x])
    <3> HIDE DEF Whole
    <3> QED
      BY <1>1, <2>2, <2>3
  <2> HIDE DEF Whole
  <2> QED
    BY ONLY <1>2, <2>3, <2>4
<1> HIDE DEF Whole
<1>4. Whole(b)
  BY <1>1, <1>3
<1> QED
  BY <1>4 DEF Whole

(* A block of a synopsis is in the chain of the delegate or still to get.  *)
LEMMA SynopsisFacts ==
    ASSUME NEW k \in SUBSET Blocks, KnownFollow(k), NEW h \in k \cup {Genesis},
           NEW c \in Connection, c.seen \in k \cup {Genesis}
    PROVE  /\ \A i \in DOMAIN create_blockchain_synopsis(h, c) :
                 \/ create_blockchain_synopsis(h, c)[i] \in k
                 \/ \E j \in DOMAIN c.toGet : c.toGet[j] = create_blockchain_synopsis(h, c)[i]
           /\ c.toGet # <<>> => create_blockchain_synopsis(h, c) # <<>>
<1>1. c.toGet \in Seq(Blocks) /\ c.seen \in Ids /\ Len(c.toGet) \in Nat /\ h \in Ids
  BY DEF Connection, Ids
<1>2. PICK s \in Seq(Blocks) : /\ s = get_blockchain_synopsis(h, c.seen, Len(c.toGet))
                               /\ \A i \in DOMAIN s : s[i] \in k
  <2>1. PICK b \in k \cup {Genesis} : b = IF c.seen = Genesis THEN h ELSE c.seen
    OBVIOUS
  <2>2. PICK d : d = ChainTo[b] /\ d \in Seq(Blocks) /\ Len(d) \in Nat /\ \A i \in DOMAIN d : d[i] \in k
    <3>1. b \in Ids
      BY DEF Ids
    <3> QED
      BY <3>1, ChainFacts, KnownChain DEF IsChain
  <2>3. PICK r \in Seq(1 .. Len(d)) : r = Rungs(Len(d) + Len(c.toGet), 1 .. Len(d))
    <3>1. PICK l \in Nat, m \in Nat : l = Len(d) /\ m = Len(c.toGet)
      BY <1>1, <2>2
    <3>2. l + m \in Nat
      BY ONLY l \in Nat, m \in Nat
    <3>3. Rungs(l + m, 1 .. l) \in Seq(1 .. l)
      BY ONLY <3>2, RungsType
    <3> QED
      BY ONLY <3>1, <3>3
  <2>4. get_blockchain_synopsis(h, c.seen, Len(c.toGet)) = [i \in DOMAIN r |-> d[r[i]]]
    BY <2>1, <2>2, <2>3 DEF get_blockchain_synopsis
  <2>5. \A i \in DOMAIN r : r[i] \in 1 .. Len(d)
    BY ONLY r \in Seq(1 .. Len(d)), ElementType
  <2>6. \A i \in DOMAIN r : d[r[i]] \in k
    BY ONLY <2>2, <2>5
  <2>7. get_blockchain_synopsis(h, c.seen, Len(c.toGet)) \in Seq(Blocks)
    BY <1>1, DelegateSynopsisType
  <2> QED
    BY ONLY <2>4, <2>6, <2>7
<1> DEFINE first == Number(c.toGet[1])
           last  == first + Len(c.toGet) - 1
           r     == Rungs(last, first .. last)
           rest  == [i \in DOMAIN r |-> c.toGet[r[i] - first + 1]]
<1>3. create_blockchain_synopsis(h, c) = s \o IF c.toGet = <<>> THEN <<>> ELSE rest
  BY <1>2 DEF create_blockchain_synopsis
<1>4. CASE c.toGet = <<>>
  <2>1. create_blockchain_synopsis(h, c) = s
    <3> HIDE DEF rest
    <3> QED
      BY <1>3, <1>4
  <2> QED
    BY ONLY <1>2, <1>4, <2>1
<1>5. CASE c.toGet # <<>>
  <2>1. c.toGet[1] \in Blocks /\ Len(c.toGet) >= 1
    BY <1>1, <1>5
  <2>2. first \in Nat /\ first >= 1
    BY <2>1, NumberType
  <2> HIDE DEF first
  <2>3. last \in Nat /\ last >= 1 /\ last \in first .. last
    BY ONLY <1>1, <2>1, <2>2
  <2>4. r \in Seq(first .. last) /\ r # <<>>
    BY <2>3, RungsType, RungsReach
  <2> HIDE DEF r
  <2>5. PICK n \in Nat : DOMAIN r = 1 .. n /\ n >= 1
    BY <2>4
  <2>6. \A i \in 1 .. n : r[i] - first + 1 \in 1 .. Len(c.toGet)
    <3>1. SUFFICES ASSUME NEW i \in 1 .. n PROVE r[i] - first + 1 \in 1 .. Len(c.toGet)
      OBVIOUS
    <3>2. r[i] \in first .. last
      <4> HIDE DEF last
      <4>1. i \in DOMAIN r
        BY ONLY <2>5, i \in 1 .. n
      <4> QED
        BY ONLY <2>4, <4>1, ElementType
    <3> QED
      BY ONLY <1>1, <2>2, <3>2
  <2>7. DOMAIN c.toGet = 1 .. Len(c.toGet)
    BY <1>1
  <2>8. PICK u \in Seq(Blocks) : /\ u = rest /\ u # <<>>
                                 /\ \A i \in DOMAIN u : \E j \in DOMAIN c.toGet : c.toGet[j] = u[i]
    <3>1. \A i \in 1 .. n : c.toGet[r[i] - first + 1] \in Blocks
      BY ONLY <1>1, <2>6
    <3>2. rest \in Seq(Blocks) /\ Len(rest) = n
      BY ONLY <2>5, <3>1
    <3>3. \A i \in DOMAIN rest : \E j \in DOMAIN c.toGet : c.toGet[j] = rest[i]
      BY ONLY <2>5, <2>6, <2>7
    <3> HIDE DEF rest
    <3>4. rest # <<>>
      BY ONLY <2>5, <3>2
    <3> QED
      BY ONLY <3>2, <3>3, <3>4
  <2>9. create_blockchain_synopsis(h, c) = s \o u
    <3> HIDE DEF rest
    <3> QED
      BY ONLY <1>3, <1>5, <2>8
  <2>10. \A i \in DOMAIN (s \o u) : (\E j \in DOMAIN s : (s \o u)[i] = s[j])
                                    \/ (\E j \in DOMAIN u : (s \o u)[i] = u[j])
    <3>1. SUFFICES ASSUME NEW i \in DOMAIN (s \o u)
                   PROVE  (\E j \in DOMAIN s : (s \o u)[i] = s[j])
                          \/ (\E j \in DOMAIN u : (s \o u)[i] = u[j])
      OBVIOUS
    <3>2. CASE i <= Len(s)
      BY ONLY <3>2, s \in Seq(Blocks), u \in Seq(Blocks), i \in DOMAIN (s \o u)
    <3>3. CASE ~(i <= Len(s))
      <4>1. i - Len(s) \in DOMAIN u /\ (s \o u)[i] = u[i - Len(s)]
        BY ONLY <3>3, s \in Seq(Blocks), u \in Seq(Blocks), i \in DOMAIN (s \o u)
      <4> QED
        BY ONLY <4>1
    <3> QED
      BY <3>2, <3>3
  <2>11. s \o u # <<>>
    <3>1. Len(s \o u) = Len(s) + Len(u) /\ Len(u) >= 1 /\ Len(s) >= 0
      BY ONLY <2>8, s \in Seq(Blocks), u \in Seq(Blocks)
    <3> QED
      BY ONLY <3>1
  <2> QED
    BY ONLY <1>2, <2>8, <2>9, <2>10, <2>11
<1> QED
  BY <1>4, <1>5

(* Asking for ids: the synopsis is of blocks the delegate has and of the   *)
(* list, which is kept.                                                    *)
LEMMA AskIdsFollows ==
    ASSUME IndInv, KnownFollow(known), NEW cs, NEW c \in Connection,
           c.st = "active" => Leads(known, cs, c.toGet)
    PROVE  Follows(known, cs, AskIds(head, c))
<1>1. known \in SUBSET Blocks /\ head \in known \cup {Genesis}
  BY Parts
<1>2. CASE c.seen \in known \cup {Genesis}
  <2>1. PICK s : s = create_blockchain_synopsis(head, c)
    OBVIOUS
  <2>2. /\ \A i \in DOMAIN s : s[i] \in known \/ \E j \in DOMAIN c.toGet : c.toGet[j] = s[i]
        /\ c.toGet # <<>> => s # <<>>
    BY ONLY <1>1, <1>2, <2>1, KnownFollow(known), c \in Connection, SynopsisFacts
  <2>3. AskIds(head, c) = [c EXCEPT !.asked = s]
    BY <1>2, <2>1 DEF AskIds
  <2>4. PICK d : d = [c EXCEPT !.asked = s] /\ d.asked = s /\ d.toGet = c.toGet /\ d.st = c.st
    <3>1. /\ [c EXCEPT !.asked = s].asked = s /\ [c EXCEPT !.asked = s].toGet = c.toGet
          /\ [c EXCEPT !.asked = s].st = c.st
      BY ONLY c \in Connection DEF Connection
    <3> QED
      BY ONLY <3>1
  <2>5. Follows(known, cs, d)
    BY ONLY <2>2, <2>4, c.st = "active" => Leads(known, cs, c.toGet) DEF Follows, Sure
  <2> QED
    BY ONLY <2>3, <2>4, <2>5
<1>3. CASE c.seen \notin known \cup {Genesis}
  <2>1. AskIds(head, c) = [c EXCEPT !.st = "failed"]
    BY <1>3 DEF AskIds
  <2>2. AskIds(head, c).st = "failed"
    BY <2>1 DEF Connection
  <2> QED
    BY <2>2 DEF Follows
<1> QED
  BY <1>2, <1>3

(* Starting again: the list is empty.                                      *)
LEMMA RestartFollows ==
    ASSUME IndInv, KnownFollow(known), NEW cs, NEW c \in Connection
    PROVE  Follows(known, cs, Restart(head, c))
<1>1. PICK d : d = [c EXCEPT !.toGet = <<>>, !.unfetched = 0, !.need = TRUE, !.seen = Genesis]
  OBVIOUS
<1>2. d \in Connection /\ d.toGet = <<>>
  <2>0. PICK e \in Seq(Blocks), z \in Int : e = <<>> /\ z = 0
    <3>1. <<>> \in Seq(Blocks) /\ 0 \in Int
      BY ONLY TRUE
    <3> QED
      BY ONLY <3>1
  <2>1. PICK c1 : c1 = [c EXCEPT !.toGet = e]
    OBVIOUS
  <2>2. c1 \in Connection /\ c1.toGet = e
    BY ONLY <2>1, c \in Connection, e \in Seq(Blocks) DEF Connection
  <2>3. PICK c2 : c2 = [c1 EXCEPT !.unfetched = z]
    OBVIOUS
  <2>4. c2 \in Connection /\ c2.toGet = e
    BY ONLY <2>2, <2>3, z \in Int DEF Connection
  <2>5. PICK c3 : c3 = [c2 EXCEPT !.need = TRUE]
    OBVIOUS
  <2>6. c3 \in Connection /\ c3.toGet = e
    BY ONLY <2>4, <2>5 DEF Connection
  <2>7. d = [c3 EXCEPT !.seen = Genesis]
    BY ONLY <1>1, <2>0, <2>1, <2>3, <2>5
  <2> QED
    BY ONLY <2>0, <2>6, <2>7 DEF Connection, Ids
<1>3. Leads(known, cs, d.toGet)
  BY ONLY <1>2 DEF Leads
<1>4. Restart(head, c) = AskIds(head, d)
  BY <1>1 DEF Restart
<1> QED
  BY ONLY <1>2, <1>3, <1>4, AskIdsFollows, IndInv, KnownFollow(known)

(* A connection whose list stays and whose synopsis stays or is dropped.   *)
Alike(c, d) ==
    d.st = "active" => /\ c.st = "active" /\ d.toGet = c.toGet
                       /\ d.asked = c.asked \/ d.asked = NotAsked

(* Such a change keeps the order.                                          *)
LEMMA AlikeFollows ==
    ASSUME NEW k, NEW cs, NEW c, NEW d, Follows(k, cs, c), Alike(c, d)
    PROVE  Follows(k, cs, d)
<1>1. NotAsked # <<>>
  BY DEF NotAsked
<1> QED
  BY <1>1 DEF Follows, Alike

(* What is sure stays sure when blocks that were under way are.            *)
LEMMA FollowsLater ==
    ASSUME NEW k, NEW cs, NEW l, NEW ds, NEW c, Follows(k, cs, c),
           \A b : Sure(k, cs, b) => Sure(l, ds, b)
    PROVE  Follows(l, ds, c)
BY DEF Follows, Leads

(* A reply that is accepted goes on from a sure block or from the list: in *)
(* either case the new list begins with a block that may be handed over.   *)
LEMMA ExtendedLeads ==
    ASSUME IndInv, InOrder, NEW p \in Peers, conn[p].st = "active", conn[p].asked # NotAsked,
           NEW ids \in Seq(Blocks), Linked(ids),
           ids # <<>> => IF conn[p].asked = <<>> THEN Number(ids[1]) = 1
                         ELSE Contains(conn[p].asked, ids[1])
    PROVE  Leads(known, calls, Extended(p, ids).toGet)
<1>1. known \in SUBSET Blocks /\ conn \in [Peers -> Connection] /\ calls \in Seq(Call)
  BY Parts
<1>2. PICK c \in Connection : c = conn[p]
  BY <1>1
<1>3. c.toGet \in Seq(Blocks)
  BY DEF Connection
<1>4. /\ Leads(known, calls, c.toGet)
      /\ \A i \in DOMAIN c.asked :
            Sure(known, calls, c.asked[i]) \/ \E j \in DOMAIN c.toGet : c.toGet[j] = c.asked[i]
      /\ c.asked = <<>> => c.toGet = <<>>
  BY <1>2 DEF InOrder, Follows
<1>5. ids # <<>> => ids[1] \in Blocks
  OBVIOUS
<1>6. /\ \A q \in Active(conn) : Leads(known, calls, conn[q].toGet)
      /\ CallsFollow(known, calls)
  BY DEF InOrder, Follows, Active
<1>7. ASSUME ids # <<>>
      PROVE  IF c.asked = <<>> THEN Number(ids[1]) = 1
             ELSE Sure(known, calls, ids[1]) \/ \E j \in DOMAIN c.toGet : c.toGet[j] = ids[1]
  <2>1. CASE c.asked = <<>>
    BY <1>2, <1>7, <2>1
  <2>2. CASE c.asked # <<>>
    <3>1. PICK i \in DOMAIN c.asked : c.asked[i] = ids[1]
      BY <1>2, <1>7, <2>2 DEF Contains
    <3> QED
      BY ONLY <1>4, <2>2, <3>1
  <2> QED
    BY <2>1, <2>2
<1> DEFINE shared == SelectLastInSeq(c.toGet, LAMBDA b : b = ids[1])
           others == \E q \in Active(conn) \ {p} : conn[q].toGet # <<>> /\ conn[q].toGet[1] = ids[1]
           n      == FirstNew(ids)
<1>8. Extended(p, ids) =
         IF ids = <<>> THEN c
         ELSE IF c.toGet # <<>> /\ shared # 0
              THEN [c EXCEPT !.toGet = SubSeq(c.toGet, 1, shared - 1) \o ids]
         ELSE IF c.toGet # <<>> THEN [c EXCEPT !.toGet = Tail(ids), !.seen = ids[1]]
         ELSE IF others THEN [c EXCEPT !.toGet = ids]
         ELSE [c EXCEPT !.toGet = SubSeq(ids, n, Len(ids)),
                        !.seen  = IF n = 1 THEN c.seen ELSE ids[n - 1]]
  BY <1>2 DEF Extended
<1>9. /\ shared = 0 => \A i \in DOMAIN c.toGet : c.toGet[i] # ids[1]
      /\ shared # 0 => shared \in 1 .. Len(c.toGet) /\ c.toGet[shared] = ids[1]
  <2> DEFINE I == {i \in 1 .. Len(c.toGet) : c.toGet[i] = ids[1]}
  <2>1. shared = IF I # {} THEN Max(I) ELSE 0
    BY DEF SelectLastInSeq
  <2>2. Len(c.toGet) \in Nat
    BY <1>3
  <2>3. I \in SUBSET Nat /\ \A k \in I : k <= Len(c.toGet)
    BY <2>2
  <2>4. I # {} => Max(I) \in I
    <3> HIDE DEF I
    <3> QED
      BY <2>2, <2>3, MaxOfBounded
  <2>5. CASE I = {}
    BY <1>3, <2>1, <2>5
  <2>6. CASE I # {}
    <3>1. PICK m \in I : m = shared
      BY <2>1, <2>4, <2>6
    <3>2. m # 0
      OBVIOUS
    <3> QED
      BY <3>1, <3>2
  <2> QED
    BY <2>5, <2>6
<1> HIDE DEF shared
<1>10. CASE ids = <<>>
  BY <1>4, <1>8, <1>10
<1>11. CASE ids # <<>> /\ c.toGet # <<>> /\ shared # 0
  <2>1. PICK x \in Seq(Blocks) : x = SubSeq(c.toGet, 1, shared - 1) \o ids /\ x # <<>> /\ x[1] = c.toGet[1]
    <3>1. PICK y \in Seq(Blocks) : /\ y = SubSeq(c.toGet, 1, shared - 1) /\ Len(y) = shared - 1
                                   /\ shared > 1 => y[1] = c.toGet[1]
      <4>1. SubSeq(c.toGet, 1, shared - 1) \in Seq(Blocks) /\ Len(SubSeq(c.toGet, 1, shared - 1)) = shared - 1
        BY ONLY <1>3, <1>9, <1>11
      <4>2. shared > 1 => SubSeq(c.toGet, 1, shared - 1)[1] = c.toGet[1]
        BY ONLY <1>3, <1>9, <1>11
      <4> QED
        BY ONLY <4>1, <4>2
    <3>2. y \o ids \in Seq(Blocks) /\ Len(y \o ids) = Len(y) + Len(ids) /\ Len(ids) >= 1
      BY ONLY <1>11, y \in Seq(Blocks), ids \in Seq(Blocks)
    <3>3. y \o ids # <<>>
      <4>1. Len(y) \in Nat /\ Len(ids) \in Nat
        BY ONLY y \in Seq(Blocks), ids \in Seq(Blocks)
      <4> QED
        BY ONLY <3>2, <4>1
    <3>4. (y \o ids)[1] = c.toGet[1]
      <4>1. CASE shared = 1
        BY ONLY <1>9, <1>11, <3>1, <3>2, <4>1, y \in Seq(Blocks), ids \in Seq(Blocks)
      <4>2. CASE shared # 1
        <5>1. shared > 1 /\ Len(y) >= 1
          BY ONLY <1>3, <1>9, <1>11, <3>1, <4>2
        <5>2. (y \o ids)[1] = y[1]
          BY ONLY <5>1, y \in Seq(Blocks), ids \in Seq(Blocks)
        <5> QED
          BY ONLY <3>1, <5>1, <5>2
      <4> QED
        BY <4>1, <4>2
    <3> QED
      BY ONLY <3>1, <3>2, <3>3, <3>4
  <2>2. Extended(p, ids) = [c EXCEPT !.toGet = x]
    BY ONLY <1>8, <1>11, <2>1
  <2>3. [c EXCEPT !.toGet = x].toGet = x
    BY ONLY c \in Connection, x \in Seq(Blocks) DEF Connection
  <2> QED
    BY ONLY <1>4, <1>11, <2>1, <2>2, <2>3 DEF Leads
<1>12. CASE ids # <<>> /\ c.toGet # <<>> /\ shared = 0
  <2>1. Sure(known, calls, ids[1])
    BY ONLY <1>4, <1>7, <1>9, <1>12
  <2>2. PICK x \in Seq(Blocks) : x = Tail(ids) /\ (x # <<>> => Parent[x[1]] = ids[1])
    <3>1. Tail(ids) \in Seq(Blocks) /\ Len(Tail(ids)) = Len(ids) - 1 /\ Len(ids) \in Nat
      BY ONLY <1>12, ids \in Seq(Blocks)
    <3>2. ASSUME Tail(ids) # <<>> PROVE Parent[Tail(ids)[1]] = ids[1]
      <4>1. Len(ids) >= 2
        BY ONLY <1>12, <3>2, ids \in Seq(Blocks)
      <4>2. Tail(ids)[1] = ids[2] /\ 1 \in 1 .. Len(ids) - 1 /\ 1 + 1 = 2
        BY ONLY <4>1, ids \in Seq(Blocks)
      <4> QED
        BY ONLY <4>2, Linked(ids) DEF Linked
    <3> QED
      BY ONLY <3>1, <3>2
  <2>3. [c EXCEPT !.toGet = x, !.seen = ids[1]].toGet = x
    BY ONLY c \in Connection DEF Connection
  <2> QED
    BY ONLY <1>8, <1>12, <2>1, <2>2, <2>3 DEF Leads
<1>13. CASE ids # <<>> /\ c.toGet = <<>> /\ others
  <2>1. PICK q \in Active(conn) : conn[q].toGet # <<>> /\ conn[q].toGet[1] = ids[1]
    BY <1>13
  <2>2. Leads(known, calls, ids)
    BY ONLY <1>6, <2>1 DEF Leads
  <2>3. [c EXCEPT !.toGet = ids].toGet = ids
    BY ONLY c \in Connection DEF Connection
  <2>4. Extended(p, ids) = [c EXCEPT !.toGet = ids]
    BY <1>8, <1>13
  <2> QED
    BY ONLY <2>2, <2>3, <2>4
<1>14. CASE ids # <<>> /\ c.toGet = <<>> /\ ~others
  <2>1. PICK l \in Nat : l = Len(ids)
    OBVIOUS
  <2>2. n \in 1 .. l + 1 /\ (\A i \in 1 .. n - 1 : ids[i] \in known) /\ (n <= l => ids[n] \notin known)
    <3> DEFINE u == Append(ids, Genesis)
               I == {i \in 1 .. Len(u) : u[i] \notin known}
    <3>1. n = IF I # {} THEN Min(I) ELSE 0
      BY DEF FirstNew, SelectInSeq
    <3>2. Len(u) = l + 1 /\ u[l + 1] = Genesis /\ \A i \in 1 .. l : u[i] = ids[i]
      BY <2>1
    <3>3. Genesis \notin known
      BY <1>1, SyncAssumption
    <3>4. l + 1 \in I
      BY <2>1, <3>2, <3>3
    <3>5. I \in SUBSET Nat /\ I \subseteq 1 .. l + 1
      BY <3>2
    <3>6. \A i \in 1 .. l : i \in I <=> ids[i] \notin known
      <4> HIDE DEF u
      <4> QED
        BY ONLY <3>2, l \in Nat
    <3> HIDE DEF I, n
    <3>7. Min(I) \in I /\ \A i \in I : Min(I) <= i
      BY <3>4, <3>5, MinIsLeast
    <3>8. n \in I /\ n \in 1 .. l + 1 /\ \A i \in I : n <= i
      BY ONLY <3>1, <3>4, <3>5, <3>7
    <3>9. ASSUME NEW i \in 1 .. n - 1 PROVE ids[i] \in known
      <4>1. i \in 1 .. l /\ ~(n <= i)
        BY ONLY <3>8, l \in Nat, i \in 1 .. n - 1
      <4> QED
        BY ONLY <3>6, <3>8, <4>1
    <3>10. ASSUME n <= l PROVE ids[n] \notin known
      <4>1. n \in 1 .. l
        BY ONLY <3>8, <3>10, l \in Nat
      <4> QED
        BY ONLY <3>6, <3>8, <4>1
    <3> QED
      BY ONLY <3>8, <3>9, <3>10
  <2> HIDE DEF n
  <2>3. PICK x \in Seq(Blocks) : x = SubSeq(ids, n, Len(ids)) /\ (x # <<>> => n \in 1 .. l /\ x[1] = ids[n])
    <3>1. CASE n <= l
      <4>1. SubSeq(ids, n, Len(ids)) \in Seq(Blocks) /\ SubSeq(ids, n, Len(ids))[1] = ids[n]
        BY ONLY <2>1, <2>2, <3>1, ids \in Seq(Blocks)
      <4>2. n \in 1 .. l
        BY ONLY <2>2, <3>1, l \in Nat
      <4> QED
        BY ONLY <4>1, <4>2
    <3>2. CASE ~(n <= l)
      <4>1. SubSeq(ids, n, Len(ids)) \in Seq(Blocks) /\ Len(SubSeq(ids, n, Len(ids))) = 0
        BY ONLY <2>1, <2>2, <3>2, ids \in Seq(Blocks)
      <4>2. SubSeq(ids, n, Len(ids)) = <<>>
        BY ONLY <4>1
      <4> QED
        BY ONLY <4>1, <4>2
    <3> QED
      BY <3>1, <3>2
  <2>4. Extended(p, ids).toGet = x
    <3>1. \A z : [c EXCEPT !.toGet = x, !.seen = z].toGet = x
      BY ONLY c \in Connection DEF Connection
    <3>2. Extended(p, ids) = [c EXCEPT !.toGet = SubSeq(ids, n, Len(ids)),
                                       !.seen  = IF n = 1 THEN c.seen ELSE ids[n - 1]]
      BY <1>8, <1>14
    <3> QED
      BY ONLY <2>3, <3>1, <3>2
  <2>5. ASSUME x # <<>> PROVE Tainted(x[1]) \/ Sure(known, calls, Parent[x[1]])
    <3>1. n \in 1 .. l /\ x[1] = ids[n] /\ ids[n] \notin known
      BY ONLY <2>2, <2>3, <2>5, l \in Nat
    <3>2. CASE n = 1
      <4>1. CASE c.asked = <<>>
        <5>1. Number(ids[1]) = 1
          BY ONLY <1>7, <1>14, <4>1
        <5>2. Parent[ids[1]] = Genesis
          BY ONLY <1>5, <1>14, <5>1, FirstBlock
        <5> QED
          BY ONLY <3>1, <3>2, <5>2 DEF Sure
      <4>2. CASE c.asked # <<>>
        <5>1. Sure(known, calls, ids[1])
          <6>1. Sure(known, calls, ids[1]) \/ \E j \in DOMAIN c.toGet : c.toGet[j] = ids[1]
            BY ONLY <1>7, <1>14, <4>2
          <6>2. ~(\E j \in DOMAIN c.toGet : c.toGet[j] = ids[1])
            BY ONLY <1>3, <1>14
          <6> QED
            BY ONLY <6>1, <6>2
        <5>2. ids[1] # Genesis
          BY <1>5, <1>14, SyncAssumption
        <5>3. UnderWay(calls, ids[1]) \/ Tainted(ids[1])
          BY ONLY <3>1, <3>2, <5>1, <5>2 DEF Sure
        <5>4. ASSUME UnderWay(calls, ids[1]) PROVE Tainted(ids[1]) \/ Sure(known, calls, Parent[ids[1]])
          <6>1. PICK i \in DOMAIN calls : calls[i].sync /\ calls[i].result = "waits" /\ calls[i].block = ids[1]
            BY ONLY <5>4 DEF UnderWay
          <6>2. InTurn(known, calls, i)
            BY ONLY <1>6, <6>1 DEF CallsFollow
          <6>3. \A j \in 1 .. i - 1 : j \in DOMAIN calls
            BY ONLY <1>1, i \in DOMAIN calls
          <6> QED
            BY ONLY <6>1, <6>2, <6>3 DEF InTurn, Sure, UnderWay
        <5> QED
          BY ONLY <3>1, <3>2, <5>3, <5>4
      <4> QED
        BY <4>1, <4>2
    <3>3. CASE n # 1
      <4>1. PICK m \in 1 .. l - 1 : n = m + 1 /\ m \in 1 .. n - 1
        BY ONLY <3>1, <3>3, l \in Nat
      <4>2. ids[m] \in known
        BY ONLY <2>2, <4>1
      <4>3. Parent[ids[m + 1]] = ids[m]
        BY ONLY <2>1, m \in 1 .. l - 1, Linked(ids) DEF Linked
      <4> QED
        BY ONLY <3>1, <4>1, <4>2, <4>3 DEF Sure
    <3> QED
      BY <3>2, <3>3
  <2> QED
    BY ONLY <2>4, <2>5 DEF Leads
<1> QED
  BY <1>10, <1>11, <1>12, <1>13, <1>14
-----------------------------------------------------------------------------
(* A step that keeps what is sure, and after which the connections are in  *)
(* order as things stood before it.                                        *)
LEMMA OrderStep ==
    ASSUME KnownFollow(known'), accepted' \subseteq known' \cup {Genesis},
           CallsFollow(known', calls'), known \subseteq known',
           \A b : UnderWay(calls, b) => Sure(known', calls', b),
           \A q \in Peers : Follows(known, calls, conn'[q])
    PROVE  InOrder'
<1>1. \A b : Sure(known, calls, b) => Sure(known', calls', b)
  BY DEF Sure
<1>2. \A q \in Peers : Follows(known', calls', conn'[q])
  BY <1>1, FollowsLater
<1> QED
  BY <1>2 DEF InOrder

(* A step that leaves the delegate and its calls alone.                    *)
LEMMA OrderKept ==
    ASSUME InOrder, known' = known, accepted' = accepted, calls' = calls,
           \A q \in Peers : Follows(known, calls, conn'[q])
    PROVE  InOrder'
<1>1. \A b : UnderWay(calls, b) => Sure(known', calls', b)
  BY DEF Sure
<1> QED
  BY <1>1, OrderStep DEF InOrder

(* And that changes no list.                                               *)
LEMMA OrderAlike ==
    ASSUME InOrder, known' = known, accepted' = accepted, calls' = calls,
           \A q \in Peers : Alike(conn[q], conn'[q])
    PROVE  InOrder'
<1>1. \A q \in Peers : Follows(known, calls, conn[q])
  BY DEF InOrder
<1>2. \A q \in Peers : Follows(known, calls, conn'[q])
  BY <1>1, AlikeFollows
<1> QED
  BY <1>2, OrderKept

(* Changes of one field that are such ones.                                *)
LEMMA AlikeFields ==
    ASSUME NEW c \in Connection, NEW x
    PROVE  /\ Alike(c, c)
           /\ Alike(c, [c EXCEPT !.want = x]) /\ Alike(c, [c EXCEPT !.wantItem = x])
           /\ Alike(c, [c EXCEPT !.told = x]) /\ Alike(c, [c EXCEPT !.offered = x])
           /\ Alike(c, [c EXCEPT !.seen = x]) /\ Alike(c, [c EXCEPT !.st = "closing"])
           /\ Alike(c, [c EXCEPT !.need = x, !.asked = NotAsked])
           /\ Alike(c, [c EXCEPT !.seen = x, !.processing = x])
<1>1. Alike(c, c)
  BY DEF Alike
<1>2. Alike(c, [c EXCEPT !.want = x]) /\ Alike(c, [c EXCEPT !.wantItem = x])
  BY DEF Alike, Connection
<1>3. Alike(c, [c EXCEPT !.told = x]) /\ Alike(c, [c EXCEPT !.offered = x])
  BY DEF Alike, Connection
<1>4. Alike(c, [c EXCEPT !.seen = x])
  BY DEF Alike, Connection
<1>5. Alike(c, [c EXCEPT !.st = "closing"])
  BY DEF Alike, Connection
<1>6. Alike(c, [c EXCEPT !.need = x, !.asked = NotAsked])
  BY DEF Alike, Connection
<1>7. Alike(c, [c EXCEPT !.seen = x, !.processing = x])
  BY DEF Alike, Connection
<1> QED
  BY <1>1, <1>2, <1>3, <1>4, <1>5, <1>6, <1>7

(* A call that has returned is gone: no block under way is lost, and the   *)
(* other ones keep their turns.                                            *)
LEMMA CallReturned ==
    ASSUME NEW k, NEW cs \in Seq(Call), cs # <<>>, Head(cs).result # "waits", CallsFollow(k, cs)
    PROVE  /\ CallsFollow(k, Tail(cs))
           /\ \A b : UnderWay(cs, b) => UnderWay(Tail(cs), b)
<1>1. PICK n \in Nat : n = Len(cs) /\ n >= 1 /\ DOMAIN cs = 1 .. n
  OBVIOUS
<1>2. PICK t : /\ t = Tail(cs) /\ DOMAIN t = 1 .. n - 1
               /\ \A i \in 1 .. n - 1 : t[i] = cs[i + 1]
  <2>1. DOMAIN Tail(cs) = 1 .. n - 1 /\ \A i \in 1 .. n - 1 : Tail(cs)[i] = cs[i + 1]
    BY ONLY <1>1, cs \in Seq(Call), n \in Nat
  <2> QED
    BY ONLY <2>1
<1>3. cs[1].result # "waits"
  OBVIOUS
<1>4. ASSUME NEW b, UnderWay(cs, b) PROVE UnderWay(t, b)
  <2>1. PICK i \in 1 .. n : cs[i].sync /\ cs[i].result = "waits" /\ cs[i].block = b
    BY ONLY <1>1, <1>4 DEF UnderWay
  <2>2. PICK j \in 1 .. n - 1 : i = j + 1
    <3>1. i # 1
      BY ONLY <1>3, <2>1
    <3>2. i - 1 \in 1 .. n - 1 /\ i = (i - 1) + 1
      BY ONLY <3>1, n \in Nat, i \in 1 .. n
    <3> QED
      BY ONLY <3>2
  <2> QED
    BY ONLY <1>2, <2>1, <2>2 DEF UnderWay
<1>5. ASSUME NEW i \in 1 .. n - 1
      PROVE  /\ t[i].result = "accepted" => t[i].block \in k
             /\ t[i].sync /\ t[i].result = "unlinkable" => Tainted(t[i].block)
             /\ t[i].sync /\ t[i].result = "waits" => InTurn(k, t, i)
  <2>1. PICK m \in 1 .. n : m = i + 1 /\ t[i] = cs[m]
    BY ONLY <1>1, <1>2, n \in Nat, i \in 1 .. n - 1
  <2>2. /\ cs[m].result = "accepted" => cs[m].block \in k
        /\ cs[m].sync /\ cs[m].result = "unlinkable" => Tainted(cs[m].block)
        /\ cs[m].sync /\ cs[m].result = "waits" => InTurn(k, cs, m)
    BY ONLY <1>1, m \in 1 .. n, CallsFollow(k, cs) DEF CallsFollow
  <2>3. ASSUME InTurn(k, cs, m) PROVE InTurn(k, t, i)
    <3>1. CASE Tainted(cs[m].block) \/ Parent[cs[m].block] \in k \cup {Genesis}
      BY ONLY <2>1, <3>1 DEF InTurn
    <3>2. CASE \E j \in 1 .. m - 1 : cs[j].sync /\ cs[j].result = "waits" /\ cs[j].block = Parent[cs[m].block]
      <4>1. PICK j \in 1 .. m - 1 : cs[j].sync /\ cs[j].result = "waits" /\ cs[j].block = Parent[cs[m].block]
        BY <3>2
      <4>2. j # 1
        BY ONLY <1>3, <4>1
      <4>3. j - 1 \in 1 .. i - 1 /\ j - 1 \in 1 .. n - 1 /\ (j - 1) + 1 = j
        BY ONLY <2>1, <4>2, n \in Nat, i \in 1 .. n - 1, m \in 1 .. n, j \in 1 .. m - 1
      <4>4. t[j - 1] = cs[j]
        BY ONLY <1>2, <4>3
      <4> QED
        BY ONLY <2>1, <4>1, <4>3, <4>4 DEF InTurn
    <3> QED
      BY ONLY <2>3, <3>1, <3>2 DEF InTurn
  <2> QED
    BY ONLY <2>1, <2>2, <2>3
<1>6. CallsFollow(k, t)
  BY ONLY <1>2, <1>5 DEF CallsFollow
<1> QED
  BY ONLY <1>2, <1>4, <1>6

(* A call is added behind the others.                                      *)
LEMMA CallAppended ==
    ASSUME NEW k, NEW cs \in Seq(Call), NEW a \in Call, a.result = "waits", CallsFollow(k, cs),
           a.sync => Tainted(a.block) \/ Sure(k, cs, Parent[a.block])
    PROVE  /\ CallsFollow(k, Append(cs, a))
           /\ \A b : UnderWay(cs, b) => UnderWay(Append(cs, a), b)
           /\ a.sync => UnderWay(Append(cs, a), a.block)
<1>1. PICK n \in Nat : n = Len(cs) /\ DOMAIN cs = 1 .. n
  OBVIOUS
<1>2. PICK t : /\ t = Append(cs, a) /\ DOMAIN t = 1 .. n + 1 /\ t[n + 1] = a
               /\ \A i \in 1 .. n : t[i] = cs[i]
  <2>1. /\ DOMAIN Append(cs, a) = 1 .. n + 1 /\ Append(cs, a)[n + 1] = a
        /\ \A i \in 1 .. n : Append(cs, a)[i] = cs[i]
    BY ONLY <1>1, cs \in Seq(Call), a \in Call, n \in Nat
  <2> QED
    BY ONLY <2>1
<1>3. \A i \in 1 .. n : i \in 1 .. n + 1
  OBVIOUS
<1>4. ASSUME NEW b, UnderWay(cs, b) PROVE UnderWay(t, b)
  BY ONLY <1>1, <1>2, <1>3, <1>4 DEF UnderWay
<1>5. n + 1 \in 1 .. n + 1 /\ (n + 1) - 1 = n
  OBVIOUS
<1>6. a.sync => UnderWay(t, a.block)
  BY ONLY <1>2, <1>5, a.result = "waits" DEF UnderWay
<1>7. ASSUME NEW i \in 1 .. n, InTurn(k, cs, i) PROVE InTurn(k, t, i)
  <2>1. \A j \in 1 .. i - 1 : j \in 1 .. n
    BY ONLY n \in Nat, i \in 1 .. n
  <2> QED
    BY ONLY <1>2, <1>7, <2>1, i \in 1 .. n DEF InTurn
<1>8. ASSUME a.sync PROVE InTurn(k, t, n + 1)
  <2>1. CASE Tainted(a.block) \/ Tainted(Parent[a.block])
    <3>1. a.block \in Blocks
      BY DEF Call
    <3>2. Tainted(a.block)
      BY <2>1, <3>1, TaintedFacts
    <3> QED
      BY ONLY <1>2, <3>2 DEF InTurn
  <2>2. CASE Parent[a.block] \in k \cup {Genesis}
    BY ONLY <1>2, <2>2 DEF InTurn
  <2>3. CASE UnderWay(cs, Parent[a.block])
    <3>1. PICK j \in 1 .. n : cs[j].sync /\ cs[j].result = "waits" /\ cs[j].block = Parent[a.block]
      BY ONLY <1>1, <2>3 DEF UnderWay
    <3> QED
      BY ONLY <1>2, <1>5, <3>1 DEF InTurn
  <2> QED
    BY <1>8, <2>1, <2>2, <2>3 DEF Sure
<1>9. ASSUME NEW i \in 1 .. n + 1
      PROVE  /\ t[i].result = "accepted" => t[i].block \in k
             /\ t[i].sync /\ t[i].result = "unlinkable" => Tainted(t[i].block)
             /\ t[i].sync /\ t[i].result = "waits" => InTurn(k, t, i)
  <2>1. CASE i = n + 1
    BY ONLY <1>2, <1>8, <2>1, a.result = "waits"
  <2>2. CASE i # n + 1
    <3>1. i \in 1 .. n
      BY ONLY <2>2, n \in Nat, i \in 1 .. n + 1
    <3>2. t[i] = cs[i]
      BY ONLY <1>2, <3>1
    <3>3. /\ cs[i].result = "accepted" => cs[i].block \in k
          /\ cs[i].sync /\ cs[i].result = "unlinkable" => Tainted(cs[i].block)
          /\ cs[i].sync /\ cs[i].result = "waits" => InTurn(k, cs, i)
      BY ONLY <1>1, <3>1, CallsFollow(k, cs) DEF CallsFollow
    <3> QED
      BY ONLY <1>7, <3>1, <3>2, <3>3
  <2> QED
    BY <2>1, <2>2
<1>10. CallsFollow(k, t)
  BY ONLY <1>2, <1>9 DEF CallsFollow
<1> QED
  BY ONLY <1>2, <1>4, <1>6, <1>10
-----------------------------------------------------------------------------
(* At the start the delegate has a chain, and every list is empty.         *)
LEMMA InitOrder == Init => InOrder
<1> SUFFICES ASSUME Init PROVE InOrder
  OBVIOUS
<1>1. IndInv
  BY InitInv
<1>2. /\ known = ToSet(ChainTo[Start]) /\ head = Start /\ calls = <<>> /\ accepted = {Start}
      /\ conn = [p \in Peers |-> Restart(Start, Fresh)]
  BY DEF Init
<1>3. Start \in Ids
  BY SyncAssumption DEF Ids
<1>4. PICK c : c = ChainTo[Start] /\ IsChain(c, Start)
  BY <1>3, ChainFacts
<1>5. known = {c[i] : i \in DOMAIN c} /\ c \in Seq(Blocks)
  BY <1>2, <1>4 DEF ToSet, IsChain
<1>6. KnownFollow(known)
  <2>1. SUFFICES ASSUME NEW b \in known PROVE Parent[b] \in known \cup {Genesis}
    BY DEF KnownFollow
  <2>2. PICK i \in DOMAIN c : b = c[i]
    BY <1>5
  <2>3. c # <<>> /\ Start # Genesis
    BY ONLY <1>4, <2>2 DEF IsChain
  <2>4. Parent[c[1]] = Genesis /\ \A j \in 1 .. Len(c) - 1 : Parent[c[j + 1]] = c[j]
    BY ONLY <1>4, <2>3 DEF IsChain
  <2>5. CASE i = 1
    BY <2>2, <2>4, <2>5
  <2>6. CASE i # 1
    <3>1. i - 1 \in 1 .. Len(c) - 1 /\ (i - 1) + 1 = i /\ i - 1 \in DOMAIN c
      BY ONLY <1>5, <2>6, i \in DOMAIN c
    <3>2. Parent[b] = c[i - 1]
      BY ONLY <2>2, <2>4, <3>1
    <3> QED
      BY ONLY <1>5, <3>1, <3>2
  <2> QED
    BY <2>5, <2>6
<1>7. accepted \subseteq known \cup {Genesis}
  <2>1. head \in known \cup {Genesis}
    BY <1>1, Parts
  <2> QED
    BY ONLY <1>2, <2>1
<1>8. CallsFollow(known, calls)
  BY ONLY <1>2 DEF CallsFollow
<1>9. ASSUME NEW p \in Peers PROVE Follows(known, calls, conn[p])
  <2>1. Fresh \in Connection
    <3>1. "active" \in States
      BY DEF States
    <3> QED
      BY <3>1, FreshFacts
  <2>2. Follows(known, calls, Restart(head, Fresh))
    BY ONLY <1>1, <1>6, <2>1, RestartFollows
  <2> QED
    BY ONLY <1>2, <2>2, p \in Peers
<1> QED
  BY ONLY <1>6, <1>7, <1>8, <1>9 DEF InOrder

(* One connection is replaced by another one in order.                     *)
LEMMA OrderReplaced ==
    ASSUME IndInv, InOrder, NEW p \in Peers, NEW d, Follows(known, calls, d)
    PROVE  \A q \in Peers : Follows(known, calls, Replaced(p, d)[q])
<1>1. conn \in [Peers -> Connection]
  BY Parts
<1>2. \A q \in Peers : Follows(known, calls, conn[q])
  BY DEF InOrder
<1>3. \A q \in Peers : Replaced(p, d)[q] = IF q = p THEN d ELSE conn[q]
  BY <1>1 DEF Replaced
<1> QED
  BY ONLY <1>2, <1>3, Follows(known, calls, d)

(* Connections that are being closed.                                      *)
LEMMA ClosingAlike ==
    ASSUME IndInv, NEW ps
    PROVE  \A q \in Peers : Alike(conn[q], Closing(conn, ps)[q])
<1>1. conn \in [Peers -> Connection]
  BY Parts
<1>2. ASSUME NEW q \in Peers PROVE Alike(conn[q], Closing(conn, ps)[q])
  <2>1. PICK c \in Connection : c = conn[q]
    BY <1>1
  <2>2. Alike(c, c) /\ Alike(c, [c EXCEPT !.st = "closing"])
    BY ONLY c \in Connection, AlikeFields
  <2>3. Closing(conn, ps)[q] = IF q \in ps THEN [c EXCEPT !.st = "closing"] ELSE c
    BY <2>1 DEF Closing
  <2> QED
    BY ONLY <2>1, <2>2, <2>3
<1> QED
  BY <1>2

(* on_blockchain_item_ids_inventory_message.                               *)
LEMMA OnIdsOrder ==
    ASSUME IndInv, InOrder, NEW p \in Peers, OnIds(p)
    PROVE  InOrder'
<1>1. conn \in [Peers -> Connection] /\ in \in [Peers -> Seq(InMessage)] /\ head \in Ids
  BY Parts
<1>2. Reads(p, "ids") /\ known' = known /\ calls' = calls /\ accepted' = accepted
  BY DEF OnIds
<1>3. PICK m \in InMessage : m = Head(in[p]) /\ m.type = "ids"
  BY <1>1, <1>2, ReadsFacts
<1>4. m.ids \in Seq(Blocks) /\ m.left \in Int /\ Linked(m.ids)
  BY <1>3 DEF InMessage
<1>5. PICK c \in Connection : c = conn[p]
  BY <1>1
<1>6. Follows(known, calls, c) /\ KnownFollow(known)
  BY <1>5 DEF InOrder
<1> DEFINE ok == m.ids # <<>> =>
                    IF c.asked = <<>> THEN Number(m.ids[1]) = 1 ELSE Contains(c.asked, m.ids[1])
           e == [Extended(p, m.ids) EXCEPT !.asked = NotAsked, !.unfetched = m.left]
<1>7. \/ conn' = conn
      \/ conn' = Closing(conn, {p})
      \/ conn' = [conn EXCEPT ![p].need = FALSE, ![p].asked = NotAsked]
      \/ c.asked # NotAsked /\ ok /\ conn' = [conn EXCEPT ![p] = AskIds(head, e)]
      \/ c.asked # NotAsked /\ ok /\ conn' = [conn EXCEPT ![p] = e]
  BY <1>3, <1>5 DEF OnIds
<1>8. CASE conn' = conn
  <2>1. \A q \in Peers : Follows(known, calls, conn'[q])
    BY <1>8 DEF InOrder
  <2> QED
    BY ONLY <1>2, <2>1, InOrder, OrderKept
<1>9. CASE conn' = Closing(conn, {p})
  BY ONLY <1>2, <1>9, IndInv, InOrder, ClosingAlike, OrderAlike
<1>10. CASE conn' = [conn EXCEPT ![p].need = FALSE, ![p].asked = NotAsked]
  <2>1. PICK d : d = [c EXCEPT !.need = FALSE, !.asked = NotAsked] /\ Alike(c, d)
    BY ONLY c \in Connection, AlikeFields
  <2>2. conn' = Replaced(p, d)
    BY ONLY <1>1, <1>5, <1>10, <2>1, p \in Peers DEF Replaced
  <2>3. Follows(known, calls, d)
    BY ONLY <1>6, <2>1, AlikeFollows
  <2> QED
    BY ONLY <1>2, <2>2, <2>3, IndInv, InOrder, p \in Peers, OrderReplaced, OrderKept
<1>11. ASSUME c.asked # NotAsked, ok
       PROVE  /\ e \in Connection /\ e.asked = NotAsked /\ NotAsked # <<>>
              /\ e.st = "active" => Leads(known, calls, e.toGet)
  <2>1. PICK x \in Connection : x = Extended(p, m.ids)
    BY <1>4, ExtendedFacts DEF Same
  <2>2. /\ e \in Connection /\ e.asked = NotAsked /\ e.toGet = x.toGet /\ e.st = x.st
    <3>1. PICK y : y = [x EXCEPT !.asked = NotAsked]
      OBVIOUS
    <3>2. y \in Connection /\ y.asked = NotAsked /\ y.toGet = x.toGet /\ y.st = x.st
      BY ONLY <3>1, x \in Connection DEF Connection
    <3>3. e = [y EXCEPT !.unfetched = m.left]
      BY ONLY <2>1, <3>1
    <3> HIDE DEF e
    <3> QED
      BY ONLY <1>4, <3>2, <3>3 DEF Connection
  <2> HIDE DEF e
  <2>3. x.st = c.st
    BY <1>5, <2>1 DEF Extended, Connection
  <2>4. ASSUME c.st = "active" PROVE Leads(known, calls, x.toGet)
    BY ONLY <1>4, <1>5, <1>11, <2>1, <2>4, IndInv, InOrder, p \in Peers, ExtendedLeads
  <2>5. NotAsked # <<>>
    BY DEF NotAsked
  <2> QED
    BY ONLY <2>2, <2>3, <2>4, <2>5
<1>12. ASSUME NEW d, Follows(known, calls, d), conn' = [conn EXCEPT ![p] = d] PROVE InOrder'
  <2>1. conn' = Replaced(p, d)
    BY ONLY <1>12 DEF Replaced
  <2> QED
    BY ONLY <1>2, <1>12, <2>1, IndInv, InOrder, p \in Peers, OrderReplaced, OrderKept
<1> HIDE DEF e, ok
<1>13. CASE c.asked # NotAsked /\ ok /\ conn' = [conn EXCEPT ![p] = AskIds(head, e)]
  <2>1. Follows(known, calls, AskIds(head, e))
    BY ONLY <1>6, <1>11, <1>13, IndInv, AskIdsFollows
  <2> QED
    BY ONLY <1>12, <1>13, <2>1
<1>14. CASE c.asked # NotAsked /\ ok /\ conn' = [conn EXCEPT ![p] = e]
  <2>1. Follows(known, calls, e)
    BY ONLY <1>11, <1>14 DEF Follows
  <2> QED
    BY ONLY <1>12, <1>14, <2>1
<1> QED
  BY ONLY <1>7, <1>8, <1>9, <1>10, <1>13, <1>14

(* on_fetch_blockchain_item_ids_message.                                   *)
LEMMA OnSynopsisOrder ==
    ASSUME IndInv, InOrder, NEW p \in Peers, OnSynopsis(p)
    PROVE  InOrder'
<1>1. conn \in [Peers -> Connection] /\ KnownFollow(known)
  BY Parts DEF InOrder
<1>2. /\ known' = known /\ calls' = calls /\ accepted' = accepted
      /\ conn' = conn \/ conn' = [conn EXCEPT ![p] = Restart(head, conn[p])]
  BY DEF OnSynopsis
<1>3. CASE conn' = conn
  <2>1. \A q \in Peers : Follows(known, calls, conn'[q])
    BY <1>3 DEF InOrder
  <2> QED
    BY ONLY <1>2, <2>1, InOrder, OrderKept
<1>4. CASE conn' = [conn EXCEPT ![p] = Restart(head, conn[p])]
  <2>1. PICK d : d = Restart(head, conn[p]) /\ Follows(known, calls, d)
    BY <1>1, RestartFollows
  <2>2. conn' = Replaced(p, d)
    BY ONLY <1>4, <2>1 DEF Replaced
  <2> QED
    BY ONLY <1>2, <2>1, <2>2, IndInv, InOrder, p \in Peers, OrderReplaced, OrderKept
<1> QED
  BY <1>2, <1>3, <1>4

(* on_item_ids_inventory_message.                                          *)
LEMMA OnInventoryOrder ==
    ASSUME IndInv, InOrder, NEW p \in Peers, OnInventory(p)
    PROVE  InOrder'
<1>1. conn \in [Peers -> Connection]
  BY Parts
<1>2. PICK b : /\ known' = known /\ calls' = calls /\ accepted' = accepted
               /\ conn' = conn \/ conn' = [conn EXCEPT ![p].told = @ \cup {b}]
  BY DEF OnInventory
<1>3. \A q \in Peers : Alike(conn[q], conn'[q])
  <2>1. SUFFICES ASSUME NEW q \in Peers PROVE Alike(conn[q], conn'[q])
    OBVIOUS
  <2>2. PICK c \in Connection : c = conn[q]
    BY <1>1
  <2>3. PICK x : x = c.told \cup {b}
    OBVIOUS
  <2>4. Alike(c, c) /\ Alike(c, [c EXCEPT !.told = x])
    BY ONLY c \in Connection, AlikeFields
  <2>5. conn'[q] = c \/ conn'[q] = [c EXCEPT !.told = x]
    BY ONLY <1>1, <1>2, <2>2, <2>3, p \in Peers, q \in Peers
  <2> QED
    BY ONLY <2>2, <2>4, <2>5
<1> QED
  BY ONLY <1>2, <1>3, InOrder, OrderAlike

(* The announcement of a block changes no list.                            *)
LEMMA BroadcastAlike ==
    ASSUME NEW c \in [Peers -> Connection], NEW b, NEW q \in Peers
    PROVE  Alike(c[q], Broadcast(c, b)[q])
<1>1. PICK d \in Connection : d = c[q]
  OBVIOUS
<1>2. PICK x : x = d.offered \cup {b}
  OBVIOUS
<1>3. Alike(d, d) /\ Alike(d, [d EXCEPT !.seen = b]) /\ Alike(d, [d EXCEPT !.offered = x])
  BY ONLY d \in Connection, AlikeFields
<1>4. Broadcast(c, b)[q] \in {d, [d EXCEPT !.seen = b], [d EXCEPT !.offered = x]}
  BY <1>1, <1>2 DEF Broadcast
<1> QED
  BY ONLY <1>1, <1>3, <1>4

(* Two such changes are one.                                               *)
LEMMA AlikeTwice ==
    ASSUME NEW c, NEW d, NEW e, Alike(c, d), Alike(d, e)
    PROVE  Alike(c, e)
BY DEF Alike

(* process_block_message: a block for the backlog goes to no delegate yet, *)
(* one fetched in normal operation is called for behind the others.        *)
LEMMA OnBlockOrder ==
    ASSUME IndInv, InOrder, NEW p \in Peers, OnBlock(p)
    PROVE  InOrder'
<1>1. /\ conn \in [Peers -> Connection] /\ in \in [Peers -> Seq(InMessage)] /\ calls \in Seq(Call)
      /\ KnownFollow(known) /\ CallsFollow(known, calls) /\ accepted \subseteq known \cup {Genesis}
      /\ \A q \in Peers : Follows(known, calls, conn[q])
  BY Parts DEF InOrder
<1>2. Reads(p, "block") /\ known' = known /\ accepted' = accepted
  BY DEF OnBlock
<1>3. PICK b \in Blocks : b = Head(in[p]).ids[1]
  <2>1. PICK m \in InMessage : m = Head(in[p]) /\ m.type = "block"
    BY <1>1, <1>2, ReadsFacts
  <2>2. m.ids \in Seq(Blocks) /\ m.ids # <<>>
    BY ONLY <2>1, m \in InMessage DEF InMessage
  <2>3. m.ids[1] \in Blocks
    BY ONLY <2>2
  <2> QED
    BY ONLY <2>1, <2>3
<1>4. PICK c \in Connection : c = conn[p]
  BY <1>1
<1>5. PICK d \in Connection, x \in SUBSET Blocks :
         d = [c EXCEPT !.wantItem = x] /\ x = c.wantItem \ {b} /\ Alike(c, d)
  <2>1. PICK x \in SUBSET Blocks : x = c.wantItem \ {b}
    BY DEF Connection
  <2>2. Alike(c, [c EXCEPT !.wantItem = x]) /\ [c EXCEPT !.wantItem = x] \in Connection
    BY ONLY c \in Connection, x \in SUBSET Blocks, AlikeFields, WantFacts
  <2> QED
    BY ONLY <2>1, <2>2
<1>6. PICK e \in Connection, y \in SUBSET Blocks :
         e = [c EXCEPT !.want = y] /\ y = c.want \ {b} /\ Alike(c, e)
  <2>1. PICK y \in SUBSET Blocks : y = c.want \ {b}
    BY DEF Connection
  <2>2. Alike(c, [c EXCEPT !.want = y]) /\ [c EXCEPT !.want = y] \in Connection
    BY ONLY c \in Connection, y \in SUBSET Blocks, AlikeFields, WantFacts
  <2> QED
    BY ONLY <2>1, <2>2
<1>7. /\ [conn EXCEPT ![p].wantItem = @ \ {b}] = Replaced(p, d)
      /\ [conn EXCEPT ![p].want = @ \ {b}] = Replaced(p, e)
      /\ [Replaced(p, e) EXCEPT ![p] = AskIds(head, Replaced(p, e)[p])] = Replaced(p, AskIds(head, e))
  BY <1>1, <1>4, <1>5, <1>6 DEF Replaced
<1>8. \/ /\ conn' = Replaced(p, d)
         /\ calls' = Append(calls, [block |-> b, sync |-> FALSE, from |-> p, result |-> "waits"])
      \/ conn' = Broadcast(Replaced(p, d), b) /\ calls' = calls
      \/ conn' \in {Replaced(p, e), Replaced(p, AskIds(head, e))} /\ calls' = calls
      \/ conn' = Closing(conn, {p}) /\ calls' = calls
  <2> DEFINE norm == [conn EXCEPT ![p].wantItem = @ \ {b}]
             sync == [conn EXCEPT ![p].want = @ \ {b}]
             new  == [sync EXCEPT ![p] = AskIds(head, sync[p])]
  <2>1. \/ /\ conn' = norm
           /\ calls' = Append(calls, [block |-> b, sync |-> FALSE, from |-> p, result |-> "waits"])
        \/ conn' = Broadcast(norm, b) /\ calls' = calls
        \/ conn' \in {sync, new} /\ calls' = calls
        \/ conn' = Closing(conn, {p}) /\ calls' = calls
    BY <1>3 DEF OnBlock
  <2>2. norm = Replaced(p, d) /\ sync = Replaced(p, e)
    BY ONLY <1>7
  <2> HIDE DEF norm, sync
  <2> QED
    BY ONLY <1>7, <2>1, <2>2
<1>9. Follows(known, calls, d) /\ Follows(known, calls, e)
  BY ONLY <1>1, <1>4, <1>5, <1>6, p \in Peers, AlikeFollows
<1>10. CASE /\ conn' = Replaced(p, d)
            /\ calls' = Append(calls, [block |-> b, sync |-> FALSE, from |-> p, result |-> "waits"])
  <2>1. PICK a \in Call : /\ a = [block |-> b, sync |-> FALSE, from |-> p, result |-> "waits"]
                          /\ a.result = "waits" /\ ~a.sync
    <3>1. [block |-> b, sync |-> FALSE, from |-> p, result |-> "waits"] \in Call
      BY DEF Call
    <3> QED
      BY <3>1
  <2>2. /\ CallsFollow(known, Append(calls, a))
        /\ \A z : UnderWay(calls, z) => UnderWay(Append(calls, a), z)
    BY ONLY <1>1, <2>1, a \in Call, CallAppended
  <2>3. calls' = Append(calls, a)
    BY ONLY <1>10, <2>1
  <2>4. \A z : UnderWay(calls, z) => Sure(known', calls', z)
    BY ONLY <2>2, <2>3 DEF Sure
  <2>5. \A q \in Peers : Follows(known, calls, conn'[q])
    BY ONLY <1>9, <1>10, IndInv, InOrder, p \in Peers, OrderReplaced
  <2> QED
    BY ONLY <1>1, <1>2, <2>2, <2>3, <2>4, <2>5, OrderStep
<1>11. CASE conn' = Broadcast(Replaced(p, d), b) /\ calls' = calls
  <2>1. Replaced(p, d) \in [Peers -> Connection]
    BY ONLY <1>1, d \in Connection, p \in Peers DEF Replaced
  <2>2. \A q \in Peers : Follows(known, calls, Replaced(p, d)[q])
    BY ONLY <1>9, IndInv, InOrder, p \in Peers, OrderReplaced
  <2>3. \A q \in Peers : Follows(known, calls, conn'[q])
    BY ONLY <1>11, <2>1, <2>2, BroadcastAlike, AlikeFollows
  <2> QED
    BY ONLY <1>2, <1>11, <2>3, InOrder, OrderKept
<1>12. CASE conn' \in {Replaced(p, e), Replaced(p, AskIds(head, e))} /\ calls' = calls
  <2>1. e.st = "active" => Leads(known, calls, e.toGet)
    BY ONLY <1>9 DEF Follows
  <2>2. Follows(known, calls, AskIds(head, e))
    BY ONLY <1>1, <2>1, IndInv, e \in Connection, AskIdsFollows
  <2>3. \A q \in Peers : Follows(known, calls, conn'[q])
    BY ONLY <1>9, <1>12, <2>2, IndInv, InOrder, p \in Peers, OrderReplaced
  <2> QED
    BY ONLY <1>2, <1>12, <2>3, InOrder, OrderKept
<1>13. CASE conn' = Closing(conn, {p}) /\ calls' = calls
  BY ONLY <1>2, <1>13, IndInv, InOrder, ClosingAlike, OrderAlike
<1> QED
  BY ONLY <1>8, <1>10, <1>11, <1>12, <1>13

(* on_item_not_available_message changes no list.                          *)
LEMMA OnMissingOrder ==
    ASSUME IndInv, InOrder, NEW p \in Peers, OnMissing(p)
    PROVE  InOrder'
<1>1. conn \in [Peers -> Connection]
  BY Parts
<1>2. PICK b : /\ known' = known /\ calls' = calls /\ accepted' = accepted
               /\ \/ conn' = [conn EXCEPT ![p].wantItem = @ \ {b}, ![p].told = @ \ {b}]
                  \/ conn' = Closing([conn EXCEPT ![p].want = @ \ {b}], {p})
                  \/ conn' = conn
  BY DEF OnMissing
<1>3. \A q \in Peers : Alike(conn[q], conn'[q])
  <2>1. SUFFICES ASSUME NEW q \in Peers PROVE Alike(conn[q], conn'[q])
    OBVIOUS
  <2>2. PICK c \in Connection : c = conn[q]
    BY <1>1
  <2>3. PICK x \in SUBSET Blocks, y \in SUBSET Blocks, z \in {c.told \ {b}} :
           x = c.wantItem \ {b} /\ y = c.want \ {b} /\ z = c.told \ {b}
    BY DEF Connection
  <2>4. PICK d \in Connection : d = [c EXCEPT !.wantItem = x] /\ Alike(c, d)
    BY ONLY c \in Connection, x \in SUBSET Blocks, AlikeFields, WantFacts
  <2>5. PICK e \in Connection : e = [c EXCEPT !.want = y] /\ Alike(c, e)
    BY ONLY c \in Connection, y \in SUBSET Blocks, AlikeFields, WantFacts
  <2>6. Alike(c, c) /\ Alike(d, [d EXCEPT !.told = z]) /\ Alike(e, [e EXCEPT !.st = "closing"])
    BY ONLY c \in Connection, d \in Connection, e \in Connection, AlikeFields
  <2>7. Alike(c, [d EXCEPT !.told = z]) /\ Alike(c, [e EXCEPT !.st = "closing"])
    BY ONLY <2>4, <2>5, <2>6, AlikeTwice
  <2>8. \/ conn'[q] = c
        \/ conn'[q] = [d EXCEPT !.told = z]
        \/ conn'[q] = [e EXCEPT !.st = "closing"]
    <3>1. CASE conn' = [conn EXCEPT ![p].wantItem = @ \ {b}, ![p].told = @ \ {b}]
      BY ONLY <1>1, <2>2, <2>3, <2>4, <3>1, p \in Peers, q \in Peers
    <3>2. CASE conn' = Closing([conn EXCEPT ![p].want = @ \ {b}], {p})
      <4>1. PICK s : s = [conn EXCEPT ![p].want = @ \ {b}]
        OBVIOUS
      <4>2. s[q] = IF q = p THEN e ELSE c
        BY ONLY <1>1, <2>2, <2>3, <2>5, <4>1, p \in Peers, q \in Peers
      <4>3. conn'[q] = IF q \in {p} THEN [s[q] EXCEPT !.st = "closing"] ELSE s[q]
        BY ONLY <3>2, <4>1, q \in Peers DEF Closing
      <4> QED
        BY ONLY <4>2, <4>3
    <3> QED
      BY ONLY <1>2, <2>2, <3>1, <3>2
  <2> QED
    BY ONLY <2>2, <2>6, <2>7, <2>8
<1> QED
  BY ONLY <1>2, <1>3, InOrder, OrderAlike

(* Steps that change no list of a connection.                              *)
LEMMA FetchesOrder ==
    ASSUME IndInv, InOrder, FetchSyncItems \/ FetchItems
    PROVE  InOrder'
<1>1. conn \in [Peers -> Connection]
  BY Parts
<1>2. known' = known /\ accepted' = accepted /\ calls' = calls
  BY DEF FetchSyncItems, FetchItems
<1>3. CASE FetchSyncItems
  <2> DEFINE Asks(a) == conn' = [p \in Peers |-> [conn[p] EXCEPT !.want = @ \cup ToSet(a[p])]]
             none == [p \in Peers |-> <<>>]
  <2>1. \E order \in SetToSeqs(Peers) : Asks(IF suspended THEN none ELSE Scheduled(order))
    BY <1>3, Zenon DEF FetchSyncItems
  <2>2. PICK asked : Asks(asked)
    <3> HIDE DEF Asks
    <3> QED
      BY <2>1
  <2>3. ASSUME NEW q \in Peers PROVE Alike(conn[q], conn'[q])
    <3>1. PICK c \in Connection : c = conn[q]
      BY <1>1
    <3>2. PICK x : x = c.want \cup ToSet(asked[q])
      OBVIOUS
    <3>3. conn'[q] = [c EXCEPT !.want = x]
      BY ONLY <2>2, <3>1, <3>2, q \in Peers
    <3>4. Alike(c, [c EXCEPT !.want = x])
      BY ONLY c \in Connection, AlikeFields
    <3> QED
      BY ONLY <3>1, <3>3, <3>4
  <2> QED
    BY ONLY <1>2, <2>3, InOrder, OrderAlike
<1>4. CASE FetchItems
  <2> DEFINE Asks(T, f) ==
                conn' = [p \in Peers |-> [conn[p] EXCEPT !.wantItem = @ \cup {b \in T : f[b] = p}]]
  <2>1. \E T \in SUBSET items : \E f \in [T -> Peers] : Asks(T, f)
    BY <1>4, Zenon DEF FetchItems
  <2>2. PICK T, from : Asks(T, from)
    <3> HIDE DEF Asks
    <3> QED
      BY <2>1
  <2>3. ASSUME NEW q \in Peers PROVE Alike(conn[q], conn'[q])
    <3>1. PICK c \in Connection : c = conn[q]
      BY <1>1
    <3>2. PICK x : x = c.wantItem \cup {b \in T : from[b] = q}
      OBVIOUS
    <3>3. conn'[q] = [c EXCEPT !.wantItem = x]
      BY ONLY <2>2, <3>1, <3>2, q \in Peers
    <3>4. Alike(c, [c EXCEPT !.wantItem = x])
      BY ONLY c \in Connection, AlikeFields
    <3> QED
      BY ONLY <3>1, <3>3, <3>4
  <2> QED
    BY ONLY <1>2, <2>3, InOrder, OrderAlike
<1> QED
  BY <1>3, <1>4

(* A step that changes none of it.                                         *)
LEMMA SameOrder ==
    ASSUME InOrder, known' = known, accepted' = accepted, calls' = calls, conn' = conn
    PROVE  InOrder'
<1>1. \A q \in Peers : Follows(known, calls, conn'[q])
  BY DEF InOrder
<1> QED
  BY ONLY <1>1, InOrder, known' = known, accepted' = accepted, calls' = calls, OrderKept

(* A connection is made anew: it has no list.                              *)
LEMMA ReconnectOrder ==
    ASSUME IndInv, InOrder, NEW p \in Peers, Reconnect(p)
    PROVE  InOrder'
<1>1. known' = known /\ accepted' = accepted /\ calls' = calls /\ KnownFollow(known)
  BY DEF Reconnect, InOrder
<1>2. Fresh \in Connection
  <2>1. "active" \in States
    BY DEF States
  <2> QED
    BY <2>1, FreshFacts
<1>3. PICK d : d = Restart(head, Fresh) /\ Follows(known, calls, d)
  BY <1>1, <1>2, RestartFollows
<1>4. conn' = Replaced(p, d)
  BY <1>3 DEF Reconnect, Replaced
<1> QED
  BY ONLY <1>1, <1>3, <1>4, IndInv, InOrder, p \in Peers, OrderReplaced, OrderKept

(* on_connection_closed.                                                   *)
LEMMA ClosedOrder ==
    ASSUME IndInv, InOrder, NEW p \in Peers, NEW st \in {"closed", "dropped"}, Closed(p, st)
    PROVE  InOrder'
<1>1. known' = known /\ accepted' = accepted /\ calls' = calls
  BY DEF Closed
<1>2. PICK d : d = [Fresh EXCEPT !.st = st] /\ d.st = st
  <2>1. [Fresh EXCEPT !.st = st].st = st
    BY DEF Fresh
  <2> QED
    BY <2>1
<1>3. Follows(known, calls, d)
  BY ONLY <1>2, st \in {"closed", "dropped"} DEF Follows
<1>4. conn' = Replaced(p, d)
  BY <1>2 DEF Closed, Replaced
<1> QED
  BY ONLY <1>1, <1>3, <1>4, IndInv, InOrder, p \in Peers, OrderReplaced, OrderKept

(* A call returns: its block counts as accepted if the delegate took it.   *)
LEMMA ReturnOrder ==
    ASSUME IndInv, InOrder, NEW sync, NEW results, Returned(sync, results), "waits" \notin results,
           known' = known,
           \/ accepted' = accepted
           \/ results = {"accepted"} /\ accepted' = accepted \cup {Head(calls).block},
           \A q \in Peers : Follows(known, calls, conn'[q])
    PROVE  InOrder'
<1>1. /\ calls \in Seq(Call) /\ KnownFollow(known) /\ CallsFollow(known, calls)
      /\ accepted \subseteq known \cup {Genesis}
  BY Parts DEF InOrder
<1>2. calls # <<>> /\ Head(calls).result \in results /\ calls' = Tail(calls)
  BY DEF Returned
<1>3. Head(calls).result # "waits"
  BY ONLY <1>2, "waits" \notin results
<1>4. /\ CallsFollow(known, Tail(calls))
      /\ \A b : UnderWay(calls, b) => UnderWay(Tail(calls), b)
  BY ONLY <1>1, <1>2, <1>3, CallReturned
<1>5. results = {"accepted"} => Head(calls).block \in known
  <2>1. 1 \in DOMAIN calls /\ Head(calls) = calls[1]
    BY ONLY <1>1, <1>2
  <2> QED
    BY ONLY <1>1, <1>2, <2>1 DEF CallsFollow
<1>6. accepted' \subseteq known' \cup {Genesis}
  BY <1>1, <1>5
<1>7. \A b : UnderWay(calls, b) => Sure(known', calls', b)
  BY ONLY <1>2, <1>4 DEF Sure
<1> QED
  BY ONLY <1>1, <1>2, <1>4, <1>6, <1>7, known' = known, OrderStep,
          \A q \in Peers : Follows(known, calls, conn'[q])

(* The same if the fiber changes no list.                                  *)
LEMMA ReturnAlike ==
    ASSUME IndInv, InOrder, NEW sync, NEW results, Returned(sync, results), "waits" \notin results,
           known' = known,
           \/ accepted' = accepted
           \/ results = {"accepted"} /\ accepted' = accepted \cup {Head(calls).block},
           \A q \in Peers : Alike(conn[q], conn'[q])
    PROVE  InOrder'
<1>1. \A q \in Peers : Follows(known, calls, conn[q])
  BY DEF InOrder
<1>2. \A q \in Peers : Follows(known, calls, conn'[q])
  BY <1>1, AlikeFollows
<1> QED
  BY <1>2, ReturnOrder

(* send_sync_block_to_node_delegate, the block was not accepted.           *)
LEMMA SyncRejectedOrder ==
    ASSUME IndInv, InOrder, SyncRejected
    PROVE  InOrder'
<1>1. PICK ps : conn' = Closing(conn, ps)
  BY DEF SyncRejected
<1>2. \A q \in Peers : Alike(conn[q], conn'[q])
  BY ONLY <1>1, IndInv, ClosingAlike
<1>3. Returned(TRUE, {"rejected", "unlinkable"}) /\ known' = known /\ accepted' = accepted
  BY DEF SyncRejected
<1>4. "waits" \notin {"rejected", "unlinkable"}
  OBVIOUS
<1> QED
  BY ONLY <1>2, <1>3, <1>4, IndInv, InOrder, ReturnAlike

(* process_block_during_normal_operation: an invalid block,                *)
LEMMA NormalRejectedOrder ==
    ASSUME IndInv, InOrder, NormalRejected
    PROVE  InOrder'
<1>1. PICK ps : conn' = Closing(conn, ps)
  BY DEF NormalRejected
<1>2. \A q \in Peers : Alike(conn[q], conn'[q])
  BY ONLY <1>1, IndInv, ClosingAlike
<1>3. Returned(FALSE, {"rejected"}) /\ known' = known /\ accepted' = accepted
  BY DEF NormalRejected
<1>4. "waits" \notin {"rejected"}
  OBVIOUS
<1> QED
  BY ONLY <1>2, <1>3, <1>4, IndInv, InOrder, ReturnAlike

(* an accepted one,                                                        *)
LEMMA NormalAcceptedOrder ==
    ASSUME IndInv, InOrder, NormalAccepted
    PROVE  InOrder'
<1>1. conn' = Broadcast(conn, Head(calls).block) /\ conn \in [Peers -> Connection]
  BY Parts DEF NormalAccepted
<1>2. \A q \in Peers : Alike(conn[q], conn'[q])
  BY ONLY <1>1, BroadcastAlike
<1>3. /\ Returned(FALSE, {"accepted"}) /\ known' = known
      /\ accepted' = accepted \cup {Head(calls).block}
  BY DEF NormalAccepted
<1>4. "waits" \notin {"accepted"}
  OBVIOUS
<1> QED
  BY ONLY <1>2, <1>3, <1>4, IndInv, InOrder, ReturnAlike

(* one that does not link: the peer is synchronized with again.            *)
LEMMA NormalUnlinkableOrder ==
    ASSUME IndInv, InOrder, NormalUnlinkable
    PROVE  InOrder'
<1>1. conn \in [Peers -> Connection] /\ KnownFollow(known)
      /\ \A q \in Peers : Follows(known, calls, conn[q])
  BY Parts DEF InOrder
<1>2. PICK p : p = Head(calls).from
  OBVIOUS
<1>3. conn' = [conn EXCEPT ![p] = Restart(head, conn[p])]
  BY <1>2 DEF NormalUnlinkable
<1>4. \A q \in Peers : Follows(known, calls, conn'[q])
  <2>1. CASE p \in Peers
    <3>1. PICK d : d = Restart(head, conn[p]) /\ Follows(known, calls, d)
      BY <1>1, <2>1, RestartFollows
    <3>2. conn' = Replaced(p, d)
      BY ONLY <1>3, <3>1 DEF Replaced
    <3> QED
      BY ONLY <2>1, <3>1, <3>2, IndInv, InOrder, OrderReplaced
  <2>2. CASE p \notin Peers
    <3>1. conn' = conn
      BY ONLY <1>1, <1>3, <2>2
    <3> QED
      BY ONLY <1>1, <3>1
  <2> QED
    BY <2>1, <2>2
<1>5. Returned(FALSE, {"unlinkable"}) /\ known' = known /\ accepted' = accepted
  BY DEF NormalUnlinkable
<1>6. "waits" \notin {"unlinkable"}
  OBVIOUS
<1> QED
  BY ONLY <1>4, <1>5, <1>6, IndInv, InOrder, ReturnOrder

(* send_sync_block_to_node_delegate, the block was accepted: peers with no *)
(* more to give are asked for ids, others synchronized with again.         *)
LEMMA SyncAcceptedOrder ==
    ASSUME IndInv, InOrder, SyncAccepted
    PROVE  InOrder'
<1>1. conn \in [Peers -> Connection] /\ calls \in Seq(Call) /\ KnownFollow(known)
      /\ \A q \in Peers : Follows(known, calls, conn[q])
  BY Parts DEF InOrder
<1>2. Returned(TRUE, {"accepted"}) /\ known' = known
      /\ accepted' = accepted \cup {Head(calls).block}
  BY DEF SyncAccepted
<1>3. PICK b \in Blocks : b = Head(calls).block
  <2>1. calls # <<>>
    BY <1>2 DEF Returned
  <2>2. Head(calls) \in Call
    BY ONLY <1>1, <2>1
  <2> QED
    BY <2>2 DEF Call
<1>4. ASSUME NEW q \in Peers PROVE Follows(known, calls, conn'[q])
  <2>1. PICK c \in Connection : c = conn[q] /\ Follows(known, calls, c)
    BY <1>1
  <2>2. PICK f \in Connection : f = Finished(c, b) /\ Alike(c, f)
    <3>1. PICK x \in SUBSET Blocks : x = c.processing \ {b}
      BY DEF Connection
    <3>2. Finished(c, b) = [c EXCEPT !.seen = b, !.processing = x]
      BY ONLY <3>1 DEF Finished
    <3>3. b \in Ids
      BY DEF Ids
    <3>4. PICK f : f = [c EXCEPT !.seen = b, !.processing = x]
      OBVIOUS
    <3>5. f \in Connection /\ f.st = c.st /\ f.toGet = c.toGet /\ f.asked = c.asked
      BY ONLY <3>3, <3>4, c \in Connection, x \in SUBSET Blocks DEF Connection
    <3> QED
      BY ONLY <3>2, <3>4, <3>5 DEF Alike
  <2>3. Follows(known, calls, f)
    BY ONLY <2>1, <2>2, AlikeFollows
  <2>4. f.st = "active" => Leads(known, calls, f.toGet)
    BY ONLY <2>3 DEF Follows
  <2>5. Follows(known, calls, AskIds(head, f))
    BY ONLY <1>1, <2>4, IndInv, f \in Connection, AskIdsFollows
  <2>6. Follows(known, calls, Restart(head, c))
    BY ONLY <1>1, IndInv, c \in Connection, RestartFollows
  <2>7. conn'[q] \in {AskIds(head, Finished(c, b)), Finished(c, b), Restart(head, c), c}
    BY <1>3, <2>1 DEF SyncAccepted
  <2> QED
    BY ONLY <2>1, <2>2, <2>3, <2>5, <2>6, <2>7
<1>5. "waits" \notin {"accepted"}
  OBVIOUS
<1> QED
  BY ONLY <1>2, <1>4, <1>5, IndInv, InOrder, ReturnOrder

(* What handle_block makes of a block, and the blocks the delegate has     *)
(* then.                                                                   *)
Verdict(k, b) == IF Parent[b] \notin k \cup {Genesis} THEN "unlinkable"
                 ELSE IF b \in Invalid THEN "rejected" ELSE "accepted"

After(k, b) == IF Verdict(k, b) = "accepted" THEN k \cup {b} ELSE k

(* It decides about the first call that waits.                             *)
Decided(k, cs, ds, i) ==
    /\ cs[i].result = "waits" /\ \A j \in 1 .. i - 1 : cs[j].result # "waits"
    /\ DOMAIN ds = DOMAIN cs /\ \A j \in DOMAIN cs : j # i => ds[j] = cs[j]
    /\ ds[i].block = cs[i].block /\ ds[i].sync = cs[i].sync
    /\ ds[i].result = Verdict(k, cs[i].block)

(* A block that it cannot link, or rejects, is tainted; one that it takes  *)
(* is known to the calls behind it.                                        *)
LEMMA CallDecided ==
    ASSUME NEW k \in SUBSET Blocks, NEW l, NEW cs \in Seq(Call), NEW ds, NEW i \in DOMAIN cs,
           KnownFollow(k), CallsFollow(k, cs), Decided(k, cs, ds, i), l = After(k, cs[i].block)
    PROVE  /\ KnownFollow(l) /\ CallsFollow(l, ds) /\ k \subseteq l
           /\ \A b : UnderWay(cs, b) => Sure(l, ds, b)
<1> USE DEF Decided
<1>1. PICK n \in Nat : DOMAIN cs = 1 .. n /\ DOMAIN ds = 1 .. n /\ i \in 1 .. n
  OBVIOUS
<1>2. PICK b \in Blocks : b = cs[i].block
  <2>1. cs[i] \in Call
    OBVIOUS
  <2> QED
    BY <2>1 DEF Call
<1>a. PICK r : /\ r = Verdict(k, b) /\ ds[i].result = r
               /\ r = IF Parent[cs[i].block] \notin k \cup {Genesis} THEN "unlinkable"
                      ELSE IF cs[i].block \in Invalid THEN "rejected" ELSE "accepted"
               /\ l = IF r = "accepted" THEN k \cup {cs[i].block} ELSE k
  BY <1>2 DEF Verdict, After
<1>3. k \subseteq l
  BY <1>a
<1>4. KnownFollow(l)
  <2>1. CASE r = "accepted"
    <3>1. l = k \cup {b} /\ Parent[b] \in k \cup {Genesis}
      BY <1>a, <1>2, <2>1
    <3> QED
      BY ONLY <3>1, KnownFollow(k) DEF KnownFollow
  <2>2. CASE r # "accepted"
    BY <1>a, <2>2
  <2> QED
    BY <2>1, <2>2
<1>5. cs[i].sync => b \in l \/ Tainted(b)
  <2>1. CASE r = "accepted"
    BY <1>a, <1>2, <2>1
  <2>2. CASE r = "rejected"
    <3>1. b \in Invalid
      BY <1>a, <1>2, <2>2
    <3> QED
      BY ONLY <3>1, b \in Blocks, TaintedFacts
  <2>3. CASE r = "unlinkable"
    <3>1. Parent[b] \notin k \cup {Genesis}
      BY <1>a, <1>2, <2>3
    <3>2. cs[i].sync => InTurn(k, cs, i)
      BY DEF CallsFollow
    <3>3. InTurn(k, cs, i) => Tainted(b)
      BY ONLY <1>2, <3>1, Decided(k, cs, ds, i) DEF InTurn, Decided
    <3> QED
      BY ONLY <3>2, <3>3
  <2> QED
    BY <1>a, <2>1, <2>2, <2>3
<1>6. \A x : UnderWay(cs, x) => Sure(l, ds, x)
  <2>1. SUFFICES ASSUME NEW x, UnderWay(cs, x) PROVE Sure(l, ds, x)
    OBVIOUS
  <2>2. PICK j \in DOMAIN cs : cs[j].sync /\ cs[j].result = "waits" /\ cs[j].block = x
    BY <2>1 DEF UnderWay
  <2>3. CASE j = i
    BY ONLY <1>2, <1>5, <2>2, <2>3 DEF Sure
  <2>4. CASE j # i
    <3>1. ds[j] = cs[j] /\ j \in DOMAIN ds
      BY <2>4
    <3> QED
      BY ONLY <2>2, <3>1 DEF UnderWay, Sure
  <2> QED
    BY <2>3, <2>4
<1>7. ASSUME NEW m \in 1 .. n
      PROVE  /\ ds[m].result = "accepted" => ds[m].block \in l
             /\ ds[m].sync /\ ds[m].result = "unlinkable" => Tainted(ds[m].block)
             /\ ds[m].sync /\ ds[m].result = "waits" => InTurn(l, ds, m)
  <2>1. CASE m = i
    <3>1. ds[m].result = r /\ ds[m].block = b /\ ds[m].sync = cs[i].sync
      BY <1>a, <1>2, <2>1
    <3>2. r # "waits" /\ (r = "accepted" => b \in l) /\ (r = "unlinkable" => l = k /\ b \notin k)
      <4>1. b \in k => Parent[b] \in k \cup {Genesis}
        BY DEF KnownFollow
      <4> QED
        BY <1>a, <1>2, <4>1
    <3> QED
      BY ONLY <1>5, <3>1, <3>2
  <2>2. CASE m # i
    <3>1. ds[m] = cs[m]
      BY <1>1, <2>2
    <3>2. /\ cs[m].result = "accepted" => cs[m].block \in k
          /\ cs[m].sync /\ cs[m].result = "unlinkable" => Tainted(cs[m].block)
          /\ cs[m].sync /\ cs[m].result = "waits" => InTurn(k, cs, m)
      BY <1>1 DEF CallsFollow
    <3>3. ASSUME InTurn(k, cs, m) PROVE InTurn(l, ds, m)
      <4>1. CASE Tainted(cs[m].block) \/ Parent[cs[m].block] \in k \cup {Genesis}
        BY ONLY <1>3, <3>1, <4>1 DEF InTurn
      <4>2. CASE \E j \in 1 .. m - 1 : cs[j].sync /\ cs[j].result = "waits" /\ cs[j].block = Parent[cs[m].block]
        <5>1. PICK j \in 1 .. m - 1 : cs[j].sync /\ cs[j].result = "waits" /\ cs[j].block = Parent[cs[m].block]
          BY <4>2
        <5>2. CASE j = i
          <6>1. cs[m].block \in Blocks
            <7>1. cs[m] \in Call
              BY <1>1
            <7> QED
              BY <7>1 DEF Call
          <6>2. b = Parent[cs[m].block] /\ (b \in l \/ Tainted(b))
            BY ONLY <1>2, <1>5, <5>1, <5>2
          <6>3. Tainted(b) => Tainted(cs[m].block)
            BY ONLY <6>1, <6>2, TaintedFacts
          <6> QED
            BY ONLY <3>1, <6>2, <6>3 DEF InTurn
        <5>3. CASE j # i
          <6>1. j \in 1 .. n
            BY ONLY n \in Nat, m \in 1 .. n, j \in 1 .. m - 1
          <6>2. ds[j] = cs[j]
            BY <1>1, <5>3, <6>1
          <6> QED
            BY ONLY <3>1, <5>1, <6>2, j \in 1 .. m - 1 DEF InTurn
        <5> QED
          BY <5>2, <5>3
      <4> QED
        BY ONLY <3>3, <4>1, <4>2 DEF InTurn
    <3> QED
      BY ONLY <1>3, <3>1, <3>2, <3>3
  <2> QED
    BY <2>1, <2>2
<1>8. CallsFollow(l, ds)
  BY ONLY <1>1, <1>7 DEF CallsFollow
<1> QED
  BY ONLY <1>3, <1>4, <1>6, <1>8

(* handle_block.                                                           *)
LEMMA DelegateHandlesOrder ==
    ASSUME IndInv, InOrder, DelegateHandles
    PROVE  InOrder'
<1>1. /\ known \in SUBSET Blocks /\ calls \in Seq(Call) /\ KnownFollow(known)
      /\ CallsFollow(known, calls) /\ accepted \subseteq known \cup {Genesis}
      /\ \A q \in Peers : Follows(known, calls, conn[q])
  BY Parts DEF InOrder
<1>2. conn' = conn /\ accepted' = accepted
  BY DEF DelegateHandles
<1>3. PICK i \in DOMAIN calls :
         /\ calls[i].result = "waits" /\ \A j \in 1 .. i - 1 : calls[j].result # "waits"
         /\ calls' = [calls EXCEPT ![i].result = Verdict(known, calls[i].block)]
         /\ known' = After(known, calls[i].block)
  BY Zenon DEF DelegateHandles, Verdict, After
<1>4. PICK c \in Call : c = calls[i]
  BY <1>1
<1>a. PICK r : r = Verdict(known, c.block)
  OBVIOUS
<1>b. PICK d : /\ d = [c EXCEPT !.result = r]
               /\ d.block = c.block /\ d.sync = c.sync /\ d.result = r
  <2>1. /\ [c EXCEPT !.result = r].block = c.block /\ [c EXCEPT !.result = r].sync = c.sync
        /\ [c EXCEPT !.result = r].result = r
    BY ONLY c \in Call DEF Call
  <2> QED
    BY ONLY <2>1
<1>5. PICK ds : /\ ds = calls' /\ DOMAIN ds = DOMAIN calls /\ ds[i] = d
                /\ \A j \in DOMAIN calls : j # i => ds[j] = calls[j]
  <2>1. calls' = [calls EXCEPT ![i] = d]
    BY ONLY <1>3, <1>4, <1>a, <1>b
  <2>2. /\ DOMAIN calls' = DOMAIN calls /\ calls'[i] = d
        /\ \A j \in DOMAIN calls : j # i => calls'[j] = calls[j]
    BY ONLY <1>1, <2>1, i \in DOMAIN calls
  <2> QED
    BY ONLY <2>2
<1>6. PICK l : l = known' /\ l = After(known, calls[i].block)
  BY <1>3
<1>7. /\ KnownFollow(l) /\ CallsFollow(l, ds) /\ known \subseteq l
      /\ \A b : UnderWay(calls, b) => Sure(l, ds, b)
  <2>1. /\ ds[i].block = calls[i].block /\ ds[i].sync = calls[i].sync
        /\ ds[i].result = Verdict(known, calls[i].block)
    BY ONLY <1>4, <1>5, <1>a, <1>b
  <2>2. calls[i].result = "waits" /\ \A j \in 1 .. i - 1 : calls[j].result # "waits"
    BY <1>3
  <2>3. DOMAIN ds = DOMAIN calls /\ \A j \in DOMAIN calls : j # i => ds[j] = calls[j]
    BY <1>5
  <2>4. l = After(known, calls[i].block) /\ Decided(known, calls, ds, i)
    BY ONLY <1>6, <2>1, <2>2, <2>3 DEF Decided
  <2>5. known \in SUBSET Blocks /\ calls \in Seq(Call) /\ KnownFollow(known) /\ CallsFollow(known, calls)
    BY <1>1
  <2> QED
    BY ONLY <2>4, <2>5, i \in DOMAIN calls, CallDecided
<1>8. accepted' \subseteq known' \cup {Genesis}
  BY ONLY <1>1, <1>2, <1>6, <1>7
<1> QED
  BY ONLY <1>1, <1>2, <1>5, <1>6, <1>7, <1>8, OrderStep

(* What the loop of process_backlog_of_sync_blocks keeps of the order.     *)
Handed(c, k) == CallsFollow(known, k) /\ \A q \in Peers : Follows(known, k, c[q])

(* A sure block leaves the lists it begins.                                *)
LEMMA PoppedOrder ==
    ASSUME NEW c \in [Peers -> Connection], NEW k, NEW b, Sure(known, k, b),
           NEW q \in Peers, Linked(c[q].toGet), Follows(known, k, c[q])
    PROVE  Follows(known, k, Popped(c, b)[q])
<1>1. PICK d \in Connection : d = c[q] /\ Linked(d.toGet) /\ Follows(known, k, d)
  OBVIOUS
<1>2. CASE q \in Active(c) /\ d.toGet # <<>> /\ d.toGet[1] = b
  <2>1. d.toGet \in Seq(Blocks) /\ d.st = "active"
    BY <1>1, <1>2 DEF Connection, Active
  <2>2. PICK n \in Nat : n = Len(d.toGet) /\ n >= 1 /\ DOMAIN d.toGet = 1 .. n
    BY ONLY <1>2, <2>1
  <2>3. PICK x : /\ x = Tail(d.toGet) /\ DOMAIN x = 1 .. n - 1 /\ (x # <<>> => n >= 2)
                 /\ \A j \in 1 .. n - 1 : x[j] = d.toGet[j + 1]
    <3>1. /\ DOMAIN Tail(d.toGet) = 1 .. n - 1 /\ Len(Tail(d.toGet)) = n - 1
          /\ Tail(d.toGet) \in Seq(Blocks)
          /\ \A j \in 1 .. n - 1 : Tail(d.toGet)[j] = d.toGet[j + 1]
      BY ONLY <1>2, <2>1, <2>2
    <3>2. Tail(d.toGet) # <<>> => n - 1 # 0
      BY ONLY <3>1
    <3>3. PICK x : /\ x = Tail(d.toGet) /\ DOMAIN x = 1 .. n - 1 /\ (x # <<>> => n - 1 # 0)
                   /\ \A j \in 1 .. n - 1 : x[j] = d.toGet[j + 1]
      BY ONLY <3>1, <3>2
    <3>4. n >= 1
      BY <2>2
    <3>5. n - 1 # 0 => n >= 2
      BY ONLY <3>4, n \in Nat
    <3> QED
      BY ONLY <3>3, <3>5
  <2>4. PICK y : y = d.processing \cup {b}
    OBVIOUS
  <2>5. PICK e : /\ e = [d EXCEPT !.toGet = x, !.processing = y]
                 /\ e.toGet = x /\ e.st = d.st /\ e.asked = d.asked
    <3>1. LET e == [d EXCEPT !.toGet = x, !.processing = y]
          IN  e.toGet = x /\ e.st = d.st /\ e.asked = d.asked
      BY ONLY d \in Connection DEF Connection
    <3> QED
      BY ONLY <3>1
  <2>6. Popped(c, b)[q] = e
    <3>1. Popped(c, b)[q] = [d EXCEPT !.toGet = Tail(d.toGet), !.processing = d.processing \cup {b}]
      BY ONLY <1>1, <1>2, q \in Peers DEF Popped
    <3> QED
      BY ONLY <2>3, <2>4, <2>5, <3>1
  <2>7. Leads(known, k, x)
    <3>1. CASE x # <<>>
      <4>1. 1 \in 1 .. n - 1 /\ 1 + 1 = 2
        BY ONLY <2>3, <3>1, n \in Nat
      <4>2. x[1] = d.toGet[2] /\ Parent[d.toGet[2]] = d.toGet[1]
        BY ONLY <1>1, <2>2, <2>3, <4>1 DEF Linked
      <4> QED
        BY ONLY <1>2, <4>2, Sure(known, k, b) DEF Leads
    <3>2. CASE x = <<>>
      BY <3>2 DEF Leads
    <3> QED
      BY <3>1, <3>2
  <2>8. ASSUME e.asked # NotAsked, NEW i \in DOMAIN e.asked
        PROVE  Sure(known, k, e.asked[i]) \/ \E j \in DOMAIN x : x[j] = e.asked[i]
    <3>1. Sure(known, k, e.asked[i]) \/ \E j \in DOMAIN d.toGet : d.toGet[j] = e.asked[i]
      BY ONLY <1>1, <2>1, <2>5, <2>8 DEF Follows
    <3>2. ASSUME NEW j \in 1 .. n, d.toGet[j] = e.asked[i]
          PROVE  Sure(known, k, e.asked[i]) \/ \E m \in DOMAIN x : x[m] = e.asked[i]
      <4>1. CASE j = 1
        BY ONLY <1>2, <3>2, <4>1, Sure(known, k, b)
      <4>2. CASE j # 1
        <5>1. j - 1 \in 1 .. n - 1 /\ (j - 1) + 1 = j
          BY ONLY <4>2, n \in Nat, j \in 1 .. n
        <5> QED
          BY ONLY <2>3, <3>2, <5>1
      <4> QED
        BY <4>1, <4>2
    <3> QED
      BY ONLY <2>2, <3>1, <3>2
  <2>9. e.asked # <<>>
    BY ONLY <1>1, <1>2, <2>1, <2>5 DEF Follows
  <2> QED
    BY ONLY <2>5, <2>6, <2>7, <2>8, <2>9 DEF Follows
<1>3. CASE ~(q \in Active(c) /\ d.toGet # <<>> /\ d.toGet[1] = b)
  <2>1. Popped(c, b)[q] = d
    BY ONLY <1>1, <1>3, q \in Peers DEF Popped
  <2> QED
    BY ONLY <1>1, <2>1
<1> QED
  BY <1>2, <1>3

(* One turn: the block it hands over is the first one of a list, so that   *)
(* its parent is sure.                                                     *)
LEMMA TurnOrder ==
    ASSUME InOrder, NEW s \in Loop, Handed(s.conn, s.calls)
    PROVE  Handed(Turn(s).conn, Turn(s).calls)
<1>1. PICK c \in [Peers -> Connection], r \in Seq(Blocks), k \in Seq(Call), t \in BOOLEAN :
         /\ c = s.conn /\ r = s.received /\ k = s.calls /\ t = s.stop
         /\ s = [conn |-> c, received |-> r, calls |-> k, stop |-> t]
  BY DEF Loop
<1>2. /\ \A q \in Peers : Same(conn[q], c[q])
      /\ Handed(c, k) /\ accepted \subseteq known \cup {Genesis}
  BY <1>1 DEF Loop, InOrder
<1>a. \A q \in Peers : Linked(c[q].toGet)
  BY ONLY <1>2 DEF Same
<1> DEFINE I == {i \in 1 .. Len(r) : IsNext(c, r[i])}
           n == SelectInSeq(r, LAMBDA b : IsNext(c, b))
           b == r[n]
           a == [block |-> b, sync |-> TRUE, from |-> Genesis, result |-> "waits"]
           more == Append(k, a)
<1>3. n = IF I # {} THEN Min(I) ELSE 0
  BY DEF SelectInSeq
<1>4. n = 0 \/ (n \in 1 .. Len(r) /\ IsNext(c, b))
  <2>1. I \in SUBSET Nat /\ \A i \in I : i \in 1 .. Len(r) /\ IsNext(c, r[i])
    OBVIOUS
  <2> HIDE DEF I, n
  <2>2. CASE I = {}
    BY <1>3, <2>2
  <2>3. CASE I # {}
    <3>1. Min(I) \in I
      BY <2>1, <2>3, MinIsLeast
    <3> QED
      BY <1>3, <2>1, <2>3, <3>1
  <2> QED
    BY <2>2, <2>3
<1>5. Turn(s) = IF t \/ n = 0 THEN [s EXCEPT !.stop = TRUE]
                ELSE IF b \in accepted THEN [s EXCEPT !.conn = Popped(c, b), !.stop = TRUE]
                ELSE [conn |-> Popped(c, b), received |-> RemoveAt(r, n), calls |-> more,
                      stop |-> SyncCalls(more) >= MaxHandle]
  BY <1>1 DEF Turn
<1> HIDE DEF n
<1>6. CASE t \/ n = 0
  <2>1. Turn(s) = [conn |-> c, received |-> r, calls |-> k, stop |-> TRUE]
    BY ONLY <1>1, <1>5, <1>6
  <2>2. Turn(s).conn = c /\ Turn(s).calls = k
    BY ONLY <2>1
  <2> QED
    BY ONLY <1>2, <2>2
<1>7. CASE ~(t \/ n = 0)
  <2>1. b \in Blocks /\ IsNext(c, b)
    BY <1>4, <1>7
  <2> HIDE DEF b
  <2>2. CASE b \in accepted
    <3>1. Turn(s) = [conn |-> Popped(c, b), received |-> r, calls |-> k, stop |-> TRUE]
      BY ONLY <1>1, <1>5, <1>7, <2>2
    <3>2. Turn(s).conn = Popped(c, b) /\ Turn(s).calls = k
      BY ONLY <3>1
    <3>3. Sure(known, k, b)
      BY ONLY <1>2, <2>2 DEF Sure
    <3>4. CallsFollow(known, k) /\ \A q \in Peers : Follows(known, k, c[q])
      BY ONLY <1>2 DEF Handed
    <3>5. \A q \in Peers : Follows(known, k, Popped(c, b)[q])
      BY ONLY <1>a, <3>3, <3>4, c \in [Peers -> Connection], PoppedOrder
    <3> QED
      BY ONLY <3>2, <3>4, <3>5 DEF Handed
  <2>3. CASE b \notin accepted
    <3>1. Turn(s) = [conn |-> Popped(c, b), received |-> RemoveAt(r, n), calls |-> more,
                     stop |-> SyncCalls(more) >= MaxHandle]
      BY ONLY <1>5, <1>7, <2>3
    <3>2. Turn(s).conn = Popped(c, b) /\ Turn(s).calls = more
      BY ONLY <3>1
    <3>3. a \in Call /\ a.sync /\ a.result = "waits" /\ a.block = b
      <4>1. TRUE \in BOOLEAN /\ Genesis \in Peers \cup {Genesis}
        OBVIOUS
      <4> QED
        BY <2>1, <4>1 DEF Call
    <3> HIDE DEF a
    <3>4. CallsFollow(known, k) /\ \A q \in Peers : Follows(known, k, c[q])
      BY ONLY <1>2 DEF Handed
    <3>5. Tainted(b) \/ Sure(known, k, Parent[b])
      <4>1. PICK p \in Peers : c[p].st = "active" /\ c[p].toGet # <<>> /\ c[p].toGet[1] = b
        BY ONLY <2>1 DEF IsNext, Active
      <4>2. Leads(known, k, c[p].toGet)
        BY ONLY <3>4, <4>1, p \in Peers DEF Follows
      <4> QED
        BY ONLY <4>1, <4>2 DEF Leads
    <3>6. /\ CallsFollow(known, more) /\ UnderWay(more, b)
          /\ \A x : UnderWay(k, x) => UnderWay(more, x)
      BY ONLY <3>3, <3>4, <3>5, k \in Seq(Call), CallAppended
    <3> HIDE DEF more
    <3>7. Sure(known, more, b) /\ \A x : Sure(known, k, x) => Sure(known, more, x)
      BY ONLY <3>6 DEF Sure
    <3>8. \A q \in Peers : Follows(known, more, c[q])
      BY ONLY <3>4, <3>7, FollowsLater
    <3>9. \A q \in Peers : Follows(known, more, Popped(c, b)[q])
      BY ONLY <1>a, <3>7, <3>8, c \in [Peers -> Connection], PoppedOrder
    <3> QED
      BY ONLY <3>2, <3>6, <3>9 DEF Handed
  <2> QED
    BY <2>2, <2>3
<1> QED
  BY <1>6, <1>7

(* process_backlog_of_sync_blocks.                                         *)
LEMMA ProcessBacklogOrder ==
    ASSUME IndInv, InOrder, ProcessBacklog
    PROVE  InOrder'
<1>1. known' = known /\ accepted' = accepted
  BY DEF ProcessBacklog
<1>2. CASE SyncCalls(calls) >= MaxHandle
  <2>1. conn' = conn /\ calls' = calls
    BY <1>2 DEF ProcessBacklog
  <2> QED
    BY ONLY <1>1, <2>1, InOrder, SameOrder
<1>3. CASE ~(SyncCalls(calls) >= MaxHandle)
  <2>1. conn' = Backlog.conn /\ calls' = Backlog.calls
    BY <1>3 DEF ProcessBacklog
  <2>2. Handed(conn, calls)
    BY DEF InOrder, Handed
  <2>3. PICK L : L = {s \in Loop : Handed(s.conn, s.calls)}
    OBVIOUS
  <2>4. PICK u \in Loop :
           u = [conn |-> conn, received |-> fresh \o received, calls |-> calls, stop |-> FALSE]
    BY <1>3, BacklogStarts
  <2>5. u \in L
    <3>1. u.conn = conn /\ u.calls = calls
      BY ONLY <2>4
    <3> QED
      BY ONLY <2>2, <2>3, <3>1, u \in Loop
  <2>6. \A s \in L : Turn(s) \in L
    BY ONLY <2>3, InOrder, TurnFacts, TurnOrder
  <2>7. Backlog \in L
    BY ONLY <2>4, <2>5, <2>6, IndInv, BacklogKeeps
  <2>8. Handed(conn', calls')
    BY ONLY <2>1, <2>3, <2>7
  <2> QED
    BY <1>1, <2>8 DEF Handed, InOrder
<1> QED
  BY <1>2, <1>3
-----------------------------------------------------------------------------
(* Every step keeps the order.                                             *)
LEMMA NextOrder == IndInv /\ InOrder /\ [Next]_vars => InOrder'
<1> SUFFICES ASSUME IndInv, InOrder, [Next]_vars PROVE InOrder'
  OBVIOUS
<1>1. CASE Node
  BY <1>1, FetchesOrder, ProcessBacklogOrder, DelegateHandlesOrder DEF Node
<1>2. CASE Returns
  BY <1>2, SyncAcceptedOrder, SyncRejectedOrder, NormalAcceptedOrder, NormalUnlinkableOrder,
     NormalRejectedOrder DEF Returns
<1>3. ASSUME NEW p \in Peers, Handles(p) PROVE InOrder'
  BY <1>3, OnIdsOrder, OnSynopsisOrder, OnInventoryOrder, OnBlockOrder, OnMissingOrder DEF Handles
<1>4. ASSUME NEW p \in Peers, PeerReplies(p) \/ PeerAdvances(p) PROVE InOrder'
  <2>1. known' = known /\ accepted' = accepted /\ calls' = calls /\ conn' = conn
    BY <1>4 DEF PeerReplies, PeerAdvances
  <2> QED
    BY ONLY <2>1, InOrder, SameOrder
<1>5. ASSUME NEW p \in Peers, ClosingEnds(p) \/ ConnectionLost(p) PROVE InOrder'
  <2>1. Closed(p, "closed") \/ Closed(p, "dropped")
    BY <1>5 DEF ClosingEnds, ConnectionLost
  <2> QED
    BY <2>1, ClosedOrder
<1>6. ASSUME NEW p \in Peers, Reconnect(p) PROVE InOrder'
  BY <1>6, ReconnectOrder
<1>7. CASE UNCHANGED vars
  <2>1. known' = known /\ accepted' = accepted /\ calls' = calls /\ conn' = conn
    BY <1>7 DEF vars
  <2> QED
    BY ONLY <2>1, InOrder, SameOrder
<1> QED
  BY <1>1, <1>2, <1>3, <1>4, <1>5, <1>6, <1>7 DEF Next

(* Blocks of the sync are handed to the delegate in an order in which each *)
(* one links, unless its chain holds a block that the delegate rejects:    *)
(* whichever peers deliver them, in whatever order, whatever connections   *)
(* are lost and whatever replies replace a list meanwhile.                 *)
(* send_sync_block_to_node_delegate never disconnects a peer for a block   *)
(* that is merely early.                                                   *)
THEOREM SyncStaysInOrder == Spec => []SyncInOrder
<1>1. InOrder => SyncInOrder
  BY DEF InOrder, CallsFollow, Tainted, SyncInOrder
<1>2. Spec => []InOrder
  BY InitOrder, NextOrder, Invariance, PTL DEF Spec
<1> QED
  BY <1>1, <1>2, PTL
=============================================================================
