--------------------- MODULE ConstructionCapitalProofs ---------------------
(***************************************************************************)
(* Proofs about ConstructionCapital, for any offers, rates and limits.     *)
(***************************************************************************)
EXTENDS ConstructionCapital, NumberLemmas, SequenceTheorems, FiniteSetTheorems, TLAPS

(***************************************************************************)
(* The inductive invariant.  It is stated of the capitals and the summary  *)
(* as they are, and of those to which the session of an incentive          *)
(* transaction would go back.                                              *)
(***************************************************************************)
Capital == [offer : Offers, achieved : Nat, pending : Nat, left_vote_point : Nat,
            next_slot : Nat, timestamp : Nat, paid : Nat, done : BOOLEAN]
Summary == [count_in_life : Nat, deposit_in_life : Nat]
Op      == [cc : Nat, reason : {0, 1, 2}]

PointsOf(o)  == o.amount * o.period * o.total_periods
DepositOf(o) == o.amount \div o.total_periods
OwedOf(cc)   == cc.offer.amount - cc.achieved * DepositOf(cc.offer)

(* What is owed for all capitals.                                          *)
TotalOwed(cs) == SumFunctionOnSet([c \in DOMAIN cs |-> OwedOf(cs[c])], DOMAIN cs)

(* Every period that was achieved has paid back its part.                  *)
Sound(cc) ==
    /\ cc.achieved <= cc.offer.total_periods
    /\ cc.pending < Uint16
    /\ cc.done <=> cc.achieved = cc.offer.total_periods
    /\ cc.paid >= cc.achieved * DepositOf(cc.offer)

Books(cs, sm) ==
    /\ cs \in Seq(Capital)
    /\ \A c \in DOMAIN cs : Sound(cs[c])
    /\ sm \in Summary
    /\ sm.count_in_life = Cardinality({c \in DOMAIN cs : ~cs[c].done})
    /\ sm.deposit_in_life = TotalOwed(cs)

(* The points of all votes for a capital.                                  *)
Given(cs, vs, c) ==
    SumFunctionOnSet([a \in DOMAIN cs |-> PointsOf(cs[a].offer)],
                     {a \in DOMAIN cs : <<a, c>> \in vs})

(* b of the periods of cc were paid by time, and the votes for it, which   *)
(* are worth g, have brought forward k others; those that were paid and    *)
(* those that are pending are k more than b, or pending was taken below    *)
(* zero and they are 2^16 more.                                            *)
Balanced(cc, g, b, k) ==
    /\ cc.next_slot = cc.timestamp + cc.offer.period * (b + 1)
    /\ g = k * PointsOf(cc.offer) + cc.left_vote_point
    /\ b <= cc.achieved /\ k <= cc.offer.total_periods
    /\ cc.achieved + cc.pending = b + k \/ cc.achieved + cc.pending = b + k + Uint16

Ballots(cs, vs) ==
    \A c \in DOMAIN cs : \E b, k \in Nat : Balanced(cs[c], Given(cs, vs, c), b, k)

SessionInv ==
    /\ ops \in Seq(Op)
    /\ ops = <<>> => session = <<>>
    /\ ops # <<>> => /\ session # <<>>
                     /\ Books(session[1], session[2]) /\ Ballots(session[1], votes)
                     /\ DOMAIN session[1] = DOMAIN capitals

IndInv ==
    /\ time \in 0 .. MaxTime /\ rate \in Rates
    /\ votes \subseteq Ids \X Ids
    /\ Books(capitals, summary)
    /\ Ballots(capitals, votes)
    /\ SessionInv
-----------------------------------------------------------------------------
(***************************************************************************)
(* Amounts.                                                                *)
(***************************************************************************)

(* The modulus of a counter is a number above 1.                           *)
LEMMA Uint16Type == Uint16 \in Nat /\ Uint16 > 1
  BY DEF Uint16

(* The part of a period times the periods is the amount, but for less than *)
(* one unit a period.                                                      *)
LEMMA OfferFacts ==
    ASSUME NEW o \in Offers
    PROVE  /\ o.amount \in Nat \ {0} /\ o.period \in Nat \ {0} /\ o.total_periods \in Nat \ {0}
           /\ o.total_periods < Uint16
           /\ PointsOf(o) \in Nat \ {0}
           /\ DepositOf(o) \in Nat
           /\ o.total_periods * DepositOf(o) <= o.amount
           /\ o.total_periods * DepositOf(o) > o.amount - o.total_periods
<1>1. /\ o.amount \in Nat \ {0} /\ o.period \in Nat \ {0} /\ o.total_periods \in Nat \ {0}
      /\ o.total_periods < Uint16
  BY OffersAssumption, Uint16Type
<1>2. \A x, y \in Nat \ {0} : x * y \in Nat \ {0}
  OBVIOUS
<1>3. PointsOf(o) \in Nat \ {0}
  <2>1. o.amount * o.period \in Nat \ {0}
    BY <1>1, <1>2
  <2> QED
    BY <1>1, <1>2, <2>1 DEF PointsOf
<1>4. PICK d \in Int, q \in 0 .. o.total_periods - 1 :
         o.amount = o.total_periods * d + q /\ d = DepositOf(o)
  <2>1. PICK x \in Int, n \in Nat \ {0} : x = o.amount /\ n = o.total_periods
    BY <1>1
  <2>2. PICK d \in Int, q \in 0 .. n - 1 : x = n * d + q /\ d = x \div n
    BY DivisionFacts
  <2> QED
    BY <2>1, <2>2 DEF DepositOf
<1>5. PICK m \in Int : m = o.total_periods * d
  BY <1>1
<1>6. d \in Nat
  <2>1. o.total_periods * 0 <= o.amount
    BY <1>1
  <2>2. 0 <= d
    BY <1>1, <1>4, <2>1, DivisionAtLeast DEF DepositOf
  <2> QED
    BY <2>2
<1>7. m <= o.amount /\ m > o.amount - o.total_periods
  BY <1>1, <1>4, <1>5
<1> QED
  BY <1>1, <1>3, <1>4, <1>5, <1>6, <1>7

(* Multiplication keeps an order.                                          *)
LEMMA TimesMonotone ==
    ASSUME NEW a \in Nat, NEW b \in Nat, NEW d \in Nat, a <= b
    PROVE  a * d \in Nat /\ b * d \in Nat /\ a * d <= b * d
OBVIOUS

(* What a capital has still to get back is not negative.                   *)
LEMMA OwedFacts ==
    ASSUME NEW cc \in Capital, Sound(cc)
    PROVE  OwedOf(cc) \in Nat
<1>1. cc.offer \in Offers /\ cc.achieved \in Nat
  BY DEF Capital
<1>2. PICK d \in Nat, t \in Nat, a \in Nat :
         /\ d = DepositOf(cc.offer) /\ t = cc.offer.total_periods /\ a = cc.offer.amount
         /\ t * d <= a
  BY <1>1, OfferFacts
<1>3. cc.achieved * d \in Nat /\ cc.achieved * d <= t * d /\ t * d \in Nat
  BY <1>1, <1>2, TimesMonotone DEF Sound
<1>4. a - cc.achieved * d \in Nat
  <2>1. PICK m \in Nat, n \in Nat : m = cc.achieved * d /\ n = t * d
    BY <1>3
  <2>2. m <= a
    BY <1>2, <1>3, <2>1
  <2> QED
    BY <2>1, <2>2
<1> QED
  BY <1>2, <1>4 DEF OwedOf

(* The interest is not negative.                                           *)
LEMMA AmountFacts ==
    ASSUME NEW c \in Ids, capitals[c].offer \in Offers, rate \in Rates
    PROVE  Amount(c) \in Nat /\ Amount(c) >= DepositOf(capitals[c].offer)
<1> DEFINE o == capitals[c].offer
<1>1. PICK a \in Nat, p \in Nat, t \in Nat \ {0}, y \in Nat \ {0}, r \in Nat, d \in Nat :
         /\ a = o.amount /\ p = o.period /\ t = o.total_periods /\ y = Year /\ r = rate
         /\ d = DepositOf(o) /\ t * d <= a
  <2>1. Year \in Nat \ {0} /\ rate \in Nat
    BY ParametersAssumption
  <2> QED
    BY <2>1, OfferFacts
<1>2. Amount(c) = (a * y + a * p * r * t) \div (t * y)
  BY <1>1 DEF Amount
<1>3. PICK n \in Nat \ {0} : n = t * y
  OBVIOUS
<1>4. PICK i \in Nat : i = a * p * r * t
  <2>1. \A u, v \in Nat : u * v \in Nat
    OBVIOUS
  <2>2. a * p * r \in Nat
    BY <2>1
  <2>3. a * p * r * t \in Nat
    BY <2>1, <2>2
  <2> QED
    BY <2>3
<1>5. PICK x \in Nat : x = a * y + i
  OBVIOUS
<1>6. n * d <= x
  <2>1. n * d = (t * d) * y
    BY <1>3
  <2>2. (t * d) * y <= a * y /\ a * y \in Nat /\ (t * d) * y \in Nat
    <3>1. t * d \in Nat
      OBVIOUS
    <3> QED
      BY <1>1, <3>1, TimesMonotone
  <2>3. PICK u \in Nat, v \in Nat : u = a * y /\ v = n * d
    BY <2>1, <2>2
  <2>4. v <= u /\ x = u + i
    BY <1>5, <2>1, <2>2, <2>3
  <2> QED
    BY <2>3, <2>4
<1>7. d <= x \div n
  BY <1>6, DivisionAtLeast
<1>8. x \div n \in Int
  BY DivisionFacts
<1>9. Amount(c) = x \div n
  BY <1>2, <1>3, <1>4, <1>5
<1> QED
  BY <1>1, <1>7, <1>8, <1>9
-----------------------------------------------------------------------------
(***************************************************************************)
(* The books, when one capital changes.                                    *)
(***************************************************************************)
LEMMA SequenceDomain ==
    ASSUME NEW cs \in Seq(Capital)
    PROVE  /\ DOMAIN cs = 1 .. Len(cs) /\ Len(cs) \in Nat /\ IsFiniteSet(DOMAIN cs)
           /\ \A c \in DOMAIN cs : c \in Nat /\ cs[c] \in Capital
<1>1. DOMAIN cs = 1 .. Len(cs) /\ Len(cs) \in Nat
  OBVIOUS
<1>2. IsFiniteSet(1 .. Len(cs))
  BY <1>1, FS_Interval
<1> QED
  BY <1>1, <1>2

(* One capital is replaced.                                                *)
LEMMA Replaced ==
    ASSUME NEW cs \in Seq(Capital), NEW c \in DOMAIN cs, NEW new \in Capital,
           NEW ds, ds = [cs EXCEPT ![c] = new]
    PROVE  /\ ds \in Seq(Capital) /\ DOMAIN ds = DOMAIN cs /\ ds[c] = new
           /\ \A e \in DOMAIN cs : e # c => ds[e] = cs[e]
OBVIOUS

(* What is owed in all changes by what is owed for that capital.           *)
LEMMA OwedReplaced ==
    ASSUME NEW cs \in Seq(Capital), \A e \in DOMAIN cs : Sound(cs[e]),
           NEW c \in DOMAIN cs, NEW new \in Capital, Sound(new),
           NEW ds, ds = [cs EXCEPT ![c] = new]
    PROVE  TotalOwed(ds)
             = TotalOwed(cs)
                 - OwedOf(cs[c]) + OwedOf(new)
<1> DEFINE f == [e \in DOMAIN cs |-> OwedOf(cs[e])]
           k == [e \in DOMAIN ds |-> OwedOf(ds[e])]
           D == DOMAIN cs
           R == D \ {c}
<1>1. IsFiniteSet(D) /\ IsFiniteSet(R)
  BY SequenceDomain, FS_Difference
<1>2. DOMAIN ds = D /\ ds[c] = new /\ \A e \in D : e # c => ds[e] = cs[e]
  BY Replaced
<1>3. \A e \in D : f[e] \in Nat
  BY OwedFacts, SequenceDomain
<1>4. k[c] = OwedOf(new) /\ k[c] \in Nat /\ \A e \in R : k[e] = f[e]
  BY <1>2, OwedFacts
<1>5. \A e \in D : k[e] \in Int /\ f[e] \in Int
  BY <1>3, <1>4
<1>6. f[c] = OwedOf(cs[c]) /\ c \in D
  OBVIOUS
<1> HIDE DEF f, k, D
<1>7. /\ SumFunctionOnSet(f, D) = f[c] + SumFunctionOnSet(f, R)
      /\ SumFunctionOnSet(f, R) \in Int
  BY <1>1, <1>5, <1>6, SumSplit
<1>8. SumFunctionOnSet(k, D) = k[c] + SumFunctionOnSet(k, R)
  BY <1>1, <1>5, <1>6, SumSplit
<1>9. SumFunctionOnSet(k, R) = SumFunctionOnSet(f, R)
  <2>1. \A e \in R : f[e] \in Int /\ k[e] = f[e]
    BY <1>4, <1>5
  <2> QED
    BY <1>1, <2>1, SumAgrees
<1>10. SumFunctionOnSet(k, D) = SumFunctionOnSet(f, D) - f[c] + k[c]
  BY <1>5, <1>6, <1>7, <1>8, <1>9
<1> QED
  BY <1>2, <1>4, <1>6, <1>10 DEF f, k, D, TotalOwed

(* The points given depend on the offers only.                             *)
LEMMA GivenSame ==
    ASSUME NEW cs, NEW ds, NEW vs, NEW c, DOMAIN ds = DOMAIN cs,
           \A e \in DOMAIN cs : ds[e].offer = cs[e].offer
    PROVE  Given(ds, vs, c) = Given(cs, vs, c)
<1>1. [a \in DOMAIN ds |-> PointsOf(ds[a].offer)] = [a \in DOMAIN cs |-> PointsOf(cs[a].offer)]
  OBVIOUS
<1>2. {a \in DOMAIN ds : <<a, c>> \in vs} = {a \in DOMAIN cs : <<a, c>> \in vs}
  OBVIOUS
<1> QED
  BY <1>1, <1>2 DEF Given

(* One capital changes and stays balanced.                                 *)
LEMMA BallotsReplaced ==
    ASSUME NEW cs \in Seq(Capital), NEW vs, NEW c \in DOMAIN cs, NEW new \in Capital,
           new.offer = cs[c].offer, Ballots(cs, vs),
           \A b, k \in Nat, g \in Int : Balanced(cs[c], g, b, k) =>
                                         \E d, m \in Nat : Balanced(new, g, d, m),
           Given(cs, vs, c) \in Int,
           NEW ds, ds = [cs EXCEPT ![c] = new]
    PROVE  Ballots(ds, vs)
<1>1. DOMAIN ds = DOMAIN cs /\ ds[c] = new /\ \A e \in DOMAIN cs : e # c => ds[e] = cs[e]
  BY Replaced
<1>2. \A e \in DOMAIN cs : Given(ds, vs, e) = Given(cs, vs, e)
  <2>1. \A e \in DOMAIN cs : ds[e].offer = cs[e].offer
    BY <1>1
  <2> SUFFICES ASSUME NEW e \in DOMAIN cs PROVE Given(ds, vs, e) = Given(cs, vs, e)
    OBVIOUS
  <2> QED
    BY ONLY DOMAIN ds = DOMAIN cs, <2>1, GivenSame
<1>3. ASSUME NEW e \in DOMAIN cs
      PROVE  \E d, m \in Nat : Balanced(ds[e], Given(ds, vs, e), d, m)
  <2>1. PICK b \in Nat, k \in Nat : Balanced(cs[e], Given(cs, vs, e), b, k)
    BY DEF Ballots
  <2>2. CASE e # c
    BY <1>1, <1>2, <2>1, <2>2
  <2>3. CASE e = c
    <3>1. \E d, m \in Nat : Balanced(new, Given(cs, vs, c), d, m)
      BY <2>1, <2>3
    <3> QED
      BY <1>1, <1>2, <2>3, <3>1
  <2> QED
    BY <2>2, <2>3
<1> QED
  BY <1>1, <1>3 DEF Ballots

(* The points given are a natural number.                                  *)
LEMMA GivenType ==
    ASSUME NEW cs \in Seq(Capital), NEW vs, NEW c
    PROVE  Given(cs, vs, c) \in Nat
<1> DEFINE f == [a \in DOMAIN cs |-> PointsOf(cs[a].offer)]
           V == {a \in DOMAIN cs : <<a, c>> \in vs}
<1>1. IsFiniteSet(V) /\ V \subseteq DOMAIN cs
  <2>1. V \in SUBSET DOMAIN cs
    OBVIOUS
  <2> QED
    BY <2>1, SequenceDomain, FS_Subset
<1>2. \A a \in V : f[a] \in Nat
  <2>1. \A a \in DOMAIN cs : cs[a].offer \in Offers
    BY SequenceDomain DEF Capital
  <2> QED
    BY <2>1, OfferFacts
<1> HIDE DEF f, V
<1>3. SumFunctionOnSet(f, V) \in Nat
  BY <1>1, <1>2, SumOfNaturals
<1> QED
  BY <1>3 DEF Given, f, V

(* The totals of the books are natural numbers.                            *)
LEMMA TotalsType ==
    ASSUME NEW cs \in Seq(Capital), \A c \in DOMAIN cs : Sound(cs[c])
    PROVE  /\ IsFiniteSet({c \in DOMAIN cs : ~cs[c].done})
           /\ Cardinality({c \in DOMAIN cs : ~cs[c].done}) \in Nat
           /\ TotalOwed(cs) \in Nat
<1> DEFINE f == [c \in DOMAIN cs |-> OwedOf(cs[c])]
           D == DOMAIN cs
           L == {c \in DOMAIN cs : ~cs[c].done}
<1>1. IsFiniteSet(D)
  BY SequenceDomain
<1>2. L \in SUBSET D
  OBVIOUS
<1>3. \A c \in D : f[c] \in Nat
  BY SequenceDomain, OwedFacts
<1> HIDE DEF f, D, L
<1>4. IsFiniteSet(L) /\ Cardinality(L) \in Nat
  BY <1>1, <1>2, FS_Subset, FS_CardinalityType
<1>5. SumFunctionOnSet(f, D) \in Nat
  BY <1>1, <1>3, SumOfNaturals
<1> QED
  BY <1>4, <1>5 DEF f, D, L, TotalOwed

(* A capital changes in what its votes are worth only.                     *)
LEMMA BooksKept ==
    ASSUME NEW cs, NEW sm, Books(cs, sm),
           NEW c \in DOMAIN cs, NEW new \in Capital, Sound(new),
           OwedOf(new) = OwedOf(cs[c]), new.done = cs[c].done,
           NEW ds, ds = [cs EXCEPT ![c] = new]
    PROVE  Books(ds, sm)
<1>1. cs \in Seq(Capital) /\ \A e \in DOMAIN cs : Sound(cs[e])
  BY DEF Books
<1>2. /\ ds \in Seq(Capital) /\ DOMAIN ds = DOMAIN cs /\ ds[c] = new
      /\ \A e \in DOMAIN cs : e # c => ds[e] = cs[e]
  BY <1>1, Replaced
<1>3. \A e \in DOMAIN ds : Sound(ds[e])
  <2> SUFFICES ASSUME NEW e \in DOMAIN cs PROVE Sound(ds[e])
    BY <1>2
  <2>1. CASE e = c
    BY <1>2, <2>1
  <2>2. CASE e # c
    BY <1>1, <1>2, <2>2
  <2> QED
    BY <2>1, <2>2
<1>4. {e \in DOMAIN ds : ~ds[e].done} = {e \in DOMAIN cs : ~cs[e].done}
  BY ONLY <1>2, new.done = cs[c].done
<1>5. OwedOf(cs[c]) \in Nat
  BY <1>1, SequenceDomain, OwedFacts
<1>6. TotalOwed(ds)
        = TotalOwed(cs)
  <2>1. PICK s \in Nat : s = TotalOwed(cs)
    BY <1>1, TotalsType
  <2>2. TotalOwed(ds)
          = s - OwedOf(cs[c]) + OwedOf(new)
    BY <1>1, <2>1, OwedReplaced
  <2> QED
    BY ONLY <1>5, <2>1, <2>2, OwedOf(new) = OwedOf(cs[c])
<1> QED
  BY ONLY Books(cs, sm), <1>2, <1>3, <1>4, <1>6 DEF Books

(* One more period of a capital is paid; the last one removes it.          *)
LEMMA BooksPaid ==
    ASSUME NEW cs, NEW sm, Books(cs, sm),
           NEW c \in DOMAIN cs, NEW new \in Capital, Sound(new),
           new.offer = cs[c].offer, new.achieved = cs[c].achieved + 1, ~cs[c].done,
           NEW ds, ds = [cs EXCEPT ![c] = new],
           NEW sn, sn = [count_in_life   |-> IF new.done THEN sm.count_in_life - 1
                                             ELSE sm.count_in_life,
                         deposit_in_life |-> sm.deposit_in_life - DepositOf(cs[c].offer)]
    PROVE  Books(ds, sn)
<1>1. cs \in Seq(Capital) /\ \A e \in DOMAIN cs : Sound(cs[e])
  BY DEF Books
<1>2. /\ ds \in Seq(Capital) /\ DOMAIN ds = DOMAIN cs /\ ds[c] = new
      /\ \A e \in DOMAIN cs : e # c => ds[e] = cs[e]
  BY <1>1, Replaced
<1>3. \A e \in DOMAIN ds : Sound(ds[e])
  <2> SUFFICES ASSUME NEW e \in DOMAIN cs PROVE Sound(ds[e])
    BY <1>2
  <2>1. CASE e = c
    BY <1>2, <2>1
  <2>2. CASE e # c
    BY <1>1, <1>2, <2>2
  <2> QED
    BY <2>1, <2>2
<1> DEFINE L == {e \in DOMAIN cs : ~cs[e].done}
           M == {e \in DOMAIN ds : ~ds[e].done}
<1>4. /\ IsFiniteSet(L) /\ Cardinality(L) \in Nat /\ c \in L
      /\ Cardinality(M) \in Nat
  BY <1>1, <1>2, <1>3, TotalsType
<1>5. M = IF new.done THEN L \ {c} ELSE L
  BY ONLY <1>2, ~cs[c].done, c \in DOMAIN cs
<1>6. Cardinality(M) = IF new.done THEN Cardinality(L) - 1 ELSE Cardinality(L)
  <2> HIDE DEF L, M
  <2>1. Cardinality(L \ {c}) = Cardinality(L) - 1
    BY <1>4, FS_RemoveElement
  <2> QED
    BY <1>5, <2>1
<1>7. OwedOf(cs[c]) \in Nat /\ OwedOf(new) \in Nat /\ OwedOf(new) = OwedOf(cs[c]) - DepositOf(cs[c].offer)
  <2>1. cs[c] \in Capital /\ Sound(cs[c])
    BY <1>1, SequenceDomain
  <2>2. cs[c].offer \in Offers /\ cs[c].achieved \in Nat
    BY <2>1 DEF Capital
  <2>3. PICK d \in Nat, a \in Nat, n \in Nat :
          d = DepositOf(cs[c].offer) /\ a = cs[c].offer.amount /\ n = cs[c].achieved
    BY <2>2, OfferFacts
  <2>4. OwedOf(cs[c]) = a - n * d /\ OwedOf(new) = a - (n + 1) * d
    BY <2>3 DEF OwedOf
  <2>5. (n + 1) * d = n * d + d /\ n * d \in Nat
    OBVIOUS
  <2>6. OwedOf(cs[c]) \in Nat /\ OwedOf(new) \in Nat
    BY <2>1, OwedFacts
  <2>7. PICK m \in Nat : m = n * d
    BY <2>5
  <2> QED
    BY ONLY <2>3, <2>4, <2>5, <2>6, <2>7, d \in Nat, a \in Nat, m \in Nat
<1>8. TotalOwed(ds)
        = TotalOwed(cs) - DepositOf(cs[c].offer)
  <2>1. PICK s \in Nat : s = TotalOwed(cs)
    BY <1>1, TotalsType
  <2>2. TotalOwed(ds)
          = s - OwedOf(cs[c]) + OwedOf(new)
    BY <1>1, <2>1, OwedReplaced
  <2>3. DepositOf(cs[c].offer) \in Nat
    <3>1. cs[c].offer \in Offers
      BY <1>1, SequenceDomain DEF Capital
    <3> QED
      BY <3>1, OfferFacts
  <2> QED
    BY ONLY <1>7, <2>1, <2>2, <2>3
<1>9. TotalOwed(ds) \in Nat
  BY <1>2, <1>3, TotalsType
<1>10. /\ sm.count_in_life = Cardinality(L)
       /\ sm.deposit_in_life = TotalOwed(cs)
  BY DEF Books
<1>11. /\ sn.count_in_life = Cardinality(M)
       /\ sn.deposit_in_life = TotalOwed(ds)
  <2> HIDE DEF L, M
  <2>1. /\ sn.count_in_life = IF new.done THEN sm.count_in_life - 1 ELSE sm.count_in_life
        /\ sn.deposit_in_life = sm.deposit_in_life - DepositOf(cs[c].offer)
    OBVIOUS
  <2> QED
    BY ONLY <2>1, <1>6, <1>8, <1>10
<1>12. sn \in Summary
  <2>1. sn = [count_in_life |-> sn.count_in_life, deposit_in_life |-> sn.deposit_in_life]
    OBVIOUS
  <2>2. sn.count_in_life \in Nat /\ sn.deposit_in_life \in Nat
    BY ONLY <1>4, <1>9, <1>11
  <2> QED
    BY ONLY <2>1, <2>2 DEF Summary
<1> QED
  BY ONLY <1>2, <1>3, <1>11, <1>12 DEF Books, L, M

(* A capital is appended.                                                  *)
LEMMA Appended ==
    ASSUME NEW cs \in Seq(Capital), NEW new \in Capital, NEW ds, ds = Append(cs, new),
           NEW n, n = Len(cs) + 1
    PROVE  /\ ds \in Seq(Capital) /\ DOMAIN ds = DOMAIN cs \cup {n} /\ n \notin DOMAIN cs
           /\ ds[n] = new /\ \A e \in DOMAIN cs : ds[e] = cs[e]
OBVIOUS

(* A new capital is counted and owed its amount.                           *)
LEMMA BooksAppended ==
    ASSUME NEW cs, NEW sm, Books(cs, sm), NEW new \in Capital, Sound(new),
           new.achieved = 0, ~new.done, NEW ds, ds = Append(cs, new),
           NEW sn, sn = [count_in_life   |-> sm.count_in_life + 1,
                         deposit_in_life |-> sm.deposit_in_life + new.offer.amount]
    PROVE  Books(ds, sn)
<1>1. cs \in Seq(Capital) /\ \A e \in DOMAIN cs : Sound(cs[e])
  BY DEF Books
<1>2. PICK n : n = Len(cs) + 1
  OBVIOUS
<1>3. /\ ds \in Seq(Capital) /\ DOMAIN ds = DOMAIN cs \cup {n} /\ n \notin DOMAIN cs
      /\ ds[n] = new /\ \A e \in DOMAIN cs : ds[e] = cs[e]
  BY <1>1, <1>2, Appended
<1>4. \A e \in DOMAIN ds : Sound(ds[e])
  BY ONLY <1>1, <1>3, Sound(new)
<1> DEFINE L == {e \in DOMAIN cs : ~cs[e].done}
           M == {e \in DOMAIN ds : ~ds[e].done}
           f == [e \in DOMAIN cs |-> OwedOf(cs[e])]
           k == [e \in DOMAIN ds |-> OwedOf(ds[e])]
           D == DOMAIN cs
           E == DOMAIN ds
<1>5. /\ IsFiniteSet(L) /\ Cardinality(L) \in Nat /\ SumFunctionOnSet(f, D) \in Nat
      /\ Cardinality(M) \in Nat /\ SumFunctionOnSet(k, E) \in Nat
  BY <1>1, <1>3, <1>4, TotalsType DEF TotalOwed
<1>6. M = L \cup {n} /\ n \notin L
  BY ONLY <1>3, ~new.done
<1>7. IsFiniteSet(D) /\ IsFiniteSet(E) /\ E = D \cup {n} /\ n \notin D
  BY <1>1, <1>3, SequenceDomain
<1>8. OwedOf(new) = new.offer.amount /\ OwedOf(new) \in Nat
  <2>1. OwedOf(new) \in Nat
    BY OwedFacts
  <2>2. new.offer \in Offers
    BY DEF Capital
  <2>3. PICK d \in Nat, a \in Nat : d = DepositOf(new.offer) /\ a = new.offer.amount
    BY <2>2, OfferFacts
  <2>4. a - 0 * d = a
    OBVIOUS
  <2> QED
    BY <2>1, <2>3, <2>4 DEF OwedOf
<1>9. \A e \in D : f[e] \in Nat /\ k[e] = f[e]
  BY <1>1, <1>3, SequenceDomain, OwedFacts
<1>10. k[n] = OwedOf(new) /\ \A e \in E : k[e] \in Int
  BY ONLY <1>3, <1>8, <1>9
<1>11. /\ sm.count_in_life = Cardinality(L) /\ sm.deposit_in_life = SumFunctionOnSet(f, D)
  BY DEF Books, TotalOwed
<1>12. /\ sn = [count_in_life |-> sn.count_in_life, deposit_in_life |-> sn.deposit_in_life]
       /\ sn.count_in_life = sm.count_in_life + 1
       /\ sn.deposit_in_life = sm.deposit_in_life + new.offer.amount
  OBVIOUS
<1> HIDE DEF L, M, f, k, D, E
<1>13. Cardinality(M) = Cardinality(L) + 1
  BY <1>5, <1>6, FS_AddElement
<1>14. SumFunctionOnSet(k, E) = k[n] + SumFunctionOnSet(k, E \ {n})
  BY <1>7, <1>10, SumSplit
<1>15. E \ {n} = D
  BY <1>7
<1>16. SumFunctionOnSet(k, D) = SumFunctionOnSet(f, D)
  <2>1. \A e \in D : f[e] \in Int /\ k[e] = f[e]
    BY <1>9
  <2> QED
    BY ONLY <1>7, <2>1, SumAgrees
<1>17. SumFunctionOnSet(k, E) = SumFunctionOnSet(f, D) + new.offer.amount
  <2>1. SumFunctionOnSet(k, E) = k[n] + SumFunctionOnSet(f, D)
    BY ONLY <1>14, <1>15, <1>16
  <2>2. PICK x \in Nat, y \in Nat : x = SumFunctionOnSet(f, D) /\ y = OwedOf(new)
    BY <1>5, <1>8
  <2> QED
    BY ONLY <1>8, <1>10, <2>1, <2>2, x \in Nat, y \in Nat
<1>18. sn.count_in_life = Cardinality(M) /\ sn.deposit_in_life = SumFunctionOnSet(k, E)
  BY ONLY <1>11, <1>12, <1>13, <1>17
<1>19. sn \in Summary
  BY ONLY <1>5, <1>12, <1>18 DEF Summary
<1> QED
  BY ONLY <1>3, <1>4, <1>18, <1>19 DEF Books, TotalOwed, L, M, f, k, D, E

(* The members of a pair.                                                  *)
LEMMA PairMembers ==
    ASSUME NEW D, NEW vs \in SUBSET (D \X D)
    PROVE  \A a, c : <<a, c>> \in vs => a \in D /\ c \in D
OBVIOUS

(* Nobody has voted for the one that is appended, or with it.              *)
LEMMA BallotsAppended ==
    ASSUME NEW cs \in Seq(Capital), NEW vs \in SUBSET ((DOMAIN cs) \X (DOMAIN cs)),
           NEW new \in Capital, NEW ds, ds = Append(cs, new),
           Ballots(cs, vs), Balanced(new, 0, 0, 0)
    PROVE  Ballots(ds, vs)
<1>0. \A a, c : <<a, c>> \in vs => a \in DOMAIN cs /\ c \in DOMAIN cs
  BY PairMembers
<1>1. PICK n : n = Len(cs) + 1
  OBVIOUS
<1>2. /\ ds \in Seq(Capital) /\ DOMAIN ds = DOMAIN cs \cup {n} /\ n \notin DOMAIN cs
      /\ ds[n] = new /\ \A e \in DOMAIN cs : ds[e] = cs[e]
  BY <1>1, Appended
<1>3. ASSUME NEW c
      PROVE  Given(ds, vs, c) = Given(cs, vs, c)
  <2> DEFINE f == [a \in DOMAIN cs |-> PointsOf(cs[a].offer)]
             k == [a \in DOMAIN ds |-> PointsOf(ds[a].offer)]
             V == {a \in DOMAIN cs : <<a, c>> \in vs}
             W == {a \in DOMAIN ds : <<a, c>> \in vs}
  <2>1. W = V
    BY ONLY <1>2, <1>0
  <2>2. IsFiniteSet(V)
    <3>1. V \in SUBSET DOMAIN cs
      OBVIOUS
    <3> QED
      BY <3>1, SequenceDomain, FS_Subset
  <2>3. \A a \in V : f[a] \in Int /\ k[a] = f[a]
    <3>1. \A a \in DOMAIN cs : cs[a].offer \in Offers
      BY SequenceDomain DEF Capital
    <3>2. \A a \in DOMAIN cs : PointsOf(cs[a].offer) \in Int
      BY <3>1, OfferFacts
    <3> QED
      BY ONLY <1>2, <3>2
  <2> HIDE DEF f, k, V, W
  <2>4. SumFunctionOnSet(k, V) = SumFunctionOnSet(f, V)
    BY ONLY <2>2, <2>3, SumAgrees
  <2> QED
    BY ONLY <2>1, <2>4 DEF Given, f, k, V, W
<1>4. Given(cs, vs, n) = 0
  <2>1. {a \in DOMAIN cs : <<a, n>> \in vs} = {}
    BY ONLY <1>2, <1>0
  <2> QED
    BY ONLY <2>1, SumOfNone DEF Given
<1>5. ASSUME NEW c \in DOMAIN ds
      PROVE  \E b, k \in Nat : Balanced(ds[c], Given(ds, vs, c), b, k)
  <2>1. CASE c = n
    BY ONLY <2>1, <1>2, <1>3, <1>4, Balanced(new, 0, 0, 0)
  <2>2. CASE c \in DOMAIN cs
    <3>1. PICK b \in Nat, k \in Nat : Balanced(cs[c], Given(cs, vs, c), b, k)
      BY <2>2 DEF Ballots
    <3> QED
      BY ONLY <3>1, <2>2, <1>2, <1>3, b \in Nat, k \in Nat
  <2> QED
    BY ONLY <1>2, <2>1, <2>2, c \in DOMAIN ds
<1> QED
  BY ONLY <1>5 DEF Ballots
-----------------------------------------------------------------------------
(***************************************************************************)
(* The operations preserve the invariant.                                  *)
(***************************************************************************)

(* There are no capitals at first.                                         *)
LEMMA InitInv == Init => IndInv
<1> SUFFICES ASSUME Init PROVE IndInv
  OBVIOUS
<1>1. capitals = <<>> /\ votes = {} /\ ops = <<>> /\ session = <<>> /\ DOMAIN capitals = {}
  BY DEF Init
<1>2. time \in 0 .. MaxTime /\ rate \in Rates
  BY ParametersAssumption DEF Init
<1>3. Cardinality({c \in DOMAIN capitals : ~capitals[c].done}) = 0
  <2>1. {c \in DOMAIN capitals : ~capitals[c].done} = {}
    BY ONLY <1>1
  <2> QED
    BY ONLY <2>1, FS_EmptySet
<1>4. TotalOwed(capitals) = 0
  BY ONLY <1>1, SumOfNone DEF TotalOwed
<1>5. summary \in Summary /\ summary.count_in_life = 0 /\ summary.deposit_in_life = 0
  BY DEF Init, Summary
<1>6. Books(capitals, summary)
  <2>1. capitals \in Seq(Capital)
    BY <1>1
  <2> QED
    BY ONLY <1>1, <1>3, <1>4, <1>5, <2>1 DEF Books
<1>7. Ballots(capitals, votes)
  BY ONLY <1>1 DEF Ballots
<1>8. SessionInv
  BY <1>1 DEF SessionInv
<1> QED
  BY <1>1, <1>2, <1>6, <1>7, <1>8 DEF IndInv

(* create.                                                                 *)
LEMMA CreatePreserves ==
    ASSUME IndInv, NEW o \in Offers, create(o)
    PROVE  IndInv'
<1>1. /\ time \in Nat /\ votes \in SUBSET ((DOMAIN capitals) \X (DOMAIN capitals))
      /\ Books(capitals, summary) /\ Ballots(capitals, votes) /\ SessionInv
      /\ capitals \in Seq(Capital) /\ summary \in Summary
  BY DEF IndInv, Ids, Books
<1>2. PICK new : new = [offer |-> o, achieved |-> 0, pending |-> 0, left_vote_point |-> 0,
                        next_slot |-> time + o.period, timestamp |-> time,
                        paid |-> 0, done |-> FALSE]
  OBVIOUS
<1>3. /\ o.amount \in Nat /\ o.period \in Nat /\ o.total_periods \in Nat \ {0}
      /\ DepositOf(o) \in Nat /\ PointsOf(o) \in Nat
  BY OfferFacts
<1>4. /\ new \in Capital /\ new.offer = o /\ new.achieved = 0 /\ new.pending = 0
      /\ new.left_vote_point = 0 /\ new.next_slot = time + o.period /\ new.timestamp = time
      /\ new.paid = 0 /\ ~new.done
  BY <1>1, <1>2, <1>3 DEF Capital
<1>5. Sound(new)
  BY ONLY <1>3, <1>4, Uint16Type DEF Sound
<1>6. Balanced(new, 0, 0, 0)
  BY ONLY <1>1, <1>3, <1>4 DEF Balanced
<1>7. /\ capitals' = Append(capitals, new)
      /\ summary' = [count_in_life   |-> summary.count_in_life + 1,
                     deposit_in_life |-> summary.deposit_in_life + new.offer.amount]
  BY <1>2, <1>4 DEF create
<1>8. Books(capitals', summary')
  BY ONLY <1>1, <1>4, <1>5, <1>7, BooksAppended
<1>9. Ballots(capitals', votes)
  BY ONLY <1>1, <1>4, <1>6, <1>7, BallotsAppended
<1>10. UNCHANGED <<time, rate, votes, ops, session>> /\ ops = <<>>
  BY DEF create, Idle
<1>11. votes' \subseteq (Ids \X Ids)'
  <2>1. DOMAIN capitals \subseteq DOMAIN (capitals')
    BY ONLY <1>1, <1>4, <1>7
  <2> QED
    BY ONLY <1>1, <1>10, <2>1 DEF Ids
<1>12. SessionInv'
  BY ONLY <1>1, <1>10 DEF SessionInv
<1> QED
  BY ONLY IndInv, <1>8, <1>9, <1>10, <1>11, <1>12 DEF IndInv

(* As many periods are brought forward as the points are worth, and as     *)
(* there are; the other points are left over.                              *)
LEMMA VoteArithmetic ==
    ASSUME NEW tp \in Nat, NEW share \in Nat \ {0}, NEW room \in Int, NEW n,
           n = IF room <= 0 THEN 0 ELSE Min2(tp \div share, room)
    PROVE  n \in Nat /\ (n = 0 \/ n <= room) /\ n * share \in Nat /\ tp - n * share \in Nat
<1>1. PICK q \in Int, r \in 0 .. share - 1 : tp = share * q + r /\ q = tp \div share
  BY DivisionFacts
<1>2. q >= 0
  <2>1. share * 0 <= tp
    OBVIOUS
  <2> QED
    BY <1>1, <2>1, DivisionAtLeast
<1>3. n \in Nat /\ (n = 0 \/ n <= room) /\ n <= q
  BY <1>1, <1>2 DEF Min2
<1>4. n * share \in Nat /\ n * share <= q * share /\ q * share \in Nat
  BY ONLY <1>2, <1>3, share \in Nat \ {0}, q \in Int, TimesMonotone
<1>5. PICK m \in Nat, k \in Nat : m = n * share /\ k = q * share
  BY <1>4
<1>6. tp = k + r
  BY <1>1, <1>5
<1>7. tp - m \in Nat
  BY ONLY <1>4, <1>5, <1>6, m \in Nat, k \in Nat, r \in 0 .. share - 1, share \in Nat \ {0}
<1> QED
  BY <1>3, <1>4, <1>5, <1>7

(* The points of a vote are added to those given to one capital.           *)
LEMMA GivenVote ==
    ASSUME NEW cs \in Seq(Capital), NEW vs, NEW from \in DOMAIN cs, NEW to, NEW c,
           <<from, to>> \notin vs
    PROVE  Given(cs, vs \cup {<<from, to>>}, c)
             = Given(cs, vs, c) + IF c = to THEN PointsOf(cs[from].offer) ELSE 0
<1> DEFINE f == [a \in DOMAIN cs |-> PointsOf(cs[a].offer)]
           V == {a \in DOMAIN cs : <<a, c>> \in vs}
           W == {a \in DOMAIN cs : <<a, c>> \in vs \cup {<<from, to>>}}
<1>1. IsFiniteSet(W)
  <2>1. W \in SUBSET DOMAIN cs
    OBVIOUS
  <2> QED
    BY <2>1, SequenceDomain, FS_Subset
<1>2. \A a \in DOMAIN cs : f[a] \in Int /\ f[a] = PointsOf(cs[a].offer)
  <2>1. \A a \in DOMAIN cs : cs[a].offer \in Offers
    BY SequenceDomain DEF Capital
  <2> QED
    BY <2>1, OfferFacts
<1>3. Given(cs, vs, c) \in Nat
  BY GivenType
<1>4. CASE c # to
  <2>1. W = V
    BY ONLY <1>4
  <2>2. Given(cs, vs \cup {<<from, to>>}, c) = Given(cs, vs, c)
    BY ONLY <2>1 DEF Given
  <2> QED
    BY ONLY <1>3, <1>4, <2>2
<1>5. CASE c = to
  <2>1. from \in W /\ V = W \ {from} /\ W \subseteq DOMAIN cs
    BY ONLY <1>5, from \in DOMAIN cs, <<from, to>> \notin vs
  <2> HIDE DEF f, V, W
  <2>2. \A a \in W : f[a] \in Int
    BY ONLY <1>2, <2>1
  <2>3. SumFunctionOnSet(f, W) = f[from] + SumFunctionOnSet(f, W \ {from})
    BY ONLY <1>1, <2>1, <2>2, SumSplit
  <2>4. Given(cs, vs, c) = SumFunctionOnSet(f, V)
    BY DEF Given, f, V
  <2>5. Given(cs, vs \cup {<<from, to>>}, c) = SumFunctionOnSet(f, W)
    BY DEF Given, f, W
  <2>6. SumFunctionOnSet(f, W) = f[from] + Given(cs, vs, c)
    BY ONLY <2>1, <2>3, <2>4
  <2> QED
    BY ONLY <1>2, <1>3, <1>5, <2>5, <2>6, from \in DOMAIN cs
<1> QED
  BY <1>4, <1>5

(* A capital for which n periods are brought forward, with l points left.  *)
Voted(cc, n, l) ==
    [offer |-> cc.offer, achieved |-> cc.achieved, pending |-> cc.pending + n,
     left_vote_point |-> l, next_slot |-> cc.next_slot, timestamp |-> cc.timestamp,
     paid |-> cc.paid, done |-> cc.done]

(* The fields of a capital, and that it has no others.                     *)
LEMMA CapitalFields ==
    ASSUME NEW cc \in Capital
    PROVE  /\ cc.offer \in Offers /\ cc.achieved \in Nat /\ cc.pending \in Nat
           /\ cc.left_vote_point \in Nat /\ cc.next_slot \in Nat /\ cc.timestamp \in Nat
           /\ cc.paid \in Nat /\ cc.done \in BOOLEAN
           /\ cc = [offer |-> cc.offer, achieved |-> cc.achieved, pending |-> cc.pending,
                    left_vote_point |-> cc.left_vote_point, next_slot |-> cc.next_slot,
                    timestamp |-> cc.timestamp, paid |-> cc.paid, done |-> cc.done]
BY DEF Capital

(* A record with these fields is a capital.                                *)
LEMMA CapitalOf ==
    ASSUME NEW o \in Offers, NEW a \in Nat, NEW p \in Nat, NEW l \in Nat, NEW s \in Nat,
           NEW t \in Nat, NEW m \in Nat, NEW d \in BOOLEAN
    PROVE  [offer |-> o, achieved |-> a, pending |-> p, left_vote_point |-> l,
            next_slot |-> s, timestamp |-> t, paid |-> m, done |-> d] \in Capital
BY DEF Capital

AfterVote(cs, c, n, l) == [cs EXCEPT ![c].pending = @ + n, ![c].left_vote_point = l]

(* The two updates of the vote evaluator are one.                          *)
LEMMA VotedIs ==
    ASSUME NEW cs \in Seq(Capital), NEW c \in DOMAIN cs, NEW n \in Nat, NEW l \in Nat
    PROVE  /\ AfterVote(cs, c, n, l) = [cs EXCEPT ![c] = Voted(cs[c], n, l)]
           /\ Voted(cs[c], n, l) \in Capital
<1>1. cs[c] \in Capital
  OBVIOUS
<1>2. PICK cc \in Capital : cc = cs[c]
  BY <1>1
<1>3. [[cc EXCEPT !.pending = cc.pending + n] EXCEPT !.left_vote_point = l] = Voted(cc, n, l)
  <2>1. PICK o, a, p, u, s, t, m, d :
          /\ cc = [offer |-> o, achieved |-> a, pending |-> p, left_vote_point |-> u,
                   next_slot |-> s, timestamp |-> t, paid |-> m, done |-> d]
    BY CapitalFields
  <2>2. cc.pending = p
    BY <2>1
  <2>3. Voted(cc, n, l) = [offer |-> o, achieved |-> a, pending |-> p + n, left_vote_point |-> l,
                           next_slot |-> s, timestamp |-> t, paid |-> m, done |-> d]
    BY <2>1 DEF Voted
  <2>4. [cc EXCEPT !.pending = p + n]
          = [offer |-> o, achieved |-> a, pending |-> p + n, left_vote_point |-> u,
             next_slot |-> s, timestamp |-> t, paid |-> m, done |-> d]
    BY ONLY <2>1
  <2>5. PICK cp : cp = [offer |-> o, achieved |-> a, pending |-> p + n, left_vote_point |-> u,
                        next_slot |-> s, timestamp |-> t, paid |-> m, done |-> d]
    OBVIOUS
  <2>6. [cp EXCEPT !.left_vote_point = l]
          = [offer |-> o, achieved |-> a, pending |-> p + n, left_vote_point |-> l,
             next_slot |-> s, timestamp |-> t, paid |-> m, done |-> d]
    BY ONLY <2>5
  <2>7. [cc EXCEPT !.pending = cc.pending + n] = cp
    BY ONLY <2>2, <2>4, <2>5
  <2> QED
    BY ONLY <2>3, <2>6, <2>7
<1>4. Voted(cc, n, l) \in Capital
  <2>1. cc.pending \in Nat
    BY CapitalFields
  <2>2. cc.pending + n \in Nat
    BY <2>1
  <2> QED
    BY <2>2, CapitalFields, CapitalOf DEF Voted
<1>5. AfterVote(cs, c, n, l)
        = [cs EXCEPT ![c] = [[cs[c] EXCEPT !.pending = cs[c].pending + n]
                                   EXCEPT !.left_vote_point = l]]
  BY DEF AfterVote
<1> QED
  BY <1>2, <1>3, <1>4, <1>5

(* The points of a vote are in the periods it brings forward or left over. *)
LEMMA BallotsVoted ==
    ASSUME NEW cs \in Seq(Capital), NEW vs, Ballots(cs, vs),
           NEW from \in DOMAIN cs, NEW to \in DOMAIN cs, <<from, to>> \notin vs,
           NEW n \in Nat, NEW l \in Nat,
           n = 0 \/ cs[to].achieved + cs[to].pending + n <= cs[to].offer.total_periods,
           PointsOf(cs[from].offer) + cs[to].left_vote_point = n * PointsOf(cs[to].offer) + l,
           NEW ds, ds = [cs EXCEPT ![to] = Voted(cs[to], n, l)]
    PROVE  Ballots(ds, vs \cup {<<from, to>>})
<1> DEFINE ws == vs \cup {<<from, to>>}
<1>1. cs[to] \in Capital /\ cs[from] \in Capital /\ Voted(cs[to], n, l) \in Capital
  BY VotedIs, SequenceDomain
<1>2. /\ DOMAIN ds = DOMAIN cs /\ ds[to] = Voted(cs[to], n, l)
      /\ \A e \in DOMAIN cs : e # to => ds[e] = cs[e]
  BY <1>1, Replaced
<1>3. \A e \in DOMAIN cs : ds[e].offer = cs[e].offer
  BY ONLY <1>2 DEF Voted
<1>4. ASSUME NEW e \in DOMAIN cs
      PROVE  \E b, k \in Nat : Balanced(ds[e], Given(ds, ws, e), b, k)
  <2>1. PICK b \in Nat, k \in Nat : Balanced(cs[e], Given(cs, vs, e), b, k)
    BY DEF Ballots
  <2>2. PICK g \in Nat : g = Given(cs, vs, e)
    BY GivenType
  <2>3. Given(ds, ws, e) = Given(cs, ws, e)
    BY ONLY <1>2, <1>3, GivenSame
  <2>4. Given(cs, ws, e) = g + IF e = to THEN PointsOf(cs[from].offer) ELSE 0
    BY <2>2, GivenVote
  <2>5. CASE e # to
    BY ONLY <2>1, <2>2, <2>3, <2>4, <2>5, <1>2, b \in Nat, k \in Nat, e \in DOMAIN cs, g \in Nat
  <2>6. CASE e = to
    <3>1. /\ cs[to].offer \in Offers /\ cs[from].offer \in Offers
          /\ cs[to].achieved \in Nat /\ cs[to].pending \in Nat /\ cs[to].left_vote_point \in Nat
      BY <1>1 DEF Capital
    <3>2. PICK s \in Nat, p \in Nat, a \in Nat, q \in Nat, u \in Nat, t \in Nat :
            /\ s = PointsOf(cs[to].offer) /\ p = PointsOf(cs[from].offer)
            /\ a = cs[to].achieved /\ q = cs[to].pending /\ u = cs[to].left_vote_point
            /\ t = cs[to].offer.total_periods /\ t < Uint16
      BY ONLY <3>1, OfferFacts
    <3>3. /\ g = k * s + u /\ b <= a /\ k <= t
          /\ a + q = b + k \/ a + q = b + k + Uint16
      BY ONLY <2>1, <2>2, <2>6, <3>2 DEF Balanced
    <3>4. p + u = n * s + l /\ (n = 0 \/ a + q + n <= t)
      BY <3>2
    <3>5. (k + n) * s = k * s + n * s
      OBVIOUS
    <3>6. g + p = (k + n) * s + l
      <4>1. PICK x \in Int, y \in Int : x = k * s /\ y = n * s
        OBVIOUS
      <4>2. g = x + u /\ p + u = y + l /\ (k + n) * s = x + y
        BY ONLY <3>3, <3>4, <3>5, <4>1
      <4>3. g + p = x + y + l
        BY ONLY <4>2, x \in Int, y \in Int, g \in Nat, p \in Nat, u \in Nat, l \in Nat
      <4> QED
        BY ONLY <4>2, <4>3
    <3>7. /\ ds[to].offer = cs[to].offer /\ ds[to].achieved = a /\ ds[to].pending = q + n
          /\ ds[to].left_vote_point = l /\ ds[to].next_slot = cs[to].next_slot
          /\ ds[to].timestamp = cs[to].timestamp
      BY ONLY <1>2, <3>2 DEF Voted
    <3>8. Given(ds, ws, e) = g + p
      BY ONLY <2>3, <2>4, <2>6, <3>2
    <3>9. /\ k + n \in Nat /\ k + n <= t
          /\ a + (q + n) = b + (k + n) \/ a + (q + n) = b + (k + n) + Uint16
      <4>1. t < Uint16 /\ b <= a /\ k <= t
        BY ONLY <3>2, <3>3
      <4>2. a + q = b + k \/ a + q = b + k + Uint16
        BY ONLY <3>3
      <4>3. n = 0 \/ a + q + n <= t
        BY ONLY <3>4
      <4> QED
        BY ONLY <4>1, <4>2, <4>3, Uint16Type,
                b \in Nat, k \in Nat, n \in Nat, a \in Nat, q \in Nat, t \in Nat
    <3>10. Balanced(ds[to], g + p, b, k + n)
      BY ONLY <2>1, <2>6, <3>2, <3>3, <3>6, <3>7, <3>9 DEF Balanced
    <3> QED
      BY ONLY <2>6, <3>8, <3>9, <3>10, b \in Nat
  <2> QED
    BY <2>5, <2>6
<1> QED
  BY ONLY <1>2, <1>4 DEF Ballots

(* vote.                                                                   *)
LEMMA VotePreserves ==
    ASSUME IndInv, NEW from \in Ids, NEW to \in Ids, vote(from, to)
    PROVE  IndInv'
<1>1. /\ votes \in SUBSET ((DOMAIN capitals) \X (DOMAIN capitals))
      /\ Books(capitals, summary) /\ Ballots(capitals, votes) /\ SessionInv
      /\ capitals \in Seq(Capital)
      /\ from \in DOMAIN capitals /\ to \in DOMAIN capitals
      /\ Sound(capitals[to])
  BY DEF IndInv, Ids, Books
<1>2. /\ capitals[from] \in Capital /\ capitals[to] \in Capital
  BY <1>1, SequenceDomain
<1>3. /\ capitals[to].offer \in Offers /\ capitals[from].offer \in Offers
      /\ capitals[to].achieved \in Nat /\ capitals[to].pending \in Nat
      /\ capitals[to].left_vote_point \in Nat
  BY <1>2 DEF Capital
<1>4. PICK tp \in Nat, share \in Nat \ {0}, room \in Int :
        /\ tp = TotalPoint(from, to)
        /\ tp = PointsOf(capitals[from].offer) + capitals[to].left_vote_point
        /\ share = Points(to) /\ share = PointsOf(capitals[to].offer)
        /\ room = capitals[to].offer.total_periods - capitals[to].achieved - capitals[to].pending
  <2>1. /\ PointsOf(capitals[from].offer) \in Nat /\ PointsOf(capitals[to].offer) \in Nat \ {0}
        /\ capitals[to].offer.total_periods \in Nat
    BY <1>3, OfferFacts
  <2>2. /\ TotalPoint(from, to) = PointsOf(capitals[from].offer) + capitals[to].left_vote_point
        /\ Points(to) = PointsOf(capitals[to].offer)
    BY DEF TotalPoint, Points, PointsOf
  <2> QED
    BY ONLY <1>3, <2>1, <2>2
<1>5. PICK n : n = IF room <= 0 THEN 0 ELSE Min2(tp \div share, room)
  OBVIOUS
<1>6. n \in Nat /\ (n = 0 \/ n <= room) /\ n * share \in Nat /\ tp - n * share \in Nat
  BY ONLY <1>5, tp \in Nat, share \in Nat \ {0}, room \in Int, VoteArithmetic
<1>7. PICK l \in Nat : l = tp - n * share
  BY <1>6
<1>8. capitals' = AfterVote(capitals, to, n, l)
  BY ONLY vote(from, to), <1>4, <1>5, <1>7 DEF vote, AfterVote
<1>9. PICK new \in Capital : new = Voted(capitals[to], n, l)
  BY <1>1, <1>6, VotedIs
<1>10. capitals' = [capitals EXCEPT ![to] = new]
  <2>1. capitals' = [capitals EXCEPT ![to] = Voted(capitals[to], n, l)]
    BY ONLY <1>1, <1>6, <1>8, l \in Nat, VotedIs
  <2> QED
    BY ONLY <1>9, <2>1
<1>11. /\ new.offer = capitals[to].offer /\ new.achieved = capitals[to].achieved
       /\ new.pending = capitals[to].pending + n /\ new.paid = capitals[to].paid
       /\ new.done = capitals[to].done
  BY ONLY <1>9 DEF Voted
<1>12. Sound(new)
  <2>1. capitals[to].offer.total_periods \in Nat
    BY <1>3, OfferFacts
  <2>2. new.pending < Uint16
    <3>1. capitals[to].pending < Uint16 /\ capitals[to].offer.total_periods < Uint16
      BY <1>1, <1>3, OfferFacts DEF Sound
    <3>2. n <= capitals[to].offer.total_periods - capitals[to].achieved - capitals[to].pending
          \/ n = 0
      BY ONLY <1>4, <1>6
    <3>3. PICK a \in Nat, q \in Nat, t \in Nat :
             /\ a = capitals[to].achieved /\ q = capitals[to].pending
             /\ t = capitals[to].offer.total_periods
      BY ONLY <2>1, <1>3
    <3>4. n \in Nat
      BY ONLY <1>6
    <3>5. q < Uint16 /\ t < Uint16 /\ (n = 0 \/ n <= t - a - q)
      BY ONLY <3>1, <3>2, <3>3
    <3>6. q + n < Uint16
      BY ONLY <3>4, <3>5, Uint16Type, a \in Nat, q \in Nat, t \in Nat
    <3> QED
      BY ONLY <3>3, <3>6, <1>11
  <2> QED
    BY ONLY <2>2, <1>1, <1>11 DEF Sound
<1>13. OwedOf(new) = OwedOf(capitals[to])
  BY ONLY <1>11 DEF OwedOf
<1>14. Books(capitals', summary)
  BY ONLY <1>1, <1>10, <1>11, <1>12, <1>13, new \in Capital, BooksKept
<1>15. votes' = votes \cup {<<from, to>>} /\ <<from, to>> \notin votes
       /\ UNCHANGED <<time, rate, summary, ops, session>> /\ ops = <<>>
  BY DEF vote, Idle
<1>16. Ballots(capitals', votes')
  <2>1. PointsOf(capitals[from].offer) + capitals[to].left_vote_point
          = n * PointsOf(capitals[to].offer) + l
    <3>1. PICK m \in Nat : m = n * share
      BY <1>6
    <3>2. tp = m + l
      BY ONLY <3>1, <1>7, tp \in Nat, l \in Nat, m \in Nat
    <3> QED
      BY ONLY <3>1, <3>2, <1>4
  <2>2. n = 0 \/ capitals[to].achieved + capitals[to].pending + n
                    <= capitals[to].offer.total_periods
    <3>1. capitals[to].offer.total_periods \in Nat
      BY <1>3, OfferFacts
    <3> QED
      BY ONLY <3>1, <1>3, <1>4, <1>6
  <2> QED
    BY ONLY <2>1, <2>2, <1>1, <1>6, <1>9, <1>10, <1>15, l \in Nat, BallotsVoted
<1>17. DOMAIN (capitals') = DOMAIN capitals
  BY ONLY <1>10
<1>18. votes' \subseteq (Ids \X Ids)'
  BY ONLY <1>1, <1>15, <1>17 DEF Ids
<1>19. SessionInv'
  BY ONLY <1>1, <1>15 DEF SessionInv
<1> QED
  BY ONLY IndInv, <1>14, <1>15, <1>16, <1>18, <1>19 DEF IndInv

(* update_issuance_rate.                                                   *)
LEMMA UpdatePreserves ==
    ASSUME IndInv, NEW r \in Rates, update_issuance_rate(r)
    PROVE  IndInv'
BY DEF IndInv, update_issuance_rate, Ids, SessionInv
-----------------------------------------------------------------------------
(***************************************************************************)
(* The incentive transaction.                                              *)
(***************************************************************************)

(* A capital after an incentive operation that pays amt.                   *)
AfterIncentive(cc, op, amt) ==
    LET pc == Paid(cc, op)
    IN [pc EXCEPT !.paid = @ + amt, !.done = Over(pc)]

(* A pending period is taken, or 2^16 - 1 are left.                        *)
LEMMA TakeOne ==
    ASSUME NEW p \in Nat, p < Uint16
    PROVE  /\ (p - 1) % Uint16 = IF p = 0 THEN Uint16 - 1 ELSE p - 1
           /\ (p - 1) % Uint16 \in Nat /\ (p - 1) % Uint16 < Uint16
<1>1. Uint16 \in Nat \ {0}
  BY Uint16Type
<1>2. CASE p = 0
  <2>1. p - 1 = Uint16 * (0 - 1) + (Uint16 - 1) /\ Uint16 - 1 \in 0 .. Uint16 - 1
    BY <1>1, <1>2
  <2> QED
    BY <1>1, <1>2, <2>1, RemainderIs
<1>3. CASE p # 0
  <2>1. p - 1 = Uint16 * 0 + (p - 1) /\ p - 1 \in 0 .. Uint16 - 1
    BY <1>1, <1>3
  <2>2. (p - 1) % Uint16 = p - 1
    BY ONLY <1>1, <2>1, p \in Nat, RemainderIs
  <2> QED
    BY <1>1, <1>3, <2>1, <2>2
<1> QED
  BY <1>2, <1>3

(* The fields after an incentive operation.                                *)
LEMMA AfterIncentiveFields ==
    ASSUME NEW cc \in Capital, NEW op \in Op, NEW amt \in Nat, cc.pending < Uint16
    PROVE  /\ AfterIncentive(cc, op, amt) \in Capital
           /\ AfterIncentive(cc, op, amt).offer = cc.offer
           /\ AfterIncentive(cc, op, amt).achieved = cc.achieved + 1
           /\ AfterIncentive(cc, op, amt).pending
                = IF op.reason = 0 THEN cc.pending ELSE (cc.pending - 1) % Uint16
           /\ AfterIncentive(cc, op, amt).left_vote_point = cc.left_vote_point
           /\ AfterIncentive(cc, op, amt).next_slot
                = IF op.reason = 0 THEN cc.next_slot + cc.offer.period ELSE cc.next_slot
           /\ AfterIncentive(cc, op, amt).timestamp = cc.timestamp
           /\ AfterIncentive(cc, op, amt).paid = cc.paid + amt
           /\ AfterIncentive(cc, op, amt).done = (cc.achieved + 1 >= cc.offer.total_periods)
           /\ Over(Paid(cc, op)) = (cc.achieved + 1 >= cc.offer.total_periods)
<1>1. PICK o \in Offers, a \in Nat, p \in Nat, u \in Nat, s \in Nat, t \in Nat, m \in Nat, d \in BOOLEAN :
        /\ cc = [offer |-> o, achieved |-> a, pending |-> p, left_vote_point |-> u,
                 next_slot |-> s, timestamp |-> t, paid |-> m, done |-> d]
  BY CapitalFields
<1>2. /\ cc.offer = o /\ cc.achieved = a /\ cc.pending = p /\ cc.left_vote_point = u
      /\ cc.next_slot = s /\ cc.timestamp = t /\ cc.paid = m
  BY <1>1
<1>3. p < Uint16
  BY <1>2
<1>4. PICK q : q = IF op.reason = 0 THEN p ELSE (p - 1) % Uint16
  OBVIOUS
<1>5. PICK r : r = IF op.reason = 0 THEN s + o.period ELSE s
  OBVIOUS
<1>6. q \in Nat /\ r \in Nat /\ a + 1 \in Nat /\ m + amt \in Nat
  <2>1. o.period \in Nat
    BY OfferFacts
  <2> QED
    BY <1>2, <1>3, <1>4, <1>5, <2>1, TakeOne
<1>7. Paid(cc, op) = [offer |-> o, achieved |-> a + 1, pending |-> q, left_vote_point |-> u,
                      next_slot |-> r, timestamp |-> t, paid |-> m, done |-> d]
  <2>1. PICK c1 : c1 = [offer |-> o, achieved |-> a, pending |-> p, left_vote_point |-> u,
             next_slot |-> r, timestamp |-> t, paid |-> m, done |-> d]
    OBVIOUS
  <2>2. [cc EXCEPT !.next_slot = r] = c1
    BY ONLY <1>1, <2>1
  <2>3. PICK c2 : c2 = [offer |-> o, achieved |-> a, pending |-> q, left_vote_point |-> u,
             next_slot |-> r, timestamp |-> t, paid |-> m, done |-> d]
    OBVIOUS
  <2>4. [c1 EXCEPT !.pending = q] = c2
    BY ONLY <2>1, <2>3
  <2>5. PICK c3 : c3 = [offer |-> o, achieved |-> a + 1, pending |-> q, left_vote_point |-> u,
             next_slot |-> r, timestamp |-> t, paid |-> m, done |-> d]
    OBVIOUS
  <2>6. [c2 EXCEPT !.achieved = a + 1] = c3
    BY ONLY <2>3, <2>5
  <2>7. /\ r = IF op.reason = 0 THEN cc.next_slot + cc.offer.period ELSE cc.next_slot
        /\ q = IF op.reason = 0 THEN cc.pending ELSE (cc.pending - 1) % Uint16
        /\ cc.achieved + 1 = a + 1
    BY ONLY <1>2, <1>4, <1>5
  <2>8. Paid(cc, op) = [[[cc EXCEPT !.next_slot = r] EXCEPT !.pending = q] EXCEPT !.achieved = a + 1]
    BY ONLY <2>7 DEF Paid
  <2> QED
    BY ONLY <2>2, <2>4, <2>5, <2>6, <2>8
<1>8. PICK pc : pc = [offer |-> o, achieved |-> a + 1, pending |-> q, left_vote_point |-> u,
                      next_slot |-> r, timestamp |-> t, paid |-> m, done |-> d]
  OBVIOUS
<1>9. PICK v \in BOOLEAN : v = (a + 1 >= o.total_periods)
  <2>1. PICK n \in Nat : n = o.total_periods
    BY OfferFacts
  <2>2. CASE a + 1 >= n
    <3>1. TRUE = (a + 1 >= n)
      BY ONLY <2>2, a \in Nat, n \in Nat
    <3> QED
      BY ONLY <2>1, <3>1, Zenon
  <2>3. CASE ~(a + 1 >= n)
    <3>1. FALSE = (a + 1 >= n)
      BY ONLY <2>3, a \in Nat, n \in Nat
    <3> QED
      BY ONLY <2>1, <3>1, Zenon
  <2> QED
    BY <2>2, <2>3
<1>10. Over(pc) = v
  BY ONLY <1>8, <1>9 DEF Over
<1>11. [pc EXCEPT !.paid = @ + amt, !.done = v]
         = [offer |-> o, achieved |-> a + 1, pending |-> q, left_vote_point |-> u,
            next_slot |-> r, timestamp |-> t, paid |-> m + amt, done |-> v]
  <2>1. PICK c1 : c1 = [offer |-> o, achieved |-> a + 1, pending |-> q, left_vote_point |-> u,
             next_slot |-> r, timestamp |-> t, paid |-> m + amt, done |-> d]
    OBVIOUS
  <2>2. pc.paid = m
    BY ONLY <1>8
  <2>3. [pc EXCEPT !.paid = m + amt] = c1
    BY ONLY <1>8, <2>1
  <2>4. PICK c2 : c2 = [offer |-> o, achieved |-> a + 1, pending |-> q, left_vote_point |-> u,
             next_slot |-> r, timestamp |-> t, paid |-> m + amt, done |-> v]
    OBVIOUS
  <2>5. [c1 EXCEPT !.done = v] = c2
    BY ONLY <2>1, <2>4
  <2>6. [pc EXCEPT !.paid = @ + amt, !.done = v] = [[pc EXCEPT !.paid = m + amt] EXCEPT !.done = v]
    BY ONLY <2>2
  <2> QED
    BY ONLY <2>3, <2>4, <2>5, <2>6
<1>12. AfterIncentive(cc, op, amt)
         = [offer |-> o, achieved |-> a + 1, pending |-> q, left_vote_point |-> u,
            next_slot |-> r, timestamp |-> t, paid |-> m + amt, done |-> v]
  <2>1. Paid(cc, op) = pc
    BY ONLY <1>7, <1>8
  <2>2. AfterIncentive(cc, op, amt) = [pc EXCEPT !.paid = @ + amt, !.done = v]
    BY ONLY <2>1, <1>10 DEF AfterIncentive
  <2> QED
    BY ONLY <2>2, <1>11
<1>13. AfterIncentive(cc, op, amt) \in Capital
  <2>1. [offer |-> o, achieved |-> a + 1, pending |-> q, left_vote_point |-> u,
         next_slot |-> r, timestamp |-> t, paid |-> m + amt, done |-> v] \in Capital
    BY ONLY <1>6, o \in Offers, u \in Nat, t \in Nat, v \in BOOLEAN, CapitalOf
  <2> QED
    BY ONLY <1>12, <2>1
<1>14. Over(Paid(cc, op)) = v
  BY ONLY <1>7, <1>8, <1>10
<1> QED
  BY ONLY <1>2, <1>4, <1>5, <1>9, <1>12, <1>13, <1>14

(* What the operation does keeps a capital sound.                          *)
LEMMA SoundIncentive ==
    ASSUME NEW cc \in Capital, Sound(cc), NEW op \in Op, NEW amt \in Nat,
           amt >= DepositOf(cc.offer),
           cc.achieved < cc.offer.total_periods
    PROVE  Sound(AfterIncentive(cc, op, amt))
<1>1. PICK new \in Capital :
        /\ new = AfterIncentive(cc, op, amt)
        /\ new.offer = cc.offer /\ new.achieved = cc.achieved + 1
        /\ new.pending = IF op.reason = 0 THEN cc.pending ELSE (cc.pending - 1) % Uint16
        /\ new.paid = cc.paid + amt
        /\ new.done = (cc.achieved + 1 >= cc.offer.total_periods)
  BY AfterIncentiveFields DEF Sound
<1>2. /\ cc.offer \in Offers /\ cc.achieved \in Nat /\ cc.pending \in Nat /\ cc.paid \in Nat
  BY CapitalFields
<1>3. PICK d \in Nat, t \in Nat, a \in Nat :
        d = DepositOf(cc.offer) /\ t = cc.offer.total_periods /\ a = cc.achieved
  BY <1>2, OfferFacts
<1>4. new.achieved <= new.offer.total_periods
      /\ (new.done <=> new.achieved = new.offer.total_periods)
  <2>1. a < t /\ new.achieved = a + 1 /\ new.offer.total_periods = t
    BY ONLY <1>1, <1>3, cc.achieved < cc.offer.total_periods
  <2>2. new.done <=> a + 1 >= t
    BY ONLY <1>1, <1>3
  <2>3. a + 1 <= t /\ (a + 1 >= t <=> a + 1 = t)
    BY ONLY <2>1, t \in Nat, a \in Nat
  <2> QED
    BY ONLY <2>1, <2>2, <2>3
<1>5. new.pending < Uint16
  <2>1. cc.pending < Uint16
    BY DEF Sound
  <2> QED
    BY ONLY <1>1, <1>2, <2>1, TakeOne
<1>6. new.paid >= new.achieved * DepositOf(new.offer)
  <2>1. cc.paid >= a * d
    BY <1>3 DEF Sound
  <2>2. (a + 1) * d = a * d + d /\ a * d \in Nat
    OBVIOUS
  <2>3. PICK x \in Nat : x = a * d
    BY <2>2
  <2>4. cc.paid + amt >= x + d
    BY ONLY <1>2, <1>3, <2>1, <2>3, amt >= DepositOf(cc.offer), d \in Nat, x \in Nat, amt \in Nat
  <2> QED
    BY ONLY <1>1, <1>3, <2>2, <2>3, <2>4
<1> QED
  BY ONLY <1>1, <1>4, <1>5, <1>6 DEF Sound

(* A period that is paid by time moves the slot; one that a vote brought   *)
(* forward is pending no more.                                             *)
LEMMA BalancedIncentive ==
    ASSUME NEW cc \in Capital, NEW op \in Op, NEW amt \in Nat, Sound(cc),
           cc.achieved < cc.offer.total_periods,
           NEW b \in Nat, NEW k \in Nat, NEW g \in Int, Balanced(cc, g, b, k)
    PROVE  \E d, m \in Nat : Balanced(AfterIncentive(cc, op, amt), g, d, m)
<1>1. PICK new \in Capital :
        /\ new = AfterIncentive(cc, op, amt)
        /\ new.offer = cc.offer /\ new.achieved = cc.achieved + 1
        /\ new.pending = IF op.reason = 0 THEN cc.pending ELSE (cc.pending - 1) % Uint16
        /\ new.left_vote_point = cc.left_vote_point
        /\ new.next_slot = IF op.reason = 0 THEN cc.next_slot + cc.offer.period ELSE cc.next_slot
        /\ new.timestamp = cc.timestamp
  BY AfterIncentiveFields DEF Sound
<1>2. /\ cc.offer \in Offers /\ cc.achieved \in Nat /\ cc.pending \in Nat
      /\ cc.next_slot \in Nat /\ cc.timestamp \in Nat
  BY CapitalFields
<1>3. PICK w \in Nat, a \in Nat, p \in Nat, t \in Nat, n \in Nat :
        /\ w = cc.offer.period /\ a = cc.achieved /\ p = cc.pending /\ t = cc.timestamp
        /\ n = cc.offer.total_periods /\ n < Uint16 /\ a < n /\ p < Uint16
  BY <1>2, OfferFacts DEF Sound
<1>4. /\ cc.next_slot = t + w * (b + 1)
      /\ g = k * PointsOf(cc.offer) + cc.left_vote_point
      /\ b <= a /\ k <= n /\ (a + p = b + k \/ a + p = b + k + Uint16)
  BY <1>3 DEF Balanced
<1>6. CASE op.reason = 0
  <2>1. w * (b + 1 + 1) = w * (b + 1) + w
    OBVIOUS
  <2>2. PICK x \in Int : x = w * (b + 1)
    OBVIOUS
  <2>3. new.next_slot = new.timestamp + new.offer.period * (b + 1 + 1)
    BY ONLY <1>1, <1>3, <1>4, <1>6, <2>1, <2>2, x \in Int, t \in Nat, w \in Nat
  <2>4. /\ new.achieved = a + 1 /\ new.pending = p /\ b + 1 <= a + 1 /\ b + 1 \in Nat
        /\ a + 1 + p = b + 1 + k \/ a + 1 + p = b + 1 + k + Uint16
    <3>1. new.achieved = a + 1 /\ new.pending = p
      BY ONLY <1>1, <1>3, <1>6
    <3>2. b <= a /\ (a + p = b + k \/ a + p = b + k + Uint16)
      BY ONLY <1>4
    <3>3. /\ b + 1 <= a + 1 /\ b + 1 \in Nat
          /\ a + 1 + p = b + 1 + k \/ a + 1 + p = b + 1 + k + Uint16
      BY ONLY <3>2, Uint16Type, a \in Nat, p \in Nat, b \in Nat, k \in Nat
    <3> QED
      BY ONLY <3>1, <3>3
  <2>5. Balanced(new, g, b + 1, k)
    BY ONLY <1>1, <1>3, <1>4, <2>3, <2>4 DEF Balanced
  <2> QED
    BY ONLY <1>1, <2>4, <2>5, k \in Nat
<1>7. CASE op.reason # 0
  <2>1. new.next_slot = new.timestamp + new.offer.period * (b + 1)
    BY ONLY <1>1, <1>3, <1>4, <1>7
  <2>2. new.pending = IF p = 0 THEN Uint16 - 1 ELSE p - 1
    BY ONLY <1>1, <1>3, <1>7, p \in Nat, TakeOne
  <2>3. /\ new.achieved = a + 1 /\ b <= a + 1
        /\ a + 1 + new.pending = b + k \/ a + 1 + new.pending = b + k + Uint16
    <3>1. new.achieved = a + 1
      BY ONLY <1>1, <1>3
    <3>2. /\ b <= a /\ k <= n /\ a < n /\ n < Uint16 /\ p < Uint16
          /\ a + p = b + k \/ a + p = b + k + Uint16
      BY ONLY <1>3, <1>4
    <3>3. PICK q \in Nat : q = new.pending /\ q = IF p = 0 THEN Uint16 - 1 ELSE p - 1
      BY ONLY <2>2, Uint16Type, p \in Nat
    <3>4. b <= a + 1 /\ (a + 1 + q = b + k \/ a + 1 + q = b + k + Uint16)
      BY ONLY <3>2, <3>3, Uint16Type,
              a \in Nat, p \in Nat, q \in Nat, b \in Nat, k \in Nat, n \in Nat
    <3> QED
      BY ONLY <3>1, <3>3, <3>4
  <2>4. Balanced(new, g, b, k)
    BY ONLY <1>1, <1>3, <1>4, <2>1, <2>3 DEF Balanced
  <2> QED
    BY ONLY <1>1, <2>4, b \in Nat, k \in Nat
<1> QED
  BY <1>6, <1>7

(* What an incentive operation does to the books and the ballots, whoever  *)
(* sent it.                                                                *)
LEMMA ApplyPreserves ==
    ASSUME IndInv, NEW op \in Op, Evaluates(op), do_apply(op)
    PROVE  /\ Books(capitals', summary') /\ Ballots(capitals', votes)
           /\ DOMAIN (capitals') = DOMAIN capitals
<1>1. /\ Books(capitals, summary) /\ Ballots(capitals, votes)
      /\ capitals \in Seq(Capital)
      /\ \A c \in DOMAIN capitals : Sound(capitals[c])
  BY DEF IndInv, Books
<1>3. /\ op.cc \in DOMAIN capitals /\ ~capitals[op.cc].done
      /\ ~(capitals[op.cc].achieved >= capitals[op.cc].offer.total_periods)
  BY DEF Evaluates, Exists, Released, Ids
<1>4. PICK c \in DOMAIN capitals, cc \in Capital : c = op.cc /\ cc = capitals[c]
  BY <1>1, <1>3, SequenceDomain
<1>5. cc.offer \in Offers /\ cc.achieved \in Nat
  BY CapitalFields
<1>6. /\ cc.achieved < cc.offer.total_periods
      /\ Sound(cc) /\ ~cc.done /\ cc.pending < Uint16
  <2>1. cc.offer.total_periods \in Nat
    BY <1>5, OfferFacts
  <2>2. Sound(cc)
    BY <1>1, <1>4
  <2> QED
    BY ONLY <1>3, <1>4, <1>5, <2>1, <2>2 DEF Sound
<1>7. PICK amt \in Nat : amt = Amount(c) /\ amt >= DepositOf(cc.offer)
  BY <1>4, <1>5, AmountFacts DEF IndInv, Ids
<1>8. PICK new \in Capital :
        /\ new = AfterIncentive(cc, op, amt)
        /\ new.offer = cc.offer /\ new.achieved = cc.achieved + 1
        /\ Over(Paid(cc, op)) = new.done
  BY <1>6, AfterIncentiveFields
<1>9. capitals' = [capitals EXCEPT ![c] = new]
  BY ONLY do_apply(op), <1>4, <1>7, <1>8 DEF do_apply, AfterIncentive
<1>10. summary' = [count_in_life   |-> IF new.done THEN summary.count_in_life - 1
                                       ELSE summary.count_in_life,
                   deposit_in_life |-> summary.deposit_in_life - DepositOf(capitals[c].offer)]
  <2>1. summary' = Summarized(summary, c, Over(Paid(cc, op)))
    BY ONLY do_apply(op), <1>4 DEF do_apply
  <2>2. Deposit(c) = DepositOf(capitals[c].offer)
    BY DEF Deposit, DepositOf
  <2> QED
    BY ONLY <2>1, <2>2, <1>8 DEF Summarized
<1>11. Sound(new)
  BY ONLY <1>6, <1>7, <1>8, op \in Op, amt \in Nat, cc \in Capital, SoundIncentive
<1>12. Books(capitals', summary')
  BY ONLY <1>1, <1>4, <1>6, <1>8, <1>9, <1>10, <1>11, c \in DOMAIN capitals, new \in Capital,
          BooksPaid
<1>13. Ballots(capitals', votes)
  <2>1. \A b, k \in Nat, g \in Int : Balanced(capitals[c], g, b, k) =>
                                        \E d, m \in Nat : Balanced(new, g, d, m)
    BY ONLY <1>4, <1>6, <1>8, op \in Op, amt \in Nat, cc \in Capital, BalancedIncentive
  <2>2. Given(capitals, votes, c) \in Int
    BY ONLY <1>1, GivenType
  <2> QED
    BY ONLY <1>1, <1>4, <1>8, <1>9, <2>1, <2>2, c \in DOMAIN capitals, new \in Capital,
            BallotsReplaced
<1>14. DOMAIN (capitals') = DOMAIN capitals
  BY ONLY <1>9
<1> QED
  BY <1>12, <1>13, <1>14

(* incentive.                                                              *)
LEMMA IncentivePreserves ==
    ASSUME IndInv, incentive
    PROVE  IndInv'
<1>1. /\ votes \in SUBSET ((DOMAIN capitals) \X (DOMAIN capitals))
      /\ SessionInv /\ ops \in Seq(Op) /\ ops # <<>>
  BY DEF IndInv, Ids, SessionInv, incentive, Idle
<1>2. PICK op \in Op : op = Head(ops)
  BY <1>1
<1>3. Evaluates(op) /\ do_apply(op)
  BY <1>2 DEF incentive
<1>4. /\ Books(capitals', summary') /\ Ballots(capitals', votes)
      /\ DOMAIN (capitals') = DOMAIN capitals
  BY <1>3, ApplyPreserves
<1>15. /\ UNCHANGED <<time, rate, votes>> /\ ops' = Tail(ops)
       /\ session' = IF Tail(ops) = <<>> THEN <<>> ELSE session
  BY DEF incentive
<1>16. SessionInv'
  <2>1. Tail(ops) \in Seq(Op)
    BY ONLY <1>1
  <2> QED
    BY ONLY <1>1, <1>4, <1>15, <2>1 DEF SessionInv
<1>17. votes' \subseteq (Ids \X Ids)'
  BY ONLY <1>1, <1>4, <1>15 DEF Ids
<1> QED
  BY ONLY IndInv, <1>4, <1>15, <1>16, <1>17 DEF IndInv

(* incentive_of_transaction.                                               *)
LEMMA SentPreserves ==
    ASSUME IndInv, NEW op \in Operations, incentive_of_transaction(op)
    PROVE  IndInv'
<1>1. /\ votes \in SUBSET ((DOMAIN capitals) \X (DOMAIN capitals))
      /\ SessionInv /\ ops = <<>> /\ capitals \in Seq(Capital)
  BY DEF IndInv, Ids, Books, incentive_of_transaction, Idle
<1>2. op \in Op
  BY <1>1, SequenceDomain DEF Operations, Op, Ids
<1>3. Evaluates(op) /\ do_apply(op) /\ UNCHANGED <<time, rate, votes, ops, session>>
  BY DEF incentive_of_transaction
<1>4. /\ Books(capitals', summary') /\ Ballots(capitals', votes)
      /\ DOMAIN (capitals') = DOMAIN capitals
  BY <1>2, <1>3, ApplyPreserves
<1>5. SessionInv'
  BY ONLY <1>1, <1>3 DEF SessionInv
<1>6. votes' \subseteq (Ids \X Ids)'
  BY ONLY <1>1, <1>3, <1>4 DEF Ids
<1> QED
  BY ONLY IndInv, <1>3, <1>4, <1>5, <1>6 DEF IndInv

(* incentive_fails: the session goes back to books that are sound.         *)
LEMMA FailsPreserves ==
    ASSUME IndInv, incentive_fails
    PROVE  IndInv'
<1>1. /\ votes \in SUBSET ((DOMAIN capitals) \X (DOMAIN capitals))
      /\ Books(session[1], session[2]) /\ Ballots(session[1], votes)
      /\ DOMAIN session[1] = DOMAIN capitals
  BY DEF IndInv, Ids, SessionInv, incentive_fails, Idle
<1>2. /\ capitals' = session[1] /\ summary' = session[2] /\ ops' = <<>> /\ session' = <<>>
      /\ UNCHANGED <<time, rate, votes>>
  BY DEF incentive_fails
<1>3. SessionInv'
  <2>1. <<>> \in Seq(Op)
    OBVIOUS
  <2> QED
    BY ONLY <1>2, <2>1 DEF SessionInv
<1>4. votes' \subseteq (Ids \X Ids)'
  BY ONLY <1>1, <1>2 DEF Ids
<1> QED
  BY ONLY IndInv, <1>1, <1>2, <1>3, <1>4 DEF IndInv

(* The operations that are flattened into a transaction are a sequence of  *)
(* operations.                                                             *)
LEMMA FlattenType ==
    ASSUME NEW T, NEW seqs \in Seq(Seq(T))
    PROVE  FlattenSeq(seqs) \in Seq(T)
<1> DEFINE n == Len(seqs)
           Flat(g, k) == /\ g \in [1 .. k -> Seq(T)]
                         /\ \A i \in 1 .. k : g[i] = IF i = 1 THEN seqs[i] ELSE g[i - 1] \o seqs[i]
           Bad == {k \in 1 .. n : ~(\E g : Flat(g, k))}
           Step(f) == f = [i \in 1 .. n |-> IF i = 1 THEN seqs[i] ELSE f[i - 1] \o seqs[i]]
<1>0. n \in Nat /\ \A i \in 1 .. n : seqs[i] \in Seq(T)
  OBVIOUS
<1>1. CASE n = 0
  <2>1. FlattenSeq(seqs) = seqs
    BY <1>1 DEF FlattenSeq
  <2>2. seqs = <<>>
    BY <1>1
  <2> QED
    BY <2>1, <2>2
<1>2. CASE n # 0
  <2>1. ASSUME Bad # {}
        PROVE  FALSE
    <3>1. PICK m \in Bad : \A k \in Bad : m <= k
      <4>1. Bad \in SUBSET Nat
        BY <1>0
      <4> HIDE DEF Bad
      <4> QED
        BY <2>1, <4>1, LeastNumber
    <3>2. m \in 1 .. n /\ m \in Nat /\ ~(\E g : Flat(g, m))
      <4> HIDE DEF Flat
      <4>1. m \in 1 .. n /\ ~(\E g : Flat(g, m))
        OBVIOUS
      <4> QED
        BY ONLY <1>0, <4>1
    <3>3. CASE m = 1
      <4> DEFINE h == [i \in 1 .. 1 |-> seqs[i]]
      <4>1. seqs[1] \in Seq(T)
        BY <1>0, <3>2, <3>3
      <4>2. Flat(h, 1)
        BY ONLY <4>1
      <4> QED
        BY ONLY <3>2, <3>3, <4>2
    <3>4. CASE m # 1
      <4>1. m - 1 \in 1 .. n /\ m - 1 \notin Bad
        <5> HIDE DEF Bad, Flat
        <5> QED
          BY ONLY <1>0, <3>1, <3>2, <3>4
      <4>2. PICK g : Flat(g, m - 1)
        <5> HIDE DEF Flat
        <5> QED
          BY ONLY <4>1
      <4> DEFINE h == [i \in 1 .. m |-> IF i < m THEN g[i] ELSE g[m - 1] \o seqs[m]]
      <4>3. seqs[m] \in Seq(T) /\ \A i \in 1 .. m - 1 : g[i] \in Seq(T)
        BY ONLY <1>0, <3>2, <4>2
      <4>4. h \in [1 .. m -> Seq(T)]
        <5> SUFFICES ASSUME NEW i \in 1 .. m PROVE h[i] \in Seq(T)
          OBVIOUS
        <5>1. CASE i < m
          BY ONLY <3>2, <4>3, <5>1, i \in 1 .. m
        <5>2. CASE ~(i < m)
          <6>1. g[m - 1] \in Seq(T)
            BY ONLY <3>2, <3>4, <4>3
          <6> QED
            BY ONLY <4>3, <5>2, <6>1, i \in 1 .. m
        <5> QED
          BY <5>1, <5>2
      <4>5. ASSUME NEW i \in 1 .. m
            PROVE  h[i] = IF i = 1 THEN seqs[i] ELSE h[i - 1] \o seqs[i]
        <5>1. CASE i < m
          <6>1. i \in 1 .. m - 1 /\ h[i] = g[i]
            BY ONLY <3>2, <5>1, i \in 1 .. m
          <6>2. g[i] = IF i = 1 THEN seqs[i] ELSE g[i - 1] \o seqs[i]
            BY ONLY <4>2, <6>1
          <6>3. i # 1 => h[i - 1] = g[i - 1]
            BY ONLY <3>2, <5>1, i \in 1 .. m
          <6> QED
            BY ONLY <6>1, <6>2, <6>3
        <5>2. CASE ~(i < m)
          <6>1. i = m /\ i # 1
            BY ONLY <3>2, <3>4, <5>2, i \in 1 .. m
          <6>2. m \in 1 .. m /\ m - 1 \in 1 .. m /\ ~(m < m) /\ m - 1 < m
            BY ONLY <3>2, <3>4
          <6>3. h[m] = IF m < m THEN g[m] ELSE g[m - 1] \o seqs[m]
            BY ONLY <6>2
          <6>4. h[m - 1] = g[m - 1]
            BY ONLY <6>2
          <6> QED
            BY ONLY <6>1, <6>2, <6>3, <6>4
        <5> QED
          BY <5>1, <5>2
      <4>6. Flat(h, m)
        BY ONLY <4>4, <4>5
      <4> QED
        BY ONLY <3>2, <4>6
    <3> QED
      BY <3>3, <3>4
  <2>2. PICK g : Flat(g, n)
    <3> HIDE DEF Flat
    <3>1. n \in 1 .. n
      BY <1>0, <1>2
    <3> QED
      BY ONLY <2>1, <3>1
  <2>3. Step(g)
    BY ONLY <2>2
  <2>4. PICK f : f = CHOOSE h : Step(h)
    OBVIOUS
  <2>5. Step(f)
    <3> HIDE DEF Step
    <3> QED
      BY <2>3, <2>4
  <2>6. FlattenSeq(seqs) = f[n]
    BY <1>2, <2>4 DEF FlattenSeq
  <2>7. \A i \in 1 .. n : f[i] = IF i = 1 THEN seqs[i] ELSE f[i - 1] \o seqs[i]
    <3>1. PICK k : k = [i \in 1 .. n |-> IF i = 1 THEN seqs[i] ELSE f[i - 1] \o seqs[i]]
      OBVIOUS
    <3>2. k = f
      BY ONLY <2>5, <3>1
    <3>3. \A i \in 1 .. n : k[i] = IF i = 1 THEN seqs[i] ELSE f[i - 1] \o seqs[i]
      BY ONLY <3>1
    <3> QED
      BY ONLY <3>2, <3>3
  <2> DEFINE Off == {i \in 1 .. n : f[i] \notin Seq(T)}
  <2>8. ASSUME Off # {}
        PROVE  FALSE
    <3>1. PICK m \in Off : \A k \in Off : m <= k
      <4>1. Off \in SUBSET Nat
        BY <1>0
      <4> HIDE DEF Off
      <4> QED
        BY <2>8, <4>1, LeastNumber
    <3>2. m \in 1 .. n /\ m \in Nat /\ f[m] \notin Seq(T) /\ seqs[m] \in Seq(T)
      BY <1>0
    <3>3. CASE m = 1
      BY ONLY <2>7, <3>2, <3>3
    <3>4. CASE m # 1
      <4>1. m - 1 \in 1 .. n /\ m - 1 \notin Off
        BY ONLY <1>0, <3>1, <3>2, <3>4
      <4>2. f[m - 1] \in Seq(T)
        BY <4>1
      <4>3. f[m] = f[m - 1] \o seqs[m]
        BY ONLY <2>7, <3>2, <3>4
      <4> QED
        BY ONLY <3>2, <4>2, <4>3
    <3> QED
      BY <3>3, <3>4
  <2> QED
    BY <1>0, <1>2, <2>6, <2>8, SMTT(30)
<1> QED
  BY <1>1, <1>2

(* An ordering of some of the capitals.                                    *)
LEMMA OrderingType ==
    ASSUME capitals \in Seq(Capital), NEW S \in SUBSET Live, NEW s \in SetToSeqs(S)
    PROVE  s \in Seq(Nat) /\ Len(s) \in Nat /\ DOMAIN s = 1 .. Len(s)
           /\ \A i \in DOMAIN s : s[i] \in DOMAIN capitals
<1>1. Live \subseteq DOMAIN capitals
  BY DEF Live, Ids
<1>2. S \in SUBSET DOMAIN capitals
  BY ONLY <1>1, S \in SUBSET Live
<1>3. IsFiniteSet(S)
  BY <1>2, SequenceDomain, FS_Subset
<1>4. Cardinality(S) \in Nat
  BY <1>3, FS_CardinalityType
<1>5. s \in [1 .. Cardinality(S) -> S]
  BY DEF SetToSeqs
<1>6. \A c \in S : c \in Nat
  BY <1>2, SequenceDomain
<1>7. s \in Seq(Nat) /\ Len(s) = Cardinality(S) /\ DOMAIN s = 1 .. Cardinality(S)
  BY ONLY <1>4, <1>5, <1>6
<1> QED
  BY ONLY <1>2, <1>4, <1>5, <1>7

(* What generate_incentive_transaction puts together.                      *)
LEMMA TransactionsType ==
    ASSUME capitals \in Seq(Capital), NEW now, NEW tx \in Transactions(now)
    PROVE  tx \in Seq(Op)
<1> DEFINE D == {c \in Live : Due(c, now)}
           P == {c \in Live : capitals[c].pending > 0}
           bySlot == {s \in SetToSeqs(D) : \A i, j \in DOMAIN s : i < j =>
                         capitals[s[i]].next_slot <= capitals[s[j]].next_slot}
           byPending == {s \in SetToSeqs(P) : \A i, j \in DOMAIN s : i < j =>
                            capitals[s[i]].pending >= capitals[s[j]].pending}
           PerSlot(s) == [i \in DOMAIN s |-> [cc |-> s[i], reason |-> 0]]
           Several(s) == [i \in DOMAIN s |-> [k \in 1 .. Min2(capitals[s[i]].pending, MaxOps) |->
                                                [cc |-> s[i], reason |-> 1]]]
           Capped(x) == SubSeq(x, 1, Min2(Len(x), MaxOps))
<1>0. Transactions(now) = {Capped(PerSlot(s) \o FlattenSeq(Several(p))) : s \in bySlot, p \in byPending}
  BY DEF Transactions
<1>1. PICK s \in SetToSeqs(D), p \in SetToSeqs(P) :
        tx = Capped(PerSlot(s) \o FlattenSeq(Several(p)))
  <2>1. bySlot \subseteq SetToSeqs(D) /\ byPending \subseteq SetToSeqs(P)
    OBVIOUS
  <2> HIDE DEF Capped, PerSlot, Several, D, P, bySlot, byPending
  <2> QED
    BY <1>0, <2>1
<1>2. /\ s \in Seq(Nat) /\ Len(s) \in Nat /\ DOMAIN s = 1 .. Len(s)
      /\ p \in Seq(Nat) /\ Len(p) \in Nat /\ DOMAIN p = 1 .. Len(p)
      /\ \A i \in DOMAIN p : p[i] \in DOMAIN capitals
  <2>1. D \in SUBSET Live /\ P \in SUBSET Live
    OBVIOUS
  <2> HIDE DEF D, P
  <2> QED
    BY <2>1, OrderingType
<1>3. \A c \in Nat : [cc |-> c, reason |-> 0] \in Op /\ [cc |-> c, reason |-> 1] \in Op
  BY DEF Op
<1>4. PerSlot(s) \in Seq(Op)
  <2>1. \A i \in 1 .. Len(s) : s[i] \in Nat
    BY ONLY <1>2
  <2>2. PICK n \in Nat : n = Len(s)
    BY ONLY <1>2
  <2>3. PerSlot(s) = [i \in 1 .. n |-> [cc |-> s[i], reason |-> 0]]
    BY ONLY <1>2, <2>2
  <2>4. \A i \in 1 .. n : [cc |-> s[i], reason |-> 0] \in Op
    BY ONLY <1>3, <2>1, <2>2
  <2> QED
    BY ONLY <2>3, <2>4, n \in Nat
<1>5. Several(p) \in Seq(Seq(Op))
  <2>1. PICK n \in Nat : n = Len(p)
    BY ONLY <1>2
  <2>2. ASSUME NEW i \in 1 .. n
        PROVE  [k \in 1 .. Min2(capitals[p[i]].pending, MaxOps) |-> [cc |-> p[i], reason |-> 1]] \in Seq(Op)
    <3>1. p[i] \in DOMAIN capitals /\ p[i] \in Nat
      BY ONLY <1>2, <2>1, i \in 1 .. n
    <3>2. capitals[p[i]] \in Capital
      BY <3>1, SequenceDomain
    <3>3. PICK q \in Nat : q = Min2(capitals[p[i]].pending, MaxOps)
      BY <3>2, CapitalFields, ParametersAssumption DEF Min2
    <3>4. PICK op \in Op : op = [cc |-> p[i], reason |-> 1]
      BY <1>3, <3>1
    <3>5. [k \in 1 .. q |-> op] \in Seq(Op)
      BY ONLY q \in Nat, op \in Op
    <3> QED
      BY ONLY <3>3, <3>4, <3>5
  <2>3. Several(p) = [i \in 1 .. n |-> [k \in 1 .. Min2(capitals[p[i]].pending, MaxOps) |->
                                          [cc |-> p[i], reason |-> 1]]]
    BY ONLY <1>2, <2>1
  <2> QED
    BY ONLY <2>2, <2>3, n \in Nat
<1> HIDE DEF PerSlot, Several, Capped, D, P, bySlot, byPending
<1>6. FlattenSeq(Several(p)) \in Seq(Op)
  BY ONLY <1>5, FlattenType
<1>7. PICK x \in Seq(Op) : tx = SubSeq(x, 1, Min2(Len(x), MaxOps))
  <2>1. PerSlot(s) \o FlattenSeq(Several(p)) \in Seq(Op)
    BY ONLY <1>4, <1>6
  <2>2. PICK x \in Seq(Op) : tx = Capped(x)
    BY ONLY <1>1, <2>1
  <2> QED
    BY ONLY <2>2, x \in Seq(Op) DEF Capped
<1>8. MaxOps \in Nat
  BY ParametersAssumption
<1>9. Min2(Len(x), MaxOps) \in 0 .. Len(x)
  BY ONLY <1>8, x \in Seq(Op) DEF Min2
<1> QED
  BY ONLY <1>7, <1>9, x \in Seq(Op)

(* produce_block.                                                          *)
LEMMA ProducePreserves ==
    ASSUME IndInv, produce_block
    PROVE  IndInv'
<1>1. /\ time \in 0 .. MaxTime /\ capitals \in Seq(Capital)
      /\ Books(capitals, summary) /\ Ballots(capitals, votes)
  BY DEF IndInv, Books
<1>2. time' \in 0 .. MaxTime
  <2>1. MaxTime \in Nat
    BY ParametersAssumption
  <2>2. time' = Min2(time + 1, MaxTime)
    BY DEF produce_block
  <2> QED
    BY ONLY <1>1, <2>1, <2>2 DEF Min2
<1>3. ops' \in Seq(Op)
  <2>1. PICK tx \in Transactions(time') : ops' = tx
    BY DEF produce_block
  <2> QED
    BY ONLY <1>1, <2>1, TransactionsType
<1>4. /\ session' = IF ops' = <<>> THEN <<>> ELSE <<capitals, summary>>
      /\ UNCHANGED <<rate, capitals, votes, summary>>
  BY DEF produce_block
<1>5. SessionInv'
  <2>1. CASE ops' = <<>>
    BY ONLY <1>3, <1>4, <2>1 DEF SessionInv
  <2>2. CASE ops' # <<>>
    <3>1. session' # <<>> /\ session'[1] = capitals /\ session'[2] = summary
      BY ONLY <1>4, <2>2
    <3> QED
      BY ONLY <1>1, <1>3, <1>4, <2>2, <3>1 DEF SessionInv
  <2> QED
    BY <2>1, <2>2
<1> QED
  BY ONLY IndInv, <1>2, <1>4, <1>5 DEF IndInv, Ids

(* Every step preserves the invariant.                                     *)
LEMMA NextInv == IndInv /\ [Next]_vars => IndInv'
<1> SUFFICES ASSUME IndInv, [Next]_vars PROVE IndInv'
  OBVIOUS
<1>1. CASE UNCHANGED vars
  BY <1>1 DEF vars, IndInv, Ids, SessionInv
<1>2. CASE \E o \in Offers : create(o)
  BY <1>2, CreatePreserves
<1>3. CASE \E from, to \in Ids : vote(from, to)
  BY <1>3, VotePreserves
<1>4. CASE \E r \in Rates : update_issuance_rate(r)
  BY <1>4, UpdatePreserves
<1>5. CASE produce_block
  BY <1>5, ProducePreserves
<1>6. CASE incentive
  BY <1>6, IncentivePreserves
<1>7. CASE incentive_fails
  BY <1>7, FailsPreserves
<1>8. CASE \E op \in Operations : incentive_of_transaction(op)
  BY <1>8, SentPreserves
<1> QED
  BY <1>1, <1>2, <1>3, <1>4, <1>5, <1>6, <1>7, <1>8 DEF Next, Chain

(* The inductive invariant holds in every reachable state.                 *)
THEOREM Invariance == Spec => []IndInv
<1>1. Init => IndInv
  BY InitInv
<1>2. IndInv /\ [Next]_vars => IndInv'
  BY NextInv
<1> QED
  BY <1>1, <1>2, PTL DEF Spec

-----------------------------------------------------------------------------
(***************************************************************************)
(* The properties of the runs.                                             *)
(***************************************************************************)

(* The invariant gives the types.                                          *)
LEMMA IndInvTypes == IndInv => TypeOK
<1> SUFFICES ASSUME IndInv PROVE TypeOK
  OBVIOUS
<1>1. /\ time \in 0 .. MaxTime /\ rate \in Rates /\ votes \subseteq Ids \X Ids
      /\ capitals \in Seq(Capital) /\ summary \in Summary /\ SessionInv
      /\ \A c \in DOMAIN capitals : Sound(capitals[c])
  BY DEF IndInv, Books
<1>2. ASSUME NEW c \in Ids
      PROVE  /\ capitals[c].offer \in Offers
             /\ capitals[c].achieved \in 0 .. capitals[c].offer.total_periods
             /\ capitals[c].pending \in 0 .. Uint16 - 1
             /\ capitals[c].next_slot \in Nat
             /\ {capitals[c].left_vote_point, capitals[c].paid} \subseteq Nat
             /\ capitals[c].done \in BOOLEAN
  <2>1. capitals[c] \in Capital /\ Sound(capitals[c])
    BY <1>1, SequenceDomain DEF Ids
  <2>2. /\ capitals[c].offer \in Offers /\ capitals[c].achieved \in Nat
        /\ capitals[c].pending \in Nat /\ capitals[c].left_vote_point \in Nat
        /\ capitals[c].next_slot \in Nat /\ capitals[c].paid \in Nat
        /\ capitals[c].done \in BOOLEAN
    BY <2>1, CapitalFields
  <2>3. capitals[c].offer.total_periods \in Nat
    BY <2>2, OfferFacts
  <2>4. /\ capitals[c].achieved <= capitals[c].offer.total_periods
        /\ capitals[c].pending < Uint16
    BY <2>1 DEF Sound
  <2> QED
    BY ONLY <2>2, <2>3, <2>4, Uint16Type
<1>3. {summary.count_in_life, summary.deposit_in_life} \subseteq Nat
  BY <1>1 DEF Summary
<1>4. session = <<>> <=> Idle
  BY <1>1 DEF SessionInv, Idle
<1> QED
  BY ONLY <1>1, <1>2, <1>3, <1>4 DEF TypeOK

(* The variables have their types, also when an incentive transaction is   *)
(* undone and whatever incentives other transactions hold: no capital      *)
(* achieves more periods than it has, and the summary does not become      *)
(* negative.                                                               *)
THEOREM TypeCorrectness == Spec => []TypeOK
BY Invariance, IndInvTypes, PTL

(* The books are what SummaryMatches says.                                 *)
LEMMA BooksMatch == IndInv => SummaryMatches
<1> SUFFICES ASSUME IndInv PROVE SummaryMatches
  OBVIOUS
<1>1. Books(capitals, summary)
  BY DEF IndInv
<1>2. {c \in DOMAIN capitals : ~capitals[c].done} = Live
  BY DEF Live, Exists, Ids
<1>3. TotalOwed(capitals)
        = SumFunctionOnSet([c \in Ids |-> capitals[c].offer.amount - capitals[c].achieved * Deposit(c)], Ids)
  BY DEF TotalOwed, OwedOf, Deposit, DepositOf, Ids
<1> QED
  BY ONLY <1>1, <1>2, <1>3 DEF Books, SummaryMatches

(* The summary counts the capitals that exist and holds what they have     *)
(* still to get back, however incentives, votes, new capitals and undone   *)
(* transactions follow each other (incentive_evaluator::do_apply).         *)
THEOREM SummaryIsTrue == Spec => []SummaryMatches
BY Invariance, BooksMatch, PTL

(* The last period is paid only after all others were.                     *)
LEMMA PaidBack == IndInv => PrincipalReturned
<1> SUFFICES ASSUME IndInv, NEW c \in Ids, capitals[c].done
             PROVE  capitals[c].paid > capitals[c].offer.amount - capitals[c].offer.total_periods
  BY DEF PrincipalReturned
<1>1. PICK cc \in Capital : cc = capitals[c] /\ Sound(cc)
  BY SequenceDomain DEF IndInv, Books, Ids
<1>2. cc.offer \in Offers /\ cc.paid \in Nat
  BY CapitalFields
<1>3. PICK d \in Nat, t \in Nat, a \in Nat :
        /\ d = DepositOf(cc.offer) /\ t = cc.offer.total_periods /\ a = cc.offer.amount
        /\ t * d > a - t
  BY ONLY <1>2, OfferFacts
<1>4. cc.paid >= t * d
  BY ONLY <1>1, <1>3, capitals[c].done DEF Sound
<1>5. PICK m \in Nat : m = t * d
  OBVIOUS
<1>6. cc.paid > a - t
  BY ONLY <1>2, <1>3, <1>4, <1>5, m \in Nat, a \in Nat, t \in Nat
<1> QED
  BY ONLY <1>1, <1>3, <1>6

(* Whoever locked an amount has it back when the capital is removed, but   *)
(* for less than one unit a period, at every rate of issue: the interest   *)
(* never takes from the principal (real128 truncation of Amount).          *)
THEOREM PrincipalComesBack == Spec => []PrincipalReturned
BY Invariance, PaidBack, PTL

(* The number of periods paid by time is what the slot says.               *)
LEMMA PointsKept == IndInv => VotePointsConserved
<1> SUFFICES ASSUME IndInv PROVE VotePointsConserved
  OBVIOUS
<1> DEFINE bySlot(c) == (capitals[c].next_slot - capitals[c].timestamp) \div capitals[c].offer.period - 1
           byVote(c) == (capitals[c].achieved - bySlot(c) + capitals[c].pending) % Uint16
           worth == [a \in Ids |-> Points(a)]
<1>1. ASSUME NEW c \in Live
      PROVE  SumFunctionOnSet(worth, {a \in Ids : <<a, c>> \in votes})
               = byVote(c) * Points(c) + capitals[c].left_vote_point
  <2>1. c \in DOMAIN capitals
    BY DEF Live, Ids
  <2>2. PICK cc \in Capital : cc = capitals[c]
    BY <2>1, SequenceDomain DEF IndInv, Books
  <2>3. PICK b \in Nat, k \in Nat : Balanced(cc, Given(capitals, votes, c), b, k)
    BY <2>1, <2>2 DEF IndInv, Ballots
  <2>4. /\ cc.timestamp \in Nat /\ cc.offer \in Offers
        /\ cc.achieved \in Nat /\ cc.pending \in Nat
    BY CapitalFields
  <2>5. PICK n \in Nat \ {0} : n = cc.offer.period
    BY ONLY <2>4, OfferFacts
  <2>6. bySlot(c) = b
    <3>1. PICK x \in Int : x = n * (b + 1)
      OBVIOUS
    <3>2. cc.next_slot = cc.timestamp + x
      BY ONLY <2>3, <2>5, <3>1 DEF Balanced
    <3>3. cc.next_slot - cc.timestamp = x
      BY ONLY <2>4, <3>2, x \in Int
    <3>4. b + 1 \in Int
      OBVIOUS
    <3>5. x \div n = b + 1
      BY ONLY <3>1, <3>4, n \in Nat \ {0}, ExactDivision
    <3>6. bySlot(c) = x \div n - 1
      BY ONLY <2>2, <2>5, <3>3
    <3> QED
      BY ONLY <3>5, <3>6, b \in Nat
  <2>7. Given(capitals, votes, c) = SumFunctionOnSet(worth, {a \in Ids : <<a, c>> \in votes})
    BY DEF Given, Points, PointsOf, Ids
  <2>8. Points(c) = PointsOf(cc.offer)
    BY ONLY <2>2 DEF Points, PointsOf
  <2>9. Given(capitals, votes, c) = k * PointsOf(cc.offer) + cc.left_vote_point
    BY ONLY <2>3 DEF Balanced
  <2>10. byVote(c) = k
    <3>1. PICK a \in Nat, q \in Nat, m \in Nat :
             a = cc.achieved /\ q = cc.pending /\ m = cc.offer.total_periods /\ m < Uint16
      BY ONLY <2>4, OfferFacts
    <3>2. k <= m /\ (a + q = b + k \/ a + q = b + k + Uint16)
      BY ONLY <2>3, <3>1 DEF Balanced
    <3>3. PICK x \in Int : x = a - b + q
      OBVIOUS
    <3>4. k \in 0 .. Uint16 - 1 /\ Uint16 \in Nat \ {0}
      BY ONLY <3>1, <3>2, k \in Nat, m \in Nat, Uint16Type
    <3>5. x = Uint16 * 0 + k \/ x = Uint16 * 1 + k
      BY ONLY <3>2, <3>3, a \in Nat, q \in Nat, b \in Nat, k \in Nat, Uint16Type
    <3>6. x % Uint16 = k
      <4>1. 0 \in Int /\ 1 \in Int
        OBVIOUS
      <4> QED
        BY ONLY <3>4, <3>5, <4>1, x \in Int, RemainderIs
    <3> QED
      BY ONLY <2>2, <2>6, <3>1, <3>3, <3>6
  <2> QED
    BY ONLY <2>2, <2>7, <2>8, <2>9, <2>10
<1> QED
  BY ONLY <1>1 DEF VotePointsConserved

(* No vote is worth more or less than its points: those given to a capital *)
(* are in the periods they brought forward, paid or pending, or are left   *)
(* over, through every division and limit of the vote evaluator, every     *)
(* incentive transaction that is applied or undone, and every incentive,   *)
(* of whatever reason, that another transaction holds; the periods are     *)
(* counted as the code's 16-bit counters count them.                       *)
THEOREM PointsConserved == Spec => []VotePointsConserved
BY Invariance, PointsKept, PTL
=============================================================================
