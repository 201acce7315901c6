----------------------- MODULE WitnessScheduleProofs -----------------------
(***************************************************************************)
(* Proofs about WitnessSchedule, for any number of witnesses, any of them  *)
(* down, and any intervals.                                                *)
(***************************************************************************)
EXTENDS WitnessSchedule, NumberLemmas, SequenceTheorems, TLAPS

(***************************************************************************)
(* The inductive invariant.  While the number of witnesses stays the same, *)
(* the slots since the last shuffle are at least as many as the blocks,    *)
(* and they follow each other up to current_aslot.                         *)
(***************************************************************************)
round == num % N

TurnsPassed ==
    \/ turns = Witnesses
    \/ /\ Len(shuffled) = N
       /\ \A j \in 0 .. round - 1 : shuffled[((aslot - j) % N) + 1] \in turns

Typed ==
    /\ active \in ActiveSets
    /\ \E c \in ActiveSets : shuffled \in Orders(c)
    /\ num \in 0 .. Cycle - 1 /\ aslot \in 0 .. Cycle - 1
    /\ till \in 0 .. Interval
    /\ age \in [Witnesses -> 0 .. MaxUndo] /\ gap \in 0 .. MaxUndo
    /\ flag \in BOOLEAN
    /\ filled \in [1 .. Window -> BOOLEAN]
    /\ turns \subseteq Witnesses
    /\ resized \in BOOLEAN

IndInv ==
    /\ Typed
    /\ ~resized => Len(shuffled) = N
    /\ TurnsPassed
    /\ passedOver = {}
-----------------------------------------------------------------------------
(***************************************************************************)
(* The parts of a step.                                                    *)
(***************************************************************************)

(* A set of active witnesses is neither empty nor infinite.                *)
LEMMA ActiveSetFacts ==
    ASSUME NEW S \in ActiveSets
    PROVE  /\ Cardinality(S) \in Nat \ {0} /\ S \subseteq Witnesses /\ IsFiniteSet(S)
           /\ (Cycle % Cardinality(S)) = 0
<1>1. IsFiniteSet(S) /\ S # {} /\ S \subseteq Witnesses
  BY WitnessAssumption, FS_Subset
<1>2. (Cycle % Cardinality(S)) = 0
  BY WitnessAssumption
<1> QED
  BY <1>1, <1>2, FS_CardinalityType, FS_EmptySet

(* A schedule is as long as the set of witnesses it was made of.           *)
LEMMA OrderFacts ==
    ASSUME NEW S \in ActiveSets, NEW s \in Orders(S)
    PROVE  /\ Len(s) = Cardinality(S) /\ s \in [1 .. Len(s) -> Witnesses]
           /\ DOMAIN s = 1 .. Len(s)
<1>1. PICK n \in Nat : n = Cardinality(S)
  BY ActiveSetFacts
<1>2. s \in [1 .. n -> S] /\ S \subseteq Witnesses
  BY <1>1, ActiveSetFacts DEF Orders
<1>3. Len(s) = n
  BY <1>2
<1>4. s \in [1 .. n -> Witnesses] /\ DOMAIN s = 1 .. n
  BY <1>2
<1> QED
  BY <1>1, <1>3, <1>4

(* So is the current one.                                                  *)
LEMMA ShuffledFacts ==
    ASSUME Typed
    PROVE  /\ Len(shuffled) \in Nat \ {0} /\ shuffled \in [1 .. Len(shuffled) -> Witnesses]
           /\ ToSet(shuffled) \subseteq Witnesses
<1>1. PICK c \in ActiveSets : shuffled \in Orders(c)
  BY DEF Typed
<1>2. /\ Len(shuffled) \in Nat \ {0} /\ shuffled \in [1 .. Len(shuffled) -> Witnesses]
      /\ DOMAIN shuffled = 1 .. Len(shuffled)
  BY <1>1, OrderFacts, ActiveSetFacts
<1> QED
  BY <1>2 DEF ToSet

(* Every slot belongs to a witness.                                        *)
LEMMA ScheduledFacts ==
    ASSUME Typed, NEW slot \in Int
    PROVE  get_scheduled_witness(slot) \in Witnesses
<1>1. /\ Len(shuffled) \in Nat \ {0} /\ aslot + slot \in Int
      /\ shuffled \in [1 .. Len(shuffled) -> Witnesses]
  BY ShuffledFacts, WitnessAssumption DEF Typed
<1>2. PICK r \in 0 .. Len(shuffled) - 1 : r = ((aslot + slot) % Len(shuffled))
  BY <1>1, DivisionFacts
<1>3. r + 1 \in 1 .. Len(shuffled)
  BY <1>1
<1> QED
  BY <1>1, <1>2, <1>3 DEF get_scheduled_witness

(* The number of the block in its round.                                   *)
LEMMA RoundCounts ==
    ASSUME NEW n \in Nat \ {0}, NEW r \in 0 .. n - 1
    PROVE  ((r + 1) % n) = IF r = n - 1 THEN 0 ELSE r + 1
<1>1. CASE r = n - 1
  <2>1. r + 1 = n * 1 + 0 /\ 0 \in 0 .. n - 1 /\ r + 1 \in Int
    BY <1>1
  <2> QED
    BY <1>1, <2>1, RemainderIs
<1>2. CASE r # n - 1
  <2>1. r + 1 = n * 0 + (r + 1) /\ r + 1 \in 0 .. n - 1 /\ r + 1 \in Int
    BY <1>2
  <2> QED
    BY <1>2, <2>1, RemainderIs
<1> QED
  BY <1>1, <1>2

(* The place of a block in its round.                                      *)
LEMMA RoundFacts ==
    ASSUME num \in 0 .. Cycle - 1, NEW S \in ActiveSets, NEW n, n = Cardinality(S)
    PROVE  /\ (num % n) \in 0 .. n - 1
           /\ (((num + 1) % Cycle) % n) = ((num + 1) % n)
           /\ ((num + 1) % n) = IF (num % n) = n - 1 THEN 0 ELSE (num % n) + 1
<1>1. n \in Nat \ {0} /\ (Cycle % n) = 0 /\ Cycle \in Nat \ {0} /\ num \in Int /\ num + 1 \in Int
  BY ActiveSetFacts, WitnessAssumption
<1>2. PICK r \in 0 .. n - 1 : r = (num % n)
  BY <1>1, DivisionFacts
<1>3. PICK y \in 0 .. Cycle - 1 : y = ((num + 1) % Cycle)
  BY <1>1, DivisionFacts
<1>4. ((y - 0) % n) = (((num + 1) - 0) % n)
  <2>1. 0 \in Int
    OBVIOUS
  <2> QED
    BY <1>1, <1>3, <2>1, RemainderThrough
<1>5. y - 0 = y /\ (num + 1) - 0 = num + 1
  BY <1>1
<1>6. PICK j \in Int : r - j = r + 1 /\ num - j = num + 1
  <2>1. PICK j \in Int : j = 0 - 1
    OBVIOUS
  <2> QED
    BY <1>1, <2>1
<1>7. ((r - j) % n) = ((num - j) % n)
  BY <1>1, <1>2, RemainderOfDifference
<1>8. ((r + 1) % n) = IF r = n - 1 THEN 0 ELSE r + 1
  BY <1>1, RoundCounts
<1> QED
  BY <1>2, <1>3, <1>4, <1>5, <1>6, <1>7, <1>8

(* The number of a slot is not negative.                                   *)
LEMMA SlotFacts ==
    ASSUME flag \in BOOLEAN, NEW when \in Nat
    PROVE  get_slot_at_time(when) \in Nat
<1>1. SkipSlots \in Nat
  BY WitnessAssumption
<1> QED
  BY <1>1 DEF get_slot_at_time, get_slot_time

(* recent_slots_filled keeps its length.                                   *)
LEMMA FilledFacts ==
    ASSUME filled \in [1 .. Window -> BOOLEAN], NEW missed \in Nat
    PROVE  Filled(missed) \in [1 .. Window -> BOOLEAN]
<1> DEFINE m == [i \in 1 .. missed |-> FALSE]
           h == filled \o <<TRUE>>
           s == h \o m
<1>1. Window \in Nat
  BY WitnessAssumption
<1>2. filled \in Seq(BOOLEAN) /\ Len(filled) = Window
  BY <1>1
<1>3. m \in Seq(BOOLEAN) /\ Len(m) = missed
  OBVIOUS
<1>4. <<TRUE>> \in Seq(BOOLEAN) /\ Len(<<TRUE>>) = 1
  OBVIOUS
<1> HIDE DEF m
<1>5. h \in Seq(BOOLEAN) /\ Len(h) = Window + 1
  BY <1>2, <1>4, ConcatProperties
<1> HIDE DEF h
<1>6. s \in Seq(BOOLEAN) /\ Len(s) = Window + 1 + missed
  BY <1>3, <1>5, ConcatProperties, ZenonT(60)
<1> HIDE DEF s
<1> DEFINE a == Len(s) - Window + 1
<1>7. a \in Int /\ Len(s) \in Int /\ a >= 1 /\ Len(s) - a + 1 = Window
  BY <1>1, <1>6
<1>8. \A i \in a .. Len(s) : s[i] \in BOOLEAN
  <2>1. \A i \in a .. Len(s) : i \in 1 .. Len(s)
    BY <1>7
  <2> QED
    BY <1>6, <2>1
<1> HIDE DEF a
<1>9. /\ SubSeq(s, a, Len(s)) \in Seq(BOOLEAN)
      /\ Len(SubSeq(s, a, Len(s))) = IF a <= Len(s) THEN Len(s) - a + 1 ELSE 0
  BY <1>7, <1>8, SubSeqProperties
<1>10. a <= Len(s)
  BY <1>1, <1>6, <1>7, WitnessAssumption DEF a
<1>11. Len(SubSeq(s, a, Len(s))) = Window
  BY <1>7, <1>9, <1>10
<1>12. Filled(missed) = SubSeq(s, a, Len(s))
  BY DEF Filled, s, h, m, a
<1>13. \A f \in Seq(BOOLEAN) : Len(f) = Window => f \in [1 .. Window -> BOOLEAN]
  OBVIOUS
<1> QED
  BY <1>9, <1>11, <1>12, <1>13

(* The ages after a block.                                                 *)
LEMMA AgedFacts ==
    ASSUME age \in [Witnesses -> 0 .. MaxUndo], NEW w
    PROVE  Aged(w) \in [Witnesses -> 0 .. MaxUndo]
<1>1. MaxUndo \in Nat
  BY WitnessAssumption
<1>2. \A v \in Witnesses : Min({age[v] + 1, MaxUndo}) \in 0 .. MaxUndo
  <2> SUFFICES ASSUME NEW v \in Witnesses PROVE Min({age[v] + 1, MaxUndo}) \in 0 .. MaxUndo
    OBVIOUS
  <2>1. PICK g \in Nat : g = age[v] + 1
    BY <1>1
  <2>2. Min({g, MaxUndo}) = IF g <= MaxUndo THEN g ELSE MaxUndo
    BY <1>1, MinOfTwo
  <2> QED
    BY <1>1, <2>1, <2>2
<1> QED
  BY <1>1, <1>2 DEF Aged

(* The last irreversible block falls back by one block at most.            *)
LEMMA NewGapFacts ==
    ASSUME gap \in Nat, NEW ages
    PROVE  NewGap(ages) \in 0 .. gap + 1
<1> DEFINE K == {k \in 0 .. MaxUndo : Cardinality({w \in active : ages[w] <= k}) >= N - Offset}
           T == {gap + 1} \cup K
<1>1. MaxUndo \in Nat
  BY WitnessAssumption
<1>2. T \in SUBSET Nat /\ gap + 1 \in T
  <2>1. K \in SUBSET Nat
    BY <1>1
  <2> HIDE DEF K
  <2> QED
    BY <2>1
<1>3. NewGap(ages) = Min(T)
  BY DEF NewGap
<1> HIDE DEF T
<1>4. Min(T) \in T /\ Min(T) <= gap + 1
  BY <1>2, MinIsLeast
<1>5. Min(T) \in Nat
  BY <1>2, <1>4
<1> QED
  BY <1>3, <1>4, <1>5

(* The next maintenance is within one interval of the block.               *)
LEMMA NextMaintenanceFacts ==
    ASSUME till \in Nat, NEW when \in Nat, till <= when
    PROVE  NextMaintenance(when) \subseteq 1 .. Interval
<1>1. Interval \in Nat \ {0}
  BY WitnessAssumption
<1>2. CASE till = 0
  BY <1>2 DEF NextMaintenance
<1>3. CASE till # 0
  <2>1. when - till \in Int
    OBVIOUS
  <2>2. PICK d \in Int, q \in 0 .. Interval - 1 :
           when - till = Interval * d + q /\ d = (when - till) \div Interval
    BY <1>1, <2>1, DivisionFacts
  <2>3. PICK m \in Int : m = Interval * d
    BY <1>1
  <2>4. Interval * (d + 1) = m + Interval
    BY <1>1, <2>3
  <2>5. till - when + Interval * (d + 1) = Interval - q
    BY <1>1, <2>2, <2>3, <2>4
  <2>6. NextMaintenance(when) = {Interval - q}
    BY <1>3, <2>2, <2>5 DEF NextMaintenance
  <2> QED
    BY <1>1, <2>6
<1> QED
  BY <1>2, <1>3
-----------------------------------------------------------------------------
(***************************************************************************)
(* The step.                                                               *)
(***************************************************************************)

(* The first block starts a round.                                         *)
LEMMA FirstRound == Init => round = 0
<1> SUFFICES ASSUME Init PROVE round = 0
  OBVIOUS
<1>1. N \in Nat \ {0}
  BY ActiveSetFacts DEF Init, N
<1>2. 0 \in Int /\ 0 \in 0 .. N - 1 /\ 0 = N * 0 + 0
  BY <1>1
<1>3. (0 % N) = 0
  BY <1>1, <1>2, RemainderIs
<1> QED
  BY <1>3 DEF Init, round

(* The invariant holds at the start.                                       *)
LEMMA InitInv == Init => IndInv
<1> SUFFICES ASSUME Init PROVE IndInv
  OBVIOUS
<1>1. N \in Nat \ {0} /\ active \subseteq Witnesses /\ active \in ActiveSets
  BY ActiveSetFacts DEF Init, N
<1>2. MaxUndo \in Nat /\ Interval \in Nat /\ Window \in Nat /\ Cycle \in Nat \ {0}
  BY WitnessAssumption
<1>3. Typed
  <2>1. \E c \in ActiveSets : shuffled \in Orders(c)
    BY DEF Init
  <2>2. filled \in [1 .. Window -> BOOLEAN] /\ age \in [Witnesses -> 0 .. MaxUndo]
    BY <1>2 DEF Init
  <2>3. active \in ActiveSets /\ flag \in BOOLEAN /\ turns \subseteq Witnesses /\ resized \in BOOLEAN
    BY DEF Init
  <2>4. /\ num \in 0 .. Cycle - 1 /\ aslot \in 0 .. Cycle - 1
        /\ till \in 0 .. Interval /\ gap \in 0 .. MaxUndo
    BY <1>2 DEF Init
  <2> QED
    BY <2>1, <2>2, <2>3, <2>4 DEF Typed
<1>4. Len(shuffled) = N
  BY <1>1, OrderFacts DEF Init, N
<1>5. round = 0
  BY FirstRound
<1>6. TurnsPassed
  BY <1>4, <1>5 DEF TurnsPassed
<1>7. passedOver = {}
  BY DEF Init
<1> QED
  BY <1>3, <1>4, <1>6, <1>7 DEF IndInv

(* Seen from a block that fills the given slot, the last round + 1 slots   *)
(* have passed: its own, those missed before it, and earlier ones.         *)
LEMMA PassedSlots ==
    ASSUME Typed, Len(shuffled) = N,
           \A j \in 0 .. round - 1 : shuffled[((aslot - j) % N) + 1] \in turns,
           NEW slot \in Nat \ {0}, NEW j \in 0 .. round
    PROVE  shuffled[(((aslot + slot) - j) % N) + 1]
             \in turns \cup {get_scheduled_witness(k) : k \in 1 .. slot}
<1>1. N \in Nat \ {0} /\ aslot \in Nat /\ round \in Nat
  <2>1. N \in Nat \ {0} /\ (num % N) \in 0 .. N - 1
    BY ActiveSetFacts, RoundFacts DEF Typed, N
  <2>2. aslot \in Nat
    BY WitnessAssumption DEF Typed
  <2> QED
    BY <2>1, <2>2 DEF round
<1>2. CASE j < slot
  <2>1. slot - j \in 1 .. slot /\ (aslot + slot) - j = aslot + (slot - j)
    BY <1>1, <1>2
  <2>2. get_scheduled_witness(slot - j) = shuffled[(((aslot + slot) - j) % N) + 1]
    BY <2>1 DEF get_scheduled_witness
  <2> QED
    BY <2>1, <2>2
<1>3. CASE j >= slot
  <2>1. j - slot \in 0 .. round - 1 /\ (aslot + slot) - j = aslot - (j - slot)
    BY <1>1, <1>3
  <2>2. shuffled[((aslot - (j - slot)) % N) + 1] \in turns
    BY <2>1
  <2> QED
    BY <2>1, <2>2
<1> QED
  BY <1>1, <1>2, <1>3

(* produce_block, the only action.                                         *)
LEMMA ProduceBlockPreserves ==
    ASSUME IndInv, NEW when \in Nat, NEW S \in ActiveSets, produce_block(when, S)
    PROVE  IndInv'
<1> DEFINE slot  == get_slot_at_time(when)
           maint == till <= when
           w     == get_scheduled_witness(slot)
           seen   == turns \cup {get_scheduled_witness(k) : k \in 1 .. slot}
           passed == IF Cardinality(S) = N THEN seen ELSE Witnesses
<1>1. /\ slot > 0 /\ Undoable /\ filled' = Filled(slot - 1)
      /\ num' = (num + 1) % Cycle /\ aslot' = (aslot + slot) % Cycle
      /\ age' = Aged(w) /\ gap' = NewGap(age')
      /\ active' = S /\ flag' = maint
      /\ till' \in IF maint THEN NextMaintenance(when) ELSE {till - when}
      /\ update_witness_schedule(S, slot)
  BY DEF produce_block
<1>2. Typed /\ TurnsPassed /\ passedOver = {}
  BY DEF IndInv
<1>3. N \in Nat \ {0} /\ aslot \in Nat /\ round \in 0 .. N - 1 /\ active \in ActiveSets
      /\ num \in 0 .. Cycle - 1
  <2>1. N \in Nat \ {0} /\ (num % N) \in 0 .. N - 1
    BY <1>2, ActiveSetFacts, RoundFacts DEF Typed, N
  <2> QED
    BY <1>2, <2>1, WitnessAssumption DEF Typed, round
<1>4. N' = Cardinality(S) /\ S \subseteq Witnesses /\ Cardinality(S) \in Nat \ {0}
  BY <1>1, ActiveSetFacts DEF N
<1>5. MaxUndo \in Nat /\ Interval \in Nat /\ Cycle \in Nat \ {0}
  BY WitnessAssumption
<1>6. slot \in Nat \ {0}
  BY <1>1, <1>2, SlotFacts DEF Typed
<1> HIDE DEF slot
<1>7. filled' \in [1 .. Window -> BOOLEAN]
  <2>1. slot - 1 \in Nat
    BY <1>6
  <2> QED
    BY <1>1, <1>2, <2>1, FilledFacts DEF Typed
<1>8. age' \in [Witnesses -> 0 .. MaxUndo]
  BY <1>1, <1>2, AgedFacts DEF Typed
<1>9. gap' \in 0 .. MaxUndo
  <2>1. gap \in Nat /\ gap + 1 < MaxUndo
    BY <1>1, <1>2, <1>5 DEF Typed, Undoable
  <2>2. gap' \in 0 .. gap + 1
    BY <1>1, <2>1, NewGapFacts
  <2> QED
    BY <1>5, <2>1, <2>2
<1>10. till' \in 0 .. Interval
  <2>1. till \in Nat /\ till <= Interval
    BY <1>2, <1>5 DEF Typed
  <2>2. CASE maint
    <3>1. till' \in 1 .. Interval
      BY <1>1, <2>1, <2>2, NextMaintenanceFacts
    <3> QED
      BY <1>5, <3>1
  <2>3. CASE ~maint
    BY <1>1, <1>5, <2>1, <2>3
  <2> QED
    BY <2>2, <2>3
<1>11. aslot' \in 0 .. Cycle - 1 /\ num' \in 0 .. Cycle - 1
  <2>1. ((aslot + slot) % Cycle) \in 0 .. Cycle - 1
    BY <1>3, <1>5, <1>6, DivisionFacts
  <2>2. ((num + 1) % Cycle) \in 0 .. Cycle - 1
    BY <1>3, <1>5, DivisionFacts
  <2> QED
    BY <1>1, <2>1, <2>2
<1>12. seen \subseteq Witnesses /\ passed \subseteq Witnesses
  <2>1. \A k \in 1 .. slot : get_scheduled_witness(k) \in Witnesses
    BY <1>2, ScheduledFacts
  <2> QED
    BY <1>2, <2>1 DEF Typed
<1>13. flag' \in BOOLEAN /\ resized' \in BOOLEAN /\ (~resized' => ~resized /\ Cardinality(S) = N)
  <2>1. resized' = (resized \/ Cardinality(S) # N)
    BY DEF produce_block
  <2>2. resized' \in BOOLEAN /\ flag' \in BOOLEAN
    BY <1>1, <2>1
  <2>3. ~resized' => ~resized /\ Cardinality(S) = N
    BY <2>1
  <2> QED
    BY <2>2, <2>3
<1>14. \/ turns = Witnesses
       \/ /\ Len(shuffled) = N
          /\ \A j \in 0 .. round : shuffled[(((aslot + slot) - j) % N) + 1] \in seen
  BY <1>2, <1>6, PassedSlots DEF TurnsPassed
<1>15. /\ round' = (num + 1) % Cardinality(S)
       /\ Cardinality(S) = N => (num + 1) % N = IF round = N - 1 THEN 0 ELSE round + 1
  BY <1>1, <1>3, <1>4, RoundFacts DEF round, N
<1> HIDE DEF seen
<1>16. CASE NewRound(S)
  <2>1. /\ shuffled' \in Orders(S) /\ turns' = {} /\ passedOver' = ToSet(shuffled) \ passed
    BY <1>1, <1>16 DEF update_witness_schedule, passed, seen
  <2>2. Len(shuffled') = N'
    BY <1>4, <2>1, OrderFacts
  <2>3. ToSet(shuffled) \subseteq passed
    <3>1. CASE Cardinality(S) # N \/ turns = Witnesses
      BY <1>2, <3>1, ShuffledFacts DEF seen
    <3>2. CASE Cardinality(S) = N /\ turns # Witnesses
      <4>1. /\ Len(shuffled) = N
            /\ \A j \in 0 .. round : shuffled[(((aslot + slot) - j) % N) + 1] \in seen
        BY <1>14, <3>2
      <4>2. round = N - 1
        <5>1. (num + 1) % N = 0
          BY <1>16, <3>2 DEF NewRound
        <5> QED
          BY <1>3, <1>15, <3>2, <5>1
      <4>3. \A p \in 1 .. N : shuffled[p] \in seen
        <5> SUFFICES ASSUME NEW p \in 1 .. N PROVE shuffled[p] \in seen
          OBVIOUS
        <5>1. p - 1 \in 0 .. N - 1 /\ aslot + slot \in Int
          BY <1>3, <1>6
        <5>2. PICK j \in 0 .. N - 1 : (((aslot + slot) - j) % N) = p - 1
          BY <1>3, <5>1, RemainderReached
        <5>3. (((aslot + slot) - j) % N) + 1 = p /\ j \in 0 .. round
          BY <1>3, <4>2, <5>2
        <5> QED
          BY <4>1, <5>3
      <4>4. DOMAIN shuffled = 1 .. N
        BY <1>2, <4>1, ShuffledFacts
      <4> QED
        BY <3>2, <4>3, <4>4 DEF ToSet
    <3> QED
      BY <3>1, <3>2
  <2>4. passedOver' = {}
    BY <2>1, <2>3
  <2>5. round' = 0
    BY <1>15, <1>16 DEF NewRound
  <2>6. TurnsPassed'
    BY <2>2, <2>5 DEF TurnsPassed
  <2>7. Typed'
    BY <1>1, <1>7, <1>8, <1>9, <1>10, <1>11, <1>13, <2>1 DEF Typed
  <2> QED
    BY <2>2, <2>4, <2>6, <2>7 DEF IndInv
<1>17. CASE ~NewRound(S)
  <2>1. shuffled' = shuffled /\ turns' = passed /\ passedOver' = {}
    BY <1>1, <1>2, <1>17 DEF update_witness_schedule, passed, seen
  <2>2. TurnsPassed'
    <3>1. CASE Cardinality(S) # N \/ turns = Witnesses
      <4>1. turns' = Witnesses
        BY <1>12, <2>1, <3>1 DEF seen
      <4> QED
        BY <4>1 DEF TurnsPassed
    <3>2. CASE Cardinality(S) = N /\ turns # Witnesses
      <4>1. /\ Len(shuffled) = N
            /\ \A j \in 0 .. round : shuffled[(((aslot + slot) - j) % N) + 1] \in seen
        BY <1>14, <3>2
      <4>2. round' = round + 1
        <5>1. (num + 1) % N # 0
          BY <1>17, <3>2 DEF NewRound
        <5> QED
          BY <1>15, <3>2, <5>1
      <4>3. \A j \in 0 .. round : shuffled'[((aslot' - j) % N) + 1] \in turns'
        <5> SUFFICES ASSUME NEW j \in 0 .. round
                     PROVE  shuffled'[((aslot' - j) % N) + 1] \in turns'
          OBVIOUS
        <5>1. aslot + slot \in Int /\ j \in Int /\ (Cycle % N) = 0
          BY <1>3, <1>6, ActiveSetFacts DEF N
        <5>2. ((((aslot + slot) % Cycle) - j) % N) = (((aslot + slot) - j) % N)
          BY <1>3, <1>5, <5>1, RemainderThrough
        <5> QED
          BY <1>1, <2>1, <3>2, <4>1, <5>2
      <4>4. \A j \in 0 .. round' - 1 : j \in 0 .. round
        BY <1>3, <4>2
      <4>5. N' = N /\ Len(shuffled') = N'
        BY <1>4, <2>1, <3>2, <4>1
      <4> QED
        BY <4>3, <4>4, <4>5 DEF TurnsPassed
    <3> QED
      BY <3>1, <3>2
  <2>3. Typed'
    <3>1. \E c \in ActiveSets : shuffled' \in Orders(c)
      BY <1>2, <2>1 DEF Typed
    <3> QED
      BY <1>1, <1>7, <1>8, <1>9, <1>10, <1>11, <1>12, <1>13, <2>1, <3>1 DEF Typed
  <2>4. ~resized' => Len(shuffled') = N'
    BY <1>4, <1>13, <2>1 DEF IndInv
  <2> QED
    BY <2>1, <2>2, <2>3, <2>4 DEF IndInv
<1> QED
  BY <1>16, <1>17

(* Every step preserves the invariant.                                     *)
LEMMA NextInv == IndInv /\ [Next]_vars => IndInv'
<1> SUFFICES ASSUME IndInv, [Next]_vars PROVE IndInv'
  OBVIOUS
<1>1. CASE Next
  <2>1. PICK when \in 1 .. Cardinality(Witnesses) + SkipSlots, S \in ActiveSets :
           produce_block(when, S)
    BY <1>1 DEF Next
  <2>2. when \in Nat
    OBVIOUS
  <2> QED
    BY <2>1, <2>2, ProduceBlockPreserves
<1>2. CASE UNCHANGED vars
  <2>1. N' = N
    BY <1>2 DEF vars, N
  <2>2. round' = round
    BY <1>2, <2>1 DEF vars, round
  <2> QED
    BY <1>2, <2>1, <2>2 DEF vars, IndInv, Typed, TurnsPassed
<1> QED
  BY <1>1, <1>2

(* The invariant holds always.                                             *)
THEOREM Invariance == Spec => []IndInv
<1> QED
  BY InitInv, NextInv, PTL DEF Spec

(* The schedule always is an order of some set of active witnesses, the    *)
(* time of the next maintenance is within one interval of the head block,  *)
(* and recent_slots_filled as long as its window.                          *)
THEOREM TypeCorrectness == Spec => []TypeOK
<1>1. IndInv => TypeOK
  BY DEF IndInv, Typed, TypeOK
<1> QED
  BY <1>1, Invariance, PTL

(* Between two shuffles every scheduled witness has a slot, whoever is     *)
(* down and wherever a maintenance changes the active witnesses, in every  *)
(* round during which their number stays the same: there are as many       *)
(* blocks in it as witnesses, and each block passes on at least one slot.  *)
(* Earlier rounds may have had other numbers.                              *)
THEOREM NobodyPassedOver == Spec => []EveryoneHasTurn
<1>1. IndInv => EveryoneHasTurn
  BY DEF IndInv, EveryoneHasTurn
<1> QED
  BY <1>1, Invariance, PTL
-----------------------------------------------------------------------------
(***************************************************************************)
(* How far the last irreversible block is behind.                          *)
(***************************************************************************)

(* No vote count changes so many witnesses that, with those that are down, *)
(* more than Offset of the active ones do not confirm.                     *)
SlowChurn ==
    \A a, b \in ActiveSets :
       Cardinality(a) = Cardinality(b) =>
          Cardinality(a \ b) + MaxDown <= ((100 - Threshold) * Cardinality(a)) \div 100

(* Who is up and was scheduled in the round before has produced in that    *)
(* round, and who had a slot in this round, in this one.                   *)
RoundInv ==
    /\ down \subseteq Witnesses /\ Cardinality(down) <= MaxDown
    /\ ~resized => /\ \E b \in ActiveSets : /\ Cardinality(b) = N
                                            /\ \A w \in b \ down : age[w] <= N + round
                   /\ \A w \in turns \ down : age[w] <= round
                   /\ gap <= 2 * N

(* A schedule holds all of the witnesses it was made of.                   *)
LEMMA ScheduleHoldsAll ==
    ASSUME NEW b \in ActiveSets, NEW s \in Orders(b)
    PROVE  ToSet(s) = b
<1>1. IsFiniteSet(b) /\ Cardinality(b) \in Nat
  BY ActiveSetFacts
<1>2. PICK n \in Nat : n = Cardinality(b)
  BY <1>1
<1>3. s \in [1 .. n -> b] /\ IsInjective(s)
  BY <1>2 DEF Orders
<1>4. s \in Injection(1 .. n, b)
  BY <1>3 DEF Injection
<1>5. Cardinality(1 .. n) = n
  <2>1. Cardinality(1 .. n) = IF 1 > n THEN 0 ELSE n - 1 + 1
    BY FS_Interval
  <2> QED
    BY <2>1
<1>6. s \in Surjection(1 .. n, b)
  BY <1>1, <1>2, <1>4, <1>5, FS_Injection
<1>7. \A w \in b : \E i \in 1 .. n : s[i] = w
  BY <1>6 DEF Surjection
<1> QED
  BY <1>3, <1>7 DEF ToSet

(* If everyone who is up and was in another set confirms, enough confirm.  *)
LEMMA EnoughConfirm ==
    ASSUME SlowChurn, NEW a \in ActiveSets, NEW b \in ActiveSets, Cardinality(a) = Cardinality(b),
           NEW d \in SUBSET Witnesses, Cardinality(d) <= MaxDown,
           NEW C \in SUBSET a, \A w \in a : w \in b /\ w \notin d => w \in C
    PROVE  Cardinality(C) >= Cardinality(a) - (((100 - Threshold) * Cardinality(a)) \div 100)
<1>1. /\ IsFiniteSet(a) /\ IsFiniteSet(b) /\ IsFiniteSet(d) /\ IsFiniteSet(C)
      /\ IsFiniteSet(a \ b) /\ IsFiniteSet(a \ C)
  <2>1. IsFiniteSet(a) /\ IsFiniteSet(b)
    BY ActiveSetFacts
  <2>2. IsFiniteSet(d)
    BY WitnessAssumption, FS_Subset
  <2> QED
    BY <2>1, <2>2, FS_Subset, FS_Difference
<1>2. /\ Cardinality(a) \in Nat /\ Cardinality(d) \in Nat /\ Cardinality(C) \in Nat
      /\ Cardinality(a \ b) \in Nat /\ Cardinality(a \ C) \in Nat /\ MaxDown \in Nat
      /\ Threshold \in Nat
  BY <1>1, FS_CardinalityType, WitnessAssumption
<1>3. Cardinality(a \ C) = Cardinality(a) - Cardinality(C)
  <2>1. a \cap C = C
    OBVIOUS
  <2>2. Cardinality(a \ C) = Cardinality(a) - Cardinality(a \cap C)
    BY <1>1, FS_Difference
  <2> QED
    BY <2>1, <2>2
<1>4. a \ C \in SUBSET ((a \ b) \cup d)
  OBVIOUS
<1>5. /\ IsFiniteSet((a \ b) \cup d)
      /\ Cardinality((a \ b) \cup d) <= Cardinality(a \ b) + Cardinality(d)
  <2>1. Cardinality((a \ b) \cup d)
          = Cardinality(a \ b) + Cardinality(d) - Cardinality((a \ b) \cap d)
    BY <1>1, FS_Union
  <2>2. Cardinality((a \ b) \cap d) \in Nat
    BY <1>1, FS_Intersection, FS_CardinalityType
  <2>3. IsFiniteSet((a \ b) \cup d)
    BY <1>1, FS_Union
  <2> QED
    BY <1>2, <2>1, <2>2, <2>3
<1>6. Cardinality(a \ C) <= Cardinality((a \ b) \cup d)
  BY <1>4, <1>5, FS_Subset
<1>7. Cardinality((a \ b) \cup d) \in Nat
  BY <1>5, FS_CardinalityType
<1>8. Cardinality(a \ b) + MaxDown <= ((100 - Threshold) * Cardinality(a)) \div 100
  BY DEF SlowChurn
<1>9. PICK off \in Int : off = ((100 - Threshold) * Cardinality(a)) \div 100
  <2>1. (100 - Threshold) * Cardinality(a) \in Int
    BY <1>2
  <2> QED
    BY <2>1, DivisionFacts
<1>10. Cardinality(a) - Cardinality(C) <= off
  BY <1>2, <1>3, <1>5, <1>6, <1>7, <1>8, <1>9
<1> QED
  BY <1>2, <1>9, <1>10

(* The first round.                                                        *)
LEMMA RoundInit == Init => RoundInv
<1> SUFFICES ASSUME Init PROVE RoundInv
  OBVIOUS
<1>1. N \in Nat \ {0} /\ active \subseteq Witnesses
  BY ActiveSetFacts DEF Init, N
<1>2. /\ active \in ActiveSets /\ Cardinality(active) = N
      /\ \A w \in active \ down : age[w] <= N + round
  BY <1>1, FirstRound DEF Init, N
<1>3. gap <= 2 * N /\ turns = {}
  BY <1>1 DEF Init
<1>4. down \subseteq Witnesses /\ Cardinality(down) <= MaxDown
  BY DEF Init
<1> QED
  BY <1>2, <1>3, <1>4 DEF RoundInv

(* The place in the round.                                                 *)
LEMMA RoundTyped ==
    ASSUME Typed
    PROVE  N \in Nat \ {0} /\ aslot \in Nat /\ round \in 0 .. N - 1
<1>1. N \in Nat \ {0} /\ (num % N) \in 0 .. N - 1
  BY ActiveSetFacts, RoundFacts DEF Typed, N
<1>2. aslot \in Nat
  BY WitnessAssumption DEF Typed
<1> QED
  BY <1>1, <1>2 DEF round

(* A block after which the number of witnesses never has changed.          *)
LEMMA SameNumber ==
    ASSUME NEW when, NEW S \in ActiveSets, produce_block(when, S), ~resized'
    PROVE  N' = N /\ N = Cardinality(S) /\ ~resized
<1>1. resized' = (resized \/ Cardinality(S) # N) /\ active' = S
  BY DEF produce_block
<1> QED
  BY <1>1 DEF N

(* The place in the round after such a block.                              *)
LEMMA RoundMoves ==
    ASSUME Typed, NEW when, NEW S \in ActiveSets, produce_block(when, S), N' = N
    PROVE  round' = ((num + 1) % N) /\ round' = IF round = N - 1 THEN 0 ELSE round + 1
<1>1. num' = (num + 1) % Cycle /\ active \in ActiveSets /\ num \in 0 .. Cycle - 1
  BY DEF produce_block, Typed
<1> QED
  BY <1>1, RoundFacts DEF round, N

(* A block keeps what is known of the round.                               *)
LEMMA RoundPreserved ==
    ASSUME SlowChurn, IndInv, RoundInv, NEW when \in Nat, NEW S \in ActiveSets,
           produce_block(when, S)
    PROVE  RoundInv'
<1> DEFINE slot  == get_slot_at_time(when)
           w     == get_scheduled_witness(slot)
           passed == turns \cup {get_scheduled_witness(k) : k \in 1 .. slot}
<1>1. /\ slot > 0 /\ Undoable /\ age' = Aged(w) /\ gap' = NewGap(age')
      /\ active' = S /\ down' = down
      /\ \A k \in 1 .. slot - 1 : get_scheduled_witness(k) \in down
      /\ update_witness_schedule(S, slot)
  BY DEF produce_block
<1>2. Typed
  BY DEF IndInv
<1> SUFFICES ASSUME ~resized'
             PROVE  /\ \E b \in ActiveSets : /\ Cardinality(b) = N'
                                             /\ \A v \in b \ down : age'[v] <= N' + round'
                    /\ \A v \in turns' \ down : age'[v] <= round'
                    /\ gap' <= 2 * N'
  BY <1>1 DEF RoundInv
<1>3. N \in Nat \ {0} /\ aslot \in Nat /\ round \in 0 .. N - 1
  BY <1>2, RoundTyped
<1>4. N' = N /\ N = Cardinality(S) /\ active \in ActiveSets /\ ~resized
  BY <1>2, SameNumber DEF Typed
<1>17. round' = ((num + 1) % N) /\ round' = IF round = N - 1 THEN 0 ELSE round + 1
  BY <1>2, <1>4, RoundMoves
<1>5. slot \in Nat \ {0}
  BY <1>1, <1>2, SlotFacts DEF Typed
<1>6. MaxUndo \in Nat
  BY WitnessAssumption
<1> HIDE DEF slot
<1>7. \A v \in Witnesses : age'[v] <= age[v] + 1 /\ age'[v] \in Nat /\ age[v] \in Nat
  <2> SUFFICES ASSUME NEW v \in Witnesses
               PROVE  age'[v] <= age[v] + 1 /\ age'[v] \in Nat /\ age[v] \in Nat
    OBVIOUS
  <2>1. age[v] \in Nat /\ age[v] + 1 \in Int
    BY <1>2, <1>6 DEF Typed
  <2>2. age'[v] = IF v = w THEN 0 ELSE Min({age[v] + 1, MaxUndo})
    BY <1>1 DEF Aged
  <2>3. Min({age[v] + 1, MaxUndo}) = IF age[v] + 1 <= MaxUndo THEN age[v] + 1 ELSE MaxUndo
    BY <1>6, <2>1, MinOfTwo
  <2> QED
    BY <1>6, <2>1, <2>2, <2>3
<1>8. w \in Witnesses /\ age'[w] = 0
  <2>1. w \in Witnesses
    BY <1>2, <1>5, ScheduledFacts
  <2> QED
    BY <1>1, <2>1 DEF Aged
<1> HIDE DEF w
<1>9. turns \subseteq Witnesses /\ \A a \in ActiveSets : a \subseteq Witnesses
  BY <1>2, ActiveSetFacts DEF Typed
<1>10. \A v \in passed \ down : age'[v] <= round + 1
  <2> SUFFICES ASSUME NEW v \in passed, v \notin down PROVE age'[v] <= round + 1
    OBVIOUS
  <2>1. CASE v \in turns
    <3>1. age[v] <= round /\ v \in Witnesses
      BY <1>4, <1>9, <2>1 DEF RoundInv
    <3> QED
      BY <1>3, <1>7, <3>1
  <2>2. CASE v \notin turns
    <3>1. PICK k \in 1 .. slot : v = get_scheduled_witness(k)
      BY <2>2
    <3>2. k = slot
      <4>1. SUFFICES ASSUME k # slot PROVE FALSE
        OBVIOUS
      <4>2. k \in 1 .. slot - 1
        BY <1>5, <4>1
      <4> QED
        BY <1>1, <3>1, <4>2
    <3>3. v = w
      BY <3>1, <3>2 DEF w
    <3> QED
      BY <1>3, <1>8, <3>3
  <2> QED
    BY <2>1, <2>2
<1>11. PICK b \in ActiveSets : Cardinality(b) = N /\ \A v \in b \ down : age[v] <= N + round
  BY <1>4 DEF RoundInv
<1>12. \A v \in b \ down : age'[v] <= N + (round + 1)
  <2>1. \A v \in b \ down : v \in Witnesses
    BY <1>9
  <2> QED
    BY <1>3, <1>7, <1>11, <2>1
<1>13. gap' <= 2 * N
  <2> DEFINE k == N + (round + 1)
             K == {i \in 0 .. MaxUndo : Cardinality({v \in active : age'[v] <= i}) >= N - Offset}
             T == {gap + 1} \cup K
  <2>1. k \in Nat /\ k <= 2 * N
    BY <1>3
  <2>2. gap \in Nat /\ gap + 1 < MaxUndo
    BY <1>1, <1>2, <1>6 DEF Typed, Undoable
  <2>3. T \in SUBSET Nat
    <3>1. K \in SUBSET Nat
      BY <1>6
    <3> HIDE DEF K
    <3> QED
      BY <2>2, <3>1
  <2>4. gap' = Min(T)
    BY <1>1 DEF NewGap
  <2>5. k <= MaxUndo => k \in T
    <3> SUFFICES ASSUME k <= MaxUndo PROVE k \in K
      OBVIOUS
    <3> DEFINE C == {v \in active : age'[v] <= k}
    <3>1. \A v \in active : v \in b /\ v \notin down => v \in C
      BY <1>12
    <3>2. C \in SUBSET active
      OBVIOUS
    <3>3. down \in SUBSET Witnesses /\ Cardinality(down) <= MaxDown
      BY DEF RoundInv
    <3> HIDE DEF C
    <3>4. Cardinality(C) >= Cardinality(active) - (((100 - Threshold) * Cardinality(active)) \div 100)
      BY <1>4, <1>11, <3>1, <3>2, <3>3, EnoughConfirm DEF N
    <3>5. Cardinality(C) >= N - Offset
      BY <3>4 DEF N, Offset
    <3>6. Cardinality({v \in active : age'[v] <= k}) >= N - Offset
      BY <3>5 DEF C
    <3>7. k \in 0 .. MaxUndo
      BY <1>6, <2>1
    <3> HIDE DEF k
    <3> QED
      BY <3>6, <3>7
  <2> HIDE DEF T, k
  <2>6. \A i \in T : Min(T) <= i
    <3>1. gap + 1 \in T
      BY DEF T
    <3> QED
      BY <2>3, <3>1, MinIsLeast
  <2>7. Min(T) \in Nat
    <3>1. gap + 1 \in T
      BY DEF T
    <3> QED
      BY <2>3, <3>1, MinIsLeast
  <2>8. CASE k <= MaxUndo
    BY <1>3, <2>1, <2>4, <2>5, <2>6, <2>7, <2>8
  <2>9. CASE k > MaxUndo
    <3>1. Min(T) <= gap + 1
      BY <2>6 DEF T
    <3> QED
      BY <1>3, <1>6, <2>1, <2>2, <2>4, <2>7, <2>9, <3>1
  <2> QED
    BY <1>6, <2>1, <2>8, <2>9
<1>14. PICK c \in ActiveSets : shuffled \in Orders(c) /\ Cardinality(c) = N
  BY <1>2, <1>4, OrderFacts DEF IndInv, Typed
<1> HIDE DEF passed
<1>15. CASE NewRound(S)
  <2>1. /\ shuffled' \in Orders(S) /\ turns' = {} /\ passedOver' = ToSet(shuffled) \ passed
    BY <1>1, <1>4, <1>15 DEF update_witness_schedule, passed
  <2>2. round' = 0
    BY <1>4, <1>15, <1>17 DEF NewRound
  <2>3. passedOver' = {}
    BY ProduceBlockPreserves DEF IndInv
  <2>4. \A v \in c : v \in passed
    BY <1>14, <2>1, <2>3, ScheduleHoldsAll
  <2>5. \A v \in c \ down : age'[v] <= N + round'
    <3>1. \A v \in c \ down : age'[v] <= round + 1 /\ age'[v] \in Nat
      BY <1>7, <1>9, <1>10, <2>4
    <3> QED
      BY <1>3, <2>2, <3>1
  <2> QED
    BY <1>4, <1>13, <1>14, <2>1, <2>5
<1>16. CASE ~NewRound(S)
  <2>1. shuffled' = shuffled /\ turns' = passed
    BY <1>1, <1>4, <1>16 DEF update_witness_schedule, passed
  <2>2. round' = round + 1
    BY <1>4, <1>16, <1>17 DEF NewRound
  <2>3. \A v \in turns' \ down' : age'[v] <= round'
    BY <1>1, <1>10, <2>1, <2>2
  <2>4. \A v \in b \ down' : age'[v] <= N' + round'
    BY <1>1, <1>4, <1>12, <2>2
  <2> QED
    BY <1>1, <1>4, <1>11, <1>13, <2>3, <2>4
<1> QED
  BY <1>15, <1>16

(* Every step does.                                                        *)
LEMMA RoundNext ==
    ASSUME SlowChurn
    PROVE  IndInv /\ RoundInv /\ [Next]_vars => RoundInv'
<1> SUFFICES ASSUME IndInv, RoundInv, [Next]_vars PROVE RoundInv'
  OBVIOUS
<1>1. CASE Next
  <2>1. PICK when \in 1 .. Cardinality(Witnesses) + SkipSlots, S \in ActiveSets :
           produce_block(when, S)
    BY <1>1 DEF Next
  <2>2. when \in Nat
    OBVIOUS
  <2> QED
    BY <2>1, <2>2, RoundPreserved
<1>2. CASE UNCHANGED vars
  <2>1. N' = N
    BY <1>2 DEF vars, N
  <2>2. round' = round
    BY <1>2, <2>1 DEF vars, round
  <2> QED
    BY <1>2, <2>1, <2>2 DEF vars, RoundInv
<1> QED
  BY <1>1, <1>2

(* As long as a vote count changes few enough witnesses, and not their     *)
(* number, the last irreversible block is at most two rounds behind the    *)
(* head block.  Who was scheduled in the round before and is up has        *)
(* produced since it began, and with slow churn all but Offset of the      *)
(* active ones are such.                                                   *)
THEOREM IrreversibleKeepsUp ==
    ASSUME SlowChurn
    PROVE  Spec => []IrreversibleFollows
<1>1. Init => RoundInv
  BY RoundInit
<1>2. IndInv /\ RoundInv /\ [Next]_vars => RoundInv'
  BY RoundNext
<1>3. RoundInv => IrreversibleFollows
  BY DEF RoundInv, IrreversibleFollows, Steady
<1> QED
  BY <1>1, <1>2, <1>3, Invariance, PTL DEF Spec

(* If the undo history is longer than two rounds as well, no node refuses  *)
(* a block because it could not undo it.                                   *)
THEOREM HistorySuffices ==
    ASSUME SlowChurn, \A a \in ActiveSets : 2 * Cardinality(a) + 1 < MaxUndo
    PROVE  Spec => [](~resized => Undoable)
<1>1. IndInv /\ RoundInv => (~resized => Undoable)
  <2> SUFFICES ASSUME IndInv, RoundInv, ~resized PROVE Undoable
    OBVIOUS
  <2>1. N \in Nat /\ 2 * N + 1 < MaxUndo /\ MaxUndo \in Nat /\ gap \in Nat
    BY ActiveSetFacts, WitnessAssumption DEF IndInv, Typed, N
  <2> QED
    BY <2>1 DEF RoundInv, Undoable
<1>2. Init => RoundInv
  BY RoundInit
<1>3. IndInv /\ RoundInv /\ [Next]_vars => RoundInv'
  BY RoundNext
<1> QED
  BY <1>1, <1>2, <1>3, Invariance, PTL DEF Spec
-----------------------------------------------------------------------------
(***************************************************************************)
(* How many slots are missed.  The slots that recent_slots_filled has as   *)
(* missed are counted from the newest one, number 0.                       *)
(***************************************************************************)
Missed(f, a, b) == {i \in a .. b : i < Window /\ f[Window - i] = FALSE}

(* The missed slots between two others are a finite set.                   *)
LEMMA MissedFacts ==
    ASSUME NEW f, NEW a \in Int, NEW b \in Int
    PROVE  /\ IsFiniteSet(Missed(f, a, b)) /\ Cardinality(Missed(f, a, b)) \in Nat
           /\ Missed(f, a, b) \subseteq a .. b
<1>1. Missed(f, a, b) \in SUBSET (a .. b)
  BY DEF Missed
<1>2. IsFiniteSet(a .. b)
  BY FS_Interval
<1>3. IsFiniteSet(Missed(f, a, b))
  BY <1>1, <1>2, FS_Subset
<1> QED
  BY <1>1, <1>3, FS_CardinalityType

(* recent_slots_filled after a block: the slots missed before it are the   *)
(* newest, then comes the block, then what there was.                      *)
LEMMA FilledIs ==
    ASSUME filled \in [1 .. Window -> BOOLEAN], NEW missed \in Nat, NEW i \in 0 .. Window - 1
    PROVE  Filled(missed)[Window - i] = IF i < missed THEN FALSE
                                        ELSE IF i = missed THEN TRUE
                                        ELSE filled[Window - (i - (missed + 1))]
<1> DEFINE m == [k \in 1 .. missed |-> FALSE]
           h == filled \o <<TRUE>>
           s == h \o m
<1>1. Window \in Nat
  BY WitnessAssumption
<1>2. filled \in Seq(BOOLEAN) /\ Len(filled) = Window
  BY <1>1
<1>3. m \in Seq(BOOLEAN) /\ Len(m) = missed /\ \A k \in 1 .. missed : m[k] = FALSE
  OBVIOUS
<1>4. <<TRUE>> \in Seq(BOOLEAN) /\ Len(<<TRUE>>) = 1 /\ <<TRUE>>[1] = TRUE
  OBVIOUS
<1> HIDE DEF m
<1>5. h \in Seq(BOOLEAN) /\ Len(h) = Window + 1
      /\ \A k \in 1 .. Window + 1 : h[k] = IF k <= Window THEN filled[k] ELSE <<TRUE>>[k - Window]
  BY <1>2, <1>4, ConcatProperties
<1>6. h[Window + 1] = TRUE /\ \A k \in 1 .. Window : h[k] = filled[k]
  <2>1. Window + 1 \in 1 .. Window + 1 /\ ~(Window + 1 <= Window) /\ (Window + 1) - Window = 1
        /\ \A k \in 1 .. Window : k \in 1 .. Window + 1 /\ k <= Window
    BY <1>1
  <2> QED
    BY <1>4, <1>5, <2>1
<1> HIDE DEF h
<1>7. s \in Seq(BOOLEAN) /\ Len(s) = Window + 1 + missed
      /\ \A k \in 1 .. Window + 1 + missed :
            s[k] = IF k <= Window + 1 THEN h[k] ELSE m[k - (Window + 1)]
  <2>1. /\ s \in Seq(BOOLEAN) /\ Len(s) = Len(h) + Len(m)
        /\ \A k \in 1 .. Len(h) + Len(m) :
              s[k] = IF k <= Len(h) THEN h[k] ELSE m[k - Len(h)]
    <3>1. h \in Seq(BOOLEAN) /\ m \in Seq(BOOLEAN)
      BY <1>3, <1>5
    <3> QED
      BY <3>1, ConcatProperties, ZenonT(60)
  <2>2. Len(h) = Window + 1 /\ Len(m) = missed
    BY <1>3, <1>5
  <2> HIDE DEF s
  <2> QED
    BY <2>1, <2>2
<1> HIDE DEF s
<1>8. PICK a \in Int : a = Len(s) - Window + 1 /\ a = missed + 2
  BY <1>1, <1>7
<1>9. \A k \in a .. Len(s) : s[k] \in BOOLEAN
  <2>1. \A k \in a .. Len(s) : k \in 1 .. Len(s)
    BY <1>1, <1>7, <1>8
  <2> QED
    BY <1>7, <2>1
<1>10. \A k \in 1 .. Len(s) - a + 1 : SubSeq(s, a, Len(s))[k] = s[a + k - 1]
  BY <1>7, <1>8, <1>9, SubSeqProperties
<1>11. PICK k \in Int, e \in 1 .. Window + 1 + missed :
          /\ k = Window - i /\ k \in 1 .. Len(s) - a + 1
          /\ e = missed + 1 + k /\ a + k - 1 = e
  BY <1>1, <1>7, <1>8
<1>12. Filled(missed) = SubSeq(s, a, Len(s))
  BY <1>8 DEF Filled, s, h, m
<1>13. Filled(missed)[Window - i] = s[e]
  BY <1>10, <1>11, <1>12
<1>14. s[e] = IF e <= Window + 1 THEN h[e] ELSE m[e - (Window + 1)]
  BY <1>7
<1>15. CASE i < missed
  <2>1. ~(e <= Window + 1) /\ e - (Window + 1) \in 1 .. missed
    BY <1>1, <1>11, <1>15
  <2> QED
    BY <1>3, <1>13, <1>14, <1>15, <2>1
<1>16. CASE i = missed
  <2>1. e = Window + 1 /\ e <= Window + 1 /\ ~(i < missed)
    BY <1>1, <1>11, <1>16
  <2> QED
    BY <1>6, <1>13, <1>14, <1>16, <2>1
<1>17. CASE i > missed
  <2>1. /\ e <= Window + 1 /\ e \in 1 .. Window
        /\ e = Window - (i - (missed + 1)) /\ ~(i < missed) /\ i # missed
    BY <1>1, <1>11, <1>17
  <2> QED
    BY <1>6, <1>13, <1>14, <2>1
<1>18. i < missed \/ i = missed \/ i > missed
  BY <1>1
<1> QED
  BY <1>15, <1>16, <1>17, <1>18

(* The same by the slot of the block.                                      *)
LEMMA FilledAfter ==
    ASSUME filled \in [1 .. Window -> BOOLEAN], NEW slot \in Nat \ {0}, NEW f, f = Filled(slot - 1),
           NEW i \in 0 .. Window - 1
    PROVE  /\ i = slot - 1 => f[Window - i] = TRUE
           /\ i > slot - 1 => f[Window - i] = filled[Window - (i - slot)]
<1>1. PICK missed \in Nat : missed = slot - 1 /\ missed + 1 = slot
  OBVIOUS
<1>2. f[Window - i] = IF i < missed THEN FALSE
                      ELSE IF i = missed THEN TRUE ELSE filled[Window - (i - (missed + 1))]
  BY <1>1, FilledIs
<1>3. Window \in Nat /\ i \in Int
  BY WitnessAssumption
<1>4. CASE i = slot - 1
  <2>1. i = missed /\ ~(i < missed)
    BY <1>1, <1>3, <1>4
  <2> QED
    BY <1>2, <1>4, <2>1
<1>5. CASE i > slot - 1
  <2>1. i # missed /\ ~(i < missed) /\ i # slot - 1
    BY <1>1, <1>3, <1>5
  <2> QED
    BY <1>1, <1>2, <1>5, <2>1
<1> QED
  BY <1>4, <1>5

(* Slots of fewer numbers than there are witnesses are different ones.     *)
LEMMA RemaindersDiffer ==
    ASSUME NEW x \in Int, NEW n \in Nat \ {0}, NEW j \in Int,
           NEW i \in j .. j + n - 1, NEW k \in j .. j + n - 1, ((x - i) % n) = ((x - k) % n)
    PROVE  i = k
<1>1. i \in Int /\ k \in Int /\ x - i \in Int /\ x - k \in Int
  OBVIOUS
<1>2. PICK a \in Int, r \in 0 .. n - 1 : x - i = n * a + r /\ r = ((x - i) % n)
  BY <1>1, DivisionFacts
<1>3. PICK b \in Int, q \in 0 .. n - 1 : x - k = n * b + q /\ q = ((x - k) % n)
  BY <1>1, DivisionFacts
<1>4. PICK na \in Int, nb \in Int : na = n * a /\ nb = n * b
  OBVIOUS
<1>5. r = q /\ i - k = nb - na
  BY <1>1, <1>2, <1>3, <1>4
<1>6. ~(a >= b + 1)
  <2>1. SUFFICES ASSUME a >= b + 1 PROVE FALSE
    OBVIOUS
  <2>2. na >= nb + n
    BY <1>4, <2>1, TimesGrows
  <2> QED
    BY <1>1, <1>5, <2>2
<1>7. ~(b >= a + 1)
  <2>1. SUFFICES ASSUME b >= a + 1 PROVE FALSE
    OBVIOUS
  <2>2. nb >= na + n
    BY <1>4, <2>1, TimesGrows
  <2> QED
    BY <1>1, <1>5, <2>2
<1>8. a = b
  BY <1>6, <1>7
<1> QED
  BY <1>1, <1>4, <1>5, <1>8

(* As many slots in a row as there are witnesses, or fewer: if all of them *)
(* belong to witnesses of d, they are no more than those.                  *)
LEMMA RowOfSlots ==
    ASSUME NEW c \in ActiveSets, NEW s \in Orders(c), NEW n, n = Cardinality(c),
           NEW x \in Int, NEW j \in Int, NEW M \in SUBSET (j .. j + n - 1),
           NEW d, IsFiniteSet(d), \A i \in M : s[((x - i) % n) + 1] \in d
    PROVE  Cardinality(M) <= Cardinality(d)
<1>1. n \in Nat \ {0}
  BY ActiveSetFacts
<1>2. s \in [1 .. n -> c] /\ IsInjective(s)
  BY DEF Orders
<1>3. \A i \in M : i \in j .. j + n - 1 /\ x - i \in Int
  BY <1>1
<1>4. \A i \in M : ((x - i) % n) \in 0 .. n - 1 /\ ((x - i) % n) + 1 \in 1 .. n
  <2> SUFFICES ASSUME NEW i \in M
               PROVE  ((x - i) % n) \in 0 .. n - 1 /\ ((x - i) % n) + 1 \in 1 .. n
    OBVIOUS
  <2>1. ((x - i) % n) \in 0 .. n - 1
    BY <1>1, <1>3, DivisionFacts
  <2>2. PICK r \in 0 .. n - 1 : r = ((x - i) % n)
    BY <2>1
  <2>3. r + 1 \in 1 .. n
    BY <1>1
  <2> QED
    BY <2>2, <2>3
<1> DEFINE g == [i \in M |-> s[((x - i) % n) + 1]]
<1>5. g \in [M -> d]
  OBVIOUS
<1>6. ASSUME NEW i \in M, NEW k \in M, g[i] = g[k] PROVE i = k
  <2>1. s[((x - i) % n) + 1] = s[((x - k) % n) + 1]
    BY <1>6
  <2>2. ((x - i) % n) + 1 = ((x - k) % n) + 1
    BY <1>2, <1>4, <2>1 DEF IsInjective
  <2>3. ((x - i) % n) = ((x - k) % n)
    <3>1. PICK r \in Int, q \in Int : r = ((x - i) % n) /\ q = ((x - k) % n)
      BY <1>4
    <3> QED
      BY <2>2, <3>1
  <2> QED
    BY <1>1, <1>3, <2>3, RemaindersDiffer
<1>7. g \in Injection(M, d)
  <2>1. DOMAIN g = M
    OBVIOUS
  <2> HIDE DEF g
  <2> QED
    BY <1>5, <1>6, <2>1 DEF Injection, IsInjective
<1> HIDE DEF g
<1> QED
  BY <1>7, FS_Injection

(***************************************************************************)
(* The invariant.  Of the slots since the last shuffle those missed belong *)
(* to witnesses that are down; and of the last N slots before it, what is  *)
(* left behind the new ones has no more missed ones than witnesses are     *)
(* down.  So have N slots in a row, with a shuffle in between, twice that. *)
(***************************************************************************)
OfRound(s) == \A i \in Missed(filled, 0, s - 1) : shuffled[(((aslot - 1) - i) % N) + 1] \in down

SparseInv ==
    /\ down \subseteq Witnesses /\ Cardinality(down) <= MaxDown
    /\ ~resized =>
         /\ \E s \in Nat : /\ s >= round /\ OfRound(s)
                           /\ Cardinality(Missed(filled, s, N - 1)) <= MaxDown
         /\ \A j \in Nat : Cardinality(Missed(filled, j, j + N - 1)) <= 2 * MaxDown

(* Fewer slots have fewer missed ones.                                     *)
LEMMA MissedGrows ==
    ASSUME NEW f, NEW a \in Int, NEW b \in Int, NEW c \in Int, b <= c
    PROVE  Cardinality(Missed(f, a, b)) <= Cardinality(Missed(f, a, c))
<1>1. Missed(f, a, b) \in SUBSET Missed(f, a, c)
  BY DEF Missed
<1>2. IsFiniteSet(Missed(f, a, c))
  BY MissedFacts
<1> QED
  BY <1>1, <1>2, FS_Subset

(* What was missed before a block moves on by the slots of the block.      *)
LEMMA MissedMoves ==
    ASSUME filled \in [1 .. Window -> BOOLEAN], NEW slot \in Nat \ {0},
           NEW f, f = Filled(slot - 1), NEW a \in Int, NEW b \in Int, a >= slot
    PROVE  Cardinality(Missed(f, a, b)) <= Cardinality(Missed(filled, a - slot, b - slot))
<1>1. Window \in Nat /\ slot - 1 \in Nat /\ (slot - 1) + 1 = slot
  BY WitnessAssumption
<1>2. ASSUME NEW i \in Missed(f, a, b)
      PROVE  i \in Int /\ i - slot \in Missed(filled, a - slot, b - slot)
  <2>1. i \in a .. b /\ i < Window /\ f[Window - i] = FALSE
    BY <1>2 DEF Missed
  <2>2. i \in 0 .. Window - 1 /\ i > slot - 1
    BY <1>1, <2>1
  <2>3. f[Window - i] = filled[Window - (i - slot)]
    BY <2>2, FilledAfter
  <2>4. i - slot \in a - slot .. b - slot /\ i - slot < Window
    BY <1>1, <2>1
  <2> QED
    BY <2>1, <2>3, <2>4 DEF Missed
<1> DEFINE g == [i \in Missed(f, a, b) |-> i - slot]
<1>3. g \in [Missed(f, a, b) -> Missed(filled, a - slot, b - slot)]
  BY <1>2
<1>4. ASSUME NEW i \in Missed(f, a, b), NEW k \in Missed(f, a, b), g[i] = g[k] PROVE i = k
  <2>1. i - slot = k - slot
    BY <1>4
  <2> QED
    BY <1>2, <2>1
<1>5. g \in Injection(Missed(f, a, b), Missed(filled, a - slot, b - slot))
  <2>1. DOMAIN g = Missed(f, a, b)
    OBVIOUS
  <2> HIDE DEF g
  <2> QED
    BY <1>3, <1>4, <2>1 DEF Injection, IsInjective
<1>6. IsFiniteSet(Missed(filled, a - slot, b - slot))
  BY MissedFacts
<1> HIDE DEF g
<1> QED
  BY <1>5, <1>6, FS_Injection

(* What a block adds belongs to witnesses that are down as well.           *)
LEMMA MissedAreDown ==
    ASSUME Typed, Len(shuffled) = N,
           NEW slot \in Nat \ {0}, NEW f, f = Filled(slot - 1), NEW s \in Nat, OfRound(s),
           \A k \in 1 .. slot - 1 : get_scheduled_witness(k) \in down,
           NEW i \in Missed(f, 0, s + slot - 1)
    PROVE  shuffled[(((aslot + slot - 1) - i) % N) + 1] \in down
<1>1. Window \in Nat /\ slot - 1 \in Nat /\ (slot - 1) + 1 = slot
      /\ filled \in [1 .. Window -> BOOLEAN] /\ aslot \in Int
  <2>1. Window \in Nat /\ aslot \in Nat
    BY WitnessAssumption, RoundTyped
  <2>2. filled \in [1 .. Window -> BOOLEAN]
    BY DEF Typed
  <2> QED
    BY <2>1, <2>2
<1>2. i \in 0 .. s + slot - 1 /\ i < Window /\ f[Window - i] = FALSE
  BY DEF Missed
<1>3. i \in 0 .. Window - 1 /\ i \in Int
  BY <1>1, <1>2
<1>4. /\ i = slot - 1 => f[Window - i] = TRUE
      /\ i > slot - 1 => f[Window - i] = filled[Window - (i - slot)]
  BY <1>1, <1>3, FilledAfter
<1>5. CASE i < slot - 1
  <2>1. slot - 1 - i \in 1 .. slot - 1 /\ aslot + (slot - 1 - i) = (aslot + slot - 1) - i
    BY <1>1, <1>2, <1>5
  <2>2. get_scheduled_witness(slot - 1 - i) \in down
    BY <2>1
  <2> QED
    BY <2>1, <2>2 DEF get_scheduled_witness
<1>6. CASE i = slot - 1
  BY <1>2, <1>4, <1>6
<1>7. CASE i > slot - 1
  <2>1. PICK k \in Int : /\ k = i - slot /\ k \in 0 .. s - 1 /\ k < Window
                         /\ (aslot - 1) - k = (aslot + slot - 1) - i
    BY <1>1, <1>2, <1>3, <1>7
  <2>2. filled[Window - k] = FALSE
    BY <1>2, <1>4, <1>7, <2>1
  <2>3. k \in Missed(filled, 0, s - 1)
    BY <2>1, <2>2 DEF Missed
  <2>4. shuffled[(((aslot - 1) - k) % N) + 1] \in down
    BY <2>3 DEF OfRound
  <2> QED
    BY <2>1, <2>4
<1> QED
  BY <1>1, <1>3, <1>5, <1>6, <1>7

(* At the start no slot is missed.                                         *)
LEMMA SparseInit == Init => SparseInv
<1> SUFFICES ASSUME Init PROVE SparseInv
  OBVIOUS
<1>1. Window \in Nat /\ MaxDown \in Nat /\ N \in Nat \ {0}
  BY WitnessAssumption, ActiveSetFacts DEF Init, N
<1>2. ASSUME NEW a \in Nat, NEW b \in Int
      PROVE  Missed(filled, a, b) = {} /\ Cardinality(Missed(filled, a, b)) = 0
  <2>1. ASSUME NEW i \in a .. b, i < Window, filled[Window - i] = FALSE PROVE FALSE
    <3>1. Window - i \in 1 .. Window
      BY <1>1, <2>1
    <3> QED
      BY <2>1, <3>1 DEF Init
  <2>2. Missed(filled, a, b) = {}
    BY <2>1 DEF Missed
  <2> QED
    BY <2>2, FS_EmptySet
<1>3. 0 \in Nat /\ 0 - 1 \in Int /\ N - 1 \in Int /\ 0 >= round
      /\ \A j \in Nat : j + N - 1 \in Int
  BY <1>1, FirstRound
<1>4. OfRound(0) /\ Cardinality(Missed(filled, 0, N - 1)) <= MaxDown
  BY <1>1, <1>2, <1>3 DEF OfRound
<1>5. \A j \in Nat : Cardinality(Missed(filled, j, j + N - 1)) <= 2 * MaxDown
  BY <1>1, <1>2, <1>3
<1>6. down \subseteq Witnesses /\ Cardinality(down) <= MaxDown
  BY DEF Init
<1> QED
  BY <1>3, <1>4, <1>5, <1>6 DEF SparseInv

(* A block adds the slots missed before it.                                *)
LEMMA SparsePreserved ==
    ASSUME IndInv, SparseInv, NEW when \in Nat, NEW S \in ActiveSets, produce_block(when, S)
    PROVE  SparseInv'
<1> DEFINE slot == get_slot_at_time(when)
<1>1. /\ slot > 0 /\ filled' = Filled(slot - 1) /\ aslot' = (aslot + slot) % Cycle
      /\ active' = S /\ down' = down
      /\ \A k \in 1 .. slot - 1 : get_scheduled_witness(k) \in down
      /\ update_witness_schedule(S, slot)
  BY DEF produce_block
<1>2. Typed
  BY DEF IndInv
<1> SUFFICES ASSUME ~resized'
             PROVE  /\ \E z \in Nat : /\ z >= round' /\ OfRound(z)'
                                      /\ Cardinality(Missed(filled', z, N' - 1)) <= MaxDown
                    /\ \A j \in Nat : Cardinality(Missed(filled', j, j + N' - 1)) <= 2 * MaxDown
  BY <1>1 DEF SparseInv
<1>3. N \in Nat \ {0} /\ aslot \in Nat /\ round \in 0 .. N - 1
  BY <1>2, RoundTyped
<1>4. /\ N' = N /\ N = Cardinality(S) /\ active \in ActiveSets /\ ~resized
      /\ Len(shuffled) = N
  <2>1. N' = N /\ N = Cardinality(S) /\ ~resized
    BY SameNumber
  <2> QED
    BY <1>2, <2>1 DEF IndInv, Typed
<1>5. slot \in Nat \ {0}
  BY <1>1, <1>2, SlotFacts DEF Typed
<1> HIDE DEF slot
<1>6. PICK f : f = filled' /\ f = Filled(slot - 1)
  BY <1>1
<1>7. PICK c \in ActiveSets : shuffled \in Orders(c)
  BY <1>2 DEF Typed
<1>8. PICK s \in Nat : /\ s >= round /\ OfRound(s)
                       /\ Cardinality(Missed(filled, s, N - 1)) <= MaxDown
  BY <1>4 DEF SparseInv
<1>9. /\ \A j \in Nat : Cardinality(Missed(filled, j, j + N - 1)) <= 2 * MaxDown
      /\ down \subseteq Witnesses /\ Cardinality(down) <= MaxDown
  BY <1>4 DEF SparseInv
<1>10. N = Cardinality(c) /\ IsFiniteSet(down) /\ MaxDown \in Nat /\ Cardinality(down) \in Nat
  <2>1. N = Cardinality(c)
    BY <1>4, <1>7, OrderFacts
  <2>2. IsFiniteSet(down) /\ MaxDown \in Nat
    BY <1>9, WitnessAssumption, FS_Subset
  <2> QED
    BY <2>1, <2>2, FS_CardinalityType
<1>11. \A i \in Missed(f, 0, s + slot - 1) : shuffled[(((aslot + slot - 1) - i) % N) + 1] \in down
  BY <1>1, <1>2, <1>4, <1>5, <1>6, <1>8, MissedAreDown
<1>12. ASSUME NEW j \in Nat, NEW M \in SUBSET (j .. j + N - 1), M \subseteq Missed(f, 0, s + slot - 1)
       PROVE  Cardinality(M) <= MaxDown
  <2>1. aslot + slot - 1 \in Int /\ j \in Int
    BY <1>3, <1>5
  <2>2. \A i \in M : shuffled[(((aslot + slot - 1) - i) % N) + 1] \in down
    BY <1>11, <1>12
  <2>3. Cardinality(M) <= Cardinality(down)
    BY <1>7, <1>10, <2>1, <2>2, RowOfSlots
  <2>4. Cardinality(M) \in Nat
    <3>1. IsFiniteSet(j .. j + N - 1)
      BY <1>3, <2>1, FS_Interval
    <3> QED
      BY <3>1, FS_Subset, FS_CardinalityType
  <2> QED
    BY <1>9, <1>10, <2>3, <2>4
<1>13. ASSUME NEW b \in Int, b <= N - 1 + slot
       PROVE  Cardinality(Missed(f, s + slot, b)) <= MaxDown
  <2>1. s + slot \in Int /\ s + slot >= slot /\ (s + slot) - slot = s /\ b - slot <= N - 1
        /\ b - slot \in Int /\ s \in Int /\ N - 1 \in Int
    BY <1>3, <1>5, <1>13
  <2>2. Cardinality(Missed(f, s + slot, b)) <= Cardinality(Missed(filled, s, b - slot))
    BY <1>2, <1>5, <1>6, <2>1, MissedMoves DEF Typed
  <2>3. Cardinality(Missed(filled, s, b - slot)) <= Cardinality(Missed(filled, s, N - 1))
    BY <2>1, MissedGrows
  <2>4. /\ Cardinality(Missed(f, s + slot, b)) \in Nat
        /\ Cardinality(Missed(filled, s, b - slot)) \in Nat
        /\ Cardinality(Missed(filled, s, N - 1)) \in Nat
    BY <2>1, MissedFacts
  <2> QED
    BY <1>8, <1>10, <2>2, <2>3, <2>4
<1>14. ASSUME NEW j \in Nat
       PROVE  Cardinality(Missed(f, j, j + N - 1)) <= 2 * MaxDown
  <2>1. CASE j >= slot
    <3>1. PICK k \in Nat : k = j - slot /\ (j + N - 1) - slot = k + N - 1
      BY <1>3, <1>5, <2>1
    <3>2. Cardinality(Missed(f, j, j + N - 1)) <= Cardinality(Missed(filled, j - slot, (j + N - 1) - slot))
      <4>1. j \in Int /\ j + N - 1 \in Int
        BY <1>3
      <4> QED
        BY <1>2, <1>5, <1>6, <2>1, <4>1, MissedMoves DEF Typed
    <3>3. Cardinality(Missed(f, j, j + N - 1)) <= Cardinality(Missed(filled, k, k + N - 1))
      BY <3>1, <3>2
    <3>4. Cardinality(Missed(filled, k, k + N - 1)) <= 2 * MaxDown
      BY <1>9
    <3>5. /\ Cardinality(Missed(f, j, j + N - 1)) \in Nat
          /\ Cardinality(Missed(filled, k, k + N - 1)) \in Nat
      <4>1. j \in Int /\ j + N - 1 \in Int /\ k \in Int /\ k + N - 1 \in Int
        BY <1>3
      <4> QED
        BY <4>1, MissedFacts
    <3> QED
      BY <1>10, <3>3, <3>4, <3>5
  <2>2. CASE j < slot
    <3> DEFINE A == {i \in Missed(f, j, j + N - 1) : i < s + slot}
               B == Missed(f, s + slot, j + N - 1)
    <3>1. j + N - 1 \in Int /\ s + slot \in Int /\ j + N - 1 <= N - 1 + slot /\ j \in Int
      BY <1>3, <1>5, <2>2
    <3>2. Missed(f, j, j + N - 1) \in SUBSET (A \cup B)
      <4>1. SUFFICES ASSUME NEW i \in Missed(f, j, j + N - 1), ~(i < s + slot)
                     PROVE  i \in Missed(f, s + slot, j + N - 1)
        OBVIOUS
      <4>2. i \in j .. j + N - 1 /\ i < Window /\ f[Window - i] = FALSE
        BY DEF Missed
      <4>3. i \in s + slot .. j + N - 1
        BY <3>1, <4>1, <4>2
      <4> QED
        BY <4>2, <4>3 DEF Missed
    <3>3. A \in SUBSET (j .. j + N - 1)
      BY DEF Missed
    <3>4. A \subseteq Missed(f, 0, s + slot - 1)
      <4>1. SUFFICES ASSUME NEW i \in Missed(f, j, j + N - 1), i < s + slot
                     PROVE  i \in Missed(f, 0, s + slot - 1)
        OBVIOUS
      <4>2. i \in j .. j + N - 1 /\ i < Window /\ f[Window - i] = FALSE
        BY DEF Missed
      <4>3. i \in Int /\ 0 <= i /\ s \in Nat /\ slot \in Nat /\ i < s + slot
        BY <1>5, <3>1, <4>1, <4>2
      <4>4. i \in 0 .. s + slot - 1
        BY ONLY <4>3
      <4> QED
        BY <4>2, <4>4 DEF Missed
    <3>5. Cardinality(A) <= MaxDown
      <4> HIDE DEF A
      <4> QED
        BY <1>12, <3>3, <3>4
    <3>6. Cardinality(B) <= MaxDown
      BY <1>13, <3>1
    <3>7. IsFiniteSet(A) /\ IsFiniteSet(B)
      <4>1. IsFiniteSet(j .. j + N - 1)
        BY <3>1, FS_Interval
      <4> HIDE DEF A
      <4>2. IsFiniteSet(A)
        BY <3>3, <4>1, FS_Subset
      <4> QED
        BY <3>1, <4>2, MissedFacts
    <3> HIDE DEF A, B
    <3>8. /\ IsFiniteSet(A \cup B)
          /\ Cardinality(A \cup B) = Cardinality(A) + Cardinality(B) - Cardinality(A \cap B)
      BY <3>7, FS_Union
    <3>9. Cardinality(Missed(f, j, j + N - 1)) <= Cardinality(A \cup B)
      BY <3>2, <3>8, FS_Subset
    <3>10. IsFiniteSet(A \cap B)
      BY <3>7, FS_Intersection
    <3>11. /\ Cardinality(A) \in Nat /\ Cardinality(B) \in Nat /\ Cardinality(A \cap B) \in Nat
           /\ Cardinality(A \cup B) \in Nat /\ Cardinality(Missed(f, j, j + N - 1)) \in Nat
      BY <3>1, <3>7, <3>8, <3>10, FS_CardinalityType, MissedFacts
    <3> QED
      BY <1>10, <3>5, <3>6, <3>8, <3>9, <3>11
  <2> QED
    BY <1>5, <2>1, <2>2
<1>15. round' = ((num + 1) % N) /\ round' = IF round = N - 1 THEN 0 ELSE round + 1
  BY <1>2, <1>4, RoundMoves
<1>16. CASE NewRound(S)
  <2>1. shuffled' \in Orders(S) /\ round' = 0 /\ round = N - 1
    <3>1. shuffled' \in Orders(S)
      BY <1>1, <1>16 DEF update_witness_schedule
    <3>2. round' = 0
      BY <1>4, <1>15, <1>16 DEF NewRound
    <3> QED
      BY <1>3, <1>15, <3>1, <3>2
  <2>2. Cardinality(Missed(f, 0, N - 1)) <= MaxDown
    <3>1. Missed(f, 0, N - 1) \in SUBSET (0 .. 0 + N - 1)
      BY <1>3 DEF Missed
    <3>2. \A i \in 0 .. N - 1 : i \in 0 .. s + slot - 1
      BY <1>3, <1>5, <1>8, <2>1
    <3>3. Missed(f, 0, N - 1) \subseteq Missed(f, 0, s + slot - 1)
      BY <3>2 DEF Missed
    <3> QED
      BY <1>12, <3>1, <3>3
  <2>3. OfRound(0)'
    <3>1. \A i \in 0 .. 0 - 1 : FALSE
      OBVIOUS
    <3> QED
      BY <3>1 DEF OfRound, Missed
  <2>4. \E z \in Nat : /\ z >= round' /\ OfRound(z)'
                       /\ Cardinality(Missed(filled', z, N' - 1)) <= MaxDown
    <3>1. 0 \in Nat /\ 0 >= round' /\ Cardinality(Missed(filled', 0, N' - 1)) <= MaxDown
      BY <1>4, <1>6, <2>1, <2>2
    <3> QED
      BY <2>3, <3>1
  <2> QED
    BY <1>4, <1>6, <1>14, <2>4
<1>17. CASE ~NewRound(S)
  <2>1. shuffled' = shuffled /\ round' = round + 1
    <3>1. shuffled' = shuffled
      BY <1>1, <1>17 DEF update_witness_schedule
    <3>2. ((num + 1) % N) # 0
      BY <1>4, <1>17 DEF NewRound
    <3> QED
      BY <1>15, <3>1, <3>2
  <2>2. PICK z \in Nat : z = s + slot /\ z >= round' /\ z - 1 = s + slot - 1
    BY <1>3, <1>5, <1>8, <2>1
  <2>3. OfRound(z)'
    <3>1. SUFFICES ASSUME NEW i \in Missed(f, 0, s + slot - 1)
                   PROVE  shuffled[(((((aslot + slot) % Cycle) - 1) - i) % N) + 1] \in down
      BY <1>1, <1>4, <1>6, <2>1, <2>2 DEF OfRound
    <3>2. /\ i \in Int /\ aslot + slot \in Int /\ ((aslot + slot) % Cycle) \in Int
          /\ Cycle \in Nat \ {0} /\ (Cycle % N) = 0
      <4>1. i \in 0 .. s + slot - 1
        BY DEF Missed
      <4>2. Cycle \in Nat \ {0} /\ (Cycle % N) = 0
        BY <1>4, ActiveSetFacts, WitnessAssumption
      <4> QED
        BY <1>3, <1>5, <4>1, <4>2, DivisionFacts
    <3>3. PICK e \in Int : e = 1 + i /\ (((aslot + slot) % Cycle) - 1) - i = ((aslot + slot) % Cycle) - e
                           /\ (aslot + slot - 1) - i = (aslot + slot) - e
      BY <1>3, <1>5, <3>2
    <3>4. ((((aslot + slot) % Cycle) - e) % N) = (((aslot + slot) - e) % N)
      BY <1>3, <3>2, RemainderThrough
    <3> QED
      BY <1>11, <3>3, <3>4
  <2>4. Cardinality(Missed(filled', z, N' - 1)) <= MaxDown
    <3>1. N - 1 \in Int /\ N - 1 <= N - 1 + slot
      BY <1>3, <1>5
    <3> QED
      BY <1>4, <1>6, <1>13, <2>2, <3>1
  <2> QED
    BY <1>4, <1>6, <1>14, <2>2, <2>3, <2>4
<1> QED
  BY <1>16, <1>17

(* Every step does.                                                        *)
LEMMA SparseNext == IndInv /\ SparseInv /\ [Next]_vars => SparseInv'
<1> SUFFICES ASSUME IndInv, SparseInv, [Next]_vars PROVE SparseInv'
  OBVIOUS
<1>1. CASE Next
  <2>1. PICK when \in 1 .. Cardinality(Witnesses) + SkipSlots, S \in ActiveSets :
           produce_block(when, S)
    BY <1>1 DEF Next
  <2>2. when \in Nat
    OBVIOUS
  <2> QED
    BY <2>1, <2>2, SparsePreserved
<1>2. CASE UNCHANGED vars
  <2>1. N' = N
    BY <1>2 DEF vars, N
  <2>2. round' = round
    BY <1>2, <2>1 DEF vars, round
  <2> QED
    BY <1>2, <2>1, <2>2 DEF vars, SparseInv, OfRound
<1> QED
  BY <1>1, <1>2

(* The missed ones of k rounds, N slots each.                              *)
LEMMA MissedInRounds ==
    ASSUME NEW f, NEW n \in Nat \ {0}, NEW d \in Nat,
           \A j \in Nat : Cardinality(Missed(f, j, j + n - 1)) <= d, NEW k \in Nat
    PROVE  Cardinality(Missed(f, 0, k * n - 1)) <= k * d
<1> DEFINE Bad == {e \in Nat : ~(Cardinality(Missed(f, 0, e * n - 1)) <= e * d)}
<1>1. SUFFICES ASSUME Bad # {} PROVE FALSE
  OBVIOUS
<1>2. PICK e \in Bad : \A x \in Bad : e <= x
  <2>1. Bad \in SUBSET Nat
    OBVIOUS
  <2> HIDE DEF Bad
  <2> QED
    BY <1>1, <2>1, LeastNumber
<1>3. e \in Nat /\ ~(Cardinality(Missed(f, 0, e * n - 1)) <= e * d)
  OBVIOUS
<1>4. e # 0
  <2>1. SUFFICES ASSUME e = 0 PROVE FALSE
    OBVIOUS
  <2>2. e * n - 1 = 0 - 1 /\ e * d = 0
    BY <2>1
  <2>3. Missed(f, 0, 0 - 1) = {}
    <3>1. \A i \in 0 .. 0 - 1 : FALSE
      OBVIOUS
    <3> QED
      BY <3>1 DEF Missed
  <2> QED
    BY <1>3, <2>2, <2>3, FS_EmptySet
<1>5. PICK x \in Nat : x = e - 1 /\ e = x + 1
  BY <1>3, <1>4
<1>6. Cardinality(Missed(f, 0, x * n - 1)) <= x * d
  <2>1. x \notin Bad
    <3> HIDE DEF Bad
    <3> QED
      BY <1>2, <1>3, <1>5
  <2> QED
    BY <2>1
<1> HIDE DEF Bad
<1>7. PICK a \in Nat : a = x * n /\ e * n = a + n
  BY <1>5
<1>8. PICK xd \in Nat : xd = x * d /\ e * d = xd + d
  BY <1>5
<1> DEFINE A == Missed(f, 0, a - 1)
           B == Missed(f, a, a + n - 1)
           C == Missed(f, 0, a + n - 1)
<1>9. 0 \in Int /\ a - 1 \in Int /\ a \in Int /\ a + n - 1 \in Int
  OBVIOUS
<1>10. C \in SUBSET (A \cup B)
  <2>1. SUFFICES ASSUME NEW i \in 0 .. a + n - 1 PROVE i \in 0 .. a - 1 \/ i \in a .. a + n - 1
    BY DEF Missed
  <2> QED
    OBVIOUS
<1>11. /\ IsFiniteSet(A) /\ IsFiniteSet(B)
       /\ Cardinality(A) \in Nat /\ Cardinality(B) \in Nat /\ Cardinality(C) \in Nat
  BY <1>9, MissedFacts
<1>12. Cardinality(A) <= xd /\ Cardinality(B) <= d /\ ~(Cardinality(C) <= xd + d)
  BY <1>3, <1>6, <1>7, <1>8
<1> HIDE DEF A, B, C
<1>13. /\ IsFiniteSet(A \cup B)
       /\ Cardinality(A \cup B) = Cardinality(A) + Cardinality(B) - Cardinality(A \cap B)
  BY <1>11, FS_Union
<1>14. Cardinality(C) <= Cardinality(A \cup B)
  BY <1>10, <1>13, FS_Subset
<1>15. IsFiniteSet(A \cap B)
  BY <1>11, FS_Intersection
<1>16. Cardinality(A \cap B) \in Nat /\ Cardinality(A \cup B) \in Nat
  BY <1>13, <1>15, FS_CardinalityType
<1> QED
  BY <1>11, <1>12, <1>13, <1>14, <1>16

(* The slots that recent_slots_filled has as filled.                       *)
FilledSlots == {i \in 1 .. Window : filled[i]}

(* Of k slots those that are not missed are filled.                        *)
LEMMA FilledOrMissed ==
    ASSUME filled \in [1 .. Window -> BOOLEAN], NEW k \in Nat, k <= Window
    PROVE  /\ Cardinality(FilledSlots) \in Nat
           /\ k <= Cardinality(FilledSlots) + Cardinality(Missed(filled, 0, k - 1))
<1>1. Window \in Nat
  BY WitnessAssumption
<1> DEFINE M == Missed(filled, 0, k - 1)
           D == (0 .. k - 1) \ M
           g == [i \in D |-> Window - i]
<1>2. IsFiniteSet(FilledSlots) /\ Cardinality(FilledSlots) \in Nat
  <2>1. FilledSlots \in SUBSET (1 .. Window)
    BY DEF FilledSlots
  <2>2. IsFiniteSet(1 .. Window)
    BY <1>1, FS_Interval
  <2>3. IsFiniteSet(FilledSlots)
    BY <2>1, <2>2, FS_Subset
  <2> QED
    BY <2>3, FS_CardinalityType
<1>3. IsFiniteSet(M) /\ Cardinality(M) \in Nat /\ M \subseteq 0 .. k - 1
  <2>1. 0 \in Int /\ k - 1 \in Int
    OBVIOUS
  <2> QED
    BY <2>1, MissedFacts
<1>4. ASSUME NEW i \in D PROVE i \in Int /\ Window - i \in FilledSlots
  <2>1. i \in 0 .. k - 1 /\ i \notin M
    BY <1>4
  <2>2. i \in Int /\ i < Window /\ Window - i \in 1 .. Window
    BY <1>1, <2>1
  <2>3. filled[Window - i] # FALSE
    BY <2>1, <2>2 DEF Missed
  <2>4. filled[Window - i] \in BOOLEAN
    BY <2>2
  <2> QED
    BY <2>2, <2>3, <2>4 DEF FilledSlots
<1>5. g \in [D -> FilledSlots] /\ DOMAIN g = D
  <2> HIDE DEF D
  <2> QED
    BY <1>4
<1>6. ASSUME NEW i \in D, NEW j \in D, g[i] = g[j] PROVE i = j
  <2>1. Window - i = Window - j
    BY <1>6
  <2>2. i \in Int /\ j \in Int
    BY <1>4
  <2> QED
    BY <1>1, <2>1, <2>2
<1> HIDE DEF g, D, M
<1>7. g \in Injection(D, FilledSlots)
  BY <1>5, <1>6 DEF Injection, IsInjective
<1>8. Cardinality(D) <= Cardinality(FilledSlots)
  BY <1>2, <1>7, FS_Injection
<1>9. IsFiniteSet(0 .. k - 1) /\ Cardinality(0 .. k - 1) = k
  <2>1. 0 \in Int /\ k - 1 \in Int
    OBVIOUS
  <2>2. IsFiniteSet(0 .. k - 1) /\ Cardinality(0 .. k - 1) = IF 0 > k - 1 THEN 0 ELSE (k - 1) - 0 + 1
    BY <2>1, FS_Interval
  <2> QED
    BY <2>2
<1>10. (0 .. k - 1) \cap M = M
  BY <1>3
<1>11. Cardinality(D) = Cardinality(0 .. k - 1) - Cardinality((0 .. k - 1) \cap M)
  BY <1>9, FS_Difference DEF D
<1>12. Cardinality(D) = k - Cardinality(M)
  BY <1>9, <1>10, <1>11
<1> QED
  BY <1>2, <1>3, <1>8, <1>12 DEF M

(* Few enough witnesses are down: of N slots in a row twice as many may be *)
(* missed, and the rest has to keep the participation up.                  *)
SparseOutage ==
    \A a \in ActiveSets :
       100 * ((Window \div Cardinality(a)) * (Cardinality(a) - 2 * MaxDown)) >= Required * Window

(* Then the participation never is too low.                                *)
LEMMA SparseParticipates ==
    ASSUME SparseOutage, IndInv, SparseInv, ~resized
    PROVE  Participating
<1>1. /\ N \in Nat \ {0} /\ Window \in Nat \ {0} /\ MaxDown \in Nat /\ Required \in Nat
      /\ filled \in [1 .. Window -> BOOLEAN] /\ active \in ActiveSets
  BY ActiveSetFacts, WitnessAssumption DEF IndInv, Typed, N
<1>2. PICK q \in Int, r \in 0 .. N - 1 : q = Window \div N /\ Window = N * q + r
  <2>1. Window \in Int
    BY <1>1
  <2>2. /\ Window \div N \in Int /\ (Window % N) \in 0 .. N - 1
        /\ Window = N * (Window \div N) + (Window % N)
    BY <1>1, <2>1, DivisionFacts
  <2> QED
    BY <2>2
<1>3. 100 * (q * (N - 2 * MaxDown)) >= Required * Window
  BY <1>1, <1>2 DEF SparseOutage, N
<1>4. q \in Nat
  <2>1. SUFFICES ASSUME 0 >= q + 1 PROVE FALSE
    BY <1>2
  <2>2. N * 0 >= N * q + N
    BY <1>1, <2>1, TimesGrows
  <2> QED
    BY <1>1, <1>2, <2>2
<1>5. PICK k \in Nat : k = q * N /\ k <= Window /\ k = N * q
  BY <1>1, <1>2, <1>4
<1>6. PICK e \in Nat : e = q * (2 * MaxDown)
  BY <1>1, <1>4
<1>7. Cardinality(Missed(filled, 0, k - 1)) <= e
  <2>1. /\ \A j \in Nat : Cardinality(Missed(filled, j, j + N - 1)) <= 2 * MaxDown
        /\ 2 * MaxDown \in Nat
    BY <1>1 DEF SparseInv
  <2>2. PICK d \in Nat : d = 2 * MaxDown
    BY <2>1
  <2>3. Cardinality(Missed(filled, 0, q * N - 1)) <= q * d
    BY <1>1, <1>4, <2>1, <2>2, MissedInRounds
  <2> QED
    BY <1>5, <1>6, <2>2, <2>3
<1>8. /\ Cardinality(FilledSlots) \in Nat
      /\ k <= Cardinality(FilledSlots) + Cardinality(Missed(filled, 0, k - 1))
  BY <1>1, <1>5, FilledOrMissed
<1>9. Cardinality(Missed(filled, 0, k - 1)) \in Nat
  <2>1. 0 \in Int /\ k - 1 \in Int
    OBVIOUS
  <2> QED
    BY <2>1, MissedFacts
<1>10. PICK t \in Nat : t = Cardinality(FilledSlots) /\ k - e <= t
  BY <1>7, <1>8, <1>9
<1>11. q * (N - 2 * MaxDown) = k - e
  BY <1>1, <1>4, <1>5, <1>6
<1>12. PICK x \in Int : x = 100 * t /\ Window * Required <= x
  <2>1. 100 * (k - e) >= Required * Window
    BY <1>3, <1>11
  <2>2. Required * Window = Window * Required /\ Window * Required \in Int
    BY <1>1
  <2> QED
    BY <1>10, <2>1, <2>2
<1>13. Required <= x \div Window
  BY <1>1, <1>12, DivisionAtLeast
<1>14. witness_participation_rate(filled) = x \div Window
  BY <1>10, <1>12 DEF witness_participation_rate, FilledSlots
<1>15. x \div Window \in Int
  BY <1>1, DivisionFacts
<1> QED
  BY <1>1, <1>13, <1>14, <1>15 DEF Participating

(* As long as few enough witnesses are down and the number of active ones  *)
(* does not change, no node takes the others to be on a fork of their own: *)
(* witness_participation_rate never goes below what production needs.  For *)
(* the constants of the code, 11 witnesses, 128 slots and 33 percent, up   *)
(* to 3 witnesses may be down.                                             *)
THEOREM ParticipationSuffices ==
    ASSUME SparseOutage
    PROVE  Spec => [](~resized => Participating)
<1>1. Init => SparseInv
  BY SparseInit
<1>2. IndInv /\ SparseInv /\ [Next]_vars => SparseInv'
  BY SparseNext
<1>3. IndInv /\ SparseInv => (~resized => Participating)
  BY SparseParticipates
<1> QED
  BY <1>1, <1>2, <1>3, Invariance, PTL DEF Spec

(* With few enough witnesses down, few enough changed by a vote count, the *)
(* number of active ones unchanged and an undo history of more than two    *)
(* rounds, neither of the two guards of maybe_produce_block and            *)
(* _apply_block ever stops the production.                                 *)
THEOREM ProductionGoesOn ==
    ASSUME SlowChurn, SparseOutage, \A a \in ActiveSets : 2 * Cardinality(a) + 1 < MaxUndo
    PROVE  Spec => []NeverStops
<1>1. (~resized => Participating) /\ (~resized => Undoable) => NeverStops
  BY DEF NeverStops, Steady
<1> QED
  BY <1>1, ParticipationSuffices, HistorySuffices, PTL
=============================================================================
