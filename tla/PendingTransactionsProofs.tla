--------------------- MODULE PendingTransactionsProofs ---------------------
(***************************************************************************)
(* Proofs about PendingTransactions: types, that no transaction is in the  *)
(* chain twice, that an own block applies, and what is pending after a     *)
(* block.                                                                  *)
(***************************************************************************)
EXTENDS PendingTransactions, NumberLemmas

Slot     == {<<"slot", k>> : k \in Nat}
AllCoins == Slot \cup Coins \cup UNION {t.needs \cup t.makes : t \in Txs}

Ref == [num : Nat, id : Ids \cup {"none"}]

SystemOf(k, e, r, z) ==
    [needs |-> {<<"slot", k>>}, makes |-> {<<"slot", k + 1>>}, expires |-> e, ref |-> r, size |-> z]

SystemKind == {SystemOf(k, e, r, z) : k \in Nat, e \in Nat, r \in Ref, z \in Nat}

(* What can be in a block or pending: a popped system transaction is       *)
(* pushed like one of a user.                                              *)
Tx == Txs \cup SystemKind

State  == [ids : Seq(Ids), time : Nat, known : SUBSET Tx, coins : SUBSET AllCoins]
Result == [ok : BOOLEAN, state : State]

(* The fields of a transaction.                                            *)
LEMMA TxFacts ==
    ASSUME NEW t \in Tx
    PROVE  /\ t.needs \in SUBSET AllCoins /\ t.makes \in SUBSET AllCoins
           /\ t.expires \in Nat /\ t.ref.num \in Nat /\ t.size \in Nat
<1>1. CASE t \in Txs
  <2>1. t.expires \in Nat /\ t.ref.num \in Nat /\ t.size \in Nat
    <3>1. PICK n, m : t \in [needs : n, makes : m, expires : Nat, ref : Ref, size : Nat]
      BY <1>1, TxsAssumption DEF Ref
    <3> QED
      BY <3>1 DEF Ref
  <2>2. t.needs \cup t.makes \in SUBSET AllCoins
    BY <1>1 DEF AllCoins
  <2> QED
    BY <2>1, <2>2
<1>2. CASE t \in SystemKind
  <2>1. PICK k \in Nat, e \in Nat, r \in Ref, z \in Nat :
          t = [needs |-> {<<"slot", k>>}, makes |-> {<<"slot", k + 1>>}, expires |-> e,
               ref |-> r, size |-> z]
    BY <1>2 DEF SystemKind, SystemOf
  <2>2. <<"slot", k>> \in AllCoins /\ <<"slot", k + 1>> \in AllCoins
    <3>1. k + 1 \in Nat
      OBVIOUS
    <3>2. \A j \in Nat : <<"slot", j>> \in Slot
      BY DEF Slot
    <3>3. <<"slot", k>> \in Slot /\ <<"slot", k + 1>> \in Slot
      BY ONLY <3>1, <3>2, k \in Nat
    <3>4. \A x \in Slot : x \in AllCoins
      BY DEF AllCoins
    <3> QED
      BY <3>3, <3>4
  <2> QED
    BY <2>1, <2>2 DEF Ref
<1> QED
  BY <1>1, <1>2 DEF Tx

(* Applying a transaction keeps the ids and the time of a state.           *)
LEMMA AppliedFacts ==
    ASSUME NEW s \in State, NEW t \in Tx
    PROVE  /\ Operated(s, t) \in State /\ Applied(s, t) \in State
           /\ Operated(s, t).ids = s.ids /\ Operated(s, t).time = s.time
           /\ Operated(s, t).known = s.known
           /\ Operated(s, t).coins = (s.coins \ t.needs) \cup t.makes
           /\ Applied(s, t).ids = s.ids /\ Applied(s, t).time = s.time
           /\ Applied(s, t).known = s.known \cup {t}
           /\ Applied(s, t).coins = (s.coins \ t.needs) \cup t.makes
<1>1. t.needs \in SUBSET AllCoins /\ t.makes \in SUBSET AllCoins
  BY TxFacts
<1> QED
  BY <1>1 DEF State, Operated, Applied

(* A step of ApplyAll.                                                     *)
LEMMA ApplyNextType ==
    ASSUME NEW r \in Result, NEW t \in Tx
    PROVE  /\ ApplyNext(r, t) \in Result
           /\ ApplyNext(r, t).ok <=> r.ok /\ CanApply(r.state, t)
           /\ ApplyNext(r, t).state = Applied(r.state, t)
<1>1. r.state \in State /\ Applied(r.state, t) \in State
  BY AppliedFacts DEF Result
<1>2. (r.ok /\ CanApply(r.state, t)) \in BOOLEAN
  OBVIOUS
<1> QED
  BY <1>1, <1>2, Zenon DEF Result, ApplyNext

(* f has the results of the transactions, one after the other.             *)
Course(s, ts, f) ==
    /\ f \in [0 .. Len(ts) -> Result]
    /\ f[0] = [ok |-> TRUE, state |-> s] /\ f[Len(ts)] = ApplyAll(s, ts)
    /\ \A i \in 1 .. Len(ts) : f[i] = ApplyNext(f[i - 1], ts[i])

(* ApplyAll goes through the transactions one by one.                      *)
LEMMA ApplyAllIs ==
    ASSUME NEW s \in State, NEW ts \in Seq(Tx)
    PROVE  \E f : Course(s, ts, f)
<1>1. PICK n \in Nat : n = Len(ts) /\ DOMAIN ts = 1 .. n
  OBVIOUS
<1>2. PICK a \in Result : a = [ok |-> TRUE, state |-> s]
  BY DEF Result
<1> DEFINE step == [x \in (1 .. n) \X Result |-> ApplyNext(x[2], ts[x[1]])]
           Solves(it) == it = [u \in SUBSET (1 .. n) |->
                                 IF u = {} THEN a ELSE ApplyNext(it[u \ {Max(u)}], ts[Max(u)])]
           it == CHOOSE g : Solves(g)
<1>3. step \in Steps(n, Result)
  <2>1. \A i \in 1 .. n, r \in Result : ApplyNext(r, ts[i]) \in Result
    BY <1>1, ApplyNextType
  <2> QED
    BY ONLY <2>1 DEF Steps
<1>4. \A i \in 1 .. n, r \in Result : step[<<i, r>>] = ApplyNext(r, ts[i])
  OBVIOUS
<1> HIDE DEF step
<1>5. ApplyAll(s, ts) = it[1 .. n]
  BY <1>1, <1>2 DEF ApplyAll, FoldLeft, MapThenFoldSet
<1>6. \E g : Solves(g)
  <2>1. PICK g \in [SUBSET (1 .. n) -> Result] : FoldOver(n, a, step, g)
    BY <1>3, FoldExists
  <2>2. ASSUME NEW u \in SUBSET (1 .. n), u # {}
        PROVE  step[<<Max(u), g[u \ {Max(u)}]>>] = ApplyNext(g[u \ {Max(u)}], ts[Max(u)])
    <3>1. Max(u) \in 1 .. n
      BY <2>2, MaxOfInterval
    <3>2. u \ {Max(u)} \in SUBSET (1 .. n)
      OBVIOUS
    <3> QED
      BY <1>4, <2>1, <3>1, <3>2
  <2>3. \A u \in SUBSET (1 .. n) :
           g[u] = IF u = {} THEN a ELSE ApplyNext(g[u \ {Max(u)}], ts[Max(u)])
    BY <2>1, <2>2 DEF FoldOver
  <2>4. g = [u \in SUBSET (1 .. n) |-> g[u]]
    BY <2>1
  <2> QED
    BY <2>3, <2>4
<1>7. Solves(it)
  BY ONLY <1>6
<1> HIDE DEF it
<1>8. it[1 .. 0] = a
  <2>1. 1 .. 0 \in SUBSET (1 .. n) /\ 1 .. 0 = {}
    OBVIOUS
  <2> QED
    BY ONLY <1>7, <2>1
<1>9. ASSUME NEW i \in 1 .. n PROVE it[1 .. i] = ApplyNext(it[1 .. i - 1], ts[i])
  <2>1. Max(1 .. i) = i /\ (1 .. i) \ {i} = 1 .. i - 1 /\ 1 .. i # {} /\ 1 .. i \in SUBSET (1 .. n)
    BY SegmentFacts
  <2> QED
    BY ONLY <1>7, <2>1
<1>10. PICK f : Iteration(n, Result, a, step, f) /\ f[n] = it[1 .. n]
  BY ONLY <1>3, <1>4, <1>8, <1>9, a \in Result, n \in Nat, FoldIs
<1> QED
  BY <1>1, <1>2, <1>4, <1>5, <1>10 DEF Iteration, Course

(* No transaction: nothing changes.                                        *)
LEMMA ApplyAllNone ==
    ASSUME NEW s \in State
    PROVE  ApplyAll(s, <<>>) = [ok |-> TRUE, state |-> s]
<1>1. <<>> \in Seq(Tx) /\ Len(<<>>) = 0
  OBVIOUS
<1>2. PICK f : Course(s, <<>>, f)
  BY <1>1, ApplyAllIs
<1> QED
  BY <1>1, <1>2 DEF Course

(* The last transaction is applied to what the others have made.           *)
LEMMA ApplyAllLast ==
    ASSUME NEW s \in State, NEW ts \in Seq(Tx), NEW t \in Tx
    PROVE  ApplyAll(s, Append(ts, t)) = ApplyNext(ApplyAll(s, ts), t)
<1>1. PICK n \in Nat : n = Len(ts)
  OBVIOUS
<1>2. PICK us \in Seq(Tx) : us = Append(ts, t)
  <2>1. Append(ts, t) \in Seq(Tx)
    OBVIOUS
  <2> QED
    BY <2>1
<1>3. Len(us) = n + 1 /\ us[n + 1] = t /\ \A i \in 1 .. n : us[i] = ts[i]
  BY <1>1, <1>2
<1>4. PICK f : /\ f[0] = [ok |-> TRUE, state |-> s] /\ f[n] = ApplyAll(s, ts)
               /\ \A i \in 1 .. n : f[i] = ApplyNext(f[i - 1], ts[i])
  <2>1. PICK f : Course(s, ts, f)
    BY ApplyAllIs
  <2> QED
    BY <1>1, <2>1 DEF Course
<1>5. PICK g : /\ g[0] = [ok |-> TRUE, state |-> s] /\ g[n + 1] = ApplyAll(s, us)
               /\ \A i \in 1 .. n + 1 : g[i] = ApplyNext(g[i - 1], us[i])
  <2>1. PICK g : Course(s, us, g)
    BY ApplyAllIs
  <2> QED
    BY <1>3, <2>1 DEF Course
<1> DEFINE Bad == {i \in 0 .. n : f[i] # g[i]}
<1>6. ASSUME Bad # {} PROVE FALSE
  <2>1. PICK m \in Bad : \A k \in Bad : m <= k
    <3>1. Bad \in SUBSET Nat
      OBVIOUS
    <3> HIDE DEF Bad
    <3> QED
      BY <1>6, <3>1, LeastNumber
  <2>2. m \in 0 .. n /\ f[m] # g[m] /\ m # 0
    BY <1>4, <1>5
  <2>3. m - 1 \in 0 .. n /\ m - 1 \notin Bad /\ m \in 1 .. n /\ m \in 1 .. n + 1
    <3> HIDE DEF Bad
    <3> QED
      BY ONLY <2>1, <2>2, n \in Nat
  <2>4. f[m - 1] = g[m - 1] /\ us[m] = ts[m]
    BY <1>3, <2>3
  <2> QED
    BY ONLY <1>4, <1>5, <2>2, <2>3, <2>4
<1>7. f[n] = g[n]
  BY <1>6
<1>8. g[n + 1] = ApplyNext(g[n], us[n + 1])
  <2>1. n + 1 \in 1 .. n + 1 /\ (n + 1) - 1 = n
    OBVIOUS
  <2> QED
    BY ONLY <1>5, <2>1
<1> QED
  BY ONLY <1>2, <1>3, <1>4, <1>5, <1>7, <1>8

(* ApplyAll keeps the ids and the time.                                    *)
LEMMA ApplyAllFacts ==
    ASSUME NEW s \in State, NEW ts \in Seq(Tx)
    PROVE  /\ ApplyAll(s, ts) \in Result /\ ApplyAll(s, ts).state \in State
           /\ ApplyAll(s, ts).state.ids = s.ids /\ ApplyAll(s, ts).state.time = s.time
<1>1. PICK n \in Nat : n = Len(ts) /\ \A i \in 1 .. n : ts[i] \in Tx
  OBVIOUS
<1>2. PICK f : /\ f \in [0 .. n -> Result] /\ f[0] = [ok |-> TRUE, state |-> s] /\ f[n] = ApplyAll(s, ts)
               /\ \A i \in 1 .. n : f[i] = ApplyNext(f[i - 1], ts[i])
  <2>1. PICK f : Course(s, ts, f)
    BY ApplyAllIs
  <2> QED
    BY <1>1, <2>1 DEF Course
<1> DEFINE Kept == {r \in Result : r.state.ids = s.ids /\ r.state.time = s.time}
<1>3. f[0] \in Kept
  BY <1>2 DEF Result
<1>4. ASSUME NEW i \in 1 .. n, f[i - 1] \in Kept PROVE f[i] \in Kept
  <2>1. PICK r \in Result, t \in Tx : r = f[i - 1] /\ t = ts[i]
    BY <1>1, <1>4
  <2>2. r.state \in State /\ f[i] = ApplyNext(r, t)
    BY <1>2, <2>1 DEF Result
  <2>3. f[i] \in Result /\ f[i].state = Applied(r.state, t)
    BY ONLY <2>2, r \in Result, t \in Tx, ApplyNextType
  <2>4. f[i].state.ids = r.state.ids /\ f[i].state.time = r.state.time
    BY ONLY <2>2, <2>3, t \in Tx, AppliedFacts
  <2> QED
    BY <1>4, <2>1, <2>3, <2>4
<1> HIDE DEF Kept
<1>5. f[n] \in Kept
  <2>1. \A i \in 0 .. n : f[i] \in Kept
    BY ONLY <1>3, <1>4, n \in Nat, IterateKeeps
  <2> QED
    BY <2>1
<1> QED
  BY <1>2, <1>5 DEF Kept, Result

(* The pending state and the transactions that are pending.                *)
Session == {<<>>} \cup {<<s>> : s \in State}
Pending == [head : State, session : Session, kept : Seq(Tx)]

(* The state that transactions are pushed on.                              *)
LEMMA TipType ==
    ASSUME NEW h \in State, NEW x \in Session
    PROVE  Tip(h, x) \in State /\ Tip(h, <<>>) = h
<1>1. CASE x = <<>>
  BY <1>1 DEF Tip
<1>2. CASE x # <<>>
  <2>1. PICK s \in State : x = <<s>>
    BY <1>2 DEF Session
  <2>2. x[1] = s
    BY <2>1
  <2> QED
    BY <1>2, <2>2 DEF Tip
<1> QED
  BY <1>1, <1>2

(* What is pending, in the order in which it was pushed, makes the pending *)
(* state of the head.                                                      *)
Matches(h, x, ts) ==
    IF ts = <<>> THEN x = <<>> \/ x = <<h>>
    ELSE ApplyAll(h, ts).ok /\ x = <<ApplyAll(h, ts).state>>

(* A push keeps the match.                                                 *)
LEMMA PushFacts ==
    ASSUME NEW p \in Pending, NEW t \in Tx
    PROVE  /\ Push(p, t) \in Pending /\ Push(p, t).head = p.head
           /\ Matches(p.head, p.session, p.kept) =>
                Matches(p.head, Push(p, t).session, Push(p, t).kept)
<1>1. PICK h \in State, x \in Session, ts \in Seq(Tx) :
         p = [head |-> h, session |-> x, kept |-> ts]
  BY DEF Pending
<1>2. p.head = h /\ p.session = x /\ p.kept = ts
  BY <1>1
<1>3. PICK tip \in State : tip = Tip(h, x)
  BY TipType
<1>4. <<tip>> \in Session
  BY DEF Session
<1>5. CASE ~CanApply(tip, t)
  <2>1. Push(p, t) = [p EXCEPT !.session = <<tip>>]
    BY <1>2, <1>3, <1>5 DEF Push
  <2>2. Push(p, t) = [head |-> h, session |-> <<tip>>, kept |-> ts]
    BY ONLY <1>1, <2>1
  <2>3. Push(p, t) \in Pending /\ Push(p, t).head = h /\ Push(p, t).kept = ts /\ Push(p, t).session = <<tip>>
    BY ONLY <1>4, <2>2, h \in State, ts \in Seq(Tx) DEF Pending
  <2>4. ASSUME Matches(h, x, ts) PROVE Matches(h, <<tip>>, ts)
    <3>1. CASE x = <<>>
      BY <1>3, <2>4, <3>1 DEF Matches, Tip
    <3>2. CASE x # <<>>
      <4>1. PICK s : x = <<s>>
        BY <3>2 DEF Session
      <4>2. tip = s
        BY <1>3, <3>2, <4>1 DEF Tip
      <4> QED
        BY <2>4, <4>1, <4>2
    <3> QED
      BY <3>1, <3>2
  <2> QED
    BY <1>2, <2>3, <2>4
<1>6. CASE CanApply(tip, t)
  <2>1. PICK s \in State : s = Applied(tip, t)
    BY AppliedFacts
  <2>2. Push(p, t) = [p EXCEPT !.session = <<s>>, !.kept = Append(ts, t)]
    BY <1>2, <1>3, <1>6, <2>1 DEF Push
  <2>3. PICK us \in Seq(Tx) : us = Append(ts, t) /\ us # <<>>
    <3>1. Append(ts, t) \in Seq(Tx) /\ Len(Append(ts, t)) = Len(ts) + 1 /\ Len(ts) \in Nat
      BY ONLY ts \in Seq(Tx), t \in Tx
    <3>2. Len(ts) + 1 # 0
      BY ONLY <3>1
    <3>3. Append(ts, t) # <<>>
      BY ONLY <3>1, <3>2
    <3> QED
      BY <3>1, <3>3
  <2>4. <<s>> \in Session
    BY DEF Session
  <2>5. Push(p, t) = [head |-> h, session |-> <<s>>, kept |-> us]
    BY ONLY <1>1, <2>2, <2>3
  <2>6. Push(p, t) \in Pending /\ Push(p, t).head = h /\ Push(p, t).kept = us /\ Push(p, t).session = <<s>>
    BY ONLY <2>4, <2>5, h \in State, us \in Seq(Tx) DEF Pending
  <2>7. ASSUME Matches(h, x, ts) PROVE Matches(h, <<s>>, us)
    <3>1. ApplyAll(h, ts).ok /\ ApplyAll(h, ts).state = tip
      <4>1. CASE ts = <<>>
        <5>1. tip = h
          BY <1>3, <2>7, <4>1 DEF Matches, Tip
        <5>2. ApplyAll(h, ts) = [ok |-> TRUE, state |-> h]
          BY <4>1, ApplyAllNone
        <5> QED
          BY ONLY <5>1, <5>2
      <4>2. CASE ts # <<>>
        <5>1. PICK s2 : s2 = ApplyAll(h, ts).state
          OBVIOUS
        <5>2. ApplyAll(h, ts).ok /\ x = <<s2>>
          BY <2>7, <4>2, <5>1 DEF Matches
        <5>3. x # <<>> /\ x[1] = s2
          BY <5>2
        <5> QED
          BY <1>3, <5>1, <5>2, <5>3 DEF Tip
      <4> QED
        BY <4>1, <4>2
    <3>2. ApplyAll(h, us) = ApplyNext(ApplyAll(h, ts), t) /\ ApplyAll(h, ts) \in Result
      BY <2>3, ApplyAllLast, ApplyAllFacts
    <3>3. ApplyAll(h, us).ok /\ ApplyAll(h, us).state = s
      BY <1>6, <2>1, <3>1, <3>2, ApplyNextType
    <3> QED
      BY <2>3, <3>3 DEF Matches
  <2> QED
    BY <1>2, <2>6, <2>7
<1> QED
  BY <1>5, <1>6

(* Repush skips what is known already.                                     *)
LEMMA RepushFacts ==
    ASSUME NEW p \in Pending, NEW t \in Tx
    PROVE  /\ Repush(p, t) \in Pending /\ Repush(p, t).head = p.head
           /\ Matches(p.head, p.session, p.kept) =>
                Matches(p.head, Repush(p, t).session, Repush(p, t).kept)
<1>1. CASE t \in Tip(p.head, p.session).known
  BY <1>1 DEF Repush
<1>2. CASE t \notin Tip(p.head, p.session).known
  BY <1>2, PushFacts DEF Repush
<1> QED
  BY <1>1, <1>2

(* What the restorer pushes again makes the new pending state.             *)
LEMMA RepushedFacts ==
    ASSUME NEW h \in State, NEW ts \in Seq(Tx)
    PROVE  /\ Repushed(h, ts).kept \in Seq(Tx) /\ Repushed(h, ts).session \in Session
           /\ Matches(h, Repushed(h, ts).session, Repushed(h, ts).kept)
<1>1. PICK n \in Nat : n = Len(ts) /\ DOMAIN ts = 1 .. n
  OBVIOUS
<1>2. PICK a \in Pending : a = [head |-> h, session |-> <<>>, kept |-> <<>>]
  <2>1. PICK e \in Seq(Tx) : e = <<>>
    <3>1. <<>> \in Seq(Tx)
      OBVIOUS
    <3> QED
      BY <3>1
  <2>2. e \in Session
    BY <2>1 DEF Session
  <2>3. [head |-> h, session |-> e, kept |-> e] \in Pending
    BY <2>2 DEF Pending
  <2> QED
    BY <2>1, <2>3
<1> DEFINE step == [x \in (1 .. n) \X Pending |-> Repush(x[2], ts[x[1]])]
           Solves(it) == it = [u \in SUBSET (1 .. n) |->
                                 IF u = {} THEN a ELSE Repush(it[u \ {Max(u)}], ts[Max(u)])]
           it == CHOOSE g : Solves(g)
<1>3. step \in Steps(n, Pending)
  <2>1. \A i \in 1 .. n, r \in Pending : Repush(r, ts[i]) \in Pending
    BY <1>1, RepushFacts
  <2> QED
    BY ONLY <2>1 DEF Steps
<1>4. \A i \in 1 .. n, r \in Pending : step[<<i, r>>] = Repush(r, ts[i])
  OBVIOUS
<1> HIDE DEF step
<1>5. Repushed(h, ts) = it[1 .. n]
  BY <1>1, <1>2 DEF Repushed, FoldLeft, MapThenFoldSet
<1>6. \E g : Solves(g)
  <2>1. PICK g \in [SUBSET (1 .. n) -> Pending] : FoldOver(n, a, step, g)
    BY <1>3, FoldExists
  <2>2. ASSUME NEW u \in SUBSET (1 .. n), u # {}
        PROVE  step[<<Max(u), g[u \ {Max(u)}]>>] = Repush(g[u \ {Max(u)}], ts[Max(u)])
    <3>1. Max(u) \in 1 .. n
      BY <2>2, MaxOfInterval
    <3>2. u \ {Max(u)} \in SUBSET (1 .. n)
      OBVIOUS
    <3> QED
      BY <1>4, <2>1, <3>1, <3>2
  <2>3. \A u \in SUBSET (1 .. n) :
           g[u] = IF u = {} THEN a ELSE Repush(g[u \ {Max(u)}], ts[Max(u)])
    BY <2>1, <2>2 DEF FoldOver
  <2>4. g = [u \in SUBSET (1 .. n) |-> g[u]]
    BY <2>1
  <2> QED
    BY <2>3, <2>4
<1>7. Solves(it)
  BY ONLY <1>6
<1> HIDE DEF it
<1>8. it[1 .. 0] = a
  <2>1. 1 .. 0 \in SUBSET (1 .. n) /\ 1 .. 0 = {}
    OBVIOUS
  <2> QED
    BY ONLY <1>7, <2>1
<1>9. ASSUME NEW i \in 1 .. n PROVE it[1 .. i] = Repush(it[1 .. i - 1], ts[i])
  <2>1. Max(1 .. i) = i /\ (1 .. i) \ {i} = 1 .. i - 1 /\ 1 .. i # {} /\ 1 .. i \in SUBSET (1 .. n)
    BY SegmentFacts
  <2> QED
    BY ONLY <1>7, <2>1
<1>10. PICK f : Iteration(n, Pending, a, step, f) /\ f[n] = it[1 .. n]
  BY ONLY <1>3, <1>4, <1>8, <1>9, a \in Pending, n \in Nat, FoldIs
<1>11. /\ f[0] = a /\ f[n] = Repushed(h, ts)
       /\ \A i \in 1 .. n : f[i - 1] \in Pending => f[i] = Repush(f[i - 1], ts[i])
  BY <1>4, <1>5, <1>10 DEF Iteration
<1> DEFINE Kept == {r \in Pending : r.head = h /\ Matches(h, r.session, r.kept)}
<1>12. f[0] \in Kept
  BY <1>2, <1>11 DEF Matches
<1>13. ASSUME NEW i \in 1 .. n, f[i - 1] \in Kept PROVE f[i] \in Kept
  <2>1. PICK r \in Pending, t \in Tx :
           r = f[i - 1] /\ t = ts[i] /\ r.head = h /\ Matches(h, r.session, r.kept)
    BY <1>1, <1>13
  <2>2. f[i] = Repush(r, t)
    BY <1>11, <2>1
  <2>3. /\ Repush(r, t) \in Pending /\ Repush(r, t).head = h
        /\ Matches(h, Repush(r, t).session, Repush(r, t).kept)
    BY ONLY <2>1, RepushFacts
  <2> QED
    BY <2>2, <2>3
<1> HIDE DEF Kept
<1>14. f[n] \in Kept
  <2>1. \A i \in 0 .. n : f[i] \in Kept
    BY ONLY <1>12, <1>13, n \in Nat, IterateKeeps
  <2> QED
    BY <2>1
<1> QED
  BY <1>11, <1>14 DEF Kept, Pending
-----------------------------------------------------------------------------
(* FlattenSeq joins the sequences one by one.                              *)
LEMMA FlattenIs ==
    ASSUME NEW ss \in Seq(Seq(Tx))
    PROVE  \E f : /\ f \in [0 .. Len(ss) -> Seq(Tx)] /\ f[0] = <<>> /\ f[Len(ss)] = FlattenSeq(ss)
                  /\ \A i \in 1 .. Len(ss) : f[i] = f[i - 1] \o ss[i]
<1>1. PICK n \in Nat : n = Len(ss) /\ \A i \in 1 .. n : ss[i] \in Seq(Tx)
  OBVIOUS
<1>2. PICK e \in Seq(Tx) : e = <<>>
  <2>1. <<>> \in Seq(Tx)
    OBVIOUS
  <2> QED
    BY <2>1
<1> DEFINE step == [x \in (1 .. n) \X Seq(Tx) |-> x[2] \o ss[x[1]]]
<1>3. step \in Steps(n, Seq(Tx))
  <2>1. \A i \in 1 .. n, x \in Seq(Tx) : x \o ss[i] \in Seq(Tx)
    BY <1>1
  <2> QED
    BY ONLY <2>1 DEF Steps
<1>4. \A i \in 1 .. n, x \in Seq(Tx) : step[<<i, x>>] = x \o ss[i]
  OBVIOUS
<1> HIDE DEF step
<1>5. PICK f : Iteration(n, Seq(Tx), e, step, f)
  BY <1>3, IterateExists
<1>6. /\ f \in [0 .. n -> Seq(Tx)] /\ f[0] = <<>>
      /\ \A i \in 1 .. n : f[i - 1] \in Seq(Tx) /\ f[i] = f[i - 1] \o ss[i]
  <2>1. f \in [0 .. n -> Seq(Tx)] /\ f[0] = e /\ \A i \in 1 .. n : f[i] = step[<<i, f[i - 1]>>]
    BY ONLY <1>5 DEF Iteration
  <2>2. \A i \in 1 .. n : f[i - 1] \in Seq(Tx)
    BY ONLY <2>1, n \in Nat
  <2>3. \A i \in 1 .. n : f[i] = f[i - 1] \o ss[i]
    BY ONLY <1>4, <2>1, <2>2
  <2> QED
    BY ONLY <1>2, <2>1, <2>2, <2>3
<1>7. f[n] = FlattenSeq(ss)
  <2>1. CASE n = 0
    <3>1. ss = <<>>
      <4>1. PICK X : ss \in Seq(X) /\ Len(ss) = 0
        BY <1>1, <2>1
      <4> QED
        BY ONLY <4>1
    <3> QED
      BY <1>1, <1>6, <2>1, <3>1 DEF FlattenSeq
  <2>2. CASE n # 0
    <3> DEFINE Solves(g) == g = [i \in 1 .. n |-> IF i = 1 THEN ss[i] ELSE g[i - 1] \o ss[i]]
               h == CHOOSE g : Solves(g)
               g == [i \in 1 .. n |-> f[i]]
    <3>1. FlattenSeq(ss) = h[n]
      BY <1>1, <2>2 DEF FlattenSeq
    <3>2. \E x : Solves(x)
      <4>1. ASSUME NEW i \in 1 .. n PROVE g[i] = IF i = 1 THEN ss[i] ELSE g[i - 1] \o ss[i]
        <5>1. g[i] = f[i] /\ f[i] = f[i - 1] \o ss[i]
          BY <1>6
        <5>2. CASE i = 1
          <6>1. ss[i] \in Seq(Tx) /\ f[i - 1] = <<>>
            <7>1. i - 1 = 0
              BY <5>2
            <7> QED
              BY <1>1, <1>6, <7>1
          <6>2. <<>> \o ss[i] = ss[i]
            BY ONLY <6>1
          <6> HIDE DEF g
          <6> QED
            BY ONLY <5>1, <5>2, <6>1, <6>2
        <5>3. CASE i # 1
          <6>1. i - 1 \in 1 .. n
            BY <5>3
          <6>2. g[i - 1] = f[i - 1]
            BY <6>1
          <6> HIDE DEF g
          <6> QED
            BY <5>1, <5>3, <6>2
        <5> QED
          BY <5>2, <5>3
      <4>2. g = [i \in 1 .. n |-> g[i]]
        OBVIOUS
      <4> HIDE DEF g
      <4>3. Solves(g)
        BY <4>1, <4>2
      <4> QED
        BY <4>3
    <3>3. Solves(h)
      BY <3>2
    <3> HIDE DEF h
    <3> DEFINE Bad == {i \in 1 .. n : h[i] # f[i]}
    <3>4. ASSUME Bad # {} PROVE FALSE
      <4>1. PICK m \in Bad : \A k \in Bad : m <= k
        <5>1. Bad \in SUBSET Nat
          OBVIOUS
        <5> HIDE DEF Bad
        <5> QED
          BY <3>4, <5>1, LeastNumber
      <4>2. m \in 1 .. n /\ h[m] # f[m]
        OBVIOUS
      <4>3. h[m] = IF m = 1 THEN ss[m] ELSE h[m - 1] \o ss[m]
        BY <3>3, <4>2
      <4>4. f[m] = f[m - 1] \o ss[m] /\ ss[m] \in Seq(Tx)
        BY <1>1, <1>6, <4>2
      <4>5. CASE m = 1
        <5>1. f[m] = <<>> \o ss[m]
          <6>1. m - 1 = 0
            BY <4>5
          <6> QED
            BY ONLY <1>6, <4>4, <6>1
        <5>2. <<>> \o ss[m] = ss[m]
          BY <4>4
        <5> QED
          BY <4>2, <4>3, <4>5, <5>1, <5>2
      <4>6. CASE m # 1
        <5>1. m - 1 \in 1 .. n /\ m - 1 \notin Bad
          <6> HIDE DEF Bad
          <6> QED
            BY <4>1, <4>2, <4>6
        <5>2. h[m - 1] = f[m - 1]
          BY <5>1
        <5> QED
          BY ONLY <4>2, <4>3, <4>4, <4>6, <5>2
      <4> QED
        BY <4>5, <4>6
    <3>5. n \in 1 .. n
      BY <2>2
    <3> QED
      BY <3>1, <3>4, <3>5
  <2> QED
    BY <2>1, <2>2
<1> QED
  BY <1>1, <1>6, <1>7

(* What a block of the chain keeps.                                        *)
Block == [txs : Seq(Tx), state : State]

(* The transactions of a chain, and of a chain with another block.         *)
LEMMA TxsOfFacts ==
    ASSUME NEW c \in Seq(Block)
    PROVE  TxsOf(c) \in Seq(Tx)
<1> DEFINE ss == [i \in DOMAIN c |-> c[i].txs]
<1>1. ss \in Seq(Seq(Tx))
  <2>1. \A i \in DOMAIN c : c[i].txs \in Seq(Tx)
    <3>1. \A i \in DOMAIN c : c[i] \in Block
      OBVIOUS
    <3>2. \A b \in Block : b.txs \in Seq(Tx)
      BY DEF Block
    <3> QED
      BY ONLY <3>1, <3>2
  <2>2. PICK n \in Nat : DOMAIN c = 1 .. n
    OBVIOUS
  <2>3. ss \in [1 .. n -> Seq(Tx)]
    BY <2>1, <2>2
  <2> QED
    BY ONLY <2>3, n \in Nat
<1> HIDE DEF ss
<1>2. PICK n \in Nat : n = Len(ss)
  BY <1>1
<1>3. PICK f : f \in [0 .. n -> Seq(Tx)] /\ f[n] = FlattenSeq(ss)
  BY ONLY <1>1, <1>2, FlattenIs
<1>4. FlattenSeq(ss) \in Seq(Tx)
  BY <1>3
<1> QED
  BY <1>4 DEF TxsOf, ss

(* One more sequence is joined at the end.                                 *)
LEMMA FlattenLast ==
    ASSUME NEW ss \in Seq(Seq(Tx)), NEW x \in Seq(Tx)
    PROVE  FlattenSeq(Append(ss, x)) = FlattenSeq(ss) \o x
<1>1. PICK X : X = Seq(Tx)
  OBVIOUS
<1>2. PICK n \in Nat : n = Len(ss)
  BY <1>1
<1>3. PICK us \in Seq(X) : us = Append(ss, x)
  <2>1. Append(ss, x) \in Seq(X)
    BY ONLY <1>1, ss \in Seq(Seq(Tx)), x \in Seq(Tx)
  <2> QED
    BY <2>1
<1>4. Len(us) = n + 1 /\ us[n + 1] = x /\ \A i \in 1 .. n : us[i] = ss[i]
  BY ONLY <1>1, <1>2, <1>3, ss \in Seq(Seq(Tx)), x \in Seq(Tx)
<1>5. PICK f : /\ f[0] = <<>> /\ f[n] = FlattenSeq(ss)
               /\ \A i \in 1 .. n : f[i] = f[i - 1] \o ss[i]
  BY ONLY <1>2, ss \in Seq(Seq(Tx)), FlattenIs
<1>6. PICK g : /\ g[0] = <<>> /\ g[n + 1] = FlattenSeq(us)
               /\ \A i \in 1 .. n + 1 : g[i] = g[i - 1] \o us[i]
  BY ONLY <1>1, <1>4, us \in Seq(X), FlattenIs, ZenonT(60)
<1> DEFINE Bad == {i \in 0 .. n : f[i] # g[i]}
<1>7. ASSUME Bad # {} PROVE FALSE
  <2>1. PICK m \in Bad : \A k \in Bad : m <= k
    <3>1. Bad \in SUBSET Nat
      OBVIOUS
    <3> HIDE DEF Bad
    <3> QED
      BY <1>7, <3>1, LeastNumber
  <2>2. m \in 0 .. n /\ f[m] # g[m] /\ m # 0
    <3>1. m \in 0 .. n /\ f[m] # g[m]
      OBVIOUS
    <3> QED
      BY ONLY <1>5, <1>6, <3>1
  <2>3. m - 1 \in 0 .. n /\ m - 1 \notin Bad /\ m \in 1 .. n /\ m \in 1 .. n + 1
    <3> HIDE DEF Bad
    <3> QED
      BY ONLY <2>1, <2>2, n \in Nat
  <2>4. f[m - 1] = g[m - 1] /\ us[m] = ss[m]
    <3>1. f[m - 1] = g[m - 1]
      BY ONLY <2>3
    <3> QED
      BY ONLY <1>4, <2>3, <3>1
  <2> QED
    BY ONLY <1>5, <1>6, <2>2, <2>3, <2>4
<1>8. f[n] = g[n]
  <2>1. n \in 0 .. n
    OBVIOUS
  <2> QED
    BY ONLY <1>7, <2>1
<1>9. g[n + 1] = g[n] \o us[n + 1]
  <2>1. n + 1 \in 1 .. n + 1 /\ (n + 1) - 1 = n
    OBVIOUS
  <2> QED
    BY ONLY <1>6, <2>1
<1> QED
  BY ONLY <1>3, <1>4, <1>5, <1>6, <1>8, <1>9

(* The transactions of a chain with another block.                         *)
LEMMA TxsOfLast ==
    ASSUME NEW c \in Seq(Block), NEW b \in Block
    PROVE  TxsOf(Append(c, b)) = TxsOf(c) \o b.txs
<1> DEFINE ss == [i \in DOMAIN c |-> c[i].txs]
           d  == Append(c, b)
           us == [i \in DOMAIN d |-> d[i].txs]
<1>0. \A r \in Block : r.txs \in Seq(Tx)
  BY DEF Block
<1>1. PICK n \in Nat : DOMAIN c = 1 .. n /\ n = Len(c)
  OBVIOUS
<1>2. ss \in Seq(Seq(Tx)) /\ Len(ss) = n
  <2>1. \A i \in DOMAIN c : c[i] \in Block
    OBVIOUS
  <2>2. ss \in [1 .. n -> Seq(Tx)]
    BY ONLY <1>0, <1>1, <2>1
  <2> HIDE DEF ss
  <2> QED
    BY ONLY <2>2, n \in Nat
<1>3. DOMAIN d = 1 .. n + 1 /\ d[n + 1] = b /\ \A i \in 1 .. n : d[i] = c[i]
  BY <1>1
<1> HIDE DEF d
<1>4. us = Append(ss, b.txs)
  <2>1. us = [i \in 1 .. n + 1 |-> us[i]] /\ us[n + 1] = b.txs
    BY ONLY <1>3, n \in Nat
  <2>2. \A i \in 1 .. n : us[i] = ss[i]
    <3>1. \A i \in 1 .. n : i \in 1 .. n + 1
      OBVIOUS
    <3> QED
      BY ONLY <1>1, <1>3, <3>1
  <2> HIDE DEF us, ss
  <2>3. PICK y : y = b.txs
    OBVIOUS
  <2>4. PICK X : X = Seq(Tx) /\ ss \in Seq(X) /\ y \in X
    BY <1>0, <1>2, <2>3
  <2>5. /\ Append(ss, y) = [i \in 1 .. n + 1 |-> Append(ss, y)[i]] /\ Append(ss, y)[n + 1] = y
        /\ \A i \in 1 .. n : Append(ss, y)[i] = ss[i]
    <3>1. ss \in Seq(X) /\ Len(ss) = n /\ y \in X
      BY <1>2, <2>4
    <3>2. PICK z : z = Append(ss, y)
      OBVIOUS
    <3>3. z \in Seq(X) /\ Len(z) = n + 1 /\ z[n + 1] = y /\ \A i \in 1 .. n : z[i] = ss[i]
      BY ONLY <3>1, <3>2, n \in Nat
    <3>4. z = [i \in 1 .. n + 1 |-> z[i]]
      BY ONLY <3>3, n \in Nat
    <3> QED
      BY ONLY <3>2, <3>3, <3>4
  <2>6. \A i \in 1 .. n + 1 : us[i] = Append(ss, y)[i]
    <3>1. \A i \in 1 .. n + 1 : i = n + 1 \/ i \in 1 .. n
      OBVIOUS
    <3> QED
      BY ONLY <2>1, <2>2, <2>3, <2>5, <3>1
  <2>7. us = Append(ss, y)
    BY ONLY <2>1, <2>5, <2>6
  <2> QED
    BY ONLY <2>3, <2>7
<1> HIDE DEF us, ss
<1>5. b.txs \in Seq(Tx)
  BY <1>0
<1>6. FlattenSeq(us) = FlattenSeq(ss) \o b.txs
  BY ONLY <1>2, <1>4, <1>5, FlattenLast
<1> QED
  BY ONLY <1>6 DEF TxsOf, ss, us, d
-----------------------------------------------------------------------------
(* What holds of every step of a block that applies.                       *)
Fits(s, ts, f) ==
    /\ f \in [0 .. Len(ts) -> State]
    /\ f[0] = s /\ f[Len(ts)] = ApplyAll(s, ts).state
    /\ \A i \in 1 .. Len(ts) :
          /\ f[i - 1] \in State /\ ts[i] \in Tx /\ f[i - 1].ids = s.ids /\ f[i - 1].time = s.time
          /\ CanApply(f[i - 1], ts[i]) /\ f[i] = Applied(f[i - 1], ts[i])

(* If all transactions apply, each of them could be applied in its turn.   *)
LEMMA OkCourse ==
    ASSUME NEW s \in State, NEW ts \in Seq(Tx), ApplyAll(s, ts).ok
    PROVE  \E f : Fits(s, ts, f)
<1>1. PICK n \in Nat : n = Len(ts) /\ \A i \in 1 .. n : ts[i] \in Tx
  OBVIOUS
<1>2. PICK f : /\ f \in [0 .. n -> Result] /\ f[0] = [ok |-> TRUE, state |-> s]
               /\ f[n] = ApplyAll(s, ts)
               /\ \A i \in 1 .. n : f[i] = ApplyNext(f[i - 1], ts[i])
  <2>1. PICK f : Course(s, ts, f)
    BY ApplyAllIs
  <2> QED
    BY <1>1, <2>1 DEF Course
<1>3. ASSUME NEW i \in 1 .. n
      PROVE  /\ f[i].ok => f[i - 1].ok /\ CanApply(f[i - 1].state, ts[i])
             /\ f[i].state = Applied(f[i - 1].state, ts[i]) /\ f[i - 1].state \in State
  <2>1. PICK r \in Result, t \in Tx : r = f[i - 1] /\ t = ts[i]
    BY <1>1, <1>2
  <2>2. r.state \in State /\ f[i] = ApplyNext(r, t)
    BY <1>2, <2>1 DEF Result
  <2>3. /\ f[i].ok <=> r.ok /\ CanApply(r.state, t)
        /\ f[i].state = Applied(r.state, t)
    BY ONLY <2>2, r \in Result, t \in Tx, ApplyNextType
  <2> QED
    BY ONLY <2>1, <2>2, <2>3
<1> DEFINE Bad == {k \in 0 .. n : ~f[n - k].ok}
<1>4. ASSUME Bad # {} PROVE FALSE
  <2>1. PICK m \in Bad : \A k \in Bad : m <= k
    <3>1. Bad \in SUBSET Nat
      OBVIOUS
    <3> HIDE DEF Bad
    <3> QED
      BY <1>4, <3>1, LeastNumber
  <2>2. m \in 0 .. n /\ ~f[n - m].ok
    OBVIOUS
  <2>3. CASE m = 0
    <3>1. n - m = n
      BY <2>3
    <3> QED
      BY <1>2, <2>2, <3>1
  <2>4. CASE m # 0
    <3>1. m - 1 \in 0 .. n /\ m - 1 \notin Bad /\ n - (m - 1) \in 1 .. n /\ (n - (m - 1)) - 1 = n - m
      <4> HIDE DEF Bad
      <4> QED
        BY ONLY <2>1, <2>2, <2>4, n \in Nat
    <3>2. f[n - (m - 1)].ok
      BY ONLY <3>1
    <3> QED
      BY ONLY <1>3, <2>2, <3>1, <3>2
  <2> QED
    BY <2>3, <2>4
<1>5. ASSUME NEW i \in 0 .. n PROVE f[i].ok
  <2>1. n - i \in 0 .. n /\ n - (n - i) = i
    OBVIOUS
  <2>2. n - i \notin Bad
    BY ONLY <1>4
  <2> QED
    BY ONLY <2>1, <2>2
<1> HIDE DEF Bad
<1> DEFINE g == [i \in 0 .. n |-> f[i].state]
           Same == {x \in State : x.ids = s.ids /\ x.time = s.time}
<1>6. \A i \in 0 .. n : g[i] = f[i].state
  OBVIOUS
<1>7. g = [i \in 0 .. n |-> g[i]]
  OBVIOUS
<1> HIDE DEF g
<1>8. g[0] = s /\ g[n] = ApplyAll(s, ts).state
  <2>1. 0 \in 0 .. n /\ n \in 0 .. n
    OBVIOUS
  <2>2. f[0].state = s
    BY ONLY <1>2
  <2> QED
    BY ONLY <1>2, <1>6, <2>1, <2>2
<1>9. ASSUME NEW i \in 1 .. n
      PROVE  /\ CanApply(g[i - 1], ts[i]) /\ g[i] = Applied(g[i - 1], ts[i]) /\ g[i - 1] \in State
             /\ ts[i] \in Tx
  <2>1. i \in 0 .. n /\ i - 1 \in 0 .. n
    OBVIOUS
  <2> QED
    BY ONLY <1>1, <1>3, <1>5, <1>6, <2>1, i \in 1 .. n
<1>10. \A i \in 0 .. n : g[i] \in Same
  <2>1. g[0] \in Same
    BY <1>8
  <2>2. ASSUME NEW i \in 1 .. n, g[i - 1] \in Same PROVE g[i] \in Same
    <3>1. PICK x \in State, t \in Tx : x = g[i - 1] /\ t = ts[i] /\ x.ids = s.ids /\ x.time = s.time
      BY <1>9, <2>2
    <3>2. Applied(x, t) \in State /\ Applied(x, t).ids = x.ids /\ Applied(x, t).time = x.time
      BY ONLY x \in State, t \in Tx, AppliedFacts
    <3> QED
      BY <1>9, <3>1, <3>2
  <2> HIDE DEF Same
  <2> QED
    BY ONLY <2>1, <2>2, n \in Nat, IterateKeeps
<1>11. \A i \in 1 .. n : i - 1 \in 0 .. n
  OBVIOUS
<1>12. \A i \in 1 .. n : g[i - 1].ids = s.ids /\ g[i - 1].time = s.time
  BY ONLY <1>10, <1>11
<1>13. g \in [0 .. n -> State]
  BY ONLY <1>7, <1>10
<1> QED
  BY ONLY <1>1, <1>8, <1>9, <1>12, <1>13 DEF Fits

(* A transaction leaves the turn of the system alone, or takes it and      *)
(* passes it on.                                                           *)
LEMMA TxSlots ==
    ASSUME NEW t \in Tx
    PROVE  \/ \A k \in Nat : <<"slot", k>> \notin t.needs /\ <<"slot", k>> \notin t.makes
           \/ \E k \in Nat : t.needs = {<<"slot", k>>} /\ t.makes = {<<"slot", k + 1>>}
<1>1. CASE t \in Txs
  <2>1. CASE \A c \in t.needs \cup t.makes : c[1] # "slot"
    <3>1. \A k \in Nat : <<"slot", k>>[1] = "slot"
      OBVIOUS
    <3> QED
      BY <2>1, <3>1
  <2> QED
    BY <1>1, <2>1, TurnAssumption
<1>2. CASE t \in SystemKind
  <2>1. PICK k \in Nat, e \in Nat, r \in Ref, z \in Nat :
          t = [needs |-> {<<"slot", k>>}, makes |-> {<<"slot", k + 1>>}, expires |-> e,
               ref |-> r, size |-> z]
    BY <1>2 DEF SystemKind, SystemOf
  <2>2. t.needs = {<<"slot", k>>} /\ t.makes = {<<"slot", k + 1>>}
    BY <2>1
  <2> QED
    BY <2>2
<1> QED
  BY <1>1, <1>2 DEF Tx

(* It is the turn of number j, and those of all known ones are over.       *)
HasSlot(s, j) ==
    /\ j \in Nat
    /\ \A k \in Nat : <<"slot", k>> \in s.coins <=> k = j
    /\ \A t \in s.known : \A k \in Nat : <<"slot", k>> \in t.needs => k < j

(* The turn moves on when a system transaction is applied.                 *)
LEMMA SlotMoves ==
    ASSUME NEW s \in State, NEW j, HasSlot(s, j), NEW t \in Tx, t.needs \subseteq s.coins
    PROVE  \E i \in Nat : /\ i >= j /\ HasSlot(Applied(s, t), i)
                          /\ \A k \in Nat : <<"slot", k>> \in t.needs => k = j /\ i = j + 1
<1>1. /\ Applied(s, t).known = s.known \cup {t}
      /\ Applied(s, t).coins = (s.coins \ t.needs) \cup t.makes
  BY AppliedFacts
<1>2. /\ j \in Nat /\ \A k \in Nat : <<"slot", k>> \in s.coins <=> k = j
      /\ \A x \in s.known : \A k \in Nat : <<"slot", k>> \in x.needs => k < j
  BY DEF HasSlot
<1>3. CASE \A k \in Nat : <<"slot", k>> \notin t.needs /\ <<"slot", k>> \notin t.makes
  <2>1. \A k \in Nat : <<"slot", k>> \in Applied(s, t).coins <=> k = j
    BY <1>1, <1>2, <1>3
  <2>2. \A x \in Applied(s, t).known : \A k \in Nat : <<"slot", k>> \in x.needs => k < j
    BY <1>1, <1>2, <1>3
  <2>3. HasSlot(Applied(s, t), j)
    BY ONLY <1>2, <2>1, <2>2 DEF HasSlot
  <2>4. j >= j
    BY <1>2
  <2> QED
    BY <1>2, <1>3, <2>3, <2>4
<1>4. CASE \E k \in Nat : t.needs = {<<"slot", k>>} /\ t.makes = {<<"slot", k + 1>>}
  <2>1. PICK m \in Nat : t.needs = {<<"slot", m>>} /\ t.makes = {<<"slot", m + 1>>}
    BY <1>4
  <2>2. m = j
    BY <1>2, <2>1
  <2>3. PICK i \in Nat : i = m + 1
    OBVIOUS
  <2>4. \A k, l \in Nat : <<"slot", k>> = <<"slot", l>> <=> k = l
    OBVIOUS
  <2>5. \A k \in Nat : <<"slot", k>> \in t.needs <=> k = m
    BY ONLY <2>1, <2>4, m \in Nat
  <2>6. \A k \in Nat : <<"slot", k>> \in t.makes <=> k = i
    BY ONLY <2>1, <2>3, <2>4, i \in Nat
  <2>7. \A k \in Nat : <<"slot", k>> \in Applied(s, t).coins <=> k = i
    BY ONLY <1>1, <1>2, <2>2, <2>5, <2>6
  <2>8. \A x \in Applied(s, t).known : \A k \in Nat : <<"slot", k>> \in x.needs => k < i
    <3>1. ASSUME NEW x \in Applied(s, t).known, NEW k \in Nat, <<"slot", k>> \in x.needs PROVE k < i
      <4>1. x \in s.known \/ x = t
        BY ONLY <1>1, <3>1
      <4>2. k < j \/ k = m
        BY ONLY <1>2, <2>5, <3>1, <4>1
      <4> QED
        BY ONLY <2>2, <2>3, <4>2, k \in Nat, m \in Nat
    <3> QED
      BY <3>1
  <2>9. HasSlot(Applied(s, t), i) /\ i >= j
    BY ONLY <2>2, <2>3, <2>7, <2>8, i \in Nat, m \in Nat DEF HasSlot
  <2> QED
    BY ONLY <2>2, <2>3, <2>5, <2>9, i \in Nat
<1> QED
  BY <1>3, <1>4, TxSlots

(* After a block it is the turn of a later number, or the same.            *)
LEMMA SlotsAfter ==
    ASSUME NEW s \in State, NEW j, HasSlot(s, j), NEW ts \in Seq(Tx), ApplyAll(s, ts).ok
    PROVE  \E i : HasSlot(ApplyAll(s, ts).state, i)
<1>1. PICK n \in Nat : n = Len(ts)
  OBVIOUS
<1>2. PICK f : Fits(s, ts, f)
  BY OkCourse
<1>3. /\ f \in [0 .. n -> State] /\ f[0] = s /\ f[n] = ApplyAll(s, ts).state
      /\ \A i \in 1 .. n : /\ f[i - 1] \in State /\ ts[i] \in Tx
                           /\ CanApply(f[i - 1], ts[i]) /\ f[i] = Applied(f[i - 1], ts[i])
  BY ONLY <1>1, <1>2 DEF Fits
<1> DEFINE Kept == {x \in State : \E i : HasSlot(x, i)}
<1>4. f[0] \in Kept
  BY <1>3
<1>5. ASSUME NEW i \in 1 .. n, f[i - 1] \in Kept PROVE f[i] \in Kept
  <2>1. PICK x \in State, t \in Tx, k \in Nat : x = f[i - 1] /\ t = ts[i] /\ HasSlot(x, k)
    BY <1>3, <1>5 DEF HasSlot
  <2>2. t.needs \subseteq x.coins /\ f[i] = Applied(x, t)
    BY <1>3, <2>1 DEF CanApply
  <2>3. \E m : HasSlot(Applied(x, t), m)
    BY ONLY <2>1, <2>2, SlotMoves
  <2>4. Applied(x, t) \in State
    BY ONLY x \in State, t \in Tx, AppliedFacts
  <2> QED
    BY <2>2, <2>3, <2>4
<1> HIDE DEF Kept
<1>6. \A i \in 0 .. n : f[i] \in Kept
  BY ONLY <1>4, <1>5, n \in Nat, IterateKeeps
<1> QED
  BY <1>3, <1>6 DEF Kept

(* The transactions of a block are different ones, none of them known, nor *)
(* expired unless it is the first block, and all are known afterwards.     *)
LEMMA BlockOnce ==
    ASSUME NEW s \in State, NEW ts \in Seq(Tx), ApplyAll(s, ts).ok
    PROVE  /\ IsInjective(ts)
           /\ \A i \in DOMAIN ts : /\ ts[i] \notin s.known
                                   /\ s.ids # <<>> => s.time <= ts[i].expires
           /\ s.known \cup ToSet(ts) \subseteq ApplyAll(s, ts).state.known
<1>1. PICK n \in Nat : n = Len(ts) /\ DOMAIN ts = 1 .. n
  OBVIOUS
<1>2. PICK f : Fits(s, ts, f)
  BY OkCourse
<1>3. /\ f[0] = s /\ f[n] = ApplyAll(s, ts).state
      /\ \A i \in 1 .. n : /\ f[i - 1] \in State /\ ts[i] \in Tx
                           /\ f[i - 1].ids = s.ids /\ f[i - 1].time = s.time
                           /\ CanApply(f[i - 1], ts[i]) /\ f[i] = Applied(f[i - 1], ts[i])
  BY ONLY <1>1, <1>2 DEF Fits
<1>4. ASSUME NEW i \in 1 .. n PROVE f[i].known = f[i - 1].known \cup {ts[i]}
  <2>1. PICK x \in State, t \in Tx : x = f[i - 1] /\ t = ts[i] /\ f[i] = Applied(x, t)
    BY ONLY <1>3, i \in 1 .. n
  <2>2. Applied(x, t).known = x.known \cup {t}
    BY ONLY x \in State, t \in Tx, AppliedFacts
  <2> QED
    BY ONLY <2>1, <2>2
<1>5. \A i \in 1 .. n : /\ ts[i] \notin f[i - 1].known
                        /\ s.ids # <<>> => s.time <= ts[i].expires
  BY ONLY <1>3 DEF CanApply
<1> DEFINE Has(i) == s.known \subseteq f[i].known /\ \A j \in 1 .. i : ts[j] \in f[i].known
           Bad == {k \in 0 .. n : ~Has(k)}
<1>6. ASSUME Bad # {} PROVE FALSE
  <2>1. PICK m \in Bad : \A k \in Bad : m <= k
    <3>1. Bad \in SUBSET Nat
      OBVIOUS
    <3> HIDE DEF Bad
    <3> QED
      BY <1>6, <3>1, LeastNumber
  <2>2. m \in 0 .. n /\ ~Has(m)
    <3> HIDE DEF Has
    <3> QED
      OBVIOUS
  <2>3. m # 0
    <3>1. Has(0)
      BY <1>3
    <3> HIDE DEF Has
    <3> QED
      BY ONLY <2>2, <3>1
  <2>4. m - 1 \in 0 .. n /\ m - 1 \notin Bad /\ m \in 1 .. n
    <3> HIDE DEF Bad, Has
    <3> QED
      BY ONLY <2>1, <2>2, <2>3, n \in Nat
  <2>5. Has(m - 1)
    <3> HIDE DEF Has
    <3> QED
      BY ONLY <2>4
  <2>6. \A j \in 1 .. m : j = m \/ j \in 1 .. m - 1
    BY ONLY <2>4, n \in Nat
  <2>7. Has(m)
    BY ONLY <1>4, <2>4, <2>5, <2>6
  <2> HIDE DEF Has
  <2> QED
    BY ONLY <2>2, <2>7
<1>7. ASSUME NEW i \in 0 .. n PROVE Has(i)
  <2> HIDE DEF Has
  <2>1. i \notin Bad
    BY ONLY <1>6
  <2> QED
    BY ONLY <2>1, i \in 0 .. n
<1>8. ASSUME NEW i \in 1 .. n, NEW j \in 1 .. n, i < j PROVE ts[i] # ts[j]
  <2>1. j - 1 \in 0 .. n /\ i \in 1 .. j - 1
    BY <1>8
  <2>2. ts[i] \in f[j - 1].known
    BY ONLY <1>7, <2>1
  <2> QED
    BY ONLY <1>5, <2>2, j \in 1 .. n
<1>9. IsInjective(ts)
  <2>1. \A i, j \in 1 .. n : i < j \/ j < i \/ i = j
    OBVIOUS
  <2> QED
    BY ONLY <1>1, <1>8, <2>1 DEF IsInjective
<1>10. s.known \cup ToSet(ts) \subseteq ApplyAll(s, ts).state.known
  <2>1. n \in 0 .. n
    OBVIOUS
  <2>2. s.known \subseteq f[n].known /\ \A j \in 1 .. n : ts[j] \in f[n].known
    BY ONLY <1>7, <2>1
  <2> QED
    BY ONLY <1>1, <1>3, <2>2 DEF ToSet
<1>11. \A i \in 1 .. n : ts[i] \notin s.known
  <2>1. \A i \in 1 .. n : i - 1 \in 0 .. n
    OBVIOUS
  <2> QED
    BY ONLY <1>5, <1>7, <2>1
<1> QED
  BY ONLY <1>1, <1>5, <1>9, <1>10, <1>11
-----------------------------------------------------------------------------
(* r is what a block leaves that is applied to the state s.                *)
Follows(s, r) ==
    /\ s.time < r.state.time /\ r.state.time <= MaxTime
    /\ ApplyAll(s, r.txs).ok
    /\ \E id \in Ids :
          r.state = ClearExpired([ApplyAll(s, r.txs).state EXCEPT
                                    !.ids = Append(ApplyAll(s, r.txs).state.ids, id),
                                    !.time = r.state.time])

Before(c, i) == IF i = 1 THEN Genesis ELSE c[i - 1].state

(* A chain of blocks that were applied one after the other.                *)
Grown(c) == c \in Seq(Block) /\ \A i \in 1 .. Len(c) : Follows(Before(c, i), c[i])

(* The state before the first block.                                       *)
LEMMA GenesisFacts ==
    Genesis \in State /\ Genesis.time = 0 /\ Genesis.ids = <<>> /\ HasSlot(Genesis, 1)
<1>1. <<"slot", 1>> \in Slot
  BY DEF Slot
<1>2. Coins \cup {<<"slot", 1>>} \in SUBSET AllCoins
  BY <1>1 DEF AllCoins
<1>3. <<>> \in Seq(Ids) /\ {} \in SUBSET Tx /\ 0 \in Nat
  OBVIOUS
<1>4. Genesis \in State /\ Genesis.time = 0 /\ Genesis.ids = <<>> /\ Genesis.known = {}
        /\ Genesis.coins = Coins \cup {<<"slot", 1>>}
  BY ONLY <1>2, <1>3 DEF Genesis, State
<1>5. \A k \in Nat : <<"slot", k>> \notin Coins
  <2>1. ASSUME NEW k \in Nat, <<"slot", k>> \in Coins PROVE FALSE
    <3>1. <<"slot", k>>[1] = "slot"
      OBVIOUS
    <3> QED
      BY <2>1, <3>1, TurnAssumption
  <2> QED
    BY <2>1
<1>6. \A k \in Nat : <<"slot", k>> = <<"slot", 1>> <=> k = 1
  OBVIOUS
<1>7. \A k \in Nat : <<"slot", k>> \in Genesis.coins <=> k = 1
  BY ONLY <1>4, <1>5, <1>6
<1> QED
  BY ONLY <1>4, <1>7 DEF HasSlot

(* A block moves the state on: expired transactions are forgotten.         *)
LEMMA FollowsFacts ==
    ASSUME NEW s \in State, NEW r \in Block, Follows(s, r)
    PROVE  /\ r.txs \in Seq(Tx) /\ ApplyAll(s, r.txs).ok
           /\ r.state \in State /\ s.time < r.state.time /\ r.state.time \in 1 .. MaxTime
           /\ Len(r.state.ids) = Len(s.ids) + 1 /\ r.state.coins = ApplyAll(s, r.txs).state.coins
           /\ r.state.known = {t \in ApplyAll(s, r.txs).state.known : r.state.time <= t.expires}
<1>1. PICK ts \in Seq(Tx), x \in State : r = [txs |-> ts, state |-> x]
  BY DEF Block
<1>2. r.txs = ts /\ r.state = x
  BY <1>1
<1>3. PICK q \in State : q = ApplyAll(s, ts).state /\ q.ids = s.ids
  BY ApplyAllFacts
<1>4. PICK id \in Ids : x = ClearExpired([q EXCEPT !.ids = Append(q.ids, id), !.time = x.time])
  BY <1>2, <1>3 DEF Follows
<1>5. s.time < x.time /\ x.time <= MaxTime /\ ApplyAll(s, ts).ok
  BY ONLY <1>2, Follows(s, r) DEF Follows
<1>6. PICK l \in Seq(Ids) : l = q.ids
  BY DEF State
<1>7. PICK m \in Seq(Ids) : m = Append(l, id) /\ Len(m) = Len(l) + 1
  <2>1. Append(l, id) \in Seq(Ids) /\ Len(Append(l, id)) = Len(l) + 1
    BY ONLY l \in Seq(Ids), id \in Ids
  <2> QED
    BY <2>1
<1>8. PICK y \in Nat : y = x.time /\ s.time \in Nat
  BY DEF State
<1>9. PICK w \in State : w = [q EXCEPT !.ids = m, !.time = y] /\ w.ids = m /\ w.time = y
                           /\ w.known = q.known /\ w.coins = q.coins
  <2>1. PICK w : w = [q EXCEPT !.ids = m, !.time = y]
    OBVIOUS
  <2>2. w \in State /\ w.ids = m /\ w.time = y /\ w.known = q.known /\ w.coins = q.coins
    BY ONLY <2>1, q \in State, m \in Seq(Ids), y \in Nat DEF State
  <2> QED
    BY ONLY <2>1, <2>2
<1>10. x = ClearExpired(w)
  BY ONLY <1>4, <1>6, <1>7, <1>8, <1>9
<1>11. x = [w EXCEPT !.known = {t \in w.known : w.time <= t.expires}]
  BY ONLY <1>10 DEF ClearExpired
<1>12. x.ids = m /\ x.coins = q.coins /\ x.known = {t \in q.known : y <= t.expires}
  BY ONLY <1>9, <1>11, w \in State DEF State
<1>13. x.time \in 1 .. MaxTime
  <2>1. MaxTime \in Nat
    BY PendingAssumption
  <2> QED
    BY ONLY <1>5, <1>8, <2>1
<1> QED
  BY ONLY <1>2, <1>3, <1>5, <1>6, <1>7, <1>8, <1>12, <1>13, ts \in Seq(Tx), x \in State

(* What such a chain has: its transactions are different ones, each known  *)
(* or expired, and it is the turn of one system transaction.               *)
Clean(c) ==
    /\ HeadOf(c) \in State /\ Len(HeadOf(c).ids) = Len(c)
    /\ \E j : HasSlot(HeadOf(c), j)
    /\ IsInjective(TxsOf(c))
    /\ \A i \in DOMAIN TxsOf(c) : \/ TxsOf(c)[i] \in HeadOf(c).known
                                  \/ TxsOf(c)[i].expires < HeadOf(c).time

(* Two sequences without repetition that share nothing.                    *)
LEMMA JoinInjective ==
    ASSUME NEW S, NEW u \in Seq(S), NEW v \in Seq(S), IsInjective(u), IsInjective(v),
           \A i \in DOMAIN u, j \in DOMAIN v : u[i] # v[j]
    PROVE  IsInjective(u \o v)
<1>1. PICK n \in Nat, m \in Nat : n = Len(u) /\ m = Len(v) /\ DOMAIN u = 1 .. n /\ DOMAIN v = 1 .. m
  OBVIOUS
<1>2. PICK w : w = u \o v
  OBVIOUS
<1>3. /\ DOMAIN w = 1 .. n + m /\ \A i \in 1 .. n : w[i] = u[i]
      /\ \A i \in n + 1 .. n + m : w[i] = v[i - n]
  BY ONLY <1>1, <1>2, u \in Seq(S), v \in Seq(S)
<1>4. \A i \in 1 .. n + m : i \in 1 .. n \/ (i \in n + 1 .. n + m /\ i - n \in 1 .. m)
  OBVIOUS
<1>5. ASSUME NEW i \in 1 .. n + m, NEW j \in 1 .. n + m, w[i] = w[j] PROVE i = j
  <2>1. CASE i \in 1 .. n /\ j \in 1 .. n
    BY <1>1, <1>3, <1>5, <2>1 DEF IsInjective
  <2>2. CASE i \in 1 .. n /\ j \in n + 1 .. n + m
    <3>1. i \in DOMAIN u /\ j - n \in DOMAIN v /\ u[i] = v[j - n]
      BY ONLY <1>1, <1>3, <1>5, <2>2, n \in Nat, m \in Nat
    <3> QED
      BY <3>1
  <2>3. CASE j \in 1 .. n /\ i \in n + 1 .. n + m
    <3>1. j \in DOMAIN u /\ i - n \in DOMAIN v /\ u[j] = v[i - n]
      BY ONLY <1>1, <1>3, <1>5, <2>3, n \in Nat, m \in Nat
    <3> QED
      BY <3>1
  <2>4. CASE i \in n + 1 .. n + m /\ j \in n + 1 .. n + m
    <3>1. i - n \in DOMAIN v /\ j - n \in DOMAIN v /\ v[i - n] = v[j - n]
      BY ONLY <1>1, <1>3, <1>5, <2>4, n \in Nat, m \in Nat
    <3>2. i - n = j - n
      BY ONLY <3>1, IsInjective(v) DEF IsInjective
    <3> QED
      BY ONLY <2>4, <3>2, n \in Nat, m \in Nat
  <2> QED
    BY <1>4, <2>1, <2>2, <2>3, <2>4
<1> QED
  BY ONLY <1>2, <1>3, <1>5 DEF IsInjective

(* The chain without blocks.                                               *)
LEMMA CleanNone == Clean(<<>>)
<1>1. HeadOf(<<>>) = Genesis
  BY DEF HeadOf
<1>2. TxsOf(<<>>) = <<>>
  <2>1. PICK e : e = [i \in DOMAIN <<>> |-> <<>>[i].txs] /\ e = <<>>
    OBVIOUS
  <2>2. FlattenSeq(e) = e
    BY <2>1 DEF FlattenSeq
  <2> QED
    BY <2>1, <2>2 DEF TxsOf
<1>3. DOMAIN TxsOf(<<>>) = {}
  BY <1>2
<1>4. IsInjective(TxsOf(<<>>))
  BY ONLY <1>3 DEF IsInjective
<1>5. Len(<<>>) = 0
  OBVIOUS
<1> QED
  BY ONLY <1>1, <1>3, <1>4, <1>5, GenesisFacts DEF Clean

(* A block that follows keeps the chain clean.                             *)
LEMMA CleanNext ==
    ASSUME NEW c \in Seq(Block), Clean(c), NEW b \in Block, Follows(HeadOf(c), b)
    PROVE  Clean(Append(c, b))
<1>1. PICK s \in State : s = HeadOf(c) /\ Len(s.ids) = Len(c)
  BY DEF Clean
<1>2. PICK j : HasSlot(s, j)
  BY <1>1 DEF Clean
<1>3. PICK q : q = ApplyAll(s, b.txs).state
  OBVIOUS
<1>4. /\ b.txs \in Seq(Tx) /\ ApplyAll(s, b.txs).ok
      /\ b.state \in State /\ s.time < b.state.time
      /\ Len(b.state.ids) = Len(s.ids) + 1 /\ b.state.coins = q.coins
      /\ b.state.known = {t \in q.known : b.state.time <= t.expires}
  <2>1. Follows(s, b)
    BY <1>1
  <2> QED
    BY ONLY <1>3, <2>1, s \in State, b \in Block, FollowsFacts
<1>5. PICK ts \in Seq(Tx) : ts = b.txs
  BY <1>4
<1>6. /\ IsInjective(ts)
      /\ \A i \in DOMAIN ts : ts[i] \notin s.known /\ (s.ids # <<>> => s.time <= ts[i].expires)
      /\ s.known \cup ToSet(ts) \subseteq q.known
  BY ONLY <1>3, <1>4, <1>5, s \in State, ts \in Seq(Tx), BlockOnce
<1>7. PICK us \in Seq(Tx) : us = TxsOf(c)
  BY TxsOfFacts
<1>8. /\ IsInjective(us)
      /\ \A i \in DOMAIN us : us[i] \in s.known \/ us[i].expires < s.time
  BY ONLY <1>1, <1>7, Clean(c) DEF Clean
<1>9. HeadOf(Append(c, b)) = b.state /\ Len(Append(c, b)) = Len(c) + 1
  <2>1. Len(Append(c, b)) = Len(c) + 1 /\ Append(c, b)[Len(c) + 1] = b /\ Len(c) + 1 # 0
    OBVIOUS
  <2>2. Append(c, b) # <<>>
    BY ONLY <2>1
  <2> QED
    BY ONLY <2>1, <2>2 DEF HeadOf, Last
<1>10. TxsOf(Append(c, b)) = us \o ts
  BY ONLY <1>5, <1>7, c \in Seq(Block), b \in Block, TxsOfLast
<1>11. Len(HeadOf(Append(c, b)).ids) = Len(Append(c, b)) /\ HeadOf(Append(c, b)) \in State
  BY ONLY <1>1, <1>4, <1>9
<1>12. \E i : HasSlot(b.state, i)
  <2>1. PICK i : HasSlot(q, i)
    BY ONLY <1>2, <1>3, <1>4, s \in State, SlotsAfter
  <2>2. HasSlot(b.state, i)
    BY ONLY <1>4, <2>1 DEF HasSlot
  <2> QED
    BY <2>2
<1>13. \A i \in DOMAIN us : us[i] \in Tx
  BY ONLY us \in Seq(Tx)
<1>14. \A i \in DOMAIN ts : ts[i] \in Tx
  BY ONLY ts \in Seq(Tx)
<1>15. s.time \in Nat /\ b.state.time \in Nat
  BY <1>4 DEF State
<1>16. \A t \in Tx : t.expires \in Nat
  BY TxFacts
<1>17. IsInjective(us \o ts)
  <2>1. ASSUME NEW i \in DOMAIN us, NEW k \in DOMAIN ts, us[i] = ts[k] PROVE FALSE
    <3>1. us[i] \notin s.known
      BY <1>6, <2>1
    <3>2. us[i].expires < s.time
      BY <1>8, <3>1
    <3>3. s.ids = <<>>
      <4>1. s.ids # <<>> => s.time <= us[i].expires
        BY <1>6, <2>1
      <4>2. us[i].expires \in Nat
        BY <1>13, <1>16
      <4> QED
        BY ONLY <1>15, <3>2, <4>1, <4>2
    <3>4. c = <<>>
      <4>1. Len(s.ids) = 0
        BY ONLY <3>3
      <4>2. Len(c) = 0
        BY ONLY <1>1, <4>1
      <4> QED
        BY ONLY <4>2, c \in Seq(Block)
    <3>5. us = <<>>
      <4>1. PICK e : e = [l \in DOMAIN <<>> |-> <<>>[l].txs] /\ e = <<>>
        OBVIOUS
      <4>2. FlattenSeq(e) = e
        BY <4>1 DEF FlattenSeq
      <4> QED
        BY <1>7, <3>4, <4>1, <4>2 DEF TxsOf
    <3> QED
      BY ONLY <3>5, i \in DOMAIN us
  <2>2. \A i \in DOMAIN us, k \in DOMAIN ts : us[i] # ts[k]
    BY ONLY <2>1
  <2> QED
    BY ONLY <1>6, <1>8, <2>2, us \in Seq(Tx), ts \in Seq(Tx), JoinInjective
<1>18. ASSUME NEW t \in Tx, t \in q.known \/ t.expires < s.time
       PROVE  t \in b.state.known \/ t.expires < b.state.time
  <2>1. t.expires \in Nat
    BY <1>16
  <2> QED
    BY ONLY <1>4, <1>15, <1>18, <2>1
<1>19. ASSUME NEW k \in DOMAIN (us \o ts)
       PROVE  (us \o ts)[k] \in b.state.known \/ (us \o ts)[k].expires < b.state.time
  <2>1. PICK n \in Nat, m \in Nat : n = Len(us) /\ m = Len(ts) /\ DOMAIN us = 1 .. n /\ DOMAIN ts = 1 .. m
    OBVIOUS
  <2>2. PICK w : w = us \o ts
    OBVIOUS
  <2>3. /\ DOMAIN w = 1 .. n + m /\ \A i \in 1 .. n : w[i] = us[i]
        /\ \A i \in n + 1 .. n + m : w[i] = ts[i - n]
    BY ONLY <2>1, <2>2, us \in Seq(Tx), ts \in Seq(Tx)
  <2>4. k \in 1 .. n \/ (k \in n + 1 .. n + m /\ k - n \in 1 .. m)
    BY ONLY <2>2, <2>3, k \in DOMAIN (us \o ts), n \in Nat, m \in Nat
  <2>5. w[k] \in Tx /\ (w[k] \in q.known \/ w[k].expires < s.time)
    <3>1. CASE k \in 1 .. n
      BY ONLY <1>6, <1>8, <1>13, <2>1, <2>3, <3>1
    <3>2. CASE k \in n + 1 .. n + m /\ k - n \in 1 .. m
      <4>1. w[k] = ts[k - n] /\ k - n \in DOMAIN ts
        BY ONLY <2>1, <2>3, <3>2
      <4>2. ts[k - n] \in ToSet(ts)
        BY ONLY <4>1 DEF ToSet
      <4> QED
        BY ONLY <1>6, <1>14, <4>1, <4>2
    <3> QED
      BY ONLY <2>4, <3>1, <3>2
  <2> QED
    BY ONLY <1>18, <2>2, <2>5
<1> QED
  BY ONLY <1>9, <1>10, <1>11, <1>12, <1>17, <1>19 DEF Clean

(* The first blocks of a chain are one.                                    *)
LEMMA GrownFirst ==
    ASSUME NEW c, Grown(c), NEW k \in 0 .. Len(c)
    PROVE  Grown(SubSeq(c, 1, k)) /\ Len(SubSeq(c, 1, k)) = k
<1>1. c \in Seq(Block) /\ \A i \in 1 .. Len(c) : Follows(Before(c, i), c[i])
  BY DEF Grown
<1>2. PICK n \in Nat : n = Len(c) /\ k \in 0 .. n
  BY <1>1
<1>3. PICK d : d = SubSeq(c, 1, k)
  OBVIOUS
<1>4. d \in Seq(Block) /\ Len(d) = k /\ \A i \in 1 .. k : d[i] = c[i]
  BY ONLY <1>1, <1>2, <1>3
<1>5. ASSUME NEW i \in 1 .. k PROVE Follows(Before(d, i), d[i])
  <2>1. i \in 1 .. n /\ (i # 1 => i - 1 \in 1 .. k)
    BY ONLY <1>2, i \in 1 .. k, n \in Nat
  <2>2. Before(d, i) = Before(c, i)
    BY ONLY <1>4, <2>1 DEF Before
  <2> QED
    BY ONLY <1>1, <1>2, <1>4, <2>1, <2>2, i \in 1 .. k
<1> QED
  BY ONLY <1>3, <1>4, <1>5 DEF Grown

(* The head of a chain is what its last block has left.                    *)
LEMMA GrownHead ==
    ASSUME NEW c, Grown(c)
    PROVE  HeadOf(c) = Before(c, Len(c) + 1)
<1>1. PICK n \in Nat : n = Len(c) /\ c \in Seq(Block)
  BY DEF Grown
<1>2. CASE n = 0
  <2>1. c = <<>>
    <3>1. Len(c) = 0 /\ c \in Seq(Block)
      BY ONLY <1>1, <1>2
    <3> QED
      BY ONLY <3>1
  <2> QED
    BY <1>1, <1>2, <2>1 DEF HeadOf, Before
<1>3. CASE n # 0
  <2>1. c # <<>> /\ n + 1 # 1 /\ (n + 1) - 1 = n
    BY ONLY <1>1, <1>3
  <2> QED
    BY ONLY <1>1, <2>1 DEF HeadOf, Before, Last
<1> QED
  BY <1>2, <1>3

(* Another block.                                                          *)
LEMMA GrownNext ==
    ASSUME NEW c, Grown(c), NEW b \in Block, Follows(HeadOf(c), b)
    PROVE  Grown(Append(c, b))
<1>1. PICK n \in Nat : n = Len(c) /\ c \in Seq(Block)
  BY DEF Grown
<1>2. \A i \in 1 .. n : Follows(Before(c, i), c[i])
  BY ONLY <1>1, Grown(c) DEF Grown
<1>3. PICK d : d = Append(c, b)
  OBVIOUS
<1>4. d \in Seq(Block) /\ Len(d) = n + 1 /\ d[n + 1] = b /\ \A i \in 1 .. n : d[i] = c[i]
  BY ONLY <1>1, <1>3, b \in Block
<1>5. ASSUME NEW i \in 1 .. n + 1 PROVE Follows(Before(d, i), d[i])
  <2>1. i # 1 => i - 1 \in 1 .. n
    BY ONLY i \in 1 .. n + 1, n \in Nat
  <2>2. Before(d, i) = Before(c, i)
    BY ONLY <1>4, <2>1 DEF Before
  <2>3. CASE i = n + 1
    BY <1>1, <1>4, <2>2, <2>3, GrownHead
  <2>4. CASE i # n + 1
    <3>1. i \in 1 .. n
      BY ONLY <2>4, i \in 1 .. n + 1, n \in Nat
    <3> QED
      BY ONLY <1>2, <1>4, <2>2, <3>1
  <2> QED
    BY <2>3, <2>4
<1> QED
  BY ONLY <1>3, <1>4, <1>5 DEF Grown

(* Every chain that has grown is clean.                                    *)
LEMMA GrownClean ==
    ASSUME NEW c, Grown(c)
    PROVE  Clean(c)
<1>1. PICK n \in Nat : n = Len(c) /\ c \in Seq(Block)
  BY DEF Grown
<1> DEFINE Bad == {k \in 0 .. n : ~Clean(SubSeq(c, 1, k))}
<1>2. ASSUME Bad # {} PROVE FALSE
  <2>1. PICK m \in Bad : \A k \in Bad : m <= k
    <3>1. Bad \in SUBSET Nat
      OBVIOUS
    <3> HIDE DEF Bad
    <3> QED
      BY <1>2, <3>1, LeastNumber
  <2>2. m \in 0 .. n /\ ~Clean(SubSeq(c, 1, m))
    OBVIOUS
  <2>3. CASE m = 0
    <3>1. SubSeq(c, 1, m) = <<>>
      BY ONLY <1>1, <2>3
    <3> QED
      BY ONLY <2>2, <3>1, CleanNone
  <2>4. CASE m # 0
    <3>1. m - 1 \in 0 .. n /\ m - 1 \notin Bad /\ m \in 1 .. n
      <4> HIDE DEF Bad
      <4> QED
        BY ONLY <2>1, <2>2, <2>4, n \in Nat
    <3>2. PICK d : d = SubSeq(c, 1, m - 1)
      OBVIOUS
    <3>3. Clean(d)
      BY ONLY <3>1, <3>2
    <3>4. Grown(d) /\ Len(d) = m - 1
      BY ONLY <1>1, <3>1, <3>2, Grown(c), GrownFirst
    <3>5. d \in Seq(Block) /\ \A i \in 1 .. m - 1 : d[i] = c[i]
      BY ONLY <1>1, <3>1, <3>2, n \in Nat
    <3>6. c[m] \in Block /\ SubSeq(c, 1, m) = Append(d, c[m])
      <4>1. c[m] \in Block
        BY ONLY <1>1, <3>1
      <4>2. PICK x \in Block : x = c[m]
        BY <4>1
      <4>3. PICK u, v : u = SubSeq(c, 1, m) /\ v = Append(d, x)
        OBVIOUS
      <4>4. u \in Seq(Block) /\ Len(u) = m /\ \A i \in 1 .. m : u[i] = c[i]
        BY ONLY <1>1, <3>1, <4>3, n \in Nat
      <4>5. v \in Seq(Block) /\ Len(v) = (m - 1) + 1 /\ v[m] = x /\ \A i \in 1 .. m - 1 : v[i] = d[i]
        <5>1. (m - 1) + 1 = m
          BY ONLY <3>1, n \in Nat
        <5> QED
          BY ONLY <3>4, <3>5, <4>3, <5>1, x \in Block
      <4>6. \A i \in 1 .. m : u[i] = v[i]
        <5>1. \A i \in 1 .. m : i = m \/ i \in 1 .. m - 1
          BY ONLY <3>1, n \in Nat
        <5> QED
          BY ONLY <3>5, <4>2, <4>4, <4>5, <5>1
      <4>7. u = v
        <5>1. Len(u) = Len(v)
          BY ONLY <3>1, <4>4, <4>5, n \in Nat
        <5> QED
          BY ONLY <4>4, <4>5, <4>6, <5>1
      <4> QED
        BY ONLY <4>1, <4>2, <4>3, <4>7
    <3>7. Follows(HeadOf(d), c[m])
      <4>1. HeadOf(d) = Before(d, Len(d) + 1)
        BY ONLY <3>4, GrownHead
      <4>2. Len(d) + 1 = m
        BY ONLY <3>1, <3>4, n \in Nat
      <4>3. Before(d, m) = Before(c, m)
        <5>1. m # 1 => m - 1 \in 1 .. m - 1
          BY ONLY <3>1, n \in Nat
        <5> QED
          BY ONLY <3>5, <5>1 DEF Before
      <4>4. Follows(Before(c, m), c[m])
        BY ONLY <1>1, <3>1, Grown(c) DEF Grown
      <4> QED
        BY ONLY <4>1, <4>2, <4>3, <4>4
    <3>8. PICK x \in Block : x = c[m]
      BY <3>6
    <3>9. Clean(Append(d, x))
      BY ONLY <3>3, <3>5, <3>7, <3>8, CleanNext
    <3> QED
      BY ONLY <2>2, <3>6, <3>8, <3>9
  <2> QED
    BY <2>3, <2>4
<1>3. SubSeq(c, 1, n) = c
  BY ONLY <1>1
<1>4. n \notin Bad /\ n \in 0 .. n
  BY ONLY <1>2, n \in Nat
<1> QED
  BY ONLY <1>3, <1>4

(* The ids and times of the states on a chain.                             *)
LEMMA GrownTimes ==
    ASSUME NEW c, Grown(c)
    PROVE  /\ HeadOf(c) \in State /\ HeadOf(c).time \in 0 .. MaxTime
           /\ \A i \in 1 .. Len(c) : /\ Len(c[i].state.ids) = i
                                     /\ c[i].state.time \in 1 .. MaxTime
<1>1. PICK n \in Nat : n = Len(c) /\ c \in Seq(Block)
  BY DEF Grown
<1>2. \A i \in 1 .. n : Follows(Before(c, i), c[i])
  BY ONLY <1>1, Grown(c) DEF Grown
<1>3. ASSUME NEW i \in 1 .. n PROVE Len(c[i].state.ids) = i /\ c[i].state.time \in 1 .. MaxTime
  <2>1. i \in 0 .. n /\ i # 0 /\ i + 1 # 1 /\ (i + 1) - 1 = i
    OBVIOUS
  <2>2. PICK d : d = SubSeq(c, 1, i) /\ Grown(d) /\ Len(d) = i
    BY ONLY <1>1, <2>1, Grown(c), GrownFirst
  <2>3. d[i] = c[i]
    BY ONLY <1>1, <2>2, i \in 1 .. n
  <2>4. Clean(d)
    BY ONLY <2>2, GrownClean
  <2>5. HeadOf(d) = c[i].state
    <3>1. HeadOf(d) = Before(d, i + 1)
      BY ONLY <2>2, GrownHead
    <3> QED
      BY ONLY <2>1, <2>3, <3>1 DEF Before
  <2>6. Len(c[i].state.ids) = i
    BY ONLY <2>2, <2>4, <2>5 DEF Clean
  <2>7. PICK x \in State : x = Before(c, i)
    <3>1. CASE i = 1
      BY <3>1, GenesisFacts DEF Before
    <3>2. CASE i # 1
      <4>1. c[i - 1] \in Block
        <5>1. i - 1 \in 1 .. n
          BY <3>2
        <5> QED
          BY ONLY <1>1, <5>1
      <4>2. c[i - 1].state \in State
        BY ONLY <4>1 DEF Block
      <4> QED
        BY <3>2, <4>2 DEF Before
    <3> QED
      BY <3>1, <3>2
  <2>8. PICK r \in Block : r = c[i]
    BY ONLY <1>1, i \in 1 .. n
  <2>9. Follows(x, r)
    BY ONLY <1>2, <2>7, <2>8, i \in 1 .. n
  <2>10. r.state.time \in 1 .. MaxTime
    BY ONLY <2>9, x \in State, r \in Block, FollowsFacts
  <2> QED
    BY ONLY <2>6, <2>8, <2>10
<1>4. HeadOf(c) \in State
  BY GrownClean DEF Clean
<1>5. HeadOf(c).time \in 0 .. MaxTime
  <2>1. HeadOf(c) = Before(c, n + 1)
    BY <1>1, GrownHead
  <2>2. MaxTime \in Nat
    BY PendingAssumption
  <2>3. CASE n = 0
    BY <2>1, <2>2, <2>3, GenesisFacts DEF Before
  <2>4. CASE n # 0
    <3>1. n \in 1 .. n /\ n + 1 # 1 /\ (n + 1) - 1 = n
      BY <2>4
    <3>2. HeadOf(c) = c[n].state
      BY ONLY <2>1, <3>1 DEF Before
    <3>3. HeadOf(c).time \in 1 .. MaxTime
      BY ONLY <1>3, <3>1, <3>2
    <3> QED
      BY ONLY <2>2, <3>3
  <2> QED
    BY <2>3, <2>4
<1> QED
  BY ONLY <1>1, <1>3, <1>4, <1>5

(* A block as it is pushed.                                                *)
Pushed == [id : Ids, time : 1 .. MaxTime, txs : Seq(Tx)]

(* A block that applies extends the chain and leaves the rest alone.       *)
LEMMA ExtendedFacts ==
    ASSUME NEW c, Grown(c), NEW b \in Pushed, BlockApplies(HeadOf(c), b)
    PROVE  /\ Grown(Extended(c, b)) /\ Len(Extended(c, b)) = Len(c) + 1
           /\ \A k \in 0 .. Len(c) : SubSeq(Extended(c, b), 1, k) = SubSeq(c, 1, k)
<1>1. PICK s \in State : s = HeadOf(c)
  BY GrownTimes
<1>2. c \in Seq(Block)
  BY DEF Grown
<1>3. PICK id \in Ids, y \in 1 .. MaxTime, ts \in Seq(Tx) : b = [id |-> id, time |-> y, txs |-> ts]
  BY DEF Pushed
<1>4. b.id = id /\ b.time = y /\ b.txs = ts
  BY ONLY <1>3
<1>5. s.time < y /\ ApplyAll(s, ts).ok
  BY ONLY <1>1, <1>4, BlockApplies(HeadOf(c), b) DEF BlockApplies
<1>6. PICK q \in State : q = ApplyAll(s, ts).state
  BY ApplyAllFacts
<1>7. y \in Nat /\ y <= MaxTime
  BY PendingAssumption
<1>8. PICK l \in Seq(Ids) : l = Append(q.ids, id)
  <2>1. q.ids \in Seq(Ids)
    BY DEF State
  <2>2. PICK k \in Seq(Ids) : k = q.ids
    BY <2>1
  <2>3. Append(k, id) \in Seq(Ids)
    BY ONLY k \in Seq(Ids), id \in Ids
  <2> QED
    BY <2>2, <2>3
<1>9. PICK w : w = [q EXCEPT !.ids = l, !.time = y]
  OBVIOUS
<1>10. w \in State /\ w.time = y
  BY ONLY <1>7, <1>9, q \in State, l \in Seq(Ids) DEF State
<1>11. PICK x : x = ClearExpired(w)
  OBVIOUS
<1>12. x \in State /\ x.time = y
  BY ONLY <1>10, <1>11 DEF ClearExpired, State
<1>13. PICK r : r = [txs |-> ts, state |-> x]
  OBVIOUS
<1>14. r \in Block /\ r.txs = ts /\ r.state = x
  BY ONLY <1>12, <1>13, ts \in Seq(Tx) DEF Block
<1>15. Extended(c, b) = Append(c, r)
  <2>1. Extended(c, b) = Append(c, [txs |-> ts,
                                    state |-> ClearExpired([q EXCEPT !.ids = Append(q.ids, id), !.time = y])])
    BY <1>1, <1>4, <1>6 DEF Extended
  <2> QED
    BY ONLY <1>8, <1>9, <1>11, <1>13, <2>1
<1>16. Follows(s, r)
  <2>1. r.state = ClearExpired([q EXCEPT !.ids = Append(q.ids, id), !.time = r.state.time])
    BY ONLY <1>8, <1>9, <1>11, <1>12, <1>14
  <2> QED
    BY ONLY <1>5, <1>6, <1>7, <1>12, <1>14, <2>1, id \in Ids DEF Follows
<1>17. Grown(Append(c, r))
  BY ONLY <1>1, <1>14, <1>16, Grown(c), GrownNext
<1>18. Len(Append(c, r)) = Len(c) + 1
  BY ONLY <1>2, <1>14
<1>19. ASSUME NEW k \in 0 .. Len(c) PROVE SubSeq(Append(c, r), 1, k) = SubSeq(c, 1, k)
  <2>1. PICK d, e, a : a = Append(c, r) /\ d = SubSeq(a, 1, k) /\ e = SubSeq(c, 1, k)
    OBVIOUS
  <2>2. PICK n \in Nat : n = Len(c) /\ k \in 0 .. n
    BY <1>2
  <2>3. a \in Seq(Block) /\ Len(a) = n + 1 /\ \A i \in 1 .. n : a[i] = c[i]
    BY ONLY <1>2, <1>14, <2>1, <2>2
  <2>4. d \in Seq(Block) /\ Len(d) = k /\ \A i \in 1 .. k : d[i] = a[i]
    BY ONLY <2>1, <2>2, <2>3
  <2>5. e \in Seq(Block) /\ Len(e) = k /\ \A i \in 1 .. k : e[i] = c[i]
    BY ONLY <1>2, <2>1, <2>2
  <2>6. \A i \in 1 .. k : d[i] = e[i]
    BY ONLY <2>2, <2>3, <2>4, <2>5
  <2>7. d = e
    BY ONLY <2>4, <2>5, <2>6
  <2> QED
    BY ONLY <2>1, <2>7
<1> QED
  BY ONLY <1>15, <1>17, <1>18, <1>19
-----------------------------------------------------------------------------
(* What the producer puts first: no transaction, or the one whose turn it  *)
(* is.                                                                     *)
LEMMA SystemTxsAre ==
    ASSUME NEW s \in State, NEW j, HasSlot(s, j), s.time <= MaxTime
    PROVE  \/ SystemTxs(s) = <<>>
           \/ SystemTxs(s) = <<SystemTx(s, j)>> /\ SystemTx(s, j) \in SystemKind
<1>1. s.time \in Nat /\ MaxTime \in Nat /\ Period \in Nat \ {0} /\ Lifetime \in Nat /\ j \in Nat
  BY PendingAssumption DEF State, HasSlot
<1>2. s.time \div Period \in 0 .. MaxTime
  <2>1. PICK y \in Nat, p \in Nat \ {0}, q \in Int, m \in Nat :
           m \in 0 .. p - 1 /\ y = s.time /\ p = Period /\ q = s.time \div Period /\ y = p * q + m
    <3>1. PICK y \in Int, p \in Nat \ {0} : y = s.time /\ p = Period /\ y \in Nat
      BY <1>1
    <3>2. y \div p \in Int /\ (y % p) \in 0 .. p - 1 /\ y = p * (y \div p) + (y % p)
      BY ONLY y \in Int, p \in Nat \ {0}, DivisionFacts
    <3>3. PICK q \in Int, m \in Nat : q = y \div p /\ m = y % p
      BY ONLY <3>2, p \in Nat \ {0}
    <3>4. q = s.time \div Period /\ m \in 0 .. p - 1 /\ y = p * q + m /\ y \in Nat /\ y = s.time /\ p = Period
      BY ONLY <3>1, <3>2, <3>3
    <3> QED
      BY ONLY <3>4, p \in Nat \ {0}, q \in Int, m \in Nat
  <2>2. q >= 0
    <3>1. CASE q < 0
      <4>1. 0 >= q + 1
        BY ONLY <3>1, q \in Int
      <4>2. p * 0 >= p * q + p
        BY ONLY <4>1, p \in Nat \ {0}, q \in Int, 0 \in Int, TimesGrows
      <4>3. PICK z \in Int : z = p * q
        BY ONLY p \in Nat \ {0}, q \in Int
      <4>4. 0 >= z + p /\ y = z + m
        BY ONLY <2>1, <4>2, <4>3, p \in Nat \ {0}
      <4> QED
        BY ONLY <2>1, <4>4, y \in Nat, p \in Nat \ {0}, m \in Nat, z \in Int
    <3> QED
      BY ONLY <3>1, q \in Int
  <2>3. q <= y
    <3>1. CASE q > y
      <4>1. q >= y + 1
        BY ONLY <3>1, q \in Int, y \in Nat
      <4>2. p * q >= p * y + p
        BY ONLY <4>1, p \in Nat \ {0}, q \in Int, y \in Nat, TimesGrows
      <4>3. PICK z \in Int, w \in Int : z = p * q /\ w = p * y
        BY ONLY p \in Nat \ {0}, q \in Int, y \in Nat
      <4>4. w >= y
        BY ONLY <4>3, p \in Nat \ {0}, y \in Nat
      <4>5. z >= w + p /\ y = z + m
        BY ONLY <2>1, <4>2, <4>3
      <4> QED
        BY ONLY <4>4, <4>5, y \in Nat, p \in Nat \ {0}, m \in Nat, z \in Int, w \in Int
    <3> QED
      BY ONLY <3>1, q \in Int, y \in Nat
  <2> QED
    BY <1>1, <2>1, <2>2, <2>3
<1>3. Due(s) = IF j \in 1 .. s.time \div Period THEN {j} ELSE {}
  <2>1. \A k \in 1 .. s.time \div Period : k \in Nat
    BY <1>2
  <2> QED
    BY <2>1 DEF Due, HasSlot
<1>4. CASE j \notin 1 .. s.time \div Period
  <2>1. {SystemTx(s, k) : k \in Due(s)} = {}
    BY <1>3, <1>4
  <2>2. Cardinality({}) = 0
    BY FS_EmptySet
  <2> DEFINE e == CHOOSE f \in [1 .. 0 -> {}] : IsInjective(f)
  <2>3. SystemTxs(s) = e
    BY ONLY <2>1, <2>2 DEF SystemTxs, SetToSeq
  <2>4. 1 .. 0 = {}
    OBVIOUS
  <2>5. e \in [1 .. 0 -> {}]
    <3>1. \E f \in [1 .. 0 -> {}] : IsInjective(f)
      <4>1. <<>> \in [1 .. 0 -> {}]
        BY ONLY <2>4
      <4>2. IsInjective(<<>>)
        BY DEF IsInjective
      <4> QED
        BY ONLY <4>1, <4>2
    <3> QED
      BY ONLY <3>1
  <2> HIDE DEF e
  <2>6. e = <<>>
    BY ONLY <2>5
  <2> QED
    BY <2>3, <2>6
<1>5. CASE j \in 1 .. s.time \div Period
  <2>1. PICK x : x = SystemTx(s, j)
    OBVIOUS
  <2>2. {SystemTx(s, k) : k \in Due(s)} = {x}
    BY <1>3, <1>5, <2>1
  <2>3. Cardinality({x}) = 1
    BY FS_Singleton
  <2> DEFINE e == CHOOSE f \in [1 .. 1 -> {x}] : IsInjective(f)
  <2>4. SystemTxs(s) = e
    BY ONLY <2>2, <2>3 DEF SystemTxs, SetToSeq
  <2>5. e \in [1 .. 1 -> {x}]
    <3>1. \E f \in [1 .. 1 -> {x}] : IsInjective(f)
      <4>1. PICK f : f = [i \in 1 .. 1 |-> x]
        OBVIOUS
      <4>2. f \in [1 .. 1 -> {x}] /\ \A a, b \in DOMAIN f : a = b
        BY ONLY <4>1
      <4> QED
        BY ONLY <4>2 DEF IsInjective
    <3> QED
      BY ONLY <3>1
  <2> HIDE DEF e
  <2>6. e = <<x>>
    BY ONLY <2>5
  <2>7. x \in SystemKind
    <3>1. SystemSize[j] \in Nat
      <4>1. j \in 1 .. MaxTime
        BY <1>1, <1>2, <1>5
      <4> QED
        BY ONLY <4>1, PendingAssumption
    <3>2. s.time + Lifetime \in Nat
      BY <1>1
    <3>3. PICK l \in Seq(Ids) : l = s.ids
      BY DEF State
    <3>4. PICK i \in Ids \cup {"none"} : i = IF l = <<>> THEN "none" ELSE Last(l)
      <4>1. CASE l = <<>>
        BY <4>1
      <4>2. CASE l # <<>>
        <5>1. Last(l) \in Ids
          <6>1. Len(l) \in 1 .. Len(l)
            BY ONLY <4>2, l \in Seq(Ids)
          <6> QED
            BY ONLY <6>1, l \in Seq(Ids) DEF Last
        <5> QED
          BY <4>2, <5>1
      <4> QED
        BY <4>1, <4>2
    <3>5. [num |-> Len(l), id |-> i] \in Ref
      BY DEF Ref
    <3>6. PICK r \in Ref, e2 \in Nat, z \in Nat :
             r = [num |-> Len(l), id |-> i] /\ e2 = s.time + Lifetime /\ z = SystemSize[j]
      BY <3>1, <3>2, <3>5
    <3>7. x = [needs |-> {<<"slot", j>>}, makes |-> {<<"slot", j + 1>>}, expires |-> e2, ref |-> r, size |-> z]
      BY ONLY <2>1, <3>3, <3>4, <3>6 DEF SystemTx
    <3>8. PICK k \in Nat : k = j
      BY ONLY <1>1
    <3>9. x = SystemOf(k, e2, r, z)
      BY ONLY <3>7, <3>8 DEF SystemOf
    <3> QED
      BY ONLY <3>9, k \in Nat, r \in Ref, e2 \in Nat, z \in Nat DEF SystemKind
  <2> QED
    BY <2>1, <2>4, <2>6, <2>7
<1> QED
  BY <1>4, <1>5

OperatedAll(s, ts)   == FoldLeft(Operated, s, ts)
Sized(y, t)          == y + t.size
SizedAll(y, ts)      == FoldLeft(LAMBDA n, t : n + t.size, y, ts)
ConsideredAll(g, ts) == FoldLeft(Consider, g, ts)

(* The operations of several transactions, one by one.                     *)
LEMMA OperatedFold ==
    ASSUME NEW a \in State, NEW ts \in Seq(Tx)
    PROVE  \E f : /\ f \in [0 .. Len(ts) -> State] /\ f[0] = a
                  /\ f[Len(ts)] = OperatedAll(a, ts)
                  /\ \A i \in 1 .. Len(ts) : f[i] = Operated(f[i - 1], ts[i])
<1>1. PICK n \in Nat : n = Len(ts) /\ DOMAIN ts = 1 .. n
  OBVIOUS
<1> DEFINE step == [x \in (1 .. n) \X State |-> Operated(x[2], ts[x[1]])]
           Solves(it) == it = [u \in SUBSET (1 .. n) |->
                                 IF u = {} THEN a ELSE Operated(it[u \ {Max(u)}], ts[Max(u)])]
           it == CHOOSE g : Solves(g)
<1>2. \A i \in 1 .. n, r \in State : Operated(r, ts[i]) \in State
  BY <1>1, AppliedFacts
<1>3. step \in Steps(n, State)
  BY ONLY <1>2 DEF Steps
<1>4. \A i \in 1 .. n, r \in State : step[<<i, r>>] = Operated(r, ts[i])
  OBVIOUS
<1> HIDE DEF step
<1>5. OperatedAll(a, ts) = it[1 .. n]
  BY <1>1 DEF OperatedAll, FoldLeft, MapThenFoldSet
<1>6. \E g : Solves(g)
  <2>1. PICK g \in [SUBSET (1 .. n) -> State] : FoldOver(n, a, step, g)
    BY <1>3, FoldExists
  <2>2. ASSUME NEW u \in SUBSET (1 .. n), u # {}
        PROVE  step[<<Max(u), g[u \ {Max(u)}]>>] = Operated(g[u \ {Max(u)}], ts[Max(u)])
    <3>1. Max(u) \in 1 .. n
      BY <2>2, MaxOfInterval
    <3>2. u \ {Max(u)} \in SUBSET (1 .. n)
      OBVIOUS
    <3> QED
      BY <1>4, <2>1, <3>1, <3>2
  <2>3. \A u \in SUBSET (1 .. n) :
           g[u] = IF u = {} THEN a ELSE Operated(g[u \ {Max(u)}], ts[Max(u)])
    BY <2>1, <2>2 DEF FoldOver
  <2>4. g = [u \in SUBSET (1 .. n) |-> g[u]]
    BY <2>1
  <2> QED
    BY <2>3, <2>4
<1>7. Solves(it)
  BY ONLY <1>6
<1> HIDE DEF it
<1>8. it[1 .. 0] = a
  <2>1. 1 .. 0 \in SUBSET (1 .. n) /\ 1 .. 0 = {}
    OBVIOUS
  <2> QED
    BY ONLY <1>7, <2>1
<1>9. ASSUME NEW i \in 1 .. n PROVE it[1 .. i] = Operated(it[1 .. i - 1], ts[i])
  <2>1. Max(1 .. i) = i /\ (1 .. i) \ {i} = 1 .. i - 1 /\ 1 .. i # {} /\ 1 .. i \in SUBSET (1 .. n)
    BY SegmentFacts
  <2> QED
    BY ONLY <1>7, <2>1
<1>10. PICK f : Iteration(n, State, a, step, f) /\ f[n] = it[1 .. n]
  BY ONLY <1>3, <1>4, <1>8, <1>9, a \in State, n \in Nat, FoldIs
<1>11. f \in [0 .. n -> State] /\ f[0] = a /\ \A i \in 1 .. n : f[i] = step[<<i, f[i - 1]>>]
  BY ONLY <1>10 DEF Iteration
<1>12. ASSUME NEW i \in 1 .. n PROVE f[i] = Operated(f[i - 1], ts[i])
  <2>1. i - 1 \in 0 .. n
    OBVIOUS
  <2>2. f[i - 1] \in State
    BY ONLY <1>11, <2>1
  <2> QED
    BY ONLY <1>4, <1>11, <2>2, i \in 1 .. n
<1> QED
  BY ONLY <1>1, <1>5, <1>10, <1>11, <1>12

(* The size of several transactions.                                       *)
LEMMA SizeFold ==
    ASSUME NEW a \in Nat, NEW ts \in Seq(Tx)
    PROVE  \E f : /\ f \in [0 .. Len(ts) -> Nat] /\ f[0] = a
                  /\ f[Len(ts)] = SizedAll(a, ts)
                  /\ \A i \in 1 .. Len(ts) : f[i] = Sized(f[i - 1], ts[i])
<1>1. PICK n \in Nat : n = Len(ts) /\ DOMAIN ts = 1 .. n
  OBVIOUS
<1>0. PICK S : S = Nat /\ a \in S
  OBVIOUS
<1> DEFINE step == [x \in (1 .. n) \X S |-> Sized(x[2], ts[x[1]])]
           Solves(it) == it = [u \in SUBSET (1 .. n) |->
                                 IF u = {} THEN a ELSE Sized(it[u \ {Max(u)}], ts[Max(u)])]
           it == CHOOSE g : Solves(g)
<1>2. \A i \in 1 .. n, r \in S : Sized(r, ts[i]) \in S
  BY <1>0, <1>1, TxFacts DEF Sized
<1>3. step \in Steps(n, S)
  BY ONLY <1>2 DEF Steps
<1>4. \A i \in 1 .. n, r \in S : step[<<i, r>>] = Sized(r, ts[i])
  OBVIOUS
<1> HIDE DEF step
<1>5. SizedAll(a, ts) = it[1 .. n]
  BY <1>1 DEF SizedAll, Sized, FoldLeft, MapThenFoldSet
<1>6. \E g : Solves(g)
  <2>1. PICK g \in [SUBSET (1 .. n) -> S] : FoldOver(n, a, step, g)
    BY ONLY <1>0, <1>3, n \in Nat, FoldExists
  <2>2. ASSUME NEW u \in SUBSET (1 .. n), u # {}
        PROVE  step[<<Max(u), g[u \ {Max(u)}]>>] = Sized(g[u \ {Max(u)}], ts[Max(u)])
    <3>1. Max(u) \in 1 .. n
      BY <2>2, MaxOfInterval
    <3>2. u \ {Max(u)} \in SUBSET (1 .. n)
      OBVIOUS
    <3> QED
      BY <1>4, <2>1, <3>1, <3>2
  <2>3. \A u \in SUBSET (1 .. n) :
           g[u] = IF u = {} THEN a ELSE Sized(g[u \ {Max(u)}], ts[Max(u)])
    BY <2>1, <2>2 DEF FoldOver
  <2>4. g = [u \in SUBSET (1 .. n) |-> g[u]]
    BY <2>1
  <2> QED
    BY <2>3, <2>4
<1>7. Solves(it)
  BY ONLY <1>6
<1> HIDE DEF it
<1>8. it[1 .. 0] = a
  <2>1. 1 .. 0 \in SUBSET (1 .. n) /\ 1 .. 0 = {}
    OBVIOUS
  <2> QED
    BY ONLY <1>7, <2>1
<1>9. ASSUME NEW i \in 1 .. n PROVE it[1 .. i] = Sized(it[1 .. i - 1], ts[i])
  <2>1. Max(1 .. i) = i /\ (1 .. i) \ {i} = 1 .. i - 1 /\ 1 .. i # {} /\ 1 .. i \in SUBSET (1 .. n)
    BY SegmentFacts
  <2> QED
    BY ONLY <1>7, <2>1
<1>10. PICK f : Iteration(n, S, a, step, f) /\ f[n] = it[1 .. n]
  <2>1. \A i \in 1 .. n : it[1 .. i - 1] \in S => it[1 .. i] = step[<<i, it[1 .. i - 1]>>]
    BY ONLY <1>4, <1>9
  <2>2. a \in S
    BY <1>0
  <2> QED
    BY ONLY <1>3, <1>8, <2>1, <2>2, n \in Nat, FoldIs
<1>11. f \in [0 .. n -> S] /\ f[0] = a /\ \A i \in 1 .. n : f[i] = step[<<i, f[i - 1]>>]
  BY ONLY <1>10 DEF Iteration
<1>12. ASSUME NEW i \in 1 .. n PROVE f[i] = Sized(f[i - 1], ts[i])
  <2>1. i - 1 \in 0 .. n
    OBVIOUS
  <2>2. f[i - 1] \in S
    BY ONLY <1>11, <2>1
  <2> QED
    BY ONLY <1>4, <1>11, <2>2, i \in 1 .. n
<1> QED
  BY ONLY <1>0, <1>1, <1>5, <1>10, <1>11, <1>12

(* A block that is being put together.                                     *)
Draft == [state : State, txs : Seq(Tx), size : Nat]

(* What considering a transaction does to it.                              *)
LEMMA ConsiderFacts ==
    ASSUME NEW g \in Draft, NEW t \in Tx
    PROVE  /\ Consider(g, t) \in Draft
           /\ \/ Consider(g, t) = g
              \/ /\ CanApply(g.state, t) /\ Consider(g, t).txs = Append(g.txs, t)
                 /\ Consider(g, t).state = Applied(g.state, t)
<1>1. PICK s \in State, ts \in Seq(Tx), y \in Nat : g = [state |-> s, txs |-> ts, size |-> y]
  BY DEF Draft
<1>2. g.state = s /\ g.txs = ts /\ g.size = y
  BY <1>1
<1>3. Applied(s, t) \in State
  BY AppliedFacts
<1>4. Append(ts, t) \in Seq(Tx) /\ y + t.size \in Nat
  BY TxFacts
<1>5. Include(g, t) = [state |-> Applied(s, t), txs |-> Append(ts, t), size |-> y + t.size]
  BY <1>2 DEF Include
<1>6. Include(g, t) \in Draft /\ Include(g, t).state = Applied(s, t) /\ Include(g, t).txs = Append(ts, t)
  BY ONLY <1>3, <1>4, <1>5 DEF Draft
<1>7. CASE g.size + t.size >= MaxSize \/ ~CanApply(g.state, t)
  BY <1>7 DEF Consider
<1>8. CASE ~(g.size + t.size >= MaxSize \/ ~CanApply(g.state, t))
  <2>1. Consider(g, t) = Include(g, t) /\ CanApply(g.state, t)
    BY <1>8 DEF Consider
  <2> QED
    BY ONLY <1>2, <1>6, <2>1
<1> QED
  BY <1>7, <1>8

(* The pending transactions are considered one by one.                     *)
LEMMA ConsiderFold ==
    ASSUME NEW a \in Draft, NEW ts \in Seq(Tx)
    PROVE  \E f : /\ f \in [0 .. Len(ts) -> Draft] /\ f[0] = a
                  /\ f[Len(ts)] = ConsideredAll(a, ts)
                  /\ \A i \in 1 .. Len(ts) : f[i] = Consider(f[i - 1], ts[i])
<1>1. PICK n \in Nat : n = Len(ts) /\ DOMAIN ts = 1 .. n
  OBVIOUS
<1> DEFINE step == [x \in (1 .. n) \X Draft |-> Consider(x[2], ts[x[1]])]
           Solves(it) == it = [u \in SUBSET (1 .. n) |->
                                 IF u = {} THEN a ELSE Consider(it[u \ {Max(u)}], ts[Max(u)])]
           it == CHOOSE g : Solves(g)
<1>2. \A i \in 1 .. n, r \in Draft : Consider(r, ts[i]) \in Draft
  BY <1>1, ConsiderFacts
<1>3. step \in Steps(n, Draft)
  BY ONLY <1>2 DEF Steps
<1>4. \A i \in 1 .. n, r \in Draft : step[<<i, r>>] = Consider(r, ts[i])
  OBVIOUS
<1> HIDE DEF step
<1>5. ConsideredAll(a, ts) = it[1 .. n]
  BY <1>1 DEF ConsideredAll, FoldLeft, MapThenFoldSet
<1>6. \E g : Solves(g)
  <2>1. PICK g \in [SUBSET (1 .. n) -> Draft] : FoldOver(n, a, step, g)
    BY <1>3, FoldExists
  <2>2. ASSUME NEW u \in SUBSET (1 .. n), u # {}
        PROVE  step[<<Max(u), g[u \ {Max(u)}]>>] = Consider(g[u \ {Max(u)}], ts[Max(u)])
    <3>1. Max(u) \in 1 .. n
      BY <2>2, MaxOfInterval
    <3>2. u \ {Max(u)} \in SUBSET (1 .. n)
      OBVIOUS
    <3> QED
      BY <1>4, <2>1, <3>1, <3>2
  <2>3. \A u \in SUBSET (1 .. n) :
           g[u] = IF u = {} THEN a ELSE Consider(g[u \ {Max(u)}], ts[Max(u)])
    BY <2>1, <2>2 DEF FoldOver
  <2>4. g = [u \in SUBSET (1 .. n) |-> g[u]]
    BY <2>1
  <2> QED
    BY <2>3, <2>4
<1>7. Solves(it)
  BY ONLY <1>6
<1> HIDE DEF it
<1>8. it[1 .. 0] = a
  <2>1. 1 .. 0 \in SUBSET (1 .. n) /\ 1 .. 0 = {}
    OBVIOUS
  <2> QED
    BY ONLY <1>7, <2>1
<1>9. ASSUME NEW i \in 1 .. n PROVE it[1 .. i] = Consider(it[1 .. i - 1], ts[i])
  <2>1. Max(1 .. i) = i /\ (1 .. i) \ {i} = 1 .. i - 1 /\ 1 .. i # {} /\ 1 .. i \in SUBSET (1 .. n)
    BY SegmentFacts
  <2> QED
    BY ONLY <1>7, <2>1
<1>10. PICK f : Iteration(n, Draft, a, step, f) /\ f[n] = it[1 .. n]
  BY ONLY <1>3, <1>4, <1>8, <1>9, a \in Draft, n \in Nat, FoldIs
<1>11. f \in [0 .. n -> Draft] /\ f[0] = a /\ \A i \in 1 .. n : f[i] = step[<<i, f[i - 1]>>]
  BY ONLY <1>10 DEF Iteration
<1>12. ASSUME NEW i \in 1 .. n PROVE f[i] = Consider(f[i - 1], ts[i])
  <2>1. i - 1 \in 0 .. n
    OBVIOUS
  <2>2. f[i - 1] \in Draft
    BY ONLY <1>11, <2>1
  <2> QED
    BY ONLY <1>4, <1>11, <2>2, i \in 1 .. n
<1> QED
  BY ONLY <1>1, <1>5, <1>10, <1>11, <1>12

-----------------------------------------------------------------------------
(* The system transaction whose turn it is can be applied.                 *)
LEMMA SystemTxApplies ==
    ASSUME NEW s \in State, NEW j, HasSlot(s, j)
    PROVE  CanApply(s, SystemTx(s, j)) /\ <<"slot", j>> \in SystemTx(s, j).needs
<1>1. /\ j \in Nat /\ <<"slot", j>> \in s.coins
      /\ \A x \in s.known : \A k \in Nat : <<"slot", k>> \in x.needs => k < j
  BY DEF HasSlot
<1>2. PICK t : t = SystemTx(s, j)
  OBVIOUS
<1>3. /\ t.needs = {<<"slot", j>>} /\ t.expires = s.time + Lifetime
      /\ t.ref.num = Len(s.ids) /\ (s.ids # <<>> => t.ref.id = Last(s.ids))
  BY ONLY <1>2 DEF SystemTx
<1>4. t \notin s.known
  <2>1. ~(j < j)
    BY ONLY <1>1
  <2> QED
    BY ONLY <1>1, <1>3, <2>1
<1>5. Tapos(s, t)
  <2>1. PICK l \in Seq(Ids) : l = s.ids
    BY DEF State
  <2>2. CASE Len(l) = 0
    BY <1>3, <2>1, <2>2 DEF Tapos
  <2>3. CASE Len(l) # 0
    <3>1. l # <<>> /\ Len(l) <= Len(l)
      BY ONLY <2>3, l \in Seq(Ids)
    <3>2. t.ref.id = l[Len(l)]
      BY ONLY <1>3, <2>1, <3>1 DEF Last
    <3> QED
      BY ONLY <1>3, <2>1, <3>1, <3>2 DEF Tapos
  <2> QED
    BY <2>2, <2>3
<1>6. t.expires <= s.time + MaxAhead /\ s.time <= t.expires
  <2>1. s.time \in Nat /\ Lifetime \in Nat /\ MaxAhead \in Nat
    BY PendingAssumption DEF State
  <2> QED
    BY <1>3, <2>1, LifetimeAssumption
<1>7. CanApply(s, t)
  BY ONLY <1>1, <1>3, <1>4, <1>5, <1>6 DEF CanApply
<1> QED
  BY ONLY <1>2, <1>3, <1>7

(* What has been put in an own block can be applied on the head.  The list *)
(* of known transactions lacks only system transactions, whose turn is     *)
(* over.                                                                   *)
Drafted(s, g) ==
    /\ g \in Draft /\ ApplyAll(s, g.txs).ok
    /\ g.state.ids = s.ids /\ g.state.time = s.time
    /\ g.state.coins = ApplyAll(s, g.txs).state.coins
    /\ \A t \in ApplyAll(s, g.txs).state.known :
          t \in g.state.known \/ \E k \in Nat : <<"slot", k>> \in t.needs
    /\ \E i : HasSlot(ApplyAll(s, g.txs).state, i)

(* It begins with the system transaction, if that is due.                  *)
LEMMA FirstDraft ==
    ASSUME NEW s \in State, NEW j, HasSlot(s, j), s.time <= MaxTime
    PROVE  Drafted(s, [state |-> OperatedAll(s, SystemTxs(s)), txs |-> SystemTxs(s),
                       size |-> SizedAll(0, SystemTxs(s))])
<1>0. <<>> \in Seq(Tx) /\ Len(<<>>) = 0
  OBVIOUS
<1>1. CASE SystemTxs(s) = <<>>
  <2>1. OperatedAll(s, <<>>) = s
    <3>1. PICK e \in Seq(Tx) : e = <<>> /\ Len(e) = 0
      BY ONLY <1>0
    <3>2. PICK f : f[0] = s /\ f[Len(e)] = OperatedAll(s, e)
      BY ONLY s \in State, e \in Seq(Tx), OperatedFold
    <3> QED
      BY ONLY <3>1, <3>2
  <2>2. SizedAll(0, <<>>) \in Nat
    <3>1. PICK e \in Seq(Tx) : e = <<>> /\ Len(e) = 0
      BY ONLY <1>0
    <3>2. PICK f : f[0] = 0 /\ f[Len(e)] = SizedAll(0, e)
      BY ONLY 0 \in Nat, e \in Seq(Tx), SizeFold
    <3> QED
      BY ONLY <3>1, <3>2
  <2>3. PICK z \in Nat : z = SizedAll(0, <<>>)
    BY <2>2
  <2>4. PICK g : g = [state |-> s, txs |-> <<>>, size |-> z]
    OBVIOUS
  <2>5. g \in Draft /\ g.state = s /\ g.txs = <<>>
    BY ONLY <1>0, <2>4, s \in State, z \in Nat DEF Draft
  <2>6. ApplyAll(s, <<>>).ok /\ ApplyAll(s, <<>>).state = s
    <3>1. ApplyAll(s, <<>>) = [ok |-> TRUE, state |-> s]
      BY ONLY s \in State, ApplyAllNone
    <3> QED
      BY ONLY <3>1
  <2>7. Drafted(s, g)
    BY ONLY <2>5, <2>6, HasSlot(s, j) DEF Drafted
  <2> QED
    BY ONLY <1>1, <2>1, <2>3, <2>4, <2>7
<1>2. CASE SystemTxs(s) = <<SystemTx(s, j)>> /\ SystemTx(s, j) \in SystemKind
  <2>1. PICK x \in Tx : x = SystemTx(s, j)
    BY <1>2 DEF Tx
  <2>2. PICK ts \in Seq(Tx) : ts = <<x>> /\ Len(ts) = 1 /\ ts[1] = x /\ ts = Append(<<>>, x)
    <3>1. <<x>> \in Seq(Tx) /\ Len(<<x>>) = 1 /\ <<x>>[1] = x /\ <<x>> = Append(<<>>, x)
      OBVIOUS
    <3> QED
      BY ONLY <3>1
  <2>3. SystemTxs(s) = ts
    BY ONLY <1>2, <2>1, <2>2
  <2>4. OperatedAll(s, ts) = Operated(s, x)
    <3>1. PICK f : /\ f[0] = s /\ f[Len(ts)] = OperatedAll(s, ts)
                   /\ \A i \in 1 .. Len(ts) : f[i] = Operated(f[i - 1], ts[i])
      BY ONLY s \in State, ts \in Seq(Tx), OperatedFold
    <3>2. 1 \in 1 .. Len(ts) /\ 1 - 1 = 0
      BY <2>2
    <3>3. f[1] = Operated(f[1 - 1], ts[1])
      BY ONLY <3>1, <3>2
    <3> QED
      BY ONLY <2>2, <3>1, <3>2, <3>3
  <2>5. PICK z \in Nat : z = SizedAll(0, ts)
    <3>1. PICK f : f \in [0 .. Len(ts) -> Nat] /\ f[Len(ts)] = SizedAll(0, ts)
      BY ONLY 0 \in Nat, ts \in Seq(Tx), SizeFold
    <3>2. Len(ts) \in 0 .. Len(ts)
      BY <2>2
    <3> QED
      BY ONLY <3>1, <3>2
  <2>6. PICK y : y = Operated(s, x)
    OBVIOUS
  <2>7. /\ y \in State /\ y.ids = s.ids /\ y.time = s.time /\ y.known = s.known
        /\ y.coins = (s.coins \ x.needs) \cup x.makes
    BY ONLY <2>6, s \in State, x \in Tx, AppliedFacts
  <2>8. PICK g : g = [state |-> y, txs |-> ts, size |-> z]
    OBVIOUS
  <2>9. g \in Draft /\ g.state = y /\ g.txs = ts
    BY ONLY <2>7, <2>8, ts \in Seq(Tx), z \in Nat DEF Draft
  <2>10. CanApply(s, x) /\ <<"slot", j>> \in x.needs
    BY ONLY <2>1, s \in State, HasSlot(s, j), SystemTxApplies
  <2>11. PICK a \in Result : a = [ok |-> TRUE, state |-> s] /\ a = ApplyAll(s, <<>>)
    <3>1. ApplyAll(s, <<>>) = [ok |-> TRUE, state |-> s]
      BY ONLY s \in State, ApplyAllNone
    <3>2. [ok |-> TRUE, state |-> s] \in Result
      BY DEF Result
    <3> QED
      BY ONLY <3>1, <3>2
  <2>12. ApplyAll(s, ts) = ApplyNext(a, x)
    <3>1. PICK e \in Seq(Tx) : e = <<>>
      BY ONLY <1>0
    <3>2. ApplyAll(s, Append(e, x)) = ApplyNext(ApplyAll(s, e), x)
      BY ONLY s \in State, e \in Seq(Tx), x \in Tx, ApplyAllLast
    <3> QED
      BY ONLY <2>2, <2>11, <3>1, <3>2
  <2>13. a.ok /\ a.state = s
    BY ONLY <2>11
  <2>14. ApplyAll(s, ts).ok /\ ApplyAll(s, ts).state = Applied(s, x)
    BY ONLY <2>10, <2>12, <2>13, a \in Result, x \in Tx, ApplyNextType
  <2>15. PICK q : q = Applied(s, x)
    OBVIOUS
  <2>16. q.known = s.known \cup {x} /\ q.coins = (s.coins \ x.needs) \cup x.makes
    BY ONLY <2>15, s \in State, x \in Tx, AppliedFacts
  <2>17. \E i : HasSlot(q, i)
    <3>1. x.needs \subseteq s.coins
      BY ONLY <2>10 DEF CanApply
    <3> QED
      BY ONLY <2>15, <3>1, s \in State, x \in Tx, HasSlot(s, j), SlotMoves
  <2>18. j \in Nat
    BY DEF HasSlot
  <2>19. Drafted(s, g)
    BY ONLY <2>7, <2>9, <2>10, <2>14, <2>15, <2>16, <2>17, <2>18 DEF Drafted
  <2> QED
    BY ONLY <2>3, <2>4, <2>5, <2>6, <2>8, <2>19
<1> QED
  BY <1>1, <1>2, SystemTxsAre

(* Considering a transaction keeps this.                                   *)
LEMMA DraftGrows ==
    ASSUME NEW s \in State, NEW g, Drafted(s, g), NEW t \in Tx
    PROVE  Drafted(s, Consider(g, t))
<1>1. g \in Draft
  BY DEF Drafted
<1>2. PICK d : d = Consider(g, t)
  OBVIOUS
<1>3. d \in Draft
  BY ONLY <1>1, <1>2, t \in Tx, ConsiderFacts
<1>4. CASE d = g
  BY <1>2, <1>4
<1>5. CASE CanApply(g.state, t) /\ d.txs = Append(g.txs, t) /\ d.state = Applied(g.state, t)
  <2>1. PICK y \in State, ts \in Seq(Tx) : y = g.state /\ ts = g.txs
    BY ONLY <1>1 DEF Draft
  <2>2. PICK r \in Result : r = ApplyAll(s, ts) /\ r.state \in State /\ r.state.ids = s.ids /\ r.state.time = s.time
    BY ONLY s \in State, ts \in Seq(Tx), ApplyAllFacts
  <2>3. PICK q \in State : q = r.state
    BY ONLY <2>2
  <2>4. /\ r.ok /\ y.ids = s.ids /\ y.time = s.time /\ y.coins = q.coins
        /\ \A x \in q.known : x \in y.known \/ \E k \in Nat : <<"slot", k>> \in x.needs
    BY ONLY <2>1, <2>2, <2>3, Drafted(s, g) DEF Drafted
  <2>5. PICK i : HasSlot(q, i)
    BY ONLY <2>1, <2>2, <2>3, Drafted(s, g) DEF Drafted
  <2>6. CanApply(y, t) /\ t \notin y.known /\ t.needs \subseteq y.coins
    BY ONLY <1>5, <2>1 DEF CanApply
  <2>7. t \notin q.known
    <3>1. ASSUME t \in q.known PROVE FALSE
      <4>1. PICK k \in Nat : <<"slot", k>> \in t.needs
        BY ONLY <2>4, <2>6, <3>1
      <4>2. i \in Nat /\ k < i
        BY ONLY <2>5, <3>1, <4>1 DEF HasSlot
      <4>3. <<"slot", k>> \in q.coins
        BY ONLY <2>4, <2>6, <4>1
      <4>4. k = i
        BY ONLY <2>5, <4>3, k \in Nat DEF HasSlot
      <4> QED
        BY ONLY <4>2, <4>4
    <3> QED
      BY <3>1
  <2>8. CanApply(q, t)
    <3>1. q.ids = y.ids /\ q.time = y.time
      BY ONLY <2>2, <2>3, <2>4
    <3> QED
      BY ONLY <2>4, <2>6, <2>7, <3>1 DEF CanApply, Tapos
  <2>9. PICK us : us = Append(ts, t)
    OBVIOUS
  <2>10. ApplyAll(s, us) = ApplyNext(r, t)
    BY ONLY <2>2, <2>9, s \in State, ts \in Seq(Tx), t \in Tx, ApplyAllLast
  <2>11. PICK p : p = Applied(q, t)
    OBVIOUS
  <2>12. ApplyAll(s, us).ok /\ ApplyAll(s, us).state = p
    BY ONLY <2>3, <2>4, <2>8, <2>10, <2>11, r \in Result, t \in Tx, ApplyNextType
  <2>13. p.known = q.known \cup {t} /\ p.coins = (q.coins \ t.needs) \cup t.makes
    BY ONLY <2>11, q \in State, t \in Tx, AppliedFacts
  <2>14. PICK z : z = Applied(y, t)
    OBVIOUS
  <2>15. /\ z.ids = y.ids /\ z.time = y.time /\ z.known = y.known \cup {t}
         /\ z.coins = (y.coins \ t.needs) \cup t.makes
    BY ONLY <2>14, y \in State, t \in Tx, AppliedFacts
  <2>16. \E k : HasSlot(p, k)
    <3>1. t.needs \subseteq q.coins
      BY ONLY <2>4, <2>6
    <3> QED
      BY ONLY <2>5, <2>11, <3>1, q \in State, t \in Tx, SlotMoves
  <2>17. d.state = z /\ d.txs = us
    BY ONLY <1>5, <2>1, <2>9, <2>14
  <2>18. \A x \in p.known : x \in z.known \/ \E k \in Nat : <<"slot", k>> \in x.needs
    BY ONLY <2>4, <2>13, <2>15
  <2>19. z.ids = s.ids /\ z.time = s.time /\ z.coins = p.coins
    BY ONLY <2>4, <2>13, <2>15
  <2>20. Drafted(s, d)
    BY ONLY <1>3, <2>12, <2>16, <2>17, <2>18, <2>19 DEF Drafted
  <2> QED
    BY ONLY <1>2, <2>20
<1> QED
  BY ONLY <1>1, <1>2, <1>4, <1>5, t \in Tx, ConsiderFacts

(* So the block this node generates can be applied.                        *)
LEMMA GeneratedFacts ==
    ASSUME Grown(chain), pending \in Seq(Tx)
    PROVE  Generated.txs \in Seq(Tx) /\ ApplyAll(HeadState, Generated.txs).ok
<1>1. PICK s \in State : s = HeadState /\ s.time <= MaxTime
  <2>1. MaxTime \in Nat
    BY PendingAssumption
  <2> QED
    BY <2>1, GrownTimes DEF HeadState
<1>2. PICK j : HasSlot(s, j)
  BY <1>1, GrownClean DEF Clean, HeadState
<1>3. PICK a : a = [state |-> OperatedAll(s, SystemTxs(s)), txs |-> SystemTxs(s),
                    size |-> SizedAll(0, SystemTxs(s))]
  OBVIOUS
<1>4. Drafted(s, a)
  BY ONLY <1>1, <1>2, <1>3, s \in State, FirstDraft
<1>5. Generated = ConsideredAll(a, pending)
  BY ONLY <1>1, <1>3 DEF Generated, ConsideredAll, OperatedAll, SizedAll
<1>6. a \in Draft
  BY ONLY <1>4 DEF Drafted
<1>7. PICK n \in Nat : n = Len(pending) /\ \A i \in 1 .. n : pending[i] \in Tx
  BY pending \in Seq(Tx)
<1>8. PICK f : /\ f[0] = a /\ f[n] = ConsideredAll(a, pending)
               /\ \A i \in 1 .. n : f[i] = Consider(f[i - 1], pending[i])
  BY ONLY <1>6, <1>7, pending \in Seq(Tx), ConsiderFold
<1> DEFINE Kept == {g \in Draft : Drafted(s, g)}
<1>9. f[0] \in Kept
  BY ONLY <1>4, <1>6, <1>8
<1>10. ASSUME NEW i \in 1 .. n, f[i - 1] \in Kept PROVE f[i] \in Kept
  <2>1. PICK g \in Draft, t \in Tx : g = f[i - 1] /\ t = pending[i] /\ Drafted(s, g)
    BY <1>7, <1>10
  <2>2. f[i] = Consider(g, t)
    BY ONLY <1>8, <2>1, i \in 1 .. n
  <2>3. Drafted(s, f[i])
    BY ONLY <2>1, <2>2, s \in State, t \in Tx, DraftGrows
  <2> QED
    BY ONLY <2>3 DEF Drafted
<1> HIDE DEF Kept
<1>11. f[n] \in Kept
  <2>1. \A i \in 0 .. n : f[i] \in Kept
    BY ONLY <1>9, <1>10, n \in Nat, IterateKeeps
  <2> QED
    BY <2>1
<1>12. Drafted(s, Generated)
  BY ONLY <1>5, <1>8, <1>11 DEF Kept
<1> QED
  BY ONLY <1>1, <1>12 DEF Drafted, Draft
-----------------------------------------------------------------------------
(* During a switch nothing is pending, and the chain is what both forks    *)
(* share with the blocks of the new one; with the old ones instead, it is  *)
(* the chain that a failed switch goes back to.                            *)
Switching ==
    /\ pending = <<>> /\ session = <<>>
    /\ \E left \in Nat, old \in Seq(Block), popped \in Seq(Tx), saved \in Seq(Tx), base \in Nat :
          /\ fork = [left |-> left, old |-> old, popped |-> popped, saved |-> saved]
          /\ Len(old) \in 1 .. MaxSwitch /\ left \in 1 .. Len(old) + 1
          /\ Len(chain) = base + (Len(old) + 1 - left)
          /\ base + Len(old) + 1 <= MaxBlocks
          /\ Grown(SubSeq(chain, 1, base) \o old)

(* The inductive invariant.                                                *)
IndInv ==
    /\ Grown(chain) /\ Len(chain) <= MaxBlocks
    /\ pending \in Seq(Tx) /\ session \in Session
    /\ fork = NoFork \/ Switching

(* What a step does: it keeps the invariant, and what is pending after a   *)
(* block or a switch makes the pending state.                              *)
Keeps == IndInv' /\ (chain' # chain /\ Idle' => PendingMatches')

(* The end of push_block.                                                  *)
LEMMA RestoreFacts ==
    ASSUME NEW c, Grown(c), Len(c) <= MaxBlocks, NEW popped \in Seq(Tx), NEW saved \in Seq(Tx),
           Restore(c, popped, saved)
    PROVE  Keeps
<1>1. HeadOf(c) \in State
  BY GrownTimes
<1>2. PICK h \in State, ts \in Seq(Tx) : h = HeadOf(c) /\ ts = InOrder(popped, saved)
  <2>1. popped \o saved \in Seq(Tx)
    OBVIOUS
  <2> QED
    BY <1>1, <2>1 DEF InOrder
<1>3. chain' = c /\ pending' = Repushed(h, ts).kept /\ session' = Repushed(h, ts).session /\ fork' = NoFork
  BY ONLY <1>2, Restore(c, popped, saved) DEF Restore
<1>4. pending' \in Seq(Tx) /\ session' \in Session /\ Matches(h, session', pending')
  BY ONLY <1>3, h \in State, ts \in Seq(Tx), RepushedFacts
<1>5. IndInv'
  BY ONLY <1>3, <1>4, Grown(c), Len(c) <= MaxBlocks DEF IndInv
<1>6. PendingMatches'
  BY ONLY <1>2, <1>3, <1>4 DEF PendingMatches, Matches, HeadState
<1> QED
  BY ONLY <1>5, <1>6 DEF Keeps

(* A transaction arrives.                                                  *)
LEMMA PushTransactionKeeps ==
    ASSUME IndInv, NEW t \in Txs, push_transaction(t)
    PROVE  Keeps
<1>1. PICK h \in State, p \in Pending : h = HeadState /\ p = [head |-> h, session |-> session, kept |-> pending]
  <2>1. HeadState \in State
    BY GrownTimes DEF IndInv, HeadState
  <2> QED
    BY <2>1 DEF Pending, IndInv
<1>2. Push(p, t) \in Pending
  BY PushFacts DEF Tx
<1>3. pending' = Push(p, t).kept /\ session' = Push(p, t).session /\ chain' = chain /\ fork' = fork /\ fork = NoFork
  BY <1>1 DEF push_transaction, Idle
<1>4. pending' \in Seq(Tx) /\ session' \in Session
  BY ONLY <1>2, <1>3 DEF Pending
<1>5. IndInv'
  BY ONLY <1>3, <1>4, IndInv DEF IndInv
<1> QED
  BY ONLY <1>3, <1>5 DEF Keeps

(* A block on top of the head.                                             *)
LEMMA PushBlockKeeps ==
    ASSUME IndInv, Room, NEW b \in Pushed, push_block(b)
    PROVE  Keeps
<1>1. Grown(chain) /\ Len(chain) < MaxBlocks /\ Len(chain) \in Nat /\ MaxBlocks \in Nat /\ pending \in Seq(Tx)
  BY PendingAssumption DEF IndInv, Room, Grown
<1>2. PICK c : c = Extended(chain, b)
  OBVIOUS
<1>3. BlockApplies(HeadOf(chain), b) /\ Restore(c, <<>>, pending)
  BY <1>2 DEF push_block, HeadState
<1>4. Grown(c) /\ Len(c) = Len(chain) + 1
  BY ONLY <1>1, <1>2, <1>3, b \in Pushed, ExtendedFacts
<1>5. Len(c) <= MaxBlocks
  BY ONLY <1>1, <1>4
<1>6. <<>> \in Seq(Tx)
  OBVIOUS
<1> QED
  BY ONLY <1>1, <1>3, <1>4, <1>5, <1>6, RestoreFacts

(* A block that changes nothing.                                           *)
LEMMA IgnoredKeeps ==
    ASSUME IndInv, push_block_ignored
    PROVE  Keeps
<1>1. Grown(chain) /\ Len(chain) <= MaxBlocks /\ pending \in Seq(Tx) /\ Restore(chain, <<>>, pending)
  BY DEF IndInv, push_block_ignored
<1>2. <<>> \in Seq(Tx)
  OBVIOUS
<1> QED
  BY ONLY <1>1, <1>2, RestoreFacts

(* Blocks are popped.                                                      *)
LEMMA SwitchForksKeeps ==
    ASSUME IndInv, Room, NEW n \in 1 .. MaxSwitch, switch_forks(n)
    PROVE  Keeps
<1>1. PICK l \in Nat : l = Len(chain)
  BY DEF IndInv, Grown
<1>2. /\ Grown(chain) /\ chain \in Seq(Block) /\ l < MaxBlocks /\ MaxBlocks \in Nat /\ pending \in Seq(Tx)
      /\ MaxSwitch \in Nat /\ n \in Nat /\ n <= l
  BY <1>1, PendingAssumption DEF IndInv, Room, Grown, switch_forks
<1>3. PICK m \in Nat : m = l - n /\ m \in 0 .. l
  BY ONLY <1>2, l \in Nat
<1>4. PICK c, old : c = SubSeq(chain, 1, m) /\ old = SubSeq(chain, m + 1, l)
  OBVIOUS
<1>5. /\ chain' = c /\ pending' = <<>> /\ session' = <<>>
      /\ fork' = [left |-> n + 1, old |-> old, popped |-> TxsOf(old), saved |-> pending]
  BY ONLY <1>1, <1>3, <1>4, switch_forks(n) DEF switch_forks, ClearedSession
<1>6. Grown(c) /\ Len(c) = m /\ c \in Seq(Block)
  <2>1. Grown(c) /\ Len(c) = m
    BY ONLY <1>1, <1>2, <1>3, <1>4, GrownFirst
  <2> QED
    BY ONLY <2>1 DEF Grown
<1>7. /\ old \in Seq(Block) /\ Len(old) = n
      /\ \A i \in 1 .. n : old[i] = chain[m + i]
  <2>1. old \in Seq(Block)
    BY ONLY <1>1, <1>2, <1>3, <1>4, l \in Nat
  <2>2. Len(old) = n
    BY ONLY <1>1, <1>2, <1>3, <1>4, l \in Nat, m \in Nat
  <2>3. \A i \in 1 .. n : old[i] = chain[m + i]
    BY ONLY <1>1, <1>2, <1>3, <1>4, l \in Nat, m \in Nat
  <2> QED
    BY <2>1, <2>2, <2>3
<1>8. SubSeq(c, 1, m) \o old = chain
  <2>1. SubSeq(c, 1, m) = c
    BY ONLY <1>6
  <2>2. PICK d : d = c \o old
    OBVIOUS
  <2>3. d \in Seq(Block) /\ Len(d) = m + n
    <3>1. c \o old \in Seq(Block) /\ Len(c \o old) = Len(c) + Len(old)
      BY ONLY <1>6, <1>7, SMTT(30)
    <3> QED
      BY ONLY <1>6, <1>7, <2>2, <3>1
  <2>4. ASSUME NEW i \in 1 .. l PROVE d[i] = chain[i]
    <3>1. CASE i <= m
      <4>1. i \in 1 .. m
        BY ONLY <3>1, i \in 1 .. l, m \in Nat
      <4>2. d[i] = c[i]
        BY ONLY <1>6, <1>7, <2>2, <4>1
      <4>3. c[i] = chain[i]
        BY ONLY <1>1, <1>2, <1>3, <1>4, <4>1
      <4> QED
        BY ONLY <4>2, <4>3
    <3>2. CASE i > m
      <4>1. i - m \in 1 .. n /\ m + (i - m) = i
        BY ONLY <1>2, <1>3, <3>2, i \in 1 .. l, m \in Nat, l \in Nat
      <4>2. d[i] = old[i - m]
        BY ONLY <1>6, <1>7, <2>2, <3>2, <4>1, m \in Nat, i \in 1 .. l
      <4>3. old[i - m] = chain[m + (i - m)]
        BY ONLY <1>7, <4>1
      <4> QED
        BY ONLY <4>1, <4>2, <4>3
    <3> QED
      BY <3>1, <3>2
  <2>5. Len(d) = l
    BY ONLY <1>2, <1>3, <2>3, l \in Nat, m \in Nat
  <2>6. d = chain
    BY ONLY <1>1, <1>2, <2>3, <2>4, <2>5
  <2> QED
    BY ONLY <2>1, <2>2, <2>6
<1>9. TxsOf(old) \in Seq(Tx)
  BY ONLY <1>7, TxsOfFacts
<1>10. /\ Len(old) \in 1 .. MaxSwitch /\ n + 1 \in 1 .. Len(old) + 1 /\ n + 1 \in Nat
       /\ Len(c) = m + (Len(old) + 1 - (n + 1)) /\ m + Len(old) + 1 <= MaxBlocks
  BY ONLY <1>2, <1>3, <1>6, <1>7, n \in 1 .. MaxSwitch, l \in Nat, m \in Nat
<1>11. Grown(SubSeq(c, 1, m) \o old)
  BY ONLY <1>2, <1>8
<1>12. PICK popped \in Seq(Tx), left \in Nat : popped = TxsOf(old) /\ left = n + 1
  BY ONLY <1>9, <1>10
<1>13. Switching'
  BY ONLY <1>2, <1>5, <1>7, <1>10, <1>11, <1>12, popped \in Seq(Tx), left \in Nat, m \in Nat DEF Switching
<1>14. pending' \in Seq(Tx) /\ session' \in Session
  BY ONLY <1>5 DEF Session
<1>15. Len(c) <= MaxBlocks
  BY ONLY <1>2, <1>3, <1>6, l \in Nat, m \in Nat
<1>16. IndInv'
  BY ONLY <1>5, <1>6, <1>13, <1>14, <1>15 DEF IndInv
<1>17. ~Idle'
  <2>1. fork'.left = n + 1 /\ NoFork.left = 0
    BY ONLY <1>5 DEF NoFork
  <2>2. n + 1 # 0
    BY ONLY <1>2
  <2> QED
    BY ONLY <2>1, <2>2 DEF Idle
<1> QED
  BY ONLY <1>16, <1>17 DEF Keeps

(* The state of a switch.                                                  *)
LEMMA SwitchingFacts ==
    ASSUME IndInv, ~Idle
    PROVE  \E left \in Nat, old \in Seq(Block), popped \in Seq(Tx), saved \in Seq(Tx), base \in Nat :
              /\ fork = [left |-> left, old |-> old, popped |-> popped, saved |-> saved]
              /\ fork.left = left /\ fork.old = old /\ fork.popped = popped /\ fork.saved = saved
              /\ Len(old) \in Nat /\ left \in 1 .. Len(old) + 1 /\ MaxBlocks \in Nat
              /\ Len(old) \in 1 .. MaxSwitch /\ chain \in Seq(Block) /\ Len(chain) \in Nat
              /\ Len(chain) = base + (Len(old) + 1 - left)
              /\ base + Len(old) + 1 <= MaxBlocks
              /\ Grown(SubSeq(chain, 1, base) \o old)
<1>1. Switching
  BY DEF IndInv, Idle
<1>2. PICK left \in Nat, old \in Seq(Block), popped \in Seq(Tx), saved \in Seq(Tx), base \in Nat :
          /\ fork = [left |-> left, old |-> old, popped |-> popped, saved |-> saved]
          /\ Len(old) \in 1 .. MaxSwitch /\ left \in 1 .. Len(old) + 1
          /\ Len(chain) = base + (Len(old) + 1 - left)
          /\ base + Len(old) + 1 <= MaxBlocks
          /\ Grown(SubSeq(chain, 1, base) \o old)
  BY ONLY <1>1 DEF Switching
<1>3. fork.left = left /\ fork.old = old /\ fork.popped = popped /\ fork.saved = saved
  BY ONLY <1>2
<1>4. chain \in Seq(Block) /\ Len(chain) \in Nat /\ MaxBlocks \in Nat /\ Len(old) \in Nat
  BY PendingAssumption DEF IndInv, Grown
<1> QED
  BY ONLY <1>2, <1>3, <1>4, left \in Nat, old \in Seq(Block), popped \in Seq(Tx),
          saved \in Seq(Tx), base \in Nat

(* A block of the new fork is applied.                                     *)
LEMMA PushForkBlockKeeps ==
    ASSUME IndInv, NEW b \in Pushed, push_fork_block(b)
    PROVE  Keeps
<1>1. ~Idle /\ Grown(chain) /\ BlockApplies(HeadOf(chain), b)
  BY DEF push_fork_block, IndInv, HeadState
<1>2. PICK left \in Nat, old \in Seq(Block), popped \in Seq(Tx), saved \in Seq(Tx), base \in Nat :
          /\ fork = [left |-> left, old |-> old, popped |-> popped, saved |-> saved]
          /\ fork.left = left /\ fork.old = old /\ fork.popped = popped /\ fork.saved = saved
          /\ Len(old) \in Nat /\ left \in 1 .. Len(old) + 1 /\ MaxBlocks \in Nat
          /\ Len(old) \in 1 .. MaxSwitch /\ chain \in Seq(Block) /\ Len(chain) \in Nat
          /\ Len(chain) = base + (Len(old) + 1 - left)
          /\ base + Len(old) + 1 <= MaxBlocks
          /\ Grown(SubSeq(chain, 1, base) \o old)
  BY ONLY <1>1, IndInv, SwitchingFacts
<1>3. PICK c : c = Extended(chain, b)
  OBVIOUS
<1>4. /\ Grown(c) /\ Len(c) = Len(chain) + 1
      /\ \A k \in 0 .. Len(chain) : SubSeq(c, 1, k) = SubSeq(chain, 1, k)
  BY ONLY <1>1, <1>3, b \in Pushed, ExtendedFacts
<1>5. Len(c) <= MaxBlocks /\ base \in 0 .. Len(chain)
  BY ONLY <1>2, <1>4, left \in Nat, base \in Nat
<1>6. CASE fork.left = 1 /\ Restore(c, fork.popped, fork.saved)
  <2>1. Restore(c, popped, saved)
    BY ONLY <1>2, <1>6
  <2> QED
    BY ONLY <1>4, <1>5, <2>1, popped \in Seq(Tx), saved \in Seq(Tx), RestoreFacts
<1>7. CASE /\ fork.left > 1 /\ chain' = c /\ fork' = [fork EXCEPT !.left = @ - 1]
           /\ UNCHANGED <<pending, session>>
  <2>1. PICK less \in Nat : less = left - 1 /\ less \in 1 .. Len(old) + 1
    BY ONLY <1>2, <1>7, left \in Nat
  <2>2. fork' = [left |-> less, old |-> old, popped |-> popped, saved |-> saved]
    BY ONLY <1>2, <1>7, <2>1
  <2>3. Len(c) = base + (Len(old) + 1 - less)
    BY ONLY <1>2, <1>4, <2>1, left \in Nat, base \in Nat
  <2>4. Grown(SubSeq(c, 1, base) \o old)
    BY ONLY <1>2, <1>4, <1>5
  <2>5. pending' = pending /\ session' = session /\ chain' = c
    BY ONLY <1>7
  <2>6. pending = <<>> /\ session = <<>> /\ pending \in Seq(Tx) /\ session \in Session
    BY <1>1 DEF IndInv, Idle, Switching
  <2>7. Switching'
    BY ONLY <1>2, <2>1, <2>2, <2>3, <2>4, <2>5, <2>6, less \in Nat, old \in Seq(Block),
            popped \in Seq(Tx), saved \in Seq(Tx), base \in Nat DEF Switching
  <2>8. IndInv'
    BY ONLY <1>4, <1>5, <2>5, <2>6, <2>7 DEF IndInv
  <2>9. ~Idle'
    <3>1. fork'.left = less /\ NoFork.left = 0 /\ less # 0
      BY ONLY <2>1, <2>2 DEF NoFork
    <3> QED
      BY ONLY <3>1 DEF Idle
  <2> QED
    BY ONLY <2>8, <2>9 DEF Keeps
<1> QED
  BY ONLY <1>3, <1>6, <1>7, push_fork_block(b) DEF push_fork_block

(* The old fork comes back.                                                *)
LEMMA ForkBlockFailsKeeps ==
    ASSUME IndInv, fork_block_fails
    PROVE  Keeps
<1>1. ~Idle
  BY DEF fork_block_fails
<1>2. PICK left \in Nat, old \in Seq(Block), popped \in Seq(Tx), saved \in Seq(Tx), base \in Nat :
          /\ fork = [left |-> left, old |-> old, popped |-> popped, saved |-> saved]
          /\ fork.left = left /\ fork.old = old /\ fork.popped = popped /\ fork.saved = saved
          /\ Len(old) \in Nat /\ left \in 1 .. Len(old) + 1 /\ MaxBlocks \in Nat
          /\ Len(old) \in 1 .. MaxSwitch /\ chain \in Seq(Block) /\ Len(chain) \in Nat
          /\ Len(chain) = base + (Len(old) + 1 - left)
          /\ base + Len(old) + 1 <= MaxBlocks
          /\ Grown(SubSeq(chain, 1, base) \o old)
  BY ONLY <1>1, IndInv, SwitchingFacts
<1>3. base = Len(chain) - (Len(old) + 1 - left) /\ base \in 0 .. Len(chain)
  BY ONLY <1>2, left \in Nat, base \in Nat
<1>4. PICK first, new : first = SubSeq(chain, 1, base) /\ new = SubSeq(chain, base + 1, Len(chain))
  OBVIOUS
<1>5. Restore(first \o old, TxsOf(new) \o popped, saved)
  BY ONLY <1>2, <1>3, <1>4, fork_block_fails DEF fork_block_fails
<1>6. first \in Seq(Block) /\ Len(first) = base /\ new \in Seq(Block)
  BY ONLY <1>2, <1>3, <1>4, base \in Nat
<1>7. PICK ts \in Seq(Tx) : ts = TxsOf(new) \o popped
  <2>1. PICK us \in Seq(Tx) : us = TxsOf(new)
    BY ONLY <1>6, TxsOfFacts
  <2>2. us \o popped \in Seq(Tx)
    BY ONLY us \in Seq(Tx), popped \in Seq(Tx)
  <2> QED
    BY ONLY <2>1, <2>2
<1>8. PICK c : c = first \o old
  OBVIOUS
<1>9. Grown(c) /\ Len(c) <= MaxBlocks
  <2>0. first \in Seq(Block)
    BY ONLY <1>6
  <2>1. first \o old \in Seq(Block) /\ Len(first \o old) = Len(first) + Len(old)
    BY ONLY <2>0, old \in Seq(Block)
  <2>2. base + Len(old) <= MaxBlocks
    BY ONLY <1>2, base \in Nat
  <2> QED
    BY ONLY <1>2, <1>4, <1>6, <1>8, <2>1, <2>2
<1>10. Restore(c, ts, saved)
  BY ONLY <1>5, <1>7, <1>8
<1> QED
  BY ONLY <1>9, <1>10, ts \in Seq(Tx), saved \in Seq(Tx), RestoreFacts

(* This node makes a block.                                                *)
LEMMA GenerateBlockKeeps ==
    ASSUME IndInv, Room, NEW id \in Ids, NEW when \in 1 .. MaxTime, generate_block(id, when)
    PROVE  Keeps
<1>1. Grown(chain) /\ Len(chain) < MaxBlocks /\ Len(chain) \in Nat /\ MaxBlocks \in Nat /\ pending \in Seq(Tx)
  BY PendingAssumption DEF IndInv, Room, Grown
<1>2. PICK b : b = [id |-> id, time |-> when, txs |-> Generated.txs]
  OBVIOUS
<1>3. b \in Pushed
  <2>1. PICK ts \in Seq(Tx) : ts = Generated.txs
    BY ONLY <1>1, GeneratedFacts
  <2> QED
    BY ONLY <1>2, <2>1, id \in Ids, when \in 1 .. MaxTime, ts \in Seq(Tx) DEF Pushed
<1>4. CASE session' = <<>> /\ UNCHANGED <<chain, pending, fork>>
  <2>1. session' \in Session /\ chain' = chain /\ pending' = pending /\ fork' = fork
    BY ONLY <1>4 DEF Session
  <2>2. fork = NoFork
    BY DEF generate_block, Idle
  <2>3. IndInv'
    BY ONLY <2>1, <2>2, IndInv DEF IndInv
  <2> QED
    BY ONLY <2>1, <2>3 DEF Keeps
<1>5. CASE Restore(IF BlockApplies(HeadState, b) THEN Extended(chain, b) ELSE chain, <<>>, pending)
  <2>1. <<>> \in Seq(Tx)
    OBVIOUS
  <2>2. CASE BlockApplies(HeadState, b)
    <3>1. PICK c : c = Extended(chain, b)
      OBVIOUS
    <3>2. BlockApplies(HeadOf(chain), b) /\ Restore(c, <<>>, pending)
      BY ONLY <1>5, <2>2, <3>1 DEF HeadState
    <3>3. Grown(c) /\ Len(c) = Len(chain) + 1
      BY ONLY <1>1, <1>3, <3>1, <3>2, ExtendedFacts
    <3>4. Len(c) <= MaxBlocks
      BY ONLY <1>1, <3>3
    <3> QED
      BY ONLY <1>1, <2>1, <3>2, <3>3, <3>4, RestoreFacts
  <2>3. CASE ~BlockApplies(HeadState, b)
    <3>1. Restore(chain, <<>>, pending)
      BY ONLY <1>5, <2>3
    <3>2. Len(chain) <= MaxBlocks
      BY ONLY <1>1
    <3> QED
      BY ONLY <1>1, <2>1, <3>1, <3>2, RestoreFacts
  <2> QED
    BY <2>2, <2>3
<1> QED
  BY ONLY <1>2, <1>4, <1>5, generate_block(id, when) DEF generate_block

(* The blocks of peers.                                                    *)
LEMMA PeerBlocksType ==
    ASSUME IndInv, NEW b \in PeerBlocks
    PROVE  b \in Pushed
<1>1. Grown(chain)
  BY DEF IndInv
<1>2. PICK s \in State : s = HeadState /\ s.time <= MaxTime /\ s.time \in Nat
  <2>1. MaxTime \in Nat
    BY PendingAssumption
  <2> QED
    BY <1>1, <2>1, GrownTimes DEF HeadState
<1>3. PICK j : HasSlot(s, j)
  BY <1>1, <1>2, GrownClean DEF Clean, HeadState
<1>4. <<>> \in Seq(Tx)
  OBVIOUS
<1>5. SystemTxs(s) \in Seq(Tx)
  <2>1. CASE SystemTxs(s) = <<>>
    BY ONLY <1>4, <2>1
  <2>2. CASE SystemTxs(s) = <<SystemTx(s, j)>> /\ SystemTx(s, j) \in SystemKind
    <3>1. PICK x \in Tx : x = SystemTx(s, j)
      BY ONLY <2>2 DEF Tx
    <3>2. <<x>> \in Seq(Tx)
      OBVIOUS
    <3> QED
      BY ONLY <2>2, <3>1, <3>2
  <2> QED
    BY ONLY <1>2, <1>3, <2>1, <2>2, s \in State, SystemTxsAre
<1>6. ASSUME NEW x \in PeerTxs(s) PROVE x \in Seq(Tx)
  <2>1. PICK sys \in {<<>>, SystemTxs(s)}, ts \in {<<>>} \cup {<<t>> : t \in Txs} : x = sys \o ts
    BY ONLY x \in PeerTxs(s) DEF PeerTxs
  <2>2. sys \in Seq(Tx)
    BY ONLY <1>4, <1>5, sys \in {<<>>, SystemTxs(s)}
  <2>3. ts \in Seq(Tx)
    <3>1. \A t \in Txs : <<t>> \in Seq(Tx)
      BY DEF Tx
    <3> QED
      BY ONLY <1>4, <3>1, ts \in {<<>>} \cup {<<t>> : t \in Txs}
  <2>4. sys \o ts \in Seq(Tx)
    BY ONLY <2>2, <2>3
  <2> QED
    BY ONLY <2>1, <2>4
<1>7. {t \in s.time + 1 .. MaxTime : t <= s.time + 2} \subseteq 1 .. MaxTime
  BY ONLY <1>2
<1>8. b \in [id : Ids, time : {t \in s.time + 1 .. MaxTime : t <= s.time + 2}, txs : PeerTxs(s)]
  BY ONLY <1>2, b \in PeerBlocks DEF PeerBlocks
<1> QED
  BY ONLY <1>6, <1>7, <1>8 DEF Pushed
-----------------------------------------------------------------------------
(* Every step keeps the invariant.                                         *)
LEMMA NextKeeps ==
    ASSUME IndInv, [Next]_vars
    PROVE  IndInv' /\ [chain' # chain /\ Idle' => PendingMatches']_vars
<1>1. CASE \E t \in Txs : push_transaction(t)
  BY <1>1, PushTransactionKeeps DEF Keeps
<1>2. CASE Room /\ \E b \in PeerBlocks : push_block(b)
  BY <1>2, PeerBlocksType, PushBlockKeeps DEF Keeps
<1>3. CASE push_block_ignored
  BY <1>3, IgnoredKeeps DEF Keeps
<1>4. CASE Room /\ \E n \in 1 .. MaxSwitch : switch_forks(n)
  BY <1>4, SwitchForksKeeps DEF Keeps
<1>5. CASE \E b \in PeerBlocks : push_fork_block(b)
  BY <1>5, PeerBlocksType, PushForkBlockKeeps DEF Keeps
<1>6. CASE fork_block_fails
  BY <1>6, ForkBlockFailsKeeps DEF Keeps
<1>7. CASE Room /\ \E id \in Ids, when \in 1 .. MaxTime : generate_block(id, when)
  BY <1>7, GenerateBlockKeeps DEF Keeps
<1>8. CASE UNCHANGED vars
  <2>1. chain' = chain /\ pending' = pending /\ session' = session /\ fork' = fork
    BY ONLY <1>8 DEF vars
  <2>2. IndInv'
    BY ONLY <2>1, IndInv DEF IndInv, Switching
  <2> QED
    BY <1>8, <2>2
<1> QED
  BY ONLY [Next]_vars, <1>1, <1>2, <1>3, <1>4, <1>5, <1>6, <1>7, <1>8 DEF Next

(* At the start there is no block and nothing is pending.                  *)
LEMMA InitInv == Init => IndInv
<1> SUFFICES ASSUME Init PROVE IndInv
  OBVIOUS
<1>1. chain = <<>> /\ pending = <<>> /\ session = <<>> /\ fork = NoFork
  BY DEF Init
<1>2. <<>> \in Seq(Block) /\ <<>> \in Seq(Tx) /\ Len(<<>>) = 0 /\ 1 .. 0 = {} /\ <<>> \in Session
  BY DEF Session
<1>3. 0 <= MaxBlocks
  BY PendingAssumption
<1>4. Grown(<<>>)
  BY ONLY <1>2 DEF Grown
<1> QED
  BY ONLY <1>1, <1>2, <1>3, <1>4 DEF IndInv

(* The invariant holds throughout: every chain, also the one that a failed *)
(* switch goes back to, is one of blocks that were applied in turn.        *)
THEOREM Invariance == Spec => []IndInv
<1>1. IndInv /\ [Next]_vars => IndInv'
  BY NextKeeps
<1> QED
  BY <1>1, InitInv, PTL DEF Spec

(* The types, through pushes, blocks and switches of any length.           *)
THEOREM TypeCorrectness == Spec => []TypeOK
<1>1. ASSUME IndInv PROVE TypeOK
  <2>1. Grown(chain) /\ Len(chain) <= MaxBlocks /\ session \in Session /\ chain \in Seq(Block)
    BY <1>1 DEF IndInv, Grown
  <2>2. \A i \in DOMAIN chain : Len(chain[i].state.ids) = i /\ chain[i].state.time \in 1 .. MaxTime
    <3>1. DOMAIN chain = 1 .. Len(chain)
      BY ONLY <2>1
    <3> QED
      BY ONLY <2>1, <3>1, GrownTimes
  <2>3. Len(session) <= 1
    <3>1. CASE session = <<>>
      BY <3>1
    <3>2. CASE session # <<>>
      <4>1. PICK s \in State : session = <<s>>
        BY ONLY <2>1, <3>2 DEF Session
      <4> QED
        BY ONLY <4>1
    <3> QED
      BY <3>1, <3>2
  <2>4. fork.left \in 0 .. MaxSwitch + 1
    <3>1. MaxSwitch \in Nat
      BY PendingAssumption
    <3>2. CASE Idle
      <4>1. fork.left = 0
        BY ONLY <3>2 DEF Idle, NoFork
      <4> QED
        BY ONLY <3>1, <4>1
    <3>3. CASE ~Idle
      <4>1. PICK left \in Nat, old \in Seq(Block) :
               fork.left = left /\ Len(old) \in 1 .. MaxSwitch /\ left \in 1 .. Len(old) + 1
        BY ONLY <1>1, <3>3, SwitchingFacts
      <4> QED
        BY ONLY <3>1, <4>1
    <3> QED
      BY <3>2, <3>3
  <2>5. ~Idle => pending = <<>> /\ session = <<>>
    BY <1>1 DEF IndInv, Idle, Switching
  <2> QED
    BY ONLY <2>1, <2>2, <2>3, <2>4, <2>5 DEF TypeOK
<1> QED
  BY <1>1, Invariance, PTL

(* No transaction is in the chain twice, whatever transactions there are   *)
(* and whatever they need: clear_expired_transactions forgets one only     *)
(* when _apply_transaction would refuse it as expired.                     *)
THEOREM NobodyTwice == Spec => []NoTransactionTwice
<1>1. IndInv => NoTransactionTwice
  BY GrownClean DEF IndInv, Clean, NoTransactionTwice
<1> QED
  BY <1>1, Invariance, PTL

(* What _generate_block puts together always applies on the head, though   *)
(* the system transaction is not on the list of known ones meanwhile.      *)
THEOREM OwnBlockApplies == Spec => []GeneratedBlockApplies
<1>1. ASSUME IndInv PROVE GeneratedBlockApplies
  <2>1. Grown(chain) /\ pending \in Seq(Tx)
    BY <1>1 DEF IndInv
  <2>2. ApplyAll(HeadState, Generated.txs).ok
    BY ONLY <2>1, GeneratedFacts
  <2>3. HeadState.time < HeadState.time + 1
    <3>1. HeadState.time \in 0 .. MaxTime
      BY ONLY <2>1, GrownTimes DEF HeadState
    <3> QED
      BY ONLY <3>1
  <2> QED
    BY ONLY <2>2, <2>3 DEF GeneratedBlockApplies, BlockApplies
<1> QED
  BY <1>1, Invariance, PTL

(* After each block and each switch, the pending state is what the pending *)
(* transactions make of the new head.                                      *)
THEOREM SessionIsRecreated == Spec => SessionRecreated
<1>1. IndInv /\ [Next]_vars => [chain' # chain /\ Idle' => PendingMatches']_vars
  BY NextKeeps
<1> QED
  BY <1>1, Invariance, PTL DEF Spec, SessionRecreated
=============================================================================
