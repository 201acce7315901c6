-------------------------- MODULE DeflationProofs --------------------------
(***************************************************************************)
(* Proofs about Deflation, for any number of accounts, orders, deflations  *)
(* and operations per block.                                               *)
(***************************************************************************)
EXTENDS Deflation, NumberLemmas, SequenceTheorems, FiniteSetTheorems, TLAPS

(***************************************************************************)
(* The inductive invariant.  The cursor of the accounts separates those    *)
(* whose turn was from those whose turn is to come, and so does the one of *)
(* the orders among the orders that are in the index, until an order       *)
(* operation comes out of turn.  Then what is left is that no order is     *)
(* charged twice while it is in the index, and that the state to which a   *)
(* transaction is undone has the same accounts as long as an order is next.*)
(***************************************************************************)
AccountRecords == [last : Nat, cleared : BOOLEAN, charged : Nat]
OrderRecords   == [seller : Nat, core : BOOLEAN, live : BOOLEAN,
                   last : Nat, cleared : BOOLEAN, charged : Nat]
Deflations     == [id : Nat, last_account : Nat, account_cursor : Nat,
                   balance_cleared : BOOLEAN, last_order : Nat, order_cursor : Nat,
                   order_cleared : BOOLEAN]
Operation      == [kind : {"order", "account"}, id : Nat]

(* A record is charged once at most, and not before it is marked or its    *)
(* turn was.                                                               *)
Once(r, d) ==
    r.last <= d /\ r.charged <= 1 /\ (r.last < d /\ ~r.cleared => r.charged = 0)

Reached(r, d) == r.last = d /\ ~r.cleared

AccountsInv ==
    /\ accounts \in Seq(AccountRecords)
    /\ Len(accounts) >= 1
    /\ dflt.last_account <= Len(accounts)
    /\ dflt.account_cursor >= 1
    /\ dflt.account_cursor <= dflt.last_account + 1
    /\ dflt.balance_cleared <=> dflt.account_cursor = dflt.last_account + 1
    /\ \A a \in Accounts : Once(accounts[a], dflt.id)
    /\ \A a \in Accounts : a < dflt.account_cursor => Reached(accounts[a], dflt.id)
    /\ ~dflt.balance_cleared =>
          \A a \in Accounts : a >= dflt.account_cursor => accounts[a].last < dflt.id

OrdersInTurn ==
    /\ \A o \in DOMAIN orders : orders[o].charged <= 1
    /\ \A o \in Orders : /\ orders[o].core /\ o <= dflt.last_order
                         /\ dflt.order_cleared \/ o < dflt.order_cursor
                         => Reached(orders[o], dflt.id)
    /\ ~dflt.order_cleared =>
          \A o \in Orders : o >= dflt.order_cursor => orders[o].last < dflt.id

OrdersInv ==
    /\ orders \in Seq(OrderRecords)
    /\ dflt.last_order <= Len(orders)
    /\ dflt.order_cursor <= Len(orders) + 1
    /\ \A o \in DOMAIN orders : orders[o].last <= dflt.id /\ orders[o].seller \in Accounts
    /\ \A o \in Orders : Once(orders[o], dflt.id)
    /\ strayed \in BOOLEAN
    /\ strayed \/ OrdersInTurn

(* The operations under way, k of which are for orders: the next orders    *)
(* from the cursor on, none left out, and the next accounts.               *)
OpsFrom(k) ==
    /\ \A i \in 1 .. k : /\ ops[i].kind = "order" /\ ops[i].id \in Orders
                         /\ dflt.order_cursor <= ops[i].id /\ ops[i].id <= dflt.last_order
    /\ \A i, j \in 1 .. k : i < j => ops[i].id < ops[j].id
    /\ \A i \in 1 .. k : \A o \in Orders :
          dflt.order_cursor <= o /\ o < ops[i].id => \E j \in 1 .. i - 1 : ops[j].id = o
    /\ k > 0 => ~dflt.order_cleared
    /\ \A i \in k + 1 .. Len(ops) : /\ ops[i].kind = "account"
                                    /\ ops[i].id = dflt.account_cursor + (i - k - 1)
                                    /\ ops[i].id <= dflt.last_account
    /\ Len(ops) > k => ~dflt.balance_cleared

OpsInv ==
    /\ ops \in Seq(Operation)
    /\ Len(ops) <= MaxOps
    /\ \E k \in 0 .. Len(ops) : OpsFrom(k)

(* The state the transaction under way would be undone to.                 *)
GoesBackTo(d, acs, os) ==
    /\ d.id = dflt.id /\ d.last_account = dflt.last_account /\ d.last_order = dflt.last_order
    /\ Len(os) = Len(orders) /\ d.order_cursor <= Len(os) + 1
    /\ \A o \in DOMAIN os : /\ os[o].last <= dflt.id /\ os[o].seller \in Accounts
                            /\ os[o].live => Once(os[o], dflt.id)
    /\ Head(ops).kind = "order" =>
          /\ acs = accounts
          /\ d.account_cursor = dflt.account_cursor /\ d.balance_cleared = dflt.balance_cleared

SessionInv ==
    /\ session = <<>> <=> ops = <<>>
    /\ ops # <<>> => \E d \in Deflations, acs \in Seq(AccountRecords), os \in Seq(OrderRecords) :
          session = <<d, acs, os>> /\ GoesBackTo(d, acs, os)

DfltTyped ==
    /\ dflt \in Deflations
    /\ dflt.id <= MaxDeflations
    /\ ~dflt.balance_cleared \/ ~dflt.order_cleared => dflt.id > 0

IndInv == DfltTyped /\ AccountsInv /\ OrdersInv /\ OpsInv /\ SessionInv
-----------------------------------------------------------------------------
(***************************************************************************)
(* The helpers of the model.                                               *)
(***************************************************************************)
(* The ways a record is written beside Charge and Gone.                    *)
Zeroed(r)  == [r EXCEPT !.charged = 0]
Mark(r)    == [r EXCEPT !.cleared = TRUE]
Over(r, d) == [r EXCEPT !.last = d, !.cleared = FALSE]

(* What a write to an account's record changes and what it leaves alone.   *)
LEMMA AccountRecordWritten ==
    ASSUME NEW r \in AccountRecords, NEW d \in Nat
    PROVE  /\ Charge(r) \in AccountRecords /\ Charge(r).last = r.last
           /\ Charge(r).charged = r.charged + 1 /\ Charge(r).cleared = r.cleared
           /\ Mark(r) \in AccountRecords /\ Mark(r).last = r.last
           /\ Mark(r).charged = r.charged /\ Mark(r).cleared
           /\ Over(r, d) \in AccountRecords /\ Over(r, d).last = d
           /\ Over(r, d).charged = r.charged /\ ~Over(r, d).cleared
<1>1. /\ Charge(r) \in AccountRecords /\ Charge(r).last = r.last
      /\ Charge(r).charged = r.charged + 1 /\ Charge(r).cleared = r.cleared
  BY DEF Charge, AccountRecords
<1>2. /\ Mark(r) \in AccountRecords /\ Mark(r).last = r.last
      /\ Mark(r).charged = r.charged /\ Mark(r).cleared
  BY DEF Mark, AccountRecords
<1>3. /\ Over(r, d) \in AccountRecords /\ Over(r, d).last = d
      /\ Over(r, d).charged = r.charged /\ ~Over(r, d).cleared
  BY DEF Over, AccountRecords
<1> QED
  BY <1>1, <1>2, <1>3

(* The same for the record of an order.                                    *)
LEMMA OrderRecordWritten ==
    ASSUME NEW r \in OrderRecords, NEW d \in Nat
    PROVE  /\ Charge(r) \in OrderRecords /\ Charge(r).last = r.last
           /\ Charge(r).charged = r.charged + 1 /\ Charge(r).cleared = r.cleared
           /\ Charge(r).seller = r.seller /\ Charge(r).core = r.core
           /\ Charge(r).live = r.live
           /\ Mark(r) \in OrderRecords /\ Mark(r).last = r.last
           /\ Mark(r).charged = r.charged /\ Mark(r).cleared
           /\ Mark(r).seller = r.seller /\ Mark(r).core = r.core /\ Mark(r).live = r.live
           /\ Over(r, d) \in OrderRecords /\ Over(r, d).last = d
           /\ Over(r, d).charged = r.charged /\ ~Over(r, d).cleared
           /\ Over(r, d).seller = r.seller /\ Over(r, d).core = r.core
           /\ Over(r, d).live = r.live
           /\ Gone(r) \in OrderRecords /\ Gone(r).last = 0
           /\ Gone(r).charged = r.charged /\ Gone(r).seller = 1 /\ ~Gone(r).live
<1>1. /\ Charge(r) \in OrderRecords /\ Charge(r).last = r.last
      /\ Charge(r).charged = r.charged + 1 /\ Charge(r).cleared = r.cleared
      /\ Charge(r).seller = r.seller /\ Charge(r).core = r.core
      /\ Charge(r).live = r.live
  BY DEF Charge, OrderRecords
<1>2. /\ Mark(r) \in OrderRecords /\ Mark(r).last = r.last
      /\ Mark(r).charged = r.charged /\ Mark(r).cleared
      /\ Mark(r).seller = r.seller /\ Mark(r).core = r.core /\ Mark(r).live = r.live
  BY DEF Mark, OrderRecords
<1>3. /\ Over(r, d) \in OrderRecords /\ Over(r, d).last = d
      /\ Over(r, d).charged = r.charged /\ ~Over(r, d).cleared
      /\ Over(r, d).seller = r.seller /\ Over(r, d).core = r.core
      /\ Over(r, d).live = r.live
  BY DEF Over, OrderRecords
<1>4. /\ Gone(r) \in OrderRecords /\ Gone(r).last = 0
      /\ Gone(r).charged = r.charged /\ Gone(r).seller = 1 /\ ~Gone(r).live
  BY DEF Gone, NewOrder, OrderRecords
<1> QED
  BY <1>1, <1>2, <1>3, <1>4

(* A new deflation has not charged anyone.                                 *)
LEMMA RecordZeroed ==
    /\ \A r \in AccountRecords :
          Zeroed(r) \in AccountRecords /\ Zeroed(r).last = r.last /\ Zeroed(r).charged = 0
    /\ \A r \in OrderRecords :
          /\ Zeroed(r) \in OrderRecords /\ Zeroed(r).last = r.last /\ Zeroed(r).charged = 0
          /\ Zeroed(r).live = r.live /\ Zeroed(r).seller = r.seller
<1>1. \A r \in AccountRecords :
         Zeroed(r) \in AccountRecords /\ Zeroed(r).last = r.last /\ Zeroed(r).charged = 0
  BY DEF Zeroed, AccountRecords
<1>2. \A r \in OrderRecords :
         /\ Zeroed(r) \in OrderRecords /\ Zeroed(r).last = r.last /\ Zeroed(r).charged = 0
         /\ Zeroed(r).live = r.live /\ Zeroed(r).seller = r.seller
  BY DEF Zeroed, OrderRecords
<1> QED
  BY <1>1, <1>2

(* An account that pays ahead of its turn has not paid before.             *)
LEMMA PrepaidFacts ==
    ASSUME dflt \in Deflations, NEW r \in AccountRecords, Once(r, dflt.id),
           NEW take \in BOOLEAN
    PROVE  /\ Prepaid(r, take) \in AccountRecords
           /\ Once(Prepaid(r, take), dflt.id)
           /\ Prepaid(r, take).last = r.last
           /\ Reached(r, dflt.id) => Reached(Prepaid(r, take), dflt.id)
<1>1. CASE ~(~dflt.balance_cleared /\ Waiting(r))
  <2>1. Prepaid(r, take) = r
    BY <1>1 DEF Prepaid
  <2> QED
    BY <2>1
<1>2. CASE ~dflt.balance_cleared /\ Waiting(r)
  <2>1. r.charged = 0 /\ r.last < dflt.id /\ dflt.id \in Nat /\ r.last \in Nat
    BY <1>2 DEF Waiting, Once, Deflations, AccountRecords
  <2>2. PICK q \in {r, Charge(r)} : Prepaid(r, take) = Mark(q)
    <3>1. Prepaid(r, take) = Mark(IF take THEN Charge(r) ELSE r)
      BY <1>2 DEF Prepaid, Mark
    <3> QED
      BY <3>1
  <2>3. q \in AccountRecords /\ q.last = r.last /\ q.charged \in {0, 1}
    BY <2>1, AccountRecordWritten
  <2>4. /\ Mark(q) \in AccountRecords /\ Mark(q).last = r.last
        /\ Mark(q).charged \in {0, 1} /\ Mark(q).cleared
    BY <2>3, AccountRecordWritten
  <2> QED
    BY <2>1, <2>2, <2>4 DEF Once, Reached
<1> QED
  BY <1>1, <1>2

(* And so an order that is matched ahead of its turn.                      *)
LEMMA MatchedFacts ==
    ASSUME dflt \in Deflations, NEW r \in OrderRecords, Once(r, dflt.id)
    PROVE  /\ Matched(r) \in OrderRecords
           /\ Once(Matched(r), dflt.id)
           /\ Matched(r).last = r.last /\ Matched(r).core = r.core
           /\ Matched(r).live = r.live /\ Matched(r).seller = r.seller
           /\ Reached(r, dflt.id) => Reached(Matched(r), dflt.id)
<1>1. CASE ~(~dflt.order_cleared /\ Waiting(r))
  <2>1. Matched(r) = r
    BY <1>1 DEF Matched
  <2> QED
    BY <2>1
<1>2. CASE ~dflt.order_cleared /\ Waiting(r)
  <2>1. r.charged = 0 /\ r.last < dflt.id /\ dflt.id \in Nat /\ r.last \in Nat
    BY <1>2 DEF Waiting, Once, Deflations, OrderRecords
  <2>2. Matched(r) = Mark(Charge(r))
    BY <1>2 DEF Matched, Mark
  <2>3. /\ Charge(r) \in OrderRecords /\ Charge(r).last = r.last
        /\ Charge(r).charged = 1 /\ Charge(r).seller = r.seller
        /\ Charge(r).core = r.core /\ Charge(r).live = r.live
    BY <2>1, OrderRecordWritten
  <2>4. /\ Mark(Charge(r)) \in OrderRecords /\ Mark(Charge(r)).last = r.last
        /\ Mark(Charge(r)).charged = 1 /\ Mark(Charge(r)).seller = r.seller
        /\ Mark(Charge(r)).core = r.core /\ Mark(Charge(r)).live = r.live
        /\ Mark(Charge(r)).cleared
    BY <2>3, OrderRecordWritten
  <2> QED
    BY <2>1, <2>2, <2>4 DEF Once, Reached
<1> QED
  BY <1>1, <1>2

(* An order that is cancelled in its place was not charged before.         *)
LEMMA CancelledFacts ==
    ASSUME dflt \in Deflations, NEW o \in Nat, NEW r \in OrderRecords, Once(r, dflt.id)
    PROVE  /\ Cancelled(o, r) \in OrderRecords /\ Cancelled(o, r).last = 0
           /\ ~Cancelled(o, r).live /\ Cancelled(o, r).seller = 1
           /\ (~dflt.order_cleared /\ o >= dflt.order_cursor => r.last < dflt.id)
                 => Cancelled(o, r).charged <= 1
<1>1. /\ r.last \in Nat /\ r.charged \in Nat /\ r.charged <= 1
      /\ dflt.order_cursor \in Nat /\ dflt.id \in Nat
  BY DEF Once, OrderRecords, Deflations
<1>2. PICK q \in {r, Charge(r)} :
         /\ Cancelled(o, r) = Gone(q)
         /\ (~dflt.order_cleared /\ o >= dflt.order_cursor => r.last < dflt.id)
               => q = r \/ r.charged = 0
  <2>1. CASE /\ r.core
             /\ ~dflt.order_cleared
             /\ dflt.order_cursor <= o /\ o <= dflt.last_order
             /\ ~r.cleared
    <3>1. r.last < dflt.id => r.charged = 0
      BY <1>1, <2>1 DEF Once
    <3>2. Cancelled(o, r) = Gone(Charge(r)) /\ o >= dflt.order_cursor
      BY <1>1, <2>1 DEF Cancelled
    <3> QED
      BY <2>1, <3>1, <3>2
  <2>2. CASE ~(/\ r.core
               /\ ~dflt.order_cleared
               /\ dflt.order_cursor <= o /\ o <= dflt.last_order
               /\ ~r.cleared)
    <3>1. Cancelled(o, r) = Gone(r)
      BY <2>2 DEF Cancelled
    <3> QED
      BY <3>1
  <2> QED
    BY <2>1, <2>2
<1>3. q \in OrderRecords /\ (q = r \/ r.charged = 0 => q.charged <= 1)
  BY <1>1, <1>2, OrderRecordWritten
<1>4. /\ Gone(q) \in OrderRecords /\ Gone(q).last = 0 /\ Gone(q).charged = q.charged
      /\ Gone(q).seller = 1 /\ ~Gone(q).live
  BY <1>1, <1>3, OrderRecordWritten
<1> QED
  BY <1>2, <1>3, <1>4

(* A turn charges who was not charged before, and takes the mark away.     *)
LEMMA AccountTurn ==
    ASSUME dflt \in Deflations, NEW r \in AccountRecords, Once(r, dflt.id),
           r.last < dflt.id
    PROVE  /\ Turn(r) \in AccountRecords
           /\ Once(Turn(r), dflt.id) /\ Reached(Turn(r), dflt.id)
<1>0. dflt.id \in Nat
  BY DEF Deflations
<1>1. PICK q \in {r, Charge(r)} :
         Turn(r) = Over(q, dflt.id) /\ (q # r => r.charged = 0)
  <2>1. Turn(r) = Over(IF r.cleared THEN r ELSE Charge(r), dflt.id)
    BY DEF Turn, Over
  <2>2. ~r.cleared => r.charged = 0
    BY DEF Once
  <2> QED
    BY <2>1, <2>2
<1>2. q \in AccountRecords /\ q.charged <= 1
  BY <1>1, AccountRecordWritten DEF Once
<1>3. /\ Turn(r) \in AccountRecords /\ Turn(r).last = dflt.id
      /\ Turn(r).charged <= 1 /\ ~Turn(r).cleared
  BY <1>0, <1>1, <1>2, AccountRecordWritten
<1> QED
  BY <1>0, <1>3 DEF Once, Reached

(* The same for an order.                                                  *)
LEMMA OrderTurn ==
    ASSUME dflt \in Deflations, NEW r \in OrderRecords, Once(r, dflt.id),
           r.last < dflt.id
    PROVE  /\ Turn(r) \in OrderRecords
           /\ Once(Turn(r), dflt.id) /\ Reached(Turn(r), dflt.id)
           /\ Turn(r).live = r.live /\ Turn(r).seller = r.seller
           /\ Turn(r).core = r.core
<1>0. dflt.id \in Nat
  BY DEF Deflations
<1>1. PICK q \in {r, Charge(r)} :
         Turn(r) = Over(q, dflt.id) /\ (q # r => r.charged = 0)
  <2>1. Turn(r) = Over(IF r.cleared THEN r ELSE Charge(r), dflt.id)
    BY DEF Turn, Over
  <2>2. ~r.cleared => r.charged = 0
    BY DEF Once
  <2> QED
    BY <2>1, <2>2
<1>2. /\ q \in OrderRecords /\ q.charged <= 1
      /\ q.live = r.live /\ q.seller = r.seller /\ q.core = r.core
  BY <1>1, OrderRecordWritten DEF Once
<1>3. /\ Turn(r) \in OrderRecords /\ Turn(r).last = dflt.id
      /\ Turn(r).charged <= 1 /\ ~Turn(r).cleared
      /\ Turn(r).live = r.live /\ Turn(r).seller = r.seller /\ Turn(r).core = r.core
  BY <1>0, <1>1, <1>2, OrderRecordWritten
<1> QED
  BY <1>0, <1>3 DEF Once, Reached

(* FirstOf lists the least members of a set in their order, none left out. *)
LEMMA FirstOfFacts ==
    ASSUME NEW S \in SUBSET Nat, IsFiniteSet(S), NEW n \in Nat
    PROVE  LET s == FirstOf(S, n)
           IN /\ s \in Seq(S) /\ Len(s) \in 0 .. n
              /\ \A i, j \in 1 .. Len(s) : i < j => s[i] < s[j]
              /\ \A i \in 1 .. Len(s) : \A o \in S : o < s[i] =>
                    \E j \in 1 .. i - 1 : s[j] = o
<1> DEFINE s == FirstOf(S, n)
           k == Min({Cardinality(S), n})
<1>1. Cardinality(S) \in Nat
  BY FS_CardinalityType
<1>2. k \in Nat /\ k <= n /\ k <= Cardinality(S)
  <2>1. k = IF Cardinality(S) <= n THEN Cardinality(S) ELSE n
    BY <1>1, MinOfTwo
  <2> QED
    BY <1>1, <2>1
<1>3. s = [i \in 1 .. k |-> Ranked(S, i)]
  BY DEF FirstOf
<1> HIDE DEF s, k
<1>4. \A i \in 1 .. k : s[i] \in S /\ RankIn(S, s[i]) = i - 1
  <2>1. SUFFICES ASSUME NEW i \in 1 .. k PROVE s[i] \in S /\ RankIn(S, s[i]) = i - 1
    OBVIOUS
  <2>2. i - 1 \in Nat /\ i - 1 < Cardinality(S)
    BY <1>1, <1>2
  <2>3. \E x \in S : Cardinality({y \in S : y < x}) = i - 1
    BY <2>2, EveryRank DEF RankIn
  <2>4. Ranked(S, i) \in S /\ Cardinality({y \in S : y < Ranked(S, i)}) = i - 1
    BY <2>3 DEF Ranked
  <2> QED
    BY <1>3, <2>4 DEF RankIn
<1>5. s \in Seq(S) /\ Len(s) = k
  BY <1>2, <1>3, <1>4
<1>6. \A x, z \in S : RankIn(S, x) = RankIn(S, z) => x = z
  <2>1. SUFFICES ASSUME NEW x \in S, NEW z \in S, RankIn(S, x) = RankIn(S, z), x # z
                 PROVE  FALSE
    OBVIOUS
  <2>2. x < z \/ z < x
    BY <2>1
  <2> QED
    BY <2>1, <2>2, RankGrows
<1>7. ASSUME NEW i \in 1 .. k, NEW j \in 1 .. k, i < j
      PROVE  s[i] < s[j]
  <2>1. s[i] \in S /\ s[j] \in S
    BY <1>4
  <2>2. RankIn(S, s[i]) = i - 1 /\ RankIn(S, s[j]) = j - 1
    BY <1>4
  <2>3. i - 1 < j - 1 /\ i - 1 \in Int /\ j - 1 \in Int
    BY <1>2, <1>7
  <2>4. s[i] \in Nat /\ s[j] \in Nat
    BY <2>1
  <2>5. s[i] # s[j]
    BY <2>2, <2>3
  <2>6. ~(s[j] < s[i])
    <3>1. SUFFICES ASSUME s[j] < s[i] PROVE FALSE
      OBVIOUS
    <3>2. RankIn(S, s[j]) < RankIn(S, s[i])
      BY <2>1, <3>1, RankGrows
    <3> QED
      BY <2>2, <2>3, <3>2
  <2> QED
    BY <2>4, <2>5, <2>6
<1>8. ASSUME NEW i \in 1 .. k, NEW o \in S, o < s[i]
      PROVE  \E j \in 1 .. i - 1 : s[j] = o
  <2>1. RankIn(S, o) \in Nat /\ RankIn(S, o) < i - 1
    BY <1>4, <1>8, RankGrows
  <2>2. RankIn(S, o) + 1 \in 1 .. i - 1 /\ RankIn(S, o) + 1 \in 1 .. k
    BY <1>2, <2>1
  <2>3. RankIn(S, s[RankIn(S, o) + 1]) = RankIn(S, o) /\ s[RankIn(S, o) + 1] \in S
    BY <1>4, <2>1, <2>2
  <2>4. s[RankIn(S, o) + 1] = o
    BY <1>6, <2>3
  <2> QED
    BY <2>2, <2>4
<1> QED
  BY <1>2, <1>5, <1>7, <1>8 DEF s
-----------------------------------------------------------------------------
(***************************************************************************)
(* The steps that leave the deflation itself alone.                        *)
(***************************************************************************)
LEMMA IdleOps ==
    ASSUME IndInv, Idle, ops' = ops, session' = session
    PROVE  OpsInv' /\ SessionInv'
<1>1. ops' \in Seq(Operation) /\ Len(ops') = 0 /\ MaxOps \in Nat
  BY DeflationAssumption DEF Idle
<1>2. OpsFrom(0)'
  BY <1>1 DEF OpsFrom
<1>3. session' = <<>> /\ ops' = <<>>
  BY DEF IndInv, SessionInv, Idle
<1> QED
  BY <1>1, <1>2, <1>3 DEF OpsInv, SessionInv

(* No deflation runs at first.                                             *)
LEMMA InitInv == Init => IndInv
<1> SUFFICES ASSUME Init PROVE IndInv
  OBVIOUS
<1>0. FirstAccounts \in Nat /\ FirstAccounts >= 1 /\ MaxOps \in Nat /\ MaxDeflations \in Nat
  BY DeflationAssumption
<1>1. DfltTyped
  BY <1>0 DEF Init, DfltTyped, Deflations
<1>2. /\ Fresh \in AccountRecords /\ Fresh.last = 0 /\ Fresh.charged = 0
      /\ Fresh.cleared = FALSE
  BY DEF Fresh, AccountRecords
<1>3. /\ accounts \in Seq(AccountRecords) /\ Len(accounts) = FirstAccounts
      /\ \A a \in Accounts : accounts[a] = Fresh /\ a \in Nat /\ a >= 1
  BY <1>0, <1>2 DEF Init, Accounts
<1>4. AccountsInv
  BY <1>0, <1>2, <1>3 DEF Init, AccountsInv, Once, Reached
<1>5. orders \in Seq(OrderRecords) /\ Len(orders) = 0 /\ DOMAIN orders = {}
  BY DEF Init
<1>6. OrdersInv
  <2>1. Orders = {} /\ strayed = FALSE
    BY <1>5 DEF Init, Orders
  <2>2. OrdersInTurn
    BY <1>5, <2>1 DEF OrdersInTurn
  <2>3. dflt.last_order = 0 /\ dflt.order_cursor = 0
    BY DEF Init
  <2>4. strayed \in BOOLEAN /\ (strayed \/ OrdersInTurn)
    BY <2>1, <2>2
  <2>5. dflt.last_order <= Len(orders) /\ dflt.order_cursor <= Len(orders) + 1
    BY <1>5, <2>3
  <2> QED
    BY <1>5, <2>1, <2>4, <2>5 DEF OrdersInv
<1>7. OpsInv
  <2>1. ops \in Seq(Operation) /\ Len(ops) = 0
    BY DEF Init
  <2>2. OpsFrom(0)
    BY <2>1 DEF OpsFrom
  <2> QED
    BY <1>0, <2>1, <2>2 DEF OpsInv
<1>8. SessionInv
  BY DEF Init, SessionInv
<1> QED
  BY <1>1, <1>4, <1>6, <1>7, <1>8 DEF IndInv

(* Accounts that pay ahead of their turn, or do not, keep their invariant. *)
LEMMA AccountsPrepay ==
    ASSUME IndInv, dflt' = dflt,
           DOMAIN accounts' = DOMAIN accounts,
           accounts' = [a \in DOMAIN accounts |-> accounts'[a]],
           \A a \in Accounts : \/ accounts'[a] = accounts[a]
                               \/ \E take \in BOOLEAN : accounts'[a] = Prepaid(accounts[a], take)
    PROVE  AccountsInv' /\ Accounts' = Accounts
<1>1. dflt \in Deflations /\ accounts \in Seq(AccountRecords)
  BY DEF IndInv, DfltTyped, AccountsInv
<1>2. \A a \in Accounts : accounts[a] \in AccountRecords /\ Once(accounts[a], dflt.id)
  BY <1>1 DEF IndInv, AccountsInv, Accounts
<1>3. \A a \in Accounts : /\ accounts'[a] \in AccountRecords
                          /\ Once(accounts'[a], dflt.id)
                          /\ accounts'[a].last = accounts[a].last
                          /\ Reached(accounts[a], dflt.id) => Reached(accounts'[a], dflt.id)
  <2> SUFFICES ASSUME NEW a \in Accounts
               PROVE  /\ accounts'[a] \in AccountRecords
                      /\ Once(accounts'[a], dflt.id)
                      /\ accounts'[a].last = accounts[a].last
                      /\ Reached(accounts[a], dflt.id) => Reached(accounts'[a], dflt.id)
    OBVIOUS
  <2>1. CASE accounts'[a] = accounts[a]
    BY <1>2, <2>1
  <2>2. CASE \E take \in BOOLEAN : accounts'[a] = Prepaid(accounts[a], take)
    <3>1. PICK take \in BOOLEAN : accounts'[a] = Prepaid(accounts[a], take)
      BY <2>2
    <3> QED
      BY <1>1, <1>2, <3>1, PrepaidFacts
  <2> QED
    BY <2>1, <2>2
<1>4. accounts' \in Seq(AccountRecords) /\ Len(accounts') = Len(accounts)
  <2>1. DOMAIN accounts = 1 .. Len(accounts) /\ Len(accounts) \in Nat
    BY <1>1
  <2>2. accounts' = [a \in 1 .. Len(accounts) |-> accounts'[a]]
    BY <2>1
  <2>3. \A a \in 1 .. Len(accounts) : accounts'[a] \in AccountRecords
    BY <1>3, <2>1 DEF Accounts
  <2> QED
    BY <2>1, <2>2, <2>3
<1>5. Accounts' = Accounts
  BY DEF Accounts
<1>6. AccountsInv'
  <2> SUFFICES
        /\ \A a \in Accounts : Once(accounts'[a], dflt.id)
        /\ \A a \in Accounts : a < dflt.account_cursor => Reached(accounts'[a], dflt.id)
        /\ ~dflt.balance_cleared =>
              \A a \in Accounts : a >= dflt.account_cursor => accounts'[a].last < dflt.id
    BY <1>4, <1>5 DEF IndInv, AccountsInv, Once, Reached
  <2> QED
    BY <1>3 DEF IndInv, AccountsInv
<1> QED
  BY <1>5, <1>6

(* Orders may be charged, filled, cancelled or added as long as the turn   *)
(* of those in the index, which last records, does not move.               *)
LEMMA OrdersTraded ==
    ASSUME IndInv, dflt' = dflt, strayed' = strayed, Accounts' = Accounts,
           orders' \in Seq(OrderRecords), Len(orders') >= Len(orders),
           \A o \in DOMAIN orders :
              /\ orders'[o].last <= dflt.id /\ orders'[o].seller \in Accounts
              /\ ~strayed => orders'[o].charged <= 1
              /\ orders'[o].live =>
                    /\ orders[o].live /\ orders'[o].core = orders[o].core
                    /\ orders'[o].last = orders[o].last
                    /\ Once(orders'[o], dflt.id)
                    /\ Reached(orders[o], dflt.id) => Reached(orders'[o], dflt.id),
           \A o \in Len(orders) + 1 .. Len(orders') :
              /\ orders'[o].last = 0 /\ orders'[o].charged = 0
              /\ orders'[o].seller \in Accounts
    PROVE  OrdersInv'
<1>1. /\ dflt \in Deflations /\ orders \in Seq(OrderRecords) /\ dflt.id \in Nat
      /\ dflt.last_order \in Nat /\ dflt.order_cursor \in Nat
      /\ dflt.last_order <= Len(orders) /\ dflt.order_cursor <= Len(orders) + 1
  BY DEF IndInv, DfltTyped, OrdersInv, Deflations
<1>2. Len(orders) \in Nat /\ Len(orders') \in Nat
  BY <1>1
<1>3. DOMAIN orders' = 1 .. Len(orders') /\ DOMAIN orders = 1 .. Len(orders)
  BY <1>1
<1>4. \A o \in DOMAIN orders' : o \in DOMAIN orders \/ o \in Len(orders) + 1 .. Len(orders')
  BY <1>2, <1>3
<1>5. \A o \in DOMAIN orders' :
         /\ orders'[o].last <= dflt.id /\ orders'[o].seller \in Accounts
         /\ ~strayed => orders'[o].charged <= 1
  BY <1>1, <1>4
<1>6. \A o \in Orders' : \/ o \in Orders
                        \/ o \in Len(orders) + 1 .. Len(orders')
  BY <1>4 DEF Orders
<1>7. \A o \in Orders' : o \in DOMAIN orders' /\ o \in Nat /\ orders'[o].live
  BY <1>2, <1>3 DEF Orders
<1>8. \A o \in Orders : o \in DOMAIN orders
  BY DEF Orders
<1>9. \A o \in Orders' : Once(orders'[o], dflt.id)
  BY <1>1, <1>6, <1>7, <1>8 DEF Once
<1>10. ASSUME OrdersInTurn, NEW o \in Orders', orders'[o].core, o <= dflt.last_order,
              dflt.order_cleared \/ o < dflt.order_cursor
       PROVE  Reached(orders'[o], dflt.id)
  <2>1. o \in Orders
    BY <1>1, <1>2, <1>6, <1>7, <1>10
  <2>2. orders[o].core
    BY <1>7, <1>8, <1>10, <2>1
  <2>3. Reached(orders[o], dflt.id)
    BY <1>10, <2>1, <2>2 DEF OrdersInTurn
  <2> QED
    BY <1>7, <1>8, <2>1, <2>3
<1>11. ASSUME OrdersInTurn, ~dflt.order_cleared, NEW o \in Orders', o >= dflt.order_cursor
       PROVE  orders'[o].last < dflt.id
  <2>1. CASE o \in Orders
    <3>1. orders[o].last < dflt.id
      BY <1>11, <2>1 DEF OrdersInTurn
    <3> QED
      BY <1>7, <1>8, <2>1, <3>1
  <2>2. CASE o \in Len(orders) + 1 .. Len(orders')
    <3>1. dflt.id > 0
      BY <1>11 DEF IndInv, DfltTyped
    <3> QED
      BY <2>2, <3>1
  <2> QED
    BY <1>6, <2>1, <2>2
<1>12. strayed \in BOOLEAN /\ (strayed \/ OrdersInTurn)
  BY DEF IndInv, OrdersInv
<1>13. ~strayed => OrdersInTurn'
  <2> SUFFICES ASSUME ~strayed PROVE OrdersInTurn'
    OBVIOUS
  <2>1. OrdersInTurn
    BY <1>12
  <2>2. \A o \in DOMAIN orders' : orders'[o].charged <= 1
    BY <1>5
  <2>3. \A o \in Orders' : /\ orders'[o].core /\ o <= dflt.last_order
                           /\ dflt.order_cleared \/ o < dflt.order_cursor
                           => Reached(orders'[o], dflt.id)
    BY <1>10, <2>1
  <2>4. ~dflt.order_cleared =>
           \A o \in Orders' : o >= dflt.order_cursor => orders'[o].last < dflt.id
    BY <1>11, <2>1
  <2> QED
    BY <2>2, <2>3, <2>4 DEF OrdersInTurn
<1> QED
  BY <1>1, <1>2, <1>5, <1>9, <1>12, <1>13 DEF OrdersInv
-----------------------------------------------------------------------------
(***************************************************************************)
(* One lemma for each action.                                              *)
(***************************************************************************)
LEMMA DeflationPreserves == IndInv /\ deflation => IndInv'
<1> SUFFICES ASSUME IndInv, deflation PROVE IndInv'
  OBVIOUS
<1>1. /\ dflt \in Deflations /\ accounts \in Seq(AccountRecords)
      /\ orders \in Seq(OrderRecords) /\ dflt.id \in Nat
      /\ Len(accounts) \in Nat /\ Len(accounts) >= 1 /\ Len(orders) \in Nat
      /\ DOMAIN accounts = 1 .. Len(accounts) /\ DOMAIN orders = 1 .. Len(orders)
      /\ MaxDeflations \in Nat
  BY DeflationAssumption DEF IndInv, DfltTyped, AccountsInv, OrdersInv, Deflations
<1> DEFINE last  == IF Orders = {} THEN 0 ELSE Max(Orders)
           first == IF Orders = {} THEN 0 ELSE Min(Orders)
<1>2. /\ dflt'.id = dflt.id + 1 /\ dflt'.last_account = Len(accounts)
      /\ dflt'.account_cursor = 1 /\ dflt'.balance_cleared = FALSE
      /\ dflt'.last_order = last /\ dflt'.order_cursor = first
      /\ dflt'.order_cleared = (Orders = {})
      /\ dflt' = [id |-> dflt.id + 1, last_account |-> Len(accounts), account_cursor |-> 1,
                  balance_cleared |-> FALSE, last_order |-> last, order_cursor |-> first,
                  order_cleared |-> (Orders = {})]
  BY DEF deflation
<1>3. \A o \in Orders : o \in 1 .. Len(orders)
  BY <1>1 DEF Orders
<1>4. /\ last \in Nat /\ last <= Len(orders) /\ first \in Nat /\ first <= Len(orders)
      /\ \A o \in Orders : first <= o
  <2>1. CASE Orders = {}
    BY <1>1, <2>1
  <2>2. CASE Orders # {}
    <3>1. Orders \in SUBSET Nat /\ \A o \in Orders : o <= Len(orders)
      BY <1>3
    <3>2. Max(Orders) \in 0 .. Len(orders)
      BY <1>1, <2>2, <3>1, MaxOfBounded
    <3>3. Min(Orders) \in Orders /\ \A o \in Orders : Min(Orders) <= o
      BY <2>2, <3>1, MinIsLeast
    <3> QED
      BY <1>1, <1>3, <2>2, <3>2, <3>3
  <2> QED
    BY <2>1, <2>2
<1> HIDE DEF last, first
<1>5. DfltTyped'
  <2>1. dflt.id + 1 <= MaxDeflations
    BY <1>1 DEF deflation
  <2> QED
    BY <1>1, <1>2, <1>4, <2>1 DEF DfltTyped, Deflations
<1>6. \A a \in DOMAIN accounts : accounts[a] \in AccountRecords
  BY <1>1
<1>7. /\ accounts' \in Seq(AccountRecords) /\ Len(accounts') = Len(accounts)
      /\ DOMAIN accounts' = DOMAIN accounts
      /\ \A a \in DOMAIN accounts : accounts'[a].last = accounts[a].last
                                 /\ accounts'[a].charged = 0
  <2>1. accounts' = [a \in 1 .. Len(accounts) |-> Zeroed(accounts[a])]
    BY <1>1 DEF deflation, Uncharged, Zeroed
  <2>2. \A a \in 1 .. Len(accounts) : Zeroed(accounts[a]) \in AccountRecords
    BY <1>1, <1>6, RecordZeroed
  <2>3. accounts' \in Seq(AccountRecords) /\ Len(accounts') = Len(accounts)
    BY <1>1, <2>1, <2>2
  <2>4. \A a \in DOMAIN accounts : accounts'[a] = Zeroed(accounts[a])
    BY <1>1, <2>1
  <2> QED
    BY <1>1, <1>6, <2>1, <2>3, <2>4, RecordZeroed
<1>8. \A a \in DOMAIN accounts : accounts[a].last <= dflt.id /\ accounts[a].last \in Nat
  <2>1. \A a \in DOMAIN accounts : accounts[a].last <= dflt.id
    BY DEF IndInv, AccountsInv, Once, Accounts
  <2> QED
    BY <1>6, <2>1 DEF AccountRecords
<1>9. AccountsInv'
  <2>1. \A a \in Accounts' : Once(accounts'[a], dflt'.id) /\ accounts'[a].last < dflt'.id
    BY <1>1, <1>2, <1>7, <1>8 DEF Accounts, Once
  <2>2. \A a \in Accounts' : ~(a < 1)
    BY <1>1, <1>7 DEF Accounts
  <2> QED
    BY <1>1, <1>2, <1>7, <2>1, <2>2 DEF AccountsInv
<1>10. \A o \in DOMAIN orders : orders[o] \in OrderRecords
  BY <1>1
<1>11. /\ orders' \in Seq(OrderRecords) /\ Len(orders') = Len(orders)
       /\ DOMAIN orders' = DOMAIN orders
       /\ \A o \in DOMAIN orders : orders'[o].last = orders[o].last
                                /\ orders'[o].charged = 0
                                /\ orders'[o].live = orders[o].live
                                /\ orders'[o].seller = orders[o].seller
  <2>1. orders' = [o \in 1 .. Len(orders) |-> Zeroed(orders[o])]
    BY <1>1 DEF deflation, Uncharged, Zeroed
  <2>2. \A o \in 1 .. Len(orders) : Zeroed(orders[o]) \in OrderRecords
    BY <1>1, <1>10, RecordZeroed
  <2>3. orders' \in Seq(OrderRecords) /\ Len(orders') = Len(orders)
    BY <1>1, <2>1, <2>2
  <2>4. \A o \in DOMAIN orders : orders'[o] = Zeroed(orders[o])
    BY <1>1, <2>1
  <2> QED
    BY <1>1, <1>10, <2>1, <2>3, <2>4, RecordZeroed
<1>12. \A o \in DOMAIN orders : /\ orders[o].last <= dflt.id /\ orders[o].last \in Nat
                                /\ orders[o].seller \in Accounts
  <2>1. \A o \in DOMAIN orders : orders[o].last <= dflt.id /\ orders[o].seller \in Accounts
    BY DEF IndInv, OrdersInv
  <2> QED
    BY <1>10, <2>1 DEF OrderRecords
<1>13. Orders' = Orders /\ Accounts' = Accounts
  BY <1>7, <1>11 DEF Orders, Accounts
<1>14. OrdersInv'
  <2>1. \A o \in DOMAIN orders : Once(orders'[o], dflt'.id) /\ orders'[o].last < dflt'.id
    BY <1>1, <1>2, <1>11, <1>12 DEF Once
  <2>2. \A o \in Orders : o \in DOMAIN orders /\ o \in Nat
    BY <1>1 DEF Orders
  <2>3. \A o \in Orders : ~dflt'.order_cleared /\ ~(o < dflt'.order_cursor)
    <3>1. Orders # {} => ~dflt'.order_cleared
      BY <1>2
    <3> QED
      BY <1>2, <1>4, <2>2, <3>1
  <2>4. dflt'.last_order <= Len(orders') /\ dflt'.order_cursor <= Len(orders') + 1
    BY <1>1, <1>2, <1>4, <1>11
  <2>5. \A o \in DOMAIN orders' : /\ orders'[o].last <= dflt'.id
                                  /\ orders'[o].charged <= 1
                                  /\ orders'[o].seller \in Accounts'
    BY <1>11, <1>12, <1>13, <2>1 DEF Once
  <2>7. strayed' = FALSE
    BY DEF deflation
  <2>6. /\ \A o \in Orders' : Once(orders'[o], dflt'.id)
        /\ \A o \in Orders' : /\ orders'[o].core /\ o <= dflt'.last_order
                              /\ dflt'.order_cleared \/ o < dflt'.order_cursor
                              => Reached(orders'[o], dflt'.id)
        /\ \A o \in Orders' : orders'[o].last < dflt'.id
    BY <1>13, <2>1, <2>2, <2>3
  <2>8. OrdersInTurn'
    BY <2>5, <2>6 DEF OrdersInTurn
  <2> QED
    BY <1>11, <2>4, <2>5, <2>6, <2>7, <2>8 DEF OrdersInv
<1>15. OpsInv' /\ SessionInv'
  BY IdleOps DEF deflation
<1> QED
  BY <1>5, <1>9, <1>14, <1>15 DEF IndInv

(* create_account.                                                         *)
LEMMA CreateAccountPreserves == IndInv /\ create_account => IndInv'
<1> SUFFICES ASSUME IndInv, create_account PROVE IndInv'
  OBVIOUS
<1>1. /\ dflt \in Deflations /\ accounts \in Seq(AccountRecords)
      /\ Len(accounts) \in Nat /\ dflt.id \in Nat
      /\ dflt.last_account \in Nat /\ dflt.account_cursor \in Nat
      /\ dflt.last_account <= Len(accounts) /\ dflt.account_cursor <= dflt.last_account + 1
      /\ DOMAIN accounts = 1 .. Len(accounts)
  BY DEF IndInv, DfltTyped, AccountsInv, Deflations
<1>2. Fresh \in AccountRecords /\ Fresh.last = 0 /\ Fresh.charged = 0
  BY DEF Fresh, AccountRecords
<1>3. /\ accounts' \in Seq(AccountRecords) /\ Len(accounts') = Len(accounts) + 1
      /\ DOMAIN accounts' = 1 .. Len(accounts) + 1
      /\ \A a \in DOMAIN accounts : accounts'[a] = accounts[a]
      /\ accounts'[Len(accounts) + 1] = Fresh
  BY <1>1, <1>2 DEF create_account
<1>4. \A a \in Accounts' : a \in Accounts \/ a = Len(accounts) + 1
  BY <1>1, <1>3 DEF Accounts
<1>5. AccountsInv'
  <2>1. dflt' = dflt
    BY DEF create_account
  <2>2. \A a \in Accounts' : Once(accounts'[a], dflt.id)
    BY <1>1, <1>2, <1>3, <1>4 DEF IndInv, AccountsInv, Once, Accounts
  <2>3. \A a \in Accounts' : a < dflt.account_cursor => Reached(accounts'[a], dflt.id)
    BY <1>1, <1>3, <1>4 DEF IndInv, AccountsInv, Accounts
  <2>4. ASSUME ~dflt.balance_cleared, NEW a \in Accounts', a >= dflt.account_cursor
        PROVE  accounts'[a].last < dflt.id
    <3>1. dflt.id > 0
      BY <2>4 DEF IndInv, DfltTyped
    <3>2. CASE a \in Accounts
      BY <1>3, <2>4, <3>2 DEF IndInv, AccountsInv, Accounts
    <3>3. CASE a = Len(accounts) + 1
      BY <1>2, <1>3, <3>1, <3>3
    <3> QED
      BY <1>4, <3>2, <3>3
  <2> QED
    BY <1>1, <1>3, <2>1, <2>2, <2>3, <2>4 DEF IndInv, AccountsInv
<1>6. OrdersInv'
  <2>1. \A a \in Accounts : a \in Accounts'
    BY <1>1, <1>3 DEF Accounts
  <2>2. dflt' = dflt /\ orders' = orders /\ strayed' = strayed
    BY DEF create_account
  <2>3. Orders' = Orders
    BY <2>2 DEF Orders
  <2> QED
    BY <2>1, <2>2, <2>3 DEF IndInv, OrdersInv, OrdersInTurn
<1>7. OpsInv' /\ SessionInv'
  BY IdleOps DEF create_account
<1>8. DfltTyped'
  BY DEF create_account, IndInv, DfltTyped
<1> QED
  BY <1>5, <1>6, <1>7, <1>8 DEF IndInv

(* transfer charges both sides before their turn.                          *)
LEMMA TransferPreserves ==
    ASSUME NEW from \in Accounts, NEW to \in Accounts, IndInv, transfer(from, to)
    PROVE  IndInv'
<1>1. \A a \in Accounts : \/ accounts'[a] = accounts[a]
                          \/ \E take \in BOOLEAN : accounts'[a] = Prepaid(accounts[a], take)
  BY DEF transfer, Accounts
<1>2. /\ DOMAIN accounts' = DOMAIN accounts
      /\ accounts' = [a \in DOMAIN accounts |-> accounts'[a]]
  BY DEF transfer
<1>3. dflt' = dflt /\ orders' = orders /\ strayed' = strayed
  BY DEF transfer
<1>4. AccountsInv' /\ Accounts' = Accounts
  BY <1>1, <1>2, <1>3, AccountsPrepay
<1>5. OrdersInv'
  <2>1. Orders' = Orders
    BY <1>3 DEF Orders
  <2> QED
    BY <1>3, <1>4, <2>1 DEF IndInv, OrdersInv, OrdersInTurn
<1>6. OpsInv' /\ SessionInv'
  BY IdleOps DEF transfer
<1>7. DfltTyped'
  BY <1>3 DEF IndInv, DfltTyped
<1> QED
  BY <1>4, <1>5, <1>6, <1>7 DEF IndInv

(* limit_order_create: the new order, and the orders that it fills.        *)
LEMMA OrderCreatePreserves ==
    ASSUME NEW a \in Accounts, NEW core \in BOOLEAN, NEW filled \in SUBSET Orders,
           NEW part \in SUBSET Orders, NEW culled \in BOOLEAN,
           IndInv, limit_order_create(a, core, filled, part, culled)
    PROVE  IndInv'
<1>1. /\ dflt \in Deflations /\ accounts \in Seq(AccountRecords)
      /\ orders \in Seq(OrderRecords) /\ dflt.id \in Nat
      /\ Len(accounts) \in Nat /\ Len(orders) \in Nat
      /\ DOMAIN accounts = 1 .. Len(accounts) /\ DOMAIN orders = 1 .. Len(orders)
  BY DEF IndInv, DfltTyped, AccountsInv, OrdersInv, Deflations
<1> DEFINE hit(o) == IF core THEN orders[o] ELSE Matched(orders[o])
           after(o) == IF o \in filled THEN Gone(hit(o))
                       ELSE IF o \in part THEN IF culled THEN Cancelled(o, hit(o)) ELSE hit(o)
                       ELSE orders[o]
           done == part # {} \/ culled
           new == IF done THEN Gone(NewOrder(a, core)) ELSE NewOrder(a, core)
<1>2. orders' = Append([o \in DOMAIN orders |-> after(o)], new)
  BY DEF limit_order_create
<1>3. new \in OrderRecords /\ new.last = 0 /\ new.charged = 0 /\ new.seller \in {1, a}
  <2>1. a \in Nat
    BY <1>1 DEF Accounts
  <2>2. /\ NewOrder(a, core) \in OrderRecords /\ NewOrder(a, core).last = 0
        /\ NewOrder(a, core).charged = 0 /\ NewOrder(a, core).seller = a
    BY <2>1 DEF NewOrder, OrderRecords
  <2>3. CASE done
    BY <2>2, <2>3, OrderRecordWritten, <1>1
  <2>4. CASE ~done
    BY <2>2, <2>4
  <2> QED
    BY <2>3, <2>4
<1>0. 1 \in Accounts
  BY <1>1 DEF IndInv, AccountsInv, Accounts
<1>4. \A o \in Orders :
         /\ o \in DOMAIN orders /\ o \in Nat /\ orders[o].live
         /\ orders[o] \in OrderRecords /\ Once(orders[o], dflt.id)
         /\ ~strayed /\ ~dflt.order_cleared /\ o >= dflt.order_cursor
               => orders[o].last < dflt.id
  <2>1. \A o \in Orders : o \in DOMAIN orders /\ o \in Nat /\ orders[o].live
    BY <1>1 DEF Orders
  <2>2. \A o \in Orders : orders[o] \in OrderRecords
    BY <1>1, <2>1
  <2>3. \A o \in Orders : Once(orders[o], dflt.id)
    BY DEF IndInv, OrdersInv
  <2>4. \A o \in Orders : ~strayed /\ ~dflt.order_cleared /\ o >= dflt.order_cursor
                            => orders[o].last < dflt.id
    BY DEF IndInv, OrdersInv, OrdersInTurn
  <2> QED
    BY <2>1, <2>2, <2>3, <2>4
<1>5. \A o \in Orders :
         /\ hit(o) \in OrderRecords /\ Once(hit(o), dflt.id)
         /\ hit(o).last = orders[o].last /\ hit(o).core = orders[o].core
         /\ hit(o).seller = orders[o].seller
         /\ Reached(orders[o], dflt.id) => Reached(hit(o), dflt.id)
  <2>1. CASE core
    BY <1>4, <2>1
  <2>2. CASE ~core
    BY <1>1, <1>4, <2>2, MatchedFacts
  <2> QED
    BY <2>1, <2>2
<1> HIDE DEF hit
<1> DEFINE Fine(o, r) ==
             /\ r \in OrderRecords /\ r.last <= dflt.id /\ r.seller \in Accounts
             /\ ~strayed => r.charged <= 1
             /\ r.live => /\ orders[o].live /\ r.core = orders[o].core
                          /\ r.last = orders[o].last /\ Once(r, dflt.id)
                          /\ Reached(orders[o], dflt.id) => Reached(r, dflt.id)
<1>6. \A o \in DOMAIN orders : Fine(o, after(o))
  <2> SUFFICES ASSUME NEW o \in DOMAIN orders PROVE Fine(o, after(o))
    OBVIOUS
  <2>1. CASE o \in filled
    <3>1. after(o) = Gone(hit(o)) /\ o \in Orders
      BY <2>1
    <3>2. hit(o).charged <= 1
      BY <1>5, <3>1 DEF Once
    <3>3. /\ Gone(hit(o)) \in OrderRecords /\ Gone(hit(o)).last = 0
          /\ Gone(hit(o)).charged <= 1 /\ Gone(hit(o)).seller = 1
          /\ ~Gone(hit(o)).live
      BY <1>1, <1>5, <3>1, <3>2, OrderRecordWritten
    <3> QED
      BY <1>0, <1>1, <3>1, <3>3
  <2>2. CASE o \notin filled /\ o \in part /\ culled
    <3>1. after(o) = Cancelled(o, hit(o)) /\ o \in Orders
      BY <2>2
    <3>2. ~strayed => (~dflt.order_cleared /\ o >= dflt.order_cursor => hit(o).last < dflt.id)
      BY <1>4, <1>5, <3>1
    <3>3. /\ Cancelled(o, hit(o)) \in OrderRecords
          /\ Cancelled(o, hit(o)).last = 0
          /\ ~strayed => Cancelled(o, hit(o)).charged <= 1
          /\ Cancelled(o, hit(o)).seller = 1
          /\ ~Cancelled(o, hit(o)).live
      BY <1>1, <1>4, <1>5, <3>1, <3>2, CancelledFacts
    <3> QED
      BY <1>0, <1>1, <3>1, <3>3
  <2>3. CASE o \notin filled /\ o \in part /\ ~culled
    <3>1. after(o) = hit(o) /\ o \in Orders
      BY <2>3
    <3>2. hit(o).charged <= 1 /\ hit(o).last <= dflt.id
      BY <1>5, <3>1 DEF Once
    <3>3. orders[o].seller \in Accounts
      BY DEF IndInv, OrdersInv
    <3> QED
      BY <1>4, <1>5, <3>1, <3>2, <3>3
  <2>4. CASE o \notin filled /\ o \notin part
    <3>1. after(o) = orders[o]
      BY <2>4
    <3>2. /\ orders[o] \in OrderRecords /\ orders[o].last <= dflt.id
          /\ orders[o].seller \in Accounts
          /\ ~strayed => orders[o].charged <= 1
      BY <1>1 DEF IndInv, OrdersInv, OrdersInTurn
    <3>3. orders[o].live => Once(orders[o], dflt.id)
      BY <1>4 DEF Orders
    <3> QED
      BY <3>1, <3>2, <3>3
  <2> QED
    BY <2>1, <2>2, <2>3, <2>4
<1> HIDE DEF after, new
<1> DEFINE rest == [o \in DOMAIN orders |-> after(o)]
<1>7. rest \in Seq(OrderRecords) /\ Len(rest) = Len(orders)
  <2>1. \A o \in 1 .. Len(orders) : after(o) \in OrderRecords
    BY <1>1, <1>6
  <2>2. rest = [o \in 1 .. Len(orders) |-> after(o)]
    BY <1>1
  <2> QED
    BY <1>1, <2>1, <2>2
<1>8. \A o \in DOMAIN orders : rest[o] = after(o)
  OBVIOUS
<1> HIDE DEF rest
<1>9. /\ orders' \in Seq(OrderRecords) /\ Len(orders') = Len(orders) + 1
      /\ \A o \in DOMAIN orders : orders'[o] = rest[o]
      /\ orders'[Len(orders) + 1] = new
  <2>1. orders' = Append(rest, new)
    BY <1>2 DEF rest
  <2> QED
    BY <1>1, <1>3, <1>7, <2>1
<1>10. \A o \in DOMAIN orders : Fine(o, orders'[o])
  BY <1>6, <1>8, <1>9
<1>11. AccountsInv' /\ Accounts' = Accounts
  <2>1. \A b \in Accounts :
           \/ accounts'[b] = accounts[b]
           \/ \E take \in BOOLEAN : accounts'[b] = Prepaid(accounts[b], take)
    BY DEF limit_order_create, Accounts
  <2>2. /\ DOMAIN accounts' = DOMAIN accounts
        /\ accounts' = [b \in DOMAIN accounts |-> accounts'[b]]
    BY DEF limit_order_create
  <2>3. dflt' = dflt
    BY DEF limit_order_create
  <2> QED
    BY <2>1, <2>2, <2>3, AccountsPrepay
<1>12. OrdersInv'
  <2>1. dflt' = dflt /\ strayed' = strayed /\ Len(orders') >= Len(orders)
    BY <1>1, <1>9 DEF limit_order_create
  <2>2. \A o \in Len(orders) + 1 .. Len(orders') :
           /\ orders'[o].last = 0 /\ orders'[o].charged = 0
           /\ orders'[o].seller \in Accounts
    <3>1. \A o \in Len(orders) + 1 .. Len(orders') : o = Len(orders) + 1
      BY <1>1, <1>9
    <3> QED
      BY <1>0, <1>3, <1>9, <3>1
  <2> QED
    BY <1>9, <1>10, <1>11, <2>1, <2>2, OrdersTraded
<1>13. OpsInv' /\ SessionInv'
  BY IdleOps DEF limit_order_create
<1>14. DfltTyped'
  BY DEF limit_order_create, IndInv, DfltTyped
<1> QED
  BY <1>11, <1>12, <1>13, <1>14 DEF IndInv

(* limit_order_cancel.                                                     *)
LEMMA OrderCancelPreserves ==
    ASSUME NEW o \in Orders, IndInv, limit_order_cancel(o)
    PROVE  IndInv'
<1>1. /\ dflt \in Deflations /\ orders \in Seq(OrderRecords) /\ dflt.id \in Nat
      /\ Len(orders) \in Nat /\ DOMAIN orders = 1 .. Len(orders)
  BY DEF IndInv, DfltTyped, OrdersInv, Deflations
<1>2. /\ o \in DOMAIN orders /\ o \in Nat
      /\ orders[o] \in OrderRecords /\ Once(orders[o], dflt.id)
      /\ ~strayed => (~dflt.order_cleared /\ o >= dflt.order_cursor => orders[o].last < dflt.id)
  <2>1. o \in DOMAIN orders /\ o \in Nat
    BY <1>1 DEF Orders
  <2>2. orders[o] \in OrderRecords
    BY <1>1, <2>1
  <2> QED
    BY <2>1, <2>2 DEF IndInv, OrdersInv, OrdersInTurn
<1>3. /\ Cancelled(o, orders[o]) \in OrderRecords
      /\ Cancelled(o, orders[o]).last = 0
      /\ ~strayed => Cancelled(o, orders[o]).charged <= 1
      /\ ~Cancelled(o, orders[o]).live
      /\ Cancelled(o, orders[o]).seller = 1
  BY <1>1, <1>2, CancelledFacts
<1>4. /\ orders' \in Seq(OrderRecords) /\ Len(orders') = Len(orders)
      /\ orders'[o] = Cancelled(o, orders[o])
      /\ \A p \in DOMAIN orders : p # o => orders'[p] = orders[p]
  BY <1>1, <1>2, <1>3 DEF limit_order_cancel
<1>5. AccountsInv' /\ Accounts' = Accounts
  <2>1. \A b \in Accounts :
           \/ accounts'[b] = accounts[b]
           \/ \E take \in BOOLEAN : accounts'[b] = Prepaid(accounts[b], take)
    BY DEF limit_order_cancel, Accounts
  <2>2. /\ DOMAIN accounts' = DOMAIN accounts
        /\ accounts' = [b \in DOMAIN accounts |-> accounts'[b]]
    <3>1. accounts = [b \in DOMAIN accounts |-> accounts[b]]
      BY DEF IndInv, AccountsInv
    <3> QED
      BY <3>1 DEF limit_order_cancel
  <2>3. dflt' = dflt
    BY DEF limit_order_cancel
  <2> QED
    BY <2>1, <2>2, <2>3, AccountsPrepay
<1>6. OrdersInv'
  <2>1. dflt' = dflt /\ strayed' = strayed /\ Len(orders') >= Len(orders)
    BY <1>1, <1>4 DEF limit_order_cancel
  <2>2. \A p \in Len(orders) + 1 .. Len(orders') : FALSE
    BY <1>1, <1>4
  <2>3. \A p \in DOMAIN orders :
           /\ orders'[p].last <= dflt.id /\ orders'[p].seller \in Accounts
           /\ ~strayed => orders'[p].charged <= 1
           /\ orders'[p].live =>
                 /\ orders[p].live /\ orders'[p].core = orders[p].core
                 /\ orders'[p].last = orders[p].last
                 /\ Once(orders'[p], dflt.id)
                 /\ Reached(orders[p], dflt.id) => Reached(orders'[p], dflt.id)
    <3>1. \A p \in DOMAIN orders : /\ orders[p].last <= dflt.id /\ orders[p].seller \in Accounts
                                   /\ ~strayed => orders[p].charged <= 1
      BY DEF IndInv, OrdersInv, OrdersInTurn
    <3>2. \A p \in DOMAIN orders : orders[p].live => Once(orders[p], dflt.id)
      BY DEF IndInv, OrdersInv, Orders
    <3>3. 1 \in Accounts
      BY DEF IndInv, AccountsInv, Accounts
    <3>4. 0 <= dflt.id
      BY <1>1
    <3> SUFFICES ASSUME NEW p \in DOMAIN orders
                 PROVE  /\ orders'[p].last <= dflt.id /\ orders'[p].seller \in Accounts
                        /\ ~strayed => orders'[p].charged <= 1
                        /\ orders'[p].live =>
                              /\ orders[p].live /\ orders'[p].core = orders[p].core
                              /\ orders'[p].last = orders[p].last
                              /\ Once(orders'[p], dflt.id)
                              /\ Reached(orders[p], dflt.id) => Reached(orders'[p], dflt.id)
      OBVIOUS
    <3>5. CASE p = o
      <4>1. orders'[p] = Cancelled(o, orders[o])
        BY <1>4, <3>5
      <4> QED
        BY <1>3, <3>3, <3>4, <4>1
    <3>6. CASE p # o
      <4>1. orders'[p] = orders[p]
        BY <1>4, <3>6
      <4> QED
        BY <3>1, <3>2, <4>1
    <3> QED
      BY <3>5, <3>6
  <2> QED
    BY <1>4, <1>5, <2>1, <2>2, <2>3, OrdersTraded
<1>7. OpsInv' /\ SessionInv'
  BY IdleOps DEF limit_order_cancel
<1>8. DfltTyped'
  BY DEF limit_order_cancel, IndInv, DfltTyped
<1> QED
  BY <1>5, <1>6, <1>7, <1>8 DEF IndInv

(* produce_block: the operations under way begin at the cursor.            *)
LEMMA ProduceBlockPreserves == IndInv /\ produce_block => IndInv'
<1> SUFFICES ASSUME IndInv, produce_block PROVE IndInv'
  OBVIOUS
<1>1. /\ dflt \in Deflations /\ orders \in Seq(OrderRecords) /\ MaxOps \in Nat
      /\ dflt.account_cursor \in Nat /\ dflt.last_account \in Nat
      /\ dflt.order_cursor \in Nat /\ dflt.last_order \in Nat
      /\ Len(orders) \in Nat /\ DOMAIN orders = 1 .. Len(orders)
  BY DeflationAssumption DEF IndInv, DfltTyped, OrdersInv, Deflations
<1> DEFINE due == {o \in Orders : dflt.order_cursor <= o /\ o <= dflt.last_order}
           os  == NextOrders
<1>0. Due = due
  BY DEF Due
<1>2. PICK k \in 0 .. MaxOps :
         /\ os \in Seq(due) /\ k = Len(os)
         /\ \A i, j \in 1 .. k : i < j => os[i] < os[j]
         /\ \A i \in 1 .. k : \A o \in due : o < os[i] => \E j \in 1 .. i - 1 : os[j] = o
         /\ k > 0 => ~dflt.order_cleared
  <2>1. CASE dflt.order_cleared
    <3>1. os = <<>>
      BY <2>1 DEF NextOrders
    <3> QED
      BY <1>1, <3>1
  <2>2. CASE ~dflt.order_cleared
    <3>1. os = FirstOf(due, MaxOps)
      BY <1>0, <2>2 DEF NextOrders
    <3>2. due \in SUBSET Nat /\ \A o \in due : o <= Len(orders)
      BY <1>1 DEF Orders
    <3> HIDE DEF due
    <3>3. IsFiniteSet(due)
      BY <1>1, <3>2, FS_BoundedSetOfNaturals
    <3>4. /\ os \in Seq(due) /\ Len(os) \in 0 .. MaxOps
          /\ \A i, j \in 1 .. Len(os) : i < j => os[i] < os[j]
          /\ \A i \in 1 .. Len(os) : \A o \in due : o < os[i] =>
                \E j \in 1 .. i - 1 : os[j] = o
      BY <1>1, <3>1, <3>2, <3>3, FirstOfFacts, SMTT(30)
    <3> HIDE DEF os
    <3> QED
      BY <2>2, <3>4
  <2> QED
    BY <2>1, <2>2
<1> HIDE DEF os
<1>3. k \in Nat /\ k <= MaxOps /\ \A i \in 1 .. k : os[i] \in due
  BY <1>1, <1>2
<1>4. \A o \in due : o \in Orders /\ o \in Nat /\ dflt.order_cursor <= o /\ o <= dflt.last_order
  BY <1>1 DEF Orders
<1> DEFINE n   == MaxOps - k
           acs == NextAccounts(n)
           m   == Len(acs)
<1>5. n \in Nat /\ n <= MaxOps /\ n + k <= MaxOps
  BY <1>1, <1>3
<1> HIDE DEF n
<1>6. /\ acs \in Seq(Nat) /\ m \in Nat /\ m <= n
      /\ \A i \in 1 .. m : /\ acs[i] = dflt.account_cursor + (i - 1)
                           /\ acs[i] <= dflt.last_account
      /\ m > 0 => ~dflt.balance_cleared
  <2>1. CASE dflt.balance_cleared
    <3>1. acs = <<>>
      BY <2>1 DEF NextAccounts
    <3> QED
      BY <1>5, <3>1
  <2>2. CASE ~dflt.balance_cleared
    <3> DEFINE left == dflt.last_account - dflt.account_cursor + 1
               c == Min({left, n})
    <3>1. left \in Nat
      BY <1>1, <2>2 DEF IndInv, AccountsInv
    <3>2. acs = [i \in 1 .. c |-> dflt.account_cursor + i - 1]
      BY <2>2 DEF NextAccounts
    <3>3. c \in Nat /\ c <= left /\ c <= n
      <4>1. c = IF left <= n THEN left ELSE n
        BY <1>5, <3>1, MinOfTwo
      <4> HIDE DEF c, left
      <4> QED
        BY <1>5, <3>1, <4>1
    <3> HIDE DEF c, acs
    <3>4. \A i \in 1 .. c : dflt.account_cursor + i - 1 \in Nat
      BY <1>1, <3>3
    <3>5. acs \in Seq(Nat) /\ Len(acs) = c
      BY <3>2, <3>3, <3>4
    <3>6. \A i \in 1 .. c : acs[i] = dflt.account_cursor + i - 1
      BY <3>2
    <3> QED
      BY <1>1, <2>2, <3>3, <3>5, <3>6, SMTT(30)
  <2> QED
    BY <2>1, <2>2
<1> HIDE DEF acs
<1> DEFINE A == [i \in DOMAIN os |-> [kind |-> "order", id |-> os[i]]]
           B == [i \in DOMAIN acs |-> [kind |-> "account", id |-> acs[i]]]
<1>7. ops' = A \o B
  BY <1>2 DEF produce_block, Generated, Operations, os, acs, n
<1>8. /\ A \in Seq(Operation) /\ Len(A) = k
      /\ \A i \in 1 .. k : A[i].kind = "order" /\ A[i].id = os[i]
  <2>1. DOMAIN os = 1 .. k
    BY <1>2
  <2>2. \A i \in 1 .. k : [kind |-> "order", id |-> os[i]] \in Operation
    BY <1>3, <1>4 DEF Operation
  <2>3. A = [i \in 1 .. k |-> [kind |-> "order", id |-> os[i]]]
    BY <2>1
  <2> HIDE DEF A
  <2>4. A \in Seq(Operation) /\ Len(A) = k
    BY <1>3, <2>2, <2>3
  <2> QED
    BY <2>3, <2>4
<1>9. /\ B \in Seq(Operation) /\ Len(B) = m
      /\ \A i \in 1 .. m : B[i].kind = "account" /\ B[i].id = acs[i]
  <2>1. DOMAIN acs = 1 .. m
    BY <1>6
  <2>2. \A i \in 1 .. m : [kind |-> "account", id |-> acs[i]] \in Operation
    BY <1>6 DEF Operation
  <2>3. B = [i \in 1 .. m |-> [kind |-> "account", id |-> acs[i]]]
    BY <2>1
  <2> HIDE DEF B
  <2>4. B \in Seq(Operation) /\ Len(B) = m
    BY <1>6, <2>2, <2>3
  <2> QED
    BY <2>3, <2>4
<1> HIDE DEF A, B, m
<1>10. /\ ops' \in Seq(Operation) /\ Len(ops') = k + m
       /\ \A i \in 1 .. k : ops'[i] = A[i]
       /\ \A i \in k + 1 .. Len(ops') : ops'[i] = B[i - k] /\ i - k \in 1 .. m
  <2>1. ops' \in Seq(Operation) /\ Len(ops') = k + m
    BY <1>7, <1>8, <1>9, ConcatProperties
  <2>2. \A i \in 1 .. k : ops'[i] = A[i]
    BY <1>3, <1>6, <1>7, <1>8, <1>9
  <2>3. \A i \in k + 1 .. k + m : ops'[i] = B[i - k]
    BY <1>3, <1>6, <1>7, <1>8, <1>9
  <2> QED
    BY <1>3, <1>6, <2>1, <2>2, <2>3
<1>11. dflt' = dflt /\ orders' = orders /\ accounts' = accounts
  BY DEF produce_block
<1>12. Orders' = Orders /\ Accounts' = Accounts
  BY <1>11 DEF Orders, Accounts
<1>13. OpsFrom(k)'
  <2>1. \A i \in 1 .. k : /\ ops'[i].kind = "order" /\ ops'[i].id = os[i]
    BY <1>8, <1>10
  <2>2. \A i \in 1 .. k : /\ ops'[i].kind = "order" /\ ops'[i].id \in Orders
                          /\ dflt.order_cursor <= ops'[i].id /\ ops'[i].id <= dflt.last_order
    BY <1>3, <1>4, <2>1
  <2>3. \A i, j \in 1 .. k : i < j => ops'[i].id < ops'[j].id
    BY <1>2, <2>1
  <2>4. ASSUME NEW i \in 1 .. k, NEW o \in Orders, dflt.order_cursor <= o, o < ops'[i].id
        PROVE  \E j \in 1 .. i - 1 : ops'[j].id = o
    <3>1. o \in Nat /\ os[i] \in Nat /\ os[i] <= dflt.last_order
      BY <1>1, <1>3, <1>4 DEF Orders
    <3>2. o \in due /\ o < os[i]
      BY <1>1, <2>1, <2>4, <3>1
    <3>3. PICK j \in 1 .. i - 1 : os[j] = o
      BY <1>2, <3>2
    <3>4. j \in 1 .. k
      BY <1>3
    <3> QED
      BY <2>1, <3>3, <3>4
  <2>5. \A i \in k + 1 .. Len(ops') : /\ ops'[i].kind = "account"
                                      /\ ops'[i].id = dflt.account_cursor + (i - k - 1)
                                      /\ ops'[i].id <= dflt.last_account
    BY <1>6, <1>9, <1>10 DEF m
  <2>6. k > 0 => ~dflt.order_cleared
    BY <1>2
  <2>7. Len(ops') > k => ~dflt.balance_cleared
    <3>1. Len(ops') > k => m > 0
      BY <1>3, <1>6, <1>10 DEF m
    <3> QED
      BY <1>6, <3>1 DEF m
  <2> QED
    BY <1>11, <1>12, <2>2, <2>3, <2>4, <2>5, <2>6, <2>7 DEF OpsFrom
<1>14. OpsInv'
  <2>1. Len(ops') <= MaxOps /\ k \in 0 .. Len(ops')
    BY <1>1, <1>3, <1>5, <1>6, <1>10 DEF m, n
  <2> QED
    BY <1>10, <1>13, <2>1 DEF OpsInv
<1>15. DfltTyped' /\ AccountsInv' /\ OrdersInv'
  <2>1. strayed' = strayed
    BY DEF produce_block
  <2> QED
    BY <1>11, <1>12, <2>1 DEF IndInv, DfltTyped, AccountsInv, OrdersInv, OrdersInTurn
<1>16. SessionInv'
  <2>1. session' = IF ops' = <<>> THEN <<>> ELSE <<dflt, accounts, orders>>
    BY DEF produce_block
  <2>2. GoesBackTo(dflt, accounts, orders)'
    <3>1. /\ dflt.order_cursor <= Len(orders) + 1
          /\ \A o \in DOMAIN orders : /\ orders[o].last <= dflt.id
                                      /\ orders[o].seller \in Accounts
                                      /\ orders[o].live => Once(orders[o], dflt.id)
      BY DEF IndInv, OrdersInv, Orders
    <3> QED
      BY <1>11, <1>12, <3>1 DEF GoesBackTo
  <2>3. accounts \in Seq(AccountRecords)
    BY DEF IndInv, AccountsInv
  <2> QED
    BY <1>1, <1>11, <2>1, <2>2, <2>3 DEF SessionInv
<1> QED
  BY <1>14, <1>15, <1>16 DEF IndInv

(* The operation of an account, whoever sends it, moves the cursor on.     *)
LEMMA AccountStep ==
    ASSUME IndInv, NEW b, account_deflation(b)
    PROVE  /\ DfltTyped' /\ AccountsInv' /\ OrdersInv'
           /\ b = dflt.account_cursor /\ b \in Nat /\ b <= dflt.last_account
           /\ dflt' \in Deflations /\ dflt'.id = dflt.id
           /\ dflt'.last_account = dflt.last_account
           /\ dflt'.account_cursor = b + 1 /\ (dflt'.balance_cleared <=> b = dflt.last_account)
           /\ dflt'.last_order = dflt.last_order /\ dflt'.order_cursor = dflt.order_cursor
           /\ dflt'.order_cleared = dflt.order_cleared
           /\ Accounts' = Accounts /\ orders' = orders
<1>1. /\ dflt \in Deflations /\ accounts \in Seq(AccountRecords) /\ dflt.id \in Nat
      /\ dflt.account_cursor \in Nat /\ dflt.last_account \in Nat
      /\ Len(accounts) \in Nat /\ DOMAIN accounts = 1 .. Len(accounts)
  BY DEF IndInv, DfltTyped, AccountsInv, Deflations
<1> DEFINE a == dflt.account_cursor
<1>2. /\ b = a /\ ~dflt.balance_cleared /\ accounts[a].last < dflt.id
      /\ accounts' = [accounts EXCEPT ![a] = Turn(@)]
      /\ orders' = orders /\ strayed' = strayed
  BY DEF account_deflation, AccountEvaluates
<1>3. /\ dflt' \in Deflations /\ dflt'.id = dflt.id /\ dflt'.last_account = dflt.last_account
      /\ dflt'.account_cursor = a + 1 /\ (dflt'.balance_cleared <=> a = dflt.last_account)
      /\ dflt'.last_order = dflt.last_order /\ dflt'.order_cursor = dflt.order_cursor
      /\ dflt'.order_cleared = dflt.order_cleared
  <2>1. PICK over \in BOOLEAN : over <=> a = dflt.last_account
    OBVIOUS
  <2>2. dflt' = [dflt EXCEPT !.account_cursor = a + 1, !.balance_cleared = over]
    BY <2>1 DEF account_deflation, AccountEvaluates
  <2> HIDE DEF a
  <2>3. a \in Nat
    BY <1>1 DEF a
  <2>4. dflt' \in Deflations /\ dflt'.account_cursor = a + 1
    <3>1. dflt' = [id |-> dflt.id, last_account |-> dflt.last_account,
                   account_cursor |-> a + 1, balance_cleared |-> over,
                   last_order |-> dflt.last_order, order_cursor |-> dflt.order_cursor,
                   order_cleared |-> dflt.order_cleared]
      BY <1>1, <2>2, <2>3 DEF Deflations
    <3> QED
      BY <1>1, <2>3, <3>1 DEF Deflations
  <2>6. dflt'.balance_cleared = over
    BY <1>1, <2>2 DEF Deflations
  <2>5. /\ dflt'.id = dflt.id /\ dflt'.last_account = dflt.last_account
        /\ dflt'.last_order = dflt.last_order /\ dflt'.order_cursor = dflt.order_cursor
        /\ dflt'.order_cleared = dflt.order_cleared
    BY <1>1, <2>2, <2>3 DEF Deflations
  <2> QED
    BY <2>1, <2>4, <2>5, <2>6
<1>4. a >= 1 /\ a <= dflt.last_account /\ dflt.last_account <= Len(accounts) /\ a \in Nat
  BY <1>1, <1>2 DEF IndInv, AccountsInv
<1> HIDE DEF a
<1>5. a \in DOMAIN accounts /\ accounts[a] \in AccountRecords /\ Once(accounts[a], dflt.id)
  <2>1. a \in DOMAIN accounts
    BY <1>1, <1>4
  <2> QED
    BY <1>1, <2>1 DEF IndInv, AccountsInv, Accounts
<1>6. /\ Turn(accounts[a]) \in AccountRecords
      /\ Once(Turn(accounts[a]), dflt.id) /\ Reached(Turn(accounts[a]), dflt.id)
  BY <1>1, <1>2, <1>5, AccountTurn
<1>7. /\ accounts' \in Seq(AccountRecords) /\ Len(accounts') = Len(accounts)
      /\ DOMAIN accounts' = DOMAIN accounts
      /\ accounts'[a] = Turn(accounts[a])
      /\ \A c \in DOMAIN accounts : c # a => accounts'[c] = accounts[c]
  BY <1>1, <1>2, <1>5, <1>6
<1>8. AccountsInv'
  <2>1. Accounts' = Accounts /\ \A c \in Accounts : c \in Nat
    BY <1>1, <1>7 DEF Accounts
  <2>2. \A c \in Accounts : Once(accounts'[c], dflt.id)
    BY <1>6, <1>7 DEF IndInv, AccountsInv, Accounts
  <2>3. \A c \in Accounts : c < a + 1 => Reached(accounts'[c], dflt.id)
    <3>1. \A c \in Accounts : c < a => Reached(accounts[c], dflt.id)
      BY DEF IndInv, AccountsInv, a
    <3> QED
      BY <1>4, <1>6, <1>7, <2>1, <3>1 DEF Accounts
  <2>4. \A c \in Accounts : c >= a + 1 => accounts'[c].last < dflt.id
    <3>1. \A c \in Accounts : c >= a => accounts[c].last < dflt.id
      BY <1>2 DEF IndInv, AccountsInv, a
    <3> QED
      BY <1>4, <1>7, <2>1, <3>1 DEF Accounts
  <2>5. dflt'.balance_cleared <=> dflt'.account_cursor = dflt'.last_account + 1
    BY <1>1, <1>3, <1>4
  <2> QED
    BY <1>1, <1>3, <1>4, <1>7, <2>1, <2>2, <2>3, <2>4, <2>5 DEF IndInv, AccountsInv
<1>9. Accounts' = Accounts /\ Orders' = Orders
  BY <1>2, <1>7 DEF Accounts, Orders
<1>10. OrdersInv'
  BY <1>2, <1>3, <1>9 DEF IndInv, OrdersInv, OrdersInTurn
<1>11. DfltTyped'
  BY <1>2, <1>3 DEF IndInv, DfltTyped
<1>12. b = dflt.account_cursor
  BY <1>2 DEF a
<1> QED
  BY <1>2, <1>3, <1>4, <1>8, <1>9, <1>10, <1>11, <1>12

(* The first operation of the transaction is taken off.                    *)
LEMMA OperationTaken ==
    ASSUME IndInv, NEW kind, NextOperation(kind)
    PROVE  /\ ops' \in Seq(Operation) /\ Len(ops') = Len(ops) - 1 /\ Len(ops) \in Nat
           /\ Len(ops) >= 1 /\ Head(ops) = ops[1] /\ ops[1].kind = kind
           /\ \A i \in 1 .. Len(ops') : ops'[i] = ops[i + 1]
           /\ ops' # <<>> => session' = session
           /\ ops' = <<>> => session' = <<>>
<1>1. /\ ops \in Seq(Operation) /\ ops # <<>> /\ Head(ops).kind = kind
      /\ ops' = Tail(ops) /\ session' = IF Len(ops) = 1 THEN <<>> ELSE session
  BY DEF IndInv, OpsInv, NextOperation, Idle
<1>2. /\ ops' \in Seq(Operation) /\ Len(ops') = Len(ops) - 1 /\ Len(ops) \in Nat
      /\ Len(ops) >= 1 /\ Head(ops) = ops[1]
      /\ \A i \in 1 .. Len(ops') : ops'[i] = ops[i + 1]
  BY <1>1
<1>3. ops' = <<>> <=> Len(ops) = 1
  BY <1>2
<1> QED
  BY <1>1, <1>2, <1>3

(* The transaction under way would still be undone to the same state.      *)
LEMMA SessionKept ==
    ASSUME IndInv, NEW kind, NextOperation(kind), Accounts' = Accounts,
           dflt'.id = dflt.id, dflt'.last_account = dflt.last_account,
           dflt'.last_order = dflt.last_order, Len(orders') = Len(orders),
           ops' # <<>> /\ Head(ops').kind = "order" =>
              /\ kind = "order" /\ accounts' = accounts
              /\ dflt'.account_cursor = dflt.account_cursor
              /\ dflt'.balance_cleared = dflt.balance_cleared
    PROVE  SessionInv'
<1>1. ops # <<>> /\ Head(ops).kind = kind
  BY DEF NextOperation, Idle
<1>2. (ops' # <<>> => session' = session) /\ (ops' = <<>> => session' = <<>>)
  BY OperationTaken
<1>3. CASE ops' = <<>>
  BY <1>2, <1>3 DEF SessionInv
<1>4. CASE ops' # <<>>
  <2>1. PICK d \in Deflations, acs \in Seq(AccountRecords), os \in Seq(OrderRecords) :
           session = <<d, acs, os>> /\ GoesBackTo(d, acs, os)
    BY <1>1 DEF IndInv, SessionInv
  <2>2. /\ d.id = dflt'.id /\ d.last_account = dflt'.last_account
        /\ d.last_order = dflt'.last_order
        /\ Len(os) = Len(orders') /\ d.order_cursor <= Len(os) + 1
        /\ \A o \in DOMAIN os : /\ os[o].last <= dflt'.id /\ os[o].seller \in Accounts'
                                /\ os[o].live => Once(os[o], dflt'.id)
    BY <2>1 DEF GoesBackTo
  <2>3. Head(ops').kind = "order" =>
           /\ acs = accounts'
           /\ d.account_cursor = dflt'.account_cursor
           /\ d.balance_cleared = dflt'.balance_cleared
    BY <1>1, <1>4, <2>1 DEF GoesBackTo
  <2>4. session' = <<d, acs, os>> /\ session' # <<>>
    BY <1>1, <1>2, <1>4, <2>1 DEF IndInv, SessionInv
  <2>5. \E e \in Deflations, bcs \in Seq(AccountRecords), ps \in Seq(OrderRecords) :
           /\ session' = <<e, bcs, ps>>
           /\ e.id = dflt'.id /\ e.last_account = dflt'.last_account
           /\ e.last_order = dflt'.last_order
           /\ Len(ps) = Len(orders') /\ e.order_cursor <= Len(ps) + 1
           /\ \A o \in DOMAIN ps : /\ ps[o].last <= dflt'.id /\ ps[o].seller \in Accounts'
                                   /\ ps[o].live => Once(ps[o], dflt'.id)
           /\ Head(ops').kind = "order" =>
                 /\ bcs = accounts'
                 /\ e.account_cursor = dflt'.account_cursor
                 /\ e.balance_cleared = dflt'.balance_cleared
    BY <2>2, <2>3, <2>4
  <2> QED
    BY <1>4, <2>4, <2>5 DEF SessionInv, GoesBackTo
<1> QED
  BY <1>3, <1>4

(* apply_account_deflation.                                                *)
LEMMA AccountDeflationPreserves == IndInv /\ apply_account_deflation => IndInv'
<1> SUFFICES ASSUME IndInv, apply_account_deflation PROVE IndInv'
  OBVIOUS
<1>1. NextOperation("account") /\ account_deflation(Head(ops).id)
  BY DEF apply_account_deflation
<1>2. PICK a : a = Head(ops).id
  OBVIOUS
<1>3. /\ DfltTyped' /\ AccountsInv' /\ OrdersInv'
      /\ a = dflt.account_cursor /\ a \in Nat /\ a <= dflt.last_account
      /\ dflt'.id = dflt.id /\ dflt'.last_account = dflt.last_account
      /\ dflt'.account_cursor = a + 1 /\ (dflt'.balance_cleared <=> a = dflt.last_account)
      /\ dflt'.last_order = dflt.last_order
      /\ Accounts' = Accounts /\ orders' = orders
  BY <1>1, <1>2, AccountStep
<1>4. dflt.last_account \in Nat
  BY DEF IndInv, DfltTyped, Deflations
<1>12. /\ ops' \in Seq(Operation) /\ Len(ops') = Len(ops) - 1 /\ Len(ops) \in Nat
       /\ Len(ops) >= 1 /\ Head(ops) = ops[1] /\ ops[1].kind = "account"
       /\ \A i \in 1 .. Len(ops') : ops'[i] = ops[i + 1]
  BY <1>1, OperationTaken
<1>13. OpsFrom(0)
  <2>1. PICK k \in 0 .. Len(ops) : OpsFrom(k)
    BY DEF IndInv, OpsInv
  <2>2. k = 0
    <3>1. SUFFICES ASSUME k # 0 PROVE FALSE
      OBVIOUS
    <3>2. ops[1].kind = "order"
      BY <2>1, <3>1 DEF OpsFrom
    <3> QED
      BY <1>12, <3>2
  <2> QED
    BY <2>1, <2>2
<1>14. OpsFrom(0)'
  <2>1. \A i \in 1 .. Len(ops) : /\ ops[i].kind = "account" /\ ops[i].id = a + (i - 1)
                                 /\ ops[i].id <= dflt.last_account
    BY <1>3, <1>12, <1>13 DEF OpsFrom
  <2>2. \A i \in 1 .. Len(ops') : /\ ops'[i].kind = "account" /\ ops'[i].id = (a + 1) + (i - 1)
                                  /\ ops'[i].id <= dflt.last_account
    <3> SUFFICES ASSUME NEW i \in 1 .. Len(ops')
                 PROVE  /\ ops'[i].kind = "account" /\ ops'[i].id = (a + 1) + (i - 1)
                        /\ ops'[i].id <= dflt.last_account
      OBVIOUS
    <3>1. i + 1 \in 1 .. Len(ops) /\ ops'[i] = ops[i + 1] /\ (i + 1) - 1 = i
      BY <1>12
    <3>2. ops[i + 1].id = a + i
      BY <2>1, <3>1
    <3>3. a + i = (a + 1) + (i - 1)
      BY <1>3
    <3> QED
      BY <2>1, <3>1, <3>2, <3>3
  <2>3. Len(ops') > 0 => a + 1 <= dflt.last_account
    <3>1. Len(ops') > 0 => ops[2].id = a + 1 /\ ops[2].id <= dflt.last_account
      BY <1>3, <1>12, <2>1
    <3> QED
      BY <3>1
  <2>4. Len(ops') > 0 => ~dflt'.balance_cleared
    BY <1>3, <1>4, <2>3
  <2>5. Len(ops') \in Nat /\ dflt'.account_cursor = a + 1 /\ a \in Nat
        /\ dflt'.last_account = dflt.last_account
    BY <1>3, <1>12
  <2>6. \A i \in 0 + 1 .. Len(ops') : /\ ops'[i].kind = "account"
                                      /\ ops'[i].id = dflt'.account_cursor + (i - 0 - 1)
                                      /\ ops'[i].id <= dflt'.last_account
    BY ONLY <2>2, <2>5
  <2> QED
    BY ONLY <2>4, <2>6 DEF OpsFrom
<1>15. OpsInv'
  <2>1. Len(ops') <= MaxOps
    BY <1>12, DeflationAssumption DEF IndInv, OpsInv
  <2> QED
    BY <1>12, <1>14, <2>1 DEF OpsInv
<1>16. SessionInv'
  <2>1. ops' # <<>> => Head(ops') = ops[2] /\ ops[2].kind = "account"
    <3>1. SUFFICES ASSUME ops' # <<>> PROVE Head(ops') = ops[2] /\ ops[2].kind = "account"
      OBVIOUS
    <3>2. Len(ops') >= 1 /\ Head(ops') = ops'[1] /\ 1 \in 1 .. Len(ops')
      BY <1>12, <3>1
    <3>3. ops'[1] = ops[1 + 1] /\ 2 \in 1 .. Len(ops)
      BY <1>12, <3>2
    <3>4. ops[2].kind = "account"
      BY <1>12, <1>13, <3>3 DEF OpsFrom
    <3> QED
      BY <3>2, <3>3, <3>4
  <2> QED
    BY <1>1, <1>3, <2>1, SessionKept
<1> QED
  BY <1>3, <1>15, <1>16 DEF IndInv

(* The operation of an account in a transaction of its own.                *)
LEMMA AccountTransactionPreserves ==
    ASSUME IndInv, NEW a, account_deflation_of_transaction(a)
    PROVE  IndInv'
<1>1. DfltTyped' /\ AccountsInv' /\ OrdersInv'
  BY AccountStep DEF account_deflation_of_transaction
<1>2. OpsInv' /\ SessionInv'
  BY IdleOps DEF account_deflation_of_transaction
<1> QED
  BY <1>1, <1>2 DEF IndInv

(* The operation of an order, whoever sends it: out of turn it is noted,   *)
(* and in turn it moves the cursor on.                                     *)
LEMMA OrderStep ==
    ASSUME IndInv, NEW q, order_deflation(q)
    PROVE  /\ DfltTyped' /\ AccountsInv' /\ OrdersInv'
           /\ q \in Orders /\ q \in Nat /\ dflt'.id = dflt.id
           /\ dflt'.last_account = dflt.last_account
           /\ dflt'.account_cursor = dflt.account_cursor
           /\ dflt'.balance_cleared = dflt.balance_cleared
           /\ dflt'.last_order = dflt.last_order /\ dflt'.order_cursor = q + 1
           /\ (dflt'.order_cleared <=> q = dflt.last_order)
           /\ Orders' = Orders /\ accounts' = accounts /\ Len(orders') = Len(orders)
<1>1. /\ dflt \in Deflations /\ orders \in Seq(OrderRecords) /\ dflt.id \in Nat
      /\ dflt.order_cursor \in Nat /\ dflt.last_order \in Nat
      /\ Len(orders) \in Nat /\ DOMAIN orders = 1 .. Len(orders)
  BY DEF IndInv, DfltTyped, OrdersInv, Deflations
<1>2. PICK o \in Orders :
         /\ o = q /\ ~dflt.order_cleared
         /\ orders[o].last < dflt.id
         /\ orders' = IF orders[o].core THEN [orders EXCEPT ![o] = Turn(@)] ELSE orders
         /\ dflt' = [dflt EXCEPT !.order_cursor = o + 1,
                                 !.order_cleared = (o = dflt.last_order)]
         /\ strayed' = (strayed \/ ~InTurn(o)) /\ accounts' = accounts
  BY DEF order_deflation, OrderEvaluates, NextOrder
<1>3. o \in DOMAIN orders /\ o \in Nat
  BY <1>1 DEF Orders
<1>4. /\ dflt' \in Deflations /\ dflt'.id = dflt.id /\ dflt'.last_account = dflt.last_account
      /\ dflt'.account_cursor = dflt.account_cursor
      /\ dflt'.balance_cleared = dflt.balance_cleared
      /\ dflt'.last_order = dflt.last_order /\ dflt'.order_cursor = o + 1
      /\ dflt'.order_cleared <=> o = dflt.last_order
  <2>1. PICK over \in BOOLEAN : over <=> o = dflt.last_order
    OBVIOUS
  <2>2. dflt' = [dflt EXCEPT !.order_cursor = o + 1, !.order_cleared = over]
    BY <1>2, <2>1
  <2>3. dflt' = [id |-> dflt.id, last_account |-> dflt.last_account,
                 account_cursor |-> dflt.account_cursor,
                 balance_cleared |-> dflt.balance_cleared,
                 last_order |-> dflt.last_order, order_cursor |-> o + 1,
                 order_cleared |-> over]
    BY <1>1, <1>3, <2>2 DEF Deflations
  <2>4. dflt' \in Deflations
    BY <1>1, <1>3, <2>3 DEF Deflations
  <2> QED
    BY <2>1, <2>3, <2>4
<1>8. InTurn(o) => /\ dflt.order_cursor <= o /\ o <= dflt.last_order
                   /\ \A p \in Orders : ~(dflt.order_cursor <= p /\ p < o)
  <2> SUFFICES ASSUME InTurn(o)
               PROVE  /\ dflt.order_cursor <= o /\ o <= dflt.last_order
                      /\ \A p \in Orders : ~(dflt.order_cursor <= p /\ p < o)
    OBVIOUS
  <2>1. \A p \in Orders : p \in Nat
    BY <1>1 DEF Orders
  <2>2. dflt.order_cursor <= o /\ o <= dflt.last_order
    BY DEF InTurn, Due
  <2>3. \A p \in Orders : dflt.order_cursor <= p /\ p <= dflt.last_order => o <= p
    BY DEF InTurn, Due
  <2> QED
    BY <1>1, <1>3, <2>1, <2>2, <2>3
<1>9. orders[o] \in OrderRecords /\ Once(orders[o], dflt.id) /\ orders[o].live
  <2>1. orders[o] \in OrderRecords
    BY <1>1, <1>3
  <2> QED
    BY <2>1 DEF IndInv, OrdersInv, Orders
<1>10. /\ Turn(orders[o]) \in OrderRecords
       /\ Once(Turn(orders[o]), dflt.id) /\ Reached(Turn(orders[o]), dflt.id)
       /\ Turn(orders[o]).live = orders[o].live /\ Turn(orders[o]).seller = orders[o].seller
       /\ Turn(orders[o]).core = orders[o].core
  BY <1>1, <1>2, <1>9, OrderTurn
<1>11. /\ orders' \in Seq(OrderRecords) /\ Len(orders') = Len(orders)
       /\ DOMAIN orders' = DOMAIN orders
       /\ orders'[o] = IF orders[o].core THEN Turn(orders[o]) ELSE orders[o]
       /\ \A p \in DOMAIN orders : p # o => orders'[p] = orders[p]
  <2>1. CASE orders[o].core
    BY <1>1, <1>2, <1>3, <1>10, <2>1
  <2>2. CASE ~orders[o].core
    BY <1>1, <1>2, <1>3, <2>2
  <2> QED
    BY <2>1, <2>2
<1>12. /\ Once(orders'[o], dflt.id) /\ orders'[o].live /\ orders'[o].core = orders[o].core
       /\ orders'[o].seller = orders[o].seller
       /\ orders'[o].core => Reached(orders'[o], dflt.id)
  <2>1. CASE orders[o].core
    BY <1>9, <1>10, <1>11, <2>1
  <2>2. CASE ~orders[o].core
    BY <1>9, <1>11, <2>2
  <2> QED
    BY <2>1, <2>2
<1>13. Orders' = Orders /\ Accounts' = Accounts
  <2>1. \A p \in DOMAIN orders : orders'[p].live <=> orders[p].live
    BY <1>9, <1>11, <1>12
  <2> QED
    BY <1>2, <1>11, <2>1 DEF Orders, Accounts
<1>14. OrdersInv'
  <2>1. \A p \in DOMAIN orders : /\ orders'[p].last <= dflt.id
                                 /\ OrdersInTurn => orders'[p].charged <= 1
                                 /\ orders'[p].seller \in Accounts
    <3>1. \A p \in DOMAIN orders : /\ orders[p].last <= dflt.id
                                   /\ OrdersInTurn => orders[p].charged <= 1
                                   /\ orders[p].seller \in Accounts
      BY DEF IndInv, OrdersInv, OrdersInTurn
    <3> QED
      BY <1>3, <1>11, <1>12, <3>1 DEF Once
  <2>2. \A p \in Orders : p \in DOMAIN orders /\ p \in Nat
    BY <1>1 DEF Orders
  <2>3. \A p \in Orders : Once(orders'[p], dflt.id)
    <3>1. \A p \in Orders : Once(orders[p], dflt.id)
      BY DEF IndInv, OrdersInv
    <3> QED
      BY <1>11, <1>12, <2>2, <3>1
  <2>4. ASSUME OrdersInTurn, InTurn(o), NEW p \in Orders, orders'[p].core,
               p <= dflt.last_order, dflt'.order_cleared \/ p < o + 1
        PROVE  Reached(orders'[p], dflt.id)
    <3>1. CASE p = o
      BY <1>12, <2>4, <3>1
    <3>2. CASE p # o
      <4>1. p < o
        BY <1>3, <1>4, <2>2, <2>4, <3>2
      <4>2. p < dflt.order_cursor
        BY <1>1, <1>8, <2>2, <2>4, <4>1
      <4>3. orders[p].core /\ orders'[p] = orders[p]
        BY <1>11, <2>2, <2>4, <3>2
      <4>4. Reached(orders[p], dflt.id)
        BY <2>4, <4>2, <4>3 DEF OrdersInTurn
      <4> QED
        BY <4>3, <4>4
    <3> QED
      BY <3>1, <3>2
  <2>5. ASSUME OrdersInTurn, InTurn(o), NEW p \in Orders, p >= o + 1
        PROVE  orders'[p].last < dflt.id
    <3>1. p # o /\ p >= dflt.order_cursor
      BY <1>1, <1>3, <1>8, <2>2, <2>5
    <3>2. orders[p].last < dflt.id
      BY <1>2, <2>5, <3>1 DEF OrdersInTurn
    <3> QED
      BY <1>11, <2>2, <3>1, <3>2
  <2>6. dflt'.last_order <= Len(orders') /\ dflt'.order_cursor <= Len(orders') + 1
    BY <1>1, <1>3, <1>4, <1>11 DEF IndInv, OrdersInv
  <2>7. strayed \in BOOLEAN /\ (strayed \/ OrdersInTurn)
    BY DEF IndInv, OrdersInv
  <2>8. ASSUME ~strayed, InTurn(o)
        PROVE  OrdersInTurn'
    <3>1. OrdersInTurn
      BY <2>7, <2>8
    <3>2. \A p \in DOMAIN orders' : orders'[p].charged <= 1
      BY <1>11, <2>1, <3>1
    <3>3. \A p \in Orders : /\ orders'[p].core /\ p <= dflt.last_order
                            /\ dflt'.order_cleared \/ p < o + 1
                            => Reached(orders'[p], dflt.id)
      BY <2>4, <2>8, <3>1
    <3>4. \A p \in Orders : p >= o + 1 => orders'[p].last < dflt.id
      BY <2>5, <2>8, <3>1
    <3> QED
      BY <1>4, <1>13, <3>2, <3>3, <3>4 DEF OrdersInTurn
  <2>9. strayed' \in BOOLEAN /\ (strayed' \/ OrdersInTurn')
    BY <1>2, <2>7, <2>8
  <2> QED
    BY <1>4, <1>11, <1>13, <2>1, <2>3, <2>6, <2>9 DEF OrdersInv
<1>15. AccountsInv'
  BY <1>2, <1>4, <1>13 DEF IndInv, AccountsInv
<1>16. DfltTyped'
  BY <1>2, <1>4 DEF IndInv, DfltTyped
<1> QED
  BY <1>2, <1>3, <1>4, <1>11, <1>13, <1>14, <1>15, <1>16

(* apply_order_deflation.                                                  *)
LEMMA OrderDeflationPreserves == IndInv /\ apply_order_deflation => IndInv'
<1> SUFFICES ASSUME IndInv, apply_order_deflation PROVE IndInv'
  OBVIOUS
<1>1. /\ dflt \in Deflations /\ orders \in Seq(OrderRecords)
      /\ dflt.order_cursor \in Nat /\ dflt.last_order \in Nat
      /\ dflt.account_cursor \in Nat /\ dflt.last_account \in Nat
      /\ Len(orders) \in Nat /\ DOMAIN orders = 1 .. Len(orders)
  BY DEF IndInv, DfltTyped, OrdersInv, Deflations
<1>2. NextOperation("order") /\ order_deflation(Head(ops).id)
  BY DEF apply_order_deflation
<1>3. PICK o : o = Head(ops).id
  OBVIOUS
<1>4. /\ DfltTyped' /\ AccountsInv' /\ OrdersInv'
      /\ o \in Orders /\ o \in Nat /\ dflt'.id = dflt.id
      /\ dflt'.last_account = dflt.last_account
      /\ dflt'.account_cursor = dflt.account_cursor
      /\ dflt'.balance_cleared = dflt.balance_cleared
      /\ dflt'.last_order = dflt.last_order /\ dflt'.order_cursor = o + 1
      /\ (dflt'.order_cleared <=> o = dflt.last_order)
      /\ Orders' = Orders /\ accounts' = accounts /\ Len(orders') = Len(orders)
  BY <1>2, <1>3, OrderStep
<1>5. /\ ops' \in Seq(Operation) /\ Len(ops') = Len(ops) - 1 /\ Len(ops) \in Nat
      /\ Len(ops) >= 1 /\ Head(ops) = ops[1] /\ ops[1].kind = "order"
      /\ \A i \in 1 .. Len(ops') : ops'[i] = ops[i + 1]
  BY <1>2, OperationTaken
<1>6. PICK k \in 0 .. Len(ops) : OpsFrom(k)
  BY DEF IndInv, OpsInv
<1>7. k >= 1 /\ ops[1].id = o /\ k \in Nat
  <2>1. SUFFICES ASSUME k = 0 PROVE FALSE
    BY <1>3, <1>5, <1>6
  <2>2. ops[1].kind = "account"
    BY <1>5, <1>6, <2>1 DEF OpsFrom
  <2> QED
    BY <1>5, <2>2
<1>8. dflt.order_cursor <= o
  <2>1. 1 \in 1 .. k
    BY <1>7
  <2> QED
    BY <1>6, <1>7, <2>1 DEF OpsFrom
<1>17. PICK m \in Nat : m = k - 1
  BY <1>7
<1>18. \A i \in 1 .. m : i + 1 \in 1 .. k /\ ops'[i] = ops[i + 1] /\ i \in Nat
  BY <1>5, <1>6, <1>7, <1>17
<1>19. OpsFrom(m)'
  <2>0. \A i \in 1 .. k : \A j \in 1 .. k : i < j => ops[i].id < ops[j].id
    BY <1>6 DEF OpsFrom
  <2>1. \A i \in 1 .. m : o < ops[i + 1].id
    <3> SUFFICES ASSUME NEW i \in 1 .. m PROVE o < ops[i + 1].id
      OBVIOUS
    <3>1. 1 \in 1 .. k /\ i + 1 \in 1 .. k /\ 1 < i + 1
      BY <1>7, <1>18
    <3> QED
      BY <1>7, <2>0, <3>1
  <2>2. \A i \in 1 .. k : /\ ops[i].kind = "order" /\ ops[i].id \in Orders
                          /\ ops[i].id <= dflt.last_order
    BY <1>6 DEF OpsFrom
  <2>3. \A p \in Orders : p \in Nat
    BY <1>1 DEF Orders
  <2>4. \A i \in 1 .. m : /\ ops'[i].kind = "order" /\ ops'[i].id \in Orders
                          /\ o + 1 <= ops'[i].id /\ ops'[i].id <= dflt.last_order
    <3>1. o \in Nat
      BY <1>4
    <3> QED
      BY ONLY <1>18, <2>1, <2>2, <2>3, <3>1
  <2>5. ASSUME NEW i \in 1 .. m, NEW j \in 1 .. m, i < j
        PROVE  ops'[i].id < ops'[j].id
    <3>1. i + 1 < j + 1 /\ i + 1 \in 1 .. k /\ j + 1 \in 1 .. k
      BY <1>18, <2>5
    <3> QED
      BY <1>18, <2>0, <3>1
  <2>6. ASSUME NEW i \in 1 .. m, NEW p \in Orders, o + 1 <= p, p < ops'[i].id
        PROVE  \E j \in 1 .. i - 1 : ops'[j].id = p
    <3>1. dflt.order_cursor <= p /\ p # o
      BY <1>1, <1>4, <1>8, <2>3, <2>6
    <3>2. i + 1 \in 1 .. k /\ p < ops[i + 1].id
      BY <1>18, <2>6
    <3>3. PICK j \in 1 .. (i + 1) - 1 : ops[j].id = p
      BY <1>6, <3>1, <3>2 DEF OpsFrom
    <3>4. j # 1
      BY <1>7, <3>1, <3>3
    <3>5. j - 1 \in 1 .. i - 1 /\ j - 1 \in 1 .. m /\ (j - 1) + 1 = j
      BY <1>17, <3>4
    <3>6. ops'[j - 1] = ops[j]
      BY <1>18, <3>5
    <3> QED
      BY <3>3, <3>5, <3>6
  <2>7. m > 0 => ~dflt'.order_cleared
    <3>1. SUFFICES ASSUME m > 0 PROVE ~dflt'.order_cleared
      OBVIOUS
    <3>2. 1 \in 1 .. m /\ 2 \in 1 .. k /\ 1 + 1 = 2
      BY <1>17, <3>1
    <3>3. o < ops[2].id /\ ops[2].id <= dflt.last_order /\ ops[2].id \in Nat
      BY <2>1, <2>2, <2>3, <3>2
    <3>4. o # dflt.last_order
      BY <1>1, <1>4, <3>3
    <3> QED
      BY <1>4, <3>4
  <2>8. \A i \in m + 1 .. Len(ops') : /\ ops'[i].kind = "account"
                                      /\ ops'[i].id = dflt.account_cursor + (i - m - 1)
                                      /\ ops'[i].id <= dflt.last_account
    <3> SUFFICES ASSUME NEW i \in m + 1 .. Len(ops')
                 PROVE  /\ ops'[i].kind = "account"
                        /\ ops'[i].id = dflt.account_cursor + (i - m - 1)
                        /\ ops'[i].id <= dflt.last_account
      OBVIOUS
    <3>1. i + 1 \in k + 1 .. Len(ops) /\ ops'[i] = ops[i + 1] /\ (i + 1) - k - 1 = i - m - 1
      BY <1>5, <1>7, <1>17
    <3>2. /\ ops[i + 1].kind = "account" /\ ops[i + 1].id <= dflt.last_account
          /\ ops[i + 1].id = dflt.account_cursor + ((i + 1) - k - 1)
      BY <1>6, <3>1 DEF OpsFrom
    <3> QED
      BY <3>1, <3>2
  <2>9. Len(ops') > m => ~dflt.balance_cleared
    <3>1. Len(ops') > m => Len(ops) > k
      BY <1>5, <1>7, <1>17
    <3> QED
      BY <1>6, <3>1 DEF OpsFrom
  <2> QED
    BY <1>4, <2>4, <2>5, <2>6, <2>7, <2>8, <2>9 DEF OpsFrom
<1>20. OpsInv'
  <2>1. Len(ops') <= MaxOps
    BY <1>5, DeflationAssumption DEF IndInv, OpsInv
  <2>2. m \in 0 .. Len(ops')
    BY <1>5, <1>6, <1>7, <1>17
  <2> QED
    BY <1>5, <1>19, <2>1, <2>2 DEF OpsInv
<1>21. SessionInv'
  <2>1. Accounts' = Accounts
    BY <1>4 DEF Accounts
  <2> QED
    BY <1>2, <1>4, <2>1, SessionKept
<1> QED
  BY <1>4, <1>20, <1>21 DEF IndInv

(* The operation of an order in a transaction of its own.                  *)
LEMMA OrderTransactionPreserves ==
    ASSUME IndInv, NEW o, order_deflation_of_transaction(o)
    PROVE  IndInv'
<1>1. DfltTyped' /\ AccountsInv' /\ OrdersInv'
  BY OrderStep DEF order_deflation_of_transaction
<1>2. OpsInv' /\ SessionInv'
  BY IdleOps DEF order_deflation_of_transaction
<1> QED
  BY <1>1, <1>2 DEF IndInv

(* The next operation evaluates, or an order comes up again.               *)
LEMMA OperationEvaluates ==
    ASSUME IndInv, ~Idle
    PROVE  \/ HeadEvaluates
           \/ /\ strayed
              /\ Head(ops).kind = "order"
              /\ ~dflt.order_cleared
              /\ Head(ops).id \in Orders /\ orders[Head(ops).id].last = dflt.id
<1>1. ops \in Seq(Operation) /\ Head(ops) = ops[1] /\ Len(ops) \in Nat /\ Len(ops) >= 1
  BY DEF IndInv, OpsInv, Idle
<1>2. PICK k \in 0 .. Len(ops) : OpsFrom(k)
  BY DEF IndInv, OpsInv
<1>3. CASE k = 0
  <2>1. /\ ops[1].kind = "account" /\ ops[1].id = dflt.account_cursor + (1 - 0 - 1)
        /\ ops[1].id <= dflt.last_account /\ ~dflt.balance_cleared
    BY <1>1, <1>2, <1>3 DEF OpsFrom
  <2>2. ops[1].id = dflt.account_cursor /\ dflt.account_cursor \in Nat
    BY <2>1 DEF IndInv, DfltTyped, Deflations
  <2>3. dflt.account_cursor \in Accounts
    <3>1. DOMAIN accounts = 1 .. Len(accounts) /\ Len(accounts) \in Nat
      BY DEF IndInv, AccountsInv
    <3> QED
      BY <2>1, <2>2, <3>1 DEF IndInv, DfltTyped, Deflations, AccountsInv, Accounts
  <2>4. accounts[dflt.account_cursor].last < dflt.id
    BY <2>1, <2>2, <2>3 DEF IndInv, AccountsInv
  <2> QED
    BY <1>1, <2>1, <2>2, <2>4 DEF AccountEvaluates, HeadEvaluates
<1>4. CASE k # 0
  <2>1. /\ ops[1].kind = "order" /\ ops[1].id \in Orders
        /\ dflt.order_cursor <= ops[1].id /\ ~dflt.order_cleared
    <3>1. 1 \in 1 .. k /\ k > 0
      BY <1>1, <1>4
    <3> QED
      BY <1>2, <3>1 DEF OpsFrom
  <2>2. /\ ops[1].id \in Nat /\ dflt.order_cursor \in Nat /\ dflt.id \in Nat
        /\ ops[1].id \in DOMAIN orders
    BY <2>1 DEF IndInv, OrdersInv, Orders, DfltTyped, Deflations
  <2>3. orders[ops[1].id].last \in Nat /\ orders[ops[1].id].last <= dflt.id
    <3>1. orders \in Seq(OrderRecords) /\ orders[ops[1].id].last <= dflt.id
      BY <2>2 DEF IndInv, OrdersInv
    <3>2. orders[ops[1].id] \in OrderRecords
      BY <2>2, <3>1
    <3> QED
      BY <3>1, <3>2 DEF OrderRecords
  <2>4. CASE orders[ops[1].id].last < dflt.id
    BY <1>1, <2>1, <2>4 DEF OrderEvaluates, HeadEvaluates
  <2>5. CASE orders[ops[1].id].last = dflt.id
    <3>1. ~OrdersInTurn
      BY <2>1, <2>2, <2>3, <2>5 DEF OrdersInTurn
    <3>2. strayed
      BY <3>1 DEF IndInv, OrdersInv
    <3> QED
      BY <1>1, <2>1, <2>5, <3>2
  <2> QED
    BY <2>2, <2>3, <2>4, <2>5
<1> QED
  BY <1>3, <1>4

(* deflation_fails: an order comes up again, so no account has had its     *)
(* turn in this transaction.                                               *)
LEMMA FailurePreserves == IndInv /\ deflation_fails => IndInv'
<1> SUFFICES ASSUME IndInv, deflation_fails PROVE IndInv'
  OBVIOUS
<1>1. ops # <<>> /\ strayed /\ Head(ops).kind = "order" /\ ~dflt.order_cleared
  BY OperationEvaluates DEF deflation_fails, Idle
<1>2. PICK d \in Deflations, acs \in Seq(AccountRecords), os \in Seq(OrderRecords) :
         session = <<d, acs, os>> /\ GoesBackTo(d, acs, os)
  BY <1>1 DEF IndInv, SessionInv
<1>3. session[1] = d /\ session[2] = acs /\ session[3] = os
  BY <1>2
<1>4. /\ dflt' = d /\ accounts' = acs /\ orders' = os /\ strayed' = strayed
      /\ ops' = <<>> /\ session' = <<>>
  BY <1>3 DEF deflation_fails
<1>5. /\ acs = accounts /\ d.account_cursor = dflt.account_cursor
      /\ d.balance_cleared = dflt.balance_cleared
      /\ d.id = dflt.id /\ d.last_account = dflt.last_account /\ d.last_order = dflt.last_order
  BY <1>1, <1>2 DEF GoesBackTo
<1>6. DfltTyped'
  BY <1>1, <1>4, <1>5 DEF IndInv, DfltTyped
<1>7. Accounts' = Accounts
  BY <1>4, <1>5 DEF Accounts
<1>8. AccountsInv'
  BY <1>4, <1>5, <1>7 DEF IndInv, AccountsInv
<1>9. OrdersInv'
  <2>1. /\ Len(os) = Len(orders) /\ d.order_cursor <= Len(os) + 1
        /\ \A o \in DOMAIN os : /\ os[o].last <= dflt.id /\ os[o].seller \in Accounts
                                /\ os[o].live => Once(os[o], dflt.id)
    BY <1>2 DEF GoesBackTo
  <2>2. dflt.last_order <= Len(orders)
    BY DEF IndInv, OrdersInv
  <2>3. \A o \in Orders' : Once(os[o], dflt.id)
    <3>1. \A o \in Orders' : o \in DOMAIN os /\ os[o].live
      BY <1>4 DEF Orders
    <3> QED
      BY <2>1, <3>1
  <2>4. strayed' = TRUE
    BY <1>1, <1>4 DEF IndInv, OrdersInv
  <2> QED
    BY <1>4, <1>5, <1>7, <2>1, <2>2, <2>3, <2>4 DEF OrdersInv
<1>10. OpsInv'
  <2>1. ops' \in Seq(Operation) /\ Len(ops') = 0 /\ MaxOps \in Nat
    BY <1>4, DeflationAssumption
  <2>2. OpsFrom(0)'
    BY <2>1 DEF OpsFrom
  <2> QED
    BY <2>1, <2>2 DEF OpsInv
<1>11. SessionInv'
  BY <1>4 DEF SessionInv
<1> QED
  BY <1>6, <1>8, <1>9, <1>10, <1>11 DEF IndInv
-----------------------------------------------------------------------------
(***************************************************************************)
(* The results.                                                            *)
(***************************************************************************)
LEMMA NextInv == IndInv /\ [Next]_vars => IndInv'
<1> SUFFICES ASSUME IndInv, [Next]_vars PROVE IndInv'
  OBVIOUS
<1>1. CASE deflation
  BY <1>1, DeflationPreserves
<1>2. CASE create_account
  BY <1>2, CreateAccountPreserves
<1>3. CASE Trade
  <2>1. CASE \E from, to \in Accounts : transfer(from, to)
    BY <2>1, TransferPreserves
  <2>2. ASSUME NEW a \in Accounts, NEW core \in BOOLEAN,
               NEW filled \in SUBSET {o \in Orders : orders[o].core # core},
               NEW part \in {{}} \cup {{o} : o \in {p \in Orders : orders[p].core # core}},
               NEW culled \in BOOLEAN,
               limit_order_create(a, core, filled, part, culled)
        PROVE  IndInv'
    <3>1. filled \in SUBSET Orders /\ part \in SUBSET Orders
      OBVIOUS
    <3> QED
      BY <2>2, <3>1, OrderCreatePreserves
  <2>3. CASE \E o \in Orders : limit_order_cancel(o)
    BY <2>3, OrderCancelPreserves
  <2>4. CASE \E a \in Accounts : account_deflation_of_transaction(a)
    BY <2>4, AccountTransactionPreserves
  <2>5. CASE \E o \in Orders : order_deflation_of_transaction(o)
    BY <2>5, OrderTransactionPreserves
  <2> QED
    BY <1>3, <2>1, <2>2, <2>3, <2>4, <2>5 DEF Trade
<1>4. CASE Chain
  BY <1>4, ProduceBlockPreserves, AccountDeflationPreserves, OrderDeflationPreserves,
     FailurePreserves DEF Chain
<1>5. CASE UNCHANGED vars
  <2>1. Accounts' = Accounts /\ Orders' = Orders
    BY <1>5 DEF vars, Accounts, Orders
  <2>2. DfltTyped' /\ AccountsInv' /\ OrdersInv'
    BY <1>5, <2>1 DEF vars, IndInv, DfltTyped, AccountsInv, OrdersInv, OrdersInTurn
  <2>3. PICK k \in 0 .. Len(ops) : OpsFrom(k)
    BY DEF IndInv, OpsInv
  <2>4. OpsFrom(k)'
    BY <1>5, <2>1, <2>3 DEF vars, OpsFrom
  <2>5. OpsInv'
    BY <1>5, <2>3, <2>4 DEF vars, IndInv, OpsInv
  <2>6. SessionInv'
    BY <1>5, <2>1 DEF vars, IndInv, SessionInv, GoesBackTo
  <2> QED
    BY <2>2, <2>5, <2>6 DEF IndInv
<1> QED
  BY <1>1, <1>2, <1>3, <1>4, <1>5 DEF Next

(* The invariant holds always.                                             *)
THEOREM Invariance == Spec => []IndInv
<1> QED
  BY InitInv, NextInv, PTL DEF Spec

(* The cursors and the last ids stay within the accounts and the orders,   *)
(* no record is ahead of the running deflation, and a transaction has no   *)
(* more operations than the block may hold.                                *)
THEOREM TypeCorrectness == Spec => []TypeOK
<1>1. IndInv => TypeOK
  <2> SUFFICES ASSUME IndInv PROVE TypeOK
    OBVIOUS
  <2>1. /\ dflt.id \in 0 .. MaxDeflations /\ Len(ops) <= MaxOps
        /\ dflt.last_account \in 0 .. Len(accounts)
        /\ dflt.account_cursor \in 1 .. Len(accounts) + 1
    BY DeflationAssumption DEF IndInv, DfltTyped, AccountsInv, OpsInv, Deflations
  <2>2. dflt.last_order \in 0 .. Len(orders) /\ dflt.order_cursor \in 0 .. Len(orders) + 1
    BY DEF IndInv, DfltTyped, OrdersInv, Deflations
  <2>3. \A a \in Accounts : accounts[a].last \in 0 .. dflt.id
    <3>1. \A a \in Accounts : accounts[a] \in AccountRecords /\ accounts[a].last <= dflt.id
      BY DEF IndInv, AccountsInv, Accounts, Once
    <3> QED
      BY <2>1, <3>1 DEF AccountRecords
  <2>4. \A o \in DOMAIN orders :
           orders[o].last \in 0 .. dflt.id /\ orders[o].seller \in Accounts
    <3>1. \A o \in DOMAIN orders : /\ orders[o] \in OrderRecords
                                   /\ orders[o].last <= dflt.id /\ orders[o].seller \in Accounts
      BY DEF IndInv, OrdersInv
    <3> QED
      BY <2>1, <3>1 DEF OrderRecords
  <2>5. (session = <<>> <=> Idle) /\ strayed \in BOOLEAN
    BY DEF IndInv, SessionInv, OrdersInv, Idle
  <2> QED
    BY <2>1, <2>2, <2>3, <2>4, <2>5 DEF TypeOK
<1> QED
  BY <1>1, Invariance, PTL

(* No balance and no order is charged twice by one deflation, however its  *)
(* turn falls between transfers, fills and cancellations, but for an order *)
(* that is cancelled after an order operation out of turn.                 *)
THEOREM NobodyPaysTwice == Spec => []ChargedAtMostOnce
<1>1. IndInv => ChargedAtMostOnce
  <2> SUFFICES ASSUME IndInv PROVE ChargedAtMostOnce
    OBVIOUS
  <2>1. \A a \in Accounts : accounts[a].charged <= 1
    BY DEF IndInv, AccountsInv, Once
  <2>2. \A o \in Orders : orders[o].charged <= 1
    BY DEF IndInv, OrdersInv, Once
  <2>3. strayed \/ \A o \in DOMAIN orders : orders[o].charged <= 1
    BY DEF IndInv, OrdersInv, OrdersInTurn
  <2> QED
    BY <2>1, <2>2, <2>3 DEF ChargedAtMostOnce, Orders
<1> QED
  BY <1>1, Invariance, PTL

(* Every operation of a deflation transaction evaluates when its turn      *)
(* comes, so that the producer's transaction is refused for one reason     *)
(* only: an order operation out of turn makes an order come up again.      *)
THEOREM TransactionsApply == Spec => []TransactionApplies
<1>1. IndInv => TransactionApplies
  BY OperationEvaluates DEF TransactionApplies
<1> QED
  BY <1>1, Invariance, PTL

(* A part of a deflation that is flagged as cleared has reached every      *)
(* account, and without an order operation out of turn every order it was  *)
(* meant for, and left no mark behind.                                     *)
THEOREM ClearedReachedAll == Spec => []ClearedMeansAll
<1>1. IndInv => ClearedMeansAll
  <2> SUFFICES ASSUME IndInv PROVE ClearedMeansAll
    OBVIOUS
  <2>1. ASSUME dflt.balance_cleared, NEW a \in 1 .. dflt.last_account
        PROVE  accounts[a].last = dflt.id /\ ~accounts[a].cleared
    <3>1. /\ dflt.last_account \in Nat /\ dflt.last_account <= Len(accounts)
          /\ DOMAIN accounts = 1 .. Len(accounts) /\ Len(accounts) \in Nat
          /\ dflt.account_cursor = dflt.last_account + 1
      BY <2>1 DEF IndInv, DfltTyped, Deflations, AccountsInv
    <3>2. a \in Accounts /\ a < dflt.account_cursor
      BY <3>1 DEF Accounts
    <3> QED
      BY <3>2 DEF IndInv, AccountsInv, Reached
  <2>2. ASSUME dflt.order_cleared, ~strayed, NEW o \in Orders, o <= dflt.last_order,
               orders[o].core
        PROVE  orders[o].last = dflt.id /\ ~orders[o].cleared
    BY <2>2 DEF IndInv, OrdersInv, OrdersInTurn, Reached
  <2> QED
    BY <2>1, <2>2 DEF ClearedMeansAll
<1> QED
  BY <1>1, Invariance, PTL
=============================================================================
