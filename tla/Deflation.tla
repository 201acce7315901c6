----------------------------- MODULE Deflation -----------------------------
(***************************************************************************)
(* A deflation takes the same part of every balance and of every order     *)
(* that sells the core asset.  It does so over many blocks: the producer   *)
(* of a block inserts a transaction with the next orders and the next      *)
(* accounts (db_deflation.cpp, deflation_evaluator.cpp).  In the meantime  *)
(* accounts go on to trade, so whoever is touched by a transfer, an order  *)
(* or a fill before its turn comes is charged at once and marked as        *)
(* cleared (transfer_evaluator.cpp, market_evaluator.cpp, db_market.cpp).  *)
(*                                                                         *)
(* The operations of a deflation may also stand in a transaction of any    *)
(* account.  One for an account has to name the account at the cursor, so  *)
(* it does what the producer's does; one for an order may name any order   *)
(* that is not marked with this deflation, and sets the cursor behind it.  *)
(* strayed records that this happened out of turn: then the producer's     *)
(* transaction can fail, and is left out of the block.                     *)
(*                                                                         *)
(* Abstractions.  Amounts are left out: charged counts how often the       *)
(* running deflation has taken its part of a balance or an order.  Which   *)
(* orders a new order fills is left to the environment, and so is whether  *)
(* the seller has the amount, and the interval between two deflations.  A  *)
(* record that does not exist is one with last 0 that is not cleared: the  *)
(* code asks for both in the same way.  Accounts below the start marker,   *)
(* which no deflation reaches, are left out.  The operations of a          *)
(* deflation transaction are steps of their own; a transaction of another  *)
(* kind that holds several operations is one step for each.  An operation  *)
(* names the latest deflation: all earlier ones are over, and refuse it.   *)
(***************************************************************************)
EXTENDS Integers, Sequences, FiniteSets, FiniteSetsExt

CONSTANTS
    MaxOps,          \* GRAPHENE_DEFAULT_MAX_DEFLATION_OPERATIONS_PER_BLOCK
    FirstAccounts,   \* how many accounts there are at the start
    MaxAccounts,     \* bound: how many accounts are ever created
    MaxOrders,       \* bound: how many orders are ever created
    MaxDeflations    \* bound: how many deflations are issued

ASSUME DeflationAssumption ==
    /\ {MaxOps, FirstAccounts, MaxAccounts, MaxOrders, MaxDeflations} \subseteq Nat \ {0}
    /\ FirstAccounts <= MaxAccounts

VARIABLES
    dflt,       \* the latest deflation_object
    accounts,   \* account_deflation_object of each account, by id
    orders,     \* limit orders with their order_deflation_object, by id
    ops,        \* the rest of the deflation transaction that is applied
    session,    \* the state its undo session goes back to
    strayed     \* history: this deflation had an order operation out of turn

vars == <<dflt, accounts, orders, ops, session, strayed>>

Fresh == [last |-> 0, cleared |-> FALSE, charged |-> 0]

(* core: the order sells the core asset; live: it is in the index.         *)
NewOrder(a, c) == [seller |-> a, core |-> c, live |-> TRUE,
                   last |-> 0, cleared |-> FALSE, charged |-> 0]

Accounts == DOMAIN accounts
Orders   == {o \in DOMAIN orders : orders[o].live}
Idle     == ops = <<>>

Init ==
    /\ dflt = [id |-> 0, last_account |-> 0, account_cursor |-> 1, balance_cleared |-> TRUE,
               last_order |-> 0, order_cursor |-> 0, order_cleared |-> TRUE]
    /\ accounts = [a \in 1 .. FirstAccounts |-> Fresh]
    /\ orders = <<>>
    /\ ops = <<>>
    /\ session = <<>>
    /\ strayed = FALSE
-----------------------------------------------------------------------------
Uncharged(s) == [i \in DOMAIN s |-> [s[i] EXCEPT !.charged = 0]]

(* deflation_evaluator: one deflation at a time.                           *)
deflation ==
    /\ Idle
    /\ dflt.id < MaxDeflations
    /\ dflt.balance_cleared /\ dflt.order_cleared
    /\ dflt' = [id              |-> dflt.id + 1,
                last_account    |-> Len(accounts),
                account_cursor  |-> 1,
                balance_cleared |-> FALSE,
                last_order      |-> IF Orders = {} THEN 0 ELSE Max(Orders),
                order_cursor    |-> IF Orders = {} THEN 0 ELSE Min(Orders),
                order_cleared   |-> Orders = {}]
    /\ accounts' = Uncharged(accounts)
    /\ orders' = Uncharged(orders)
    /\ strayed' = FALSE
    /\ UNCHANGED <<ops, session>>

create_account ==
    /\ Idle
    /\ Len(accounts) < MaxAccounts
    /\ accounts' = Append(accounts, Fresh)
    /\ UNCHANGED <<dflt, orders, ops, session, strayed>>
-----------------------------------------------------------------------------
(* An account that is touched before its turn.  take says whether its part *)
(* is taken from the balance, or only noted down.                          *)
Waiting(r) == r.last < dflt.id /\ ~r.cleared

Charge(r)  == [r EXCEPT !.charged = @ + 1]

(* Mutant: who was already cleared is charged again.                       *)
PrepaidAgain(r, take) ==
    IF ~dflt.balance_cleared /\ r.last < dflt.id
    THEN [(IF take THEN Charge(r) ELSE r) EXCEPT !.cleared = TRUE]
    ELSE r

Prepaid(r, take) ==
    IF ~dflt.balance_cleared /\ Waiting(r)
    THEN [(IF take THEN Charge(r) ELSE r) EXCEPT !.cleared = TRUE]
    ELSE r

transfer(from, to) ==
    /\ Idle
    /\ from # to
    /\ accounts' = [accounts EXCEPT ![from] = Prepaid(@, TRUE), ![to] = Prepaid(@, TRUE)]
    /\ UNCHANGED <<dflt, orders, ops, session, strayed>>

(* apply_order charges an order of the core asset before it is matched.    *)
Matched(r) == IF ~dflt.order_cleared /\ Waiting(r)
              THEN [Charge(r) EXCEPT !.cleared = TRUE] ELSE r

(* A filled order is removed, and its record with it: what is kept of it   *)
(* is how often it was charged.                                            *)
Gone(r) == [NewOrder(1, FALSE) EXCEPT !.live = FALSE, !.charged = r.charged]

(* cancel_order of the database: an order whose turn would have come is    *)
(* charged on its way out.  r is its record.                               *)
Cancelled(o, r) ==
    Gone(IF /\ r.core
            /\ ~dflt.order_cleared
            /\ dflt.order_cursor <= o /\ o <= dflt.last_order
            /\ ~r.cleared
         THEN Charge(r) ELSE r)

(* limit_order_create_evaluator: a new order of either kind, the orders it *)
(* fills, and one that it fills in part; then it is filled itself.  What   *)
(* is left of an order may be too small to be sold, and is culled.         *)
limit_order_create(a, core, filled, part, culled) ==
    /\ Idle
    /\ Len(orders) < MaxOrders
    /\ filled \cap part = {}
    /\ culled => filled \cup part # {}
    /\ LET hit(o) == IF core THEN orders[o] ELSE Matched(orders[o])
           after(o) == IF o \in filled THEN Gone(hit(o))
                       ELSE IF o \in part THEN IF culled THEN Cancelled(o, hit(o)) ELSE hit(o)
                       ELSE orders[o]
           done == part # {} \/ culled
       IN orders' = Append([o \in DOMAIN orders |-> after(o)],
                           IF done THEN Gone(NewOrder(a, core)) ELSE NewOrder(a, core))
    /\ accounts' = [accounts EXCEPT ![a] = Prepaid(@, core)]
    /\ UNCHANGED <<dflt, ops, session, strayed>>

(* The operation of the owner, and of clear_expired_orders.                *)
limit_order_cancel(o) ==
    /\ Idle
    /\ orders' = [orders EXCEPT ![o] = Cancelled(o, @)]
    /\ accounts' = IF orders[o].core
                   THEN [accounts EXCEPT ![orders[o].seller] = Prepaid(@, FALSE)]
                   ELSE accounts
    /\ UNCHANGED <<dflt, ops, session, strayed>>
-----------------------------------------------------------------------------
(* The i-th number of a set, and its first n.                              *)
Ranked(S, i)  == CHOOSE x \in S : Cardinality({y \in S : y < x}) = i - 1
FirstOf(S, n) == [i \in 1 .. Min({Cardinality(S), n}) |-> Ranked(S, i)]

(* The orders and the accounts of the next transaction, n accounts at most.*)
Due == {o \in Orders : dflt.order_cursor <= o /\ o <= dflt.last_order}

NextOrders == IF dflt.order_cleared THEN <<>> ELSE FirstOf(Due, MaxOps)

NextAccounts(n) ==
    IF dflt.balance_cleared THEN <<>>
    ELSE [i \in 1 .. Min({dflt.last_account - dflt.account_cursor + 1, n}) |->
            dflt.account_cursor + i - 1]

Operations(os, acs) ==
    [i \in DOMAIN os |-> [kind |-> "order", id |-> os[i]]]
      \o [i \in DOMAIN acs |-> [kind |-> "account", id |-> acs[i]]]

(* Mutant: op_cnt starts again at the accounts.                            *)
GeneratedTwofold == Operations(NextOrders, NextAccounts(MaxOps))

(* Mutant: the accounts wait for the orders.                               *)
GeneratedInTurn ==
    Operations(NextOrders, IF dflt.order_cleared THEN NextAccounts(MaxOps) ELSE <<>>)

(* generate_deflation_transaction: orders first, then accounts, as many as *)
(* fit.  If no order is left it sets order_cleared, in the pending state,  *)
(* which is discarded before the block is applied: the flag stays FALSE.   *)
Generated == Operations(NextOrders, NextAccounts(MaxOps - Len(NextOrders)))

produce_block ==
    /\ Idle
    /\ ops' = Generated
    /\ session' = IF Generated = <<>> THEN <<>> ELSE <<dflt, accounts, orders>>
    /\ UNCHANGED <<dflt, accounts, orders, strayed>>

(* Mutant: the record keeps its mark when its turn comes.                  *)
TurnMarked(r) == [(IF r.cleared THEN r ELSE Charge(r)) EXCEPT !.last = dflt.id]

(* The turn of an account or of an order of the core asset.                *)
Turn(r) ==
    [(IF r.cleared THEN r ELSE Charge(r)) EXCEPT !.last = dflt.id, !.cleared = FALSE]

AccountEvaluates(a) ==
    /\ ~dflt.balance_cleared
    /\ a = dflt.account_cursor
    /\ accounts[a].last < dflt.id

account_deflation(a) ==
    /\ AccountEvaluates(a)
    /\ accounts' = [accounts EXCEPT ![a] = Turn(@)]
    /\ dflt' = [dflt EXCEPT !.account_cursor = a + 1,
                            !.balance_cleared = (a = dflt.last_account)]
    /\ UNCHANGED <<orders, strayed>>

OrderEvaluates(o) ==
    /\ ~dflt.order_cleared
    /\ o \in Orders
    /\ orders[o].last < dflt.id

(* Mutant: the cursor stays on the order that was handled.                 *)
NextOrderSame(o) == o

NextOrder(o) == o + 1

(* The evaluator asks neither for the cursor nor for the last order.       *)
InTurn(o) == o \in Due /\ \A p \in Due : o <= p

order_deflation(o) ==
    /\ OrderEvaluates(o)
    /\ orders' = IF orders[o].core THEN [orders EXCEPT ![o] = Turn(@)] ELSE orders
    /\ dflt' = [dflt EXCEPT !.order_cursor = NextOrder(o),
                            !.order_cleared = (o = dflt.last_order)]
    /\ strayed' = (strayed \/ ~InTurn(o))
    /\ UNCHANGED accounts
-----------------------------------------------------------------------------
(* apply_deflation: the operations of the transaction one by one; after    *)
(* the last of them the session is merged.                                 *)
NextOperation(kind) ==
    /\ ~Idle
    /\ Head(ops).kind = kind
    /\ ops' = Tail(ops)
    /\ session' = IF Len(ops) = 1 THEN <<>> ELSE session

apply_account_deflation == NextOperation("account") /\ account_deflation(Head(ops).id)
apply_order_deflation   == NextOperation("order") /\ order_deflation(Head(ops).id)

HeadEvaluates == IF Head(ops).kind = "account" THEN AccountEvaluates(Head(ops).id)
                                               ELSE OrderEvaluates(Head(ops).id)

(* generate_block: an operation throws, and the session is undone.         *)
deflation_fails ==
    /\ ~Idle
    /\ ~HeadEvaluates
    /\ dflt' = session[1] /\ accounts' = session[2] /\ orders' = session[3]
    /\ ops' = <<>> /\ session' = <<>>
    /\ UNCHANGED strayed

(* The operations in a transaction of any account.                         *)
account_deflation_of_transaction(a) ==
    Idle /\ account_deflation(a) /\ UNCHANGED <<ops, session>>

order_deflation_of_transaction(o) ==
    Idle /\ order_deflation(o) /\ UNCHANGED <<ops, session>>
-----------------------------------------------------------------------------
Chain ==
    produce_block \/ apply_account_deflation \/ apply_order_deflation \/ deflation_fails

Trade ==
    \/ \E from, to \in Accounts : transfer(from, to)
    \/ \E a \in Accounts, core \in BOOLEAN :
         LET others == {o \in Orders : orders[o].core # core}
         IN \E filled \in SUBSET others, part \in {{}} \cup {{o} : o \in others},
               culled \in BOOLEAN : limit_order_create(a, core, filled, part, culled)
    \/ \E o \in Orders : limit_order_cancel(o)
    \/ \E a \in Accounts : account_deflation_of_transaction(a)
    \/ \E o \in Orders : order_deflation_of_transaction(o)

Next == deflation \/ create_account \/ Trade \/ Chain

(* Blocks go on being produced, each with its transaction.                 *)
Spec == Init /\ [][Next]_vars /\ WF_vars(Chain)
-----------------------------------------------------------------------------
(* The variables have their types.                                         *)
TypeOK ==
    /\ dflt.id \in 0 .. MaxDeflations
    /\ dflt.last_account \in 0 .. Len(accounts)
    /\ dflt.account_cursor \in 1 .. Len(accounts) + 1
    /\ dflt.last_order \in 0 .. Len(orders)
    /\ dflt.order_cursor \in 0 .. Len(orders) + 1
    /\ \A a \in Accounts : accounts[a].last \in 0 .. dflt.id
    /\ \A o \in DOMAIN orders :
          orders[o].last \in 0 .. dflt.id /\ orders[o].seller \in Accounts
    /\ Len(ops) <= MaxOps
    /\ session = <<>> <=> Idle
    /\ strayed \in BOOLEAN

(* A deflation takes its part of a balance and of an order only once,      *)
(* whether the turn comes before, between or after transfers, fills and    *)
(* cancellations (cleared, last_deflation_id and the cursors together).    *)
(* The one exception is an order that is cancelled after an order          *)
(* operation out of turn has set the cursor back (db_market.cpp:124-130).  *)
ChargedAtMostOnce ==
    /\ \A a \in Accounts : accounts[a].charged <= 1
    /\ \A o \in DOMAIN orders :
          orders[o].charged <= 1 \/ (strayed /\ ~orders[o].live)

(* Every operation of a deflation transaction can be applied when its turn *)
(* comes: the operations before it in the same transaction, and all that   *)
(* happened since the transaction before, do not spoil it.  All that can   *)
(* is an order operation out of turn, and then what comes up again is an   *)
(* order that is marked with this deflation (deflation_evaluator.cpp:244). *)
TransactionApplies ==
    ~Idle => \/ HeadEvaluates
             \/ /\ strayed
                /\ Head(ops).kind = "order"
                /\ ~dflt.order_cleared
                /\ Head(ops).id \in Orders /\ orders[Head(ops).id].last = dflt.id

(* Each part of a deflation that is over has reached everyone: the         *)
(* accounts up to the last one, and the orders that are still there unless *)
(* an order operation came out of turn; and it has left no mark that a     *)
(* later deflation would take for its own.                                 *)
ClearedMeansAll ==
    /\ dflt.balance_cleared =>
          \A a \in 1 .. dflt.last_account :
             accounts[a].last = dflt.id /\ ~accounts[a].cleared
    /\ dflt.order_cleared /\ ~strayed =>
          \A o \in Orders : o <= dflt.last_order /\ orders[o].core =>
             orders[o].last = dflt.id /\ ~orders[o].cleared

(* Every deflation without an order operation out of turn comes to the end *)
(* of the accounts (the transaction of every block moves their cursor).    *)
AccountsCleared == \A d \in 1 .. MaxDeflations :
    dflt.id = d ~> dflt.id = d /\ (dflt.balance_cleared \/ strayed)

(* Every deflation without an order operation out of turn comes to its     *)
(* end, also if orders are gone by then (db_deflation.cpp:56).             *)
DeflationFinishes == \A d \in 1 .. MaxDeflations :
    dflt.id = d ~> dflt.id = d /\ (strayed \/ (dflt.balance_cleared /\ dflt.order_cleared))
=============================================================================
