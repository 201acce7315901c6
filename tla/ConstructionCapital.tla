------------------------ MODULE ConstructionCapital ------------------------
(***************************************************************************)
(* Construction capital: an account locks an amount for a number of        *)
(* periods and is paid back by incentive operations, one for each period.  *)
(* The owner of another capital may vote for it, which brings periods      *)
(* forward.  The producer of a block puts the operations that are due into *)
(* one transaction at the head of the block (db_block.cpp,                 *)
(* db_incentive.cpp), and the block goes out without it if one of them     *)
(* cannot be applied.  Any other transaction may hold incentive operations *)
(* as well: their fee payer is the temporary account, validate asks for    *)
(* nothing, and the evaluator knows the reasons 0 and 1 only.              *)
(*                                                                         *)
(* Abstractions.  Time is counted in block intervals.  produce_block ends  *)
(* the block before and begins the next one, as the transaction is made in *)
(* the state of the head block; its operations are steps of their own, in  *)
(* a session that is undone if one fails.  The amount an operation names   *)
(* is the one the evaluator asks for, or it fails.  Whether an owner has   *)
(* the amount to lock is left to the environment, and of all balances only *)
(* what the owner of a capital was paid is kept.  The rate of issue        *)
(* changes at any time, as maintenance changes it.  real128 arithmetic is  *)
(* exact here up to the final truncation.                                  *)
(***************************************************************************)
EXTENDS Integers, Sequences, FiniteSets, FiniteSetsExt, SequencesExt

CONSTANTS
    Offers,        \* [amount, period, total_periods] that may be locked
    Rates,         \* the values of issuance_rate / GRAPHENE_ISSUANCE_RATE_SCALE
    Year,          \* GRAPHENE_SECONDS_PER_YEAR
    MaxVotes,      \* max_construction_capital_vote
    MaxOps,        \* max_incentive_operations_per_block
    MaxCapitals,   \* bound: how many capitals are ever created
    MaxTime        \* bound: no slot is later, so time need not go on

Uint16 == 65536    \* achieved, pending and total_periods are uint16_t

ASSUME OffersAssumption ==
    \A o \in Offers :
       /\ o.amount \in Nat \ {0}
       /\ o.period \in Nat \ {0}
       /\ o.total_periods \in 1 .. Uint16 - 1
ASSUME ParametersAssumption ==
    /\ Rates \subseteq Nat /\ Rates # {}
    /\ {Year, MaxVotes, MaxOps, MaxCapitals, MaxTime} \subseteq Nat \ {0}

VARIABLES
    time,          \* head_block_time
    rate,          \* issuance_rate
    capitals,      \* the capitals in the order of their ids; done: removed
    votes,         \* pairs <<cc_from, cc_to>>
    summary,       \* construction_capital_summary_object
    ops,           \* the rest of the incentive transaction that is applied
    session        \* what the session of this transaction goes back to

vars == <<time, rate, capitals, votes, summary, ops, session>>

Ids     == DOMAIN capitals
Exists(c) == c \in Ids /\ ~capitals[c].done
Live    == {c \in Ids : Exists(c)}
Min2(a, b) == IF a < b THEN a ELSE b
-----------------------------------------------------------------------------
Init ==
    /\ time = 0
    /\ rate \in Rates
    /\ capitals = <<>>
    /\ votes = {}
    /\ summary = [count_in_life |-> 0, deposit_in_life |-> 0]
    /\ ops = <<>>
    /\ session = <<>>

Idle == ops = <<>>

create(o) ==
    /\ Idle
    /\ Len(capitals) < MaxCapitals
    /\ time + o.period * o.total_periods <= MaxTime
    /\ capitals' = Append(capitals,
          [offer |-> o, achieved |-> 0, pending |-> 0, left_vote_point |-> 0,
           next_slot |-> time + o.period, timestamp |-> time,
           paid |-> 0, done |-> FALSE])
    /\ summary' = [count_in_life   |-> summary.count_in_life + 1,
                   deposit_in_life |-> summary.deposit_in_life + o.amount]
    /\ UNCHANGED <<time, rate, votes, ops, session>>

Points(c) == LET o == capitals[c].offer IN o.amount * o.period * o.total_periods
Released(c) == capitals[c].achieved >= capitals[c].offer.total_periods

TotalPoint(from, to) == Points(from) + capitals[to].left_vote_point

vote(from, to) ==
    /\ Idle
    /\ from # to
    /\ <<from, to>> \notin votes
    /\ Exists(from) /\ ~Released(from)
    /\ Exists(to) /\ ~Released(to)
    /\ Cardinality({v \in votes : v[1] = from}) <= MaxVotes
    /\ LET cc    == capitals[to]
           share == Points(to)
           room  == cc.offer.total_periods - cc.achieved - cc.pending
           n     == IF room <= 0 THEN 0
                    ELSE Min2(TotalPoint(from, to) \div share, room)
       IN capitals' = [capitals EXCEPT
             ![to].pending = @ + n,
             ![to].left_vote_point = TotalPoint(from, to) - n * share]
    /\ votes' = votes \cup {<<from, to>>}
    /\ UNCHANGED <<time, rate, summary, ops, session>>

update_issuance_rate(r) ==
    /\ Idle
    /\ rate # r
    /\ rate' = r
    /\ UNCHANGED <<time, capitals, votes, summary, ops, session>>
-----------------------------------------------------------------------------
(* The amount of one period: a part of the amount, and interest.           *)
Deposit(c) == capitals[c].offer.amount \div capitals[c].offer.total_periods
Amount(c)  ==
    LET o == capitals[c].offer
    IN (o.amount * Year + o.amount * o.period * rate * o.total_periods)
         \div (o.total_periods * Year)

Due(c, now) == capitals[c].next_slot <= now

(* generate_incentive_transaction: by_next_slot, then by_pending from the  *)
(* highest on; capitals that are equal there come in any order.            *)
Transactions(now) ==
    LET bySlot    == {s \in SetToSeqs({c \in Live : Due(c, now)}) :
                        \A i, j \in DOMAIN s : i < j =>
                           capitals[s[i]].next_slot <= capitals[s[j]].next_slot}
        byPending == {s \in SetToSeqs({c \in Live : capitals[c].pending > 0}) :
                        \A i, j \in DOMAIN s : i < j =>
                           capitals[s[i]].pending >= capitals[s[j]].pending}
        PerSlot(s) == [i \in DOMAIN s |-> [cc |-> s[i], reason |-> 0]]
        PerVote(s) == FlattenSeq([i \in DOMAIN s |->
                         [k \in 1 .. Min2(capitals[s[i]].pending, MaxOps) |->
                            [cc |-> s[i], reason |-> 1]]])
        Capped(s)  == SubSeq(s, 1, Min2(Len(s), MaxOps))
    IN {Capped(PerSlot(s) \o PerVote(p)) : s \in bySlot, p \in byPending}

(* The head block is complete; the next one begins with the transaction.   *)
produce_block ==
    /\ Idle
    /\ time' = Min2(time + 1, MaxTime)
    /\ \E tx \in Transactions(time') : ops' = tx
    /\ session' = IF ops' = <<>> THEN <<>> ELSE <<capitals, summary>>
    /\ UNCHANGED <<rate, capitals, votes, summary>>

(* Mutant: a capital that was removed is still found.                      *)
EvaluatesRemoved(op) ==
    /\ op.reason = 0 => Due(op.cc, time)
    /\ op.reason = 1 => capitals[op.cc].pending >= 1

(* Mutant: more than one period must be pending.                           *)
EvaluatesSeveral(op) ==
    /\ Exists(op.cc)
    /\ ~Released(op.cc)
    /\ op.reason = 0 => Due(op.cc, time)
    /\ op.reason = 1 => capitals[op.cc].pending > 1

(* incentive_evaluator::do_evaluate; nothing is asked of other reasons.    *)
Evaluates(op) ==
    /\ Exists(op.cc)
    /\ ~Released(op.cc)
    /\ op.reason = 0 => Due(op.cc, time)
    /\ op.reason = 1 => capitals[op.cc].pending >= 1

(* Mutant: the period stays pending.                                       *)
PaidStillPending(cc, op) ==
    [cc EXCEPT !.next_slot = IF op.reason = 0 THEN @ + cc.offer.period ELSE @,
               !.achieved  = @ + 1]

(* The capital after the operation, without the money.  Every reason but 0 *)
(* takes a pending period, which need not be there.                        *)
Paid(cc, op) ==
    [cc EXCEPT !.next_slot = IF op.reason = 0 THEN @ + cc.offer.period ELSE @,
               !.pending   = IF op.reason = 0 THEN @ ELSE (@ - 1) % Uint16,
               !.achieved  = @ + 1]

(* Mutant: a capital is over one period early.                             *)
OverEarly(cc) == cc.achieved + 1 >= cc.offer.total_periods

Over(cc) == cc.achieved >= cc.offer.total_periods

(* Mutant: the count of the summary is left alone.                         *)
SummarizedUncounted(s, c, over) ==
    [s EXCEPT !.deposit_in_life = @ - Deposit(c)]

Summarized(s, c, over) ==
    [count_in_life   |-> IF over THEN s.count_in_life - 1 ELSE s.count_in_life,
     deposit_in_life |-> s.deposit_in_life - Deposit(c)]

(* incentive_evaluator::do_apply.                                          *)
do_apply(op) ==
    LET cc == Paid(capitals[op.cc], op)
    IN /\ capitals' = [capitals EXCEPT
             ![op.cc] = [cc EXCEPT !.paid = @ + Amount(op.cc), !.done = Over(cc)]]
       /\ summary' = Summarized(summary, op.cc, Over(cc))

(* One operation; the session ends with the last one (merge).              *)
incentive ==
    /\ ~Idle
    /\ Evaluates(Head(ops))
    /\ do_apply(Head(ops))
    /\ ops' = Tail(ops)
    /\ session' = IF Tail(ops) = <<>> THEN <<>> ELSE session
    /\ UNCHANGED <<time, rate, votes>>

(* An incentive operation of an ordinary transaction.                      *)
incentive_of_transaction(op) ==
    /\ Idle
    /\ Evaluates(op)
    /\ do_apply(op)
    /\ UNCHANGED <<time, rate, votes, ops, session>>

(* Of the reasons other than 0 and 1 one is enough: they do the same.      *)
Operations == [cc : Ids, reason : {0, 1, 2}]

(* An operation that fails: the whole transaction is undone and dropped.   *)
incentive_fails ==
    /\ ~Idle
    /\ ~Evaluates(Head(ops))
    /\ capitals' = session[1]
    /\ summary' = session[2]
    /\ ops' = <<>>
    /\ session' = <<>>
    /\ UNCHANGED <<time, rate, votes>>
-----------------------------------------------------------------------------
Chain == produce_block \/ incentive \/ incentive_fails

Next ==
    \/ \E o \in Offers : create(o)
    \/ \E from, to \in Ids : vote(from, to)
    \/ \E r \in Rates : update_issuance_rate(r)
    \/ \E op \in Operations : incentive_of_transaction(op)
    \/ Chain

(* Blocks go on being produced, each with its transaction.                 *)
Spec == Init /\ [][Next]_vars /\ WF_vars(Chain)
-----------------------------------------------------------------------------
(* The variables have their types.                                         *)
TypeOK ==
    /\ time \in 0 .. MaxTime
    /\ rate \in Rates
    /\ \A c \in Ids :
          /\ capitals[c].offer \in Offers
          /\ capitals[c].achieved \in 0 .. capitals[c].offer.total_periods
          /\ capitals[c].pending \in 0 .. Uint16 - 1
          /\ capitals[c].next_slot \in Nat
          /\ {capitals[c].left_vote_point, capitals[c].paid} \subseteq Nat
          /\ capitals[c].done \in BOOLEAN
    /\ votes \subseteq Ids \X Ids
    /\ {summary.count_in_life, summary.deposit_in_life} \subseteq Nat
    /\ session = <<>> <=> Idle

(* The summary counts the capitals that exist, and its deposits are what   *)
(* they have still to get back, with the rest that the division into       *)
(* periods left of those that are over (incentive_evaluator::do_apply).    *)
SummaryMatches ==
    LET owed == [c \in Ids |-> capitals[c].offer.amount - capitals[c].achieved * Deposit(c)]
    IN /\ summary.count_in_life = Cardinality(Live)
       /\ summary.deposit_in_life = SumFunctionOnSet(owed, Ids)

(* Every vote is worth what it was: the points of all votes for a capital  *)
(* are in the periods they brought forward, paid by now or pending, or     *)
(* left over.  The periods paid by time are those the slot has moved; the  *)
(* others came from pending, which is counted as the code counts it: a     *)
(* period taken while none is pending, for a reason other than 0 and 1,    *)
(* leaves 2^16 - 1.                                                        *)
VotePointsConserved ==
    \A c \in Live :
       LET cc      == capitals[c]
           bySlot  == (cc.next_slot - cc.timestamp) \div cc.offer.period - 1
           byVote  == (cc.achieved - bySlot + cc.pending) % Uint16
           worth   == [a \in Ids |-> Points(a)]
       IN SumFunctionOnSet(worth, {a \in Ids : <<a, c>> \in votes})
            = byVote * Points(c) + cc.left_vote_point

(* A capital that is removed has returned all of its amount, but for less  *)
(* than one unit a period.                                                 *)
PrincipalReturned ==
    \A c \in Ids : capitals[c].done =>
       capitals[c].paid > capitals[c].offer.amount - capitals[c].offer.total_periods

(* More periods of a capital are pending or due than it has left: one      *)
(* operation too many is generated, for a capital that is removed by the   *)
(* one before.  Votes bring forward all periods that are left and the slot *)
(* of one of them is due as well, or pending was taken below zero.         *)
Clash ==
    \E c \in Live :
       capitals[c].pending + (IF Due(c, time) THEN 1 ELSE 0)
          > capitals[c].offer.total_periods - capitals[c].achieved

AllReleased == \A c \in Ids : capitals[c].done

(* Nothing but a clash keeps a capital from being paid back: not the limit *)
(* on operations, not a slot that was missed, not the incentives that      *)
(* other transactions hold.                                                *)
OnlyClashStops == <>[]AllReleased \/ <>[](Idle => Clash)
=============================================================================
