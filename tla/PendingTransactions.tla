------------------------ MODULE PendingTransactions ------------------------
(***************************************************************************)
(* The transactions a node holds between two blocks (db_block.cpp and      *)
(* db_with.hpp).  A transaction that arrives is applied on top of the      *)
(* pending state.  Each block, from a peer or from this node, clears the   *)
(* pending state; after it the transactions of blocks that were popped and *)
(* then the ones that were pending are pushed again.                       *)
(*                                                                         *)
(* Abstractions.  A transaction is what it needs and what it makes, its    *)
(* expiration, the block it refers to and its size.  A block id is one of  *)
(* Ids: two blocks that fork have different ones.  The incentive and the   *)
(* deflation transaction are one system transaction, which is due once in  *)
(* every Period.  A processed transaction is as large as it was when it    *)
(* was pushed, and the header has size 0.  Which fork wins is the matter   *)
(* of ChainDatabase: here a switch may come at any time.                   *)
(***************************************************************************)
EXTENDS Integers, Sequences, FiniteSets, SequencesExt

CONSTANTS
    Txs,          \* the transactions of users: records like SystemTx
    Coins,        \* what they need to begin with
    Ids,          \* block ids
    Period,       \* time between two system transactions
    Lifetime,     \* how long a system transaction is valid
    SystemSize,   \* the size of each system transaction in turn
    MaxSize,      \* maximum_block_size
    MaxAhead,     \* maximum_time_until_expiration
    MaxPending,   \* bound: how many transactions are pending when one arrives
    MaxSwitch,    \* bound: how many blocks a fork switch pops
    MaxBlocks,    \* bound: length of the chain
    MaxTime       \* bound: time of the head block

ASSUME PendingAssumption ==
    /\ {Period, Lifetime, MaxSize, MaxAhead, MaxPending, MaxSwitch, MaxBlocks, MaxTime}
          \subseteq Nat \ {0}
    /\ SystemSize \in [1 .. MaxTime -> Nat \ {0}]
    /\ Ids # {}

(* A transaction says when it expires, refers to a block and has a size.   *)
ASSUME TxsAssumption ==
    \A t \in Txs :
        t \in [needs : {t.needs}, makes : {t.makes}, expires : Nat,
              ref : [num : Nat, id : Ids \cup {"none"}], size : Nat]

(* A transaction of a user has nothing to do with the turns of the system  *)
(* or, as anyone may send an incentive that is due, takes one turn.        *)
ASSUME TurnAssumption ==
    /\ \A c \in Coins : c[1] # "slot"
    /\ \A t \in Txs :
          \/ \A c \in t.needs \cup t.makes : c[1] # "slot"
          \/ \E k \in Nat : t.needs = {<<"slot", k>>} /\ t.makes = {<<"slot", k + 1>>}

(* A system transaction is valid for 30 seconds, within what is allowed.   *)
ASSUME LifetimeAssumption == Lifetime <= MaxAhead

VARIABLES
    chain,     \* the blocks: their transactions and the state after each
    pending,   \* _pending_tx
    session,   \* _pending_tx_session: <<>>, or << the pending state >>
    fork       \* a fork switch in progress, with _popped_tx

vars == <<chain, pending, session, fork>>

Genesis == [ids |-> <<>>, time |-> 0, known |-> {}, coins |-> Coins \cup {<<"slot", 1>>}]

NoFork == [left |-> 0, old |-> <<>>, popped |-> <<>>, saved |-> <<>>]

Init == chain = <<>> /\ pending = <<>> /\ session = <<>> /\ fork = NoFork

HeadOf(c)    == IF c = <<>> THEN Genesis ELSE Last(c).state
HeadState    == HeadOf(chain)
Tip(h, s)    == IF s = <<>> THEN h ELSE s[1]
Idle         == fork = NoFork
TxsOf(c)     == FlattenSeq([i \in DOMAIN c |-> c[i].txs])
-----------------------------------------------------------------------------
(* The block a transaction refers to, by number, has the id it was given.  *)
Tapos(s, t) == t.ref.num = 0 \/ (t.ref.num <= Len(s.ids) /\ s.ids[t.ref.num] = t.ref.id)

(* _apply_transaction.  Nothing but duplicates is looked at before the     *)
(* first block.                                                            *)
CanApply(s, t) ==
    /\ t \notin s.known
    /\ s.ids # <<>> => /\ Tapos(s, t)
                       /\ t.expires <= s.time + MaxAhead
                       /\ s.time <= t.expires
    /\ t.needs \subseteq s.coins

Operated(s, t) == [s EXCEPT !.coins = (@ \ t.needs) \cup t.makes]
Applied(s, t)  == [Operated(s, t) EXCEPT !.known = @ \cup {t}]

(* Mutant: a transaction leaves the list while it could still be applied.  *)
ClearExpiredEarly(s) == [s EXCEPT !.known = {t \in @ : s.time < t.expires}]

(* clear_expired_transactions.                                             *)
ClearExpired(s) == [s EXCEPT !.known = {t \in @ : s.time <= t.expires}]

(* _apply_block: every transaction applies or the block is invalid.        *)
ApplyNext(r, t) ==
    [ok |-> r.ok /\ CanApply(r.state, t), state |-> Applied(r.state, t)]

ApplyAll(s, ts) == FoldLeft(ApplyNext, [ok |-> TRUE, state |-> s], ts)

BlockApplies(s, b) == s.time < b.time /\ ApplyAll(s, b.txs).ok

Extended(c, b) ==
    LET s == ApplyAll(HeadOf(c), b.txs).state
    IN Append(c, [txs   |-> b.txs,
                  state |-> ClearExpired([s EXCEPT !.ids = Append(@, b.id), !.time = b.time])])
-----------------------------------------------------------------------------
(* Mutant: the transaction is queued before it is applied.                 *)
PushQueued(p, t) ==
    [p EXCEPT !.session = <<IF CanApply(Tip(p.head, @), t) THEN Applied(Tip(p.head, @), t)
                                                           ELSE Tip(p.head, @)>>,
              !.kept = Append(@, t)]

(* _push_transaction: the session is opened before the transaction is      *)
(* tried, and stays open if it fails.                                      *)
Push(p, t) ==
    LET tip == Tip(p.head, p.session)
    IN IF CanApply(tip, t)
       THEN [p EXCEPT !.session = <<Applied(tip, t)>>, !.kept = Append(@, t)]
       ELSE [p EXCEPT !.session = <<tip>>]

Repush(p, t) == IF t \in Tip(p.head, p.session).known THEN p ELSE Push(p, t)

Repushed(h, ts) == FoldLeft(Repush, [head |-> h, session |-> <<>>, kept |-> <<>>], ts)

(* Mutant: pending transactions go first.                                  *)
InOrderPendingFirst(popped, saved) == saved \o popped

(* pending_transactions_restorer: popped transactions go first.            *)
InOrder(popped, saved) == popped \o saved

(* What is pending once push_block is over, with c for the chain.          *)
Restore(c, popped, saved) ==
    LET r == Repushed(HeadOf(c), InOrder(popped, saved))
    IN /\ chain' = c
       /\ pending' = r.kept
       /\ session' = r.session
       /\ fork' = NoFork

push_transaction(t) ==
    /\ Idle
    /\ Len(pending) < MaxPending
    /\ LET p == Push([head |-> HeadState, session |-> session, kept |-> pending], t)
       IN pending' = p.kept /\ session' = p.session
    /\ UNCHANGED <<chain, fork>>
-----------------------------------------------------------------------------
(* A block on top of the head.                                             *)
push_block(b) ==
    /\ Idle
    /\ BlockApplies(HeadState, b)
    /\ Restore(Extended(chain, b), <<>>, pending)

(* A block that is refused, or that only goes to the fork database.        *)
push_block_ignored ==
    /\ Idle
    /\ Restore(chain, <<>>, pending)

(* Mutant: the pending state is kept while blocks are popped.              *)
ClearedSessionKept == session

(* clear_pending and pop_block both drop the session.                      *)
ClearedSession == <<>>

(* A block that makes another fork the longest: n blocks are popped, and   *)
(* n + 1 blocks are applied, one by one.                                   *)
switch_forks(n) ==
    /\ Idle
    /\ n <= Len(chain)
    /\ LET old == SubSeq(chain, Len(chain) - n + 1, Len(chain))
       IN /\ chain' = SubSeq(chain, 1, Len(chain) - n)
          /\ fork' = [left |-> n + 1, old |-> old, popped |-> TxsOf(old), saved |-> pending]
    /\ pending' = <<>>
    /\ session' = ClearedSession

FirstOfFork == fork.left = Len(fork.old) + 1

push_fork_block(b) ==
    /\ ~Idle
    /\ FirstOfFork => b.id # fork.old[1].state.ids[Len(chain) + 1]
    /\ BlockApplies(HeadState, b)
    /\ \/ /\ fork.left > 1
          /\ chain' = Extended(chain, b)
          /\ fork' = [fork EXCEPT !.left = @ - 1]
          /\ UNCHANGED <<pending, session>>
       \/ /\ fork.left = 1
          /\ Restore(Extended(chain, b), fork.popped, fork.saved)

(* A block of the new fork fails.  The ones before it are popped in turn,  *)
(* which puts their transactions in front, and the old ones come back.     *)
fork_block_fails ==
    /\ ~Idle
    /\ LET base == Len(chain) - (Len(fork.old) + 1 - fork.left)
           new  == SubSeq(chain, base + 1, Len(chain))
       IN Restore(SubSeq(chain, 1, base) \o fork.old, TxsOf(new) \o fork.popped, fork.saved)
-----------------------------------------------------------------------------
(* generate_incentive_transaction and generate_deflation_transaction.      *)
Due(s) == {k \in 1 .. s.time \div Period : <<"slot", k>> \in s.coins}

SystemTx(s, k) ==
    [needs   |-> {<<"slot", k>>},
     makes   |-> {<<"slot", k + 1>>},
     expires |-> s.time + Lifetime,
     ref     |-> [num |-> Len(s.ids), id |-> IF s.ids = <<>> THEN "none" ELSE Last(s.ids)],
     size    |-> SystemSize[k]]

SystemTxs(s) == SetToSeq({SystemTx(s, k) : k \in Due(s)})

Include(g, t) ==
    [state |-> Applied(g.state, t), txs |-> Append(g.txs, t), size |-> g.size + t.size]

(* Mutant: what was valid when it was pushed is taken without another try. *)
ConsiderUntried(g, t) == IF g.size + t.size >= MaxSize THEN g ELSE Include(g, t)

(* A pending transaction is postponed if it is too large for the rest of   *)
(* the block, and left out if it cannot be applied.                        *)
Consider(g, t) ==
    IF g.size + t.size >= MaxSize \/ ~CanApply(g.state, t) THEN g ELSE Include(g, t)

(* The system transaction comes first.  It is applied by its operations    *)
(* alone, so it is not on the list of known transactions.                  *)
Generated ==
    LET s    == HeadState
        sys  == SystemTxs(s)
        base == [state |-> FoldLeft(Operated, s, sys), txs |-> sys,
                 size  |-> FoldLeft(LAMBDA n, t : n + t.size, 0, sys)]
    IN FoldLeft(Consider, base, pending)

(* _generate_block.  If the block is too large it throws, and the pending  *)
(* state is gone.  If not, the block is pushed like any other.             *)
generate_block(id, when) ==
    /\ Idle
    /\ HeadState.time < when
    /\ LET b == [id |-> id, time |-> when, txs |-> Generated.txs]
       IN \/ /\ Generated.size > MaxSize
             /\ session' = <<>>
             /\ UNCHANGED <<chain, pending, fork>>
          \/ /\ Generated.size <= MaxSize
             /\ Restore(IF BlockApplies(HeadState, b) THEN Extended(chain, b) ELSE chain,
                        <<>>, pending)
-----------------------------------------------------------------------------
(* Bound: peers put at most one transaction after the system transaction.  *)
PeerTxs(s) ==
    {sys \o ts : sys \in {<<>>, SystemTxs(s)}, ts \in {<<>>} \cup {<<t>> : t \in Txs}}

PeerBlocks ==
    [id : Ids, time : {t \in HeadState.time + 1 .. MaxTime : t <= HeadState.time + 2},
     txs : PeerTxs(HeadState)]

Room == Len(chain) < MaxBlocks

Next ==
    \/ \E t \in Txs : push_transaction(t)
    \/ Room /\ \E b \in PeerBlocks : push_block(b)
    \/ push_block_ignored
    \/ Room /\ \E n \in 1 .. MaxSwitch : switch_forks(n)
    \/ \E b \in PeerBlocks : push_fork_block(b)
    \/ fork_block_fails
    \/ Room /\ \E id \in Ids, when \in 1 .. MaxTime : generate_block(id, when)

Spec == Init /\ [][Next]_vars
-----------------------------------------------------------------------------
(* The variables have their types; nothing is pending during a switch.     *)
TypeOK ==
    /\ Len(chain) <= MaxBlocks
    /\ \A i \in DOMAIN chain :
          /\ Len(chain[i].state.ids) = i
          /\ chain[i].state.time \in 1 .. MaxTime
    /\ Len(session) <= 1
    /\ fork.left \in 0 .. MaxSwitch + 1
    /\ ~Idle => pending = <<>> /\ session = <<>>

(* No transaction is in the chain twice: the list of known transactions    *)
(* forgets one only when it can no longer be applied, through pushes,      *)
(* popped blocks, failed switches and own blocks alike.                    *)
NoTransactionTwice == IsInjective(TxsOf(chain))

(* A block this node generates, with the transactions it has tried on the  *)
(* pending state, can be applied on the head when it is pushed.            *)
GeneratedBlockApplies ==
    Idle /\ HeadState.time < MaxTime =>
       BlockApplies(HeadState,
                    [id |-> "own", time |-> HeadState.time + 1, txs |-> Generated.txs])

(* The pending session is the result of applying the pending transactions. *)
PendingMatches ==
    Idle /\ pending # <<>> =>
       /\ ApplyAll(HeadState, pending).ok
       /\ session = <<ApplyAll(HeadState, pending).state>>

(* The same after each block that is pushed, also one that this node has   *)
(* generated after a failed attempt, and after each fork switch.           *)
SessionRecreated == [][chain' # chain /\ Idle' => PendingMatches']_vars

(* A transaction that was pending or in a block is lost only if it cannot  *)
(* be applied any more on top of all that is left: it is still pending, or *)
(* known, or invalid where the node has got to.  This holds where no two   *)
(* transactions make the same: the restorer tries each one once, and drops *)
(* one that needs what only a later one makes.                             *)
CulledOnlyIfInvalid ==
    [][Idle' => \A t \in ToSet(pending) \cup ToSet(TxsOf(chain))
                           \cup ToSet(fork.popped \o fork.saved) :
                   \/ t \in ToSet(pending')
                   \/ ~CanApply(Tip(HeadState', session'), t)]_vars
=============================================================================
