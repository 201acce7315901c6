--------------------------- MODULE ChainDatabase ---------------------------
(***************************************************************************)
(* The chain of one node: the database that applies blocks (chain/         *)
(* db_block.cpp), the fork database that remembers the blocks of all       *)
(* recent forks, the block log on disk and the undo history, from the      *)
(* first start of the node on, with switches between forks, blocks that    *)
(* turn out to be invalid, shutdowns, kills, restarts and replays.         *)
(*                                                                         *)
(* Abstractions.  The id of a block is the hash of its content and of the  *)
(* id of its parent; here a block is the sequence of the contents on its   *)
(* branch, so its number is its length and its parent the sequence without *)
(* the last element.  The state of the database is the block it is the     *)
(* result of (head_block_id), and the undo stack holds the states to go    *)
(* back to: RollsBackToSnapshots of UndoDatabase is what justifies it.     *)
(* Whether a block applies to the state of its parent is fixed (Valid),    *)
(* and an invalid block is refused before it changes anything.  Pending    *)
(* transactions, checkpoints and the debug interface are left out.  The    *)
(* loops of a fork switch are steps of their own (task says which one is   *)
(* running); no other call is served in between.  InitialMax, larger than  *)
(* any height, stands for the sizes the histories start with: 1024 in the  *)
(* fork database, GRAPHENE_MIN_UNDO_HISTORY in the undo database.  A kill  *)
(* ends the process and not the machine, so that no more is lost than the  *)
(* buffers of the two files of the log; a start is not interrupted.        *)
(***************************************************************************)
EXTENDS Integers, Sequences, FiniteSets, FiniteSetsExt

CONSTANTS
    Blocks,        \* the blocks peers may send, each a nonempty sequence
    Valid,         \* the blocks that apply to the state of their parent
    Witnesses,     \* the active witnesses
    Producer,      \* who signed each block
    Nested,        \* how many sessions nest inside the pending one
    InitialMax,    \* max_size of both histories when the node starts
    None           \* no block, or nothing stored

Num(b)       == Len(b)
Prefix(b, n) == SubSeq(b, 1, n)
Parent(b)    == Prefix(b, Num(b) - 1)
Genesis      == <<>>
Branch(b)    == {Prefix(b, n) : n \in 1 .. Num(b)}
Heights      == 1 .. Max({Num(b) : b \in Blocks} \cup {1})
OnBranch(a, b) == Num(a) <= Num(b) /\ a = Prefix(b, Num(a))

ASSUME BlocksAssumption ==
    /\ IsFiniteSet(Blocks) /\ Genesis \notin Blocks
    /\ \A b \in Blocks : b \in Seq({b[i] : i \in DOMAIN b})
    /\ \A b \in Blocks : Branch(b) \subseteq Blocks
    /\ Valid \subseteq Blocks
    /\ {None, <<None>>} \cap (Blocks \cup {Genesis}) = {} /\ None # <<None>>
ASSUME WitnessAssumption ==
    /\ IsFiniteSet(Witnesses)
    /\ Witnesses # {}
    /\ Producer \in [Blocks -> Witnesses]
(* One session is nested for a transaction, one more for a proposal.       *)
ASSUME NestedAssumption == Nested \subseteq 1 .. 2
ASSUME InitialMaxAssumption == InitialMax \in Nat \ {0}

VARIABLES
    head,        \* head_block_id: the block the state is the result of
    saved,       \* _undo_db: the states its levels go back to, oldest first
    max_size,    \* _max_size of the undo and of the fork database
    fork_db,     \* [index, dead, head, cut], see below
    log,         \* _block_id_to_block: number -> the entry of the index file
    disk,        \* what of the log is not written to disk yet, see below
    task         \* the operation that is running

vars == <<head, saved, max_size, fork_db, log, disk, task>>

(***************************************************************************)
(* The fork database.  index is _index, head is _head, dead the items of   *)
(* the index whose weak pointer to the previous item is empty or expired,  *)
(* and cut says the same of _head, which may be an item of its own: one    *)
(* that was erased, or a second copy of a block the index has.  An erased  *)
(* item is gone at once here; a switch would keep those of its branches    *)
(* (db_block.cpp:146) until the end of the call.                           *)
(***************************************************************************)
(* Mutant: an erased item stays in the set of dead ones.                   *)
ErasedOnly(f, gone) == [f EXCEPT !.index = @ \ gone]

Erased(f, gone) ==
    [f EXCEPT !.index = @ \ gone,
              !.dead  = (@ \cup {b \in f.index : Parent(b) \in gone}) \ gone,
              !.cut   = @ \/ (f.head # None /\ Parent(f.head) \in gone)]

(* Mutant: nothing is ever too old.                                        *)
OlderThanNever(f, n) == {}

OlderThan(f, n) == {b \in f.index : Num(b) < n}

Refused(f, b, max) ==
    /\ f.head # None
    /\ \/ Num(b) <= Num(f.head) - max
       \/ Parent(b) # Genesis /\ Parent(b) \notin f.index

(* Mutant: the head moves only to a block that is two higher.              *)
HigherByTwo(f, b) == f.head = None \/ Num(b) > Num(f.head) + 1

Higher(f, b) == f.head = None \/ Num(b) > Num(f.head)

(* _push_block of a block that is not refused.                             *)
Linked(f, b, max) ==
    LET loose == f.head = None \/ Parent(b) = Genesis
        added == [f EXCEPT !.index = @ \cup {b},
                           !.dead  = IF loose /\ b \notin f.index
                                     THEN @ \cup {b} ELSE @,
                           !.head  = IF Higher(f, b) THEN b ELSE @,
                           !.cut   = IF Higher(f, b) THEN loose ELSE @]
    IN IF f.head # None /\ Higher(f, b)
       THEN Erased(added, OlderThan(added, Num(b) - max))
       ELSE added

Resized(f, max) ==
    IF f.head = None THEN f ELSE Erased(f, OlderThan(f, Num(f.head) - max))

(* set_head; the item of a first block never has a previous one.           *)
HeadSet(f, b) == [f EXCEPT !.head = b, !.cut = b \in f.dead \/ Parent(b) = Genesis]

Started(b) == [index |-> {b}, dead |-> {b}, head |-> b, cut |-> TRUE]
Cleared    == [index |-> {}, dead |-> {}, head |-> None, cut |-> TRUE]

(* The number of the newest block below both branches.  Of two blocks on   *)
(* one branch it is the parent of the lower one.                           *)
ForkPoint(a, b) ==
    Max({n \in 0 .. Num(a) : n < Num(a) /\ n < Num(b) /\ Prefix(a, n) = Prefix(b, n)})

(* Mutant: the walk goes on below the fork point, to the first block.      *)
TracedToTheRoot(f, b, n) ==
    /\ b \in f.index
    /\ \A k \in 1 .. Num(b) : Prefix(b, k) \notin f.dead

(* fetch_branch_from walks from b down to the block above the fork point.  *)
Traced(f, b, n) ==
    /\ b \in f.index
    /\ \A k \in n + 2 .. Num(b) : Prefix(b, k) \notin f.dead

(***************************************************************************)
(* The block log.  An entry has the id it was stored under and the block   *)
(* that was stored; the size of a removed entry is 0, its id stays.        *)
(*                                                                         *)
(* Both files are buffered, and written at the next seek.  disk has the    *)
(* number of the entry that was changed last (0: none), what it was before,*)
(* the block that was stored last, and failed: reading beyond the end of   *)
(* the file of blocks has left its stream in the failed state, in which    *)
(* reads throw and writes do nothing.  Torn stands for data that is        *)
(* missing in the file.                                                    *)
(***************************************************************************)
Unwritten == [id |-> None, data |-> None]
Torn      == <<None>>

Flushed(failed) == [num |-> 0, old |-> Unwritten, block |-> None, failed |-> failed]

(* What a kill of the process may leave: the last change of the index may  *)
(* be missing, and so may the data of the last block.                      *)
OnDisk ==
    LET index   == {log} \cup {[log EXCEPT ![n] = disk.old] : n \in {disk.num} \ {0}}
        Lost(l) == [n \in Heights |-> IF disk.block # None /\ l[n].data = disk.block
                                      THEN [l[n] EXCEPT !.data = Torn] ELSE l[n]]
    IN index \cup {Lost(l) : l \in index}

Stored(l, id, b) == [l EXCEPT ![Num(id)] = [id |-> id, data |-> b]]

(* Mutant: remove leaves the size of the entry.                            *)
RemovedNot(l, id) == l

Removed(l, id) == IF l[Num(id)].id = id THEN [l EXCEPT ![Num(id)].data = None] ELSE l

Intact(l, n) == l[n].data # None /\ l[n].id = l[n].data

(* last: the newest entry with a size; nothing if its block cannot be read.*)
NewestEntry(l) ==
    LET used == {n \in Heights : l[n].data # None}
    IN IF used = {} THEN None ELSE l[Max(used)].data

Newest(l) == IF NewestEntry(l) = Torn THEN None ELSE NewestEntry(l)

(***************************************************************************)
(* The undo history, and the number of the last irreversible block.        *)
(***************************************************************************)
Trimmed(s, max) == IF Len(s) > max THEN SubSeq(s, Len(s) - max + 1, Len(s)) ELSE s

(* start_undo_session; an empty stack gets a level of its own first.       *)
Opened(s, max, h) == IF s = <<>> THEN <<h, h>> ELSE Append(Trimmed(s, max), h)

(* Mutant: the level of a block that fails stays on the stack.             *)
ReopenedKept(s, max, h) == IF s = <<>> THEN <<h, h>> ELSE Append(Trimmed(s, max), h)

(* The session of a block that fails: its level is undone again.           *)
Reopened(s, max, h) == IF s = <<>> THEN <<h>> ELSE Trimmed(s, max)

LastConfirmed(w, b) == Max({0} \cup {n \in 1 .. Num(b) : Producer[Prefix(b, n)] = w})

Irreversible(b) ==
    LET offset == (3 * Cardinality(Witnesses)) \div 10
    IN Max({n \in 0 .. Num(b) :
              Cardinality({w \in Witnesses : LastConfirmed(w, b) < n}) <= offset})

(* Mutant: the histories are kept one block shorter.                       *)
HistorySizeShort(b) == Num(b) - Irreversible(Parent(b))

HistorySize(b) == Num(b) - Irreversible(Parent(b)) + 1
-----------------------------------------------------------------------------
Idle == [phase |-> "idle"]

Init ==
    /\ head = Genesis
    /\ saved = <<>>
    /\ max_size = InitialMax
    /\ fork_db = Cleared
    /\ log = [n \in Heights |-> Unwritten]
    /\ disk = Flushed(FALSE)
    /\ task = Idle

(* Mutant: the block is not stored in the log.                             *)
AppliedUnstored(b, f, id) ==
    /\ head' = b
    /\ saved' = Opened(saved, max_size, head)
    /\ max_size' = HistorySize(b)
    /\ fork_db' = Resized(f, HistorySize(b))
    /\ UNCHANGED <<log, disk>>

(* A block is applied in a session of its own, on top of the given fork    *)
(* database, and stored in the log under the given id.  The sessions of    *)
(* proposals that are carried out in it are closed again when it is done;  *)
(* the levels they may drop from a full history are left out.              *)
Applied(b, f, id) ==
    /\ head' = b
    /\ saved' = Opened(saved, max_size, head)
    /\ max_size' = HistorySize(b)
    /\ fork_db' = Resized(f, HistorySize(b))
    /\ log' = Stored(log, id, IF disk.failed THEN Torn ELSE b)
    /\ disk' = [num |-> Num(id), old |-> log[Num(id)],
                block |-> IF disk.failed THEN None ELSE b, failed |-> disk.failed]

(* Mutant: only the header is checked.                                     *)
AppliesUnchecked(b) == Parent(b) = head

(* validate_block_header and the evaluation of the transactions.           *)
Applies(b) == Parent(b) = head /\ b \in Valid

(* push_block: the fork database first; then, depending on the head it     *)
(* answers, the block itself is applied, or a switch of forks begins, or   *)
(* nothing more is done.  fetch_branch_from throws if an item is missing.  *)
push_block(b) ==
    /\ task = Idle
    /\ ~Refused(fork_db, b, max_size)
    /\ LET f      == Linked(fork_db, b, max_size)
           direct == Parent(f.head) = head
           point  == ForkPoint(f.head, head)
           switch == /\ ~direct
                     /\ Num(f.head) > Num(head)
                     /\ Traced(f, head, point) /\ Traced(f, f.head, point)
       IN \/ /\ direct /\ Applies(b)
             /\ Applied(b, f, b)
             /\ UNCHANGED task
          \/ /\ direct /\ ~Applies(b)
             /\ fork_db' = Erased(f, {b})
             /\ saved' = Reopened(saved, max_size, head)
             /\ UNCHANGED <<head, max_size, log, disk, task>>
          \/ /\ switch
             /\ fork_db' = f
             /\ task' = [phase |-> "pop", new |-> b, target |-> f.head,
                         origin |-> head, point |-> point]
             /\ UNCHANGED <<head, saved, max_size, log, disk>>
          \/ /\ ~direct /\ ~switch
             /\ fork_db' = f
             /\ UNCHANGED <<head, saved, max_size, log, disk, task>>

(* push_transaction opens the session of the pending transactions, with    *)
(* those of the transaction and of the proposals it executes inside.  They *)
(* are gone when the next block is handled; the oldest levels that were    *)
(* dropped to make room for them are lost.                                 *)
push_transaction(k) ==
    /\ task = Idle
    /\ saved' = IF saved = <<>> THEN <<head>> ELSE Trimmed(saved, max_size - k)
    /\ UNCHANGED <<head, max_size, fork_db, log, disk, task>>
-----------------------------------------------------------------------------
(***************************************************************************)
(* The loops of a switch: pop the blocks of the old fork, apply those of   *)
(* the new one; if one is invalid, forget it and the rest, pop the ones    *)
(* that were applied and apply the blocks of the old fork again.           *)
(***************************************************************************)
KnownHead ==
    \/ head \in fork_db.index
    \/ head # Genesis /\ ~disk.failed /\ log[Num(head)] = [id |-> head, data |-> head]

(* pop_block throws at once if the fork database cannot follow.  When the  *)
(* fork database and the log have followed it throws if no level is left.  *)
CanPop == KnownHead /\ ~fork_db.cut

Reverted ==
    /\ log' = Removed(log, head)
    /\ disk' = [disk EXCEPT !.num = IF log' = log THEN 0 ELSE Num(head),
                            !.old = IF log' = log THEN Unwritten ELSE log[Num(head)]]
    /\ IF saved = <<>> THEN UNCHANGED <<head, saved>>
       ELSE /\ head' = saved[Len(saved)]
            /\ saved' = SubSeq(saved, 1, Len(saved) - 1)
    /\ UNCHANGED max_size

pop_block ==
    /\ CanPop
    /\ fork_db' = HeadSet(fork_db, Parent(fork_db.head))
    /\ Reverted

Point == Prefix(task.origin, task.point)

PopTo(next) ==
    /\ pop_block
    /\ task' = IF saved = <<>> THEN Idle
               ELSE IF head' = Point THEN [task EXCEPT !.phase = next]
               ELSE task

switch_pop  == task.phase = "pop" /\ PopTo("apply")
restore_pop == task.phase = "unwind" /\ PopTo("restore")

pop_throws ==
    /\ task.phase \in {"pop", "unwind"}
    /\ ~CanPop
    /\ task' = Idle
    /\ UNCHANGED <<head, saved, max_size, fork_db, log, disk>>

switch_apply ==
    /\ task.phase = "apply"
    /\ LET b    == Prefix(task.target, Num(head) + 1)
           rest == {Prefix(task.target, n) : n \in Num(b) .. Num(task.target)}
       IN \/ /\ Applies(b)
             /\ Applied(b, fork_db, b)
             /\ task' = IF b = task.target THEN Idle ELSE task
          \/ /\ ~Applies(b)
             /\ fork_db' = HeadSet(Erased(fork_db, rest), task.origin)
             /\ saved' = Reopened(saved, max_size, head)
             /\ task' = [task EXCEPT !.phase = IF head = Point THEN "restore"
                                               ELSE "unwind"]
             /\ UNCHANGED <<head, max_size, log, disk>>

(* The blocks of the old fork go back, each stored under the id of the     *)
(* block that was pushed.                                                  *)
restore_apply ==
    /\ task.phase = "restore"
    /\ LET b == Prefix(task.origin, Num(head) + 1)
       IN /\ Applied(b, fork_db, task.new)
          /\ task' = IF b = task.origin THEN Idle ELSE task
-----------------------------------------------------------------------------
(***************************************************************************)
(* A shutdown, orderly or not, and the next start.                         *)
(***************************************************************************)

(* close: back to the last irreversible block, or as far as it goes.       *)
close ==
    /\ task = Idle
    /\ task' = [phase |-> "close", cutoff |-> Irreversible(head)]
    /\ UNCHANGED <<head, saved, max_size, fork_db, log, disk>>

(* close also takes the popped block out of the fork database.             *)
close_pop ==
    /\ task.phase = "close"
    /\ Num(head) > task.cutoff
    /\ CanPop
    /\ Reverted
    /\ fork_db' = Erased(HeadSet(fork_db, Parent(fork_db.head)),
                         IF saved = <<>> THEN {} ELSE {head})
    /\ task' = IF saved = <<>> THEN [task EXCEPT !.phase = "closed"] ELSE task

Closed ==
    \/ task.phase = "closed"
    \/ task.phase = "close" /\ (Num(head) <= task.cutoff \/ ~CanPop)

Consistent == Newest(log) \in {head, None} \/ head = Genesis

(* The next start opens the saved state, if it is the one of the newest    *)
(* block of the log.                                                       *)
open ==
    /\ Closed
    /\ Consistent
    /\ fork_db' = IF Newest(log) = None THEN Cleared ELSE Started(Newest(log))
    /\ disk' = Flushed(NewestEntry(log) = Torn)
    /\ saved' = <<>>
    /\ max_size' = InitialMax
    /\ task' = Idle
    /\ UNCHANGED <<head, log>>

Replayable(n) ==
    \A i \in 1 .. n :
       /\ Intact(log, i)
       /\ Parent(log[i].data) = (IF i = 1 THEN Genesis ELSE log[i - 1].data)
       /\ log[i].data \in Valid

(* The process is killed, at any point.  The directory dblock is left      *)
(* behind, so that the next start replays the log.                         *)
crash ==
    /\ task.phase # "crashed"
    /\ log' \in OnDisk
    /\ task' = [phase |-> "crashed"]
    /\ disk' = Flushed(FALSE)
    /\ fork_db' = Cleared
    /\ saved' = <<>>
    /\ max_size' = InitialMax
    /\ UNCHANGED head

Unclean == task.phase = "crashed" \/ (Closed /\ ~Consistent)

(* Otherwise the state is made again from the log, up to the first gap;    *)
(* what the log has behind the gap is dropped, but the fork database was   *)
(* already started with the newest block of all.  If that block cannot be  *)
(* read there is no last block, and nothing is replayed; in that case, and *)
(* if the block at the gap cannot be read, the stream is left failed.      *)
reindex ==
    /\ Unclean
    /\ LET n == IF Newest(log) = None THEN 0 ELSE Max({k \in {0} \cup Heights : Replayable(k)})
       IN /\ head' = IF n = 0 THEN Genesis ELSE log[n].data
          /\ max_size' = IF n = 0 THEN InitialMax ELSE HistorySize(head')
          /\ log' = [k \in Heights |-> IF k > n + 1 /\ Newest(log) # None
                                       THEN [log[k] EXCEPT !.data = None] ELSE log[k]]
          /\ disk' = Flushed(\/ NewestEntry(log) = Torn
                             \/ \E k \in {n + 1} \cap Heights : log[k].data = Torn)
    /\ fork_db' = IF Newest(log) = None THEN Cleared ELSE Started(Newest(log))
    /\ saved' = <<>>
    /\ task' = Idle
-----------------------------------------------------------------------------
Switching == switch_pop \/ switch_apply \/ restore_pop \/ restore_apply \/ pop_throws

Running ==
    \/ \E b \in Blocks : push_block(b)
    \/ \E k \in Nested : push_transaction(k)
    \/ Switching

Restarting == close \/ close_pop \/ crash \/ open \/ reindex

(* A node from its first start to its first shutdown, and with restarts.   *)
RunningSpec == Init /\ [][Running]_vars
Spec        == Init /\ [][Running \/ Restarting]_vars

(* Peers send a block only after its parent was taken, and again until it  *)
(* is taken (the sync protocol of the network layer); the loops go on.     *)
Delivered(b) ==
    /\ Parent(b) = Genesis \/ Parent(b) \in fork_db.index
    /\ push_block(b)

SyncSpec ==
    /\ Init
    /\ [][(\E b \in Blocks : Delivered(b)) \/ (\E k \in Nested : push_transaction(k))
          \/ Switching]_vars
    /\ WF_vars(Switching)
    /\ \A b \in Blocks : WF_vars(Delivered(b))
-----------------------------------------------------------------------------
(* The variables have their types; only items of the index are dead.       *)
TypeOK ==
    /\ head \in Blocks \cup {Genesis}
    /\ saved \in Seq(Blocks \cup {Genesis})
    /\ max_size \in Nat
    /\ fork_db.index \subseteq Blocks
    /\ fork_db.dead \subseteq fork_db.index
    /\ fork_db.head \in Blocks \cup {None}
    /\ fork_db.cut \in BOOLEAN
    /\ log \in [Heights -> [id : Blocks \cup {None}, data : Blocks \cup {None, Torn}]]
    /\ disk.num \in {0} \cup Heights /\ disk.block \in Blocks \cup {None}
    /\ task = Idle \/ task.phase \in {"pop", "apply", "unwind", "restore",
                                      "close", "closed", "crashed"}

(* The state is always the result of valid blocks only, also in the middle *)
(* of a switch, after a failed one, and after a replay of a log that is    *)
(* not what it should be (validate_block_header in apply_block).           *)
ChainIsValid == Branch(head) \subseteq Valid

(* pop_undo takes the state back by exactly one block, however sessions    *)
(* were opened, undone and trimmed; only the level an empty stack gets     *)
(* first leads nowhere.                                                    *)
LevelsLeadBack ==
    \A i \in 1 .. Len(saved) :
       LET above == IF i = Len(saved) THEN head ELSE saved[i + 1]
       IN \/ above # Genesis /\ saved[i] = Parent(above)
          \/ i = 1 /\ saved[i] = above

(* The fork database and the undo history are cut to the same length, the  *)
(* one relative to the newest block it has and the other to the state: no  *)
(* switch goes below the parent of the block that was irreversible before  *)
(* the head was applied.                                                   *)
SwitchStaysInWindow ==
    task.phase = "pop" => task.point >= Irreversible(Parent(task.origin)) - 1

(* A switch of forks ends on the new fork or, if one of its blocks is      *)
(* invalid, on the old one, never in between (_push_block: every partial   *)
(* change is unwound).                                                     *)
SwitchCompletes ==
    [][task.phase \in {"pop", "apply", "unwind", "restore"} /\ task' = Idle =>
          head' \in {task.origin, task.target}]_vars

(* Between two calls the block log holds the applied blocks, each under    *)
(* its own number and id (store and remove in push_block and pop_block).   *)
BlockLogMatches ==
    task = Idle => \A n \in 1 .. Num(head) : Intact(log, n) /\ log[n].data = Prefix(head, n)

(* Between two calls no branch that could be switched to is longer than    *)
(* the applied chain (the switch condition of _push_block).                *)
LongestForkFollowed ==
    task = Idle /\ head # Genesis =>
        \A b \in fork_db.index :
           LET point == ForkPoint(b, head)
           IN Traced(fork_db, head, point) /\ Traced(fork_db, b, point)
              => Num(b) <= Num(head)

(* A shutdown or a kill at any point, in the middle of a switch too, and   *)
(* the next start, with or without replay, may lose blocks or find some    *)
(* again, but never land on another fork; and the replay only stops at     *)
(* gaps, it meets no stored block that does not apply, which would end the *)
(* start of the node with an exception (close, open, reindex).             *)
RestartStaysOnFork ==
    [][(Closed \/ Unclean) /\ task' = Idle =>
          /\ OnBranch(head', head) \/ OnBranch(head, head')
          /\ Unclean /\ Newest(log) # None => \A n \in Heights :
                Replayable(n - 1) /\ Intact(log, n) => Replayable(n)]_vars

(* A node whose peers send valid blocks in order ends on a longest chain.  *)
CatchesUp == <>[](Num(head) = Max(Heights))
=============================================================================
