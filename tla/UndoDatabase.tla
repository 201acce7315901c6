---------------------------- MODULE UndoDatabase ----------------------------
(***************************************************************************)
(* The object database and its undo stack (libraries/db).                  *)
(*                                                                         *)
(* Every object of the chain state lives in a primary index, is created    *)
(* with the next free instance of its type and is changed only through     *)
(* create, modify and remove, which first tell the undo database.  The     *)
(* undo database keeps a stack of undo_state records, one per session      *)
(* (block, pending transactions, transaction, proposal): what each object  *)
(* changed in the session was before it.  A session ends by undo, merge    *)
(* (into the level below) or commit; pop_commit reverts a committed one.   *)
(*                                                                         *)
(* Abstractions.  An object is its identifier <<type, instance>> and a     *)
(* value; the contents of objects and the secondary indexes are left out.  *)
(* The maps of an undo_state are total functions, None being "no entry".   *)
(* The history variables saved and stale hold what the code does not: the  *)
(* state at the time each level was pushed, and how many of the lowest     *)
(* levels missed changes because undo was disabled when they were made.    *)
(***************************************************************************)
EXTENDS Integers, Sequences

CONSTANTS
    Types,        \* object types (space.type pairs), one primary index each
    Values,       \* contents of an object
    None,         \* no object, or no entry in a map of an undo_state
    MaxInstance,  \* bound: instances per type
    MaxNesting,   \* bound: sessions active at the same time; the code has none
    MaxSizes      \* the values set_max_size is called with

(* update_global_dynamic_data keeps max_size at two or more.  Nothing      *)
(* relates it to MaxNesting: a proposal may approve, and so execute,       *)
(* another one, and push_proposal opens a session for each of them.        *)
ASSUME NoneAssumption == None \notin Values /\ None \notin Int
ASSUME BoundAssumption ==
    /\ MaxInstance \in Nat
    /\ MaxNesting \in Nat
    /\ MaxSizes \subseteq Nat
    /\ \A m \in MaxSizes : m >= 1

VARIABLES
    store,            \* the primary indexes: object -> value or None
    next_id,          \* the next free instance of each type
    stack,            \* _stack
    active_sessions,  \* _active_sessions
    max_size,         \* _max_size
    disabled,         \* _disabled
    disable_on_exit,  \* _disable_on_exit of the outermost session
    saved,            \* history: the state when each level was pushed
    stale             \* history: levels 1..stale missed changes

dbvars  == <<store, next_id>>
history == <<saved, stale>>
vars    == <<store, next_id, stack, active_sessions, max_size, disabled,
             disable_on_exit, saved, stale>>

OID     == Types \X (0 .. MaxInstance - 1)
Type(o) == o[1]
Inst(o) == o[2]
Entry   == Values \cup {None}
Cell    == (0 .. MaxInstance) \cup {None}
State   == [store : [OID -> Entry], next_id : [Types -> 0 .. MaxInstance]]

UndoState == [old_values : [OID -> Entry],
              old_index_next_ids : [Types -> Cell],
              new_ids : SUBSET OID,
              removed : [OID -> Entry]]

EmptyState == [old_values |-> [o \in OID |-> None],
               old_index_next_ids |-> [t \in Types |-> None],
               new_ids |-> {},
               removed |-> [o \in OID |-> None]]

Current == [store |-> store, next_id |-> next_id]

(***************************************************************************)
(* What the three notifications record in the top level.                   *)
(***************************************************************************)
on_create(u, o) ==
    [u EXCEPT !.old_index_next_ids[Type(o)] = IF @ = None THEN Inst(o) ELSE @,
              !.new_ids = @ \cup {o}]

(* Mutant: every modify overwrites the value to restore.                   *)
on_modify_again(u, o, was) ==
    IF o \in u.new_ids THEN u ELSE [u EXCEPT !.old_values[o] = was]

on_modify(u, o, was) ==
    IF o \in u.new_ids \/ u.old_values[o] # None
    THEN u
    ELSE [u EXCEPT !.old_values[o] = was]

(* Mutant: an object created and removed in one session stays in new_ids.  *)
on_remove_kept(u, o, was) ==
    IF o \in u.new_ids THEN u
    ELSE IF u.old_values[o] # None
         THEN [u EXCEPT !.removed[o] = u.old_values[o], !.old_values[o] = None]
    ELSE IF u.removed[o] # None THEN u
    ELSE [u EXCEPT !.removed[o] = was]

on_remove(u, o, was) ==
    IF o \in u.new_ids THEN [u EXCEPT !.new_ids = @ \ {o}]
    ELSE IF u.old_values[o] # None
         THEN [u EXCEPT !.removed[o] = u.old_values[o], !.old_values[o] = None]
    ELSE IF u.removed[o] # None THEN u
    ELSE [u EXCEPT !.removed[o] = was]

(***************************************************************************)
(* Reverting a level: restore the old values, remove the new objects, put  *)
(* back the next free instances, insert the removed objects, in this order.*)
(***************************************************************************)
RevertStore(u, s) ==
    [o \in OID |-> IF u.removed[o] # None THEN u.removed[o]
                   ELSE IF o \in u.new_ids THEN None
                   ELSE IF u.old_values[o] # None THEN u.old_values[o]
                   ELSE s[o]]

RevertNextId(u, n) ==
    [t \in Types |-> IF u.old_index_next_ids[t] # None
                     THEN u.old_index_next_ids[t] ELSE n[t]]

(* get_object and remove need the object, insert needs it absent.          *)
RevertSucceeds(u, s) ==
    \A o \in OID :
       /\ u.old_values[o] # None \/ o \in u.new_ids => s[o] # None
       /\ u.removed[o] # None => s[o] = None \/ o \in u.new_ids

(***************************************************************************)
(* The composition of two levels: a is prev_state, b the level on top.     *)
(***************************************************************************)
merged(a, b) ==
    LET old == [o \in OID |->
                  IF o \in a.new_ids \/ a.old_values[o] # None
                  THEN a.old_values[o] ELSE b.old_values[o]]
        new == a.new_ids \cup b.new_ids
        del == {o \in OID : b.removed[o] # None}
    IN [old_values |-> [o \in OID |-> IF o \in del \ new THEN None ELSE old[o]],
        old_index_next_ids |-> [t \in Types |->
           IF a.old_index_next_ids[t] # None THEN a.old_index_next_ids[t]
           ELSE b.old_index_next_ids[t]],
        new_ids |-> new \ del,
        removed |-> [o \in OID |->
           IF o \notin del \ new THEN a.removed[o]
           ELSE IF old[o] # None THEN old[o] ELSE b.removed[o]]]

(* The cells of the matrix in merge that are marked N/A.                   *)
CausalPair(a, b) ==
    \A o \in OID :
       /\ a.removed[o] # None =>
             b.old_values[o] = None /\ b.removed[o] = None /\ o \notin b.new_ids
       /\ o \in b.new_ids => o \notin a.new_ids /\ a.old_values[o] = None
-----------------------------------------------------------------------------
Init ==
    /\ store = [o \in OID |-> None]
    /\ next_id = [t \in Types |-> 0]
    /\ stack = <<>>
    /\ active_sessions = 0
    /\ max_size \in MaxSizes
    /\ disabled = FALSE
    /\ disable_on_exit = FALSE
    /\ saved = <<>>
    /\ stale = 0

(* A write reaches the top level, which is made first if there is none.    *)
(* While undo is disabled nothing is recorded.                             *)
record(u) ==
    IF disabled
    THEN stack' = stack /\ saved' = saved /\ stale' = Len(stack)
    ELSE /\ stack' = IF stack = <<>> THEN <<u>>
                     ELSE [stack EXCEPT ![Len(stack)] = u]
         /\ saved' = IF stack = <<>> THEN <<Current>> ELSE saved
         /\ stale' = stale

Top == IF stack = <<>> THEN EmptyState ELSE stack[Len(stack)]

create(t, v) ==
    /\ next_id[t] < MaxInstance
    /\ store' = [store EXCEPT ![<<t, next_id[t]>>] = v]
    /\ next_id' = [next_id EXCEPT ![t] = @ + 1]
    /\ record(on_create(Top, <<t, next_id[t]>>))
    /\ UNCHANGED <<active_sessions, max_size, disabled, disable_on_exit>>

modify(o, v) ==
    /\ store[o] # None
    /\ store' = [store EXCEPT ![o] = v]
    /\ record(on_modify(Top, o, store[o]))
    /\ UNCHANGED <<next_id, active_sessions, max_size, disabled, disable_on_exit>>

remove(o) ==
    /\ store[o] # None
    /\ store' = [store EXCEPT ![o] = None]
    /\ record(on_remove(Top, o, store[o]))
    /\ UNCHANGED <<next_id, active_sessions, max_size, disabled, disable_on_exit>>
-----------------------------------------------------------------------------
(* Mutant: one level too many is dropped.                                  *)
DroppedMore == IF Len(stack) >= max_size THEN Len(stack) - max_size + 1 ELSE 0

(* The levels left after "while( size() > max_size() ) pop_front".         *)
Dropped == IF Len(stack) > max_size THEN Len(stack) - max_size ELSE 0
Suffix(s, k) == SubSeq(s, k + 1, Len(s))

Pushed(s, x) == IF s = <<>> THEN <<x, x>> ELSE Append(s, x)

(* Only push_proposal forces; nothing else starts a session while undo is  *)
(* disabled.  MaxNesting bounds the model, not the code.                   *)
start_undo_session(force_enable) ==
    /\ disabled => force_enable
    /\ active_sessions < MaxNesting
    /\ stack' = Pushed(Suffix(stack, Dropped), EmptyState)
    /\ saved' = Pushed(Suffix(saved, Dropped), Current)
    /\ stale' = IF stale > Dropped THEN stale - Dropped ELSE 0
    /\ active_sessions' = active_sessions + 1
    /\ disable_on_exit' = (disable_on_exit \/ disabled)
    /\ disabled' = FALSE
    /\ UNCHANGED <<dbvars, max_size>>

(* Mutant: a session may end although none is active.                      *)
SessionEndsUnchecked ==
    /\ active_sessions' = active_sessions - 1
    /\ IF active_sessions = 1
       THEN disabled' = disable_on_exit /\ disable_on_exit' = FALSE
       ELSE UNCHANGED <<disabled, disable_on_exit>>

(* ~session of the outermost session disables undo again if it forced it.  *)
SessionEnds ==
    /\ active_sessions > 0
    /\ active_sessions' = active_sessions - 1
    /\ IF active_sessions = 1
       THEN disabled' = disable_on_exit /\ disable_on_exit' = FALSE
       ELSE UNCHANGED <<disabled, disable_on_exit>>

Front(s) == SubSeq(s, 1, Len(s) - 1)

(* Mutant: the next free instances are taken from the level below, if it   *)
(* has them.                                                               *)
undo_wrong_level ==
    /\ ~disabled
    /\ SessionEnds
    /\ store' = RevertStore(Top, store)
    /\ next_id' = RevertNextId(IF Len(stack) > 1 THEN stack[Len(stack) - 1] ELSE Top,
                               RevertNextId(Top, next_id))
    /\ stack' = IF Len(stack) = 1 THEN <<EmptyState>> ELSE Front(stack)
    /\ saved' = IF Len(stack) = 1 THEN <<[store |-> store', next_id |-> next_id']>>
                ELSE Front(saved)
    /\ stale' = IF Len(stack) = 1 THEN 0 ELSE stale
    /\ UNCHANGED max_size

undo ==
    /\ ~disabled
    /\ SessionEnds
    /\ store' = RevertStore(Top, store)
    /\ next_id' = RevertNextId(Top, next_id)
    /\ IF Len(stack) = 1
       THEN /\ stack' = <<EmptyState>>
            /\ saved' = <<[store |-> store', next_id |-> next_id']>>
            /\ stale' = 0
       ELSE /\ stack' = Front(stack)
            /\ saved' = Front(saved)
            /\ stale' = stale
    /\ UNCHANGED max_size

merge ==
    /\ Len(stack) >= 2
    /\ SessionEnds
    /\ stack' = [Front(stack) EXCEPT ![Len(stack) - 1] = merged(@, Top)]
    /\ saved' = Front(saved)
    /\ UNCHANGED <<dbvars, max_size, stale>>

(* Only apply_block's session is committed, and undo is never disabled     *)
(* while one runs.                                                         *)
commit ==
    /\ SessionEnds
    /\ ~disable_on_exit
    /\ UNCHANGED <<dbvars, stack, max_size, history>>

pop_commit ==
    /\ active_sessions = 0
    /\ ~disabled
    /\ stack # <<>>
    /\ store' = RevertStore(Top, store)
    /\ next_id' = RevertNextId(Top, next_id)
    /\ stack' = Front(stack)
    /\ saved' = Front(saved)
    /\ UNCHANGED <<active_sessions, max_size, disabled, disable_on_exit, stale>>

(* Mutant: the stack is trimmed at once.                                   *)
set_max_size_trims(n) ==
    LET more == IF Len(stack) > n THEN Len(stack) - n ELSE 0
    IN /\ max_size' = n
       /\ stack' = Suffix(stack, more)
       /\ saved' = Suffix(saved, more)
       /\ stale' = IF stale > more THEN stale - more ELSE 0
       /\ UNCHANGED <<dbvars, active_sessions, disabled, disable_on_exit>>

set_max_size(n) ==
    /\ max_size' = n
    /\ UNCHANGED <<dbvars, stack, active_sessions, disabled, disable_on_exit, history>>

(* init_genesis and reindex, on a database that was just opened.           *)
disable ==
    /\ stack = <<>>
    /\ ~disabled
    /\ disabled' = TRUE
    /\ UNCHANGED <<dbvars, stack, active_sessions, max_size, disable_on_exit, history>>

enable ==
    /\ disabled
    /\ disabled' = FALSE
    /\ UNCHANGED <<dbvars, stack, active_sessions, max_size, disable_on_exit, history>>

(* pop_block, the only caller of pop_commit, reaches no level that lies    *)
(* under the block the fork database was started with, so none that a      *)
(* replay without undo left behind.                                        *)
pop_block == Len(stack) > stale /\ pop_commit

Next ==
    \/ \E t \in Types, v \in Values : create(t, v)
    \/ \E o \in OID, v \in Values : modify(o, v)
    \/ \E o \in OID : remove(o)
    \/ \E force_enable \in BOOLEAN : start_undo_session(force_enable)
    \/ undo
    \/ merge
    \/ commit
    \/ pop_block
    \/ \E n \in MaxSizes : set_max_size(n)
    \/ disable
    \/ enable

Spec == Init /\ [][Next]_vars
-----------------------------------------------------------------------------
(* The variables hold what the code's types allow, and the history has one *)
(* saved state per level.                                                  *)
TypeOK ==
    /\ store \in [OID -> Entry]
    /\ next_id \in [Types -> 0 .. MaxInstance]
    /\ stack \in Seq(UndoState)
    /\ active_sessions \in 0 .. MaxNesting
    /\ max_size \in MaxSizes
    /\ disabled \in BOOLEAN
    /\ disable_on_exit \in BOOLEAN
    /\ saved \in Seq(State)
    /\ Len(saved) = Len(stack)
    /\ stale \in 0 .. Len(stack)

Above(i) == IF i = Len(stack) THEN Current ELSE saved[i + 1]

(* Reverting any level that saw every change, from the state above it,     *)
(* gives back exactly the state in which the level was pushed: objects,    *)
(* values and next free instances (undo and pop_commit, whatever mixture   *)
(* of create, modify, remove, nested undo and merge came between).         *)
EveryLevelRestores ==
    \A i \in stale + 1 .. Len(stack) :
       /\ RevertStore(stack[i], Above(i).store) = saved[i].store
       /\ RevertNextId(stack[i], Above(i).next_id) = saved[i].next_id

(* The destructor of a session and pop_block never throw in the middle of  *)
(* a revert: every object to restore or to remove exists, and every object *)
(* to insert again is absent.                                              *)
RevertNeverThrows ==
    Len(stack) > stale => RevertSucceeds(Top, store)

(* Whatever two levels merge meets, also a level left by a replay without  *)
(* undo, they are in no cell of its matrix marked N/A: its asserts hold.   *)
MergeIsCausal ==
    active_sessions > 0 /\ Len(stack) >= 2 =>
        CausalPair(stack[Len(stack) - 1], Top)

(* No step takes the level of a session that can still be undone or        *)
(* merged, unless more than max_size + 1 sessions are open: the trim in    *)
(* start_undo_session, which counts levels and not sessions, leaves one    *)
(* for each, whatever levels of committed blocks, of nested proposals and  *)
(* of a replay lie on the stack.                                           *)
ActiveLevelsKept ==
    [][ active_sessions <= Len(stack) - stale /\ active_sessions' <= max_size + 1
           => active_sessions' <= Len(stack') - stale' ]_vars

-----------------------------------------------------------------------------
(***************************************************************************)
(* The inductive invariant: what a level has to be relative to the states  *)
(* below and above it.                                                     *)
(***************************************************************************)
WellFormed(s) == \A o \in OID : s.store[o] # None => Inst(o) < s.next_id[Type(o)]

Fits(u, below, above) ==
    /\ \A o \in OID :
          /\ o \in u.new_ids =>
                /\ below.store[o] = None /\ above.store[o] # None
                /\ u.old_values[o] = None /\ u.removed[o] = None
                /\ below.next_id[Type(o)] <= Inst(o)
          /\ u.old_values[o] # None =>
                /\ below.store[o] = u.old_values[o] /\ above.store[o] # None
                /\ u.removed[o] = None
          /\ u.removed[o] # None =>
                below.store[o] = u.removed[o] /\ above.store[o] = None
          /\ o \notin u.new_ids /\ u.old_values[o] = None /\ u.removed[o] = None =>
                below.store[o] = above.store[o]
    /\ \A t \in Types :
          /\ below.next_id[t] <= above.next_id[t]
          /\ u.old_index_next_ids[t] # None => u.old_index_next_ids[t] = below.next_id[t]
          /\ u.old_index_next_ids[t] = None => above.next_id[t] = below.next_id[t]

(* What is left of Fits for a level that missed changes.                   *)
Remnant(u, above) ==
    \A o \in OID :
       /\ o \in u.new_ids \/ u.old_values[o] # None => Inst(o) < above.next_id[Type(o)]
       /\ u.removed[o] # None =>
             Inst(o) < above.next_id[Type(o)] /\ above.store[o] = None

(* Every level fits between its saved state and the state above it; the    *)
(* newest level that missed changes is a remnant; while a session is open  *)
(* a level that missed nothing is on top, and no open session has lost its *)
(* level before the last remnant is gone; undo is disabled only between    *)
(* sessions.                                                               *)
IInv ==
    /\ TypeOK
    /\ WellFormed(Current)
    /\ \A i \in 1 .. Len(stack) : i > stale => WellFormed(saved[i])
    /\ \A i \in 1 .. Len(stack) : i > stale => Fits(stack[i], saved[i], Above(i))
    /\ stale > 0 => Remnant(stack[stale], Above(stale))
    /\ active_sessions > 0 => Len(stack) > stale
    /\ stale > 0 => active_sessions <= Len(stack) - stale
    /\ disabled => active_sessions = 0
    /\ disable_on_exit => active_sessions > 0

Abstract ==
    INSTANCE SnapshotStack WITH
        States <- State,
        state  <- Current,
        saved  <- Suffix(saved, stale),
        open   <- active_sessions,
        limit  <- max_size

(* The undo stack behaves as a stack of complete snapshots would.          *)
RollsBackToSnapshots == Abstract!Spec
=============================================================================
