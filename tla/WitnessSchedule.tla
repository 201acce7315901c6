-------------------------- MODULE WitnessSchedule --------------------------
(***************************************************************************)
(* Who may produce the next block, and which block no fork can undo        *)
(* (db_witness_schedule.cpp, db_update.cpp, plugins/witness/witness.cpp).  *)
(* Every slot belongs to one witness; a slot without a block counts as     *)
(* missed once the next block comes.  The schedule is shuffled with each   *)
(* block whose number the number of active witnesses divides.  A block is  *)
(* irreversible once enough witnesses have produced on top of it, and the  *)
(* chain refuses to grow too far beyond the last irreversible block.       *)
(*                                                                         *)
(* Abstractions.  All counters are kept relative to the head block, or     *)
(* modulo Cycle, a multiple of every number of active witnesses: the code  *)
(* only uses their remainders by such numbers, and behaviours need no      *)
(* bound.  The witnesses in down never produce; every other one produces   *)
(* in each of its slots, unless its node finds the participation too low.  *)
(* The vote count at a maintenance, which also decides how many witnesses  *)
(* are active, is left to the environment, and so is the result of a       *)
(* shuffle.  Time is counted in block intervals since the head block.      *)
(***************************************************************************)
EXTENDS Integers, Sequences, FiniteSets, FiniteSetsExt, SequencesExt

CONSTANTS
    Witnesses,     \* all witnesses
    ActiveSets,    \* the sets of witnesses a vote count may make active
    Cycle,         \* a multiple of the sizes of these sets
    MaxDown,       \* how many witnesses are down
    Threshold,     \* GRAPHENE_IRREVERSIBLE_THRESHOLD, in percent
    MaxUndo,       \* GRAPHENE_MAX_UNDO_HISTORY
    Interval,      \* maintenance_interval, in block intervals
    SkipSlots,     \* maintenance_skip_slots
    Window,        \* how many slots recent_slots_filled remembers
    Required       \* _required_witness_participation, in percent

VARIABLES
    active,     \* active_witnesses
    shuffled,   \* current_shuffled_witnesses
    num,        \* head_block_num modulo Cycle
    aslot,      \* current_aslot modulo Cycle
    age,        \* head_block_num - last_confirmed_block_num of each witness
    gap,        \* head_block_num - last_irreversible_block_num
    till,       \* next_maintenance_time, as the time from the head block on
    flag,       \* maintenance_flag
    filled,     \* recent_slots_filled, the oldest slot first
    down,       \* the witnesses that do not produce
    turns,      \* history: whose slots have passed since the last shuffle
    passedOver, \* history: who had no slot between the last two shuffles
    resized     \* history: the number of active witnesses has changed

vars == <<active, shuffled, num, aslot, age, gap, till, flag, filled, down, turns, passedOver, resized>>

N == Cardinality(active)

ASSUME WitnessAssumption ==
    /\ {MaxUndo, Interval, Window, Cycle} \subseteq Nat \ {0}
    /\ {MaxDown, Threshold, SkipSlots, Required} \subseteq Nat
    /\ IsFiniteSet(Witnesses)
    /\ \A a \in ActiveSets : a # {} /\ a \subseteq Witnesses /\ Cycle % Cardinality(a) = 0

Orders(S) == {s \in [1 .. Cardinality(S) -> S] : IsInjective(s)}

(* The genesis gives the first order; the first block is a maintenance.    *)
Init ==
    /\ active \in ActiveSets
    /\ shuffled \in Orders(active)
    /\ num = 0 /\ aslot = 0 /\ gap = 0 /\ till = 0
    /\ age = [w \in Witnesses |-> 0]
    /\ flag = FALSE
    /\ filled = [i \in 1 .. Window |-> TRUE]
    /\ down \in {d \in SUBSET Witnesses : Cardinality(d) <= MaxDown}
    /\ turns = {} /\ passedOver = {} /\ resized = FALSE
-----------------------------------------------------------------------------
get_scheduled_witness(slot) == shuffled[((aslot + slot) % Len(shuffled)) + 1]

(* get_slot_time, as the distance from the head block.                     *)
get_slot_time(slot) == slot + (IF flag THEN SkipSlots ELSE 0)

get_slot_at_time(when) ==
    IF when < get_slot_time(1) THEN 0 ELSE when - get_slot_time(1) + 1

(* Mutant: the slot of the block itself is not marked.                     *)
FilledUnset(missed) ==
    LET s == filled \o [i \in 1 .. missed + 1 |-> FALSE]
    IN SubSeq(s, Len(s) - Window + 1, Len(s))

(* recent_slots_filled is shifted once for the block and once for every    *)
(* slot that was missed.                                                   *)
Filled(missed) ==
    LET s == filled \o <<TRUE>> \o [i \in 1 .. missed |-> FALSE]
    IN SubSeq(s, Len(s) - Window + 1, Len(s))

witness_participation_rate(f) == (100 * Cardinality({i \in 1 .. Window : f[i]})) \div Window

(* The ages once w has produced the next block.                            *)
Aged(w) == [v \in Witnesses |-> IF v = w THEN 0 ELSE Min({age[v] + 1, MaxUndo})]

(* Mutant: every witness has to confirm.                                   *)
OffsetNone == 0

(* How many of the active witnesses may lag behind.                        *)
Offset == ((100 - Threshold) * N) \div 100

(* update_last_irreversible_block: the latest block that all but Offset    *)
(* active witnesses have confirmed; it never goes back.                    *)
NewGap(ages) ==
    Min({gap + 1} \cup {k \in 0 .. MaxUndo :
                           Cardinality({w \in active : ages[w] <= k}) >= N - Offset})

(* Mutant: new active witnesses start a new round at once.                 *)
NewRoundAtOnce(S) == S # active \/ (num + 1) % Cardinality(S) = 0

(* The block starts a new round, with S for the active witnesses after it. *)
NewRound(S) == (num + 1) % Cardinality(S) = 0

(* update_witness_schedule.  In the history everyone's turn has passed as  *)
(* soon as the number of active witnesses changes: the round then is no    *)
(* longer as many blocks as the schedule has witnesses.                    *)
update_witness_schedule(S, slot) ==
    LET passed == IF Cardinality(S) = N
                  THEN turns \cup {get_scheduled_witness(k) : k \in 1 .. slot}
                  ELSE Witnesses
    IN \/ /\ NewRound(S)
          /\ shuffled' \in Orders(S)
          /\ turns' = {}
          /\ passedOver' = ToSet(shuffled) \ passed
       \/ /\ ~NewRound(S)
          /\ turns' = passed
          /\ UNCHANGED <<shuffled, passedOver>>

(* Mutant: the time is moved to the grid point before the block.           *)
NextMaintenanceBefore(when) ==
    IF till = 0 THEN 1 .. Interval
    ELSE {till - when + Interval * ((when - till) \div Interval)}

(* perform_chain_maintenance: the next time of the grid after the block.   *)
(* The first block finds its place in the grid.                            *)
NextMaintenance(when) ==
    IF till = 0 THEN 1 .. Interval
    ELSE {till - when + Interval * ((when - till) \div Interval + 1)}

(* A node can apply the block if its undo history reaches far enough.      *)
Undoable == gap + 1 < MaxUndo

(* The rate below which a node takes itself to be on a minority fork.      *)
Participating == witness_participation_rate(filled) >= Required

(* maybe_produce_block, and _apply_block for the block: the scheduled      *)
(* witness produces, and all slots before were of witnesses that are down. *)
produce_block(when, S) ==
    LET slot  == get_slot_at_time(when)
        w     == get_scheduled_witness(slot)
        maint == till <= when
    IN /\ slot > 0
       /\ w \notin down
       /\ \A k \in 1 .. slot - 1 : get_scheduled_witness(k) \in down
       /\ Participating
       /\ Undoable
       /\ filled' = Filled(slot - 1)
       /\ num' = (num + 1) % Cycle
       /\ aslot' = (aslot + slot) % Cycle
       /\ age' = Aged(w)
       /\ gap' = NewGap(age')
       /\ active' = S
       /\ maint \/ S = active
       /\ flag' = maint
       /\ till' \in IF maint THEN NextMaintenance(when) ELSE {till - when}
       /\ update_witness_schedule(S, slot)
       /\ resized' = (resized \/ Cardinality(S) # N)
       /\ UNCHANGED down

Next ==
    \E when \in 1 .. Cardinality(Witnesses) + SkipSlots, S \in ActiveSets : produce_block(when, S)

Spec == Init /\ [][Next]_vars
-----------------------------------------------------------------------------
(* The variables have their types.                                         *)
TypeOK ==
    /\ active \in ActiveSets
    /\ \E S \in ActiveSets : shuffled \in Orders(S)
    /\ num \in 0 .. Cycle - 1 /\ aslot \in 0 .. Cycle - 1
    /\ till \in 0 .. Interval
    /\ age \in [Witnesses -> 0 .. MaxUndo] /\ gap \in 0 .. MaxUndo
    /\ filled \in [1 .. Window -> BOOLEAN]
    /\ turns \subseteq Witnesses /\ passedOver \subseteq Witnesses /\ resized \in BOOLEAN

(* Every witness of a schedule has at least one slot before the schedule   *)
(* is shuffled again, however many slots were missed in between and        *)
(* whatever active witnesses a vote count puts in the place of others,     *)
(* unless it changes their number during the round: head_block_num is then *)
(* divided by another number, and the round may be cut short.  Rounds that *)
(* begin after such a change count again.                                  *)
EveryoneHasTurn == passedOver = {}

(* The number of active witnesses has never changed, and no more witnesses *)
(* are down than may lag behind.                                           *)
Steady == ~resized /\ Cardinality(down) <= Offset

(* In a steady system the last irreversible block is at most two rounds    *)
(* behind the head, whatever the shuffles are and although a vote count    *)
(* may bring in a witness that has not produced for long.                  *)
IrreversibleFollows == Steady => gap <= 2 * N

(* Then no node ever finds the participation too low to produce, and none  *)
(* runs out of undo history: the two guards that would stop all witnesses  *)
(* at once, for good, since only a block can change either.                *)
NeverStops == Steady => Participating /\ Undoable
=============================================================================
