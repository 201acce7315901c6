------------------------ MODULE ChainDatabaseProofs ------------------------
(***************************************************************************)
(* Proofs about ChainDatabase, for any tree of blocks, any set of valid    *)
(* ones and any witnesses: what holds on every run of a node with switches *)
(* of forks, shutdowns, kills and replays; then, for a node from its first *)
(* start to its first shutdown, what becomes of the block log and of the   *)
(* switches while the undo history lasts, how long it lasts, which fork is *)
(* followed and how deep a switch goes.                                    *)
(***************************************************************************)
EXTENDS ChainDatabase, NumberLemmas, SequenceTheorems, FiniteSetTheorems, TLAPS

(* The states of the database.                                             *)
States == Blocks \cup {Genesis}

Contents == UNION {{b[i] : i \in DOMAIN b} : b \in Blocks}
-----------------------------------------------------------------------------
(***************************************************************************)
(* The tree of blocks.  These lemmas are all that the rest needs to know   *)
(* of the sequences that stand for blocks.                                 *)
(***************************************************************************)
(* A state is a sequence, and Prefix cuts it.                              *)
LEMMA PrefixOf ==
    ASSUME NEW b \in Seq(Contents), NEW n \in 0 .. Num(b)
    PROVE  /\ Prefix(b, n) \in Seq(Contents) /\ Num(Prefix(b, n)) = n
           /\ \A i \in 1 .. n : Prefix(b, n)[i] = b[i]
<1>1. Len(b) \in Nat /\ \A i \in 1 .. n : b[i] \in Contents
  BY DEF Num
<1>2. /\ SubSeq(b, 1, n) \in Seq(Contents)
      /\ Len(SubSeq(b, 1, n)) = IF 1 <= n THEN n - 1 + 1 ELSE 0
      /\ \A i \in 1 .. n - 1 + 1 : SubSeq(b, 1, n)[i] = b[1 + i - 1]
  BY <1>1, SubSeqProperties
<1> QED
  BY <1>1, <1>2 DEF Prefix, Num

(* A state of the chain is a sequence of contents.                         *)
LEMMA StatesAreSequences ==
    /\ \A b \in States : b \in Seq(Contents) /\ Num(b) \in Nat
    /\ \A b \in States : b = Genesis <=> Num(b) = 0
    /\ \A b \in States : b = Genesis <=> b \notin Blocks
<1>1. \A b \in Blocks : b \in Seq(Contents)
  <2>1. SUFFICES ASSUME NEW b \in Blocks PROVE b \in Seq(Contents)
    OBVIOUS
  <2>2. b \in Seq({b[i] : i \in DOMAIN b})
    BY BlocksAssumption
  <2>3. {b[i] : i \in DOMAIN b} \subseteq Contents
    BY DEF Contents
  <2> QED
    BY <2>2, <2>3
<1>2. Genesis \in Seq(Contents) /\ Len(Genesis) = 0
  BY DEF Genesis
<1>3. \A b \in States : b \in Seq(Contents)
  BY <1>1, <1>2 DEF States
<1>4. \A b \in States : Len(b) \in Nat /\ (b = Genesis <=> Len(b) = 0)
  BY <1>3, EmptySeq DEF Genesis
<1>5. \A b \in States : b = Genesis <=> b \notin Blocks
  BY BlocksAssumption DEF States
<1> QED
  BY <1>3, <1>4, <1>5 DEF Num

(* The blocks and the initial state below a state.                         *)
LEMMA PrefixFacts ==
    ASSUME NEW b \in States, NEW n \in 0 .. Num(b)
    PROVE  /\ Prefix(b, n) \in States /\ Num(Prefix(b, n)) = n
           /\ n # 0 => Prefix(b, n) \in Blocks /\ Prefix(b, n) \in Branch(b)
           /\ Prefix(b, Num(b)) = b
           /\ Prefix(b, 0) = Genesis
           /\ \A m \in 0 .. n : Prefix(Prefix(b, n), m) = Prefix(b, m)
<1>1. b \in Seq(Contents) /\ Num(b) \in Nat
  BY StatesAreSequences
<1>2. Prefix(b, n) \in Seq(Contents) /\ Num(Prefix(b, n)) = n
  BY <1>1, PrefixOf
<1>3. Prefix(b, Num(b)) = b
  <2>1. SubSeq(b, 1, Len(b)) = b
    BY <1>1, SubSeqFull
  <2> QED
    BY <2>1 DEF Prefix, Num
<1>4. Prefix(b, 0) = Genesis
  <2>1. SubSeq(b, 1, 0) = << >>
    BY SubSeqEmpty
  <2> QED
    BY <2>1 DEF Prefix, Genesis
<1>5. n # 0 => Prefix(b, n) \in Blocks /\ Prefix(b, n) \in Branch(b)
  <2>1. SUFFICES ASSUME n # 0 PROVE Prefix(b, n) \in Blocks /\ Prefix(b, n) \in Branch(b)
    OBVIOUS
  <2>2. b \in Blocks
    BY <2>1, <1>1, StatesAreSequences
  <2>3. n \in 1 .. Num(b)
    BY <2>1, <1>1
  <2>4. Prefix(b, n) \in Branch(b)
    BY <2>3 DEF Branch
  <2> QED
    BY <2>2, <2>4, BlocksAssumption
<1>6. Prefix(b, n) \in States
  BY <1>4, <1>5 DEF States
<1>7. ASSUME NEW m \in 0 .. n
      PROVE  Prefix(Prefix(b, n), m) = Prefix(b, m)
  <2>1. m \in 0 .. Num(b) /\ m \in 0 .. Num(Prefix(b, n))
    BY <1>1, <1>2
  <2>2. Prefix(b, m) \in Seq(Contents) /\ Num(Prefix(b, m)) = m
        /\ \A i \in 1 .. m : Prefix(b, m)[i] = b[i]
    BY <1>1, <2>1, PrefixOf
  <2>3. Prefix(Prefix(b, n), m) \in Seq(Contents) /\ Num(Prefix(Prefix(b, n), m)) = m
        /\ \A i \in 1 .. m : Prefix(Prefix(b, n), m)[i] = Prefix(b, n)[i]
    BY <1>2, <2>1, PrefixOf
  <2>4. \A i \in 1 .. n : Prefix(b, n)[i] = b[i]
    BY <1>1, PrefixOf
  <2>5. \A i \in 1 .. m : Prefix(Prefix(b, n), m)[i] = Prefix(b, m)[i]
    BY <2>2, <2>3, <2>4
  <2> QED
    BY <2>2, <2>3, <2>5, SeqEqual DEF Num
<1> QED
  BY <1>2, <1>3, <1>4, <1>5, <1>6, <1>7

(* The parent of a block is one shorter and has the same ancestors.        *)
LEMMA ParentFacts ==
    ASSUME NEW b \in Blocks
    PROVE  /\ Num(b) \in Nat \ {0} /\ b \in States
           /\ Parent(b) \in States /\ Num(Parent(b)) = Num(b) - 1
           /\ Branch(b) = Branch(Parent(b)) \cup {b}
           /\ \A m \in 0 .. Num(b) - 1 : Prefix(Parent(b), m) = Prefix(b, m)
<1>1. b \in States /\ Num(b) \in Nat \ {0}
  BY StatesAreSequences DEF States
<1>2. Num(b) - 1 \in 0 .. Num(b)
  BY <1>1
<1>3. /\ Parent(b) \in States /\ Num(Parent(b)) = Num(b) - 1
      /\ \A m \in 0 .. Num(b) - 1 : Prefix(Parent(b), m) = Prefix(b, m)
  BY <1>1, <1>2, PrefixFacts DEF Parent
<1>4. Prefix(b, Num(b)) = b
  BY <1>1, <1>2, PrefixFacts
<1>5. Branch(b) \subseteq Branch(Parent(b)) \cup {b}
  <2>1. SUFFICES ASSUME NEW n \in 1 .. Num(b) PROVE Prefix(b, n) \in Branch(Parent(b)) \cup {b}
    BY DEF Branch
  <2>2. CASE n = Num(b)
    BY <2>2, <1>4
  <2>3. CASE n # Num(b)
    <3>1. n \in 1 .. Num(Parent(b)) /\ n \in 0 .. Num(b) - 1
      BY <2>3, <1>1, <1>3
    <3> QED
      BY <3>1, <1>3 DEF Branch
  <2> QED
    BY <2>2, <2>3
<1>6. Branch(Parent(b)) \subseteq Branch(b)
  <2>1. SUFFICES ASSUME NEW n \in 1 .. Num(Parent(b)) PROVE Prefix(Parent(b), n) \in Branch(b)
    BY DEF Branch
  <2>2. n \in 1 .. Num(b) /\ n \in 0 .. Num(b) - 1
    BY <1>1, <1>3
  <2> QED
    BY <2>2, <1>3 DEF Branch
<1>7. b \in Branch(b)
  <2>1. Num(b) \in 1 .. Num(b)
    BY <1>1
  <2> QED
    BY <2>1, <1>4 DEF Branch
<1> QED
  BY <1>1, <1>3, <1>5, <1>6, <1>7

(* Being on the branch of another block is a partial order, in which what  *)
(* is below one block is a line.                                           *)
LEMMA OnBranchFacts ==
    ASSUME NEW a \in States, NEW b \in States, NEW c \in States
    PROVE  /\ OnBranch(a, a) /\ OnBranch(Genesis, a)
           /\ OnBranch(a, b) /\ OnBranch(b, c) => OnBranch(a, c)
           /\ OnBranch(a, c) /\ OnBranch(b, c) /\ Num(a) <= Num(b) => OnBranch(a, b)
           /\ OnBranch(a, b) /\ Num(a) = Num(b) => a = b
           /\ OnBranch(a, b) => Branch(a) \subseteq Branch(b)
<1>1. /\ Num(a) \in Nat /\ Num(b) \in Nat /\ Num(c) \in Nat
      /\ Genesis \in States /\ Num(Genesis) = 0
  BY StatesAreSequences DEF States
<1>2. \A x \in States : Prefix(x, Num(x)) = x /\ Prefix(x, 0) = Genesis
  <2>1. \A x \in States : 0 \in 0 .. Num(x)
    BY StatesAreSequences
  <2> QED
    BY <2>1, PrefixFacts
<1>3. OnBranch(a, a) /\ OnBranch(Genesis, a)
  BY <1>1, <1>2 DEF OnBranch
<1>4. OnBranch(a, b) /\ OnBranch(b, c) => OnBranch(a, c)
  <2>1. SUFFICES ASSUME OnBranch(a, b), OnBranch(b, c) PROVE OnBranch(a, c)
    OBVIOUS
  <2>2. Num(b) \in 0 .. Num(c) /\ Num(a) \in 0 .. Num(b)
    BY <2>1, <1>1 DEF OnBranch
  <2>3. Prefix(Prefix(c, Num(b)), Num(a)) = Prefix(c, Num(a))
    BY <2>2, PrefixFacts
  <2> QED
    BY <2>1, <2>2, <2>3, <1>1 DEF OnBranch
<1>5. OnBranch(a, c) /\ OnBranch(b, c) /\ Num(a) <= Num(b) => OnBranch(a, b)
  <2>1. SUFFICES ASSUME OnBranch(a, c), OnBranch(b, c), Num(a) <= Num(b) PROVE OnBranch(a, b)
    OBVIOUS
  <2>2. Num(b) \in 0 .. Num(c) /\ Num(a) \in 0 .. Num(b)
    BY <2>1, <1>1 DEF OnBranch
  <2>3. Prefix(Prefix(c, Num(b)), Num(a)) = Prefix(c, Num(a))
    BY <2>2, PrefixFacts
  <2> QED
    BY <2>1, <2>3 DEF OnBranch
<1>6. OnBranch(a, b) /\ Num(a) = Num(b) => a = b
  BY <1>2 DEF OnBranch
<1>7. OnBranch(a, b) => Branch(a) \subseteq Branch(b)
  <2>1. SUFFICES ASSUME OnBranch(a, b), NEW n \in 1 .. Num(a) PROVE Prefix(a, n) \in Branch(b)
    BY DEF Branch
  <2>2. Num(a) \in 0 .. Num(b) /\ n \in 0 .. Num(a) /\ n \in 1 .. Num(b)
    BY <2>1, <1>1 DEF OnBranch
  <2>3. Prefix(Prefix(b, Num(a)), n) = Prefix(b, n)
    BY <2>2, PrefixFacts
  <2> QED
    BY <2>1, <2>2, <2>3 DEF OnBranch, Branch
<1> QED
  BY <1>3, <1>4, <1>5, <1>6, <1>7
-----------------------------------------------------------------------------
(***************************************************************************)
(* The numbers the model computes.                                         *)
(***************************************************************************)
(* Every block has a place in the log.                                     *)
LEMMA HeightsFacts ==
    /\ Heights \subseteq Nat \ {0} /\ IsFiniteSet(Heights)
    /\ \A b \in Blocks : Num(b) \in Heights
    /\ \A n \in Heights : \A k \in 1 .. n : k \in Heights
<1> DEFINE N == {Num(b) : b \in Blocks}
           S == N \cup {1}
           f == [b \in Blocks |-> Num(b)]
<1>1. S \in SUBSET Nat /\ S # {}
  BY ParentFacts
<1>2. IsFiniteSet(N)
  <2>1. f \in Surjection(Blocks, N)
    BY DEF Surjection
  <2> QED
    BY <2>1, BlocksAssumption, FS_Surjection
<1>3. IsFiniteSet(S)
  <2> HIDE DEF N
  <2> QED
    BY <1>2, FS_AddElement
<1>4. Max(S) \in Nat /\ \A k \in S : k <= Max(S)
  <2>1. Max(S) \in S /\ \A k \in S : k <= Max(S)
    <3> HIDE DEF S
    <3> QED
      BY <1>1, <1>3, MaxIsLargest
  <2> QED
    BY <1>1, <2>1
<1>5. Heights = 1 .. Max(S)
  BY DEF Heights
<1>6. \A b \in Blocks : Num(b) <= Max(S) /\ Num(b) \in Nat \ {0}
  <2>1. \A b \in Blocks : Num(b) \in S
    OBVIOUS
  <2> QED
    BY <2>1, <1>4, ParentFacts
<1>7. IsFiniteSet(Heights)
  <2> HIDE DEF S
  <2> QED
    BY <1>4, <1>5, FS_Interval
<1> HIDE DEF S
<1> QED
  BY <1>4, <1>5, <1>6, <1>7

(* The irreversible block of a state is a number up to that of its head.   *)
LEMMA IrreversibleFacts ==
    ASSUME NEW b \in States
    PROVE  Irreversible(b) \in 0 .. Num(b)
<1>1. Num(b) \in Nat
  BY StatesAreSequences
<1>2. \A w \in Witnesses : LastConfirmed(w, b) \in Nat
  <2>1. SUFFICES ASSUME NEW w \in Witnesses PROVE LastConfirmed(w, b) \in Nat
    OBVIOUS
  <2> DEFINE C == {0} \cup {n \in 1 .. Num(b) : Producer[Prefix(b, n)] = w}
  <2>2. C \in SUBSET Nat /\ C # {} /\ \A k \in C : k <= Num(b)
    BY <1>1
  <2>3. Max(C) \in C
    <3> HIDE DEF C
    <3> QED
      BY <2>2, <1>1, MaxOfBounded
  <2> QED
    BY <2>2, <2>3 DEF LastConfirmed
<1> DEFINE offset == (3 * Cardinality(Witnesses)) \div 10
           I == {n \in 0 .. Num(b) :
                   Cardinality({w \in Witnesses : LastConfirmed(w, b) < n}) <= offset}
<1>3. I \in SUBSET Nat /\ \A k \in I : k <= Num(b)
  BY <1>1
<1>4. 0 \in I
  <2>1. {w \in Witnesses : LastConfirmed(w, b) < 0} = {}
    BY <1>2
  <2>2. Cardinality({}) = 0
    BY FS_EmptySet
  <2>3. Cardinality(Witnesses) \in Nat
    BY WitnessAssumption, FS_CardinalityType
  <2>4. 0 <= offset
    BY <2>3
  <2>5. Cardinality({w \in Witnesses : LastConfirmed(w, b) < 0}) <= offset
    BY <2>1, <2>2, <2>4
  <2> QED
    BY <2>5, <1>1
<1>5. Max(I) \in 0 .. Num(b)
  <2> HIDE DEF I
  <2> QED
    BY <1>1, <1>3, <1>4, MaxOfBounded
<1> QED
  BY <1>5 DEF Irreversible

(* The size of the undo history after a block is not negative.             *)
LEMMA HistorySizeFacts ==
    ASSUME NEW b \in Blocks
    PROVE  HistorySize(b) \in Nat
<1>1. Irreversible(Parent(b)) \in 0 .. (Num(b) - 1) /\ Num(b) \in Nat
  BY ParentFacts, IrreversibleFacts
<1> QED
  BY <1>1 DEF HistorySize

(* Two branches part below the heads of both, and are the same up to it.   *)
LEMMA ForkPointFacts ==
    ASSUME NEW a \in Blocks, NEW b \in Blocks
    PROVE  /\ ForkPoint(a, b) \in Nat /\ ForkPoint(a, b) < Num(a) /\ ForkPoint(a, b) < Num(b)
           /\ Prefix(a, ForkPoint(a, b)) = Prefix(b, ForkPoint(a, b))
<1> DEFINE S == {n \in 0 .. Num(a) : n < Num(a) /\ n < Num(b) /\ Prefix(a, n) = Prefix(b, n)}
<1>1. Num(a) \in Nat \ {0} /\ Num(b) \in Nat \ {0} /\ a \in States /\ b \in States
  BY ParentFacts
<1>2. S \in SUBSET Nat /\ \A k \in S : k <= Num(a)
  BY <1>1
<1>3. 0 \in S
  <2>1. 0 \in 0 .. Num(a) /\ 0 \in 0 .. Num(b)
    BY <1>1
  <2>2. Prefix(a, 0) = Genesis /\ Prefix(b, 0) = Genesis
    BY <1>1, <2>1, PrefixFacts
  <2> QED
    BY <1>1, <2>1, <2>2
<1>4. Max(S) \in S
  <2> HIDE DEF S
  <2> QED
    BY <1>1, <1>2, <1>3, MaxOfBounded
<1> QED
  BY <1>2, <1>4 DEF ForkPoint
-----------------------------------------------------------------------------
(***************************************************************************)
(* The inductive invariant.  Types first.                                  *)
(***************************************************************************)
Entries == [id : Blocks \cup {None}, data : Blocks \cup {None, Torn}]

ForkTyped(f) ==
    /\ f \in [index : SUBSET Blocks, dead : SUBSET Blocks,
              head : Blocks \cup {None}, cut : BOOLEAN]
    /\ f.dead \subseteq f.index
    /\ f.cut \/ (f.head # None /\ Parent(f.head) # Genesis)

(* An entry of the log has the number of its id.                           *)
LogTyped ==
    /\ log \in [Heights -> Entries]
    /\ \A n \in Heights : log[n].id # None => Num(log[n].id) = n
    /\ disk \in [num : {0} \cup Heights, old : Entries,
                 block : Blocks \cup {None}, failed : BOOLEAN]
    /\ disk.num # 0 /\ disk.old.id # None => Num(disk.old.id) = disk.num

SwitchPhases == {"pop", "apply", "unwind", "restore"}

SwitchTasks == [phase : SwitchPhases, new : Blocks, target : Blocks,
                origin : Blocks, point : Nat]

(* A switch begins on a valid branch, and what is restored is behind the   *)
(* head on that branch.                                                    *)
TaskTyped ==
    /\ task \in {Idle} \cup SwitchTasks \cup [phase : {"close", "closed"}, cutoff : Nat]
                \cup [phase : {"crashed"}]
    /\ task.phase \in SwitchPhases =>
          Branch(task.origin) \subseteq Valid /\ task.point < Num(task.origin)
    /\ task.phase = "restore" => OnBranch(head, task.origin) /\ head # task.origin

Typed ==
    /\ head \in States
    /\ saved \in Seq(States)
    /\ max_size \in Nat
    /\ ForkTyped(fork_db)
    /\ LogTyped
    /\ TaskTyped

(***************************************************************************)
(* What of the log can be read, and would be replayed.                     *)
(***************************************************************************)
IntactEntry(e) == e.data # None /\ e.id = e.data

(* What can be read belongs to one fork.                                   *)
AllOn(l, b) == \A n \in Heights : Intact(l, n) => OnBranch(l[n].data, b)

(* The newest entry with a size cannot be read, and is behind number n.    *)
TornBehind(l, n) ==
    \E t \in Heights : /\ t > n /\ l[t].data = Torn
                       /\ \A u \in Heights : u > t => l[u].data = None

(* The ordinary case: what can be read was applied; the change that is not *)
(* written yet may bring back the block that was removed last.             *)
LogFollowsHead ==
    /\ AllOn(log, head)
    /\ disk.num # 0 /\ IntactEntry(disk.old) =>
          \/ OnBranch(disk.old.data, head)
          \/ Parent(disk.old.data) = head /\ disk.old.data \in Valid

(* After a start that could not read the newest entry: nothing that is     *)
(* stored can be read, and what can be read is left from the fork before,  *)
(* not reached yet by the new one, and behind it is an entry that cannot   *)
(* be read.                                                                *)
LogIsLeftOver(b) ==
    /\ disk.failed /\ disk.block = None
    /\ AllOn(log, b)
    /\ \A n \in Heights : Intact(log, n) =>
          /\ n > Num(head)
          /\ task.phase \in SwitchPhases => n > Num(task.origin)
          /\ TornBehind(log, n)
    /\ disk.num # 0 /\ IntactEntry(disk.old) =>
          OnBranch(disk.old.data, b) /\ TornBehind(log, disk.num)

(* After a kill.                                                           *)
LogIsReplayable(b) ==
    /\ AllOn(log, b)
    /\ \/ OnBranch(b, head)
       \/ b # Genesis /\ Parent(b) = head
       \/ head = Genesis
       \/ Newest(log) = None
       \/ \A n \in Heights : n = 1 => ~Intact(log, n)

LogOnFork ==
    IF task.phase = "crashed"
    THEN \E b \in States : Branch(b) \subseteq Valid /\ LogIsReplayable(b)
    ELSE \/ LogFollowsHead
         \/ \E b \in States : Branch(b) \subseteq Valid /\ LogIsLeftOver(b)
-----------------------------------------------------------------------------
(***************************************************************************)
(* The fork database keeps its types.                                      *)
(***************************************************************************)
LEMMA ErasedTyped ==
    ASSUME NEW f, ForkTyped(f), NEW gone
    PROVE  ForkTyped(Erased(f, gone))
<1> DEFINE d == (f.dead \cup {b \in f.index : Parent(b) \in gone}) \ gone
           c == f.cut \/ (f.head # None /\ Parent(f.head) \in gone)
<1>1. Erased(f, gone) = [index |-> f.index \ gone, dead |-> d, head |-> f.head, cut |-> c]
  <2>1. Erased(f, gone) = [f EXCEPT !.index = f.index \ gone, !.dead = d, !.cut = c]
    BY DEF Erased
  <2> HIDE DEF d, c
  <2> QED
    BY <2>1 DEF ForkTyped
<1>2. f.index \ gone \subseteq Blocks /\ d \subseteq f.index \ gone
  BY DEF ForkTyped
<1>3. c \in BOOLEAN /\ f.head \in Blocks \cup {None}
  BY DEF ForkTyped
<1>4. c \/ (f.head # None /\ Parent(f.head) # Genesis)
  BY DEF ForkTyped
<1> HIDE DEF d, c
<1> QED
  BY <1>1, <1>2, <1>3, <1>4 DEF ForkTyped

(* Cutting the fork database to its size keeps its type.                   *)
LEMMA ResizedTyped ==
    ASSUME NEW f, ForkTyped(f), NEW max
    PROVE  ForkTyped(Resized(f, max))
BY ErasedTyped DEF Resized

(* So does an item that is linked to it.                                   *)
LEMMA LinkedTyped ==
    ASSUME NEW f, ForkTyped(f), NEW b \in Blocks, NEW max
    PROVE  ForkTyped(Linked(f, b, max)) /\ Linked(f, b, max).head \in Blocks
<1> DEFINE loose == f.head = None \/ Parent(b) = Genesis
           dead  == IF loose /\ b \notin f.index THEN f.dead \cup {b} ELSE f.dead
           top   == IF Higher(f, b) THEN b ELSE f.head
           cut   == IF Higher(f, b) THEN loose ELSE f.cut
           added == [f EXCEPT !.index = @ \cup {b},
                              !.dead  = IF loose /\ b \notin f.index
                                        THEN @ \cup {b} ELSE @,
                              !.head  = IF Higher(f, b) THEN b ELSE @,
                              !.cut   = IF Higher(f, b) THEN loose ELSE @]
<1>1. added = [index |-> f.index \cup {b}, dead |-> dead, head |-> top, cut |-> cut]
  <2>1. added = [f EXCEPT !.index = f.index \cup {b}, !.dead = dead, !.head = top, !.cut = cut]
    OBVIOUS
  <2> HIDE DEF added, dead, top, cut
  <2> QED
    BY <2>1 DEF ForkTyped
<1>2. f.index \cup {b} \subseteq Blocks /\ dead \subseteq f.index \cup {b}
  BY DEF ForkTyped
<1>3. b # None /\ b \in Blocks
  BY BlocksAssumption
<1>4. cut \in BOOLEAN /\ top \in Blocks
  BY <1>3 DEF ForkTyped, Higher
<1>5. cut \/ (top # None /\ Parent(top) # Genesis)
  BY <1>3 DEF ForkTyped
<1>6. ForkTyped(added) /\ added.head \in Blocks
  <2> HIDE DEF added, dead, top, cut
  <2> QED
    BY <1>1, <1>2, <1>4, <1>5 DEF ForkTyped
<1>7. \A n : ForkTyped(Erased(added, OlderThan(added, n)))
             /\ Erased(added, OlderThan(added, n)).head = added.head
  <2> HIDE DEF added
  <2>1. TAKE n
  <2>2. ForkTyped(Erased(added, OlderThan(added, n)))
    BY <1>6, ErasedTyped
  <2>3. Erased(added, OlderThan(added, n)).head = added.head
    BY <1>6 DEF Erased, ForkTyped
  <2> QED
    BY <2>2, <2>3
<1>8. Linked(f, b, max) = IF f.head # None /\ Higher(f, b)
                          THEN Erased(added, OlderThan(added, Num(b) - max)) ELSE added
  BY DEF Linked
<1> HIDE DEF added
<1> QED
  BY <1>6, <1>7, <1>8

(* So does moving its head.                                                *)
LEMMA HeadSetTyped ==
    ASSUME NEW f, ForkTyped(f), NEW b \in Blocks
    PROVE  ForkTyped(HeadSet(f, b))
<1> DEFINE c == b \in f.dead \/ Parent(b) = Genesis
<1>1. HeadSet(f, b) = [index |-> f.index, dead |-> f.dead, head |-> b, cut |-> c]
  <2>1. HeadSet(f, b) = [f EXCEPT !.head = b, !.cut = c]
    BY DEF HeadSet
  <2> HIDE DEF c
  <2> QED
    BY <2>1 DEF ForkTyped
<1>2. c \in BOOLEAN /\ (c \/ (b # None /\ Parent(b) # Genesis))
  BY BlocksAssumption
<1> HIDE DEF c
<1> QED
  BY <1>1, <1>2 DEF ForkTyped

(* So does starting it with a block.                                       *)
LEMMA StartedTyped ==
    /\ ForkTyped(Cleared)
    /\ \A b \in Blocks : ForkTyped(Started(b))
BY DEF ForkTyped, Cleared, Started
-----------------------------------------------------------------------------
(***************************************************************************)
(* The undo history.                                                       *)
(***************************************************************************)
Leads(s, h) ==
    \A i \in 1 .. Len(s) :
       LET above == IF i = Len(s) THEN h ELSE s[i + 1]
       IN \/ above # Genesis /\ s[i] = Parent(above)
          \/ i = 1 /\ s[i] = above

(* The levels left after the oldest were dropped still lead back one by    *)
(* one.                                                                    *)
LEMMA TrimmedLeads ==
    ASSUME NEW s \in Seq(States), NEW h \in States, Leads(s, h), NEW max \in Int
    PROVE  Trimmed(s, max) \in Seq(States) /\ Leads(Trimmed(s, max), h)
<1>1. CASE Len(s) <= max
  BY <1>1 DEF Trimmed
<1>2. CASE Len(s) > max /\ max < 0
  <2>1. SubSeq(s, Len(s) - max + 1, Len(s)) = << >>
    BY <1>2, SubSeqEmpty
  <2> QED
    BY <1>2, <2>1 DEF Trimmed, Leads
<1>3. CASE Len(s) > max /\ max >= 0
  <2> DEFINE t == SubSeq(s, Len(s) - max + 1, Len(s))
             d == Len(s) - max
  <2>1. d \in Nat \ {0} /\ Len(s) \in Nat
    BY <1>3
  <2>2. \A i \in d + 1 .. Len(s) : s[i] \in States
    BY <2>1
  <2>3. /\ t \in Seq(States)
        /\ Len(t) = IF d + 1 <= Len(s) THEN Len(s) - (d + 1) + 1 ELSE 0
        /\ \A i \in 1 .. Len(s) - (d + 1) + 1 : t[i] = s[d + 1 + i - 1]
    BY <2>1, <2>2, SubSeqProperties
  <2>4. Len(t) = max /\ \A i \in 1 .. max : t[i] = s[i + d]
    BY <2>1, <2>3, <1>3
  <2> HIDE DEF t
  <2>5. Leads(t, h)
    <3>1. SUFFICES ASSUME NEW i \in 1 .. Len(t)
                   PROVE  LET above == IF i = Len(t) THEN h ELSE t[i + 1]
                          IN \/ above # Genesis /\ t[i] = Parent(above)
                             \/ i = 1 /\ t[i] = above
      BY DEF Leads
    <3>2. i \in 1 .. max /\ i + d \in 1 .. Len(s) /\ i + d # 1 /\ t[i] = s[i + d]
      BY <2>1, <2>4, <1>3
    <3>3. i = Len(t) <=> i + d = Len(s)
      BY <2>1, <2>4, <1>3
    <3>4. i # Len(t) => t[i + 1] = s[i + d + 1]
      BY <2>1, <2>4, <3>2, <1>3
    <3>5. LET above == IF i + d = Len(s) THEN h ELSE s[i + d + 1]
          IN above # Genesis /\ s[i + d] = Parent(above)
      BY <3>2 DEF Leads
    <3> QED
      BY <3>2, <3>3, <3>4, <3>5
  <2> QED
    BY <2>3, <2>5, <1>3 DEF Trimmed, t
<1> QED
  BY <1>1, <1>2, <1>3

(* With the level that is pushed for a block they lead back from the       *)
(* block.                                                                  *)
LEMMA OpenedLeads ==
    ASSUME NEW s \in Seq(States), NEW b \in Blocks, Leads(s, Parent(b)), NEW max \in Int
    PROVE  /\ Opened(s, max, Parent(b)) \in Seq(States) /\ Leads(Opened(s, max, Parent(b)), b)
<1> DEFINE h == Parent(b)
<1>1. h \in States /\ b # Genesis
  BY ParentFacts, BlocksAssumption
<1> HIDE DEF h
<1>2. CASE s = << >>
  <2>1. Opened(s, max, h) = <<h, h>>
    BY <1>2 DEF Opened
  <2>2. <<h, h>> \in Seq(States) /\ Leads(<<h, h>>, b)
    BY <1>1 DEF Leads, h
  <2> QED
    BY <2>1, <2>2 DEF h
<1>3. CASE s # << >>
  <2> DEFINE t == Trimmed(s, max)
  <2>1. t \in Seq(States) /\ Leads(t, h)
    BY <1>1, TrimmedLeads DEF h
  <2>2. Opened(s, max, h) = Append(t, h)
    BY <1>3 DEF Opened
  <2> HIDE DEF t
  <2>3. Append(t, h) \in Seq(States) /\ Len(Append(t, h)) = Len(t) + 1 /\ Len(t) \in Nat
        /\ \A i \in 1 .. Len(t) : Append(t, h)[i] = t[i]
        /\ Append(t, h)[Len(t) + 1] = h
    BY <1>1, <2>1
  <2>4. Leads(Append(t, h), b)
    <3>1. SUFFICES ASSUME NEW i \in 1 .. Len(t) + 1
                   PROVE  LET above == IF i = Len(t) + 1 THEN b ELSE Append(t, h)[i + 1]
                          IN \/ above # Genesis /\ Append(t, h)[i] = Parent(above)
                             \/ i = 1 /\ Append(t, h)[i] = above
      BY <2>3 DEF Leads
    <3>2. CASE i = Len(t) + 1
      BY <3>2, <2>3, <1>1 DEF h
    <3>3. CASE i # Len(t) + 1
      <4>1. i \in 1 .. Len(t) /\ Append(t, h)[i] = t[i]
        BY <3>3, <2>3
      <4>2. Append(t, h)[i + 1] = IF i = Len(t) THEN h ELSE t[i + 1]
        BY <4>1, <2>3
      <4> QED
        BY <3>3, <4>1, <4>2, <2>1 DEF Leads
    <3> QED
      BY <3>2, <3>3
  <2> QED
    BY <2>2, <2>3, <2>4 DEF h
<1> QED
  BY <1>2, <1>3

(* So they do with the level of a pending session.                         *)
LEMMA ReopenedLeads ==
    ASSUME NEW s \in Seq(States), NEW h \in States, Leads(s, h), NEW max \in Int
    PROVE  Reopened(s, max, h) \in Seq(States) /\ Leads(Reopened(s, max, h), h)
<1>1. <<h>> \in Seq(States) /\ Leads(<<h>>, h)
  BY DEF Leads
<1> QED
  BY <1>1, TrimmedLeads DEF Reopened

(* pop_undo goes back by one block, or to the state there is.              *)
LEMMA PoppedLeads ==
    ASSUME NEW s \in Seq(States), NEW h \in States, Leads(s, h), s # << >>
    PROVE  /\ s[Len(s)] \in States
           /\ SubSeq(s, 1, Len(s) - 1) \in Seq(States)
           /\ Leads(SubSeq(s, 1, Len(s) - 1), s[Len(s)])
           /\ s[Len(s)] = h \/ (h \in Blocks /\ s[Len(s)] = Parent(h))
<1> DEFINE n == Len(s) - 1
           t == SubSeq(s, 1, n)
<1>1. Len(s) \in Nat /\ n \in Nat /\ Len(s) = n + 1
  BY EmptySeq
<1>2. \A i \in 1 .. Len(s) : s[i] \in States
  OBVIOUS
<1>3. /\ t \in Seq(States)
      /\ Len(t) = IF 1 <= n THEN n - 1 + 1 ELSE 0
      /\ \A i \in 1 .. n - 1 + 1 : t[i] = s[1 + i - 1]
  BY <1>1, <1>2, SubSeqProperties
<1>4. Len(t) = n /\ \A i \in 1 .. n : t[i] = s[i]
  BY <1>1, <1>3
<1> HIDE DEF t, n
<1>5. Leads(t, s[Len(s)])
  <2>1. SUFFICES ASSUME NEW i \in 1 .. n
                 PROVE  LET above == IF i = n THEN s[Len(s)] ELSE t[i + 1]
                        IN \/ above # Genesis /\ t[i] = Parent(above)
                           \/ i = 1 /\ t[i] = above
    BY <1>4 DEF Leads
  <2>2. i \in 1 .. Len(s) /\ i # Len(s) /\ t[i] = s[i]
    BY <1>1, <1>4
  <2>3. (IF i = n THEN s[Len(s)] ELSE t[i + 1]) = s[i + 1]
    BY <1>1, <1>4
  <2> QED
    BY <2>2, <2>3 DEF Leads
<1>6. Len(s) \in 1 .. Len(s)
  BY <1>1
<1>7. \/ h # Genesis /\ s[Len(s)] = Parent(h)
      \/ s[Len(s)] = h
  BY <1>6 DEF Leads
<1>8. h # Genesis => h \in Blocks
  BY DEF States
<1> QED
  BY <1>2, <1>3, <1>5, <1>6, <1>7, <1>8 DEF t, n
-----------------------------------------------------------------------------
(***************************************************************************)
(* Types, valid chains and levels that lead back.                          *)
(***************************************************************************)
CoreInv == Typed /\ ChainIsValid /\ LevelsLeadBack

(* What the calls on the state, the undo history and the log preserve.     *)
StateInv ==
    /\ head \in States
    /\ saved \in Seq(States)
    /\ max_size \in Nat
    /\ LogTyped
    /\ ChainIsValid
    /\ LevelsLeadBack

(* The entries of the log keep their type when their data are lost.        *)
LEMMA EntryFacts ==
    /\ Unwritten \in Entries /\ Unwritten.id = None
    /\ \A e \in Entries : [e EXCEPT !.data = None] \in Entries
                          /\ [e EXCEPT !.data = None].id = e.id
                          /\ [e EXCEPT !.data = Torn] \in Entries
                          /\ [e EXCEPT !.data = Torn].id = e.id
    /\ \A i \in Blocks, d \in Blocks \cup {Torn} :
          [id |-> i, data |-> d] \in Entries
BY DEF Entries, Unwritten

(* Writing the buffers keeps the type of the log.                          *)
LEMMA FlushedTyped ==
    ASSUME NEW x \in BOOLEAN
    PROVE  Flushed(x) \in [num : {0} \cup Heights, old : Entries,
                           block : Blocks \cup {None}, failed : BOOLEAN]
           /\ Flushed(x).num = 0 /\ Flushed(x).failed = x /\ Flushed(x).block = None
BY EntryFacts DEF Flushed

(* A block that is applied leads to a valid state above the levels there   *)
(* were.                                                                   *)
LEMMA AppliedState ==
    ASSUME StateInv, NEW b \in Blocks, Parent(b) = head, b \in Valid,
           NEW f, ForkTyped(f), NEW id \in Blocks, Applied(b, f, id)
    PROVE  StateInv' /\ ForkTyped(fork_db')
<1> USE DEF StateInv
<1>1. head' = b /\ head' \in States
  BY ParentFacts DEF Applied
<1>2. saved' \in Seq(States) /\ LevelsLeadBack'
  <2>1. Leads(saved, head)
    BY DEF LevelsLeadBack, Leads
  <2>2. saved' = Opened(saved, max_size, Parent(b))
    BY DEF Applied
  <2>3. saved' \in Seq(States) /\ Leads(saved', head')
    BY <1>1, <2>1, <2>2, OpenedLeads
  <2> QED
    BY <2>3 DEF LevelsLeadBack, Leads
<1>3. max_size' \in Nat
  BY HistorySizeFacts DEF Applied
<1>4. ForkTyped(fork_db')
  BY ResizedTyped DEF Applied
<1>5. ChainIsValid'
  BY <1>1, ParentFacts DEF ChainIsValid
<1>6. LogTyped'
  <2> DEFINE n == Num(id)
             x == IF disk.failed THEN Torn ELSE b
  <2>1. n \in Heights
    BY HeightsFacts
  <2>2. log' = [log EXCEPT ![n] = [id |-> id, data |-> x]]
    BY DEF Applied, Stored
  <2>3. [id |-> id, data |-> x] \in Entries
    BY EntryFacts
  <2>4. log \in [Heights -> Entries] /\ log[n] \in Entries
        /\ (log[n].id # None => Num(log[n].id) = n)
    BY <2>1 DEF LogTyped
  <2>5. log' \in [Heights -> Entries]
    BY <2>2, <2>3, <2>4
  <2>6. \A k \in Heights : log'[k].id # None => Num(log'[k].id) = k
    BY <2>2, <2>4 DEF LogTyped
  <2>7. disk' = [num |-> n, old |-> log[n],
                 block |-> IF disk.failed THEN None ELSE b, failed |-> disk.failed]
    BY DEF Applied
  <2>8. disk.failed \in BOOLEAN
    BY DEF LogTyped
  <2> HIDE DEF n, x
  <2>9. disk' \in [num : {0} \cup Heights, old : Entries,
                   block : Blocks \cup {None}, failed : BOOLEAN]
        /\ disk'.num = n /\ disk'.old = log[n]
    BY <2>1, <2>4, <2>7, <2>8
  <2> QED
    BY <2>4, <2>5, <2>6, <2>9 DEF LogTyped
<1> QED
  BY <1>1, <1>2, <1>3, <1>4, <1>5, <1>6

(* A block that can be popped is a block of the chain and of the fork      *)
(* database.                                                               *)
LEMMA KnownHeadIsBlock ==
    ASSUME StateInv, ForkTyped(fork_db), CanPop
    PROVE  /\ head \in Blocks
           /\ fork_db.head \in Blocks /\ Parent(fork_db.head) \in Blocks
<1>1. head \in Blocks
  BY DEF CanPop, KnownHead, ForkTyped, StateInv, States
<1>2. fork_db.head \in Blocks /\ Parent(fork_db.head) # Genesis
  BY DEF CanPop, ForkTyped
<1>3. Parent(fork_db.head) \in States
  BY <1>2, ParentFacts
<1> QED
  BY <1>1, <1>2, <1>3 DEF States

(* Popping a block leads to the state of the level on top.                 *)
LEMMA RevertedState ==
    ASSUME StateInv, head \in Blocks, Reverted
    PROVE  /\ StateInv'
           /\ head' \in {head, Parent(head)}
<1> USE DEF StateInv
<1>1. /\ head' \in States /\ saved' \in Seq(States)
      /\ ChainIsValid' /\ LevelsLeadBack'
      /\ head' \in {head, Parent(head)}
  <2>1. CASE saved = << >>
    BY <2>1 DEF Reverted, ChainIsValid, LevelsLeadBack
  <2>2. CASE saved # << >>
    <3>1. Leads(saved, head)
      BY DEF LevelsLeadBack, Leads
    <3>2. head' = saved[Len(saved)] /\ saved' = SubSeq(saved, 1, Len(saved) - 1)
      BY <2>2 DEF Reverted
    <3>3. /\ head' \in States /\ saved' \in Seq(States) /\ Leads(saved', head')
          /\ head' \in {head, Parent(head)}
      BY <2>2, <3>1, <3>2, PoppedLeads
    <3>4. ChainIsValid'
      BY <3>3, ParentFacts DEF ChainIsValid
    <3> QED
      BY <3>3, <3>4 DEF LevelsLeadBack, Leads
  <2> QED
    BY <2>1, <2>2
<1>2. max_size' \in Nat
  BY DEF Reverted
<1>3. LogTyped'
  <2> DEFINE n == Num(head)
  <2>1. n \in Heights /\ n # 0
    BY HeightsFacts
  <2>2. log \in [Heights -> Entries] /\ log[n] \in Entries
        /\ (log[n].id # None => Num(log[n].id) = n)
    BY <2>1 DEF LogTyped
  <2>3. log' = log \/ log' = [log EXCEPT ![n] = [log[n] EXCEPT !.data = None]]
    BY <2>1, <2>2 DEF Reverted, Removed
  <2>4. log' \in [Heights -> Entries]
    BY <2>2, <2>3, EntryFacts
  <2>5. \A k \in Heights : log'[k].id = log[k].id
    BY <2>2, <2>3, EntryFacts
  <2>6. disk' = [disk EXCEPT !.num = IF log' = log THEN 0 ELSE n,
                             !.old = IF log' = log THEN Unwritten ELSE log[n]]
    BY DEF Reverted
  <2>7. disk \in [num : {0} \cup Heights, old : Entries,
                  block : Blocks \cup {None}, failed : BOOLEAN]
    BY DEF LogTyped
  <2> HIDE DEF n
  <2>8. disk' \in [num : {0} \cup Heights, old : Entries,
                   block : Blocks \cup {None}, failed : BOOLEAN]
    BY <2>1, <2>2, <2>6, <2>7, EntryFacts
  <2>9. disk'.num # 0 => disk'.num = n /\ disk'.old = log[n]
    BY <2>6, <2>7
  <2> QED
    BY <2>2, <2>4, <2>5, <2>8, <2>9 DEF LogTyped
<1> QED
  BY <1>1, <1>2, <1>3

(* CoreInv is what StateInv, the fork database and the task are.           *)
LEMMA CoreParts ==
    CoreInv <=> StateInv /\ ForkTyped(fork_db) /\ TaskTyped
BY DEF CoreInv, StateInv, Typed

(* The first start of a node.                                              *)
LEMMA CoreInit == Init => CoreInv
<1> SUFFICES ASSUME Init PROVE CoreInv
  OBVIOUS
<1> USE DEF Init
<1>1. head \in States /\ saved \in Seq(States) /\ max_size \in Nat
  BY InitialMaxAssumption DEF States
<1>2. ForkTyped(fork_db)
  BY StartedTyped
<1>3. LogTyped
  BY EntryFacts, FlushedTyped DEF LogTyped
<1>4. TaskTyped
  BY DEF TaskTyped, Idle, SwitchPhases
<1>5. ChainIsValid
  <2>1. Num(Genesis) = 0
    BY DEF Num, Genesis
  <2> QED
    BY <2>1 DEF ChainIsValid, Branch
<1>6. LevelsLeadBack
  BY DEF LevelsLeadBack
<1> QED
  BY <1>1, <1>2, <1>3, <1>4, <1>5, <1>6 DEF CoreInv, Typed

(* The actions, one by one.                                                *)
LEMMA PushBlockCore ==
    ASSUME CoreInv, NEW b \in Blocks, push_block(b)
    PROVE  CoreInv'
<1> DEFINE f     == Linked(fork_db, b, max_size)
           point == ForkPoint(f.head, head)
<1>1. StateInv /\ ForkTyped(fork_db) /\ TaskTyped /\ task = Idle
  BY CoreParts DEF push_block
<1>2. ForkTyped(f) /\ f.head \in Blocks
  BY <1>1, LinkedTyped
<1> DEFINE direct == Parent(f.head) = head
           switch == /\ ~direct
                     /\ Num(f.head) > Num(head)
                     /\ Traced(f, head, point) /\ Traced(f, f.head, point)
<1>3. \/ direct /\ Applies(b) /\ Applied(b, f, b) /\ UNCHANGED task
      \/ /\ direct /\ ~Applies(b)
         /\ fork_db' = Erased(f, {b})
         /\ saved' = Reopened(saved, max_size, head)
         /\ UNCHANGED <<head, max_size, log, disk, task>>
      \/ /\ switch
         /\ fork_db' = f
         /\ task' = [phase |-> "pop", new |-> b, target |-> f.head,
                     origin |-> head, point |-> point]
         /\ UNCHANGED <<head, saved, max_size, log, disk>>
      \/ /\ ~direct /\ ~switch
         /\ fork_db' = f
         /\ UNCHANGED <<head, saved, max_size, log, disk, task>>
  BY DEF push_block
<1> HIDE DEF f, direct
<1>4. CASE direct /\ Applies(b) /\ Applied(b, f, b) /\ UNCHANGED task
  <2>1. StateInv' /\ ForkTyped(fork_db')
    BY <1>1, <1>2, <1>4, AppliedState DEF Applies
  <2>2. TaskTyped'
    BY <1>1, <1>4 DEF TaskTyped, Idle, SwitchPhases
  <2> QED
    BY <2>1, <2>2, CoreParts DEF CoreInv, StateInv, Typed
<1>5. CASE /\ direct /\ ~Applies(b)
           /\ fork_db' = Erased(f, {b})
           /\ saved' = Reopened(saved, max_size, head)
           /\ UNCHANGED <<head, max_size, log, disk, task>>
  <2>1. Leads(saved, head) /\ saved \in Seq(States) /\ head \in States /\ max_size \in Int
    BY <1>1 DEF StateInv, LevelsLeadBack, Leads
  <2>2. saved' \in Seq(States) /\ Leads(saved', head')
    BY <1>5, <2>1, ReopenedLeads
  <2>3. StateInv'
    BY <1>1, <1>5, <2>2 DEF StateInv, LevelsLeadBack, Leads, LogTyped, ChainIsValid
  <2>4. ForkTyped(fork_db')
    BY <1>2, <1>5, ErasedTyped
  <2>5. TaskTyped'
    BY <1>1, <1>5 DEF TaskTyped, Idle, SwitchPhases
  <2> QED
    BY <2>3, <2>4, <2>5 DEF CoreInv, StateInv, Typed
<1>6. CASE /\ switch
           /\ fork_db' = f
           /\ task' = [phase |-> "pop", new |-> b, target |-> f.head,
                       origin |-> head, point |-> point]
           /\ UNCHANGED <<head, saved, max_size, log, disk>>
  <2>1. head \in Blocks
    BY <1>2, <1>6 DEF Traced, ForkTyped
  <2>2. point \in Nat /\ point < Num(head)
    BY <1>2, <2>1, ForkPointFacts
  <2> HIDE DEF point, switch
  <2>3. task' \in SwitchTasks /\ task'.phase = "pop"
        /\ task'.origin = head /\ task'.point = point
    BY <1>2, <1>6, <2>1, <2>2 DEF SwitchTasks, SwitchPhases
  <2>4. Branch(head) \subseteq Valid
    BY <1>1 DEF StateInv, ChainIsValid
  <2>5. TaskTyped'
    BY <2>2, <2>3, <2>4 DEF TaskTyped
  <2>6. StateInv'
    BY <1>1, <1>6 DEF StateInv, LevelsLeadBack, LogTyped, ChainIsValid
  <2> QED
    BY <1>2, <1>6, <2>5, <2>6 DEF CoreInv, StateInv, Typed
<1>7. CASE /\ ~direct /\ ~switch
           /\ fork_db' = f
           /\ UNCHANGED <<head, saved, max_size, log, disk, task>>
  <2>1. StateInv'
    BY <1>1, <1>7 DEF StateInv, LevelsLeadBack, LogTyped, ChainIsValid
  <2>2. TaskTyped'
    BY <1>1, <1>7 DEF TaskTyped, Idle, SwitchPhases
  <2> QED
    BY <1>2, <1>7, <2>1, <2>2 DEF CoreInv, StateInv, Typed
<1> QED
  BY <1>3, <1>4, <1>5, <1>6, <1>7

(* A pending session may drop levels, and does nothing else that lasts.    *)
LEMMA PushTransactionCore ==
    ASSUME CoreInv, NEW k \in Nested, push_transaction(k)
    PROVE  CoreInv'
<1>1. StateInv /\ ForkTyped(fork_db) /\ TaskTyped /\ task = Idle
  BY CoreParts DEF push_transaction
<1>2. Leads(saved, head) /\ saved \in Seq(States) /\ head \in States /\ max_size - k \in Int
  BY <1>1, NestedAssumption DEF StateInv, LevelsLeadBack, Leads
<1>3. <<head>> \in Seq(States) /\ Leads(<<head>>, head)
  BY <1>2 DEF Leads
<1>4. saved' \in Seq(States) /\ Leads(saved', head')
  BY <1>2, <1>3, TrimmedLeads DEF push_transaction
<1>5. StateInv' /\ ForkTyped(fork_db') /\ TaskTyped'
  BY <1>1, <1>4 DEF push_transaction, StateInv, LevelsLeadBack, Leads, LogTyped,
                    ChainIsValid, TaskTyped, Idle, SwitchPhases
<1> QED
  BY <1>5 DEF CoreInv, StateInv, Typed

(* What a switch knows of its task.                                        *)
LEMMA SwitchTaskFacts ==
    ASSUME TaskTyped, task.phase \in SwitchPhases
    PROVE  /\ task \in SwitchTasks
           /\ Branch(task.origin) \subseteq Valid /\ task.point < Num(task.origin)
           /\ \A p \in SwitchPhases : /\ [task EXCEPT !.phase = p] \in SwitchTasks
                                      /\ [task EXCEPT !.phase = p].phase = p
                                      /\ [task EXCEPT !.phase = p].origin = task.origin
                                      /\ [task EXCEPT !.phase = p].point = task.point
           /\ Point \in States /\ Num(Point) = task.point
           /\ OnBranch(Point, task.origin) /\ Point # task.origin
<1>1. task \in SwitchTasks
  BY DEF TaskTyped, SwitchPhases, Idle
<1>2. Branch(task.origin) \subseteq Valid /\ task.point < Num(task.origin)
  BY DEF TaskTyped
<1>3. \A p \in SwitchPhases : /\ [task EXCEPT !.phase = p] \in SwitchTasks
                              /\ [task EXCEPT !.phase = p].phase = p
                              /\ [task EXCEPT !.phase = p].origin = task.origin
                              /\ [task EXCEPT !.phase = p].point = task.point
  BY <1>1 DEF SwitchTasks
<1>4. task.origin \in Blocks /\ task.point \in Nat
  BY <1>1 DEF SwitchTasks
<1>5. task.origin \in States /\ Num(task.origin) \in Nat
  BY <1>4, ParentFacts
<1>6. Point \in States /\ Num(Point) = task.point
  BY <1>2, <1>4, <1>5, PrefixFacts DEF Point
<1>7. OnBranch(Point, task.origin)
  BY <1>2, <1>4, <1>5, <1>6 DEF OnBranch, Point
<1>8. Point # task.origin
  BY <1>2, <1>4, <1>5, <1>6
<1> QED
  BY <1>1, <1>2, <1>3, <1>6, <1>7, <1>8

(* The first loop of a switch.                                             *)
LEMMA PopToCore ==
    ASSUME CoreInv, NEW next \in {"apply", "restore"}, task.phase \in {"pop", "unwind"},
           PopTo(next)
    PROVE  CoreInv'
<1>1. StateInv /\ ForkTyped(fork_db) /\ TaskTyped
  BY CoreParts
<1>2. CanPop /\ Reverted /\ fork_db' = HeadSet(fork_db, Parent(fork_db.head))
  BY DEF PopTo, pop_block
<1>3. head \in Blocks /\ Parent(fork_db.head) \in Blocks
  BY <1>1, <1>2, KnownHeadIsBlock
<1>4. StateInv'
  BY <1>1, <1>2, <1>3, RevertedState
<1>5. ForkTyped(fork_db')
  BY <1>1, <1>2, <1>3, HeadSetTyped
<1>6. TaskTyped'
  <2>1. task.phase \in SwitchPhases /\ next \in SwitchPhases
    BY DEF SwitchPhases
  <2>2. CASE task' = Idle
    BY <2>2 DEF TaskTyped, Idle, SwitchPhases
  <2>3. CASE task' = [task EXCEPT !.phase = next] /\ head' = Point
    <3>1. task' \in SwitchTasks /\ task'.phase = next /\ task'.origin = task.origin
          /\ task'.point = task.point
      BY <1>1, <2>1, <2>3, SwitchTaskFacts
    <3>2. OnBranch(Point, task.origin) /\ Point # task.origin
          /\ Branch(task.origin) \subseteq Valid /\ task.point < Num(task.origin)
      BY <1>1, <2>1, SwitchTaskFacts
    <3> QED
      BY <2>3, <3>1, <3>2 DEF TaskTyped
  <2>4. CASE task' = task
    BY <1>1, <2>4 DEF TaskTyped
  <2> QED
    BY <2>2, <2>3, <2>4 DEF PopTo
<1> QED
  BY <1>4, <1>5, <1>6 DEF CoreInv, StateInv, Typed

(* The second loop, for a block that applies and for one that fails.       *)
LEMMA SwitchApplyCore ==
    ASSUME CoreInv, switch_apply
    PROVE  CoreInv'
<1> DEFINE b    == Prefix(task.target, Num(head) + 1)
           rest == {Prefix(task.target, n) : n \in Num(b) .. Num(task.target)}
<1>1. StateInv /\ ForkTyped(fork_db) /\ TaskTyped /\ task.phase = "apply"
  BY CoreParts DEF switch_apply
<1>2. task \in SwitchTasks /\ task.phase \in SwitchPhases
  BY <1>1, SwitchTaskFacts DEF SwitchPhases
<1>3. \/ /\ Applies(b)
         /\ Applied(b, fork_db, b)
         /\ task' = IF b = task.target THEN Idle ELSE task
      \/ /\ ~Applies(b)
         /\ fork_db' = HeadSet(Erased(fork_db, rest), task.origin)
         /\ saved' = Reopened(saved, max_size, head)
         /\ task' = [task EXCEPT !.phase = IF head = Point THEN "restore" ELSE "unwind"]
         /\ UNCHANGED <<head, max_size, log, disk>>
  BY DEF switch_apply
<1> HIDE DEF b, rest
<1>4. CASE /\ Applies(b)
           /\ Applied(b, fork_db, b)
           /\ task' = IF b = task.target THEN Idle ELSE task
  <2>1. b \in Valid /\ b \in Blocks /\ Parent(b) = head
    BY <1>4, BlocksAssumption DEF Applies
  <2>2. StateInv' /\ ForkTyped(fork_db')
    BY <1>1, <1>4, <2>1, AppliedState
  <2>3. TaskTyped'
    BY <1>1, <1>4 DEF TaskTyped, Idle, SwitchPhases
  <2> QED
    BY <2>2, <2>3 DEF CoreInv, StateInv, Typed
<1>5. CASE /\ ~Applies(b)
           /\ fork_db' = HeadSet(Erased(fork_db, rest), task.origin)
           /\ saved' = Reopened(saved, max_size, head)
           /\ task' = [task EXCEPT !.phase = IF head = Point THEN "restore" ELSE "unwind"]
           /\ UNCHANGED <<head, max_size, log, disk>>
  <2>1. Leads(saved, head) /\ saved \in Seq(States) /\ head \in States /\ max_size \in Int
    BY <1>1 DEF StateInv, LevelsLeadBack, Leads
  <2>2. saved' \in Seq(States) /\ Leads(saved', head')
    BY <1>5, <2>1, ReopenedLeads
  <2>3. StateInv'
    BY <1>1, <1>5, <2>2 DEF StateInv, LevelsLeadBack, Leads, LogTyped, ChainIsValid
  <2>4. ForkTyped(fork_db')
    BY <1>1, <1>2, <1>5, ErasedTyped, HeadSetTyped DEF SwitchTasks
  <2>5. TaskTyped'
    <3> DEFINE p == IF head = Point THEN "restore" ELSE "unwind"
    <3>1. p \in SwitchPhases
      BY DEF SwitchPhases
    <3>2. task' \in SwitchTasks /\ task'.phase = p /\ task'.origin = task.origin
          /\ task'.point = task.point
      <4> HIDE DEF p
      <4> QED
        BY <1>1, <1>2, <1>5, <3>1, SwitchTaskFacts DEF p
    <3>3. OnBranch(Point, task.origin) /\ Point # task.origin
          /\ Branch(task.origin) \subseteq Valid /\ task.point < Num(task.origin)
      BY <1>1, <1>2, SwitchTaskFacts
    <3>4. p = "restore" => head' = Point
      BY <1>5
    <3> HIDE DEF p
    <3> QED
      BY <3>2, <3>3, <3>4 DEF TaskTyped
  <2> QED
    BY <2>3, <2>4, <2>5 DEF CoreInv, StateInv, Typed
<1> QED
  BY <1>3, <1>4, <1>5

(* The block that is restored next is one above the head.                  *)
LEMMA RestoredBlock ==
    ASSUME CoreInv, task.phase = "restore"
    PROVE  LET b == Prefix(task.origin, Num(head) + 1)
           IN /\ b \in Blocks /\ b \in Valid /\ Parent(b) = head
              /\ OnBranch(b, task.origin) /\ Num(b) = Num(head) + 1
              /\ Num(b) <= Num(task.origin)
<1> DEFINE b == Prefix(task.origin, Num(head) + 1)
<1>1. TaskTyped /\ task.phase \in SwitchPhases /\ head \in States
  BY CoreParts DEF SwitchPhases, StateInv
<1>2. task.origin \in Blocks /\ Branch(task.origin) \subseteq Valid
  BY <1>1, SwitchTaskFacts DEF SwitchTasks
<1>3. task.origin \in States /\ Num(task.origin) \in Nat /\ Num(head) \in Nat
  BY <1>1, <1>2, ParentFacts, StatesAreSequences
<1>4. OnBranch(head, task.origin) /\ head # task.origin
  BY <1>1 DEF TaskTyped
<1>5. Num(head) # Num(task.origin)
  BY <1>1, <1>3, <1>4, OnBranchFacts
<1>6. Num(head) + 1 \in 0 .. Num(task.origin) /\ Num(head) \in 0 .. (Num(head) + 1)
  BY <1>3, <1>4, <1>5 DEF OnBranch
<1>7. /\ b \in Blocks /\ b \in Branch(task.origin) /\ Num(b) = Num(head) + 1
      /\ Prefix(b, Num(head)) = Prefix(task.origin, Num(head))
  BY <1>3, <1>6, PrefixFacts
<1>8. Num(b) - 1 = Num(head)
  BY <1>3, <1>7
<1>9. Parent(b) = head
  BY <1>4, <1>7, <1>8 DEF Parent, OnBranch
<1>10. OnBranch(b, task.origin)
  BY <1>3, <1>6, <1>7 DEF OnBranch
<1> QED
  BY <1>2, <1>3, <1>6, <1>7, <1>9, <1>10

(* The last loop, which applies the old fork again.                        *)
LEMMA RestoreApplyCore ==
    ASSUME CoreInv, restore_apply
    PROVE  CoreInv'
<1> DEFINE b == Prefix(task.origin, Num(head) + 1)
<1>1. StateInv /\ ForkTyped(fork_db) /\ TaskTyped /\ task.phase = "restore"
  BY CoreParts DEF restore_apply
<1>2. b \in Blocks /\ b \in Valid /\ Parent(b) = head /\ OnBranch(b, task.origin)
  BY <1>1, RestoredBlock
<1>3. task.new \in Blocks
  BY <1>1, SwitchTaskFacts DEF SwitchTasks, SwitchPhases
<1>4. Applied(b, fork_db, task.new) /\ task' = IF b = task.origin THEN Idle ELSE task
  BY DEF restore_apply
<1> HIDE DEF b
<1>5. StateInv' /\ ForkTyped(fork_db')
  BY <1>1, <1>2, <1>3, <1>4, AppliedState
<1>6. head' = b
  BY <1>4 DEF Applied
<1>7. TaskTyped'
  <2>1. CASE b = task.origin
    BY <2>1, <1>4 DEF TaskTyped, Idle, SwitchPhases
  <2>2. CASE b # task.origin
    BY <2>2, <1>1, <1>2, <1>4, <1>6 DEF TaskTyped
  <2> QED
    BY <2>1, <2>2
<1> QED
  BY <1>5, <1>7 DEF CoreInv, StateInv, Typed

(* All loops of a switch.                                                  *)
LEMMA SwitchingCore ==
    ASSUME CoreInv, Switching
    PROVE  CoreInv'
<1>1. CASE pop_throws
  <2>1. StateInv' /\ ForkTyped(fork_db')
    BY <1>1, CoreParts DEF pop_throws, StateInv, LevelsLeadBack, LogTyped, ChainIsValid
  <2>2. TaskTyped'
    BY <1>1 DEF pop_throws, TaskTyped, Idle, SwitchPhases
  <2> QED
    BY <2>1, <2>2 DEF CoreInv, StateInv, Typed
<1> QED
  BY <1>1, PopToCore, SwitchApplyCore, RestoreApplyCore
     DEF Switching, switch_pop, restore_pop
-----------------------------------------------------------------------------
(***************************************************************************)
(* Restarts.                                                               *)
(***************************************************************************)
(* The newest entry with a size.                                           *)
LEMMA NewestFacts ==
    ASSUME NEW l \in [Heights -> Entries]
    PROVE  /\ NewestEntry(l) \in Blocks \cup {None, Torn}
           /\ Newest(l) \in Blocks \cup {None}
           /\ NewestEntry(l) = None => \A n \in Heights : l[n].data = None
           /\ NewestEntry(l) # None =>
                 \E t \in Heights : /\ l[t].data = NewestEntry(l)
                                    /\ \A u \in Heights : u > t => l[u].data = None
           /\ \A t \in Heights : /\ l[t].data # None
                                 /\ \A u \in Heights : u > t => l[u].data = None
                                 => NewestEntry(l) = l[t].data
<1> DEFINE used == {n \in Heights : l[n].data # None}
<1>1. used \in SUBSET Nat /\ used \subseteq Heights /\ Heights \subseteq Nat
  BY HeightsFacts
<1>2. IsFiniteSet(used)
  BY <1>1, HeightsFacts, FS_Subset
<1>3. used # {} => Max(used) \in used /\ \A k \in used : k <= Max(used)
  <2> HIDE DEF used
  <2> QED
    BY <1>1, <1>2, MaxIsLargest
<1>4. NewestEntry(l) = IF used = {} THEN None ELSE l[Max(used)].data
  BY DEF NewestEntry
<1>5. \A n \in Heights : l[n].data \in Blocks \cup {None, Torn}
  BY DEF Entries
<1>6. CASE used = {}
  BY <1>4, <1>6 DEF Newest
<1>7. CASE used # {}
  <2> DEFINE m == Max(used)
  <2>1. m \in Heights /\ l[m].data # None /\ NewestEntry(l) = l[m].data
    BY <1>3, <1>4, <1>7
  <2>2. \A u \in Heights : l[u].data # None => u <= m
    BY <1>3, <1>7
  <2> HIDE DEF m, used
  <2>3. \A u \in Heights : u > m => l[u].data = None
    BY <2>1, <2>2, <1>1
  <2>4. ASSUME NEW t \in Heights, l[t].data # None, \A u \in Heights : u > t => l[u].data = None
        PROVE  t = m
    BY <2>1, <2>2, <2>4, <1>1
  <2> QED
    BY <1>5, <2>1, <2>3, <2>4 DEF Newest
<1> QED
  BY <1>6, <1>7

(* A replay gives a valid chain, as long as the log has it.                *)
LEMMA ReplayableValid ==
    ASSUME NEW n \in Heights, Replayable(n)
    PROVE  /\ log[n].data \in Blocks /\ Num(log[n].data) = n
           /\ Branch(log[n].data) \subseteq Valid
<1> DEFINE Good(i) == Num(log[i].data) = i /\ Branch(log[i].data) \subseteq Valid
           Bad     == {i \in 1 .. n : ~Good(i)}
<1>1. n \in Nat \ {0}
  BY HeightsFacts
<1>2. \A i \in 1 .. n : log[i].data \in Valid /\ log[i].data \in Blocks
  BY BlocksAssumption DEF Replayable
<1>3. Good(1)
  <2>1. 1 \in 1 .. n
    BY <1>1
  <2>2. Parent(log[1].data) = Genesis
    BY <2>1 DEF Replayable
  <2>3. Num(Genesis) = 0 /\ Branch(Genesis) = {}
    <3>1. Num(Genesis) = 0
      BY DEF Num, Genesis
    <3> QED
      BY <3>1 DEF Branch
  <2> QED
    BY <1>2, <2>1, <2>2, <2>3, ParentFacts
<1>4. \A i \in 1 .. n : i # 1 /\ Good(i - 1) => Good(i)
  <2>1. SUFFICES ASSUME NEW i \in 1 .. n, i # 1, Good(i - 1) PROVE Good(i)
    OBVIOUS
  <2>2. Parent(log[i].data) = log[i - 1].data
    BY <2>1 DEF Replayable
  <2>3. Num(Parent(log[i].data)) = i - 1 /\ Branch(Parent(log[i].data)) \subseteq Valid
    BY <2>1, <2>2
  <2>4. log[i].data \in Blocks /\ log[i].data \in Valid
    BY <1>2
  <2>5. Num(log[i].data) \in Nat /\ Num(Parent(log[i].data)) = Num(log[i].data) - 1
        /\ Branch(log[i].data) = Branch(Parent(log[i].data)) \cup {log[i].data}
    BY <2>4, ParentFacts
  <2> QED
    BY <2>3, <2>4, <2>5, <1>1
<1>5. Bad = {}
  <2> HIDE DEF Good
  <2>1. SUFFICES ASSUME Bad # {} PROVE FALSE
    OBVIOUS
  <2>2. Bad \in SUBSET Nat
    BY <1>1
  <2>3. PICK k \in Bad : \A j \in Bad : k <= j
    <3> HIDE DEF Bad
    <3> QED
      BY <2>1, <2>2, LeastNumber
  <2>4. k \in 1 .. n /\ ~Good(k) /\ k # 1
    BY <2>3, <1>3
  <2>5. k - 1 \in 1 .. n /\ ~(k <= k - 1)
    BY <2>4, <1>1
  <2>6. Good(k - 1)
    BY <2>3, <2>5
  <2> QED
    BY <2>4, <2>6, <1>4
<1> QED
  BY <1>1, <1>2, <1>5

(* The block the replay stops at.                                          *)
Replayed == Max({k \in {0} \cup Heights : Replayable(k)})

(* A replay goes as far as the log can be replayed, and no further.        *)
LEMMA ReplayedFacts ==
    /\ Replayed \in {0} \cup Heights /\ Replayable(Replayed)
    /\ \A k \in {0} \cup Heights : Replayable(k) => k <= Replayed
<1> DEFINE R == {k \in {0} \cup Heights : Replayable(k)}
<1>1. Replayable(0)
  BY DEF Replayable
<1>2. R \in SUBSET Nat /\ R # {}
  <2>1. 0 \in R
    BY <1>1
  <2>2. R \subseteq Nat
    <3>1. R \subseteq {0} \cup Heights
      OBVIOUS
    <3>2. Heights \subseteq Nat
      BY HeightsFacts
    <3> HIDE DEF R
    <3> QED
      BY <3>1, <3>2
  <2> QED
    BY <2>1, <2>2
<1>3. IsFiniteSet(R)
  <2>1. IsFiniteSet(Heights \cup {0})
    BY HeightsFacts, FS_AddElement
  <2>2. R \subseteq Heights \cup {0}
    OBVIOUS
  <2> QED
    BY <2>1, <2>2, FS_Subset
<1>4. Max(R) \in R /\ \A k \in R : k <= Max(R)
  <2> HIDE DEF R
  <2> QED
    BY <1>2, <1>3, MaxIsLargest
<1> QED
  BY <1>4 DEF Replayed

(* A shutdown.                                                             *)
LEMMA CloseCore ==
    ASSUME CoreInv, close \/ close_pop
    PROVE  CoreInv'
<1>1. StateInv /\ ForkTyped(fork_db) /\ TaskTyped
  BY CoreParts
<1>2. CASE close
  <2>1. StateInv' /\ ForkTyped(fork_db')
    BY <1>1, <1>2 DEF close, StateInv, LevelsLeadBack, LogTyped, ChainIsValid
  <2>2. Irreversible(head) \in Nat
    BY <1>1, IrreversibleFacts DEF StateInv
  <2>3. task' \in [phase : {"close", "closed"}, cutoff : Nat] /\ task'.phase = "close"
    BY <1>2, <2>2 DEF close
  <2>4. TaskTyped'
    BY <2>3 DEF TaskTyped, SwitchPhases
  <2> QED
    BY <2>1, <2>4 DEF CoreInv, StateInv, Typed
<1>3. CASE close_pop
  <2>1. head \in Blocks /\ Parent(fork_db.head) \in Blocks
    BY <1>1, <1>3, KnownHeadIsBlock DEF close_pop
  <2>2. StateInv'
    BY <1>1, <1>3, <2>1, RevertedState DEF close_pop
  <2>3. ForkTyped(fork_db')
    BY <1>1, <1>3, <2>1, HeadSetTyped, ErasedTyped DEF close_pop
  <2>4. task \in [phase : {"close", "closed"}, cutoff : Nat]
    BY <1>1, <1>3 DEF close_pop, TaskTyped, Idle, SwitchTasks, SwitchPhases
  <2>5. task' \in [phase : {"close", "closed"}, cutoff : Nat]
    BY <1>3, <2>4 DEF close_pop
  <2>6. TaskTyped'
    BY <2>5 DEF TaskTyped, SwitchPhases
  <2> QED
    BY <2>2, <2>3, <2>6 DEF CoreInv, StateInv, Typed
<1> QED
  BY <1>2, <1>3

(* A start.                                                                *)
LEMMA OpenCore ==
    ASSUME CoreInv, open
    PROVE  CoreInv'
<1>1. StateInv /\ ForkTyped(fork_db) /\ TaskTyped
  BY CoreParts
<1>2. saved' \in Seq(States) /\ LevelsLeadBack'
  BY DEF open, LevelsLeadBack
<1>3. head' \in States /\ max_size' \in Nat /\ ChainIsValid'
  BY <1>1, InitialMaxAssumption DEF open, StateInv, ChainIsValid
<1>4. log \in [Heights -> Entries]
  BY <1>1 DEF StateInv, LogTyped
<1>5. ForkTyped(fork_db')
  BY <1>4, NewestFacts, StartedTyped DEF open
<1>6. LogTyped'
  <2>1. (NewestEntry(log) = Torn) \in BOOLEAN
    OBVIOUS
  <2>2. log' = log /\ disk' = Flushed(NewestEntry(log) = Torn)
    BY DEF open
  <2>3. disk' \in [num : {0} \cup Heights, old : Entries,
                   block : Blocks \cup {None}, failed : BOOLEAN] /\ disk'.num = 0
    BY <2>1, <2>2, FlushedTyped
  <2> QED
    BY <1>1, <2>2, <2>3 DEF LogTyped, StateInv
<1>7. TaskTyped'
  BY DEF open, TaskTyped, Idle, SwitchPhases
<1> QED
  BY <1>2, <1>3, <1>5, <1>6, <1>7 DEF CoreInv, Typed

(* What a kill leaves of an entry: what it was, what it was before the     *)
(* last change, or an entry without data.                                  *)
LEMMA OnDiskFacts ==
    ASSUME LogTyped, NEW l \in OnDisk
    PROVE  /\ l \in [Heights -> Entries]
           /\ \A n \in Heights :
                 \/ l[n] = log[n]
                 \/ n = disk.num /\ l[n] = disk.old
                 \/ l[n].data = Torn /\ l[n].id \in {log[n].id, disk.old.id}
                    /\ disk.block # None
                    /\ (l[n].id = log[n].id \/ n = disk.num)
<1> DEFINE index   == {log} \cup {[log EXCEPT ![n] = disk.old] : n \in {disk.num} \ {0}}
           Lost(k) == [n \in Heights |-> IF disk.block # None /\ k[n].data = disk.block
                                         THEN [k[n] EXCEPT !.data = Torn] ELSE k[n]]
<1>1. l \in index \cup {Lost(k) : k \in index}
  BY DEF OnDisk
<1>2. /\ log \in [Heights -> Entries] /\ disk.old \in Entries
      /\ disk.num \in {0} \cup Heights
  BY DEF LogTyped
<1>3. ASSUME NEW k \in index
      PROVE  /\ k \in [Heights -> Entries]
             /\ \A n \in Heights : k[n] = log[n] \/ (n = disk.num /\ k[n] = disk.old)
  BY <1>2
<1>4. PICK k \in index : l = k \/ l = Lost(k)
  BY <1>1
<1>5. k \in [Heights -> Entries]
      /\ \A n \in Heights : k[n] = log[n] \/ (n = disk.num /\ k[n] = disk.old)
  BY <1>3
<1>6. CASE l = k
  BY <1>5, <1>6
<1>7. CASE l = Lost(k)
  <2>1. ASSUME NEW n \in Heights
        PROVE  \/ l[n] = k[n]
               \/ /\ disk.block # None /\ l[n].data = Torn /\ l[n].id = k[n].id
                  /\ l[n] \in Entries
    <3>1. k[n] \in Entries
      BY <1>5
    <3>2. l[n] = k[n] \/ (disk.block # None /\ l[n] = [k[n] EXCEPT !.data = Torn])
      BY <1>7
    <3>3. [k[n] EXCEPT !.data = Torn].data = Torn
      BY <3>1 DEF Entries
    <3> QED
      BY <3>1, <3>2, <3>3, EntryFacts
  <2>2. l \in [Heights -> Entries]
    <3>1. l = [n \in Heights |-> l[n]]
      BY <1>7
    <3> QED
      BY <2>1, <3>1, <1>5
  <2> QED
    BY <2>1, <2>2, <1>5
<1> QED
  BY <1>4, <1>6, <1>7

(* A kill.                                                                 *)
LEMMA CrashCore ==
    ASSUME CoreInv, crash
    PROVE  CoreInv'
<1>1. StateInv /\ ForkTyped(fork_db) /\ TaskTyped
  BY CoreParts
<1>2. saved' \in Seq(States) /\ LevelsLeadBack'
  BY DEF crash, LevelsLeadBack
<1>3. head' \in States /\ max_size' \in Nat /\ ChainIsValid'
  BY <1>1, InitialMaxAssumption DEF crash, StateInv, ChainIsValid
<1>4. ForkTyped(fork_db')
  BY StartedTyped DEF crash
<1>5. LogTyped'
  <2>1. LogTyped /\ log' \in OnDisk /\ disk' = Flushed(FALSE)
    BY <1>1 DEF StateInv, crash
  <2>2. log' \in [Heights -> Entries]
        /\ \A n \in Heights : log'[n].id = log[n].id
                              \/ (n = disk.num /\ log'[n].id = disk.old.id)
    BY <2>1, OnDiskFacts
  <2>3. \A n \in Heights : log'[n].id # None => Num(log'[n].id) = n
    <3>1. SUFFICES ASSUME NEW n \in Heights, log'[n].id # None PROVE Num(log'[n].id) = n
      OBVIOUS
    <3>2. n # 0
      BY HeightsFacts
    <3> QED
      BY <2>1, <2>2, <3>1, <3>2 DEF LogTyped
  <2>4. disk' \in [num : {0} \cup Heights, old : Entries,
                   block : Blocks \cup {None}, failed : BOOLEAN] /\ disk'.num = 0
    BY <2>1, FlushedTyped
  <2> QED
    BY <2>2, <2>3, <2>4 DEF LogTyped
<1>6. TaskTyped'
  BY DEF crash, TaskTyped, SwitchPhases
<1> QED
  BY <1>2, <1>3, <1>4, <1>5, <1>6 DEF CoreInv, Typed

(* A replay of the log.                                                    *)
LEMMA ReindexCore ==
    ASSUME CoreInv, reindex
    PROVE  CoreInv'
<1> DEFINE n == IF Newest(log) = None THEN 0 ELSE Replayed
<1>1. StateInv /\ ForkTyped(fork_db) /\ TaskTyped
  BY CoreParts
<1>2. /\ head' = IF n = 0 THEN Genesis ELSE log[n].data
      /\ max_size' = IF n = 0 THEN InitialMax ELSE HistorySize(head')
      /\ log' = [k \in Heights |-> IF k > n + 1 /\ Newest(log) # None
                                   THEN [log[k] EXCEPT !.data = None] ELSE log[k]]
      /\ disk' = Flushed(\/ NewestEntry(log) = Torn
                         \/ \E k \in {n + 1} \cap Heights : log[k].data = Torn)
  BY DEF reindex, Replayed
<1>3. n \in {0} \cup Heights /\ Replayable(n)
  BY ReplayedFacts DEF Replayable
<1> HIDE DEF n
<1>4. head' \in States /\ ChainIsValid' /\ (n # 0 => head' \in Blocks)
  <2>1. CASE n = 0
    <3>1. Branch(Genesis) = {}
      <4>1. Num(Genesis) = 0
        BY DEF Num, Genesis
      <4> QED
        BY <4>1 DEF Branch
    <3> QED
      BY <1>2, <2>1, <3>1 DEF ChainIsValid, States
  <2>2. CASE n # 0
    <3>1. n \in Heights
      BY <1>3, <2>2
    <3>2. log[n].data \in Blocks /\ Branch(log[n].data) \subseteq Valid
      BY <1>3, <3>1, ReplayableValid
    <3> QED
      BY <1>2, <2>2, <3>2 DEF ChainIsValid, States
  <2> QED
    BY <2>1, <2>2
<1>5. max_size' \in Nat
  BY <1>2, <1>4, HistorySizeFacts, InitialMaxAssumption
<1>6. log \in [Heights -> Entries] /\ \A k \in Heights : log[k].id # None => Num(log[k].id) = k
  BY <1>1 DEF StateInv, LogTyped
<1>7. LogTyped'
  <2>1. \A k \in Heights : log[k] \in Entries
    BY <1>6
  <2>2. \A k \in Heights : log'[k] \in Entries /\ log'[k].id = log[k].id
    BY <1>2, <2>1, EntryFacts
  <2>3. log' \in [Heights -> Entries]
    BY <1>2, <2>2
  <2> DEFINE x == \/ NewestEntry(log) = Torn
                  \/ \E k \in {n + 1} \cap Heights : log[k].data = Torn
  <2>4. x \in BOOLEAN
    OBVIOUS
  <2>5. disk' = Flushed(x)
    BY <1>2
  <2> HIDE DEF x
  <2>6. disk' \in [num : {0} \cup Heights, old : Entries,
                   block : Blocks \cup {None}, failed : BOOLEAN] /\ disk'.num = 0
    BY <2>4, <2>5, FlushedTyped
  <2> QED
    BY <1>6, <2>2, <2>3, <2>6 DEF LogTyped
<1>8. ForkTyped(fork_db')
  BY <1>6, NewestFacts, StartedTyped DEF reindex
<1>9. saved' \in Seq(States) /\ LevelsLeadBack'
  BY DEF reindex, LevelsLeadBack
<1>10. TaskTyped'
  BY DEF reindex, TaskTyped, Idle, SwitchPhases
<1> QED
  BY <1>4, <1>5, <1>7, <1>8, <1>9, <1>10 DEF CoreInv, Typed

(* Every step.                                                             *)
LEMMA CoreNext ==
    ASSUME CoreInv, [Running \/ Restarting]_vars
    PROVE  CoreInv'
<1>1. CASE Running
  BY <1>1, PushBlockCore, PushTransactionCore, SwitchingCore DEF Running
<1>2. CASE Restarting
  BY <1>2, CloseCore, OpenCore, CrashCore, ReindexCore DEF Restarting
<1>3. CASE UNCHANGED vars
  <2>1. StateInv /\ ForkTyped(fork_db) /\ TaskTyped
    BY CoreParts
  <2>2. StateInv' /\ ForkTyped(fork_db') /\ TaskTyped'
    BY <1>3, <2>1 DEF vars, StateInv, LevelsLeadBack, LogTyped, ChainIsValid, TaskTyped
  <2> QED
    BY <2>2 DEF CoreInv, StateInv, Typed
<1> QED
  BY <1>1, <1>2, <1>3

(* Types, the validity of every state and level, and the course of a       *)
(* switch hold in every reachable state, through switches that fail,       *)
(* shutdowns, kills and replays.                                           *)
THEOREM CoreInvariance == Spec => []CoreInv
<1>1. Init => CoreInv
  BY CoreInit
<1>2. CoreInv /\ [Running \/ Restarting]_vars => CoreInv'
  BY CoreNext
<1> QED
  BY <1>1, <1>2, PTL DEF Spec

(* The database, the fork database, the log and the task keep their types  *)
(* in every run of a node (db_block.cpp, fork_database.cpp,                *)
(* block_database.cpp, db_management.cpp).                                 *)
THEOREM TypeCorrectness == Spec => []TypeOK
<1>1. CoreInv => TypeOK
  <2> SUFFICES ASSUME CoreInv PROVE TypeOK
    OBVIOUS
  <2>1. Typed
    BY DEF CoreInv
  <2>2. task = Idle \/ task.phase \in {"pop", "apply", "unwind", "restore",
                                       "close", "closed", "crashed"}
    BY <2>1 DEF Typed, TaskTyped, SwitchTasks, SwitchPhases
  <2>3. disk.num \in {0} \cup Heights /\ disk.block \in Blocks \cup {None}
    BY <2>1 DEF Typed, LogTyped
  <2>4. log \in [Heights -> [id : Blocks \cup {None}, data : Blocks \cup {None, Torn}]]
    BY <2>1 DEF Typed, LogTyped, Entries
  <2>5. /\ fork_db.index \subseteq Blocks
        /\ fork_db.dead \subseteq fork_db.index
        /\ fork_db.head \in Blocks \cup {None}
        /\ fork_db.cut \in BOOLEAN
    BY <2>1 DEF Typed, ForkTyped
  <2> QED
    BY <2>1, <2>2, <2>3, <2>4, <2>5 DEF TypeOK, Typed, States
<1> QED
  BY <1>1, CoreInvariance, PTL

(* The state is always the result of valid blocks only: in the middle of a *)
(* switch, after a failed one, and after the replay of any log.            *)
THEOREM ValidChain == Spec => []ChainIsValid
<1>1. CoreInv => ChainIsValid
  BY DEF CoreInv
<1> QED
  BY <1>1, CoreInvariance, PTL

(* Each level of the undo history goes back by exactly one block, across   *)
(* sessions that are opened, undone, trimmed and popped.                   *)
THEOREM HistoryLeadsBack == Spec => []LevelsLeadBack
<1>1. CoreInv => LevelsLeadBack
  BY DEF CoreInv
<1> QED
  BY <1>1, CoreInvariance, PTL
-----------------------------------------------------------------------------
(***************************************************************************)
(* The log stays on the fork of the state.                                 *)
(***************************************************************************)
LEMMA IntactFacts ==
    ASSUME LogTyped, NEW n \in Heights, Intact(log, n)
    PROVE  /\ log[n].data \in Blocks /\ log[n].data \in States
           /\ Num(log[n].data) = n /\ log[n].id = log[n].data
<1>1. log[n] \in Entries /\ log[n].data # None /\ log[n].id = log[n].data
  BY DEF LogTyped, Intact
<1>2. log[n].data \in Blocks
  BY <1>1 DEF Entries
<1> QED
  BY <1>1, <1>2 DEF LogTyped, States

(* A block and its parent, seen from below.                                *)
LEMMA BelowParent ==
    ASSUME NEW b \in Blocks, NEW d \in States
    PROVE  /\ OnBranch(Parent(b), b)
           /\ OnBranch(d, Parent(b)) => OnBranch(d, b)
           /\ OnBranch(d, b) /\ d # b => OnBranch(d, Parent(b))
<1>1. b \in States /\ Parent(b) \in States /\ Num(b) \in Nat \ {0}
      /\ Num(Parent(b)) = Num(b) - 1 /\ Num(d) \in Nat
  BY ParentFacts, StatesAreSequences
<1>2. OnBranch(Parent(b), b)
  BY <1>1 DEF OnBranch, Parent
<1>3. OnBranch(d, Parent(b)) => OnBranch(d, b)
  BY <1>1, <1>2, OnBranchFacts
<1>4. OnBranch(d, b) /\ d # b => OnBranch(d, Parent(b))
  <2>1. SUFFICES ASSUME OnBranch(d, b), d # b PROVE OnBranch(d, Parent(b))
    OBVIOUS
  <2>2. Num(d) # Num(b)
    BY <2>1, <1>1, OnBranchFacts
  <2>3. Num(d) <= Num(Parent(b))
    BY <2>1, <2>2, <1>1 DEF OnBranch
  <2> QED
    BY <2>1, <2>3, <1>1, <1>2, OnBranchFacts
<1> QED
  BY <1>2, <1>3, <1>4

(* A task that goes on with a switch, or begins one at the head.           *)
TaskGoesOn ==
    /\ task.phase # "crashed" /\ task'.phase # "crashed"
    /\ task'.phase \in SwitchPhases => /\ task.phase \in SwitchPhases
                                       /\ task'.origin = task.origin

(* What is stored when a block is applied agrees with the log there was.   *)
LEMMA AppliedLog ==
    ASSUME CoreInv, LogOnFork, TaskGoesOn,
           NEW b \in Blocks, Parent(b) = head, NEW id \in Blocks, NEW f, Applied(b, f, id),
           id = b \/ (task.phase \in SwitchPhases /\ Num(b) <= Num(task.origin))
    PROVE  LogOnFork'
<1> DEFINE k == Num(id)
<1>1. LogTyped /\ head \in States /\ Num(head) \in Nat /\ b \in States
      /\ Num(b) = Num(head) + 1 /\ Num(b) \in Nat /\ b # Torn /\ id # Torn
  <2>1. head \in States /\ LogTyped
    BY CoreParts DEF StateInv
  <2>2. b # Torn /\ id # Torn
    BY BlocksAssumption DEF Torn
  <2> QED
    BY <2>1, <2>2, ParentFacts, StatesAreSequences
<1>2. k \in Heights /\ Heights \subseteq Nat \ {0}
  BY HeightsFacts
<1>3. /\ head' = b
      /\ log' = [log EXCEPT ![k] = [id |-> id, data |-> IF disk.failed THEN Torn ELSE b]]
      /\ disk' = [num |-> k, old |-> log[k],
                  block |-> IF disk.failed THEN None ELSE b, failed |-> disk.failed]
  BY DEF Applied, Stored
<1>4. log \in [Heights -> Entries] /\ disk.failed \in BOOLEAN
  BY <1>1 DEF LogTyped
<1> HIDE DEF k
<1>5. /\ \A n \in Heights : n # k => log'[n] = log[n]
      /\ log'[k].id = id /\ log'[k].data = IF disk.failed THEN Torn ELSE b
      /\ disk'.num = k /\ disk'.old = log[k] /\ disk'.failed = disk.failed
      /\ disk'.block = IF disk.failed THEN None ELSE b
  BY <1>2, <1>3, <1>4
<1>6. \A n \in Heights : Intact(log', n) =>
         \/ n # k /\ Intact(log, n) /\ log'[n] = log[n]
         \/ n = k /\ log'[n].data = b /\ ~disk.failed
  BY <1>1, <1>5 DEF Intact
<1>7. CASE LogFollowsHead
  <2>1. \A n \in Heights : Intact(log, n) => OnBranch(log[n].data, b)
    <3>1. SUFFICES ASSUME NEW n \in Heights, Intact(log, n) PROVE OnBranch(log[n].data, b)
      OBVIOUS
    <3>2. OnBranch(log[n].data, head) /\ log[n].data \in States
      BY <1>1, <1>7, <3>1, IntactFacts DEF LogFollowsHead, AllOn
    <3> QED
      BY <3>2, BelowParent
  <2>2. OnBranch(b, b)
    BY <1>1, OnBranchFacts
  <2>3. AllOn(log', head')
    BY <1>3, <1>6, <2>1, <2>2 DEF AllOn
  <2>4. IntactEntry(disk'.old) => OnBranch(disk'.old.data, head')
    BY <1>2, <1>3, <1>5, <2>1 DEF IntactEntry, Intact
  <2>5. LogFollowsHead'
    BY <2>3, <2>4 DEF LogFollowsHead
  <2> QED
    BY <2>5 DEF LogOnFork, TaskGoesOn
<1>8. ASSUME NEW g \in States, Branch(g) \subseteq Valid, LogIsLeftOver(g)
      PROVE  LogOnFork'
  <2>1. disk.failed /\ AllOn(log, g)
    BY <1>8 DEF LogIsLeftOver
  <2>2. \A n \in Heights : Intact(log', n) => n # k /\ Intact(log, n) /\ log'[n] = log[n]
    BY <1>6, <2>1
  <2>3. log'[k].data = Torn
    BY <1>5, <2>1
  <2>4. \A n \in Nat : TornBehind(log, n) => TornBehind(log', n)
    <3>1. SUFFICES ASSUME NEW n \in Nat, TornBehind(log, n) PROVE TornBehind(log', n)
      OBVIOUS
    <3>2. PICK t \in Heights : /\ t > n /\ log[t].data = Torn
                               /\ \A u \in Heights : u > t => log[u].data = None
      BY <3>1 DEF TornBehind
    <3>3. CASE k <= t
      <4>1. log'[t].data = Torn
        BY <1>5, <2>3, <3>2
      <4>2. \A u \in Heights : u > t => log'[u].data = None
        BY <1>2, <1>5, <3>2, <3>3
      <4> QED
        BY <3>2, <4>1, <4>2 DEF TornBehind
    <3>4. CASE k > t
      <4>1. \A u \in Heights : u > k => log'[u].data = None
        BY <1>2, <1>5, <3>2, <3>4
      <4>2. k > n
        BY <1>2, <3>2, <3>4
      <4> QED
        BY <1>2, <2>3, <4>1, <4>2 DEF TornBehind
    <3> QED
      BY <1>2, <3>2, <3>3, <3>4
  <2>5. AllOn(log', g)
    BY <2>1, <2>2 DEF AllOn
  <2>6. ASSUME NEW n \in Heights, Intact(log', n)
        PROVE  /\ n > Num(head')
               /\ task'.phase \in SwitchPhases => n > Num(task'.origin)
               /\ TornBehind(log', n)
    <3>1. n # k /\ Intact(log, n) /\ n \in Nat
      BY <1>2, <2>2, <2>6
    <3>2. /\ n > Num(head)
          /\ task.phase \in SwitchPhases => n > Num(task.origin)
          /\ TornBehind(log, n)
      BY <1>8, <3>1 DEF LogIsLeftOver
    <3>3. TornBehind(log', n)
      BY <2>4, <3>1, <3>2
    <3>4. task'.phase \in SwitchPhases => n > Num(task'.origin)
      BY <3>2 DEF TaskGoesOn
    <3>5. n > Num(b)
      <4>1. CASE id = b
        BY <1>1, <3>1, <3>2, <4>1 DEF k
      <4>2. CASE task.phase \in SwitchPhases /\ Num(b) <= Num(task.origin)
        <5>1. task.origin \in Blocks
          BY <4>2, CoreParts, SwitchTaskFacts DEF SwitchTasks
        <5>2. Num(task.origin) \in Nat
          BY <5>1, ParentFacts
        <5> QED
          BY <1>1, <3>1, <3>2, <4>2, <5>2
      <4> QED
        BY <4>1, <4>2
    <3> QED
      BY <1>3, <3>3, <3>4, <3>5
  <2>7. IntactEntry(disk'.old) => OnBranch(disk'.old.data, g) /\ TornBehind(log', disk'.num)
    <3>1. SUFFICES ASSUME Intact(log, k) PROVE OnBranch(log[k].data, g) /\ TornBehind(log', k)
      BY <1>5 DEF IntactEntry, Intact
    <3>2. OnBranch(log[k].data, g) /\ TornBehind(log, k)
      BY <1>2, <1>8, <3>1 DEF LogIsLeftOver, AllOn
    <3> QED
      BY <1>2, <2>4, <3>2
  <2>8. disk'.failed /\ disk'.block = None
    BY <1>5, <2>1
  <2>9. LogIsLeftOver(g)'
    BY <2>5, <2>6, <2>7, <2>8 DEF LogIsLeftOver
  <2> QED
    BY <1>8, <2>9 DEF LogOnFork, TaskGoesOn
<1> QED
  BY <1>7, <1>8 DEF LogOnFork, TaskGoesOn

(* What a popped block takes out of the log.                               *)
LEMMA RevertedLog ==
    ASSUME CoreInv, LogOnFork, TaskGoesOn, head \in Blocks, Reverted
    PROVE  LogOnFork'
<1> DEFINE k == Num(head)
<1>1. StateInv /\ LogTyped /\ head \in States
  BY CoreParts DEF StateInv
<1>2. k \in Heights /\ Heights \subseteq Nat \ {0} /\ k \in Nat
  BY HeightsFacts
<1>3. head' \in {head, Parent(head)} /\ Parent(head) \in States
      /\ Num(Parent(head)) = k - 1
  BY <1>1, RevertedState, ParentFacts
<1>4. log' = IF log[k].id = head THEN [log EXCEPT ![k].data = None] ELSE log
  BY DEF Reverted, Removed
<1>5. disk' = [disk EXCEPT !.num = IF log' = log THEN 0 ELSE k,
                           !.old = IF log' = log THEN Unwritten ELSE log[k]]
  BY DEF Reverted
<1>6. log \in [Heights -> Entries]
      /\ disk \in [num : {0} \cup Heights, old : Entries,
                   block : Blocks \cup {None}, failed : BOOLEAN]
  BY <1>1 DEF LogTyped
<1> HIDE DEF k
<1>7. /\ \A n \in Heights : n # k => log'[n] = log[n]
      /\ log[k].id = head => log'[k].data = None
      /\ log[k].id # head => log' = log
  <2>1. log[k] \in Entries
    BY <1>2, <1>6
  <2> QED
    BY <1>2, <1>4, <1>6, <2>1 DEF Entries
<1>8. \A n \in Heights : Intact(log', n) => /\ Intact(log, n) /\ log'[n] = log[n]
                                            /\ n = k => log[n].id # head
  BY <1>7 DEF Intact
<1>9. /\ disk'.num # 0 => disk'.num = k /\ disk'.old = log[k]
      /\ disk'.block = disk.block /\ disk'.failed = disk.failed
  BY <1>5, <1>6
<1>10. CASE LogFollowsHead
  <2>1. AllOn(log', head')
    <3>1. SUFFICES ASSUME NEW n \in Heights, Intact(log', n)
                   PROVE  OnBranch(log'[n].data, head')
      BY DEF AllOn
    <3> DEFINE d == log[n].data
    <3>2. d \in States /\ Num(d) = n /\ log[n].id = d /\ log'[n] = log[n]
          /\ (n = k => log[n].id # head)
      BY <1>1, <1>8, <3>1, IntactFacts
    <3>3. OnBranch(d, head)
      BY <1>8, <1>10, <3>1 DEF LogFollowsHead, AllOn
    <3>4. d # head
      BY <3>2 DEF k
    <3>5. OnBranch(d, Parent(head))
      BY <3>2, <3>3, <3>4, BelowParent
    <3> QED
      BY <1>3, <3>2, <3>3, <3>5
  <2>2. ASSUME disk'.num # 0, IntactEntry(disk'.old)
        PROVE  \/ OnBranch(disk'.old.data, head')
               \/ Parent(disk'.old.data) = head' /\ disk'.old.data \in Valid
    <3>1. disk'.old = log[k] /\ Intact(log, k)
      BY <1>9, <2>2 DEF Intact, IntactEntry
    <3>2. OnBranch(log[k].data, head) /\ Num(log[k].data) = k /\ log[k].data \in States
      BY <1>1, <1>2, <1>10, <3>1, IntactFacts DEF LogFollowsHead, AllOn
    <3>3. log[k].data = head
      BY <1>1, <3>2, OnBranchFacts DEF k
    <3>4. head \in Valid
      BY <1>1, ParentFacts DEF StateInv, ChainIsValid
    <3>5. OnBranch(head, head)
      BY <1>1, OnBranchFacts
    <3> QED
      BY <1>3, <3>1, <3>3, <3>4, <3>5
  <2>3. LogFollowsHead'
    BY <2>1, <2>2 DEF LogFollowsHead
  <2> QED
    BY <2>3 DEF LogOnFork, TaskGoesOn
<1>11. ASSUME NEW g \in States, Branch(g) \subseteq Valid, LogIsLeftOver(g)
       PROVE  LogOnFork'
  <2>1. AllOn(log', g)
    BY <1>8, <1>11 DEF LogIsLeftOver, AllOn
  <2>2. ASSUME NEW n \in Heights, Intact(log', n)
        PROVE  /\ n > Num(head')
               /\ task'.phase \in SwitchPhases => n > Num(task'.origin)
               /\ TornBehind(log', n)
    <3>1. /\ n > k
          /\ task.phase \in SwitchPhases => n > Num(task.origin)
          /\ TornBehind(log, n)
      BY <1>8, <1>11, <2>2 DEF LogIsLeftOver, k
    <3>2. PICK t \in Heights : /\ t > n /\ log[t].data = Torn
                               /\ \A u \in Heights : u > t => log[u].data = None
      BY <3>1 DEF TornBehind
    <3>3. log'[t].data = Torn /\ \A u \in Heights : u > t => log'[u].data = None
      BY <1>2, <1>7, <3>1, <3>2
    <3>4. TornBehind(log', n)
      BY <3>2, <3>3 DEF TornBehind
    <3>5. n > Num(head')
      BY <1>2, <1>3, <3>1 DEF k
    <3> QED
      BY <3>1, <3>4, <3>5 DEF TaskGoesOn
  <2>3. ~(disk'.num # 0 /\ IntactEntry(disk'.old))
    <3>1. SUFFICES ASSUME Intact(log, k) PROVE FALSE
      BY <1>9 DEF Intact, IntactEntry
    <3> QED
      BY <1>2, <1>11, <3>1 DEF LogIsLeftOver, k
  <2>4. disk'.failed /\ disk'.block = None
    BY <1>9, <1>11 DEF LogIsLeftOver
  <2>5. LogIsLeftOver(g)'
    BY <2>1, <2>2, <2>3, <2>4 DEF LogIsLeftOver
  <2> QED
    BY <1>11, <2>5 DEF LogOnFork, TaskGoesOn
<1> QED
  BY <1>10, <1>11 DEF LogOnFork, TaskGoesOn

(* Nothing but the task changes.                                           *)
LEMMA SameLog ==
    ASSUME CoreInv, LogOnFork, head' = head, log' = log, disk' = disk,
           task.phase # "crashed", task'.phase # "crashed",
           task'.phase \in SwitchPhases =>
              \/ task.phase \in SwitchPhases /\ task'.origin = task.origin
              \/ task'.origin = head
    PROVE  LogOnFork'
<1>1. CASE LogFollowsHead
  BY <1>1 DEF LogOnFork, LogFollowsHead, AllOn
<1>2. ASSUME NEW g \in States, Branch(g) \subseteq Valid, LogIsLeftOver(g)
      PROVE  LogOnFork'
  <2>1. LogIsLeftOver(g)'
    BY <1>2 DEF LogIsLeftOver, AllOn
  <2> QED
    BY <1>2, <2>1 DEF LogOnFork
<1> QED
  BY <1>1, <1>2 DEF LogOnFork

(* What a kill leaves of the log.                                          *)
LEMMA CrashLog ==
    ASSUME CoreInv, LogOnFork, crash
    PROVE  LogOnFork'
<1>1. StateInv /\ LogTyped /\ head \in States /\ Branch(head) \subseteq Valid
      /\ head' = head /\ task.phase # "crashed" /\ task'.phase = "crashed"
  BY CoreParts DEF StateInv, ChainIsValid, crash
<1>2. /\ log' \in [Heights -> Entries]
      /\ \A n \in Heights :
            \/ log'[n] = log[n]
            \/ n = disk.num /\ log'[n] = disk.old
            \/ log'[n].data = Torn /\ disk.block # None
  BY <1>1, OnDiskFacts DEF crash
<1>3. Heights \subseteq Nat \ {0} /\ disk.num \in {0} \cup Heights /\ disk.old \in Entries
  BY <1>1, HeightsFacts DEF LogTyped
<1>4. \A n \in Heights : Intact(log', n) =>
         \/ Intact(log, n) /\ log'[n] = log[n]
         \/ n = disk.num /\ n # 0 /\ log'[n] = disk.old /\ IntactEntry(disk.old)
  <2>1. \A n \in Heights : log'[n].data = Torn => ~Intact(log', n)
    <3>1. SUFFICES ASSUME NEW n \in Heights, log'[n].data = Torn, log'[n].id = Torn PROVE FALSE
      BY DEF Intact
    <3>2. log'[n].id \in Blocks \cup {None}
      BY <1>2 DEF Entries
    <3>3. Torn \notin Blocks /\ Torn # None
      BY BlocksAssumption DEF Torn
    <3> QED
      BY <3>1, <3>2, <3>3
  <2> QED
    BY <1>2, <1>3, <2>1 DEF Intact, IntactEntry

<1>5. CASE LogFollowsHead
  <2>1. CASE /\ disk.num # 0 /\ IntactEntry(disk.old)
             /\ Parent(disk.old.data) = head /\ disk.old.data \in Valid
    <3>1. PICK g \in States : g = disk.old.data /\ g \in Blocks /\ g # Genesis
      BY <2>1, BlocksAssumption DEF States
    <3>2. Branch(g) \subseteq Valid
      BY <1>1, <2>1, <3>1, ParentFacts
    <3>3. OnBranch(g, g)
      BY <3>1, OnBranchFacts
    <3>4. \A n \in Heights : Intact(log, n) => OnBranch(log[n].data, g)
      BY <1>1, <1>5, <2>1, <3>1, BelowParent, IntactFacts DEF LogFollowsHead, AllOn
    <3>5. AllOn(log', g)
      BY <1>4, <3>1, <3>3, <3>4 DEF AllOn
    <3>6. LogIsReplayable(g)'
      BY <1>1, <2>1, <3>1, <3>5 DEF LogIsReplayable
    <3> QED
      BY <1>1, <3>1, <3>2, <3>6 DEF LogOnFork
  <2>2. CASE ~(/\ disk.num # 0 /\ IntactEntry(disk.old)
               /\ Parent(disk.old.data) = head /\ disk.old.data \in Valid)
    <3>1. AllOn(log', head)
      BY <1>4, <1>5, <2>2 DEF AllOn, LogFollowsHead
    <3>2. OnBranch(head, head)
      BY <1>1, OnBranchFacts
    <3>3. LogIsReplayable(head)'
      BY <1>1, <3>1, <3>2 DEF LogIsReplayable
    <3>4. \E b \in States : Branch(b) \subseteq Valid /\ LogIsReplayable(b)'
      BY <1>1, <3>3
    <3> QED
      BY <1>1, <3>4 DEF LogOnFork
  <2> QED
    BY <2>1, <2>2
<1>6. ASSUME NEW g \in States, Branch(g) \subseteq Valid, LogIsLeftOver(g)
      PROVE  LogOnFork'
  <2>1. AllOn(log', g)
    BY <1>4, <1>6 DEF LogIsLeftOver, AllOn
  <2>2. ASSUME NEW n \in Heights, n = 1, Intact(log', n)
        PROVE  head' = Genesis \/ Newest(log') = None
    <3>1. CASE Intact(log, n)
      <4>1. n > Num(head)
        BY <1>6, <3>1 DEF LogIsLeftOver
      <4>2. Num(head) = 0
        BY <1>1, <2>2, <4>1, StatesAreSequences
      <4> QED
        BY <1>1, <4>2, StatesAreSequences
    <3>2. CASE disk.num # 0 /\ IntactEntry(disk.old)
      <4>1. TornBehind(log, disk.num)
        BY <1>6, <3>2 DEF LogIsLeftOver
      <4>2. PICK t \in Heights : /\ t > disk.num /\ log[t].data = Torn
                                 /\ \A u \in Heights : u > t => log[u].data = None
        BY <4>1 DEF TornBehind
      <4>3. \A u \in Heights : u > disk.num => log'[u] = log[u]
        BY <1>2, <1>3, <1>6 DEF LogIsLeftOver
      <4>4. log'[t].data = Torn /\ \A u \in Heights : u > t => log'[u].data = None
        <5>1. disk.num \in Heights
          BY <1>3, <3>2
        <5>2. disk.num \in Nat /\ t \in Nat /\ \A u \in Heights : u \in Nat
          BY <1>3, <5>1
        <5>3. \A u \in Heights : u > t => u > disk.num
          BY <4>2, <5>2
        <5> QED
          BY <4>2, <4>3, <5>3
      <4>5. Torn # None
        BY BlocksAssumption DEF Torn
      <4>6. NewestEntry(log') = Torn
        BY <1>2, <4>4, <4>5, NewestFacts
      <4> QED
        BY <4>6 DEF Newest
    <3> QED
      BY <1>4, <2>2, <3>1, <3>2
  <2>3. LogIsReplayable(g)'
    BY <2>1, <2>2 DEF LogIsReplayable
  <2> QED
    BY <1>1, <1>6, <2>3 DEF LogOnFork
<1> QED
  BY <1>1, <1>5, <1>6 DEF LogOnFork

(* What a start makes of it.                                               *)
LEMMA OpenLog ==
    ASSUME CoreInv, LogOnFork, open
    PROVE  LogOnFork'
<1>1. /\ LogTyped /\ log \in [Heights -> Entries]
      /\ head' = head /\ log' = log /\ task' = Idle
      /\ disk' = Flushed(NewestEntry(log) = Torn)
      /\ task.phase # "crashed"
  BY CoreParts DEF StateInv, LogTyped, open, Closed
<1>2. task'.phase = "idle" /\ task'.phase \notin SwitchPhases /\ task'.phase # "crashed"
  BY <1>1 DEF Idle, SwitchPhases
<1>3. disk'.num = 0 /\ disk'.block = None /\ disk'.failed = (NewestEntry(log) = Torn)
  BY <1>1 DEF Flushed
<1>4. CASE LogFollowsHead
  <2>1. LogFollowsHead'
    BY <1>1, <1>3, <1>4 DEF LogFollowsHead, AllOn
  <2> QED
    BY <1>2, <2>1 DEF LogOnFork
<1>5. ASSUME NEW g \in States, Branch(g) \subseteq Valid, LogIsLeftOver(g)
      PROVE  LogOnFork'
  <2>1. CASE NewestEntry(log) = Torn
    <3>1. disk'.failed
      BY <1>3, <2>1
    <3>2. LogIsLeftOver(g)'
      BY <1>1, <1>2, <1>3, <1>5, <3>1 DEF LogIsLeftOver, AllOn
    <3> QED
      BY <1>2, <1>5, <3>2 DEF LogOnFork
  <2>2. CASE NewestEntry(log) # Torn
    <3>1. \A n \in Heights : ~Intact(log, n)
      <4>1. SUFFICES ASSUME NEW n \in Heights, Intact(log, n) PROVE FALSE
        OBVIOUS
      <4>2. TornBehind(log, n)
        BY <1>5, <4>1 DEF LogIsLeftOver
      <4>3. PICK t \in Heights : /\ log[t].data = Torn
                                 /\ \A u \in Heights : u > t => log[u].data = None
        BY <4>2 DEF TornBehind
      <4>4. Torn # None
        BY BlocksAssumption DEF Torn
      <4> QED
        BY <1>1, <2>2, <4>3, <4>4, NewestFacts
    <3>2. LogFollowsHead'
      BY <1>1, <1>3, <3>1 DEF LogFollowsHead, AllOn
    <3> QED
      BY <1>2, <3>2 DEF LogOnFork
  <2> QED
    BY <2>1, <2>2
<1> QED
  BY <1>1, <1>4, <1>5 DEF LogOnFork

(* What reindex finds, after a kill or when log and state do not agree.    *)
LEMMA UncleanLog ==
    ASSUME CoreInv, LogOnFork, Unclean
    PROVE  \E g \in States : Branch(g) \subseteq Valid /\ LogIsReplayable(g)
<1>1. LogTyped /\ head \in States /\ Branch(head) \subseteq Valid /\ Num(head) \in Nat
  BY CoreParts, StatesAreSequences DEF StateInv, ChainIsValid
<1>2. CASE task.phase = "crashed"
  BY <1>2 DEF LogOnFork
<1>3. CASE task.phase # "crashed" /\ LogFollowsHead
  <2>1. OnBranch(head, head)
    BY <1>1, OnBranchFacts
  <2> QED
    BY <1>1, <1>3, <2>1 DEF LogFollowsHead, LogIsReplayable
<1>4. ASSUME task.phase # "crashed",
             NEW g \in States, Branch(g) \subseteq Valid, LogIsLeftOver(g)
      PROVE  \E h \in States : Branch(h) \subseteq Valid /\ LogIsReplayable(h)
  <2>1. head # Genesis
    BY <1>4 DEF Unclean, Consistent
  <2>2. Num(head) # 0
    BY <1>1, <2>1, StatesAreSequences
  <2>3. \A n \in Heights : n = 1 => ~Intact(log, n)
    <3>1. SUFFICES ASSUME 1 \in Heights, Intact(log, 1) PROVE FALSE
      OBVIOUS
    <3>2. 1 > Num(head)
      BY <1>4, <3>1 DEF LogIsLeftOver
    <3> QED
      BY <1>1, <2>2, <3>2
  <2>4. LogIsReplayable(g)
    BY <1>4, <2>3 DEF LogIsLeftOver, LogIsReplayable
  <2> QED
    BY <1>4, <2>4
<1> QED
  BY <1>2, <1>3, <1>4 DEF LogOnFork

(* A replay stops at gaps only: a block of the log that can be read and    *)
(* whose predecessors were replayed applies.                               *)
LEMMA ReplayOnlyStopsAtGaps ==
    ASSUME CoreInv, NEW g \in States, Branch(g) \subseteq Valid, AllOn(log, g),
           NEW n \in Heights, Replayable(n - 1), Intact(log, n)
    PROVE  Replayable(n)
<1>1. LogTyped /\ n \in Nat \ {0} /\ Num(g) \in Nat
  BY CoreParts, HeightsFacts, StatesAreSequences DEF StateInv
<1> DEFINE d == log[n].data
<1>2. d \in Blocks /\ d \in States /\ Num(d) = n
  BY <1>1, IntactFacts
<1>3. OnBranch(d, g)
  BY DEF AllOn
<1>4. n <= Num(g) /\ d = Prefix(g, n)
  BY <1>2, <1>3 DEF OnBranch
<1>5. d \in Valid
  <2>1. n \in 0 .. Num(g)
    BY <1>1, <1>4
  <2>2. d \in Branch(g)
    BY <1>1, <1>4, <2>1, PrefixFacts
  <2> QED
    BY <2>2
<1>6. Parent(d) = IF n = 1 THEN Genesis ELSE log[n - 1].data
  <2>1. Parent(d) \in States /\ Num(Parent(d)) = n - 1
    BY <1>2, ParentFacts
  <2>2. CASE n = 1
    BY <2>1, <2>2, StatesAreSequences
  <2>3. CASE n # 1
    <3>1. n - 1 \in 1 .. (n - 1) /\ n - 1 \in Heights
      BY <1>1, <2>3, HeightsFacts
    <3>2. Intact(log, n - 1)
      BY <3>1 DEF Replayable
    <3> DEFINE c == log[n - 1].data
    <3>3. c \in States /\ Num(c) = n - 1 /\ OnBranch(c, g)
      BY <1>1, <3>1, <3>2, IntactFacts DEF AllOn
    <3>4. OnBranch(Parent(d), g)
      <4>1. OnBranch(Parent(d), d)
        BY <1>2, BelowParent
      <4> QED
        BY <1>2, <1>3, <2>1, <4>1, OnBranchFacts
    <3> HIDE DEF c, d
    <3>5. c = Parent(d)
      BY <2>1, <3>3, <3>4 DEF OnBranch
    <3> QED
      BY <2>3, <3>5 DEF c
  <2> QED
    BY <2>2, <2>3
<1>7. \A i \in 1 .. n : i = n \/ i \in 1 .. (n - 1)
  BY <1>1
<1> QED
  BY <1>5, <1>6, <1>7 DEF Replayable

(* What a replay makes of it.                                              *)
LEMMA ReindexLog ==
    ASSUME CoreInv, LogOnFork, reindex
    PROVE  /\ LogOnFork'
           /\ OnBranch(head', head) \/ OnBranch(head, head')
           /\ Newest(log) # None => \A n \in Heights :
                 Replayable(n - 1) /\ Intact(log, n) => Replayable(n)
<1> DEFINE n == IF Newest(log) = None THEN 0 ELSE Replayed
<1>1. LogTyped /\ log \in [Heights -> Entries] /\ head \in States
      /\ Heights \subseteq Nat \ {0}
  BY CoreParts, HeightsFacts DEF StateInv, LogTyped
<1>2. /\ Unclean /\ task' = Idle
      /\ head' = IF n = 0 THEN Genesis ELSE log[n].data
      /\ log' = [k \in Heights |-> IF k > n + 1 /\ Newest(log) # None
                                   THEN [log[k] EXCEPT !.data = None] ELSE log[k]]
      /\ disk' = Flushed(\/ NewestEntry(log) = Torn
                         \/ \E k \in {n + 1} \cap Heights : log[k].data = Torn)
  BY DEF reindex, Replayed
<1>3. PICK g \in States : Branch(g) \subseteq Valid /\ LogIsReplayable(g)
  BY <1>2, UncleanLog
<1>4. AllOn(log, g)
  BY <1>3 DEF LogIsReplayable
<1>5. \A k \in Heights : Replayable(k - 1) /\ Intact(log, k) => Replayable(k)
  BY <1>3, <1>4, ReplayOnlyStopsAtGaps
<1>6. task'.phase = "idle" /\ task'.phase \notin SwitchPhases /\ task'.phase # "crashed"
  BY <1>2 DEF Idle, SwitchPhases
<1>7. disk'.num = 0 /\ disk'.block = None
  BY <1>2 DEF Flushed
<1>8. Genesis \in States /\ Num(Genesis) = 0
  BY StatesAreSequences DEF States
<1>9. CASE Newest(log) = None
  <2>1. head' = Genesis /\ log' = log
    BY <1>1, <1>2, <1>9
  <2>2. OnBranch(head', head)
    BY <1>1, <2>1, OnBranchFacts
  <2>3. CASE NewestEntry(log) = None
    <3>1. \A k \in Heights : ~Intact(log, k)
      BY <1>1, <2>3, NewestFacts DEF Intact
    <3>2. LogFollowsHead'
      BY <1>7, <2>1, <3>1 DEF LogFollowsHead, AllOn
    <3> QED
      BY <1>6, <1>9, <2>2, <3>2 DEF LogOnFork
  <2>4. CASE NewestEntry(log) = Torn
    <3>1. disk'.failed
      BY <1>2, <2>4 DEF Flushed
    <3>2. Torn # None /\ Torn \notin Blocks
      BY BlocksAssumption DEF Torn
    <3>3. PICK t \in Heights : /\ log[t].data = Torn
                               /\ \A u \in Heights : u > t => log[u].data = None
      BY <1>1, <2>4, <3>2, NewestFacts
    <3>4. ASSUME NEW k \in Heights, Intact(log, k)
          PROVE  k > 0 /\ TornBehind(log, k)
      <4>1. log[k].data \in Blocks /\ log[k].data # None
        BY <1>1, <3>4, IntactFacts DEF Intact
      <4>2. k \in Nat \ {0} /\ t \in Nat /\ k # t /\ ~(k > t)
        BY <1>1, <3>2, <3>3, <4>1
      <4>3. t > k /\ k > 0
        BY <4>2
      <4> QED
        BY <3>3, <4>3 DEF TornBehind
    <3>5. LogIsLeftOver(g)'
      BY <1>4, <1>6, <1>7, <1>8, <2>1, <3>1, <3>4 DEF LogIsLeftOver, AllOn
    <3> QED
      BY <1>3, <1>6, <1>9, <2>2, <3>5 DEF LogOnFork
  <2> QED
    BY <1>9, <2>3, <2>4 DEF Newest
<1>10. CASE Newest(log) # None
  <2>1. n = Replayed
    BY <1>10
  <2> HIDE DEF n
  <2>2. n \in {0} \cup Heights /\ Replayable(n)
        /\ \A k \in {0} \cup Heights : Replayable(k) => k <= n
    BY <2>1, ReplayedFacts
  <2>3. n \in Nat
    <3>1. n = 0 \/ n \in Heights
      BY <2>2
    <3>2. \A k \in Heights : k \in Nat
      BY <1>1
    <3> QED
      BY <3>1, <3>2
  <2>4. n # 0 => /\ n \in Heights /\ Intact(log, n) /\ Intact(log, 1) /\ 1 \in Heights
                 /\ head' = log[n].data /\ head' \in Blocks
                 /\ head' \in States /\ Num(head') = n /\ OnBranch(head', g)
    <3>1. SUFFICES ASSUME n # 0
                   PROVE  /\ n \in Heights /\ Intact(log, n) /\ Intact(log, 1) /\ 1 \in Heights
                          /\ head' = log[n].data /\ head' \in Blocks
                          /\ head' \in States /\ Num(head') = n /\ OnBranch(head', g)
      OBVIOUS
    <3>2. n \in Heights /\ n \in 1 .. n /\ 1 \in 1 .. n
      BY <2>2, <2>3, <3>1
    <3>3. Intact(log, n) /\ Intact(log, 1) /\ 1 \in Heights
      BY <2>2, <3>2, HeightsFacts DEF Replayable
    <3>4. head' = log[n].data
      BY <1>2, <3>1
    <3> QED
      BY <1>1, <1>4, <3>2, <3>3, <3>4, IntactFacts DEF AllOn
  <2>5. n = 0 => head' = Genesis
    BY <1>2
  <2>6. \A k \in Heights : Intact(log', k) =>
           k <= n /\ Intact(log, k) /\ log'[k] = log[k]
    <3>1. SUFFICES ASSUME NEW k \in Heights, Intact(log', k)
                   PROVE  k <= n /\ Intact(log, k) /\ log'[k] = log[k]
      OBVIOUS
    <3>2. k \in Nat \ {0} /\ log[k] \in Entries
      BY <1>1
    <3>3. CASE k > n + 1
      <4>1. log'[k] = [log[k] EXCEPT !.data = None]
        BY <1>2, <1>10, <3>3
      <4>2. log'[k].data = None
        BY <3>2, <4>1 DEF Entries
      <4> QED
        BY <3>1, <4>2 DEF Intact
    <3>4. CASE ~(k > n + 1)
      <4>1. log'[k] = log[k] /\ Intact(log, k)
        BY <1>2, <3>1, <3>4 DEF Intact
      <4>2. k # n + 1
        <5>1. SUFFICES ASSUME k = n + 1 PROVE FALSE
          OBVIOUS
        <5>2. k - 1 = n
          BY <2>3, <5>1
        <5>3. Replayable(k)
          BY <1>5, <2>2, <4>1, <5>2
        <5> QED
          BY <2>2, <2>3, <5>1, <5>3
      <4> QED
        BY <2>3, <3>2, <3>4, <4>1, <4>2
    <3> QED
      BY <3>3, <3>4
  <2>7. AllOn(log', head')
    <3>1. SUFFICES ASSUME NEW k \in Heights, Intact(log', k)
                   PROVE  OnBranch(log'[k].data, head')
      BY DEF AllOn
    <3>2. k <= n /\ Intact(log, k) /\ log'[k] = log[k] /\ k \in Nat \ {0}
      BY <1>1, <2>6, <3>1
    <3>3. n # 0
      BY <2>3, <3>2
    <3>4. log[k].data \in States /\ Num(log[k].data) = k /\ OnBranch(log[k].data, g)
      BY <1>1, <1>4, <3>2, IntactFacts DEF AllOn
    <3> QED
      BY <2>4, <3>2, <3>3, <3>4, OnBranchFacts
  <2>8. LogFollowsHead'
    BY <1>7, <2>7 DEF LogFollowsHead
  <2>9. OnBranch(head', head) \/ OnBranch(head, head')
    <3>1. CASE n = 0
      BY <1>1, <2>5, <3>1, OnBranchFacts
    <3>2. CASE n # 0
      <4>1. \/ OnBranch(g, head)
            \/ g # Genesis /\ Parent(g) = head
            \/ head = Genesis
        BY <1>3, <1>10, <2>4, <3>2 DEF LogIsReplayable
      <4>2. CASE OnBranch(g, head)
        BY <1>1, <2>4, <3>2, <4>2, OnBranchFacts
      <4>3. CASE g # Genesis /\ Parent(g) = head
        <5>1. g \in Blocks
          BY <4>3 DEF States
        <5>2. OnBranch(head, g) /\ (head' # g => OnBranch(head', head))
          BY <2>4, <3>2, <4>3, <5>1, BelowParent
        <5> QED
          BY <5>2
      <4>4. CASE head = Genesis
        BY <2>4, <3>2, <4>4, OnBranchFacts
      <4> QED
        BY <4>1, <4>2, <4>3, <4>4
    <3> QED
      BY <3>1, <3>2
  <2> QED
    BY <1>5, <1>6, <2>8, <2>9 DEF LogOnFork
<1> QED
  BY <1>9, <1>10

(* The loops of a switch.                                                  *)
LEMMA SwitchingLog ==
    ASSUME CoreInv, LogOnFork, Switching
    PROVE  LogOnFork'
<1>1. StateInv /\ ForkTyped(fork_db) /\ TaskTyped
  BY CoreParts
<1>2. CASE switch_pop \/ restore_pop
  <2>1. PICK next \in {"apply", "restore"} : PopTo(next) /\ task.phase \in {"pop", "unwind"}
    BY <1>2 DEF switch_pop, restore_pop
  <2>2. CanPop /\ Reverted /\ head \in Blocks
    BY <1>1, <2>1, KnownHeadIsBlock DEF PopTo, pop_block
  <2>3. task.phase \in SwitchPhases /\ next \in SwitchPhases /\ task.phase # "crashed"
    BY <2>1 DEF SwitchPhases
  <2>4. TaskGoesOn
    <3>1. [task EXCEPT !.phase = next].phase = next
          /\ [task EXCEPT !.phase = next].origin = task.origin
      BY <1>1, <2>3, SwitchTaskFacts
    <3> QED
      BY <2>1, <2>3, <3>1 DEF PopTo, TaskGoesOn, Idle, SwitchPhases
  <2> QED
    BY <2>2, <2>4, RevertedLog
<1>3. CASE switch_apply
  <2> DEFINE b == Prefix(task.target, Num(head) + 1)
  <2>1. task.phase = "apply" /\ task.phase \in SwitchPhases
    BY <1>3 DEF switch_apply, SwitchPhases
  <2>2. CASE /\ Applies(b)
             /\ Applied(b, fork_db, b)
             /\ task' = IF b = task.target THEN Idle ELSE task
    <3> HIDE DEF b
    <3>1. b \in Blocks /\ Parent(b) = head
      BY <2>2, BlocksAssumption DEF Applies
    <3>2. TaskGoesOn
      BY <2>1, <2>2 DEF TaskGoesOn, Idle, SwitchPhases
    <3> QED
      BY <2>2, <3>1, <3>2, AppliedLog
  <2>3. CASE /\ task' = [task EXCEPT !.phase = IF head = Point THEN "restore" ELSE "unwind"]
             /\ UNCHANGED <<head, max_size, log, disk>>
    <3> DEFINE p == IF head = Point THEN "restore" ELSE "unwind"
    <3>1. p \in SwitchPhases /\ p # "crashed"
      BY DEF SwitchPhases
    <3>2. task'.phase = p /\ task'.origin = task.origin
      <4> HIDE DEF p
      <4> QED
        BY <1>1, <2>1, <2>3, <3>1, SwitchTaskFacts DEF p
    <3> QED
      BY <2>1, <2>3, <3>1, <3>2, SameLog
  <2> QED
    BY <1>3, <2>2, <2>3 DEF switch_apply
<1>4. CASE restore_apply
  <2> DEFINE b == Prefix(task.origin, Num(head) + 1)
  <2>1. task.phase = "restore" /\ task.phase \in SwitchPhases
    BY <1>4 DEF restore_apply, SwitchPhases
  <2>2. b \in Blocks /\ Parent(b) = head /\ Num(b) <= Num(task.origin)
    BY <2>1, RestoredBlock
  <2>3. task.new \in Blocks
    BY <1>1, <2>1, SwitchTaskFacts DEF SwitchTasks
  <2>4. Applied(b, fork_db, task.new) /\ task' = IF b = task.origin THEN Idle ELSE task
    BY <1>4 DEF restore_apply
  <2> HIDE DEF b
  <2>5. TaskGoesOn
    BY <2>1, <2>4 DEF TaskGoesOn, Idle, SwitchPhases
  <2> QED
    BY <2>1, <2>2, <2>3, <2>4, <2>5, AppliedLog
<1>5. CASE pop_throws
  <2>1. task.phase # "crashed" /\ task'.phase = "idle"
    BY <1>5 DEF pop_throws, Idle
  <2> QED
    BY <1>5, <2>1, SameLog DEF pop_throws, SwitchPhases
<1> QED
  BY <1>2, <1>3, <1>4, <1>5 DEF Switching

(* The other calls of a node that runs.                                    *)
LEMMA RunningLog ==
    ASSUME CoreInv, LogOnFork, Running
    PROVE  LogOnFork'
<1>1. ASSUME NEW b \in Blocks, push_block(b)
      PROVE  LogOnFork'
  <2> DEFINE f == Linked(fork_db, b, max_size)
  <2>1. task.phase = "idle"
    BY <1>1 DEF push_block, Idle
  <2>2. \/ Applies(b) /\ Applied(b, f, b) /\ UNCHANGED task
        \/ UNCHANGED <<head, log, disk, task>>
        \/ task'.phase = "pop" /\ task'.origin = head /\ UNCHANGED <<head, log, disk>>
    BY <1>1 DEF push_block
  <2>3. CASE Applies(b) /\ Applied(b, f, b) /\ UNCHANGED task
    <3>1. TaskGoesOn
      BY <2>1, <2>3 DEF TaskGoesOn, SwitchPhases
    <3> HIDE DEF f
    <3> QED
      BY <2>3, <3>1, AppliedLog DEF Applies
  <2>4. CASE UNCHANGED <<head, log, disk, task>>
    BY <2>1, <2>4, SameLog DEF SwitchPhases
  <2>5. CASE task'.phase = "pop" /\ task'.origin = head /\ UNCHANGED <<head, log, disk>>
    BY <2>1, <2>5, SameLog
  <2> QED
    BY <2>2, <2>3, <2>4, <2>5
<1>2. ASSUME NEW k \in Nested, push_transaction(k)
      PROVE  LogOnFork'
  <2>1. task.phase = "idle" /\ UNCHANGED <<head, log, disk, task>>
    BY <1>2 DEF push_transaction, Idle
  <2> QED
    BY <2>1, SameLog DEF SwitchPhases
<1> QED
  BY <1>1, <1>2, SwitchingLog DEF Running

(* Shutdown, kill, start and replay.                                       *)
LEMMA RestartingLog ==
    ASSUME CoreInv, LogOnFork, Restarting
    PROVE  LogOnFork'
<1>1. CASE close
  <2>1. task.phase = "idle" /\ task'.phase = "close" /\ UNCHANGED <<head, log, disk>>
    BY <1>1 DEF close, Idle
  <2> QED
    BY <2>1, SameLog DEF SwitchPhases
<1>2. CASE close_pop
  <2>1. head \in Blocks
    BY <1>2, CoreParts, KnownHeadIsBlock DEF close_pop
  <2>2. task \in [phase : {"close", "closed"}, cutoff : Nat]
    BY <1>2, CoreParts DEF close_pop, TaskTyped, Idle, SwitchTasks, SwitchPhases
  <2>3. TaskGoesOn
    BY <1>2, <2>2 DEF close_pop, TaskGoesOn, SwitchPhases
  <2> QED
    BY <1>2, <2>1, <2>3, RevertedLog DEF close_pop
<1> QED
  BY <1>1, <1>2, CrashLog, OpenLog, ReindexLog DEF Restarting

(* Every step preserves both parts of the invariant.                       *)
LEMMA IndInvNext ==
    ASSUME CoreInv, LogOnFork, [Running \/ Restarting]_vars
    PROVE  CoreInv' /\ LogOnFork'
<1>1. CoreInv'
  BY CoreNext
<1>2. CASE UNCHANGED vars
  <2>1. LogOnFork'
    BY <1>2 DEF vars, LogOnFork, LogFollowsHead, LogIsLeftOver, LogIsReplayable, AllOn
  <2> QED
    BY <1>1, <2>1
<1> QED
  BY <1>1, <1>2, RunningLog, RestartingLog

(* Between kills what can be read of the log is on the branch of the state,*)
(* or it is left over from before a start that found no last block.        *)
THEOREM LogInvariance == Spec => [](CoreInv /\ LogOnFork)
<1>1. Init => CoreInv /\ LogOnFork
  <2> SUFFICES ASSUME Init PROVE CoreInv /\ LogOnFork
    OBVIOUS
  <2>1. task.phase = "idle" /\ disk.num = 0 /\ \A n \in Heights : log[n].data = None
    BY DEF Init, Idle, Flushed, Unwritten
  <2>2. LogFollowsHead
    BY <2>1 DEF LogFollowsHead, AllOn, Intact
  <2> QED
    BY <2>1, <2>2, CoreInit DEF LogOnFork
<1>2. (CoreInv /\ LogOnFork) /\ [Running \/ Restarting]_vars => (CoreInv /\ LogOnFork)'
  BY IndInvNext
<1> QED
  BY <1>1, <1>2, PTL DEF Spec

(* A shutdown or a kill at any point and the next start never take the     *)
(* node to another fork, and a replay meets no stored block that does not  *)
(* apply (database::close, open and reindex, block_database::store).       *)
THEOREM RestartsStay == Spec => RestartStaysOnFork
<1> DEFINE Stays == (Closed \/ Unclean) /\ task' = Idle =>
                       /\ OnBranch(head', head) \/ OnBranch(head, head')
                       /\ Unclean /\ Newest(log) # None => \A n \in Heights :
                             Replayable(n - 1) /\ Intact(log, n) => Replayable(n)
<1>1. (CoreInv /\ LogOnFork) /\ [Running \/ Restarting]_vars => [Stays]_vars
  <2> SUFFICES ASSUME CoreInv, LogOnFork, Running \/ Restarting,
                      Closed \/ Unclean, task' = Idle
               PROVE  Stays
    OBVIOUS
  <2>1. task.phase \in {"close", "closed", "crashed"} /\ task'.phase = "idle"
    BY DEF Closed, Unclean, Idle
  <2>2. ~Running
    BY <2>1 DEF Running, Switching, push_block, push_transaction, switch_pop, switch_apply,
                restore_pop, restore_apply, pop_throws, Idle
  <2>3. CASE open
    <3>1. head' = head /\ head \in States
      BY <2>3, CoreParts DEF open, StateInv
    <3>2. ~Unclean
      BY <2>3 DEF open, Unclean, Closed
    <3> QED
      BY <3>1, <3>2, OnBranchFacts
  <2>4. CASE reindex
    BY <2>4, ReindexLog
  <2>5. ~close
    BY <2>1 DEF close, Idle
  <2>6. ~crash
    <3>1. crash => task'.phase = "crashed"
      BY DEF crash
    <3> QED
      BY <2>1, <3>1
  <2>7. ~close_pop
    <3>1. SUFFICES ASSUME close_pop PROVE FALSE
      OBVIOUS
    <3>2. task \in [phase : {"close", "closed"}, cutoff : Nat]
      BY <3>1, CoreParts DEF close_pop, TaskTyped, Idle, SwitchTasks, SwitchPhases
    <3> QED
      BY <2>1, <3>1, <3>2 DEF close_pop
  <2> QED
    BY <2>2, <2>3, <2>4, <2>5, <2>6, <2>7 DEF Restarting
<1>2. Spec => [](CoreInv /\ LogOnFork)
  BY LogInvariance
<1> QED
  BY <1>1, <1>2, PTL DEF Spec, RestartStaysOnFork
-----------------------------------------------------------------------------
(***************************************************************************)
(* A node from its first start to its first shutdown, while its undo       *)
(* history lasts: pop_block finds the level of the block it pops.  The     *)
(* sizes of the histories do not promise that (blocks signed on two forks, *)
(* levels dropped for pending transactions).                               *)
(***************************************************************************)
HistoryReaches ==
    task.phase \in {"pop", "unwind"} => saved # <<>> /\ saved[Len(saved)] # head

(* Every applied block is in the log, under its own number and id.         *)
LogHolds ==
    /\ disk.failed = FALSE
    /\ \A n \in 1 .. Num(head) : log[n] = [id |-> Prefix(head, n), data |-> Prefix(head, n)]

(* A block on top of the state is stored behind the others.                *)
LEMMA AppliedHolds ==
    ASSUME CoreInv, LogHolds, NEW b \in Blocks, Parent(b) = head, NEW f, Applied(b, f, b)
    PROVE  LogHolds'
<1>1. PICK m \in Nat \ {0} : m = Num(b) /\ Num(head) = m - 1 /\ m \in Heights
  BY ParentFacts, HeightsFacts
<1>2. /\ \A n \in 0 .. m - 1 : Prefix(head, n) = Prefix(b, n)
      /\ Prefix(b, m) = b
  <2>1. b \in States /\ Num(b) \in 0 .. Num(b)
    BY ParentFacts
  <2> QED
    BY <1>1, <2>1, ParentFacts, PrefixFacts
<1>3. disk.failed = FALSE /\ disk \in [num : {0} \cup Heights, old : Entries,
                                      block : Blocks \cup {None}, failed : BOOLEAN]
      /\ log \in [Heights -> Entries]
  BY CoreParts DEF LogHolds, StateInv, LogTyped
<1>4. disk'.failed = FALSE
  BY <1>3 DEF Applied
<1>5. log' = [log EXCEPT ![m] = [id |-> b, data |-> b]]
  BY <1>1, <1>3 DEF Applied, Stored
<1>6. head' = b
  BY DEF Applied
<1>7. ASSUME NEW n \in 1 .. m PROVE log'[n] = [id |-> Prefix(b, n), data |-> Prefix(b, n)]
  <2>1. n \in Heights /\ (n # m => n \in 0 .. m - 1 /\ n \in 1 .. Num(head))
    BY <1>1, HeightsFacts
  <2>2. CASE n = m
    BY <1>1, <1>2, <1>3, <1>5, <2>2
  <2>3. CASE n # m
    <3>1. log'[n] = log[n]
      BY <1>3, <1>5, <2>1, <2>3
    <3>2. log[n] = [id |-> Prefix(head, n), data |-> Prefix(head, n)]
      BY <2>1, <2>3 DEF LogHolds
    <3> QED
      BY <1>2, <2>1, <2>3, <3>1, <3>2
  <2> QED
    BY <2>2, <2>3
<1> QED
  BY <1>1, <1>4, <1>6, <1>7 DEF LogHolds

(* A block that is popped is taken out, and the others stay.               *)
LEMMA RevertedHolds ==
    ASSUME CoreInv, LogHolds, head \in Blocks, Reverted, head' = Parent(head)
    PROVE  LogHolds'
<1>1. PICK m \in Nat \ {0} : m = Num(head) /\ Num(Parent(head)) = m - 1 /\ m \in Heights
  BY ParentFacts, HeightsFacts
<1>2. \A n \in 0 .. m - 1 : Prefix(Parent(head), n) = Prefix(head, n)
  BY <1>1, ParentFacts
<1>3. disk.failed = FALSE /\ disk \in [num : {0} \cup Heights, old : Entries,
                                      block : Blocks \cup {None}, failed : BOOLEAN]
      /\ log \in [Heights -> Entries]
  BY CoreParts DEF LogHolds, StateInv, LogTyped
<1>4. disk'.failed = FALSE
  BY <1>3 DEF Reverted
<1>5. \A n \in Heights : n # m => log'[n] = log[n]
  BY <1>1, <1>3 DEF Reverted, Removed
<1>6. ASSUME NEW n \in 1 .. m - 1
      PROVE  log'[n] = [id |-> Prefix(Parent(head), n), data |-> Prefix(Parent(head), n)]
  <2>1. n \in Heights /\ n # m /\ n \in 0 .. m - 1 /\ n \in 1 .. m
    BY <1>1, HeightsFacts
  <2>2. log[n] = [id |-> Prefix(head, n), data |-> Prefix(head, n)]
    BY <1>1, <2>1 DEF LogHolds
  <2> QED
    BY <1>2, <1>5, <2>1, <2>2
<1> QED
  BY <1>1, <1>4, <1>6 DEF LogHolds

(* pop_block goes back to the parent.                                      *)
LEMMA PopsParent ==
    ASSUME CoreInv, HistoryReaches, task.phase \in {"pop", "unwind"}, NEW next, PopTo(next)
    PROVE  /\ head \in Blocks /\ Reverted /\ head' = Parent(head)
           /\ task' = IF head' = Point THEN [task EXCEPT !.phase = next] ELSE task
<1>1. StateInv /\ ForkTyped(fork_db)
  BY CoreParts
<1>2. CanPop /\ Reverted
  BY DEF PopTo, pop_block
<1>3. head \in Blocks
  BY <1>1, <1>2, KnownHeadIsBlock
<1>4. saved # <<>> /\ saved[Len(saved)] # head
  BY DEF HistoryReaches
<1>5. saved[Len(saved)] = Parent(head)
  <2>1. saved \in Seq(States) /\ head \in States /\ Leads(saved, head)
    BY <1>1 DEF StateInv, LevelsLeadBack, Leads
  <2> QED
    BY <1>4, <2>1, PoppedLeads
<1>6. head' = saved[Len(saved)]
  BY <1>2, <1>4 DEF Reverted
<1>7. task' = IF head' = Point THEN [task EXCEPT !.phase = next] ELSE task
  BY <1>4 DEF PopTo
<1> QED
  BY <1>2, <1>3, <1>5, <1>6, <1>7

(* Every step keeps them there, unless it restores the old fork.           *)
LEMMA RunningHolds ==
    ASSUME CoreInv, LogHolds, HistoryReaches, task.phase # "restore", [Running]_vars
    PROVE  LogHolds'
<1>1. ASSUME NEW b \in Blocks, push_block(b) PROVE LogHolds'
  <2> DEFINE f == Linked(fork_db, b, max_size)
  <2>1. \/ Applies(b) /\ Applied(b, f, b)
        \/ UNCHANGED <<head, log, disk>>
    BY <1>1 DEF push_block
  <2>2. CASE Applies(b) /\ Applied(b, f, b)
    BY <2>2, AppliedHolds DEF Applies
  <2>3. CASE UNCHANGED <<head, log, disk>>
    BY <2>3 DEF LogHolds
  <2> QED
    BY <2>1, <2>2, <2>3
<1>2. ASSUME NEW k \in Nested, push_transaction(k) PROVE LogHolds'
  BY <1>2 DEF push_transaction, LogHolds
<1>3. CASE switch_pop \/ restore_pop
  <2>1. PICK next : PopTo(next) /\ task.phase \in {"pop", "unwind"}
    BY <1>3 DEF switch_pop, restore_pop
  <2> QED
    BY <2>1, PopsParent, RevertedHolds
<1>4. CASE switch_apply
  <2> DEFINE b == Prefix(task.target, Num(head) + 1)
  <2>1. \/ Applies(b) /\ Applied(b, fork_db, b)
        \/ UNCHANGED <<head, log, disk>>
    BY <1>4 DEF switch_apply
  <2> HIDE DEF b
  <2>2. CASE Applies(b) /\ Applied(b, fork_db, b)
    <3>1. b \in Blocks /\ Parent(b) = head
      BY <2>2, BlocksAssumption DEF Applies
    <3> QED
      BY <2>2, <3>1, AppliedHolds
  <2>3. CASE UNCHANGED <<head, log, disk>>
    BY <2>3 DEF LogHolds
  <2> QED
    BY <2>1, <2>2, <2>3
<1>5. CASE pop_throws
  BY <1>5 DEF pop_throws, LogHolds
<1>6. CASE UNCHANGED vars
  BY <1>6 DEF vars, LogHolds
<1>7. ~restore_apply
  BY DEF restore_apply
<1> QED
  BY <1>1, <1>2, <1>3, <1>4, <1>5, <1>6, <1>7 DEF Running, Switching

(* As long as no switch of forks fails and the undo history lasts, the     *)
(* block log holds all of the applied chain between two calls, each block  *)
(* under its own number and id, whatever forks there are, however often    *)
(* the node switches between them and whatever invalid blocks arrive       *)
(* (block_database::store and remove in push_block and pop_block).         *)
THEOREM BlockLogHolds ==
    RunningSpec /\ []HistoryReaches /\ [](task.phase # "restore") => []BlockLogMatches
<1>1. Init => CoreInv /\ LogHolds
  <2> SUFFICES ASSUME Init PROVE LogHolds
    BY CoreInit
  <2>1. disk.failed = FALSE /\ Num(head) = 0
    BY DEF Init, Flushed, Num, Genesis
  <2> QED
    BY <2>1 DEF LogHolds
<1>2. CoreInv /\ LogHolds /\ HistoryReaches /\ task.phase # "restore" /\ [Running]_vars
         => CoreInv' /\ LogHolds'
  <2> SUFFICES ASSUME CoreInv, LogHolds, HistoryReaches, task.phase # "restore", [Running]_vars
               PROVE  CoreInv' /\ LogHolds'
    OBVIOUS
  <2>1. [Running \/ Restarting]_vars
    OBVIOUS
  <2> QED
    BY <2>1, CoreNext, RunningHolds
<1>3. CoreInv /\ LogHolds => BlockLogMatches
  <2> SUFFICES ASSUME CoreInv, LogHolds, NEW n \in 1 .. Num(head)
               PROVE  Intact(log, n) /\ log[n].data = Prefix(head, n)
    BY DEF BlockLogMatches
  <2>1. log[n] = [id |-> Prefix(head, n), data |-> Prefix(head, n)]
    BY DEF LogHolds
  <2>2. Prefix(head, n) # None
    <3>1. head \in States /\ Num(head) \in Nat
      BY CoreParts, StatesAreSequences DEF StateInv
    <3>2. n \in 0 .. Num(head) /\ n # 0
      BY <3>1
    <3>3. Prefix(head, n) \in Blocks
      BY <3>1, <3>2, PrefixFacts
    <3> QED
      BY <3>3, BlocksAssumption
  <2> QED
    BY <2>1, <2>2 DEF Intact
<1> QED
  BY <1>1, <1>2, <1>3, PTL DEF RunningSpec
-----------------------------------------------------------------------------
(***************************************************************************)
(* Switches of forks.  An item of the index that is not dead has its       *)
(* previous item in the index too.                                         *)
(***************************************************************************)
LinkedDown(f) == \A b \in f.index \ f.dead : Parent(b) \in f.index

(* Items that are erased leave dead ones behind.                           *)
LEMMA ErasedLinks ==
    ASSUME NEW f, ForkTyped(f), LinkedDown(f), NEW gone
    PROVE  LinkedDown(Erased(f, gone))
<1> DEFINE d == (f.dead \cup {b \in f.index : Parent(b) \in gone}) \ gone
           c == f.cut \/ (f.head # None /\ Parent(f.head) \in gone)
<1>1. Erased(f, gone) = [index |-> f.index \ gone, dead |-> d, head |-> f.head, cut |-> c]
  <2>1. Erased(f, gone) = [f EXCEPT !.index = f.index \ gone, !.dead = d, !.cut = c]
    BY DEF Erased
  <2> HIDE DEF d, c
  <2> QED
    BY <2>1 DEF ForkTyped
<1>2. Erased(f, gone).index = f.index \ gone /\ Erased(f, gone).dead = d
  <2> HIDE DEF d, c
  <2> QED
    BY <1>1
<1> QED
  BY <1>2 DEF LinkedDown

(* Cutting to size erases items.                                           *)
LEMMA ResizedLinks ==
    ASSUME NEW f, ForkTyped(f), LinkedDown(f), NEW max
    PROVE  LinkedDown(Resized(f, max))
BY ErasedLinks DEF Resized

(* A block that is linked has its parent in the index, or is dead.         *)
LEMMA LinkedLinks ==
    ASSUME NEW f, ForkTyped(f), LinkedDown(f), NEW b \in Blocks, NEW max, ~Refused(f, b, max)
    PROVE  LinkedDown(Linked(f, b, max))
<1> DEFINE loose == f.head = None \/ Parent(b) = Genesis
           dead  == IF loose /\ b \notin f.index THEN f.dead \cup {b} ELSE f.dead
           top   == IF Higher(f, b) THEN b ELSE f.head
           cut   == IF Higher(f, b) THEN loose ELSE f.cut
           added == [f EXCEPT !.index = @ \cup {b},
                              !.dead  = IF loose /\ b \notin f.index
                                        THEN @ \cup {b} ELSE @,
                              !.head  = IF Higher(f, b) THEN b ELSE @,
                              !.cut   = IF Higher(f, b) THEN loose ELSE @]
<1>1. added = [index |-> f.index \cup {b}, dead |-> dead, head |-> top, cut |-> cut]
  <2>1. added = [f EXCEPT !.index = f.index \cup {b}, !.dead = dead, !.head = top, !.cut = cut]
    OBVIOUS
  <2> HIDE DEF added, dead, top, cut
  <2> QED
    BY <2>1 DEF ForkTyped
<1>2. f.index \cup {b} \subseteq Blocks /\ dead \subseteq f.index \cup {b}
  BY DEF ForkTyped
<1>3. b # None /\ b \in Blocks
  BY BlocksAssumption
<1>4. cut \in BOOLEAN /\ top \in Blocks
  BY <1>3 DEF ForkTyped, Higher
<1>5. cut \/ (top # None /\ Parent(top) # Genesis)
  BY <1>3 DEF ForkTyped
<1>6. ForkTyped(added)
  <2> HIDE DEF added, dead, top, cut
  <2> QED
    BY <1>1, <1>2, <1>4, <1>5 DEF ForkTyped
<1>7. LinkedDown(added)
  <2>1. added.index = f.index \cup {b} /\ added.dead = dead
    <3> HIDE DEF added, dead, top, cut
    <3> QED
      BY <1>1
  <2>2. ~loose => Parent(b) \in f.index
    BY DEF Refused
  <2> QED
    BY <2>1, <2>2 DEF LinkedDown
<1>8. Linked(f, b, max) = IF f.head # None /\ Higher(f, b)
                          THEN Erased(added, OlderThan(added, Num(b) - max)) ELSE added
  BY DEF Linked
<1> HIDE DEF added
<1> QED
  BY <1>6, <1>7, <1>8, ErasedLinks

(* Moving the head leaves the items alone.                                 *)
LEMMA HeadSetLinks ==
    ASSUME NEW f, ForkTyped(f), NEW b
    PROVE  /\ HeadSet(f, b).index = f.index /\ HeadSet(f, b).dead = f.dead
           /\ HeadSet(f, b).head = b
           /\ HeadSet(f, b).cut = (b \in f.dead \/ Parent(b) = Genesis)
           /\ LinkedDown(f) => LinkedDown(HeadSet(f, b))
<1> DEFINE c == b \in f.dead \/ Parent(b) = Genesis
<1>1. HeadSet(f, b) = [index |-> f.index, dead |-> f.dead, head |-> b, cut |-> c]
  <2>1. HeadSet(f, b) = [f EXCEPT !.head = b, !.cut = c]
    BY DEF HeadSet
  <2> HIDE DEF c
  <2> QED
    BY <2>1 DEF ForkTyped
<1>2. /\ HeadSet(f, b).index = f.index /\ HeadSet(f, b).dead = f.dead
      /\ HeadSet(f, b).head = b /\ HeadSet(f, b).cut = c
  <2> HIDE DEF c
  <2> QED
    BY <1>1
<1> QED
  BY <1>2 DEF LinkedDown

(* fetch_branch_from finds every block down to the fork point.             *)
LEMMA TracedHeld ==
    ASSUME NEW f, ForkTyped(f), LinkedDown(f), NEW b \in Blocks, NEW n \in Nat, Traced(f, b, n),
           NEW k \in n + 1 .. Num(b)
    PROVE  Prefix(b, k) \in f.index
<1>1. Num(b) \in Nat \ {0} /\ b \in States
  BY ParentFacts
<1> DEFINE Bad == {i \in n + 1 .. Num(b) : Prefix(b, i) \notin f.index}
<1>2. SUFFICES ASSUME Bad # {} PROVE FALSE
  OBVIOUS
<1>3. Bad \in SUBSET Nat /\ \A i \in Bad : i <= Num(b)
  BY <1>1
<1>4. PICK m \in Bad : \A i \in Bad : i <= m
  <2> HIDE DEF Bad
  <2>1. Max(Bad) \in Bad /\ \A i \in Bad : i <= Max(Bad)
    BY <1>1, <1>2, <1>3, MaxOfBounded
  <2> QED
    BY <2>1
<1>5. m \in Nat /\ m >= n + 1 /\ m <= Num(b) /\ Prefix(b, m) \notin f.index
  BY <1>1
<1>6. m # Num(b)
  <2>1. Num(b) \in 0 .. Num(b)
    BY <1>1
  <2>2. Prefix(b, Num(b)) = b
    BY <1>1, <2>1, PrefixFacts
  <2> QED
    BY <1>5, <2>2 DEF Traced
<1>7. m + 1 \in n + 2 .. Num(b) /\ m + 1 \in n + 1 .. Num(b) /\ m + 1 \in 0 .. Num(b)
      /\ m \in 0 .. m + 1 /\ m + 1 # 0 /\ ~(m + 1 <= m) /\ m + 1 - 1 = m
  BY <1>1, <1>5, <1>6
<1>8. Prefix(b, m + 1) \in f.index
  BY <1>4, <1>7
<1>9. Prefix(b, m + 1) \notin f.dead
  BY <1>7 DEF Traced
<1>10. Parent(Prefix(b, m + 1)) \in f.index
  BY <1>8, <1>9 DEF LinkedDown
<1>11. Parent(Prefix(b, m + 1)) = Prefix(b, m)
  <2>1. Num(Prefix(b, m + 1)) = m + 1 /\ Prefix(Prefix(b, m + 1), m) = Prefix(b, m)
    BY <1>1, <1>7, PrefixFacts
  <2> QED
    BY <1>7, <2>1 DEF Parent
<1> QED
  BY <1>5, <1>10, <1>11

(* One step down a branch.                                                 *)
LEMMA StepDown ==
    ASSUME NEW b \in States, NEW k \in 1 .. Num(b)
    PROVE  Parent(Prefix(b, k)) = Prefix(b, k - 1)
<1>1. Num(b) \in Nat
  BY StatesAreSequences
<1>2. k \in 0 .. Num(b) /\ k - 1 \in 0 .. k
  BY <1>1
<1>3. Num(Prefix(b, k)) = k /\ Prefix(Prefix(b, k), k - 1) = Prefix(b, k - 1)
  BY <1>2, PrefixFacts
<1> QED
  BY <1>3 DEF Parent

(* Where a switch is: on the old fork and above the fork point while it    *)
(* pops, on the new one while it applies and unwinds, on the old one again *)
(* while it restores.                                                      *)
OnTheWay ==
    /\ task.phase \in SwitchPhases =>
          /\ task.point < Num(task.target)
          /\ Prefix(task.origin, task.point) = Prefix(task.target, task.point)
    /\ task.phase = "pop" => OnBranch(head, task.origin) /\ Num(head) > task.point
    /\ task.phase = "apply" =>
          OnBranch(head, task.target) /\ Num(head) < Num(task.target) /\ Num(head) >= task.point
    /\ task.phase = "unwind" => OnBranch(head, task.target) /\ Num(head) > task.point
    /\ task.phase = "restore" => OnBranch(head, task.origin)

(* The fork database while blocks are popped: it has both branches, and    *)
(* its head goes down the new one as the state goes down the old one.      *)
ForkFollows ==
    task.phase = "pop" =>
       /\ Num(task.target) > Num(task.origin)
       /\ Traced(fork_db, task.origin, task.point)
       /\ Traced(fork_db, task.target, task.point)
       /\ fork_db.head = Prefix(task.target, Num(task.target) - (Num(task.origin) - Num(head)))
       /\ head # task.origin => fork_db.cut = FALSE

SwitchInv == LinkedDown(fork_db) /\ OnTheWay /\ ForkFollows

(* What is known of the task of a switch.                                  *)
LEMMA SwitchFacts ==
    ASSUME CoreInv, task.phase \in SwitchPhases
    PROVE  /\ task \in SwitchTasks /\ task.origin \in Blocks /\ task.target \in Blocks
           /\ task.point \in Nat /\ task.point < Num(task.origin)
           /\ task.origin \in States /\ task.target \in States
           /\ Num(task.origin) \in Nat /\ Num(task.target) \in Nat
           /\ head \in States /\ Num(head) \in Nat
           /\ \A p \in SwitchPhases :
                 /\ [task EXCEPT !.phase = p].phase = p
                 /\ [task EXCEPT !.phase = p].origin = task.origin
                 /\ [task EXCEPT !.phase = p].target = task.target
                 /\ [task EXCEPT !.phase = p].point = task.point
<1>1. TaskTyped /\ head \in States
  BY CoreParts DEF StateInv
<1>2. task \in SwitchTasks
  BY <1>1, SwitchTaskFacts
<1>3. task.origin \in Blocks /\ task.target \in Blocks /\ task.point \in Nat
  BY <1>2 DEF SwitchTasks
<1>4. task.point < Num(task.origin)
  BY <1>1 DEF TaskTyped
<1>5. /\ task.origin \in States /\ task.target \in States
      /\ Num(task.origin) \in Nat /\ Num(task.target) \in Nat /\ Num(head) \in Nat
  BY <1>1, <1>3, StatesAreSequences DEF States
<1>6. ASSUME NEW p \in SwitchPhases
      PROVE  /\ [task EXCEPT !.phase = p].phase = p
             /\ [task EXCEPT !.phase = p].origin = task.origin
             /\ [task EXCEPT !.phase = p].target = task.target
             /\ [task EXCEPT !.phase = p].point = task.point
  BY <1>2 DEF SwitchTasks
<1> QED
  BY <1>1, <1>2, <1>3, <1>4, <1>5, <1>6

(* The state one block down a branch.                                      *)
LEMMA ParentOnBranch ==
    ASSUME NEW a \in Blocks, NEW b \in States, OnBranch(a, b)
    PROVE  /\ Parent(a) \in States /\ OnBranch(Parent(a), b)
           /\ Num(a) \in Nat \ {0} /\ Num(Parent(a)) = Num(a) - 1
<1>1. a \in States /\ Num(a) \in Nat \ {0} /\ Parent(a) \in States /\ Num(Parent(a)) = Num(a) - 1
  BY ParentFacts
<1>2. Num(a) - 1 \in 0 .. Num(a) /\ Num(a) \in 0 .. Num(a)
  BY <1>1
<1>3. Parent(a) = Prefix(a, Num(a) - 1)
  BY DEF Parent
<1>4. OnBranch(Parent(a), a)
  BY <1>1, <1>3 DEF OnBranch
<1> QED
  BY <1>1, <1>4, OnBranchFacts

(* The block one step up a branch.                                         *)
LEMMA NextOnBranch ==
    ASSUME NEW a \in States, NEW b \in States, OnBranch(a, b), Num(a) < Num(b),
           NEW c, c = Prefix(b, Num(a) + 1)
    PROVE  /\ c \in Blocks /\ Parent(c) = a /\ OnBranch(c, b)
           /\ Num(c) = Num(a) + 1
           /\ c = b <=> Num(a) + 1 = Num(b)
<1>1. Num(a) \in Nat /\ Num(b) \in Nat
  BY StatesAreSequences
<1>2. Num(a) + 1 \in 0 .. Num(b) /\ Num(a) + 1 # 0 /\ Num(a) + 1 \in 1 .. Num(b)
      /\ Num(a) + 1 - 1 = Num(a) /\ Num(a) + 1 <= Num(b)
  BY <1>1
<1>3. c \in Blocks /\ Num(c) = Num(a) + 1 /\ Prefix(b, Num(b)) = b
  BY <1>2, PrefixFacts
<1>4. Parent(c) = a
  <2>1. PICK k \in 1 .. Num(b) : k = Num(a) + 1 /\ k - 1 = Num(a)
    BY <1>1, <1>2
  <2>2. Parent(Prefix(b, k)) = Prefix(b, k - 1)
    BY StepDown
  <2> QED
    BY <2>1, <2>2 DEF OnBranch
<1>5. OnBranch(c, b)
  BY <1>2, <1>3 DEF OnBranch
<1> QED
  BY <1>3, <1>4, <1>5

(* While the old fork is popped, pop_block throws only before the first    *)
(* block.                                                                  *)
LEMMA PopsGoOn ==
    ASSUME CoreInv, SwitchInv, task.phase = "pop", ~CanPop
    PROVE  head = task.origin
<1>1. SUFFICES ASSUME head # task.origin PROVE FALSE
  OBVIOUS
<1>2. task.phase \in SwitchPhases
  BY DEF SwitchPhases
<1>3. ForkTyped(fork_db) /\ LinkedDown(fork_db)
  BY CoreParts DEF SwitchInv
<1>4. fork_db.cut = FALSE /\ Traced(fork_db, task.origin, task.point)
  BY <1>1 DEF SwitchInv, ForkFollows
<1>5. OnBranch(head, task.origin) /\ Num(head) > task.point
  BY DEF SwitchInv, OnTheWay
<1>6. Num(head) \in task.point + 1 .. Num(task.origin) /\ Prefix(task.origin, Num(head)) = head
  BY <1>2, <1>5, SwitchFacts DEF OnBranch
<1>7. head \in fork_db.index
  BY <1>2, <1>3, <1>4, <1>6, SwitchFacts, TracedHeld
<1> QED
  BY <1>4, <1>7 DEF CanPop, KnownHead

(* One block of the old fork is popped.                                    *)
LEMMA SwitchPops ==
    ASSUME CoreInv, SwitchInv, HistoryReaches, switch_pop
    PROVE  SwitchInv' /\ task'.phase # "idle"
<1>1. task.phase = "pop" /\ PopTo("apply") /\ task.phase \in SwitchPhases
      /\ "apply" \in SwitchPhases /\ "apply" # "pop" /\ "apply" # "idle"
  BY DEF switch_pop, SwitchPhases
<1>2. /\ head \in Blocks /\ head' = Parent(head)
      /\ task' = IF head' = Point THEN [task EXCEPT !.phase = "apply"] ELSE task
  BY <1>1, PopsParent
<1>3. PICK o \in Nat, t \in Nat, p \in Nat, n \in Nat :
         /\ o = Num(task.origin) /\ t = Num(task.target) /\ p = task.point /\ n = Num(head)
         /\ p < o
  BY <1>1, SwitchFacts
<1>4. task.origin \in States /\ task.target \in States /\ task.target \in Blocks
  BY <1>1, SwitchFacts
<1>5. ForkTyped(fork_db) /\ fork_db' = HeadSet(fork_db, Parent(fork_db.head))
  BY <1>1, CoreParts DEF PopTo, pop_block
<1>6. /\ p < t /\ Prefix(task.origin, p) = Prefix(task.target, p)
      /\ OnBranch(head, task.origin) /\ n > p /\ LinkedDown(fork_db)
  BY <1>1, <1>3 DEF SwitchInv, OnTheWay
<1>7. /\ t > o /\ Traced(fork_db, task.origin, p) /\ Traced(fork_db, task.target, p)
      /\ fork_db.head = Prefix(task.target, t - (o - n))
  BY <1>1, <1>3 DEF SwitchInv, ForkFollows
<1>8. head' \in States /\ OnBranch(head', task.origin) /\ Num(head') = n - 1
  BY <1>2, <1>3, <1>4, <1>6, ParentOnBranch
<1>9. n <= o
  BY <1>3, <1>6 DEF OnBranch
<1>10. /\ fork_db'.index = fork_db.index /\ fork_db'.dead = fork_db.dead
       /\ fork_db'.head = Parent(fork_db.head)
       /\ fork_db'.cut = (Parent(fork_db.head) \in fork_db.dead
                          \/ Parent(Parent(fork_db.head)) = Genesis)
       /\ LinkedDown(fork_db')
  BY <1>5, <1>6, HeadSetLinks
<1>11. CASE head' = Point
  <2>1. /\ task'.phase = "apply" /\ task'.origin = task.origin
        /\ task'.target = task.target /\ task'.point = task.point
    BY <1>1, <1>2, <1>11, SwitchFacts
  <2>2. p \in 0 .. t /\ p \in 0 .. o
    BY <1>3, <1>6
  <2>3. Num(Prefix(task.target, p)) = p /\ head' = Prefix(task.target, p)
    BY <1>3, <1>4, <1>6, <1>11, <2>2, PrefixFacts DEF Point
  <2>4. OnBranch(head', task.target) /\ Num(head') = p
    BY <1>3, <1>6, <2>3 DEF OnBranch
  <2>5. OnTheWay'
    BY <1>3, <1>6, <2>1, <2>4 DEF OnTheWay
  <2>6. ForkFollows'
    BY <2>1 DEF ForkFollows
  <2> QED
    BY <1>10, <2>1, <2>5, <2>6 DEF SwitchInv
<1>12. CASE head' # Point
  <2>1. task' = task
    BY <1>2, <1>12
  <2>2. n - 1 # p
    BY <1>3, <1>8, <1>12 DEF OnBranch, Point
  <2>3. n - 1 > p
    BY <1>3, <1>6, <2>2
  <2>4. OnTheWay'
    BY <1>1, <1>3, <1>6, <1>8, <2>1, <2>3 DEF OnTheWay
  <2>5. PICK k \in Nat : /\ k = t - (o - n) /\ k \in 1 .. t /\ k - 1 \in 1 .. t
                         /\ k - 1 \in p + 2 .. t /\ k - 2 \in 0 .. t /\ k - 2 # 0
                         /\ k - 1 = t - (o - (n - 1)) /\ (k - 1) - 1 = k - 2
    <3>1. t - (o - n) \in Nat
      BY <1>3, <1>7, <1>9
    <3> QED
      BY <1>3, <1>7, <1>9, <2>3, <3>1
  <2>6. Parent(fork_db.head) = Prefix(task.target, k - 1)
    BY <1>3, <1>4, <1>7, <2>5, StepDown
  <2>7. Prefix(task.target, k - 1) \notin fork_db.dead
    BY <1>3, <1>7, <2>5 DEF Traced
  <2>8. Parent(Prefix(task.target, k - 1)) # Genesis
    <3>1. Parent(Prefix(task.target, k - 1)) = Prefix(task.target, k - 2)
      BY <1>3, <1>4, <2>5, StepDown
    <3>2. Prefix(task.target, k - 2) \in Blocks
      BY <1>3, <1>4, <2>5, PrefixFacts
    <3> QED
      BY <3>1, <3>2, BlocksAssumption
  <2>9. fork_db'.cut = FALSE
    BY <1>10, <2>6, <2>7, <2>8
  <2>10. fork_db'.head = Prefix(task.target, t - (o - (n - 1)))
    BY <1>10, <2>5, <2>6
  <2>11. Traced(fork_db', task.origin, p) /\ Traced(fork_db', task.target, p)
    BY <1>7, <1>10 DEF Traced
  <2>12. ForkFollows'
    BY <1>3, <1>7, <1>8, <2>1, <2>9, <2>10, <2>11 DEF ForkFollows
  <2> QED
    BY <1>1, <1>10, <2>1, <2>4, <2>12 DEF SwitchInv
<1> QED
  BY <1>11, <1>12

(* One block of the new fork is applied, or the switch turns back.         *)
LEMMA SwitchApplies ==
    ASSUME CoreInv, SwitchInv, switch_apply
    PROVE  /\ SwitchInv'
           /\ task' = Idle => head' = task.target
           /\ Valid = Blocks => task'.phase \notin {"unwind", "restore"}
<1>1. task.phase = "apply" /\ task.phase \in SwitchPhases
      /\ "unwind" \in SwitchPhases /\ "restore" \in SwitchPhases /\ ForkTyped(fork_db)
  BY CoreParts DEF switch_apply, SwitchPhases
<1>2. PICK o \in Nat, t \in Nat, p \in Nat, n \in Nat :
         /\ o = Num(task.origin) /\ t = Num(task.target) /\ p = task.point /\ n = Num(head)
         /\ p < o
  BY <1>1, SwitchFacts
<1>3. task.origin \in States /\ task.target \in States /\ task.origin \in Blocks /\ head \in States
  BY <1>1, SwitchFacts
<1>4. /\ p < t /\ Prefix(task.origin, p) = Prefix(task.target, p) /\ LinkedDown(fork_db)
      /\ OnBranch(head, task.target) /\ n < t /\ n >= p
  BY <1>1, <1>2 DEF SwitchInv, OnTheWay
<1>5. PICK b : b = Prefix(task.target, Num(head) + 1)
  OBVIOUS
<1>6. /\ b \in Blocks /\ Parent(b) = head /\ OnBranch(b, task.target) /\ Num(b) = n + 1
      /\ b = task.target <=> n + 1 = t
  BY <1>2, <1>3, <1>4, <1>5, NextOnBranch
<1>7. PICK rest :
      \/ /\ Applies(b) /\ Applied(b, fork_db, b)
         /\ task' = IF b = task.target THEN Idle ELSE task
      \/ /\ ~Applies(b)
         /\ fork_db' = HeadSet(Erased(fork_db, rest), task.origin)
         /\ task' = [task EXCEPT !.phase = IF head = Point THEN "restore" ELSE "unwind"]
         /\ UNCHANGED head
  BY <1>5 DEF switch_apply
<1>8. CASE /\ Applies(b) /\ Applied(b, fork_db, b)
           /\ task' = IF b = task.target THEN Idle ELSE task
  <2>1. head' = b /\ LinkedDown(fork_db')
    BY <1>1, <1>4, <1>8, ResizedLinks DEF Applied
  <2>2. CASE b = task.target
    <3>1. task'.phase = "idle" /\ task'.phase \notin SwitchPhases
      BY <1>8, <2>2 DEF Idle, SwitchPhases
    <3>2. OnTheWay' /\ ForkFollows'
      BY <3>1 DEF OnTheWay, ForkFollows, SwitchPhases
    <3> QED
      BY <2>1, <2>2, <3>1, <3>2 DEF SwitchInv, SwitchPhases
  <2>3. CASE b # task.target
    <3>1. task' = task
      BY <1>8, <2>3
    <3>2. n + 1 < t /\ n + 1 >= p
      BY <1>2, <1>4, <1>6, <2>3
    <3>3. OnTheWay'
      BY <1>1, <1>2, <1>4, <1>6, <2>1, <3>1, <3>2 DEF OnTheWay
    <3>4. ForkFollows'
      BY <1>1, <3>1 DEF ForkFollows
    <3>5. task' # Idle
      BY <1>1, <3>1 DEF Idle
    <3> QED
      BY <1>1, <2>1, <3>1, <3>3, <3>4, <3>5 DEF SwitchInv
  <2> QED
    BY <2>2, <2>3
<1>9. CASE /\ ~Applies(b)
           /\ fork_db' = HeadSet(Erased(fork_db, rest), task.origin)
           /\ task' = [task EXCEPT !.phase = IF head = Point THEN "restore" ELSE "unwind"]
           /\ UNCHANGED head
  <2> DEFINE q == IF head = Point THEN "restore" ELSE "unwind"
  <2>1. q \in SwitchPhases /\ q # "idle" /\ q # "pop" /\ q # "apply"
    BY <1>1
  <2>2. task' = [task EXCEPT !.phase = q]
    BY <1>9
  <2>3. /\ task'.phase = q /\ task'.origin = task.origin
        /\ task'.target = task.target /\ task'.point = task.point
    <3> HIDE DEF q
    <3> QED
      BY <1>1, <2>1, <2>2, SwitchFacts
  <2>4. LinkedDown(fork_db')
    <3>1. ForkTyped(Erased(fork_db, rest)) /\ LinkedDown(Erased(fork_db, rest))
      BY <1>1, <1>4, ErasedTyped, ErasedLinks
    <3> QED
      BY <1>9, <3>1, HeadSetLinks
  <2>5. Valid # Blocks
    BY <1>6, <1>9 DEF Applies
  <2>6. head = Point => OnBranch(head, task.origin)
    <3>1. p \in 0 .. o
      BY <1>2
    <3>2. Num(Prefix(task.origin, p)) = p
      BY <1>2, <1>3, <3>1, PrefixFacts
    <3> QED
      BY <1>2, <3>2 DEF Point, OnBranch
  <2>7. head # Point => n > p
    <3>1. n = p => head = Prefix(task.target, p)
      BY <1>2, <1>4 DEF OnBranch
    <3>2. n = p => head = Point
      BY <1>2, <1>4, <3>1 DEF Point
    <3> QED
      BY <1>2, <1>4, <3>2
  <2>8. OnTheWay'
    <3>1. (q = "unwind" => head # Point) /\ (q = "restore" => head = Point)
      OBVIOUS
    <3> HIDE DEF q
    <3> QED
      BY <1>2, <1>4, <1>9, <2>1, <2>3, <2>6, <2>7, <3>1 DEF OnTheWay
  <2>9. ForkFollows'
    BY <2>1, <2>3 DEF ForkFollows
  <2>10. task' # Idle
    BY <2>1, <2>3 DEF Idle
  <2> QED
    BY <2>4, <2>5, <2>8, <2>9, <2>10 DEF SwitchInv
<1> QED
  BY <1>7, <1>8, <1>9

(* One block of the new fork is popped again.                              *)
LEMMA SwitchUnwinds ==
    ASSUME CoreInv, SwitchInv, HistoryReaches, restore_pop
    PROVE  SwitchInv' /\ task'.phase # "idle"
<1>1. task.phase = "unwind" /\ PopTo("restore") /\ task.phase \in SwitchPhases
      /\ "restore" \in SwitchPhases
  BY DEF restore_pop, SwitchPhases
<1>2. /\ head \in Blocks /\ head' = Parent(head)
      /\ task' = IF head' = Point THEN [task EXCEPT !.phase = "restore"] ELSE task
  BY <1>1, PopsParent
<1>3. PICK o \in Nat, t \in Nat, p \in Nat, n \in Nat :
         /\ o = Num(task.origin) /\ t = Num(task.target) /\ p = task.point /\ n = Num(head)
         /\ p < o
  BY <1>1, SwitchFacts
<1>4. task.origin \in States /\ task.target \in States
  BY <1>1, SwitchFacts
<1>5. ForkTyped(fork_db) /\ fork_db' = HeadSet(fork_db, Parent(fork_db.head))
  BY <1>1, CoreParts DEF PopTo, pop_block
<1>6. /\ p < t /\ Prefix(task.origin, p) = Prefix(task.target, p)
      /\ OnBranch(head, task.target) /\ n > p /\ LinkedDown(fork_db)
  BY <1>1, <1>3 DEF SwitchInv, OnTheWay
<1>7. head' \in States /\ OnBranch(head', task.target) /\ Num(head') = n - 1
  BY <1>2, <1>3, <1>4, <1>6, ParentOnBranch
<1>8. LinkedDown(fork_db')
  BY <1>5, <1>6, HeadSetLinks
<1>9. CASE head' = Point
  <2>1. /\ task'.phase = "restore" /\ task'.origin = task.origin
        /\ task'.target = task.target /\ task'.point = task.point
    BY <1>1, <1>2, <1>9, SwitchFacts
  <2>2. p \in 0 .. o
    BY <1>3
  <2>3. Num(Prefix(task.origin, p)) = p /\ head' = Prefix(task.origin, p)
    BY <1>3, <1>4, <1>9, <2>2, PrefixFacts DEF Point
  <2>4. OnBranch(head', task.origin)
    BY <1>3, <2>3 DEF OnBranch
  <2>5. OnTheWay' /\ ForkFollows'
    BY <1>3, <1>6, <2>1, <2>4 DEF OnTheWay, ForkFollows
  <2> QED
    BY <1>8, <2>1, <2>5 DEF SwitchInv
<1>10. CASE head' # Point
  <2>1. task' = task
    BY <1>2, <1>10
  <2>2. n - 1 # p
    BY <1>3, <1>6, <1>7, <1>10 DEF OnBranch, Point
  <2>3. n - 1 > p
    BY <1>3, <1>6, <2>2
  <2>4. OnTheWay' /\ ForkFollows'
    BY <1>1, <1>3, <1>6, <1>7, <2>1, <2>3 DEF OnTheWay, ForkFollows
  <2> QED
    BY <1>1, <1>8, <2>1, <2>4 DEF SwitchInv
<1> QED
  BY <1>9, <1>10

(* One block of the old fork is applied again.                             *)
LEMMA SwitchRestores ==
    ASSUME CoreInv, SwitchInv, restore_apply
    PROVE  SwitchInv' /\ (task' = Idle => head' = task.origin)
<1>1. task.phase = "restore" /\ task.phase \in SwitchPhases /\ ForkTyped(fork_db)
  BY CoreParts DEF restore_apply, SwitchPhases
<1>2. PICK b : b = Prefix(task.origin, Num(head) + 1)
  OBVIOUS
<1>3. Applied(b, fork_db, task.new) /\ task' = IF b = task.origin THEN Idle ELSE task
  BY <1>2 DEF restore_apply
<1>4. head' = b /\ LinkedDown(fork_db')
  BY <1>1, <1>3, ResizedLinks DEF Applied, SwitchInv
<1>5. CASE b = task.origin
  <2>1. task'.phase = "idle" /\ task'.phase \notin SwitchPhases
    BY <1>3, <1>5 DEF Idle, SwitchPhases
  <2>2. OnTheWay' /\ ForkFollows'
    BY <2>1 DEF OnTheWay, ForkFollows, SwitchPhases
  <2> QED
    BY <1>4, <1>5, <2>2 DEF SwitchInv
<1>6. CASE b # task.origin
  <2>1. task' = task /\ task' # Idle
    BY <1>1, <1>3, <1>6 DEF Idle
  <2>2. OnBranch(b, task.origin)
    <3>1. OnBranch(head, task.origin) /\ head # task.origin /\ head \in States
          /\ task.origin \in States
      BY <1>1, CoreParts, SwitchFacts DEF TaskTyped
    <3>2. Num(head) < Num(task.origin)
      <4>1. Num(head) <= Num(task.origin) /\ Num(head) # Num(task.origin)
        BY <3>1, OnBranchFacts DEF OnBranch
      <4>2. Num(head) \in Nat /\ Num(task.origin) \in Nat
        BY <3>1, StatesAreSequences
      <4> QED
        BY <4>1, <4>2
    <3> QED
      BY <1>2, <3>1, <3>2, NextOnBranch
  <2>3. OnTheWay' /\ ForkFollows'
    BY <1>1, <1>4, <2>1, <2>2 DEF OnTheWay, ForkFollows, SwitchInv
  <2> QED
    BY <1>4, <2>1, <2>3 DEF SwitchInv
<1> QED
  BY <1>5, <1>6

(* A block arrives: it may begin a switch.                                 *)
LEMMA SwitchBegins ==
    ASSUME CoreInv, SwitchInv, NEW b \in Blocks, push_block(b)
    PROVE  SwitchInv' /\ task'.phase \in {"idle", "pop"}
<1>1. PICK f : f = Linked(fork_db, b, max_size)
  OBVIOUS
<1>2. PICK point : point = ForkPoint(f.head, head)
  OBVIOUS
<1>3. /\ task = Idle /\ ~Refused(fork_db, b, max_size)
      /\ \/ Applied(b, f, b) /\ UNCHANGED task
         \/ fork_db' = Erased(f, {b}) /\ UNCHANGED task
         \/ /\ Num(f.head) > Num(head) /\ Traced(f, head, point) /\ Traced(f, f.head, point)
            /\ fork_db' = f
            /\ task' = [phase |-> "pop", new |-> b, target |-> f.head,
                        origin |-> head, point |-> point]
            /\ UNCHANGED head
         \/ fork_db' = f /\ UNCHANGED task
  BY <1>1, <1>2 DEF push_block
<1>4. ForkTyped(f) /\ f.head \in Blocks /\ LinkedDown(f)
  BY <1>1, <1>3, CoreParts, LinkedTyped, LinkedLinks DEF SwitchInv
<1>5. ASSUME UNCHANGED task, LinkedDown(fork_db')
      PROVE  SwitchInv' /\ task'.phase \in {"idle", "pop"}
  <2>1. task'.phase = "idle" /\ task'.phase \notin SwitchPhases
    BY <1>3, <1>5 DEF Idle, SwitchPhases
  <2>2. OnTheWay' /\ ForkFollows'
    BY <2>1 DEF OnTheWay, ForkFollows, SwitchPhases
  <2> QED
    BY <1>5, <2>1, <2>2 DEF SwitchInv
<1>6. CASE Applied(b, f, b) /\ UNCHANGED task
  BY <1>4, <1>5, <1>6, ResizedLinks DEF Applied
<1>7. CASE fork_db' = Erased(f, {b}) /\ UNCHANGED task
  BY <1>4, <1>5, <1>7, ErasedLinks
<1>8. CASE fork_db' = f /\ UNCHANGED task
  BY <1>4, <1>5, <1>8
<1>9. CASE /\ Num(f.head) > Num(head) /\ Traced(f, head, point) /\ Traced(f, f.head, point)
           /\ fork_db' = f
           /\ task' = [phase |-> "pop", new |-> b, target |-> f.head,
                       origin |-> head, point |-> point]
           /\ UNCHANGED head
  <2>1. head \in Blocks
    BY <1>4, <1>9 DEF Traced, ForkTyped
  <2>2. /\ point \in Nat /\ point < Num(f.head) /\ point < Num(head)
        /\ Prefix(f.head, point) = Prefix(head, point)
    BY <1>2, <1>4, <2>1, ForkPointFacts
  <2>3. /\ task'.phase = "pop" /\ task'.target = f.head /\ task'.origin = head
        /\ task'.point = point /\ head' = head
    BY <1>9
  <2>4. /\ head \in States /\ f.head \in States
        /\ Num(head) \in Nat /\ Num(f.head) \in Nat
    BY <1>4, <2>1, StatesAreSequences DEF States
  <2>5. OnBranch(head, head) /\ Prefix(f.head, Num(f.head)) = f.head
    <3>1. Num(f.head) \in 0 .. Num(f.head)
      BY <2>4
    <3> QED
      BY <2>4, <3>1, OnBranchFacts, PrefixFacts
  <2>6. OnTheWay'
    BY <2>2, <2>3, <2>4, <2>5 DEF OnTheWay
  <2>7. Num(f.head) - (Num(head) - Num(head)) = Num(f.head)
    BY <2>4
  <2>8. ForkFollows'
    BY <1>9, <2>3, <2>5, <2>7 DEF ForkFollows
  <2> QED
    BY <1>4, <1>9, <2>3, <2>6, <2>8 DEF SwitchInv
<1> QED
  BY <1>3, <1>6, <1>7, <1>8, <1>9

(* No pop_block that unwinds a failed switch throws: the fork database has *)
(* not lost the items of the old fork while the new one was applied.       *)
UnwindPops == task.phase = "unwind" => CanPop

(* Every step keeps a switch on its way, and ends it on one of the forks.  *)
LEMMA SwitchNext ==
    ASSUME CoreInv, SwitchInv, HistoryReaches, UnwindPops, [Running]_vars
    PROVE  /\ SwitchInv'
           /\ task.phase \in SwitchPhases /\ task' = Idle => head' \in {task.origin, task.target}
<1>1. ASSUME NEW b \in Blocks, push_block(b)
      PROVE  SwitchInv' /\ task.phase \notin SwitchPhases
  <2>1. task.phase \notin SwitchPhases
    BY <1>1 DEF push_block, Idle, SwitchPhases
  <2> QED
    BY <1>1, <2>1, SwitchBegins
<1>2. ASSUME NEW k \in Nested, push_transaction(k)
      PROVE  SwitchInv' /\ task.phase \notin SwitchPhases
  <2>1. task.phase \notin SwitchPhases /\ task.phase = "idle"
        /\ UNCHANGED <<head, fork_db, task>>
    BY <1>2 DEF push_transaction, Idle, SwitchPhases
  <2>2. OnTheWay' /\ ForkFollows'
    BY <2>1 DEF OnTheWay, ForkFollows, SwitchPhases
  <2> QED
    BY <2>1, <2>2 DEF SwitchInv
<1>3. CASE switch_pop
  BY <1>3, SwitchPops DEF Idle
<1>4. CASE switch_apply
  BY <1>4, SwitchApplies
<1>5. CASE restore_pop
  BY <1>5, SwitchUnwinds DEF Idle
<1>6. CASE restore_apply
  BY <1>6, SwitchRestores
<1>7. CASE pop_throws
  <2>1. task.phase = "pop" /\ ~CanPop /\ task' = Idle /\ UNCHANGED <<head, fork_db>>
    BY <1>7 DEF pop_throws, UnwindPops
  <2>2. head' = task.origin
    BY <2>1, PopsGoOn
  <2>3. task'.phase = "idle" /\ task'.phase \notin SwitchPhases
    BY <2>1 DEF Idle, SwitchPhases
  <2>4. OnTheWay' /\ ForkFollows'
    BY <2>3 DEF OnTheWay, ForkFollows, SwitchPhases
  <2> QED
    BY <2>1, <2>2, <2>4 DEF SwitchInv
<1>8. CASE UNCHANGED vars
  <2>1. UNCHANGED <<head, fork_db, task>>
    BY <1>8 DEF vars
  <2>2. OnTheWay' /\ ForkFollows' /\ LinkedDown(fork_db')
    BY <2>1 DEF OnTheWay, ForkFollows, SwitchInv
  <2>3. task.phase \in SwitchPhases => task' # Idle
    BY <2>1 DEF Idle, SwitchPhases
  <2> QED
    BY <2>2, <2>3 DEF SwitchInv
<1> QED
  BY <1>1, <1>2, <1>3, <1>4, <1>5, <1>6, <1>7, <1>8 DEF Running, Switching

(* A node starts without any fork.                                         *)
LEMMA SwitchInit == Init => SwitchInv
<1> SUFFICES ASSUME Init PROVE SwitchInv
  OBVIOUS
<1>1. task.phase = "idle" /\ fork_db.index = {}
  BY DEF Init, Idle, Cleared
<1> QED
  BY <1>1 DEF SwitchInv, OnTheWay, ForkFollows, LinkedDown, SwitchPhases

(* As long as the undo history lasts and unwinding does not throw, a       *)
(* switch of forks, whichever blocks are invalid and wherever they are     *)
(* met, ends on the new fork or on the old one.  The fork database alone   *)
(* never stops one half way: pop_block throws before the first block or    *)
(* not at all (_push_block, pop_block and fetch_branch_from).              *)
THEOREM SwitchesComplete ==
    RunningSpec /\ []HistoryReaches /\ []UnwindPops => SwitchCompletes
<1> DEFINE Ends == task.phase \in {"pop", "apply", "unwind", "restore"} /\ task' = Idle =>
                      head' \in {task.origin, task.target}
<1>1. Init => CoreInv /\ SwitchInv
  BY CoreInit, SwitchInit
<1>2. CoreInv /\ SwitchInv /\ HistoryReaches /\ UnwindPops /\ [Running]_vars
         => CoreInv' /\ SwitchInv' /\ [Ends]_vars
  <2> SUFFICES ASSUME CoreInv, SwitchInv, HistoryReaches, UnwindPops, [Running]_vars
               PROVE  CoreInv' /\ SwitchInv' /\ Ends
    OBVIOUS
  <2>1. [Running \/ Restarting]_vars
    OBVIOUS
  <2>2. CoreInv'
    BY <2>1, CoreNext
  <2>3. SwitchInv' /\ Ends
    BY SwitchNext DEF SwitchPhases
  <2> QED
    BY <2>2, <2>3
<1> QED
  BY <1>1, <1>2, PTL DEF RunningSpec, SwitchCompletes

(* If every block is valid no switch fails.                                *)
NoSwitchFails == task.phase \notin {"unwind", "restore"}

LEMMA ValidNext ==
    ASSUME Valid = Blocks, CoreInv, SwitchInv, NoSwitchFails, [Running]_vars
    PROVE  NoSwitchFails'
<1>1. ASSUME NEW b \in Blocks, push_block(b) PROVE NoSwitchFails'
  BY <1>1, SwitchBegins DEF NoSwitchFails
<1>2. ASSUME NEW k \in Nested, push_transaction(k) PROVE NoSwitchFails'
  BY <1>2 DEF push_transaction, NoSwitchFails
<1>3. CASE switch_pop
  <2>1. task.phase = "pop" /\ task.phase \in SwitchPhases /\ "apply" \in SwitchPhases
    BY <1>3 DEF switch_pop, SwitchPhases
  <2>2. [task EXCEPT !.phase = "apply"].phase = "apply" /\ Idle.phase = "idle"
    BY <2>1, SwitchFacts DEF Idle
  <2>3. task' \in {Idle, task, [task EXCEPT !.phase = "apply"]}
    BY <1>3 DEF switch_pop, PopTo
  <2> QED
    BY <2>1, <2>2, <2>3 DEF NoSwitchFails
<1>4. CASE switch_apply
  BY <1>4, SwitchApplies DEF NoSwitchFails
<1>5. CASE pop_throws
  BY <1>5 DEF pop_throws, Idle, NoSwitchFails
<1>6. ~restore_pop /\ ~restore_apply
  BY DEF restore_pop, restore_apply, NoSwitchFails
<1>7. CASE UNCHANGED vars
  BY <1>7 DEF vars, NoSwitchFails
<1> QED
  BY <1>1, <1>2, <1>3, <1>4, <1>5, <1>6, <1>7 DEF Running, Switching

(* A node that is sent valid blocks only, in any order and on any forks:   *)
(* while its undo history lasts every switch ends on the old or the new    *)
(* fork, and the log holds all of the applied chain between two calls.     *)
THEOREM ValidForksComplete ==
    Valid = Blocks =>
       (RunningSpec /\ []HistoryReaches => SwitchCompletes /\ []BlockLogMatches)
<1> SUFFICES ASSUME Valid = Blocks
             PROVE  RunningSpec /\ []HistoryReaches => SwitchCompletes /\ []BlockLogMatches
  OBVIOUS
<1>1. Init => CoreInv /\ SwitchInv /\ NoSwitchFails
  BY CoreInit, SwitchInit DEF Init, Idle, NoSwitchFails
<1>2. CoreInv /\ SwitchInv /\ NoSwitchFails /\ HistoryReaches /\ [Running]_vars
         => CoreInv' /\ SwitchInv' /\ NoSwitchFails'
  <2> SUFFICES ASSUME CoreInv, SwitchInv, NoSwitchFails, HistoryReaches, [Running]_vars
               PROVE  CoreInv' /\ SwitchInv' /\ NoSwitchFails'
    OBVIOUS
  <2>1. [Running \/ Restarting]_vars
    OBVIOUS
  <2>2. UnwindPops
    BY DEF UnwindPops, NoSwitchFails
  <2> QED
    BY <2>1, <2>2, CoreNext, SwitchNext, ValidNext
<1>3. RunningSpec /\ []HistoryReaches => []NoSwitchFails
  BY <1>1, <1>2, PTL DEF RunningSpec
<1>4. NoSwitchFails => UnwindPops /\ task.phase # "restore"
  BY DEF NoSwitchFails, UnwindPops
<1> QED
  BY <1>3, <1>4, SwitchesComplete, BlockLogHolds, PTL
-----------------------------------------------------------------------------
(***************************************************************************)
(* How far the undo history reaches.  It lasts if forks part above what    *)
(* was irreversible: the block that was irreversible on one fork, before   *)
(* its newest block, is on the other fork as well.                         *)
(***************************************************************************)
IrreversibleShared ==
    \A a, c \in Blocks : ~OnBranch(c, a) => OnBranch(Prefix(a, Irreversible(Parent(a))), c)

(* The lowest state that levels s below the state h go back to.            *)
Lowest(s, h) == IF s = <<>> THEN Num(h) ELSE Num(s[1])

(* No fork parts from the one of b below number n.                         *)
PartAbove(b, n) == \A c \in Blocks : ~OnBranch(c, b) => n <= ForkPoint(c, b)

(* The levels reach down to where forks part; and so they do once they are *)
(* cut, for a block and for a pending session, during a switch on the new  *)
(* fork already.                                                           *)
DeepInv ==
    /\ task.phase = "idle" /\ head # Genesis =>
          /\ PartAbove(head, Lowest(saved, head))
          /\ PartAbove(head, Num(head) - max_size + 1)
    /\ task.phase = "pop" =>
          /\ task.point = ForkPoint(task.target, task.origin)
          /\ PartAbove(task.origin, Lowest(saved, head))
          /\ PartAbove(task.origin, Num(task.origin) - max_size + 1)
    /\ task.phase = "apply" =>
          /\ PartAbove(task.target, Lowest(saved, head))
          /\ PartAbove(task.target, Num(head) - max_size)

(* Forks that have a block in common part above it.                        *)
LEMMA ForkPointAtLeast ==
    ASSUME NEW a \in Blocks, NEW b \in Blocks, NEW n \in Nat, n < Num(a), n < Num(b),
           Prefix(a, n) = Prefix(b, n)
    PROVE  n <= ForkPoint(a, b)
<1> DEFINE S == {k \in 0 .. Num(a) : k < Num(a) /\ k < Num(b) /\ Prefix(a, k) = Prefix(b, k)}
<1>1. Num(a) \in Nat /\ Num(b) \in Nat
  BY ParentFacts
<1>2. S \in SUBSET Nat /\ \A k \in S : k <= Num(a)
  BY <1>1
<1>3. n \in S
  BY <1>1
<1>4. \A k \in S : k <= Max(S)
  <2> HIDE DEF S
  <2> QED
    BY <1>1, <1>2, <1>3, MaxOfBounded
<1> QED
  BY <1>3, <1>4 DEF ForkPoint

(* So they part above the irreversible block.                              *)
LEMMA PartAboveIrreversible ==
    ASSUME IrreversibleShared, NEW a \in Blocks
    PROVE  PartAbove(a, Irreversible(Parent(a)))
<1> SUFFICES ASSUME NEW c \in Blocks, ~OnBranch(c, a)
             PROVE  Irreversible(Parent(a)) <= ForkPoint(c, a)
  BY DEF PartAbove
<1>1. Num(a) \in Nat \ {0} /\ Num(c) \in Nat \ {0} /\ a \in States /\ c \in States
      /\ Parent(a) \in States /\ Num(Parent(a)) = Num(a) - 1
  BY ParentFacts
<1>2. PICK n \in 0 .. Num(a) - 1 : n = Irreversible(Parent(a))
  BY <1>1, IrreversibleFacts
<1>3. n \in Nat /\ n < Num(a) /\ n \in 0 .. Num(a)
  BY <1>1, <1>2
<1>4. Num(Prefix(a, n)) = n
  BY <1>1, <1>3, PrefixFacts
<1>5. n <= Num(c) /\ Prefix(a, n) = Prefix(c, n)
  BY <1>2, <1>4 DEF IrreversibleShared, OnBranch
<1>6. n # Num(c)
  <2>1. SUFFICES ASSUME n = Num(c) PROVE FALSE
    OBVIOUS
  <2>2. Num(c) \in 0 .. Num(c)
    BY <1>1
  <2>3. Prefix(c, Num(c)) = c
    BY <1>1, <2>2, PrefixFacts
  <2>4. Num(c) <= Num(a) /\ c = Prefix(a, Num(c))
    BY <1>1, <1>3, <1>5, <2>1, <2>3
  <2> QED
    BY <2>4 DEF OnBranch
<1>7. n < Num(c)
  BY <1>1, <1>3, <1>5, <1>6
<1> QED
  BY <1>2, <1>3, <1>5, <1>7, ForkPointAtLeast

(* Higher up a branch forks part no lower.                                 *)
LEMMA PartAboveHigher ==
    ASSUME NEW b \in Blocks, NEW t \in Blocks, OnBranch(b, t), NEW n \in Int, PartAbove(b, n)
    PROVE  PartAbove(t, n)
<1> SUFFICES ASSUME NEW c \in Blocks, ~OnBranch(c, t) PROVE n <= ForkPoint(c, t)
  BY DEF PartAbove
<1>1. b \in States /\ t \in States /\ c \in States
      /\ Num(b) \in Nat /\ Num(t) \in Nat /\ Num(c) \in Nat
  BY ParentFacts
<1>2. ~OnBranch(c, b)
  BY <1>1, OnBranchFacts
<1>3. PICK p : p = ForkPoint(c, b)
  OBVIOUS
<1>4. p \in Nat /\ p < Num(c) /\ p < Num(b) /\ Prefix(c, p) = Prefix(b, p) /\ n <= p
  BY <1>2, <1>3, ForkPointFacts DEF PartAbove
<1>5. Num(b) <= Num(t) /\ b = Prefix(t, Num(b))
  BY DEF OnBranch
<1>6. Num(b) \in 0 .. Num(t) /\ p \in 0 .. Num(b) /\ p < Num(t)
  BY <1>1, <1>4, <1>5
<1>7. Prefix(b, p) = Prefix(t, p)
  BY <1>1, <1>5, <1>6, PrefixFacts
<1>8. p <= ForkPoint(c, t)
  BY <1>4, <1>6, <1>7, ForkPointAtLeast
<1>9. ForkPoint(c, t) \in Nat
  BY ForkPointFacts
<1> QED
  BY <1>4, <1>8, <1>9

(* What holds of a number holds of a lower one.                            *)
LEMMA PartAboveLower ==
    ASSUME NEW b \in Blocks, NEW n \in Int, NEW m \in Int,
           m <= 0 \/ (PartAbove(b, n) /\ m <= n)
    PROVE  PartAbove(b, m)
<1> SUFFICES ASSUME NEW c \in Blocks, ~OnBranch(c, b) PROVE m <= ForkPoint(c, b)
  BY DEF PartAbove
<1>1. ForkPoint(c, b) \in Nat
  BY ForkPointFacts
<1>2. m <= 0 \/ (m <= n /\ n <= ForkPoint(c, b))
  BY DEF PartAbove
<1> QED
  BY <1>1, <1>2

(* Where forks part from the old fork of a switch, they do from the new    *)
(* one.                                                                    *)
LEMMA PartAboveOther ==
    ASSUME NEW o \in Blocks, NEW t \in Blocks, ~OnBranch(t, o), NEW n \in Int, PartAbove(o, n)
    PROVE  PartAbove(t, n)
<1> SUFFICES ASSUME NEW c \in Blocks, ~OnBranch(c, t) PROVE n <= ForkPoint(c, t)
  BY DEF PartAbove
<1>1. o \in States /\ t \in States /\ c \in States
      /\ Num(o) \in Nat /\ Num(t) \in Nat /\ Num(c) \in Nat
  BY ParentFacts
<1>2. PICK p : p = ForkPoint(t, o)
  OBVIOUS
<1>3. p \in Nat /\ p < Num(t) /\ p < Num(o) /\ Prefix(t, p) = Prefix(o, p) /\ n <= p
  BY <1>2, ForkPointFacts DEF PartAbove
<1>4. p \in 0 .. Num(t) /\ p \in 0 .. Num(o)
  BY <1>1, <1>3
<1>5. ForkPoint(c, t) \in Nat
  BY ForkPointFacts
<1>6. CASE OnBranch(c, o)
  <2>1. Num(c) <= Num(o) /\ c = Prefix(o, Num(c)) /\ Num(c) \in 0 .. Num(o)
    BY <1>1, <1>6 DEF OnBranch
  <2>2. p < Num(c)
    <3>1. SUFFICES ASSUME Num(c) <= p PROVE FALSE
      BY <1>1, <1>3
    <3>2. Num(c) \in 0 .. p
      BY <1>1, <1>3, <3>1
    <3>3. Prefix(Prefix(t, p), Num(c)) = Prefix(t, Num(c))
      BY <1>1, <1>4, <3>2, PrefixFacts
    <3>4. Prefix(Prefix(o, p), Num(c)) = Prefix(o, Num(c))
      BY <1>1, <1>4, <3>2, PrefixFacts
    <3>5. c = Prefix(t, Num(c)) /\ Num(c) <= Num(t)
      BY <1>1, <1>3, <2>1, <3>1, <3>3, <3>4
    <3> QED
      BY <3>5 DEF OnBranch
  <2>3. p \in 0 .. Num(c)
    BY <1>1, <1>3, <2>2
  <2>4. Prefix(Prefix(o, Num(c)), p) = Prefix(o, p)
    BY <1>1, <2>1, <2>3, PrefixFacts
  <2>5. Prefix(c, p) = Prefix(t, p)
    BY <1>3, <2>1, <2>4
  <2>6. p <= ForkPoint(c, t)
    BY <1>3, <2>2, <2>5, ForkPointAtLeast
  <2> QED
    BY <1>3, <1>5, <2>6
<1>7. CASE ~OnBranch(c, o)
  <2>1. PICK q : q = ForkPoint(c, o)
    OBVIOUS
  <2>2. q \in Nat /\ q < Num(c) /\ q < Num(o) /\ Prefix(c, q) = Prefix(o, q) /\ n <= q
    BY <1>7, <2>1, ForkPointFacts DEF PartAbove
  <2>3. q \in 0 .. Num(c) /\ q \in 0 .. Num(o)
    BY <1>1, <2>2
  <2>4. PICK m \in Nat : m \in 0 .. p /\ m \in 0 .. q /\ n <= m
    <3>1. CASE p <= q
      BY <1>3, <2>2, <3>1
    <3>2. CASE q <= p
      BY <1>3, <2>2, <3>2
    <3> QED
      BY <1>3, <2>2, <3>1, <3>2
  <2>5. Prefix(Prefix(t, p), m) = Prefix(t, m) /\ Prefix(Prefix(o, p), m) = Prefix(o, m)
    BY <1>1, <1>4, <2>4, PrefixFacts
  <2>6. Prefix(Prefix(c, q), m) = Prefix(c, m) /\ Prefix(Prefix(o, q), m) = Prefix(o, m)
    BY <1>1, <2>3, <2>4, PrefixFacts
  <2>7. Prefix(c, m) = Prefix(t, m) /\ m < Num(c) /\ m < Num(t)
    BY <1>1, <1>3, <2>2, <2>4, <2>5, <2>6
  <2>8. m <= ForkPoint(c, t)
    BY <2>7, ForkPointAtLeast
  <2> QED
    BY <1>5, <2>4, <2>8
<1> QED
  BY <1>6, <1>7

(* The levels but the first are of one block each.                         *)
LEMMA LevelNumbers ==
    ASSUME NEW s \in Seq(States), NEW h \in States, Leads(s, h), NEW i \in 2 .. Len(s)
    PROVE  Num(s[i]) = Num(h) - (Len(s) - i) - 1
<1>1. PICK n \in Nat : n = Len(s)
  OBVIOUS
<1>2. Num(h) \in Int /\ \A k \in 1 .. n : s[k] \in States
  BY <1>1, StatesAreSequences
<1>3. \A x \in States : x # Genesis => Num(Parent(x)) = Num(x) - 1 /\ Num(x) \in Int
  BY ParentFacts DEF States
<1> DEFINE Bad == {j \in Nat : j <= n - 2 /\ Num(s[n - j]) # Num(h) - j - 1}
<1>4. Bad = {}
  <2>1. SUFFICES ASSUME Bad # {} PROVE FALSE
    OBVIOUS
  <2>2. PICK j \in Bad : \A k \in Bad : j <= k
    <3>1. Bad \in SUBSET Nat
      OBVIOUS
    <3> HIDE DEF Bad
    <3> QED
      BY <2>1, <3>1, LeastNumber
  <2>3. j \in Nat /\ j <= n - 2 /\ Num(s[n - j]) # Num(h) - j - 1
    OBVIOUS
  <2>4. PICK e \in 2 .. n : e = n - j
    BY <1>1, <2>3
  <2>5. e \in 1 .. n /\ e # 1
    BY <1>1, <2>4
  <2>6. LET above == IF e = n THEN h ELSE s[e + 1]
        IN above # Genesis /\ s[e] = Parent(above)
    BY <1>1, <2>5 DEF Leads
  <2>7. CASE e = n
    <3>1. Num(s[e]) = Num(h) - 1 /\ j = 0
      BY <1>1, <1>3, <2>3, <2>4, <2>6, <2>7
    <3> QED
      BY <1>2, <2>3, <2>4, <3>1
  <2>8. CASE e # n
    <3>1. PICK k \in Nat : k = j - 1 /\ n - k = e + 1 /\ k <= n - 2 /\ ~(j <= k) /\ j = k + 1
      BY <1>1, <2>3, <2>4, <2>8
    <3>2. k \notin Bad
      <4> HIDE DEF Bad
      <4> QED
        BY <2>2, <3>1
    <3>3. Num(s[e + 1]) = Num(h) - k - 1
      BY <3>1, <3>2
    <3>4. e + 1 \in 1 .. n
      BY <1>1, <2>5, <2>8
    <3>5. Num(s[e]) = Num(s[e + 1]) - 1
      BY <1>2, <1>3, <2>6, <2>8, <3>4
    <3>6. Num(h) - k - 1 - 1 = Num(h) - j - 1
      BY <1>2, <3>1
    <3> QED
      BY <2>3, <2>4, <3>3, <3>5, <3>6
  <2> QED
    BY <2>7, <2>8
<1>5. PICK j \in Nat : j = n - i /\ j <= n - 2 /\ n - j = i
  <2>1. i \in 2 .. n
    BY <1>1
  <2>2. n - i \in Nat /\ n - i <= n - 2 /\ n - (n - i) = i
    BY ONLY <2>1, n \in Nat
  <2> QED
    BY <2>2
<1>6. j \notin Bad
  <2> HIDE DEF Bad
  <2> QED
    BY <1>4
<1> QED
  BY <1>1, <1>5, <1>6

(* The lowest state is not above the state there is.                       *)
LEMMA LowestFacts ==
    ASSUME NEW s \in Seq(States), NEW h \in States, Leads(s, h)
    PROVE  Lowest(s, h) \in Nat /\ Lowest(s, h) <= Num(h)
<1>1. PICK n \in Nat : n = Len(s)
  OBVIOUS
<1>2. Num(h) \in Nat /\ \A k \in 1 .. n : s[k] \in States /\ Num(s[k]) \in Nat
  BY <1>1, StatesAreSequences
<1>3. \A x \in States : x # Genesis => Num(Parent(x)) = Num(x) - 1
  BY ParentFacts DEF States
<1>4. CASE s = <<>>
  BY <1>2, <1>4 DEF Lowest
<1>5. CASE n = 1
  <2>1. s[1] = h \/ (h # Genesis /\ s[1] = Parent(h))
    BY <1>1, <1>5 DEF Leads
  <2>2. 1 \in 1 .. n /\ s # <<>>
    <3>1. 1 \in 1 .. n
      BY <1>5
    <3>2. s = <<>> => Len(s) = 0
      OBVIOUS
    <3> QED
      BY ONLY <1>1, <1>5, <3>1, <3>2
  <2> QED
    BY <1>2, <1>3, <2>1, <2>2 DEF Lowest
<1>6. CASE n >= 2
  <2>1. 1 \in 1 .. n /\ 2 \in 1 .. n /\ 2 \in 2 .. n /\ 1 # n /\ s # <<>> /\ 1 + 1 = 2
    BY <1>1, <1>6
  <2>2. s[1] = s[2] \/ (s[2] # Genesis /\ s[1] = Parent(s[2]))
    BY <1>1, <2>1 DEF Leads
  <2>3. Num(s[2]) = Num(h) - (n - 2) - 1
    BY <1>1, <2>1, LevelNumbers
  <2>4. Num(s[1]) <= Num(s[2])
    BY <1>2, <1>3, <2>1, <2>2
  <2>5. Num(s[1]) <= Num(h)
    BY <1>2, <1>6, <2>1, <2>3, <2>4
  <2> QED
    BY <1>2, <2>1, <2>5 DEF Lowest
<1>7. n = 0 => s = <<>>
  BY <1>1, EmptySeq
<1>8. n = 0 \/ n = 1 \/ n >= 2
  OBVIOUS
<1> QED
  BY <1>4, <1>5, <1>6, <1>7, <1>8

(* Cutting the levels to max leaves so many, or all.                       *)
LEMMA TrimmedLowest ==
    ASSUME NEW s \in Seq(States), NEW h \in States, Leads(s, h), NEW max \in Int
    PROVE  \/ Lowest(Trimmed(s, max), h) \in {Lowest(s, h), Num(h) - max}
           \/ max < 0 /\ Lowest(Trimmed(s, max), h) = Num(h)
<1>1. PICK n \in Nat : n = Len(s)
  OBVIOUS
<1>2. Num(h) \in Int
  BY StatesAreSequences
<1>3. CASE n <= max
  BY <1>1, <1>3 DEF Trimmed
<1>4. CASE n > max /\ max <= 0
  <2>1. SubSeq(s, Len(s) - max + 1, Len(s)) = << >>
    BY <1>1, <1>4, SubSeqEmpty
  <2>2. Lowest(Trimmed(s, max), h) = Num(h)
    BY <1>1, <1>4, <2>1 DEF Trimmed, Lowest
  <2> QED
    BY <1>2, <1>4, <2>2
<1>5. CASE n > max /\ max > 0
  <2> DEFINE t == SubSeq(s, n - max + 1, n)
  <2>1. PICK d \in 2 .. n : d = n - max + 1
    BY <1>5
  <2>2. \A i \in d .. n : s[i] \in States
    BY <1>1, <2>1
  <2>3. /\ t \in Seq(States)
        /\ Len(t) = IF d <= n THEN n - d + 1 ELSE 0
        /\ \A i \in 1 .. n - d + 1 : t[i] = s[d + i - 1]
    BY <1>1, <2>1, <2>2, SubSeqProperties
  <2>4. 1 \in 1 .. n - d + 1 /\ d + 1 - 1 = d
    BY <2>1
  <2>5. t # <<>> /\ t[1] = s[d]
    <3>1. Len(<<>>) = 0 /\ n - d + 1 # 0 /\ d <= n
      BY <2>1
    <3> HIDE DEF t
    <3> QED
      BY <2>3, <2>4, <3>1
  <2>6. Num(s[d]) = Num(h) - (n - d) - 1
    BY <1>1, <2>1, LevelNumbers
  <2>7. Num(h) - (n - d) - 1 = Num(h) - max
    BY <1>2, <2>1
  <2>8. Trimmed(s, max) = t
    BY <1>1, <1>5 DEF Trimmed
  <2> HIDE DEF t
  <2> QED
    BY <2>5, <2>6, <2>7, <2>8 DEF Lowest
<1> QED
  BY <1>3, <1>4, <1>5

(* Where a block is applied, and where one failed.                         *)
LEMMA OpenedLowest ==
    ASSUME NEW s \in Seq(States), NEW h \in States, Leads(s, h), NEW max \in Nat, NEW b
    PROVE  /\ Lowest(Opened(s, max, h), b) \in {Lowest(s, h), Num(h) - max}
           /\ Lowest(Reopened(s, max, h), h) \in {Lowest(s, h), Num(h) - max}
<1>1. CASE s = <<>>
  <2>1. Opened(s, max, h) = <<h, h>> /\ Reopened(s, max, h) = <<h>>
    BY <1>1 DEF Opened, Reopened
  <2>2. <<h, h>> # <<>> /\ <<h, h>>[1] = h /\ <<h>> # <<>> /\ <<h>>[1] = h
    OBVIOUS
  <2> QED
    BY <1>1, <2>1, <2>2 DEF Lowest
<1>2. CASE s # <<>>
  <2>1. PICK t : t = Trimmed(s, max)
    OBVIOUS
  <2>2. t \in Seq(States) /\ Lowest(t, h) \in {Lowest(s, h), Num(h) - max}
    BY <2>1, TrimmedLeads, TrimmedLowest
  <2>3. Opened(s, max, h) = Append(t, h) /\ Reopened(s, max, h) = t
    BY <1>2, <2>1 DEF Opened, Reopened
  <2>4. Append(t, h) # <<>> /\ Append(t, h)[1] = IF t = <<>> THEN h ELSE t[1]
    <3>1. CASE t = <<>>
      BY <3>1
    <3>2. CASE t # <<>>
      <4>1. Len(t) \in Nat \ {0}
        BY <2>2, <3>2, EmptySeq
      <4> QED
        BY <2>2, <3>2, <4>1
    <3> QED
      BY <3>1, <3>2
  <2>5. Lowest(Append(t, h), b) = Lowest(t, h)
    BY <2>4 DEF Lowest
  <2> QED
    BY <2>2, <2>3, <2>5
<1> QED
  BY <1>1, <1>2

(* Going back by a level changes nothing below.                            *)
LEMMA PoppedLowest ==
    ASSUME NEW s \in Seq(States), NEW h, s # <<>>
    PROVE  Lowest(SubSeq(s, 1, Len(s) - 1), s[Len(s)]) = Lowest(s, h)
<1>1. PICK n \in Nat \ {0} : n = Len(s)
  BY EmptySeq
<1>2. \A i \in 1 .. n - 1 : s[i] \in States
  BY <1>1
<1>3. PICK t : t = SubSeq(s, 1, n - 1)
  OBVIOUS
<1>4. /\ t \in Seq(States)
      /\ Len(t) = IF 1 <= n - 1 THEN (n - 1) - 1 + 1 ELSE 0
      /\ \A i \in 1 .. (n - 1) - 1 + 1 : t[i] = s[1 + i - 1]
  BY <1>1, <1>2, <1>3, SubSeqProperties
<1>5. CASE n = 1
  <2>1. t = <<>>
    BY <1>4, <1>5, EmptySeq
  <2> QED
    BY <1>1, <1>3, <1>5, <2>1 DEF Lowest
<1>6. CASE n # 1
  <2>1. 1 \in 1 .. (n - 1) - 1 + 1 /\ 1 + 1 - 1 = 1 /\ Len(t) # 0
    BY <1>1, <1>4, <1>6
  <2>2. t # <<>> /\ t[1] = s[1]
    BY <1>4, <2>1
  <2> QED
    BY <1>1, <1>3, <2>2 DEF Lowest
<1> QED
  BY <1>5, <1>6

(* So pop_block finds the level of the block it pops.                      *)
LEMMA DeepReaches ==
    ASSUME CoreInv, SwitchInv, NoSwitchFails, DeepInv
    PROVE  HistoryReaches
<1> SUFFICES ASSUME task.phase = "pop" PROVE saved # <<>> /\ saved[Len(saved)] # head
  BY DEF HistoryReaches, NoSwitchFails
<1>1. task.phase \in SwitchPhases
  BY DEF SwitchPhases
<1>2. saved \in Seq(States) /\ head \in States /\ Leads(saved, head)
  BY CoreParts DEF StateInv, LevelsLeadBack, Leads
<1>3. /\ task.origin \in Blocks /\ task.target \in Blocks /\ task.point \in Nat
      /\ Num(task.origin) \in Nat /\ Num(task.target) \in Nat /\ Num(head) \in Nat
  BY <1>1, SwitchFacts
<1>4. Num(head) > task.point /\ Num(task.target) > Num(task.origin)
  BY DEF SwitchInv, OnTheWay, ForkFollows
<1>5. ~OnBranch(task.target, task.origin)
  BY <1>3, <1>4 DEF OnBranch
<1>6. Lowest(saved, head) <= task.point
  BY <1>3, <1>5 DEF DeepInv, PartAbove
<1>7. Lowest(saved, head) < Num(head)
  <2>1. Lowest(saved, head) \in Nat
    BY <1>2, LowestFacts
  <2> QED
    BY <1>3, <1>4, <1>6, <2>1
<1>8. saved # <<>>
  BY <1>3, <1>7 DEF Lowest
<1>9. PICK n \in Nat \ {0} : n = Len(saved)
  BY <1>2, <1>8, EmptySeq
<1>10. CASE n = 1
  BY <1>3, <1>7, <1>8, <1>9, <1>10 DEF Lowest
<1>11. CASE n # 1
  <2>1. head # Genesis /\ saved[n] = Parent(head)
    BY <1>2, <1>9, <1>11 DEF Leads
  <2>2. Num(Parent(head)) = Num(head) - 1
    BY <1>2, <2>1, ParentFacts DEF States
  <2> QED
    BY <1>3, <1>8, <1>9, <2>1, <2>2
<1> QED
  BY <1>10, <1>11

(* A block of the branch of t is applied.                                  *)
LEMMA AppliedDeep ==
    ASSUME IrreversibleShared, CoreInv, NEW b \in Blocks, Parent(b) = head, NEW f, NEW id,
           Applied(b, f, id), NEW t \in Blocks, OnBranch(b, t),
           PartAbove(t, Lowest(saved, head)), PartAbove(t, Num(head) - max_size)
    PROVE  /\ PartAbove(t, Lowest(saved', head'))
           /\ PartAbove(t, Num(b) - max_size' + 1)
<1>1. saved \in Seq(States) /\ head \in States /\ Leads(saved, head) /\ max_size \in Nat
  BY CoreParts DEF StateInv, LevelsLeadBack, Leads
<1>2. head' = b /\ saved' = Opened(saved, max_size, head) /\ max_size' = HistorySize(b)
  BY DEF Applied
<1>3. Lowest(saved', head') \in {Lowest(saved, head), Num(head) - max_size}
  BY <1>1, <1>2, OpenedLowest
<1>4. PICK n \in Int : n = Irreversible(Parent(b)) /\ Num(b) - HistorySize(b) + 1 = n
  <2>1. Irreversible(Parent(b)) \in 0 .. Num(b) - 1 /\ Num(b) \in Nat
    BY ParentFacts, IrreversibleFacts
  <2>2. PICK n \in Int : n = Irreversible(Parent(b))
    BY <2>1
  <2>3. Num(b) - HistorySize(b) + 1 = n
    BY <2>1, <2>2 DEF HistorySize
  <2> QED
    BY <2>2, <2>3
<1>5. PartAbove(t, n)
  BY <1>4, PartAboveIrreversible, PartAboveHigher
<1> QED
  BY <1>2, <1>3, <1>4, <1>5

(* Cutting the levels of an idle node leaves enough of them.               *)
LEMMA IdleDeep ==
    ASSUME CoreInv, DeepInv, task.phase = "idle", task'.phase = "idle",
           UNCHANGED <<head, max_size>>,
           Lowest(saved', head) \in {Lowest(saved, head), Num(head) - max_size,
                                     Num(head) - (max_size - 1)}
    PROVE  DeepInv'
<1>1. head \in States /\ max_size \in Nat
  BY CoreParts DEF StateInv
<1>2. ASSUME head # Genesis
      PROVE  PartAbove(head, Lowest(saved', head)) /\ PartAbove(head, Num(head) - max_size + 1)
  <2>1. head \in Blocks
    BY <1>1, <1>2 DEF States
  <2>2. PartAbove(head, Lowest(saved, head)) /\ PartAbove(head, Num(head) - max_size + 1)
    BY <1>2 DEF DeepInv
  <2>3. PICK n \in Int : /\ n = Num(head) - max_size + 1 /\ n - 1 = Num(head) - max_size
                         /\ n = Num(head) - (max_size - 1) /\ n - 1 \in Int /\ n - 1 <= n
    <3>1. Num(head) \in Nat
      BY <2>1, ParentFacts
    <3> QED
      BY <1>1, <3>1
  <2>4. PartAbove(head, n - 1)
    BY <2>1, <2>2, <2>3, PartAboveLower
  <2> QED
    BY <2>2, <2>3, <2>4
<1> QED
  BY <1>2 DEF DeepInv

(* A block arrives.                                                        *)
LEMMA PushBlockDeep ==
    ASSUME IrreversibleShared, CoreInv, SwitchInv, DeepInv, NEW b \in Blocks, push_block(b)
    PROVE  DeepInv'
<1>1. PICK f : f = Linked(fork_db, b, max_size)
  OBVIOUS
<1>2. PICK point : point = ForkPoint(f.head, head)
  OBVIOUS
<1>3. /\ task = Idle /\ ~Refused(fork_db, b, max_size)
      /\ \/ Applies(b) /\ Applied(b, f, b) /\ UNCHANGED task
         \/ /\ saved' = Reopened(saved, max_size, head)
            /\ UNCHANGED <<head, max_size, task>>
         \/ /\ Num(f.head) > Num(head) /\ Traced(f, head, point)
            /\ task' = [phase |-> "pop", new |-> b, target |-> f.head,
                        origin |-> head, point |-> point]
            /\ UNCHANGED <<head, saved, max_size>>
         \/ UNCHANGED <<head, saved, max_size, task>>
  BY <1>1, <1>2 DEF push_block
<1>4. task.phase = "idle"
  BY <1>3 DEF Idle
<1>5. saved \in Seq(States) /\ head \in States /\ Leads(saved, head) /\ max_size \in Nat
  BY CoreParts DEF StateInv, LevelsLeadBack, Leads
<1>6. CASE Applies(b) /\ Applied(b, f, b) /\ UNCHANGED task
  <2>1. Parent(b) = head /\ b \in States /\ Num(b) \in Nat \ {0} /\ Num(head) = Num(b) - 1
    BY <1>6, ParentFacts DEF Applies
  <2>2. OnBranch(b, b)
    BY <2>1, OnBranchFacts
  <2>3. Lowest(saved, head) \in Nat /\ Lowest(saved, head) <= Num(head)
    BY <1>5, LowestFacts
  <2>4. PICK n \in Int : /\ n = Num(head) - max_size + 1 /\ Num(head) - max_size \in Int
                         /\ Num(head) - max_size <= n
    BY <1>5, <2>1
  <2>5. PartAbove(b, Lowest(saved, head)) /\ PartAbove(b, Num(head) - max_size)
    <3>1. CASE head = Genesis
      <4>1. Num(head) = 0
        BY <3>1, StatesAreSequences DEF States
      <4>2. Lowest(saved, head) <= 0 /\ Num(head) - max_size <= 0
        BY <1>5, <2>3, <4>1
      <4> QED
        BY <2>3, <2>4, <4>2, PartAboveLower
    <3>2. CASE head # Genesis
      <4>1. head \in Blocks /\ OnBranch(head, b)
        <5>1. head \in Blocks
          BY <1>5, <3>2 DEF States
        <5> QED
          BY <2>1, <2>2, <5>1, ParentOnBranch
      <4>2. PartAbove(head, Lowest(saved, head)) /\ PartAbove(head, n)
        BY <1>4, <2>4, <3>2 DEF DeepInv
      <4>3. PartAbove(b, Lowest(saved, head)) /\ PartAbove(b, n)
        BY <2>3, <4>1, <4>2, PartAboveHigher
      <4> QED
        BY <2>4, <4>3, PartAboveLower
    <3> QED
      BY <3>1, <3>2
  <2>6. PartAbove(b, Lowest(saved', head')) /\ PartAbove(b, Num(b) - max_size' + 1)
    BY <1>6, <2>1, <2>2, <2>5, AppliedDeep
  <2>7. head' = b /\ task'.phase = "idle"
    BY <1>4, <1>6 DEF Applied
  <2> QED
    BY <2>6, <2>7 DEF DeepInv
<1>7. CASE saved' = Reopened(saved, max_size, head) /\ UNCHANGED <<head, max_size, task>>
  <2>1. Lowest(saved', head) \in {Lowest(saved, head), Num(head) - max_size}
    BY <1>5, <1>7, OpenedLowest
  <2> QED
    BY <1>4, <1>7, <2>1, IdleDeep
<1>8. CASE UNCHANGED <<head, saved, max_size, task>>
  BY <1>4, <1>8, IdleDeep
<1>9. CASE /\ Num(f.head) > Num(head) /\ Traced(f, head, point)
           /\ task' = [phase |-> "pop", new |-> b, target |-> f.head,
                       origin |-> head, point |-> point]
           /\ UNCHANGED <<head, saved, max_size>>
  <2>1. head # Genesis
    <3>1. ForkTyped(f)
      BY <1>1, <1>3, CoreParts, LinkedTyped
    <3>2. head \in Blocks
      BY <1>9, <3>1 DEF Traced, ForkTyped
    <3> QED
      BY <3>2, BlocksAssumption
  <2>2. PartAbove(head, Lowest(saved, head)) /\ PartAbove(head, Num(head) - max_size + 1)
    BY <1>4, <2>1 DEF DeepInv
  <2>3. /\ task'.phase = "pop" /\ task'.target = f.head /\ task'.origin = head
        /\ task'.point = ForkPoint(f.head, head)
    BY <1>2, <1>9
  <2> QED
    BY <1>9, <2>2, <2>3 DEF DeepInv
<1> QED
  BY <1>3, <1>6, <1>7, <1>8, <1>9

(* A transaction is pending.                                               *)
LEMMA PushTransactionDeep ==
    ASSUME CoreInv, DeepInv, push_transaction(1)
    PROVE  DeepInv'
<1>1. /\ task = Idle /\ task.phase = "idle" /\ UNCHANGED <<head, max_size, task>>
      /\ saved' = IF saved = <<>> THEN <<head>> ELSE Trimmed(saved, max_size - 1)
  BY DEF push_transaction, Idle
<1>2. saved \in Seq(States) /\ head \in States /\ Leads(saved, head) /\ max_size \in Nat
  BY CoreParts DEF StateInv, LevelsLeadBack, Leads
<1>3. CASE saved = <<>>
  <2>1. <<head>> # <<>> /\ <<head>>[1] = head
    OBVIOUS
  <2>2. Lowest(saved', head) = Lowest(saved, head)
    BY <1>1, <1>3, <2>1 DEF Lowest
  <2> QED
    BY <1>1, <2>2, IdleDeep
<1>4. CASE saved # <<>> /\ max_size # 0
  <2>1. max_size - 1 \in Int /\ ~(max_size - 1 < 0)
    BY <1>2, <1>4
  <2>2. Lowest(Trimmed(saved, max_size - 1), head)
           \in {Lowest(saved, head), Num(head) - (max_size - 1)}
    BY <1>2, <2>1, TrimmedLowest
  <2>3. Lowest(saved', head) \in {Lowest(saved, head), Num(head) - (max_size - 1)}
    BY <1>1, <1>4, <2>2
  <2> QED
    BY <1>1, <2>3, IdleDeep
<1>5. CASE saved # <<>> /\ max_size = 0
  <2>1. max_size - 1 \in Int /\ Num(head) \in Nat
    BY <1>2, StatesAreSequences
  <2>2. Num(head) = Num(head) - max_size
    BY <1>5, <2>1
  <2>3. \/ Lowest(saved', head) \in {Lowest(saved, head), Num(head) - (max_size - 1)}
        \/ Lowest(saved', head) = Num(head)
    BY <1>1, <1>2, <1>5, <2>1, TrimmedLowest
  <2> QED
    BY <1>1, <2>2, <2>3, IdleDeep
<1> QED
  BY <1>3, <1>4, <1>5

(* One block of the old fork is popped.                                    *)
LEMMA SwitchPopDeep ==
    ASSUME CoreInv, SwitchInv, DeepInv, HistoryReaches, switch_pop
    PROVE  DeepInv'
<1>1. task.phase = "pop" /\ PopTo("apply") /\ task.phase \in SwitchPhases
      /\ "apply" \in SwitchPhases
  BY DEF switch_pop, SwitchPhases
<1>2. /\ head \in Blocks /\ Reverted /\ head' = Parent(head)
      /\ task' = IF head' = Point THEN [task EXCEPT !.phase = "apply"] ELSE task
  BY <1>1, PopsParent
<1>3. saved \in Seq(States) /\ head \in States /\ Leads(saved, head) /\ max_size \in Nat
  BY CoreParts DEF StateInv, LevelsLeadBack, Leads
<1>4. saved # <<>>
  BY <1>1 DEF HistoryReaches
<1>5. Lowest(saved', head') = Lowest(saved, head) /\ max_size' = max_size
  <2>1. head' = saved[Len(saved)] /\ saved' = SubSeq(saved, 1, Len(saved) - 1)
        /\ max_size' = max_size
    BY <1>2, <1>4 DEF Reverted
  <2> QED
    BY <1>3, <1>4, <2>1, PoppedLowest
<1>6. /\ task.point = ForkPoint(task.target, task.origin)
      /\ PartAbove(task.origin, Lowest(saved, head))
      /\ PartAbove(task.origin, Num(task.origin) - max_size + 1)
  BY <1>1 DEF DeepInv
<1>7. CASE head' # Point
  <2>1. task' = task
    BY <1>2, <1>7
  <2> QED
    BY <1>1, <1>5, <1>6, <2>1 DEF DeepInv
<1>8. CASE head' = Point
  <2>1. task'.phase = "apply" /\ task'.target = task.target
    BY <1>1, <1>2, <1>8, SwitchFacts
  <2>2. /\ task.origin \in Blocks /\ task.target \in Blocks
        /\ Num(task.origin) \in Nat /\ Num(task.target) \in Nat
    BY <1>1, SwitchFacts
  <2>3. ~OnBranch(task.target, task.origin)
    BY <1>1, <2>2 DEF SwitchInv, ForkFollows, OnBranch
  <2>4. Lowest(saved, head) \in Int
    BY <1>3, LowestFacts
  <2>5. PartAbove(task.target, Lowest(saved, head))
    BY <1>6, <2>2, <2>3, <2>4, PartAboveOther
  <2>6. PICK n \in Int, m \in Int :
           /\ n = Num(task.origin) - max_size + 1 /\ m = Num(head') - max_size /\ m <= n
    <3>1. Num(head) \in Nat \ {0} /\ Num(head') = Num(head) - 1
      BY <1>2, ParentFacts
    <3>2. Num(head) <= Num(task.origin)
      BY <1>1 DEF SwitchInv, OnTheWay, OnBranch
    <3>3. Num(task.origin) - max_size + 1 \in Int /\ Num(head') - max_size \in Int
          /\ Num(head') - max_size <= Num(task.origin) - max_size + 1
      BY <1>3, <2>2, <3>1, <3>2
    <3> QED
      BY <3>3
  <2>7. PartAbove(task.target, n)
    BY <1>6, <2>2, <2>3, <2>6, PartAboveOther
  <2>8. PartAbove(task.target, m)
    BY <2>2, <2>6, <2>7, PartAboveLower
  <2> QED
    BY <1>5, <2>1, <2>5, <2>6, <2>8 DEF DeepInv
<1> QED
  BY <1>7, <1>8

(* One block of the new fork is applied.                                   *)
LEMMA SwitchApplyDeep ==
    ASSUME IrreversibleShared, CoreInv, SwitchInv, DeepInv, switch_apply
    PROVE  DeepInv'
<1>1. task.phase = "apply" /\ task.phase \in SwitchPhases
      /\ "unwind" \in SwitchPhases /\ "restore" \in SwitchPhases
  BY DEF switch_apply, SwitchPhases
<1>2. PICK b : b = Prefix(task.target, Num(head) + 1)
  OBVIOUS
<1>3. \/ /\ Applied(b, fork_db, b) /\ task' = IF b = task.target THEN Idle ELSE task
      \/ task' = [task EXCEPT !.phase = IF head = Point THEN "restore" ELSE "unwind"]
  BY <1>2 DEF switch_apply
<1>4. /\ task.target \in Blocks /\ task.target \in States /\ head \in States
      /\ Num(task.target) \in Nat
  BY <1>1, SwitchFacts
<1>5. OnBranch(head, task.target) /\ Num(head) < Num(task.target)
  BY <1>1 DEF SwitchInv, OnTheWay
<1>6. b \in Blocks /\ Parent(b) = head /\ OnBranch(b, task.target)
  BY <1>2, <1>4, <1>5, NextOnBranch
<1>7. /\ PartAbove(task.target, Lowest(saved, head))
      /\ PartAbove(task.target, Num(head) - max_size)
  BY <1>1 DEF DeepInv
<1>8. CASE Applied(b, fork_db, b) /\ task' = IF b = task.target THEN Idle ELSE task
  <2>1. /\ PartAbove(task.target, Lowest(saved', head'))
        /\ PartAbove(task.target, Num(b) - max_size' + 1)
    BY <1>4, <1>6, <1>7, <1>8, AppliedDeep
  <2>2. head' = b /\ max_size' = HistorySize(b)
    BY <1>8 DEF Applied
  <2>3. CASE b = task.target
    <3>1. task'.phase = "idle"
      BY <1>8, <2>3 DEF Idle
    <3> QED
      BY <2>1, <2>2, <2>3, <3>1 DEF DeepInv
  <2>4. CASE b # task.target
    <3>1. task' = task
      BY <1>8, <2>4
    <3>2. PICK n \in Int, m \in Int : n = Num(b) - max_size' + 1 /\ m = Num(b) - max_size' /\ m <= n
      <4>1. Num(b) \in Nat /\ max_size' \in Nat
        BY <1>6, <2>2, ParentFacts, HistorySizeFacts
      <4>2. Num(b) - max_size' + 1 \in Int /\ Num(b) - max_size' \in Int
            /\ Num(b) - max_size' <= Num(b) - max_size' + 1
        BY <4>1
      <4> QED
        BY <4>2
    <3>3. PartAbove(task.target, m)
      BY <1>4, <2>1, <3>2, PartAboveLower
    <3> QED
      BY <1>1, <2>1, <2>2, <3>1, <3>2, <3>3 DEF DeepInv
  <2> QED
    BY <2>3, <2>4
<1>9. CASE task' = [task EXCEPT !.phase = IF head = Point THEN "restore" ELSE "unwind"]
  <2>1. task'.phase \in {"restore", "unwind"}
    BY <1>1, <1>9, SwitchFacts
  <2> QED
    BY <2>1 DEF DeepInv
<1> QED
  BY <1>3, <1>8, <1>9

(* Every step of a node none of whose switches fails.                      *)
LEMMA DeepNext ==
    ASSUME IrreversibleShared, Nested \subseteq {1}, CoreInv, SwitchInv, NoSwitchFails, DeepInv,
           [Running]_vars
    PROVE  DeepInv'
<1>1. ASSUME NEW b \in Blocks, push_block(b) PROVE DeepInv'
  BY <1>1, PushBlockDeep
<1>2. ASSUME NEW k \in Nested, push_transaction(k) PROVE DeepInv'
  BY <1>2, PushTransactionDeep
<1>3. HistoryReaches
  BY DeepReaches
<1>4. CASE switch_pop
  BY <1>3, <1>4, SwitchPopDeep
<1>5. CASE switch_apply
  BY <1>5, SwitchApplyDeep
<1>6. ~restore_pop /\ ~restore_apply
  BY DEF restore_pop, restore_apply, NoSwitchFails
<1>7. CASE pop_throws
  <2>1. task.phase = "pop" /\ ~CanPop /\ task' = Idle /\ UNCHANGED <<head, saved, max_size>>
    BY <1>7 DEF pop_throws, NoSwitchFails
  <2>2. head = task.origin
    BY <2>1, PopsGoOn
  <2>3. task'.phase = "idle"
    BY <2>1 DEF Idle
  <2> QED
    BY <2>1, <2>2, <2>3 DEF DeepInv
<1>8. CASE UNCHANGED vars
  BY <1>8 DEF vars, DeepInv
<1> QED
  BY <1>1, <1>2, <1>4, <1>5, <1>6, <1>7, <1>8 DEF Running, Switching

(* A node starts without a block.                                          *)
LEMMA DeepInit == Init => CoreInv /\ SwitchInv /\ NoSwitchFails /\ DeepInv
<1> SUFFICES ASSUME Init PROVE NoSwitchFails /\ DeepInv
  BY CoreInit, SwitchInit
<1>1. task.phase = "idle" /\ head = Genesis
  BY DEF Init, Idle
<1> QED
  BY <1>1 DEF NoSwitchFails, DeepInv

(* On forks that share what was irreversible on one of them, the history   *)
(* of a node lasts as long as no switch fails, if proposals do not take up *)
(* levels: update_global_dynamic_data keeps one level more than the blocks *)
(* behind the last irreversible one, and a pending session takes one.      *)
THEOREM HistoryLasts ==
    ASSUME IrreversibleShared, Nested \subseteq {1}
    PROVE  RunningSpec /\ []NoSwitchFails => []HistoryReaches
<1>1. CoreInv /\ SwitchInv /\ NoSwitchFails /\ DeepInv /\ [Running]_vars
         => CoreInv' /\ SwitchInv' /\ DeepInv'
  <2> SUFFICES ASSUME CoreInv, SwitchInv, NoSwitchFails, DeepInv, [Running]_vars
               PROVE  CoreInv' /\ SwitchInv' /\ DeepInv'
    OBVIOUS
  <2>1. [Running \/ Restarting]_vars
    OBVIOUS
  <2>2. UnwindPops /\ HistoryReaches
    BY DeepReaches DEF UnwindPops, NoSwitchFails
  <2> QED
    BY <2>1, <2>2, CoreNext, SwitchNext, DeepNext
<1>2. CoreInv /\ SwitchInv /\ NoSwitchFails /\ DeepInv => HistoryReaches
  BY DeepReaches
<1> QED
  BY <1>1, <1>2, DeepInit, PTL DEF RunningSpec

(* So a node that is sent valid blocks only, in any order, on forks that   *)
(* share what was irreversible on one of them, completes every switch, and *)
(* its log holds all of the applied chain between two calls.               *)
THEOREM SharedForksComplete ==
    ASSUME IrreversibleShared, Nested \subseteq {1}, Valid = Blocks
    PROVE  RunningSpec => SwitchCompletes /\ []BlockLogMatches
<1>1. CoreInv /\ SwitchInv /\ NoSwitchFails /\ DeepInv /\ [Running]_vars
         => CoreInv' /\ SwitchInv' /\ NoSwitchFails' /\ DeepInv'
  <2> SUFFICES ASSUME CoreInv, SwitchInv, NoSwitchFails, DeepInv, [Running]_vars
               PROVE  CoreInv' /\ SwitchInv' /\ NoSwitchFails' /\ DeepInv'
    OBVIOUS
  <2>1. [Running \/ Restarting]_vars
    OBVIOUS
  <2>2. UnwindPops /\ HistoryReaches
    BY DeepReaches DEF UnwindPops, NoSwitchFails
  <2> QED
    BY <2>1, <2>2, CoreNext, SwitchNext, ValidNext, DeepNext
<1>2. RunningSpec => []NoSwitchFails
  BY <1>1, DeepInit, PTL DEF RunningSpec
<1> QED
  BY <1>2, HistoryLasts, ValidForksComplete, PTL
-----------------------------------------------------------------------------
(***************************************************************************)
(* Which fork a node follows.  Dead items of the index are no obstacle to  *)
(* a switch if they are not above the first block behind where forks part. *)
(***************************************************************************)
NoneAbove(f, n) == \A x \in f.index : Num(x) <= n

DeadBelow(f, b) == \A d \in f.dead : PartAbove(b, Num(d) - 1)

(* Nothing the index has is higher than the head between two calls, nor    *)
(* than the new head of a switch; the fork database finds its way along    *)
(* both forks of it.  A node whose first block is not the first of a chain *)
(* stays without blocks.                                                   *)
FollowInv ==
    /\ max_size >= 1
    /\ fork_db.head = None => fork_db.index = {} /\ head = Genesis /\ task.phase = "idle"
    /\ task.phase = "idle" /\ head = Genesis /\ fork_db.head # None => Num(fork_db.head) > 1
    /\ task.phase = "idle" /\ head # Genesis =>
          /\ head \in fork_db.index /\ Num(fork_db.head) <= Num(head)
          /\ NoneAbove(fork_db, Num(head)) /\ DeadBelow(fork_db, head)
    /\ task.phase = "pop" =>
          /\ Num(task.target) = Num(task.origin) + 1 /\ fork_db.cut = FALSE
          /\ NoneAbove(fork_db, Num(task.target)) /\ DeadBelow(fork_db, task.origin)
    /\ task.phase = "apply" =>
          /\ task.target \in fork_db.index /\ Num(fork_db.head) <= Num(head) + 1
          /\ NoneAbove(fork_db, Num(task.target)) /\ DeadBelow(fork_db, task.target)

(* What is left of the index when it is cut at a number.                   *)
LEMMA CutFacts ==
    ASSUME NEW f, ForkTyped(f), NEW m \in Int, NEW g, g = Erased(f, OlderThan(f, m))
    PROVE  /\ ForkTyped(g) /\ g.head = f.head /\ g.index \subseteq f.index
           /\ \A x \in f.index : x \in g.index <=> ~(Num(x) < m)
           /\ \A d \in g.dead : d \in f.dead \/ Num(d) <= m
           /\ \A t \in Blocks : DeadBelow(f, t) /\ PartAbove(t, m - 1) => DeadBelow(g, t)
           /\ f.cut = FALSE /\ f.head # None /\ ~(Num(Parent(f.head)) < m) => g.cut = FALSE
<1> DEFINE gone == OlderThan(f, m)
           dead == (f.dead \cup {x \in f.index : Parent(x) \in gone}) \ gone
           cut  == f.cut \/ (f.head # None /\ Parent(f.head) \in gone)
<1>1. g = [index |-> f.index \ gone, dead |-> dead, head |-> f.head, cut |-> cut]
  <2>1. g = [f EXCEPT !.index = f.index \ gone, !.dead = dead, !.cut = cut]
    BY DEF Erased
  <2> HIDE DEF dead, cut
  <2> QED
    BY <2>1 DEF ForkTyped
<1>2. g.index = f.index \ gone /\ g.dead = dead /\ g.head = f.head /\ g.cut = cut
  <2> HIDE DEF dead, cut, gone
  <2> QED
    BY <1>1
<1>3. ForkTyped(g)
  BY ErasedTyped
<1>4. \A x \in f.index : x \in gone <=> Num(x) < m
  BY DEF OlderThan
<1>5. ASSUME NEW d \in g.dead PROVE d \in Blocks /\ (d \in f.dead \/ Num(d) <= m)
  <2>1. d \in f.dead \/ (d \in f.index /\ Parent(d) \in gone)
    BY <1>2, <1>5
  <2>2. d \in Blocks
    BY <2>1 DEF ForkTyped
  <2>3. Parent(d) \in gone => Num(d) <= m
    BY <2>2, ParentFacts DEF OlderThan
  <2> QED
    BY <2>1, <2>2, <2>3
<1>6. ASSUME NEW t \in Blocks, DeadBelow(f, t), PartAbove(t, m - 1)
      PROVE  DeadBelow(g, t)
  <2> SUFFICES ASSUME NEW d \in g.dead PROVE PartAbove(t, Num(d) - 1)
    BY DEF DeadBelow
  <2>1. CASE d \in f.dead
    BY <1>6, <2>1 DEF DeadBelow
  <2>2. CASE Num(d) <= m
    <3>1. PICK j \in Int, k \in Int : j = Num(d) - 1 /\ k = m - 1 /\ j <= k
      <4>1. Num(d) \in Nat
        BY <1>5, ParentFacts
      <4>2. Num(d) - 1 \in Int /\ m - 1 \in Int /\ Num(d) - 1 <= m - 1
        BY <2>2, <4>1
      <4> QED
        BY <4>2
    <3> QED
      BY <1>6, <3>1, PartAboveLower
  <2> QED
    BY <1>5, <2>1, <2>2
<1>7. \A x \in f.index : x \in g.index <=> ~(Num(x) < m)
  BY <1>2, <1>4
<1>8. f.cut = FALSE /\ f.head # None /\ ~(Num(Parent(f.head)) < m) => g.cut = FALSE
  BY <1>2 DEF OlderThan
<1>9. g.index \subseteq f.index
  BY <1>2
<1> HIDE DEF gone, dead, cut
<1> QED
  BY <1>2, <1>3, <1>5, <1>6, <1>7, <1>8, <1>9

(* What an item that is linked to the fork database changes.               *)
LinkedTo(g, f, b, max) ==
    /\ ForkTyped(g) /\ g.index \subseteq f.index \cup {b}
    /\ g.head = IF f.head = None \/ Num(b) > Num(f.head) THEN b ELSE f.head
    /\ \A x \in f.index \cup {b} : ~(Num(x) < Num(b) - max) => x \in g.index
    /\ \A d \in g.dead : \/ d \in f.dead
                         \/ d = b /\ (f.head = None \/ Parent(b) = Genesis)
                         \/ f.head # None /\ Num(d) <= Num(b) - max
    /\ f.head # None /\ Num(b) > Num(f.head) =>
          /\ \A x \in g.index : ~(Num(x) < Num(b) - max)
          /\ Parent(b) # Genesis => g.cut = FALSE
    /\ f.head # None /\ ~(Num(b) > Num(f.head)) => f.dead \subseteq g.dead

(* What _push_block of the fork database changes.                          *)
LEMMA LinkedFacts ==
    ASSUME NEW f, ForkTyped(f), NEW b \in Blocks, NEW max \in Nat, max >= 1,
           NEW g, g = Linked(f, b, max)
    PROVE  LinkedTo(g, f, b, max)
<1> DEFINE loose == f.head = None \/ Parent(b) = Genesis
           high  == f.head = None \/ Num(b) > Num(f.head)
           dead  == IF loose /\ b \notin f.index THEN f.dead \cup {b} ELSE f.dead
           top   == IF high THEN b ELSE f.head
           cut   == IF high THEN loose ELSE f.cut
           added == [f EXCEPT !.index = @ \cup {b},
                              !.dead  = IF loose /\ b \notin f.index
                                        THEN @ \cup {b} ELSE @,
                              !.head  = IF high THEN b ELSE @,
                              !.cut   = IF high THEN loose ELSE @]
<1>1. added = [index |-> f.index \cup {b}, dead |-> dead, head |-> top, cut |-> cut]
  <2>1. added = [f EXCEPT !.index = f.index \cup {b}, !.dead = dead, !.head = top, !.cut = cut]
    OBVIOUS
  <2> HIDE DEF added, dead, top, cut
  <2> QED
    BY <2>1 DEF ForkTyped
<1>2. f.index \cup {b} \subseteq Blocks /\ dead \subseteq f.index \cup {b}
  BY DEF ForkTyped
<1>3. b # None /\ b \in Blocks
  BY BlocksAssumption
<1>4. cut \in BOOLEAN /\ top \in Blocks
  BY <1>3 DEF ForkTyped
<1>5. cut \/ (top # None /\ Parent(top) # Genesis)
  BY <1>3 DEF ForkTyped
<1>6. /\ ForkTyped(added) /\ added.index = f.index \cup {b} /\ added.dead = dead
      /\ added.head = top /\ added.cut = cut
  <2> HIDE DEF added, dead, top, cut
  <2> QED
    BY <1>1, <1>2, <1>4, <1>5 DEF ForkTyped
<1>7. PICK m \in Int : m = Num(b) - max /\ ~(Num(Parent(b)) < m)
  <2>1. Num(b) \in Nat /\ Num(Parent(b)) = Num(b) - 1
    BY ParentFacts
  <2>2. Num(b) - max \in Int /\ ~(Num(b) - 1 < Num(b) - max)
    BY <2>1
  <2> QED
    BY <2>1, <2>2
<1>8. g = IF f.head # None /\ high THEN Erased(added, OlderThan(added, m)) ELSE added
  BY <1>7 DEF Linked, Higher
<1>9. \A d \in added.dead : d \in f.dead \/ (d = b /\ loose)
  BY <1>6
<1>10. f.head # None /\ high /\ Parent(b) # Genesis => added.cut = FALSE /\ added.head = b
  BY <1>6
<1>11. added.head = IF high THEN b ELSE f.head
  BY <1>6
<1>12. added.index = f.index \cup {b} /\ ForkTyped(added) /\ f.dead \subseteq added.dead
  BY <1>6
<1> HIDE DEF added, dead, top, cut
<1>13. CASE f.head # None /\ high
  <2>1. g = Erased(added, OlderThan(added, m))
    BY <1>8, <1>13
  <2>2. /\ ForkTyped(g) /\ g.head = added.head /\ g.index \subseteq added.index
        /\ \A x \in added.index : x \in g.index <=> ~(Num(x) < m)
        /\ \A d \in g.dead : d \in added.dead \/ Num(d) <= m
        /\ added.cut = FALSE /\ added.head # None /\ ~(Num(Parent(added.head)) < m)
              => g.cut = FALSE
    BY <1>12, <2>1, CutFacts
  <2>3. Parent(b) # Genesis => g.cut = FALSE
    BY <1>3, <1>7, <1>10, <1>13, <2>2
  <2>4. ASSUME NEW d \in g.dead
        PROVE  \/ d \in f.dead
               \/ d = b /\ (f.head = None \/ Parent(b) = Genesis)
               \/ f.head # None /\ Num(d) <= Num(b) - max
    BY <1>7, <1>9, <1>13, <2>2, <2>4
  <2>5. g.head = b
    BY <1>11, <1>13, <2>2
  <2> QED
    BY <1>7, <1>12, <1>13, <2>2, <2>3, <2>4, <2>5 DEF LinkedTo
<1>14. CASE ~(f.head # None /\ high)
  <2>1. g = added
    BY <1>8, <1>14
  <2> QED
    BY <1>9, <1>11, <1>12, <1>14, <2>1 DEF LinkedTo
<1> QED
  BY <1>13, <1>14

(* The dead items stay below where forks part from t.                      *)
LEMMA LinkedDead ==
    ASSUME NEW f, ForkTyped(f), f.head # None, NEW b \in Blocks, NEW max \in Nat, max >= 1,
           NEW t \in Blocks, DeadBelow(f, t), PartAbove(t, Num(b) - max - 1)
    PROVE  DeadBelow(Linked(f, b, max), t)
<1>1. PICK g : g = Linked(f, b, max)
  OBVIOUS
<1> SUFFICES ASSUME NEW d \in g.dead PROVE PartAbove(t, Num(d) - 1)
  BY <1>1 DEF DeadBelow
<1>2. /\ ForkTyped(g)
      /\ \/ d \in f.dead
         \/ d = b /\ Parent(b) = Genesis
         \/ Num(d) <= Num(b) - max
  BY <1>1, LinkedFacts DEF LinkedTo
<1>3. d \in Blocks
  BY <1>2 DEF ForkTyped
<1>4. Num(d) \in Nat /\ Num(b) \in Nat
  BY <1>3, ParentFacts
<1>5. CASE d \in f.dead
  BY <1>5 DEF DeadBelow
<1>6. CASE d = b /\ Parent(b) = Genesis
  <2>1. Num(b) - 1 = Num(Parent(b)) /\ Num(Genesis) = 0
    BY ParentFacts, StatesAreSequences DEF States
  <2>2. Num(d) - 1 \in Int /\ Num(d) - 1 <= 0
    BY <1>4, <1>6, <2>1
  <2> QED
    BY <2>2, PartAboveLower
<1>7. CASE Num(d) <= Num(b) - max
  <2>1. PICK j \in Int, k \in Int : j = Num(d) - 1 /\ k = Num(b) - max - 1 /\ j <= k
    <3>1. Num(d) - 1 \in Int /\ Num(b) - max - 1 \in Int /\ Num(d) - 1 <= Num(b) - max - 1
      BY <1>4, <1>7
    <3> QED
      BY <3>1
  <2> QED
    BY <2>1, PartAboveLower
<1> QED
  BY <1>2, <1>5, <1>6, <1>7

(* The fork database is cut for a block of the branch of t.                *)
LEMMA ResizedFollows ==
    ASSUME IrreversibleShared, NEW f, ForkTyped(f), f.head # None,
           NEW b \in Blocks, NEW t \in Blocks, OnBranch(b, t),
           Num(f.head) <= Num(b), DeadBelow(f, t), NEW g, g = Resized(f, HistorySize(b))
    PROVE  /\ g.head = f.head /\ g.index \subseteq f.index /\ DeadBelow(g, t)
           /\ \A x \in f.index : Num(b) <= Num(x) => x \in g.index
           /\ HistorySize(b) \in Nat /\ HistorySize(b) >= 1
<1>1. PICK n \in Nat, i \in Nat : n = Num(b) /\ i = Irreversible(Parent(b)) /\ i <= n - 1
  <2>1. Irreversible(Parent(b)) \in 0 .. Num(b) - 1 /\ Num(b) \in Nat
    BY ParentFacts, IrreversibleFacts
  <2> QED
    BY <2>1
<1>2. HistorySize(b) = n - i + 1 /\ HistorySize(b) \in Nat /\ HistorySize(b) >= 1
  BY <1>1 DEF HistorySize
<1>3. PICK h \in Nat : h = Num(f.head) /\ h <= n
  <2>1. f.head \in Blocks
    BY DEF ForkTyped
  <2> QED
    BY <1>1, <2>1, ParentFacts
<1>4. PICK m \in Int : m = Num(f.head) - HistorySize(b) /\ m - 1 \in Int /\ m - 1 <= i /\ m < n
  <2>1. h - (n - i + 1) \in Int /\ h - (n - i + 1) - 1 <= i /\ h - (n - i + 1) < n
    BY <1>1, <1>3
  <2> QED
    BY <1>2, <1>3, <2>1
<1>5. g = Erased(f, OlderThan(f, m))
  BY <1>4 DEF Resized
<1>6. PartAbove(t, m - 1)
  <2>1. PartAbove(b, i)
    BY <1>1, PartAboveIrreversible
  <2>2. PartAbove(t, i)
    BY <2>1, PartAboveHigher
  <2> QED
    BY <1>4, <2>2, PartAboveLower
<1>7. ASSUME NEW x \in f.index, Num(b) <= Num(x) PROVE x \in g.index
  <2>1. x \in Blocks
    BY DEF ForkTyped
  <2>2. Num(x) \in Nat
    BY <2>1, ParentFacts
  <2>3. ~(Num(x) < m)
    BY <1>1, <1>4, <1>7, <2>2
  <2> QED
    BY <1>5, <2>3, CutFacts
<1>8. g.head = f.head /\ g.index \subseteq f.index /\ DeadBelow(g, t)
  BY <1>5, <1>6, CutFacts
<1> QED
  BY <1>2, <1>7, <1>8

(* Where the fork database finds its way: from any block above where it    *)
(* parts from the head, and from the head.                                 *)
LEMMA FollowTraces ==
    ASSUME NEW f, NEW h \in Blocks, NEW b \in Blocks, h \in f.index, b \in f.index,
           ForkTyped(f), DeadBelow(f, h), ~OnBranch(b, h), NEW p, p = ForkPoint(b, h)
    PROVE  Traced(f, h, p) /\ Traced(f, b, p)
<1>1. /\ p \in Nat /\ h \in States /\ b \in States
      /\ Num(h) \in Nat /\ Num(b) \in Nat
  BY ForkPointFacts, ParentFacts
<1>2. ASSUME NEW k \in Nat, k >= p + 2, NEW x \in Blocks, Num(x) = k
      PROVE  x \notin f.dead
  <2>1. SUFFICES ASSUME x \in f.dead PROVE FALSE
    OBVIOUS
  <2>2. PartAbove(h, k - 1)
    BY <1>2, <2>1 DEF DeadBelow
  <2>3. k - 1 <= p
    BY <2>2 DEF PartAbove
  <2> QED
    BY <1>1, <1>2, <2>3
<1>3. ASSUME NEW c \in States, Num(c) \in Nat, NEW k \in p + 2 .. Num(c)
      PROVE  Prefix(c, k) \notin f.dead
  <2>1. k \in 0 .. Num(c) /\ k # 0 /\ k \in Nat /\ k >= p + 2
    BY <1>1, <1>3
  <2>2. Prefix(c, k) \in Blocks /\ Num(Prefix(c, k)) = k
    BY <2>1, PrefixFacts
  <2> QED
    BY <1>2, <2>1, <2>2
<1> QED
  BY <1>1, <1>3 DEF Traced

(* A block arrives at a node that has none.                                *)
LEMMA FirstFollows ==
    ASSUME IrreversibleShared, Valid = Blocks, CoreInv, FollowInv, head = Genesis,
           NEW b \in Blocks, push_block(b)
    PROVE  FollowInv'
<1>1. PICK f : f = Linked(fork_db, b, max_size)
  OBVIOUS
<1>2. PICK point : point = ForkPoint(f.head, head)
  OBVIOUS
<1>3. /\ task = Idle /\ task.phase = "idle"
      /\ \/ Parent(f.head) = head /\ Applied(b, f, b) /\ UNCHANGED task
         \/ Parent(f.head) = head /\ ~Applies(b)
         \/ Traced(f, head, point)
         \/ /\ Parent(f.head) # head
            /\ fork_db' = f /\ UNCHANGED <<head, max_size, task>>
  BY <1>1, <1>2 DEF push_block, Idle
<1>4. ForkTyped(fork_db) /\ max_size \in Nat /\ max_size >= 1
  BY CoreParts DEF StateInv, FollowInv
<1>5. /\ ForkTyped(f) /\ f.index \subseteq fork_db.index \cup {b}
      /\ f.head = IF fork_db.head = None \/ Num(b) > Num(fork_db.head) THEN b ELSE fork_db.head
      /\ \A x \in fork_db.index \cup {b} : ~(Num(x) < Num(b) - max_size) => x \in f.index
      /\ fork_db.head = None => \A d \in f.dead : d \in fork_db.dead \/ d = b
  <2>1. LinkedTo(f, fork_db, b, max_size)
    BY <1>1, <1>4, LinkedFacts
  <2> QED
    BY <2>1 DEF LinkedTo
<1>6. Num(Genesis) = 0 /\ Genesis \notin Blocks /\ None \notin Blocks
  BY StatesAreSequences, BlocksAssumption DEF States
<1>7. ~Traced(f, head, point)
  BY <1>5, <1>6 DEF Traced, ForkTyped
<1>8. Num(b) \in Nat \ {0} /\ Num(Parent(b)) = Num(b) - 1 /\ Parent(b) \in States /\ b \in States
  BY ParentFacts
<1>9. CASE fork_db.head = None
  <2>1. f.head = b /\ fork_db.index = {} /\ fork_db.dead = {}
    BY <1>4, <1>5, <1>9 DEF FollowInv, ForkTyped
  <2>2. f.index \subseteq {b} /\ \A d \in f.dead : d = b
    BY <1>5, <1>9, <2>1
  <2>3. CASE Parent(b) = Genesis
    <3>1. Applies(b)
      BY <2>3 DEF Applies
    <3>2. Applied(b, f, b) /\ task'.phase = "idle"
      BY <1>3, <1>6, <1>7, <2>1, <2>3, <3>1
    <3>3. Num(b) = 1 /\ Num(b) - 1 = 0
      BY <1>6, <1>8, <2>3
    <3>4. DeadBelow(f, b)
      <4>1. PartAbove(b, 0)
        BY PartAboveLower
      <4> QED
        BY <2>2, <3>3, <4>1 DEF DeadBelow
    <3>5. OnBranch(b, b) /\ Num(f.head) <= Num(b) /\ f.head # None
      BY <1>6, <1>8, <2>1, OnBranchFacts
    <3>6. b \in f.index
      <4>1. ~(Num(b) < Num(b) - max_size)
        BY <1>4, <1>8
      <4> QED
        BY <1>5, <4>1
    <3>7. head' = b /\ max_size' = HistorySize(b) /\ fork_db' = Resized(f, HistorySize(b))
      BY <3>2 DEF Applied
    <3>8. /\ fork_db'.head = f.head /\ fork_db'.index \subseteq f.index
          /\ DeadBelow(fork_db', b) /\ b \in fork_db'.index /\ max_size' >= 1
      <4>1. Num(b) <= Num(b)
        BY <1>8
      <4> QED
        BY <1>5, <3>4, <3>5, <3>6, <3>7, <4>1, ResizedFollows
    <3>9. NoneAbove(fork_db', Num(b))
      BY <1>8, <2>2, <3>8 DEF NoneAbove
    <3> QED
      BY <1>6, <2>1, <3>2, <3>5, <3>7, <3>8, <3>9 DEF FollowInv, NoneAbove, DeadBelow
  <2>4. CASE Parent(b) # Genesis
    <3>1. fork_db' = f /\ UNCHANGED <<head, max_size, task>>
      BY <1>3, <1>7, <2>1, <2>4
    <3>2. Num(b) > 1
      BY <1>8, <2>4, StatesAreSequences
    <3> QED
      BY <1>3, <1>4, <1>6, <2>1, <3>1, <3>2 DEF FollowInv
  <2> QED
    BY <2>3, <2>4
<1>10. CASE fork_db.head # None
  <2>1. fork_db.head \in Blocks /\ Num(fork_db.head) > 1
    BY <1>3, <1>4, <1>10 DEF FollowInv, ForkTyped
  <2>2. Num(fork_db.head) \in Nat
    BY <2>1, ParentFacts
  <2>3. f.head \in Blocks /\ Num(f.head) > 1
    BY <1>5, <1>8, <1>10, <2>1, <2>2
  <2>4. Parent(f.head) # Genesis
    <3>1. Num(f.head) \in Nat /\ Num(Parent(f.head)) = Num(f.head) - 1
      BY <2>3, ParentFacts
    <3> QED
      BY <1>6, <2>3, <3>1
  <2>5. fork_db' = f /\ UNCHANGED <<head, max_size, task>>
    BY <1>3, <1>7, <2>4
  <2> QED
    BY <1>3, <1>4, <1>6, <2>3, <2>5 DEF FollowInv
<1> QED
  BY <1>9, <1>10

(* A block arrives at a node that has some: it is at most one higher than  *)
(* the head, and if it is higher, it is applied or switched to.            *)
LEMMA NextFollows ==
    ASSUME IrreversibleShared, Valid = Blocks, CoreInv, DeepInv, FollowInv, head # Genesis,
           NEW b \in Blocks, push_block(b)
    PROVE  FollowInv'
<1>1. PICK f : f = Linked(fork_db, b, max_size)
  OBVIOUS
<1>2. PICK point : point = ForkPoint(f.head, head)
  OBVIOUS
<1>3. /\ task = Idle /\ task.phase = "idle" /\ ~Refused(fork_db, b, max_size)
  BY DEF push_block, Idle
<1>4. \/ Parent(f.head) = head /\ Applied(b, f, b) /\ UNCHANGED task
      \/ Parent(f.head) = head /\ ~Applies(b)
      \/ /\ Parent(f.head) # head /\ Num(f.head) > Num(head) /\ fork_db' = f
         /\ task' = [phase |-> "pop", new |-> b, target |-> f.head,
                     origin |-> head, point |-> point]
         /\ UNCHANGED <<head, max_size>>
      \/ /\ Parent(f.head) # head
         /\ ~(/\ Num(f.head) > Num(head)
              /\ Traced(f, head, point) /\ Traced(f, f.head, point))
         /\ fork_db' = f /\ UNCHANGED <<head, max_size, task>>
  BY <1>1, <1>2 DEF push_block
<1>5. ForkTyped(fork_db) /\ max_size \in Nat /\ max_size >= 1 /\ head \in Blocks
  BY CoreParts DEF StateInv, FollowInv, States
<1>6. /\ fork_db.head # None /\ head \in fork_db.index /\ Num(fork_db.head) <= Num(head)
      /\ NoneAbove(fork_db, Num(head)) /\ DeadBelow(fork_db, head)
  BY <1>3 DEF FollowInv
<1>7. PICK n \in Nat, k \in Nat, h \in Nat :
         /\ n = Num(head) /\ k = Num(b) /\ h = Num(fork_db.head) /\ n # 0 /\ k # 0 /\ h <= n
  <2>1. fork_db.head \in Blocks
    BY <1>5, <1>6 DEF ForkTyped
  <2> QED
    BY <1>5, <1>6, <2>1, ParentFacts
<1>8. LinkedTo(f, fork_db, b, max_size)
  BY <1>1, <1>5, LinkedFacts
<1>9. ForkTyped(f) /\ f.index \subseteq fork_db.index \cup {b}
  BY <1>8 DEF LinkedTo
<1>10. f.head = IF k > h THEN b ELSE fork_db.head
  BY <1>6, <1>7, <1>8 DEF LinkedTo
<1>11. \A x \in fork_db.index \cup {b} : ~(Num(x) < k - max_size) => x \in f.index
  BY <1>7, <1>8 DEF LinkedTo
<1>12. k > h /\ Parent(b) # Genesis => f.cut = FALSE
  BY <1>6, <1>7, <1>8 DEF LinkedTo
<1>13. k <= n + 1
  <2>1. Num(Parent(b)) = k - 1
    BY <1>7, ParentFacts
  <2>2. Parent(b) = Genesis \/ Parent(b) \in fork_db.index
    BY <1>3, <1>6 DEF Refused
  <2>3. Num(Genesis) = 0
    BY StatesAreSequences DEF States
  <2>4. k - 1 <= n
    BY <1>6, <1>7, <2>1, <2>2, <2>3 DEF NoneAbove
  <2> QED
    BY <1>7, <2>4
<1>14. DeadBelow(f, head)
  <2>1. PICK i \in Int, j \in Int :
           i = Num(b) - max_size - 1 /\ j = Num(head) - max_size + 1 /\ i <= j
    <3>1. k - max_size - 1 \in Int /\ n - max_size + 1 \in Int
          /\ k - max_size - 1 <= n - max_size + 1
      BY <1>5, <1>7, <1>13
    <3> QED
      BY <1>7, <3>1
  <2>2. PartAbove(head, j)
    BY <1>3, <2>1 DEF DeepInv
  <2>3. PartAbove(head, i)
    BY <1>5, <2>1, <2>2, PartAboveLower
  <2> QED
    BY <1>1, <1>5, <1>6, <2>1, <2>3, LinkedDead
<1>15. head \in f.index /\ b \in f.index
  <2>1. ~(n < k - max_size) /\ ~(k < k - max_size)
    BY <1>5, <1>7, <1>13
  <2> QED
    BY <1>6, <1>7, <1>11, <2>1
<1>16. None \notin Blocks /\ f.head \in Blocks
  <2>1. fork_db.head \in Blocks
    BY <1>5, <1>6 DEF ForkTyped
  <2> QED
    BY <1>10, <2>1, BlocksAssumption
<1>17. CASE k = n + 1
  <2>1. f.head = b
    BY <1>7, <1>10, <1>17
  <2>2. NoneAbove(f, k)
    <3> SUFFICES ASSUME NEW x \in f.index PROVE Num(x) <= k
      BY DEF NoneAbove
    <3>1. CASE x = b
      BY <1>7, <3>1
    <3>2. CASE x \in fork_db.index
      <4>1. x \in Blocks /\ Num(x) <= n
        BY <1>5, <1>6, <1>7, <3>2 DEF NoneAbove, ForkTyped
      <4>2. Num(x) \in Nat
        BY <4>1, ParentFacts
      <4> QED
        BY <1>7, <1>17, <4>1, <4>2
    <3> QED
      BY <1>9, <3>1, <3>2
  <2>3. CASE Parent(b) = head
    <3>1. Applies(b)
      BY <2>3 DEF Applies
    <3>2. Applied(b, f, b) /\ task'.phase = "idle"
      BY <1>3, <1>4, <2>1, <2>3, <3>1
    <3>3. b \in States /\ OnBranch(b, b)
      <4>1. b \in States
        BY ParentFacts
      <4> QED
        BY <4>1, OnBranchFacts
    <3>4. OnBranch(head, b)
      BY <2>3, <3>3, ParentOnBranch
    <3>5. DeadBelow(f, b)
      <4> SUFFICES ASSUME NEW d \in f.dead PROVE PartAbove(b, Num(d) - 1)
        BY DEF DeadBelow
      <4>1. d \in Blocks
        BY <1>9 DEF ForkTyped
      <4>2. Num(d) - 1 \in Int
        BY <4>1, ParentFacts
      <4>3. PartAbove(head, Num(d) - 1)
        BY <1>14 DEF DeadBelow
      <4> QED
        BY <1>5, <3>4, <4>2, <4>3, PartAboveHigher
    <3>6. head' = b /\ max_size' = HistorySize(b) /\ fork_db' = Resized(f, HistorySize(b))
      BY <3>2 DEF Applied
    <3>7. Num(f.head) <= Num(b) /\ f.head # None /\ Num(b) <= Num(b)
      BY <1>7, <1>16, <2>1
    <3>8. /\ fork_db'.head = b /\ fork_db'.index \subseteq f.index
          /\ DeadBelow(fork_db', b) /\ b \in fork_db'.index /\ max_size' >= 1
      BY <1>9, <1>15, <2>1, <3>3, <3>5, <3>6, <3>7, ResizedFollows
    <3>9. NoneAbove(fork_db', Num(b))
      BY <1>7, <2>2, <3>8 DEF NoneAbove
    <3>10. b # None /\ b # Genesis
      BY BlocksAssumption
    <3> QED
      BY <2>1, <3>2, <3>6, <3>7, <3>8, <3>9, <3>10 DEF FollowInv, NoneAbove, DeadBelow
  <2>4. CASE Parent(b) # head
    <3>1. ~OnBranch(b, head) /\ Num(f.head) > Num(head)
      <4>1. Num(b) > Num(head) /\ ~(Num(b) <= Num(head))
        BY <1>7, <1>17
      <4> QED
        BY <2>1, <4>1 DEF OnBranch
    <3>2. Traced(f, head, point) /\ Traced(f, f.head, point)
      BY <1>2, <1>5, <1>9, <1>14, <1>15, <2>1, <3>1, FollowTraces
    <3>3. /\ fork_db' = f /\ UNCHANGED <<head, max_size>>
          /\ task' = [phase |-> "pop", new |-> b, target |-> f.head,
                      origin |-> head, point |-> point]
      BY <1>4, <2>1, <2>4, <3>1, <3>2
    <3>4. task'.phase = "pop" /\ task'.target = b /\ task'.origin = head
      BY <2>1, <3>3
    <3>5. f.cut = FALSE
      <4>1. Parent(b) # Genesis
        <5>1. Num(Parent(b)) = k - 1 /\ Num(Genesis) = 0
          BY <1>7, ParentFacts, StatesAreSequences DEF States
        <5> QED
          BY <1>7, <1>17, <5>1
      <4> QED
        BY <1>7, <1>12, <1>17, <4>1
    <3>6. Num(b) = Num(head) + 1
      BY <1>7, <1>17
    <3>7. fork_db'.head # None /\ fork_db'.cut = FALSE /\ max_size' >= 1
          /\ NoneAbove(fork_db', Num(b)) /\ DeadBelow(fork_db', head)
      BY <1>5, <1>7, <1>14, <1>16, <2>2, <3>3, <3>5
    <3> QED
      BY <3>3, <3>4, <3>6, <3>7 DEF FollowInv, NoneAbove, DeadBelow
  <2> QED
    BY <2>3, <2>4
<1>18. CASE k # n + 1
  <2>1. k <= n
    BY <1>7, <1>13, <1>18
  <2>2. Num(f.head) <= n
    BY <1>7, <1>10, <2>1
  <2>3. Parent(f.head) # head /\ ~(Num(f.head) > Num(head))
    <3>1. Num(f.head) \in Nat /\ Num(Parent(f.head)) = Num(f.head) - 1
      BY <1>16, ParentFacts
    <3> QED
      BY <1>7, <2>2, <3>1
  <2>4. fork_db' = f /\ UNCHANGED <<head, max_size, task>>
    BY <1>4, <2>3
  <2>5. NoneAbove(f, n)
    BY <1>6, <1>7, <1>9, <2>1 DEF NoneAbove
  <2> QED
    BY <1>3, <1>5, <1>7, <1>14, <1>15, <1>16, <2>2, <2>4, <2>5 DEF FollowInv, NoneAbove, DeadBelow
<1> QED
  BY <1>17, <1>18

(* A block of the old fork is popped.                                      *)
LEMMA PopFollows ==
    ASSUME CoreInv, CoreInv', SwitchInv, SwitchInv', HistoryReaches, FollowInv, switch_pop
    PROVE  FollowInv'
<1>1. task.phase = "pop" /\ PopTo("apply") /\ task.phase \in SwitchPhases
      /\ "apply" \in SwitchPhases
  BY DEF switch_pop, SwitchPhases
<1>2. /\ head \in Blocks /\ Reverted /\ head' = Parent(head)
      /\ task' = IF head' = Point THEN [task EXCEPT !.phase = "apply"] ELSE task
  BY <1>1, PopsParent
<1>3. ForkTyped(fork_db) /\ fork_db' = HeadSet(fork_db, Parent(fork_db.head))
  BY <1>1, CoreParts DEF PopTo, pop_block
<1>4. /\ fork_db'.index = fork_db.index /\ fork_db'.dead = fork_db.dead
      /\ fork_db'.head = Parent(fork_db.head)
  BY <1>3, HeadSetLinks
<1>5. max_size' = max_size /\ max_size >= 1
  BY <1>2 DEF Reverted, FollowInv
<1>6. /\ Num(task.target) = Num(task.origin) + 1
      /\ NoneAbove(fork_db, Num(task.target)) /\ DeadBelow(fork_db, task.origin)
  BY <1>1 DEF FollowInv
<1>7. NoneAbove(fork_db', Num(task.target)) /\ DeadBelow(fork_db', task.origin)
  BY <1>4, <1>6 DEF NoneAbove, DeadBelow
<1>8. PICK o \in Nat, t \in Nat, n \in Nat :
         /\ o = Num(task.origin) /\ t = Num(task.target) /\ n = Num(head)
         /\ t = o + 1 /\ n # 0 /\ n <= o /\ Num(head') = n - 1
  <2>1. OnBranch(head, task.origin)
    BY <1>1 DEF SwitchInv, OnTheWay
  <2> QED
    BY <1>1, <1>2, <1>6, <2>1, SwitchFacts, ParentFacts DEF OnBranch
<1>9. fork_db'.head = Prefix(task.target, n) /\ n \in 0 .. t
  <2>1. fork_db.head = Prefix(task.target, t - (o - n))
    BY <1>1, <1>8 DEF SwitchInv, ForkFollows
  <2>2. t - (o - n) = n + 1 /\ n + 1 \in 1 .. t /\ n + 1 - 1 = n /\ n \in 0 .. t
    BY <1>8
  <2>3. Parent(Prefix(task.target, n + 1)) = Prefix(task.target, n + 1 - 1)
    <3>1. task.target \in States /\ n + 1 \in 1 .. Num(task.target)
      BY <1>1, <1>8, <2>2, SwitchFacts
    <3> QED
      BY <3>1, StepDown
  <2> QED
    BY <1>4, <2>1, <2>2, <2>3
<1>10. fork_db'.head # None /\ Num(fork_db'.head) = n
  <2>1. Prefix(task.target, n) \in Blocks /\ Num(Prefix(task.target, n)) = n
    BY <1>1, <1>8, <1>9, SwitchFacts, PrefixFacts
  <2> QED
    BY <1>9, <2>1, BlocksAssumption
<1>11. CASE head' # Point
  <2>1. task' = task
    BY <1>2, <1>11
  <2>2. head' # task.origin
    BY <1>8
  <2>3. fork_db'.cut = FALSE
    BY <1>1, <2>1, <2>2 DEF SwitchInv, ForkFollows
  <2> QED
    BY <1>1, <1>5, <1>6, <1>7, <1>10, <2>1, <2>3 DEF FollowInv, NoneAbove, DeadBelow
<1>12. CASE head' = Point
  <2>1. task'.phase = "apply" /\ task'.target = task.target
    BY <1>1, <1>2, <1>12, SwitchFacts
  <2>2. task.target \in fork_db.index
    BY <1>1 DEF SwitchInv, ForkFollows, Traced
  <2>3. task.origin \in Blocks /\ task.target \in Blocks /\ ~OnBranch(task.target, task.origin)
    BY <1>1, <1>8, SwitchFacts DEF OnBranch
  <2>4. DeadBelow(fork_db', task.target)
    <3> SUFFICES ASSUME NEW d \in fork_db'.dead PROVE PartAbove(task.target, Num(d) - 1)
      BY DEF DeadBelow
    <3>1. d \in Blocks
      BY <1>3, <1>4 DEF ForkTyped
    <3>2. Num(d) - 1 \in Int
      BY <3>1, ParentFacts
    <3>3. PartAbove(task.origin, Num(d) - 1)
      BY <1>7 DEF DeadBelow
    <3> QED
      BY <2>3, <3>2, <3>3, PartAboveOther
  <2>5. Num(fork_db'.head) <= Num(head') + 1
    BY <1>8, <1>10
  <2> QED
    BY <1>4, <1>5, <1>7, <1>10, <2>1, <2>2, <2>4, <2>5 DEF FollowInv, NoneAbove, DeadBelow
<1> QED
  BY <1>11, <1>12

(* A block of the new fork is applied.                                     *)
LEMMA ApplyFollows ==
    ASSUME IrreversibleShared, Valid = Blocks, CoreInv, SwitchInv, FollowInv, switch_apply
    PROVE  FollowInv'
<1>1. task.phase = "apply" /\ task.phase \in SwitchPhases
  BY DEF switch_apply, SwitchPhases
<1>2. PICK b : b = Prefix(task.target, Num(head) + 1)
  OBVIOUS
<1>3. \/ Applied(b, fork_db, b) /\ task' = IF b = task.target THEN Idle ELSE task
      \/ ~Applies(b)
  BY <1>2 DEF switch_apply
<1>4. /\ task.target \in Blocks /\ task.target \in States /\ head \in States
      /\ Num(task.target) \in Nat /\ Num(head) \in Nat
  BY <1>1, SwitchFacts
<1>5. OnBranch(head, task.target) /\ Num(head) < Num(task.target)
  BY <1>1 DEF SwitchInv, OnTheWay
<1>6. b \in Blocks /\ Parent(b) = head /\ OnBranch(b, task.target) /\ Num(b) = Num(head) + 1
  BY <1>2, <1>4, <1>5, NextOnBranch
<1>7. Applied(b, fork_db, b) /\ task' = IF b = task.target THEN Idle ELSE task
  BY <1>3, <1>6 DEF Applies
<1>8. head' = b /\ max_size' = HistorySize(b) /\ fork_db' = Resized(fork_db, HistorySize(b))
  BY <1>7 DEF Applied
<1>9. /\ fork_db.head # None /\ task.target \in fork_db.index /\ Num(fork_db.head) <= Num(b)
      /\ NoneAbove(fork_db, Num(task.target)) /\ DeadBelow(fork_db, task.target)
  BY <1>1, <1>6 DEF FollowInv
<1>10. ForkTyped(fork_db)
  BY CoreParts
<1>11. Num(b) <= Num(task.target)
  BY <1>6 DEF OnBranch
<1>12. /\ fork_db'.head = fork_db.head /\ fork_db'.index \subseteq fork_db.index
       /\ DeadBelow(fork_db', task.target) /\ task.target \in fork_db'.index /\ max_size' >= 1
  BY <1>4, <1>6, <1>8, <1>9, <1>10, <1>11, ResizedFollows
<1>13. NoneAbove(fork_db', Num(task.target))
  BY <1>9, <1>12 DEF NoneAbove
<1>14. b # Genesis
  BY <1>6, BlocksAssumption
<1>15. CASE b = task.target
  <2>1. task'.phase = "idle"
    BY <1>7, <1>15 DEF Idle
  <2> QED
    BY <1>8, <1>9, <1>12, <1>13, <1>14, <1>15, <2>1 DEF FollowInv, NoneAbove, DeadBelow
<1>16. CASE b # task.target
  <2>1. task' = task
    BY <1>7, <1>16
  <2>2. Num(fork_db'.head) <= Num(head') + 1
    <3>1. fork_db.head \in Blocks
      BY <1>9, <1>10 DEF ForkTyped
    <3>2. Num(fork_db.head) \in Nat /\ Num(b) \in Nat
      BY <1>6, <3>1, ParentFacts
    <3> QED
      BY <1>8, <1>9, <1>12, <3>2
  <2> QED
    BY <1>1, <1>8, <1>9, <1>12, <1>13, <2>1, <2>2 DEF FollowInv, NoneAbove, DeadBelow
<1> QED
  BY <1>15, <1>16

(* pop_block never throws while the old fork is popped.                    *)
LEMMA FollowPops ==
    ASSUME CoreInv, SwitchInv, FollowInv, task.phase = "pop"
    PROVE  CanPop
<1>1. SUFFICES ASSUME ~CanPop PROVE FALSE
  OBVIOUS
<1>2. head = task.origin
  BY <1>1, PopsGoOn
<1>3. head \in fork_db.index
  BY <1>2 DEF SwitchInv, ForkFollows, Traced
<1>4. fork_db.cut = FALSE
  BY DEF FollowInv
<1> QED
  BY <1>1, <1>3, <1>4 DEF CanPop, KnownHead

(* Every step of a node that is sent valid blocks only.                    *)
LEMMA FollowNext ==
    ASSUME IrreversibleShared, Valid = Blocks, CoreInv, CoreInv', SwitchInv, SwitchInv',
           NoSwitchFails, DeepInv, FollowInv, [Running]_vars
    PROVE  FollowInv'
<1>1. ASSUME NEW b \in Blocks, push_block(b) PROVE FollowInv'
  BY <1>1, FirstFollows, NextFollows
<1>2. ASSUME UNCHANGED <<head, max_size, fork_db, task>> PROVE FollowInv'
  BY <1>2 DEF FollowInv, NoneAbove, DeadBelow
<1>3. ASSUME NEW k \in Nested, push_transaction(k) PROVE FollowInv'
  BY <1>2, <1>3 DEF push_transaction
<1>4. CASE switch_pop
  BY <1>4, DeepReaches, PopFollows
<1>5. CASE switch_apply
  BY <1>5, ApplyFollows
<1>6. ~restore_pop /\ ~restore_apply
  BY DEF restore_pop, restore_apply, NoSwitchFails
<1>7. ~pop_throws
  BY FollowPops DEF pop_throws, NoSwitchFails
<1>8. CASE UNCHANGED vars
  BY <1>2, <1>8 DEF vars
<1> QED
  BY <1>1, <1>3, <1>4, <1>5, <1>6, <1>7, <1>8 DEF Running, Switching

(* And between two calls it is on the longest fork: on forks of valid      *)
(* blocks that share what was irreversible on one of them, no block that   *)
(* the fork database has is higher than the head, so that none is left     *)
(* that could be switched to; the items _push_block needs for a switch are *)
(* never cut off, and pop_block never throws.                              *)
THEOREM SharedForksLongest ==
    ASSUME IrreversibleShared, Nested \subseteq {1}, Valid = Blocks
    PROVE  RunningSpec => []LongestForkFollowed
<1> DEFINE All == CoreInv /\ SwitchInv /\ NoSwitchFails /\ DeepInv /\ FollowInv
<1>1. Init => All
  <2> SUFFICES ASSUME Init PROVE FollowInv
    BY DeepInit
  <2>1. /\ head = Genesis /\ task.phase = "idle" /\ fork_db.head = None /\ fork_db.index = {}
        /\ max_size >= 1
    BY InitialMaxAssumption DEF Init, Idle, Cleared
  <2> QED
    BY <2>1 DEF FollowInv
<1>2. All /\ [Running]_vars => All'
  <2> SUFFICES ASSUME CoreInv, SwitchInv, NoSwitchFails, DeepInv, FollowInv, [Running]_vars
               PROVE  All'
    OBVIOUS
  <2>1. [Running \/ Restarting]_vars
    OBVIOUS
  <2>2. UnwindPops /\ HistoryReaches
    BY DeepReaches DEF UnwindPops, NoSwitchFails
  <2>3. CoreInv' /\ SwitchInv' /\ NoSwitchFails' /\ DeepInv'
    BY <2>1, <2>2, CoreNext, SwitchNext, ValidNext, DeepNext
  <2> QED
    BY <2>3, FollowNext
<1>3. All => LongestForkFollowed
  BY DEF FollowInv, NoneAbove, LongestForkFollowed, Idle
<1> QED
  BY <1>1, <1>2, <1>3, PTL DEF RunningSpec

(* A node in sync is one of these: its peers only choose when to send a    *)
(* block.                                                                  *)
LEMMA SyncIsRunning == SyncSpec => RunningSpec
<1>1. [\/ \E b \in Blocks : Delivered(b)
       \/ \E k \in Nested : push_transaction(k)
       \/ Switching]_vars => [Running]_vars
  BY DEF Running, Delivered
<1> QED
  BY <1>1, PTL DEF SyncSpec, RunningSpec

(* So all of this holds of a node in sync with peers that send valid       *)
(* blocks, each after its parent.                                          *)
THEOREM SyncStaysOnLongest ==
    ASSUME IrreversibleShared, Nested \subseteq {1}, Valid = Blocks
    PROVE  SyncSpec => SwitchCompletes /\ []BlockLogMatches /\ []LongestForkFollowed
BY SyncIsRunning, SharedForksComplete, SharedForksLongest, PTL
-----------------------------------------------------------------------------
(***************************************************************************)
(* How deep a switch goes, on any tree of valid blocks.  A fork that is    *)
(* higher than the head between two calls is one the fork database cannot  *)
(* switch to: the head was cut off, or an item above where they part is    *)
(* dead.                                                                   *)
(***************************************************************************)
OutOfReach(f, h) ==
    \/ h \notin f.index
    \/ \E k \in ForkPoint(f.head, h) + 2 .. Num(h) : Prefix(h, k) \in f.dead
    \/ \E k \in ForkPoint(f.head, h) + 2 .. Num(f.head) : Prefix(f.head, k) \in f.dead

(* The size of the histories is the one the head needs, and a head that    *)
(* was cut off is too low to be pushed again; so a switch begins with a    *)
(* block that moves the head of the fork database, and with what is left   *)
(* of the index when it is cut for this block.                             *)
WindowInv ==
    /\ max_size >= 1
    /\ fork_db.head = None => task.phase = "idle" /\ head = Genesis
    /\ task.phase = "idle" /\ fork_db.head # None => Parent(fork_db.head) # head
    /\ task.phase = "idle" /\ head # Genesis =>
          /\ max_size = HistorySize(head)
          /\ head \in fork_db.index \/ Num(head) < Num(fork_db.head) - max_size
          /\ Num(fork_db.head) > Num(head) => OutOfReach(fork_db, head)
    /\ task.phase = "pop" =>
          /\ max_size = HistorySize(task.origin) /\ fork_db.cut = FALSE
          /\ task.point >= Irreversible(Parent(task.origin)) - 1
    /\ task.phase = "apply" =>
          task.target \in fork_db.index /\ Num(fork_db.head) <= Num(task.target)

(* What is out of reach cannot be traced.                                  *)
LEMMA OutOfReachFacts ==
    ASSUME NEW f, NEW h, NEW p, p = ForkPoint(f.head, h), f.head \in f.index
    PROVE  OutOfReach(f, h) <=> ~(Traced(f, h, p) /\ Traced(f, f.head, p))
BY DEF OutOfReach, Traced

(* The histories are as long as the blocks behind the last irreversible    *)
(* one need.                                                               *)
LEMMA HistorySizeOf ==
    ASSUME NEW b \in Blocks
    PROVE  /\ \E n \in Nat, i \in Nat : /\ n = Num(b) /\ i = Irreversible(Parent(b))
                                        /\ i <= n - 1 /\ HistorySize(b) = n - i + 1
           /\ HistorySize(b) >= 1
<1>1. Irreversible(Parent(b)) \in 0 .. Num(b) - 1 /\ Num(b) \in Nat
  BY ParentFacts, IrreversibleFacts
<1>2. PICK n \in Nat, i \in Nat : n = Num(b) /\ i = Irreversible(Parent(b)) /\ i <= n - 1
  BY <1>1
<1> QED
  BY <1>2 DEF HistorySize

(* The items that a fork database of the given size cuts off.              *)
LEMMA ResizedKeeps ==
    ASSUME NEW f, ForkTyped(f), f.head # None, NEW b \in Blocks, NEW x \in f.index,
           Num(f.head) <= Num(x), NEW g, g = Resized(f, HistorySize(b))
    PROVE  g.head = f.head /\ x \in g.index
<1>1. f.head \in Blocks /\ x \in Blocks
  BY DEF ForkTyped
<1>2. PICK m \in Int : m = Num(f.head) - HistorySize(b) /\ ~(Num(x) < m)
  <2>1. Num(f.head) \in Nat /\ Num(x) \in Nat /\ HistorySize(b) \in Nat
    BY <1>1, ParentFacts, HistorySizeFacts
  <2>2. Num(f.head) - HistorySize(b) \in Int /\ ~(Num(x) < Num(f.head) - HistorySize(b))
    BY <2>1
  <2> QED
    BY <2>2
<1>3. g = Erased(f, OlderThan(f, m))
  BY <1>2 DEF Resized
<1>4. \A y \in f.index : y \in g.index <=> ~(Num(y) < m)
  BY <1>3, CutFacts
<1>5. g.head = f.head
  BY <1>3, CutFacts
<1> QED
  BY <1>2, <1>4, <1>5

(* A block that is applied is the head of the fork database.               *)
LEMMA AppliedWindow ==
    ASSUME NEW f, ForkTyped(f), NEW b \in Blocks, f.head = b, b \in f.index,
           Applied(b, f, b), task'.phase = "idle"
    PROVE  WindowInv'
<1>1. head' = b /\ max_size' = HistorySize(b) /\ fork_db' = Resized(f, HistorySize(b))
  BY DEF Applied
<1>2. b # None /\ b # Genesis
  BY BlocksAssumption
<1>3. Num(b) \in Nat /\ Num(Parent(b)) = Num(b) - 1
  BY ParentFacts
<1>4. Num(b) <= Num(b) /\ ~(Num(b) > Num(b)) /\ Parent(b) # b
  BY <1>3
<1>5. fork_db'.head = b /\ b \in fork_db'.index /\ max_size' >= 1
  BY <1>1, <1>2, <1>4, ResizedKeeps, HistorySizeOf
<1> QED
  BY <1>1, <1>2, <1>4, <1>5 DEF WindowInv

(* A block arrives at a node that has none.                                *)
LEMMA FirstWindow ==
    ASSUME Valid = Blocks, CoreInv, WindowInv, head = Genesis,
           NEW b \in Blocks, push_block(b)
    PROVE  WindowInv'
<1>1. PICK f : f = Linked(fork_db, b, max_size)
  OBVIOUS
<1>2. PICK point : point = ForkPoint(f.head, head)
  OBVIOUS
<1>3. /\ task = Idle /\ task.phase = "idle"
      /\ \/ Parent(f.head) = head /\ Applied(b, f, b) /\ UNCHANGED task
         \/ Parent(f.head) = head /\ ~Applies(b)
         \/ Traced(f, head, point)
         \/ Parent(f.head) # head /\ fork_db' = f /\ UNCHANGED <<head, max_size, task>>
  BY <1>1, <1>2 DEF push_block, Idle
<1>4. ForkTyped(fork_db) /\ max_size \in Nat /\ max_size >= 1
  BY CoreParts DEF StateInv, WindowInv
<1>5. LinkedTo(f, fork_db, b, max_size)
  BY <1>1, <1>4, LinkedFacts
<1>6. /\ ForkTyped(f)
      /\ f.head = IF fork_db.head = None \/ Num(b) > Num(fork_db.head) THEN b ELSE fork_db.head
      /\ \A x \in fork_db.index \cup {b} : ~(Num(x) < Num(b) - max_size) => x \in f.index
  BY <1>5 DEF LinkedTo
<1>7. b \in f.index
  <2>1. Num(b) \in Nat
    BY ParentFacts
  <2>2. ~(Num(b) < Num(b) - max_size)
    BY <1>4, <2>1
  <2> QED
    BY <1>6, <2>2
<1>8. None \notin Blocks /\ Genesis \notin Blocks /\ b # None
  BY BlocksAssumption
<1>9. ~Traced(f, head, point)
  BY <1>6, <1>8 DEF Traced, ForkTyped
<1>10. f.head # None
  BY <1>6, <1>8
<1>11. CASE Parent(f.head) = head
  <2>1. f.head = b
    BY <1>3, <1>6, <1>11 DEF WindowInv
  <2>2. Applies(b)
    BY <1>11, <2>1 DEF Applies
  <2>3. Applied(b, f, b) /\ task'.phase = "idle"
    BY <1>3, <1>9, <1>11, <2>2
  <2> QED
    BY <1>6, <1>7, <2>1, <2>3, AppliedWindow
<1>12. CASE Parent(f.head) # head
  <2>1. fork_db' = f /\ UNCHANGED <<head, max_size, task>>
    BY <1>3, <1>9, <1>12
  <2> QED
    BY <1>3, <1>4, <1>10, <1>12, <2>1 DEF WindowInv
<1> QED
  BY <1>11, <1>12

(* A block that does not move the head of the fork database changes        *)
(* nothing: what was out of reach still is.                                *)
LEMMA LowerWindow ==
    ASSUME CoreInv, WindowInv, head # Genesis, NEW b \in Blocks, push_block(b),
           ~(Num(b) > Num(fork_db.head))
    PROVE  WindowInv'
<1>1. PICK f : f = Linked(fork_db, b, max_size)
  OBVIOUS
<1>2. PICK point : point = ForkPoint(f.head, head)
  OBVIOUS
<1>3. task = Idle /\ task.phase = "idle" /\ ~Refused(fork_db, b, max_size)
  BY DEF push_block, Idle
<1>4. \/ Parent(f.head) = head
      \/ /\ Num(f.head) > Num(head)
         /\ Traced(f, head, point) /\ Traced(f, f.head, point)
      \/ fork_db' = f /\ UNCHANGED <<head, max_size, task>>
  BY <1>1, <1>2 DEF push_block
<1>5. /\ ForkTyped(fork_db) /\ max_size \in Nat /\ head \in Blocks
      /\ fork_db.head # None /\ fork_db.head \in Blocks
  BY CoreParts DEF StateInv, States, WindowInv, ForkTyped
<1>6. /\ max_size = HistorySize(head) /\ Parent(fork_db.head) # head
      /\ head \in fork_db.index \/ Num(head) < Num(fork_db.head) - max_size
      /\ Num(fork_db.head) > Num(head) => OutOfReach(fork_db, head)
  BY <1>3, <1>5 DEF WindowInv
<1>7. PICK n \in Nat, k \in Nat, h \in Nat, m \in Nat :
         n = Num(head) /\ k = Num(b) /\ h = Num(fork_db.head) /\ m = max_size /\ m >= 1
  <2>1. PICK n \in Nat, i \in Nat : n = Num(head) /\ i <= n - 1 /\ HistorySize(head) = n - i + 1
    BY <1>5, HistorySizeOf
  <2>2. max_size >= 1
    BY <1>6, <2>1
  <2> QED
    BY <1>5, <2>2, ParentFacts
<1>8. LinkedTo(f, fork_db, b, max_size)
  BY <1>1, <1>5, <1>7, LinkedFacts
<1>9. /\ ForkTyped(f) /\ f.index \subseteq fork_db.index \cup {b} /\ f.head = fork_db.head
      /\ fork_db.dead \subseteq f.dead
      /\ \A x \in fork_db.index \cup {b} : ~(Num(x) < k - m) => x \in f.index
  BY <1>5, <1>7, <1>8 DEF LinkedTo
<1>10. h > n => OutOfReach(f, head)
  <2> SUFFICES ASSUME h > n PROVE OutOfReach(f, head)
    OBVIOUS
  <2>1. CASE head \notin fork_db.index
    <3>1. n < h - m
      BY <1>6, <1>7, <2>1
    <3>2. ~(k <= h - m)
      BY <1>3, <1>5, <1>7 DEF Refused
    <3>3. b # head
      BY <1>7, <3>1, <3>2
    <3> QED
      BY <1>9, <2>1, <3>3 DEF OutOfReach
  <2>2. CASE head \in fork_db.index
    <3>1. \/ \E j \in ForkPoint(fork_db.head, head) + 2 .. Num(head) :
                Prefix(head, j) \in fork_db.dead
          \/ \E j \in ForkPoint(fork_db.head, head) + 2 .. Num(fork_db.head) :
                Prefix(fork_db.head, j) \in fork_db.dead
      BY <1>6, <1>7, <2>2 DEF OutOfReach
    <3>2. CASE \E j \in ForkPoint(fork_db.head, head) + 2 .. Num(head) :
                  Prefix(head, j) \in fork_db.dead
      BY <1>9, <3>2 DEF OutOfReach
    <3>3. CASE \E j \in ForkPoint(fork_db.head, head) + 2 .. Num(fork_db.head) :
                  Prefix(fork_db.head, j) \in fork_db.dead
      BY <1>9, <3>3 DEF OutOfReach
    <3> QED
      BY <3>1, <3>2, <3>3
  <2> QED
    BY <2>1, <2>2
<1>11. ~(/\ Num(f.head) > Num(head)
         /\ Traced(f, head, point) /\ Traced(f, f.head, point))
  <2> SUFFICES ASSUME Num(f.head) > Num(head),
                      Traced(f, head, point), Traced(f, f.head, point)
               PROVE  FALSE
    OBVIOUS
  <2>1. OutOfReach(f, head)
    BY <1>7, <1>9, <1>10
  <2>2. f.head \in f.index
    BY DEF Traced
  <2> QED
    BY <1>2, <2>1, <2>2, OutOfReachFacts
<1>12. fork_db' = f /\ UNCHANGED <<head, max_size, task>>
  BY <1>4, <1>6, <1>9, <1>11
<1>13. head \in f.index \/ n < h - m
  <2>1. CASE n < h - m
    BY <2>1
  <2>2. CASE ~(n < h - m)
    <3>1. head \in fork_db.index /\ ~(n < k - m)
      BY <1>6, <1>7, <2>2
    <3> QED
      BY <1>7, <1>9, <3>1
  <2> QED
    BY <2>1, <2>2
<1> QED
  BY <1>3, <1>5, <1>6, <1>7, <1>9, <1>10, <1>12, <1>13 DEF WindowInv, OutOfReach

(* A block that moves the head of the fork database: the index is cut for  *)
(* it, and a switch does not go below what is left.                        *)
LEMMA HigherWindow ==
    ASSUME Valid = Blocks, CoreInv, SwitchInv, WindowInv, head # Genesis,
           NEW b \in Blocks, push_block(b), Num(b) > Num(fork_db.head)
    PROVE  WindowInv'
<1>1. PICK f : f = Linked(fork_db, b, max_size)
  OBVIOUS
<1>2. PICK point : point = ForkPoint(f.head, head)
  OBVIOUS
<1>3. task = Idle /\ task.phase = "idle" /\ ~Refused(fork_db, b, max_size)
  BY DEF push_block, Idle
<1>4. \/ Parent(f.head) = head /\ Applied(b, f, b) /\ UNCHANGED task
      \/ Parent(f.head) = head /\ ~Applies(b)
      \/ /\ Parent(f.head) # head /\ Num(f.head) > Num(head)
         /\ Traced(f, head, point) /\ fork_db' = f
         /\ task' = [phase |-> "pop", new |-> b, target |-> f.head,
                     origin |-> head, point |-> point]
         /\ UNCHANGED <<head, max_size>>
      \/ /\ Parent(f.head) # head
         /\ ~(/\ Num(f.head) > Num(head)
              /\ Traced(f, head, point) /\ Traced(f, f.head, point))
         /\ fork_db' = f /\ UNCHANGED <<head, max_size, task>>
  BY <1>1, <1>2 DEF push_block
<1>5. /\ ForkTyped(fork_db) /\ LinkedDown(fork_db) /\ max_size \in Nat /\ head \in Blocks
      /\ fork_db.head # None /\ fork_db.head \in Blocks
  BY CoreParts DEF StateInv, States, WindowInv, ForkTyped, SwitchInv
<1>6. /\ max_size = HistorySize(head)
      /\ head \in fork_db.index \/ Num(head) < Num(fork_db.head) - max_size
  BY <1>3, <1>5 DEF WindowInv
<1>7. PICK n \in Nat, k \in Nat, h \in Nat, m \in Nat, i \in Nat :
         /\ n = Num(head) /\ k = Num(b) /\ h = Num(fork_db.head) /\ m = max_size
         /\ i = Irreversible(Parent(head)) /\ i <= n - 1 /\ m = n - i + 1 /\ k > h /\ k # 0
  <2>1. PICK n \in Nat, i \in Nat : /\ n = Num(head) /\ i = Irreversible(Parent(head))
                                    /\ i <= n - 1 /\ HistorySize(head) = n - i + 1
    BY <1>5, HistorySizeOf
  <2>2. PICK k \in Nat, h \in Nat : k = Num(b) /\ h = Num(fork_db.head) /\ k # 0
    BY <1>5, ParentFacts
  <2> QED
    BY <1>5, <1>6, <2>1, <2>2
<1>8. m >= 1 /\ ~(k < k - m)
  BY <1>7
<1>9. LinkedTo(f, fork_db, b, max_size) /\ LinkedDown(f)
  BY <1>1, <1>3, <1>5, <1>7, <1>8, LinkedFacts, LinkedLinks
<1>10. /\ ForkTyped(f) /\ f.index \subseteq fork_db.index \cup {b} /\ f.head = b
       /\ \A x \in fork_db.index \cup {b} : ~(Num(x) < k - m) => x \in f.index
       /\ \A x \in f.index : ~(Num(x) < k - m)
       /\ Parent(b) # Genesis => f.cut = FALSE
  BY <1>5, <1>7, <1>9 DEF LinkedTo
<1>11. b \in f.index
  BY <1>7, <1>8, <1>10
<1>12. b # None
  BY BlocksAssumption
<1>13. CASE Parent(b) = head
  <2>1. Applies(b)
    BY <1>13 DEF Applies
  <2>2. Applied(b, f, b) /\ task'.phase = "idle"
    BY <1>3, <1>4, <1>10, <1>13, <2>1
  <2> QED
    BY <1>10, <1>11, <2>2, AppliedWindow
<1>14. CASE /\ Num(f.head) > Num(head) /\ Traced(f, head, point) /\ fork_db' = f
            /\ task' = [phase |-> "pop", new |-> b, target |-> f.head,
                        origin |-> head, point |-> point]
            /\ UNCHANGED <<head, max_size>>
  <2>1. task'.phase = "pop" /\ task'.origin = head /\ task'.point = point
    BY <1>14
  <2>2. point \in Nat /\ point < n
    BY <1>2, <1>5, <1>7, <1>10, ForkPointFacts
  <2>3. point + 1 \in point + 1 .. Num(head) /\ point + 1 \in 0 .. Num(head)
    BY <1>7, <2>2
  <2>4. Prefix(head, point + 1) \in f.index
    BY <1>5, <1>9, <1>10, <1>14, <2>2, <2>3, TracedHeld
  <2>5. Num(Prefix(head, point + 1)) = point + 1
    BY <1>5, <2>3, PrefixFacts DEF States
  <2>6. ~(point + 1 < k - m)
    BY <1>10, <2>4, <2>5
  <2>7. k > n
    BY <1>7, <1>10, <1>14
  <2>8. point >= i - 1
    BY <1>7, <2>2, <2>6, <2>7
  <2>9. f.cut = FALSE
    <3>1. Num(Parent(b)) = k - 1 /\ Num(Genesis) = 0
      BY <1>7, ParentFacts, StatesAreSequences DEF States
    <3>2. Parent(b) # Genesis
      BY <1>7, <2>2, <2>7, <3>1
    <3> QED
      BY <1>10, <3>2
  <2>10. fork_db'.head # None /\ fork_db'.cut = FALSE /\ max_size' >= 1
    BY <1>7, <1>8, <1>10, <1>12, <1>14, <2>9
  <2>11. max_size' = HistorySize(task'.origin)
         /\ task'.point >= Irreversible(Parent(task'.origin)) - 1
    BY <1>6, <1>7, <1>14, <2>1, <2>8
  <2> QED
    BY <2>1, <2>10, <2>11 DEF WindowInv
<1>15. CASE /\ Parent(b) # head /\ fork_db' = f /\ UNCHANGED <<head, max_size, task>>
            /\ ~(/\ Num(f.head) > Num(head)
                 /\ Traced(f, head, point) /\ Traced(f, f.head, point))
  <2>1. k > n => OutOfReach(f, head)
    BY <1>2, <1>7, <1>10, <1>11, <1>15, OutOfReachFacts
  <2>2. head \in f.index \/ n < k - m
    <3>1. CASE n < k - m
      BY <3>1
    <3>2. CASE ~(n < k - m)
      <4>1. head \in fork_db.index
        BY <1>6, <1>7, <3>2
      <4> QED
        BY <1>7, <1>10, <3>2, <4>1
    <3> QED
      BY <3>1, <3>2
  <2> QED
    BY <1>3, <1>6, <1>7, <1>8, <1>10, <1>12, <1>15, <2>1, <2>2 DEF WindowInv, OutOfReach
<1> QED
  BY <1>4, <1>10, <1>13, <1>14, <1>15 DEF Applies

(* A block of the old fork is popped.                                      *)
LEMMA PopWindow ==
    ASSUME CoreInv, SwitchInv, SwitchInv', HistoryReaches, WindowInv, switch_pop
    PROVE  WindowInv'
<1>1. task.phase = "pop" /\ PopTo("apply") /\ task.phase \in SwitchPhases
      /\ "apply" \in SwitchPhases
  BY DEF switch_pop, SwitchPhases
<1>2. /\ head \in Blocks /\ Reverted /\ head' = Parent(head)
      /\ task' = IF head' = Point THEN [task EXCEPT !.phase = "apply"] ELSE task
  BY <1>1, PopsParent
<1>3. ForkTyped(fork_db) /\ fork_db' = HeadSet(fork_db, Parent(fork_db.head))
  BY <1>1, CoreParts DEF PopTo, pop_block
<1>4. fork_db'.index = fork_db.index /\ fork_db'.head = Parent(fork_db.head)
  BY <1>3, HeadSetLinks
<1>5. max_size' = max_size /\ max_size' >= 1
  BY <1>2 DEF Reverted, WindowInv
<1>6. PICK o \in Nat, t \in Nat, n \in Nat :
         /\ o = Num(task.origin) /\ t = Num(task.target) /\ n = Num(head)
         /\ t > o /\ n # 0 /\ n <= o /\ Num(head') = n - 1
  <2>1. OnBranch(head, task.origin) /\ Num(task.target) > Num(task.origin)
    BY <1>1 DEF SwitchInv, OnTheWay, ForkFollows
  <2> QED
    BY <1>1, <1>2, <2>1, SwitchFacts, ParentFacts DEF OnBranch
<1>7. PICK k \in Nat : /\ k = t - (o - n) /\ k \in 1 .. t /\ k - 1 \in 0 .. t
                       /\ k - 1 # 0 /\ k - 1 <= t
  <2>1. t - (o - n) \in Nat
    BY <1>6
  <2> QED
    BY <1>6, <2>1
<1>8. fork_db'.head = Prefix(task.target, k - 1)
  <2>1. fork_db.head = Prefix(task.target, k)
    BY <1>1, <1>6, <1>7 DEF SwitchInv, ForkFollows
  <2>2. task.target \in States /\ k \in 1 .. Num(task.target)
    BY <1>1, <1>6, <1>7, SwitchFacts
  <2> QED
    BY <1>4, <2>1, <2>2, StepDown
<1>9. fork_db'.head # None /\ Num(fork_db'.head) <= t
  <2>1. Prefix(task.target, k - 1) \in Blocks /\ Num(Prefix(task.target, k - 1)) = k - 1
    BY <1>1, <1>6, <1>7, SwitchFacts, PrefixFacts
  <2> QED
    BY <1>7, <1>8, <2>1, BlocksAssumption
<1>10. CASE head' # Point
  <2>1. task' = task
    BY <1>2, <1>10
  <2>2. head' # task.origin
    BY <1>6
  <2>3. fork_db'.cut = FALSE
    BY <1>1, <2>1, <2>2 DEF SwitchInv, ForkFollows
  <2> QED
    BY <1>1, <1>5, <1>9, <2>1, <2>3 DEF WindowInv
<1>11. CASE head' = Point
  <2>1. task'.phase = "apply" /\ task'.target = task.target
    BY <1>1, <1>2, <1>11, SwitchFacts
  <2>2. task.target \in fork_db.index
    BY <1>1 DEF SwitchInv, ForkFollows, Traced
  <2> QED
    BY <1>4, <1>5, <1>6, <1>9, <2>1, <2>2 DEF WindowInv
<1> QED
  BY <1>10, <1>11

(* A block of the new fork is applied.                                     *)
LEMMA ApplyWindow ==
    ASSUME Valid = Blocks, CoreInv, SwitchInv, WindowInv, switch_apply
    PROVE  WindowInv'
<1>1. task.phase = "apply" /\ task.phase \in SwitchPhases
  BY DEF switch_apply, SwitchPhases
<1>2. PICK b : b = Prefix(task.target, Num(head) + 1)
  OBVIOUS
<1>3. \/ Applied(b, fork_db, b) /\ task' = IF b = task.target THEN Idle ELSE task
      \/ ~Applies(b)
  BY <1>2 DEF switch_apply
<1>4. task.target \in Blocks /\ task.target \in States /\ head \in States
  BY <1>1, SwitchFacts
<1>5. OnBranch(head, task.target) /\ Num(head) < Num(task.target)
  BY <1>1 DEF SwitchInv, OnTheWay
<1>6. b \in Blocks /\ Parent(b) = head
  BY <1>2, <1>4, <1>5, NextOnBranch
<1>7. Applied(b, fork_db, b) /\ task' = IF b = task.target THEN Idle ELSE task
  BY <1>3, <1>6 DEF Applies
<1>8. head' = b /\ max_size' = HistorySize(b) /\ fork_db' = Resized(fork_db, HistorySize(b))
  BY <1>7 DEF Applied
<1>9. /\ ForkTyped(fork_db) /\ fork_db.head # None /\ fork_db.head \in Blocks
      /\ task.target \in fork_db.index /\ Num(fork_db.head) <= Num(task.target)
  BY <1>1, CoreParts DEF WindowInv, ForkTyped
<1>10. fork_db'.head = fork_db.head /\ task.target \in fork_db'.index /\ max_size' >= 1
  BY <1>6, <1>8, <1>9, ResizedKeeps, HistorySizeOf
<1>11. CASE b = task.target
  <2>1. task'.phase = "idle" /\ b # Genesis
    BY <1>6, <1>7, <1>11, BlocksAssumption DEF Idle
  <2>2. ~(Num(fork_db.head) > Num(b)) /\ Parent(fork_db.head) # b
    <3>1. /\ Num(b) \in Nat /\ Num(fork_db.head) \in Nat
          /\ Num(Parent(fork_db.head)) = Num(fork_db.head) - 1
      BY <1>6, <1>9, ParentFacts
    <3> QED
      BY <1>9, <1>11, <3>1
  <2> QED
    BY <1>8, <1>9, <1>10, <1>11, <2>1, <2>2 DEF WindowInv
<1>12. CASE b # task.target
  <2>1. task' = task
    BY <1>7, <1>12
  <2> QED
    BY <1>1, <1>9, <1>10, <2>1 DEF WindowInv
<1> QED
  BY <1>11, <1>12

(* Every step of a node that is sent valid blocks only.                    *)
LEMMA WindowNext ==
    ASSUME Valid = Blocks, CoreInv, SwitchInv, SwitchInv', NoSwitchFails, HistoryReaches,
           WindowInv, [Running]_vars
    PROVE  WindowInv'
<1>1. ASSUME NEW b \in Blocks, push_block(b) PROVE WindowInv'
  BY <1>1, FirstWindow, LowerWindow, HigherWindow
<1>2. ASSUME UNCHANGED <<head, max_size, fork_db, task>> PROVE WindowInv'
  BY <1>2 DEF WindowInv, OutOfReach
<1>3. ASSUME NEW k \in Nested, push_transaction(k) PROVE WindowInv'
  BY <1>2, <1>3 DEF push_transaction
<1>4. CASE switch_pop
  BY <1>4, PopWindow
<1>5. CASE switch_apply
  BY <1>5, ApplyWindow
<1>6. ~restore_pop /\ ~restore_apply
  BY DEF restore_pop, restore_apply, NoSwitchFails
<1>7. ~pop_throws
  <2> SUFFICES ASSUME pop_throws PROVE FALSE
    OBVIOUS
  <2>1. task.phase = "pop" /\ ~CanPop
    BY DEF pop_throws, NoSwitchFails
  <2>2. head = task.origin
    BY <2>1, PopsGoOn
  <2>3. head \in fork_db.index
    BY <2>1, <2>2 DEF SwitchInv, ForkFollows, Traced
  <2>4. fork_db.cut = FALSE
    BY <2>1 DEF WindowInv
  <2> QED
    BY <2>1, <2>3, <2>4 DEF CanPop, KnownHead
<1>8. CASE UNCHANGED vars
  BY <1>2, <1>8 DEF vars
<1> QED
  BY <1>1, <1>3, <1>4, <1>5, <1>6, <1>7, <1>8 DEF Running, Switching

(* On any tree of valid blocks, however its forks part: while its undo     *)
(* history lasts a node never begins a switch that goes below the parent   *)
(* of the block that was irreversible before its head was applied          *)
(* (fork_database::_push_block and set_max_size cut the index to the size  *)
(* update_global_dynamic_data gives it).                                   *)
THEOREM SwitchesStayInWindow ==
    ASSUME Valid = Blocks
    PROVE  RunningSpec /\ []HistoryReaches => []SwitchStaysInWindow
<1> DEFINE All == CoreInv /\ SwitchInv /\ NoSwitchFails /\ WindowInv
<1>1. Init => All
  <2> SUFFICES ASSUME Init PROVE NoSwitchFails /\ WindowInv
    BY CoreInit, SwitchInit
  <2>1. /\ head = Genesis /\ task.phase = "idle" /\ fork_db.head = None /\ max_size >= 1
    BY InitialMaxAssumption DEF Init, Idle, Cleared
  <2> QED
    BY <2>1 DEF WindowInv, NoSwitchFails
<1>2. All /\ HistoryReaches /\ [Running]_vars => All'
  <2> SUFFICES ASSUME CoreInv, SwitchInv, NoSwitchFails, WindowInv, HistoryReaches,
                      [Running]_vars
               PROVE  All'
    OBVIOUS
  <2>1. [Running \/ Restarting]_vars
    OBVIOUS
  <2>2. UnwindPops
    BY DEF UnwindPops, NoSwitchFails
  <2>3. CoreInv' /\ SwitchInv' /\ NoSwitchFails'
    BY <2>1, <2>2, CoreNext, SwitchNext, ValidNext
  <2> QED
    BY <2>3, WindowNext
<1>3. All => SwitchStaysInWindow
  BY DEF WindowInv, SwitchStaysInWindow
<1> QED
  BY <1>1, <1>2, <1>3, PTL DEF RunningSpec
=============================================================================
