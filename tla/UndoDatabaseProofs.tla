------------------------- MODULE UndoDatabaseProofs -------------------------
(***************************************************************************)
(* Proofs about UndoDatabase for every set of types and values and every   *)
(* bound.  The first lemmas are about one level between two states; the    *)
(* last theorems lift them to the stack.                                   *)
(***************************************************************************)
EXTENDS UndoDatabase, SequenceTheorems, TLAPS

(* The parts of an identifier.                                             *)
LEMMA OIDParts ==
    /\ \A o \in OID : Type(o) \in Types /\ Inst(o) \in 0 .. MaxInstance - 1
    /\ \A t \in Types : \A k \in 0 .. MaxInstance - 1 :
          <<t, k>> \in OID /\ Type(<<t, k>>) = t /\ Inst(<<t, k>>) = k
    /\ \A o, p \in OID : Type(o) = Type(p) /\ Inst(o) = Inst(p) => o = p
BY DEF OID, Type, Inst

(* A level that was just pushed fits, and has its type.                    *)
LEMMA EmptyFits ==
    ASSUME NEW s \in State
    PROVE  EmptyState \in UndoState /\ Fits(EmptyState, s, s)
<1>1. EmptyState \in UndoState
  BY DEF EmptyState, UndoState, Entry, Cell
<1>2. \A t \in Types : s.next_id[t] \in Int
  BY BoundAssumption DEF State
<1> QED BY <1>1, <1>2 DEF EmptyState, Fits

(* create: the state with the new object, and the level told of it.        *)
Created(s, t, v) ==
    [store   |-> [s.store EXCEPT ![<<t, s.next_id[t]>>] = v],
     next_id |-> [s.next_id EXCEPT ![t] = @ + 1]]

(* The state create leaves is a state, and a well-formed one.              *)
LEMMA CreatedState ==
    ASSUME NEW s \in State, NEW t \in Types, NEW v \in Values,
           WellFormed(s), s.next_id[t] < MaxInstance
    PROVE  /\ Created(s, t, v) \in State
           /\ WellFormed(Created(s, t, v))
           /\ <<t, s.next_id[t]>> \in OID
           /\ s.store[<<t, s.next_id[t]>>] = None
<1> DEFINE o == <<t, s.next_id[t]>>
<1>0. s.next_id[t] \in 0 .. MaxInstance - 1 /\ \A q \in Types : s.next_id[q] \in 0 .. MaxInstance
  BY BoundAssumption DEF State
<1>1. o \in OID /\ Type(o) = t /\ Inst(o) = s.next_id[t]
  BY <1>0, OIDParts
<1>2. s.store[o] = None
  BY <1>0, <1>1 DEF WellFormed
<1>3. Created(s, t, v) \in State
  BY <1>0, <1>1, BoundAssumption DEF Created, State, Entry
<1>4. WellFormed(Created(s, t, v))
  <2> SUFFICES ASSUME NEW p \in OID, Created(s, t, v).store[p] # None
               PROVE  Inst(p) < Created(s, t, v).next_id[Type(p)]
    BY DEF WellFormed
  <2>1. Type(p) \in Types /\ Inst(p) \in Int
    BY OIDParts
  <2>2. CASE p = o
    BY <2>2, <1>0, <1>1 DEF Created, State
  <2>3. CASE p # o
    <3>1. s.store[p] # None
      BY <2>3, <1>1 DEF Created, State
    <3> QED BY <3>1, <2>1, <1>0, OIDParts DEF Created, WellFormed, State
  <2> QED BY <2>2, <2>3
<1> QED BY <1>1, <1>2, <1>3, <1>4

(* create: the new object and the first free instance are recorded.        *)
LEMMA CreateFits ==
    ASSUME NEW u \in UndoState, NEW b \in State, NEW s \in State,
           NEW t \in Types, NEW v \in Values,
           WellFormed(b), WellFormed(s), s.next_id[t] < MaxInstance, Fits(u, b, s)
    PROVE  LET o == <<t, s.next_id[t]>>
           IN  on_create(u, o) \in UndoState /\ Fits(on_create(u, o), b, Created(s, t, v))
<1> DEFINE o == <<t, s.next_id[t]>>
           w == on_create(u, o)
           r == Created(s, t, v)
<1>0. \A q \in Types : s.next_id[q] \in 0 .. MaxInstance /\ b.next_id[q] \in 0 .. MaxInstance
  BY DEF State
<1>1. /\ o \in OID /\ Type(o) = t /\ Inst(o) = s.next_id[t]
      /\ s.next_id[t] \in 0 .. MaxInstance - 1
      /\ s.store[o] = None
  BY <1>0, CreatedState, OIDParts, BoundAssumption
<1>2. b.next_id[t] <= s.next_id[t] /\ b.store[o] = None
  <2>1. b.next_id[t] <= s.next_id[t]
    BY DEF Fits
  <2>2. b.store[o] # None => Inst(o) < b.next_id[t]
    BY <1>1 DEF WellFormed
  <2> QED BY <2>1, <2>2, <1>0, <1>1
<1>3. o \notin u.new_ids /\ u.old_values[o] = None /\ u.removed[o] = None
  BY <1>1, <1>2 DEF Fits
<1>4. /\ w.new_ids = u.new_ids \cup {o} /\ w.old_values = u.old_values
      /\ w.removed = u.removed
      /\ w.old_index_next_ids = [u.old_index_next_ids EXCEPT ![t] =
                                    IF @ = None THEN Inst(o) ELSE @]
  BY <1>1 DEF on_create, UndoState
<1>5. w \in UndoState
  <2>1. Inst(o) \in Cell
    BY <1>0, <1>1 DEF Cell
  <2> QED BY <1>1, <2>1 DEF on_create, UndoState
<1>6. \A p \in OID : p # o => r.store[p] = s.store[p]
  BY <1>1 DEF Created, State
<1>7. r.store[o] # None
  BY <1>1, NoneAssumption DEF Created, State
<1>8. /\ r.next_id[t] = s.next_id[t] + 1
      /\ \A q \in Types : q # t => r.next_id[q] = s.next_id[q]
  BY DEF Created, State
<1>9. ASSUME NEW p \in OID
      PROVE  /\ p \in w.new_ids =>
                /\ b.store[p] = None /\ r.store[p] # None
                /\ w.old_values[p] = None /\ w.removed[p] = None
                /\ b.next_id[Type(p)] <= Inst(p)
             /\ w.old_values[p] # None =>
                /\ b.store[p] = w.old_values[p] /\ r.store[p] # None
                /\ w.removed[p] = None
             /\ w.removed[p] # None =>
                b.store[p] = w.removed[p] /\ r.store[p] = None
             /\ p \notin w.new_ids /\ w.old_values[p] = None /\ w.removed[p] = None =>
                b.store[p] = r.store[p]
  <2>1. CASE p = o
    BY <2>1, <1>1, <1>2, <1>3, <1>4, <1>7
  <2>2. CASE p # o
    BY <2>2, <1>4, <1>6 DEF Fits
  <2> QED BY <2>1, <2>2
<1>10. ASSUME NEW q \in Types
       PROVE  /\ b.next_id[q] <= r.next_id[q]
              /\ w.old_index_next_ids[q] # None => w.old_index_next_ids[q] = b.next_id[q]
              /\ w.old_index_next_ids[q] = None => r.next_id[q] = b.next_id[q]
  <2>1. CASE q = t
    <3>1. w.old_index_next_ids[t] =
             IF u.old_index_next_ids[t] = None THEN Inst(o) ELSE u.old_index_next_ids[t]
      BY <1>4 DEF UndoState
    <3>2. w.old_index_next_ids[t] = b.next_id[t] /\ b.next_id[t] # None
      BY <3>1, <1>0, <1>1, NoneAssumption DEF Fits
    <3> QED BY <2>1, <3>2, <1>0, <1>2, <1>8
  <2>2. CASE q # t
    <3>1. w.old_index_next_ids[q] = u.old_index_next_ids[q]
      BY <2>2, <1>4 DEF UndoState
    <3> QED BY <2>2, <3>1, <1>8 DEF Fits
  <2> QED BY <2>1, <2>2
<1>11. Fits(w, b, r)
  BY <1>9, <1>10 DEF Fits
<1> QED BY <1>5, <1>11

(* modify: the old value is kept once, and only of an older object.        *)
LEMMA ModifyFits ==
    ASSUME NEW u \in UndoState, NEW b \in State, NEW s \in State, NEW o \in OID,
           NEW v \in Values, WellFormed(s), s.store[o] # None, Fits(u, b, s)
    PROVE  LET r == [s EXCEPT !.store = [@ EXCEPT ![o] = v]]
           IN  /\ r \in State /\ WellFormed(r)
               /\ on_modify(u, o, s.store[o]) \in UndoState
               /\ Fits(on_modify(u, o, s.store[o]), b, r)
<1> DEFINE r == [s EXCEPT !.store = [@ EXCEPT ![o] = v]]
           w == on_modify(u, o, s.store[o])
<1>1. r \in State
  BY DEF State, Entry
<1>2. r.next_id = s.next_id /\ r.store[o] = v /\ \A p \in OID : p # o => r.store[p] = s.store[p]
  BY DEF State
<1>3. WellFormed(r)
  BY <1>2 DEF WellFormed
<1>4. w \in UndoState
  BY DEF on_modify, UndoState, State
<1>5. /\ w.new_ids = u.new_ids /\ w.removed = u.removed
      /\ w.old_index_next_ids = u.old_index_next_ids
      /\ \A p \in OID : p # o => w.old_values[p] = u.old_values[p]
      /\ w.old_values[o] = IF o \in u.new_ids \/ u.old_values[o] # None
                           THEN u.old_values[o] ELSE s.store[o]
  BY DEF on_modify, UndoState
<1>6. Fits(w, b, r)
  BY <1>2, <1>5, NoneAssumption DEF Fits
<1> QED BY <1>1, <1>3, <1>4, <1>6

(* remove: forgets a new object, turns an old value into a removed one.    *)
LEMMA RemoveFits ==
    ASSUME NEW u \in UndoState, NEW b \in State, NEW s \in State, NEW o \in OID,
           WellFormed(s), s.store[o] # None, Fits(u, b, s)
    PROVE  LET r == [s EXCEPT !.store = [@ EXCEPT ![o] = None]]
           IN  /\ r \in State /\ WellFormed(r)
               /\ on_remove(u, o, s.store[o]) \in UndoState
               /\ Fits(on_remove(u, o, s.store[o]), b, r)
<1> DEFINE r == [s EXCEPT !.store = [@ EXCEPT ![o] = None]]
           w == on_remove(u, o, s.store[o])
<1>1. r \in State
  BY DEF State, Entry
<1>2. r.next_id = s.next_id /\ r.store[o] = None /\ \A p \in OID : p # o => r.store[p] = s.store[p]
  BY DEF State
<1>3. WellFormed(r)
  BY <1>2 DEF WellFormed
<1>4. w \in UndoState
  BY DEF on_remove, UndoState, State, Entry
<1>5. /\ w.old_index_next_ids = u.old_index_next_ids
      /\ \A p \in OID : p # o => /\ w.old_values[p] = u.old_values[p]
                                 /\ w.removed[p] = u.removed[p]
                                 /\ p \in w.new_ids <=> p \in u.new_ids
      /\ o \notin w.new_ids
  BY DEF on_remove, UndoState, Fits
<1>6. /\ o \in u.new_ids => w.old_values[o] = None /\ w.removed[o] = None
      /\ o \notin u.new_ids /\ u.old_values[o] # None =>
            w.removed[o] = u.old_values[o] /\ w.old_values[o] = None
      /\ o \notin u.new_ids /\ u.old_values[o] = None =>
            w.removed[o] = s.store[o] /\ w.old_values[o] = None
  BY DEF on_remove, UndoState, Fits
<1>7. Fits(w, b, r)
  BY <1>2, <1>5, <1>6 DEF Fits
<1> QED BY <1>1, <1>3, <1>4, <1>7

(* Reverting a level that fits gives back the state below, without error.  *)
LEMMA RevertRestores ==
    ASSUME NEW u \in UndoState, NEW b \in State, NEW s \in State, Fits(u, b, s)
    PROVE  /\ RevertStore(u, s.store) = b.store
           /\ RevertNextId(u, s.next_id) = b.next_id
           /\ RevertSucceeds(u, s.store)
<1>1. \A o \in OID : RevertStore(u, s.store)[o] = b.store[o]
  BY DEF Fits, RevertStore
<1>2. \A t \in Types : RevertNextId(u, s.next_id)[t] = b.next_id[t]
  BY DEF Fits, RevertNextId
<1>3. RevertStore(u, s.store) = b.store
  BY <1>1 DEF RevertStore, State
<1>4. RevertNextId(u, s.next_id) = b.next_id
  BY <1>2 DEF RevertNextId, State
<1>5. RevertSucceeds(u, s.store)
  BY DEF RevertSucceeds, Fits
<1> QED BY <1>3, <1>4, <1>5

(* merge: the composition of two levels fits between the outer states, and *)
(* no cell of the matrix marked N/A occurs.                                *)
LEMMA MergeFits ==
    ASSUME NEW a \in UndoState, NEW b \in UndoState,
           NEW s0 \in State, NEW s1 \in State, NEW s2 \in State,
           WellFormed(s0), WellFormed(s1), Fits(a, s0, s1), Fits(b, s1, s2)
    PROVE  Fits(merged(a, b), s0, s2) /\ CausalPair(a, b)
<1> DEFINE m == merged(a, b)
<1>0. \A t \in Types : /\ s0.next_id[t] \in Int /\ s1.next_id[t] \in Int
                       /\ s2.next_id[t] \in Int
                       /\ s0.next_id[t] # None /\ s1.next_id[t] # None
  BY BoundAssumption, NoneAssumption DEF State
<1>1. CausalPair(a, b)
  <2> SUFFICES ASSUME NEW o \in OID
               PROVE  /\ a.removed[o] # None =>
                            b.old_values[o] = None /\ b.removed[o] = None /\ o \notin b.new_ids
                      /\ o \in b.new_ids => o \notin a.new_ids /\ a.old_values[o] = None
    BY DEF CausalPair
  <2>1. Type(o) \in Types /\ Inst(o) \in Int
    BY OIDParts
  <2>2. s1.store[o] = None => b.old_values[o] = None /\ b.removed[o] = None
    BY DEF Fits
  <2>3. ASSUME a.removed[o] # None, o \in b.new_ids PROVE FALSE
    <3>1. Inst(o) < s0.next_id[Type(o)]
      BY <2>3 DEF Fits, WellFormed
    <3>2. s0.next_id[Type(o)] <= s1.next_id[Type(o)] /\ s1.next_id[Type(o)] <= Inst(o)
      BY <2>1, <2>3 DEF Fits
    <3> QED BY <3>1, <3>2, <2>1, <1>0
  <2> QED BY <2>2, <2>3 DEF Fits
<1>2. ASSUME NEW o \in OID
      PROVE  /\ o \in m.new_ids =>
                   /\ s0.store[o] = None /\ s2.store[o] # None
                   /\ m.old_values[o] = None /\ m.removed[o] = None
                   /\ s0.next_id[Type(o)] <= Inst(o)
             /\ m.old_values[o] # None =>
                   /\ s0.store[o] = m.old_values[o] /\ s2.store[o] # None
                   /\ m.removed[o] = None
             /\ m.removed[o] # None =>
                   s0.store[o] = m.removed[o] /\ s2.store[o] = None
             /\ o \notin m.new_ids /\ m.old_values[o] = None /\ m.removed[o] = None =>
                   s0.store[o] = s2.store[o]
  <2> DEFINE old == IF o \in a.new_ids \/ a.old_values[o] # None
                    THEN a.old_values[o] ELSE b.old_values[o]
  <2>1. /\ o \in m.new_ids <=> (o \in a.new_ids \/ o \in b.new_ids) /\ b.removed[o] = None
        /\ m.old_values[o] =
              IF b.removed[o] # None /\ o \notin a.new_ids /\ o \notin b.new_ids
              THEN None ELSE old
        /\ m.removed[o] =
              IF b.removed[o] # None /\ o \notin a.new_ids /\ o \notin b.new_ids
              THEN (IF old # None THEN old ELSE b.removed[o]) ELSE a.removed[o]
    BY DEF merged
  <2>2. Type(o) \in Types /\ Inst(o) \in Int
    BY OIDParts
  <2>3. o \in b.new_ids => s0.next_id[Type(o)] <= Inst(o)
    BY <2>2, <1>0 DEF Fits
  <2>4. /\ a.removed[o] # None =>
              b.old_values[o] = None /\ b.removed[o] = None /\ o \notin b.new_ids
        /\ o \in b.new_ids => o \notin a.new_ids /\ a.old_values[o] = None
    BY <1>1 DEF CausalPair
  <2> HIDE DEF m
  <2>5. CASE o \in a.new_ids
    BY <2>1, <2>3, <2>4, <2>5 DEF Fits
  <2>6. CASE o \notin a.new_ids /\ a.old_values[o] # None
    BY <2>1, <2>3, <2>4, <2>6 DEF Fits
  <2>7. CASE o \notin a.new_ids /\ a.old_values[o] = None /\ a.removed[o] # None
    BY <2>1, <2>3, <2>4, <2>7 DEF Fits
  <2>8. CASE o \notin a.new_ids /\ a.old_values[o] = None /\ a.removed[o] = None
    BY <2>1, <2>3, <2>4, <2>8 DEF Fits
  <2> QED BY <2>5, <2>6, <2>7, <2>8
<1>3. ASSUME NEW t \in Types
      PROVE  /\ s0.next_id[t] <= s2.next_id[t]
             /\ m.old_index_next_ids[t] # None => m.old_index_next_ids[t] = s0.next_id[t]
             /\ m.old_index_next_ids[t] = None => s2.next_id[t] = s0.next_id[t]
  <2>1. m.old_index_next_ids[t] = IF a.old_index_next_ids[t] # None
                                  THEN a.old_index_next_ids[t] ELSE b.old_index_next_ids[t]
    BY DEF merged
  <2>2. /\ s0.next_id[t] <= s1.next_id[t] /\ s1.next_id[t] <= s2.next_id[t]
        /\ a.old_index_next_ids[t] # None => a.old_index_next_ids[t] = s0.next_id[t]
        /\ a.old_index_next_ids[t] = None => s1.next_id[t] = s0.next_id[t]
        /\ b.old_index_next_ids[t] # None => b.old_index_next_ids[t] = s1.next_id[t]
        /\ b.old_index_next_ids[t] = None => s2.next_id[t] = s1.next_id[t]
    BY DEF Fits
  <2> QED BY <2>1, <2>2, <1>0
<1>4. Fits(m, s0, s2)
  BY <1>2, <1>3 DEF Fits
<1> QED BY <1>1, <1>4

(* The composition of two levels is a level.                               *)
LEMMA MergeType ==
    ASSUME NEW a \in UndoState, NEW b \in UndoState
    PROVE  merged(a, b) \in UndoState
BY DEF merged, UndoState, Entry, Cell

(* A level that fits keeps, once it misses changes, what Remnant says.     *)
LEMMA FitsRemnant ==
    ASSUME NEW u \in UndoState, NEW b \in State, NEW s \in State,
           WellFormed(b), WellFormed(s), Fits(u, b, s)
    PROVE  Remnant(u, s)
<1> SUFFICES ASSUME NEW o \in OID
             PROVE  /\ o \in u.new_ids \/ u.old_values[o] # None =>
                          Inst(o) < s.next_id[Type(o)]
                    /\ u.removed[o] # None =>
                          Inst(o) < s.next_id[Type(o)] /\ s.store[o] = None
  BY DEF Remnant
<1>1. Type(o) \in Types /\ Inst(o) \in Int
  BY OIDParts
<1>2. b.next_id[Type(o)] <= s.next_id[Type(o)] /\ b.next_id[Type(o)] \in Int
      /\ s.next_id[Type(o)] \in Int
  BY <1>1, BoundAssumption DEF Fits, State
<1>3. u.removed[o] # None => Inst(o) < b.next_id[Type(o)]
  BY DEF Fits, WellFormed
<1>4. u.removed[o] # None => Inst(o) < s.next_id[Type(o)]
  BY <1>1, <1>2, <1>3
<1> QED BY <1>4 DEF Fits, WellFormed

(* An instance that was given out and is absent stays absent.              *)
Later(s, r) ==
    /\ \A t \in Types : s.next_id[t] <= r.next_id[t]
    /\ \A o \in OID : s.store[o] = None /\ Inst(o) < s.next_id[Type(o)] => r.store[o] = None

(* A remnant stays one while instances grow and objects only go.           *)
LEMMA RemnantLater ==
    ASSUME NEW u \in UndoState, NEW s \in State, NEW r \in State,
           Remnant(u, s), Later(s, r)
    PROVE  Remnant(u, r)
<1>1. \A o \in OID : /\ Inst(o) \in Int /\ s.next_id[Type(o)] \in Int
                     /\ r.next_id[Type(o)] \in Int
                     /\ s.next_id[Type(o)] <= r.next_id[Type(o)]
  BY OIDParts, BoundAssumption DEF Later, State
<1>2. \A o \in OID : Inst(o) < s.next_id[Type(o)] => Inst(o) < r.next_id[Type(o)]
  BY <1>1
<1> QED BY <1>2 DEF Remnant, Later

(* merge onto a level that missed changes.                                 *)
LEMMA MergeRemnant ==
    ASSUME NEW a \in UndoState, NEW b \in UndoState, NEW s1 \in State, NEW s2 \in State,
           WellFormed(s1), WellFormed(s2), Remnant(a, s1), Fits(b, s1, s2)
    PROVE  Remnant(merged(a, b), s2) /\ CausalPair(a, b)
<1> DEFINE m == merged(a, b)
<1>0. ASSUME NEW o \in OID
      PROVE  /\ Type(o) \in Types /\ Inst(o) \in Int
             /\ s1.next_id[Type(o)] \in Int /\ s2.next_id[Type(o)] \in Int
             /\ s1.next_id[Type(o)] <= s2.next_id[Type(o)]
  BY OIDParts, BoundAssumption DEF Fits, State
<1>1. CausalPair(a, b)
  <2>1. ASSUME NEW o \in OID, o \in b.new_ids
        PROVE  o \notin a.new_ids /\ a.old_values[o] = None /\ a.removed[o] = None
    <3>1. s1.next_id[Type(o)] <= Inst(o)
      BY <2>1 DEF Fits
    <3>2. ~(Inst(o) < s1.next_id[Type(o)])
      BY <3>1, <1>0
    <3> QED BY <3>2 DEF Remnant
  <2>2. ASSUME NEW o \in OID, a.removed[o] # None
        PROVE  b.old_values[o] = None /\ b.removed[o] = None
    BY <2>2 DEF Remnant, Fits
  <2> QED BY <2>1, <2>2 DEF CausalPair
<1>2. ASSUME NEW o \in OID
      PROVE  /\ o \in m.new_ids \/ m.old_values[o] # None => Inst(o) < s2.next_id[Type(o)]
             /\ m.removed[o] # None =>
                   Inst(o) < s2.next_id[Type(o)] /\ s2.store[o] = None
  <2>1. /\ s2.store[o] # None => Inst(o) < s2.next_id[Type(o)]
        /\ s1.store[o] # None => Inst(o) < s1.next_id[Type(o)]
    BY DEF WellFormed
  <2>2. Inst(o) < s1.next_id[Type(o)] => Inst(o) < s2.next_id[Type(o)]
    BY <1>0
  <2>3. /\ o \in m.new_ids => o \in a.new_ids \/ o \in b.new_ids
        /\ m.old_values[o] # None => a.old_values[o] # None \/ b.old_values[o] # None
        /\ m.removed[o] # None => a.removed[o] # None \/ b.removed[o] # None
    BY DEF merged
  <2>4. a.removed[o] # None =>
           b.old_values[o] = None /\ b.removed[o] = None /\ o \notin b.new_ids
    BY <1>1 DEF CausalPair
  <2>5. Inst(o) < s1.next_id[Type(o)] \/ s2.store[o] # None => Inst(o) < s2.next_id[Type(o)]
    BY <2>1, <2>2
  <2>6. o \in m.new_ids \/ m.old_values[o] # None => Inst(o) < s2.next_id[Type(o)]
    BY <2>3, <2>5 DEF Remnant, Fits
  <2>7. m.removed[o] # None => Inst(o) < s2.next_id[Type(o)] /\ s2.store[o] = None
    BY <2>1, <2>3, <2>4, <2>5 DEF Remnant, Fits
  <2> QED BY <2>6, <2>7
<1>3. Remnant(m, s2)
  BY <1>2 DEF Remnant
<1> QED BY <1>1, <1>3
-----------------------------------------------------------------------------
(* The initial states satisfy the inductive invariant.                     *)
LEMMA InitIInv == Init => IInv
<1> SUFFICES ASSUME Init PROVE IInv
  OBVIOUS
<1>1. TypeOK
  <2>1. store \in [OID -> Entry] /\ next_id \in [Types -> 0 .. MaxInstance]
    BY BoundAssumption DEF Init, Entry
  <2>2. /\ stack \in Seq(UndoState) /\ saved \in Seq(State)
        /\ Len(saved) = Len(stack) /\ stale \in 0 .. Len(stack)
    BY DEF Init
  <2>3. active_sessions \in 0 .. MaxNesting /\ max_size \in MaxSizes
    BY BoundAssumption DEF Init
  <2>4. disabled \in BOOLEAN /\ disable_on_exit \in BOOLEAN
    BY DEF Init
  <2> QED BY <2>1, <2>2, <2>3, <2>4 DEF TypeOK
<1> QED BY <1>1 DEF Init, IInv, WellFormed, Current

(* The facts every step uses.                                              *)
LEMMA IInvFacts ==
    ASSUME IInv
    PROVE  /\ Current \in State
           /\ Len(stack) \in Nat /\ Len(saved) = Len(stack) /\ stale \in 0 .. Len(stack)
           /\ \A i \in 1 .. Len(stack) : stack[i] \in UndoState /\ saved[i] \in State
           /\ \A i \in 1 .. Len(stack) : Above(i) \in State
           /\ stack = <<>> <=> Len(stack) = 0
<1>1. Current \in State
  BY DEF IInv, TypeOK, Current, State
<1>2. /\ stack \in Seq(UndoState) /\ saved \in Seq(State)
      /\ Len(saved) = Len(stack) /\ stale \in 0 .. Len(stack)
  BY DEF IInv, TypeOK
<1>3. Len(stack) \in Nat /\ (stack = <<>> <=> Len(stack) = 0)
  BY <1>2
<1>4. \A i \in 1 .. Len(stack) : stack[i] \in UndoState /\ saved[i] \in State
  BY <1>2
<1>5. ASSUME NEW i \in 1 .. Len(stack) PROVE Above(i) \in State
  <2>1. CASE i = Len(stack)
    BY <2>1, <1>1 DEF Above
  <2>2. CASE i # Len(stack)
    <3>1. i + 1 \in 1 .. Len(stack)
      BY <2>2, <1>3
    <3> QED BY <2>2, <3>1, <1>4 DEF Above
  <2> QED BY <2>1, <2>2
<1> QED BY <1>1, <1>2, <1>3, <1>4, <1>5

(* A write that is recorded: w is the new top level, r the new state.      *)
LEMMA RecordedWrite ==
    ASSUME IInv, ~disabled, NEW w \in UndoState, NEW r \in State,
           WellFormed(r),
           \A b \in State : WellFormed(b) /\ Fits(Top, b, Current) => Fits(w, b, r),
           stale = Len(stack) /\ stale > 0 => Remnant(w, r),
           store' = r.store, next_id' = r.next_id, record(w),
           UNCHANGED <<active_sessions, max_size, disabled, disable_on_exit>>
    PROVE  IInv'
<1> DEFINE n == Len(stack)
<1>0. Current' = r /\ Current \in State
  BY IInvFacts DEF Current, State
<1>1. CASE stack = <<>>
  <2>1. stack' = <<w>> /\ saved' = <<Current>> /\ stale' = stale /\ stale = 0
    BY <1>1, IInvFacts DEF record
  <2>2. Top = EmptyState /\ Fits(w, Current, r)
    BY <1>0, <1>1, EmptyFits DEF Top, IInv
  <2>3. TypeOK'
    BY <2>1, <1>0 DEF IInv, TypeOK, State
  <2>4. Above(1)' = r
    BY <2>1, <1>0 DEF Above
  <2>5. WellFormed(Current)' /\ WellFormed(saved[1])'
    BY <2>1, <1>0 DEF IInv, WellFormed
  <2>6. Fits(stack[1], saved[1], Above(1))'
    BY <2>1, <2>2, <2>4 DEF Fits
  <2>7. Len(stack') = 1 /\ stale' = 0 /\ active_sessions' = active_sessions /\ Len(stack) = 0
    BY <2>1, IInvFacts, <1>1
  <2> QED BY <2>3, <2>5, <2>6, <2>7 DEF IInv, TypeOK
<1>2. CASE stack # <<>>
  <2>1. /\ stack' = [stack EXCEPT ![n] = w] /\ saved' = saved /\ stale' = stale
        /\ n \in Nat /\ n > 0 /\ Top = stack[n] /\ Len(stack') = n
    BY <1>2, IInvFacts DEF record, Top, IInv, TypeOK
  <2>2. TypeOK'
    BY <2>1, <1>0 DEF IInv, TypeOK, State
  <2>3. \A i \in 1 .. n : Above(i)' = IF i = n THEN r ELSE Above(i)
    BY <2>1, <1>0 DEF Above
  <2>4. \A i \in 1 .. n : stack'[i] = IF i = n THEN w ELSE stack[i]
    BY <2>1, IInvFacts DEF IInv, TypeOK
  <2>5. \A i \in 1 .. n : i > stale => WellFormed(saved'[i])
    BY <2>1 DEF IInv
  <2>6. ASSUME NEW i \in 1 .. n, i > stale
        PROVE  Fits(stack'[i], saved'[i], Above(i)')
    <3>1. Fits(stack[i], saved[i], Above(i)) /\ WellFormed(saved[i]) /\ saved[i] \in State
      BY <2>6, IInvFacts DEF IInv
    <3>2. CASE i = n
      BY <3>1, <3>2, <2>1, <2>3, <2>4 DEF Above
    <3>3. CASE i # n
      BY <3>1, <3>3, <2>1, <2>3, <2>4
    <3> QED BY <3>2, <3>3
  <2>7. ASSUME NEW k \in 1 .. n, k = stale
        PROVE  Remnant(stack'[k], Above(k)')
    <3>1. Remnant(stack[k], Above(k)) /\ k > 0
      BY <2>7 DEF IInv
    <3>2. CASE k = n
      <4>1. stack'[k] = w /\ Above(k)' = r /\ Remnant(w, r)
        BY <2>7, <3>1, <3>2, <2>3, <2>4
      <4> QED BY <4>1
    <3>3. CASE k # n
      <4>1. stack'[k] = stack[k] /\ Above(k)' = Above(k)
        BY <3>3, <2>3, <2>4
      <4> QED BY <3>1, <4>1
    <3> QED BY <3>2, <3>3
  <2>8. WellFormed(Current')
    BY <1>0
  <2>9. WellFormed(Current)' /\ (\A i \in 1 .. Len(stack) : i > stale => WellFormed(saved[i]))'
    BY <2>1, <2>5, <2>8 DEF WellFormed
  <2>10. (\A i \in 1 .. Len(stack) : i > stale => Fits(stack[i], saved[i], Above(i)))'
    BY <2>1, <2>6 DEF Fits
  <2>11. (stale > 0 => Remnant(stack[stale], Above(stale)))'
    <3> SUFFICES ASSUME stale > 0 PROVE Remnant(stack[stale], Above(stale))'
      BY <2>1
    <3>1. PICK k \in 1 .. n : k = stale
      BY IInvFacts
    <3>2. Remnant(stack[k], Above(k))'
      BY <2>7, <3>1 DEF Remnant
    <3> QED BY <2>1, <3>1, <3>2 DEF Remnant, Above
  <2> QED BY <2>1, <2>2, <2>9, <2>10, <2>11 DEF IInv
<1> QED BY <1>1, <1>2

(* A write while undo is disabled: every level becomes a remnant.          *)
LEMMA UnrecordedWrite ==
    ASSUME IInv, disabled, NEW w, NEW r \in State, WellFormed(r), Later(Current, r),
           store' = r.store, next_id' = r.next_id, record(w),
           UNCHANGED <<active_sessions, max_size, disabled, disable_on_exit>>
    PROVE  IInv'
<1> DEFINE n == Len(stack)
<1>0. /\ Current' = r /\ Current \in State /\ n \in Nat
      /\ stack' = stack /\ saved' = saved /\ stale' = n /\ active_sessions = 0
  BY IInvFacts DEF Current, State, record, IInv
<1>1. TypeOK'
  BY <1>0 DEF IInv, TypeOK, State
<1>2. ASSUME n > 0 PROVE Remnant(stack[n], r)
  <2>0. n \in 1 .. n /\ stack[n] \in UndoState /\ saved[n] \in State /\ Above(n) = Current
        /\ stale \in 0 .. n
    BY <1>0, <1>2, IInvFacts DEF Above
  <2>1. Remnant(stack[n], Current)
    <3>1. CASE stale = n
      BY <3>1, <2>0, <1>2 DEF IInv
    <3>2. CASE stale < n
      BY <3>2, <2>0, <1>0, FitsRemnant DEF IInv
    <3> QED BY <3>1, <3>2, <2>0, <1>0
  <2> QED BY <2>0, <2>1, <1>0, RemnantLater
<1>3. n > 0 => Above(n)' = r
  BY <1>0 DEF Above
<1>4. (stale > 0 => Remnant(stack[stale], Above(stale)))'
  BY <1>0, <1>2, <1>3 DEF Remnant
<1>5. WellFormed(Current)'
  BY <1>0 DEF WellFormed
<1>6. /\ (active_sessions > 0 => Len(stack) > stale)'
      /\ (stale > 0 => active_sessions <= Len(stack) - stale)'
      /\ (disabled => active_sessions = 0)' /\ (disable_on_exit => active_sessions > 0)'
  BY <1>0 DEF IInv
<1>7. Len(stack)' = n /\ stale' = n
  BY <1>0
<1>8. \A i \in 1 .. n : ~(i > n)
  BY <1>0
<1> QED BY <1>1, <1>4, <1>5, <1>6, <1>7, <1>8 DEF IInv

(* A level that missed changes, told of one more.                          *)
LEMMA CreateRemnant ==
    ASSUME NEW u \in UndoState, NEW s \in State, NEW t \in Types, NEW v \in Values,
           WellFormed(s), s.next_id[t] < MaxInstance
    PROVE  LET o == <<t, s.next_id[t]>>
           IN  /\ Later(s, Created(s, t, v))
               /\ on_create(u, o) \in UndoState
               /\ Remnant(u, s) => Remnant(on_create(u, o), Created(s, t, v))
<1> DEFINE o == <<t, s.next_id[t]>>
           w == on_create(u, o)
           r == Created(s, t, v)
<1>0. \A q \in Types : s.next_id[q] \in 0 .. MaxInstance /\ s.next_id[q] \in Int
  BY BoundAssumption DEF State
<1>1. /\ o \in OID /\ Type(o) = t /\ Inst(o) = s.next_id[t]
      /\ s.next_id[t] \in 0 .. MaxInstance - 1
      /\ r \in State
  BY <1>0, CreatedState, OIDParts, BoundAssumption
<1>2. /\ r.next_id[t] = s.next_id[t] + 1
      /\ \A q \in Types : q # t => r.next_id[q] = s.next_id[q]
      /\ \A p \in OID : p # o => r.store[p] = s.store[p]
  BY <1>1 DEF Created, State
<1>3. Later(s, r)
  <2>1. ASSUME NEW q \in Types PROVE s.next_id[q] <= r.next_id[q]
    <3>1. CASE q = t
      BY <3>1, <1>0, <1>2
    <3>2. CASE q # t
      BY <3>2, <1>0, <1>2
    <3> QED BY <3>1, <3>2
  <2>2. ~(Inst(o) < s.next_id[Type(o)])
    BY <1>0, <1>1
  <2> QED BY <2>1, <2>2, <1>2 DEF Later
<1>4. w \in UndoState
  <2>1. Inst(o) \in Cell
    BY <1>0, <1>1 DEF Cell
  <2> QED BY <1>1, <2>1 DEF on_create, UndoState
<1>5. ASSUME Remnant(u, s) PROVE Remnant(w, r)
  <2>1. Remnant(u, r)
    BY <1>1, <1>3, <1>5, RemnantLater
  <2>2. w.old_values = u.old_values /\ w.removed = u.removed /\ w.new_ids = u.new_ids \cup {o}
    BY DEF on_create, UndoState
  <2>3. Inst(o) < r.next_id[Type(o)]
    BY <1>0, <1>1, <1>2
  <2> QED BY <2>1, <2>2, <2>3 DEF Remnant
<1> QED BY <1>3, <1>4, <1>5

(* The same for a modified object.                                         *)
LEMMA ModifyRemnant ==
    ASSUME NEW u \in UndoState, NEW s \in State, NEW o \in OID, NEW v \in Values,
           WellFormed(s), s.store[o] # None
    PROVE  LET r == [s EXCEPT !.store = [@ EXCEPT ![o] = v]]
           IN  /\ r \in State /\ WellFormed(r) /\ Later(s, r)
               /\ on_modify(u, o, s.store[o]) \in UndoState
               /\ Remnant(u, s) => Remnant(on_modify(u, o, s.store[o]), r)
<1> DEFINE r == [s EXCEPT !.store = [@ EXCEPT ![o] = v]]
           w == on_modify(u, o, s.store[o])
<1>1. r \in State
  BY DEF State, Entry
<1>2. r.next_id = s.next_id /\ r.store[o] = v /\ \A p \in OID : p # o => r.store[p] = s.store[p]
  BY DEF State
<1>3. WellFormed(r)
  BY <1>2 DEF WellFormed
<1>4. \A q \in Types : s.next_id[q] \in Int
  BY BoundAssumption DEF State
<1>5. Later(s, r)
  BY <1>2, <1>4 DEF Later
<1>6. w \in UndoState
  BY DEF on_modify, UndoState, State
<1>7. /\ w.new_ids = u.new_ids /\ w.removed = u.removed
      /\ \A p \in OID : p # o => w.old_values[p] = u.old_values[p]
  BY DEF on_modify, UndoState
<1>8. Remnant(u, s) => Remnant(w, r)
  BY <1>2, <1>7 DEF Remnant, WellFormed
<1> QED BY <1>1, <1>3, <1>5, <1>6, <1>8

(* The same for a removed object.                                          *)
LEMMA RemoveRemnant ==
    ASSUME NEW u \in UndoState, NEW s \in State, NEW o \in OID,
           WellFormed(s), s.store[o] # None
    PROVE  LET r == [s EXCEPT !.store = [@ EXCEPT ![o] = None]]
           IN  /\ r \in State /\ WellFormed(r) /\ Later(s, r)
               /\ on_remove(u, o, s.store[o]) \in UndoState
               /\ Remnant(u, s) => Remnant(on_remove(u, o, s.store[o]), r)
<1> DEFINE r == [s EXCEPT !.store = [@ EXCEPT ![o] = None]]
           w == on_remove(u, o, s.store[o])
<1>1. r \in State
  BY DEF State, Entry
<1>2. r.next_id = s.next_id /\ r.store[o] = None /\ \A p \in OID : p # o => r.store[p] = s.store[p]
  BY DEF State
<1>3. WellFormed(r)
  BY <1>2 DEF WellFormed
<1>4. \A q \in Types : s.next_id[q] \in Int
  BY BoundAssumption DEF State
<1>5. Later(s, r)
  BY <1>2, <1>4 DEF Later
<1>6. w \in UndoState
  BY DEF on_remove, UndoState, State, Entry
<1>7. \A p \in OID : p # o => /\ w.old_values[p] = u.old_values[p]
                              /\ w.removed[p] = u.removed[p]
                              /\ p \in w.new_ids => p \in u.new_ids
  BY DEF on_remove, UndoState
<1>8. Inst(o) < s.next_id[Type(o)]
  BY DEF WellFormed
<1> HIDE DEF w, r
<1>9. ASSUME Remnant(u, s), NEW p \in OID
      PROVE  /\ p \in w.new_ids \/ w.old_values[p] # None => Inst(p) < r.next_id[Type(p)]
             /\ w.removed[p] # None => Inst(p) < r.next_id[Type(p)] /\ r.store[p] = None
  <2>1. CASE p = o
    BY <2>1, <1>2, <1>8
  <2>2. CASE p # o
    <3>1. /\ p \in u.new_ids \/ u.old_values[p] # None => Inst(p) < s.next_id[Type(p)]
          /\ u.removed[p] # None => Inst(p) < s.next_id[Type(p)] /\ s.store[p] = None
      BY <1>9 DEF Remnant
    <3>2. w.old_values[p] = u.old_values[p] /\ w.removed[p] = u.removed[p]
      BY <2>2, <1>7
    <3>3. p \in w.new_ids => p \in u.new_ids
      BY <2>2, <1>7
    <3>4. r.next_id = s.next_id /\ r.store[p] = s.store[p]
      BY <2>2, <1>2
    <3> QED BY <3>1, <3>2, <3>3, <3>4
  <2> QED BY <2>1, <2>2
<1>10. Remnant(u, s) => Remnant(w, r)
  BY <1>9 DEF Remnant
<1> QED BY <1>1, <1>3, <1>5, <1>6, <1>10 DEF w, r

(* create preserves the inductive invariant.                               *)
LEMMA CreateStep ==
    ASSUME IInv, NEW t \in Types, NEW v \in Values, create(t, v)
    PROVE  IInv'
<1> DEFINE o == <<t, next_id[t]>>
           w == on_create(Top, o)
           r == Created(Current, t, v)
<1>1. /\ Current \in State /\ WellFormed(Current) /\ Current.next_id = next_id
      /\ Current.store = store /\ next_id[t] < MaxInstance
      /\ record(w) /\ disabled \in BOOLEAN
      /\ UNCHANGED <<active_sessions, max_size, disabled, disable_on_exit>>
  BY IInvFacts DEF IInv, Current, create, TypeOK
<1>2. Top \in UndoState
  BY IInvFacts, EmptyFits DEF Top
<1>3. r \in State /\ WellFormed(r) /\ store' = r.store /\ next_id' = r.next_id
  BY <1>1, CreatedState DEF Created, create, Current
<1>4. /\ Later(Current, r) /\ w \in UndoState
      /\ Remnant(Top, Current) => Remnant(w, r)
  BY <1>1, <1>2, CreateRemnant
<1>5. \A b \in State : WellFormed(b) /\ Fits(Top, b, Current) => Fits(w, b, r)
  BY <1>1, <1>2, CreateFits
<1>6. stale = Len(stack) /\ stale > 0 => Remnant(w, r)
  BY <1>4, IInvFacts DEF IInv, Top, Above
<1> HIDE DEF w, r
<1>7. CASE disabled
  BY <1>7, <1>1, <1>3, <1>4, UnrecordedWrite
<1>8. CASE ~disabled
  BY <1>8, <1>1, <1>3, <1>4, <1>5, <1>6, RecordedWrite
<1> QED BY <1>7, <1>8

(* modify preserves the inductive invariant.                               *)
LEMMA ModifyStep ==
    ASSUME IInv, NEW o \in OID, NEW v \in Values, modify(o, v)
    PROVE  IInv'
<1> DEFINE w == on_modify(Top, o, store[o])
           r == [Current EXCEPT !.store = [@ EXCEPT ![o] = v]]
<1>1. /\ Current \in State /\ WellFormed(Current) /\ Current.next_id = next_id
      /\ Current.store = store /\ store[o] # None
      /\ record(w) /\ disabled \in BOOLEAN
      /\ UNCHANGED <<active_sessions, max_size, disabled, disable_on_exit>>
  BY IInvFacts DEF IInv, Current, modify, TypeOK
<1>2. Top \in UndoState
  BY IInvFacts, EmptyFits DEF Top
<1>3. store' = r.store /\ next_id' = r.next_id
  BY DEF modify, Current
<1>4. /\ r \in State /\ WellFormed(r) /\ Later(Current, r) /\ w \in UndoState
      /\ Remnant(Top, Current) => Remnant(w, r)
  BY <1>1, <1>2, ModifyRemnant
<1>5. \A b \in State : WellFormed(b) /\ Fits(Top, b, Current) => Fits(w, b, r)
  BY <1>1, <1>2, ModifyFits
<1>6. stale = Len(stack) /\ stale > 0 => Remnant(w, r)
  BY <1>4, IInvFacts DEF IInv, Top, Above
<1> HIDE DEF w, r
<1>7. CASE disabled
  BY <1>7, <1>1, <1>3, <1>4, UnrecordedWrite
<1>8. CASE ~disabled
  BY <1>8, <1>1, <1>3, <1>4, <1>5, <1>6, RecordedWrite
<1> QED BY <1>7, <1>8

(* remove preserves the inductive invariant.                               *)
LEMMA RemoveStep ==
    ASSUME IInv, NEW o \in OID, remove(o)
    PROVE  IInv'
<1> DEFINE w == on_remove(Top, o, store[o])
           r == [Current EXCEPT !.store = [@ EXCEPT ![o] = None]]
<1>1. /\ Current \in State /\ WellFormed(Current) /\ Current.next_id = next_id
      /\ Current.store = store /\ store[o] # None
      /\ record(w) /\ disabled \in BOOLEAN
      /\ UNCHANGED <<active_sessions, max_size, disabled, disable_on_exit>>
  BY IInvFacts DEF IInv, Current, remove, TypeOK
<1>2. Top \in UndoState
  BY IInvFacts, EmptyFits DEF Top
<1>3. store' = r.store /\ next_id' = r.next_id
  BY DEF remove, Current
<1>4. /\ r \in State /\ WellFormed(r) /\ Later(Current, r) /\ w \in UndoState
      /\ Remnant(Top, Current) => Remnant(w, r)
  BY <1>1, <1>2, RemoveRemnant
<1>5. \A b \in State : WellFormed(b) /\ Fits(Top, b, Current) => Fits(w, b, r)
  BY <1>1, <1>2, RemoveFits
<1>6. stale = Len(stack) /\ stale > 0 => Remnant(w, r)
  BY <1>4, IInvFacts DEF IInv, Top, Above
<1> HIDE DEF w, r
<1>7. CASE disabled
  BY <1>7, <1>1, <1>3, <1>4, UnrecordedWrite
<1>8. CASE ~disabled
  BY <1>8, <1>1, <1>3, <1>4, <1>5, <1>6, RecordedWrite
<1> QED BY <1>7, <1>8
-----------------------------------------------------------------------------
(* What the two ways of shortening a sequence leave.                       *)
LEMMA SuffixFacts ==
    ASSUME NEW S, NEW q \in Seq(S), NEW k \in 0 .. Len(q)
    PROVE  /\ Suffix(q, k) \in Seq(S) /\ Len(Suffix(q, k)) = Len(q) - k
           /\ \A i \in 1 .. Len(q) - k : Suffix(q, k)[i] = q[i + k]
BY DEF Suffix

(* Dropping the newest element: the length and the elements left.          *)
LEMMA FrontFacts ==
    ASSUME NEW S, NEW q \in Seq(S), Len(q) > 0
    PROVE  /\ Front(q) \in Seq(S) /\ Len(Front(q)) = Len(q) - 1
           /\ \A i \in 1 .. Len(q) - 1 : Front(q)[i] = q[i]
<1>1. Len(q) \in Nat /\ Len(q) - 1 \in 0 .. Len(q)
  OBVIOUS
<1>2. \A i \in 1 .. Len(q) - 1 : q[i] \in S
  BY <1>1
<1>3. /\ SubSeq(q, 1, Len(q) - 1) \in Seq(S)
      /\ Len(SubSeq(q, 1, Len(q) - 1)) = IF 1 <= Len(q) - 1 THEN Len(q) - 1 - 1 + 1 ELSE 0
      /\ \A i \in 1 .. Len(q) - 1 - 1 + 1 : SubSeq(q, 1, Len(q) - 1)[i] = q[1 + i - 1]
  BY <1>1, <1>2, SubSeqProperties
<1>4. Len(q) - 1 - 1 + 1 = Len(q) - 1 /\ \A i \in 1 .. Len(q) - 1 : 1 + i - 1 = i
  BY <1>1
<1>5. \A i \in 1 .. Len(q) - 1 : SubSeq(q, 1, Len(q) - 1)[i] = q[i]
  BY <1>3, <1>4
<1> QED BY <1>1, <1>3, <1>4, <1>5 DEF Front

(* Pushing an element, or two onto an empty sequence.                      *)
LEMMA PushedFacts ==
    ASSUME NEW S, NEW q \in Seq(S), NEW x \in S
    PROVE  /\ Pushed(q, x) \in Seq(S)
           /\ Len(q) = 0 => Pushed(q, x) = <<x, x>>
BY DEF Pushed

(* Dropping the oldest elements and pushing one: where each one goes.      *)
LEMMA ShiftFacts ==
    ASSUME NEW S, NEW q \in Seq(S), NEW k \in 0 .. Len(q) - 1, NEW x \in S
    PROVE  /\ Len(Pushed(Suffix(q, k), x)) = Len(q) - k + 1
           /\ \A i \in 1 .. Len(q) - k : Pushed(Suffix(q, k), x)[i] = q[i + k]
           /\ Pushed(Suffix(q, k), x)[Len(q) - k + 1] = x
<1> DEFINE r == Suffix(q, k)
<1>1. k \in 0 .. Len(q)
  OBVIOUS
<1>2. /\ r \in Seq(S) /\ Len(r) = Len(q) - k
      /\ \A i \in 1 .. Len(q) - k : r[i] = q[i + k]
  BY <1>1, SuffixFacts
<1> HIDE DEF r
<1>3. Len(r) > 0 /\ r # <<>>
  BY <1>2
<1>4. Pushed(r, x) = Append(r, x)
  BY <1>3 DEF Pushed
<1>5. /\ Len(Append(r, x)) = Len(r) + 1 /\ Append(r, x)[Len(r) + 1] = x
      /\ \A i \in 1 .. Len(r) : Append(r, x)[i] = r[i]
  BY <1>2
<1>6. /\ Len(Pushed(r, x)) = Len(q) - k + 1
      /\ \A i \in 1 .. Len(q) - k : Pushed(r, x)[i] = q[i + k]
      /\ Pushed(r, x)[Len(q) - k + 1] = x
  BY <1>2, <1>4, <1>5
<1> QED BY <1>6 DEF r

(* The same for the two sequences of the module.                           *)
LEMMA LevelsFront ==
    ASSUME NEW q \in Seq(UndoState), Len(q) > 0
    PROVE  /\ Front(q) \in Seq(UndoState) /\ Len(Front(q)) = Len(q) - 1
           /\ \A i \in 1 .. Len(q) - 1 : Front(q)[i] = q[i]
BY FrontFacts

(* The saved states without the newest one.                                *)
LEMMA StatesFront ==
    ASSUME NEW q \in Seq(State), Len(q) > 0
    PROVE  /\ Front(q) \in Seq(State) /\ Len(Front(q)) = Len(q) - 1
           /\ \A i \in 1 .. Len(q) - 1 : Front(q)[i] = q[i]
BY FrontFacts

(* The levels after start_undo_session has trimmed and pushed.             *)
LEMMA LevelsShift ==
    ASSUME NEW q \in Seq(UndoState), NEW k \in 0 .. Len(q) - 1, NEW x \in UndoState
    PROVE  /\ Len(Pushed(Suffix(q, k), x)) = Len(q) - k + 1
           /\ \A i \in 1 .. Len(q) - k : Pushed(Suffix(q, k), x)[i] = q[i + k]
           /\ Pushed(Suffix(q, k), x)[Len(q) - k + 1] = x
BY ShiftFacts

(* The saved states after start_undo_session has trimmed and pushed.       *)
LEMMA StatesShift ==
    ASSUME NEW q \in Seq(State), NEW k \in 0 .. Len(q) - 1, NEW x \in State
    PROVE  /\ Len(Pushed(Suffix(q, k), x)) = Len(q) - k + 1
           /\ \A i \in 1 .. Len(q) - k : Pushed(Suffix(q, k), x)[i] = q[i + k]
           /\ Pushed(Suffix(q, k), x)[Len(q) - k + 1] = x
BY ShiftFacts

(* Ending a session, for the conjuncts of the invariant about sessions.    *)
LEMMA EndFacts ==
    ASSUME IInv, SessionEnds
    PROVE  /\ active_sessions' \in 0 .. MaxNesting
           /\ active_sessions' = active_sessions - 1 /\ active_sessions \in Nat
           /\ active_sessions > 0
           /\ disabled' \in BOOLEAN /\ disable_on_exit' \in BOOLEAN
           /\ disabled' => active_sessions' = 0
           /\ disable_on_exit' => active_sessions' > 0
<1>1. active_sessions \in 0 .. MaxNesting /\ MaxNesting \in Nat /\ active_sessions > 0
      /\ active_sessions' = active_sessions - 1
  BY BoundAssumption DEF IInv, TypeOK, SessionEnds
<1>2. disabled' \in BOOLEAN /\ disable_on_exit' \in BOOLEAN
  BY DEF IInv, TypeOK, SessionEnds
<1>3. CASE active_sessions = 1
  BY <1>1, <1>2, <1>3 DEF SessionEnds
<1>4. CASE active_sessions # 1
  BY <1>1, <1>2, <1>4 DEF SessionEnds, IInv
<1> QED BY <1>3, <1>4

(* start_undo_session: the levels that are kept shift down, and the new    *)
(* ones are empty.                                                         *)
LEMMA StartStep ==
    ASSUME IInv, NEW f \in BOOLEAN, start_undo_session(f)
    PROVE  IInv'
<1> DEFINE n == Len(stack)
           d == Dropped
           m == Len(stack')
           c == Current
<1>0. /\ c \in State /\ n \in Nat /\ stale \in 0 .. n /\ max_size \in Nat /\ max_size >= 1
      /\ d \in 0 .. n /\ (n > 0 => d < n) /\ stack \in Seq(UndoState) /\ saved \in Seq(State)
      /\ Len(saved) = n /\ active_sessions \in Nat /\ n - d = IF n > max_size THEN max_size ELSE n
      /\ active_sessions < MaxNesting /\ MaxNesting \in Nat
  BY IInvFacts, BoundAssumption DEF IInv, TypeOK, Dropped, start_undo_session
<1>1. /\ stack' = Pushed(Suffix(stack, d), EmptyState) /\ saved' = Pushed(Suffix(saved, d), c)
      /\ stale' = IF stale > d THEN stale - d ELSE 0
      /\ Current' = c /\ store' = store /\ next_id' = next_id /\ max_size' = max_size
      /\ active_sessions' = active_sessions + 1 /\ disabled' = FALSE
      /\ disable_on_exit' \in BOOLEAN
  BY DEF start_undo_session, dbvars, Current, IInv, TypeOK
<1> HIDE DEF d
<1>2. /\ stack' \in Seq(UndoState) /\ saved' \in Seq(State)
      /\ n = 0 => stack' = <<EmptyState, EmptyState>> /\ saved' = <<c, c>>
      /\ n > 0 => /\ m = n - d + 1 /\ Len(saved') = m
                  /\ \A i \in 1 .. n - d : stack'[i] = stack[i + d] /\ saved'[i] = saved[i + d]
                  /\ stack'[m] = EmptyState /\ saved'[m] = c
  <2>1. EmptyState \in UndoState
    BY <1>0, EmptyFits
  <2>2. /\ Suffix(stack, d) \in Seq(UndoState) /\ Len(Suffix(stack, d)) = n - d
        /\ \A i \in 1 .. n - d : Suffix(stack, d)[i] = stack[i + d]
    BY <1>0, SuffixFacts
  <2>3. /\ Suffix(saved, d) \in Seq(State) /\ Len(Suffix(saved, d)) = n - d
        /\ \A i \in 1 .. n - d : Suffix(saved, d)[i] = saved[i + d]
    BY <1>0, SuffixFacts
  <2>4. stack' \in Seq(UndoState) /\ saved' \in Seq(State)
    BY <1>0, <1>1, <2>1, <2>2, <2>3, PushedFacts
  <2>5. ASSUME n = 0 PROVE stack' = <<EmptyState, EmptyState>> /\ saved' = <<c, c>>
    BY <2>5, <1>0, <1>1, <2>1, <2>2, <2>3, PushedFacts
  <2>6. ASSUME n > 0
        PROVE  /\ m = n - d + 1 /\ Len(saved') = m
               /\ \A i \in 1 .. n - d : stack'[i] = stack[i + d] /\ saved'[i] = saved[i + d]
               /\ stack'[m] = EmptyState /\ saved'[m] = c
    <3>1. n - d > 0
      BY <2>6, <1>0
    <3>2. d \in 0 .. n - 1
      BY <3>1, <1>0
    <3>3. saved \in Seq(State) /\ c \in State
      BY <1>0
    <3>8. stack \in Seq(UndoState)
      BY <1>0
    <3>4. /\ Len(Pushed(Suffix(stack, d), EmptyState)) = n - d + 1
          /\ \A i \in 1 .. n - d : Pushed(Suffix(stack, d), EmptyState)[i] = stack[i + d]
          /\ Pushed(Suffix(stack, d), EmptyState)[n - d + 1] = EmptyState
      BY <3>2, <3>8, <2>1, LevelsShift
    <3>5. d \in 0 .. Len(saved) - 1
      BY <3>2, <1>0
    <3>6. /\ Len(Pushed(Suffix(saved, d), c)) = Len(saved) - d + 1
          /\ \A i \in 1 .. Len(saved) - d : Pushed(Suffix(saved, d), c)[i] = saved[i + d]
          /\ Pushed(Suffix(saved, d), c)[Len(saved) - d + 1] = c
      BY <3>3, <3>5, StatesShift
    <3>7. Len(saved) = n
      BY <1>0
    <3> QED BY <3>4, <3>6, <3>7, <1>1
  <2> QED BY <2>4, <2>5, <2>6
<1>3. /\ m \in Nat /\ Len(saved') = m /\ stale' \in 0 .. m /\ m > stale'
      /\ stale' > 0 => active_sessions' <= m - stale'
  <2>1. stale > 0 => active_sessions <= n - stale
    BY DEF IInv
  <2>2. CASE n = 0
    BY <2>1, <2>2, <1>0, <1>1, <1>2
  <2>3. CASE n > 0
    BY <2>1, <2>3, <1>0, <1>1, <1>2
  <2> QED BY <2>2, <2>3, <1>0
<1>4. TypeOK'
  <2>1. active_sessions' \in 0 .. MaxNesting
    BY <1>0, <1>1
  <2>2. /\ store' \in [OID -> Entry] /\ next_id' \in [Types -> 0 .. MaxInstance]
        /\ max_size' \in MaxSizes
    BY <1>1 DEF IInv, TypeOK
  <2> QED BY <1>1, <1>2, <1>3, <2>1, <2>2 DEF TypeOK
<1>5. WellFormed(c) /\ Fits(EmptyState, c, c)
  BY <1>0, EmptyFits DEF IInv
<1>6. ASSUME NEW i \in 1 .. m, i > stale'
      PROVE  WellFormed(saved'[i]) /\ Fits(stack'[i], saved'[i], Above(i)')
  <2>1. Above(i)' = IF i = m THEN c ELSE saved'[i + 1]
    BY <1>1 DEF Above
  <2>2. CASE n = 0
    <3>1. m = 2 /\ stack' = <<EmptyState, EmptyState>> /\ saved' = <<c, c>>
      BY <2>2, <1>2
    <3>2. i = 1 \/ i = 2
      BY <3>1
    <3>3. stack'[i] = EmptyState /\ saved'[i] = c /\ Above(i)' = c
      BY <3>1, <3>2, <2>1
    <3> QED BY <3>3, <1>5
  <2>3. CASE n > 0 /\ i = m
    BY <2>1, <2>3, <1>2, <1>5
  <2>4. CASE n > 0 /\ i # m
    <3>1. i \in 1 .. n - d /\ i + d \in 1 .. n /\ i + d > stale
      BY <2>4, <1>0, <1>1, <1>2, <1>6
    <3>2. stack'[i] = stack[i + d] /\ saved'[i] = saved[i + d]
      BY <2>4, <3>1, <1>2
    <3>3. Above(i)' = Above(i + d)
      <4>1. CASE i = n - d
        BY <4>1, <2>1, <2>4, <1>0, <1>2 DEF Above
      <4>2. CASE i # n - d
        <5>1. i + 1 \in 1 .. n - d
          BY <4>2, <3>1, <1>0
        <5>2. saved'[i + 1] = saved[(i + 1) + d]
          BY <5>1, <2>4, <1>2
        <5>3. (i + 1) + d = (i + d) + 1 /\ i + d # n
          BY <5>1, <1>0
        <5> QED BY <5>2, <5>3, <2>1, <2>4 DEF Above
      <4> QED BY <4>1, <4>2
    <3> QED BY <3>1, <3>2, <3>3 DEF IInv
  <2> QED BY <2>2, <2>3, <2>4, <1>0
<1>7. ASSUME NEW k \in 1 .. m, k = stale'
      PROVE  Remnant(stack'[k], Above(k)')
  <2>1. /\ n > 0 /\ k = stale - d /\ k \in 1 .. n - d /\ stale > 0 /\ stale = k + d
        /\ k # m
    BY <1>7, <1>0, <1>1, <1>2
  <2>2. PICK z \in 1 .. n : z = stale
    BY <2>1, <1>0
  <2>3. stack'[k] = stack[z]
    BY <2>1, <2>2, <1>2
  <2>4. Above(k)' = Above(z)
    <3>1. Above(k)' = saved'[k + 1]
      BY <2>1, <1>1 DEF Above
    <3>2. CASE k = n - d
      BY <3>1, <3>2, <2>1, <2>2, <1>0, <1>2 DEF Above
    <3>3. CASE k # n - d
      <4>1. k + 1 \in 1 .. n - d /\ (k + 1) + d = z + 1 /\ z # n
        BY <3>3, <2>1, <2>2, <1>0
      <4>2. saved'[k + 1] = saved[(k + 1) + d]
        BY <4>1, <2>1, <1>2
      <4> QED BY <4>1, <4>2, <3>1 DEF Above
    <3> QED BY <3>2, <3>3
  <2>5. Remnant(stack[z], Above(z))
    BY <2>2 DEF IInv
  <2> QED BY <2>3, <2>4, <2>5
<1>8. (\A i \in 1 .. Len(stack) : i > stale => WellFormed(saved[i]))'
  BY <1>6 DEF WellFormed
<1>9. (\A i \in 1 .. Len(stack) : i > stale => Fits(stack[i], saved[i], Above(i)))'
  BY <1>6 DEF Fits
<1>10. (stale > 0 => Remnant(stack[stale], Above(stale)))'
  <2> SUFFICES ASSUME stale' > 0 PROVE Remnant(stack[stale], Above(stale))'
    OBVIOUS
  <2>1. PICK k \in 1 .. m : k = stale'
    BY <1>3
  <2>2. Remnant(stack[k], Above(k))'
    BY <1>7, <2>1 DEF Remnant
  <2> QED BY <2>1, <2>2 DEF Remnant, Above
<1>11. WellFormed(Current)'
  BY <1>1, <1>5 DEF WellFormed
<1>12. (disabled => active_sessions = 0)' /\ (disable_on_exit => active_sessions > 0)'
  BY <1>0, <1>1
<1>13. /\ (active_sessions > 0 => Len(stack) > stale)'
       /\ (stale > 0 => active_sessions <= Len(stack) - stale)'
  BY <1>3
<1> QED BY <1>4, <1>8, <1>9, <1>10, <1>11, <1>12, <1>13 DEF IInv

(* The top level is popped and the state is the one it was pushed in.      *)
LEMMA PopStep ==
    ASSUME IInv, Len(stack) > stale,
           stack' = Front(stack), saved' = Front(saved), stale' = stale,
           store' = saved[Len(stack)].store, next_id' = saved[Len(stack)].next_id,
           max_size' = max_size,
           active_sessions' \in 0 .. MaxNesting,
           active_sessions' > 0 => Len(stack) - 1 > stale,
           stale > 0 => active_sessions' <= Len(stack) - 1 - stale,
           disabled' \in BOOLEAN, disable_on_exit' \in BOOLEAN,
           disabled' => active_sessions' = 0, disable_on_exit' => active_sessions' > 0
    PROVE  IInv'
<1> DEFINE n == Len(stack)
<1>0. /\ n \in Nat /\ n > 0 /\ n \in 1 .. n /\ stale \in 0 .. n /\ saved[n] \in State
      /\ stack \in Seq(UndoState) /\ saved \in Seq(State) /\ Len(saved) = n
  BY IInvFacts DEF IInv, TypeOK
<1>1. /\ stack' \in Seq(UndoState) /\ saved' \in Seq(State)
      /\ Len(stack') = n - 1 /\ Len(saved') = n - 1 /\ stale' \in 0 .. n - 1
      /\ \A i \in 1 .. n - 1 : stack'[i] = stack[i] /\ saved'[i] = saved[i]
  <2>1. /\ stack' \in Seq(UndoState) /\ Len(stack') = n - 1
        /\ \A i \in 1 .. n - 1 : stack'[i] = stack[i]
    BY <1>0, LevelsFront
  <2>2. /\ saved' \in Seq(State) /\ Len(saved') = n - 1
        /\ \A i \in 1 .. n - 1 : saved'[i] = saved[i]
    BY <1>0, StatesFront
  <2> QED BY <1>0, <2>1, <2>2
<1>2. Current' = saved[n]
  BY <1>0 DEF Current, State
<1>3. TypeOK'
  <2>1. store' \in [OID -> Entry] /\ next_id' \in [Types -> 0 .. MaxInstance]
    BY <1>0 DEF State
  <2> QED BY <1>1, <2>1 DEF TypeOK, IInv
<1>4. ASSUME NEW i \in 1 .. n - 1 PROVE Above(i)' = Above(i) /\ i \in 1 .. n
  <2>1. CASE i = n - 1
    BY <2>1, <1>0, <1>1, <1>2 DEF Above
  <2>2. CASE i # n - 1
    <3>1. i + 1 \in 1 .. n - 1 /\ i # n /\ i \in 1 .. n
      BY <2>2, <1>0
    <3>2. Above(i)' = saved'[i + 1] /\ saved'[i + 1] = saved[i + 1]
      BY <2>2, <3>1, <1>1 DEF Above
    <3> QED BY <3>1, <3>2 DEF Above
  <2> QED BY <2>1, <2>2
<1>5. ASSUME NEW i \in 1 .. n - 1, i > stale
      PROVE  WellFormed(saved'[i]) /\ Fits(stack'[i], saved'[i], Above(i)')
  BY <1>1, <1>4, <1>5 DEF IInv
<1>6. (\A i \in 1 .. Len(stack) : i > stale => WellFormed(saved[i]))'
  BY <1>1, <1>5 DEF WellFormed
<1>7. (\A i \in 1 .. Len(stack) : i > stale => Fits(stack[i], saved[i], Above(i)))'
  BY <1>1, <1>5 DEF Fits
<1>8. (stale > 0 => Remnant(stack[stale], Above(stale)))'
  <2> SUFFICES ASSUME stale > 0 PROVE Remnant(stack[stale], Above(stale))'
    OBVIOUS
  <2>1. PICK k \in 1 .. n - 1 : k = stale
    BY <1>0
  <2>2. Remnant(stack'[k], Above(k)')
    BY <2>1, <1>1, <1>4 DEF IInv
  <2>3. Remnant(stack[k], Above(k))'
    BY <2>2 DEF Remnant
  <2> QED BY <2>1, <2>3 DEF Remnant, Above
<1>9. WellFormed(Current)'
  <2>1. WellFormed(saved[n])
    BY <1>0 DEF IInv
  <2> QED BY <2>1, <1>2 DEF WellFormed
<1>10. /\ (active_sessions > 0 => Len(stack) > stale)'
       /\ (stale > 0 => active_sessions <= Len(stack) - stale)'
  BY <1>1
<1> QED BY <1>3, <1>6, <1>7, <1>8, <1>9, <1>10 DEF IInv

(* undo: the top level goes, and the state is the one it was pushed in.    *)
LEMMA UndoStep ==
    ASSUME IInv, undo
    PROVE  IInv'
<1> DEFINE n == Len(stack)
<1>0. /\ Current \in State /\ n \in Nat /\ stale \in 0 .. n
      /\ stack \in Seq(UndoState) /\ saved \in Seq(State) /\ Len(saved) = n
      /\ active_sessions \in Nat /\ active_sessions > 0
      /\ (stale > 0 => active_sessions <= n - stale)
      /\ n > stale /\ n > 0 /\ Top = stack[n] /\ n \in 1 .. n
      /\ stack[n] \in UndoState /\ saved[n] \in State
  BY IInvFacts, EndFacts DEF undo, IInv, TypeOK, Top
<1>1. Fits(stack[n], saved[n], Current) /\ WellFormed(saved[n])
  BY <1>0 DEF IInv, Above
<1>2. store' = saved[n].store /\ next_id' = saved[n].next_id /\ Current' = saved[n]
  <2>1. store' = saved[n].store /\ next_id' = saved[n].next_id
    BY <1>0, <1>1, RevertRestores DEF undo, Current
  <2> QED BY <1>0, <2>1 DEF Current, State
<1>3. SessionEnds /\ max_size' = max_size
  BY DEF undo
<1>4. CASE n = 1
  <2>1. stack' = <<EmptyState>> /\ saved' = <<saved[n]>> /\ stale' = 0 /\ Len(stack') = 1
    BY <1>2, <1>4 DEF undo, Current
  <2>2. EmptyState \in UndoState /\ Fits(EmptyState, saved[n], saved[n])
    BY <1>0, EmptyFits
  <2>3. TypeOK'
    <3>1. stack' \in Seq(UndoState) /\ saved' \in Seq(State) /\ Len(saved') = Len(stack')
          /\ stale' \in 0 .. Len(stack')
      BY <1>0, <2>1, <2>2
    <3>2. store' \in [OID -> Entry] /\ next_id' \in [Types -> 0 .. MaxInstance]
      BY <1>0, <1>2 DEF State
    <3> QED BY <3>1, <3>2, <1>3, EndFacts DEF TypeOK, IInv
  <2>4. Above(1)' = saved[n]
    BY <1>2, <2>1 DEF Above
  <2>5. (\A i \in 1 .. Len(stack) : i > stale => WellFormed(saved[i]) /\ Fits(stack[i], saved[i], Above(i)))'
    BY <1>1, <2>1, <2>2, <2>4 DEF WellFormed, Fits
  <2>6. /\ WellFormed(Current)'
        /\ (active_sessions > 0 => Len(stack) > stale)'
        /\ (stale > 0 => active_sessions <= Len(stack) - stale)'
    BY <1>0, <1>1, <1>2, <1>3, <1>4, <2>1, EndFacts DEF WellFormed
  <2> QED BY <2>1, <2>3, <2>5, <2>6, <1>3, EndFacts DEF IInv
<1>5. CASE n # 1
  <2>1. stack' = Front(stack) /\ saved' = Front(saved) /\ stale' = stale
    BY <1>5 DEF undo
  <2>2. /\ active_sessions' = active_sessions - 1
        /\ active_sessions' > 0 => n - 1 > stale
        /\ stale > 0 => active_sessions' <= n - 1 - stale
    BY <1>0, <1>3, <1>5, EndFacts
  <2> QED BY <1>0, <1>1, <1>2, <1>3, <2>1, <2>2, EndFacts, PopStep
<1> QED BY <1>4, <1>5

(* merge: the two top levels become their composition.                     *)
LEMMA MergeStep ==
    ASSUME IInv, merge
    PROVE  IInv'
<1> DEFINE n == Len(stack)
           a == stack[n - 1]
           b == stack[n]
           w == merged(a, b)
<1>0. /\ Current \in State /\ n \in Nat /\ n >= 2 /\ stale \in 0 .. n
      /\ stack \in Seq(UndoState) /\ saved \in Seq(State) /\ Len(saved) = n
      /\ active_sessions \in Nat /\ active_sessions > 0 /\ n > stale
      /\ (stale > 0 => active_sessions <= n - stale)
      /\ SessionEnds /\ max_size' = max_size /\ stale' = stale
      /\ store' = store /\ next_id' = next_id /\ Current' = Current
  BY IInvFacts, EndFacts DEF merge, IInv, TypeOK, dbvars, Current
<1>1. n \in 1 .. n /\ n - 1 \in 1 .. n /\ n > stale /\ stale \in 0 .. n - 1
  BY <1>0
<1>2. a \in UndoState /\ b \in UndoState /\ saved[n] \in State /\ saved[n - 1] \in State
  BY <1>1, IInvFacts
<1>3. w \in UndoState
  BY <1>2, MergeType
<1>4. /\ Fits(b, saved[n], Current) /\ WellFormed(saved[n]) /\ WellFormed(Current)
      /\ Above(n - 1) = saved[n]
  BY <1>0, <1>1 DEF IInv, Above
<1>5. /\ Front(stack) \in Seq(UndoState) /\ Len(Front(stack)) = n - 1
      /\ \A i \in 1 .. n - 1 : Front(stack)[i] = stack[i]
  BY <1>0, LevelsFront
<1>6. /\ saved' \in Seq(State) /\ Len(saved') = n - 1
      /\ \A i \in 1 .. n - 1 : saved'[i] = saved[i]
  BY <1>0, StatesFront DEF merge
<1>7. n - 1 \in 1 .. n - 1 /\ Front(stack)[n - 1] = a /\ Top = b
  BY <1>0, <1>5 DEF Top
<1>8. stack' = [Front(stack) EXCEPT ![n - 1] = w]
  BY <1>7 DEF merge
<1> HIDE DEF w
<1>9. /\ stack' \in Seq(UndoState) /\ Len(stack') = n - 1
      /\ \A i \in 1 .. n - 1 : stack'[i] = IF i = n - 1 THEN w ELSE stack[i]
  BY <1>3, <1>5, <1>7, <1>8
<1>10. TypeOK'
  BY <1>0, <1>1, <1>6, <1>9, EndFacts DEF TypeOK, IInv
<1>11. ASSUME NEW i \in 1 .. n - 1
       PROVE  Above(i)' = (IF i = n - 1 THEN Current ELSE Above(i)) /\ i \in 1 .. n
  <2>1. CASE i = n - 1
    BY <2>1, <1>0, <1>9 DEF Above
  <2>2. CASE i # n - 1
    <3>1. i + 1 \in 1 .. n - 1 /\ i # n
      BY <2>2, <1>0
    <3> QED BY <2>2, <3>1, <1>0, <1>6, <1>9 DEF Above
  <2> QED BY <2>1, <2>2
<1>12. ASSUME NEW i \in 1 .. n - 1, i > stale
       PROVE  WellFormed(saved'[i]) /\ Fits(stack'[i], saved'[i], Above(i)')
  <2>1. saved'[i] = saved[i] /\ WellFormed(saved[i]) /\ Fits(stack[i], saved[i], Above(i))
    BY <1>6, <1>11, <1>12 DEF IInv
  <2>2. CASE i = n - 1
    <3>1. Fits(a, saved[n - 1], saved[n]) /\ WellFormed(saved[n - 1])
      BY <2>1, <2>2, <1>4
    <3>2. Fits(w, saved[n - 1], Current)
      BY <3>1, <1>0, <1>2, <1>4, MergeFits DEF w
    <3> QED BY <3>2, <2>1, <2>2, <1>9, <1>11
  <2>3. CASE i # n - 1
    BY <2>1, <2>3, <1>9, <1>11
  <2> QED BY <2>2, <2>3
<1>13. ASSUME NEW k \in 1 .. n - 1, k = stale
       PROVE  Remnant(stack'[k], Above(k)')
  <2>1. Remnant(stack[k], Above(k)) /\ k \in 1 .. n
    BY <1>11, <1>13 DEF IInv
  <2>2. CASE k = n - 1
    <3>1. Remnant(a, saved[n])
      BY <2>1, <2>2, <1>4
    <3>2. Remnant(w, Current)
      BY <3>1, <1>0, <1>2, <1>4, MergeRemnant DEF w
    <3> QED BY <3>2, <2>2, <1>9, <1>11
  <2>3. CASE k # n - 1
    BY <2>1, <2>3, <1>9, <1>11
  <2> QED BY <2>2, <2>3
<1>14. (\A i \in 1 .. Len(stack) : i > stale => WellFormed(saved[i]))'
  BY <1>0, <1>9, <1>12 DEF WellFormed
<1>15. (\A i \in 1 .. Len(stack) : i > stale => Fits(stack[i], saved[i], Above(i)))'
  BY <1>0, <1>9, <1>12 DEF Fits
<1>16. (stale > 0 => Remnant(stack[stale], Above(stale)))'
  <2> SUFFICES ASSUME stale > 0 PROVE Remnant(stack[stale], Above(stale))'
    BY <1>0
  <2>1. PICK k \in 1 .. n - 1 : k = stale
    BY <1>1
  <2>2. Remnant(stack[k], Above(k))'
    BY <2>1, <1>13 DEF Remnant
  <2> QED BY <2>1, <2>2, <1>0 DEF Remnant, Above
<1>17. WellFormed(Current)'
  BY <1>0, <1>4 DEF WellFormed
<1>18. /\ (active_sessions > 0 => Len(stack) > stale)'
       /\ (stale > 0 => active_sessions <= Len(stack) - stale)'
  BY <1>0, <1>9, EndFacts
<1> QED BY <1>0, <1>10, <1>14, <1>15, <1>16, <1>17, <1>18, EndFacts DEF IInv

(* pop_commit reverts the newest committed level.                          *)
LEMMA PopCommitStep ==
    ASSUME IInv, pop_block
    PROVE  IInv'
<1> DEFINE n == Len(stack)
<1>0. /\ Current \in State /\ n \in Nat /\ stale \in 0 .. n /\ n > stale
      /\ n \in 1 .. n /\ Top = stack[n] /\ stack[n] \in UndoState /\ saved[n] \in State
      /\ stack' = Front(stack) /\ saved' = Front(saved) /\ stale' = stale
      /\ max_size' = max_size
  BY IInvFacts DEF pop_block, pop_commit, Top
<1>1. Fits(stack[n], saved[n], Current)
  BY <1>0 DEF IInv, Above
<1>2. store' = saved[n].store /\ next_id' = saved[n].next_id
  BY <1>0, <1>1, RevertRestores DEF pop_block, pop_commit, Current
<1>3. /\ active_sessions' = 0 /\ active_sessions' \in 0 .. MaxNesting
      /\ active_sessions' <= n - 1 - stale
      /\ disabled' \in BOOLEAN /\ disable_on_exit' \in BOOLEAN
      /\ disable_on_exit' => active_sessions' > 0
  BY <1>0, BoundAssumption DEF pop_block, pop_commit, IInv, TypeOK
<1> QED BY <1>0, <1>2, <1>3, PopStep

(* The steps that leave the objects and the levels alone.                  *)
LEMMA QuietStep ==
    ASSUME IInv, UNCHANGED <<store, next_id, stack, saved, stale>>,
           max_size' \in MaxSizes, active_sessions' \in 0 .. MaxNesting,
           active_sessions' <= active_sessions,
           disabled' \in BOOLEAN, disable_on_exit' \in BOOLEAN,
           disabled' => active_sessions' = 0, disable_on_exit' => active_sessions' > 0
    PROVE  IInv'
<1>1. TypeOK'
  BY DEF IInv, TypeOK
<1>2. \A i \in 1 .. Len(stack) : Above(i)' = Above(i)
  BY DEF Above, Current
<1>3. /\ (active_sessions > 0 => Len(stack) > stale)'
      /\ (stale > 0 => active_sessions <= Len(stack) - stale)'
  <2>1. active_sessions \in Int /\ active_sessions' \in Int /\ Len(stack) - stale \in Int
    BY BoundAssumption, IInvFacts DEF IInv, TypeOK
  <2> QED BY <2>1 DEF IInv
<1>4. (\A i \in 1 .. Len(stack) : i > stale => WellFormed(saved[i]))'
  BY DEF IInv, WellFormed
<1>5. (\A i \in 1 .. Len(stack) : i > stale => Fits(stack[i], saved[i], Above(i)))'
  BY <1>2 DEF IInv, Fits
<1>6. (stale > 0 => Remnant(stack[stale], Above(stale)))'
  BY DEF IInv, Remnant, Above, Current
<1>7. WellFormed(Current)'
  BY DEF IInv, WellFormed, Current
<1> QED BY <1>1, <1>3, <1>4, <1>5, <1>6, <1>7 DEF IInv

(* Every step preserves the inductive invariant.                           *)
LEMMA NextIInv == IInv /\ [Next]_vars => IInv'
<1> SUFFICES ASSUME IInv, [Next]_vars PROVE IInv'
  OBVIOUS
<1>0. /\ max_size \in MaxSizes /\ active_sessions \in 0 .. MaxNesting
      /\ disabled \in BOOLEAN /\ disable_on_exit \in BOOLEAN
      /\ disabled => active_sessions = 0 /\ active_sessions \in Int
      /\ disable_on_exit => active_sessions > 0
  BY BoundAssumption DEF IInv, TypeOK
<1>1. ASSUME NEW t \in Types, NEW v \in Values, create(t, v) PROVE IInv'
  BY <1>1, CreateStep
<1>2. ASSUME NEW o \in OID, NEW v \in Values, modify(o, v) PROVE IInv'
  BY <1>2, ModifyStep
<1>3. ASSUME NEW o \in OID, remove(o) PROVE IInv'
  BY <1>3, RemoveStep
<1>4. ASSUME NEW f \in BOOLEAN, start_undo_session(f) PROVE IInv'
  BY <1>4, StartStep
<1>5. CASE undo
  BY <1>5, UndoStep
<1>6. CASE merge
  BY <1>6, MergeStep
<1>7. CASE commit
  <2>1. /\ SessionEnds /\ max_size' = max_size
        /\ UNCHANGED <<store, next_id, stack, saved, stale>>
    BY <1>7 DEF commit, dbvars, history
  <2>2. active_sessions' <= active_sessions
    BY <2>1, <1>0, EndFacts
  <2> QED BY <1>0, <2>1, <2>2, EndFacts, QuietStep
<1>8. CASE pop_block
  BY <1>8, PopCommitStep
<1>9. ASSUME NEW k \in MaxSizes, set_max_size(k) PROVE IInv'
  <2>1. /\ UNCHANGED <<store, next_id, stack, saved, stale, active_sessions, disabled,
                       disable_on_exit>>
        /\ max_size' \in MaxSizes
    BY <1>9 DEF set_max_size, dbvars, history
  <2>2. /\ active_sessions' \in 0 .. MaxNesting /\ active_sessions' <= active_sessions
        /\ disabled' \in BOOLEAN /\ disable_on_exit' \in BOOLEAN
        /\ disabled' => active_sessions' = 0
        /\ disable_on_exit' => active_sessions' > 0
    BY <1>0, <2>1
  <2> QED BY <2>1, <2>2, QuietStep
<1>10. CASE disable
  <2>1. /\ UNCHANGED <<store, next_id, stack, saved, stale, active_sessions, max_size,
                       disable_on_exit>>
        /\ disabled' = TRUE
    BY <1>10 DEF disable, dbvars, history
  <2>2. active_sessions = 0
    BY <1>0, <1>10, IInvFacts DEF disable, IInv
  <2> QED BY <1>0, <2>1, <2>2, QuietStep
<1>11. CASE enable
  <2>1. /\ UNCHANGED <<store, next_id, stack, saved, stale, active_sessions, max_size,
                       disable_on_exit>>
        /\ disabled' = FALSE
    BY <1>11 DEF enable, dbvars, history
  <2>2. /\ active_sessions' \in 0 .. MaxNesting /\ active_sessions' <= active_sessions
        /\ max_size' \in MaxSizes
    BY <1>0, <2>1
  <2>3. /\ disabled' \in BOOLEAN /\ disable_on_exit' \in BOOLEAN
        /\ disabled' => active_sessions' = 0
        /\ disable_on_exit' => active_sessions' > 0
    BY <1>0, <2>1
  <2> QED BY <2>1, <2>2, <2>3, QuietStep
<1>12. CASE UNCHANGED vars
  <2>1. UNCHANGED <<store, next_id, stack, saved, stale, active_sessions, max_size, disabled,
                    disable_on_exit>>
    BY <1>12 DEF vars
  <2>2. /\ max_size' \in MaxSizes /\ active_sessions' \in 0 .. MaxNesting
        /\ active_sessions' <= active_sessions
    BY <1>0, <2>1
  <2>3. /\ disabled' \in BOOLEAN /\ disable_on_exit' \in BOOLEAN
        /\ disabled' => active_sessions' = 0
        /\ disable_on_exit' => active_sessions' > 0
    BY <1>0, <2>1
  <2> QED BY <2>1, <2>2, <2>3, QuietStep
<1> QED BY <1>1, <1>2, <1>3, <1>4, <1>5, <1>6, <1>7, <1>8, <1>9, <1>10, <1>11, <1>12 DEF Next

(* The inductive invariant holds in every reachable state of the object    *)
(* database.                                                               *)
THEOREM Invariance == Spec => []IInv
BY InitIInv, NextIInv, PTL DEF Spec
-----------------------------------------------------------------------------
(* The variables always have their types; in particular next_id never runs *)
(* past the instances and the stack never loses its saved states.          *)
THEOREM TypeCorrectness == Spec => []TypeOK
<1>1. IInv => TypeOK
  BY DEF IInv
<1> QED BY <1>1, Invariance, PTL

(* Whatever objects, values, nesting and undo history: reverting any level *)
(* that saw every change restores the state in which it was pushed, as     *)
(* undo and pop_commit promise.                                            *)
THEOREM LevelsRestore == Spec => []EveryLevelRestores
<1>1. ASSUME IInv PROVE EveryLevelRestores
  <2> SUFFICES ASSUME NEW i \in stale + 1 .. Len(stack)
               PROVE  /\ RevertStore(stack[i], Above(i).store) = saved[i].store
                      /\ RevertNextId(stack[i], Above(i).next_id) = saved[i].next_id
    BY DEF EveryLevelRestores
  <2>1. i \in 1 .. Len(stack) /\ i > stale
    BY <1>1, IInvFacts
  <2>2. /\ stack[i] \in UndoState /\ saved[i] \in State /\ Above(i) \in State
        /\ Fits(stack[i], saved[i], Above(i))
    BY <1>1, <2>1, IInvFacts DEF IInv
  <2> QED BY <2>2, RevertRestores
<1> QED BY <1>1, Invariance, PTL

(* No revert throws halfway: ~session and pop_block always succeed.        *)
THEOREM RevertsSucceed == Spec => []RevertNeverThrows
<1>1. ASSUME IInv PROVE RevertNeverThrows
  <2> SUFFICES ASSUME Len(stack) > stale PROVE RevertSucceeds(Top, store)
    BY DEF RevertNeverThrows
  <2>1. Len(stack) \in 1 .. Len(stack) /\ stack # <<>>
    BY <1>1, IInvFacts
  <2>2. /\ Top \in UndoState /\ saved[Len(stack)] \in State /\ Current \in State
        /\ Fits(Top, saved[Len(stack)], Current)
    BY <1>1, <2>1, IInvFacts DEF IInv, Top, Above
  <2> QED BY <2>2, RevertRestores DEF Current
<1> QED BY <1>1, Invariance, PTL

(* The asserts of merge and the matrix cells it ignores are never reached. *)
THEOREM MergeCausality == Spec => []MergeIsCausal
<1>1. ASSUME IInv PROVE MergeIsCausal
  <2> SUFFICES ASSUME active_sessions > 0, Len(stack) >= 2
               PROVE  CausalPair(stack[Len(stack) - 1], Top)
    BY DEF MergeIsCausal
  <2> DEFINE n == Len(stack)
  <2>1. /\ n \in 1 .. n /\ n - 1 \in 1 .. n /\ n > stale /\ stale \in 0 .. n /\ n \in Nat
        /\ stack # <<>>
    BY <1>1, IInvFacts DEF IInv, TypeOK
  <2>2. /\ Top = stack[n] /\ Top \in UndoState /\ stack[n - 1] \in UndoState
        /\ saved[n] \in State /\ saved[n - 1] \in State /\ Current \in State
        /\ Fits(Top, saved[n], Current) /\ WellFormed(saved[n]) /\ WellFormed(Current)
        /\ Above(n - 1) = saved[n]
    BY <1>1, <2>1, IInvFacts DEF IInv, Top, Above
  <2>3. CASE n - 1 > stale
    <3>1. Fits(stack[n - 1], saved[n - 1], saved[n]) /\ WellFormed(saved[n - 1])
      BY <1>1, <2>1, <2>2, <2>3 DEF IInv
    <3> QED BY <3>1, <2>2, MergeFits
  <2>4. CASE n - 1 = stale
    <3>1. Remnant(stack[n - 1], saved[n])
      BY <1>1, <2>1, <2>2, <2>4 DEF IInv
    <3> QED BY <3>1, <2>2, MergeRemnant
  <2> QED BY <2>1, <2>3, <2>4
<1> QED BY <1>1, Invariance, PTL

(* However many sessions are nested: a step takes the level of one that    *)
(* can still be undone or merged only while more than max_size + 1 are     *)
(* open, and then only the trim of start_undo_session does.                *)
THEOREM OpenSessionsKeepTheirLevel == Spec => ActiveLevelsKept
<1> DEFINE Kept == active_sessions <= Len(stack) - stale
<1>1. ASSUME IInv, IInv', [Next]_vars, Kept, active_sessions' <= max_size + 1
      PROVE  Kept'
  <2>0. /\ Len(stack) \in Nat /\ stale \in 0 .. Len(stack) /\ active_sessions \in Nat
        /\ Len(stack') \in Nat /\ stale' \in 0 .. Len(stack') /\ active_sessions' \in Nat
        /\ max_size \in Nat /\ max_size >= 1
        /\ active_sessions' > 0 => Len(stack') > stale'
        /\ stack \in Seq(UndoState)
    BY <1>1, BoundAssumption DEF IInv, TypeOK
  <2>1. ASSUME NEW w, record(w), UNCHANGED active_sessions PROVE Kept'
    <3>1. CASE disabled
      BY <3>1, <2>0, <2>1, <1>1 DEF record, IInv
    <3>2. CASE ~disabled
      BY <3>2, <2>0, <2>1, <1>1 DEF record
    <3> QED BY <3>1, <3>2
  <2>2. ASSUME NEW t \in Types, NEW v \in Values, create(t, v) PROVE Kept'
    BY <2>1, <2>2 DEF create
  <2>3. ASSUME NEW o \in OID, NEW v \in Values, modify(o, v) PROVE Kept'
    BY <2>1, <2>3 DEF modify
  <2>4. ASSUME NEW o \in OID, remove(o) PROVE Kept'
    BY <2>1, <2>4 DEF remove
  <2>5. ASSUME NEW f \in BOOLEAN, start_undo_session(f) PROVE Kept'
    <3> DEFINE n == Len(stack)
               d == Dropped
    <3>1. /\ active_sessions' = active_sessions + 1
          /\ stale' = IF stale > d THEN stale - d ELSE 0
          /\ stack' = Pushed(Suffix(stack, d), EmptyState)
      BY <2>5 DEF start_undo_session
    <3>2. /\ d \in 0 .. n /\ (n > 0 => d \in 0 .. n - 1)
          /\ n - d = IF n > max_size THEN max_size ELSE n
      BY <2>0 DEF Dropped
    <3> HIDE DEF d
    <3>3. CASE n = 0
      BY <3>3, <3>1, <2>0, <1>1
    <3>4. CASE n > 0
      <4>1. EmptyState \in UndoState
        BY <1>1, IInvFacts, EmptyFits DEF IInv
      <4>2. Len(stack') = n - d + 1
        BY <3>1, <3>2, <3>4, <4>1, <2>0, LevelsShift
      <4> QED BY <4>2, <3>1, <3>2, <3>4, <2>0, <1>1
    <3> QED BY <3>3, <3>4, <2>0
  <2>6. CASE undo
    <3>1. active_sessions' = active_sessions - 1 /\ active_sessions > 0
      BY <2>6, <1>1, EndFacts DEF undo
    <3>2. CASE Len(stack) = 1
      BY <3>1, <3>2, <2>0, <1>1
    <3>3. CASE Len(stack) # 1
      <4>1. Len(stack') = Len(stack) - 1 /\ stale' = stale
        BY <3>3, <3>1, <2>0, <2>6, <1>1, LevelsFront DEF undo, IInv
      <4> QED BY <4>1, <3>1, <2>0, <1>1
    <3> QED BY <3>2, <3>3
  <2>7. CASE merge
    <3>1. active_sessions' = active_sessions - 1 /\ stale' = stale
      BY <2>7, <1>1, EndFacts DEF merge
    <3>2. Len(stack') = Len(Front(stack)) /\ Len(Front(stack)) = Len(stack) - 1
      BY <2>7, <2>0, LevelsFront DEF merge
    <3> QED BY <3>1, <3>2, <2>0, <1>1
  <2>8. CASE commit
    BY <2>8, <2>0, <1>1, EndFacts DEF commit, history
  <2>9. CASE pop_block
    BY <2>9, <2>0, <1>1 DEF pop_block, pop_commit
  <2>10. CASE (\E k \in MaxSizes : set_max_size(k)) \/ disable \/ enable \/ UNCHANGED vars
    BY <2>10, <1>1 DEF set_max_size, disable, enable, vars, history
  <2> QED BY <1>1, <2>2, <2>3, <2>4, <2>5, <2>6, <2>7, <2>8, <2>9, <2>10 DEF Next
<1>2. IInv /\ IInv' /\ [Next]_vars =>
         [ active_sessions <= Len(stack) - stale /\ active_sessions' <= max_size + 1
              => active_sessions' <= Len(stack') - stale' ]_vars
  BY <1>1
<1> QED BY <1>2, Invariance, PTL DEF Spec, ActiveLevelsKept
-----------------------------------------------------------------------------
(***************************************************************************)
(* The refinement of SnapshotStack: the saved states above the stale       *)
(* levels are its stack of snapshots.                                      *)
(***************************************************************************)

(* Two sequences with the same elements.                                   *)
LEMMA SameStates ==
    ASSUME NEW q \in Seq(State), NEW r \in Seq(State), Len(q) = Len(r),
           \A i \in 1 .. Len(q) : q[i] = r[i]
    PROVE  q = r
BY SeqEqual

(* The snapshots, their number, and the newest one.                        *)
LEMMA SnapshotFacts ==
    ASSUME NEW q \in Seq(State), NEW k \in 0 .. Len(q)
    PROVE  /\ Suffix(q, k) \in Seq(State) /\ Len(Suffix(q, k)) = Len(q) - k
           /\ \A i \in 1 .. Len(q) - k : Suffix(q, k)[i] = q[i + k]
           /\ k = Len(q) <=> Suffix(q, k) = <<>>
           /\ k < Len(q) => Suffix(q, k)[Len(Suffix(q, k))] = q[Len(q)]
<1>1. /\ Suffix(q, k) \in Seq(State) /\ Len(Suffix(q, k)) = Len(q) - k
      /\ \A i \in 1 .. Len(q) - k : Suffix(q, k)[i] = q[i + k]
  BY SuffixFacts
<1>2. k = Len(q) <=> Suffix(q, k) = <<>>
  BY <1>1
<1>3. ASSUME k < Len(q) PROVE Suffix(q, k)[Len(Suffix(q, k))] = q[Len(q)]
  <2>1. Len(q) - k \in 1 .. Len(q) - k /\ (Len(q) - k) + k = Len(q)
    BY <1>3
  <2> QED BY <1>1, <2>1
<1> QED BY <1>1, <1>2, <1>3

(* Popping the newest saved state pops the newest snapshot.                *)
LEMMA SnapshotsFront ==
    ASSUME NEW q \in Seq(State), NEW k \in 0 .. Len(q), k < Len(q)
    PROVE  Suffix(Front(q), k) = SubSeq(Suffix(q, k), 1, Len(Suffix(q, k)) - 1)
<1> DEFINE a == Suffix(q, k)
           b == Suffix(Front(q), k)
           n == Len(q)
<1>1. n \in Nat /\ n > 0 /\ k \in 0 .. n - 1
  OBVIOUS
<1>2. Front(q) \in Seq(State) /\ Len(Front(q)) = n - 1 /\ \A i \in 1 .. n - 1 : Front(q)[i] = q[i]
  BY <1>1, StatesFront
<1>3. a \in Seq(State) /\ Len(a) = n - k /\ \A i \in 1 .. n - k : a[i] = q[i + k]
  BY SnapshotFacts
<1>4. b \in Seq(State) /\ Len(b) = n - 1 - k /\ \A i \in 1 .. n - 1 - k : b[i] = Front(q)[i + k]
  <2>1. k \in 0 .. Len(Front(q))
    BY <1>1, <1>2
  <2>2. /\ b \in Seq(State) /\ Len(b) = Len(Front(q)) - k
        /\ \A i \in 1 .. Len(Front(q)) - k : b[i] = Front(q)[i + k]
    BY <1>2, <2>1, SuffixFacts
  <2> QED BY <1>2, <2>2
<1> HIDE DEF a, b
<1>5. Len(a) > 0 /\ Front(a) \in Seq(State) /\ Len(Front(a)) = n - k - 1
      /\ \A i \in 1 .. n - k - 1 : Front(a)[i] = a[i]
  BY <1>1, <1>3, StatesFront
<1>6. ASSUME NEW i \in 1 .. Len(b) PROVE b[i] = Front(a)[i]
  <2>1. i \in 1 .. n - 1 - k /\ i \in 1 .. n - k - 1 /\ i \in 1 .. n - k /\ i + k \in 1 .. n - 1
    BY <1>1, <1>4
  <2> QED BY <2>1, <1>2, <1>3, <1>4, <1>5
<1>7. Len(b) = Len(Front(a))
  BY <1>1, <1>4, <1>5
<1>8. b = Front(a)
  BY <1>4, <1>5, <1>6, <1>7, SameStates
<1> QED BY <1>8 DEF a, b, Front

(* Trimming no more than the stale levels leaves the snapshots alone; the  *)
(* new state comes on top of them.                                         *)
LEMMA SnapshotsKept ==
    ASSUME NEW q \in Seq(State), NEW d \in 0 .. Len(q) - 1, NEW k \in d .. Len(q), NEW x \in State
    PROVE  Suffix(Pushed(Suffix(q, d), x), k - d) = Append(Suffix(q, k), x)
<1> DEFINE n == Len(q)
           r == Pushed(Suffix(q, d), x)
           a == Suffix(q, k)
           b == Suffix(r, k - d)
<1>1. n \in Nat /\ k \in 0 .. n /\ d \in 0 .. n /\ k - d \in 0 .. n - d
  OBVIOUS
<1>2. r \in Seq(State)
  BY <1>1, SnapshotFacts, PushedFacts
<1>3. /\ Len(r) = n - d + 1 /\ r[n - d + 1] = x
      /\ \A i \in 1 .. n - d : r[i] = q[i + d]
  BY StatesShift
<1>4. a \in Seq(State) /\ Len(a) = n - k /\ \A i \in 1 .. n - k : a[i] = q[i + k]
  BY <1>1, SnapshotFacts
<1> HIDE DEF r, a
<1>5. k - d \in 0 .. Len(r)
  BY <1>1, <1>3
<1>6. b \in Seq(State) /\ Len(b) = Len(r) - (k - d) /\ \A i \in 1 .. Len(r) - (k - d) : b[i] = r[i + (k - d)]
  BY <1>2, <1>5, SnapshotFacts
<1> HIDE DEF b
<1>7. /\ Append(a, x) \in Seq(State) /\ Len(Append(a, x)) = n - k + 1
      /\ Append(a, x)[n - k + 1] = x /\ \A i \in 1 .. n - k : Append(a, x)[i] = a[i]
  <2>1. a \in Seq(State) /\ Len(a) = n - k
    BY <1>4
  <2> QED BY <2>1, AppendProperties
<1>8. ASSUME NEW i \in 1 .. Len(b) PROVE b[i] = Append(a, x)[i]
  <2>1. i \in 1 .. Len(r) - (k - d) /\ Len(b) = n - k + 1
    BY <1>1, <1>3, <1>6
  <2>2. CASE i = n - k + 1
    <3>1. i + (k - d) = n - d + 1
      BY <2>2, <1>1
    <3> QED BY <2>1, <2>2, <3>1, <1>3, <1>6, <1>7
  <2>3. CASE i # n - k + 1
    <3>1. i \in 1 .. n - k /\ i + (k - d) \in 1 .. n - d /\ (i + (k - d)) + d = i + k
      BY <2>1, <2>3, <1>1
    <3> QED BY <2>1, <3>1, <1>3, <1>4, <1>6, <1>7
  <2> QED BY <2>2, <2>3
<1>9. Len(b) = Len(Append(a, x))
  BY <1>1, <1>3, <1>6, <1>7
<1>10. b = Append(a, x)
  BY <1>6, <1>7, <1>8, <1>9, SameStates
<1> QED BY <1>10 DEF a, b, r

(* Trimming more than the stale levels forgets the oldest snapshots.       *)
LEMMA SnapshotsTrimmed ==
    ASSUME NEW q \in Seq(State), NEW d \in 0 .. Len(q) - 1, NEW k \in 0 .. d, NEW x \in State
    PROVE  Suffix(Pushed(Suffix(q, d), x), 0) = Append(Suffix(Suffix(q, k), d - k), x)
<1> DEFINE n == Len(q)
           a == Suffix(q, k)
           b == Suffix(a, d - k)
           c == Suffix(q, d)
<1>1. n \in Nat /\ k \in 0 .. n /\ d \in 0 .. n /\ d - k \in 0 .. n - k
  OBVIOUS
<1>2. a \in Seq(State) /\ Len(a) = n - k /\ \A i \in 1 .. n - k : a[i] = q[i + k]
  BY <1>1, SnapshotFacts
<1>3. c \in Seq(State) /\ Len(c) = n - d /\ \A i \in 1 .. n - d : c[i] = q[i + d]
  BY <1>1, SnapshotFacts
<1> HIDE DEF a, c
<1>4. d - k \in 0 .. Len(a)
  BY <1>1, <1>2
<1>5. b \in Seq(State) /\ Len(b) = Len(a) - (d - k) /\ \A i \in 1 .. Len(a) - (d - k) : b[i] = a[i + (d - k)]
  BY <1>2, <1>4, SnapshotFacts
<1> HIDE DEF b
<1>6. ASSUME NEW i \in 1 .. Len(b) PROVE b[i] = c[i]
  <2>1. i \in 1 .. Len(a) - (d - k) /\ i \in 1 .. n - d /\ i + (d - k) \in 1 .. n - k
        /\ (i + (d - k)) + k = i + d
    BY <1>1, <1>2, <1>5
  <2> QED BY <2>1, <1>2, <1>3, <1>5
<1>7. Len(b) = Len(c)
  BY <1>1, <1>2, <1>3, <1>5
<1>8. b = c
  BY <1>3, <1>5, <1>6, <1>7, SameStates
<1>9. c # <<>> /\ Pushed(c, x) = Append(c, x)
  BY <1>1, <1>3 DEF Pushed
<1>10. Append(c, x) \in Seq(State) /\ Len(Append(c, x)) \in Nat
  BY <1>3
<1>11. Suffix(Append(c, x), 0) = Append(c, x)
  BY <1>10, SubSeqFull DEF Suffix
<1> QED BY <1>8, <1>9, <1>11 DEF a, b, c

(* What the refinement mapping gives in a state of the invariant.          *)
LEMMA MappedFacts ==
    ASSUME IInv
    PROVE  /\ Current \in State /\ saved \in Seq(State)
           /\ stale \in 0 .. Len(saved) /\ Len(stack) = Len(saved) /\ Len(saved) \in Nat
           /\ active_sessions \in Nat /\ (active_sessions > 0 => stale < Len(saved))
           /\ Suffix(saved, stale) \in Seq(State)
           /\ Len(Suffix(saved, stale)) = Len(saved) - stale
           /\ stale = Len(saved) <=> Suffix(saved, stale) = <<>>
           /\ stale < Len(saved) =>
                 Suffix(saved, stale)[Len(Suffix(saved, stale))] = saved[Len(saved)]
<1>1. /\ Current \in State /\ saved \in Seq(State)
      /\ stale \in 0 .. Len(saved) /\ Len(stack) = Len(saved) /\ Len(saved) \in Nat
      /\ active_sessions \in Nat /\ (active_sessions > 0 => stale < Len(saved))
  BY IInvFacts, BoundAssumption DEF IInv, TypeOK
<1> QED BY <1>1, SnapshotFacts

(* A write, recorded in the top level or not recorded at all.              *)
LEMMA WriteSimulates ==
    ASSUME IInv, NEW w, record(w), Current' \in State, active_sessions' = active_sessions,
           max_size' = max_size
    PROVE  Abstract!Next
<1>1. CASE disabled
  <2>1. saved' = saved /\ stale' = Len(stack) /\ active_sessions = 0
    BY <1>1 DEF record, IInv
  <2>2. Suffix(saved, stale)' = <<>>
    <3>1. Len(saved) \in 0 .. Len(saved) /\ saved \in Seq(State) /\ Len(stack) = Len(saved)
      BY MappedFacts
    <3>2. Suffix(saved, Len(saved)) = <<>>
      BY <3>1, SnapshotFacts
    <3> QED BY <2>1, <3>1, <3>2
  <2>3. Abstract!UntrackedWrite
    BY <2>1, <2>2 DEF Abstract!UntrackedWrite
  <2> QED BY <2>3 DEF Abstract!Next
<1>2. CASE ~disabled /\ stack = <<>>
  <2>1. saved' = <<Current>> /\ stale' = stale /\ stale = 0 /\ Len(saved) = 0
    BY <1>2, IInvFacts DEF record
  <2>2. Suffix(saved, stale) = <<>>
    BY <2>1, MappedFacts
  <2>3. Suffix(saved, stale)' = <<Current>>
    <3>1. <<Current>> \in Seq(State) /\ Len(<<Current>>) = 1
      BY MappedFacts
    <3>2. SubSeq(<<Current>>, 1, 1) = <<Current>>
      BY <3>1, SubSeqFull
    <3> QED BY <2>1, <3>1, <3>2 DEF Suffix
  <2>4. Abstract!Write
    BY <2>2, <2>3 DEF Abstract!Write
  <2> QED BY <2>4 DEF Abstract!Next
<1>3. CASE ~disabled /\ stack # <<>>
  <2>1. saved' = saved /\ stale' = stale
    BY <1>3 DEF record
  <2>2. Abstract!Write
    BY <2>1 DEF Abstract!Write
  <2> QED BY <2>2 DEF Abstract!Next
<1> QED BY <1>1, <1>2, <1>3

(* start_undo_session: the trim forgets the oldest snapshots, if any, but  *)
(* none of an open session unless more than max_size are open.             *)
LEMMA StartSimulates ==
    ASSUME IInv, NEW f \in BOOLEAN, start_undo_session(f)
    PROVE  Abstract!Begin
<1> DEFINE n == Len(saved)
           d == Dropped
           S == Suffix(saved, stale)
           c == Current
<1>0. /\ c \in State /\ saved \in Seq(State) /\ n \in Nat /\ stale \in 0 .. n
      /\ d \in 0 .. n /\ (n > 0 => d \in 0 .. n - 1) /\ active_sessions \in Nat
      /\ (active_sessions > 0 => stale < n)
      /\ (active_sessions <= n - d \/ d = 0 \/ active_sessions > max_size)
      /\ S \in Seq(State) /\ Len(S) = n - stale
  <2>1. max_size \in Nat /\ max_size >= 1
    BY BoundAssumption DEF IInv, TypeOK
  <2> QED BY <2>1, MappedFacts DEF Dropped
<1>1. /\ saved' = Pushed(Suffix(saved, d), c) /\ c' = c
      /\ stale' = IF stale > d THEN stale - d ELSE 0
      /\ active_sessions' = active_sessions + 1 /\ max_size' = max_size
  BY DEF start_undo_session, dbvars, Current
<1> HIDE DEF d, S, c
<1>2. SUFFICES ASSUME NEW k \in 0 .. Len(S),
                      k = 0 \/ k <= Len(S) - active_sessions \/ active_sessions > max_size,
                      \/ Suffix(saved, stale)' = Append(Suffix(S, k), c)
                      \/ k = Len(S) /\ Suffix(saved, stale)' = <<c, c>>
               PROVE  Abstract!Begin
  <2>1. CASE n = 0
    <3>1. d = 0 /\ stale = 0 /\ Len(S) = 0
      <4>1. d \in 0 .. 0 /\ stale \in 0 .. 0
        BY <2>1, <1>0
      <4>2. Len(S) = n - stale
        BY <1>0
      <4>3. d = 0 /\ stale = 0
        BY <4>1
      <4>4. n - stale = 0
        BY <2>1, <4>3
      <4> QED BY <4>2, <4>3, <4>4
    <3>2. saved' = <<c, c>> /\ stale' = 0
      <4>1. Suffix(saved, d) \in Seq(State) /\ Len(Suffix(saved, d)) = n - d
        BY <1>0, SnapshotFacts
      <4>2. Len(Suffix(saved, d)) = 0
        BY <4>1, <2>1, <3>1
      <4> QED BY <3>1, <4>1, <4>2, <1>0, <1>1, PushedFacts
    <3>3. <<c, c>> \in Seq(State) /\ Len(<<c, c>>) = 2
      BY <1>0
    <3>4. SubSeq(<<c, c>>, 1, 2) = <<c, c>>
      BY <3>3, SubSeqFull
    <3>5. Suffix(saved, stale)' = <<c, c>>
      BY <3>2, <3>3, <3>4 DEF Suffix
    <3> QED BY <3>1, <3>5, <1>2
  <2>2. CASE n > 0 /\ stale >= d
    <3>1. d \in 0 .. n - 1 /\ stale \in d .. n /\ stale' = stale - d
      BY <2>2, <1>0, <1>1
    <3>2. Suffix(saved, stale)' = Append(S, c)
      BY <3>1, <1>0, <1>1, SnapshotsKept DEF S
    <3>3. Suffix(S, 0) = S
      BY <1>0, SubSeqFull DEF Suffix
    <3>4. 0 \in 0 .. Len(S)
      BY <1>0
    <3> QED BY <3>2, <3>3, <3>4, <1>2
  <2>3. CASE n > 0 /\ stale < d
    <3>1. d \in 0 .. n - 1 /\ stale \in 0 .. d /\ stale' = 0 /\ d > 0
      BY <2>3, <1>0, <1>1
    <3>2. Suffix(saved, stale)' = Append(Suffix(S, d - stale), c)
      BY <3>1, <1>0, <1>1, SnapshotsTrimmed DEF S
    <3>3. /\ d - stale \in 0 .. Len(S)
          /\ d - stale <= Len(S) - active_sessions \/ active_sessions > max_size
      BY <3>1, <1>0
    <3> QED BY <3>2, <3>3, <1>2
  <2> QED BY <2>1, <2>2, <2>3, <1>0
<1>3. Suffix(S, k) = Abstract!Without(S, k)
  BY DEF Suffix, Abstract!Without
<1>4. Abstract!MayForget(k)
  BY <1>2 DEF Abstract!MayForget, S
<1> QED BY <1>1, <1>2, <1>3, <1>4 DEF Abstract!Begin, S, c

(* undo brings the newest snapshot back.                                   *)
LEMMA UndoSimulates ==
    ASSUME IInv, undo
    PROVE  Abstract!Abandon
<1> DEFINE n == Len(saved)
           S == Suffix(saved, stale)
<1>0. /\ saved \in Seq(State) /\ n \in Nat /\ stale \in 0 .. n /\ n > stale /\ Len(stack) = n
      /\ active_sessions > 0 /\ active_sessions' = active_sessions - 1 /\ max_size' = max_size
      /\ S # <<>> /\ Len(S) = n - stale /\ S[Len(S)] = saved[n]
      /\ Top = stack[n] /\ n \in 1 .. n /\ stack[n] \in UndoState /\ saved[n] \in State
      /\ Current \in State
  BY MappedFacts, EndFacts, IInvFacts DEF undo, Top
<1>1. Fits(stack[n], saved[n], Current)
  BY <1>0 DEF IInv, Above
<1>2. Current' = saved[n]
  <2>1. store' = saved[n].store /\ next_id' = saved[n].next_id
    BY <1>0, <1>1, RevertRestores DEF undo, Current
  <2> QED BY <1>0, <2>1 DEF Current, State
<1>3. CASE n = 1
  <2>1. stale = 0 /\ saved' = <<saved[n]>> /\ stale' = 0
    BY <1>0, <1>2, <1>3 DEF undo, Current
  <2>2. Suffix(saved, stale)' = <<saved[n]>>
    <3>1. <<saved[n]>> \in Seq(State) /\ Len(<<saved[n]>>) = 1
      BY <1>0
    <3>2. SubSeq(<<saved[n]>>, 1, 1) = <<saved[n]>>
      BY <3>1, SubSeqFull
    <3> QED BY <2>1, <3>1, <3>2 DEF Suffix
  <2>3. SubSeq(S, 1, Len(S) - 1) = <<>>
    BY <1>0, <1>3, <2>1, SubSeqEmpty
  <2> HIDE DEF S
  <2> QED BY <1>0, <1>2, <2>2, <2>3 DEF Abstract!Abandon, Abstract!Newest, Abstract!Older, S
<1>4. CASE n # 1
  <2>1. saved' = Front(saved) /\ stale' = stale
    BY <1>0, <1>4 DEF undo
  <2>2. Suffix(saved, stale)' = SubSeq(S, 1, Len(S) - 1)
    BY <1>0, <2>1, SnapshotsFront
  <2> QED BY <1>0, <1>2, <2>2 DEF Abstract!Abandon, Abstract!Newest, Abstract!Older
<1> QED BY <1>3, <1>4

(* merge forgets the newest snapshot and leaves the state alone.           *)
LEMMA MergeSimulates ==
    ASSUME IInv, merge
    PROVE  Abstract!Absorb
<1> DEFINE S == Suffix(saved, stale)
<1>0. /\ saved \in Seq(State) /\ stale \in 0 .. Len(saved) /\ stale < Len(saved)
      /\ active_sessions > 0 /\ active_sessions' = active_sessions - 1 /\ S # <<>>
      /\ saved' = Front(saved) /\ stale' = stale /\ Current' = Current /\ max_size' = max_size
  BY MappedFacts, EndFacts DEF merge, dbvars, Current
<1>1. Suffix(saved, stale)' = SubSeq(S, 1, Len(S) - 1)
  BY <1>0, SnapshotsFront
<1> QED BY <1>0, <1>1 DEF Abstract!Absorb, Abstract!Older

(* pop_commit brings the newest snapshot back between sessions.            *)
LEMMA PopCommitSimulates ==
    ASSUME IInv, pop_block
    PROVE  Abstract!GoBack
<1> DEFINE n == Len(saved)
           S == Suffix(saved, stale)
<1>0. /\ saved \in Seq(State) /\ n \in Nat /\ stale \in 0 .. n /\ n > stale /\ Len(stack) = n
      /\ active_sessions = 0 /\ active_sessions' = active_sessions /\ max_size' = max_size
      /\ S # <<>> /\ Len(S) = n - stale /\ S[Len(S)] = saved[n]
      /\ Top = stack[n] /\ n \in 1 .. n /\ stack[n] \in UndoState /\ saved[n] \in State
      /\ Current \in State /\ saved' = Front(saved) /\ stale' = stale
  BY MappedFacts, IInvFacts DEF pop_block, pop_commit, Top
<1>1. Fits(stack[n], saved[n], Current)
  BY <1>0 DEF IInv, Above
<1>2. Current' = saved[n]
  <2>1. store' = saved[n].store /\ next_id' = saved[n].next_id
    BY <1>0, <1>1, RevertRestores DEF pop_block, pop_commit, Current
  <2> QED BY <1>0, <2>1 DEF Current, State
<1>3. Suffix(saved, stale)' = SubSeq(S, 1, Len(S) - 1)
  BY <1>0, SnapshotsFront
<1> QED BY <1>0, <1>2, <1>3 DEF Abstract!GoBack, Abstract!Newest, Abstract!Older

(* Every step of the undo database is a step of the stack of snapshots, or *)
(* leaves it alone.                                                        *)
LEMMA StepSimulates ==
    ASSUME IInv, IInv', [Next]_vars
    PROVE  [Abstract!Next]_(Abstract!vars)
<1>0. Current' \in State
  BY DEF IInv, TypeOK, Current, State
<1>1. ASSUME NEW t \in Types, NEW v \in Values, create(t, v) PROVE Abstract!Next
  BY <1>0, <1>1, WriteSimulates DEF create
<1>2. ASSUME NEW o \in OID, NEW v \in Values, modify(o, v) PROVE Abstract!Next
  BY <1>0, <1>2, WriteSimulates DEF modify
<1>3. ASSUME NEW o \in OID, remove(o) PROVE Abstract!Next
  BY <1>0, <1>3, WriteSimulates DEF remove
<1>4. ASSUME NEW f \in BOOLEAN, start_undo_session(f) PROVE Abstract!Next
  BY <1>4, StartSimulates DEF Abstract!Next
<1>5. CASE undo
  BY <1>5, UndoSimulates DEF Abstract!Next
<1>6. CASE merge
  BY <1>6, MergeSimulates DEF Abstract!Next
<1>7. CASE commit
  <2>1. SessionEnds /\ UNCHANGED <<store, next_id, saved, stale, max_size>>
    BY <1>7 DEF commit, dbvars, history
  <2>2. Abstract!Keep
    BY <2>1, EndFacts DEF Abstract!Keep, Current
  <2> QED BY <2>2 DEF Abstract!Next
<1>8. CASE pop_block
  BY <1>8, PopCommitSimulates DEF Abstract!Next
<1>9. CASE \E k \in MaxSizes : set_max_size(k)
  <2>1. UNCHANGED <<store, next_id, saved, stale, active_sessions>> /\ max_size' \in Nat
    BY <1>9, BoundAssumption DEF set_max_size, dbvars, history
  <2>2. Abstract!SetLimit
    BY <2>1 DEF Abstract!SetLimit, Current
  <2> QED BY <2>2 DEF Abstract!Next
<1>10. CASE disable \/ enable \/ UNCHANGED vars
  <2>1. UNCHANGED <<store, next_id, saved, stale, active_sessions, max_size>>
    BY <1>10 DEF disable, enable, vars, dbvars, history
  <2> QED BY <2>1 DEF Abstract!vars, Current
<1> QED BY <1>1, <1>2, <1>3, <1>4, <1>5, <1>6, <1>7, <1>8, <1>9, <1>10 DEF Next

(* The undo database implements a stack of complete snapshots, whatever    *)
(* its objects, sizes and nesting: undo and pop_commit bring back exactly  *)
(* the state of the start of the session, merge and commit change nothing, *)
(* and only the oldest snapshots are ever forgotten, one of an open        *)
(* session only while more than max_size sessions are open.                *)
THEOREM Refinement == Spec => RollsBackToSnapshots
<1>1. Init => Abstract!Init
  <2> SUFFICES ASSUME Init PROVE Abstract!Init
    OBVIOUS
  <2>1. IInv
    BY InitIInv
  <2>2. /\ Current \in State /\ Suffix(saved, stale) = <<>> /\ active_sessions = 0
        /\ max_size \in Nat
    BY <2>1, MappedFacts, BoundAssumption DEF Init
  <2> QED BY <2>2 DEF Abstract!Init
<1>2. IInv /\ IInv' /\ [Next]_vars => [Abstract!Next]_(Abstract!vars)
  BY StepSimulates
<1> QED BY <1>1, <1>2, Invariance, PTL DEF Spec, RollsBackToSnapshots, Abstract!Spec
=============================================================================
