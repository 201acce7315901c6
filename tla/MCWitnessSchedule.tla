------------------------- MODULE MCWitnessSchedule -------------------------
EXTENDS WitnessSchedule, TLC

(* All witnesses but one are active, or only one is.                       *)
ButOneOrOne == {a \in SUBSET Witnesses : Cardinality(a) \in {1, Cardinality(Witnesses) - 1}}

Symmetry == Permutations(Witnesses)
=============================================================================
