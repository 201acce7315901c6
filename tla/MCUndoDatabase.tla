--------------------------- MODULE MCUndoDatabase ---------------------------
(* A small object database for TLC. *)
EXTENDS UndoDatabase, TLC

(* Values are interchangeable, and so are the types. *)
Symm == Permutations(Values) \cup Permutations(Types)
=============================================================================
