---------------------- MODULE MCConstructionCapital ------------------------
(* Small capitals for TLC. *)
EXTENDS ConstructionCapital

Equal == {[amount |-> 3, period |-> 2, total_periods |-> 2]}
Mixed == Equal \cup {[amount |-> 5, period |-> 1, total_periods |-> 3]}
=============================================================================
