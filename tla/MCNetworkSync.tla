--------------------------- MODULE MCNetworkSync ---------------------------
EXTENDS NetworkSync

(* A chain of three blocks and a longer fork of the first.                 *)
Tree == [b \in Blocks |-> CASE b = "a1" -> "none"
                            [] b \in {"a2", "b2"} -> "a1"
                            [] b = "a3" -> "a2"
                            [] b = "b3" -> "b2"
                            [] b = "b4" -> "b3"]

(* Peers on two forks.                                                     *)
Forked == [p \in Peers |-> IF p = "p" THEN "a2" ELSE "b2"]

(* One peer changes forks and may lack a block it told of, the connection  *)
(* to the other one may be lost.                                           *)
OnlyP == [p \in Peers |-> IF p = "p" THEN 1 ELSE 0]
OnlyQ == [p \in Peers |-> IF p = "q" THEN 1 ELSE 0]
Never == [p \in Peers |-> 0]

Together == [p \in Peers |-> "a3"]
=============================================================================
