-------------------------- MODULE MCChainDatabase --------------------------
(***************************************************************************)
(* Small block trees for ChainDatabase.                                    *)
(***************************************************************************)
EXTENDS ChainDatabase

Run(x, n) == [i \in 1 .. n |-> x]
Child(b, x) == Append(b, x)
Chain(b, x, n) == {b \o Run(x, k) : k \in 1 .. n}

(* A partition of the network: after a common trunk of two blocks one      *)
(* witness goes on alone on one side and the other on the other side, so   *)
(* that no block behind the trunk becomes irreversible on either.          *)
Trunk          == Run("t", 2)
Partition      == Chain(Genesis, "t", 2) \cup Chain(Trunk, "a", 3) \cup Chain(Trunk, "b", 3)
PartitionSigned == [b \in Partition |-> IF b[Len(b)] = "a" \/ Len(b) = 1 THEN "w1" ELSE "w2"]

(* The same with an invalid block on each side.                            *)
Spoilt       == Partition \cup {Child(Child(Trunk, "a"), "x")}
SpoiltValid  == {b \in Partition : Len(b) < 4 \/ b[4] # "b"}
SpoiltSigned == [b \in Spoilt |-> IF b[Len(b)] = "a" \/ Len(b) = 1 THEN "w1" ELSE "w2"]

(* Two first blocks, forks at two heights, and witnesses that sign on all  *)
(* of them, so that irreversible blocks are in reach of a switch.          *)
Wild       == Chain(Genesis, "a", 3) \cup Chain(Genesis, "b", 2)
              \cup Chain(Run("a", 1), "c", 2)
WildValid  == Wild \ {Run("b", 2), Run("a", 1) \o Run("c", 2)}
WildSigned == [b \in Wild |-> IF Len(b) % 2 = 0 THEN "w1" ELSE "w2"]

(* Two long forks, signed by both witnesses in turn.                       *)
Long       == Chain(Genesis, "a", 6) \cup Chain(Run("a", 1), "b", 5)
LongSigned == [b \in Long |-> IF Len(b) % 2 = 0 THEN "w1" ELSE "w2"]
=============================================================================
