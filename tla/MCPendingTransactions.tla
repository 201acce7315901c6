----------------------- MODULE MCPendingTransactions -----------------------
EXTENDS PendingTransactions

Tx(needs, makes, expires, num, size) ==
    [needs |-> needs, makes |-> makes, expires |-> expires,
     ref |-> [num |-> num, id |-> IF num = 0 THEN "none" ELSE "a"], size |-> size]

c(n) == <<"coin", n>>

(* A payment, one that spends what it makes and needs block 1 to be "a",   *)
(* a payment that competes with the first, and one that needs nothing:     *)
(* only the list of known transactions keeps it from being applied again.  *)
Mixed == {Tx({c(1)}, {c(2)}, 3, 0, 1), Tx({c(2)}, {}, 3, 1, 2),
          Tx({c(1)}, {}, 2, 0, 1), Tx({}, {}, 1, 0, 1)}

(* The second system transaction does not fit into a block.                *)
Growing == [k \in 1 .. MaxTime |-> IF k = 1 THEN 1 ELSE MaxSize + 1]

FirstCoins == {c(1)}
=============================================================================
