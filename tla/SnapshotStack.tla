---------------------------- MODULE SnapshotStack ----------------------------
(***************************************************************************)
(* What the undo database promises, without the deltas that implement it:  *)
(* a state, and a stack of earlier states.  Starting a session pushes the  *)
(* present state; abandoning one brings the pushed state back exactly;     *)
(* absorbing one forgets the newest saved state only; old saved states may *)
(* be forgotten, but one an open session may still go back to only while   *)
(* more sessions are open than the limit in force.                         *)
(***************************************************************************)
EXTENDS Integers, Sequences

CONSTANT States

VARIABLES
    state,  \* the present state
    saved,  \* the states that can be brought back, the newest last
    open,   \* the number of sessions not yet ended
    limit   \* how many saved states are worth keeping

vars == <<state, saved, open, limit>>

Without(s, k) == SubSeq(s, k + 1, Len(s))
Newest        == saved[Len(saved)]
Older         == SubSeq(saved, 1, Len(saved) - 1)

Init == state \in States /\ saved = <<>> /\ open = 0 /\ limit \in Nat

(* What a new session may forget: k of the oldest saved states.            *)
MayForget(k) == k = 0 \/ k <= Len(saved) - open \/ open > limit

(* The first session on an empty stack may leave a second copy below it.   *)
Begin ==
    /\ \E k \in 0 .. Len(saved) :
          /\ MayForget(k)
          /\ saved' \in {Append(Without(saved, k), state)}
                        \cup (IF k = Len(saved) THEN {<<state, state>>} ELSE {})
    /\ open' = open + 1
    /\ UNCHANGED <<state, limit>>

(* A write on an empty stack may or may not be tracked.                    *)
Write ==
    /\ state' \in States
    /\ saved' \in {saved} \cup (IF saved = <<>> THEN {<<state>>} ELSE {})
    /\ UNCHANGED <<open, limit>>

(* A write nobody tracks makes every saved state useless.                  *)
UntrackedWrite ==
    /\ open = 0
    /\ state' \in States
    /\ saved' = <<>>
    /\ UNCHANGED <<open, limit>>

Abandon ==
    /\ open > 0
    /\ saved # <<>>
    /\ state' = Newest
    /\ saved' \in {Older} \cup (IF Older = <<>> THEN {<<Newest>>} ELSE {})
    /\ open' = open - 1
    /\ UNCHANGED limit

Absorb ==
    /\ open > 0
    /\ saved # <<>>
    /\ saved' = Older
    /\ open' = open - 1
    /\ UNCHANGED <<state, limit>>

Keep ==
    /\ open > 0
    /\ open' = open - 1
    /\ UNCHANGED <<state, saved, limit>>

GoBack ==
    /\ open = 0
    /\ saved # <<>>
    /\ state' = Newest
    /\ saved' = Older
    /\ UNCHANGED <<open, limit>>

SetLimit ==
    /\ limit' \in Nat
    /\ UNCHANGED <<state, saved, open>>

Next == Begin \/ Write \/ UntrackedWrite \/ Abandon \/ Absorb \/ Keep \/ GoBack \/ SetLimit

Spec == Init /\ [][Next]_vars
=============================================================================
