-------------------------- MODULE MCAccountability --------------------------
(***************************************************************************)
(* Three validators with 2, 2 and 1 of 5 units: the smallest is less than  *)
(* a third and may be at fault or slashed, or one unit may move.           *)
(***************************************************************************)
EXTENDS Accountability, TLC

CONSTANTS v1, v2, v3, left, right

Stakes == [v \in {v1, v2, v3} |-> IF v = v3 THEN 1 ELSE 2]

\* One branch is long enough to finalize a checkpoint with a vote that surrounds
\* the votes that finalize a checkpoint of the other.
Lengths == [b \in {left, right} |-> IF b = left THEN 2 ELSE 4]

\* The short one has a vote block to spare for votes that come after a slash.
VoteBlocks == [b \in {left, right} |-> IF b = left THEN 3 ELSE 2]

\* The two large validators are alike.
Alike == Permutations({v1, v2})
=============================================================================
