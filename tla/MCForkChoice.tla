---------------------------- MODULE MCForkChoice ----------------------------
(***************************************************************************)
(* Small trees for TLC: stakes, operations, an election seed and an order  *)
(* of hashes that scatter like hashes.                                     *)
(***************************************************************************)
EXTENDS ForkChoice

\* Three validators; any two of them that include 1 are a quorum.
TreeStakes == [a \in Addr |-> IF a = 1 THEN 2 ELSE 1]

VoteOp(who, s, t) == [kind |-> "votes", who |-> who, s |-> s, t |-> t, amount |-> 0]
OtherOp(kind, who, x) == [kind |-> kind, who |-> who, s |-> 0, t |-> 0, amount |-> x]

TreeOps ==
    {VoteOp({1, 2}, 0, 1), VoteOp({1, 2}, 1, 2), VoteOp({1, 2}, 2, 3), VoteOp({1, 2}, 0, 2),
     OtherOp("stake", {3}, 3), OtherOp("slash", {3}, 0)}

OpNumber(op) ==
    CASE op.kind = "none" -> 0 [] op.kind = "stake" -> 5 [] op.kind = "slash" -> 6
      [] op.kind = "unstake" -> 8 [] op.kind = "votes" -> op.s * 2 + op.t

\* A number of its own for every hash, scattered as a hash function does.
HashNumber(h) ==
    SumFunction([i \in 1 .. Len(h) |->
                    (h[i].validator - 1 + 3 * OpNumber(h[i].op)) * 32 ^ (i - 1)])
TreeRank(h) == (HashNumber(h) * 1999) % 1048583
TreeSeed(h) == TreeRank(h) + Len(h)

\* One particular first block, to be trusted or not.
FirstBlock ==
    << [validator |-> CHOOSE v \in Addr : Elected(TreeStakes, TreeSeed(Genesis), v),
        stamp |-> 0, op |-> OtherOp("stake", {3}, 3)] >>

TreeCheckpoints == {Genesis, FirstBlock}

NoCheckpoints == {Genesis}
=============================================================================
