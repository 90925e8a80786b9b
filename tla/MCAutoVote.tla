----------------------------- MODULE MCAutoVote -----------------------------
(***************************************************************************)
(* Three validators with equal stake; the two others are a quorum, and     *)
(* their votes may be in any block; so may a vote of the node, once signed. *)
(***************************************************************************)
EXTENDS AutoVote, MCForkChoice

EqualStakes == [a \in Addr |-> 1]

VoterOps ==
    {OtherOp("none", {}, 0), VoteOp({2, 3}, 0, 1), VoteOp({2, 3}, 1, 2),
     VoteOp({1, 2}, 0, 1), VoteOp({1, 2}, 0, 2)}
=============================================================================
