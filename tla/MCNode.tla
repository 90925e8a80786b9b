------------------------------- MODULE MCNode -------------------------------
(***************************************************************************)
(* Small instances of Node: three validators, blocks that vote the first   *)
(* checkpoint to finality, and forks beside them.                          *)
(***************************************************************************)
EXTENDS Node, MCForkChoice, TLC

CONSTANTS t1, t2

NodeOps ==
    {VoteOp({1, 2}, 0, 1), VoteOp({1, 2}, 1, 2), OtherOp("none", {}, 0)}

\* Requests are handled alike.
AlikeThreads == Permutations(Threads)
=============================================================================
