----------------------------- MODULE MCPosChain -----------------------------
(***************************************************************************)
(* Small instances of PosChain for TLC: two or three holders, one of them  *)
(* the treasury, amounts of one or two units.                              *)
(***************************************************************************)
EXTENDS PosChain

CONSTANTS alice, bob, carol

People == {alice, bob, carol}

\* Economics: alice is under a grant, alice and bob validate, carol is the
\* treasury.
EconomicsAlloc == [a \in People |-> IF a = alice THEN 4 ELSE IF a = bob THEN 3 ELSE 0]
EconomicsStake == [a \in {alice, bob} |-> IF a = alice THEN 1 ELSE 2]
EconomicsGrants ==
    [a \in {alice} |-> [total |-> 3, start |-> 0, cliff |-> 1, duration |-> 3]]
EconomicsTransfers ==
    [sender : {alice}, to : {bob, alice}, amount : {0, 2}, fee : {1}]
EconomicsStakeTxs == [sender : {bob, carol}, amount : {1}, fee : {0}]
EconomicsUnstakeTxs == [sender : {alice, bob}, amount : {1, 2}, fee : {0, 1}]
EconomicsSlashTxs ==
    [sender : {alice, bob}, offender : {bob}, key : {1, 2}, fee : {0, 1}]
EconomicsVoteTxs == [sender : {alice}, s : {0}, t : {1}, fee : {1}]

NoGrants == << >>

\* Finality: three validators of which no one has a quorum alone; bob can add
\* stake or leave, and carol can be slashed.
FinalityAlloc == [a \in People |-> IF a = bob THEN 4 ELSE 2]
FinalityStake == [a \in People |-> IF a = alice THEN 2 ELSE 1]
FinalityStakeTxs == [sender : {bob}, amount : {3}, fee : {0}]
FinalityUnstakeTxs == [sender : {bob}, amount : {1}, fee : {0}]
FinalitySlashTxs == [sender : {alice}, offender : {carol}, key : {1}, fee : {0}]
FinalityVoteTxs == [sender : People, s : 0 .. 2, t : 1 .. 3, fee : {0}]
=============================================================================
