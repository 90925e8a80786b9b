------------------------------ MODULE Election ------------------------------
(***************************************************************************)
(* Stake-weighted proposer selection, consensus.elect_validator.  Addresses *)
(* are numbers here, in the order the code sorts their strings.            *)
(***************************************************************************)
EXTENDS FFG

\* Validators the election considers, and their total stake.
Active(stakes) == {a \in DOMAIN stakes : stakes[a] > 0}
ActiveStake(stakes) == StakeOf(stakes, Active(stakes))

\* Stake that the loop has accumulated when it comes to v.
StakeBefore(stakes, v) == StakeOf(stakes, {a \in Active(stakes) : a < v})

\* elect_validator(stakes, seed) returns v: the seed modulo the total stake
\* falls into the stretch of v when the validators are laid out in order.
Elected(stakes, seed, v) ==
    LET total == ActiveStake(stakes)
        pick == seed % total
    IN  /\ v \in Active(stakes)
        /\ StakeBefore(stakes, v) <= pick
        /\ pick < StakeBefore(stakes, v) + stakes[v]
=============================================================================
