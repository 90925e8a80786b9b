-------------------------------- MODULE FFG ---------------------------------
(***************************************************************************)
(* The finality gadget of consensus.py as operators on stake snapshots and *)
(* votes.  A snapshot is the dictionary address -> active stake frozen at  *)
(* an epoch-boundary checkpoint (ffg_stake); a link is a pair of           *)
(* checkpoints a vote goes from and to.                                    *)
(***************************************************************************)
EXTENDS Dict

\* FFG_NUM and FFG_DEN: two thirds of the source snapshot justify a target.
FFG_NUM == 2
FFG_DEN == 3

\* Stake that the validators of S hold in a snapshot.
StakeOf(snapshot, S) == SumFunctionOnSet(snapshot, S \cap DOMAIN snapshot)

\* Addresses whose vote for a link is recorded.
VotersFor(votes, s, t) == {w.voter : w \in {x \in votes : x.s = s /\ x.t = t}}

\* The test that justifies a target: proven-Byzantine validators count neither
\* among the votes nor in the total, and an empty total justifies nothing.
SimpleMajority(snapshot, voters, slashed_addrs) ==
    LET voted == StakeOf(snapshot, voters \ slashed_addrs)
        total == StakeOf(snapshot, DOMAIN snapshot \ slashed_addrs)
    IN  total > 0 /\ 2 * voted >= total

Quorum(snapshot, voters, slashed_addrs) ==
    LET voted == StakeOf(snapshot, voters \ slashed_addrs)
        total == StakeOf(snapshot, DOMAIN snapshot \ slashed_addrs)
    IN  total > 0 /\ FFG_DEN * voted >= FFG_NUM * total

\* The two slashable vote faults of verify_vote_fault, on links that name
\* checkpoints (s, t) together with their heights (sh, th).
DoubleVote(a, b) == a.th = b.th /\ (a.t # b.t \/ a.s # b.s)

SurroundVote(a, b) ==
    \/ a.sh < b.sh /\ b.th < a.th
    \/ b.sh < a.sh /\ a.th < b.th

VoteFault(a, b) == DoubleVote(a, b) \/ SurroundVote(a, b)
=============================================================================
