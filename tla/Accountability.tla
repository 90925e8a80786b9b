--------------------------- MODULE Accountability ---------------------------
(***************************************************************************)
(* Finality on two branches that part at genesis.  Each branch is a chain  *)
(* of its own: it snapshots its own stakes at its checkpoints, includes    *)
(* votes for its own checkpoints, and slashes on evidence.  A validator    *)
(* may vote on both; what it signed on one branch is evidence on the       *)
(* other.  Heights count epochs, and any number of blocks lies between two *)
(* checkpoints.  The menu of steps is that of _apply_block_pre,            *)
(* _apply_vote, _apply_slash and of stake and unstake transactions.        *)
(***************************************************************************)
EXTENDS Evidence, FiniteSets, Sequences

CONSTANTS
    Validators,
    GenesisStake,  \* their stake at genesis
    Branches,
    Rogues,        \* bound: who may have sealed two blocks on one parent or vote in conflict
    Movers,        \* who may bond and withdraw stake after genesis
    MaxHeight,     \* bound: checkpoints of each branch
    MaxVotes,      \* bound: blocks with votes on each branch
    MaxFaults      \* bound: validators at fault and units of stake moved

ASSUME AccountabilityAssumption ==
    /\ IsFiniteSet(Validators)
    /\ GenesisStake \in [Validators -> Nat \ {0}]
    /\ Rogues \subseteq Validators
    /\ Movers \subseteq Validators
    /\ MaxHeight \in [Branches -> Nat]
    /\ MaxVotes \in [Branches -> Nat]
    /\ MaxFaults \in Nat

VARIABLES
    chain,         \* the state of each branch
    at_fault,      \* history: validators that sealed twice or signed conflicting votes
    equivocators,  \* who sealed two blocks on one parent
    moved          \* history: stake bonded or withdrawn on any branch

accountVars == <<chain, at_fault, equivocators, moved>>

Total == StakeOf(GenesisStake, Validators)

\* A checkpoint by its hash: the branches share genesis only.
Checkpoint(b, h) == IF h = 0 THEN <<"genesis">> ELSE <<b, h>>

\* A vote as its signed link.
Link(b, s, t) == [s |-> Checkpoint(b, s), sh |-> s, t |-> Checkpoint(b, t), th |-> t]

\* Who is at fault for votes once S has voted for a link of branch b.
Conflicting(b, S, s, t) ==
    {v \in S : \E d \in Branches : \E w \in chain[d].votes :
                  w.voter = v /\ VoteFault(Link(b, s, t), Link(d, w.s, w.t))}

\* The assumption of accountable safety: less than a third of the stake is with
\* validators at fault or has moved.
Covered(bad, stake) == 3 * (StakeOf(GenesisStake, bad) + stake) < Total

AccountInit ==
    /\ chain = [b \in Branches |->
                  [height |-> 0, stakes |-> GenesisStake, snapshots |-> <<GenesisStake>>,
                   slashed_addrs |-> {}, votes |-> {}, blocks |-> 0,
                   justified |-> {0}, finalized |-> 0]]
    /\ equivocators \in SUBSET Rogues
    /\ at_fault = equivocators
    /\ moved = 0

\* The chain reaches its next checkpoint, and stake is snapshotted.
ReachCheckpoint(b) ==
    /\ chain[b].height < MaxHeight[b]
    /\ chain' = [chain EXCEPT ![b].height = @ + 1,
                              ![b].snapshots = Append(@, chain[b].stakes)]
    /\ UNCHANGED <<at_fault, equivocators, moved>>

\* What _apply_vote asks of a voter for the link s -> t on a branch.
MayVote(c, v, s, t) ==
    /\ v \notin c.slashed_addrs
    /\ Get(c.snapshots[s + 1], v) > 0
    /\ \A w \in c.votes : w.voter = v /\ w.t = t => w.s = s

\* A block with votes for one link of two checkpoints of the branch, S those of new
\* voters.  Somebody may repeat its vote, which matters if the quorum is reached by it:
\* a slash has made the total smaller since.
Vote(b, S, s, t) ==
    LET c == chain[b]
        votes == c.votes \cup {[voter |-> v, s |-> s, t |-> t] : v \in S}
        justifies == Quorum(c.snapshots[s + 1], VotersFor(votes, s, t), c.slashed_addrs)
    IN  /\ c.blocks < MaxVotes[b]
        /\ s \in c.justified
        /\ S \cap VotersFor(c.votes, s, t) = {}
        /\ S = {} => /\ justifies /\ t \notin c.justified
                    /\ \E v \in VotersFor(c.votes, s, t) : MayVote(c, v, s, t)
        /\ \A v \in S : MayVote(c, v, s, t)
        /\ at_fault' = at_fault \cup Conflicting(b, S, s, t)
        /\ at_fault' \subseteq Rogues /\ Cardinality(at_fault') + moved <= MaxFaults
        /\ chain' = [chain EXCEPT
              ![b].votes = votes,
              ![b].blocks = @ + 1,
              ![b].justified = IF justifies THEN @ \cup {t} ELSE @,
              ![b].finalized = IF justifies /\ t = s + 1 /\ s > @ THEN s ELSE @]
        /\ UNCHANGED <<equivocators, moved>>

\* The evidence of a slash transaction that _apply_slash accepts.  The blocks and
\* votes that name v are the ones v signed, and others with its public key or a
\* second one, that the second key signed.
BlocksNaming(v, equivocates) ==
    {SealBlock(b, 1, root, v) : b \in Branches, root \in IF equivocates THEN {0, 1} ELSE {0}}
    \cup {SignedBlock(b, 1, root, Address(v), pub, k) :
             b \in Branches, root \in {0, 1}, pub \in Validators, k \in Validators \ {v}}

ForgedVotes(v) ==
    {SignedVote(Address(v), Link(b, 0, 1), pub, k) :
        b \in Branches, pub \in Validators, k \in Validators \ {v}}

\* Whom blocks convict, by whether it equivocated.
BlockEvidence ==
    UNION {{<<v, e>> : e \in {f \in {TRUE, FALSE} :
               \E x, y \in BlocksNaming(v, f) : Equivocation(x, y)}} : v \in Validators}

\* Whom a vote of its own convicts beside another one of its own or a forged one.
Links == UNION {{<<b, s, t>> : s \in 0 .. MaxHeight[b], t \in 1 .. MaxHeight[b]} : b \in Branches}
SignedLink(l, v) == VoteTx(Link(l[1], l[2], l[3]), v)
VoteEvidence ==
    UNION {{<<v, l, m>> : m \in {n \in Links :
               \E z \in {SignedLink(n, v)} \cup ForgedVotes(v) :
                   VerifyVoteFault(SignedLink(l, v), z)}} : v \in Validators, l \in Links}

Convicts(v) ==
    \/ <<v, v \in equivocators>> \in BlockEvidence
    \/ \E b, d \in Branches : \E x \in chain[b].votes, y \in chain[d].votes :
          /\ x.voter = v /\ y.voter = v
          /\ <<v, <<b, x.s, x.t>>, <<d, y.s, y.t>>>> \in VoteEvidence

\* A slash: the offender's stake is gone and no quorum counts it again.
Slash(b, v) ==
    /\ v \notin chain[b].slashed_addrs
    /\ Convicts(v)
    /\ chain' = [chain EXCEPT ![b].stakes = Pop(@, v),
                              ![b].slashed_addrs = @ \cup {v}]
    /\ UNCHANGED <<at_fault, equivocators, moved>>

\* One unit of stake is bonded.
Bond(b, v) ==
    /\ chain' = [chain EXCEPT ![b].stakes = Put(@, v, Get(@, v) + 1)]
    /\ Cardinality(at_fault) + moved < MaxFaults
    /\ moved' = moved + 1
    /\ UNCHANGED <<at_fault, equivocators>>

\* One unit is withdrawn, never the stake of the last validator.
Withdraw(b, v) ==
    LET c == chain[b]
    IN  /\ Get(c.stakes, v) > 0
        /\ Get(c.stakes, v) = 1 => Cardinality(DOMAIN c.stakes) > 1
        /\ chain' = [chain EXCEPT ![b].stakes =
                        IF Get(@, v) = 1 THEN Pop(@, v) ELSE Put(@, v, Get(@, v) - 1)]
        /\ Cardinality(at_fault) + moved < MaxFaults
        /\ moved' = moved + 1
        /\ UNCHANGED <<at_fault, equivocators>>

AccountNext ==
    \E b \in Branches :
        \/ ReachCheckpoint(b)
        \/ \E t \in 1 .. chain[b].height : \E s \in 0 .. t - 1 :
              \E S \in SUBSET Validators : Vote(b, S, s, t)
        \/ \E v \in Validators : Slash(b, v)
        \/ \E v \in Movers : Bond(b, v)
        \/ \E v \in Movers : Withdraw(b, v)

AccountSpec == AccountInit /\ [][AccountNext]_accountVars

-----------------------------------------------------------------------------
\* finality.py: "two conflicting checkpoints finalize only if >= 1/3 of
\* source-active stake casts a slashable double/surround vote".  Each branch takes
\* its quorums over its own snapshots and without what it has slashed, so the third
\* is made up of validators at fault and of stake that entered or left on some
\* branch: nothing bounds how far the validator sets of two branches drift apart.
AccountableSafety ==
    Covered(at_fault, moved) =>
        \A b, d \in Branches : b # d => chain[b].finalized = 0 \/ chain[d].finalized = 0

\* "Each block self-authenticates via the offender's own key, so no one can forge
\* evidence against a validator", "so an honest validator who casts one vote per
\* target can never be framed": whoever a branch slashed has sealed two blocks on
\* one parent or signed two conflicting votes, on whichever branch.
InnocentNeverSlashed == \A b \in Branches : chain[b].slashed_addrs \subseteq at_fault
=============================================================================
