------------------------------ MODULE AutoVote ------------------------------
(***************************************************************************)
(* p2p.P2PNode.auto_vote over a block tree: an honest `Voter' signs a      *)
(* finality vote for the newest checkpoint of its canonical chain while    *)
(* the head moves, sometimes to another branch, and while the process      *)
(* restarts.  The store brings the tree back; _voted_targets is in memory  *)
(* only.                                                                   *)
(*                                                                         *)
(* A vote counts as cast once it is signed and handed to the mempool and   *)
(* the peers: verify_vote_fault needs two signed votes, not blocks that    *)
(* include them.  The blocks of the tree carry the votes of the others and *)
(* those that Voter signed.                                                *)
(***************************************************************************)
EXTENDS ForkChoice

CONSTANTS
    Voter,       \* address of the node's validator key
    MaxRestarts  \* bound: restarts

ASSUME VoterAssumption ==
    /\ Voter \in Addr
    /\ \A op \in Ops : op.kind = "slash" => Voter \notin op.who
    /\ MaxRestarts \in Nat

VARIABLES
    cast,           \* history: links Voter has signed a vote for
    voted_targets,  \* _voted_targets: heights Voter has voted for
    reorged,        \* history: the head has left a branch
    restarts        \* history: restarts so far

voterVars == <<cast, voted_targets, reorged, restarts>>
autoVars == <<vars, voterVars>>

Highest(S) == CHOOSE i \in S : \A j \in S : j <= i

\* Checkpoints of the canonical chain, without genesis.
CheckpointHeights(h) == {i \in 1 .. Len(h) : i % Epoch = 0}

\* The newest checkpoint.
TargetUnvoted(h) ==
    Highest(IF CheckpointHeights(h) \subseteq voted_targets THEN CheckpointHeights(h)
            ELSE CheckpointHeights(h) \ voted_targets)
Target(h) == Highest(CheckpointHeights(h))

\* The highest justified checkpoint below the target, the finalized one if
\* there is none.
SourceUnjustified(c, th) ==
    Highest({i \in DOMAIN c.snapshots : i < th /\ i >= c.finalized} \cup {c.finalized})
Source(c, th) ==
    Highest({i \in c.justified : i < th /\ i >= c.finalized} \cup {c.finalized})

\* The link a vote names: both checkpoints by hash and height.
Link(h, sh, th) ==
    [s |-> SubSeq(h, 1, sh), sh |-> sh, t |-> SubSeq(h, 1, th), th |-> th]

\* At most one vote per target height.
MayVote(th) == th \notin voted_targets

AutoInit ==
    /\ Init
    /\ cast = {}
    /\ voted_targets = {}
    /\ reorged = FALSE
    /\ restarts = 0

\* auto_vote.  A vote that the mempool refuses is not sent and not remembered;
\* that call changes nothing.
CastVote ==
    /\ canonical.stakes[Voter] > 0
    /\ CheckpointHeights(head_hash) # {}
    /\ LET th == Target(head_hash)
           sh == Source(canonical, th)
       IN  /\ MayVote(th)
           /\ sh < th
           /\ cast' = cast \cup {Link(head_hash, sh, th)}
           /\ voted_targets' = voted_targets \cup {th}
    /\ UNCHANGED <<vars, reorged, restarts>>

\* A block is produced or arrives; a vote of Voter in it is one that Voter signed.
TakeBlock(p, b) ==
    /\ AddBlock(p, b)
    /\ b.op.kind = "votes" /\ Voter \in b.op.who => Link(p, b.op.s, b.op.t) \in cast
    /\ reorged' = (reorged \/ ~Ancestor(head_hash, head_hash'))
    /\ UNCHANGED <<cast, voted_targets, restarts>>

\* P2PNode.__init__ after the replay of the store.
Restart ==
    /\ restarts < MaxRestarts
    /\ restarts' = restarts + 1
    /\ voted_targets' = {}
    /\ UNCHANGED <<vars, cast, reorged>>

AutoNext ==
    \/ CastVote
    \/ \E p \in known, b \in Blocks : TakeBlock(p, b)
    \/ Restart

AutoSpec == AutoInit /\ [][AutoNext]_autoVars

-----------------------------------------------------------------------------
\* "The source is the highest justified checkpoint which only rises (no surround
\* vote)": true as long as the head stays on its branch, restarts included.
SurroundNeedsReorg ==
    \A a \in cast, b \in cast : SurroundVote(a, b) => reorged

\* auto_vote's source is a checkpoint on the branch of its target that the branch
\* has justified, which _apply_vote asks for.
VotesJoinBranch ==
    \A l \in cast :
        /\ Ancestor(l.s, l.t)
        /\ \E h \in known : Ancestor(l.t, h) /\ l.sh \in state[h].justified

\* "An honest auto-voter can never slash itself even across transient forks."
NeverSlashable == \A a \in cast, b \in cast : ~VoteFault(a, b)
=============================================================================
