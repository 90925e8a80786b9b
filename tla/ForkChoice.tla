----------------------------- MODULE ForkChoice -----------------------------
(***************************************************************************)
(* forkchoice.BlockTree: every accepted block in a tree, the heaviest      *)
(* branch that descends from the finalized checkpoint as the canonical     *)
(* chain, and a finality frontier no reorganisation may cross.             *)
(*                                                                         *)
(* A block hash commits to the whole branch below the block, so a hash is  *)
(* the sequence of blocks from genesis (the empty sequence) to the block:  *)
(* previous_hash is the sequence without its last element, the height is   *)
(* the length and ancestry is the prefix order.                            *)
(*                                                                         *)
(* Of the chain state a block leads to, what fork choice depends on is     *)
(* kept: stakes, slashed addresses and the finality gadget.                *)
(***************************************************************************)
EXTENDS Election, Sequences, FiniteSets

CONSTANTS
    Addr,          \* addresses, as numbers in the order of their strings
    GenesisStakes, \* initial_stakes
    Epoch,         \* blocks between two checkpoints
    Ops,           \* what the transactions of a block amount to
    Stamps,        \* tells blocks of one proposer on one parent apart
    Seed(_),       \* election seed for the block after a hash
    Rank(_),       \* place of a hash in the order of hash strings
    Checkpoints,   \* weak-subjectivity checkpoints; genesis stands for none
    MaxHeight,     \* bound: length of a branch
    MaxBlocks      \* bound: blocks in the tree

\* The transactions of a block: finality votes by `who' for the link s -> t,
\* stake added or withdrawn by each of `who', slashing of `who' for an offence
\* not slashed before, or nothing fork choice depends on.
OpType == [kind : {"none", "votes", "stake", "unstake", "slash"},
           who : SUBSET Addr, s : Nat, t : Nat, amount : Nat]

Blocks == [validator : Addr, stamp : Stamps, op : Ops]

\* Hashes of the blocks that can exist, and genesis.
Genesis == << >>
Hashes == UNION {[1 .. n -> Blocks] : n \in 0 .. MaxHeight}

ASSUME TreeAssumption ==
    /\ IsFiniteSet(Addr)
    /\ Addr \subseteq Nat
    /\ GenesisStakes \in [Addr -> Nat]
    /\ Epoch \in Nat \ {0}
    /\ Ops \subseteq OpType
    /\ MaxHeight \in Nat
    /\ MaxBlocks \in Nat
    /\ Checkpoints \subseteq Hashes
    /\ \A h \in Hashes : Seed(h) \in Nat /\ Rank(h) \in Int

VARIABLES
    known,          \* hashes in the tree (the keys of weight)
    weight,         \* accumulated proposer stake of each
    state,          \* chain state of each, what chain_at(hash) replays to
    head_hash,      \* the canonical head
    canonical,      \* chain state kept for the head
    finalized_hash, \* the finality frontier
    ws_checkpoint,  \* the operator's trusted checkpoint
    raised          \* history: ConflictingFinalityError was raised

vars == <<known, weight, state, head_hash, canonical, finalized_hash,
          ws_checkpoint, raised>>

Parent(h) == SubSeq(h, 1, Len(h) - 1)

\* a is h or an ancestor of h.
Ancestor(a, h) == Len(a) <= Len(h) /\ \A i \in 1 .. Len(a) : a[i] = h[i]

-----------------------------------------------------------------------------
(* The chain state along a branch *)

GenesisState ==
    [stakes |-> GenesisStakes, slashed |-> {},
     snapshots |-> [c \in {0} |-> GenesisStakes],
     votes |-> {}, justified |-> {0}, finalized |-> 0]

\* _apply_vote's conditions for every voter of the block.
VotesValidOffBranch(c, op) ==
    /\ op.s < op.t
    /\ op.s \in DOMAIN c.snapshots
    /\ op.s \in c.justified
    /\ \A v \in op.who : v \notin c.slashed /\ c.snapshots[op.s][v] > 0

VotesValid(c, op) ==
    /\ op.s < op.t
    /\ op.s \in DOMAIN c.snapshots
    /\ op.t \in DOMAIN c.snapshots
    /\ op.s \in c.justified
    /\ \A v \in op.who :
          /\ v \notin c.slashed
          /\ c.snapshots[op.s][v] > 0
          /\ \A w \in c.votes : w.voter = v /\ w.t = op.t => w.s = op.s

\* submit_block on chain state c after hash h accepts block b: the elected
\* proposer, and transactions that apply.
Valid(c, h, b) ==
    /\ Elected(c.stakes, Seed(h), b.validator)
    /\ b.op.kind = "votes" => VotesValid(c, b.op)
    /\ b.op.kind = "unstake" =>
          /\ \A a \in b.op.who : c.stakes[a] >= b.op.amount
          /\ \E a \in Active(c.stakes) : a \in b.op.who => c.stakes[a] > b.op.amount

\* What _apply_block_pre and the transactions make of chain state c.
Applied(c, h, b) ==
    LET op == b.op
        index == Len(h) + 1
        cast == IF op.kind = "votes"
                THEN {[voter |-> v, s |-> op.s, t |-> op.t] : v \in op.who} ELSE {}
        votes == c.votes \cup cast
        reached == /\ cast # {}
                   /\ Quorum(c.snapshots[op.s], VotersFor(votes, op.s, op.t), c.slashed)
    IN  [stakes |-> [a \in Addr |->
                       CASE op.kind = "slash" /\ a \in op.who -> 0
                         [] op.kind = "stake" /\ a \in op.who -> c.stakes[a] + op.amount
                         [] op.kind = "unstake" /\ a \in op.who -> c.stakes[a] - op.amount
                         [] OTHER -> c.stakes[a]],
         slashed |-> IF op.kind = "slash" THEN c.slashed \cup op.who ELSE c.slashed,
         snapshots |-> IF index % Epoch = 0
                       THEN Put(c.snapshots, index, c.stakes) ELSE c.snapshots,
         votes |-> votes,
         justified |-> IF reached THEN c.justified \cup {op.t} ELSE c.justified,
         finalized |-> IF reached /\ op.t = op.s + Epoch /\ op.s > c.finalized
                       THEN op.s ELSE c.finalized]

\* finalized_checkpoint of a branch: the hash at the height it finalized.
BranchFinal(h, c) == SubSeq(h, 1, c.finalized)

-----------------------------------------------------------------------------
Init ==
    /\ known = {Genesis}
    /\ weight = [h \in {Genesis} |-> 0]
    /\ state = [h \in {Genesis} |-> GenesisState]
    /\ head_hash = Genesis
    /\ canonical = GenesisState
    /\ finalized_hash = Genesis
    /\ ws_checkpoint \in Checkpoints
    /\ raised = FALSE

\* Finality guard #1 and the weak-subjectivity check, for a block h on parent p.
AdmissibleAnywhere(p, h) == Len(h) = Len(ws_checkpoint) => h = ws_checkpoint
AdmissibleBesideCheckpoint(p, h) ==
    /\ Len(h) <= Len(finalized_hash) => h = finalized_hash
    /\ Len(h) > Len(finalized_hash) => Ancestor(finalized_hash, p)

Admissible(p, h) ==
    /\ Len(h) <= Len(finalized_hash) => h = finalized_hash
    /\ Len(h) > Len(finalized_hash) => Ancestor(finalized_hash, p)
    /\ Len(h) = Len(ws_checkpoint) => h = ws_checkpoint

\* _better: more weight, then the smaller hash.
BetterIfLonger(w, a, b) == Len(a) > Len(b)
Better(w, a, b) ==
    IF w[a] # w[b] THEN w[a] > w[b] ELSE Rank(a) < Rank(b)

\* Finality guard #2 of _update_head: who may become head.
EligibleAnywhere(K, final) == K
Eligible(K, final) == {h \in K : Ancestor(final, h)}

\* _update_head's scan.
BestHead(K, w, final) ==
    CHOOSE h \in Eligible(K, final) : \A g \in Eligible(K, final) : ~Better(w, g, h)

\* The chain state a block on p is validated against: the canonical chain when
\* the block extends the head, a replay of the branch otherwise.
Base(p) == IF p = head_hash THEN canonical ELSE state[p]

\* The frontier follows a branch that finalized something higher.
Frontier(f) == IF Len(f) > Len(finalized_hash) THEN f ELSE finalized_hash

\* The safety backstop before the frontier moves: the branch must hold the
\* block that is already final.
Conflict(h, f) == Len(f) > Len(finalized_hash) /\ ~Ancestor(finalized_hash, h)

\* The state kept for the new head: already there after a head extension, kept
\* when the head stays, replayed after a reorganisation.
CanonicalNotRebuilt(p, next, st, head) == IF p = head_hash THEN next ELSE canonical
CanonicalAfter(p, next, st, head) ==
    IF p = head_hash THEN next ELSE IF head = head_hash THEN canonical ELSE st[head]

\* add_block takes a block b on parent p: it is new, not an orphan, and passes
\* the guards and the validation against its parent's state.  Every other call
\* returns or raises without touching the tree.
Accepts(p, b) ==
    /\ p \in known
    /\ Append(p, b) \notin known
    /\ Admissible(p, Append(p, b))
    /\ Valid(Base(p), p, b)

AddBlock(p, b) ==
    LET h == Append(p, b)
        next == Applied(Base(p), p, b)
        f == BranchFinal(h, next)
        K == known \cup {h}
        w == Put(weight, h, weight[p] + Base(p).stakes[b.validator])
        st == Put(state, h, next)
        final == Frontier(f)
        head == IF p = head_hash THEN h ELSE BestHead(K, w, final)
    IN  /\ Cardinality(known) <= MaxBlocks
        /\ Len(h) <= MaxHeight
        /\ Accepts(p, b)
        /\ known' = K
        /\ weight' = w
        /\ state' = st
        /\ raised' = (raised \/ Conflict(h, f))
        /\ UNCHANGED ws_checkpoint
        /\ IF Conflict(h, f)
           THEN /\ canonical' = IF p = head_hash THEN next ELSE canonical
                /\ UNCHANGED <<head_hash, finalized_hash>>
           ELSE /\ finalized_hash' = final
                /\ head_hash' = head
                /\ canonical' = CanonicalAfter(p, next, st, head)

Next == \E p \in known, b \in Blocks : AddBlock(p, b)

Spec == Init /\ [][Next]_vars

-----------------------------------------------------------------------------
VoteType == [voter : Addr, s : Nat, t : Nat]

StateOK(c, n) ==
    /\ c.stakes \in [Addr -> Nat]
    /\ c.slashed \subseteq Addr
    /\ DOMAIN c.snapshots \subseteq 0 .. n
    /\ \A i \in DOMAIN c.snapshots : c.snapshots[i] \in [Addr -> Nat]
    /\ c.votes \subseteq VoteType
    /\ c.justified \subseteq DOMAIN c.snapshots
    /\ c.finalized \in 0 .. n

\* The dictionaries of the tree have the same keys, with a chain state of the
\* right height for each; head and frontier are in the tree.
TypeOK ==
    /\ known \subseteq Hashes
    /\ weight \in [known -> Nat]
    /\ DOMAIN state = known
    /\ \A h \in known : StateOK(state[h], Len(h))
    /\ head_hash \in known
    /\ finalized_hash \in known
    /\ ws_checkpoint \in Checkpoints
    /\ raised \in BOOLEAN

\* forkchoice.py _update_head: "a heavier branch that conflicts with finality
\* can NEVER win".
HeadDescendsFromFinal == Ancestor(finalized_hash, head_hash)

\* "Nothing at or below this is ever reorged": the frontier only moves to a
\* descendant of itself.
FinalityIrreversible == [][Ancestor(finalized_hash, finalized_hash')]_finalized_hash

\* The head is the best block of the whole tree that descends from the frontier,
\* also after the head extensions that skip the scan ("by construction, the new
\* heaviest leaf").
HeadIsHeaviest ==
    \A h \in known : Ancestor(finalized_hash, h) =>
        \/ weight[h] < weight[head_hash]
        \/ weight[h] = weight[head_hash] /\ Rank(head_hash) <= Rank(h)

\* "chain_at(head) reconstructs exactly self.canonical", which the fast path of
\* add_block relies on.
CanonicalIsReplay == canonical = state[head_hash]

\* The frontier covers every branch of the tree: what any of them finalized is
\* the frontier or below it.
FrontierCoversBranches ==
    \A h \in known : Ancestor(BranchFinal(h, state[h]), finalized_hash)

\* The safety backstop of add_block is never needed: finality guard #1 keeps out
\* every block that could finalize against the frontier.
NeverRaised == ~raised

\* "Any block at that height with a different hash is rejected": whatever is as
\* high as the trusted checkpoint descends from it.
CheckpointHolds ==
    \A h \in known : Len(h) >= Len(ws_checkpoint) => Ancestor(ws_checkpoint, h)

\* What clients of the tree rely on, whatever it does inside: the chain it shows
\* keeps its final part through every reorganisation, and that part only grows.
Ledger == INSTANCE ConfirmedLedger WITH head <- head_hash, final <- finalized_hash
ImplementsLedger == Ledger!Spec
=============================================================================
