------------------------ MODULE AccountabilityProofs ------------------------
(***************************************************************************)
(* Accountable safety for every set of validators, every distribution of   *)
(* stake and any number of branches: two quorums on different branches     *)
(* overlap in validators at fault, unless enough stake moved.              *)
(***************************************************************************)
EXTENDS Accountability, SumTheorems, SequenceTheorems

\* Stake dictionaries and votes of a branch.
Dicts == UNION {[D -> Nat] : D \in SUBSET Validators}
BranchVote == [voter : Validators, s : Nat, t : Nat]
Branch ==
    [height : Nat, stakes : Dicts, snapshots : Seq(Dicts),
     slashed_addrs : SUBSET Validators, votes : SUBSET BranchVote, blocks : Nat,
     justified : SUBSET Nat, finalized : Nat]

AccountTypeOK ==
    /\ chain \in [Branches -> Branch]
    /\ at_fault \subseteq Validators
    /\ equivocators \subseteq at_fault
    /\ moved \in Nat
    /\ \A b \in Branches : Len(chain[b].snapshots) = chain[b].height + 1

\* Voters of the link and validators at fault hold two thirds of the snapshot of
\* the link's source.
Backed(c, bad, s, t) ==
    LET snapshot == c.snapshots[s + 1]
    IN  3 * StakeOf(snapshot, VotersFor(c.votes, s, t) \cup bad)
            >= 2 * StakeOf(snapshot, DOMAIN snapshot)

BranchOK(c, bad) ==
    /\ 0 \in c.justified
    /\ c.justified \subseteq 0 .. c.height
    /\ \A w \in c.votes : w.s < w.t
    /\ \A t \in c.justified \ {0} : \E s \in c.justified : s < t /\ Backed(c, bad, s, t)
    /\ c.finalized # 0 => /\ c.finalized \in c.justified
                          /\ c.finalized + 1 \in c.justified
                          /\ Backed(c, bad, c.finalized, c.finalized + 1)

\* Whoever signed two conflicting votes is at fault.
FaultsKnown ==
    \A b, d \in Branches : \A w \in chain[b].votes, x \in chain[d].votes :
        (/\ w.voter = x.voter
         /\ VoteFault(Link(b, w.s, w.t), Link(d, x.s, x.t))) => w.voter \in at_fault

\* A dictionary differs from genesis by at most k[v] for each v, except that what a
\* slashed validator had may be missing.
Near(d, k, slashed) ==
    \A v \in Validators :
        /\ Get(d, v) <= GenesisStake[v] + k[v]
        /\ v \notin slashed => GenesisStake[v] <= Get(d, v) + k[v]

\* k says how much stake of each validator moved on each branch.
Drift(k) ==
    /\ k \in [Branches -> [Validators -> Nat]]
    /\ \A b, d \in Branches : b # d =>
          StakeOf(k[b], Validators) + StakeOf(k[d], Validators) <= moved
    /\ \A b \in Branches :
          /\ Near(chain[b].stakes, k[b], chain[b].slashed_addrs)
          /\ \A i \in 1 .. Len(chain[b].snapshots) :
                Near(chain[b].snapshots[i], k[b], chain[b].slashed_addrs)

AccountInv ==
    /\ AccountTypeOK
    /\ InnocentNeverSlashed
    /\ FaultsKnown
    /\ \A b \in Branches : BranchOK(chain[b], at_fault)
    /\ \E k : Drift(k)

LEMMA DictSnapshot ==
    ASSUME NEW d \in Dicts
    PROVE  Snapshot(d) /\ DOMAIN d \subseteq Validators
<1>1. PICK D \in SUBSET Validators : d \in [D -> Nat]
  BY DEF Dicts
<1>2. IsFiniteSet(D)
  BY AccountabilityAssumption, FS_Subset
<1> QED BY <1>1, <1>2 DEF Snapshot

LEMMA TableSnapshot ==
    ASSUME NEW k \in [Validators -> Nat]
    PROVE  Snapshot(k)
BY AccountabilityAssumption DEF Snapshot

LEMMA GenesisSnapshot == Snapshot(GenesisStake) /\ GenesisStake \in [Validators -> Nat]
BY AccountabilityAssumption, TableSnapshot

\* VoteFault does not depend on the order of the votes, and no vote conflicts with
\* itself.
LEMMA FaultSymmetric == \A x, y : VoteFault(x, y) => VoteFault(y, x)
BY DEF VoteFault, DoubleVote, SurroundVote

LEMMA FaultIrreflexive ==
    ASSUME NEW b, NEW s \in Nat, NEW t \in Nat
    PROVE  ~VoteFault(Link(b, s, t), Link(b, s, t))
BY DEF VoteFault, DoubleVote, SurroundVote, Link

-----------------------------------------------------------------------------
(* Two backed links whose common voters are all at fault cannot be, as     *)
(* long as less than a third of the stake is at fault or moved.            *)

\* The validators that do not back a link hold little of the genesis stake.
LEMMA Outside ==
    ASSUME NEW S \in Dicts, NEW k \in [Validators -> Nat], NEW slashed,
           Near(S, k, slashed), NEW W, slashed \subseteq W,
           3 * StakeOf(S, W) >= 2 * StakeOf(S, DOMAIN S)
    PROVE  3 * StakeOf(GenesisStake, Validators \ W) <= Total + 2 * StakeOf(k, Validators)
<1> DEFINE In == Validators \cap W
           Out == Validators \ W
<1>1. Snapshot(S) /\ DOMAIN S \subseteq Validators /\ Snapshot(k) /\ Snapshot(GenesisStake)
  BY DictSnapshot, TableSnapshot, GenesisSnapshot
<1>2. IsFiniteSet(In) /\ IsFiniteSet(Out)
  BY AccountabilityAssumption, FS_Subset
<1>3. /\ StakeOf(S, In) \in Nat /\ StakeOf(S, Out) \in Nat
      /\ StakeOf(k, In) \in Nat /\ StakeOf(k, Out) \in Nat
      /\ StakeOf(GenesisStake, In) \in Nat /\ StakeOf(GenesisStake, Out) \in Nat
  BY <1>1, StakeOfType
<1>4. In \cup Out = Validators /\ In \cap Out = {}
  OBVIOUS
<1>5. /\ Total = StakeOf(GenesisStake, In) + StakeOf(GenesisStake, Out)
      /\ StakeOf(k, Validators) = StakeOf(k, In) + StakeOf(k, Out)
  <2> HIDE DEF In, Out
  <2>1. /\ StakeOf(GenesisStake, In \cup Out)
             = StakeOf(GenesisStake, In) + StakeOf(GenesisStake, Out)
        /\ StakeOf(k, In \cup Out) = StakeOf(k, In) + StakeOf(k, Out)
    BY <1>1, <1>4, StakeOfDisjoint
  <2> QED BY <1>4, <2>1 DEF Total
<1>6. StakeOf(S, W) = StakeOf(S, In)
  <2>1. W \cap DOMAIN S = In \cap DOMAIN S
    BY <1>1
  <2> QED BY <2>1 DEF StakeOf
<1>7. StakeOf(S, DOMAIN S) = StakeOf(S, In) + StakeOf(S, Out)
  <2>1. StakeOf(S, In \cup Out) = StakeOf(S, In) + StakeOf(S, Out)
    BY <1>1, <1>4, StakeOfDisjoint
  <2>2. (In \cup Out) \cap DOMAIN S = DOMAIN S \cap DOMAIN S
    BY <1>1
  <2>3. StakeOf(S, In \cup Out) = StakeOf(S, DOMAIN S)
    BY <2>2 DEF StakeOf
  <2> QED BY <2>1, <2>3
<1>8. \A v \in Validators : Get(k, v) = k[v] /\ Get(GenesisStake, v) = GenesisStake[v]
  BY GenesisSnapshot DEF Get
<1>9. StakeOf(S, In) <= StakeOf(GenesisStake, In) + StakeOf(k, In)
  <2>1. \A v \in In : Get(S, v) <= Get(GenesisStake, v) + Get(k, v)
    BY <1>8 DEF Near
  <2> HIDE DEF In
  <2> QED BY <1>1, <1>2, <2>1, StakeOfBound
<1>10. StakeOf(GenesisStake, Out) <= StakeOf(S, Out) + StakeOf(k, Out)
  <2>1. \A v \in Out : Get(GenesisStake, v) <= Get(S, v) + Get(k, v)
    BY <1>8 DEF Near
  <2> HIDE DEF Out
  <2> QED BY <1>1, <1>2, <2>1, StakeOfBound
<1> HIDE DEF In
<1>11. 3 * StakeOf(GenesisStake, Out) <= Total + 2 * StakeOf(k, Validators)
  <2> HIDE DEF Out
  <2> QED BY <1>3, <1>5, <1>6, <1>7, <1>9, <1>10
<1> QED BY <1>11

LEMMA QuorumsOverlap ==
    ASSUME AccountTypeOK, InnocentNeverSlashed, NEW k, Drift(k), Covered(at_fault, moved),
           NEW b \in Branches, NEW d \in Branches, b # d,
           NEW s1 \in 0 .. chain[b].height, NEW t1, Backed(chain[b], at_fault, s1, t1),
           NEW s2 \in 0 .. chain[d].height, NEW t2, Backed(chain[d], at_fault, s2, t2)
    PROVE  \E v \in VotersFor(chain[b].votes, s1, t1) \cap VotersFor(chain[d].votes, s2, t2) :
              v \notin at_fault
<1> SUFFICES ASSUME VotersFor(chain[b].votes, s1, t1) \cap VotersFor(chain[d].votes, s2, t2)
                        \subseteq at_fault
             PROVE  FALSE
  OBVIOUS
<1> DEFINE W1 == VotersFor(chain[b].votes, s1, t1) \cup at_fault
           W2 == VotersFor(chain[d].votes, s2, t2) \cup at_fault
           N1 == Validators \ W1
           N2 == Validators \ W2
           G(A) == StakeOf(GenesisStake, A)
<1>1. chain[b] \in Branch /\ chain[d] \in Branch
  BY DEF AccountTypeOK
<1>2. /\ s1 + 1 \in 1 .. Len(chain[b].snapshots)
      /\ s2 + 1 \in 1 .. Len(chain[d].snapshots)
  BY <1>1 DEF AccountTypeOK, Branch
<1>3. chain[b].snapshots[s1 + 1] \in Dicts /\ chain[d].snapshots[s2 + 1] \in Dicts
  <2>1. chain[b].snapshots \in Seq(Dicts) /\ chain[d].snapshots \in Seq(Dicts)
    BY <1>1 DEF Branch
  <2> QED BY <1>2, <2>1, ElementOfSeq
<1>4. /\ k[b] \in [Validators -> Nat] /\ k[d] \in [Validators -> Nat]
      /\ Near(chain[b].snapshots[s1 + 1], k[b], chain[b].slashed_addrs)
      /\ Near(chain[d].snapshots[s2 + 1], k[d], chain[d].slashed_addrs)
      /\ StakeOf(k[b], Validators) + StakeOf(k[d], Validators) <= moved
  BY <1>2 DEF Drift
<1>5. chain[b].slashed_addrs \subseteq W1 /\ chain[d].slashed_addrs \subseteq W2
  BY DEF InnocentNeverSlashed
<1>6. 3 * G(N1) <= Total + 2 * StakeOf(k[b], Validators)
  <2>1. 3 * StakeOf(chain[b].snapshots[s1 + 1], W1)
          >= 2 * StakeOf(chain[b].snapshots[s1 + 1], DOMAIN chain[b].snapshots[s1 + 1])
    BY DEF Backed
  <2> HIDE DEF W1
  <2> QED BY <1>3, <1>4, <1>5, <2>1, Outside
<1>7. 3 * G(N2) <= Total + 2 * StakeOf(k[d], Validators)
  <2>1. 3 * StakeOf(chain[d].snapshots[s2 + 1], W2)
          >= 2 * StakeOf(chain[d].snapshots[s2 + 1], DOMAIN chain[d].snapshots[s2 + 1])
    BY DEF Backed
  <2> HIDE DEF W2
  <2> QED BY <1>3, <1>4, <1>5, <2>1, Outside
<1>8. Total <= G(at_fault) + G(N1) + G(N2)
  <2>1. Validators = (at_fault \cup N1) \cup (N2 \ (at_fault \cup N1))
    BY DEF AccountTypeOK
  <2> DEFINE A == at_fault \cup N1
             B == N2 \ A
  <2>2. G(A) = G(at_fault) + G(N1)
    <3>1. at_fault \cap N1 = {}
      OBVIOUS
    <3> QED BY <3>1, GenesisSnapshot, StakeOfDisjoint
  <2>3. G(A \cup B) = G(A) + G(B)
    <3> HIDE DEF A
    <3> QED BY GenesisSnapshot, StakeOfDisjoint
  <2>4. G(B) <= G(N2)
    <3>1. B \subseteq N2
      OBVIOUS
    <3> QED BY <3>1, GenesisSnapshot, StakeOfMonotone
  <2>5. Total = G(A \cup B)
    BY <2>1 DEF Total
  <2>6. /\ G(at_fault) \in Nat /\ G(N1) \in Nat /\ G(N2) \in Nat /\ G(B) \in Nat
        /\ G(A) \in Nat
    BY GenesisSnapshot, StakeOfType
  <2> HIDE DEF A, B, N1, N2, G
  <2> QED BY <2>2, <2>3, <2>4, <2>5, <2>6
<1>9. /\ G(at_fault) \in Nat /\ G(N1) \in Nat /\ G(N2) \in Nat /\ Total \in Nat
      /\ StakeOf(k[b], Validators) \in Nat /\ StakeOf(k[d], Validators) \in Nat
      /\ moved \in Nat
  BY <1>4, GenesisSnapshot, TableSnapshot, StakeOfType DEF Total, AccountTypeOK
<1>10. 3 * (G(at_fault) + moved) < Total
  BY DEF Covered
<1> HIDE DEF N1, N2, G
<1> QED BY <1>4, <1>6, <1>7, <1>8, <1>9, <1>10

\* Common voters of conflicting links are at fault.
LEMMA CommonVoters ==
    ASSUME AccountInv, NEW b \in Branches, NEW d \in Branches,
           NEW s1, NEW t1, NEW s2, NEW t2, VoteFault(Link(b, s1, t1), Link(d, s2, t2))
    PROVE  VotersFor(chain[b].votes, s1, t1) \cap VotersFor(chain[d].votes, s2, t2)
               \subseteq at_fault
BY DEF AccountInv, FaultsKnown, VotersFor

\* If both branches finalize a checkpoint, they have backed links that conflict:
\* to targets of one height, or one around the other.
LEMMA ConflictingLinks ==
    ASSUME AccountInv, NEW b \in Branches, NEW d \in Branches, b # d,
           chain[b].finalized # 0, chain[b].finalized <= chain[d].finalized
    PROVE  \E s1 \in 0 .. chain[b].height, t1 \in Nat,
              s2 \in 0 .. chain[d].height, t2 \in Nat :
              /\ Backed(chain[b], at_fault, s1, t1)
              /\ Backed(chain[d], at_fault, s2, t2)
              /\ VoteFault(Link(b, s1, t1), Link(d, s2, t2))
<1> DEFINE f == chain[b].finalized
           J == {c \in chain[d].justified : c >= f}
<1>1. chain[b] \in Branch /\ chain[d] \in Branch
  BY DEF AccountInv, AccountTypeOK
<1>2. /\ f \in Nat /\ f # 0 /\ chain[d].finalized \in Nat /\ chain[d].finalized # 0
      /\ chain[b].height \in Nat /\ chain[d].height \in Nat
      /\ chain[b].justified \subseteq Nat /\ chain[d].justified \subseteq Nat
  BY <1>1 DEF Branch
<1>3. BranchOK(chain[b], at_fault) /\ BranchOK(chain[d], at_fault)
  BY DEF AccountInv
<1>4. chain[d].finalized \in J /\ J \subseteq Nat
  BY <1>2, <1>3 DEF BranchOK
<1>5. PICK t2 \in J : \A c \in J : t2 <= c
  BY <1>4, LeastNatural
<1>6. t2 \in chain[d].justified \ {0} /\ t2 \in Nat /\ t2 >= f
  BY <1>2, <1>4, <1>5
<1>7. PICK s2 \in chain[d].justified : s2 < t2 /\ Backed(chain[d], at_fault, s2, t2)
  BY <1>3, <1>6 DEF BranchOK
<1>8. s2 \in Nat /\ s2 \in 0 .. chain[d].height /\ s2 < f
  BY <1>2, <1>3, <1>5, <1>6, <1>7 DEF BranchOK
<1>9. /\ f \in 0 .. chain[b].height /\ f + 1 \in Nat
      /\ Backed(chain[b], at_fault, f, f + 1)
  BY <1>2, <1>3 DEF BranchOK
<1>10. CASE t2 = f
  <2>1. PICK s1 \in chain[b].justified : s1 < f /\ Backed(chain[b], at_fault, s1, f)
    BY <1>2, <1>3 DEF BranchOK
  <2>2. s1 \in 0 .. chain[b].height
    BY <1>3, <2>1 DEF BranchOK
  <2>3. VoteFault(Link(b, s1, f), Link(d, s2, t2))
    BY <1>2, <1>10 DEF VoteFault, DoubleVote, Link, Checkpoint
  <2> HIDE DEF f
  <2> QED BY <1>2, <1>6, <1>7, <1>8, <2>1, <2>2, <2>3
<1>11. CASE t2 = f + 1
  <2>1. VoteFault(Link(b, f, f + 1), Link(d, s2, t2))
    BY <1>2, <1>11 DEF VoteFault, DoubleVote, Link, Checkpoint
  <2> HIDE DEF f
  <2> QED BY <1>6, <1>7, <1>8, <1>9, <2>1
<1>12. CASE t2 > f + 1
  <2>1. VoteFault(Link(b, f, f + 1), Link(d, s2, t2))
    BY <1>2, <1>8, <1>12 DEF VoteFault, SurroundVote, Link
  <2> HIDE DEF f
  <2> QED BY <1>6, <1>7, <1>8, <1>9, <2>1
<1> HIDE DEF f
<1> QED BY <1>2, <1>6, <1>10, <1>11, <1>12

LEMMA InvSafe == AccountInv => AccountableSafety
<1> SUFFICES ASSUME AccountInv, Covered(at_fault, moved),
                    NEW b \in Branches, NEW d \in Branches, b # d,
                    chain[b].finalized # 0, chain[d].finalized # 0
             PROVE  FALSE
  BY DEF AccountableSafety
<1>1. chain[b].finalized \in Nat /\ chain[d].finalized \in Nat
  BY DEF AccountInv, AccountTypeOK, Branch
<1>2. PICK k : Drift(k)
  BY DEF AccountInv
<1>3. ASSUME NEW x \in Branches, NEW y \in Branches, x # y, chain[x].finalized # 0,
             chain[x].finalized <= chain[y].finalized
      PROVE  FALSE
  <2>1. PICK s1 \in 0 .. chain[x].height, t1 \in Nat,
             s2 \in 0 .. chain[y].height, t2 \in Nat :
             /\ Backed(chain[x], at_fault, s1, t1)
             /\ Backed(chain[y], at_fault, s2, t2)
             /\ VoteFault(Link(x, s1, t1), Link(y, s2, t2))
    BY <1>3, ConflictingLinks
  <2>2. VotersFor(chain[x].votes, s1, t1) \cap VotersFor(chain[y].votes, s2, t2)
            \subseteq at_fault
    BY <2>1, CommonVoters
  <2>3. \E v \in VotersFor(chain[x].votes, s1, t1) \cap VotersFor(chain[y].votes, s2, t2) :
           v \notin at_fault
    BY <1>2, <1>3, <2>1, QuorumsOverlap DEF AccountInv
  <2> QED BY <2>2, <2>3
<1> QED BY <1>1, <1>3

-----------------------------------------------------------------------------
(* Evidence: what convicts a validator is a fault of its own. *)

\* Only v's key gives a valid seal or vote in the name of v.
LEMMA ForgedBlock ==
    ASSUME NEW prev, NEW i, NEW root, NEW v, NEW pub, NEW key, key # v,
           Sealed(SignedBlock(prev, i, root, Address(v), pub, key))
    PROVE  FALSE
BY DEF Sealed, SignedBlock, Address, VerifySignature, SignWith

LEMMA ForgedVote ==
    ASSUME NEW v, NEW link, NEW pub, NEW key, key # v,
           IsValidTx(SignedVote(Address(v), link, pub, key))
    PROVE  FALSE
BY DEF IsValidTx, SignedVote, Address, VerifySignature, SignWith

LEMMA HonestBlocks ==
    ASSUME NEW v, NEW x \in BlocksNaming(v, FALSE), NEW y \in BlocksNaming(v, FALSE),
           Equivocation(x, y)
    PROVE  FALSE
<1>1. ASSUME NEW z \in BlocksNaming(v, FALSE), Sealed(z)
      PROVE  \E b \in Branches : z = SealBlock(b, 1, 0, v)
  BY <1>1, ForgedBlock DEF BlocksNaming
<1>2. PICK b \in Branches : x = SealBlock(b, 1, 0, v)
  BY <1>1 DEF Equivocation
<1>3. PICK d \in Branches : y = SealBlock(d, 1, 0, v)
  BY <1>1 DEF Equivocation
<1>4. b = d
  BY <1>2, <1>3 DEF Equivocation, SealBlock, SignedBlock
<1> QED BY <1>2, <1>3, <1>4 DEF Equivocation

LEMMA ConvictsFaulty ==
    ASSUME AccountTypeOK, FaultsKnown, NEW v \in Validators, Convicts(v)
    PROVE  v \in at_fault
<1>1. CASE <<v, v \in equivocators>> \in BlockEvidence
  <2>1. \A e : <<v, e>> \in BlockEvidence =>
                 \E x, y \in BlocksNaming(v, e) : Equivocation(x, y)
    <3> DEFINE Shown(u) == {f \in {TRUE, FALSE} :
                              \E x, y \in BlocksNaming(u, f) : Equivocation(x, y)}
    <3>1. BlockEvidence = UNION {{<<u, e>> : e \in Shown(u)} : u \in Validators}
      BY Zenon DEF BlockEvidence
    <3>2. \A e \in Shown(v) : \E x, y \in BlocksNaming(v, e) : Equivocation(x, y)
      BY Zenon
    <3> HIDE DEF Shown
    <3>3. \A e : <<v, e>> \in BlockEvidence => e \in Shown(v)
      BY <3>1
    <3> QED BY <3>2, <3>3, Zenon
  <2>2. CASE v \notin equivocators
    <3>1. (v \in equivocators) = FALSE
      BY <2>2
    <3>2. <<v, FALSE>> \in BlockEvidence
      BY <1>1, <3>1, Zenon
    <3> QED BY <2>1, <3>2, HonestBlocks
  <2> QED BY <2>2 DEF AccountTypeOK
<1>2. CASE \E b, d \in Branches : \E x \in chain[b].votes, y \in chain[d].votes :
              /\ x.voter = v /\ y.voter = v
              /\ <<v, <<b, x.s, x.t>>, <<d, y.s, y.t>>>> \in VoteEvidence
  <2>0. PICK b \in Branches, d \in Branches :
          \E x \in chain[b].votes, y \in chain[d].votes :
              /\ x.voter = v /\ y.voter = v
              /\ <<v, <<b, x.s, x.t>>, <<d, y.s, y.t>>>> \in VoteEvidence
    BY <1>2
  <2>1. PICK x \in chain[b].votes, y \in chain[d].votes :
          /\ x.voter = v /\ y.voter = v
          /\ <<v, <<b, x.s, x.t>>, <<d, y.s, y.t>>>> \in VoteEvidence
    BY <2>0
  <2> DEFINE l == <<b, x.s, x.t>>
             m == <<d, y.s, y.t>>
  <2>2. PICK z \in {SignedLink(m, v)} \cup ForgedVotes(v) :
          VerifyVoteFault(SignedLink(l, v), z)
    BY <2>1 DEF VoteEvidence
  <2>3. z \notin ForgedVotes(v)
    BY <2>2, ForgedVote DEF ForgedVotes, VerifyVoteFault
  <2>4. VoteFault(Link(b, x.s, x.t), Link(d, y.s, y.t))
    BY <2>2, <2>3 DEF VerifyVoteFault, SignedLink, VoteTx, SignedVote
  <2> QED BY <2>1, <2>4 DEF FaultsKnown
<1> QED BY <1>1, <1>2 DEF Convicts
-----------------------------------------------------------------------------
(* The invariant is inductive. *)

LEMMA BackedStays ==
    ASSUME NEW c, NEW c2, NEW bad, NEW bad2, NEW s, NEW t, Snapshot(c.snapshots[s + 1]),
           c2.snapshots[s + 1] = c.snapshots[s + 1], c.votes \subseteq c2.votes,
           bad \subseteq bad2, Backed(c, bad, s, t)
    PROVE  Backed(c2, bad2, s, t)
<1> DEFINE S == c.snapshots[s + 1]
           A == VotersFor(c.votes, s, t) \cup bad
           B == VotersFor(c2.votes, s, t) \cup bad2
<1>1. A \subseteq B
  BY DEF VotersFor
<1>2. StakeOf(S, A) <= StakeOf(S, B)
  BY <1>1, StakeOfMonotone
<1>3. StakeOf(S, A) \in Nat /\ StakeOf(S, B) \in Nat /\ StakeOf(S, DOMAIN S) \in Nat
  BY StakeOfType
<1>4. /\ 3 * StakeOf(S, A) >= 2 * StakeOf(S, DOMAIN S)
      /\ Backed(c2, bad2, s, t) <=> 3 * StakeOf(S, B) >= 2 * StakeOf(S, DOMAIN S)
  BY DEF Backed
<1> HIDE DEF S, A, B
<1> QED BY <1>2, <1>3, <1>4

\* Snapshots of the checkpoints a branch has reached.
LEMMA BranchSnapshots ==
    ASSUME NEW c \in Branch, Len(c.snapshots) = c.height + 1, NEW s \in 0 .. c.height
    PROVE  s + 1 \in 1 .. Len(c.snapshots) /\ c.snapshots[s + 1] \in Dicts
<1>1. c.snapshots \in Seq(Dicts) /\ c.height \in Nat
  BY DEF Branch
<1>2. s + 1 \in 1 .. Len(c.snapshots)
  BY <1>1
<1> QED BY <1>1, <1>2, ElementOfSeq

\* A branch stays in order as it grows and as faults come to light.
LEMMA BranchStays ==
    ASSUME NEW c \in Branch, Len(c.snapshots) = c.height + 1, NEW c2 \in Branch,
           c.height <= c2.height, NEW bad, NEW bad2, bad \subseteq bad2,
           \A i \in 1 .. c.height + 1 : c2.snapshots[i] = c.snapshots[i],
           c.votes \subseteq c2.votes, \A w \in c2.votes : w.s < w.t,
           c2.justified = c.justified, c2.finalized = c.finalized, BranchOK(c, bad)
    PROVE  BranchOK(c2, bad2)
<1>1. c.height \in Nat /\ c2.height \in Nat
  BY DEF Branch
<1>2. \A s \in c.justified : \A t : Backed(c, bad, s, t) => Backed(c2, bad2, s, t)
  <2> SUFFICES ASSUME NEW s \in c.justified, NEW t, Backed(c, bad, s, t)
               PROVE  Backed(c2, bad2, s, t)
    OBVIOUS
  <2>1. s \in 0 .. c.height
    BY DEF BranchOK
  <2>2. s + 1 \in 1 .. c.height + 1 /\ Snapshot(c.snapshots[s + 1])
    BY <1>1, <2>1, BranchSnapshots, DictSnapshot
  <2> QED BY <2>2, BackedStays
<1>3. c2.justified \subseteq 0 .. c2.height
  BY <1>1 DEF BranchOK
<1>4. ASSUME NEW t \in c2.justified \ {0}
      PROVE  \E s \in c2.justified : s < t /\ Backed(c2, bad2, s, t)
  BY <1>2 DEF BranchOK
<1>5. c2.finalized # 0 => /\ c2.finalized \in c2.justified
                          /\ c2.finalized + 1 \in c2.justified
                          /\ Backed(c2, bad2, c2.finalized, c2.finalized + 1)
  BY <1>2 DEF BranchOK
<1> QED BY <1>3, <1>4, <1>5 DEF BranchOK

\* Dictionary operations stay within Dicts.
LEMMA DictsMembers ==
    ASSUME NEW d \in Dicts, NEW v \in Validators, NEW x \in Nat
    PROVE  Put(d, v, x) \in Dicts /\ Pop(d, v) \in Dicts
<1>1. PICK D \in SUBSET Validators : d \in [D -> Nat]
  BY DEF Dicts
<1>2. Put(d, v, x) \in [D \cup {v} -> Nat] /\ D \cup {v} \in SUBSET Validators
  BY <1>1 DEF Put
<1>3. Pop(d, v) \in [D \ {v} -> Nat] /\ D \ {v} \in SUBSET Validators
  BY <1>1 DEF Pop
<1> QED BY <1>2, <1>3 DEF Dicts

LEMMA DictGet ==
    ASSUME NEW d \in Dicts, NEW v
    PROVE  Get(d, v) \in Nat
BY DEF Dicts, Get

LEMMA InitAccount == AccountInit => AccountInv
<1> SUFFICES ASSUME AccountInit PROVE AccountInv
  OBVIOUS
<1>1. GenesisStake \in Dicts /\ \A v \in Validators : Get(GenesisStake, v) = GenesisStake[v]
  BY GenesisSnapshot DEF Dicts, Get
<1>2. <<GenesisStake>> \in Seq(Dicts) /\ Len(<<GenesisStake>>) = 1
      /\ <<GenesisStake>>[1] = GenesisStake
  BY <1>1
<1> DEFINE z == [v \in Validators |-> 0]
           q == <<GenesisStake>>
<1> HIDE DEF q
<1>3. AccountTypeOK
  <2>1. q \in Seq(Dicts) /\ Len(q) = 1
    BY <1>2 DEF q
  <2>2. chain = [b \in Branches |->
                  [height |-> 0, stakes |-> GenesisStake, snapshots |-> q,
                   slashed_addrs |-> {}, votes |-> {}, blocks |-> 0,
                   justified |-> {0}, finalized |-> 0]]
    BY DEF AccountInit, q
  <2>3. chain \in [Branches -> Branch]
    BY <1>1, <2>1, <2>2 DEF Branch
  <2>4. \A b \in Branches : Len(chain[b].snapshots) = chain[b].height + 1
    <3>1. \A b \in Branches : chain[b].snapshots = q /\ chain[b].height = 0
      BY <2>2
    <3>2. \A b \in Branches : Len(chain[b].snapshots) = 1
      BY <2>1, <3>1, Zenon
    <3>3. 0 + 1 = 1
      OBVIOUS
    <3> QED BY <3>1, <3>2, <3>3, Zenon
  <2> QED BY <2>3, <2>4, AccountabilityAssumption DEF AccountInit, AccountTypeOK
<1>4. InnocentNeverSlashed /\ FaultsKnown
  BY DEF AccountInit, InnocentNeverSlashed, FaultsKnown
<1>5. \A b \in Branches : BranchOK(chain[b], at_fault)
  BY DEF AccountInit, BranchOK
<1>6. \E k : Drift(k)
  <2>1. z \in [Validators -> Nat]
    OBVIOUS
  <2>2. StakeOf(z, Validators) = 0
    <3>1. SumFunctionOnSet(z, Validators \cap DOMAIN z) = 0
      BY AccountabilityAssumption, SumZero
    <3> QED BY <3>1 DEF StakeOf
  <2>3. Near(GenesisStake, z, {})
    BY <1>1, GenesisSnapshot DEF Near
  <2> HIDE DEF z
  <2>4. [b \in Branches |-> z] \in [Branches -> [Validators -> Nat]]
    BY <2>1
  <2>5. \A b \in Branches :
           /\ chain[b].stakes = GenesisStake /\ chain[b].slashed_addrs = {}
           /\ Len(chain[b].snapshots) = 1 /\ chain[b].snapshots[1] = GenesisStake
    BY <1>2 DEF AccountInit
  <2>6. moved = 0
    BY DEF AccountInit
  <2> DEFINE k == [b \in Branches |-> z]
  <2>7. k \in [Branches -> [Validators -> Nat]] /\ \A b \in Branches : k[b] = z
    BY <2>4
  <2> HIDE DEF k
  <2>8. Drift(k)
    <3>1. \A b, d \in Branches :
             StakeOf(k[b], Validators) + StakeOf(k[d], Validators) <= moved
      BY <2>2, <2>6, <2>7
    <3>2. ASSUME NEW b \in Branches, NEW i \in 1 .. Len(chain[b].snapshots)
          PROVE  Near(chain[b].snapshots[i], k[b], chain[b].slashed_addrs)
      <4>1. i = 1
        <5>1. i \in 1 .. 1
          BY <2>5, Zenon
        <5> QED BY <5>1
      <4> QED BY <2>3, <2>5, <2>7, <4>1
    <3>3. \A b \in Branches : Near(chain[b].stakes, k[b], chain[b].slashed_addrs)
      BY <2>3, <2>5, <2>7
    <3> QED BY <2>7, <3>1, <3>2, <3>3 DEF Drift
  <2> QED BY <2>8
<1> QED BY <1>3, <1>4, <1>5, <1>6 DEF AccountInv

\* A step that changes branch b only, from c to c2, keeps the types and the other
\* branches.
LEMMA StepBranches ==
    ASSUME AccountInv, NEW b \in Branches, NEW c2 \in Branch,
           chain' = [chain EXCEPT ![b] = c2], Len(c2.snapshots) = c2.height + 1,
           at_fault \subseteq at_fault', at_fault' \subseteq Validators,
           UNCHANGED equivocators, moved' \in Nat, BranchOK(c2, at_fault')
    PROVE  /\ AccountTypeOK'
           /\ chain'[b] = c2
           /\ \A d \in Branches : d # b => chain'[d] = chain[d]
           /\ \A d \in Branches : BranchOK(chain'[d], at_fault')
<1>1. AccountTypeOK
  BY DEF AccountInv
<1>2. chain'[b] = c2 /\ \A d \in Branches : d # b => chain'[d] = chain[d]
  BY <1>1 DEF AccountTypeOK
<1>3. chain' \in [Branches -> Branch]
  BY <1>1 DEF AccountTypeOK
<1>4. \A d \in Branches : Len(chain'[d].snapshots) = chain'[d].height + 1
  BY <1>1, <1>2, Zenon DEF AccountTypeOK
<1>5. ASSUME NEW d \in Branches PROVE BranchOK(chain'[d], at_fault')
  <2>1. CASE d = b
    BY <1>2, <2>1
  <2>2. CASE d # b
    <3>1. BranchOK(chain[d], at_fault) /\ chain'[d] = chain[d]
      BY <1>2, <2>2 DEF AccountInv
    <3>2. chain[d] \in Branch /\ chain[d].height <= chain[d].height
      BY <1>1 DEF AccountTypeOK, Branch
    <3>3. Len(chain[d].snapshots) = chain[d].height + 1
      BY <1>1, Zenon DEF AccountTypeOK
    <3>4. \A w \in chain[d].votes : w.s < w.t
      BY <3>1 DEF BranchOK
    <3>5. BranchOK(chain[d], at_fault')
      BY <3>1, <3>2, <3>3, <3>4, BranchStays
    <3> QED BY <3>1, <3>5
  <2> QED BY <2>1, <2>2
<1>6. equivocators' \subseteq at_fault'
  BY <1>1 DEF AccountTypeOK
<1> QED BY <1>2, <1>3, <1>4, <1>5, <1>6 DEF AccountTypeOK

LEMMA ReachStep ==
    ASSUME AccountInv, NEW b \in Branches, ReachCheckpoint(b)
    PROVE  AccountInv'
<1> DEFINE c == chain[b]
           q == Append(c.snapshots, c.stakes)
           c2 == [c EXCEPT !.height = c.height + 1, !.snapshots = q]
<1>1. c \in Branch /\ c.height \in Nat /\ c.stakes \in Dicts /\ c.snapshots \in Seq(Dicts)
  BY DEF AccountInv, AccountTypeOK, Branch
<1>2. Len(c.snapshots) = c.height + 1
  BY Zenon DEF AccountInv, AccountTypeOK
<1>3. chain' = [chain EXCEPT ![b] = c2]
  BY DEF ReachCheckpoint
<1>4. /\ q \in Seq(Dicts) /\ Len(q) = Len(c.snapshots) + 1
      /\ \A i \in 1 .. Len(c.snapshots) : q[i] = c.snapshots[i]
      /\ q[Len(c.snapshots) + 1] = c.stakes
  BY <1>1, AppendProperties
<1>5. /\ c2.height = c.height + 1 /\ c2.snapshots = q /\ c2.stakes = c.stakes
      /\ c2.votes = c.votes /\ c2.justified = c.justified /\ c2.finalized = c.finalized
      /\ c2.slashed_addrs = c.slashed_addrs
  BY <1>1 DEF Branch
<1>6. c2 \in Branch
  <2> HIDE DEF c, q
  <2> DEFINE c1 == [c EXCEPT !.height = c.height + 1]
  <2>1. c1 \in Branch
    BY <1>1 DEF Branch
  <2>2. c2 = [c1 EXCEPT !.snapshots = q]
    OBVIOUS
  <2> HIDE DEF c1, c2
  <2> QED BY <1>4, <2>1, <2>2 DEF Branch
<1>7. Len(c2.snapshots) = c2.height + 1
  <2> HIDE DEF c, c2, q
  <2>1. Len(q) = c.height + 1 + 1
    BY <1>1, <1>2, <1>4
  <2> QED BY <1>5, <2>1, Zenon
<1> HIDE DEF c2, q
<1>8. BranchOK(c, at_fault)
  BY DEF AccountInv
<1>9. BranchOK(c2, at_fault)
  <2>1. \A w \in c2.votes : w.s < w.t
    BY <1>5, <1>8 DEF BranchOK
  <2>2. \A i \in 1 .. c.height + 1 : c2.snapshots[i] = c.snapshots[i]
    BY <1>2, <1>4, <1>5, Zenon
  <2>3. c.height <= c2.height
    BY <1>1, <1>5
  <2> HIDE DEF c
  <2> QED BY <1>1, <1>2, <1>5, <1>6, <1>8, <2>1, <2>2, <2>3, BranchStays
<1>10. UNCHANGED <<at_fault, equivocators, moved>>
  BY DEF ReachCheckpoint
<1>11. /\ AccountTypeOK'
       /\ chain'[b] = c2
       /\ \A d \in Branches : d # b => chain'[d] = chain[d]
       /\ \A d \in Branches : BranchOK(chain'[d], at_fault')
  BY <1>3, <1>6, <1>7, <1>9, <1>10, StepBranches DEF AccountInv, AccountTypeOK
<1>12. /\ \A d \in Branches : chain'[d].votes = chain[d].votes
       /\ \A d \in Branches : chain'[d].slashed_addrs = chain[d].slashed_addrs
       /\ \A d \in Branches : chain'[d].stakes = chain[d].stakes
  BY <1>5, <1>11
<1>13. InnocentNeverSlashed'
  BY <1>10, <1>12 DEF AccountInv, InnocentNeverSlashed
<1>14. FaultsKnown'
  BY <1>10, <1>12 DEF AccountInv, FaultsKnown
<1>15. \E k : Drift(k)'
  <2>1. PICK k : Drift(k)
    BY DEF AccountInv
  <2>2. ASSUME NEW d \in Branches, NEW i \in 1 .. Len(chain'[d].snapshots)
        PROVE  Near(chain'[d].snapshots[i], k[d], chain[d].slashed_addrs)
    <3>1. CASE d # b
      BY <1>11, <2>1, <3>1, <2>2, Zenon DEF Drift
    <3>2. CASE d = b
      <4>1. chain'[d].snapshots = q
        BY <1>5, <1>11, <3>2
      <4>2. i \in 1 .. Len(q)
        BY <2>2, <4>1, Zenon
      <4>3. CASE i \in 1 .. Len(c.snapshots)
        BY <1>4, <2>1, <3>2, <4>1, <4>3, Zenon DEF Drift
      <4>4. CASE i = Len(c.snapshots) + 1
        BY <1>4, <2>1, <3>2, <4>1, <4>4, Zenon DEF Drift
      <4>5. Len(c.snapshots) \in Nat
        BY <1>1
      <4> HIDE DEF c
      <4> QED BY <1>4, <4>2, <4>3, <4>4, <4>5
    <3> QED BY <3>1, <3>2
  <2>3. Drift(k)'
    BY <1>10, <1>12, <2>1, <2>2, Zenon DEF Drift
  <2> QED BY <2>3
<1> QED BY <1>11, <1>13, <1>14, <1>15 DEF AccountInv

\* Closeness to genesis survives more moves and more slashes.
LEMMA NearStays ==
    ASSUME NEW d \in Dicts, NEW k \in [Validators -> Nat], NEW k2 \in [Validators -> Nat],
           \A v \in Validators : k[v] <= k2[v], NEW slashed, NEW slashed2,
           slashed \subseteq slashed2, Near(d, k, slashed)
    PROVE  Near(d, k2, slashed2)
<1> SUFFICES ASSUME NEW v \in Validators
             PROVE  /\ Get(d, v) <= GenesisStake[v] + k2[v]
                    /\ v \notin slashed2 => GenesisStake[v] <= Get(d, v) + k2[v]
  BY DEF Near
<1>1. Get(d, v) \in Nat /\ GenesisStake[v] \in Nat /\ k[v] \in Nat /\ k2[v] \in Nat
  BY DictGet, GenesisSnapshot
<1>2. /\ Get(d, v) <= GenesisStake[v] + k[v]
      /\ v \notin slashed => GenesisStake[v] <= Get(d, v) + k[v]
  BY DEF Near
<1> QED BY <1>1, <1>2

\* A step that changes the stakes of branch b and whom it has slashed.
LEMMA StakeStep ==
    ASSUME AccountInv, NEW b \in Branches, NEW st \in Dicts,
           NEW sl, chain[b].slashed_addrs \subseteq sl, sl \subseteq at_fault,
           chain' = [chain EXCEPT ![b] = [chain[b] EXCEPT !.stakes = st,
                                                          !.slashed_addrs = sl]],
           UNCHANGED <<at_fault, equivocators>>, moved' \in Nat,
           NEW k, Drift(k), NEW kb \in [Validators -> Nat],
           \A v \in Validators : k[b][v] <= kb[v], Near(st, kb, sl),
           \A d \in Branches : d # b => StakeOf(kb, Validators) + StakeOf(k[d], Validators)
                                            <= moved',
           moved <= moved'
    PROVE  AccountInv'
<1> DEFINE c == chain[b]
           c2 == [c EXCEPT !.stakes = st, !.slashed_addrs = sl]
           k2 == [k EXCEPT ![b] = kb]
<1>1. AccountTypeOK /\ c \in Branch
  BY DEF AccountInv, AccountTypeOK
<1>2. sl \in SUBSET Validators
  BY <1>1 DEF AccountTypeOK
<1>3. c2 \in Branch
  <2> HIDE DEF c
  <2> DEFINE c1 == [c EXCEPT !.stakes = st]
  <2>1. c1 \in Branch
    BY <1>1 DEF Branch
  <2>2. c2 = [c1 EXCEPT !.slashed_addrs = sl]
    OBVIOUS
  <2> HIDE DEF c1, c2
  <2> QED BY <1>2, <2>1, <2>2 DEF Branch
<1>4. /\ c2.height = c.height /\ c2.snapshots = c.snapshots /\ c2.stakes = st
      /\ c2.votes = c.votes /\ c2.justified = c.justified /\ c2.finalized = c.finalized
      /\ c2.slashed_addrs = sl
  <2> HIDE DEF c
  <2> QED BY <1>1 DEF Branch
<1>5. chain' = [chain EXCEPT ![b] = c2]
  OBVIOUS
<1> HIDE DEF c2
<1>6. Len(c.snapshots) = c.height + 1
  BY <1>1, Zenon DEF AccountTypeOK
<1>7. Len(c2.snapshots) = c2.height + 1
  BY <1>4, <1>6, Zenon
<1>8. BranchOK(c2, at_fault)
  <2>1. BranchOK(c, at_fault)
    BY DEF AccountInv
  <2>2. (\A w \in c2.votes : w.s < w.t) /\ c.height <= c2.height
    BY <1>1, <1>4, <2>1 DEF BranchOK, Branch
  <2> HIDE DEF c
  <2> QED BY <1>1, <1>3, <1>4, <1>6, <2>1, <2>2, BranchStays
<1>9. /\ AccountTypeOK'
      /\ chain'[b] = c2
      /\ \A d \in Branches : d # b => chain'[d] = chain[d]
      /\ \A d \in Branches : BranchOK(chain'[d], at_fault')
  BY <1>1, <1>3, <1>5, <1>7, <1>8, StepBranches DEF AccountTypeOK
<1>10. InnocentNeverSlashed'
  BY <1>4, <1>9 DEF AccountInv, InnocentNeverSlashed
<1>11. FaultsKnown'
  <2>1. \A d \in Branches : chain'[d].votes = chain[d].votes
    BY <1>4, <1>9
  <2> QED BY <2>1 DEF AccountInv, FaultsKnown
<1>12. Drift(k2)'
  <2>1. k2 \in [Branches -> [Validators -> Nat]] /\ k2[b] = kb
        /\ \A d \in Branches : d # b => k2[d] = k[d]
    BY DEF Drift
  <2> HIDE DEF k2
  <2>2. ASSUME NEW x \in Branches, NEW y \in Branches, x # y
        PROVE  StakeOf(k2[x], Validators) + StakeOf(k2[y], Validators) <= moved'
    <3>1. \A z \in Branches : StakeOf(k2[z], Validators) \in Nat
      BY <2>1, TableSnapshot, StakeOfType
    <3>2. CASE x = b
      BY <2>1, <2>2, <3>2
    <3>3. CASE y = b
      BY <2>1, <2>2, <3>1, <3>3
    <3>4. CASE x # b /\ y # b
      <4>1. StakeOf(k[x], Validators) + StakeOf(k[y], Validators) <= moved
        BY <2>2 DEF Drift
      <4> QED BY <1>1, <2>1, <3>1, <3>4, <4>1 DEF AccountTypeOK
    <3> QED BY <3>2, <3>3, <3>4
  <2>3. ASSUME NEW d \in Branches
        PROVE  /\ Near(chain'[d].stakes, k2[d], chain'[d].slashed_addrs)
               /\ \A i \in 1 .. Len(chain'[d].snapshots) :
                     Near(chain'[d].snapshots[i], k2[d], chain'[d].slashed_addrs)
    <3>1. CASE d # b
      BY <1>9, <2>1, <3>1, Zenon DEF Drift
    <3>2. CASE d = b
      <4>1. chain'[d].snapshots = c.snapshots /\ chain'[d].slashed_addrs = sl
            /\ chain'[d].stakes = st
        BY <1>4, <1>9, <3>2
      <4>2. c.snapshots \in Seq(Dicts)
        BY <1>1 DEF Branch
      <4>3. ASSUME NEW i \in 1 .. Len(c.snapshots) PROVE Near(c.snapshots[i], kb, sl)
        <5>1. c.snapshots[i] \in Dicts
          BY <4>2, <4>3, ElementOfSeq
        <5>2. Near(c.snapshots[i], k[b], c.slashed_addrs) /\ k[b] \in [Validators -> Nat]
          BY <4>3, Zenon DEF Drift
        <5> HIDE DEF c
        <5> QED BY <5>1, <5>2, NearStays DEF c
      <4> QED BY <2>1, <3>2, <4>1, <4>3, Zenon
    <3> QED BY <3>1, <3>2
  <2> QED BY <2>1, <2>2, <2>3, Zenon DEF Drift
<1> QED BY <1>9, <1>10, <1>11, <1>12 DEF AccountInv

LEMMA SlashStep ==
    ASSUME AccountInv, NEW b \in Branches, NEW v \in Validators, Slash(b, v)
    PROVE  AccountInv'
<1> DEFINE st == Pop(chain[b].stakes, v)
           sl == chain[b].slashed_addrs \cup {v}
<1>1. PICK k : Drift(k)
  BY DEF AccountInv
<1>2. AccountTypeOK /\ chain[b] \in Branch /\ chain[b].stakes \in Dicts
  BY DEF AccountInv, AccountTypeOK, Branch
<1>3. st \in Dicts
  BY <1>2, DictsMembers
<1>4. sl \subseteq at_fault
  <2>1. v \in at_fault
    BY ConvictsFaulty DEF AccountInv, Slash
  <2> QED BY <2>1 DEF AccountInv, InnocentNeverSlashed
<1>5. chain' = [chain EXCEPT ![b] = [chain[b] EXCEPT !.stakes = st, !.slashed_addrs = sl]]
  BY DEF Slash
<1>6. /\ k[b] \in [Validators -> Nat]
      /\ Near(chain[b].stakes, k[b], chain[b].slashed_addrs)
      /\ \A d \in Branches : d # b => StakeOf(k[b], Validators) + StakeOf(k[d], Validators)
                                        <= moved
  BY <1>1 DEF Drift
<1>7. Near(st, k[b], sl)
  <2> SUFFICES ASSUME NEW w \in Validators
               PROVE  /\ Get(st, w) <= GenesisStake[w] + k[b][w]
                      /\ w \notin sl => GenesisStake[w] <= Get(st, w) + k[b][w]
    BY DEF Near
  <2>1. CASE w = v
    BY <1>6, <2>1, GenesisSnapshot DEF Get, Pop
  <2>2. CASE w # v
    <3>1. Get(st, w) = Get(chain[b].stakes, w)
      BY <2>2 DEF Get, Pop
    <3> QED BY <1>6, <3>1 DEF Near
  <2> QED BY <2>1, <2>2
<1>8. UNCHANGED <<at_fault, equivocators, moved>> /\ moved \in Nat
  BY <1>2 DEF Slash, AccountTypeOK
<1>9. \A w \in Validators : k[b][w] <= k[b][w]
  BY <1>6
<1>10. chain[b].slashed_addrs \subseteq sl
  BY DEF sl
<1>11. moved' = moved /\ moved' \in Nat /\ moved <= moved'
  BY <1>8
<1>12. \A d \in Branches : d # b => StakeOf(k[b], Validators) + StakeOf(k[d], Validators)
                                        <= moved'
  BY <1>6, <1>11
<1> HIDE DEF st, sl
<1> QED BY <1>11, <1>12, <1>1, <1>3, <1>4, <1>5, <1>6, <1>7, <1>8, <1>9, <1>10, StakeStep

\* One unit of v moves on branch b.
LEMMA MoveStep ==
    ASSUME AccountInv, NEW b \in Branches, NEW v \in Validators, NEW st \in Dicts,
           chain' = [chain EXCEPT ![b].stakes = st],
           \A w : w # v => Get(st, w) = Get(chain[b].stakes, w),
           \/ Get(st, v) = Get(chain[b].stakes, v) + 1
           \/ Get(st, v) = Get(chain[b].stakes, v) - 1,
           moved' = moved + 1, UNCHANGED <<at_fault, equivocators>>
    PROVE  AccountInv'
<1> DEFINE sl == chain[b].slashed_addrs
<1>1. PICK k : Drift(k)
  BY DEF AccountInv
<1>2. AccountTypeOK /\ chain[b] \in Branch /\ chain[b].stakes \in Dicts /\ moved \in Nat
  BY DEF AccountInv, AccountTypeOK, Branch
<1>3. chain' = [chain EXCEPT ![b] = [chain[b] EXCEPT !.stakes = st, !.slashed_addrs = sl]]
  <2>1. [chain[b] EXCEPT !.stakes = st, !.slashed_addrs = sl] = [chain[b] EXCEPT !.stakes = st]
    BY <1>2 DEF Branch
  <2> QED BY <2>1, Zenon
<1>4. /\ k[b] \in [Validators -> Nat]
      /\ Near(chain[b].stakes, k[b], sl)
      /\ \A d \in Branches : d # b => StakeOf(k[b], Validators) + StakeOf(k[d], Validators)
                                        <= moved
  BY <1>1 DEF Drift
<1> DEFINE kb == [k[b] EXCEPT ![v] = @ + 1]
<1>5. /\ kb \in [Validators -> Nat] /\ kb[v] = k[b][v] + 1
      /\ \A w \in Validators \ {v} : kb[w] = k[b][w]
  BY <1>4
<1> HIDE DEF kb
<1>6. StakeOf(kb, Validators) = StakeOf(k[b], Validators) + 1
  <2>1. Summable(kb, Validators) /\ Summable(k[b], Validators)
    BY <1>4, <1>5, AccountabilityAssumption DEF Summable
  <2>2. SumFunctionOnSet(kb, Validators)
          = SumFunctionOnSet(k[b], Validators) - k[b][v] + kb[v]
    BY <1>5, <2>1, SumChangeOne
  <2>3. /\ StakeOf(kb, Validators) = SumFunctionOnSet(kb, Validators)
        /\ StakeOf(k[b], Validators) = SumFunctionOnSet(k[b], Validators)
    <3>1. Validators \cap DOMAIN kb = Validators /\ Validators \cap DOMAIN k[b] = Validators
      BY <1>4, <1>5
    <3> QED BY <3>1, Zenon DEF StakeOf
  <2>4. SumFunctionOnSet(k[b], Validators) \in Int /\ k[b][v] \in Nat
    BY <1>4, <2>1, SumType
  <2> QED BY <1>5, <2>2, <2>3, <2>4
<1>7. Near(st, kb, sl)
  <2> SUFFICES ASSUME NEW w \in Validators
               PROVE  /\ Get(st, w) <= GenesisStake[w] + kb[w]
                      /\ w \notin sl => GenesisStake[w] <= Get(st, w) + kb[w]
    BY DEF Near
  <2>1. /\ Get(st, w) \in Nat /\ Get(chain[b].stakes, w) \in Nat /\ GenesisStake[w] \in Nat
        /\ k[b][w] \in Nat
    BY <1>2, <1>4, DictGet, GenesisSnapshot
  <2>2. /\ Get(chain[b].stakes, w) <= GenesisStake[w] + k[b][w]
        /\ w \notin sl => GenesisStake[w] <= Get(chain[b].stakes, w) + k[b][w]
    BY <1>4 DEF Near
  <2>3. CASE w = v
    BY <1>5, <2>1, <2>2, <2>3
  <2>4. CASE w # v
    BY <1>5, <2>1, <2>2, <2>4
  <2> QED BY <2>3, <2>4
<1>8. \A w \in Validators : k[b][w] <= kb[w]
  BY <1>4, <1>5
<1>9. \A d \in Branches : d # b => StakeOf(kb, Validators) + StakeOf(k[d], Validators) <= moved'
  <2> SUFFICES ASSUME NEW d \in Branches, d # b
               PROVE  StakeOf(kb, Validators) + StakeOf(k[d], Validators) <= moved'
    OBVIOUS
  <2>1. StakeOf(k[b], Validators) \in Nat /\ StakeOf(k[d], Validators) \in Nat
    BY <1>1, TableSnapshot, StakeOfType DEF Drift
  <2> QED BY <1>2, <1>4, <1>6, <2>1
<1>10. moved' \in Nat /\ moved <= moved'
  BY <1>2
<1>11. sl \subseteq at_fault
  BY DEF AccountInv, InnocentNeverSlashed
<1> HIDE DEF sl
<1>12. chain[b].slashed_addrs \subseteq sl
  BY DEF sl
<1> QED BY <1>1, <1>3, <1>5, <1>7, <1>8, <1>9, <1>10, <1>11, <1>12, StakeStep

LEMMA BondStep ==
    ASSUME AccountInv, NEW b \in Branches, NEW v \in Movers, Bond(b, v)
    PROVE  AccountInv'
<1> DEFINE d == chain[b].stakes
           st == Put(d, v, Get(d, v) + 1)
<1>1. v \in Validators /\ d \in Dicts /\ Get(d, v) \in Nat
  BY AccountabilityAssumption, DictGet DEF AccountInv, AccountTypeOK, Branch
<1>2. st \in Dicts
  BY <1>1, DictsMembers
<1>3. Get(st, v) = Get(d, v) + 1 /\ \A w : w # v => Get(st, w) = Get(d, w)
  BY DEF Get, Put
<1>4. chain' = [chain EXCEPT ![b].stakes = st]
  BY DEF Bond
<1>5. moved' = moved + 1 /\ UNCHANGED <<at_fault, equivocators>>
  BY DEF Bond
<1> HIDE DEF st
<1> QED BY <1>1, <1>2, <1>3, <1>4, <1>5, MoveStep

LEMMA WithdrawStep ==
    ASSUME AccountInv, NEW b \in Branches, NEW v \in Movers, Withdraw(b, v)
    PROVE  AccountInv'
<1> DEFINE d == chain[b].stakes
           st == IF Get(d, v) = 1 THEN Pop(d, v) ELSE Put(d, v, Get(d, v) - 1)
<1>1. v \in Validators /\ d \in Dicts /\ Get(d, v) \in Nat /\ Get(d, v) > 0
  BY AccountabilityAssumption, DictGet DEF AccountInv, AccountTypeOK, Branch, Withdraw
<1>2. Get(d, v) - 1 \in Nat
  BY <1>1
<1>3. st \in Dicts
  BY <1>1, <1>2, DictsMembers
<1>4. Get(st, v) = Get(d, v) - 1 /\ \A w : w # v => Get(st, w) = Get(d, w)
  BY <1>1 DEF Get, Pop, Put
<1>5. chain' = [chain EXCEPT ![b].stakes = st]
  BY DEF Withdraw
<1>6. moved' = moved + 1 /\ UNCHANGED <<at_fault, equivocators>>
  BY DEF Withdraw
<1> HIDE DEF st
<1> QED BY <1>1, <1>3, <1>4, <1>5, <1>6, MoveStep

\* A vote transaction that includes votes of S for the link s -> t.
LEMMA VoteStep ==
    ASSUME AccountInv, NEW b \in Branches, NEW t \in 1 .. chain[b].height,
           NEW s \in 0 .. t - 1, NEW S \in SUBSET Validators, Vote(b, S, s, t)
    PROVE  AccountInv'
<1> DEFINE c == chain[b]
           new == {[voter |-> v, s |-> s, t |-> t] : v \in S}
           votes == c.votes \cup new
           justifies == Quorum(c.snapshots[s + 1], VotersFor(votes, s, t), c.slashed_addrs)
           bad == at_fault \cup Conflicting(b, S, s, t)
           j == IF justifies THEN c.justified \cup {t} ELSE c.justified
           f == IF justifies /\ t = s + 1 /\ s > c.finalized THEN s ELSE c.finalized
           c1 == [c EXCEPT !.votes = votes]
           c2 == [c EXCEPT !.votes = votes, !.blocks = c.blocks + 1,
                           !.justified = j, !.finalized = f]
<1>1. /\ AccountTypeOK /\ c \in Branch /\ c.height \in Nat /\ c.blocks \in Nat
      /\ c.justified \in SUBSET Nat /\ c.finalized \in Nat /\ c.votes \in SUBSET BranchVote
      /\ c.slashed_addrs \in SUBSET Validators
  BY DEF AccountInv, AccountTypeOK, Branch
<1>2. Len(c.snapshots) = c.height + 1
  BY Zenon DEF AccountInv, AccountTypeOK
<1>3. s \in Nat /\ t \in Nat /\ s < t /\ s \in 0 .. c.height /\ t \in 0 .. c.height
  BY <1>1
<1>4. /\ s \in c.justified /\ at_fault' = bad /\ UNCHANGED <<equivocators, moved>>
      /\ \A v \in S : MayVote(c, v, s, t)
  BY DEF Vote
<1>5. chain' = [chain EXCEPT ![b] = c2]
  BY DEF Vote
<1>6. new \in SUBSET BranchVote /\ votes \in SUBSET BranchVote
  BY <1>1, <1>3 DEF BranchVote
<1>7. bad \subseteq Validators /\ at_fault \subseteq bad
  BY <1>1 DEF AccountTypeOK, Conflicting
<1> HIDE DEF justifies
<1>8. j \in SUBSET Nat /\ f \in Nat
  BY <1>1, <1>3
<1>9. c1 \in Branch /\ c2 \in Branch
  <2> HIDE DEF c, votes, j, f
  <2> DEFINE e1 == [c1 EXCEPT !.blocks = c.blocks + 1]
             e2 == [e1 EXCEPT !.justified = j]
  <2>1. c1 \in Branch
    BY <1>1, <1>6 DEF Branch
  <2>2. e1 \in Branch
    <3>1. c.blocks + 1 \in Nat
      BY <1>1
    <3> HIDE DEF c1
    <3> QED BY <2>1, <3>1 DEF Branch
  <2>3. e2 \in Branch
    <3> HIDE DEF e1
    <3> QED BY <1>8, <2>2 DEF Branch
  <2>4. c2 = [e2 EXCEPT !.finalized = f]
    OBVIOUS
  <2> HIDE DEF e2, c2
  <2> QED BY <1>8, <2>1, <2>3, <2>4 DEF Branch
<1>10. /\ c1.height = c.height /\ c1.snapshots = c.snapshots /\ c1.votes = votes
       /\ c1.justified = c.justified /\ c1.finalized = c.finalized
       /\ c2.height = c.height /\ c2.snapshots = c.snapshots /\ c2.votes = votes
       /\ c2.justified = j /\ c2.finalized = f /\ c2.stakes = c.stakes
       /\ c2.slashed_addrs = c.slashed_addrs
  <2> HIDE DEF c, votes, j, f
  <2> QED BY <1>1 DEF Branch
<1> HIDE DEF c1, c2
<1>11. BranchOK(c, at_fault)
  BY DEF AccountInv
<1>12. \A w \in votes : w.s < w.t
  BY <1>3, <1>11 DEF BranchOK
<1>13. BranchOK(c1, bad)
  <2>1. c.height <= c1.height /\ c.votes \subseteq c1.votes
    BY <1>1, <1>10
  <2>2. \A i \in 1 .. c.height + 1 : c1.snapshots[i] = c.snapshots[i]
    BY <1>10
  <2> HIDE DEF c, votes, bad
  <2> QED BY <1>1, <1>2, <1>7, <1>9, <1>10, <1>11, <1>12, <2>1, <2>2, BranchStays
<1>14. justifies => Backed(c2, bad, s, t)
  <2> SUFFICES ASSUME justifies PROVE Backed(c2, bad, s, t)
    OBVIOUS
  <2> DEFINE snapshot == c.snapshots[s + 1]
             W == VotersFor(votes, s, t)
  <2>1. Snapshot(snapshot)
    BY <1>1, <1>2, <1>3, BranchSnapshots, DictSnapshot
  <2>2. c.slashed_addrs \subseteq bad
    BY <1>7 DEF AccountInv, InnocentNeverSlashed
  <2>3. Quorum(snapshot, W, c.slashed_addrs)
    BY DEF justifies
  <2>4. 3 * StakeOf(snapshot, W \cup bad) >= 2 * StakeOf(snapshot, DOMAIN snapshot)
    <3> HIDE DEF c, snapshot, W, bad
    <3>1. 3 * StakeOf(snapshot, W \cup c.slashed_addrs)
             >= 2 * StakeOf(snapshot, DOMAIN snapshot)
      BY <2>1, <2>3, QuorumBacks DEF FFG_NUM, FFG_DEN
    <3>2. StakeOf(snapshot, W \cup c.slashed_addrs) <= StakeOf(snapshot, W \cup bad)
      <4>1. (W \cup c.slashed_addrs) \cap DOMAIN snapshot \subseteq W \cup bad
        BY <2>2
      <4> QED BY <2>1, <4>1, StakeOfMonotone
    <3>3. /\ StakeOf(snapshot, W \cup c.slashed_addrs) \in Nat
          /\ StakeOf(snapshot, W \cup bad) \in Nat
          /\ StakeOf(snapshot, DOMAIN snapshot) \in Nat
      BY <2>1, StakeOfType
    <3> QED BY <3>1, <3>2, <3>3
  <2> QED BY <1>10, <2>4, Zenon DEF Backed
<1>15. \A x \in c1.justified : \A y : Backed(c1, bad, x, y) => Backed(c2, bad, x, y)
  BY <1>10 DEF Backed
<1>16. BranchOK(c2, bad)
  <2> HIDE DEF c, votes, bad
  <2>1. c2.justified \subseteq 0 .. c2.height /\ 0 \in c2.justified
    BY <1>3, <1>10, <1>11 DEF BranchOK
  <2>2. \A w \in c2.votes : w.s < w.t
    BY <1>10, <1>12
  <2>3. ASSUME NEW y \in c2.justified \ {0}
        PROVE  \E x \in c2.justified : x < y /\ Backed(c2, bad, x, y)
    <3>1. CASE y \in c1.justified
      <4>1. PICK x \in c1.justified : x < y /\ Backed(c1, bad, x, y)
        BY <1>13, <2>3, <3>1 DEF BranchOK
      <4>2. x \in c2.justified /\ Backed(c2, bad, x, y)
        BY <1>10, <1>15, <4>1
      <4> QED BY <4>1, <4>2
    <3>2. CASE y \notin c1.justified
      <4>1. justifies /\ y = t
        BY <1>10, <2>3, <3>2
      <4>2. s \in c2.justified
        BY <1>4, <1>10
      <4> QED BY <1>3, <1>14, <4>1, <4>2
    <3> QED BY <3>1, <3>2
  <2>4. c2.finalized # 0 => /\ c2.finalized \in c2.justified
                            /\ c2.finalized + 1 \in c2.justified
                            /\ Backed(c2, bad, c2.finalized, c2.finalized + 1)
    <3>1. CASE justifies /\ t = s + 1 /\ s > c.finalized
      BY <1>4, <1>10, <1>14, <3>1
    <3>2. CASE ~(justifies /\ t = s + 1 /\ s > c.finalized)
      <4>1. c2.finalized = c1.finalized /\ c1.justified \subseteq c2.justified
        BY <1>10, <3>2
      <4> HIDE DEF j, f
      <4> QED BY <1>13, <1>15, <4>1 DEF BranchOK
    <3> QED BY <3>1, <3>2
  <2> QED BY <2>1, <2>2, <2>3, <2>4 DEF BranchOK
<1>17. Len(c2.snapshots) = c2.height + 1
  BY <1>2, <1>10, Zenon
<1>18. /\ AccountTypeOK'
       /\ chain'[b] = c2
       /\ \A d \in Branches : d # b => chain'[d] = chain[d]
       /\ \A d \in Branches : BranchOK(chain'[d], at_fault')
  <2> HIDE DEF c, votes, bad, j, f
  <2>1. moved' \in Nat
    BY <1>1, <1>4 DEF AccountTypeOK
  <2> QED BY <1>4, <1>5, <1>7, <1>9, <1>16, <1>17, <2>1, StepBranches
<1>19. /\ \A d \in Branches : chain'[d].slashed_addrs = chain[d].slashed_addrs
       /\ \A d \in Branches : chain'[d].stakes = chain[d].stakes
       /\ \A d \in Branches : chain'[d].snapshots = chain[d].snapshots
       /\ \A d \in Branches : d # b => chain'[d].votes = chain[d].votes
       /\ chain'[b].votes = votes
  BY <1>10, <1>18
<1>20. InnocentNeverSlashed'
  BY <1>4, <1>7, <1>19 DEF AccountInv, InnocentNeverSlashed
<1>21. FaultsKnown'
  <2>1. ASSUME NEW d \in Branches, NEW x \in chain[d].votes, NEW w \in new,
               w.voter = x.voter, VoteFault(Link(b, w.s, w.t), Link(d, x.s, x.t))
        PROVE  w.voter \in bad
    <3>1. w.voter \in S /\ w.s = s /\ w.t = t
      BY <2>1
    <3>2. w.voter \in Conflicting(b, S, s, t)
      BY <2>1, <3>1 DEF Conflicting
    <3> QED BY <3>2
  <2>2. ASSUME NEW w \in new, NEW x \in new
        PROVE  ~VoteFault(Link(b, w.s, w.t), Link(b, x.s, x.t))
    <3>1. w.s = s /\ w.t = t /\ x.s = s /\ x.t = t
      BY <2>2
    <3> QED BY <1>3, <3>1, FaultIrreflexive
  <2> HIDE DEF bad, new
  <2> SUFFICES ASSUME NEW a \in Branches, NEW d \in Branches, NEW w \in chain'[a].votes,
                      NEW x \in chain'[d].votes, w.voter = x.voter,
                      VoteFault(Link(a, w.s, w.t), Link(d, x.s, x.t))
               PROVE  w.voter \in bad
    BY <1>4 DEF FaultsKnown
  <2>3. w \in chain[a].votes \/ (a = b /\ w \in new)
    BY <1>19
  <2>4. x \in chain[d].votes \/ (d = b /\ x \in new)
    BY <1>19
  <2>5. CASE w \in chain[a].votes /\ x \in chain[d].votes
    BY <1>7, <2>5 DEF AccountInv, FaultsKnown
  <2>6. CASE a = b /\ w \in new /\ x \in chain[d].votes
    BY <2>1, <2>6
  <2>7. CASE d = b /\ x \in new /\ w \in chain[a].votes
    BY <2>1, <2>7, FaultSymmetric
  <2>8. CASE a = b /\ w \in new /\ d = b /\ x \in new
    BY <2>2, <2>8
  <2> QED BY <2>3, <2>4, <2>5, <2>6, <2>7, <2>8
<1>22. \E k : Drift(k)'
  <2>1. PICK k : Drift(k)
    BY DEF AccountInv
  <2>2. Drift(k)'
    BY <1>4, <1>19, <2>1, Zenon DEF Drift
  <2> QED BY <2>2
<1> QED BY <1>18, <1>20, <1>21, <1>22 DEF AccountInv

LEMMA NextAccount == AccountInv /\ [AccountNext]_accountVars => AccountInv'
<1> SUFFICES ASSUME AccountInv, [AccountNext]_accountVars PROVE AccountInv'
  OBVIOUS
<1>1. CASE AccountNext
  <2>1. PICK b \in Branches :
          \/ ReachCheckpoint(b)
          \/ \E t \in 1 .. chain[b].height : \E s \in 0 .. t - 1 :
                \E S \in SUBSET Validators : Vote(b, S, s, t)
          \/ \E v \in Validators : Slash(b, v)
          \/ \E v \in Movers : Bond(b, v)
          \/ \E v \in Movers : Withdraw(b, v)
    BY <1>1, Zenon DEF AccountNext
  <2> QED BY <2>1, ReachStep, VoteStep, SlashStep, BondStep, WithdrawStep
<1>2. CASE UNCHANGED accountVars
  BY <1>2 DEF accountVars, AccountInv, AccountTypeOK, InnocentNeverSlashed, FaultsKnown, Drift
<1> QED BY <1>1, <1>2

LEMMA AccountInductive == AccountSpec => []AccountInv
BY InitAccount, NextAccount, PTL DEF AccountSpec

-----------------------------------------------------------------------------
\* finality.py: "two conflicting checkpoints finalize only if >= 1/3 of source-active
\* stake casts a slashable double/surround vote".  For every set of validators, every
\* genesis stake and any number of branches and checkpoints: while less than a third
\* of the genesis stake is at fault or has moved, no two branches both finalize a
\* checkpoint past genesis.
THEOREM AccountableSafetyTheorem == AccountSpec => []AccountableSafety
BY AccountInductive, InvSafe, PTL

\* verify_equivocation and verify_vote_fault cannot be turned against a validator that
\* sealed one block per parent and signed no conflicting votes: whoever _apply_slash
\* put among slashed_addrs of a branch is at fault.
THEOREM InnocenceTheorem == AccountSpec => []InnocentNeverSlashed
<1>1. AccountInv => InnocentNeverSlashed
  BY DEF AccountInv
<1> QED BY <1>1, AccountInductive, PTL
=============================================================================
