-------------------------- MODULE ForkChoiceProofs --------------------------
(***************************************************************************)
(* Fork choice is safe for every set of validators, every election, every  *)
(* order of hashes and every tree: the proofs of ForkChoice's invariants   *)
(* from one inductive invariant.                                           *)
(***************************************************************************)
EXTENDS ForkChoice, SumTheorems, SequenceTheorems

\* add_block keeps a block only on a parent it has, so every ancestor of a
\* block of the tree is in the tree.
Rooted == \A h \in known : \A n \in 0 .. Len(h) : SubSeq(h, 1, n) \in known

\* The inductive invariant: the properties of ForkChoice hold each other up, and
\* the tree is finite and closed under parents.
IInv ==
    /\ TypeOK
    /\ IsFiniteSet(known)
    /\ Rooted
    /\ CanonicalIsReplay
    /\ HeadDescendsFromFinal
    /\ FrontierCoversBranches
    /\ NeverRaised
    /\ HeadIsHeaviest
    /\ CheckpointHolds

-----------------------------------------------------------------------------
(* Hashes and the prefix order *)

LEMMA HashesAreSeqs ==
    \A h \in Hashes : h \in Seq(Blocks) /\ Len(h) \in 0 .. MaxHeight
<1> SUFFICES ASSUME NEW h \in Hashes
             PROVE  h \in Seq(Blocks) /\ Len(h) \in 0 .. MaxHeight
  OBVIOUS
<1>1. PICK n \in 0 .. MaxHeight : h \in [1 .. n -> Blocks]
  BY DEF Hashes
<1>2. n \in Nat /\ MaxHeight \in Nat
  BY TreeAssumption
<1> QED BY <1>1, <1>2

LEMMA AppendIsHash ==
    ASSUME NEW p \in Seq(Blocks), NEW b \in Blocks, Len(p) + 1 <= MaxHeight
    PROVE  Append(p, b) \in Hashes
<1>1. Len(p) + 1 \in 0 .. MaxHeight
  BY TreeAssumption
<1>2. Append(p, b) \in Seq(Blocks) /\ Len(Append(p, b)) = Len(p) + 1
  OBVIOUS
<1>3. Append(p, b) \in [1 .. Len(p) + 1 -> Blocks]
  BY <1>2, LenProperties
<1> QED BY <1>1, <1>3 DEF Hashes

LEMMA AncestorRefl ==
    ASSUME NEW a \in Seq(Blocks) PROVE Ancestor(a, a)
BY DEF Ancestor

LEMMA AncestorTrans ==
    ASSUME NEW a \in Seq(Blocks), NEW b \in Seq(Blocks), NEW c \in Seq(Blocks),
           Ancestor(a, b), Ancestor(b, c)
    PROVE  Ancestor(a, c)
BY DEF Ancestor

\* Two ancestors of one block are on one branch.
LEMMA AncestorsCompare ==
    ASSUME NEW a \in Seq(Blocks), NEW b \in Seq(Blocks), NEW h \in Seq(Blocks),
           Ancestor(a, h), Ancestor(b, h), Len(a) <= Len(b)
    PROVE  Ancestor(a, b)
BY DEF Ancestor

LEMMA ParentIsAncestor ==
    ASSUME NEW p \in Seq(Blocks), NEW b \in Blocks
    PROVE  /\ Append(p, b) \in Seq(Blocks)
           /\ Len(Append(p, b)) = Len(p) + 1
           /\ Ancestor(p, Append(p, b))
BY DEF Ancestor

LEMMA PrefixIsAncestor ==
    ASSUME NEW h \in Seq(Blocks), NEW n \in 0 .. Len(h)
    PROVE  /\ SubSeq(h, 1, n) \in Seq(Blocks)
           /\ Len(SubSeq(h, 1, n)) = n
           /\ Ancestor(SubSeq(h, 1, n), h)
BY DEF Ancestor

\* The prefixes of a block on p are the prefixes of p, and the block.
LEMMA PrefixesOfChild ==
    ASSUME NEW p \in Seq(Blocks), NEW b \in Blocks, NEW n \in 0 .. Len(p) + 1
    PROVE  SubSeq(Append(p, b), 1, n) =
               IF n = Len(p) + 1 THEN Append(p, b) ELSE SubSeq(p, 1, n)
<1>1. CASE n = Len(p) + 1
  <2>1. Len(Append(p, b)) = Len(p) + 1 /\ Append(p, b) \in Seq(Blocks)
    OBVIOUS
  <2>2. SubSeq(Append(p, b), 1, Len(p) + 1) = Append(p, b)
    BY <2>1
  <2> QED BY <1>1, <2>2
<1>2. CASE n # Len(p) + 1
  <2>1. n \in 0 .. Len(p)
    BY <1>2
  <2> QED BY <2>1, <1>2
<1> QED BY <1>1, <1>2

-----------------------------------------------------------------------------
(* _update_head's scan finds a best block *)

LEMMA BetterTransitive ==
    ASSUME NEW w, NEW x, NEW y, NEW z,
           \A h \in {x, y, z} : w[h] \in Nat /\ Rank(h) \in Int,
           Better(w, x, y), ~Better(w, z, y)
    PROVE  ~Better(w, z, x)
BY DEF Better

LEMMA BestExists ==
    ASSUME NEW w, NEW S, IsFiniteSet(S), S # {},
           \A h \in S : w[h] \in Nat /\ Rank(h) \in Int
    PROVE  \E h \in S : \A g \in S : ~Better(w, g, h)
<1> DEFINE T == {s \in SUBSET S : s # {} => \E h \in s : \A g \in s : ~Better(w, g, h)}
<1>1. ASSUME NEW s \in SUBSET S, \A r \in SUBSET s : r # s => r \in T
      PROVE  s \in T
  <2> SUFFICES ASSUME s # {} PROVE \E h \in s : \A g \in s : ~Better(w, g, h)
    OBVIOUS
  <2>1. PICK x \in s : TRUE
    OBVIOUS
  <2> DEFINE r == s \ {x}
  <2>2. r \in T
    BY <1>1, <2>1
  <2>3. ~Better(w, x, x)
    BY <2>1 DEF Better
  <2>4. CASE r = {}
    <3>1. \A g \in s : g = x
      BY <2>4
    <3> QED BY <2>1, <2>3, <3>1
  <2>5. CASE r # {}
    <3>1. PICK h \in r : \A g \in r : ~Better(w, g, h)
      BY <2>2, <2>5
    <3>2. CASE Better(w, x, h)
      <4>1. \A g \in r : ~Better(w, g, x)
        <5> SUFFICES ASSUME NEW g \in r PROVE ~Better(w, g, x)
          OBVIOUS
        <5>1. ~Better(w, g, h)
          BY <3>1
        <5>2. \A k \in {x, h, g} : w[k] \in Nat /\ Rank(k) \in Int
          BY <2>1, <3>1
        <5> HIDE DEF r
        <5> QED BY <5>1, <5>2, <3>2, BetterTransitive
      <4> QED BY <4>1, <2>1, <2>3
    <3>3. CASE ~Better(w, x, h)
      BY <3>1, <3>3
    <3> QED BY <3>2, <3>3
  <2> QED BY <2>4, <2>5
<1>2. S \in T
  <2> HIDE DEF T
  <2>1. \A s \in SUBSET S : s \in T
    BY <1>1, SubsetInduction
  <2> QED BY <2>1
<1> QED BY <1>2

\* The scan returns an eligible block that no other eligible block beats.
LEMMA BestHeadIsBest ==
    ASSUME NEW K, NEW w, NEW final, IsFiniteSet(K), Eligible(K, final) # {},
           \A h \in K : w[h] \in Nat /\ Rank(h) \in Int
    PROVE  /\ BestHead(K, w, final) \in Eligible(K, final)
           /\ \A g \in Eligible(K, final) : ~Better(w, g, BestHead(K, w, final))
<1>1. Eligible(K, final) \in SUBSET K
  BY DEF Eligible
<1>2. IsFiniteSet(Eligible(K, final))
  BY <1>1, FS_Subset
<1>3. \E h \in Eligible(K, final) : \A g \in Eligible(K, final) : ~Better(w, g, h)
  BY <1>1, <1>2, BestExists
<1> QED BY <1>3 DEF BestHead

-----------------------------------------------------------------------------
(* The chain state of a block *)

LEMMA GenesisOK == StateOK(GenesisState, 0)
BY TreeAssumption DEF StateOK, GenesisState, VoteType

\* A proposer that the election accepts has stake.
LEMMA ElectedHasStake ==
    ASSUME NEW c, NEW p, NEW b, Valid(c, p, b), c.stakes \in [Addr -> Nat]
    PROVE  b.validator \in Addr /\ c.stakes[b.validator] > 0
BY DEF Valid, Elected, Active

\* Validation keeps the chain state of a branch well formed.
LEMMA AppliedOK ==
    ASSUME NEW c, NEW p \in Seq(Blocks), NEW b \in Blocks,
           StateOK(c, Len(p)), Valid(c, p, b)
    PROVE  StateOK(Applied(c, p, b), Len(p) + 1)
<1> DEFINE op == b.op
           index == Len(p) + 1
           cast == IF op.kind = "votes"
                   THEN {[voter |-> v, s |-> op.s, t |-> op.t] : v \in op.who} ELSE {}
           votes == c.votes \cup cast
           reached == /\ cast # {}
                      /\ Quorum(c.snapshots[op.s], VotersFor(votes, op.s, op.t), c.slashed)
           d == Applied(c, p, b)
<1>1. /\ op \in OpType
      /\ op.kind \in {"none", "votes", "stake", "unstake", "slash"}
      /\ op.who \subseteq Addr
      /\ op.s \in Nat /\ op.t \in Nat /\ op.amount \in Nat
  BY TreeAssumption DEF Blocks, OpType
<1>2. Len(p) \in Nat
  OBVIOUS
<1>3. d.stakes \in [Addr -> Nat]
  <2>1. ASSUME NEW a \in Addr
        PROVE  (CASE op.kind = "slash" /\ a \in op.who -> 0
                  [] op.kind = "stake" /\ a \in op.who -> c.stakes[a] + op.amount
                  [] op.kind = "unstake" /\ a \in op.who -> c.stakes[a] - op.amount
                  [] OTHER -> c.stakes[a]) \in Nat
    <3>1. c.stakes[a] \in Nat
      BY DEF StateOK
    <3>2. op.kind = "unstake" /\ a \in op.who => c.stakes[a] >= op.amount
      BY DEF Valid
    <3> HIDE DEF op
    <3> QED BY <3>1, <3>2, <1>1
  <2> QED BY <2>1 DEF Applied
<1>4. d.slashed \subseteq Addr
  BY <1>1 DEF Applied, StateOK
<1>5. cast \subseteq VoteType
  BY <1>1 DEF VoteType
<1>6. d.votes \subseteq VoteType
  BY <1>5 DEF Applied, StateOK
<1>7. /\ DOMAIN d.snapshots \subseteq 0 .. index
      /\ DOMAIN c.snapshots \subseteq DOMAIN d.snapshots
      /\ \A i \in DOMAIN d.snapshots : d.snapshots[i] \in [Addr -> Nat]
  <2>1. d.snapshots = IF index % Epoch = 0
                      THEN Put(c.snapshots, index, c.stakes) ELSE c.snapshots
    BY DEF Applied
  <2> HIDE DEF d
  <2> QED BY <2>1, <1>2 DEF Put, StateOK
<1>8. reached => op.s \in DOMAIN c.snapshots /\ op.t \in DOMAIN c.snapshots
  BY DEF Valid, VotesValid
<1>9. d.justified \subseteq DOMAIN d.snapshots
  <2>1. d.justified = IF reached THEN c.justified \cup {op.t} ELSE c.justified
    BY DEF Applied
  <2> HIDE DEF d, reached
  <2> QED BY <2>1, <1>7, <1>8 DEF StateOK
<1>10. d.finalized \in 0 .. index
  <2>1. d.finalized = IF reached /\ op.t = op.s + Epoch /\ op.s > c.finalized
                      THEN op.s ELSE c.finalized
    BY DEF Applied
  <2> HIDE DEF d, reached
  <2> QED BY <2>1, <1>2, <1>8 DEF StateOK
<1> QED BY <1>3, <1>4, <1>6, <1>7, <1>9, <1>10 DEF StateOK

-----------------------------------------------------------------------------
(* The inductive invariant *)

LEMMA InitIInv == Init => IInv
<1> SUFFICES ASSUME Init PROVE IInv
  OBVIOUS
<1>1. Genesis \in Hashes /\ Genesis \in Seq(Blocks) /\ Len(Genesis) = 0
  <2>1. 0 \in 0 .. MaxHeight
    BY TreeAssumption
  <2>2. Genesis \in [1 .. 0 -> Blocks]
    BY DEF Genesis
  <2> QED BY <2>1, <2>2 DEF Hashes, Genesis
<1>2. TypeOK
  <2>1. \A h \in known : StateOK(state[h], Len(h))
    BY <1>1, GenesisOK DEF Init
  <2> QED BY <1>1, <2>1 DEF Init, TypeOK
<1>3. IsFiniteSet(known)
  BY FS_Singleton DEF Init
<1>4. SubSeq(Genesis, 1, 0) = Genesis
  BY DEF Genesis
<1>5. Rooted
  BY <1>1, <1>4 DEF Init, Rooted
<1>6. HeadDescendsFromFinal
  BY <1>1, AncestorRefl DEF Init, HeadDescendsFromFinal
<1>7. FrontierCoversBranches
  BY <1>1, <1>4, AncestorRefl
     DEF Init, FrontierCoversBranches, BranchFinal, GenesisState
<1>8. HeadIsHeaviest
  BY <1>1, TreeAssumption DEF Init, HeadIsHeaviest
<1>9. CheckpointHolds
  <2>1. ws_checkpoint \in Seq(Blocks)
    BY HashesAreSeqs, TreeAssumption DEF Init
  <2> QED BY <1>1, <2>1 DEF Init, CheckpointHolds, Ancestor
<1> QED BY <1>2, <1>3, <1>5, <1>6, <1>7, <1>8, <1>9
        DEF Init, IInv, CanonicalIsReplay, NeverRaised

\* What a block h that add_block takes on parent p brings about.
Took(p, b, h) ==
    /\ p \in known /\ b \in Blocks
    /\ h = Append(p, b) /\ h \notin known /\ h \in Hashes
    /\ known' = known \cup {h}
    /\ weight' = Put(weight, h, weight[p] + state[p].stakes[b.validator])
    /\ state' = Put(state, h, Applied(state[p], p, b))
    /\ Valid(state[p], p, b)
    /\ Ancestor(finalized_hash, p)
    /\ finalized_hash' = Frontier(BranchFinal(h, state'[h]))
    /\ head_hash' = IF p = head_hash THEN h ELSE BestHead(known', weight', finalized_hash')
    /\ canonical' = CanonicalAfter(p, state'[h], state', head_hash')
    /\ Len(h) = Len(ws_checkpoint) => h = ws_checkpoint
    /\ UNCHANGED <<ws_checkpoint, raised>>

\* Finality guard #1 keeps the safety backstop idle, so every block add_block
\* takes goes all the way, validated against the replay of its branch.
LEMMA AddBlockTakes ==
    ASSUME IInv, NEW p \in known, NEW b \in Blocks, AddBlock(p, b)
    PROVE  Took(p, b, Append(p, b))
<1> DEFINE h == Append(p, b)
           next == Applied(Base(p), p, b)
           f == BranchFinal(h, next)
<1>1. /\ known \subseteq Hashes /\ finalized_hash \in known
      /\ p \in Seq(Blocks) /\ finalized_hash \in Seq(Blocks)
  BY HashesAreSeqs DEF IInv, TypeOK
<1>2. h \in Seq(Blocks) /\ Len(h) = Len(p) + 1 /\ Ancestor(p, h)
  BY <1>1, ParentIsAncestor
<1>3. Len(h) <= MaxHeight /\ h \notin known /\ Admissible(p, h) /\ Valid(Base(p), p, b)
  BY DEF AddBlock, Accepts
<1>4. h \in Hashes
  BY <1>1, <1>2, <1>3, AppendIsHash
<1>5. Base(p) = state[p]
  BY DEF Base, IInv, CanonicalIsReplay
<1>6. Ancestor(finalized_hash, p)
  <2>1. Len(h) \in Nat /\ Len(finalized_hash) \in Nat
    BY <1>1, <1>2
  <2>2. h # finalized_hash
    BY <1>1, <1>3
  <2> QED BY <2>1, <2>2, <1>3 DEF Admissible
<1>7. Ancestor(finalized_hash, h)
  BY <1>1, <1>2, <1>6, AncestorTrans
<1>8. ~Conflict(h, f)
  BY <1>7 DEF Conflict
<1>9. /\ known' = known \cup {h}
      /\ weight' = Put(weight, h, weight[p] + Base(p).stakes[b.validator])
      /\ state' = Put(state, h, next)
      /\ raised' = (raised \/ Conflict(h, f))
      /\ UNCHANGED ws_checkpoint
  BY DEF AddBlock
<1>10. state'[h] = next
  BY <1>9 DEF Put
<1>11. /\ finalized_hash' = Frontier(f)
       /\ head_hash' = IF p = head_hash THEN h ELSE BestHead(known', weight', finalized_hash')
       /\ canonical' = CanonicalAfter(p, next, state', head_hash')
  BY <1>8, <1>9 DEF AddBlock
<1>12. Len(h) = Len(ws_checkpoint) => h = ws_checkpoint
  BY <1>3 DEF Admissible
<1>13. raised' = raised
  BY <1>8, <1>9 DEF IInv, TypeOK, NeverRaised
<1> HIDE DEF h, next, f
<1>14. Took(p, b, h)
  <2>1. next = Applied(state[p], p, b) /\ h = Append(p, b) /\ f = BranchFinal(h, next)
    BY <1>5 DEF next, f, h
  <2> QED BY <1>3, <1>4, <1>5, <1>6, <1>9, <1>10, <1>11, <1>12, <1>13, <2>1 DEF Took
<1> QED BY <1>14 DEF h

\* Where the frontier goes: to a descendant of itself on the branch of the new
\* block, covering what that branch finalized.
LEMMA FrontierMoves ==
    ASSUME IInv, NEW p, NEW b, NEW h, Took(p, b, h)
    PROVE  /\ StateOK(state'[h], Len(h))
           /\ finalized_hash' \in known'
           /\ finalized_hash' \in Seq(Blocks)
           /\ Ancestor(finalized_hash, finalized_hash')
           /\ Ancestor(finalized_hash', h)
           /\ Ancestor(BranchFinal(h, state'[h]), finalized_hash')
<1> DEFINE f == BranchFinal(h, state'[h])
<1>1. /\ known \subseteq Hashes /\ p \in Seq(Blocks) /\ h \in Seq(Blocks)
      /\ finalized_hash \in Seq(Blocks) /\ finalized_hash \in known /\ b \in Blocks
  BY HashesAreSeqs DEF IInv, TypeOK, Took
<1>2. Len(h) = Len(p) + 1 /\ Ancestor(p, h)
  BY <1>1, ParentIsAncestor DEF Took
<1>3. Ancestor(finalized_hash, h)
  BY <1>1, <1>2, AncestorTrans DEF Took
<1>4. state'[h] = Applied(state[p], p, b)
  BY DEF Took, Put
<1>5. StateOK(state'[h], Len(h))
  <2>1. StateOK(state[p], Len(p)) /\ Valid(state[p], p, b)
    BY DEF IInv, TypeOK, Took
  <2> QED BY <1>1, <1>2, <1>4, <2>1, AppliedOK
<1>6. f \in Seq(Blocks) /\ Ancestor(f, h) /\ Len(f) = state'[h].finalized
  BY <1>1, <1>5, PrefixIsAncestor DEF StateOK, BranchFinal
<1>7. \A n \in 0 .. Len(h) : SubSeq(h, 1, n) \in known \cup {h}
  <2> SUFFICES ASSUME NEW n \in 0 .. Len(p) + 1 PROVE SubSeq(h, 1, n) \in known \cup {h}
    BY <1>2
  <2>1. SubSeq(h, 1, n) = IF n = Len(p) + 1 THEN h ELSE SubSeq(p, 1, n)
    BY <1>1, PrefixesOfChild DEF Took
  <2>2. n # Len(p) + 1 => n \in 0 .. Len(p)
    BY <1>1
  <2> QED BY <2>1, <2>2 DEF IInv, Rooted, Took
<1>8. f \in known \cup {h}
  BY <1>5, <1>7 DEF StateOK, BranchFinal
<1>9. finalized_hash' = IF Len(f) > Len(finalized_hash) THEN f ELSE finalized_hash
  BY DEF Took, Frontier
<1>10. known' = known \cup {h}
  BY DEF Took
<1>11. Len(f) \in Nat /\ Len(finalized_hash) \in Nat
  BY <1>1, <1>6
<1> HIDE DEF f
<1>12. CASE Len(f) > Len(finalized_hash)
  <2>1. finalized_hash' = f
    BY <1>9, <1>12
  <2>2. Ancestor(finalized_hash, f)
    BY <1>1, <1>3, <1>6, <1>11, <1>12, AncestorsCompare
  <2>3. Ancestor(f, f)
    BY <1>6, AncestorRefl
  <2> QED BY <1>5, <1>6, <1>8, <1>10, <2>1, <2>2, <2>3 DEF f
<1>13. CASE ~(Len(f) > Len(finalized_hash))
  <2>1. finalized_hash' = finalized_hash
    BY <1>9, <1>13
  <2>2. Ancestor(f, finalized_hash)
    BY <1>1, <1>3, <1>6, <1>11, <1>13, AncestorsCompare
  <2>3. Ancestor(finalized_hash, finalized_hash)
    BY <1>1, AncestorRefl
  <2> QED BY <1>1, <1>3, <1>5, <1>10, <2>1, <2>2, <2>3 DEF f
<1> QED BY <1>12, <1>13

\* Where the head goes: to the best block that descends from the new frontier,
\* also on the fast path that does not scan.
LEMMA HeadMoves ==
    ASSUME IInv, NEW p, NEW b, NEW h, Took(p, b, h)
    PROVE  /\ weight' \in [known' -> Nat]
           /\ IsFiniteSet(known')
           /\ head_hash' \in known'
           /\ HeadDescendsFromFinal'
           /\ HeadIsHeaviest'
<1>1. /\ known \subseteq Hashes /\ known \subseteq Seq(Blocks)
      /\ p \in known /\ b \in Blocks /\ h \in Hashes /\ h \notin known
      /\ h \in Seq(Blocks) /\ known' = known \cup {h}
      /\ finalized_hash \in known /\ head_hash \in known
  BY HashesAreSeqs DEF IInv, TypeOK, Took
<1>2. IsFiniteSet(known')
  BY <1>1, FS_AddElement DEF IInv
<1>3. state[p].stakes \in [Addr -> Nat]
  BY <1>1 DEF IInv, TypeOK, StateOK
<1>4. b.validator \in Addr /\ state[p].stakes[b.validator] > 0
  BY <1>1, <1>3, ElectedHasStake DEF Took
<1>5. weight \in [known -> Nat]
  BY DEF IInv, TypeOK
<1>6. /\ weight' \in [known' -> Nat]
      /\ \A g \in known : weight'[g] = weight[g]
      /\ weight'[h] > weight[p]
  <2>1. weight[p] \in Nat /\ state[p].stakes[b.validator] \in Nat
    BY <1>1, <1>3, <1>4, <1>5
  <2>2. weight' = Put(weight, h, weight[p] + state[p].stakes[b.validator])
    BY DEF Took
  <2> DEFINE x == weight[p] + state[p].stakes[b.validator]
  <2>3. x \in Nat /\ x > weight[p]
    BY <1>4, <2>1
  <2> HIDE DEF x
  <2>4. Put(weight, h, x) = [y \in known \cup {h} |-> IF y = h THEN x ELSE weight[y]]
    BY <1>5 DEF Put
  <2>5. weight' = Put(weight, h, x)
    BY <2>2 DEF x
  <2>6. known' = known \cup {h} /\ h \notin known /\ \A y \in known : weight[y] \in Nat
    BY <1>1, <1>5
  <2>7. weight' \in [known' -> Nat]
    BY <2>3, <2>4, <2>5, <2>6
  <2>8. \A g \in known : weight'[g] = weight[g]
    BY <2>4, <2>5, <2>6
  <2>9. weight'[h] = x
    BY <2>4, <2>5
  <2> QED BY <2>3, <2>7, <2>8, <2>9
<1>7. /\ finalized_hash' \in Seq(Blocks)
      /\ Ancestor(finalized_hash, finalized_hash') /\ Ancestor(finalized_hash', h)
  BY FrontierMoves
<1>8. \A g \in known' : Rank(g) \in Int /\ weight'[g] \in Nat
  BY <1>1, <1>6, TreeAssumption
<1>9. CASE p = head_hash
  <2>1. head_hash' = h
    BY <1>9 DEF Took
  <2>2. ASSUME NEW g \in known', Ancestor(finalized_hash', g)
        PROVE  \/ weight'[g] < weight'[head_hash']
               \/ weight'[g] = weight'[head_hash'] /\ Rank(head_hash') <= Rank(g)
    <3>1. CASE g = h
      BY <2>1, <3>1, <1>8
    <3>2. CASE g # h
      <4>1. g \in known /\ weight'[g] = weight[g]
        BY <1>1, <1>6, <3>2
      <4>2. Ancestor(finalized_hash, g)
        BY <1>1, <1>7, <2>2, <4>1, AncestorTrans
      <4>3. weight[g] <= weight[head_hash]
        <5>1. weight[g] \in Nat /\ weight[head_hash] \in Nat
          BY <1>1, <1>5, <4>1
        <5>2. weight[g] < weight[head_hash] \/ weight[g] = weight[head_hash]
          BY <4>1, <4>2 DEF IInv, HeadIsHeaviest
        <5> QED BY <5>1, <5>2
      <4> QED BY <1>1, <1>5, <1>6, <1>8, <1>9, <2>1, <4>1, <4>3
    <3> QED BY <3>1, <3>2
  <2> QED BY <1>1, <1>2, <1>6, <1>7, <2>1, <2>2 DEF HeadDescendsFromFinal, HeadIsHeaviest
<1>10. CASE p # head_hash
  <2> DEFINE E == Eligible(known', finalized_hash')
  <2>1. head_hash' = BestHead(known', weight', finalized_hash')
    BY <1>10 DEF Took
  <2>2. h \in E
    BY <1>1, <1>7 DEF Eligible
  <2>3. head_hash' \in E /\ \A g \in E : ~Better(weight', g, head_hash')
    BY <1>2, <1>8, <2>1, <2>2, BestHeadIsBest
  <2>4. head_hash' \in known' /\ Ancestor(finalized_hash', head_hash')
    BY <2>3 DEF Eligible
  <2>5. ASSUME NEW g \in known', Ancestor(finalized_hash', g)
        PROVE  \/ weight'[g] < weight'[head_hash']
               \/ weight'[g] = weight'[head_hash'] /\ Rank(head_hash') <= Rank(g)
    <3>1. ~Better(weight', g, head_hash')
      BY <2>3, <2>5 DEF Eligible
    <3> QED BY <1>8, <2>4, <3>1 DEF Better
  <2> QED BY <1>2, <1>6, <2>4, <2>5 DEF HeadDescendsFromFinal, HeadIsHeaviest
<1> QED BY <1>9, <1>10

LEMMA TookKeepsIInv ==
    ASSUME IInv, NEW p, NEW b, NEW h, Took(p, b, h)
    PROVE  IInv'
<1>1. /\ known \subseteq Hashes /\ known \subseteq Seq(Blocks)
      /\ p \in known /\ b \in Blocks /\ h = Append(p, b)
      /\ h \in Hashes /\ h \notin known /\ h \in Seq(Blocks)
      /\ known' = known \cup {h}
      /\ finalized_hash \in known /\ head_hash \in known
      /\ ws_checkpoint \in Seq(Blocks)
  BY HashesAreSeqs, TreeAssumption DEF IInv, TypeOK, Took
<1>2. Len(h) = Len(p) + 1 /\ Ancestor(p, h)
  BY <1>1, ParentIsAncestor
<1>3. /\ DOMAIN state' = known'
      /\ \A g \in known : state'[g] = state[g]
      /\ state'[h] = Applied(state[p], p, b)
  BY <1>1 DEF IInv, TypeOK, Took, Put
<1>4. TypeOK'
  <2>1. \A g \in known' : StateOK(state'[g], Len(g))
    BY <1>1, <1>3, FrontierMoves DEF IInv, TypeOK
  <2>2. ws_checkpoint' \in Checkpoints /\ raised' \in BOOLEAN
    BY DEF IInv, TypeOK, Took
  <2> QED BY <1>1, <1>3, <2>1, <2>2, FrontierMoves, HeadMoves DEF TypeOK
<1>5. Rooted'
  <2> SUFFICES ASSUME NEW n \in 0 .. Len(p) + 1 PROVE SubSeq(h, 1, n) \in known'
    BY <1>1, <1>2 DEF IInv, Rooted
  <2>1. SubSeq(h, 1, n) = IF n = Len(p) + 1 THEN h ELSE SubSeq(p, 1, n)
    BY <1>1, PrefixesOfChild
  <2>2. n # Len(p) + 1 => n \in 0 .. Len(p)
    BY <1>1
  <2> QED BY <1>1, <2>1, <2>2 DEF IInv, Rooted
<1>6. CanonicalIsReplay'
  <2>1. canonical' = CanonicalAfter(p, state'[h], state', head_hash')
    BY DEF Took
  <2>2. p = head_hash => head_hash' = h
    BY DEF Took
  <2>3. canonical = state[head_hash] /\ state'[head_hash] = state[head_hash]
    BY <1>1, <1>3 DEF IInv, CanonicalIsReplay
  <2> QED BY <2>1, <2>2, <2>3 DEF CanonicalAfter, CanonicalIsReplay
<1>7. FrontierCoversBranches'
  <2> SUFFICES ASSUME NEW g \in known'
               PROVE  Ancestor(BranchFinal(g, state'[g]), finalized_hash')
    BY DEF FrontierCoversBranches
  <2>1. CASE g = h
    BY <2>1, FrontierMoves
  <2>2. CASE g # h
    <3> DEFINE f == BranchFinal(g, state[g])
    <3>1. g \in known /\ state'[g] = state[g]
      BY <1>1, <1>3, <2>2
    <3>2. Ancestor(f, finalized_hash)
      BY <3>1 DEF IInv, FrontierCoversBranches
    <3>3. f \in Seq(Blocks)
      <4>1. state[g].finalized \in 0 .. Len(g) /\ g \in Seq(Blocks)
        BY <1>1, <3>1 DEF IInv, TypeOK, StateOK
      <4> QED BY <4>1, PrefixIsAncestor DEF BranchFinal
    <3>4. /\ finalized_hash' \in Seq(Blocks) /\ finalized_hash \in Seq(Blocks)
          /\ Ancestor(finalized_hash, finalized_hash')
      BY <1>1, FrontierMoves
    <3> HIDE DEF f
    <3>5. Ancestor(f, finalized_hash')
      BY <3>2, <3>3, <3>4, AncestorTrans
    <3> QED BY <3>1, <3>5 DEF f
  <2> QED BY <2>1, <2>2
<1>8. NeverRaised'
  BY DEF IInv, NeverRaised, Took
<1>9. CheckpointHolds'
  <2> SUFFICES Len(h) >= Len(ws_checkpoint) => Ancestor(ws_checkpoint, h)
    BY <1>1 DEF IInv, CheckpointHolds, Took
  <2>1. Len(p) \in Nat /\ Len(ws_checkpoint) \in Nat
    BY <1>1
  <2>2. CASE Len(p) >= Len(ws_checkpoint)
    <3>1. Ancestor(ws_checkpoint, p)
      BY <1>1, <2>2 DEF IInv, CheckpointHolds
    <3> QED BY <1>1, <1>2, <3>1, AncestorTrans
  <2>3. CASE Len(h) = Len(ws_checkpoint)
    <3>1. h = ws_checkpoint
      BY <2>3 DEF Took
    <3> QED BY <1>1, <3>1, AncestorRefl
  <2> QED BY <1>2, <2>1, <2>2, <2>3
<1> QED BY <1>4, <1>5, <1>6, <1>7, <1>8, <1>9, HeadMoves DEF IInv

LEMMA NextIInv == IInv /\ [Next]_vars => IInv'
<1> SUFFICES ASSUME IInv, [Next]_vars PROVE IInv'
  OBVIOUS
<1>1. CASE Next
  <2>1. PICK p \in known, b \in Blocks : AddBlock(p, b)
    BY <1>1 DEF Next
  <2>2. Took(p, b, Append(p, b))
    BY <2>1, AddBlockTakes
  <2> QED BY <2>2, TookKeepsIInv
<1>2. CASE UNCHANGED vars
  BY <1>2 DEF vars, IInv, TypeOK, Rooted, CanonicalIsReplay, HeadDescendsFromFinal,
              FrontierCoversBranches, NeverRaised, HeadIsHeaviest, CheckpointHolds
<1> QED BY <1>1, <1>2

LEMMA Inductive == Spec => []IInv
<1> QED BY InitIInv, NextIInv, PTL DEF Spec

-----------------------------------------------------------------------------
(* The theorems *)

\* The dictionaries of BlockTree keep the same keys, and every chain state on
\* them is well formed.
THEOREM TreeTypeCorrect == Spec => []TypeOK
<1>1. IInv => TypeOK
  BY DEF IInv
<1> QED BY <1>1, Inductive, PTL

\* _update_head never leaves the finalized branch, fast path included.
THEOREM HeadSafe == Spec => []HeadDescendsFromFinal
<1>1. IInv => HeadDescendsFromFinal
  BY DEF IInv
<1> QED BY <1>1, Inductive, PTL

\* The head is the heaviest eligible block, with the smaller hash on a tie,
\* whatever order blocks arrive in.
THEOREM HeadHeaviest == Spec => []HeadIsHeaviest
<1>1. IInv => HeadIsHeaviest
  BY DEF IInv
<1> QED BY <1>1, Inductive, PTL

\* The chain the fast path of add_block validates on is the replay of the head.
THEOREM CanonicalReplayed == Spec => []CanonicalIsReplay
<1>1. IInv => CanonicalIsReplay
  BY DEF IInv
<1> QED BY <1>1, Inductive, PTL

\* No branch of the tree has finalized anything off the frontier or above it.
THEOREM FrontierCovers == Spec => []FrontierCoversBranches
<1>1. IInv => FrontierCoversBranches
  BY DEF IInv
<1> QED BY <1>1, Inductive, PTL

\* ConflictingFinalityError is never raised.
THEOREM BackstopIdle == Spec => []NeverRaised
<1>1. IInv => NeverRaised
  BY DEF IInv
<1> QED BY <1>1, Inductive, PTL

\* Nothing beside the weak-subjectivity checkpoint gets into the tree.
THEOREM CheckpointRespected == Spec => []CheckpointHolds
<1>1. IInv => CheckpointHolds
  BY DEF IInv
<1> QED BY <1>1, Inductive, PTL

\* The finality frontier only moves to a descendant of itself.
THEOREM FinalityTheorem == Spec => FinalityIrreversible
<1>1. IInv /\ [Next]_vars => [Ancestor(finalized_hash, finalized_hash')]_finalized_hash
  <2> SUFFICES ASSUME IInv, [Next]_vars
               PROVE  [Ancestor(finalized_hash, finalized_hash')]_finalized_hash
    OBVIOUS
  <2>1. CASE Next
    <3>1. PICK p \in known, b \in Blocks : AddBlock(p, b)
      BY <2>1 DEF Next
    <3>2. Took(p, b, Append(p, b))
      BY <3>1, AddBlockTakes
    <3> QED BY <3>2, FrontierMoves
  <2>2. CASE UNCHANGED vars
    BY <2>2 DEF vars
  <2> QED BY <2>1, <2>2
<1> QED BY <1>1, Inductive, PTL DEF Spec, FinalityIrreversible

\* The block tree implements the ledger clients are promised: initial states map
\* to initial states, and every add_block to a move of the head, to more of the
\* chain becoming final, or to no step.
THEOREM Refinement == Spec => ImplementsLedger
<1>1. Init => Ledger!Init
  BY DEF Init, Ledger!Init, Genesis
<1>2. IInv /\ IInv' /\ [Next]_vars => [Ledger!Next]_<<head_hash, finalized_hash>>
  <2> SUFFICES ASSUME IInv, IInv', [Next]_vars
               PROVE  [Ledger!Next]_<<head_hash, finalized_hash>>
    OBVIOUS
  <2>1. CASE Next
    <3>1. PICK p \in known, b \in Blocks : AddBlock(p, b)
      BY <2>1 DEF Next
    <3> DEFINE h == Append(p, b)
    <3>2. Took(p, b, h)
      BY <3>1, AddBlockTakes
    <3>3. Ancestor(finalized_hash, finalized_hash') /\ Ancestor(finalized_hash', head_hash')
      BY <3>2, FrontierMoves DEF IInv, HeadDescendsFromFinal
    <3>4. finalized_hash' = finalized_hash \/ Len(finalized_hash) < Len(finalized_hash')
      <4>1. /\ finalized_hash \in Seq(Blocks) /\ finalized_hash' \in Seq(Blocks)
            /\ finalized_hash' = Frontier(BranchFinal(h, state'[h]))
        BY <3>2, HashesAreSeqs, FrontierMoves DEF IInv, TypeOK, Took
      <4> QED BY <4>1 DEF Frontier
    <3> QED BY <3>3, <3>4 DEF Ancestor, Ledger!Next, Ledger!MoveHead, Ledger!Finalize,
                               Ledger!Prefix
  <2>2. CASE UNCHANGED vars
    BY <2>2 DEF vars
  <2> QED BY <2>1, <2>2
<1> QED BY <1>1, <1>2, Inductive, PTL DEF Spec, ImplementsLedger, Ledger!Spec

-----------------------------------------------------------------------------
(* The election *)

\* The stakes of a chain state: finitely many validators, ordered as numbers.
Seats(d) == Snapshot(d) /\ DOMAIN d \subseteq Nat

\* The validators laid out before v.
Before(d, v) == {a \in Active(d) : a < v}

LEMMA LargestExists ==
    ASSUME NEW S, IsFiniteSet(S), S \subseteq Nat, S # {}
    PROVE  \E m \in S : \A n \in S : n <= m
<1> DEFINE T == {s \in SUBSET S : s # {} => \E m \in s : \A n \in s : n <= m}
<1>1. ASSUME NEW s \in SUBSET S, \A r \in SUBSET s : r # s => r \in T
      PROVE  s \in T
  <2>1. SUFFICES ASSUME s # {} PROVE \E m \in s : \A n \in s : n <= m
    OBVIOUS
  <2>2. PICK x \in s : TRUE
    BY <2>1
  <2> DEFINE r == s \ {x}
  <2>3. r \in T
    BY <1>1, <2>2
  <2>4. CASE r = {}
    <3>1. \A n \in s : n = x
      BY <2>4
    <3> QED BY <2>2, <3>1
  <2>5. CASE r # {}
    <3>1. PICK m \in r : \A n \in r : n <= m
      BY <2>3, <2>5
    <3>2. \A n \in s : n \in r \/ n = x
      OBVIOUS
    <3>3. CASE x <= m
      BY <3>1, <3>2, <3>3
    <3>4. CASE ~(x <= m)
      <4>1. \A n \in r : n <= x
        BY <2>2, <3>1, <3>4
      <4> QED BY <2>2, <3>2, <4>1
    <3> QED BY <3>3, <3>4
  <2> QED BY <2>4, <2>5
<1>2. \A s \in SUBSET S : s \in T
  <2> HIDE DEF T
  <2> QED BY <1>1, SubsetInduction
<1> QED BY <1>2

\* The stretch of v ends where that of whoever comes next begins.
LEMMA Stretch ==
    ASSUME NEW d, Seats(d), NEW v \in Active(d)
    PROVE  /\ v \in Nat /\ d[v] \in Nat /\ d[v] > 0 /\ StakeBefore(d, v) \in Nat
           /\ StakeOf(d, Before(d, v) \cup {v}) = StakeBefore(d, v) + d[v]
           /\ StakeBefore(d, v) + d[v] <= ActiveStake(d)
           /\ \A w \in Active(d) : v < w => StakeBefore(d, v) + d[v] <= StakeBefore(d, w)
<1>1. v \in DOMAIN d /\ v \in Nat /\ d[v] \in Nat /\ d[v] > 0 /\ Snapshot(d)
  BY DEF Seats, Active, Snapshot
<1>2. StakeBefore(d, v) = StakeOf(d, Before(d, v)) /\ StakeBefore(d, v) \in Nat
  BY <1>1, StakeOfType DEF StakeBefore, Before
<1>3. StakeOf(d, {v}) = d[v]
  <2>1. PICK one : one = {v}
    OBVIOUS
  <2>2. PICK rest : rest = one \ {v}
    OBVIOUS
  <2>3. one \cap DOMAIN d = one /\ rest = {} /\ v \in one
    BY <1>1, <2>1, <2>2
  <2>4. Summable(d, one)
    <3>1. one \in SUBSET (DOMAIN d)
      BY <1>1, <2>1
    <3> QED BY <1>1, <3>1, FS_Subset DEF Summable, Snapshot
  <2>5. SumFunctionOnSet(d, one) = d[v] + SumFunctionOnSet(d, rest)
    BY <2>2, <2>3, <2>4, SumRemove
  <2>6. SumFunctionOnSet(d, rest) = 0
    BY <2>3, SumEmpty
  <2>7. StakeOf(d, one) = SumFunctionOnSet(d, one)
    BY <2>3, Zenon DEF StakeOf
  <2>8. StakeOf(d, one) = d[v]
    BY <1>1, <2>5, <2>6, <2>7
  <2> QED BY <2>1, <2>8
<1>4. StakeOf(d, Before(d, v) \cup {v}) = StakeBefore(d, v) + d[v]
  <2>1. Before(d, v) \cap {v} \cap DOMAIN d = {}
    BY <1>1 DEF Before
  <2> QED BY <1>1, <1>2, <1>3, <2>1, StakeOfDisjoint
<1>5. StakeBefore(d, v) + d[v] <= ActiveStake(d)
  <2>1. (Before(d, v) \cup {v}) \cap DOMAIN d \subseteq Active(d)
    BY DEF Before
  <2> QED BY <1>1, <1>4, <2>1, StakeOfMonotone DEF ActiveStake
<1>6. ASSUME NEW w \in Active(d), v < w
      PROVE  StakeBefore(d, v) + d[v] <= StakeBefore(d, w)
  <2>1. \A a \in DOMAIN d : a \in Nat
    BY DEF Seats
  <2>2. w \in Nat
    BY <2>1 DEF Active
  <2>3. (Before(d, v) \cup {v}) \cap DOMAIN d \subseteq Before(d, w)
    BY <1>1, <1>6, <2>1, <2>2 DEF Before
  <2>4. StakeBefore(d, w) = StakeOf(d, Before(d, w))
    BY DEF StakeBefore, Before
  <2> QED BY <1>1, <1>4, <2>3, <2>4, StakeOfMonotone
<1> QED BY <1>1, <1>2, <1>4, <1>5, <1>6

\* The stretches leave no gap: whatever is picked falls into one of them.
LEMMA StretchesCover ==
    ASSUME NEW d, Seats(d), NEW pick \in Nat, pick < ActiveStake(d)
    PROVE  \E v \in Active(d) : /\ StakeBefore(d, v) <= pick
                                /\ pick < StakeBefore(d, v) + d[v]
<1> DEFINE A == Active(d)
           M == {v \in A : StakeBefore(d, v) <= pick}
<1>1. Snapshot(d) /\ IsFiniteSet(A) /\ A \subseteq Nat
  <2>1. A \subseteq DOMAIN d
    BY DEF Active
  <2> QED BY <2>1, FS_Subset DEF Seats, Snapshot
<1>2. \A S : S \cap DOMAIN d = {} => StakeOf(d, S) = 0
  BY SumEmpty DEF StakeOf
<1>3. M # {}
  <2>1. A # {}
    <3>1. ASSUME A = {} PROVE FALSE
      <4>1. ActiveStake(d) = 0
        BY <1>2, <3>1 DEF ActiveStake
      <4> QED BY <4>1
    <3> QED BY <3>1
  <2> HIDE DEF A
  <2>2. PICK m \in A : \A n \in A : m <= n
    BY <1>1, <2>1, LeastNatural
  <2>3. Before(d, m) = {}
    BY <1>1, <2>2 DEF Before, A
  <2>4. StakeBefore(d, m) = 0
    BY <1>2, <2>3 DEF StakeBefore, Before
  <2> QED BY <2>2, <2>4
<1>4. PICK v \in M : \A n \in M : n <= v
  <2>1. IsFiniteSet(M) /\ M \subseteq Nat
    BY <1>1, FS_Subset
  <2> HIDE DEF M
  <2> QED BY <1>3, <2>1, LargestExists
<1>5. /\ v \in A /\ v \in Nat /\ d[v] \in Nat /\ d[v] > 0 /\ StakeBefore(d, v) \in Nat
      /\ StakeOf(d, Before(d, v) \cup {v}) = StakeBefore(d, v) + d[v]
  BY <1>4, Stretch
<1>6. ASSUME ~(pick < StakeBefore(d, v) + d[v]) PROVE FALSE
  <2> DEFINE H == {a \in A : v < a}
  <2>1. CASE H = {}
    <3>1. Before(d, v) \cup {v} = Active(d)
      BY <1>1, <1>5, <2>1 DEF Before
    <3>2. ActiveStake(d) = StakeBefore(d, v) + d[v]
      BY <1>5, <3>1 DEF ActiveStake
    <3> QED BY <1>6, <3>2
  <2>2. CASE H # {}
    <3>1. H \subseteq Nat
      BY <1>1
    <3>2. PICK w \in H : \A n \in H : w <= n
      <4> HIDE DEF H
      <4> QED BY <2>2, <3>1, LeastNatural
    <3>3. Before(d, w) = Before(d, v) \cup {v}
      BY <1>1, <1>5, <3>2 DEF Before
    <3>4. StakeBefore(d, w) = StakeBefore(d, v) + d[v]
      BY <1>5, <3>3 DEF StakeBefore, Before
    <3>5. StakeBefore(d, w) <= pick
      BY <1>5, <1>6, <3>4
    <3>6. w \in M /\ w \in Nat /\ v < w
      BY <3>1, <3>2, <3>5
    <3>7. w <= v
      BY <1>4, <3>6
    <3> QED BY <1>5, <3>6, <3>7
  <2> QED BY <2>1, <2>2
<1> QED BY <1>4, <1>6

\* elect_validator of consensus.py: its last return is, as its comment says,
\* "unreachable given pick < total", and no two validators win with one seed.
LEMMA ElectionExact ==
    ASSUME NEW d, Seats(d), Active(d) # {}, NEW seed \in Nat
    PROVE  \E v \in Active(d) : /\ Elected(d, seed, v)
                                /\ \A w : Elected(d, seed, w) => w = v
<1> DEFINE total == ActiveStake(d)
           pick == seed % total
<1>1. total \in Nat /\ total > 0
  <2>1. PICK v \in Active(d) : TRUE
    OBVIOUS
  <2>2. total \in Nat
    BY StakeOfType DEF Seats, ActiveStake
  <2>3. d[v] > 0 /\ StakeBefore(d, v) + d[v] <= total /\ d[v] \in Nat /\ StakeBefore(d, v) \in Nat
    BY <2>1, Stretch
  <2> HIDE DEF total
  <2> QED BY <2>2, <2>3
<1> HIDE DEF total
<1>2. pick \in Nat /\ pick < total
  BY <1>1
<1> HIDE DEF pick
<1>3. PICK v \in Active(d) : StakeBefore(d, v) <= pick /\ pick < StakeBefore(d, v) + d[v]
  BY <1>2, StretchesCover DEF total
<1>4. Elected(d, seed, v)
  BY <1>3 DEF Elected, pick, total
<1>5. ASSUME NEW w, Elected(d, seed, w) PROVE w = v
  <2>1. /\ w \in Active(d) /\ StakeBefore(d, w) <= pick
        /\ pick < StakeBefore(d, w) + d[w]
    BY <1>5 DEF Elected, pick, total
  <2>2. /\ v \in Nat /\ d[v] \in Nat /\ StakeBefore(d, v) \in Nat
        /\ w \in Nat /\ d[w] \in Nat /\ StakeBefore(d, w) \in Nat
    BY <1>3, <2>1, Stretch
  <2>3. CASE v < w
    <3>1. StakeBefore(d, v) + d[v] <= StakeBefore(d, w)
      BY <1>3, <2>1, <2>3, Stretch
    <3> QED BY <1>2, <1>3, <2>1, <2>2, <3>1
  <2>4. CASE w < v
    <3>1. StakeBefore(d, w) + d[w] <= StakeBefore(d, v)
      BY <1>3, <2>1, <2>4, Stretch
    <3> QED BY <1>2, <1>3, <2>1, <2>2, <3>1
  <2> QED BY <2>2, <2>3, <2>4
<1> QED BY <1>4, <1>5

\* Of the numbers below the total stake, as many elect v as v has stake.
ElectionShare(d, v) ==
    Cardinality({pick \in 0 .. ActiveStake(d) - 1 : Elected(d, pick, v)}) = d[v]

LEMMA ElectionShares ==
    ASSUME NEW d, Seats(d), NEW v \in Active(d)
    PROVE  ElectionShare(d, v)
<1> DEFINE total == ActiveStake(d)
           from == StakeBefore(d, v)
           x == d[v]
           P == {pick \in 0 .. total - 1 : Elected(d, pick, v)}
<1>1. from \in Nat /\ x \in Nat /\ x > 0 /\ from + x <= total
  BY Stretch
<1>2. total \in Nat
  BY StakeOfType DEF Seats, ActiveStake
<1> HIDE DEF total, from, x
<1>3. \A pick \in 0 .. total - 1 : pick % total = pick
  BY <1>1, <1>2
<1>4. \A pick \in 0 .. total - 1 : Elected(d, pick, v) <=> from <= pick /\ pick < from + x
  BY <1>3 DEF Elected, total, from, x
<1>5. P = from .. from + x - 1
  BY <1>1, <1>2, <1>4
<1>6. Cardinality(from .. from + x - 1) = x
  <2> DEFINE b == from + x - 1
  <2>1. b \in Int /\ from <= b /\ b - from + 1 = x
    BY <1>1
  <2> HIDE DEF b
  <2>2. Cardinality(from .. b) = IF from > b THEN 0 ELSE b - from + 1
    BY <1>1, <2>1, FS_Interval
  <2>3. Cardinality(from .. b) = x
    BY <1>1, <2>1, <2>2
  <2> QED BY <2>3 DEF b
<1> QED BY <1>5, <1>6 DEF ElectionShare, total, x

\* On every block of the tree exactly one validator may build, whatever the seed, as long
\* as one is active; and each has as many of the seeds modulo the total stake as it has
\* stake ("stake-weighted": no validator gains or loses a share by how the loop rounds).
OneProposer ==
    \A h \in known :
        LET d == state[h].stakes
        IN  /\ Active(d) # {} =>
                  \E v \in Active(d) : /\ Elected(d, Seed(h), v)
                                       /\ \A w : Elected(d, Seed(h), w) => w = v
            /\ \A v \in Active(d) : ElectionShare(d, v)

\* elect_validator finds exactly one proposer for every block of the tree, and its seeds are
\* shared out in proportion to stake.
THEOREM ElectionTheorem == Spec => []OneProposer
<1>1. ASSUME IInv PROVE OneProposer
  <2>1. SUFFICES ASSUME NEW h \in known, NEW d, d = state[h].stakes
                 PROVE  /\ Active(d) # {} =>
                              \E v \in Active(d) : /\ Elected(d, Seed(h), v)
                                                   /\ \A w : Elected(d, Seed(h), w) => w = v
                        /\ \A v \in Active(d) : ElectionShare(d, v)
    BY DEF OneProposer
  <2>2. StateOK(state[h], Len(h)) /\ h \in Hashes
    BY <1>1 DEF IInv, TypeOK
  <2>3. d \in [Addr -> Nat] /\ Seed(h) \in Nat
    BY <2>1, <2>2, TreeAssumption DEF StateOK
  <2>4. Seats(d)
    BY <2>3, TreeAssumption DEF Seats, Snapshot
  <2> QED BY <2>3, <2>4, ElectionExact, ElectionShares
<1> QED BY <1>1, Inductive, PTL
=============================================================================
