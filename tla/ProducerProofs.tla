--------------------------- MODULE ProducerProofs ---------------------------
(***************************************************************************)
(* What a producing node and its mempool promise, for every set of         *)
(* transactions, every pool size and block capacity, and every order in    *)
(* which transactions and blocks arrive.  The node's chain is a PosChain;  *)
(* the pool stays bounded although add is not atomic; a full pool drops    *)
(* only its cheapest transaction; what select returns is in fee order, and *)
(* every transaction of it has the nonce and the funds it needs when its   *)
(* turn comes, also where spent transactions are left in the pool.         *)
(***************************************************************************)
EXTENDS Producer, PosChainProofs, SequenceTheorems

\* A transaction that clients and peers may send, as the proofs use it.
LEMMA PoolTxType ==
    ASSUME NEW tx \in PoolTxs
    PROVE  /\ tx.sender \in Addr /\ tx.nonce \in Nat /\ tx.fee \in Nat
           /\ tx.kind \in {"transfer", "stake", "unstake"} => tx.amount \in Nat
           /\ tx.body.sender = tx.sender /\ tx.body.fee = tx.fee
<1>1. /\ tx.nonce \in Nat /\ tx.body.sender = tx.sender /\ tx.body.fee = tx.fee
      /\ \/ tx.kind = "transfer" /\ tx.body \in TransferTx /\ tx.amount = tx.body.amount
         \/ tx.kind = "stake" /\ tx.body \in StakingTx /\ tx.amount = tx.body.amount
         \/ tx.kind = "unstake" /\ tx.body \in StakingTx /\ tx.amount = tx.body.amount
         \/ tx.kind = "slash" /\ tx.body \in SlashingTx
         \/ tx.kind = "vote" /\ tx.body \in VotingTx
  BY ProducerAssumption, ChainAssumption
<1>2. tx.body.sender \in Addr /\ tx.body.fee \in Nat
  BY <1>1 DEF TransferTx, StakingTx, SlashingTx, VotingTx
<1>3. tx.kind \in {"transfer", "stake", "unstake"} => tx.amount \in Nat
  BY <1>1 DEF TransferTx, StakingTx
<1> QED BY <1>1, <1>2, <1>3

\* Largest and smallest members of sets of naturals.
LEMMA MaxOf ==
    ASSUME NEW S \in SUBSET Nat, S # {}, NEW B \in Nat, \A i \in S : i <= B
    PROVE  Max(S) \in S /\ \A j \in S : j <= Max(S)
<1> DEFINE D == {B - i : i \in S}
<1>1. D \subseteq Nat /\ D # {}
  <2>1. PICK i : i \in S
    OBVIOUS
  <2>2. B - i \in D /\ \A j \in S : B - j \in Nat
    BY <2>1
  <2> QED BY <2>2
<1>2. PICK n \in D : \A m \in D : n <= m
  <2> HIDE DEF D
  <2> QED BY <1>1, LeastNatural
<1>3. PICK i \in S : n = B - i
  BY <1>2
<1>4. \A j \in S : i >= j
  <2>1. SUFFICES ASSUME NEW j \in S PROVE i >= j
    OBVIOUS
  <2>2. n <= B - j
    BY <1>2
  <2> QED BY <1>3, <2>2
<1>5. Max(S) \in S /\ \A j \in S : Max(S) >= j
  BY <1>3, <1>4 DEF Max
<1> QED BY <1>5

LEMMA MinOf ==
    ASSUME NEW S \in SUBSET Nat, S # {}
    PROVE  Min(S) \in S /\ \A j \in S : Min(S) <= j
BY LeastNatural DEF Min

-----------------------------------------------------------------------------
(* The node's chain is a PosChain *)

\* No more nonces are used than transactions are applied.
NonceBound ==
    \A a \in Addr : nonces[a] <= ntx /\ saved.nonces[a] <= saved.ntx

\* The node applies transactions by the chain's own handlers.
LEMMA ApplyStep ==
    ASSUME TypeOK, NonceBound, NEW tx \in PoolTxs, Apply(tx)
    PROVE  /\ Next
           /\ UNCHANGED blockVars
           /\ tx.nonce = nonces[tx.sender]
           /\ nonces' = [nonces EXCEPT ![tx.sender] = tx.nonce + 1]
           /\ ntx' = ntx + 1
<1>1. tx.sender \in Addr /\ tx.nonce \in Nat /\ tx.body.sender = tx.sender
  BY PoolTxType
<1>2. nonces \in [Addr -> Nat] /\ ntx \in 0 .. MaxTxs /\ MaxTxs \in Nat
  BY WorkOKIsLedgerOK, ChainAssumption DEF TypeOK, WorkOK
<1>3. ASSUME Admit(tx.sender, tx.nonce) PROVE tx.nonce \in Nonces /\ tx.nonce = nonces[tx.sender]
  <2>1. nonces[tx.sender] <= ntx /\ tx.nonce = nonces[tx.sender]
    BY <1>1, <1>3 DEF NonceBound, Admit
  <2> QED BY <1>1, <1>2, <2>1 DEF Nonces
<1>4. CASE tx.kind = "transfer"
  <2>1. tx.body \in Transfers /\ Transfer(tx.body, tx.nonce)
    BY <1>4, ProducerAssumption DEF Apply
  <2>2. Admit(tx.sender, tx.nonce) /\ Consume(tx.sender, tx.nonce) /\ UNCHANGED blockVars
    BY <1>1, <2>1 DEF Transfer
  <2> QED BY <1>3, <2>1, <2>2 DEF Next, Consume
<1>5. CASE tx.kind = "stake"
  <2>1. tx.body \in StakeTxs /\ Stake(tx.body, tx.nonce)
    BY <1>5, ProducerAssumption DEF Apply
  <2>2. Admit(tx.sender, tx.nonce) /\ Consume(tx.sender, tx.nonce) /\ UNCHANGED blockVars
    BY <1>1, <2>1 DEF Stake
  <2> QED BY <1>3, <2>1, <2>2 DEF Next, Consume
<1>6. CASE tx.kind = "unstake"
  <2>1. tx.body \in UnstakeTxs /\ Unstake(tx.body, tx.nonce)
    BY <1>6, ProducerAssumption DEF Apply
  <2>2. Admit(tx.sender, tx.nonce) /\ Consume(tx.sender, tx.nonce) /\ UNCHANGED blockVars
    BY <1>1, <2>1 DEF Unstake
  <2> QED BY <1>3, <2>1, <2>2 DEF Next, Consume
<1>7. CASE tx.kind = "slash"
  <2>1. tx.body \in SlashTxs /\ Slash(tx.body, tx.nonce)
    BY <1>7, ProducerAssumption DEF Apply
  <2>2. Admit(tx.sender, tx.nonce) /\ Consume(tx.sender, tx.nonce) /\ UNCHANGED blockVars
    BY <1>1, <2>1 DEF Slash
  <2> QED BY <1>3, <2>1, <2>2 DEF Next, Consume
<1>8. CASE tx.kind = "vote"
  <2>1. tx.body \in VoteTxs /\ Vote(tx.body, tx.nonce)
    BY <1>8, ProducerAssumption DEF Apply
  <2>2. Admit(tx.sender, tx.nonce) /\ Consume(tx.sender, tx.nonce) /\ UNCHANGED blockVars
    BY <1>1, <2>1 DEF Vote
  <2> QED BY <1>3, <2>1, <2>2 DEF Next, Consume
<1> QED BY <1>4, <1>5, <1>6, <1>7, <1>8, ProducerAssumption

\* Appending adds one element to what a sequence holds.
LEMMA AppendRange ==
    ASSUME NEW X, NEW s \in Seq(X), NEW e \in X
    PROVE  /\ Append(s, e) \in Seq(X) /\ Range(Append(s, e)) = Range(s) \cup {e}
           /\ Len(Append(s, e)) = Len(s) + 1
<1> DEFINE n == Len(s)
           t == Append(s, e)
<1>1. /\ n \in Nat /\ DOMAIN s = 1 .. n /\ t \in Seq(X) /\ DOMAIN t = 1 .. n + 1
      /\ t[n + 1] = e /\ \A i \in 1 .. n : t[i] = s[i]
      /\ Len(t) = n + 1
  OBVIOUS
<1> HIDE DEF n, t
<1>2. 1 .. n + 1 = (1 .. n) \cup {n + 1}
  BY <1>1
<1>3. Range(t) = Range(s) \cup {e}
  BY <1>1, <1>2 DEF Range
<1> QED BY <1>1, <1>3 DEF t, n

-----------------------------------------------------------------------------
(* What update keeps *)

\* One unfolding of the fold that Updated is.
KeepUnfold(P, N, g, s) ==
    IF s = {} THEN << >>
    ELSE IF P[Max(s)].nonce >= N[P[Max(s)].sender] THEN Append(g[s \ {Max(s)}], P[Max(s)])
                                                   ELSE g[s \ {Max(s)}]
KeepIter(P, N) == CHOOSE g : g = [s \in SUBSET (DOMAIN P) |-> KeepUnfold(P, N, g, s)]

LEMMA UpdatedIsIter ==
    ASSUME NEW P, NEW N
    PROVE  Updated(P, N) = KeepIter(P, N)[DOMAIN P]
BY DEF Updated, FoldLeft, MapThenFoldSet, KeepIter, KeepUnfold

\* Sets of positions of a sequence: their largest member, and one member less.
LEMMA Positions ==
    ASSUME NEW n \in Nat, NEW s \in SUBSET (1 .. n)
    PROVE  /\ IsFiniteSet(s) /\ Cardinality(s) \in Nat
           /\ s # {} => /\ Max(s) \in s
                        /\ s \ {Max(s)} \in SUBSET (1 .. n)
                        /\ Cardinality(s \ {Max(s)}) = Cardinality(s) - 1
<1>1. IsFiniteSet(1 .. n)
  BY FS_Interval
<1>2. IsFiniteSet(s) /\ Cardinality(s) \in Nat
  BY <1>1, FS_Subset, FS_CardinalityType
<1>3. s # {} => Max(s) \in s
  <2>1. s \in SUBSET Nat /\ \A i \in s : i <= n
    OBVIOUS
  <2> QED BY <2>1, MaxOf
<1> QED BY <1>2, <1>3, FS_RemoveElement

LEMMA MaxOfInterval ==
    ASSUME NEW n \in Nat
    PROVE  /\ Max(1 .. n + 1) = n + 1
           /\ (1 .. n + 1) \ {n + 1} = 1 .. n
           /\ 1 .. n + 1 # {}
<1> DEFINE S == 1 .. n + 1
<1>1. S \in SUBSET Nat /\ n + 1 \in S /\ n + 1 \in Nat /\ \A i \in S : i <= n + 1
  OBVIOUS
<1>2. Max(S) \in S /\ \A j \in S : j <= Max(S)
  <2> HIDE DEF S
  <2> QED BY <1>1, MaxOf
<1>3. Max(S) <= n + 1 /\ n + 1 <= Max(S) /\ Max(S) \in Nat
  BY <1>1, <1>2
<1>4. Max(S) = n + 1
  BY <1>3
<1> QED BY <1>4

\* The recursion of the fold has a solution.
LEMMA KeepIterDefines ==
    ASSUME NEW P, NEW N, NEW len \in Nat, DOMAIN P = 1 .. len
    PROVE  \A s \in SUBSET (1 .. len) : KeepIter(P, N)[s] = KeepUnfold(P, N, KeepIter(P, N), s)
<1> DEFINE Sub(n) == {s \in SUBSET (1 .. len) : Cardinality(s) <= n}
           Good(g, n) == g = [s \in Sub(n) |-> KeepUnfold(P, N, g, s)]
           T == {n \in Nat : \E g : Good(g, n)}
<1>1. 0 \in T
  <2> DEFINE g == [s \in Sub(0) |-> << >>]
  <2>1. \A s \in Sub(0) : s = {}
    <3>1. SUFFICES ASSUME NEW s \in Sub(0) PROVE s = {}
      OBVIOUS
    <3>2. IsFiniteSet(s) /\ Cardinality(s) \in Nat /\ Cardinality(s) <= 0
      BY Positions
    <3> QED BY <3>2, FS_EmptySet
  <2>2. \A s \in Sub(0) : KeepUnfold(P, N, g, s) = << >>
    BY <2>1 DEF KeepUnfold
  <2>3. Good(g, 0)
    BY <2>2
  <2> QED BY <2>3
<1>2. ASSUME NEW n \in Nat, n \in T PROVE n + 1 \in T
  <2>1. PICK g : Good(g, n)
    BY <1>2
  <2> DEFINE h == [s \in Sub(n + 1) |-> KeepUnfold(P, N, g, s)]
  <2>2. ASSUME NEW s \in Sub(n + 1), s # {}
        PROVE  h[s \ {Max(s)}] = g[s \ {Max(s)}]
    <3> DEFINE r == s \ {Max(s)}
    <3>1. r \in SUBSET (1 .. len) /\ Cardinality(r) <= n /\ Cardinality(r) <= n + 1
      BY <2>2, Positions
    <3>2. r \in Sub(n) /\ r \in Sub(n + 1)
      BY <3>1
    <3>3. g[r] = KeepUnfold(P, N, g, r) /\ h[r] = KeepUnfold(P, N, g, r)
      <4> HIDE DEF r, Sub
      <4> QED BY <2>1, <3>2
    <3> QED BY <3>3
  <2>3. \A s \in Sub(n + 1) : KeepUnfold(P, N, g, s) = KeepUnfold(P, N, h, s)
    <3> HIDE DEF h, Sub
    <3> QED BY <2>2 DEF KeepUnfold
  <2>4. Good(h, n + 1)
    BY <2>3
  <2> HIDE DEF h, Good
  <2> QED BY <2>4
<1>3. len \in T
  <2> HIDE DEF T
  <2> QED BY <1>1, <1>2, NaturalInduction
<1>4. Sub(len) = SUBSET (1 .. len)
  <2>1. ASSUME NEW s \in SUBSET (1 .. len) PROVE Cardinality(s) <= len
    <3>1. IsFiniteSet(1 .. len) /\ Cardinality(1 .. len) = IF 1 > len THEN 0 ELSE len - 1 + 1
      BY FS_Interval
    <3>2. Cardinality(1 .. len) = len
      BY <3>1
    <3> QED BY <3>1, <3>2, FS_Subset
  <2> QED BY <2>1
<1>5. \E g : g = [s \in SUBSET (1 .. len) |-> KeepUnfold(P, N, g, s)]
  <2>1. PICK g : Good(g, len)
    BY <1>3
  <2>2. g = [s \in Sub(len) |-> KeepUnfold(P, N, g, s)]
    BY <2>1
  <2> HIDE DEF Sub, Good
  <2>3. g = [s \in SUBSET (1 .. len) |-> KeepUnfold(P, N, g, s)]
    BY <1>4, <2>2
  <2> QED BY <2>3
<1>6. KeepIter(P, N) = [s \in SUBSET (1 .. len) |-> KeepUnfold(P, N, KeepIter(P, N), s)]
  BY <1>5 DEF KeepIter
<1> DEFINE k == KeepIter(P, N)
<1> HIDE DEF k
<1>7. k = [s \in SUBSET (1 .. len) |-> KeepUnfold(P, N, k, s)]
  BY <1>6 DEF k
<1>8. \A s \in SUBSET (1 .. len) : k[s] = KeepUnfold(P, N, k, s)
  BY <1>7
<1> QED BY <1>8 DEF k

\* update keeps exactly what no block has consumed.
LEMMA UpdatedKeeps ==
    ASSUME NEW X, NEW P \in Seq(X), NEW N
    PROVE  /\ Updated(P, N) \in Seq(X)
           /\ Range(Updated(P, N)) = {tx \in Range(P) : tx.nonce >= N[tx.sender]}
           /\ Len(Updated(P, N)) <= Len(P)
<1> DEFINE len == Len(P)
           k == KeepIter(P, N)
           Kept(n) == {tx \in {P[i] : i \in 1 .. n} : tx.nonce >= N[tx.sender]}
           T == {n \in Nat : n <= len => /\ k[1 .. n] \in Seq(X) /\ Range(k[1 .. n]) = Kept(n)
                                        /\ Len(k[1 .. n]) <= n}
<1>1. len \in Nat /\ DOMAIN P = 1 .. len /\ \A i \in 1 .. len : P[i] \in X
  OBVIOUS
<1>2. \A s \in SUBSET (1 .. len) : k[s] = KeepUnfold(P, N, k, s)
  BY <1>1, KeepIterDefines
<1> HIDE DEF k, len
<1>3. 0 \in T
  <2>1. 1 .. 0 = {} /\ {} \in SUBSET (1 .. len)
    BY <1>1
  <2>2. k[1 .. 0] = << >>
    BY <1>2, <2>1 DEF KeepUnfold
  <2>3. Range(<< >>) = {} /\ Kept(0) = {} /\ << >> \in Seq(X)
    BY <2>1 DEF Range
  <2>4. Len(k[1 .. 0]) <= 0
    BY <2>2
  <2> DEFINE first == k[1 .. 0]
  <2>5. first \in Seq(X) /\ Range(first) = Kept(0) /\ Len(first) <= 0
    <3> HIDE DEF Kept
    <3> QED BY <2>2, <2>3, <2>4
  <2> HIDE DEF Kept, first
  <2> QED BY <2>5 DEF first
<1>4. ASSUME NEW n \in Nat, n \in T PROVE n + 1 \in T
  <2>1. SUFFICES ASSUME n + 1 <= len
                 PROVE  /\ k[1 .. n + 1] \in Seq(X) /\ Range(k[1 .. n + 1]) = Kept(n + 1)
                        /\ Len(k[1 .. n + 1]) <= n + 1
    BY <1>4
  <2>2. /\ k[1 .. n] \in Seq(X) /\ Range(k[1 .. n]) = Kept(n) /\ P[n + 1] \in X
        /\ Len(k[1 .. n]) <= n /\ Len(k[1 .. n]) \in Nat
    BY <1>1, <1>4, <2>1
  <2>3. /\ k[1 .. n + 1] = KeepUnfold(P, N, k, 1 .. n + 1)
        /\ 1 .. n + 1 = (1 .. n) \cup {n + 1}
    BY <1>1, <1>2, <2>1
  <2> DEFINE tx == P[n + 1]
             old == k[1 .. n]
             keep == tx.nonce >= N[tx.sender]
  <2>4. k[1 .. n + 1] = IF keep THEN Append(old, tx) ELSE old
    BY <2>3, MaxOfInterval DEF KeepUnfold
  <2>5. Kept(n + 1) = IF keep THEN Kept(n) \cup {tx} ELSE Kept(n)
    BY <2>3
  <2>6. /\ Append(old, tx) \in Seq(X) /\ Range(Append(old, tx)) = Range(old) \cup {tx}
        /\ Len(Append(old, tx)) = Len(old) + 1
    <3> HIDE DEF old, tx
    <3>1. old \in Seq(X) /\ tx \in X
      BY <2>2 DEF old, tx
    <3> QED BY <3>1, AppendRange
  <2> DEFINE new == k[1 .. n + 1]
  <2>7. old \in Seq(X) /\ Range(old) = Kept(n) /\ Len(old) <= n /\ Len(old) \in Nat
    BY <2>2
  <2> HIDE DEF keep, old, tx, Kept, new
  <2>8. new = IF keep THEN Append(old, tx) ELSE old
    BY <2>4 DEF new
  <2>9. new \in Seq(X) /\ Range(new) = Kept(n + 1)
    BY <2>5, <2>6, <2>7, <2>8
  <2>10. Len(new) <= n + 1
    <3>1. CASE keep
      BY <2>6, <2>7, <2>8, <3>1
    <3>2. CASE ~keep
      BY <2>7, <2>8, <3>2
    <3> QED BY <3>1, <3>2
  <2> QED BY <2>9, <2>10 DEF new
<1>5. len \in T
  <2> HIDE DEF T
  <2> QED BY <1>1, <1>3, <1>4, NaturalInduction
<1>6. Range(P) = {P[i] : i \in 1 .. len}
  BY <1>1 DEF Range
<1>7. Updated(P, N) = k[1 .. len]
  BY <1>1, UpdatedIsIter DEF k
<1> QED BY <1>1, <1>5, <1>6, <1>7

-----------------------------------------------------------------------------
(* The fee-priority merge *)

\* ready, as select builds it.
ReadyRuns(P, N, B, u) == [a \in DOMAIN N |-> Ready(P, N, B, u, a)]

\* One unfolding of the fold that select is.
Rounds == [round \in 1 .. MAX_TXS_PER_BLOCK |-> round]
MergeUnfold(P, R, g, s) == IF s = {} THEN << >> ELSE MergeStep(P, R, g[s \ {Max(s)}])
MergeIter(P, R) == CHOOSE g : g = [s \in SUBSET (DOMAIN Rounds) |-> MergeUnfold(P, R, g, s)]

LEMMA SelectIsIter ==
    ASSUME NEW P, NEW N, NEW B, NEW u
    PROVE  Select(P, N, B, u) = MergeIter(P, ReadyRuns(P, N, B, u))[DOMAIN Rounds]
<1> DEFINE R == [a \in DOMAIN N |-> Ready(P, N, B, u, a)]
<1>1. Select(P, N, B, u) = FoldLeft(LAMBDA sel, round : MergeStep(P, R, sel), << >>, Rounds)
  BY DEF Select, Rounds
<1> HIDE DEF R
<1>2. FoldLeft(LAMBDA sel, round : MergeStep(P, R, sel), << >>, Rounds)
        = MergeIter(P, R)[DOMAIN Rounds]
  BY DEF FoldLeft, MapThenFoldSet, MergeIter, MergeUnfold
<1> QED BY <1>1, <1>2 DEF R, ReadyRuns

LEMMA MergeIterDefines ==
    ASSUME NEW P, NEW R
    PROVE  \A s \in SUBSET (1 .. MAX_TXS_PER_BLOCK) :
              MergeIter(P, R)[s] = MergeUnfold(P, R, MergeIter(P, R), s)
<1> DEFINE len == MAX_TXS_PER_BLOCK
           Sub(n) == {s \in SUBSET (1 .. len) : Cardinality(s) <= n}
           Good(g, n) == g = [s \in Sub(n) |-> MergeUnfold(P, R, g, s)]
           T == {n \in Nat : \E g : Good(g, n)}
<1>0. len \in Nat /\ DOMAIN Rounds = 1 .. len
  BY PoolAssumption DEF Rounds
<1> HIDE DEF len
<1>1. 0 \in T
  <2> DEFINE g == [s \in Sub(0) |-> << >>]
  <2>1. \A s \in Sub(0) : s = {}
    <3>1. SUFFICES ASSUME NEW s \in Sub(0) PROVE s = {}
      OBVIOUS
    <3>2. IsFiniteSet(s) /\ Cardinality(s) \in Nat /\ Cardinality(s) <= 0
      BY <1>0, Positions
    <3> QED BY <3>2, FS_EmptySet
  <2>2. \A s \in Sub(0) : MergeUnfold(P, R, g, s) = << >>
    BY <2>1 DEF MergeUnfold
  <2>3. Good(g, 0)
    BY <2>2
  <2> QED BY <2>3
<1>2. ASSUME NEW n \in Nat, n \in T PROVE n + 1 \in T
  <2>1. PICK g : Good(g, n)
    BY <1>2
  <2> DEFINE h == [s \in Sub(n + 1) |-> MergeUnfold(P, R, g, s)]
  <2>2. ASSUME NEW s \in Sub(n + 1), s # {}
        PROVE  h[s \ {Max(s)}] = g[s \ {Max(s)}]
    <3> DEFINE r == s \ {Max(s)}
    <3>1. r \in SUBSET (1 .. len) /\ Cardinality(r) <= n /\ Cardinality(r) <= n + 1
      BY <1>0, <2>2, Positions
    <3>2. r \in Sub(n) /\ r \in Sub(n + 1)
      BY <3>1
    <3>3. g[r] = MergeUnfold(P, R, g, r) /\ h[r] = MergeUnfold(P, R, g, r)
      <4> HIDE DEF r, Sub
      <4> QED BY <2>1, <3>2
    <3> QED BY <3>3
  <2>3. \A s \in Sub(n + 1) : MergeUnfold(P, R, g, s) = MergeUnfold(P, R, h, s)
    <3> HIDE DEF h, Sub
    <3> QED BY <2>2 DEF MergeUnfold
  <2>4. Good(h, n + 1)
    BY <2>3
  <2> HIDE DEF h, Good
  <2> QED BY <2>4
<1>3. len \in T
  <2> HIDE DEF T
  <2> QED BY <1>0, <1>1, <1>2, NaturalInduction
<1>4. Sub(len) = SUBSET (1 .. len)
  <2>1. ASSUME NEW s \in SUBSET (1 .. len) PROVE Cardinality(s) <= len
    <3>1. IsFiniteSet(1 .. len) /\ Cardinality(1 .. len) = IF 1 > len THEN 0 ELSE len - 1 + 1
      BY <1>0, FS_Interval
    <3>2. Cardinality(1 .. len) = len
      BY <1>0, <3>1
    <3> QED BY <3>1, <3>2, FS_Subset
  <2> QED BY <2>1
<1>5. \E g : g = [s \in SUBSET (1 .. len) |-> MergeUnfold(P, R, g, s)]
  <2>1. PICK g : Good(g, len)
    BY <1>3
  <2>2. g = [s \in Sub(len) |-> MergeUnfold(P, R, g, s)]
    BY <2>1
  <2> HIDE DEF Sub, Good
  <2>3. g = [s \in SUBSET (1 .. len) |-> MergeUnfold(P, R, g, s)]
    BY <1>4, <2>2
  <2> QED BY <2>3
<1>6. \E g : g = [s \in SUBSET (DOMAIN Rounds) |-> MergeUnfold(P, R, g, s)]
  BY <1>0, <1>5
<1> DEFINE k == MergeIter(P, R)
<1>7. k = [s \in SUBSET (DOMAIN Rounds) |-> MergeUnfold(P, R, k, s)]
  BY <1>6 DEF MergeIter
<1> HIDE DEF k
<1>8. \A s \in SUBSET (1 .. len) : k[s] = MergeUnfold(P, R, k, s)
  BY <1>0, <1>7
<1> QED BY <1>8 DEF k, len

\* Fees in a pool are bounded.
LEMMA FeesBounded ==
    ASSUME NEW P \in Seq(PoolTxs)
    PROVE  \E B \in Nat : \A i \in 1 .. Len(P) : P[i].fee <= B
<1> DEFINE len == Len(P)
           T == {n \in Nat : n <= len => \E B \in Nat : \A i \in 1 .. n : P[i].fee <= B}
<1>1. len \in Nat /\ \A i \in 1 .. len : P[i].fee \in Nat
  BY PoolTxType
<1> HIDE DEF len
<1>2. 0 \in T
  OBVIOUS
<1>3. ASSUME NEW n \in Nat, n \in T PROVE n + 1 \in T
  <2>1. SUFFICES ASSUME n + 1 <= len PROVE \E B \in Nat : \A i \in 1 .. n + 1 : P[i].fee <= B
    BY <1>3
  <2>2. PICK B \in Nat : \A i \in 1 .. n : P[i].fee <= B
    BY <1>1, <1>3, <2>1
  <2>3. P[n + 1].fee \in Nat
    BY <1>1, <2>1
  <2>4. \A i \in 1 .. n + 1 : i \in 1 .. len /\ (i \in 1 .. n \/ i = n + 1)
    BY <1>1, <2>1
  <2>5. ASSUME NEW i \in 1 .. n + 1 PROVE P[i].fee <= B + P[n + 1].fee
    <3>1. P[i].fee \in Nat
      BY <1>1, <2>4
    <3>2. CASE i \in 1 .. n
      <4>1. P[i].fee <= B
        BY <2>2, <3>2
      <4> QED BY <2>3, <3>1, <4>1
    <3>3. CASE i = n + 1
      BY <2>3, <3>3
    <3> QED BY <2>4, <3>2, <3>3
  <2>6. B + P[n + 1].fee \in Nat
    BY <2>3
  <2> QED BY <2>5, <2>6
<1>4. len \in T
  <2> HIDE DEF T
  <2> QED BY <1>1, <1>2, <1>3, NaturalInduction
<1> QED BY <1>1, <1>4 DEF len

\* A round has a sender to take from: the one whose head pays most, of equal ones the one
\* that comes first in the pool.
LEMMA BestExists ==
    ASSUME NEW P \in Seq(PoolTxs), NEW open, open # {}, NEW h,
           \A a \in open : h[a] \in Range(P) /\ h[a].sender = a
    PROVE  \E a \in open : \A b \in open \ {a} :
              \/ h[a].fee > h[b].fee
              \/ h[a].fee = h[b].fee /\ ComesBefore(P, a, b)
<1>1. PICK B \in Nat : \A i \in 1 .. Len(P) : P[i].fee <= B
  BY FeesBounded
<1>2. Len(P) \in Nat /\ DOMAIN P = 1 .. Len(P) /\ \A i \in 1 .. Len(P) : P[i].fee \in Nat
  BY PoolTxType
<1>3. \A a \in open : h[a].fee \in Nat /\ h[a].fee <= B
  BY <1>1, <1>2 DEF Range
<1> DEFINE fees == {h[a].fee : a \in open}
           F == Max(fees)
           I == {i \in DOMAIN P : P[i].sender \in open /\ h[P[i].sender].fee = F}
<1>4. F \in fees /\ \A f \in fees : f <= F
  <2>1. fees \in SUBSET Nat /\ fees # {} /\ \A f \in fees : f <= B
    BY <1>3
  <2> HIDE DEF fees
  <2> QED BY <2>1, MaxOf
<1>5. F \in Nat /\ \A a \in open : h[a].fee <= F
  BY <1>3, <1>4
<1>6. PICK c \in open : h[c].fee = F
  BY <1>4
<1> HIDE DEF F, fees
<1>7. I \subseteq Nat /\ I # {}
  <2>1. PICK i \in DOMAIN P : P[i] = h[c]
    BY <1>6 DEF Range
  <2>2. P[i].sender = c
    BY <2>1, <1>6
  <2> QED BY <1>2, <1>6, <2>1, <2>2
<1>8. PICK i \in I : \A j \in I : i <= j
  <2> HIDE DEF I
  <2> QED BY <1>7, LeastNatural
<1> DEFINE a == P[i].sender
<1>9. a \in open /\ h[a].fee = F /\ i \in DOMAIN P
  BY <1>8
<1>10. ASSUME NEW b \in open \ {a}, ~(F > h[b].fee) PROVE ComesBefore(P, a, b)
  <2>1. h[b].fee = F
    BY <1>3, <1>5, <1>10
  <2>2. ASSUME NEW j \in 1 .. i, P[j].sender = b PROVE FALSE
    <3>1. j # i /\ j \in DOMAIN P
      BY <1>2, <1>9, <2>2
    <3>2. j \in I
      BY <2>1, <2>2, <3>1
    <3>3. i <= j
      BY <1>8, <3>2
    <3> QED BY <1>2, <1>9, <3>1, <3>3
  <2> QED BY <1>9, <2>2 DEF ComesBefore
<1>11. \A b \in open \ {a} : \/ F > h[b].fee
                             \/ F = h[b].fee /\ ComesBefore(P, a, b)
  <2>1. SUFFICES ASSUME NEW b \in open \ {a}, ~(F > h[b].fee)
                 PROVE  F = h[b].fee /\ ComesBefore(P, a, b)
    OBVIOUS
  <2>2. F = h[b].fee
    BY <1>3, <1>5, <2>1
  <2> QED BY <1>10, <2>1, <2>2
<1> HIDE DEF a
<1> QED BY <1>9, <1>11

\* A sender's run: transactions of the pool, one for each nonce from the next one on.
LEMMA ReadyRun ==
    ASSUME NEW P \in Seq(PoolTxs), NEW N \in [Addr -> Nat], NEW B, NEW u, NEW a \in Addr
    PROVE  LET R == Ready(P, N, B, u, a)
           IN  /\ R \in Seq(Range(P))
               /\ \A i \in 1 .. Len(R) : /\ R[i].sender = a
                                         /\ R[i].nonce = N[a] + (i - 1)
                                         /\ R[i] = FirstWaiting(P, a, N[a] + (i - 1))
               /\ Len(R) = 0 \/ Takes(P, N, B, u, a, Len(R))
<1> DEFINE K == {k \in 0 .. Len(P) : Takes(P, N, B, u, a, k)} \cup {0}
           len == Max(K)
           R == [i \in 1 .. len |-> FirstWaiting(P, a, N[a] + i - 1)]
<1>1. Len(P) \in Nat /\ DOMAIN P = 1 .. Len(P) /\ N[a] \in Nat
  OBVIOUS
<1>2. len \in K
  <2>1. K \in SUBSET Nat /\ K # {} /\ \A k \in K : k <= Len(P)
    BY <1>1
  <2> HIDE DEF K
  <2> QED BY <1>1, <2>1, MaxOf
<1>3. len \in Nat /\ (len = 0 \/ Takes(P, N, B, u, a, len))
  BY <1>1, <1>2
<1>4. Ready(P, N, B, u, a) = R
  BY DEF Ready
<1> HIDE DEF len, K
<1>5. ASSUME NEW i \in 1 .. len
      PROVE  LET tx == FirstWaiting(P, a, N[a] + (i - 1))
             IN  R[i] = tx /\ tx \in Range(P) /\ tx.sender = a /\ tx.nonce = N[a] + (i - 1)
  <2> DEFINE W == Waiting(P, a, N[a] + (i - 1))
             tx == FirstWaiting(P, a, N[a] + (i - 1))
  <2>1. i - 1 \in 0 .. len - 1 /\ len # 0 /\ N[a] + i - 1 = N[a] + (i - 1)
    BY <1>1, <1>3
  <2>2. W # {}
    BY <1>3, <2>1 DEF Takes
  <2>3. W \in SUBSET Nat /\ W \subseteq DOMAIN P
    BY <1>1 DEF Waiting
  <2>4. Min(W) \in W
    <3> HIDE DEF W
    <3> QED BY <2>2, <2>3, MinOf
  <2>5. Min(W) \in DOMAIN P /\ P[Min(W)].sender = a /\ P[Min(W)].nonce = N[a] + (i - 1)
    BY <2>4 DEF Waiting
  <2>6. tx = P[Min(W)]
    BY DEF FirstWaiting
  <2>7. R[i] = tx
    BY <2>1
  <2> HIDE DEF W, tx
  <2> QED BY <2>5, <2>6, <2>7 DEF Range, tx
<1>6. R \in Seq(Range(P)) /\ Len(R) = len
  <2>1. R \in [1 .. len -> Range(P)]
    <3>1. \A i \in 1 .. len : R[i] \in Range(P)
      BY <1>5
    <3>2. R = [i \in 1 .. len |-> R[i]]
      OBVIOUS
    <3> HIDE DEF R
    <3> QED BY <3>1, <3>2
  <2> HIDE DEF R
  <2> QED BY <1>3, <2>1
<1> HIDE DEF R
<1> QED BY <1>3, <1>4, <1>5, <1>6

-----------------------------------------------------------------------------
(* What the merge has selected *)

\* How many of the first n selected transactions are of sender a.
OwnPositions(sel, a, n) == {i \in 1 .. n : sel[i].sender = a}
Count(sel, a, n) == Cardinality(OwnPositions(sel, a, n))

\* Runs of the senders, as select builds them.
RunsOK(P, N, R) ==
    /\ DOMAIN R = Addr
    /\ \A a \in Addr : /\ R[a] \in Seq(Range(P))
                       /\ \A i \in 1 .. Len(R[a]) : /\ R[a][i].sender = a
                                                    /\ R[a][i].nonce = N[a] + (i - 1)

\* Every selected transaction is the head of its sender's run after those of that sender
\* before it, and pays at least what the head of every other run pays at that time.
Merged(R, sel) ==
    /\ sel \in Seq(PoolTxs)
    /\ \A i \in 1 .. Len(sel) :
          LET c == Count(sel, sel[i].sender, i - 1)
          IN  c < Len(R[sel[i].sender]) /\ sel[i] = R[sel[i].sender][c + 1]
    /\ \A i \in 1 .. Len(sel), b \in Addr :
          LET c == Count(sel, b, i - 1)
          IN  c < Len(R[b]) => R[b][c + 1].fee <= sel[i].fee

LEMMA CountType ==
    ASSUME NEW sel, NEW a, NEW n \in Nat
    PROVE  /\ IsFiniteSet(OwnPositions(sel, a, n)) /\ Count(sel, a, n) \in Nat
           /\ Count(sel, a, 0) = 0
<1>1. OwnPositions(sel, a, n) \in SUBSET (1 .. n) /\ OwnPositions(sel, a, 0) = {}
  BY DEF OwnPositions
<1> QED BY <1>1, Positions, FS_EmptySet DEF Count

\* Every round keeps that.
LEMMA MergeStepKeeps ==
    ASSUME NEW P \in Seq(PoolTxs), NEW N \in [Addr -> Nat], NEW R, RunsOK(P, N, R),
           NEW sel, Merged(R, sel)
    PROVE  Merged(R, MergeStep(P, R, sel))
<1> DEFINE n == Len(sel)
           taken(a) == Cardinality({i \in DOMAIN sel : sel[i].sender = a})
           open == {a \in DOMAIN R : taken(a) < Len(R[a])}
           next(a) == R[a][taken(a) + 1]
           Best(a) == \A b \in open \ {a} : \/ next(a).fee > next(b).fee
                                            \/ next(a).fee = next(b).fee /\ ComesBefore(P, a, b)
           best == CHOOSE a \in open : Best(a)
<1>1. n \in Nat /\ DOMAIN sel = 1 .. n /\ sel \in Seq(PoolTxs)
  BY DEF Merged
<1>2. MergeStep(P, R, sel) = IF open = {} THEN sel ELSE Append(sel, next(best))
  BY DEF MergeStep
<1>3. \A a \in Addr : taken(a) = Count(sel, a, n) /\ taken(a) \in Nat
  <2>1. SUFFICES ASSUME NEW a \in Addr PROVE taken(a) = Count(sel, a, n)
    BY <1>1, CountType
  <2>2. {i \in DOMAIN sel : sel[i].sender = a} = OwnPositions(sel, a, n)
    BY <1>1 DEF OwnPositions
  <2> QED BY <2>2 DEF Count
<1>4. \A a \in open : /\ a \in Addr /\ next(a) \in Range(P) /\ next(a).sender = a
                      /\ next(a) \in PoolTxs
  <2>1. SUFFICES ASSUME NEW a \in open
                 PROVE  a \in Addr /\ next(a) \in Range(P) /\ next(a).sender = a
    BY RangeOfSeq
  <2>2. a \in Addr /\ R[a] \in Seq(Range(P)) /\ taken(a) < Len(R[a])
    BY DEF RunsOK
  <2>3. taken(a) \in Nat /\ Len(R[a]) \in Nat
    BY <1>3, <2>2
  <2>4. taken(a) + 1 \in 1 .. Len(R[a])
    BY <2>2, <2>3
  <2> QED BY <2>2, <2>4 DEF RunsOK
<1>5. CASE open = {}
  BY <1>2, <1>5
<1>6. CASE open # {}
  <2>1. \E a \in open : Best(a)
    <3> DEFINE h == [a \in open |-> next(a)]
    <3>1. \A a \in open : h[a] \in Range(P) /\ h[a].sender = a
      BY <1>4
    <3>2. PICK a \in open : \A b \in open \ {a} :
              \/ h[a].fee > h[b].fee
              \/ h[a].fee = h[b].fee /\ ComesBefore(P, a, b)
      <4> HIDE DEF h, open
      <4> QED BY <1>6, <3>1, BestExists
    <3>3. Best(a)
      BY <3>2
    <3> QED BY <3>3
  <2>2. best \in open /\ Best(best)
    <3> HIDE DEF open, Best
    <3> QED BY <2>1
  <2> DEFINE tx == next(best)
             new == Append(sel, tx)
  <2>3. tx.sender = best /\ tx \in PoolTxs /\ best \in Addr
    BY <1>4, <2>2
  <2>4. \A b \in open : next(b).fee <= tx.fee
    <3>1. SUFFICES ASSUME NEW b \in open PROVE next(b).fee <= tx.fee
      OBVIOUS
    <3>2. next(b).fee \in Nat /\ tx.fee \in Nat
      BY <1>4, <2>3, PoolTxType
    <3>3. CASE b = best
      <4>1. next(b) = tx
        BY <3>3
      <4> HIDE DEF next, tx
      <4> QED BY <3>2, <4>1
    <3>4. CASE b # best
      <4>1. tx.fee > next(b).fee \/ tx.fee = next(b).fee
        BY <2>2, <3>4
      <4> HIDE DEF next
      <4> QED BY <3>2, <4>1
    <3> QED BY <3>3, <3>4
  <2>5. \A b \in Addr : Count(sel, b, n) < Len(R[b]) => R[b][Count(sel, b, n) + 1].fee <= tx.fee
    <3>1. SUFFICES ASSUME NEW b \in Addr, Count(sel, b, n) < Len(R[b])
                   PROVE  R[b][Count(sel, b, n) + 1].fee <= tx.fee
      OBVIOUS
    <3>2. b \in open /\ next(b) = R[b][Count(sel, b, n) + 1]
      BY <1>3, <3>1 DEF RunsOK
    <3> HIDE DEF next, open, tx
    <3> QED BY <2>4, <3>2
  <2>6. Count(sel, best, n) < Len(R[best]) /\ tx = R[best][Count(sel, best, n) + 1]
    BY <1>3, <2>2, <2>3
  <2> HIDE DEF tx, best, open, Best, taken, next
  <2>7. /\ new \in Seq(PoolTxs) /\ Len(new) = n + 1 /\ new[n + 1] = tx
        /\ \A i \in 1 .. n : new[i] = sel[i]
    BY <1>1, <2>3
  <2> HIDE DEF new
  <2>8. ASSUME NEW i \in 1 .. n + 1, NEW b PROVE Count(new, b, i - 1) = Count(sel, b, i - 1)
    <3>1. \A j \in 1 .. i - 1 : j \in 1 .. n
      BY <1>1
    <3>2. OwnPositions(new, b, i - 1) = OwnPositions(sel, b, i - 1)
      BY <2>7, <3>1 DEF OwnPositions
    <3> QED BY <3>2 DEF Count
  <2>9. ASSUME NEW i \in 1 .. n + 1
        PROVE  LET c == Count(new, new[i].sender, i - 1)
               IN  c < Len(R[new[i].sender]) /\ new[i] = R[new[i].sender][c + 1]
    <3>1. CASE i \in 1 .. n
      BY <2>7, <2>8, <3>1 DEF Merged
    <3>2. CASE i = n + 1
      <4>1. i - 1 = n /\ new[i] = tx
        BY <1>1, <2>7, <3>2
      <4> QED BY <2>3, <2>6, <2>8, <4>1
    <3> QED BY <1>1, <3>1, <3>2
  <2>10. ASSUME NEW i \in 1 .. n + 1, NEW b \in Addr
         PROVE  LET c == Count(new, b, i - 1)
                IN  c < Len(R[b]) => R[b][c + 1].fee <= new[i].fee
    <3>1. CASE i \in 1 .. n
      BY <2>7, <2>8, <3>1 DEF Merged
    <3>2. CASE i = n + 1
      <4>1. i - 1 = n /\ new[i] = tx
        BY <1>1, <2>7, <3>2
      <4> QED BY <2>5, <2>8, <4>1
    <3> QED BY <1>1, <3>1, <3>2
  <2>11. Merged(R, new)
    BY <2>7, <2>9, <2>10 DEF Merged
  <2> QED BY <1>2, <1>6, <2>11 DEF new, tx
<1> QED BY <1>5, <1>6

\* What select returns was merged from the runs.
LEMMA SelectMerges ==
    ASSUME NEW P \in Seq(PoolTxs), NEW N \in [Addr -> Nat], NEW B, NEW u
    PROVE  LET R == ReadyRuns(P, N, B, u)
           IN  RunsOK(P, N, R) /\ Merged(R, Select(P, N, B, u))
<1> DEFINE R == ReadyRuns(P, N, B, u)
           k == MergeIter(P, R)
           len == MAX_TXS_PER_BLOCK
           T == {n \in Nat : n <= len => Merged(R, k[1 .. n])}
<1>1. RunsOK(P, N, R)
  <2>1. DOMAIN R = Addr /\ \A a \in Addr : R[a] = Ready(P, N, B, u, a)
    BY DEF ReadyRuns
  <2> HIDE DEF R
  <2> QED BY <2>1, ReadyRun DEF RunsOK
<1>2. len \in Nat /\ DOMAIN Rounds = 1 .. len
  BY PoolAssumption DEF Rounds
<1>3. \A s \in SUBSET (1 .. len) : k[s] = MergeUnfold(P, R, k, s)
  BY MergeIterDefines
<1> HIDE DEF k, len, R
<1>4. 0 \in T
  <2>1. 1 .. 0 = {} /\ {} \in SUBSET (1 .. len)
    BY <1>2
  <2>2. k[1 .. 0] = << >>
    BY <1>3, <2>1 DEF MergeUnfold
  <2>3. Merged(R, << >>)
    BY DEF Merged
  <2> QED BY <2>2, <2>3
<1>5. ASSUME NEW n \in Nat, n \in T PROVE n + 1 \in T
  <2>1. SUFFICES ASSUME n + 1 <= len PROVE Merged(R, k[1 .. n + 1])
    BY <1>5
  <2>2. Merged(R, k[1 .. n]) /\ 1 .. n + 1 \in SUBSET (1 .. len)
    BY <1>2, <1>5, <2>1
  <2>3. k[1 .. n + 1] = MergeStep(P, R, k[1 .. n])
    <3> DEFINE s == 1 .. n + 1
    <3>1. s # {} /\ s \ {Max(s)} = 1 .. n
      BY MaxOfInterval
    <3>2. k[s] = MergeUnfold(P, R, k, s)
      BY <1>3, <2>2
    <3> HIDE DEF s
    <3>3. k[s] = MergeStep(P, R, k[s \ {Max(s)}])
      BY <3>1, <3>2 DEF MergeUnfold
    <3> QED BY <3>1, <3>3 DEF s
  <2> QED BY <1>1, <2>2, <2>3, MergeStepKeeps
<1>6. len \in T
  <2> HIDE DEF T
  <2> QED BY <1>2, <1>4, <1>5, NaturalInduction
<1>7. Select(P, N, B, u) = k[1 .. len]
  BY <1>2, SelectIsIter DEF k, R
<1>8. RunsOK(P, N, R) /\ Merged(R, Select(P, N, B, u))
  BY <1>1, <1>2, <1>6, <1>7
<1> QED BY <1>8 DEF R

\* A transaction of a sender is selected with the nonce after those selected before it.
LEMMA MergedNonces ==
    ASSUME NEW P \in Seq(PoolTxs), NEW N \in [Addr -> Nat], NEW R, RunsOK(P, N, R),
           NEW sel, Merged(R, sel), NEW i \in 1 .. Len(sel)
    PROVE  /\ sel[i] \in PoolTxs /\ sel[i].sender \in Addr /\ sel[i].fee \in Nat
           /\ sel[i].nonce = N[sel[i].sender] + Count(sel, sel[i].sender, i - 1)
<1> DEFINE a == sel[i].sender
           c == Count(sel, a, i - 1)
<1>1. sel \in Seq(PoolTxs) /\ i - 1 \in Nat
  BY DEF Merged
<1>2. sel[i] \in PoolTxs /\ a \in Addr /\ sel[i].fee \in Nat
  BY <1>1, PoolTxType, ElementOfSeq
<1>3. c \in Nat
  BY <1>1, CountType
<1>4. c < Len(R[a]) /\ sel[i] = R[a][c + 1] /\ R[a] \in Seq(Range(P))
  BY <1>2 DEF Merged, RunsOK
<1> HIDE DEF c
<1>5. c + 1 \in 1 .. Len(R[a]) /\ (c + 1) - 1 = c
  <2> DEFINE l == Len(R[a])
  <2>1. l \in Nat /\ c < l
    BY <1>4
  <2> HIDE DEF l
  <2>2. c + 1 \in 1 .. l /\ (c + 1) - 1 = c
    BY <1>3, <2>1
  <2> QED BY <2>2 DEF l
<1>6. R[a][c + 1].nonce = N[a] + c
  BY <1>2, <1>5 DEF RunsOK
<1> QED BY <1>2, <1>4, <1>6 DEF c

LEMMA MergedIsFeeOrdered ==
    ASSUME NEW P \in Seq(PoolTxs), NEW N \in [Addr -> Nat], NEW R, RunsOK(P, N, R),
           NEW sel, Merged(R, sel)
    PROVE  FeeOrdered(sel)
<1>1. Len(sel) \in Nat /\ DOMAIN sel = 1 .. Len(sel)
  BY DEF Merged
<1>2. SUFFICES ASSUME NEW i \in 1 .. Len(sel), NEW j \in 1 .. Len(sel), i < j,
                      sel[i].fee < sel[j].fee
               PROVE  \E k \in i .. j - 1 : /\ sel[k].sender = sel[j].sender
                                            /\ sel[k].nonce < sel[j].nonce
  BY <1>1 DEF FeeOrdered
<1> DEFINE b == sel[j].sender
<1>3. /\ b \in Addr /\ sel[j].fee \in Nat /\ sel[i].fee \in Nat
      /\ sel[j].nonce = N[b] + Count(sel, b, j - 1)
  BY <1>2, MergedNonces
<1>4. \E k \in i .. j - 1 : sel[k].sender = b
  <2>1. SUFFICES ASSUME \A k \in i .. j - 1 : sel[k].sender # b PROVE FALSE
    OBVIOUS
  <2>2. OwnPositions(sel, b, i - 1) = OwnPositions(sel, b, j - 1)
    <3>1. \A k \in 1 .. i - 1 : k \in 1 .. j - 1
      BY <1>1, <1>2
    <3>2. \A k \in 1 .. j - 1 : k \in 1 .. i - 1 \/ k \in i .. j - 1
      BY <1>1, <1>2
    <3> HIDE DEF b
    <3> QED BY <2>1, <3>1, <3>2 DEF OwnPositions
  <2>3. Count(sel, b, i - 1) = Count(sel, b, j - 1)
    BY <2>2 DEF Count
  <2>4. /\ Count(sel, b, j - 1) < Len(R[b])
        /\ sel[j] = R[b][Count(sel, b, j - 1) + 1]
    BY DEF Merged
  <2>5. Count(sel, b, i - 1) < Len(R[b]) => R[b][Count(sel, b, i - 1) + 1].fee <= sel[i].fee
    BY <1>3 DEF Merged
  <2>6. sel[j].fee <= sel[i].fee
    BY <2>3, <2>4, <2>5
  <2> QED BY <1>2, <1>3, <2>6
<1>5. PICK k \in i .. j - 1 : sel[k].sender = b
  BY <1>4
<1>6. k \in 1 .. Len(sel) /\ k - 1 \in Nat /\ j - 1 \in Nat /\ k \in 1 .. j - 1
      /\ k \notin 1 .. k - 1 /\ \A m \in 1 .. k - 1 : m \in 1 .. j - 1
  BY <1>1, <1>2
<1>7. Count(sel, b, k - 1) < Count(sel, b, j - 1)
  <2> DEFINE A == OwnPositions(sel, b, k - 1)
             C == OwnPositions(sel, b, j - 1)
  <2>1. A \in SUBSET C /\ k \in C /\ k \notin A
    BY <1>5, <1>6 DEF OwnPositions
  <2>2. IsFiniteSet(C) /\ Cardinality(A) \in Nat /\ Cardinality(C) \in Nat
    BY <1>6, CountType DEF Count
  <2> HIDE DEF A, C
  <2>3. Cardinality(A) <= Cardinality(C) /\ (Cardinality(A) = Cardinality(C) => A = C)
    BY <2>1, <2>2, FS_Subset
  <2>4. Cardinality(A) < Cardinality(C)
    BY <2>1, <2>2, <2>3
  <2> QED BY <2>4 DEF A, C, Count
<1>8. sel[k].nonce = N[b] + Count(sel, b, k - 1)
  BY <1>5, <1>6, MergedNonces
<1>9. N[b] \in Nat /\ Count(sel, b, k - 1) \in Nat /\ Count(sel, b, j - 1) \in Nat
  BY <1>3, <1>6, CountType
<1>10. sel[k].nonce < sel[j].nonce
  BY <1>3, <1>7, <1>8, <1>9
<1> QED BY <1>5, <1>10

-----------------------------------------------------------------------------
(* What admission drops *)

\* A full pool has a cheapest transaction.
LEMMA CheapestIs ==
    ASSUME NEW P \in Seq(PoolTxs), P # << >>
    PROVE  /\ Cheapest(P) \in 1 .. Len(P)
           /\ \A j \in 1 .. Len(P) : P[Cheapest(P)].fee <= P[j].fee
<1> DEFINE len == Len(P)
           fees == {P[i].fee : i \in 1 .. len}
           I == {i \in DOMAIN P : \A j \in DOMAIN P : P[i].fee <= P[j].fee}
<1>1. len \in Nat \ {0} /\ DOMAIN P = 1 .. len /\ \A i \in 1 .. len : P[i].fee \in Nat
  BY PoolTxType
<1>2. fees \subseteq Nat /\ fees # {}
  <2>1. 1 \in 1 .. len
    BY <1>1
  <2> HIDE DEF len
  <2> QED BY <1>1, <2>1
<1>3. PICK f \in fees : \A g \in fees : f <= g
  <2> HIDE DEF fees
  <2> QED BY <1>2, LeastNatural
<1>4. PICK i \in 1 .. len : P[i].fee = f
  BY <1>3
<1>5. i \in I /\ I \in SUBSET Nat
  <2>1. \A j \in 1 .. len : P[i].fee <= P[j].fee
    BY <1>3, <1>4
  <2> QED BY <1>1, <2>1
<1>6. Min(I) \in I
  <2> HIDE DEF I
  <2> QED BY <1>5, MinOf
<1>7. Cheapest(P) = Min(I)
  BY DEF Cheapest
<1> HIDE DEF fees
<1> QED BY <1>1, <1>6, <1>7

\* Taking out one position leaves the others.
LEMMA RemoveAtRange ==
    ASSUME NEW X, NEW P \in Seq(X), NEW c \in 1 .. Len(P)
    PROVE  /\ RemoveAt(P, c) \in Seq(X) /\ Len(RemoveAt(P, c)) = Len(P) - 1
           /\ Range(RemoveAt(P, c)) = {P[i] : i \in (1 .. Len(P)) \ {c}}
<1> DEFINE len == Len(P)
           A == SubSeq(P, 1, c - 1)
           B == SubSeq(P, c + 1, len)
<1>1. len \in Nat /\ c \in Nat /\ 1 <= c /\ c <= len /\ \A i \in 1 .. len : P[i] \in X
  OBVIOUS
<1> HIDE DEF len
<1>2. /\ A \in Seq(X) /\ Len(A) = c - 1
      /\ \A i \in 1 .. c - 1 : A[i] = P[i]
  <2>1. \A i \in 1 .. c - 1 : P[i] \in X
    BY <1>1
  <2>2. /\ A \in Seq(X) /\ Len(A) = IF 1 <= c - 1 THEN c - 1 - 1 + 1 ELSE 0
        /\ \A i \in 1 .. c - 1 - 1 + 1 : A[i] = P[1 + i - 1]
    BY <1>1, <2>1, SubSeqProperties
  <2> HIDE DEF A
  <2> QED BY <1>1, <2>2
<1>3. /\ B \in Seq(X) /\ Len(B) = len - c
      /\ \A i \in 1 .. len - c : B[i] = P[c + i]
  <2>1. \A i \in c + 1 .. len : P[i] \in X
    BY <1>1
  <2>2. /\ B \in Seq(X) /\ Len(B) = IF c + 1 <= len THEN len - (c + 1) + 1 ELSE 0
        /\ \A i \in 1 .. len - (c + 1) + 1 : B[i] = P[c + 1 + i - 1]
    BY <1>1, <2>1, SubSeqProperties
  <2> HIDE DEF B
  <2>3. len - (c + 1) + 1 = len - c /\ \A i \in 1 .. len - c : c + 1 + i - 1 = c + i
    BY <1>1
  <2>4. Len(B) = len - c
    BY <1>1, <2>2
  <2> QED BY <2>2, <2>3, <2>4
<1> HIDE DEF A, B
<1>4. A \o B \in Seq(X) /\ Range(A \o B) = Range(A) \cup Range(B)
  BY <1>2, <1>3, ConcatProperties, RangeConcatenation
<1>8. Len(A \o B) = len - 1
  <2>1. Len(A \o B) = Len(A) + Len(B)
    BY <1>2, <1>3, ConcatProperties
  <2> QED BY <1>1, <1>2, <1>3, <2>1
<1>5. Range(A) = {P[i] : i \in 1 .. c - 1}
  <2>1. DOMAIN A = 1 .. c - 1
    BY <1>1, <1>2
  <2> QED BY <1>2, <2>1 DEF Range
<1>6. Range(B) = {P[i] : i \in c + 1 .. len}
  <2>1. DOMAIN B = 1 .. len - c
    BY <1>1, <1>3
  <2>2. \A i \in 1 .. len - c : c + i \in c + 1 .. len
    BY <1>1
  <2>3. \A i \in c + 1 .. len : i - c \in 1 .. len - c /\ c + (i - c) = i
    BY <1>1
  <2>4. Range(B) = {B[i] : i \in 1 .. len - c}
    BY <2>1 DEF Range
  <2>5. ASSUME NEW x \in Range(B) PROVE x \in {P[i] : i \in c + 1 .. len}
    <3>1. PICK i \in 1 .. len - c : x = B[i]
      BY <2>4
    <3> QED BY <1>3, <2>2, <3>1
  <2>6. ASSUME NEW x \in {P[i] : i \in c + 1 .. len} PROVE x \in Range(B)
    <3>1. PICK i \in c + 1 .. len : x = P[i]
      OBVIOUS
    <3>2. B[i - c] = x /\ i - c \in 1 .. len - c
      BY <1>3, <2>3, <3>1
    <3> QED BY <2>4, <3>2
  <2> QED BY <2>5, <2>6
<1>7. (1 .. len) \ {c} = (1 .. c - 1) \cup (c + 1 .. len)
  BY <1>1
<1>9. RemoveAt(P, c) = A \o B
  BY DEF A, B, RemoveAt, len
<1> QED BY <1>4, <1>5, <1>6, <1>7, <1>8, <1>9 DEF len

\* What add evicts is the cheapest of a full pool, and nothing else.
LEMMA EvictedRange ==
    ASSUME NEW P \in Seq(PoolTxs)
    PROVE  /\ Evicted(P) \in Seq(PoolTxs)
           /\ \A x \in Range(P) \ Range(Evicted(P)) :
                 \A y \in Range(Evicted(P)) : x.fee <= y.fee
           /\ Len(Evicted(P)) = IF Len(P) >= MAX_POOL_SIZE THEN Len(P) - 1 ELSE Len(P)
<1>1. Len(P) \in Nat /\ DOMAIN P = 1 .. Len(P) /\ Range(P) = {P[i] : i \in 1 .. Len(P)}
  BY DEF Range
<1>2. CASE ~(Len(P) >= MAX_POOL_SIZE)
  BY <1>2 DEF Evicted
<1>3. CASE Len(P) >= MAX_POOL_SIZE
  <2> DEFINE c == Cheapest(P)
             rest == RemoveAt(P, c)
  <2>1. c \in 1 .. Len(P) /\ \A j \in 1 .. Len(P) : P[c].fee <= P[j].fee
    <3>1. P # << >>
      BY <1>3, PoolAssumption
    <3> QED BY <3>1, CheapestIs
  <2>2. /\ rest \in Seq(PoolTxs) /\ Range(rest) = {P[i] : i \in (1 .. Len(P)) \ {c}}
        /\ Len(rest) = Len(P) - 1
    BY <2>1, RemoveAtRange
  <2>3. Evicted(P) = rest
    BY <1>3 DEF Evicted
  <2> HIDE DEF rest, c
  <2>4. ASSUME NEW x \in Range(P) \ Range(rest), NEW y \in Range(rest)
        PROVE  x.fee <= y.fee
    <3>1. x = P[c]
      BY <1>1, <2>2, <2>4
    <3> QED BY <2>1, <2>2, <3>1
  <2> QED BY <1>3, <2>2, <2>3, <2>4
<1> QED BY <1>2, <1>3

\* Inserting drops nothing and adds at most one.
LEMMA InsertedRange ==
    ASSUME NEW P \in Seq(PoolTxs), NEW tx \in PoolTxs
    PROVE  /\ Inserted(P, tx) \in Seq(PoolTxs)
           /\ Range(P) \subseteq Range(Inserted(P, tx))
           /\ Len(Inserted(P, tx)) <= Len(P) + 1
<1>1. Len(P) \in Nat
  OBVIOUS
<1>2. CASE \E i \in DOMAIN P : P[i] = tx
  BY <1>1, <1>2 DEF Inserted
<1>3. CASE ~(\E i \in DOMAIN P : P[i] = tx)
  <2>1. Inserted(P, tx) = Append(P, tx)
    BY <1>3 DEF Inserted
  <2> QED BY <1>1, <2>1, AppendRange
<1> QED BY <1>2, <1>3

-----------------------------------------------------------------------------
(* Every step of the node *)

PoolInv ==
    /\ TypeOK /\ NonceBound
    /\ pool \in Seq(PoolTxs) /\ candidate \in Seq(PoolTxs)
    /\ checking \subseteq PoolTxs /\ IsFiniteSet(checking)
    /\ SelectionFeeOrdered

LEMMA NonceTypes ==
    ASSUME TypeOK
    PROVE  /\ nonces \in [Addr -> Nat] /\ saved.nonces \in [Addr -> Nat]
           /\ balances \in [Addr -> Nat] /\ ntx \in Nat /\ NoBlock \notin Addr
BY WorkOKIsLedgerOK, ChainAssumption DEF TypeOK, WorkOK, LedgerOK

\* A handler checks or inserts a transaction, or updates the pool or fails to.
LEMMA HandlerStep ==
    ASSUME PoolInv, TypeOK',
           \/ \E tx \in PoolTxs : CheckTx(tx) \/ InsertTx(tx)
           \/ \E o \in owing : Update(o) \/ SkipUpdate(o)
           \/ SelectFails
    PROVE  PoolInv'
<1>1. UNCHANGED <<nonces, saved, ntx, candidate, selected>>
  BY DEF CheckTx, InsertTx, Update, SkipUpdate, SelectFails, vars, ledgerVars
<1>2. pool' \in Seq(PoolTxs) /\ checking' \subseteq PoolTxs /\ IsFiniteSet(checking')
  <2>0. pool \in Seq(PoolTxs) /\ checking \subseteq PoolTxs /\ IsFiniteSet(checking)
    BY DEF PoolInv
  <2>1. ASSUME NEW tx \in PoolTxs, CheckTx(tx)
        PROVE  pool' \in Seq(PoolTxs) /\ checking' \subseteq PoolTxs /\ IsFiniteSet(checking')
    <3>1. pool' = Evicted(pool) /\ checking' = checking \cup {tx}
      BY <2>1 DEF CheckTx
    <3> QED BY <2>0, <3>1, EvictedRange, FS_AddElement
  <2>2. ASSUME NEW tx \in PoolTxs, InsertTx(tx)
        PROVE  pool' \in Seq(PoolTxs) /\ checking' \subseteq PoolTxs /\ IsFiniteSet(checking')
    <3>1. pool' = Inserted(pool, tx) /\ checking' = checking \ {tx}
      BY <2>2 DEF InsertTx
    <3> QED BY <2>0, <3>1, InsertedRange, FS_RemoveElement
  <2>3. ASSUME NEW o \in owing, Update(o)
        PROVE  pool' \in Seq(PoolTxs) /\ checking' \subseteq PoolTxs /\ IsFiniteSet(checking')
    <3>1. pool' = Updated(pool, saved.nonces) /\ checking' = checking
      BY <2>3 DEF Update
    <3> QED BY <2>0, <3>1, UpdatedKeeps
  <2>4. CASE UNCHANGED <<pool, checking>>
    BY <2>0, <2>4
  <2> QED BY <2>1, <2>2, <2>3, <2>4 DEF SkipUpdate, SelectFails
<1> QED BY <1>1, <1>2 DEF PoolInv, NonceBound, SelectionFeeOrdered

LEMMA SelectIsPool ==
    ASSUME PoolInv
    PROVE  LET sel == Select(pool, nonces, balances, UnbondingBlocks)
           IN  sel \in Seq(PoolTxs) /\ FeeOrdered(sel)
<1> DEFINE sel == Select(pool, nonces, balances, UnbondingBlocks)
           R == ReadyRuns(pool, nonces, balances, UnbondingBlocks)
<1>1. pool \in Seq(PoolTxs) /\ nonces \in [Addr -> Nat]
  BY NonceTypes DEF PoolInv
<1>2. RunsOK(pool, nonces, R) /\ Merged(R, sel)
  BY <1>1, SelectMerges
<1> HIDE DEF sel, R
<1>3. FeeOrdered(sel)
  BY <1>1, <1>2, MergedIsFeeOrdered
<1>4. sel \in Seq(PoolTxs)
  BY <1>2 DEF Merged
<1> QED BY <1>3, <1>4 DEF sel

LEMMA ProduceBlockStep ==
    ASSUME PoolInv, ProduceBlock, TypeOK'
    PROVE  PoolInv'
<1>1. /\ selected' = Select(pool, nonces, balances, UnbondingBlocks)
      /\ candidate' = selected' /\ BeginBlock(Me) /\ UNCHANGED <<pool, checking>>
  BY DEF ProduceBlock, OwnTurn
<1>2. selected' \in Seq(PoolTxs) /\ FeeOrdered(selected')
  BY <1>1, SelectIsPool
<1>3. UNCHANGED <<nonces, saved, ntx>>
  BY <1>1 DEF BeginBlock
<1> QED BY <1>1, <1>2, <1>3 DEF PoolInv, NonceBound, SelectionFeeOrdered

\* A transaction is applied in the open block of the node or of somebody else.
LEMMA AppliedStep ==
    ASSUME PoolInv, NEW tx \in PoolTxs, Apply(tx), TypeOK',
           candidate' \in Seq(PoolTxs), UNCHANGED <<pool, checking, selected>>
    PROVE  PoolInv'
<1>1. /\ tx.sender \in Addr /\ tx.nonce = nonces[tx.sender]
      /\ nonces' = [nonces EXCEPT ![tx.sender] = tx.nonce + 1]
      /\ ntx' = ntx + 1 /\ UNCHANGED saved
  BY ApplyStep, PoolTxType DEF PoolInv, blockVars
<1>2. nonces \in [Addr -> Nat] /\ ntx \in Nat
  BY NonceTypes DEF PoolInv
<1>3. NonceBound'
  <2>1. SUFFICES ASSUME NEW a \in Addr PROVE nonces'[a] <= ntx'
    BY <1>1 DEF PoolInv, NonceBound
  <2>2. nonces[a] <= ntx /\ nonces[tx.sender] <= ntx
    BY <1>1 DEF PoolInv, NonceBound
  <2> QED BY <1>1, <1>2, <2>2
<1> QED BY <1>1, <1>3 DEF PoolInv, SelectionFeeOrdered

\* No block is open any more, and its selection is forgotten.
LEMMA NoSelection == FeeOrdered(<< >>)
BY DEF FeeOrdered

LEMMA AcceptedStep ==
    ASSUME PoolInv, Accepted, TypeOK'
    PROVE  PoolInv'
<1>1. /\ UNCHANGED <<pool, checking, nonces, ntx, candidate>>
      /\ saved' = Ledger /\ selected' = << >>
  BY DEF Accepted, CommitBlock, ledgerVars
<1>2. saved'.nonces = nonces /\ saved'.ntx = ntx
  BY <1>1 DEF Ledger
<1> QED BY <1>1, <1>2, NoSelection DEF PoolInv, NonceBound, SelectionFeeOrdered

LEMMA RejectedStep ==
    ASSUME PoolInv, RejectBlock, TypeOK', candidate' \in Seq(PoolTxs),
           UNCHANGED <<pool, checking>>, selected' \in {selected, << >>}
    PROVE  PoolInv'
<1>1. nonces' = saved.nonces /\ ntx' = saved.ntx /\ saved' = saved
  BY DEF RejectBlock, Restore
<1> QED BY <1>1, NoSelection DEF PoolInv, NonceBound, SelectionFeeOrdered

\* The node's steps are the chain's steps or leave the chain alone.
LEMMA ChainStep ==
    ASSUME PoolInv, [ProducerNext]_<<vars, producerVars>>
    PROVE  [Next]_vars
<1>1. CASE \E tx \in PoolTxs : CheckTx(tx) \/ InsertTx(tx)
  BY <1>1 DEF CheckTx, InsertTx
<1>2. CASE ProduceBlock
  BY <1>2, ProducerAssumption DEF ProduceBlock, OwnTurn, Next
<1>3. CASE ApplyNext
  <2>1. Head(candidate) \in PoolTxs /\ Apply(Head(candidate))
    BY <1>3 DEF ApplyNext, NextTx, PoolInv
  <2> QED BY <2>1, ApplyStep DEF PoolInv
<1>4. CASE RejectOwn \/ RejectReceived
  BY <1>4 DEF RejectOwn, RejectReceived, Next
<1>5. CASE Accepted
  BY <1>5 DEF Accepted, Next
<1>6. CASE ReceiveBlock
  BY <1>6 DEF ReceiveBlock, Next
<1>7. CASE \E tx \in PoolTxs : ReceivedTx(tx)
  BY <1>7, ApplyStep DEF ReceivedTx, PoolInv
<1>8. CASE SelectFails \/ \E o \in owing : Update(o) \/ SkipUpdate(o)
  BY <1>8 DEF SelectFails, Update, SkipUpdate
<1>9. CASE UNCHANGED <<vars, producerVars>>
  BY <1>9
<1> QED BY <1>1, <1>2, <1>3, <1>4, <1>5, <1>6, <1>7, <1>8, <1>9 DEF ProducerNext

LEMMA PoolStep ==
    ASSUME PoolInv, [ProducerNext]_<<vars, producerVars>>
    PROVE  PoolInv'
<1>0. TypeOK'
  BY ChainStep, NextType DEF PoolInv
<1>1. CASE \/ \E tx \in PoolTxs : CheckTx(tx) \/ InsertTx(tx)
           \/ \E o \in owing : Update(o) \/ SkipUpdate(o)
           \/ SelectFails
  BY <1>0, <1>1, HandlerStep
<1>2. CASE ProduceBlock
  BY <1>0, <1>2, ProduceBlockStep
<1>3. CASE ApplyNext
  <2>1. /\ Head(candidate) \in PoolTxs /\ Apply(Head(candidate))
        /\ candidate' \in Seq(PoolTxs) /\ UNCHANGED <<pool, checking, selected>>
    BY <1>3 DEF ApplyNext, NextTx, PoolInv
  <2> QED BY <1>0, <2>1, AppliedStep
<1>4. CASE RejectOwn
  <2>1. RejectBlock /\ candidate' = << >> /\ selected' = << >> /\ UNCHANGED <<pool, checking>>
    BY <1>4 DEF RejectOwn
  <2> QED BY <1>0, <2>1, RejectedStep
<1>5. CASE RejectReceived
  <2>1. RejectBlock /\ UNCHANGED <<pool, checking, selected, candidate>>
    BY <1>5 DEF RejectReceived, producerVars
  <2> QED BY <1>0, <2>1, RejectedStep DEF PoolInv
<1>6. CASE Accepted
  BY <1>0, <1>6, AcceptedStep
<1>7. CASE ReceiveBlock
  <2>1. UNCHANGED <<nonces, saved, ntx, pool, checking, selected, candidate>>
    BY <1>7 DEF ReceiveBlock, BeginBlock, producerVars
  <2> QED BY <1>0, <2>1 DEF PoolInv, NonceBound, SelectionFeeOrdered
<1>8. ASSUME NEW tx \in PoolTxs, ReceivedTx(tx) PROVE PoolInv'
  <2>1. Apply(tx) /\ UNCHANGED <<pool, checking, selected, candidate>>
    BY <1>8 DEF ReceivedTx, producerVars
  <2> QED BY <1>0, <2>1, AppliedStep DEF PoolInv
<1>9. CASE UNCHANGED <<vars, producerVars>>
  <2>1. UNCHANGED <<nonces, saved, ntx, pool, checking, candidate, selected>>
    BY <1>9 DEF vars, ledgerVars, producerVars
  <2> QED BY <1>0, <2>1 DEF PoolInv, NonceBound, SelectionFeeOrdered
<1> QED BY <1>1, <1>2, <1>3, <1>4, <1>5, <1>6, <1>7, <1>8, <1>9 DEF ProducerNext

LEMMA PoolInit == ProducerInit => PoolInv
<1> SUFFICES ASSUME ProducerInit PROVE PoolInv
  OBVIOUS
<1>1. TypeOK /\ Init
  BY InitType DEF ProducerInit
<1>2. NonceBound
  BY <1>1 DEF Init, Ledger, NonceBound
<1>3. pool = << >> /\ candidate = << >> /\ selected = << >> /\ checking = {}
  BY DEF ProducerInit
<1> QED BY <1>1, <1>2, <1>3, NoSelection, FS_EmptySet DEF PoolInv, SelectionFeeOrdered

LEMMA PoolInvariant == ProducerSpec => []PoolInv
BY PoolInit, PoolStep, PTL DEF ProducerSpec

-----------------------------------------------------------------------------
\* The chain of a node that produces from its mempool is a branch of PosChain, whatever
\* clients, peers and other validators send: every theorem about that branch holds of it.
THEOREM ChainTheorem == ProducerSpec => Spec
<1>1. ProducerInit => Init
  BY DEF ProducerInit
<1>2. PoolInv /\ [ProducerNext]_<<vars, producerVars>> => [Next]_vars
  BY ChainStep
<1> QED BY <1>1, <1>2, PoolInvariant, PTL DEF ProducerSpec, Spec

\* Every place in the pool and every thread inside add counts: one that found room had
\* at most the other threads beside it, one that did not has evicted a transaction first.
Room == Len(pool) + Cardinality(checking) <= MAX_POOL_SIZE + Handlers - 1

LEMMA RoomStep ==
    ASSUME PoolInv, Room, [ProducerNext]_<<vars, producerVars>>
    PROVE  Room'
<1>0. /\ pool \in Seq(PoolTxs) /\ Len(pool) \in Nat
      /\ IsFiniteSet(checking) /\ Cardinality(checking) \in Nat
      /\ MAX_POOL_SIZE \in Nat /\ Handlers \in Nat
  BY FS_CardinalityType, PoolAssumption, ProducerAssumption DEF PoolInv
<1>1. ASSUME NEW tx \in PoolTxs, CheckTx(tx) PROVE Room'
  <2>1. /\ Cardinality(checking) < Handlers /\ tx \notin checking
        /\ pool' = Evicted(pool) /\ checking' = checking \cup {tx}
    BY <1>1 DEF CheckTx
  <2>2. Cardinality(checking') = Cardinality(checking) + 1
    BY <1>0, <2>1, FS_AddElement
  <2>3. Len(pool') = IF Len(pool) >= MAX_POOL_SIZE THEN Len(pool) - 1 ELSE Len(pool)
    BY <1>0, <2>1, EvictedRange
  <2> QED BY <1>0, <2>1, <2>2, <2>3 DEF Room
<1>2. ASSUME NEW tx \in PoolTxs, InsertTx(tx) PROVE Room'
  <2>1. tx \in checking /\ pool' = Inserted(pool, tx) /\ checking' = checking \ {tx}
    BY <1>2 DEF InsertTx
  <2>2. Cardinality(checking') = Cardinality(checking) - 1
    BY <1>0, <2>1, FS_RemoveElement
  <2>3. Len(pool') <= Len(pool) + 1 /\ Len(pool') \in Nat
    BY <1>0, <2>1, InsertedRange
  <2> QED BY <1>0, <2>2, <2>3 DEF Room
<1>3. ASSUME NEW o \in owing, Update(o) PROVE Room'
  <2>1. pool' = Updated(pool, saved.nonces) /\ checking' = checking
    BY <1>3 DEF Update
  <2>2. Len(pool') <= Len(pool) /\ Len(pool') \in Nat
    BY <1>0, <2>1, UpdatedKeeps
  <2> QED BY <1>0, <2>1, <2>2 DEF Room
<1>4. CASE UNCHANGED <<pool, checking>>
  BY <1>4 DEF Room
<1> QED BY <1>1, <1>2, <1>3, <1>4
        DEF ProducerNext, ProduceBlock, SelectFails, ApplyNext, RejectOwn, Accepted, SkipUpdate,
            ReceiveBlock, ReceivedTx, RejectReceived, producerVars

\* mempool.py, "DoS bound": whatever is sent in whatever order, and however the threads
\* inside add interleave, the pool outgrows its limit by less than their number.
THEOREM BoundTheorem == ProducerSpec => []PoolBounded
<1>1. ProducerInit => Room
  BY FS_EmptySet, PoolAssumption, ProducerAssumption DEF ProducerInit, Room
<1>2. PoolInv /\ Room /\ [ProducerNext]_<<vars, producerVars>> => Room'
  BY RoomStep
<1>3. ASSUME PoolInv, Room PROVE PoolBounded
  <2>1. Len(pool) \in Nat /\ Cardinality(checking) \in Nat
    BY <1>3, FS_CardinalityType DEF PoolInv
  <2> QED BY <1>3, <2>1, PoolAssumption, ProducerAssumption DEF Room, PoolBounded
<1> QED BY <1>1, <1>2, <1>3, PoolInvariant, PTL DEF ProducerSpec

\* mempool.py's "across senders we always take the highest-fee transaction available, but
\* within a single sender we never reorder nonces".
THEOREM FeeOrderTheorem == ProducerSpec => []SelectionFeeOrdered
<1>1. PoolInv => SelectionFeeOrdered
  BY DEF PoolInv
<1> QED BY <1>1, PoolInvariant, PTL

\* mempool.py's "a full pool keeps only the highest-fee transactions": what leaves the pool
\* is spent on the chain or pays no more than anything that stays.
THEOREM HighestFeesTheorem == ProducerSpec => PoolKeepsHighestFees
<1> DEFINE Dropped ==
      \A tx \in Range(pool) \ Range(pool') :
          \/ \A other \in Range(pool') : tx.fee <= other.fee
          \/ saved'.nonces[tx.sender] > tx.nonce
<1>1. ASSUME PoolInv, [ProducerNext]_<<vars, producerVars>>, pool' # pool PROVE Dropped
  <2>0. pool \in Seq(PoolTxs)
    BY <1>1 DEF PoolInv
  <2>1. ASSUME NEW tx \in PoolTxs, CheckTx(tx) PROVE Dropped
    <3>1. pool' = Evicted(pool)
      BY <2>1 DEF CheckTx
    <3> QED BY <2>0, <3>1, EvictedRange
  <2>2. ASSUME NEW tx \in PoolTxs, InsertTx(tx) PROVE Dropped
    <3>1. pool' = Inserted(pool, tx)
      BY <2>2 DEF InsertTx
    <3> QED BY <2>0, <3>1, InsertedRange
  <2>3. ASSUME NEW o \in owing, Update(o) PROVE Dropped
    <3>0. PICK N : N = saved.nonces
      OBVIOUS
    <3>1. pool' = Updated(pool, N) /\ saved' = saved
      BY <2>3, <3>0 DEF Update, vars
    <3>2. Range(pool') = {tx \in Range(pool) : tx.nonce >= N[tx.sender]}
      <4>1. N \in [Addr -> Nat]
        BY <1>1, <3>0, NonceTypes DEF PoolInv
      <4> QED BY <2>0, <3>1, <4>1, UpdatedKeeps
    <3>3. SUFFICES ASSUME NEW tx \in Range(pool) \ Range(pool')
                   PROVE  N[tx.sender] > tx.nonce
      BY <3>0, <3>1
    <3>4. tx \in PoolTxs /\ ~(tx.nonce >= N[tx.sender])
      BY <2>0, <3>2, <3>3, RangeOfSeq
    <3>5. N[tx.sender] \in Nat /\ tx.nonce \in Nat
      BY <1>1, <3>0, <3>4, PoolTxType, NonceTypes DEF PoolInv
    <3> QED BY <3>4, <3>5
  <2> QED BY <1>1, <2>1, <2>2, <2>3
          DEF ProducerNext, ProduceBlock, SelectFails, ApplyNext, RejectOwn, Accepted,
              SkipUpdate, ReceiveBlock, ReceivedTx, RejectReceived, producerVars
<1>2. PoolInv /\ [ProducerNext]_<<vars, producerVars>> => [Dropped]_pool
  BY <1>1
<1> QED BY <1>2, PoolInvariant, PTL DEF ProducerSpec, PoolKeepsHighestFees

-----------------------------------------------------------------------------
(* What is selected stays affordable *)

\* What a transaction needs and changes of its sender's balance.
LEMMA ChangeType ==
    ASSUME NEW tx \in PoolTxs
    PROVE  Required(tx) \in Nat /\ Change(tx, UnbondingBlocks) \in Int
<1>1. /\ tx.fee \in Nat
      /\ tx.kind \in {"transfer", "stake", "unstake"} => tx.amount \in Nat
      /\ tx.kind \in {"transfer", "stake", "unstake", "slash", "vote"}
  BY PoolTxType, ProducerAssumption
<1>2. Required(tx) \in Nat
  BY <1>1 DEF Required
<1> QED BY <1>1, <1>2 DEF Change

\* The change each selected transaction makes, and the positions of those of a sender
\* between the first p and the i-th.
Changes(sel) == [j \in DOMAIN sel |-> Change(sel[j], UnbondingBlocks)]
Ahead(sel, p, a, i) == {j \in p + 1 .. i - 1 : sel[j].sender = a}

\* After the first p selected transactions, every other one has the nonce and the funds
\* that it needs once those of its sender before it are applied.
Fits(sel, p, bal, non) ==
    \A i \in p + 1 .. Len(sel) :
        LET a == sel[i].sender
            ahead == Ahead(sel, p, a, i)
        IN  /\ sel[i].nonce = non[a] + Cardinality(ahead)
            /\ bal[a] + SumFunctionOnSet(Changes(sel), ahead) >= Required(sel[i])

LEMMA AheadSums ==
    ASSUME NEW sel \in Seq(PoolTxs), NEW p \in Nat, NEW a, NEW i \in 1 .. Len(sel) + 1
    PROVE  /\ Summable(Changes(sel), Ahead(sel, p, a, i))
           /\ Cardinality(Ahead(sel, p, a, i)) \in Nat
           /\ SumFunctionOnSet(Changes(sel), Ahead(sel, p, a, i)) \in Int
<1> DEFINE A == Ahead(sel, p, a, i)
           D == 1 .. Len(sel)
<1>1. Len(sel) \in Nat /\ DOMAIN sel = D /\ IsFiniteSet(D)
  BY FS_Interval
<1>2. A \in SUBSET D
  BY <1>1 DEF Ahead
<1>3. \A j \in D : Changes(sel)[j] \in Int
  BY <1>1, ChangeType DEF Changes
<1> HIDE DEF A, D
<1>4. Summable(Changes(sel), A)
  BY <1>1, <1>2, <1>3, FS_Subset DEF Summable
<1>5. Cardinality(A) \in Nat
  BY <1>4, FS_CardinalityType DEF Summable
<1> QED BY <1>4, <1>5, SumType DEF A

\* What the first k transactions of a run change of the sender's balance.
RunChanges(P, N, a, k) ==
    [j \in 0 .. k - 1 |-> Change(FirstWaiting(P, a, N[a] + j), UnbondingBlocks)]

LEMMA RunChangesGrow ==
    ASSUME NEW P, NEW N, NEW a, NEW k \in Nat,
           \A j \in 0 .. k : Change(FirstWaiting(P, a, N[a] + j), UnbondingBlocks) \in Int
    PROVE  /\ SumFunction(RunChanges(P, N, a, k)) \in Int
           /\ SumFunction(RunChanges(P, N, a, k + 1))
                = SumFunction(RunChanges(P, N, a, k))
                    + Change(FirstWaiting(P, a, N[a] + k), UnbondingBlocks)
<1> DEFINE f == RunChanges(P, N, a, k)
           g == RunChanges(P, N, a, k + 1)
           x == Change(FirstWaiting(P, a, N[a] + k), UnbondingBlocks)
           S == 0 .. k - 1
           T == 0 .. k
<1>1. /\ DOMAIN f = S /\ DOMAIN g = T /\ S = T \ {k} /\ k \in T /\ S \subseteq T
      /\ \A j \in S : f[j] \in Int /\ g[j] = f[j]
      /\ \A j \in T : g[j] \in Int
      /\ g[k] = x
  BY DEF RunChanges
<1>2. IsFiniteSet(T) /\ IsFiniteSet(S)
  BY FS_Interval
<1> HIDE DEF f, g, S, T, x
<1>3. Summable(f, S) /\ Summable(g, T) /\ Summable(g, S)
  BY <1>1, <1>2 DEF Summable
<1>4. SumFunctionOnSet(g, T) = x + SumFunctionOnSet(g, S)
  BY <1>1, <1>3, SumRemove
<1>5. SumFunctionOnSet(g, S) = SumFunctionOnSet(f, S)
  <2>1. \A j \in S : g[j] = f[j]
    BY <1>1
  <2> QED BY <1>3, <2>1, SumCongruent
<1>6. SumFunctionOnSet(f, S) \in Int /\ x \in Int
  BY <1>1, <1>3, SumType
<1>7. SumFunction(f) = SumFunctionOnSet(f, S) /\ SumFunction(g) = SumFunctionOnSet(g, T)
  BY <1>1 DEF SumFunction
<1>8. SumFunction(f) \in Int /\ SumFunction(g) = SumFunction(f) + x
  BY <1>4, <1>5, <1>6, <1>7
<1> QED BY <1>8 DEF f, g, x

LEMMA RunChangesEmpty ==
    ASSUME NEW P, NEW N, NEW a
    PROVE  SumFunction(RunChanges(P, N, a, 0)) = 0
<1>1. DOMAIN RunChanges(P, N, a, 0) = {}
  BY DEF RunChanges
<1> QED BY <1>1, SumEmpty DEF SumFunction

\* Counting one position more.
LEMMA CountNext ==
    ASSUME NEW sel, NEW a, NEW m \in Nat
    PROVE  /\ sel[m + 1].sender # a => /\ OwnPositions(sel, a, m + 1) = OwnPositions(sel, a, m)
                                       /\ Count(sel, a, m + 1) = Count(sel, a, m)
           /\ sel[m + 1].sender = a =>
                 /\ m + 1 \in OwnPositions(sel, a, m + 1)
                 /\ OwnPositions(sel, a, m + 1) \ {m + 1} = OwnPositions(sel, a, m)
                 /\ Count(sel, a, m + 1) = Count(sel, a, m) + 1
<1> DEFINE A == OwnPositions(sel, a, m)
           B == OwnPositions(sel, a, m + 1)
<1>1. 1 .. m + 1 = (1 .. m) \cup {m + 1} /\ m + 1 \notin 1 .. m
  OBVIOUS
<1>2. CASE sel[m + 1].sender # a
  <2>1. B = A
    BY <1>1, <1>2 DEF OwnPositions
  <2> QED BY <1>2, <2>1 DEF Count
<1>3. CASE sel[m + 1].sender = a
  <2>1. B = A \cup {m + 1} /\ m + 1 \notin A
    BY <1>1, <1>3 DEF OwnPositions
  <2>2. IsFiniteSet(A) /\ Cardinality(A) \in Nat
    BY CountType DEF Count
  <2> HIDE DEF A, B
  <2>3. Cardinality(B) = Cardinality(A) + 1
    BY <2>1, <2>2, FS_AddElement
  <2> QED BY <1>3, <2>1, <2>3 DEF A, B, Count
<1> QED BY <1>2, <1>3

\* What the first m selected transactions change of a sender's balance is what as many
\* transactions of its run change.
LEMMA PrefixChanges ==
    ASSUME NEW P \in Seq(PoolTxs), NEW N \in [Addr -> Nat], NEW B \in [Addr -> Nat],
           NEW a \in Addr
    PROVE  LET R == ReadyRuns(P, N, B, UnbondingBlocks)
               sel == Select(P, N, B, UnbondingBlocks)
           IN  \A m \in 0 .. Len(sel) :
                  /\ Count(sel, a, m) <= Len(R[a])
                  /\ SumFunctionOnSet(Changes(sel), OwnPositions(sel, a, m))
                       = SumFunction(RunChanges(P, N, a, Count(sel, a, m)))
<1> DEFINE R == ReadyRuns(P, N, B, UnbondingBlocks)
           sel == Select(P, N, B, UnbondingBlocks)
           len == Len(sel)
           run == Len(R[a])
           S(m) == SumFunctionOnSet(Changes(sel), OwnPositions(sel, a, m))
           C(m) == Count(sel, a, m)
           T == {m \in Nat : m <= len => /\ C(m) <= run
                                         /\ S(m) = SumFunction(RunChanges(P, N, a, C(m)))}
<1>1. RunsOK(P, N, R) /\ Merged(R, sel)
  BY SelectMerges
<1>2. R[a] = Ready(P, N, B, UnbondingBlocks, a)
  BY DEF ReadyRuns
<1>3. /\ R[a] \in Seq(Range(P)) /\ run \in Nat
      /\ \A i \in 1 .. run : R[a][i] = FirstWaiting(P, a, N[a] + (i - 1))
  BY <1>2, ReadyRun
<1> HIDE DEF R, sel
<1>4. sel \in Seq(PoolTxs) /\ len \in Nat
  BY <1>1 DEF Merged
<1>5. ASSUME NEW j \in Nat, j < run
      PROVE  /\ R[a][j + 1] = FirstWaiting(P, a, N[a] + j)
             /\ Change(FirstWaiting(P, a, N[a] + j), UnbondingBlocks) \in Int
  <2>1. j + 1 \in 1 .. run /\ (j + 1) - 1 = j
    BY <1>3, <1>5
  <2>2. R[a][j + 1] = FirstWaiting(P, a, N[a] + j)
    BY <1>3, <2>1
  <2>3. R[a][j + 1] \in PoolTxs
    BY <1>3, <2>1, RangeOfSeq
  <2> QED BY <2>2, <2>3, ChangeType
<1> HIDE DEF len, run
<1>6. 0 \in T
  <2>1. OwnPositions(sel, a, 0) = {} /\ C(0) = 0
    <3>1. OwnPositions(sel, a, 0) = {}
      BY DEF OwnPositions
    <3>2. C(0) = 0
      BY <3>1, FS_EmptySet DEF Count
    <3> QED BY <3>1, <3>2
  <2>2. S(0) = 0 /\ SumFunction(RunChanges(P, N, a, C(0))) = 0
    BY <2>1, SumEmpty, RunChangesEmpty
  <2> QED BY <1>3, <2>1, <2>2 DEF run
<1>7. ASSUME NEW m \in Nat, m \in T PROVE m + 1 \in T
  <2>1. SUFFICES ASSUME m + 1 <= len
                 PROVE  /\ C(m + 1) <= run
                        /\ S(m + 1) = SumFunction(RunChanges(P, N, a, C(m + 1)))
    BY <1>7
  <2>2. C(m) <= run /\ S(m) = SumFunction(RunChanges(P, N, a, C(m))) /\ C(m) \in Nat
    BY <1>4, <1>7, <2>1, CountType DEF len
  <2>3. CASE sel[m + 1].sender # a
    BY <2>2, <2>3, CountNext
  <2>4. CASE sel[m + 1].sender = a
    <3> DEFINE c == C(m)
               x == Change(FirstWaiting(P, a, N[a] + c), UnbondingBlocks)
               own == OwnPositions(sel, a, m + 1)
    <3>1. m + 1 \in 1 .. Len(sel) /\ (m + 1) - 1 = m /\ m + 2 \in 1 .. Len(sel) + 1
      BY <1>4, <2>1 DEF len
    <3>2. c < run /\ sel[m + 1] = R[a][c + 1]
      BY <1>1, <2>4, <3>1 DEF Merged, run
    <3>3. sel[m + 1] = FirstWaiting(P, a, N[a] + c)
      BY <1>5, <2>2, <3>2
    <3>4. /\ m + 1 \in own /\ own \ {m + 1} = OwnPositions(sel, a, m)
          /\ C(m + 1) = c + 1
      BY <2>4, CountNext
    <3>5. Summable(Changes(sel), own)
      <4>1. own = Ahead(sel, 0, a, m + 2)
        BY DEF OwnPositions, Ahead
      <4> QED BY <1>4, <3>1, <4>1, AheadSums
    <3>6. Changes(sel)[m + 1] = x
      BY <1>4, <3>1, <3>3 DEF Changes
    <3>7. S(m + 1) = x + S(m)
      <4> HIDE DEF own, x
      <4> QED BY <3>4, <3>5, <3>6, SumRemove DEF own
    <3>8. /\ SumFunction(RunChanges(P, N, a, c)) \in Int /\ x \in Int
          /\ SumFunction(RunChanges(P, N, a, c + 1)) = SumFunction(RunChanges(P, N, a, c)) + x
      <4>1. \A j \in 0 .. c : j \in Nat /\ j < run
        BY <1>3, <2>2, <3>2 DEF run
      <4>2. \A j \in 0 .. c : Change(FirstWaiting(P, a, N[a] + j), UnbondingBlocks) \in Int
        BY <1>5, <4>1
      <4> HIDE DEF c
      <4> QED BY <2>2, <4>2, RunChangesGrow DEF c
    <3>9. C(m + 1) <= run
      BY <1>3, <2>2, <3>2, <3>4 DEF run
    <3> HIDE DEF x, own, S, C
    <3> QED BY <2>2, <3>4, <3>7, <3>8, <3>9
  <2> QED BY <2>3, <2>4
<1>8. \A m \in Nat : m \in T
  <2> HIDE DEF T
  <2> QED BY <1>6, <1>7, NaturalInduction
<1>9. \A m \in 0 .. len : C(m) <= run /\ S(m) = SumFunction(RunChanges(P, N, a, C(m)))
  BY <1>4, <1>8
<1> QED BY <1>9 DEF R, sel, len, run

\* What select returns fits the ledger it was selected against, and any with more funds.
LEMMA SelectedFits ==
    ASSUME NEW P \in Seq(PoolTxs), NEW N \in [Addr -> Nat], NEW B \in [Addr -> Nat],
           NEW bal \in [Addr -> Nat], \A a \in Addr : bal[a] >= B[a]
    PROVE  Fits(Select(P, N, B, UnbondingBlocks), 0, bal, N)
<1> DEFINE R == ReadyRuns(P, N, B, UnbondingBlocks)
           sel == Select(P, N, B, UnbondingBlocks)
<1>1. RunsOK(P, N, R) /\ Merged(R, sel)
  BY SelectMerges
<1>2. \A b \in Addr : \A m \in 0 .. Len(sel) :
         SumFunctionOnSet(Changes(sel), OwnPositions(sel, b, m))
            = SumFunction(RunChanges(P, N, b, Count(sel, b, m)))
  BY PrefixChanges
<1>3. ASSUME NEW b \in Addr
      PROVE  /\ R[b] \in Seq(Range(P))
             /\ \A j \in 1 .. Len(R[b]) : R[b][j] = FirstWaiting(P, b, N[b] + (j - 1))
             /\ Len(R[b]) = 0 \/ Takes(P, N, B, UnbondingBlocks, b, Len(R[b]))
  <2>1. R[b] = Ready(P, N, B, UnbondingBlocks, b)
    BY DEF ReadyRuns
  <2> HIDE DEF R
  <2> QED BY <2>1, ReadyRun
<1> HIDE DEF R, sel
<1>4. sel \in Seq(PoolTxs) /\ Len(sel) \in Nat
  BY <1>1 DEF Merged
<1>5. ASSUME NEW i \in 1 .. Len(sel), NEW a, a = sel[i].sender
      PROVE  /\ sel[i].nonce = N[a] + Cardinality(OwnPositions(sel, a, i - 1))
             /\ bal[a] + SumFunctionOnSet(Changes(sel), OwnPositions(sel, a, i - 1))
                   >= Required(sel[i])
  <2> DEFINE own == OwnPositions(sel, a, i - 1)
             c == Count(sel, a, i - 1)
             sum == SumFunctionOnSet(Changes(sel), own)
             run == Len(R[a])
  <2>1. sel[i] \in PoolTxs /\ a \in Addr /\ sel[i].nonce = N[a] + c
    BY <1>1, <1>5, MergedNonces
  <2>2. i - 1 \in Nat /\ i - 1 \in 0 .. Len(sel)
    BY <1>4
  <2>3. sum = SumFunction(RunChanges(P, N, a, c))
    BY <1>2, <2>1, <2>2
  <2>4. c \in Nat /\ c < run /\ sel[i] = R[a][c + 1]
    BY <1>1, <1>5, <2>2, CountType DEF Merged
  <2>5. /\ R[a] \in Seq(Range(P))
        /\ \A j \in 1 .. run : R[a][j] = FirstWaiting(P, a, N[a] + (j - 1))
        /\ run = 0 \/ Takes(P, N, B, UnbondingBlocks, a, run)
    BY <1>3, <2>1
  <2>6. run \in Nat
    BY <2>5
  <2>7. sum \in Int
    <3>1. own = Ahead(sel, 0, a, i)
      BY DEF Ahead, OwnPositions
    <3>2. i \in 1 .. Len(sel) + 1 /\ 0 \in Nat
      BY <1>4
    <3> QED BY <1>4, <3>1, <3>2, AheadSums
  <2> HIDE DEF c, sum, run
  <2>8. c + 1 \in 1 .. run /\ (c + 1) - 1 = c /\ c \in 0 .. run - 1 /\ run # 0
    BY <2>4, <2>6
  <2>9. sel[i] = FirstWaiting(P, a, N[a] + c)
    <3>1. R[a][c + 1] = FirstWaiting(P, a, N[a] + ((c + 1) - 1))
      BY <2>5, <2>8
    <3> QED BY <2>4, <2>8, <3>1
  <2>10. BalanceBefore(P, N, B, UnbondingBlocks, a, c) >= Required(FirstWaiting(P, a, N[a] + c))
    BY <2>5, <2>8 DEF Takes
  <2>11. BalanceBefore(P, N, B, UnbondingBlocks, a, c) = B[a] + sum
    BY <2>3 DEF BalanceBefore, RunChanges
  <2>12. bal[a] >= B[a] /\ bal[a] \in Nat /\ B[a] \in Nat /\ Required(sel[i]) \in Nat
    BY <2>1, ChangeType
  <2>13. B[a] + sum >= Required(sel[i])
    BY <2>9, <2>10, <2>11
  <2>14. bal[a] + sum >= Required(sel[i])
    BY <2>7, <2>12, <2>13
  <2> QED BY <2>1, <2>14 DEF c, sum, Count
<1>6. \A b, i : Ahead(sel, 0, b, i) = OwnPositions(sel, b, i - 1)
  BY DEF Ahead, OwnPositions
<1>7. Fits(sel, 0, bal, N)
  <2>1. 0 + 1 = 1
    OBVIOUS
  <2> QED BY <1>5, <1>6, <2>1 DEF Fits
<1> QED BY <1>7 DEF sel

\* The rest of a selection fits the ledger that the next transaction leaves.
LEMMA FitsNext ==
    ASSUME NEW sel \in Seq(PoolTxs), NEW p \in Nat, p < Len(sel),
           NEW bal \in [Addr -> Nat], NEW non \in [Addr -> Nat], Fits(sel, p, bal, non),
           NEW bal2 \in [Addr -> Nat], NEW tx, tx = sel[p + 1],
           \A a \in Addr : bal2[a] >= bal[a]
              + IF a = tx.sender THEN Change(tx, UnbondingBlocks) ELSE 0
    PROVE  Fits(sel, p + 1, bal2, [non EXCEPT ![tx.sender] = tx.nonce + 1])
<1> DEFINE s == tx.sender
           x == Change(tx, UnbondingBlocks)
           non2 == [non EXCEPT ![s] = tx.nonce + 1]
           f == Changes(sel)
           len == Len(sel)
<1>1. len \in Nat /\ DOMAIN sel = 1 .. len /\ p + 1 \in 1 .. len
  OBVIOUS
<1>2. tx \in PoolTxs /\ s \in Addr /\ x \in Int /\ f[p + 1] = x
  BY <1>1, PoolTxType, ChangeType DEF Changes
<1>3. tx.nonce = non[s]
  <2>1. Ahead(sel, p, s, p + 1) = {}
    BY DEF Ahead
  <2>2. tx.nonce = non[s] + Cardinality(Ahead(sel, p, s, p + 1)) /\ non[s] \in Nat
    <3>1. p + 1 \in p + 1 .. Len(sel)
      BY <1>1
    <3> QED BY <1>2, <3>1 DEF Fits
  <2>3. Cardinality(Ahead(sel, p, s, p + 1)) = 0
    BY <2>1, FS_EmptySet
  <2> QED BY <2>2, <2>3
<1>4. ASSUME NEW i \in (p + 1) + 1 .. len, NEW a, a = sel[i].sender
      PROVE  LET ahead == Ahead(sel, p + 1, a, i)
             IN  /\ sel[i].nonce = non2[a] + Cardinality(ahead)
                 /\ bal2[a] + SumFunctionOnSet(f, ahead) >= Required(sel[i])
  <2> DEFINE old == Ahead(sel, p, a, i)
             new == Ahead(sel, p + 1, a, i)
             req == Required(sel[i])
             sum == SumFunctionOnSet(f, old)
             rest == SumFunctionOnSet(f, new)
  <2> HIDE DEF len
  <2>1. /\ i \in p + 1 .. len /\ i \in 1 .. len /\ i \in 1 .. len + 1
        /\ p + 1 \in p + 1 .. i - 1 /\ (p + 1) + 1 .. i - 1 = (p + 1 .. i - 1) \ {p + 1}
        /\ p + 1 \in Nat
    BY <1>1
  <2> USE DEF len
  <2>2. sel[i] \in PoolTxs
    BY <1>1, <2>1
  <2>3. a \in Addr /\ req \in Nat /\ sel[i].nonce \in Nat
    BY <1>4, <2>2, PoolTxType, ChangeType
  <2>4. bal[a] \in Nat /\ bal2[a] \in Nat /\ non[a] \in Nat
    BY <2>3
  <2>5. sel[i].nonce = non[a] + Cardinality(old) /\ bal[a] + sum >= req
    BY <1>4, <2>1 DEF Fits
  <2>6. /\ Summable(f, old) /\ Cardinality(old) \in Nat /\ Cardinality(new) \in Nat
        /\ sum \in Int /\ rest \in Int
    <3>1. Summable(f, old) /\ Cardinality(old) \in Nat /\ sum \in Int
      BY <2>1, AheadSums
    <3>2. Cardinality(new) \in Nat /\ rest \in Int
      BY <2>1, AheadSums
    <3> QED BY <3>1, <3>2
  <2>7. bal2[a] >= bal[a] + IF a = s THEN x ELSE 0
    BY <2>3
  <2> HIDE DEF f, x, s, len
  <2>8. CASE a # s
    <3>1. \A j \in p + 1 .. i - 1 : sel[j].sender = a => j # p + 1
      BY <2>8 DEF s
    <3>2. old = new
      BY <2>1, <3>1 DEF Ahead
    <3>3. non2[a] = non[a] /\ bal2[a] >= bal[a]
      BY <2>3, <2>4, <2>7, <2>8
    <3> HIDE DEF old, new, non2, sum, rest, req
    <3>4. rest = sum
      BY <3>2 DEF sum, rest
    <3>5. bal2[a] + rest >= req
      BY <2>3, <2>4, <2>5, <2>6, <3>3, <3>4
    <3>6. sel[i].nonce = non2[a] + Cardinality(new)
      BY <2>5, <3>2, <3>3
    <3> QED BY <3>5, <3>6 DEF rest, req, new
  <2>9. CASE a = s
    <3>1. sel[p + 1].sender = a
      BY <2>9 DEF s
    <3>2. p + 1 \in old /\ new = old \ {p + 1}
      BY <2>1, <3>1 DEF Ahead
    <3> HIDE DEF old, new, req
    <3>3. Cardinality(new) = Cardinality(old) - 1
      BY <2>6, <3>2, FS_RemoveElement DEF Summable
    <3>4. sum = x + rest
      <4> HIDE DEF sum, rest
      <4>1. Summable(f, old) /\ p + 1 \in old
        BY <2>6, <3>2
      <4>2. SumFunctionOnSet(f, old) = f[p + 1] + SumFunctionOnSet(f, old \ {p + 1})
        <5>1. \A g, A : Summable(g, A) =>
                 \A j \in A : SumFunctionOnSet(g, A) = g[j] + SumFunctionOnSet(g, A \ {j})
          BY SumRemove
        <5>2. \A j \in old : SumFunctionOnSet(f, old) = f[j] + SumFunctionOnSet(f, old \ {j})
          BY <4>1, <5>1, Zenon
        <5> QED BY <4>1, <5>2, Zenon
      <4>3. SumFunctionOnSet(f, old \ {p + 1}) = rest
        BY <3>2 DEF rest
      <4> QED BY <1>2, <4>2, <4>3 DEF sum
    <3>5. non2[a] = non[a] + 1 /\ bal2[a] >= bal[a] + x
      BY <1>2, <1>3, <2>4, <2>7, <2>9
    <3> HIDE DEF non2, sum, rest
    <3>6. bal2[a] + rest >= req
      <4>1. bal2[a] >= bal[a] + x /\ bal[a] + sum >= req /\ sum = x + rest
        BY <2>5, <3>4, <3>5
      <4>2. /\ bal2[a] \in Int /\ bal[a] \in Int /\ req \in Int
            /\ sum \in Int /\ rest \in Int /\ x \in Int
        BY <1>2, <2>3, <2>4, <2>6
      <4> QED BY <4>1, <4>2
    <3>7. sel[i].nonce = non2[a] + Cardinality(new)
      BY <2>3, <2>4, <2>5, <2>6, <3>3, <3>5
    <3> QED BY <3>6, <3>7 DEF rest, req, new
  <2> QED BY <2>8, <2>9
<1> QED BY <1>4 DEF Fits

-----------------------------------------------------------------------------
(* What the handlers take *)

\* A credit takes from nobody, and a debit from its payer only.
LEMMA CreditAt ==
    ASSUME NEW b \in [Addr -> Nat], NEW q \in Addr, NEW x \in Nat, NEW a \in Addr
    PROVE  /\ Credit(b, q, x) \in [Addr -> Nat]
           /\ Credit(b, q, x)[a] >= b[a]
           /\ Credit(b, q, x)[q] = b[q] + x
BY DEF Credit

LEMMA DebitAt ==
    ASSUME NEW b \in [Addr -> Nat], NEW p \in Addr, NEW x \in Nat, b[p] >= x, NEW a \in Addr
    PROVE  /\ Debit(b, p, x) \in [Addr -> Nat]
           /\ Debit(b, p, x)[a] = b[a] + IF a = p THEN -x ELSE 0
BY DEF Debit

\* What a fee and, for a transfer or a bond, an amount leave of a balance.
LEMMA TakenAtMost ==
    ASSUME NEW b \in [Addr -> Nat], NEW p \in Addr, NEW x \in Nat, b[p] >= x,
           NEW q \in Addr, NEW y \in Nat, NEW a \in Addr
    PROVE  LET c == Credit(Debit(b, p, x), q, y)
           IN  c \in [Addr -> Nat] /\ c[a] >= b[a] + IF a = p THEN -x ELSE 0
<1> DEFINE d == Debit(b, p, x)
           c == Credit(d, q, y)
<1>1. d \in [Addr -> Nat] /\ d[a] = b[a] + IF a = p THEN -x ELSE 0
  BY DebitAt
<1> HIDE DEF d
<1>2. c \in [Addr -> Nat] /\ c[a] >= d[a]
  BY <1>1, CreditAt
<1> HIDE DEF c
<1>3. c \in [Addr -> Nat] /\ c[a] >= b[a] + IF a = p THEN -x ELSE 0
  BY <1>1, <1>2
<1> QED BY <1>3 DEF c, d

\* A handler takes at most what select expects of its sender, and nothing of anybody else.
LEMMA HandlerTakes ==
    ASSUME TypeOK, NEW tx \in PoolTxs, Apply(tx), NEW a \in Addr
    PROVE  balances'[a] >= balances[a]
              + IF a = tx.sender THEN Change(tx, UnbondingBlocks) ELSE 0
<1> DEFINE s == tx.sender
<1>1. /\ s \in Addr /\ tx.fee \in Nat /\ tx.body.sender = s /\ tx.body.fee = tx.fee
      /\ tx.kind \in {"transfer", "stake", "unstake"} => tx.amount \in Nat
  BY PoolTxType
<1>2. WorkOK /\ balances \in [Addr -> Nat] /\ UnbondingBlocks \in Nat
  BY WorkOKIsLedgerOK, ChainAssumption DEF TypeOK, WorkOK
<1>3. ASSUME NEW n, Admit(s, n) PROVE block \in Addr
  BY <1>3, OpenBlock
<1>4. CASE tx.kind = "transfer"
  <2> DEFINE x == tx.amount + tx.fee
             paid == Credit(Debit(balances, s, x), tx.body.to, tx.amount)
  <2>1. /\ tx.body \in TransferTx /\ tx.amount = tx.body.amount
        /\ Transfer(tx.body, tx.nonce)
    BY <1>4, ProducerAssumption, ChainAssumption DEF Apply
  <2>2. /\ balances' = Credit(paid, block, tx.fee) /\ balances[s] >= x
        /\ block \in Addr /\ tx.body.to \in Addr /\ x \in Nat
    BY <1>1, <1>3, <1>4, <2>1 DEF Transfer, Affords, TransferTx
  <2>3. Change(tx, UnbondingBlocks) = -x
    BY <1>4 DEF Change, Required
  <2> HIDE DEF x
  <2>4. paid \in [Addr -> Nat] /\ paid[a] >= balances[a] + IF a = s THEN -x ELSE 0
    BY <1>1, <1>2, <1>4, <2>2, TakenAtMost
  <2> HIDE DEF paid
  <2>5. balances'[a] >= paid[a] /\ balances'[a] \in Nat
    BY <1>1, <2>2, <2>4, CreditAt
  <2> QED BY <1>2, <2>2, <2>3, <2>4, <2>5
<1>5. CASE tx.kind = "stake"
  <2> DEFINE x == tx.amount + tx.fee
  <2>1. tx.amount = tx.body.amount /\ Stake(tx.body, tx.nonce)
    BY <1>5, ProducerAssumption DEF Apply
  <2>2. /\ balances' = Credit(Debit(balances, s, x), block, tx.fee) /\ balances[s] >= x
        /\ block \in Addr /\ x \in Nat
    BY <1>1, <1>3, <1>5, <2>1 DEF Stake, Affords
  <2>3. Change(tx, UnbondingBlocks) = -x
    BY <1>5 DEF Change, Required
  <2> HIDE DEF x
  <2> QED BY <1>1, <1>2, <2>2, <2>3, TakenAtMost
<1>6. ASSUME block \in Addr, balances[s] >= tx.fee
      PROVE  LET paid == PayFee(balances, s, tx.fee)
             IN  /\ paid \in [Addr -> Nat]
                 /\ paid[a] >= balances[a] + IF a = s THEN -tx.fee ELSE 0
  BY <1>1, <1>2, <1>6, TakenAtMost DEF PayFee
<1> DEFINE paid == PayFee(balances, s, tx.fee)
<1>7. CASE tx.kind = "unstake"
  <2> DEFINE back == IF UnbondingBlocks > 0 THEN 0 ELSE tx.amount
  <2>1. tx.amount = tx.body.amount /\ Unstake(tx.body, tx.nonce)
    BY <1>7, ProducerAssumption DEF Apply
  <2>2. /\ balances' = Credit(paid, s, back) /\ balances[s] >= tx.fee
        /\ block \in Addr /\ back \in Nat
    BY <1>1, <1>3, <1>7, <2>1 DEF Unstake, Affords
  <2>3. Change(tx, UnbondingBlocks) = back - tx.fee
    BY <1>1, <1>2, <1>7 DEF Change, Required
  <2>4. paid \in [Addr -> Nat] /\ paid[a] >= balances[a] + IF a = s THEN -tx.fee ELSE 0
    BY <1>6, <2>2
  <2> HIDE DEF back, paid
  <2>5. balances'[a] >= paid[a] /\ balances'[s] = paid[s] + back /\ balances'[a] \in Nat
    BY <1>1, <2>2, <2>4, CreditAt
  <2> QED BY <1>1, <1>2, <2>2, <2>3, <2>4, <2>5
<1>8. CASE tx.kind = "slash"
  <2> DEFINE bonded == Bonded(Ledger, tx.body.offender)
             share == (bonded * ReporterBps) \div 10000
             beneficiary == IF s # tx.body.offender THEN s ELSE Treasury
  <2>1. tx.body \in SlashingTx /\ Slash(tx.body, tx.nonce)
    BY <1>8, ProducerAssumption, ChainAssumption DEF Apply
  <2>2. /\ balances' = Credit(Credit(paid, beneficiary, share), Treasury, bonded - share)
        /\ balances[s] >= tx.fee /\ block \in Addr
        /\ Treasury \in Addr /\ beneficiary \in Addr /\ tx.body.offender \in Addr
    BY <1>1, <1>3, <2>1 DEF Slash, Affords, SlashingTx
  <2>3. share \in Nat /\ bonded - share \in Nat
    <3>1. bonded \in Nat
      BY <1>2, <2>2, BondedType
    <3> HIDE DEF bonded
    <3> QED BY <3>1, SharesSplit
  <2>4. Change(tx, UnbondingBlocks) = -tx.fee
    BY <1>8 DEF Change, Required
  <2>5. paid \in [Addr -> Nat] /\ paid[a] >= balances[a] + IF a = s THEN -tx.fee ELSE 0
    BY <1>6, <2>2
  <2> DEFINE first == Credit(paid, beneficiary, share)
             rest == bonded - share
  <2> HIDE DEF paid, share, rest, beneficiary
  <2>6. first \in [Addr -> Nat] /\ first[a] >= paid[a]
    BY <2>2, <2>3, <2>5, CreditAt
  <2>7. balances' = Credit(first, Treasury, rest) /\ rest \in Nat
    BY <2>2, <2>3 DEF rest
  <2> HIDE DEF first
  <2>8. balances'[a] >= first[a] /\ balances'[a] \in Nat
    BY <2>2, <2>6, <2>7, CreditAt
  <2> QED BY <1>1, <1>2, <2>4, <2>5, <2>6, <2>8
<1>9. CASE tx.kind = "vote"
  <2>1. Vote(tx.body, tx.nonce)
    BY <1>9, ProducerAssumption DEF Apply
  <2>2. balances' = paid /\ balances[s] >= tx.fee /\ block \in Addr
    BY <1>1, <1>3, <2>1 DEF Vote, Affords
  <2>3. Change(tx, UnbondingBlocks) = -tx.fee
    BY <1>9 DEF Change, Required
  <2> QED BY <1>6, <2>2, <2>3
<1> QED BY <1>4, <1>5, <1>7, <1>8, <1>9, ProducerAssumption

-----------------------------------------------------------------------------
(* The node's own block *)

\* The first p selected transactions are applied; the rest wait, with the nonces and the
\* funds that they need.
Placed(p) ==
    /\ Len(candidate) = Len(selected) - p
    /\ \A i \in 1 .. Len(candidate) : candidate[i] = selected[p + i]
    /\ Fits(selected, p, balances, nonces)

\* What waits is the rest of a selection, in the node's open block.
CandidateFits ==
    /\ selected \in Seq(PoolTxs)
    /\ candidate # << >> => block = Me /\ \E p \in Nat : Placed(p)

LEMMA ProduceBlockFits ==
    ASSUME PoolInv, ProduceBlock, TypeOK'
    PROVE  CandidateFits'
<1> DEFINE sel == Select(pool, nonces, balances, UnbondingBlocks)
<1>1. /\ selected' = sel /\ candidate' = sel /\ block' = Me /\ nonces' = nonces
      /\ balances' = [a \in Addr |-> balances[a] + Matured(a)]
  BY DEF ProduceBlock, OwnTurn, BeginBlock
<1>2. WorkOK /\ pool \in Seq(PoolTxs) /\ nonces \in [Addr -> Nat] /\ balances \in [Addr -> Nat]
  BY WorkOKIsLedgerOK DEF PoolInv, TypeOK, WorkOK
<1>3. balances' \in [Addr -> Nat] /\ \A a \in Addr : balances'[a] >= balances[a]
  <2>1. \A a \in Addr : Matured(a) \in Nat
    BY <1>2, MaturedType
  <2> QED BY <1>1, <1>2, <2>1
<1>4. sel \in Seq(PoolTxs)
  BY SelectIsPool
<1>5. Fits(sel, 0, balances', nonces)
  <2>1. PICK bal : bal = balances'
    OBVIOUS
  <2>2. Fits(sel, 0, bal, nonces)
    BY <1>2, <1>3, <2>1, SelectedFits
  <2> QED BY <2>1, <2>2
<1> HIDE DEF sel
<1>6. /\ Len(sel) = Len(sel) - 0 /\ 0 \in Nat
      /\ \A i \in 1 .. Len(sel) : sel[i] = sel[0 + i]
  BY <1>4
<1>7. Fits(selected', 0, balances', nonces')
  BY <1>1, <1>5
<1>8. Placed(0)'
  BY <1>1, <1>6, <1>7 DEF Placed, Fits
<1> QED BY <1>1, <1>4, <1>6, <1>8 DEF CandidateFits

LEMMA ApplyNextFits ==
    ASSUME PoolInv, CandidateFits, ApplyNext, TypeOK'
    PROVE  CandidateFits'
<1> DEFINE tx == Head(candidate)
<1>1. /\ tx \in PoolTxs /\ Apply(tx) /\ block = Me /\ candidate # << >>
      /\ candidate' = Tail(candidate) /\ selected' = selected
  BY DEF ApplyNext, NextTx, PoolInv
<1>2. PICK p \in Nat : Placed(p)
  BY <1>1 DEF CandidateFits
<1>3. /\ selected \in Seq(PoolTxs) /\ candidate \in Seq(PoolTxs)
      /\ Len(selected) \in Nat /\ Len(candidate) \in Nat \ {0}
  BY <1>1 DEF CandidateFits, PoolInv
<1>4. p < Len(selected) /\ tx = selected[p + 1]
  <2>1. tx = candidate[1]
    BY <1>1, <1>3
  <2> QED BY <1>2, <1>3, <2>1 DEF Placed
<1>5. /\ block' = Me
      /\ nonces' = [nonces EXCEPT ![tx.sender] = tx.nonce + 1]
  BY <1>1, ApplyStep DEF PoolInv, blockVars
<1>6. /\ nonces \in [Addr -> Nat] /\ balances \in [Addr -> Nat] /\ balances' \in [Addr -> Nat]
  BY NonceTypes, WorkOKIsLedgerOKPrime DEF PoolInv, TypeOK, WorkOK
<1>7. \A a \in Addr : balances'[a] >= balances[a]
         + IF a = tx.sender THEN Change(tx, UnbondingBlocks) ELSE 0
  BY <1>1, HandlerTakes DEF PoolInv
<1>8. Fits(selected, p + 1, balances', nonces')
  <2>1. PICK bal : bal = balances'
    OBVIOUS
  <2>2. PICK t : t = tx
    OBVIOUS
  <2>3. Fits(selected, p + 1, bal, [nonces EXCEPT ![t.sender] = t.nonce + 1])
    <3> HIDE DEF tx
    <3>1. \A a \in Addr : bal[a] >= balances[a]
             + IF a = t.sender THEN Change(t, UnbondingBlocks) ELSE 0
      BY <1>7, <2>1, <2>2
    <3>2. bal \in [Addr -> Nat] /\ t = selected[p + 1]
      BY <1>4, <1>6, <2>1, <2>2
    <3>3. Fits(selected, p, balances, nonces)
      BY <1>2 DEF Placed
    <3> QED BY <1>3, <1>4, <1>6, <3>1, <3>2, <3>3, FitsNext
  <2> QED BY <1>5, <2>1, <2>2, <2>3
<1>9. /\ Len(candidate') = Len(selected) - (p + 1) /\ p + 1 \in Nat
      /\ \A i \in 1 .. Len(candidate') : candidate'[i] = selected[(p + 1) + i]
  <2>1. /\ Len(candidate') = Len(candidate) - 1
        /\ \A i \in 1 .. Len(candidate') : candidate'[i] = candidate[i + 1]
    BY <1>1, <1>3
  <2>2. SUFFICES ASSUME NEW i \in 1 .. Len(candidate')
                 PROVE  candidate'[i] = selected[(p + 1) + i]
    BY <1>2, <1>3, <2>1 DEF Placed
  <2>3. i + 1 \in 1 .. Len(candidate) /\ p + (i + 1) = (p + 1) + i
    BY <1>3, <2>1
  <2> QED BY <1>2, <2>1, <2>3 DEF Placed
<1>10. PICK q \in Nat : q = p + 1
  BY <1>9
<1>11. Placed(q)'
  BY <1>1, <1>8, <1>9, <1>10 DEF Placed, Fits
<1> QED BY <1>1, <1>3, <1>5, <1>11 DEF CandidateFits

LEMMA CandidateStep ==
    ASSUME PoolInv, CandidateFits, [ProducerNext]_<<vars, producerVars>>
    PROVE  CandidateFits'
<1>1. TypeOK'
  BY ChainStep, NextType DEF PoolInv
<1>2. CASE ProduceBlock
  BY <1>1, <1>2, ProduceBlockFits
<1>3. CASE ApplyNext
  BY <1>1, <1>3, ApplyNextFits
<1>4. CASE candidate' = << >> /\ selected' \in {selected, << >>}
  <2>1. selected' \in Seq(PoolTxs)
    <3>1. selected \in Seq(PoolTxs) /\ << >> \in Seq(PoolTxs)
      BY DEF CandidateFits
    <3> QED BY <1>4, <3>1
  <2> QED BY <1>4, <2>1 DEF CandidateFits
<1>5. CASE UNCHANGED <<balances, nonces, block, candidate, selected>>
  BY <1>5 DEF CandidateFits, Placed, Fits
<1>6. CASE \/ \E tx \in PoolTxs : CheckTx(tx) \/ InsertTx(tx)
           \/ \E o \in owing : Update(o) \/ SkipUpdate(o)
           \/ SelectFails
  BY <1>5, <1>6 DEF CheckTx, InsertTx, Update, SkipUpdate, SelectFails, vars, ledgerVars
<1>7. CASE RejectOwn \/ Accepted
  BY <1>4, <1>7 DEF RejectOwn, Accepted
<1>8. CASE ReceiveBlock \/ RejectReceived \/ \E tx \in PoolTxs : ReceivedTx(tx)
  <2>1. block # Me /\ UNCHANGED <<candidate, selected>>
    BY <1>8, NonceTypes, ProducerAssumption
       DEF ReceiveBlock, RejectReceived, ReceivedTx, BeginBlock, producerVars, PoolInv
  <2>2. candidate = << >>
    BY <2>1 DEF CandidateFits
  <2> QED BY <1>4, <2>1, <2>2
<1>9. CASE UNCHANGED <<vars, producerVars>>
  BY <1>5, <1>9 DEF vars, ledgerVars, producerVars
<1> QED BY <1>2, <1>3, <1>6, <1>7, <1>8, <1>9 DEF ProducerNext

\* mempool.py's "selection never proposes an unaffordable set": whenever the turn of a
\* selected transaction comes in the node's own block, its nonce is its sender's next one
\* and the sender has the liquid balance that the chain asks for.
THEOREM AffordableTheorem == ProducerSpec => []SelectionAffordable
<1>1. ProducerInit => CandidateFits
  BY DEF ProducerInit, CandidateFits
<1>2. PoolInv /\ CandidateFits /\ [ProducerNext]_<<vars, producerVars>> => CandidateFits'
  BY CandidateStep
<1>3. ASSUME PoolInv, CandidateFits PROVE SelectionAffordable
  <2> DEFINE tx == Head(candidate)
             a == tx.sender
  <2>1. SUFFICES ASSUME candidate # << >>
                 PROVE  /\ block = Me /\ tx.nonce = nonces[a]
                        /\ Affords(a, Required(tx))
    BY DEF SelectionAffordable, NextTx
  <2>2. PICK p \in Nat : Placed(p)
    BY <1>3, <2>1 DEF CandidateFits
  <2>3. /\ selected \in Seq(PoolTxs) /\ candidate \in Seq(PoolTxs)
        /\ Len(selected) \in Nat /\ Len(candidate) \in Nat \ {0}
    BY <1>3, <2>1 DEF CandidateFits, PoolInv
  <2>4. p + 1 \in p + 1 .. Len(selected) /\ tx = selected[p + 1]
    <3>1. tx = candidate[1]
      BY <2>1, <2>3
    <3> QED BY <2>2, <2>3, <3>1 DEF Placed
  <2>5. tx \in PoolTxs /\ a \in Addr
    BY <2>1, <2>3, PoolTxType
  <2> DEFINE ahead == Ahead(selected, p, a, p + 1)
  <2>6. ahead = {}
    BY DEF Ahead
  <2>7. Cardinality(ahead) = 0 /\ SumFunctionOnSet(Changes(selected), ahead) = 0
    BY <2>6, FS_EmptySet, SumEmpty
  <2>8. /\ tx.nonce = nonces[a] + Cardinality(ahead)
        /\ balances[a] + SumFunctionOnSet(Changes(selected), ahead) >= Required(tx)
    BY <2>2, <2>4 DEF Placed, Fits
  <2>9. nonces[a] \in Nat /\ balances[a] \in Nat
    BY <1>3, <2>5, NonceTypes DEF PoolInv
  <2>10. block = Me
    BY <1>3, <2>1 DEF CandidateFits
  <2> HIDE DEF ahead, tx, a
  <2> QED BY <2>7, <2>8, <2>9, <2>10 DEF Affords
<1> QED BY <1>1, <1>2, <1>3, PoolInvariant, PTL DEF ProducerSpec
=============================================================================
