--------------------------- MODULE PosChainProofs ---------------------------
(***************************************************************************)
(* Theorems about PosChain for all values of its constants: any finite set *)
(* of addresses, any genesis, any transactions, any height.                *)
(***************************************************************************)
EXTENDS PosChain, SumTheorems

\* LedgerOK of the working copies, on the variables themselves.
WorkOK ==
    /\ balances \in [Addr -> Nat]
    /\ nonces \in [Addr -> Nat]
    /\ IsDict(stakes, Addr, Nat)
    /\ unbonding \in [Addr -> [Releases -> Nat]]
    /\ slashed \subseteq Addr \X Nat
    /\ slashed_addrs \subseteq Addr
    /\ DOMAIN ffg_stake \subseteq 0 .. MaxHeight
    /\ \A c \in DOMAIN ffg_stake : IsDict(ffg_stake[c], Addr, Nat)
    /\ ffg_votes \subseteq [voter : Addr, s : 0 .. MaxHeight, t : 0 .. MaxHeight]
    /\ justified \subseteq 0 .. MaxHeight
    /\ finalized \in 0 .. MaxHeight
    /\ spent \subseteq Addr \X Nat
    /\ waived \in [Addr -> Nat]
    /\ ntx \in 0 .. MaxTxs

LEMMA WorkOKIsLedgerOK == LedgerOK(Ledger) <=> WorkOK
BY DEF LedgerOK, Ledger, WorkOK

LEMMA WorkOKIsLedgerOKPrime == LedgerOK(Ledger)' <=> WorkOK'
BY DEF LedgerOK, Ledger, WorkOK

\* The dictionary operations keep keys and values in their sets.
LEMMA GetType ==
    ASSUME NEW d, NEW K, IsDict(d, K, Nat), NEW k
    PROVE  Get(d, k) \in Nat
BY DEF Get, IsDict

LEMMA PutType ==
    ASSUME NEW d, NEW K, NEW V, IsDict(d, K, V), NEW k \in K, NEW v \in V
    PROVE  IsDict(Put(d, k, v), K, V)
BY DEF Put, IsDict

LEMMA PopType ==
    ASSUME NEW d, NEW K, NEW V, IsDict(d, K, V), NEW k
    PROVE  IsDict(Pop(d, k), K, V)
BY DEF Pop, IsDict

\* Money moves keep balances natural as long as nobody overdraws.
LEMMA CreditType ==
    ASSUME NEW b \in [Addr -> Nat], NEW a \in Addr, NEW x \in Nat
    PROVE  Credit(b, a, x) \in [Addr -> Nat]
BY DEF Credit

LEMMA DebitType ==
    ASSUME NEW b \in [Addr -> Nat], NEW a \in Addr, NEW x \in Nat, b[a] >= x
    PROVE  Debit(b, a, x) \in [Addr -> Nat]
BY DEF Debit

LEMMA PayFeeType ==
    ASSUME WorkOK, block \in Addr, NEW a \in Addr, NEW fee \in Nat, Affords(a, fee)
    PROVE  PayFee(balances, a, fee) \in [Addr -> Nat]
<1>1. Debit(balances, a, fee) \in [Addr -> Nat]
  BY DebitType DEF WorkOK, Affords
<1> QED BY <1>1, CreditType DEF PayFee

LEMMA ReleasesFinite == IsFiniteSet(Releases) /\ Releases \subseteq Nat
BY FS_Interval, ChainAssumption DEF Releases

\* Amounts that come out of the unbonding queues are naturals.
LEMMA MaturedType ==
    ASSUME WorkOK, NEW a \in Addr
    PROVE  Matured(a) \in Nat
<1>1. IsFiniteSet({r \in Releases : r <= Index})
  BY ReleasesFinite, FS_Subset
<1> QED BY <1>1, SumNat DEF Matured, WorkOK

LEMMA BondedType ==
    ASSUME WorkOK, NEW a \in Addr
    PROVE  Bonded(Ledger, a) \in Nat
<1>1. SumFunction(unbonding[a]) \in Nat
  BY ReleasesFinite, SumNat DEF SumFunction, WorkOK
<1>2. Get(stakes, a) \in Nat
  BY GetType DEF WorkOK
<1> QED BY <1>1, <1>2 DEF Bonded, UnbondingTotal, Ledger

-----------------------------------------------------------------------------
LEMMA InitType == Init => TypeOK
<1> SUFFICES ASSUME Init PROVE TypeOK
  OBVIOUS
<1>1. \A a \in Addr : Get(InitStake, a) \in Nat /\ Get(InitStake, a) <= Alloc[a]
  BY ChainAssumption DEF Get, IsDict
<1>2. WorkOK
  <2>1. balances \in [Addr -> Nat]
    BY <1>1, ChainAssumption DEF Init
  <2>2. IsDict(stakes, Addr, Nat)
    BY ChainAssumption DEF Init, IsDict
  <2> QED BY <2>1, <2>2, ChainAssumption DEF Init, WorkOK
<1>3. saved = Ledger
  BY DEF Init, Ledger
<1> QED BY <1>2, <1>3, WorkOKIsLedgerOK, ChainAssumption DEF Init, TypeOK

LEMMA BeginBlockType ==
    ASSUME TypeOK, NEW v \in Addr, BeginBlock(v)
    PROVE  TypeOK'
<1>1. WorkOK
  BY WorkOKIsLedgerOK DEF TypeOK
<1>2. Index \in 0 .. MaxHeight
  BY ChainAssumption DEF TypeOK, BeginBlock, Index
<1>3. \A a \in Addr : Matured(a) \in Nat
  BY <1>1, MaturedType
<1>4. balances' \in [Addr -> Nat]
  BY <1>1, <1>3 DEF BeginBlock, WorkOK
<1>5. unbonding' \in [Addr -> [Releases -> Nat]]
  BY <1>1 DEF BeginBlock, WorkOK
<1>6. /\ DOMAIN ffg_stake' \subseteq 0 .. MaxHeight
      /\ \A c \in DOMAIN ffg_stake' : IsDict(ffg_stake'[c], Addr, Nat)
  BY <1>1, <1>2 DEF BeginBlock, WorkOK, Put
<1>7. WorkOK'
  BY <1>1, <1>4, <1>5, <1>6 DEF BeginBlock, WorkOK, slashVars
<1> QED BY <1>1, <1>7, WorkOKIsLedgerOKPrime DEF TypeOK, BeginBlock, WorkOK

\* What every transaction handler does to the nonces and the history.
LEMMA ConsumeType ==
    ASSUME WorkOK, NEW a \in Addr, NEW n \in Nonces, Admit(a, n), Consume(a, n)
    PROVE  /\ nonces' \in [Addr -> Nat]
           /\ spent' \subseteq Addr \X Nat
           /\ ntx' \in 0 .. MaxTxs
<1>1. n \in Nat
  BY ChainAssumption DEF Nonces
<1> QED BY <1>1, ChainAssumption DEF WorkOK, Admit, Consume

\* A step of an open block keeps the types if it keeps those of the working
\* copies.
LEMMA BlockStepType ==
    ASSUME TypeOK, WorkOK', UNCHANGED blockVars
    PROVE  TypeOK'
BY WorkOKIsLedgerOKPrime DEF TypeOK, blockVars

LEMMA OpenBlock ==
    ASSUME TypeOK, NEW a, NEW n, Admit(a, n)
    PROVE  block \in Addr /\ Index \in 1 .. MaxHeight
BY ChainAssumption DEF TypeOK, Admit, Index

LEMMA TransferType ==
    ASSUME TypeOK, NEW tx \in Transfers, NEW n \in Nonces, Transfer(tx, n)
    PROVE  TypeOK'
<1>1. WorkOK /\ block \in Addr
  BY WorkOKIsLedgerOK, OpenBlock DEF TypeOK, Transfer
<1>2. tx.sender \in Addr /\ tx.to \in Addr /\ tx.amount \in Nat /\ tx.fee \in Nat
  BY ChainAssumption DEF TransferTx
<1>3. balances' \in [Addr -> Nat]
  <2>1. Debit(balances, tx.sender, tx.amount + tx.fee) \in [Addr -> Nat]
    BY <1>1, <1>2, DebitType DEF Transfer, WorkOK, Affords
  <2> QED BY <1>1, <1>2, <2>1, CreditType DEF Transfer
<1>4. WorkOK'
  BY <1>1, <1>2, <1>3, ConsumeType DEF WorkOK, Transfer, slashVars, ffgVars
<1> QED BY <1>4, BlockStepType DEF Transfer

LEMMA StakeType ==
    ASSUME TypeOK, NEW tx \in StakeTxs, NEW n \in Nonces, Stake(tx, n)
    PROVE  TypeOK'
<1>1. WorkOK /\ block \in Addr
  BY WorkOKIsLedgerOK, OpenBlock DEF TypeOK, Stake
<1>2. tx.sender \in Addr /\ tx.amount \in Nat /\ tx.fee \in Nat
  BY ChainAssumption DEF StakingTx
<1>3. balances' \in [Addr -> Nat]
  <2>1. Debit(balances, tx.sender, tx.amount + tx.fee) \in [Addr -> Nat]
    BY <1>1, <1>2, DebitType DEF Stake, WorkOK, Affords
  <2> QED BY <1>1, <1>2, <2>1, CreditType DEF Stake
<1>4. IsDict(stakes', Addr, Nat)
  <2>1. Get(stakes, tx.sender) + tx.amount \in Nat
    BY <1>1, <1>2, GetType DEF WorkOK
  <2> QED BY <1>1, <1>2, <2>1, PutType DEF Stake, WorkOK
<1>5. WorkOK'
  BY <1>1, <1>2, <1>3, <1>4, ConsumeType DEF WorkOK, Stake, slashVars, ffgVars
<1> QED BY <1>5, BlockStepType DEF Stake

LEMMA UnstakeType ==
    ASSUME TypeOK, NEW tx \in UnstakeTxs, NEW n \in Nonces, Unstake(tx, n)
    PROVE  TypeOK'
<1>1. WorkOK /\ block \in Addr
  BY WorkOKIsLedgerOK, OpenBlock DEF TypeOK, Unstake
<1>2. tx.sender \in Addr /\ tx.amount \in Nat /\ tx.fee \in Nat
  BY ChainAssumption DEF StakingTx
<1>3. balances' \in [Addr -> Nat]
  <2>1. PayFee(balances, tx.sender, tx.fee) \in [Addr -> Nat]
    BY <1>1, <1>2, PayFeeType DEF Unstake
  <2> QED BY <1>1, <1>2, <2>1, CreditType DEF Unstake
<1>4. tx.sender \in DOMAIN stakes /\ stakes[tx.sender] >= tx.amount
  BY <1>2 DEF Unstake, Get
<1>5. IsDict(stakes', Addr, Nat)
  <2>1. stakes[tx.sender] - tx.amount \in Nat
    BY <1>1, <1>2, <1>4 DEF WorkOK, IsDict
  <2> QED BY <1>1, <1>2, <2>1, PutType, PopType DEF Unstake, Withdraw, WorkOK
<1>6. unbonding' \in [Addr -> [Releases -> Nat]]
  <2>1. ReleaseHeight \in Releases
    BY OpenBlock, ChainAssumption DEF Unstake, Releases, ReleaseHeight
  <2> QED BY <1>1, <1>2, <2>1 DEF Unstake, WorkOK
<1>7. WorkOK'
  BY <1>1, <1>2, <1>3, <1>5, <1>6, ConsumeType DEF WorkOK, Unstake, slashVars, ffgVars
<1> QED BY <1>7, BlockStepType DEF Unstake

\* The two shares of a slash are naturals and add up to what was bonded.
LEMMA SharesSplit ==
    ASSUME NEW bonded \in Nat
    PROVE  LET share == (bonded * ReporterBps) \div 10000
           IN  share \in Nat /\ bonded - share \in Nat
<1>1. ReporterBps \in Nat /\ ReporterBps <= 10000
  BY ChainAssumption
<1>2. bonded * ReporterBps \in Nat /\ bonded * ReporterBps <= bonded * 10000
  BY <1>1
<1> QED BY <1>2

LEMMA SlashType ==
    ASSUME TypeOK, NEW tx \in SlashTxs, NEW n \in Nonces, Slash(tx, n)
    PROVE  TypeOK'
<1>1. WorkOK /\ block \in Addr
  BY WorkOKIsLedgerOK, OpenBlock DEF TypeOK, Slash
<1>2. tx.sender \in Addr /\ tx.offender \in Addr /\ tx.key \in Nat /\ tx.fee \in Nat
  BY ChainAssumption DEF SlashingTx
<1> DEFINE bonded == Bonded(Ledger, tx.offender)
           share == (bonded * ReporterBps) \div 10000
           beneficiary == IF tx.sender # tx.offender THEN tx.sender ELSE Treasury
<1>3. share \in Nat /\ bonded - share \in Nat
  <2>1. bonded \in Nat
    BY <1>1, <1>2, BondedType
  <2> HIDE DEF bonded
  <2> QED BY <2>1, SharesSplit
<1>4. balances' \in [Addr -> Nat]
  <2> DEFINE paid == PayFee(balances, tx.sender, tx.fee)
  <2>1. /\ Treasury \in Addr
        /\ beneficiary \in Addr
        /\ balances' = Credit(Credit(paid, beneficiary, share), Treasury, bonded - share)
    BY <1>2 DEF Slash
  <2>2. paid \in [Addr -> Nat]
    BY <1>1, <1>2, PayFeeType DEF Slash
  <2> HIDE DEF bonded, share, beneficiary, paid
  <2> QED BY <1>3, <2>1, <2>2, CreditType
<1>5. IsDict(stakes', Addr, Nat)
  BY <1>1, PopType DEF Slash, WorkOK
<1>6. unbonding' \in [Addr -> [Releases -> Nat]]
  BY <1>1, <1>2 DEF Slash, WorkOK
<1>7. slashed' \subseteq Addr \X Nat /\ slashed_addrs' \subseteq Addr
  BY <1>1, <1>2 DEF Slash, WorkOK
<1>8. waived' \in [Addr -> Nat]
  BY <1>1, <1>2, CreditType DEF Slash, WorkOK
<1>9. WorkOK'
  BY <1>1, <1>2, <1>4, <1>5, <1>6, <1>7, <1>8, ConsumeType DEF WorkOK, Slash, ffgVars
<1> QED BY <1>9, BlockStepType DEF Slash

LEMMA VoteType ==
    ASSUME TypeOK, NEW tx \in VoteTxs, NEW n \in Nonces, Vote(tx, n)
    PROVE  TypeOK'
<1>1. WorkOK /\ block \in Addr
  BY WorkOKIsLedgerOK, OpenBlock DEF TypeOK, Vote
<1>2. tx.sender \in Addr /\ tx.fee \in Nat
  BY ChainAssumption DEF VotingTx
<1>3. tx.s \in 0 .. MaxHeight /\ tx.t \in 0 .. MaxHeight
  BY <1>1 DEF Vote, LinkOnBranch, WorkOK
<1>4. balances' \in [Addr -> Nat]
  BY <1>1, <1>2, PayFeeType DEF Vote
<1>5. /\ ffg_votes' \subseteq [voter : Addr, s : 0 .. MaxHeight, t : 0 .. MaxHeight]
      /\ justified' \subseteq 0 .. MaxHeight
      /\ finalized' \in 0 .. MaxHeight
  <2> DEFINE w == [voter |-> tx.sender, s |-> tx.s, t |-> tx.t]
  <2>1. ffg_votes' = ffg_votes \cup {w}
    BY DEF Vote
  <2>2. justified' \subseteq justified \cup {tx.t} /\ finalized' \in {finalized, tx.s}
    BY DEF Vote
  <2> QED BY <1>1, <1>2, <1>3, <2>1, <2>2 DEF WorkOK
<1>6. waived' \in [Addr -> Nat]
  BY <1>1, <1>2, CreditType DEF Vote, WorkOK
<1>7. WorkOK'
  BY <1>1, <1>2, <1>4, <1>5, <1>6, ConsumeType DEF WorkOK, Vote, slashVars
<1> QED BY <1>7, BlockStepType DEF Vote

LEMMA CommitType == ASSUME TypeOK, CommitBlock PROVE TypeOK'
<1>1. WorkOK'
  BY WorkOKIsLedgerOK DEF TypeOK, CommitBlock, ledgerVars, WorkOK
<1>2. LedgerOK(saved)'
  BY WorkOKIsLedgerOK DEF TypeOK, CommitBlock, ledgerVars, WorkOK
<1> QED BY <1>1, <1>2, WorkOKIsLedgerOKPrime, ChainAssumption
        DEF TypeOK, CommitBlock, Index

LEMMA RejectType == ASSUME TypeOK, RejectBlock PROVE TypeOK'
<1>1. WorkOK'
  BY DEF TypeOK, RejectBlock, Restore, LedgerOK, WorkOK
<1> QED BY <1>1, WorkOKIsLedgerOKPrime DEF TypeOK, RejectBlock

LEMMA NextType == ASSUME TypeOK, [Next]_vars PROVE TypeOK'
<1>1. CASE UNCHANGED vars
  <2>1. WorkOK'
    BY <1>1, WorkOKIsLedgerOK DEF TypeOK, vars, ledgerVars, WorkOK
  <2> QED BY <1>1, <2>1, BlockStepType DEF vars, blockVars
<1> QED BY <1>1, BeginBlockType, TransferType, StakeType, UnstakeType, SlashType,
           VoteType, CommitType, RejectType DEF Next

\* Type correctness for every genesis and every transaction mix: no balance,
\* stake or unbonding amount of the Python dictionaries ever goes negative.
THEOREM TypeCorrect == Spec => []TypeOK
BY InitType, NextType, PTL DEF Spec

-----------------------------------------------------------------------------
(***************************************************************************)
(* Conservation of the supply.  Every handler changes the three sums that  *)
(* make up the supply by amounts that cancel out.                          *)
(***************************************************************************)
Unbonding(u) == SumFunction([a \in Addr |-> SumFunction(u[a])])

Supply == SumFunction(balances) + SumFunction(stakes) + Unbonding(unbonding)

LEMMA SupplyIsTotal == TotalSupply(Ledger) = Supply
BY DEF TotalSupply, UnbondingTotal, Ledger, Supply, Unbonding

LEMMA SupplyIsTotalPrime == TotalSupply(Ledger)' = Supply'
BY DEF TotalSupply, UnbondingTotal, Ledger, Supply, Unbonding

LEMMA AddrFinite == IsFiniteSet(Addr)
BY ChainAssumption

LEMMA BalanceSum ==
    ASSUME NEW b \in [Addr -> Nat]
    PROVE  SumFunction(b) \in Nat /\ Summable(b, Addr)
BY AddrFinite, SumNat DEF SumFunction, Summable

LEMMA CreditSum ==
    ASSUME NEW b \in [Addr -> Nat], NEW a \in Addr, NEW x \in Nat
    PROVE  SumFunction(Credit(b, a, x)) = SumFunction(b) + x
<1> DEFINE c == Credit(b, a, x)
<1>1. c \in [Addr -> Nat] /\ c[a] = b[a] + x /\ \A y \in Addr \ {a} : c[y] = b[y]
  BY DEF Credit
<1>2. SumFunctionOnSet(c, Addr) = SumFunctionOnSet(b, Addr) - b[a] + c[a]
  <2> HIDE DEF c
  <2> QED BY <1>1, BalanceSum, SumChangeOne
<1>3. DOMAIN c = Addr /\ DOMAIN b = Addr
  BY <1>1
<1> HIDE DEF c
<1> QED BY <1>1, <1>2, <1>3, BalanceSum DEF c, SumFunction

LEMMA DebitSum ==
    ASSUME NEW b \in [Addr -> Nat], NEW a \in Addr, NEW x \in Nat, b[a] >= x
    PROVE  SumFunction(Debit(b, a, x)) = SumFunction(b) - x
<1> DEFINE c == Debit(b, a, x)
<1>1. c \in [Addr -> Nat] /\ c[a] = b[a] - x /\ \A y \in Addr \ {a} : c[y] = b[y]
  BY DEF Debit
<1>2. SumFunctionOnSet(c, Addr) = SumFunctionOnSet(b, Addr) - b[a] + c[a]
  <2> HIDE DEF c
  <2> QED BY <1>1, BalanceSum, SumChangeOne
<1>3. DOMAIN c = Addr /\ DOMAIN b = Addr
  BY <1>1
<1> HIDE DEF c
<1> QED BY <1>1, <1>2, <1>3, BalanceSum DEF c, SumFunction

LEMMA PayFeeSum ==
    ASSUME WorkOK, block \in Addr, NEW a \in Addr, NEW fee \in Nat, Affords(a, fee)
    PROVE  SumFunction(PayFee(balances, a, fee)) = SumFunction(balances)
<1> DEFINE b1 == Debit(balances, a, fee)
<1>1. /\ b1 \in [Addr -> Nat] /\ SumFunction(b1) = SumFunction(balances) - fee
      /\ SumFunction(balances) \in Nat
  BY DebitType, DebitSum, BalanceSum DEF WorkOK, Affords
<1>2. SumFunction(Credit(b1, block, fee)) = SumFunction(b1) + fee
  <2> HIDE DEF b1
  <2> QED BY <1>1, CreditSum
<1> QED BY <1>1, <1>2 DEF PayFee

LEMMA DictSum ==
    ASSUME NEW d, IsDict(d, Addr, Nat)
    PROVE  SumFunction(d) \in Nat /\ Summable(d, DOMAIN d)
<1>1. IsFiniteSet(DOMAIN d) /\ \A x \in DOMAIN d : d[x] \in Nat
  BY AddrFinite, FS_Subset DEF IsDict
<1> QED BY <1>1, SumNat DEF SumFunction, Summable

LEMMA PopSum ==
    ASSUME NEW d, IsDict(d, Addr, Nat), NEW k
    PROVE  SumFunction(Pop(d, k)) = SumFunction(d) - Get(d, k)
<1> DEFINE p == Pop(d, k)
           R == DOMAIN d \ {k}
<1>1. DOMAIN p = R /\ (\A x \in R : d[x] = p[x]) /\ Summable(d, DOMAIN d) /\ Summable(d, R)
  BY DictSum, SummableSubset DEF Pop
<1>2. SumFunctionOnSet(p, R) = SumFunctionOnSet(d, R)
  <2> HIDE DEF p, R
  <2> QED BY <1>1, SumCongruent
<1>3. CASE k \in DOMAIN d
  <2>1. SumFunctionOnSet(d, DOMAIN d) = d[k] + SumFunctionOnSet(d, R)
    BY <1>1, <1>3, SumRemove
  <2>2. SumFunctionOnSet(d, R) \in Int /\ d[k] \in Int
    BY <1>1, <1>3, SumType DEF Summable
  <2> HIDE DEF p, R
  <2> QED BY <1>1, <1>2, <1>3, <2>1, <2>2 DEF p, SumFunction, Get
<1>4. CASE k \notin DOMAIN d
  <2>1. R = DOMAIN d
    BY <1>4
  <2> QED BY <1>1, <1>2, <1>4, <2>1, DictSum DEF SumFunction, Get
<1> QED BY <1>3, <1>4

LEMMA PutSum ==
    ASSUME NEW d, IsDict(d, Addr, Nat), NEW k \in Addr, NEW v \in Nat
    PROVE  SumFunction(Put(d, k, v)) = SumFunction(d) - Get(d, k) + v
<1> DEFINE p == Put(d, k, v)
<1>1. IsDict(p, Addr, Nat) /\ k \in DOMAIN p /\ p[k] = v
  BY PutType DEF Put
<1>2. Summable(p, DOMAIN p)
  BY <1>1, DictSum
<1>3. SumFunctionOnSet(p, DOMAIN p) = v + SumFunctionOnSet(p, DOMAIN p \ {k})
  <2> HIDE DEF p
  <2> QED BY <1>1, <1>2, SumRemove
<1>4. SumFunction(Pop(p, k)) = SumFunctionOnSet(p, DOMAIN p \ {k})
  <2>1. SumFunction(Pop(p, k)) = SumFunction(p) - p[k]
    <3> HIDE DEF p
    <3> QED BY <1>1, PopSum DEF Get
  <2>2. SumFunctionOnSet(p, DOMAIN p \ {k}) \in Int
    BY <1>2, SummableSubset, SumType
  <2> HIDE DEF p
  <2> QED BY <1>1, <1>3, <2>1, <2>2 DEF SumFunction
<1>5. Pop(p, k) = Pop(d, k)
  BY DEF Pop, Put
<1>6. SumFunction(Pop(d, k)) = SumFunction(d) - Get(d, k)
  BY PopSum
<1>7. SumFunction(d) \in Int /\ Get(d, k) \in Int
  BY DictSum, GetType
<1>8. SumFunction(p) = SumFunctionOnSet(p, DOMAIN p)
  BY DEF SumFunction
<1> HIDE DEF p
<1> QED BY <1>3, <1>4, <1>5, <1>6, <1>7, <1>8 DEF p

\* What is unbonding, per address and in total.
LEMMA QueueSum ==
    ASSUME NEW q \in [Releases -> Nat]
    PROVE  SumFunction(q) \in Nat /\ Summable(q, Releases)
<1>1. IsFiniteSet(Releases) /\ DOMAIN q = Releases /\ \A r \in Releases : q[r] \in Nat
  BY ReleasesFinite
<1>2. SumFunctionOnSet(q, Releases) \in Nat
  BY <1>1, SumNat
<1> QED BY <1>1, <1>2 DEF SumFunction, Summable

LEMMA UnbondingType ==
    ASSUME NEW u \in [Addr -> [Releases -> Nat]]
    PROVE  /\ [a \in Addr |-> SumFunction(u[a])] \in [Addr -> Nat]
           /\ Unbonding(u) \in Nat
<1>1. \A a \in Addr : SumFunction(u[a]) \in Nat
  BY QueueSum
<1>2. [a \in Addr |-> SumFunction(u[a])] \in [Addr -> Nat]
  BY <1>1
<1> QED BY <1>2, BalanceSum DEF Unbonding

\* Replacing one address's queue changes the total by the difference.
LEMMA UnbondingChangeOne ==
    ASSUME NEW u \in [Addr -> [Releases -> Nat]], NEW a \in Addr,
           NEW q \in [Releases -> Nat]
    PROVE  Unbonding([u EXCEPT ![a] = q])
             = Unbonding(u) - SumFunction(u[a]) + SumFunction(q)
<1> DEFINE w == [u EXCEPT ![a] = q]
           f == [x \in Addr |-> SumFunction(u[x])]
           g == [x \in Addr |-> SumFunction(w[x])]
<1>1. w \in [Addr -> [Releases -> Nat]] /\ w[a] = q /\ \A x \in Addr \ {a} : w[x] = u[x]
  OBVIOUS
<1>2. f \in [Addr -> Nat] /\ g \in [Addr -> Nat]
  <2> HIDE DEF w
  <2> QED BY <1>1, UnbondingType
<1>3. /\ \A x \in Addr \ {a} : g[x] = f[x]
      /\ g[a] = SumFunction(q) /\ f[a] = SumFunction(u[a])
  <2> HIDE DEF w
  <2> QED BY <1>1
<1>4. Summable(f, Addr) /\ Summable(g, Addr)
  BY <1>2, BalanceSum
<1>5. SumFunctionOnSet(g, Addr) = SumFunctionOnSet(f, Addr) - f[a] + g[a]
  <2> HIDE DEF f, g
  <2> QED BY <1>3, <1>4, SumChangeOne
<1>6. Unbonding(w) = SumFunctionOnSet(g, Addr) /\ Unbonding(u) = SumFunctionOnSet(f, Addr)
  BY DEF Unbonding, SumFunction
<1> QED BY <1>3, <1>5, <1>6

\* Adding to one release adds to the queue.
LEMMA QueueAdd ==
    ASSUME NEW q \in [Releases -> Nat], NEW r \in Releases, NEW x \in Nat
    PROVE  SumFunction([q EXCEPT ![r] = @ + x]) = SumFunction(q) + x
<1> DEFINE p == [q EXCEPT ![r] = @ + x]
<1>1. p \in [Releases -> Nat] /\ p[r] = q[r] + x /\ \A y \in Releases \ {r} : p[y] = q[y]
  BY ReleasesFinite
<1>2. SumFunctionOnSet(p, Releases) = SumFunctionOnSet(q, Releases) - q[r] + p[r]
  <2> HIDE DEF p
  <2> QED BY <1>1, QueueSum, SumChangeOne
<1>3. DOMAIN p = Releases /\ DOMAIN q = Releases
  BY <1>1
<1> HIDE DEF p
<1> QED BY <1>1, <1>2, <1>3, QueueSum DEF p, SumFunction

\* An empty queue holds nothing.
LEMMA QueueEmpty == SumFunction([r \in Releases |-> 0]) = 0
BY ReleasesFinite, SumZero DEF SumFunction

\* Maturing splits a queue into what is released and what stays.
LEMMA QueueMature ==
    ASSUME NEW q \in [Releases -> Nat], NEW i \in Nat
    PROVE  SumFunction(q)
             = SumFunctionOnSet(q, {r \in Releases : r <= i})
                 + SumFunction([r \in Releases |-> IF r <= i THEN 0 ELSE q[r]])
<1> DEFINE A == {r \in Releases : r <= i}
           B == {r \in Releases : ~(r <= i)}
           p == [r \in Releases |-> IF r <= i THEN 0 ELSE q[r]]
<1>1. A \cup B = Releases /\ A \cap B = {} /\ A \in SUBSET Releases /\ B \in SUBSET Releases
  OBVIOUS
<1>2. p \in [Releases -> Nat] /\ (\A r \in A : p[r] = 0) /\ (\A r \in B : q[r] = p[r])
  OBVIOUS
<1>3. Summable(q, Releases) /\ Summable(p, Releases)
  BY <1>2, QueueSum
<1> HIDE DEF A, B, p
<1>4. /\ Summable(q, A \cup B) /\ Summable(p, A \cup B)
      /\ Summable(q, A) /\ Summable(q, B) /\ Summable(p, A) /\ Summable(p, B)
  BY <1>1, <1>3, SummableSubset
<1>5. SumFunctionOnSet(q, Releases) = SumFunctionOnSet(q, A) + SumFunctionOnSet(q, B)
  BY <1>1, <1>4, SumDisjoint
<1>6. SumFunctionOnSet(p, Releases) = SumFunctionOnSet(p, A) + SumFunctionOnSet(p, B)
  BY <1>1, <1>4, SumDisjoint
<1>7. SumFunctionOnSet(p, A) = 0
  BY <1>2, <1>4, SumZero DEF Summable
<1>8. SumFunctionOnSet(q, B) = SumFunctionOnSet(p, B)
  BY <1>2, <1>4, SumCongruent
<1>9. SumFunctionOnSet(q, A) \in Int /\ SumFunctionOnSet(p, B) \in Int
  BY <1>4, SumType
<1>10. DOMAIN p = Releases /\ DOMAIN q = Releases
  BY <1>2
<1> QED BY <1>5, <1>6, <1>7, <1>8, <1>9, <1>10 DEF SumFunction, A, p

-----------------------------------------------------------------------------
SupplyInv ==
    /\ TypeOK
    /\ TotalSupply(Ledger) = MaxSupply
    /\ TotalSupply(saved) = MaxSupply

LEMMA InitSupply == Init => SupplyInv
<1> SUFFICES ASSUME Init PROVE SupplyInv
  OBVIOUS
<1> DEFINE g == [a \in Addr |-> Get(InitStake, a)]
           D == DOMAIN InitStake
<1>1. IsDict(InitStake, Addr, Nat)
  BY ChainAssumption DEF IsDict
<1>2. g \in [Addr -> Nat] /\ balances \in [Addr -> Nat] /\ Alloc \in [Addr -> Nat]
  <2>1. \A a \in Addr : Get(InitStake, a) \in Nat
    BY <1>1, GetType
  <2> QED BY <2>1, InitType, WorkOKIsLedgerOK, ChainAssumption DEF TypeOK, WorkOK
<1>3. \A a \in Addr : Alloc[a] = balances[a] + g[a]
  BY <1>2, ChainAssumption DEF Init
<1>4. SumFunctionOnSet(Alloc, Addr)
        = SumFunctionOnSet(balances, Addr) + SumFunctionOnSet(g, Addr)
  <2> HIDE DEF g
  <2> QED BY <1>2, <1>3, BalanceSum, SumAdd
<1>5. SumFunctionOnSet(g, Addr) = SumFunction(InitStake)
  <2>1. /\ D \cup (Addr \ D) = Addr /\ D \cap (Addr \ D) = {}
        /\ D \in SUBSET Addr /\ Addr \ D \in SUBSET Addr
    BY <1>1 DEF IsDict
  <2>2. Summable(g, Addr)
    BY <1>2, BalanceSum
  <2>3. SumFunctionOnSet(g, Addr)
          = SumFunctionOnSet(g, D) + SumFunctionOnSet(g, Addr \ D)
    <3> HIDE DEF g, D
    <3> QED BY <2>1, <2>2, SumDisjoint
  <2>4. Summable(g, D) /\ Summable(g, Addr \ D)
    BY <2>1, <2>2, SummableSubset
  <2>5. SumFunctionOnSet(g, Addr \ D) = 0
    <3>1. \A a \in Addr \ D : g[a] = 0
      BY DEF Get
    <3> HIDE DEF g, D
    <3> QED BY <2>4, <3>1, SumZero DEF Summable
  <2>6. SumFunctionOnSet(g, D) = SumFunctionOnSet(InitStake, D)
    <3>1. \A a \in D : g[a] = InitStake[a]
      BY <2>1 DEF Get
    <3> HIDE DEF g, D
    <3> QED BY <2>4, <3>1, SumCongruent
  <2>7. SumFunctionOnSet(g, D) \in Int
    BY <2>4, SumType
  <2> HIDE DEF g
  <2> QED BY <2>3, <2>5, <2>6, <2>7 DEF SumFunction
<1>6. Unbonding(unbonding) = 0
  <2>1. \A a \in Addr : SumFunction(unbonding[a]) = 0
    BY QueueEmpty DEF Init
  <2> DEFINE f == [a \in Addr |-> SumFunction(unbonding[a])]
  <2>2. (\A a \in Addr : f[a] = 0) /\ DOMAIN f = Addr
    BY <2>1
  <2>3. SumFunctionOnSet(f, Addr) = 0
    <3> HIDE DEF f
    <3> QED BY <2>2, AddrFinite, SumZero
  <2> QED BY <2>2, <2>3 DEF Unbonding, SumFunction
<1>7. Supply = MaxSupply
  <2>1. /\ SumFunction(balances) = SumFunctionOnSet(balances, Addr)
        /\ SumFunction(Alloc) = SumFunctionOnSet(Alloc, Addr)
    BY <1>2 DEF SumFunction
  <2>2. SumFunction(balances) \in Nat /\ SumFunction(InitStake) \in Nat
    BY <1>1, <1>2, BalanceSum, DictSum
  <2>3. stakes = InitStake
    BY DEF Init
  <2> QED BY <1>4, <1>5, <1>6, <2>1, <2>2, <2>3 DEF Supply, MaxSupply
<1>8. saved = Ledger
  BY DEF Init, Ledger
<1> QED BY <1>7, <1>8, InitType, SupplyIsTotal DEF SupplyInv

\* A step of an open block that keeps the sum of the working copies.
LEMMA BlockStepSupply ==
    ASSUME SupplyInv, TypeOK', UNCHANGED blockVars, Supply' = Supply
    PROVE  SupplyInv'
<1>1. TotalSupply(Ledger)' = MaxSupply
  BY SupplyIsTotal, SupplyIsTotalPrime DEF SupplyInv
<1>2. TotalSupply(saved)' = MaxSupply
  BY DEF SupplyInv, blockVars, TotalSupply, UnbondingTotal
<1> QED BY <1>1, <1>2 DEF SupplyInv

\* The sums of the working copies are naturals.
LEMMA SumsType ==
    ASSUME WorkOK
    PROVE  /\ SumFunction(balances) \in Nat
           /\ SumFunction(stakes) \in Nat
           /\ Unbonding(unbonding) \in Nat
BY BalanceSum, DictSum, UnbondingType DEF WorkOK

LEMMA BeginBlockSupply ==
    ASSUME SupplyInv, NEW v \in Addr, BeginBlock(v)
    PROVE  SupplyInv'
<1>1. TypeOK /\ WorkOK /\ TypeOK' /\ Index \in Nat
  BY BeginBlockType, WorkOKIsLedgerOK, ChainAssumption DEF SupplyInv, TypeOK, Index
<1>2. WorkOK'
  BY <1>1, WorkOKIsLedgerOKPrime DEF TypeOK
<1> DEFINE m == [a \in Addr |-> Matured(a)]
           f == [a \in Addr |-> SumFunction(unbonding[a])]
           g == [a \in Addr |-> SumFunction(unbonding'[a])]
<1>3. m \in [Addr -> Nat] /\ f \in [Addr -> Nat] /\ g \in [Addr -> Nat]
  <2>1. f \in [Addr -> Nat] /\ g \in [Addr -> Nat]
    BY <1>1, <1>2, UnbondingType DEF WorkOK
  <2>2. m \in [Addr -> Nat]
    BY <1>1, MaturedType
  <2> QED BY <2>1, <2>2
<1>4. \A a \in Addr : f[a] = m[a] + g[a]
  <2> SUFFICES ASSUME NEW a \in Addr PROVE f[a] = m[a] + g[a]
    OBVIOUS
  <2>1. unbonding[a] \in [Releases -> Nat]
    BY <1>1 DEF WorkOK
  <2>2. unbonding'[a] = [r \in Releases |-> IF r <= Index THEN 0 ELSE unbonding[a][r]]
    BY DEF BeginBlock
  <2> QED BY <1>1, <2>1, <2>2, QueueMature DEF Matured
<1>5. \A a \in Addr : balances'[a] = balances[a] + m[a]
  BY DEF BeginBlock
<1>6. balances \in [Addr -> Nat] /\ balances' \in [Addr -> Nat]
  BY <1>1, <1>2 DEF WorkOK
<1>7. /\ Unbonding(unbonding) = SumFunctionOnSet(f, Addr)
      /\ Unbonding(unbonding)' = SumFunctionOnSet(g, Addr)
  BY DEF Unbonding, SumFunction
<1> HIDE DEF m, f, g
<1>8. SumFunctionOnSet(f, Addr) = SumFunctionOnSet(m, Addr) + SumFunctionOnSet(g, Addr)
  BY <1>3, <1>4, BalanceSum, SumAdd
<1>9. SumFunctionOnSet(balances', Addr)
        = SumFunctionOnSet(balances, Addr) + SumFunctionOnSet(m, Addr)
  BY <1>3, <1>5, <1>6, BalanceSum, SumAdd
<1>10. /\ SumFunction(balances) = SumFunctionOnSet(balances, Addr)
       /\ SumFunction(balances)' = SumFunctionOnSet(balances', Addr)
       /\ SumFunction(stakes)' = SumFunction(stakes)
  BY <1>6 DEF SumFunction, BeginBlock
<1>11. /\ SumFunctionOnSet(balances, Addr) \in Int /\ SumFunctionOnSet(m, Addr) \in Int
       /\ SumFunctionOnSet(g, Addr) \in Int /\ SumFunction(stakes) \in Int
  BY <1>1, <1>3, <1>6, BalanceSum, SumType, SumsType
<1>12. Supply' = Supply
  BY <1>7, <1>8, <1>9, <1>10, <1>11 DEF Supply
<1>13. TotalSupply(saved)' = MaxSupply
  BY DEF SupplyInv, BeginBlock, TotalSupply, UnbondingTotal
<1> QED BY <1>1, <1>12, <1>13, SupplyIsTotal, SupplyIsTotalPrime DEF SupplyInv

LEMMA TransferSupply ==
    ASSUME SupplyInv, NEW tx \in Transfers, NEW n \in Nonces, Transfer(tx, n)
    PROVE  SupplyInv'
<1>1. TypeOK /\ WorkOK /\ TypeOK' /\ block \in Addr
  BY TransferType, WorkOKIsLedgerOK, OpenBlock DEF SupplyInv, TypeOK, Transfer
<1>2. tx.sender \in Addr /\ tx.to \in Addr /\ tx.amount \in Nat /\ tx.fee \in Nat
  BY ChainAssumption DEF TransferTx
<1> DEFINE b1 == Debit(balances, tx.sender, tx.amount + tx.fee)
           b2 == Credit(b1, tx.to, tx.amount)
           b3 == Credit(b2, block, tx.fee)
<1>3. b1 \in [Addr -> Nat] /\ SumFunction(b1) = SumFunction(balances) - (tx.amount + tx.fee)
  <2>1. /\ balances \in [Addr -> Nat] /\ tx.amount + tx.fee \in Nat
        /\ balances[tx.sender] >= tx.amount + tx.fee
    BY <1>1, <1>2 DEF Transfer, WorkOK, Affords
  <2> QED BY <1>2, <2>1, DebitType, DebitSum
<1>4. b2 \in [Addr -> Nat] /\ SumFunction(b2) = SumFunction(b1) + tx.amount
  <2> HIDE DEF b1
  <2> QED BY <1>2, <1>3, CreditType, CreditSum
<1>5. SumFunction(b3) = SumFunction(b2) + tx.fee
  <2> HIDE DEF b2
  <2> QED BY <1>1, <1>2, <1>4, CreditSum
<1>6. balances' = b3 /\ stakes' = stakes /\ unbonding' = unbonding
  BY DEF Transfer
<1>7. SumFunction(balances)' = SumFunction(balances)
  <2>1. SumFunction(balances)' = SumFunction(b3)
    BY <1>6 DEF SumFunction
  <2> HIDE DEF b1, b2, b3
  <2> QED BY <1>1, <1>2, <1>3, <1>4, <1>5, <2>1, SumsType
<1>8. Supply' = Supply
  BY <1>6, <1>7 DEF Supply, SumFunction, Unbonding
<1> QED BY <1>1, <1>8, BlockStepSupply DEF Transfer

LEMMA StakeSupply ==
    ASSUME SupplyInv, NEW tx \in StakeTxs, NEW n \in Nonces, Stake(tx, n)
    PROVE  SupplyInv'
<1>1. TypeOK /\ WorkOK /\ TypeOK' /\ block \in Addr
  BY StakeType, WorkOKIsLedgerOK, OpenBlock DEF SupplyInv, TypeOK, Stake
<1>2. tx.sender \in Addr /\ tx.amount \in Nat /\ tx.fee \in Nat
  BY ChainAssumption DEF StakingTx
<1> DEFINE b1 == Debit(balances, tx.sender, tx.amount + tx.fee)
           b2 == Credit(b1, block, tx.fee)
           s1 == Put(stakes, tx.sender, Get(stakes, tx.sender) + tx.amount)
<1>3. b1 \in [Addr -> Nat] /\ SumFunction(b1) = SumFunction(balances) - (tx.amount + tx.fee)
  BY <1>1, <1>2, DebitType, DebitSum DEF Stake, WorkOK, Affords
<1>4. SumFunction(b2) = SumFunction(b1) + tx.fee
  <2> HIDE DEF b1
  <2> QED BY <1>1, <1>2, <1>3, CreditSum
<1>5. SumFunction(s1) = SumFunction(stakes) + tx.amount
  <2>1. Get(stakes, tx.sender) \in Nat
    BY <1>1, GetType DEF WorkOK
  <2>2. SumFunction(s1) = SumFunction(stakes) - Get(stakes, tx.sender)
                            + (Get(stakes, tx.sender) + tx.amount)
    BY <1>1, <1>2, <2>1, PutSum DEF WorkOK
  <2> QED BY <1>1, <1>2, <2>1, <2>2, SumsType
<1>6. /\ SumFunction(balances)' = SumFunction(b2)
      /\ SumFunction(stakes)' = SumFunction(s1)
      /\ Unbonding(unbonding)' = Unbonding(unbonding)
  BY DEF Stake, SumFunction, Unbonding
<1>7. Supply' = Supply
  <2> HIDE DEF b1, b2, s1
  <2> QED BY <1>1, <1>2, <1>3, <1>4, <1>5, <1>6, SumsType DEF Supply
<1> QED BY <1>1, <1>7, BlockStepSupply DEF Stake

LEMMA UnstakeSupply ==
    ASSUME SupplyInv, NEW tx \in UnstakeTxs, NEW n \in Nonces, Unstake(tx, n)
    PROVE  SupplyInv'
<1>1. TypeOK /\ WorkOK /\ TypeOK' /\ block \in Addr
  BY UnstakeType, WorkOKIsLedgerOK, OpenBlock DEF SupplyInv, TypeOK, Unstake
<1> DEFINE v == tx.sender
           x == tx.amount
           back == IF UnbondingBlocks > 0 THEN 0 ELSE x
           r == ReleaseHeight
           b1 == PayFee(balances, v, tx.fee)
           b2 == Credit(b1, v, back)
<1>2. v \in Addr /\ x \in Nat /\ tx.fee \in Nat /\ back \in Nat
  BY ChainAssumption DEF StakingTx
<1>3. b1 \in [Addr -> Nat] /\ SumFunction(b1) = SumFunction(balances)
  BY <1>1, <1>2, PayFeeType, PayFeeSum DEF Unstake
<1>4. b2 \in [Addr -> Nat] /\ SumFunction(b2) = SumFunction(b1) + back
  <2> HIDE DEF b1, back
  <2> QED BY <1>2, <1>3, CreditType, CreditSum
<1>6. SumFunction(stakes)' = SumFunction(stakes) - x
  <2>1. v \in DOMAIN stakes /\ stakes[v] >= x /\ stakes[v] \in Nat
    BY <1>1, <1>2 DEF Unstake, Get, WorkOK, IsDict
  <2>2. Get(stakes, v) = stakes[v]
    BY <2>1 DEF Get
  <2>3. CASE stakes[v] = x
    <3>1. SumFunction(stakes)' = SumFunction(Pop(stakes, v))
      BY <2>3 DEF Unstake, Withdraw, SumFunction
    <3> QED BY <1>1, <2>2, <2>3, <3>1, PopSum DEF WorkOK
  <2>4. CASE stakes[v] # x
    <3>1. SumFunction(stakes)' = SumFunction(Put(stakes, v, stakes[v] - x))
      BY <2>4 DEF Unstake, Withdraw, SumFunction
    <3>2. stakes[v] - x \in Nat
      BY <1>2, <2>1
    <3>3. SumFunction(Put(stakes, v, stakes[v] - x))
            = SumFunction(stakes) - stakes[v] + (stakes[v] - x)
      BY <1>1, <1>2, <2>2, <3>2, PutSum DEF WorkOK
    <3> QED BY <1>1, <1>2, <2>1, <3>1, <3>3, SumsType
  <2> QED BY <2>3, <2>4
<1>7. Unbonding(unbonding)' = Unbonding(unbonding) + (x - back)
  <2>1. CASE UnbondingBlocks > 0
    <3> DEFINE q == [unbonding[v] EXCEPT ![r] = @ + x]
    <3>1. r \in Releases
      <4>1. Admit(v, n)
        BY DEF Unstake
      <4>2. Index \in 1 .. MaxHeight
        BY <1>1, <4>1, OpenBlock
      <4> QED BY <4>2, ChainAssumption DEF Releases, ReleaseHeight
    <3>2. unbonding[v] \in [Releases -> Nat] /\ unbonding \in [Addr -> [Releases -> Nat]]
      BY <1>1, <1>2 DEF WorkOK
    <3>3. q \in [Releases -> Nat] /\ SumFunction(q) = SumFunction(unbonding[v]) + x
      <4>1. unbonding[v][r] \in Nat
        BY <3>1, <3>2
      <4>2. q \in [Releases -> Nat]
        BY <1>2, <3>1, <3>2, <4>1
      <4>3. SumFunction(q) = SumFunction(unbonding[v]) + x
        <5> HIDE DEF r, v, x
        <5> QED BY <1>2, <3>1, <3>2, QueueAdd
      <4> QED BY <4>2, <4>3
    <3>4. unbonding' = [unbonding EXCEPT ![v] = q]
      BY <1>2, <2>1, <3>2 DEF Unstake
    <3>5. Unbonding(unbonding)' = Unbonding([unbonding EXCEPT ![v] = q])
      BY <3>4 DEF Unbonding, SumFunction
    <3>6. Unbonding([unbonding EXCEPT ![v] = q])
            = Unbonding(unbonding) - SumFunction(unbonding[v]) + SumFunction(q)
      <4> HIDE DEF q
      <4> QED BY <1>2, <3>2, <3>3, UnbondingChangeOne
    <3>7. SumFunction(unbonding[v]) \in Nat /\ back = 0
      BY <2>1, <3>2, QueueSum
    <3> HIDE DEF q, v, x, back
    <3> QED BY <1>1, <1>2, <3>3, <3>5, <3>6, <3>7, SumsType
  <2>2. CASE ~(UnbondingBlocks > 0)
    <3>1. Unbonding(unbonding)' = Unbonding(unbonding) /\ back = x
      BY <2>2 DEF Unstake, Unbonding, SumFunction
    <3> QED BY <1>1, <1>2, <3>1, SumsType
  <2> QED BY <2>1, <2>2
<1>8. SumFunction(balances)' = SumFunction(b2)
  BY DEF Unstake, SumFunction
<1>9. Supply' = Supply
  <2> HIDE DEF b1, b2, v, x, back
  <2> QED BY <1>1, <1>2, <1>3, <1>4, <1>6, <1>7, <1>8, SumsType DEF Supply
<1> QED BY <1>1, <1>9, BlockStepSupply DEF Unstake

LEMMA SlashSupply ==
    ASSUME SupplyInv, NEW tx \in SlashTxs, NEW n \in Nonces, Slash(tx, n)
    PROVE  SupplyInv'
<1>1. TypeOK /\ WorkOK /\ TypeOK' /\ block \in Addr
  <2>1. TypeOK /\ WorkOK /\ TypeOK'
    BY SlashType, WorkOKIsLedgerOK DEF SupplyInv, TypeOK
  <2>2. Admit(tx.sender, n)
    BY DEF Slash
  <2> QED BY <2>1, <2>2, OpenBlock
<1> DEFINE o == tx.offender
           bonded == Bonded(Ledger, o)
           share == (bonded * ReporterBps) \div 10000
           beneficiary == IF tx.sender # o THEN tx.sender ELSE Treasury
           b2 == PayFee(balances, tx.sender, tx.fee)
           b3 == Credit(b2, beneficiary, share)
           b4 == Credit(b3, Treasury, bonded - share)
<1>2. /\ tx.sender \in Addr /\ o \in Addr /\ tx.fee \in Nat
      /\ Treasury \in Addr /\ beneficiary \in Addr
  BY ChainAssumption DEF SlashingTx, Slash
<1>3. /\ bonded = Get(stakes, o) + SumFunction(unbonding[o])
      /\ Get(stakes, o) \in Nat /\ SumFunction(unbonding[o]) \in Nat
  <2>1. bonded = Get(stakes, o) + SumFunction(unbonding[o])
    BY DEF Bonded, UnbondingTotal, Ledger
  <2>2. Get(stakes, o) \in Nat
    BY <1>1, GetType DEF WorkOK
  <2>3. SumFunction(unbonding[o]) \in Nat
    BY <1>1, <1>2, QueueSum DEF WorkOK
  <2> QED BY <2>1, <2>2, <2>3
<1>4. share \in Nat /\ bonded - share \in Nat
  <2>1. bonded \in Nat
    BY <1>3
  <2> HIDE DEF bonded
  <2> QED BY <2>1, SharesSplit
<1>6. b2 \in [Addr -> Nat] /\ SumFunction(b2) = SumFunction(balances)
  <2>1. Affords(tx.sender, tx.fee)
    BY DEF Slash
  <2> QED BY <1>1, <1>2, <2>1, PayFeeType, PayFeeSum
<1>7. b3 \in [Addr -> Nat] /\ SumFunction(b3) = SumFunction(b2) + share
  <2> HIDE DEF b2, share, beneficiary
  <2> QED BY <1>2, <1>4, <1>6, CreditType, CreditSum
<1>8. SumFunction(b4) = SumFunction(b3) + (bonded - share)
  <2> HIDE DEF b3, bonded, share
  <2> QED BY <1>2, <1>4, <1>7, CreditSum
<1>9. SumFunction(stakes)' = SumFunction(stakes) - Get(stakes, o)
  <2>1. SumFunction(stakes)' = SumFunction(Pop(stakes, o))
    BY DEF Slash, SumFunction
  <2> QED BY <1>1, <2>1, PopSum DEF WorkOK
<1>10. Unbonding(unbonding)' = Unbonding(unbonding) - SumFunction(unbonding[o])
  <2> DEFINE q == [r \in Releases |-> 0]
  <2>1. Unbonding(unbonding)' = Unbonding([unbonding EXCEPT ![o] = q])
    BY DEF Slash, Unbonding, SumFunction
  <2>2. q \in [Releases -> Nat] /\ unbonding \in [Addr -> [Releases -> Nat]]
    BY <1>1 DEF WorkOK
  <2>3. Unbonding([unbonding EXCEPT ![o] = q])
          = Unbonding(unbonding) - SumFunction(unbonding[o]) + SumFunction(q)
    <3> HIDE DEF q
    <3> QED BY <1>2, <2>2, UnbondingChangeOne
  <2>4. SumFunction(q) = 0
    BY QueueEmpty
  <2> HIDE DEF q
  <2> QED BY <1>1, <1>3, <2>1, <2>3, <2>4, SumsType
<1>11. SumFunction(balances)' = SumFunction(b4)
  BY DEF Slash, SumFunction
<1>12. Supply' = Supply
  <2> HIDE DEF b2, b3, b4, bonded, share, o
  <2> QED BY <1>1, <1>2, <1>3, <1>4, <1>6, <1>7, <1>8, <1>9, <1>10, <1>11, SumsType
          DEF Supply
<1> QED BY <1>1, <1>12, BlockStepSupply DEF Slash

LEMMA VoteSupply ==
    ASSUME SupplyInv, NEW tx \in VoteTxs, NEW n \in Nonces, Vote(tx, n)
    PROVE  SupplyInv'
<1>1. TypeOK /\ WorkOK /\ TypeOK' /\ block \in Addr
  BY VoteType, WorkOKIsLedgerOK, OpenBlock DEF SupplyInv, TypeOK, Vote
<1>2. tx.sender \in Addr /\ tx.fee \in Nat
  BY ChainAssumption DEF VotingTx
<1>3. SumFunction(PayFee(balances, tx.sender, tx.fee)) = SumFunction(balances)
  BY <1>1, <1>2, PayFeeSum DEF Vote
<1>4. /\ SumFunction(balances)' = SumFunction(PayFee(balances, tx.sender, tx.fee))
      /\ SumFunction(stakes)' = SumFunction(stakes)
      /\ Unbonding(unbonding)' = Unbonding(unbonding)
  BY DEF Vote, SumFunction, Unbonding
<1>5. Supply' = Supply
  BY <1>3, <1>4 DEF Supply
<1> QED BY <1>1, <1>5, BlockStepSupply DEF Vote

LEMMA CommitSupply == ASSUME SupplyInv, CommitBlock PROVE SupplyInv'
<1>1. Ledger' = Ledger /\ saved' = Ledger
  BY DEF CommitBlock, ledgerVars, Ledger
<1> QED BY <1>1, CommitType DEF SupplyInv, TotalSupply, UnbondingTotal

LEMMA RejectSupply == ASSUME SupplyInv, RejectBlock PROVE SupplyInv'
<1>1. /\ TotalSupply(saved)' = TotalSupply(saved)
      /\ Supply' = TotalSupply(saved)
  BY DEF RejectBlock, Restore, TotalSupply, UnbondingTotal, Supply, Unbonding
<1> QED BY <1>1, RejectType, SupplyIsTotalPrime DEF SupplyInv

LEMMA NextSupply == ASSUME SupplyInv, [Next]_vars PROVE SupplyInv'
<1>1. CASE UNCHANGED vars
  <2>1. TypeOK' /\ Supply' = Supply
    BY <1>1, NextType DEF SupplyInv, vars, ledgerVars, Supply, Unbonding
  <2> QED BY <1>1, <2>1, BlockStepSupply DEF vars, blockVars
<1> QED BY <1>1, BeginBlockSupply, TransferSupply, StakeSupply, UnstakeSupply,
           SlashSupply, VoteSupply, CommitSupply, RejectSupply DEF Next

\* The supply is conserved by every transaction and by the pre-block maturing,
\* for every genesis and every block: _check_supply never rejects one.
THEOREM SupplyTheorem == Spec => []SupplyConserved
<1>1. SupplyInv => SupplyConserved
  BY DEF SupplyInv, SupplyConserved
<1> QED BY <1>1, InitSupply, NextSupply, PTL DEF Spec

-----------------------------------------------------------------------------
(***************************************************************************)
(* The finality gadget and the bookkeeping.  Each invariant has to be      *)
(* known of the committed ledger too, which a rejected block brings back,  *)
(* and of how the working copies of an open block relate to it.            *)
(***************************************************************************)

\* Supermajority(s, t) in a ledger with the given snapshots, votes and slashed
\* addresses.
Backed(stk, votes, byz, s, t) ==
    FFG_DEN * StakeOf(stk[s], VotersFor(votes, s, t) \cup byz)
        >= FFG_NUM * StakeOf(stk[s], DOMAIN stk[s])

\* The finality part of a ledger whose last checkpoint is at most h.
FinalOK(stk, votes, byz, just, fin, h) ==
    /\ DOMAIN stk \subseteq 0 .. h
    /\ 0 \in just
    /\ just \subseteq DOMAIN stk
    /\ \A t \in just \ {0} : \E s \in just : s < t /\ Backed(stk, votes, byz, s, t)
    /\ fin # 0 => /\ fin \in just
                  /\ fin + Epoch \in just
                  /\ Backed(stk, votes, byz, fin, fin + Epoch)

\* Last block that can have a snapshot: the head, or the block being applied.
Top == IF block = NoBlock THEN height ELSE Index

FinalityInv ==
    /\ TypeOK
    /\ FinalOK(ffg_stake, ffg_votes, slashed_addrs, justified, finalized, Top)
    /\ FinalOK(saved.ffg_stake, saved.ffg_votes, saved.slashed_addrs,
               saved.justified, saved.finalized, height)
    /\ saved.justified \subseteq justified
    /\ saved.finalized <= finalized
    /\ finalized # 0 => finalized \in saved.justified
    /\ block = NoBlock => justified = saved.justified
    /\ block # NoBlock => justified_parent = saved.justified

LEMMA DictIsSnapshot ==
    ASSUME NEW d, IsDict(d, Addr, Nat)
    PROVE  Snapshot(d)
<1>1. IsFiniteSet(DOMAIN d)
  BY FS_Subset, ChainAssumption DEF IsDict
<1> QED BY <1>1 DEF Snapshot, IsDict

\* Once backed, a link stays so: its source's snapshot is never written again,
\* and votes and slashed addresses only accumulate.
LEMMA BackedStays ==
    ASSUME NEW stk, NEW stk2, NEW votes, NEW votes2, NEW byz, NEW byz2, NEW s, NEW t,
           Snapshot(stk[s]), stk2[s] = stk[s], votes \subseteq votes2,
           byz \subseteq byz2, Backed(stk, votes, byz, s, t)
    PROVE  Backed(stk2, votes2, byz2, s, t)
<1> DEFINE A == VotersFor(votes, s, t) \cup byz
           B == VotersFor(votes2, s, t) \cup byz2
<1>1. A \subseteq B
  BY DEF VotersFor
<1>2. StakeOf(stk[s], A) <= StakeOf(stk[s], B)
  BY <1>1, StakeOfMonotone
<1>3. /\ StakeOf(stk[s], A) \in Nat /\ StakeOf(stk[s], B) \in Nat
      /\ StakeOf(stk[s], DOMAIN stk[s]) \in Nat
  BY StakeOfType
<1>4. /\ FFG_DEN * StakeOf(stk[s], A) >= FFG_NUM * StakeOf(stk[s], DOMAIN stk[s])
      /\ Backed(stk2, votes2, byz2, s, t)
           <=> FFG_DEN * StakeOf(stk[s], B) >= FFG_NUM * StakeOf(stk[s], DOMAIN stk[s])
  BY DEF Backed
<1> HIDE DEF A, B
<1> QED BY <1>2, <1>3, <1>4 DEF FFG_DEN, FFG_NUM

LEMMA FinalStays ==
    ASSUME NEW stk, NEW stk2, NEW votes, NEW votes2, NEW byz, NEW byz2,
           NEW just, NEW fin, NEW h \in Nat, NEW h2 \in Nat,
           FinalOK(stk, votes, byz, just, fin, h),
           \A c \in DOMAIN stk : Snapshot(stk[c]),
           DOMAIN stk \subseteq DOMAIN stk2, DOMAIN stk2 \subseteq 0 .. h2,
           \A c \in DOMAIN stk : stk2[c] = stk[c],
           votes \subseteq votes2, byz \subseteq byz2
    PROVE  FinalOK(stk2, votes2, byz2, just, fin, h2)
<1>1. \A s \in just : \A t : Backed(stk, votes, byz, s, t) => Backed(stk2, votes2, byz2, s, t)
  BY BackedStays DEF FinalOK
<1>2. ASSUME NEW t \in just \ {0}
      PROVE  \E s \in just : s < t /\ Backed(stk2, votes2, byz2, s, t)
  BY <1>1 DEF FinalOK
<1>3. fin # 0 => /\ fin \in just
                 /\ fin + Epoch \in just
                 /\ Backed(stk2, votes2, byz2, fin, fin + Epoch)
  BY <1>1 DEF FinalOK
<1> QED BY <1>2, <1>3 DEF FinalOK

-----------------------------------------------------------------------------
LEMMA InitFinality == Init => FinalityInv
<1> SUFFICES ASSUME Init PROVE FinalityInv
  OBVIOUS
<1>1. FinalOK(ffg_stake, ffg_votes, slashed_addrs, justified, finalized, 0)
  BY DEF Init, FinalOK
<1>2. /\ saved.ffg_stake = ffg_stake /\ saved.ffg_votes = ffg_votes
      /\ saved.slashed_addrs = slashed_addrs /\ saved.justified = justified
      /\ saved.finalized = finalized
  BY DEF Init, Ledger
<1> QED BY <1>1, <1>2, InitType DEF FinalityInv, Init, Top

\* What the invariant says of the types.
LEMMA FinalityTypes ==
    ASSUME FinalityInv
    PROVE  /\ WorkOK
           /\ \A c \in DOMAIN ffg_stake : Snapshot(ffg_stake[c])
           /\ height \in Nat /\ Index \in Nat /\ Top \in Nat
           /\ Epoch \in Nat \ {0}
<1>1. WorkOK /\ height \in Nat
  BY WorkOKIsLedgerOK, ChainAssumption DEF FinalityInv, TypeOK
<1>2. \A c \in DOMAIN ffg_stake : Snapshot(ffg_stake[c])
  BY <1>1, DictIsSnapshot DEF WorkOK
<1> QED BY <1>1, <1>2, ChainAssumption DEF Index, Top

LEMMA BeginBlockFinality ==
    ASSUME FinalityInv, NEW v \in Addr, BeginBlock(v), TypeOK'
    PROVE  FinalityInv'
<1>1. /\ \A c \in DOMAIN ffg_stake : Snapshot(ffg_stake[c])
      /\ height \in Nat /\ Index \in Nat
      /\ DOMAIN ffg_stake \subseteq 0 .. height
      /\ FinalOK(ffg_stake, ffg_votes, slashed_addrs, justified, finalized, height)
  BY FinalityTypes DEF FinalityInv, BeginBlock, Top, FinalOK
<1>2. /\ DOMAIN ffg_stake \subseteq DOMAIN ffg_stake'
      /\ DOMAIN ffg_stake' \subseteq 0 .. Index
      /\ \A c \in DOMAIN ffg_stake : ffg_stake'[c] = ffg_stake[c]
  BY <1>1 DEF BeginBlock, Put, Index
<1>3. /\ ffg_votes' = ffg_votes /\ slashed_addrs' = slashed_addrs
      /\ justified' = justified /\ finalized' = finalized
      /\ saved' = saved /\ height' = height /\ justified_parent' = justified
  BY DEF BeginBlock, slashVars
<1>4. FinalOK(ffg_stake, ffg_votes, slashed_addrs, justified, finalized, Index)'
  <2>1. FinalOK(ffg_stake', ffg_votes, slashed_addrs, justified, finalized, Index)
    BY <1>1, <1>2, FinalStays
  <2> QED BY <1>3, <2>1 DEF Index
<1>5. block' # NoBlock /\ block = NoBlock
  BY ChainAssumption DEF BeginBlock
<1> QED BY <1>3, <1>4, <1>5 DEF FinalityInv, Top

\* A step inside an open block that justifies and finalizes nothing.
LEMMA QuietFinality ==
    ASSUME FinalityInv, TypeOK', block # NoBlock, UNCHANGED <<blockVars, ffgVars>>,
           slashed_addrs \subseteq slashed_addrs'
    PROVE  FinalityInv'
<1>1. /\ \A c \in DOMAIN ffg_stake : Snapshot(ffg_stake[c])
      /\ Index \in Nat
      /\ FinalOK(ffg_stake, ffg_votes, slashed_addrs, justified, finalized, Index)
  BY FinalityTypes DEF FinalityInv, Top
<1>2. FinalOK(ffg_stake, ffg_votes, slashed_addrs', justified, finalized, Index)
  <2>1. DOMAIN ffg_stake \subseteq 0 .. Index
    BY <1>1 DEF FinalOK
  <2> QED BY <1>1, <2>1, FinalStays
<1>3. FinalOK(ffg_stake, ffg_votes, slashed_addrs, justified, finalized, Top)'
  BY <1>2 DEF blockVars, ffgVars, Top, Index
<1> QED BY <1>3 DEF FinalityInv, blockVars, ffgVars

\* A vote justifies its target only on a quorum of its source's snapshot, and its
\* source was justified before the block.
LEMMA VoteFinality ==
    ASSUME FinalityInv, NEW tx \in VoteTxs, NEW n \in Nonces, Vote(tx, n), TypeOK'
    PROVE  FinalityInv'
<1> DEFINE s == tx.s
           t == tx.t
           voters == VotersFor(ffg_votes', s, t)
           reached == Quorum(ffg_stake[s], voters, slashed_addrs)
<1>1. /\ \A c \in DOMAIN ffg_stake : Snapshot(ffg_stake[c])
      /\ Index \in Nat /\ Epoch \in Nat \ {0}
      /\ block # NoBlock
      /\ FinalOK(ffg_stake, ffg_votes, slashed_addrs, justified, finalized, Index)
  BY FinalityTypes DEF FinalityInv, Top, Vote, Admit
<1>2. /\ s \in DOMAIN ffg_stake /\ t \in DOMAIN ffg_stake /\ s < t
      /\ s \in saved.justified
  BY <1>1 DEF Vote, LinkOnBranch, SourceJustified, FinalityInv
<1>3. s \in justified /\ s \in Nat /\ t \in Nat /\ finalized \in Nat
  BY <1>1, <1>2, FinalityTypes DEF FinalityInv, FinalOK, WorkOK
<1>4. /\ ffg_votes \subseteq ffg_votes'
      /\ justified' = IF reached THEN justified \cup {t} ELSE justified
      /\ finalized' = IF reached /\ Finalizes(s, t) THEN s ELSE finalized
      /\ UNCHANGED <<ffg_stake, slashed_addrs, height, block, saved, justified_parent>>
  BY DEF Vote, slashVars, blockVars
<1>5. reached => Backed(ffg_stake, ffg_votes', slashed_addrs, s, t)
  BY <1>1, <1>2, QuorumBacks DEF Backed
<1>6. FinalOK(ffg_stake, ffg_votes', slashed_addrs, justified, finalized, Index)
  <2>1. DOMAIN ffg_stake \subseteq 0 .. Index
    BY <1>1 DEF FinalOK
  <2> QED BY <1>1, <1>4, <2>1, FinalStays
<1> HIDE DEF s, t, reached
<1>7. FinalOK(ffg_stake, ffg_votes', slashed_addrs, justified', finalized', Index)
  <2>1. CASE ~reached
    BY <1>4, <1>6, <2>1
  <2>2. CASE reached
    <3>1. justified' = justified \cup {t}
      BY <1>4, <2>2
    <3>2. ASSUME NEW c \in justified' \ {0}
          PROVE  \E d \in justified' :
                    d < c /\ Backed(ffg_stake, ffg_votes', slashed_addrs, d, c)
      BY <1>2, <1>3, <1>5, <1>6, <2>2, <3>1 DEF FinalOK
    <3>3. ASSUME finalized' # 0
          PROVE  /\ finalized' \in justified'
                 /\ finalized' + Epoch \in justified'
                 /\ Backed(ffg_stake, ffg_votes', slashed_addrs, finalized',
                           finalized' + Epoch)
      <4>1. CASE finalized' = finalized
        BY <1>6, <3>1, <3>3, <4>1 DEF FinalOK
      <4>2. CASE finalized' = s /\ t = s + Epoch
        BY <1>3, <1>5, <2>2, <3>1, <4>2
      <4> QED BY <1>4, <4>1, <4>2 DEF Finalizes
    <3> QED BY <1>2, <1>6, <3>1, <3>2, <3>3 DEF FinalOK
  <2> QED BY <2>1, <2>2
<1>8. FinalOK(ffg_stake, ffg_votes, slashed_addrs, justified, finalized, Top)'
  BY <1>1, <1>4, <1>7 DEF Top, Index
<1>9. finalized <= finalized' /\ (finalized' = finalized \/ finalized' = s)
  BY <1>3, <1>4 DEF Finalizes
<1>10. saved.finalized \in Nat
  BY ChainAssumption DEF FinalityInv, TypeOK, LedgerOK
<1> QED BY <1>1, <1>2, <1>3, <1>4, <1>8, <1>9, <1>10 DEF FinalityInv

LEMMA CommitFinality == ASSUME FinalityInv, CommitBlock, TypeOK' PROVE FinalityInv'
<1>1. FinalOK(ffg_stake, ffg_votes, slashed_addrs, justified, finalized, Index)
  BY DEF FinalityInv, CommitBlock, Top
<1>2. /\ saved'.ffg_stake = ffg_stake /\ saved'.ffg_votes = ffg_votes
      /\ saved'.slashed_addrs = slashed_addrs /\ saved'.justified = justified
      /\ saved'.finalized = finalized /\ height' = Index /\ block' = NoBlock
  BY DEF CommitBlock, Ledger
<1>3. UNCHANGED <<ffg_stake, ffg_votes, slashed_addrs, justified, finalized>>
  BY DEF CommitBlock, ledgerVars
<1>4. finalized # 0 => finalized \in justified
  BY <1>1 DEF FinalOK
<1>5. finalized \in Nat
  BY FinalityTypes, ChainAssumption DEF WorkOK
<1> QED BY <1>1, <1>2, <1>3, <1>4, <1>5 DEF FinalityInv, Top

LEMMA RejectFinality == ASSUME FinalityInv, RejectBlock, TypeOK' PROVE FinalityInv'
<1>1. /\ ffg_stake' = saved.ffg_stake /\ ffg_votes' = saved.ffg_votes
      /\ slashed_addrs' = saved.slashed_addrs /\ justified' = saved.justified
      /\ finalized' = saved.finalized /\ block' = NoBlock
      /\ height' = height /\ saved' = saved
  BY DEF RejectBlock, Restore
<1>2. saved.finalized # 0 => saved.finalized \in saved.justified
  BY DEF FinalityInv, FinalOK
<1>3. saved.finalized \in Nat
  BY ChainAssumption DEF FinalityInv, TypeOK, LedgerOK
<1> QED BY <1>1, <1>2, <1>3 DEF FinalityInv, Top

LEMMA NextFinality == ASSUME FinalityInv, [Next]_vars PROVE FinalityInv'
<1>1. TypeOK'
  BY NextType DEF FinalityInv
<1>2. CASE UNCHANGED vars
  <2>1. FinalOK(ffg_stake, ffg_votes, slashed_addrs, justified, finalized, Top)'
    BY <1>2 DEF FinalityInv, vars, ledgerVars, Top, Index
  <2> QED BY <1>1, <1>2, <2>1 DEF FinalityInv, vars, ledgerVars
<1>3. ASSUME NEW v \in Addr, BeginBlock(v) PROVE FinalityInv'
  BY <1>1, <1>3, BeginBlockFinality
<1>4. ASSUME NEW tx \in Transfers, NEW n \in Nonces, Transfer(tx, n) PROVE FinalityInv'
  BY <1>1, <1>4, QuietFinality DEF Transfer, Admit, slashVars
<1>5. ASSUME NEW tx \in StakeTxs, NEW n \in Nonces, Stake(tx, n) PROVE FinalityInv'
  BY <1>1, <1>5, QuietFinality DEF Stake, Admit, slashVars
<1>6. ASSUME NEW tx \in UnstakeTxs, NEW n \in Nonces, Unstake(tx, n) PROVE FinalityInv'
  BY <1>1, <1>6, QuietFinality DEF Unstake, Admit, slashVars
<1>7. ASSUME NEW tx \in SlashTxs, NEW n \in Nonces, Slash(tx, n) PROVE FinalityInv'
  BY <1>1, <1>7, QuietFinality DEF Slash, Admit
<1>8. ASSUME NEW tx \in VoteTxs, NEW n \in Nonces, Vote(tx, n) PROVE FinalityInv'
  BY <1>1, <1>8, VoteFinality
<1> QED BY <1>1, <1>2, <1>3, <1>4, <1>5, <1>6, <1>7, <1>8, CommitFinality, RejectFinality
        DEF Next

LEMMA FinalityInductive == Spec => []FinalityInv
BY InitFinality, NextFinality, PTL DEF Spec

LEMMA SupermajorityBacked ==
    \A s, t : Supermajority(s, t) <=> Backed(ffg_stake, ffg_votes, slashed_addrs, s, t)
BY DEF Supermajority, Backed

\* The committed ledger changes only when a block is committed.
LEMMA OnlyCommitSaves ==
    ASSUME [Next]_vars, saved' # saved
    PROVE  CommitBlock
<1>1. ~UNCHANGED vars
  BY DEF vars
<1>2. \A v \in Addr : ~BeginBlock(v)
  BY DEF BeginBlock
<1>3. \A tx \in Transfers, n \in Nonces : ~Transfer(tx, n)
  BY DEF Transfer, blockVars
<1>4. \A tx \in StakeTxs, n \in Nonces : ~Stake(tx, n)
  BY DEF Stake, blockVars
<1>5. \A tx \in UnstakeTxs, n \in Nonces : ~Unstake(tx, n)
  BY DEF Unstake, blockVars
<1>6. \A tx \in SlashTxs, n \in Nonces : ~Slash(tx, n)
  BY DEF Slash, blockVars
<1>7. \A tx \in VoteTxs, n \in Nonces : ~Vote(tx, n)
  BY DEF Vote, blockVars
<1>8. ~RejectBlock
  BY DEF RejectBlock
<1> QED BY <1>1, <1>2, <1>3, <1>4, <1>5, <1>6, <1>7, <1>8 DEF Next

\* Every justified checkpoint is the target of a supermajority link from a lower
\* justified one, for every validator set, whatever was slashed, bonded or
\* withdrawn since (_apply_vote).
THEOREM JustificationTheorem == Spec => []JustifiedByQuorum
<1>1. FinalityInv => JustifiedByQuorum
  BY SupermajorityBacked DEF FinalityInv, FinalOK, JustifiedByQuorum
<1> QED BY <1>1, FinalityInductive, PTL

\* A finalized checkpoint was justified before the block that finalized it and has
\* a supermajority link to its direct epoch child (_apply_vote).
THEOREM FinalizationTheorem == Spec => []FinalizedByDirectLink
<1>1. FinalityInv => FinalizedByDirectLink
  BY SupermajorityBacked DEF FinalityInv, FinalOK, FinalizedByDirectLink
<1> QED BY <1>1, FinalityInductive, PTL

\* No block, committed or rejected, takes finality or justification back.
THEOREM FinalityMonotone == Spec => FinalityGrows
<1>1. FinalityInv /\ [Next]_vars =>
        [/\ saved.finalized <= saved'.finalized
         /\ saved.justified \subseteq saved'.justified]_saved
  <2> SUFFICES ASSUME FinalityInv, [Next]_vars, saved' # saved
               PROVE  /\ saved.finalized <= saved'.finalized
                      /\ saved.justified \subseteq saved'.justified
    OBVIOUS
  <2>1. CommitBlock
    BY OnlyCommitSaves
  <2> QED BY <2>1 DEF CommitBlock, Ledger, FinalityInv
<1> QED BY <1>1, FinalityInductive, PTL DEF Spec, FinalityGrows
-----------------------------------------------------------------------------
(* Nonces: every transaction that was applied used up a nonce of its own. *)

CountOK(nn, used, k) ==
    /\ IsFiniteSet(used)
    /\ k = Cardinality(used)
    /\ \A p \in used : p[2] < nn[p[1]]

CountInv ==
    /\ TypeOK
    /\ CountOK(nonces, spent, ntx)
    /\ CountOK(saved.nonces, saved.spent, saved.ntx)

LEMMA ConsumeCounts ==
    ASSUME CountInv, TypeOK', NEW a \in Addr, NEW n \in Nonces, Admit(a, n), Consume(a, n),
           UNCHANGED saved
    PROVE  CountInv'
<1>1. WorkOK /\ n \in Nat /\ n = nonces[a]
  BY WorkOKIsLedgerOK, ChainAssumption DEF CountInv, TypeOK, Nonces, Admit
<1>2. <<a, n>> \notin spent
  BY <1>1 DEF CountInv, CountOK
<1>3. /\ IsFiniteSet(spent')
      /\ Cardinality(spent') = Cardinality(spent) + 1
  BY <1>2, FS_AddElement DEF CountInv, CountOK, Consume
<1>4. \A p \in spent' : p[2] < nonces'[p[1]]
  <2> SUFFICES ASSUME NEW p \in spent' PROVE p[2] < nonces'[p[1]]
    OBVIOUS
  <2>1. CASE p = <<a, n>>
    BY <1>1, <2>1 DEF Consume, WorkOK
  <2>2. CASE p \in spent
    <3>1. p[1] \in Addr /\ p[2] \in Nat /\ p[2] < nonces[p[1]]
      BY <1>1, <2>2 DEF WorkOK, CountInv, CountOK
    <3> QED BY <1>1, <3>1 DEF Consume, WorkOK
  <2> QED BY <2>1, <2>2 DEF Consume
<1> QED BY <1>3, <1>4 DEF CountInv, CountOK, Consume

LEMMA NextCounts == ASSUME CountInv, [Next]_vars PROVE CountInv'
<1>1. TypeOK'
  BY NextType DEF CountInv
<1>2. CASE UNCHANGED <<nonces, spent, ntx, saved>>
  BY <1>1, <1>2 DEF CountInv
<1>3. ASSUME NEW tx \in Transfers, NEW n \in Nonces, Transfer(tx, n) PROVE CountInv'
  BY <1>1, <1>3, ConsumeCounts, ChainAssumption DEF Transfer, TransferTx, blockVars
<1>4. ASSUME NEW tx \in StakeTxs, NEW n \in Nonces, Stake(tx, n) PROVE CountInv'
  BY <1>1, <1>4, ConsumeCounts, ChainAssumption DEF Stake, StakingTx, blockVars
<1>5. ASSUME NEW tx \in UnstakeTxs, NEW n \in Nonces, Unstake(tx, n) PROVE CountInv'
  BY <1>1, <1>5, ConsumeCounts, ChainAssumption DEF Unstake, StakingTx, blockVars
<1>6. ASSUME NEW tx \in SlashTxs, NEW n \in Nonces, Slash(tx, n) PROVE CountInv'
  BY <1>1, <1>6, ConsumeCounts, ChainAssumption DEF Slash, SlashingTx, blockVars
<1>7. ASSUME NEW tx \in VoteTxs, NEW n \in Nonces, Vote(tx, n) PROVE CountInv'
  BY <1>1, <1>7, ConsumeCounts, ChainAssumption DEF Vote, VotingTx, blockVars
<1>8. CASE CommitBlock
  BY <1>1, <1>8 DEF CommitBlock, ledgerVars, Ledger, CountInv
<1>9. CASE RejectBlock
  BY <1>1, <1>9 DEF RejectBlock, Restore, CountInv
<1> QED BY <1>2, <1>3, <1>4, <1>5, <1>6, <1>7, <1>8, <1>9
        DEF Next, vars, ledgerVars, BeginBlock

\* However often a signed transaction is sent again, the nonce check lets it apply
\* once (_apply_tx): as many nonces are used up as transactions were applied.
THEOREM NonceTheorem == Spec => []AppliedOnce
<1>1. Init => CountInv
  BY InitType, FS_EmptySet DEF Init, CountInv, CountOK, Ledger
<1>2. CountInv => AppliedOnce
  BY DEF CountInv, CountOK, AppliedOnce
<1> QED BY <1>1, <1>2, NextCounts, PTL DEF Spec

-----------------------------------------------------------------------------
(* Validators: a voluntary exit never empties the validator set. *)

StakesOK(d, byz) ==
    /\ \A v \in DOMAIN d : d[v] > 0
    /\ byz = {} => DOMAIN d # {}

ProposerInv ==
    /\ TypeOK
    /\ StakesOK(stakes, slashed_addrs)
    /\ StakesOK(saved.stakes, saved.slashed_addrs)

LEMMA UnstakeKeepsOne ==
    ASSUME ProposerInv, NEW tx \in UnstakeTxs, NEW n \in Nonces, Unstake(tx, n)
    PROVE  StakesOK(stakes', slashed_addrs')
<1> DEFINE v == tx.sender
           x == tx.amount
<1>1. v \in Addr /\ x \in Nat /\ x > 0
  BY ChainAssumption DEF StakingTx, Unstake
<1>2. WorkOK
  BY WorkOKIsLedgerOK DEF ProposerInv, TypeOK
<1>3. v \in DOMAIN stakes /\ stakes[v] \in Nat /\ stakes[v] >= x
  BY <1>1, <1>2 DEF Unstake, Get, WorkOK, IsDict
<1>4. CASE stakes[v] = x
  <2>1. Cardinality(DOMAIN stakes) > 1 /\ stakes' = Pop(stakes, v)
    BY <1>4 DEF Unstake, Withdraw
  <2>2. DOMAIN stakes # {v}
    <3>1. Cardinality({v}) = 1
      BY FS_Singleton
    <3> QED BY <2>1, <3>1
  <2>3. DOMAIN stakes' # {}
    BY <1>3, <2>1, <2>2 DEF Pop
  <2>4. \A w \in DOMAIN stakes' : stakes'[w] > 0
    BY <2>1 DEF Pop, ProposerInv, StakesOK
  <2> QED BY <2>3, <2>4 DEF StakesOK
<1>5. CASE stakes[v] # x
  <2>1. stakes' = Put(stakes, v, stakes[v] - x)
    BY <1>5 DEF Unstake, Withdraw
  <2>2. stakes[v] - x > 0
    BY <1>1, <1>3, <1>5
  <2> HIDE DEF v, x
  <2>3. \A w \in DOMAIN stakes' : stakes'[w] > 0
    BY <1>3, <2>1, <2>2 DEF Put, ProposerInv, StakesOK
  <2>4. DOMAIN stakes' # {}
    BY <1>3, <2>1 DEF Put
  <2> QED BY <2>3, <2>4 DEF StakesOK
<1> QED BY <1>4, <1>5

LEMMA NextProposer == ASSUME ProposerInv, [Next]_vars PROVE ProposerInv'
<1>1. TypeOK' /\ WorkOK
  BY NextType, WorkOKIsLedgerOK DEF ProposerInv, TypeOK
<1>2. CASE UNCHANGED <<stakes, slashed_addrs, saved>>
  BY <1>1, <1>2 DEF ProposerInv
<1>3. ASSUME NEW tx \in Transfers, NEW n \in Nonces, Transfer(tx, n) PROVE ProposerInv'
  BY <1>2, <1>3 DEF Transfer, blockVars, slashVars
<1>4. ASSUME NEW tx \in StakeTxs, NEW n \in Nonces, Stake(tx, n) PROVE ProposerInv'
  <2>1. tx.sender \in Addr /\ tx.amount \in Nat /\ tx.amount > 0 /\ Get(stakes, tx.sender) \in Nat
    BY <1>1, <1>4, GetType, ChainAssumption DEF Stake, StakingTx, WorkOK
  <2>2. Get(stakes, tx.sender) + tx.amount > 0
    BY <2>1
  <2>3. stakes' = Put(stakes, tx.sender, Get(stakes, tx.sender) + tx.amount)
    BY <1>4 DEF Stake
  <2>4. \A w \in DOMAIN stakes' : stakes'[w] > 0
    BY <2>2, <2>3 DEF Put, ProposerInv, StakesOK
  <2>5. DOMAIN stakes' # {}
    BY <2>3 DEF Put
  <2> QED BY <1>1, <1>4, <2>4, <2>5 DEF Stake, ProposerInv, StakesOK, blockVars
<1>5. ASSUME NEW tx \in UnstakeTxs, NEW n \in Nonces, Unstake(tx, n) PROVE ProposerInv'
  BY <1>1, <1>5, UnstakeKeepsOne DEF Unstake, ProposerInv, blockVars
<1>6. ASSUME NEW tx \in SlashTxs, NEW n \in Nonces, Slash(tx, n) PROVE ProposerInv'
  BY <1>1, <1>6 DEF Slash, ProposerInv, StakesOK, Pop, blockVars
<1>7. ASSUME NEW tx \in VoteTxs, NEW n \in Nonces, Vote(tx, n) PROVE ProposerInv'
  BY <1>2, <1>7 DEF Vote, blockVars, slashVars
<1>8. CASE CommitBlock
  BY <1>1, <1>8 DEF CommitBlock, ledgerVars, Ledger, ProposerInv
<1>9. CASE RejectBlock
  BY <1>1, <1>9 DEF RejectBlock, Restore, ProposerInv
<1> QED BY <1>2, <1>3, <1>4, <1>5, <1>6, <1>7, <1>8, <1>9
        DEF Next, vars, ledgerVars, BeginBlock, slashVars

\* As long as nobody was slashed, every sequence of bonding and withdrawing leaves
\* a validator the election can pick (_apply_tx, "never let a voluntary exit empty
\* the validator set").
THEOREM ProposerTheorem == Spec => []ProposerExists
<1>1. Init => ProposerInv
  BY InitType, ChainAssumption DEF Init, ProposerInv, StakesOK, Ledger, IsDict
<1>2. ProposerInv => ProposerExists
  <2> SUFFICES ASSUME ProposerInv, slashed_addrs = {} PROVE \E v \in Addr : Electable(v)
    BY DEF ProposerExists
  <2>1. WorkOK
    BY WorkOKIsLedgerOK DEF ProposerInv, TypeOK
  <2> QED BY <2>1 DEF WorkOK, IsDict, ProposerInv, StakesOK, Electable
<1> QED BY <1>1, <1>2, NextProposer, PTL DEF Spec
-----------------------------------------------------------------------------
(* Slashable stake: what a snapshot counted is still staked, or unbonding  *)
(* with a release height that lies a whole unbonding period after it.      *)

\* What a queue releases at height m or later.
Late(q, m) == SumFunctionOnSet(q, {r \in Releases : r >= m})

CoverOK(d, u, stk, byz, i) ==
    \A c \in DOMAIN stk : i < c + UnbondingBlocks =>
        \A v \in DOMAIN stk[c] \ byz : Get(d, v) + Late(u[v], c + UnbondingBlocks) >= stk[c][v]

CoverInv ==
    /\ FinalityInv
    /\ CoverOK(stakes, unbonding, ffg_stake, slashed_addrs, Index)
    /\ CoverOK(saved.stakes, saved.unbonding, saved.ffg_stake, saved.slashed_addrs, Index)

LEMMA LateSummable ==
    ASSUME NEW q \in [Releases -> Nat], NEW m
    PROVE  Summable(q, {r \in Releases : r >= m})
BY QueueSum, SummableSubset

LEMMA LateType ==
    ASSUME NEW q \in [Releases -> Nat], NEW m
    PROVE  Late(q, m) \in Nat /\ Late(q, m) <= SumFunction(q)
<1> DEFINE A == {r \in Releases : r >= m}
           B == {r \in Releases : ~(r >= m)}
<1>1. A \cup B = Releases /\ A \cap B = {}
  OBVIOUS
<1>2. SumFunctionOnSet(q, A \cup B) = SumFunctionOnSet(q, A) + SumFunctionOnSet(q, B)
  <2>1. Summable(q, A \cup B)
    BY <1>1, QueueSum
  <2> HIDE DEF A, B
  <2> QED BY <1>1, <2>1, SumDisjoint
<1>3. SumFunctionOnSet(q, A) \in Nat /\ SumFunctionOnSet(q, B) \in Nat
  <2>1. IsFiniteSet(A) /\ IsFiniteSet(B)
    BY ReleasesFinite, FS_Subset
  <2> QED BY <2>1, SumNat
<1>4. SumFunction(q) = SumFunctionOnSet(q, Releases) /\ Late(q, m) = SumFunctionOnSet(q, A)
  BY DEF SumFunction, Late
<1>5. SumFunctionOnSet(q, Releases) = SumFunctionOnSet(q, A) + SumFunctionOnSet(q, B)
  BY <1>1, <1>2, Zenon
<1> HIDE DEF A, B
<1> QED BY <1>3, <1>4, <1>5

LEMMA LateAdd ==
    ASSUME NEW q \in [Releases -> Nat], NEW m, NEW r \in Releases, r >= m, NEW x \in Nat
    PROVE  Late([q EXCEPT ![r] = @ + x], m) = Late(q, m) + x
<1> DEFINE p == [q EXCEPT ![r] = @ + x]
           A == {y \in Releases : y >= m}
<1>1. /\ p \in [Releases -> Nat] /\ p[r] = q[r] + x /\ r \in A
      /\ \A y \in A \ {r} : p[y] = q[y]
  BY ReleasesFinite
<1>2. Summable(q, A) /\ Summable(p, A)
  BY <1>1, LateSummable
<1>3. SumFunctionOnSet(p, A) = SumFunctionOnSet(q, A) - q[r] + p[r]
  <2> HIDE DEF p, A
  <2> QED BY <1>1, <1>2, SumChangeOne
<1>4. SumFunctionOnSet(q, A) \in Int /\ q[r] \in Nat
  BY <1>2, SumType
<1> HIDE DEF p
<1> QED BY <1>1, <1>3, <1>4 DEF p, Late

\* Maturing takes nothing from the part of a queue that is released later.
LEMMA LateMature ==
    ASSUME NEW q \in [Releases -> Nat], NEW i \in Nat, NEW m \in Nat, i < m
    PROVE  Late([r \in Releases |-> IF r <= i THEN 0 ELSE q[r]], m) = Late(q, m)
<1> DEFINE p == [r \in Releases |-> IF r <= i THEN 0 ELSE q[r]]
           A == {r \in Releases : r >= m}
<1>1. \A r \in A : q[r] = p[r]
  BY ReleasesFinite
<1>2. Summable(q, A)
  BY LateSummable
<1>3. SumFunctionOnSet(q, A) = SumFunctionOnSet(p, A)
  <2> HIDE DEF p, A
  <2> QED BY <1>1, <1>2, SumCongruent
<1> QED BY <1>3 DEF Late

LEMMA CoverTypes ==
    ASSUME CoverInv
    PROVE  /\ WorkOK
           /\ Index \in Nat /\ UnbondingBlocks \in Nat
           /\ \A c \in DOMAIN ffg_stake :
                 /\ c \in 0 .. Top
                 /\ \A v \in DOMAIN ffg_stake[c] : v \in Addr /\ ffg_stake[c][v] \in Nat
           /\ \A a : Get(stakes, a) \in Nat
<1>1. WorkOK /\ Index \in Nat
  BY FinalityTypes DEF CoverInv
<1>2. \A a : Get(stakes, a) \in Nat
  BY <1>1, GetType DEF WorkOK
<1>3. \A c \in DOMAIN ffg_stake :
         /\ c \in 0 .. Top
         /\ \A v \in DOMAIN ffg_stake[c] : v \in Addr /\ ffg_stake[c][v] \in Nat
  BY <1>1 DEF CoverInv, FinalityInv, FinalOK, WorkOK, IsDict
<1> QED BY <1>1, <1>2, <1>3, ChainAssumption

LEMMA BeginBlockCovers ==
    ASSUME CoverInv, NEW v \in Addr, BeginBlock(v)
    PROVE  CoverOK(stakes, unbonding, ffg_stake, slashed_addrs, Index)'
<1> SUFFICES ASSUME NEW c \in DOMAIN ffg_stake', Index < c + UnbondingBlocks,
                    NEW w \in DOMAIN ffg_stake'[c] \ slashed_addrs
             PROVE  Get(stakes, w) + Late(unbonding'[w], c + UnbondingBlocks) >= ffg_stake'[c][w]
  BY DEF CoverOK, BeginBlock, slashVars, Index
<1>1. WorkOK /\ Index \in Nat /\ UnbondingBlocks \in Nat /\ Get(stakes, w) \in Nat
  BY CoverTypes
<1>2. CASE c \in DOMAIN ffg_stake
  <2>1. c # Index /\ c \in Nat
    BY <1>2, CoverTypes DEF Top, BeginBlock, Index, CoverInv, FinalityInv, TypeOK
  <2>2. ffg_stake'[c] = ffg_stake[c]
    BY <1>2, <2>1 DEF BeginBlock, Put
  <2>3. w \in Addr
    BY <1>2, <2>2, CoverTypes
  <2>4. unbonding'[w] = [r \in Releases |-> IF r <= Index THEN 0 ELSE unbonding[w][r]]
    BY <2>3 DEF BeginBlock
  <2>5. Late(unbonding'[w], c + UnbondingBlocks) = Late(unbonding[w], c + UnbondingBlocks)
    <3>1. unbonding[w] \in [Releases -> Nat] /\ c + UnbondingBlocks \in Nat
      BY <1>1, <2>1, <2>3 DEF WorkOK
    <3> QED BY <1>1, <2>4, <3>1, LateMature
  <2> QED BY <1>2, <2>2, <2>5 DEF CoverInv, CoverOK
<1>3. CASE c \notin DOMAIN ffg_stake
  <2>1. ffg_stake'[c] = stakes
    BY <1>3 DEF BeginBlock, Put
  <2>2. w \in Addr /\ ffg_stake'[c][w] = Get(stakes, w)
    BY <1>1, <2>1 DEF Get, WorkOK, IsDict
  <2>3. unbonding'[w] \in [Releases -> Nat]
    BY <1>1, <2>2 DEF BeginBlock, WorkOK
  <2>4. Late(unbonding'[w], c + UnbondingBlocks) \in Nat
    BY <2>3, LateType
  <2> QED BY <1>1, <2>2, <2>4
<1> QED BY <1>2, <1>3

\* A withdrawal moves stake to the end of the queue, past the unbonding period of
\* every snapshot that counted it.
LEMMA UnstakeCovers ==
    ASSUME CoverInv, NEW tx \in UnstakeTxs, NEW n \in Nonces, Unstake(tx, n)
    PROVE  CoverOK(stakes, unbonding, ffg_stake, slashed_addrs, Index)'
<1> DEFINE v == tx.sender
           x == tx.amount
<1> SUFFICES ASSUME NEW c \in DOMAIN ffg_stake, Index < c + UnbondingBlocks,
                    NEW w \in DOMAIN ffg_stake[c] \ slashed_addrs
             PROVE  Get(stakes', w) + Late(unbonding'[w], c + UnbondingBlocks) >= ffg_stake[c][w]
  BY DEF CoverOK, Unstake, slashVars, ffgVars, blockVars, Index
<1>1. /\ WorkOK /\ Index \in Nat /\ UnbondingBlocks \in Nat /\ Get(stakes, w) \in Nat
      /\ w \in Addr /\ ffg_stake[c][w] \in Nat /\ c \in 0 .. Top
  BY CoverTypes
<1>2. v \in Addr /\ x \in Nat /\ Admit(v, n)
  BY ChainAssumption DEF StakingTx, Unstake
<1>3. c \in Nat /\ c <= Index /\ UnbondingBlocks > 0
  BY <1>1, <1>2 DEF Admit, Top
<1>4. Index \in 1 .. MaxHeight
  BY <1>2, OpenBlock DEF CoverInv, FinalityInv
<1>5. ReleaseHeight \in Releases /\ ReleaseHeight >= c + UnbondingBlocks
  BY <1>1, <1>3, <1>4, ChainAssumption DEF Releases, ReleaseHeight
<1>6. v \in DOMAIN stakes /\ stakes[v] >= x /\ stakes[v] \in Nat
  BY <1>1, <1>2 DEF Unstake, Get, WorkOK, IsDict
<1>7. Get(stakes', v) = stakes[v] - x /\ (w # v => Get(stakes', w) = Get(stakes, w))
  <2>1. stakes' = Withdraw(v, x)
    BY DEF Unstake
  <2> QED BY <1>1, <1>2, <1>6, <2>1 DEF Withdraw, Get, Put, Pop
<1>8. unbonding' = [unbonding EXCEPT ![v] = [unbonding[v] EXCEPT ![ReleaseHeight] = @ + x]]
  BY <1>1, <1>2, <1>3 DEF Unstake, WorkOK
<1>9. Get(stakes, w) + Late(unbonding[w], c + UnbondingBlocks) >= ffg_stake[c][w]
  BY DEF CoverInv, CoverOK
<1>10. Late(unbonding[w], c + UnbondingBlocks) \in Nat
  BY <1>1, LateType DEF WorkOK
<1>11. CASE w = v
  <2>1. unbonding'[w] = [unbonding[w] EXCEPT ![ReleaseHeight] = @ + x]
    BY <1>1, <1>8, <1>11 DEF WorkOK
  <2>2. unbonding[w] \in [Releases -> Nat]
    BY <1>1 DEF WorkOK
  <2>3. Late(unbonding'[w], c + UnbondingBlocks) = Late(unbonding[w], c + UnbondingBlocks) + x
    <3> HIDE DEF v, x
    <3> QED BY <1>2, <1>5, <2>1, <2>2, LateAdd
  <2>4. Get(stakes, w) = stakes[v]
    BY <1>6, <1>11 DEF Get
  <2> HIDE DEF v, x
  <2> QED BY <1>1, <1>2, <1>6, <1>7, <1>9, <1>10, <1>11, <2>3, <2>4
<1>12. CASE w # v
  <2>1. unbonding'[w] = unbonding[w]
    BY <1>1, <1>8, <1>12 DEF WorkOK
  <2> QED BY <1>7, <1>9, <1>12, <2>1
<1> QED BY <1>11, <1>12

LEMMA NextCovers == ASSUME CoverInv, [Next]_vars PROVE CoverInv'
<1>1. FinalityInv'
  BY NextFinality DEF CoverInv
<1>2. /\ WorkOK /\ Index \in Nat /\ UnbondingBlocks \in Nat
      /\ \A a : Get(stakes, a) \in Nat
      /\ \A c \in DOMAIN ffg_stake :
            /\ c \in Nat
            /\ \A v \in DOMAIN ffg_stake[c] : v \in Addr /\ ffg_stake[c][v] \in Nat
  BY CoverTypes
<1>3. UNCHANGED <<saved, height>> =>
        CoverOK(saved.stakes, saved.unbonding, saved.ffg_stake, saved.slashed_addrs, Index)'
  BY DEF CoverInv, Index
<1>4. CASE UNCHANGED <<stakes, unbonding, ffg_stake, slashed_addrs, height, saved>>
  <2>1. CoverOK(stakes, unbonding, ffg_stake, slashed_addrs, Index)'
    BY <1>4 DEF CoverInv, Index
  <2> QED BY <1>1, <1>3, <1>4, <2>1 DEF CoverInv
<1>5. ASSUME NEW v \in Addr, BeginBlock(v) PROVE CoverInv'
  BY <1>1, <1>3, <1>5, BeginBlockCovers DEF CoverInv, BeginBlock
<1>6. ASSUME NEW tx \in Transfers, NEW n \in Nonces, Transfer(tx, n) PROVE CoverInv'
  BY <1>4, <1>6 DEF Transfer, slashVars, ffgVars, blockVars
<1>7. ASSUME NEW tx \in StakeTxs, NEW n \in Nonces, Stake(tx, n) PROVE CoverInv'
  <2>1. UNCHANGED <<unbonding, slashed_addrs, ffg_stake, height, saved>>
    BY <1>7 DEF Stake, slashVars, ffgVars, blockVars
  <2>2. tx.amount \in Nat
    BY ChainAssumption DEF StakingTx
  <2>3. \A a : Get(stakes', a) \in Nat /\ Get(stakes', a) >= Get(stakes, a)
    BY <1>2, <1>7, <2>2 DEF Stake, Get, Put
  <2>4. CoverOK(stakes, unbonding, ffg_stake, slashed_addrs, Index)'
    <3> SUFFICES ASSUME NEW c \in DOMAIN ffg_stake, Index < c + UnbondingBlocks,
                        NEW w \in DOMAIN ffg_stake[c] \ slashed_addrs
                 PROVE  Get(stakes', w) + Late(unbonding[w], c + UnbondingBlocks)
                          >= ffg_stake[c][w]
      BY <2>1 DEF CoverOK, Index
    <3>1. Get(stakes, w) + Late(unbonding[w], c + UnbondingBlocks) >= ffg_stake[c][w]
      BY DEF CoverInv, CoverOK
    <3>2. Late(unbonding[w], c + UnbondingBlocks) \in Nat
      BY <1>2, LateType DEF WorkOK
    <3> QED BY <1>2, <2>3, <3>1, <3>2
  <2> QED BY <1>1, <1>3, <2>1, <2>4 DEF CoverInv
<1>8. ASSUME NEW tx \in UnstakeTxs, NEW n \in Nonces, Unstake(tx, n) PROVE CoverInv'
  <2>1. UNCHANGED <<height, saved>>
    BY <1>8 DEF Unstake, blockVars
  <2> QED BY <1>1, <1>3, <1>8, <2>1, UnstakeCovers DEF CoverInv
<1>9. ASSUME NEW tx \in SlashTxs, NEW n \in Nonces, Slash(tx, n) PROVE CoverInv'
  <2>1. /\ UNCHANGED <<ffg_stake, height, saved>>
        /\ slashed_addrs' = slashed_addrs \cup {tx.offender}
        /\ stakes' = Pop(stakes, tx.offender)
        /\ unbonding' = [unbonding EXCEPT ![tx.offender] = [r \in Releases |-> 0]]
    BY <1>9 DEF Slash, ffgVars, blockVars
  <2>2. \A a \in Addr : a # tx.offender =>
           Get(stakes', a) = Get(stakes, a) /\ unbonding'[a] = unbonding[a]
    BY <1>2, <2>1 DEF WorkOK, Get, Pop
  <2>3. CoverOK(stakes, unbonding, ffg_stake, slashed_addrs, Index)'
    BY <1>2, <2>1, <2>2 DEF CoverInv, CoverOK, Index
  <2> QED BY <1>1, <1>3, <2>1, <2>3 DEF CoverInv
<1>10. ASSUME NEW tx \in VoteTxs, NEW n \in Nonces, Vote(tx, n) PROVE CoverInv'
  BY <1>4, <1>10 DEF Vote, slashVars, blockVars
<1>11. CASE CommitBlock
  <2>1. /\ UNCHANGED <<stakes, unbonding, ffg_stake, slashed_addrs>>
        /\ saved'.stakes = stakes /\ saved'.unbonding = unbonding
        /\ saved'.ffg_stake = ffg_stake /\ saved'.slashed_addrs = slashed_addrs
        /\ Index' = Index + 1
    BY <1>11 DEF CommitBlock, ledgerVars, Ledger, Index
  <2>2. CoverOK(stakes, unbonding, ffg_stake, slashed_addrs, Index + 1)
    <3>1. \A c \in DOMAIN ffg_stake :
             Index + 1 < c + UnbondingBlocks => Index < c + UnbondingBlocks
      BY <1>2
    <3> QED BY <3>1 DEF CoverInv, CoverOK
  <2> QED BY <1>1, <2>1, <2>2 DEF CoverInv
<1>12. CASE RejectBlock
  <2>1. /\ stakes' = saved.stakes /\ unbonding' = saved.unbonding
        /\ ffg_stake' = saved.ffg_stake /\ slashed_addrs' = saved.slashed_addrs
        /\ saved' = saved /\ Index' = Index
    BY <1>12 DEF RejectBlock, Restore, Index
  <2> QED BY <1>1, <2>1 DEF CoverInv
<1> QED BY <1>4, <1>5, <1>6, <1>7, <1>8, <1>9, <1>10, <1>11, <1>12
        DEF Next, vars, ledgerVars

\* For a whole unbonding period after a checkpoint, all the stake its snapshot
\* counted for an unslashed validator can still be confiscated, whatever that
\* validator withdraws ("coins stay bonded (and slashable) until maturity").
THEOREM CoverageTheorem == Spec => []BondedCoversSnapshot
<1>1. Init => CoverInv
  <2> SUFFICES ASSUME Init PROVE CoverInv
    OBVIOUS
  <2>1. CoverOK(stakes, unbonding, ffg_stake, slashed_addrs, Index)
    <3> SUFFICES ASSUME NEW w \in DOMAIN InitStake
                 PROVE  Get(InitStake, w) + Late([r \in Releases |-> 0], 0 + UnbondingBlocks)
                          >= InitStake[w]
      BY ChainAssumption DEF Init, CoverOK, IsDict
    <3>1. [r \in Releases |-> 0] \in [Releases -> Nat]
      OBVIOUS
    <3>2. Late([r \in Releases |-> 0], 0 + UnbondingBlocks) \in Nat
      BY <3>1, LateType
    <3> QED BY <3>2, ChainAssumption DEF Get, IsDict
  <2>2. /\ saved.stakes = stakes /\ saved.unbonding = unbonding
        /\ saved.ffg_stake = ffg_stake /\ saved.slashed_addrs = slashed_addrs
    BY DEF Init, Ledger
  <2> QED BY <2>1, <2>2, InitFinality DEF CoverInv
<1>2. CoverInv => BondedCoversSnapshot
  <2> SUFFICES ASSUME CoverInv, NEW c \in DOMAIN ffg_stake, Index < c + UnbondingBlocks,
                      NEW v \in DOMAIN ffg_stake[c] \ slashed_addrs
               PROVE  Bonded(Ledger, v) >= ffg_stake[c][v]
    BY DEF BondedCoversSnapshot
  <2>1. Get(stakes, v) + Late(unbonding[v], c + UnbondingBlocks) >= ffg_stake[c][v]
    BY DEF CoverInv, CoverOK
  <2>2. /\ WorkOK /\ Get(stakes, v) \in Nat /\ v \in Addr /\ ffg_stake[c][v] \in Nat
    BY CoverTypes
  <2>3. unbonding[v] \in [Releases -> Nat]
    BY <2>2 DEF WorkOK
  <2>4. /\ Late(unbonding[v], c + UnbondingBlocks) \in Nat
        /\ Late(unbonding[v], c + UnbondingBlocks) <= SumFunction(unbonding[v])
        /\ SumFunction(unbonding[v]) \in Nat
    BY <2>3, LateType, QueueSum
  <2> QED BY <2>1, <2>2, <2>4 DEF Bonded, UnbondingTotal, Ledger
<1> QED BY <1>1, <1>2, NextCovers, PTL DEF Spec
-----------------------------------------------------------------------------
(* Holdings: who can make an address poorer. *)

\* Holding(Ledger, a), on the variables themselves.
Own(a) == balances[a] + (Get(stakes, a) + SumFunction(unbonding[a]))

LEMMA HoldingIsOwn == \A a : Holding(Ledger, a) = Own(a)
BY DEF Holding, Bonded, UnbondingTotal, Ledger, Own

LEMMA HoldingIsOwnPrime == \A a : Holding(Ledger', a) = Own(a)'
BY DEF Holding, Bonded, UnbondingTotal, Ledger, Own

LEMMA OwnType ==
    ASSUME WorkOK, NEW a \in Addr
    PROVE  /\ balances[a] \in Nat /\ Get(stakes, a) \in Nat
           /\ SumFunction(unbonding[a]) \in Nat /\ Own(a) \in Nat
<1>1. balances[a] \in Nat
  BY DEF WorkOK
<1>2. Get(stakes, a) \in Nat
  BY GetType DEF WorkOK
<1>3. SumFunction(unbonding[a]) \in Nat
  BY QueueSum DEF WorkOK
<1> QED BY <1>1, <1>2, <1>3 DEF Own

LEMMA OwnTypePrime == ASSUME WorkOK', NEW a \in Addr PROVE Own(a)' \in Nat
<1>1. balances'[a] \in Nat
  BY DEF WorkOK
<1>2. Get(stakes', a) \in Nat
  BY GetType DEF WorkOK
<1>3. SumFunction(unbonding'[a]) \in Nat
  BY QueueSum DEF WorkOK
<1> QED BY <1>1, <1>2, <1>3 DEF Own

\* Maturing only makes coins liquid.
LEMMA BeginBlockOwn ==
    ASSUME TypeOK, NEW v \in Addr, BeginBlock(v), NEW a \in Addr
    PROVE  Own(a)' = Own(a)
<1>1. WorkOK /\ Index \in Nat /\ unbonding[a] \in [Releases -> Nat]
  BY WorkOKIsLedgerOK, ChainAssumption DEF TypeOK, WorkOK, Index
<1>2. unbonding'[a] = [r \in Releases |-> IF r <= Index THEN 0 ELSE unbonding[a][r]]
  BY DEF BeginBlock
<1>3. SumFunction(unbonding[a]) = Matured(a) + SumFunction(unbonding'[a])
  BY <1>1, <1>2, QueueMature DEF Matured
<1>4. balances'[a] = balances[a] + Matured(a) /\ stakes' = stakes
  BY DEF BeginBlock
<1>5. SumFunction(unbonding'[a]) \in Nat /\ Matured(a) \in Nat
  BY <1>1, <1>2, QueueSum, MaturedType
<1>6. Own(a)' = balances'[a] + (Get(stakes, a) + SumFunction(unbonding'[a]))
  BY <1>4 DEF Own, Get
<1> QED BY <1>1, <1>3, <1>4, <1>5, <1>6, OwnType DEF Own

\* A payment leaves everybody but the payer with no less, and a payment of
\* nothing leaves everybody with no less.
LEMMA PayFeeOthers ==
    ASSUME WorkOK, block \in Addr, NEW p \in Addr, NEW fee \in Nat, NEW a \in Addr, a # p
    PROVE  PayFee(balances, p, fee)[a] >= balances[a]
BY DEF WorkOK, PayFee, Credit, Debit

\* A fee that no vesting check covers is on the account of what was waived.
LEMMA PayFeeWaived ==
    ASSUME WorkOK, block \in Addr, NEW p \in Addr, NEW fee \in Nat, NEW a \in Addr
    PROVE  /\ Credit(waived, p, fee)[a] \in Nat /\ waived[a] \in Nat
           /\ PayFee(balances, p, fee)[a] + Credit(waived, p, fee)[a]
                 >= balances[a] + waived[a]
<1>1. /\ Credit(waived, p, fee)[a] = IF a = p THEN waived[a] + fee ELSE waived[a]
      /\ waived[a] \in Nat /\ balances[a] \in Nat
  BY DEF WorkOK, Credit
<1>2. PayFee(balances, p, fee)[a] >= IF a = p THEN balances[a] - fee ELSE balances[a]
  BY DEF WorkOK, PayFee, Credit, Debit
<1>3. PayFee(balances, p, fee)[a] \in Int
  BY DEF WorkOK, PayFee, Credit, Debit
<1> QED BY <1>1, <1>2, <1>3

LEMMA TransferOwn ==
    ASSUME TypeOK, NEW tx \in Transfers, NEW n \in Nonces, Transfer(tx, n),
           NEW a \in Addr, a # tx.sender
    PROVE  Own(a)' >= Own(a)
<1>1. WorkOK /\ block \in Addr
  BY WorkOKIsLedgerOK, OpenBlock DEF TypeOK, Transfer
<1>2. tx.sender \in Addr /\ tx.to \in Addr /\ tx.amount \in Nat /\ tx.fee \in Nat
  BY ChainAssumption DEF TransferTx
<1>3. balances'[a] >= balances[a] /\ balances'[a] \in Int
  BY <1>1, <1>2 DEF Transfer, WorkOK, Credit, Debit
<1>4. Own(a)' = balances'[a] + (Get(stakes, a) + SumFunction(unbonding[a]))
  BY DEF Own, Transfer, Get
<1> QED BY <1>1, <1>3, <1>4, OwnType DEF Own

LEMMA StakeOwn ==
    ASSUME TypeOK, NEW tx \in StakeTxs, NEW n \in Nonces, Stake(tx, n),
           NEW a \in Addr, a # tx.sender
    PROVE  Own(a)' >= Own(a)
<1>1. WorkOK /\ block \in Addr
  BY WorkOKIsLedgerOK, OpenBlock DEF TypeOK, Stake
<1>2. tx.sender \in Addr /\ tx.amount \in Nat /\ tx.fee \in Nat
  BY ChainAssumption DEF StakingTx
<1>3. balances'[a] >= balances[a] /\ balances'[a] \in Int
  BY <1>1, <1>2 DEF Stake, WorkOK, Credit, Debit
<1>4. Get(stakes', a) = Get(stakes, a)
  BY DEF Stake, Get, Put
<1>5. Own(a)' = balances'[a] + (Get(stakes, a) + SumFunction(unbonding[a]))
  BY <1>4 DEF Own, Stake
<1> QED BY <1>1, <1>3, <1>5, OwnType DEF Own

LEMMA UnstakeOwn ==
    ASSUME TypeOK, NEW tx \in UnstakeTxs, NEW n \in Nonces, Unstake(tx, n),
           NEW a \in Addr, a # tx.sender
    PROVE  Own(a)' >= Own(a)
<1>1. WorkOK /\ block \in Addr
  BY WorkOKIsLedgerOK, OpenBlock DEF TypeOK, Unstake
<1>2. tx.sender \in Addr /\ tx.amount \in Nat /\ tx.fee \in Nat
  BY ChainAssumption DEF StakingTx
<1>3. balances'[a] >= balances[a] /\ balances'[a] \in Int
  BY <1>1, <1>2 DEF Unstake, WorkOK, PayFee, Credit, Debit
<1>4. Get(stakes', a) = Get(stakes, a)
  BY DEF Unstake, Withdraw, Get, Put, Pop
<1>5. unbonding'[a] = unbonding[a]
  BY <1>1, <1>2 DEF Unstake, WorkOK
<1>6. Own(a)' = balances'[a] + (Get(stakes, a) + SumFunction(unbonding[a]))
  BY <1>4, <1>5 DEF Own
<1> QED BY <1>1, <1>3, <1>6, OwnType DEF Own

\* A slash takes from its offender only, and its reporter pays a fee.
LEMMA SlashOwn ==
    ASSUME TypeOK, NEW tx \in SlashTxs, NEW n \in Nonces, Slash(tx, n),
           NEW a \in Addr, a # tx.offender
    PROVE  /\ Own(a)' + waived'[a] >= Own(a) + waived[a]
           /\ a # tx.sender => Own(a)' >= Own(a)
<1>1. WorkOK /\ block \in Addr
  <2>1. Admit(tx.sender, n)
    BY DEF Slash
  <2> QED BY <2>1, WorkOKIsLedgerOK, OpenBlock DEF TypeOK
<1>2. tx.sender \in Addr /\ tx.offender \in Addr /\ tx.fee \in Nat
  BY ChainAssumption DEF SlashingTx
<1> DEFINE bonded == Bonded(Ledger, tx.offender)
           share == (bonded * ReporterBps) \div 10000
           beneficiary == IF tx.sender # tx.offender THEN tx.sender ELSE Treasury
           paid == PayFee(balances, tx.sender, tx.fee)
<1>3. share \in Nat /\ bonded - share \in Nat
  <2>1. bonded \in Nat
    BY <1>1, <1>2, BondedType
  <2> HIDE DEF bonded
  <2> QED BY <2>1, SharesSplit
<1>4. balances' = Credit(Credit(paid, beneficiary, share), Treasury, bonded - share)
  BY DEF Slash
<1>5. /\ paid \in [Addr -> Nat]
      /\ a # tx.sender => paid[a] >= balances[a]
      /\ waived'[a] \in Nat /\ waived[a] \in Nat
      /\ paid[a] + waived'[a] >= balances[a] + waived[a]
  <2>1. Affords(tx.sender, tx.fee) /\ waived' = Credit(waived, tx.sender, tx.fee)
    BY DEF Slash
  <2> QED BY <1>1, <1>2, <2>1, PayFeeType, PayFeeOthers, PayFeeWaived
<1>6. balances'[a] >= paid[a] /\ balances'[a] \in Int /\ paid[a] \in Int
  <2> HIDE DEF bonded, share, beneficiary, paid
  <2> QED BY <1>1, <1>3, <1>4, <1>5, OwnType DEF Credit
<1>7. Get(stakes', a) = Get(stakes, a)
  BY DEF Slash, Get, Pop
<1>8. unbonding'[a] = unbonding[a]
  BY <1>1 DEF Slash, WorkOK
<1>9. Own(a)' = balances'[a] + (Get(stakes, a) + SumFunction(unbonding[a]))
  BY <1>7, <1>8 DEF Own
<1>10. Own(a) = balances[a] + (Get(stakes, a) + SumFunction(unbonding[a]))
  BY DEF Own
<1> HIDE DEF paid
<1> QED BY <1>1, <1>5, <1>6, <1>9, <1>10, OwnType

LEMMA VoteOwn ==
    ASSUME TypeOK, NEW tx \in VoteTxs, NEW n \in Nonces, Vote(tx, n),
           NEW a \in Addr
    PROVE  /\ Own(a)' + waived'[a] >= Own(a) + waived[a]
           /\ a # tx.sender => Own(a)' >= Own(a)
<1>1. WorkOK /\ block \in Addr
  BY WorkOKIsLedgerOK, OpenBlock DEF TypeOK, Vote
<1>2. tx.sender \in Addr /\ tx.fee \in Nat /\ Affords(tx.sender, tx.fee)
  BY ChainAssumption DEF VotingTx, Vote
<1>3. /\ balances' = PayFee(balances, tx.sender, tx.fee)
      /\ waived' = Credit(waived, tx.sender, tx.fee)
  BY DEF Vote
<1>4. /\ balances'[a] \in Nat /\ waived'[a] \in Nat /\ waived[a] \in Nat
      /\ a # tx.sender => balances'[a] >= balances[a]
      /\ balances'[a] + waived'[a] >= balances[a] + waived[a]
  BY <1>1, <1>2, <1>3, PayFeeType, PayFeeOthers, PayFeeWaived
<1>5. /\ Own(a)' = balances'[a] + (Get(stakes, a) + SumFunction(unbonding[a]))
      /\ Own(a) = balances[a] + (Get(stakes, a) + SumFunction(unbonding[a]))
  BY DEF Own, Vote, Get
<1> QED BY <1>1, <1>4, <1>5, OwnType

-----------------------------------------------------------------------------
\* What has happened to an address since the last commit.
Spared(a) ==
    \/ Own(a) >= Holding(saved, a)
    \/ nonces[a] > saved.nonces[a]
    \/ \E o \in slashed \ saved.slashed : o[1] = a

OwnInv ==
    /\ TypeOK
    /\ \A a \in Addr : nonces[a] >= saved.nonces[a]
    /\ saved.slashed \subseteq slashed
    /\ \A a \in Addr : Spared(a)

LEMMA SavedTypes ==
    ASSUME TypeOK, NEW a \in Addr
    PROVE  saved.nonces[a] \in Nat /\ Holding(saved, a) \in Nat
<1>1. /\ saved.balances[a] \in Nat /\ saved.nonces[a] \in Nat
      /\ saved.unbonding[a] \in [Releases -> Nat] /\ IsDict(saved.stakes, Addr, Nat)
  BY DEF TypeOK, LedgerOK
<1>2. Get(saved.stakes, a) \in Nat /\ SumFunction(saved.unbonding[a]) \in Nat
  BY <1>1, GetType, QueueSum
<1> QED BY <1>1, <1>2 DEF Holding, Bonded, UnbondingTotal

\* A transaction can leave with less only its sender, whose nonce it uses up.
LEMMA TxOwn ==
    ASSUME OwnInv, TypeOK', NEW p \in Addr, NEW n \in Nonces, Admit(p, n), Consume(p, n),
           UNCHANGED saved, slashed \subseteq slashed',
           \A a \in Addr : a # p => \/ Own(a)' >= Own(a)
                                    \/ \E o \in slashed' \ slashed : o[1] = a
    PROVE  OwnInv'
<1>1. /\ WorkOK /\ n \in Nat /\ n = nonces[p]
      /\ nonces' = [nonces EXCEPT ![p] = n + 1]
  BY WorkOKIsLedgerOK, ChainAssumption DEF OwnInv, TypeOK, Nonces, Admit, Consume
<1>2. WorkOK'
  BY WorkOKIsLedgerOKPrime DEF TypeOK
<1>3. ASSUME NEW a \in Addr
      PROVE  nonces'[a] >= saved'.nonces[a] /\ Spared(a)'
  <2>1. saved.nonces[a] \in Nat /\ Holding(saved, a) \in Nat /\ nonces[a] \in Nat
    BY <1>1, SavedTypes DEF OwnInv, WorkOK
  <2>2. nonces[a] >= saved.nonces[a] /\ Spared(a)
    BY DEF OwnInv
  <2>3. Own(a) \in Nat /\ Own(a)' \in Nat
    BY <1>1, <1>2, OwnType, OwnTypePrime
  <2>4. CASE a = p
    <3>1. nonces'[a] = nonces[a] + 1
      BY <1>1, <2>4 DEF WorkOK
    <3> QED BY <2>1, <2>2, <3>1 DEF Spared
  <2>5. CASE a # p
    <3>1. nonces'[a] = nonces[a]
      BY <1>1, <2>5 DEF WorkOK
    <3>2. CASE Own(a)' >= Own(a)
      <4>1. Own(a) >= Holding(saved, a) => Own(a)' >= Holding(saved, a)
        BY <2>1, <2>3, <3>2
      <4> QED BY <2>2, <3>1, <4>1 DEF Spared
    <3>3. CASE \E o \in slashed' \ slashed : o[1] = a
      <4>1. \E o \in slashed' \ saved'.slashed : o[1] = a
        BY <3>3 DEF OwnInv
      <4> QED BY <2>2, <3>1, <4>1 DEF Spared
    <3> QED BY <2>5, <3>2, <3>3
  <2> QED BY <2>4, <2>5
<1> QED BY <1>3 DEF OwnInv

LEMMA NextOwn == ASSUME OwnInv, [Next]_vars PROVE OwnInv'
<1>1. TypeOK /\ TypeOK'
  BY NextType DEF OwnInv
<1>2. ASSUME NEW a \in Addr PROVE saved.nonces[a] \in Nat /\ Holding(saved, a) \in Nat
  BY <1>1, SavedTypes
<1>3. CASE UNCHANGED vars
  <2>1. UNCHANGED <<balances, nonces, stakes, unbonding, slashed, saved>>
    BY <1>3 DEF vars, ledgerVars
  <2> QED BY <1>1, <2>1 DEF OwnInv, Spared, Own, Get
<1>4. ASSUME NEW v \in Addr, BeginBlock(v) PROVE OwnInv'
  <2>1. UNCHANGED <<nonces, slashed, saved>>
    BY <1>4 DEF BeginBlock, slashVars
  <2>2. \A a \in Addr : Own(a)' = Own(a)
    BY <1>1, <1>4, BeginBlockOwn
  <2> QED BY <1>1, <2>1, <2>2 DEF OwnInv, Spared
<1>5. ASSUME NEW tx \in Transfers, NEW n \in Nonces, Transfer(tx, n) PROVE OwnInv'
  <2>1. /\ Admit(tx.sender, n) /\ Consume(tx.sender, n) /\ UNCHANGED <<saved, slashed>>
        /\ tx.sender \in Addr
    BY <1>5, ChainAssumption DEF Transfer, TransferTx, blockVars, slashVars
  <2> QED BY <1>1, <1>5, <2>1, TransferOwn, TxOwn
<1>6. ASSUME NEW tx \in StakeTxs, NEW n \in Nonces, Stake(tx, n) PROVE OwnInv'
  <2>1. /\ Admit(tx.sender, n) /\ Consume(tx.sender, n) /\ UNCHANGED <<saved, slashed>>
        /\ tx.sender \in Addr
    BY <1>6, ChainAssumption DEF Stake, StakingTx, blockVars, slashVars
  <2> QED BY <1>1, <1>6, <2>1, StakeOwn, TxOwn
<1>7. ASSUME NEW tx \in UnstakeTxs, NEW n \in Nonces, Unstake(tx, n) PROVE OwnInv'
  <2>1. /\ Admit(tx.sender, n) /\ Consume(tx.sender, n) /\ UNCHANGED <<saved, slashed>>
        /\ tx.sender \in Addr
    BY <1>7, ChainAssumption DEF Unstake, StakingTx, blockVars, slashVars
  <2> QED BY <1>1, <1>7, <2>1, UnstakeOwn, TxOwn
<1>8. ASSUME NEW tx \in SlashTxs, NEW n \in Nonces, Slash(tx, n) PROVE OwnInv'
  <2>1. /\ Admit(tx.sender, n) /\ Consume(tx.sender, n) /\ UNCHANGED saved
        /\ tx.sender \in Addr /\ slashed' = slashed \cup {<<tx.offender, tx.key>>}
        /\ <<tx.offender, tx.key>> \notin slashed
    BY <1>8, ChainAssumption DEF Slash, SlashingTx, blockVars
  <2>2. ASSUME NEW a \in Addr, a # tx.sender
        PROVE  Own(a)' >= Own(a) \/ \E o \in slashed' \ slashed : o[1] = a
    <3>1. CASE a = tx.offender
      <4>1. <<tx.offender, tx.key>> \in slashed' \ slashed /\ <<tx.offender, tx.key>>[1] = a
        BY <2>1, <3>1
      <4> QED BY <4>1
    <3>2. CASE a # tx.offender
      BY <1>1, <1>8, <2>2, <3>2, SlashOwn
    <3> QED BY <3>1, <3>2
  <2> QED BY <1>1, <2>1, <2>2, TxOwn
<1>9. ASSUME NEW tx \in VoteTxs, NEW n \in Nonces, Vote(tx, n) PROVE OwnInv'
  <2>1. /\ Admit(tx.sender, n) /\ Consume(tx.sender, n) /\ UNCHANGED <<saved, slashed>>
        /\ tx.sender \in Addr
    BY <1>9, ChainAssumption DEF Vote, VotingTx, blockVars, slashVars
  <2> QED BY <1>1, <1>9, <2>1, VoteOwn, TxOwn
<1>10. CASE CommitBlock \/ RejectBlock
  <2>1. /\ nonces' = saved'.nonces /\ slashed' = saved'.slashed
        /\ balances' = saved'.balances /\ stakes' = saved'.stakes
        /\ unbonding' = saved'.unbonding
    BY <1>10 DEF CommitBlock, RejectBlock, Restore, ledgerVars, Ledger
  <2>2. \A a \in Addr : Own(a)' = Holding(saved, a)'
    BY <2>1 DEF Own, Holding, Bonded, UnbondingTotal
  <2>3. \A a \in Addr : nonces'[a] \in Nat /\ Own(a)' \in Nat
    <3>1. WorkOK'
      BY <1>1, WorkOKIsLedgerOKPrime DEF TypeOK
    <3> QED BY <3>1, OwnTypePrime DEF WorkOK
  <2>4. \A a \in Addr : nonces'[a] >= saved'.nonces[a] /\ Spared(a)'
    BY <2>1, <2>2, <2>3 DEF Spared
  <2> QED BY <1>1, <2>1, <2>4 DEF OwnInv
<1> QED BY <1>3, <1>4, <1>5, <1>6, <1>7, <1>8, <1>9, <1>10 DEF Next

\* No block makes an address poorer that neither signed a transaction of it nor was
\* slashed in it: not through fees, maturing, rewards, rejected transactions or
\* somebody else's transaction.
THEOREM OwnershipTheorem == Spec => OnlyOwnerSpends
<1> DEFINE A == \A a \in Addr :
                   \/ Holding(saved', a) >= Holding(saved, a)
                   \/ saved'.nonces[a] > saved.nonces[a]
                   \/ \E o \in saved'.slashed \ saved.slashed : o[1] = a
<1>1. Init => OwnInv
  <2> SUFFICES ASSUME Init PROVE OwnInv
    OBVIOUS
  <2>1. TypeOK /\ saved = Ledger
    BY InitType DEF Init
  <2>2. \A a \in Addr : nonces[a] \in Nat /\ Own(a) \in Nat
    <3>1. WorkOK
      BY <2>1, WorkOKIsLedgerOK DEF TypeOK
    <3> QED BY <3>1, OwnType DEF WorkOK
  <2>3. saved.nonces = nonces /\ saved.slashed = slashed
    BY <2>1 DEF Ledger
  <2>4. \A a : Holding(saved, a) = Own(a)
    BY <2>1, HoldingIsOwn
  <2> QED BY <2>1, <2>2, <2>3, <2>4 DEF OwnInv, Spared
<1>2. OwnInv /\ [Next]_vars => [A]_saved
  <2> SUFFICES ASSUME OwnInv, [Next]_vars, saved' # saved PROVE A
    OBVIOUS
  <2>1. CommitBlock
    BY OnlyCommitSaves
  <2>2. saved' = Ledger /\ saved'.nonces = nonces /\ saved'.slashed = slashed
    BY <2>1 DEF CommitBlock, Ledger
  <2>3. \A a : Holding(saved', a) = Own(a)
    BY <2>2, HoldingIsOwn
  <2> QED BY <2>2, <2>3 DEF OwnInv, Spared
<1> QED BY <1>1, <1>2, NextOwn, PTL DEF Spec, OnlyOwnerSpends

-----------------------------------------------------------------------------
(* Vesting. *)

LEMMA TimesMonotone ==
    ASSUME NEW a \in Nat, NEW b \in Nat, NEW d \in Nat, a <= b
    PROVE  d * a <= d * b
BY SMT

LEMMA DivMonotone ==
    ASSUME NEW a \in Nat, NEW b \in Nat, NEW d \in Nat \ {0}, a <= b
    PROVE  a \div d \in Nat /\ a \div d <= b \div d
<1> DEFINE p == a \div d
           q == b \div d
<1>1. /\ p \in Nat /\ q \in Nat
      /\ a = d * p + (a % d) /\ a % d \in 0 .. d - 1
      /\ b = d * q + (b % d) /\ b % d \in 0 .. d - 1
  BY SMT
<1> HIDE DEF p, q
<1>2. ASSUME q < p PROVE FALSE
  <2>1. d * (q + 1) <= d * p
    BY <1>1, <1>2, TimesMonotone
  <2>2. d * (q + 1) = d * q + d
    BY <1>1
  <2> QED BY <1>1, <2>1, <2>2
<1> QED BY <1>1, <1>2 DEF p, q

\* Between cliff and end the share released is at most the whole grant.
LEMMA ShareBound ==
    ASSUME NEW total \in Nat, NEW d \in Nat \ {0}, NEW k \in Nat, k <= d
    PROVE  /\ (total * k) \div d \in Nat
           /\ (total * k) \div d <= total
<1>1. total * k \in Nat /\ total * d \in Nat /\ total * k <= total * d
  BY TimesMonotone
<1>2. (total * k) \div d \in Nat /\ (total * k) \div d <= (total * d) \div d
  BY <1>1, DivMonotone
<1>3. (total * d) \div d = total
  BY SMT
<1> QED BY <1>2, <1>3

LEMMA VestedBounds ==
    ASSUME NEW g \in Grant, NEW h \in Nat
    PROVE  Vested(g, h) \in 0 .. g.total
<1>1. g.total \in Nat /\ g.start \in Nat /\ g.cliff \in Nat /\ g.duration \in Nat
  BY DEF Grant
<1>2. CASE g.duration > 0 /\ h >= g.start + g.cliff /\ ~(h >= g.start + g.duration)
  <2>1. h - g.start \in Nat /\ h - g.start <= g.duration /\ g.duration \in Nat \ {0}
    BY <1>1, <1>2
  <2>2. /\ (g.total * (h - g.start)) \div g.duration \in Nat
        /\ (g.total * (h - g.start)) \div g.duration <= g.total
    BY <1>1, <2>1, ShareBound
  <2>3. Vested(g, h) = (g.total * (h - g.start)) \div g.duration
    BY <1>1, <1>2 DEF Vested
  <2> QED BY <1>1, <2>2, <2>3
<1>3. CASE ~(g.duration > 0 /\ h >= g.start + g.cliff /\ ~(h >= g.start + g.duration))
  <2>1. Vested(g, h) = 0 \/ Vested(g, h) = g.total
    BY <1>1, <1>3 DEF Vested
  <2> QED BY <1>1, <2>1
<1> QED BY <1>2, <1>3

\* What is locked never grows with the height.
LEMMA LockedShrinks ==
    ASSUME NEW g \in Grant, NEW h \in Nat
    PROVE  /\ Locked(g, h) \in Nat /\ Locked(g, h + 1) \in Nat
           /\ Locked(g, h) <= g.total
           /\ Locked(g, h + 1) <= Locked(g, h)
<1>1. g.total \in Nat /\ g.start \in Nat /\ g.cliff \in Nat /\ g.duration \in Nat
  BY DEF Grant
<1>2. Vested(g, h) \in 0 .. g.total /\ Vested(g, h + 1) \in 0 .. g.total
  BY VestedBounds
<1>3. Vested(g, h) <= Vested(g, h + 1)
  <2>1. CASE g.duration > 0 /\ h >= g.start + g.cliff /\ ~(h + 1 >= g.start + g.duration)
    <3>1. /\ h - g.start \in Nat /\ h + 1 - g.start \in Nat /\ g.duration \in Nat \ {0}
          /\ h - g.start <= h + 1 - g.start
      BY <1>1, <2>1
    <3>2. /\ Vested(g, h) = (g.total * (h - g.start)) \div g.duration
          /\ Vested(g, h + 1) = (g.total * (h + 1 - g.start)) \div g.duration
      BY <1>1, <2>1 DEF Vested
    <3>3. /\ g.total * (h - g.start) \in Nat /\ g.total * (h + 1 - g.start) \in Nat
          /\ g.total * (h - g.start) <= g.total * (h + 1 - g.start)
      BY <1>1, <3>1, TimesMonotone
    <3> QED BY <3>1, <3>2, <3>3, DivMonotone
  <2>2. CASE ~(g.duration > 0 /\ h >= g.start + g.cliff /\ ~(h + 1 >= g.start + g.duration))
    <3>1. Vested(g, h) = 0 \/ Vested(g, h + 1) = g.total
      BY <1>1, <2>2 DEF Vested
    <3> QED BY <1>1, <1>2, <3>1
  <2> QED BY <2>1, <2>2
<1> QED BY <1>1, <1>2, <1>3 DEF Locked

\* The committed ledger too: it is what a rejected block goes back to.
VestingInv ==
    /\ TypeOK
    /\ \A a \in DOMAIN Grants \ slashed_addrs :
          Own(a) + waived[a] >= Locked(Grants[a], Index)
    /\ \A a \in DOMAIN Grants \ saved.slashed_addrs :
          Holding(saved, a) + saved.waived[a] >= Locked(Grants[a], Index)

LEMMA GrantTypes ==
    ASSUME TypeOK, NEW a \in DOMAIN Grants
    PROVE  /\ a \in Addr /\ Grants[a] \in Grant /\ Index \in Nat
           /\ Locked(Grants[a], Index) \in Nat
           /\ Locked(Grants[a], Index + 1) \in Nat
           /\ Locked(Grants[a], Index + 1) <= Locked(Grants[a], Index)
<1>1. a \in Addr /\ Grants[a] \in Grant /\ Index \in Nat
  BY ChainAssumption DEF IsDict, TypeOK, Index
<1> QED BY <1>1, LockedShrinks

\* A step of an open block at whose end each grantee that is not slashed either was
\* checked or holds no less than before, up to the fees it paid unchecked.
LEMMA BlockStepVesting ==
    ASSUME VestingInv, TypeOK', UNCHANGED <<height, saved>>, slashed_addrs \subseteq slashed_addrs',
           \A a \in DOMAIN Grants \ slashed_addrs' :
              \/ Own(a)' + waived'[a] >= Own(a) + waived[a]
              \/ Own(a)' >= Locked(Grants[a], Index)
    PROVE  VestingInv'
<1>1. Index' = Index
  BY DEF Index
<1>2. WorkOK /\ WorkOK'
  BY WorkOKIsLedgerOK, WorkOKIsLedgerOKPrime DEF VestingInv, TypeOK
<1>3. ASSUME NEW a \in DOMAIN Grants \ slashed_addrs'
      PROVE  Own(a)' + waived'[a] >= Locked(Grants[a], Index)
  <2>1. a \in Addr
    BY GrantTypes DEF VestingInv
  <2>2. /\ Own(a) \in Nat /\ Own(a)' \in Nat /\ Locked(Grants[a], Index) \in Nat
        /\ waived[a] \in Nat /\ waived'[a] \in Nat
    BY <1>2, <2>1, GrantTypes, OwnType, OwnTypePrime DEF VestingInv, WorkOK
  <2>3. Own(a) + waived[a] >= Locked(Grants[a], Index)
    BY DEF VestingInv
  <2> QED BY <2>2, <2>3
<1>4. \A a \in DOMAIN Grants \ saved'.slashed_addrs :
         Holding(saved', a) + saved'.waived[a] >= Locked(Grants[a], Index')
  BY <1>1 DEF VestingInv
<1> QED BY <1>1, <1>3, <1>4 DEF VestingInv

\* _enforce_vesting on the ledger after the transaction.
LEMMA RetainsOwn ==
    ASSUME NEW a \in DOMAIN Grants, Retains(a)', UNCHANGED height
    PROVE  Own(a)' >= Locked(Grants[a], Index)
BY HoldingIsOwnPrime DEF Retains, Index

\* A step whose sender was checked, and which takes nothing from anybody else.
LEMMA CheckedStepVesting ==
    ASSUME VestingInv, TypeOK', UNCHANGED <<slashed_addrs, waived, height, saved>>,
           \A a \in DOMAIN Grants : Own(a)' >= Own(a) \/ Own(a)' >= Locked(Grants[a], Index)
    PROVE  VestingInv'
<1>1. WorkOK /\ WorkOK' /\ \A a \in DOMAIN Grants : a \in Addr
  BY WorkOKIsLedgerOK, WorkOKIsLedgerOKPrime, GrantTypes DEF VestingInv, TypeOK
<1>2. \A a \in DOMAIN Grants : Own(a) \in Nat /\ Own(a)' \in Nat /\ waived[a] \in Nat
  BY <1>1, OwnType, OwnTypePrime DEF WorkOK
<1>3. \A a \in DOMAIN Grants : \/ Own(a)' + waived'[a] >= Own(a) + waived[a]
                               \/ Own(a)' >= Locked(Grants[a], Index)
  BY <1>2
<1> QED BY <1>3, BlockStepVesting

LEMMA NextVesting == ASSUME VestingInv, [Next]_vars PROVE VestingInv'
<1>1. TypeOK /\ TypeOK' /\ WorkOK /\ DOMAIN Grants \subseteq Addr
  BY NextType, WorkOKIsLedgerOK, ChainAssumption DEF VestingInv, TypeOK, IsDict
<1>2. CASE UNCHANGED vars
  <2>1. UNCHANGED <<balances, stakes, unbonding, slashed_addrs, waived, saved, Index>>
    BY <1>2 DEF vars, ledgerVars, Index
  <2> QED BY <1>1, <2>1 DEF VestingInv, Own, Get
<1>3. ASSUME NEW v \in Addr, BeginBlock(v) PROVE VestingInv'
  <2>1. \A a \in DOMAIN Grants : Own(a)' = Own(a)
    BY <1>1, <1>3, BeginBlockOwn
  <2>2. UNCHANGED <<slashed_addrs, waived, height, saved>>
    BY <1>3 DEF BeginBlock, slashVars
  <2> QED BY <1>1, <2>1, <2>2 DEF VestingInv, Index
<1>4. ASSUME NEW tx \in Transfers, NEW n \in Nonces, Transfer(tx, n) PROVE VestingInv'
  <2>1. /\ UNCHANGED <<slashed_addrs, waived, height, saved>>
        /\ Retains(tx.sender)'
    BY <1>4 DEF Transfer, blockVars, slashVars
  <2>2. \A a \in DOMAIN Grants : Own(a)' >= Own(a) \/ Own(a)' >= Locked(Grants[a], Index)
    BY <1>1, <1>4, <2>1, TransferOwn, RetainsOwn
  <2> QED BY <1>1, <2>1, <2>2, CheckedStepVesting
<1>5. ASSUME NEW tx \in StakeTxs, NEW n \in Nonces, Stake(tx, n) PROVE VestingInv'
  <2>1. /\ UNCHANGED <<slashed_addrs, waived, height, saved>>
        /\ Retains(tx.sender)'
    BY <1>5 DEF Stake, blockVars, slashVars
  <2>2. \A a \in DOMAIN Grants : Own(a)' >= Own(a) \/ Own(a)' >= Locked(Grants[a], Index)
    BY <1>1, <1>5, <2>1, StakeOwn, RetainsOwn
  <2> QED BY <1>1, <2>1, <2>2, CheckedStepVesting
<1>6. ASSUME NEW tx \in UnstakeTxs, NEW n \in Nonces, Unstake(tx, n) PROVE VestingInv'
  <2>1. /\ UNCHANGED <<slashed_addrs, waived, height, saved>>
        /\ Retains(tx.sender)'
    BY <1>6 DEF Unstake, blockVars, slashVars
  <2>2. \A a \in DOMAIN Grants : Own(a)' >= Own(a) \/ Own(a)' >= Locked(Grants[a], Index)
    BY <1>1, <1>6, <2>1, UnstakeOwn, RetainsOwn
  <2> QED BY <1>1, <2>1, <2>2, CheckedStepVesting
<1>7. ASSUME NEW tx \in SlashTxs, NEW n \in Nonces, Slash(tx, n) PROVE VestingInv'
  <2>1. /\ UNCHANGED <<height, saved>>
        /\ slashed_addrs' = slashed_addrs \cup {tx.offender}
    BY <1>7 DEF Slash, blockVars
  <2>2. \A a \in DOMAIN Grants \ slashed_addrs' :
           Own(a)' + waived'[a] >= Own(a) + waived[a]
    BY <1>1, <1>7, <2>1, SlashOwn
  <2> QED BY <1>1, <2>1, <2>2, BlockStepVesting
<1>8. ASSUME NEW tx \in VoteTxs, NEW n \in Nonces, Vote(tx, n) PROVE VestingInv'
  <2>1. UNCHANGED <<height, saved, slashed_addrs>>
    BY <1>8 DEF Vote, blockVars, slashVars
  <2>2. \A a \in DOMAIN Grants : Own(a)' + waived'[a] >= Own(a) + waived[a]
    BY <1>1, <1>8, <2>1, VoteOwn
  <2> QED BY <1>1, <2>1, <2>2, BlockStepVesting
<1>9. CASE CommitBlock
  <2>1. /\ UNCHANGED <<balances, stakes, unbonding, slashed_addrs, waived>>
        /\ saved' = Ledger /\ Index' = Index + 1
    BY <1>9 DEF CommitBlock, ledgerVars, Index
  <2>2. /\ \A a : Own(a)' = Own(a) /\ Holding(saved', a) = Own(a)
        /\ saved'.slashed_addrs = slashed_addrs /\ saved'.waived = waived
    BY <2>1, HoldingIsOwn DEF Own, Get, Ledger
  <2>3. \A a \in DOMAIN Grants \ slashed_addrs :
           Own(a) + waived[a] >= Locked(Grants[a], Index + 1)
    <3> SUFFICES ASSUME NEW a \in DOMAIN Grants \ slashed_addrs
                 PROVE  Own(a) + waived[a] >= Locked(Grants[a], Index + 1)
      OBVIOUS
    <3>1. Own(a) + waived[a] >= Locked(Grants[a], Index) /\ Own(a) + waived[a] \in Nat
      BY <1>1, OwnType DEF VestingInv, WorkOK
    <3> QED BY <1>1, <3>1, GrantTypes
  <2> QED BY <1>1, <2>1, <2>2, <2>3 DEF VestingInv
<1>10. CASE RejectBlock
  <2>1. /\ balances' = saved.balances /\ stakes' = saved.stakes
        /\ unbonding' = saved.unbonding /\ slashed_addrs' = saved.slashed_addrs
        /\ waived' = saved.waived /\ saved' = saved /\ Index' = Index
    BY <1>10 DEF RejectBlock, Restore, Index
  <2>2. \A a : Own(a)' = Holding(saved, a)
    BY <2>1 DEF Own, Holding, Bonded, UnbondingTotal
  <2> QED BY <1>1, <2>1, <2>2 DEF VestingInv
<1> QED BY <1>2, <1>3, <1>4, <1>5, <1>6, <1>7, <1>8, <1>9, <1>10 DEF Next

\* vesting.py:12-13 as far as _enforce_vesting goes, for every schedule: no transaction
\* of anybody, in whatever order, leaves an unslashed grantee short of the locked amount
\* by more than the fees of its own votes and slash reports, which return before it.
THEOREM VestingTheorem == Spec => []VestingRetained
<1>1. Init => VestingInv
  <2> SUFFICES ASSUME Init PROVE VestingInv
    OBVIOUS
  <2>1. /\ TypeOK /\ saved = Ledger /\ saved.slashed_addrs = slashed_addrs
        /\ saved.waived = waived /\ waived = [a \in Addr |-> 0]
    BY InitType DEF Init, Ledger
  <2>2. ASSUME NEW a \in DOMAIN Grants PROVE Own(a) + waived[a] >= Locked(Grants[a], Index)
    <3>1. a \in Addr /\ Grants[a] \in Grant /\ Index \in Nat
      BY <2>1, GrantTypes
    <3>2. Own(a) = (Alloc[a] - Get(InitStake, a)) + (Get(InitStake, a) + 0)
      BY <3>1, QueueEmpty DEF Init, Own
    <3>3. Alloc[a] \in Nat /\ Get(InitStake, a) \in Nat
      BY <3>1, ChainAssumption DEF Get, IsDict
    <3>4. Grants[a].total <= Alloc[a] /\ Grants[a].total \in Nat
      BY <3>1, ChainAssumption DEF Grant
    <3>5. Locked(Grants[a], Index) <= Grants[a].total /\ Locked(Grants[a], Index) \in Nat
      BY <3>1, LockedShrinks
    <3> QED BY <2>1, <3>1, <3>2, <3>3, <3>4, <3>5
  <2>3. \A a : Holding(saved, a) = Own(a)
    BY <2>1, HoldingIsOwn
  <2> QED BY <2>1, <2>2, <2>3 DEF VestingInv
<1>2. VestingInv => VestingRetained
  BY HoldingIsOwn DEF VestingInv, VestingRetained
<1> QED BY <1>1, <1>2, NextVesting, PTL DEF Spec
=============================================================================
