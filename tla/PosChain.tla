------------------------------ MODULE PosChain ------------------------------
(***************************************************************************)
(* One branch of the chain: core.Blockchain and consensus.ProofOfStakeChain *)
(* applying blocks.  submit_block validates a block on copies of the       *)
(* ledger (Working) and commits them only if every transaction and the     *)
(* supply check pass; any error leaves the committed ledger as it was.     *)
(*                                                                         *)
(* Applying a block is a sequence of steps here: BeginBlock takes the      *)
(* copies and runs _apply_block_pre, then one step per transaction, then   *)
(* CommitBlock or RejectBlock.  The variables are the working copies and   *)
(* `saved' is the committed ledger; they agree while no block is open.     *)
(*                                                                         *)
(* On one branch a block hash and a height determine each other, so        *)
(* checkpoints are named by their heights.  Signatures, hashes and         *)
(* encodings are not represented: a transaction with a bad one is the      *)
(* error that RejectBlock stands for.                                      *)
(***************************************************************************)
EXTENDS FFG, Vesting, FiniteSets

CONSTANTS
    Addr,             \* addresses
    Treasury,         \* treasury_address, or a value that is no address
    Alloc,            \* genesis allocations
    InitStake,        \* bootstrap validators and their stakes
    Grants,           \* vesting grants of some addresses
    UnbondingBlocks,  \* unbonding_blocks; 0 is the instant unstake
    Epoch,            \* blocks between two checkpoints
    ReporterBps,      \* REPORTER_BPS, basis points of a slash for its reporter
    Transfers,        \* transactions clients may sign, by kind
    StakeTxs,
    UnstakeTxs,
    SlashTxs,
    VoteTxs,
    MaxHeight,        \* bound: blocks on the branch
    MaxTxs            \* bound: transactions on the branch

\* Offences are pairs of an offender and the key that tells its offences apart
\* (a height or an id), so that each can be slashed once.
TransferTx == [sender : Addr, to : Addr, amount : Nat, fee : Nat]
StakingTx == [sender : Addr, amount : Nat, fee : Nat]
SlashingTx == [sender : Addr, offender : Addr, key : Nat, fee : Nat]
VotingTx == [sender : Addr, s : Nat, t : Nat, fee : Nat]

\* The value of `block' while none is being applied.
NoBlock == "no block"

ASSUME ChainAssumption ==
    /\ IsFiniteSet(Addr)
    /\ NoBlock \notin Addr
    /\ Alloc \in [Addr -> Nat]
    /\ IsDict(InitStake, Addr, Nat \ {0})
    /\ DOMAIN InitStake # {}
    /\ \A a \in DOMAIN InitStake : InitStake[a] <= Alloc[a]
    /\ IsDict(Grants, Addr, Grant)
    /\ \A a \in DOMAIN Grants : Grants[a].total <= Alloc[a]
    /\ UnbondingBlocks \in Nat
    /\ Epoch \in Nat \ {0}
    /\ ReporterBps \in Nat /\ ReporterBps <= 10000
    /\ Transfers \subseteq TransferTx
    /\ StakeTxs \subseteq StakingTx
    /\ UnstakeTxs \subseteq StakingTx
    /\ SlashTxs \subseteq SlashingTx
    /\ VoteTxs \subseteq VotingTx
    /\ MaxHeight \in Nat
    /\ MaxTxs \in Nat

\* Nonces a signed transaction may carry.
Nonces == 0 .. MaxTxs

\* Heights at which unbonding stake can be released.
Releases == 1 .. MaxHeight + UnbondingBlocks

MaxSupply == SumFunction(Alloc)

VARIABLES
    balances,         \* liquid balance of every address
    nonces,           \* next nonce of every address
    stakes,           \* the stakes dictionary: keys are the recorded validators
    unbonding,        \* amount an address gets back at each release height
    slashed,          \* offences already slashed
    slashed_addrs,    \* proven-Byzantine addresses
    ffg_stake,        \* stake snapshots of the checkpoints on this branch
    ffg_votes,        \* votes recorded (ffg_votes and ffg_seen_target)
    justified,        \* justified checkpoints
    finalized,        \* highest finalized checkpoint
    justified_parent, \* justified checkpoints frozen when the block was opened
    height,           \* index of the head
    block,            \* validator of the block being applied, or NoBlock
    saved,            \* the committed ledger
    spent,            \* history: nonces used on this branch
    waived,           \* history: fees each address paid on votes and slash
                      \*   reports, which _apply_tx takes without _enforce_vesting
    ntx               \* history: transactions applied on this branch

ledgerVars == <<balances, nonces, stakes, unbonding, slashed, slashed_addrs,
                ffg_stake, ffg_votes, justified, finalized, spent, waived, ntx>>
vars == <<ledgerVars, justified_parent, height, block, saved>>
ffgVars == <<ffg_stake, ffg_votes, justified, finalized>>
slashVars == <<slashed, slashed_addrs>>
blockVars == <<justified_parent, height, block, saved>>

\* Index of the block being applied, or of the next one.
Index == height + 1

\* The ledger the variables make up: what _apply copies and commits.
Ledger == [balances |-> balances, nonces |-> nonces, stakes |-> stakes,
           unbonding |-> unbonding, slashed |-> slashed,
           slashed_addrs |-> slashed_addrs, ffg_stake |-> ffg_stake,
           ffg_votes |-> ffg_votes, justified |-> justified,
           finalized |-> finalized, spent |-> spent, waived |-> waived,
           ntx |-> ntx]

\* What an address holds in a ledger: liquid, staked and unbonding.
UnbondingTotal(l, a) == SumFunction(l.unbonding[a])
Bonded(l, a) == Get(l.stakes, a) + UnbondingTotal(l, a)
Holding(l, a) == l.balances[a] + Bonded(l, a)

TotalSupply(l) ==
    SumFunction(l.balances) + SumFunction(l.stakes)
        + SumFunction([a \in Addr |-> UnbondingTotal(l, a)])

-----------------------------------------------------------------------------
\* The committed ledger starts as ProofOfStakeChain.__init__ leaves it: the
\* bootstrap stake moved out of the allocations, genesis justified and final.
Init ==
    /\ balances = [a \in Addr |-> Alloc[a] - Get(InitStake, a)]
    /\ nonces = [a \in Addr |-> 0]
    /\ stakes = InitStake
    /\ unbonding = [a \in Addr |-> [r \in Releases |-> 0]]
    /\ slashed = {}
    /\ slashed_addrs = {}
    /\ ffg_stake = [c \in {0} |-> InitStake]
    /\ ffg_votes = {}
    /\ justified = {0}
    /\ finalized = 0
    /\ justified_parent = {}
    /\ height = 0
    /\ block = NoBlock
    /\ spent = {}
    /\ waived = [a \in Addr |-> 0]
    /\ ntx = 0
    /\ saved = Ledger

\* An address the stake-weighted election can pick: the seed is a block hash,
\* so any address with positive stake may come up.
Electable(v) == v \in DOMAIN stakes /\ stakes[v] > 0

\* _apply_block_pre: what has reached its release height becomes liquid again.
Matured(a) == SumFunctionOnSet(unbonding[a], {r \in Releases : r <= Index})

\* A block by the elected proposer arrives: _apply takes its copies, matures
\* unbonding stake, freezes the justified set and, at an epoch boundary,
\* snapshots the active stake before any transaction of the block.
BeginBlock(v) ==
    /\ block = NoBlock
    /\ height < MaxHeight
    /\ Electable(v)
    /\ block' = v
    /\ balances' = [a \in Addr |-> balances[a] + Matured(a)]
    /\ unbonding' = [a \in Addr |-> [r \in Releases |->
                        IF r <= Index THEN 0 ELSE unbonding[a][r]]]
    /\ justified_parent' = justified
    /\ ffg_stake' = IF Index % Epoch = 0 THEN Put(ffg_stake, Index, stakes)
                                         ELSE ffg_stake
    /\ UNCHANGED <<nonces, stakes, slashVars, ffg_votes, justified, finalized,
                   height, saved, spent, waived, ntx>>

\* balances[a] += x and balances[a] -= x
Credit(b, a, x) == [b EXCEPT ![a] = @ + x]
Debit(b, a, x) == [b EXCEPT ![a] = @ - x]

\* The fee goes from the sender to the proposer of the block.
PayFeeReversed(b, payer, fee) == Credit(Debit(b, block, fee), payer, fee)
PayFee(b, payer, fee) == Credit(Debit(b, payer, fee), block, fee)

\* The funds checks of the handlers.
AffordsWithStake(a, x) == balances[a] + Get(stakes, a) >= x
Affords(a, x) == balances[a] >= x

\* A transaction reaches _apply_tx in an open block: its nonce is the sender's
\* next one.
Admit(sender, nonce) ==
    /\ block # NoBlock
    /\ ntx < MaxTxs
    /\ nonce = nonces[sender]

\* Every handler ends by consuming the sender's nonce.
ConsumeWithoutNonce(sender, nonce) ==
    /\ nonces' = nonces
    /\ spent' = spent \cup {<<sender, nonce>>}
    /\ ntx' = ntx + 1

Consume(sender, nonce) ==
    /\ nonces' = [nonces EXCEPT ![sender] = nonce + 1]
    /\ spent' = spent \cup {<<sender, nonce>>}
    /\ ntx' = ntx + 1

\* _enforce_vesting, evaluated on the state after the transaction.
RetainsNextBlock(a) ==
    a \in DOMAIN Grants => Holding(Ledger, a) >= Locked(Grants[a], Index + 1)
Retains(a) ==
    a \in DOMAIN Grants => Holding(Ledger, a) >= Locked(Grants[a], Index)

\* A plain transfer; the fee goes to the block's proposer.
Transfer(tx, nonce) ==
    /\ Admit(tx.sender, nonce)
    /\ tx.amount > 0
    /\ Affords(tx.sender, tx.amount + tx.fee)
    /\ balances' = Credit(Credit(Debit(balances, tx.sender, tx.amount + tx.fee),
                                 tx.to, tx.amount),
                          block, tx.fee)
    /\ Consume(tx.sender, nonce)
    /\ UNCHANGED <<stakes, unbonding, slashVars, ffgVars, blockVars, waived>>
    /\ Retains(tx.sender)'

\* Bonding: liquid coins become stake.
Stake(tx, nonce) ==
    /\ Admit(tx.sender, nonce)
    /\ tx.amount > 0
    /\ Affords(tx.sender, tx.amount + tx.fee)
    /\ balances' = Credit(Debit(balances, tx.sender, tx.amount + tx.fee),
                          block, tx.fee)
    /\ stakes' = Put(stakes, tx.sender, Get(stakes, tx.sender) + tx.amount)
    /\ Consume(tx.sender, nonce)
    /\ UNCHANGED <<unbonding, slashVars, ffgVars, blockVars, waived>>
    /\ Retains(tx.sender)'

\* A validator whose whole stake leaves is dropped from the dictionary.
WithdrawKeepsKey(v, amount) == Put(stakes, v, stakes[v] - amount)
Withdraw(v, amount) ==
    IF stakes[v] = amount THEN Pop(stakes, v)
                          ELSE Put(stakes, v, stakes[v] - amount)

\* When stake that leaves in this block can be spent again.
ReleaseEarly == Index + UnbondingBlocks - 1
ReleaseHeight == Index + UnbondingBlocks

\* Unbonding: the stake stays slashable for UnbondingBlocks blocks.  The last
\* recorded validator may not leave.
Unstake(tx, nonce) ==
    LET v == tx.sender
        back == IF UnbondingBlocks > 0 THEN 0 ELSE tx.amount
    IN  /\ Admit(v, nonce)
        /\ tx.amount > 0
        /\ Affords(v, tx.fee)
        /\ Get(stakes, v) >= tx.amount
        /\ stakes[v] = tx.amount => Cardinality(DOMAIN stakes) > 1
        /\ balances' = Credit(PayFee(balances, v, tx.fee), v, back)
        /\ stakes' = Withdraw(v, tx.amount)
        /\ unbonding' =
             IF UnbondingBlocks > 0
             THEN [unbonding EXCEPT ![v][ReleaseHeight] = @ + tx.amount]
             ELSE unbonding
        /\ Consume(v, nonce)
        /\ UNCHANGED <<slashVars, ffgVars, blockVars, waived>>
        /\ Retains(v)'

\* Slashing confiscates everything bonded: a share for the reporter, unless it
\* reports itself, and the rest for the treasury.
Slash(tx, nonce) ==
    LET offence == <<tx.offender, tx.key>>
        bonded == Bonded(Ledger, tx.offender)
        reporter_share == (bonded * ReporterBps) \div 10000
        beneficiary == IF tx.sender # tx.offender THEN tx.sender ELSE Treasury
    IN  /\ Admit(tx.sender, nonce)
        /\ Treasury \in Addr
        /\ offence \notin slashed
        /\ Affords(tx.sender, tx.fee)
        /\ balances' = Credit(Credit(PayFee(balances, tx.sender, tx.fee),
                                     beneficiary, reporter_share),
                              Treasury, bonded - reporter_share)
        /\ stakes' = Pop(stakes, tx.offender)
        /\ unbonding' = [unbonding EXCEPT ![tx.offender] = [r \in Releases |-> 0]]
        /\ slashed_addrs' = slashed_addrs \cup {tx.offender}
        /\ slashed' = slashed \cup {offence}
        /\ Consume(tx.sender, nonce)
        /\ waived' = Credit(waived, tx.sender, tx.fee)
        /\ UNCHANGED <<ffgVars, blockVars>>

\* Both ends of the link are checkpoints of this branch in order.  A block
\* cannot hold a vote that names its own hash, so the target is below it.
LinkOnBranch(s, t) ==
    /\ s \in DOMAIN ffg_stake
    /\ t \in DOMAIN ffg_stake
    /\ s % Epoch = 0 /\ t % Epoch = 0 /\ s < t
    /\ t < Index

\* A source must be justified before the block that carries the vote.
SourceJustified(s) == s \in justified_parent

\* A justified target finalizes its source if it is the direct epoch child,
\* unless a higher checkpoint is final already.
FinalizesAcrossGap(s, t) == t >= s + Epoch /\ s > finalized
FinalizesAgain(s, t) == t = s + Epoch
Finalizes(s, t) == t = s + Epoch /\ s > finalized

\* A finality vote: counted against the source's snapshot; two thirds of it
\* justify the target, and finalize the source if the target is its direct
\* epoch child.
Vote(tx, nonce) ==
    LET v == tx.sender
        votes == ffg_votes \cup {[voter |-> v, s |-> tx.s, t |-> tx.t]}
        reached == Quorum(ffg_stake[tx.s], VotersFor(votes, tx.s, tx.t), slashed_addrs)
    IN  /\ Admit(v, nonce)
        /\ LinkOnBranch(tx.s, tx.t)
        /\ SourceJustified(tx.s)
        /\ v \notin slashed_addrs
        /\ Get(ffg_stake[tx.s], v) > 0
        /\ \A w \in ffg_votes : w.voter = v /\ w.t = tx.t => w.s = tx.s
        /\ Affords(v, tx.fee)
        /\ balances' = PayFee(balances, v, tx.fee)
        /\ ffg_votes' = votes
        /\ justified' = IF reached THEN justified \cup {tx.t} ELSE justified
        /\ finalized' = IF reached /\ Finalizes(tx.s, tx.t) THEN tx.s ELSE finalized
        /\ Consume(v, nonce)
        /\ waived' = Credit(waived, v, tx.fee)
        /\ UNCHANGED <<stakes, unbonding, slashVars, ffg_stake, blockVars>>

\* _check_supply passes: the copies become the committed ledger.
CommitBlock ==
    /\ block # NoBlock
    /\ TotalSupply(Ledger) = MaxSupply
    /\ height' = Index
    /\ block' = NoBlock
    /\ saved' = Ledger
    /\ justified_parent' = {}
    /\ UNCHANGED ledgerVars

\* The ledger goes back to what it was before the block.
RestoreAliasedStakes ==
    /\ balances' = saved.balances
    /\ stakes' = stakes
    /\ nonces' = saved.nonces
    /\ unbonding' = saved.unbonding
    /\ slashed' = saved.slashed
    /\ slashed_addrs' = saved.slashed_addrs
    /\ ffg_stake' = saved.ffg_stake
    /\ ffg_votes' = saved.ffg_votes
    /\ justified' = saved.justified
    /\ finalized' = saved.finalized
    /\ spent' = saved.spent
    /\ waived' = saved.waived
    /\ ntx' = saved.ntx

Restore ==
    /\ balances' = saved.balances
    /\ nonces' = saved.nonces
    /\ stakes' = saved.stakes
    /\ unbonding' = saved.unbonding
    /\ slashed' = saved.slashed
    /\ slashed_addrs' = saved.slashed_addrs
    /\ ffg_stake' = saved.ffg_stake
    /\ ffg_votes' = saved.ffg_votes
    /\ justified' = saved.justified
    /\ finalized' = saved.finalized
    /\ spent' = saved.spent
    /\ waived' = saved.waived
    /\ ntx' = saved.ntx

\* Some check raises ValidationError: the copies are dropped.
RejectBlock ==
    /\ block # NoBlock
    /\ Restore
    /\ block' = NoBlock
    /\ justified_parent' = {}
    /\ UNCHANGED <<height, saved>>

Next ==
    \/ \E v \in Addr : BeginBlock(v)
    \/ \E tx \in Transfers, n \in Nonces : Transfer(tx, n)
    \/ \E tx \in StakeTxs, n \in Nonces : Stake(tx, n)
    \/ \E tx \in UnstakeTxs, n \in Nonces : Unstake(tx, n)
    \/ \E tx \in SlashTxs, n \in Nonces : Slash(tx, n)
    \/ \E tx \in VoteTxs, n \in Nonces : Vote(tx, n)
    \/ CommitBlock
    \/ RejectBlock

Spec == Init /\ [][Next]_vars

-----------------------------------------------------------------------------
LedgerOK(l) ==
    /\ l.balances \in [Addr -> Nat]
    /\ l.nonces \in [Addr -> Nat]
    /\ IsDict(l.stakes, Addr, Nat)
    /\ l.unbonding \in [Addr -> [Releases -> Nat]]
    /\ l.slashed \subseteq Addr \X Nat
    /\ l.slashed_addrs \subseteq Addr
    /\ DOMAIN l.ffg_stake \subseteq 0 .. MaxHeight
    /\ \A c \in DOMAIN l.ffg_stake : IsDict(l.ffg_stake[c], Addr, Nat)
    /\ l.ffg_votes \subseteq [voter : Addr, s : 0 .. MaxHeight, t : 0 .. MaxHeight]
    /\ l.justified \subseteq 0 .. MaxHeight
    /\ l.finalized \in 0 .. MaxHeight
    /\ l.spent \subseteq Addr \X Nat
    /\ l.waived \in [Addr -> Nat]
    /\ l.ntx \in 0 .. MaxTxs

\* Working copies and committed ledger have the types of their Python
\* counterparts; no balance, stake or unbonding amount ever goes below zero.
TypeOK ==
    /\ LedgerOK(Ledger)
    /\ LedgerOK(saved)
    /\ justified_parent \subseteq 0 .. MaxHeight
    /\ height \in 0 .. MaxHeight
    /\ block \in Addr \cup {NoBlock}
    /\ block # NoBlock => height < MaxHeight

\* "A block moves money, it never creates or destroys it" (core.py
\* _check_supply): the fixed supply is conserved by every single transaction
\* and by the pre-block maturing, so the supply check never rejects a block.
SupplyConserved == TotalSupply(Ledger) = MaxSupply

\* "Never let a voluntary exit empty the validator set" (consensus.py
\* _apply_tx): unless someone was slashed, some proposer can be elected.
ProposerExists == slashed_addrs = {} => \E v \in Addr : Electable(v)

\* The nonce check makes every signed transaction of a sender apply at most
\* once on a branch, however often it is sent again.
AppliedOnce == ntx = Cardinality(spent)

\* vesting.py:12-13, "locked coins may be staked ... but can never be sent away",
\* with the exception the code makes: votes and slash reports return before
\* _enforce_vesting, so their fees may come out of the locked coins.  An
\* unslashed address with a grant is short of the locked amount by those fees at
\* most, in every block and after every transaction of anybody.
VestingRetained ==
    \A a \in DOMAIN Grants \ slashed_addrs :
        Holding(Ledger, a) + waived[a] >= Locked(Grants[a], Index)

\* "Coins stay bonded (and slashable) until maturity": for the whole unbonding
\* period after a checkpoint, what an unslashed validator had at stake in its
\* snapshot is still there to be confiscated.
BondedCoversSnapshot ==
    \A c \in DOMAIN ffg_stake : Index < c + UnbondingBlocks =>
        \A v \in DOMAIN ffg_stake[c] \ slashed_addrs :
            Bonded(Ledger, v) >= ffg_stake[c][v]

\* Between two committed ledgers nobody's total holding shrinks unless that
\* address signed a transaction or was slashed in the block.
OnlyOwnerSpends ==
    [][\A a \in Addr :
          \/ Holding(saved', a) >= Holding(saved, a)
          \/ saved'.nonces[a] > saved.nonces[a]
          \/ \E o \in saved'.slashed \ saved.slashed : o[1] = a]_saved

\* A link that justified its target: its source was justified, and its voters
\* together with all proven-Byzantine validators hold two thirds of the whole
\* snapshot at the source.
Supermajority(s, t) ==
    LET snapshot == ffg_stake[s]
        backing == VotersFor(ffg_votes, s, t) \cup slashed_addrs
    IN  FFG_DEN * StakeOf(snapshot, backing) >= FFG_NUM * StakeOf(snapshot, DOMAIN snapshot)

\* Every justified checkpoint but genesis is the target of a supermajority link
\* from a lower justified checkpoint, whatever was slashed, unstaked or staked
\* since.
JustifiedByQuorum ==
    \A t \in justified \ {0} :
        \E s \in justified : s < t /\ Supermajority(s, t)

\* A finalized checkpoint has a supermajority link to its direct epoch child, which
\* is justified, and "no same-block chaining": it was justified before the block
\* that finalizes it.
FinalizedByDirectLink ==
    finalized # 0 => /\ finalized \in saved.justified
                     /\ finalized + Epoch \in justified
                     /\ Supermajority(finalized, finalized + Epoch)

\* No block takes finality or justification back.
FinalityGrows ==
    [][/\ saved.finalized <= saved'.finalized
       /\ saved.justified \subseteq saved'.justified]_saved
=============================================================================
