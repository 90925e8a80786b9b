------------------------------ MODULE Producer ------------------------------
(***************************************************************************)
(* A validator's node feeding the chain from its mempool: clients and peers *)
(* add transactions at any time; when the node is elected on its head,     *)
(* produce_block selects transactions, seals a block and applies it; blocks *)
(* of other validators arrive as well.  The handler of an accepted block   *)
(* goes on to append it to the store and to update the mempool, after      *)
(* whatever other handlers do meanwhile, unless an error ends it first.  A  *)
(* block of its own that the chain rejects leaves the mempool as it is.    *)
(***************************************************************************)
EXTENDS PosChain, Mempool

CONSTANTS
    Me,       \* the address of the node's validator wallet
    PoolTxs,  \* transactions that clients and peers may send
    Handlers, \* bound: threads that are inside Mempool.add at once
    Retries   \* whether produce_block is called again after it raised

\* What a signed transaction says of sender, fee and amount is what its body says.
ASSUME ProducerAssumption ==
    /\ Me \in Addr
    /\ Handlers \in Nat \ {0}
    /\ Retries \in BOOLEAN
    /\ \A tx \in PoolTxs :
          /\ tx.nonce \in Nat
          /\ tx.sender = tx.body.sender /\ tx.fee = tx.body.fee
          /\ \/ tx.kind = "transfer" /\ tx.body \in Transfers /\ tx.amount = tx.body.amount
             \/ tx.kind = "stake" /\ tx.body \in StakeTxs /\ tx.amount = tx.body.amount
             \/ tx.kind = "unstake" /\ tx.body \in UnstakeTxs /\ tx.amount = tx.body.amount
             \/ tx.kind = "slash" /\ tx.body \in SlashTxs
             \/ tx.kind = "vote" /\ tx.body \in VoteTxs

VARIABLES
    pool,      \* the mempool
    checking,  \* transactions that a handler has checked and not yet inserted
    elected,   \* the validator elected on the head, or NoBlock when there is none
    candidate, \* transactions of the node's own block still to be applied
    owing,     \* accepted blocks, with their height, whose mempool update is to come
    failed,    \* history: an error that is no rejection ended a produce_block
    selected,  \* history: what select returned for the block being applied
    refused    \* history: transactions the chain rejected the node's own blocks for

producerVars == <<pool, checking, elected, candidate, owing, failed, selected, refused>>

\* next_validator: one validator for a head, which its hash and height determine;
\* the hash is not represented, so any of the active ones.
Elected(e) ==
    \/ e \in Addr /\ Electable(e)
    \/ e = NoBlock /\ \A v \in Addr : ~Electable(v)

ProducerInit ==
    /\ Init
    /\ pool = << >>
    /\ checking = {}
    /\ elected \in Addr \cup {NoBlock} /\ Elected(elected)
    /\ candidate = << >>
    /\ owing = {}
    /\ failed = FALSE
    /\ selected = << >>
    /\ refused = {}

-----------------------------------------------------------------------------
(* submit_tx, or a gossiped transaction: Mempool.add runs in a handler's thread *)

\* Everything add checks, against the committed chain and also while a block is being
\* applied, and the eviction.
CheckTx(tx) ==
    /\ Cardinality(checking) < Handlers
    /\ tx \notin checking
    /\ Admits(pool, saved.nonces, tx)
    /\ pool' = Evicted(pool)
    /\ checking' = checking \cup {tx}
    /\ UNCHANGED <<vars, elected, candidate, owing, failed, selected, refused>>

\* The insertion, after whatever other threads did since the checks.
InsertTx(tx) ==
    /\ tx \in checking
    /\ pool' = Inserted(pool, tx)
    /\ checking' = checking \ {tx}
    /\ UNCHANGED <<vars, elected, candidate, owing, failed, selected, refused>>

-----------------------------------------------------------------------------
(* The node's own blocks *)

\* The last produce_block has not returned yet.
Producing == \E o \in owing : o[2] = Me

\* tick: it is the node's turn, whether or not transactions wait.  While it is, no
\* block of another validator extends the head.
OwnTurnIfPending ==
    /\ pool # << >>
    /\ elected = Me
    /\ ~Producing
    /\ BeginBlock(Me)

OwnTurn ==
    /\ elected = Me
    /\ ~Producing
    /\ BeginBlock(Me)

\* produce_block: select, then the new block begins.
ProduceBlock ==
    /\ OwnTurn
    /\ selected' = Select(pool, nonces, balances, UnbondingBlocks)
    /\ candidate' = selected'
    /\ UNCHANGED <<pool, checking, elected, owing, failed, refused>>

\* select raises RuntimeError when another thread's add changes the size of the
\* dictionary that it iterates over.
SelectFails ==
    /\ elected = Me
    /\ ~Producing
    /\ block = NoBlock
    /\ checking # {}
    /\ failed' = TRUE
    /\ UNCHANGED <<vars, pool, checking, elected, candidate, owing, selected, refused>>

\* The handler of a transaction's kind.
Apply(tx) ==
    CASE tx.kind = "transfer" -> Transfer(tx.body, tx.nonce)
      [] tx.kind = "stake" -> Stake(tx.body, tx.nonce)
      [] tx.kind = "unstake" -> Unstake(tx.body, tx.nonce)
      [] tx.kind = "slash" -> Slash(tx.body, tx.nonce)
      [] tx.kind = "vote" -> Vote(tx.body, tx.nonce)

\* The block's next transaction, bound so that its value is fixed over the step.
NextTx == {Head(candidate)}

ApplyNext ==
    /\ block = Me
    /\ candidate # << >>
    /\ \E tx \in NextTx : Apply(tx)
    /\ candidate' = Tail(candidate)
    /\ UNCHANGED <<pool, checking, elected, owing, failed, selected, refused>>

\* tree.add_block raises ValidationError out of produce_block: the transaction
\* that does not apply stays in the pool.
RejectOwn ==
    /\ block = Me
    /\ candidate # << >>
    /\ \A tx \in NextTx : ~ENABLED Apply(tx)
    /\ RejectBlock
    /\ candidate' = << >>
    /\ selected' = << >>
    /\ refused' = refused \cup NextTx
    /\ UNCHANGED <<pool, checking, elected, owing, failed>>

-----------------------------------------------------------------------------
(* Accepted blocks *)

\* tree.add_block accepts the block, and the new head has its own election.
Accepted ==
    /\ candidate = << >>
    /\ CommitBlock
    /\ \E e \in Addr \cup {NoBlock} : Elected(e) /\ elected' = e
    /\ owing' = owing \cup {<<Index, block>>}
    /\ selected' = << >>
    /\ UNCHANGED <<pool, checking, candidate, failed, refused>>

\* The handler appends the block and updates the mempool against the chain of now.
Update(o) ==
    /\ o \in owing
    /\ pool' = Updated(pool, saved.nonces)
    /\ owing' = owing \ {o}
    /\ UNCHANGED <<vars, checking, elected, candidate, failed, selected, refused>>

\* store.append raises, or another thread's add changes the dictionary that update
\* iterates over: the pool stays as it is.
SkipUpdate(o) ==
    /\ o \in owing
    /\ owing' = owing \ {o}
    /\ failed' = (failed \/ o[2] = Me)
    /\ UNCHANGED <<vars, pool, checking, elected, candidate, selected, refused>>

-----------------------------------------------------------------------------
(* Blocks of other validators, with transactions of their own choice *)

ReceiveBlock ==
    /\ elected # Me
    /\ \E v \in Addr : v = elected /\ BeginBlock(v)
    /\ UNCHANGED producerVars

ReceivedTx(tx) ==
    /\ block \in Addr \ {Me}
    /\ Apply(tx)
    /\ UNCHANGED producerVars

RejectReceived ==
    /\ block \in Addr \ {Me}
    /\ RejectBlock
    /\ UNCHANGED producerVars

ProducerNext ==
    \/ \E tx \in PoolTxs : CheckTx(tx)
    \/ \E tx \in PoolTxs : InsertTx(tx)
    \/ ProduceBlock
    \/ SelectFails
    \/ ApplyNext
    \/ RejectOwn
    \/ Accepted
    \/ \E o \in owing : Update(o)
    \/ \E o \in owing : SkipUpdate(o)
    \/ ReceiveBlock
    \/ \E tx \in PoolTxs : ReceivedTx(tx)
    \/ RejectReceived

\* Fairness of what the node does by itself; nothing is assumed of clients, peers or
\* other validators.  The slot loop calls tick until an error ends the loop; with
\* Retries, the callers of produce_block call again after an error.  A call that
\* produces a block runs to its end: a step that shortens candidate is ApplyNext or
\* RejectOwn, and the last is Update or SkipUpdate.
Fairness ==
    /\ WF_block((Retries \/ (refused = {} /\ ~failed)) /\ OwnTurn)
    /\ WF_candidate(candidate # << >> /\ candidate' \in {<< >>, Tail(candidate)})
    /\ WF_height(block = Me /\ candidate = << >> /\ CommitBlock)
    /\ WF_owing(\E o \in owing : o[2] = Me /\ owing' = owing \ {o})

ProducerSpec == ProducerInit /\ [][ProducerNext]_<<vars, producerVars>> /\ Fairness

-----------------------------------------------------------------------------
\* What select returned respects the fee market.
SelectionFeeOrdered == FeeOrdered(selected)

\* mempool.py _cost: "selection never proposes an unaffordable set".  When the turn of a
\* selected transaction comes, after all those before it, the node's own block is
\* still open, the transaction has its sender's next nonce, and the sender has the liquid
\* balance that the chain asks for.
SelectionAffordable ==
    candidate # << >> => \A tx \in NextTx :
        /\ block = Me
        /\ tx.nonce = nonces[tx.sender]
        /\ Affords(tx.sender, Required(tx))

\* "A full pool keeps only the highest-fee transactions": what leaves the pool is spent
\* on the chain or pays no more than anything that stays, whatever was evicted, inserted
\* or consumed before.  (What another thread inserts later into the place that an eviction
\* made may pay less than what was evicted.)
PoolKeepsHighestFees ==
    [][\A tx \in Range(pool) \ Range(pool') :
          \/ \A other \in Range(pool') : tx.fee <= other.fee
          \/ saved'.nonces[tx.sender] > tx.nonce]_pool

\* mempool.py: MAX_POOL_SIZE is the "DoS bound".  The checks and the insertion of add are
\* not one step, so threads that are inside add together may each find the same last
\* place free; however they interleave with evictions, updates and blocks, what they
\* exceed the bound by never adds up to more than one for each thread beyond the first.
PoolBounded == Len(pool) <= MAX_POOL_SIZE + Handlers - 1

\* "The mempool only has to avoid proposing a block the chain will reject" (mempool.py):
\* so a producer that calls again after an error goes on producing.
ProductionContinues == <>(height = MaxHeight)

\* A node that is elected on its head produces the next block, with an empty pool too,
\* with spent transactions left in the pool, and whatever clients and peers send; only
\* an error other than a rejection, or a rejection for what depends on stake, votes or
\* evidence, stops it.  Where no address has a vesting grant, payments and bonding never do.
OwnTurnProduces ==
    \A h \in 0 .. MaxHeight - 1 :
        (elected = Me /\ height = h) ~>
            \/ height > h
            \/ failed
            \/ \E tx \in refused : tx.kind \in {"unstake", "vote", "slash"}
=============================================================================
