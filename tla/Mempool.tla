------------------------------ MODULE Mempool -------------------------------
(***************************************************************************)
(* The pool of mempool.py as operators.  A pool is the sequence of its     *)
(* transactions in insertion order, the order Python iterates over the     *)
(* dictionary in; equal transactions have equal txids.  A transaction is a *)
(* record with its kind, sender, nonce, amount and fee, and as `body' what *)
(* the chain's handler of that kind takes.                                 *)
(***************************************************************************)
EXTENDS Dict, Sequences, SequencesExt

CONSTANTS
    MAX_POOL_SIZE,
    MAX_TXS_PER_BLOCK

ASSUME PoolAssumption ==
    /\ MAX_POOL_SIZE \in Nat \ {0}
    /\ MAX_TXS_PER_BLOCK \in Nat

-----------------------------------------------------------------------------
(* Admission *)

\* min(pool.values(), key=fee): the first of the cheapest.
Oldest(pool) == 1
Cheapest(pool) ==
    Min({i \in DOMAIN pool : \A j \in DOMAIN pool : pool[i].fee <= pool[j].fee})

\* The checks of add(tx, chain): not spent, not known, and out-bidding the cheapest
\* transaction of a full pool.
Admits(pool, nonces, tx) ==
    /\ tx.nonce >= nonces[tx.sender]
    /\ \A i \in DOMAIN pool : pool[i] # tx
    /\ Len(pool) >= MAX_POOL_SIZE => tx.fee > pool[Cheapest(pool)].fee

\* A full pool then drops its cheapest transaction.
EvictedLate(pool) == IF Len(pool) > MAX_POOL_SIZE THEN RemoveAt(pool, Cheapest(pool)) ELSE pool
Evicted(pool) == IF Len(pool) >= MAX_POOL_SIZE THEN RemoveAt(pool, Cheapest(pool)) ELSE pool

\* pool[tx.txid] = tx, the last step of add, which checks nothing again.
Inserted(pool, tx) == IF \E i \in DOMAIN pool : pool[i] = tx THEN pool ELSE Append(pool, tx)

\* update(chain): what a new block consumed is dropped.
Updated(pool, nonces) ==
    FoldLeft(LAMBDA kept, tx :
                 IF tx.nonce >= nonces[tx.sender] THEN Append(kept, tx) ELSE kept,
             << >>, pool)

-----------------------------------------------------------------------------
(* Selection *)

\* _cost: liquid balance required before a transaction and its change after it.
Required(tx) == IF tx.kind \in {"slash", "vote", "unstake"} THEN tx.fee
                                                            ELSE tx.amount + tx.fee
ChangeIgnored(tx, unbonding_blocks) == 0
Change(tx, unbonding_blocks) ==
    IF tx.kind = "unstake" /\ unbonding_blocks = 0 THEN tx.amount - tx.fee
                                                   ELSE -Required(tx)

Waiting(pool, a, n) == {i \in DOMAIN pool : pool[i].sender = a /\ pool[i].nonce = n}

\* The transaction of a with nonce n that the stable sort puts first.
FirstWaiting(pool, a, n) == pool[Min(Waiting(pool, a, n))]

\* The balance of a before the k-th transaction of its run.
BalanceBefore(pool, nonces, balances, unbonding_blocks, a, k) ==
    balances[a] + SumFunction([j \in 0 .. k - 1 |->
        Change(FirstWaiting(pool, a, nonces[a] + j), unbonding_blocks)])

\* The loop over a's sorted transactions takes at least k of them: no spent
\* nonce comes first, no gap, no second one with a nonce already taken, and
\* every one affordable after those before it.
Takes(pool, nonces, balances, unbonding_blocks, a, k) ==
    /\ \A n \in 0 .. nonces[a] - 1 : Waiting(pool, a, n) = {}
    /\ \A j \in 0 .. k - 1 : Waiting(pool, a, nonces[a] + j) # {}
    /\ \A j \in 0 .. k - 2 : Cardinality(Waiting(pool, a, nonces[a] + j)) = 1
    /\ \A j \in 0 .. k - 1 :
          BalanceBefore(pool, nonces, balances, unbonding_blocks, a, j)
             >= Required(FirstWaiting(pool, a, nonces[a] + j))

\* ready[a]: the contiguous, affordable run from the sender's next nonce.
Ready(pool, nonces, balances, unbonding_blocks, a) ==
    LET len == Max({k \in 0 .. Len(pool) :
                       Takes(pool, nonces, balances, unbonding_blocks, a, k)} \cup {0})
    IN  [i \in 1 .. len |-> FirstWaiting(pool, a, nonces[a] + i - 1)]

\* The senders in the order their first transaction came into the pool.
ComesBefore(pool, a, b) ==
    \E i \in DOMAIN pool : pool[i].sender = a /\ \A j \in 1 .. i : pool[j].sender # b

\* One round of the fee-priority merge: the run head with the highest fee, of
\* equal ones the one whose sender comes first.
MergeFirstSender(pool, ready, selected) ==
    LET taken(a) == Cardinality({i \in DOMAIN selected : selected[i].sender = a})
        open == {a \in DOMAIN ready : taken(a) < Len(ready[a])}
        best == CHOOSE a \in open : \A b \in open \ {a} : ComesBefore(pool, a, b)
    IN  IF open = {} THEN selected ELSE Append(selected, ready[best][taken(best) + 1])

MergeStep(pool, ready, selected) ==
    LET taken(a) == Cardinality({i \in DOMAIN selected : selected[i].sender = a})
        open == {a \in DOMAIN ready : taken(a) < Len(ready[a])}
        next(a) == ready[a][taken(a) + 1]
        best == CHOOSE a \in open : \A b \in open \ {a} :
                    \/ next(a).fee > next(b).fee
                    \/ next(a).fee = next(b).fee /\ ComesBefore(pool, a, b)
    IN  IF open = {} THEN selected ELSE Append(selected, next(best))

\* select(chain): the block-ready list.
Select(pool, nonces, balances, unbonding_blocks) ==
    LET ready == [a \in DOMAIN nonces |->
                     Ready(pool, nonces, balances, unbonding_blocks, a)]
    IN  FoldLeft(LAMBDA selected, round : MergeStep(pool, ready, selected),
                 << >>, [round \in 1 .. MAX_TXS_PER_BLOCK |-> round])

-----------------------------------------------------------------------------
\* "Higher fee => included sooner ... within a single sender we never reorder
\* nonces": a cheaper transaction comes before a dearer one of someone else only
\* if the dearer one had to wait for its own sender's predecessor.
FeeOrdered(selected) ==
    \A i, j \in DOMAIN selected : i < j /\ selected[i].fee < selected[j].fee =>
        \E k \in i .. j - 1 :
            /\ selected[k].sender = selected[j].sender
            /\ selected[k].nonce < selected[j].nonce
=============================================================================
