----------------------------- MODULE MCProducer -----------------------------
(***************************************************************************)
(* Small instances of Producer: alice runs the node, bob may validate too, *)
(* carol is the treasury; the pool holds two transactions, and one more    *)
(* when two threads find the last place free.                              *)
(***************************************************************************)
EXTENDS Producer

CONSTANTS alice, bob, carol

People == {alice, bob, carol}

MarketAlloc == [a \in People |-> IF a = carol THEN 0 ELSE 4]
MarketStake == [a \in {alice, bob} |-> 1]
SoleStake == [a \in {alice} |-> 1]
NoGrants == << >>

Payment(sender, to, amount, fee, nonce) ==
    [kind |-> "transfer", sender |-> sender, nonce |-> nonce, amount |-> amount,
     fee |-> fee,
     body |-> [sender |-> sender, to |-> to, amount |-> amount, fee |-> fee]]

Staking(kind, sender, amount, fee, nonce) ==
    [kind |-> kind, sender |-> sender, nonce |-> nonce, amount |-> amount, fee |-> fee,
     body |-> [sender |-> sender, amount |-> amount, fee |-> fee]]

\* Every kind; some of them cannot be applied when they are selected.
MarketTxs ==
    {Payment(bob, carol, 1, 0, 0), Payment(bob, carol, 1, 2, 1),
     Staking("stake", alice, 2, 0, 1),
     Staking("unstake", bob, 1, 1, 1),
     [kind |-> "vote", sender |-> alice, nonce |-> 0, amount |-> 0, fee |-> 1,
      body |-> [sender |-> alice, s |-> 0, t |-> 1, fee |-> 1]],
     [kind |-> "slash", sender |-> alice, nonce |-> 0, amount |-> 0, fee |-> 0,
      body |-> [sender |-> alice, offender |-> bob, key |-> 1, fee |-> 0]]}

\* What the chain's handlers are given, by kind.
Bodies(kind) == {tx.body : tx \in {t \in PoolTxs : t.kind = kind}}
PoolTransfers == Bodies("transfer")
PoolStakes == Bodies("stake")
PoolUnstakes == Bodies("unstake")
PoolSlashes == Bodies("slash")
PoolVotes == Bodies("vote")

\* Bob also asks for stake it does not have.
PoisonTxs == {Payment(alice, carol, 1, 1, 0), Staking("unstake", bob, 2, 0, 0)}
=============================================================================
