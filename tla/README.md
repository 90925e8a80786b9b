# A TLA+ development for Mindees

Mindees is a proof-of-stake blockchain in plain Python: a fixed-supply ledger,
stake-weighted proposer election, Casper-FFG finality with slashing, fork choice
over a block tree, a fee-market mempool, a flat-file block store, a JSON-RPC node
and a TCP gossip layer.  This directory holds its specification in TLA+: modules
that follow the code, TLC configurations that check them on small instances, and
TLAPS proofs of the results that hold for every instance.

`PROJECT.json` lists the components, the runs, the source lines behind every
definition, the hazards the properties are aimed at, the findings and the theorems.

## 1. Inventory

| component | source | state | operations | what makes it correct |
|---|---|---|---|---|
| ledger | `core.py` | `balances`, `nonces`, `chain` | `submit_block`, `_apply`, `_apply_tx` | money is conserved, a block applies whole or not at all, no transaction applies twice |
| staking, slashing | `consensus.py` | `stakes`, `unbonding`, `slashed`, `slashed_addrs` | stake, unstake, slash; maturing in `_apply_block_pre` | stake stays slashable for the unbonding period, a voluntary exit never empties the validator set |
| finality (FFG) | `consensus.py`, tests in `finality.py` | `ffg_stake`, `ffg_height`, `ffg_votes`, `ffg_seen_target`, `justified`, `finalized` | `_apply_vote` | justification rests on two thirds of a frozen snapshot, finality only grows, conflicting finality is attributable |
| vesting | `vesting.py` | grants fixed at genesis | `vested`, `locked`, `_enforce_vesting` | a holder keeps what is locked |
| election | `consensus.elect_validator` | none | pure function of stakes and seed | exactly one active validator is elected, in proportion to stake |
| fork choice | `forkchoice.py` | `blocks`, `parent`, `weight`, `height`, `canonical`, `head_hash`, `finalized_hash` | `add_block`, `_update_head`, `chain_at` | the head is the heaviest block that descends from the frontier; the frontier never moves sideways; the cached chain is the replay of the head |
| mempool | `mempool.py` | `pool` | `add`, `select`, `update` | fee order, nonce order, bounded size, selected blocks apply |
| store | `storage.py` | `genesis.json`, `blocks.jsonl` | `write_genesis`, `append`, `iter_blocks`, `load` | what was acknowledged is there after a crash; the file the node wrote replays |
| node | `node.py` | the tree, the mempool, the store | `submit_tx`, `produce_block`, `receive_block`, boot | tree, store and mempool stay in step under concurrent requests and crashes |
| gossip | `p2p.py` | `peers`, `seen_tx`, `seen_block`, `orphans`, `_voted_targets` | `_on_message`, `_apply_or_buffer`, `_drain_orphans`, `request_sync`, `auto_vote`, `tick` | nodes converge; an honest voter is never slashable |
| in-process network | `network.py` | as gossip, on a linear chain | `_recv_tx`, `_recv_block`, `sync_from`; `encode_block`, `decode_block` | test harness and wire codec |
| workflow driver | `gh_chain.py` under two GitHub workflows | the chain as pushed to the repository | `init`, `tick` with a vote per checkpoint | what was published is only continued; finality keeps up with the head |
| launchers | `launch_mainnet.py`, `run_testnet.py`, `tokenomics.py` | keystores, one `genesis.json` per node, node processes, the bundle | make keys, write genesis, start, stop, report | one genesis everywhere, that loads, whose keys are kept; one process per store |
| keys | `keystore.py`, `wallet.py` | keystore files | encrypt, save, unlock, sign | only the passphrase opens a keystore, evidence convicts only who signed it |
| fuzzer | `fuzz.py` | none | random transactions against invariants I1-I6 | test code |

How they interact: a request thread (JSON-RPC or gossip) calls `NodeService`;
that calls `BlockTree.add_block`, which validates a block on the canonical
`ProofOfStakeChain` or on a replay of its branch; then `BlockStore.append` and
`Mempool.update`.  The servers are `ThreadingHTTPServer` and `ThreadingTCPServer`
and no object has a lock.  Boot replays `blocks.jsonl` through `add_block`.  Each
node's slot loop announces peers, asks for missing blocks, produces when elected and
votes.  The launchers and the workflow driver prepare the files a node boots from.

The hard behaviours: a block that fails half-way; votes, stake changes and slashes
that meet in any order against frozen snapshots; branches that arrive in any order
around a moving finality frontier; crashes and failed writes between the tree and
the file; requests interleaved between those two steps; transactions selected
against a chain that has different rules for them than the mempool; blocks that
reach a node before their parents or never; launchers and jobs that stop half-way and
are run again.

## 2. Modules

| module | models | state and actions |
|---|---|---|
| `Dict` | the dictionary operations of the code | operators |
| `FFG` | quorum and vote faults of `consensus.py` | operators |
| `Vesting` | `vesting.py` | operators |
| `Election` | `elect_validator` | a predicate: the seed falls in `v`'s stretch of the cumulative stake |
| `Evidence` | signatures, `verify_equivocation`, `verify_vote_fault` | operators on signed blocks and votes |
| `PosChain` | one branch of `Blockchain`/`ProofOfStakeChain` | variables are the working copies of `_apply`; `saved` is the committed ledger. `BeginBlock` = copies + `_apply_block_pre`, then `Transfer`, `Stake`, `Unstake`, `Slash`, `Vote` per transaction, then `CommitBlock` or `RejectBlock` |
| `Accountability` | finality and slashing on two branches that share voters, with `Evidence` | per branch `ReachCheckpoint`, `Vote`, `Slash`, `Bond`, `Withdraw` |
| `ForkChoice` | `BlockTree` | `AddBlock`: guards, validation on the canonical or replayed state, frontier, head |
| `ConfirmedLedger` | the promise to clients: a head that may be reorganised and a final part that may not | `MoveHead`, `Finalize` |
| `Node` | `NodeService` over `BlockStore`, composed with `ForkChoice` | `Seal`, `AddOwn`, `Accept` (tree), `Persist`/`PersistFails` (file), `Crash`, `CrashInAppend`, `Boot`, `ReplayLine`, `BadLine`, `Ready` |
| `AutoVote` | `auto_vote` of `p2p.py` for one honest validator, composed with `ForkChoice` | `CastVote`, `TakeBlock`, `Restart`; `cast` holds every vote it signed |
| `Mempool` | `mempool.py` | operators: `Admits`, `Evicted`, `Inserted`, `Select`, `Updated` |
| `Producer` | `submit_tx`, `produce_block`, `receive_block` with the mempool, composed with `PosChain` | `CheckTx` and `InsertTx` (the two halves of `add`), `ProduceBlock`, `SelectFails`, `ApplyNext`, `RejectOwn`, `Accepted` (the tree), `Update` or `SkipUpdate` (append and mempool), and foreign blocks; `elected` is fixed for a head |
| `Gossip` | block gossip, peer discovery and sync of `p2p.py` between nodes | `Announce`, `RequestSync`, `Tick` (slot loop); `Deliver`, `DeliverFails`, `Buffer` (handlers); `SealTwin`, `Forge` (faulty others) |
| `Launch` | the launchers, genesis building, keystores, `write_genesis` | one action per file that is written and per process that starts or ends; `Kill` |
| `GhChain` | `gh_chain.py` under its workflows | `InitJob`, `TickJob`, `Round`, `TickDone`, `Push`, `Lost` |
| `Deployment` | the two ways to bring up a network | `Launch` or `GhChain` |
| `SumTheorems` | sums over finite sets, stake of a snapshot | lemmas |
| `PosChainProofs`, `AccountabilityProofs`, `ForkChoiceProofs`, `NodeProofs`, `ProducerProofs`, `GossipProofs`, `DeploymentProofs` | theorems about the module each is named after; `NodeProofs` also about `AutoVote`, `ForkChoiceProofs` also about `Election` | proofs |
| `MC...` | instances | constants of the runs |

Abstractions.

* On one branch a checkpoint is named by its height (`PosChain`).  In the tree a
  hash is the sequence of blocks below it (`ForkChoice`), because a hash commits
  to the whole history; so ancestry is the prefix order, and `Rank` gives the order
  of the hash strings for ties.
* Signatures, hashes, the merkle root and encodings are not represented; a block
  with a bad one is what `RejectBlock` stands for, which may happen at any point of
  a block.
* The election seed is a hash: in `PosChain` any active validator may be elected,
  in `ForkChoice` a fixed function of the parent decides.
* `PosChain` keeps the unbonding queue of an address as amounts per release height.
  The order of entries with one release height does not matter to the code.
* `ForkChoice` keeps of the chain state what fork choice depends on (stakes,
  slashed addresses, finality), and a block does one kind of thing to it (votes,
  stake, unstake, slash or nothing).  The full transaction rules are in `PosChain`.
* `Node` takes `add_block` as one step.
* `Producer` takes the checks and the eviction of `add` as one step and the insertion as
  another, and one transaction is in one handler at a time.  `elected` is any active
  validator, drawn once per head, so while it is the node's turn no block of another
  validator extends the head.
* `Evidence` takes signatures as ideal: a signature is its key and its message, and
  only the holder of the key makes it.  Addresses and hashes are injective.
* `Accountability` counts heights in epochs and lets the two branches part at genesis;
  a branch that parts later repeats the same steps above a common checkpoint.
* `Gossip` gives all validators the same stake, so weight is length; finality is left
  to `ForkChoice`.  A message that was sent stays in the network, because peers do send
  the same block again; one that is never handled is one that was lost.
* `Launch` draws secrets as numbers, and a secret and its address are the same number.
  Amounts are in thousands of coins.  `genesis.json` is the record that
  `genesis_params` reads back; what the constructors demand of it is `Accepted`.
* `GhChain` names a checkpoint by its height.  One validator holds all stake there, so
  its vote is a quorum.
* A transaction of the mempool is its own identifier.  Python dictionaries iterate
  in insertion order, so the pool is a sequence.

## 3. Runs

Passing runs:

| run | instance | what it shows |
|---|---|---|
| `economics` | 3 addresses, 4 blocks, 3 transactions, unbonding 2 | no negative amounts; supply conserved by each step; a proposer remains after voluntary exits; no transaction applies twice; an address with a grant is short of its locked coins by its fees on votes and slash reports at most; snapshotted stake stays confiscable until the unbonding period is over; nobody's holding shrinks without its signature or a slash |
| `finality` | 3 validators (2,1,1), epoch 1, 4 blocks, 5 transactions | every justified checkpoint has a supermajority link from a lower one, finality uses the direct epoch child only and only what was justified before the block, and nothing is taken back |
| `accountability` | 3 validators (2,2,1), branches of 2 and 4 checkpoints, 3 and 2 blocks with votes, one validator that may be at fault or one unit of stake that may be bonded or withdrawn, slashing on both branches with evidence from both | while less than a third of the stake is at fault or has moved, one branch finalizes nothing; nobody who sealed once per parent and voted without conflict is slashed |
| `fork_choice` | 3 validators, branches up to 4, trees up to 7 blocks, votes for the links 0 -> 1, 1 -> 2, 2 -> 3 and 0 -> 2, a stake change, a slash, with and without a trusted first block | head below the frontier and heaviest; canonical state is the replay; the backstop in `add_block` is never reached; nothing beside the checkpoint enters; the tree implements `ConfirmedLedger` |
| `restart` | 2 request threads, 1 crash, trees of up to 4 blocks, torn lines, failing writes, 3-block branches that finalize, own and foreign blocks | a node that boots has every block it acknowledged: it refuses rather than forgets; with one request at a time and whole writes it never refuses, restores the persisted tree and keeps the finality it reported; it seals two blocks on one parent only if two requests seal at the same time or a stop lost a block that others may have been served |
| `production` | pool of 2, 2 threads inside `add`, blocks of 2, 6 transactions of every kind, 2 validators, 2 blocks | fee order, eviction of the cheapest; the pool exceeds its bound by one at most; every selected transaction has its nonce and its funds when its turn comes, also when spent ones stayed in the pool; an elected node produces unless an error, or an unstake, a vote or a slash that the chain refuses, stops it (liveness; no address has a grant here) |
| `auto_vote` | 3 equal validators, trees of up to 5 blocks on branches up to 4, with votes of the others and of the node itself, one restart | every vote an honest node signs goes from a justified checkpoint to a later one of the same branch; a surround vote needs a reorganisation, through restarts |
| `gossip` | 3 nodes, 2 of them elected in turn, the third known by a host name, 3 blocks, seeds that form a line, 2 peers, 2 missing parents, batches of 2, a memory of 5 ids, one forged copy, made-up block, second block or failed write | a copy with a false signature never keeps the genuine block out; `_drain_orphans` connects every descendant; the two nodes that advertise their IP reach the full chain (liveness) |
| `deployment` | 3 directories, 3 launcher runs with 9 sets of arguments, killed at any step; 6 workflow jobs of 1, 3 or 6 blocks, epoch 4, 2 secrets | one genesis in all directories, that loads; its keys are in the keystores; no store has two processes; a bundle describes the network; the published chain only grows, and its head is at most two epochs above its finalized checkpoint |

Bounds.  Four blocks are enough for the longest chain of dependencies: a checkpoint at
height 1, its justification in block 2, the finalization of 1 through the link 1 -> 2 in
block 3, and one more block for a late vote, a stale source or a maturing unbonding entry
(unbonding 2, started in block 1, matures in block 3).  Five transactions allow two
quorums of two voters and a stake change or slash between them.  In `accountability` a
branch of two checkpoints finalizes the first with two blocks of votes, and a branch of
four can finalize the third with votes that surround those; the third block of votes of
the short one comes after a slash.  With stakes 2, 2, 1 the validator that may be at fault
has less than a third, and so has the unit of stake that may move; a second fault would be
more, so `MaxFaults` is one, while the theorems have any number.  A tree of seven blocks
holds a branch of three that finalizes its first block and a branch of four beside it that
would finalize at height 2, which is what the backstop of `add_block` is there for.  In
`restart` a failed write leaves the part of a line that a later append joins, so one crash
is enough to meet the joined line at the boot; `torn_line` has two crashes and the
theorems any number.  In `production` two threads inside `add` find the last place of a
pool of two free, and the second block is selected from what the first one left.  Five
blocks hold two branches of two and three blocks with a vote in one of them, which is the
shortest way to a surround vote.  Three blocks in `gossip` make a second sync batch and a
chain of two orphans; the memory of five ids is smaller than what a node can come to
remember (blocks from the wire, its own blocks, a twin or a forged copy).  Three launcher
runs are one that dies, one that meets what it left, and one more; 14 blocks are three
epochs and a rest.

Deadlock is not checked: the bounds end every behaviour, a refused boot ends in an
operator's hands, and a chain whose last validator was slashed really stops.

Symmetry: the request threads of `Node` and the two validators of equal stake in
`Accountability` are interchangeable; both runs check invariants only.

Fairness.

* `ProducerSpec`: weak fairness only.  The slot loop calls `tick` until an error ends it,
  and a call that produces a block runs to its end.  The election of a head is fixed, so a
  node whose turn it is stays elected until it produces.  With `Retries`, which only
  `wedged_producer` sets, the callers of `produce_block` call again after an error, as
  clients of the JSON-RPC server do.  Nothing is assumed of clients, peers or other
  validators: where an elected validator is offline, the chain waits for it.
* `GossipSpec`: weak fairness of `OwnStep`, what the nodes do by themselves: the slot
  loop with `announce`, `request_sync` and `tick` runs for ever, handlers end, and a
  block that is served in answer to a sync request arrives at last, since the request is
  repeated in every slot.  A broadcast block may never arrive.  `_serve_blocks` answers
  only a node whose advertised host is, as text, the IP that its connection comes from
  (`Dialable`); nothing is served to the others.

Runs that end in a violation, each a disagreement between code and a comment or
docstring, quoted in `PROJECT.json`:

| run | property | what happens |
|---|---|---|
| `self_slash` | `NeverSlashable` | after a reorganisation to a branch with a lower justified checkpoint, `auto_vote` signs a vote that surrounds an earlier one |
| `torn_line` | `NeverRefused` | the ignored rest of a torn line is joined by the next append, and the next boot refuses the store |
| `wedged_producer` | `ProductionContinues` | `select` does not know stake, vesting and vote rules, so it proposes a block the chain rejects; the transaction stays, and every further call of `produce_block` fails |

Limits that the properties state as exceptions:

* Votes and slash reports leave `_apply_tx` before the vesting check, so a fee on one
  comes out of locked coins, although `vesting.py:12-13` says that locked coins "can never
  be sent away".  `waived` adds these fees up per address, and `VestingRetained` says that
  nothing else leaks.
* `ProposerExists` speaks about histories without a slash: the code has no guard against
  slashing the last validator, after which no block can be produced.
* Two requests at once can append a child before its parent (`storage.py` says "parents
  before children"); the next boot refuses such a store (`faulted`).
* The node seals two blocks on one parent, against `consensus.py:498`, in two ways: two
  requests seal at once (`raced`), or the process stops between `add_block` and `append`
  (or after an append that raised), when the block may have been served to others, and
  seals again after the boot (`dropped`).  In the same window the read-only calls show
  finality that a stop takes back; `FinalitySurvivesRestart` is about what replies to
  `produce_block` and `receive_block` reported.
* After an append that raised, or when an `add` that checked its nonce before an update
  inserts after it, a spent transaction stays in the pool until the next update; `select`
  then takes nothing of that sender.  `SelectionAffordable` and `OwnTurnProduces` hold all
  the same.  An error of `tick` (a refused block, a failed append, a dictionary that
  changed while it was iterated over) ends the slot loop (`failed`, `refused`).
* A restart empties `_voted_targets`, so `auto_vote` can vote again for a height it voted
  for, with another source or on another branch.  No property covers it: the promise it
  breaks is the one of `self_slash`.
* Accountable safety needs stake that moved to be counted with stake at fault: each
  branch takes its quorums over its own snapshots, and nothing bounds how far they
  drift apart.
* A node that is on the losing branch after a proposer sealed twice does not get the
  winning branch by sync, which starts above its own height.  A block that was dropped
  because the orphan buffer was full, was buffered just after its parent arrived, or waited
  for a block whose append raised, stays in the de-dup memory and is not taken again
  until it is forgotten there.  `Converges` excepts both, and `IgnoredIsKept` and
  `OrphansMissParent` except the second (`lost`).
* A node that advertises a host name, as the examples in `MAINNET.md:70`, `JOIN.md:59` and
  `GO-LIVE.md:55,63` do, is never answered by `_serve_blocks`, which compares the name
  with an IP (`p2p.py:227`): it lives on broadcasts alone.  `Converges` promises nothing to
  it.
* A launcher that is run again beside an existing genesis replaces the keystores of that
  genesis before `write_genesis` raises (`overwrote`).  Epoch, vesting cliff and the
  number of testnet validators are not checked before the genesis is on disk.  All runs of
  a launcher have the same `--data`, `--keys` and `--followers`: with another `--data` and
  the same `--keys` the keystores are replaced too, beside a genesis in the old place.

## 4. Proofs

Every property of the passing runs is stated by a theorem, except those listed under
*Only model-checked*.  What TLC can evaluate of the inductive invariants holds on the
instances of section 3; the witnesses of `Drift` and `OnTrace` exist in the proofs only.

### PosChain

`PosChainProofs` proves for all values of the constants that satisfy
`ChainAssumption` (a finite set of addresses, well-formed genesis, grants within
the allocations, a positive epoch, basis points up to 10000, a marker for "no block"
that is no address):

* `TypeCorrect`: `Spec => []TypeOK`.  The invariant is `TypeOK` itself; its
  inductive content is that both the working copies and `saved` are well typed,
  since `RejectBlock` brings `saved` back, and that no subtraction goes below zero,
  which follows from the funds checks and, for a slash, from the reporter share
  being at most what is bonded.
* `SupplyTheorem`: `Spec => []SupplyConserved`.  The inductive invariant adds that
  the committed ledger holds the whole supply too, again because of `RejectBlock`.
  Each action moves amounts between entries of three sums (balances, stakes,
  unbonding); the lemmas of `SumTheorems` say what an update of one entry does to a
  sum over a finite set.
* `JustificationTheorem`, `FinalizationTheorem`, `FinalityMonotone`: `FinalityInv` says of
  the working copies and of `saved` that every justified checkpoint but genesis has a
  two-thirds link from a lower justified one, and the finalized one a link to its direct
  epoch child.  A snapshot is taken once and never changed, votes and slashed addresses
  only grow, so a link once backed stays backed.  That the working copies only add to
  `saved`, and that `justified_parent` is what `saved` has, gives the rest.
* `NonceTheorem`: every used nonce is below the address's counter, so the nonce that a
  transaction consumes is a new one (`CountInv`).
* `ProposerTheorem`: the stake dictionary has no zero entry and, until a slash, is not
  empty (`ProposerInv`); with a positive total the election finds somebody.
* `CoverageTheorem`: `CoverInv` says that stake, plus what leaves the queue no earlier than
  an unbonding period after a checkpoint, covers the snapshot of that checkpoint.
* `OwnershipTheorem`: `OwnInv` says of the block being applied that an address whose nonce
  has not moved and that was not slashed in it holds at least what it held in `saved`.
* `VestingTheorem`: the lock of a grant only falls with the height (a lemma on `Vested`
  with integer division); each action that lowers a holding ends with the check, or adds
  what it took to `waived`.  No assumption on fees is needed.

### Accountability

`AccountabilityProofs` proves accountable safety for any number of branches.  `AccountInv`
says that each branch's justified checkpoints are backed by voters and validators at
fault, that whoever signed two conflicting votes is at fault (`FaultsKnown`), and that
there is a bound on how far the stakes and snapshots of each branch are from genesis,
which adds up to at most `moved` over two branches (`Drift`).  If two branches both
finalize, then as usual there are two conflicting links; the voters of both are at fault,
and the two quorums, each counted over its own snapshot, overlap in a third of the genesis
stake less the drift.  `InnocenceTheorem` follows from `FaultsKnown` and what the evidence
operators accept; it needs no limit on the stake at fault.

### ForkChoice

`ForkChoiceProofs` proves, for all values that satisfy `TreeAssumption` (finite
validator set, any election seed, any order of hashes, any menu of operations, any
bounds), every property of the `fork_choice` run, and that the head descends from the
frontier (`HeadSafe`) and the frontier only moves to a descendant (`FinalityTheorem`),
which the run checks as part of `ImplementsLedger`.  The inductive invariant `IInv` is
the conjunction of the invariants with two facts about the tree: it is finite, and
closed under parents (`Rooted`).  They need each other:

* a block that passes finality guard #1 is new, and the frontier is in the tree, so
  its parent descends from the frontier; the backstop is therefore idle
  (`AddBlockTakes`), and `CanonicalIsReplay` makes both paths of `add_block` validate
  on the same chain state;
* the old frontier and what the new block's branch finalized are both prefixes of
  the new block, hence comparable: the frontier moves to a descendant
  (`FrontierMoves`), and it is in the tree because the tree is closed under parents;
* the scan of `_update_head` finds a block no other beats because the tree is finite
  (`BestExists`); the fast path needs no scan because an elected proposer has
  stake, so the new block outweighs the old head, and what is eligible under the new
  frontier was eligible under the old one (`HeadMoves`).

`Refinement` is `Spec => ImplementsLedger`: under the mapping of `head` to `head_hash`
and of `final` to `finalized_hash`, every step of `add_block` is a step of
`ConfirmedLedger` or a stutter.  It follows from `IInv` before and after the step: the
frontier moves to a descendant or stays, and the new head descends from it.

`ElectionTheorem` is about `elect_validator`, for any seed: on each block of the tree with
an active validator exactly one is elected, so the last `return` of the loop is dead, as
its comment says, and each is elected by as many of the numbers below the total stake as
it has stake.  The stretches of the cumulative stake do not overlap (`Stretch`), and the
last one that begins at or below the number picked does not end before it
(`StretchesCover`).  No run checks this on its own: `fork_choice` has seeds that elect.

### Node

`NodeProofs` builds on `IInv` of `ForkChoiceProofs` and proves the four invariants of the
`restart` run for any number of threads, crashes and blocks.  `NodeInv` has three parts.

* `AckInv`: what was acknowledged is in the file, or the file has a line that keeps the
  node from booting; a node that is up has in its tree what is stored.  This is all that
  `AckedTheorem` needs, and it survives torn lines and interleaved requests.
* `StoreInv`: while requests come one at a time and writes are whole there is a trace of
  trees, one per prefix of the file, in which each line is accepted by the tree before
  it.  `Grown` says that what `add_block` leaves is a function of the tree and the block
  (`canonical` is the state of the head, by `CanonicalIsReplay`), so the boot walks the
  same trace again.  The tree of a node that is up is the last of the trace, or one block
  ahead of it between `add_block` and `append`.  `StoreTheorem` and
  `ReportedFinalityTheorem` follow.
* `TwinInv`: as long as no two `produce_block` calls overlapped and no stop lost a block,
  the own blocks that were ever in the tree (`shown`) have different parents; they are in
  the tree of a node that is up and in the file of one that is down.  A node seals on its
  head, a block weighs more than its parent (the proposer has stake), so the head has no
  child, before and after any crash.

### AutoVote

The second half of `NodeProofs` uses `IInv` as well.  `VoterInv` says that justification
is inherited along a branch (`JustifiedAlong`), that every vote was signed for two
checkpoints of some branch (`SignedOnBranch`), and that without a reorganisation all votes
are for the head's chain and their sources still justified there (`SignedBelowHead`).  A
new source is then at least as high as every old one, which rules out a surround vote.

### Producer

`ProducerProofs` proves the four safety properties of the `production` run for any set of
transactions whose envelope agrees with their body (`ProducerAssumption`), any size of
pool and block, and any interleaving of admissions with own and foreign blocks.

* `ChainTheorem`: `ProducerSpec => Spec`.  Each step of the node is a step of `PosChain` or
  leaves the chain alone; all that has to be shown is that a nonce out of the pool is one
  that `PosChain` enumerates (`NonceBound`).  What is proved of a branch holds of the chain
  a producer builds.
* `PoolInv` has that pool and candidate are made of sent transactions, that nonces in use
  are bounded, and that what was selected is in fee order.  `HighestFeesTheorem` needs
  only what `add` and `update` do to the pool (`EvictedRange`, `UpdatedKeeps`).
* `BoundTheorem`: `PoolBounded` is not inductive, since it says nothing of the threads that
  are about to insert.  `Room` says that pool and checked transactions together exceed
  the bound by at most the threads beyond the first: a check of a full pool evicts.
* `update` and `select` are folds.  They are unfolded once into a recursion over sets of
  positions, and `KeepIterDefines` and `MergeIterDefines` show that the recursion has a
  solution; then an ordinary induction over the number of positions goes through, as an
  induction over a set of numbers.
* `FeeOrderTheorem` rests on `Merged`, the invariant of the merge: what was taken of each
  sender is the beginning of its ready run, and each transaction taken paid at least as
  much as every run head that was open then.  A dearer transaction that comes later was
  no head at that time, so its predecessor was taken in between.
* `AffordableTheorem`: `Fits` says that the rest of the block, each sender's part in order,
  stays within the sender's balance by the mempool's reckoning (`_cost`).  `SelectedFits`
  gets it from the runs, `FitsNext` keeps it when the head is taken off, and
  `HandlerTakes` shows that the handlers of the chain take from a sender at most what
  `_cost` expects and from nobody else anything liquid; what others pay in only helps.

The theorem does not say that every selected transaction applies: stake, vote, evidence
and vesting rules are unknown to `select`, which is what `wedged_producer` shows.

### Gossip

`GossipProofs` assumes of the constants that second blocks do not end in the stamp of
first ones.  `IgnoredIsKept` is not inductive as it speaks about messages that were sent;
`RememberedIsKept` says it of every wire block that could be.  `OrphansMissParent` needs
to know why `tick`, which applies no orphans, never seals the parent of one: `AllSealed`
says that every first block on the path to any block anywhere is in the tree of the node
that seals it, so no descendant of a block exists before the block does. A failed write
stops the draining half-way: the orphans that are left go to `lost`, the rest is as after
a whole pass (`FailStep`).  `DrainReaches` shows that one pass over the waiting blocks
finds all descendants that can be applied, and `HeadInTree` that a finite tree has a head
(`Better` is a strict total order).

### Deployment

`DeploymentProofs` is about any number of directories, runs, jobs and blocks.
`CronInv` describes a chain advanced by jobs as *paced*: the newest justified checkpoint is
`k` epochs, the head at most an epoch above it, and the finalized one exactly an epoch
below it.  A round keeps that whether it votes or not, so it does not matter where a job
ends.  `LaunchInv` ties the files to the variables of the launcher between two writes:
whose key each keystore holds (`KeysOK`), that the directories with a genesis are the
first ones and agree with what the run on its way would write (`FilesOK`), and which
processes there can be (`ProcsOK`).  The genesis of the first directory stops every later
run before it reaches the others.

### Sums

`SumTheorems` proves the sum lemmas from the definition of `SumFunctionOnSet` in the
community modules, with an induction over subsets that uses a minimal
counterexample instead of an induction schema.

### Only model-checked

* Liveness under fairness: `OwnTurnProduces`, where `ENABLED` decides what is refused, and
  `Converges`.

## 5. Not modelled

* The race of two threads inside `add_block`: it interleaves at every bytecode over the
  attributes of the tree and of the canonical chain, and nothing is promised about it.
* Gossip of transactions: `seen_tx` saves a second call of `mempool.add`, which
  `Producer` allows at any time anyway.
* A node that crashes while peers run: `Node` has the crash and `Gossip` the peers.  An own
  append that raises in `tick`, which ends the slot loop, is in `Producer`, not in `Gossip`.
* A reorganisation between `select` and `add_block`: `Producer` is about one branch.
* `network.py` beyond the wire form of a block: an in-process mesh for its own tests.
* `tokenomics.py` `init`, `wallet.py` beyond key generation, the JSON-RPC surface of
  `node.py`: command lines and transport around operations that are modelled.
* Encodings: hashes, merkle root, address checksums and JSON are taken as injective.
* `fuzz.py` and the self-tests at the end of every file: test code.
* Containers, services and workflow files, but for the order of jobs in `GhChain`.

## 6. Plan

1. `PosChain`, `ForkChoice`, `Node`, `Mempool`, `Producer`, `AutoVote`: done.
2. `ConfirmedLedger` and the refinement, `Accountability` with `Evidence`, `Gossip`,
   `Launch`, `GhChain`: done.
3. Proofs of the invariants and action properties of all passing runs: done.
4. The election is exact and shares the seeds by stake; a producer's chain is a branch of
   `PosChain`: done.
