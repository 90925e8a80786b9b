------------------------------- MODULE Gossip -------------------------------
(***************************************************************************)
(* p2p.P2PNode: block gossip, peer discovery and block sync between nodes. *)
(* Every message travels on a connection of its own and is handled by a    *)
(* thread of its own, so messages arrive in any order or, when a peer      *)
(* cannot be reached, not at all.                                          *)
(*                                                                         *)
(* A block is its path from genesis, a sequence of stamps; validators have *)
(* equal stake, so the heaviest block is the longest and a tie goes to the *)
(* smaller hash.  Finality and the content of blocks are in ForkChoice.    *)
(* On the wire a block comes with a signature, genuine or not.             *)
(***************************************************************************)
EXTENDS Integers, FiniteSets, Sequences, SequencesExt

CONSTANTS
    Nodes,
    Elected(_),      \* the node whose validator is elected on a head
    Seeds,           \* the --peer arguments of each node
    Dialable,        \* nodes whose --advertise host is the IP their connections come from
    MAX_PEERS,       \* bound of the peer table
    MAX_ORPHANS,     \* bound of the orphan buffer
    SEEN_CAP,        \* bound of the de-dup memory
    MAX_SYNC_BATCH,  \* blocks in one reply to get_blocks
    MaxHeight,       \* bound: length of a chain
    Twins,           \* second blocks that a validator may seal on a parent; a first one ends in 1
    MadeUp,          \* blocks with parents that nobody sealed, for forgeries
    MaxFaults        \* bound: second blocks, forgeries and writes that fail

ASSUME GossipAssumption ==
    /\ IsFiniteSet(Nodes)
    /\ Seeds \in [Nodes -> SUBSET Nodes]
    /\ Dialable \subseteq Nodes
    /\ {MAX_PEERS, MAX_ORPHANS, SEEN_CAP, MAX_SYNC_BATCH} \subseteq Nat \ {0}
    /\ {MaxHeight, MaxFaults} \subseteq Nat
    /\ \A b \in Twins : b \in Seq(Nat) /\ b # << >> /\ Last(b) # 1
    /\ \A b \in MadeUp : b \in Seq(Nat) /\ b # << >> /\ \A i \in DOMAIN b : b[i] # 1

VARIABLES
    tree,       \* blocks in each node's block tree
    seen_block, \* each node's de-dup memory
    orphans,    \* wire blocks buffered under a missing parent
    stashing,   \* wire blocks whose handler found no parent and has yet to buffer
    peers,      \* each node's peer table
    net,        \* wire blocks sent to each node
    lost,       \* history: blocks that a node dropped or buffered in vain
    twins,      \* history: second blocks sealed so far
    forged,     \* history: forgeries so far
    failed      \* history: appends that raised so far

gossipVars == <<tree, seen_block, orphans, stashing, peers, net, lost,
                twins, forged, failed>>

Genesis == << >>
Parent(b) == Front(b)

\* _better: weight first, then the smaller hash.
Better(a, b) ==
    \/ Len(a) > Len(b)
    \/ /\ Len(a) = Len(b)
       /\ \E i \in DOMAIN a : a[i] < b[i] /\ SubSeq(a, 1, i - 1) = SubSeq(b, 1, i - 1)

\* The canonical head of a tree.
HeadOf(T) == CHOOSE b \in T : \A c \in T \ {b} : Better(b, c)

\* A block on the wire, and what _block_wire_id and block.hash tell apart.
Wire(b, genuine) == [block |-> b, genuine |-> genuine]
WireIdHash(w) == <<w.block>>
WireId(w) == <<w.block, w.genuine>>
HashId(b) == <<b>>

\* _remember: what the memory may be after a new key.  Beyond the bound one of the
\* older keys is forgotten; the order of arrival, which says which one, is left out.
Remembered(seen, id) ==
    IF Cardinality(seen) < SEEN_CAP THEN {seen \cup {id}}
    ELSE {(seen \ {old}) \cup {id} : old \in seen}

\* _broadcast of wire blocks W by node n to its peers.  A block stays in net after it
\* was handled, for peers send the same block more than once; one that is never
\* handled is one whose connection failed.
Broadcast(n, W) == [m \in Nodes |-> net[m] \cup IF m \in peers[n] THEN W ELSE {}]

GossipInit ==
    /\ tree = [n \in Nodes |-> {Genesis}]
    /\ seen_block = [n \in Nodes |-> {}]
    /\ orphans = [n \in Nodes |-> {}]
    /\ stashing = [n \in Nodes |-> {}]
    /\ peers = Seeds
    /\ net = [n \in Nodes |-> {}]
    /\ lost = [n \in Nodes |-> {}]
    /\ twins = 0
    /\ forged = 0
    /\ failed = 0

-----------------------------------------------------------------------------
(* The slot loop of _cli *)

\* announce at n and _learn_peers at its peer m.
Announce(n, m) ==
    LET news == (peers[n] \cup {n}) \ (peers[m] \cup {m})
    IN  /\ m \in peers[n]
        /\ news # {}
        /\ \E S \in SUBSET news :
              /\ S = news \/ Cardinality(peers[m] \cup S) = MAX_PEERS
              /\ Cardinality(peers[m] \cup S) <= MAX_PEERS
              /\ peers' = [peers EXCEPT ![m] = @ \cup S]
        /\ UNCHANGED <<tree, seen_block, orphans, stashing, net, lost, twins, forged, failed>>

\* _serve_blocks: canonical blocks above the requester's height, lowest first.
ServedAboveNext(head, since) ==
    {SubSeq(head, 1, i) : i \in {j \in DOMAIN head : j > since + 1 /\ j <= since + MAX_SYNC_BATCH}}
Served(head, since) ==
    {SubSeq(head, 1, i) : i \in {j \in DOMAIN head : j > since /\ j <= since + MAX_SYNC_BATCH}}

\* What its peer m serves n: nothing unless n advertises the IP it asks from, as
\* _serve_blocks compares the two as text ("anti-reflection").
Offered(n, m) ==
    {Wire(b, TRUE) : b \in {c \in Served(HeadOf(tree[m]), Len(HeadOf(tree[n]))) : n \in Dialable}}

\* request_sync at n, served by its peer m.
RequestSync(n, m) ==
    /\ m \in peers[n]
    /\ ~(Offered(n, m) \subseteq net[n])
    /\ net' = [net EXCEPT ![n] = @ \cup Offered(n, m)]
    /\ UNCHANGED <<tree, seen_block, orphans, stashing, peers, lost, twins, forged, failed>>

\* tick and produce_and_gossip: the block is remembered by its hash.
Tick(n) ==
    LET b == Append(HeadOf(tree[n]), 1)
    IN  /\ Elected(HeadOf(tree[n])) = n
        /\ Len(b) <= MaxHeight
        /\ tree' = [tree EXCEPT ![n] = @ \cup {b}]
        /\ \E mem \in Remembered(seen_block[n], HashId(b)) :
              seen_block' = [seen_block EXCEPT ![n] = mem]
        /\ net' = Broadcast(n, {Wire(b, TRUE)})
        /\ UNCHANGED <<orphans, stashing, peers, lost, twins, forged, failed>>

-----------------------------------------------------------------------------
(* _on_message for a block *)

\* The orphans that _drain_orphans applies after block b is in the tree: genuine
\* ones that a chain of genuine orphans leads to.
Drained(waiting, b) ==
    {w.block : w \in {o \in waiting :
        /\ IsStrictPrefix(b, o.block)
        /\ \A i \in Len(b) + 1 .. Len(o.block) : Wire(SubSeq(o.block, 1, i), TRUE) \in waiting}}

\* _apply_or_buffer with the parent in the tree: receive_block raises for a false
\* signature and accepts nothing twice; an accepted block is sent on, then the
\* orphans that wait for it.
ReceiveWithoutDrain(n, w) ==
    LET fresh == IF w.genuine THEN {w.block} ELSE {}
    IN  /\ tree' = [tree EXCEPT ![n] = @ \cup fresh]
        /\ net' = Broadcast(n, {Wire(b, TRUE) : b \in fresh})
        /\ UNCHANGED <<orphans, stashing>>
Receive(n, w) ==
    LET fresh == IF w.genuine /\ w.block \notin tree[n]
                 THEN {w.block} \cup Drained(orphans[n], w.block) ELSE {}
    IN  /\ tree' = [tree EXCEPT ![n] = @ \cup fresh]
        /\ orphans' = [orphans EXCEPT ![n] = {o \in @ : Parent(o.block) \notin fresh}]
        /\ net' = Broadcast(n, {Wire(b, TRUE) : b \in fresh})
        /\ UNCHANGED stashing

\* The parent is missing: the handler is about to buffer the block.
Stash(n, w) ==
    /\ stashing' = [stashing EXCEPT ![n] = @ \cup {w}]
    /\ UNCHANGED <<tree, orphans, net>>

\* A block arrives for the first time, as far as the node remembers; otherwise the
\* handler returns at once.
Deliver(n, w) ==
    /\ w \in net[n]
    /\ WireId(w) \notin seen_block[n]
    /\ \E mem \in Remembered(seen_block[n], WireId(w)) :
          seen_block' = [seen_block EXCEPT ![n] = mem]
    /\ IF Parent(w.block) \in tree[n] THEN Receive(n, w) ELSE Stash(n, w)
    /\ UNCHANGED <<peers, lost, twins, forged, failed>>

\* receive_block's append raises OSError for block f, the one that arrived or an orphan
\* that it drains: f is in the tree, but neither sent on nor followed by its orphans, and
\* the siblings that are left in the loops above it are dropped.  Applied are the blocks
\* on the way to f and whole orphan families before it, in any order of arrival.
DeliverFails(n, w) ==
    LET all == {w.block} \cup Drained(orphans[n], w.block)
    IN  /\ twins + forged + failed < MaxFaults
        /\ w \in net[n] /\ w.genuine
        /\ WireId(w) \notin seen_block[n]
        /\ Parent(w.block) \in tree[n] /\ w.block \notin tree[n]
        /\ \E mem \in Remembered(seen_block[n], WireId(w)) :
              seen_block' = [seen_block EXCEPT ![n] = mem]
        /\ \E applied \in SUBSET all : \E f \in applied :
              /\ w.block \in applied
              /\ \A b \in applied : b = w.block \/ Parent(b) \in applied \ {f}
              /\ \A b \in applied \ {f} : ~IsPrefix(b, f) =>
                    \A c \in all : IsPrefix(b, c) => c \in applied
              /\ tree' = [tree EXCEPT ![n] = @ \cup applied]
              /\ orphans' = [orphans EXCEPT ![n] = {o \in @ : Parent(o.block) \notin applied \ {f}}]
              /\ lost' = [lost EXCEPT ![n] = @ \cup
                    {o.block : o \in {x \in orphans[n] :
                        Parent(x.block) \in applied /\ x.block \notin applied}}]
              /\ net' = Broadcast(n, {Wire(b, TRUE) : b \in applied \ {f}})
        /\ failed' = failed + 1
        /\ UNCHANGED <<stashing, peers, twins, forged>>

\* The handler buffers the block unless too many parents are missing; another
\* handler may have added the parent since it looked.  Then it asks all peers for
\* what is above the node's head.
Buffer(n, w) ==
    LET room == Cardinality({Parent(o.block) : o \in orphans[n]}) < MAX_ORPHANS
        late == Parent(w.block) \in tree[n]
    IN  /\ w \in stashing[n]
        /\ stashing' = [stashing EXCEPT ![n] = @ \ {w}]
        /\ orphans' = [orphans EXCEPT ![n] = IF room THEN @ \cup {w} ELSE @]
        /\ lost' = [lost EXCEPT ![n] = IF late \/ ~room THEN @ \cup {w.block} ELSE @]
        /\ net' = [net EXCEPT ![n] = @ \cup UNION {Offered(n, m) : m \in peers[n]}]
        /\ UNCHANGED <<tree, seen_block, peers, twins, forged, failed>>

-----------------------------------------------------------------------------
(* Faulty validators and peers *)

\* A validator seals a second block on a parent and sends it to one node.
SealTwin(b, n) ==
    /\ twins + forged + failed < MaxFaults
    /\ \E m \in Nodes : Append(Parent(b), 1) \in tree[m]
    /\ net' = [net EXCEPT ![n] = @ \cup {Wire(b, TRUE)}]
    /\ twins' = twins + 1
    /\ UNCHANGED <<tree, seen_block, orphans, stashing, peers, lost, forged, failed>>

\* A block with a false signature is on its way to a node, a copy or one that is made up.
Forge(b, n) ==
    /\ twins + forged + failed < MaxFaults
    /\ net' = [net EXCEPT ![n] = @ \cup {Wire(b, FALSE)}]
    /\ forged' = forged + 1
    /\ UNCHANGED <<tree, seen_block, orphans, stashing, peers, lost, twins, failed>>

GossipNext ==
    \/ \E n \in Nodes, m \in Nodes : Announce(n, m)
    \/ \E n \in Nodes, m \in Nodes : RequestSync(n, m)
    \/ \E n \in Nodes : Tick(n)
    \/ \E n \in Nodes : \E w \in net[n] : Deliver(n, w)
    \/ \E n \in Nodes : \E w \in net[n] : DeliverFails(n, w)
    \/ \E n \in Nodes : \E w \in stashing[n] : Buffer(n, w)
    \/ \E n \in Nodes, b \in Twins : SealTwin(b, n)
    \/ \E n \in Nodes : \E b \in (tree[n] \ {Genesis}) \cup MadeUp, m \in Nodes : Forge(b, m)

\* What happens without anybody's help: the slot loop runs for ever, handlers end,
\* and a block that some peer serves in every slot gets through at last.  A block that is
\* only broadcast may never arrive, and nobody serves a node outside Dialable.
OwnStep ==
    \E n \in Nodes :
        \/ Tick(n)
        \/ \E w \in stashing[n] : Buffer(n, w)
        \/ \E m \in peers[n] : Announce(n, m)
        \/ \E m \in peers[n] : RequestSync(n, m)
        \/ \E m \in peers[n] : \E w \in Offered(n, m) : Deliver(n, w)

GossipSpec == GossipInit /\ [][GossipNext]_gossipVars /\ WF_gossipVars(OwnStep)

-----------------------------------------------------------------------------
\* "Including the signature here makes a forged twin a DIFFERENT id, so it can't"
\* censor the real block: a genuine block that a node would ignore if it came now is
\* in its tree, waits there for its parent, or was lost: with a full buffer, or when a
\* write failed.
IgnoredIsKept ==
    \A n \in Nodes : \A w \in net[n] :
        w.genuine /\ WireId(w) \in seen_block[n] =>
            \/ w.block \in tree[n]
            \/ w \in orphans[n] \cup stashing[n]
            \/ w.block \in lost[n]

\* No block waits for a parent that the node has, unless its handler was overtaken by the
\* one that added the parent or the append of the parent raised: _drain_orphans reaches
\* every descendant.
OrphansMissParent ==
    \A n \in Nodes : \A o \in orphans[n] :
        Parent(o.block) \in tree[n] => o.block \in lost[n]

\* "The minimum that makes a real multi-node network converge": where the validators
\* advertise the IP they connect from, nodes that do so end on one head of full height,
\* from any seed graph that connects them, with messages lost and reordered, forgeries
\* and failed writes, as long as no validator seals twice and no block was lost in a
\* buffer.  Nothing is promised to a node that advertises a host name: peers never
\* answer its get_blocks.
Converges ==
    <>[](\/ \A n \in Dialable : Len(HeadOf(tree[n])) = MaxHeight
         \/ twins > 0
         \/ \E n \in Nodes : lost[n] # {})
=============================================================================
