---------------------------- MODULE GossipProofs ----------------------------
(***************************************************************************)
(* Block gossip forgets no block silently, for every set of nodes, seed    *)
(* graph, election and bound of the tables, and every order, repetition    *)
(* and loss of messages.                                                   *)
(*                                                                         *)
(* A block waiting for its parent could miss it when the node itself seals *)
(* that parent, which applies no orphans.  It cannot: a child of a block   *)
(* is nowhere before the block is in the tree of the node that seals it.   *)
(***************************************************************************)
EXTENDS Gossip, SumTheorems, SequenceTheorems

Paths == Seq(Nat)
Wires == [block : Paths \ {Genesis}, genuine : BOOLEAN]

\* The wire blocks a node has or gets.
Around(n) == orphans[n] \cup stashing[n] \cup net[n]

GossipTypeOK ==
    /\ tree \in [Nodes -> SUBSET Paths]
    /\ orphans \in [Nodes -> SUBSET Wires]
    /\ stashing \in [Nodes -> SUBSET Wires]
    /\ net \in [Nodes -> SUBSET Wires]
    /\ peers \in [Nodes -> SUBSET Nodes]
    /\ lost \in [Nodes -> SUBSET Paths]
    /\ DOMAIN seen_block = Nodes
    /\ \A n \in Nodes : tree[n] # {} /\ IsFiniteSet(tree[n]) /\ IsFiniteSet(Around(n))

\* Every first block on the way to b is in the tree of the node that seals it.
Sealed(b) ==
    \A i \in 1 .. Len(b) : b[i] = 1 =>
        /\ Elected(SubSeq(b, 1, i - 1)) \in Nodes
        /\ SubSeq(b, 1, i) \in tree[Elected(SubSeq(b, 1, i - 1))]

AllSealed ==
    \A n \in Nodes : /\ \A b \in tree[n] : Sealed(b)
                     /\ \A w \in Around(n) : Sealed(w.block)

\* What IgnoredIsKept says of the blocks that have arrived, for those that may yet.
Kept(n, w) ==
    \/ w.block \in tree[n]
    \/ w \in orphans[n] \cup stashing[n]
    \/ w.block \in lost[n]
RememberedIsKept ==
    \A n \in Nodes : \A w \in Wires : w.genuine /\ WireId(w) \in seen_block[n] => Kept(n, w)

GossipInv == GossipTypeOK /\ AllSealed /\ RememberedIsKept /\ OrphansMissParent

-----------------------------------------------------------------------------
(* The best head of a tree *)

\* The first place where two chains of one length differ.
Differ(a, b, i) ==
    /\ Len(a) = Len(b) /\ i \in 1 .. Len(a)
    /\ a[i] < b[i] /\ \A j \in 1 .. (i - 1) : a[j] = b[j]

LEMMA PrefixesEqual ==
    ASSUME NEW a \in Paths, NEW b \in Paths, Len(a) = Len(b), NEW i \in 1 .. Len(a)
    PROVE  SubSeq(a, 1, i - 1) = SubSeq(b, 1, i - 1) <=> \A j \in 1 .. (i - 1) : a[j] = b[j]
<1> DEFINE x == SubSeq(a, 1, i - 1)
           y == SubSeq(b, 1, i - 1)
<1>1. /\ x \in Seq(Nat) /\ y \in Seq(Nat) /\ Len(x) = i - 1 /\ Len(y) = i - 1
      /\ \A j \in 1 .. (i - 1) : x[j] = a[j] /\ y[j] = b[j]
  BY DEF Paths
<1> HIDE DEF x, y
<1>2. (\A j \in 1 .. (i - 1) : x[j] = y[j]) => x = y
  BY <1>1, SeqEqual
<1>3. x = y <=> \A j \in 1 .. (i - 1) : a[j] = b[j]
  BY <1>1, <1>2
<1> QED BY <1>3 DEF x, y

LEMMA BetterMeans ==
    ASSUME NEW a \in Paths, NEW b \in Paths
    PROVE  Better(a, b) <=> Len(a) > Len(b) \/ \E i \in Nat : Differ(a, b, i)
<1>1. DOMAIN a = 1 .. Len(a) /\ Len(a) \in Nat
  BY DEF Paths
<1>2. CASE Len(a) = Len(b)
  <2>1. ASSUME NEW i \in DOMAIN a
        PROVE  a[i] < b[i] /\ SubSeq(a, 1, i - 1) = SubSeq(b, 1, i - 1) <=> Differ(a, b, i)
    BY <1>1, <1>2, PrefixesEqual DEF Differ
  <2>2. \A i \in Nat : Differ(a, b, i) => i \in DOMAIN a
    BY <1>1 DEF Differ
  <2>3. \A i \in DOMAIN a : i \in Nat
    BY <1>1
  <2> QED BY <1>2, <2>1, <2>2, <2>3 DEF Better
<1>3. CASE Len(a) # Len(b)
  BY <1>3 DEF Better, Differ
<1> QED BY <1>2, <1>3

LEMMA BetterTotal ==
    ASSUME NEW a \in Paths, NEW b \in Paths, a # b
    PROVE  Better(a, b) \/ Better(b, a)
<1>1. Len(a) \in Nat /\ Len(b) \in Nat /\ (\A i \in 1 .. Len(a) : a[i] \in Nat)
      /\ \A i \in 1 .. Len(b) : b[i] \in Nat
  BY DEF Paths
<1>2. CASE Len(a) # Len(b)
  BY <1>1, <1>2 DEF Better
<1>3. CASE Len(a) = Len(b)
  <2> DEFINE D == {i \in 1 .. Len(a) : a[i] # b[i]}
  <2>1. D \subseteq Nat /\ D # {}
    <3>1. ASSUME \A i \in 1 .. Len(a) : a[i] = b[i] PROVE FALSE
      <4>1. a \in Seq(Nat) /\ b \in Seq(Nat)
        BY DEF Paths
      <4> QED BY <1>3, <3>1, <4>1, SeqEqual
    <3> QED BY <1>1, <3>1
  <2>2. PICK i \in D : \A j \in D : i <= j
    <3> HIDE DEF D
    <3> QED BY <2>1, LeastNatural
  <2>3. \A j \in 1 .. (i - 1) : a[j] = b[j] /\ b[j] = a[j]
    BY <1>1, <2>2
  <2>4. i \in Nat /\ i \in 1 .. Len(a) /\ (a[i] < b[i] \/ b[i] < a[i])
    BY <1>1, <1>3, <2>2
  <2>5. Differ(a, b, i) \/ Differ(b, a, i)
    BY <1>3, <2>3, <2>4 DEF Differ
  <2> QED BY <2>4, <2>5, BetterMeans
<1> QED BY <1>2, <1>3

LEMMA BetterTransitive ==
    ASSUME NEW a \in Paths, NEW b \in Paths, NEW c \in Paths, Better(a, b), Better(b, c)
    PROVE  Better(a, c)
<1>1. /\ Len(a) \in Nat /\ Len(b) \in Nat /\ Len(c) \in Nat
      /\ \A i \in 1 .. Len(a) : a[i] \in Nat
      /\ \A i \in 1 .. Len(b) : b[i] \in Nat
      /\ \A i \in 1 .. Len(c) : c[i] \in Nat
  BY DEF Paths
<1>2. /\ Len(a) > Len(b) \/ \E i \in Nat : Differ(a, b, i)
      /\ Len(b) > Len(c) \/ \E i \in Nat : Differ(b, c, i)
  BY BetterMeans
<1>3. CASE Len(a) > Len(c)
  BY <1>3 DEF Better
<1>4. CASE ~(Len(a) > Len(c))
  <2>1. Len(a) = Len(b) /\ Len(b) = Len(c)
    BY <1>1, <1>2, <1>4 DEF Differ
  <2>2. PICK i \in Nat : Differ(a, b, i)
    BY <1>1, <1>2, <2>1
  <2>3. PICK k \in Nat : Differ(b, c, k)
    BY <1>1, <1>2, <2>1
  <2>4. /\ i \in 1 .. Len(a) /\ k \in 1 .. Len(a) /\ a[i] < b[i] /\ b[k] < c[k]
        /\ \A j \in 1 .. (i - 1) : a[j] = b[j]
        /\ \A j \in 1 .. (k - 1) : b[j] = c[j]
    BY <2>1, <2>2, <2>3 DEF Differ
  <2>5. CASE i <= k
    <3>1. a[i] < c[i]
      <4>1. CASE i = k
        BY <1>1, <2>1, <2>4, <4>1
      <4>2. CASE i < k
        <5>1. i \in 1 .. (k - 1)
          BY <2>4, <4>2
        <5> QED BY <2>4, <5>1
      <4> QED BY <2>5, <4>1, <4>2
    <3>2. \A j \in 1 .. (i - 1) : a[j] = c[j]
      BY <2>4, <2>5
    <3> QED BY <2>1, <2>4, <3>1, <3>2, BetterMeans DEF Differ
  <2>6. CASE k < i
    <3>1. a[k] < c[k]
      <4>1. k \in 1 .. (i - 1)
        BY <2>4, <2>6
      <4> QED BY <2>4, <4>1
    <3>2. \A j \in 1 .. (k - 1) : a[j] = c[j]
      BY <2>4, <2>6
    <3> QED BY <2>1, <2>4, <3>1, <3>2, BetterMeans DEF Differ
  <2> QED BY <2>5, <2>6
<1> QED BY <1>3, <1>4

\* A finite tree has a best block, which is its head.
LEMMA HeadInTree ==
    ASSUME NEW T \in SUBSET Paths, IsFiniteSet(T), T # {}
    PROVE  HeadOf(T) \in T
<1> DEFINE Best(s, b) == b \in s /\ \A c \in s \ {b} : Better(b, c)
           G == {s \in SUBSET T : s # {} => \E b \in s : Best(s, b)}
<1>1. ASSUME NEW s \in SUBSET T, \A r \in SUBSET s : r # s => r \in G
      PROVE  s \in G
  <2>1. SUFFICES ASSUME s # {} PROVE \E b \in s : Best(s, b)
    OBVIOUS
  <2>2. PICK x : x \in s
    BY <2>1
  <2> DEFINE r == s \ {x}
  <2>3. r \in SUBSET s /\ r # s
    BY <2>2
  <2>4. r \in G
    BY <1>1, <2>3
  <2>5. CASE r = {}
    BY <2>2, <2>5
  <2>6. CASE r # {}
    <3>1. PICK b \in r : Best(r, b)
      BY <2>4, <2>6
    <3>2. x \in Paths /\ b \in Paths /\ b # x /\ \A c \in s : c \in Paths
      BY <2>2, <3>1
    <3>3. CASE Better(b, x)
      <4>1. Best(s, b)
        BY <3>1, <3>3
      <4> QED BY <3>1, <4>1
    <3>4. CASE Better(x, b)
      <4>1. \A c \in s \ {x} : Better(x, c)
        BY <3>1, <3>2, <3>4, BetterTransitive
      <4> QED BY <2>2, <4>1
    <3> QED BY <3>2, <3>3, <3>4, BetterTotal
  <2> QED BY <2>5, <2>6
<1>2. T \in G
  <2> HIDE DEF G
  <2> QED BY <1>1, SubsetInduction
<1>3. \E b \in T : \A c \in T \ {b} : Better(b, c)
  BY <1>2
<1> QED BY <1>3 DEF HeadOf

-----------------------------------------------------------------------------
(* Where blocks come from *)

\* FS_Image for a function.
LEMMA FiniteImage ==
    ASSUME NEW S, IsFiniteSet(S), NEW f, DOMAIN f = S
    PROVE  IsFiniteSet({f[x] : x \in S})
<1> DEFINE T == {f[x] : x \in S}
           g == [x \in S |-> f[x]]
<1>1. g \in Surjection(S, T)
  BY DEF Surjection
<1> HIDE DEF T, g
<1>2. IsFiniteSet(T)
  BY <1>1, FS_Surjection
<1> QED BY <1>2 DEF T

LEMMA FiniteWires ==
    ASSUME NEW S, IsFiniteSet(S) PROVE IsFiniteSet({Wire(b, TRUE) : b \in S})
<1> DEFINE f == [b \in S |-> Wire(b, TRUE)]
<1>1. DOMAIN f = S /\ {Wire(b, TRUE) : b \in S} = {f[b] : b \in S}
  OBVIOUS
<1> HIDE DEF f
<1>2. IsFiniteSet({f[b] : b \in S})
  BY <1>1, FiniteImage
<1> QED BY <1>1, <1>2, Zenon

LEMMA FiniteBlocks ==
    ASSUME NEW S, IsFiniteSet(S) PROVE IsFiniteSet({w.block : w \in S})
<1> DEFINE f == [w \in S |-> w.block]
<1>1. DOMAIN f = S /\ {w.block : w \in S} = {f[w] : w \in S}
  OBVIOUS
<1> HIDE DEF f
<1>2. IsFiniteSet({f[w] : w \in S})
  BY <1>1, FiniteImage
<1> QED BY <1>1, <1>2, Zenon

\* The trees only grow, so a sealed path stays sealed.
LEMMA SealedStays ==
    ASSUME \A n \in Nodes : tree[n] \subseteq tree'[n], NEW b, Sealed(b)
    PROVE  Sealed(b)'
BY DEF Sealed

LEMMA PrefixSealed ==
    ASSUME NEW b \in Paths, Sealed(b), NEW n \in 0 .. Len(b)
    PROVE  SubSeq(b, 1, n) \in Paths /\ Len(SubSeq(b, 1, n)) = n /\ Sealed(SubSeq(b, 1, n))
<1> DEFINE p == SubSeq(b, 1, n)
<1>1. Len(b) \in Nat /\ p \in Paths /\ Len(p) = n /\ \A i \in 1 .. n : p[i] = b[i]
  BY DEF Paths
<1>2. \A i \in 0 .. n : SubSeq(p, 1, i) = SubSeq(b, 1, i)
  BY DEF Paths
<1> HIDE DEF p
<1>3. Sealed(p)
  <2>1. SUFFICES ASSUME NEW i \in 1 .. n, p[i] = 1
                 PROVE  /\ Elected(SubSeq(p, 1, i - 1)) \in Nodes
                        /\ SubSeq(p, 1, i) \in tree[Elected(SubSeq(p, 1, i - 1))]
    BY <1>1 DEF Sealed
  <2>2. i \in 1 .. Len(b) /\ b[i] = 1 /\ i \in 0 .. n /\ i - 1 \in 0 .. n
    BY <1>1, <2>1
  <2>3. SubSeq(p, 1, i) = SubSeq(b, 1, i) /\ SubSeq(p, 1, i - 1) = SubSeq(b, 1, i - 1)
    BY <1>2, <2>2
  <2>4. /\ Elected(SubSeq(b, 1, i - 1)) \in Nodes
        /\ SubSeq(b, 1, i) \in tree[Elected(SubSeq(b, 1, i - 1))]
    BY <2>2 DEF Sealed
  <2> QED BY <2>3, <2>4
<1> QED BY <1>1, <1>3 DEF p

LEMMA HeadOK ==
    ASSUME GossipInv, NEW n \in Nodes
    PROVE  HeadOf(tree[n]) \in tree[n] /\ HeadOf(tree[n]) \in Paths /\ Sealed(HeadOf(tree[n]))
<1>1. tree[n] \in SUBSET Paths /\ IsFiniteSet(tree[n]) /\ tree[n] # {}
  BY DEF GossipInv, GossipTypeOK
<1>2. HeadOf(tree[n]) \in tree[n]
  BY <1>1, HeadInTree
<1> QED BY <1>1, <1>2 DEF GossipInv, AllSealed

\* What a peer serves is part of its chain.
LEMMA OfferedOK ==
    ASSUME GossipInv, NEW n \in Nodes, NEW m \in Nodes
    PROVE  /\ Offered(n, m) \subseteq Wires /\ IsFiniteSet(Offered(n, m))
           /\ \A w \in Offered(n, m) : Sealed(w.block)
<1> DEFINE h == HeadOf(tree[m])
           since == Len(HeadOf(tree[n]))
           I == {j \in DOMAIN h : j > since /\ j <= since + MAX_SYNC_BATCH}
           S == {SubSeq(h, 1, i) : i \in I}
           D == {c \in S : n \in Dialable}
<1>1. h \in Paths /\ Sealed(h)
  BY HeadOK
<1>2. Len(h) \in Nat /\ DOMAIN h = 1 .. Len(h)
  BY <1>1 DEF Paths
<1>3. Offered(n, m) = {Wire(b, TRUE) : b \in D}
  BY DEF Offered, Served
<1> HIDE DEF h, since
<1>4. \A i \in I : i \in 0 .. Len(h) /\ i # 0
  BY <1>2
<1>5. \A b \in S : b \in Paths \ {Genesis} /\ Sealed(b)
  <2>1. SUFFICES ASSUME NEW i \in I
                 PROVE  SubSeq(h, 1, i) \in Paths \ {Genesis} /\ Sealed(SubSeq(h, 1, i))
    OBVIOUS
  <2>2. i \in 0 .. Len(h) /\ i # 0
    BY <1>4
  <2>3. SubSeq(h, 1, i) \in Paths /\ Len(SubSeq(h, 1, i)) = i /\ Sealed(SubSeq(h, 1, i))
    BY <1>1, <2>2, PrefixSealed
  <2>4. Len(<< >>) = 0
    OBVIOUS
  <2> QED BY <2>2, <2>3, <2>4 DEF Genesis
<1>6. IsFiniteSet(S)
  <2>1. IsFiniteSet(1 .. Len(h))
    BY <1>2, FS_Interval
  <2>2. IsFiniteSet(I)
    BY <1>2, <2>1, FS_Subset
  <2> DEFINE f == [i \in I |-> SubSeq(h, 1, i)]
  <2>3. DOMAIN f = I /\ S = {f[i] : i \in I}
    OBVIOUS
  <2> HIDE DEF I, f, S
  <2> QED BY <2>2, <2>3, FiniteImage
<1> HIDE DEF S
<1>9. D \subseteq S /\ IsFiniteSet(D)
  BY <1>6, FS_Subset
<1> HIDE DEF D
<1>7. IsFiniteSet(Offered(n, m))
  BY <1>3, <1>9, FiniteWires
<1>8. \A w \in Offered(n, m) : w \in Wires /\ Sealed(w.block)
  <2>1. SUFFICES ASSUME NEW b \in D PROVE Wire(b, TRUE) \in Wires /\ Sealed(Wire(b, TRUE).block)
    BY <1>3
  <2> QED BY <1>5, <1>9 DEF Wire, Wires
<1> QED BY <1>7, <1>8

\* The orphans that wait, directly or not, for a block that arrives are applied with it.
LEMMA DrainReaches ==
    ASSUME NEW waiting \in SUBSET Wires, NEW b \in Paths, NEW o \in waiting, o.genuine,
           Parent(o.block) \in {b} \cup Drained(waiting, b)
    PROVE  o.block \in Drained(waiting, b)
<1> DEFINE x == o.block
           n == Len(x)
           Chain(y) == \A i \in Len(b) + 1 .. Len(y) : Wire(SubSeq(y, 1, i), TRUE) \in waiting
<1>1. x \in Seq(Nat) /\ x # << >> /\ n \in Nat /\ n > 0 /\ b \in Seq(Nat) /\ Len(b) \in Nat
  BY DEF Wires, Paths, Genesis
<1>2. Wire(x, TRUE) = o
  BY DEF Wires, Wire
<1>3. Parent(x) = SubSeq(x, 1, n - 1) /\ Parent(x) \in Seq(Nat) /\ Len(Parent(x)) = n - 1
  BY <1>1 DEF Parent, Front
<1>4. SubSeq(x, 1, n) = x
  BY <1>1
<1>5. SUFFICES IsStrictPrefix(b, x) /\ Chain(x)
  BY DEF Drained
<1>6. CASE Parent(x) = b
  <2>1. Len(b) = n - 1 /\ SubSeq(x, 1, Len(b)) = b /\ SubSeq(b, 1, Len(b)) = b
    BY <1>1, <1>3, <1>6
  <2>2. IsStrictPrefix(b, x)
    <3>1. b # x
      BY <1>1, <2>1
    <3>2. Len(b) <= Len(x)
      BY <1>1, <2>1
    <3> QED BY <2>1, <3>1, <3>2 DEF IsStrictPrefix, IsPrefix
  <2>3. \A i \in Len(b) + 1 .. n : i = n
    BY <1>1, <2>1
  <2>4. Chain(x)
    BY <1>2, <1>4, <2>3
  <2> QED BY <2>2, <2>4
<1>7. CASE Parent(x) \in Drained(waiting, b)
  <2>1. PICK q \in waiting : q.block = Parent(x) /\ IsStrictPrefix(b, q.block) /\ Chain(q.block)
    BY <1>7 DEF Drained
  <2> DEFINE y == Parent(x)
  <2>2. /\ Len(b) <= n - 1 /\ SubSeq(b, 1, Len(b)) = SubSeq(y, 1, Len(b)) /\ Chain(y)
    BY <1>3, <2>1 DEF IsStrictPrefix, IsPrefix
  <2>3. \A i \in 0 .. (n - 1) : SubSeq(y, 1, i) = SubSeq(x, 1, i)
    BY <1>1, <1>3
  <2>4. IsStrictPrefix(b, x)
    <3>1. Len(b) \in 0 .. (n - 1) /\ Len(b) <= n /\ Len(b) # n
      BY <1>1, <2>2
    <3>2. SubSeq(b, 1, Len(b)) = SubSeq(x, 1, Len(b))
      BY <2>2, <2>3, <3>1
    <3>3. b # x
      BY <3>1
    <3> QED BY <3>1, <3>2, <3>3 DEF IsStrictPrefix, IsPrefix
  <2>5. Chain(x)
    <3>1. SUFFICES ASSUME NEW i \in Len(b) + 1 .. n PROVE Wire(SubSeq(x, 1, i), TRUE) \in waiting
      OBVIOUS
    <3>2. CASE i = n
      BY <1>2, <1>4, <3>2
    <3>3. CASE i # n
      <4>1. i \in Len(b) + 1 .. (n - 1) /\ i \in 0 .. (n - 1)
        BY <1>1, <3>3
      <4>2. Wire(SubSeq(y, 1, i), TRUE) \in waiting
        BY <1>3, <2>2, <4>1
      <4> QED BY <2>3, <4>1, <4>2
    <3> QED BY <3>2, <3>3
  <2> QED BY <2>4, <2>5
<1> QED BY <1>6, <1>7

-----------------------------------------------------------------------------
(* The steps *)

\* New blocks F in the trees and new wire blocks W around the nodes.
LEMMA BlocksArrive ==
    ASSUME GossipInv,
           NEW F \in SUBSET Paths, IsFiniteSet(F), NEW W \in SUBSET Wires, IsFiniteSet(W),
           tree' \in [Nodes -> SUBSET Paths],
           \A n \in Nodes : tree[n] \subseteq tree'[n] /\ tree'[n] \subseteq tree[n] \cup F,
           orphans' \in [Nodes -> SUBSET Wires], stashing' \in [Nodes -> SUBSET Wires],
           net' \in [Nodes -> SUBSET Wires], peers' \in [Nodes -> SUBSET Nodes],
           lost' \in [Nodes -> SUBSET Paths], DOMAIN seen_block' = Nodes,
           \A n \in Nodes : Around(n)' \subseteq Around(n) \cup W,
           \A b \in F : Sealed(b)',
           \A w \in W : Sealed(w.block)'
    PROVE  GossipTypeOK' /\ AllSealed'
<1>1. \A n \in Nodes : tree'[n] # {} /\ IsFiniteSet(tree'[n])
  <2>1. SUFFICES ASSUME NEW n \in Nodes PROVE tree'[n] # {} /\ IsFiniteSet(tree'[n])
    OBVIOUS
  <2>2. tree[n] # {} /\ IsFiniteSet(tree[n])
    BY DEF GossipInv, GossipTypeOK
  <2>3. IsFiniteSet(tree[n] \cup F)
    BY <2>2, FS_Union
  <2> QED BY <2>2, <2>3, FS_Subset
<1>2. \A n \in Nodes : IsFiniteSet(Around(n)')
  <2>1. SUFFICES ASSUME NEW n \in Nodes PROVE IsFiniteSet(Around(n)')
    OBVIOUS
  <2>2. IsFiniteSet(Around(n) \cup W)
    BY FS_Union DEF GossipInv, GossipTypeOK
  <2> QED BY <2>2, FS_Subset
<1>3. GossipTypeOK'
  BY <1>1, <1>2 DEF GossipTypeOK
<1>4. \A b : Sealed(b) => Sealed(b)'
  BY SealedStays
<1>5. ASSUME NEW n \in Nodes, NEW b \in tree'[n] PROVE Sealed(b)'
  BY <1>4, <1>5 DEF GossipInv, AllSealed
<1>6. ASSUME NEW n \in Nodes, NEW w \in Around(n)' PROVE Sealed(w.block)'
  BY <1>4, <1>6 DEF GossipInv, AllSealed
<1>7. AllSealed'
  BY <1>5, <1>6 DEF AllSealed
<1> QED BY <1>3, <1>7

\* Messages are sent, and nothing else happens to blocks.
LEMMA NetGrows ==
    ASSUME GossipInv, UNCHANGED <<tree, seen_block, orphans, stashing, lost>>,
           peers' \in [Nodes -> SUBSET Nodes],
           NEW W \in SUBSET Wires, IsFiniteSet(W), \A w \in W : Sealed(w.block),
           net' \in [Nodes -> SUBSET Wires], \A n \in Nodes : net'[n] \subseteq net[n] \cup W
    PROVE  GossipInv'
<1>1. \A n \in Nodes : Around(n)' \subseteq Around(n) \cup W
  BY DEF Around
<1>2. \A b : Sealed(b) => Sealed(b)'
  BY SealedStays
<1>3. GossipTypeOK' /\ AllSealed'
  <2>1. {} \in SUBSET Paths /\ IsFiniteSet({})
    BY FS_EmptySet
  <2>2. /\ tree' \in [Nodes -> SUBSET Paths] /\ orphans' \in [Nodes -> SUBSET Wires]
        /\ stashing' \in [Nodes -> SUBSET Wires] /\ lost' \in [Nodes -> SUBSET Paths]
        /\ DOMAIN seen_block' = Nodes
        /\ \A n \in Nodes : tree[n] \subseteq tree'[n] /\ tree'[n] \subseteq tree[n] \cup {}
    BY DEF GossipInv, GossipTypeOK
  <2>3. (\A b \in {} : Sealed(b)') /\ \A w \in W : Sealed(w.block)'
    BY <1>2
  <2> QED BY <1>1, <2>1, <2>2, <2>3, BlocksArrive
<1>4. RememberedIsKept'
  BY DEF GossipInv, RememberedIsKept, Kept
<1>5. OrphansMissParent'
  BY DEF GossipInv, OrphansMissParent
<1> QED BY <1>3, <1>4, <1>5 DEF GossipInv

LEMMA NoWires == {} \in SUBSET Wires /\ IsFiniteSet({}) /\ \A w \in {} : Sealed(w.block)
BY FS_EmptySet

LEMMA AnnounceStep ==
    ASSUME GossipInv, NEW n \in Nodes, NEW m \in Nodes, Announce(n, m) PROVE GossipInv'
<1>1. UNCHANGED <<tree, seen_block, orphans, stashing, lost, net>>
  BY DEF Announce
<1>2. peers \in [Nodes -> SUBSET Nodes] /\ net \in [Nodes -> SUBSET Wires]
  BY DEF GossipInv, GossipTypeOK
<1>3. PICK S \in SUBSET ((peers[n] \cup {n}) \ (peers[m] \cup {m})) :
          peers' = [peers EXCEPT ![m] = @ \cup S]
  BY DEF Announce
<1>4. peers' \in [Nodes -> SUBSET Nodes]
  BY <1>2, <1>3
<1>5. net' \in [Nodes -> SUBSET Wires] /\ \A k \in Nodes : net'[k] \subseteq net[k] \cup {}
  BY <1>1, <1>2
<1> QED BY <1>1, <1>4, <1>5, NoWires, NetGrows

LEMMA RequestSyncStep ==
    ASSUME GossipInv, NEW n \in Nodes, NEW m \in Nodes, RequestSync(n, m) PROVE GossipInv'
<1> DEFINE W == Offered(n, m)
<1>1. /\ UNCHANGED <<tree, seen_block, orphans, stashing, lost, peers>>
      /\ net' = [net EXCEPT ![n] = @ \cup W]
  BY DEF RequestSync
<1>2. W \subseteq Wires /\ IsFiniteSet(W) /\ \A w \in W : Sealed(w.block)
  BY OfferedOK
<1>3. peers \in [Nodes -> SUBSET Nodes] /\ net \in [Nodes -> SUBSET Wires]
  BY DEF GossipInv, GossipTypeOK
<1> HIDE DEF W
<1>4. net' \in [Nodes -> SUBSET Wires] /\ \A k \in Nodes : net'[k] \subseteq net[k] \cup W
  BY <1>1, <1>2, <1>3
<1> QED BY <1>1, <1>2, <1>3, <1>4, NetGrows

\* A wire block w is sent to node n.
LEMMA SendOne ==
    ASSUME GossipInv, UNCHANGED <<tree, seen_block, orphans, stashing, lost, peers>>,
           NEW n \in Nodes, NEW w \in Wires, Sealed(w.block), net' = [net EXCEPT ![n] = @ \cup {w}]
    PROVE  GossipInv'
<1>1. {w} \in SUBSET Wires /\ IsFiniteSet({w}) /\ \A x \in {w} : Sealed(x.block)
  BY FS_Singleton
<1>2. peers \in [Nodes -> SUBSET Nodes] /\ net \in [Nodes -> SUBSET Wires]
  BY DEF GossipInv, GossipTypeOK
<1>3. net' \in [Nodes -> SUBSET Wires] /\ \A k \in Nodes : net'[k] \subseteq net[k] \cup {w}
  BY <1>2
<1> QED BY <1>1, <1>2, <1>3, NetGrows

LEMMA ParentPath ==
    ASSUME NEW b \in Seq(Nat), b # << >>
    PROVE  Parent(b) \in Seq(Nat) /\ Len(Parent(b)) = Len(b) - 1
<1> DEFINE len == Len(b)
<1>1. len \in Nat /\ len > 0
  OBVIOUS
<1>2. Parent(b) = SubSeq(b, 1, len - 1)
  BY DEF Parent, Front
<1>3. \A i \in 1 .. (len - 1) : b[i] \in Nat
  BY <1>1
<1> HIDE DEF len
<1>4. len - 1 \in Int /\ 1 \in Int /\ (1 <= len - 1 => len - 1 - 1 + 1 = len - 1)
      /\ (~(1 <= len - 1) => 0 = len - 1)
  BY <1>1
<1>5. SubSeq(b, 1, len - 1) \in Seq(Nat) /\ Len(SubSeq(b, 1, len - 1)) = len - 1
  BY <1>3, <1>4, SubSeqProperties
<1> QED BY <1>2, <1>5 DEF len

\* The second block on a parent shares the way to it with the first.
LEMMA SealTwinStep ==
    ASSUME GossipInv, NEW n \in Nodes, NEW b \in Twins, SealTwin(b, n) PROVE GossipInv'
<1> DEFINE w == Wire(b, TRUE)
           len == Len(b)
           first == Append(Parent(b), 1)
<1>1. /\ UNCHANGED <<tree, seen_block, orphans, stashing, lost, peers>>
      /\ net' = [net EXCEPT ![n] = @ \cup {w}]
  BY DEF SealTwin
<1>2. b \in Seq(Nat) /\ b # << >> /\ b[len] # 1 /\ len \in Nat /\ len > 0
  BY GossipAssumption DEF Last
<1>3. w \in Wires /\ w.block = b
  BY <1>2 DEF Wire, Wires, Paths, Genesis
<1>4. Sealed(first)
  <2>1. PICK m \in Nodes : first \in tree[m]
    BY DEF SealTwin
  <2> HIDE DEF first
  <2> QED BY <2>1 DEF GossipInv, AllSealed
<1>5. /\ Parent(b) = SubSeq(b, 1, len - 1) /\ Parent(b) \in Seq(Nat) /\ Len(Parent(b)) = len - 1
      /\ Len(first) = len
  <2>1. Parent(b) = SubSeq(b, 1, len - 1)
    BY DEF Parent, Front
  <2>2. Parent(b) \in Seq(Nat) /\ Len(Parent(b)) = len - 1
    BY <1>2, ParentPath
  <2> QED BY <1>2, <2>1, <2>2
<1>6. \A i \in 1 .. (len - 1) : first[i] = b[i]
  BY <1>2, <1>5
<1>7. \A i \in 0 .. (len - 1) : SubSeq(first, 1, i) = SubSeq(b, 1, i)
  BY <1>2, <1>5
<1> HIDE DEF first
<1>8. Sealed(b)
  <2>1. SUFFICES ASSUME NEW i \in 1 .. len, b[i] = 1
                 PROVE  /\ Elected(SubSeq(b, 1, i - 1)) \in Nodes
                        /\ SubSeq(b, 1, i) \in tree[Elected(SubSeq(b, 1, i - 1))]
    BY DEF Sealed
  <2>2. i \in 1 .. (len - 1) /\ i \in 0 .. (len - 1) /\ i - 1 \in 0 .. (len - 1)
    BY <1>2, <2>1
  <2>3. first[i] = 1 /\ i \in 1 .. Len(first)
    BY <1>2, <1>5, <1>6, <2>1, <2>2
  <2>4. SubSeq(first, 1, i) = SubSeq(b, 1, i) /\ SubSeq(first, 1, i - 1) = SubSeq(b, 1, i - 1)
    BY <1>7, <2>2
  <2>5. /\ Elected(SubSeq(first, 1, i - 1)) \in Nodes
        /\ SubSeq(first, 1, i) \in tree[Elected(SubSeq(first, 1, i - 1))]
    BY <1>4, <2>3 DEF Sealed
  <2> QED BY <2>4, <2>5
<1> HIDE DEF w
<1> QED BY <1>1, <1>3, <1>8, SendOne

LEMMA ForgeStep ==
    ASSUME GossipInv, NEW n \in Nodes, NEW b \in (tree[n] \ {Genesis}) \cup MadeUp,
           NEW m \in Nodes, Forge(b, m)
    PROVE  GossipInv'
<1> DEFINE w == Wire(b, FALSE)
<1>1. /\ UNCHANGED <<tree, seen_block, orphans, stashing, lost, peers>>
      /\ net' = [net EXCEPT ![m] = @ \cup {w}]
  BY DEF Forge
<1>2. w \in Wires /\ w.block = b
  <2>1. b \in Paths \ {Genesis}
    BY GossipAssumption DEF GossipInv, GossipTypeOK, Paths, Genesis
  <2> QED BY <2>1 DEF Wire, Wires
<1>3. Sealed(b)
  <2>1. CASE b \in tree[n]
    BY <2>1 DEF GossipInv, AllSealed
  <2>2. CASE b \in MadeUp
    BY <2>2, GossipAssumption DEF Sealed
  <2> QED BY <2>1, <2>2
<1> HIDE DEF w
<1> QED BY <1>1, <1>2, <1>3, SendOne

\* Remembering a key adds no other.
LEMMA RememberedOne ==
    ASSUME NEW seen, NEW id, NEW mem \in Remembered(seen, id)
    PROVE  mem \subseteq seen \cup {id}
BY DEF Remembered

\* A sealed block: its way is that of the head below it, and it is its sealer's.
LEMMA TickStep ==
    ASSUME GossipInv, NEW n \in Nodes, Tick(n) PROVE GossipInv'
<1>a. PICK h : h = HeadOf(tree[n])
  OBVIOUS
<1>b. PICK b : b = Append(h, 1)
  OBVIOUS
<1> DEFINE W == {Wire(b, TRUE)}
           len == Len(b)
<1>1. /\ Elected(h) = n
      /\ tree' = [tree EXCEPT ![n] = @ \cup {b}]
      /\ \E mem \in Remembered(seen_block[n], HashId(b)) :
            seen_block' = [seen_block EXCEPT ![n] = mem]
      /\ net' = Broadcast(n, W)
      /\ UNCHANGED <<orphans, stashing, peers, lost>>
  BY <1>a, <1>b DEF Tick
<1>2. h \in Paths /\ Sealed(h)
  BY <1>a, HeadOK
<1>3. /\ b \in Paths \ {Genesis} /\ len \in Nat /\ len > 0 /\ Len(h) = len - 1 /\ b[len] = 1
      /\ \A i \in 1 .. (len - 1) : b[i] = h[i]
      /\ \A i \in 0 .. (len - 1) : SubSeq(b, 1, i) = SubSeq(h, 1, i)
      /\ SubSeq(b, 1, len - 1) = h /\ SubSeq(b, 1, len) = b
  BY <1>2, <1>b DEF Paths, Genesis
<1>4. PICK mem \in Remembered(seen_block[n], HashId(b)) :
          seen_block' = [seen_block EXCEPT ![n] = mem]
  BY <1>1
<1>5. /\ tree \in [Nodes -> SUBSET Paths] /\ peers \in [Nodes -> SUBSET Nodes]
      /\ net \in [Nodes -> SUBSET Wires] /\ DOMAIN seen_block = Nodes
      /\ orphans \in [Nodes -> SUBSET Wires] /\ stashing \in [Nodes -> SUBSET Wires]
      /\ lost \in [Nodes -> SUBSET Paths]
  BY DEF GossipInv, GossipTypeOK
<1>6. /\ tree' \in [Nodes -> SUBSET Paths]
      /\ \A k \in Nodes : tree[k] \subseteq tree'[k] /\ tree'[k] \subseteq tree[k] \cup {b}
      /\ b \in tree'[n]
  BY <1>1, <1>3, <1>5
<1>7. W \in SUBSET Wires /\ \A w \in W : w.block = b
  BY <1>3 DEF Wire, Wires
<1>8. IsFiniteSet({b}) /\ IsFiniteSet(W)
  BY FS_Singleton
<1> HIDE DEF W
<1>9. net' \in [Nodes -> SUBSET Wires] /\ \A k \in Nodes : net'[k] \subseteq net[k] \cup W
  BY <1>1, <1>5, <1>7 DEF Broadcast
<1>10. Sealed(b)'
  <2>1. Sealed(h)'
    BY <1>2, <1>6, SealedStays
  <2>2. SUFFICES ASSUME NEW i \in 1 .. len, b[i] = 1
                 PROVE  /\ Elected(SubSeq(b, 1, i - 1)) \in Nodes
                        /\ SubSeq(b, 1, i) \in tree'[Elected(SubSeq(b, 1, i - 1))]
    BY DEF Sealed
  <2>3. CASE i = len
    BY <1>1, <1>3, <1>6, <2>3
  <2>4. CASE i # len
    <3>1. /\ i \in 1 .. Len(h) /\ i \in 1 .. (len - 1)
          /\ i \in 0 .. (len - 1) /\ i - 1 \in 0 .. (len - 1)
      BY <1>3, <2>4
    <3>2. h[i] = 1 /\ SubSeq(b, 1, i) = SubSeq(h, 1, i) /\ SubSeq(b, 1, i - 1) = SubSeq(h, 1, i - 1)
      BY <1>3, <2>2, <3>1
    <3>3. /\ Elected(SubSeq(h, 1, i - 1)) \in Nodes
          /\ SubSeq(h, 1, i) \in tree'[Elected(SubSeq(h, 1, i - 1))]
      BY <2>1, <3>1, <3>2 DEF Sealed
    <3> QED BY <3>2, <3>3
  <2> QED BY <2>3, <2>4
<1>11. GossipTypeOK' /\ AllSealed'
  <2>1. \A k \in Nodes : Around(k)' \subseteq Around(k) \cup W
    BY <1>1, <1>9 DEF Around
  <2>2. DOMAIN seen_block' = Nodes
    BY <1>4, <1>5
  <2>3. (\A x \in {b} : Sealed(x)') /\ \A w \in W : Sealed(w.block)'
    BY <1>7, <1>10
  <2>4. {b} \in SUBSET Paths
    BY <1>3
  <2>5. /\ orphans' \in [Nodes -> SUBSET Wires] /\ stashing' \in [Nodes -> SUBSET Wires]
        /\ peers' \in [Nodes -> SUBSET Nodes] /\ lost' \in [Nodes -> SUBSET Paths]
    BY <1>1, <1>5
  <2> QED BY <1>6, <1>7, <1>8, <1>9, <2>1, <2>2, <2>3, <2>4, <2>5, BlocksArrive
<1>12. RememberedIsKept'
  <2>1. SUFFICES ASSUME NEW k \in Nodes, NEW w \in Wires, w.genuine, WireId(w) \in seen_block'[k]
                 PROVE  Kept(k, w)'
    BY DEF RememberedIsKept, WireId
  <2>2. WireId(w) # HashId(b)
    BY DEF WireId, HashId
  <2>3. WireId(w) \in seen_block[k]
    BY <1>4, <1>5, <2>1, <2>2, RememberedOne
  <2>4. Kept(k, w)
    BY <2>1, <2>3 DEF GossipInv, RememberedIsKept
  <2> QED BY <1>1, <1>6, <2>4 DEF Kept
<1>13. OrphansMissParent'
  <2>1. SUFFICES ASSUME NEW k \in Nodes, NEW o \in orphans[k], Parent(o.block) \in tree'[k]
                 PROVE  Parent(o.block) \in tree[k]
    BY <1>1 DEF GossipInv, OrphansMissParent
  <2>2. SUFFICES ASSUME k = n, Parent(o.block) = b PROVE b \in tree[n]
    BY <1>1, <1>5, <2>1
  <2> DEFINE x == o.block
             l == Len(x)
  <2>3. x \in Seq(Nat) /\ x # << >> /\ l \in Nat /\ l > 0
    BY <1>5 DEF Wires, Paths, Genesis
  <2>4. Sealed(x)
    BY DEF GossipInv, AllSealed, Around
  <2> HIDE DEF x
  <2>5. b = SubSeq(x, 1, l - 1) /\ len = l - 1
    BY <2>2, <2>3 DEF Parent, Front, x
  <2>6. x[len] = b[len]
    BY <1>3, <2>3, <2>5
  <2>7. SubSeq(x, 1, len - 1) = SubSeq(b, 1, len - 1)
    BY <1>3, <2>3, <2>5
  <2>8. len \in 1 .. Len(x)
    BY <1>3, <2>3, <2>5
  <2>9. x[len] = 1 /\ SubSeq(x, 1, len - 1) = h /\ SubSeq(x, 1, len) = b
    BY <1>3, <2>5, <2>6, <2>7
  <2>10. SubSeq(x, 1, len) \in tree[Elected(SubSeq(x, 1, len - 1))]
    BY <2>4, <2>8, <2>9 DEF Sealed
  <2> QED BY <1>1, <2>9, <2>10
<1> QED BY <1>11, <1>12, <1>13 DEF GossipInv

LEMMA SameWire ==
    ASSUME NEW w \in Wires, NEW x \in Wires, WireId(x) = WireId(w) PROVE x = w
BY DEF WireId, Wires

\* What a delivered block adds: itself and the orphans that it leads to.
LEMMA FreshOK ==
    ASSUME GossipInv, NEW n \in Nodes, NEW w \in net[n],
           NEW fresh, fresh \subseteq {w.block} \cup Drained(orphans[n], w.block)
    PROVE  /\ IsFiniteSet(fresh)
           /\ \A b \in fresh : b \in Paths \ {Genesis} /\ Sealed(b)
<1> DEFINE B == {o.block : o \in Around(n)}
<1>1. IsFiniteSet(Around(n)) /\ Around(n) \subseteq Wires
  BY DEF GossipInv, GossipTypeOK, Around
<1>2. fresh \subseteq B
  BY DEF Drained, Around
<1>3. IsFiniteSet(B)
  BY <1>1, FiniteBlocks
<1>4. \A b \in B : b \in Paths \ {Genesis} /\ Sealed(b)
  BY <1>1 DEF Wires, GossipInv, AllSealed
<1> HIDE DEF B
<1> QED BY <1>2, <1>3, <1>4, FS_Subset

LEMMA ReceiveStep ==
    ASSUME GossipInv, NEW n \in Nodes, NEW w \in net[n], Deliver(n, w), Receive(n, w)
    PROVE  GossipInv'
<1>1. PICK fresh : /\ fresh = IF w.genuine /\ w.block \notin tree[n]
                              THEN {w.block} \cup Drained(orphans[n], w.block) ELSE {}
                   /\ tree' = [tree EXCEPT ![n] = @ \cup fresh]
                   /\ orphans' = [orphans EXCEPT ![n] = {o \in @ : Parent(o.block) \notin fresh}]
                   /\ net' = Broadcast(n, {Wire(b, TRUE) : b \in fresh})
                   /\ stashing' = stashing
  BY DEF Receive
<1>2. PICK mem \in Remembered(seen_block[n], WireId(w)) :
          seen_block' = [seen_block EXCEPT ![n] = mem]
  BY DEF Deliver
<1>3. peers' = peers /\ lost' = lost
  BY DEF Deliver
<1> DEFINE W == {Wire(b, TRUE) : b \in fresh}
<1>4. /\ tree \in [Nodes -> SUBSET Paths] /\ peers \in [Nodes -> SUBSET Nodes]
      /\ net \in [Nodes -> SUBSET Wires] /\ DOMAIN seen_block = Nodes
      /\ orphans \in [Nodes -> SUBSET Wires] /\ stashing \in [Nodes -> SUBSET Wires]
      /\ lost \in [Nodes -> SUBSET Paths]
  BY DEF GossipInv, GossipTypeOK
<1>5. w \in Wires /\ w.block \in Paths
  BY <1>4 DEF Wires
<1>6. IsFiniteSet(fresh) /\ \A b \in fresh : b \in Paths \ {Genesis} /\ Sealed(b)
  <2>1. fresh \subseteq {w.block} \cup Drained(orphans[n], w.block)
    BY <1>1
  <2> QED BY <2>1, FreshOK
<1>7. /\ tree' \in [Nodes -> SUBSET Paths]
      /\ \A k \in Nodes : tree[k] \subseteq tree'[k] /\ tree'[k] \subseteq tree[k] \cup fresh
      /\ tree'[n] = tree[n] \cup fresh
      /\ \A k \in Nodes \ {n} : tree'[k] = tree[k]
  BY <1>1, <1>4, <1>6
<1>8. /\ orphans' \in [Nodes -> SUBSET Wires]
      /\ \A k \in Nodes : orphans'[k] \subseteq orphans[k]
      /\ \A k \in Nodes \ {n} : orphans'[k] = orphans[k]
      /\ orphans'[n] = {o \in orphans[n] : Parent(o.block) \notin fresh}
  BY <1>1, <1>4
<1>9. /\ W \in SUBSET Wires
      /\ \A x \in W : x.block \in fresh
  <2>1. SUFFICES ASSUME NEW b \in fresh
                 PROVE  Wire(b, TRUE) \in Wires /\ Wire(b, TRUE).block \in fresh
    OBVIOUS
  <2> QED BY <1>6 DEF Wire, Wires
<1>10. IsFiniteSet(W)
  BY <1>6, FiniteWires
<1> HIDE DEF W
<1>11. net' \in [Nodes -> SUBSET Wires] /\ \A k \in Nodes : net'[k] \subseteq net[k] \cup W
  <2>1. net' = Broadcast(n, W)
    BY <1>1 DEF W
  <2> QED BY <1>4, <1>9, <2>1 DEF Broadcast
<1>12. GossipTypeOK' /\ AllSealed'
  <2>1. \A k \in Nodes : Around(k)' \subseteq Around(k) \cup W
    BY <1>1, <1>8, <1>11 DEF Around
  <2>2. DOMAIN seen_block' = Nodes
    BY <1>2, <1>4
  <2>3. (\A b \in fresh : Sealed(b)') /\ \A x \in W : Sealed(x.block)'
    BY <1>6, <1>7, <1>9, SealedStays
  <2>4. fresh \in SUBSET Paths
    BY <1>6
  <2>5. /\ stashing' \in [Nodes -> SUBSET Wires]
        /\ peers' \in [Nodes -> SUBSET Nodes] /\ lost' \in [Nodes -> SUBSET Paths]
    BY <1>1, <1>3, <1>4
  <2> QED BY <1>6, <1>7, <1>8, <1>9, <1>10, <1>11, <2>1, <2>2, <2>3, <2>4, <2>5, BlocksArrive
<1>13. RememberedIsKept'
  <2>1. SUFFICES ASSUME NEW k \in Nodes, NEW x \in Wires, x.genuine, WireId(x) \in seen_block'[k]
                 PROVE  Kept(k, x)'
    BY DEF RememberedIsKept, WireId
  <2>2. CASE WireId(x) \in seen_block[k]
    <3>1. Kept(k, x)
      BY <2>1, <2>2 DEF GossipInv, RememberedIsKept
    <3>2. CASE x \in orphans[k] /\ k = n /\ Parent(x.block) \in fresh
      <4>1. fresh = {w.block} \cup Drained(orphans[n], w.block)
        BY <1>1, <3>2
      <4>2. x.block \in Drained(orphans[n], w.block)
        <5>1. orphans[n] \in SUBSET Wires /\ x \in orphans[n]
          BY <1>4, <3>2
        <5>2. Parent(x.block) \in {w.block} \cup Drained(orphans[n], w.block)
          BY <3>2, <4>1
        <5> QED BY <1>5, <2>1, <5>1, <5>2, DrainReaches
      <4> QED BY <1>7, <3>2, <4>1, <4>2 DEF Kept
    <3>3. CASE ~(x \in orphans[k] /\ k = n /\ Parent(x.block) \in fresh)
      BY <1>1, <1>3, <1>7, <1>8, <3>1, <3>3 DEF Kept
    <3> QED BY <3>2, <3>3
  <2>3. CASE WireId(x) \notin seen_block[k]
    <3>1. k = n /\ WireId(x) = WireId(w)
      BY <1>2, <1>4, <2>1, <2>3, RememberedOne
    <3>2. x = w
      BY <1>5, <3>1, SameWire
    <3> QED BY <1>1, <1>7, <2>1, <3>1, <3>2 DEF Kept
  <2> QED BY <2>2, <2>3
<1>14. OrphansMissParent'
  <2>1. SUFFICES ASSUME NEW k \in Nodes, NEW o \in orphans'[k], Parent(o.block) \in tree'[k]
                 PROVE  o \in orphans[k] /\ Parent(o.block) \in tree[k]
    BY <1>3 DEF GossipInv, OrphansMissParent
  <2> QED BY <1>7, <1>8, <2>1
<1> QED BY <1>12, <1>13, <1>14 DEF GossipInv

\* When an append raises, what waited for the applied blocks and is not applied is lost.
LEMMA FailStep ==
    ASSUME GossipInv, NEW n \in Nodes, NEW w \in net[n], DeliverFails(n, w)
    PROVE  GossipInv'
<1> DEFINE all == {w.block} \cup Drained(orphans[n], w.block)
           Gone(fresh) == {o.block : o \in {x \in orphans[n] :
                              Parent(x.block) \in fresh /\ x.block \notin fresh}}
<1>1. PICK fresh \in SUBSET all, f \in all :
         /\ f \in fresh /\ w.block \in fresh
         /\ \A b \in fresh : b = w.block \/ Parent(b) \in fresh \ {f}
         /\ tree' = [tree EXCEPT ![n] = @ \cup fresh]
         /\ orphans' = [orphans EXCEPT ![n] = {o \in @ : Parent(o.block) \notin fresh \ {f}}]
         /\ lost' = [lost EXCEPT ![n] = @ \cup Gone(fresh)]
         /\ net' = Broadcast(n, {Wire(b, TRUE) : b \in fresh \ {f}})
  BY DEF DeliverFails
<1>2. PICK mem \in Remembered(seen_block[n], WireId(w)) :
          seen_block' = [seen_block EXCEPT ![n] = mem]
  BY DEF DeliverFails
<1>3. peers' = peers /\ stashing' = stashing
  BY DEF DeliverFails
<1> DEFINE W == {Wire(b, TRUE) : b \in fresh \ {f}}
<1>4. /\ tree \in [Nodes -> SUBSET Paths] /\ peers \in [Nodes -> SUBSET Nodes]
      /\ net \in [Nodes -> SUBSET Wires] /\ DOMAIN seen_block = Nodes
      /\ orphans \in [Nodes -> SUBSET Wires] /\ stashing \in [Nodes -> SUBSET Wires]
      /\ lost \in [Nodes -> SUBSET Paths]
  BY DEF GossipInv, GossipTypeOK
<1>5. w \in Wires /\ w.block \in Paths
  BY <1>4 DEF Wires
<1>6. IsFiniteSet(fresh) /\ \A b \in fresh : b \in Paths \ {Genesis} /\ Sealed(b)
  BY FreshOK
<1>7. /\ tree' \in [Nodes -> SUBSET Paths]
      /\ \A k \in Nodes : tree[k] \subseteq tree'[k] /\ tree'[k] \subseteq tree[k] \cup fresh
      /\ tree'[n] = tree[n] \cup fresh
      /\ \A k \in Nodes \ {n} : tree'[k] = tree[k]
  BY <1>1, <1>4, <1>6
<1>8. /\ orphans' \in [Nodes -> SUBSET Wires]
      /\ \A k \in Nodes : orphans'[k] \subseteq orphans[k]
      /\ \A k \in Nodes \ {n} : orphans'[k] = orphans[k]
      /\ orphans'[n] = {o \in orphans[n] : Parent(o.block) \notin fresh \ {f}}
  BY <1>1, <1>4
<1>a. /\ lost' \in [Nodes -> SUBSET Paths]
      /\ \A k \in Nodes : lost[k] \subseteq lost'[k]
      /\ lost'[n] = lost[n] \cup Gone(fresh)
  <2>1. Gone(fresh) \subseteq Paths
    BY <1>4 DEF Wires
  <2> HIDE DEF Gone
  <2> QED BY <1>1, <1>4, <2>1
<1>9. /\ W \in SUBSET Wires
      /\ \A x \in W : x.block \in fresh
  <2>1. SUFFICES ASSUME NEW b \in fresh
                 PROVE  Wire(b, TRUE) \in Wires /\ Wire(b, TRUE).block \in fresh
    OBVIOUS
  <2> QED BY <1>6 DEF Wire, Wires
<1>10. IsFiniteSet(W)
  <2>1. IsFiniteSet(fresh \ {f})
    BY <1>6, FS_Subset
  <2> QED BY <2>1, FiniteWires
<1> HIDE DEF W
<1>11. net' \in [Nodes -> SUBSET Wires] /\ \A k \in Nodes : net'[k] \subseteq net[k] \cup W
  <2>1. net' = Broadcast(n, W)
    BY <1>1 DEF W
  <2> QED BY <1>4, <1>9, <2>1 DEF Broadcast
<1>12. GossipTypeOK' /\ AllSealed'
  <2>1. \A k \in Nodes : Around(k)' \subseteq Around(k) \cup W
    BY <1>3, <1>8, <1>11 DEF Around
  <2>2. DOMAIN seen_block' = Nodes
    BY <1>2, <1>4
  <2>3. (\A b \in fresh : Sealed(b)') /\ \A x \in W : Sealed(x.block)'
    BY <1>6, <1>7, <1>9, SealedStays
  <2>4. fresh \in SUBSET Paths
    BY <1>6
  <2>5. stashing' \in [Nodes -> SUBSET Wires] /\ peers' \in [Nodes -> SUBSET Nodes]
    BY <1>3, <1>4
  <2> HIDE DEF all
  <2> QED BY <1>6, <1>7, <1>8, <1>9, <1>a, <1>10, <1>11, <2>1, <2>2, <2>3, <2>4, <2>5, BlocksArrive
<1>13. RememberedIsKept'
  <2>1. SUFFICES ASSUME NEW k \in Nodes, NEW x \in Wires, x.genuine, WireId(x) \in seen_block'[k]
                 PROVE  Kept(k, x)'
    BY DEF RememberedIsKept, WireId
  <2>2. CASE WireId(x) \in seen_block[k]
    <3>1. Kept(k, x)
      BY <2>1, <2>2 DEF GossipInv, RememberedIsKept
    <3>2. CASE x \in orphans[k] /\ k = n /\ Parent(x.block) \in fresh \ {f}
      <4>1. x.block \in fresh \/ x.block \in Gone(fresh)
        BY <3>2
      <4> QED BY <1>7, <1>a, <3>2, <4>1 DEF Kept
    <3>3. CASE ~(x \in orphans[k] /\ k = n /\ Parent(x.block) \in fresh \ {f})
      BY <1>3, <1>7, <1>8, <1>a, <3>1, <3>3 DEF Kept
    <3> QED BY <3>2, <3>3
  <2>3. CASE WireId(x) \notin seen_block[k]
    <3>1. k = n /\ WireId(x) = WireId(w)
      BY <1>2, <1>4, <2>1, <2>3, RememberedOne
    <3>2. x = w
      BY <1>5, <3>1, SameWire
    <3> QED BY <1>1, <1>7, <3>1, <3>2 DEF Kept
  <2> QED BY <2>2, <2>3
<1>14. OrphansMissParent'
  <2>1. SUFFICES ASSUME NEW k \in Nodes, NEW o \in orphans'[k], Parent(o.block) \in tree'[k]
                 PROVE  o.block \in lost'[k]
    BY DEF OrphansMissParent
  <2>2. CASE Parent(o.block) \in tree[k]
    BY <1>8, <1>a, <2>1, <2>2 DEF GossipInv, OrphansMissParent
  <2>3. CASE Parent(o.block) \notin tree[k]
    <3>1. k = n /\ o \in orphans[n] /\ Parent(o.block) = f
      BY <1>7, <1>8, <2>1, <2>3
    <3>2. o.block \notin fresh
      <4>1. o.block # w.block
        <5>1. Parent(w.block) \in tree[n]
          BY DEF DeliverFails
        <5> QED BY <2>3, <3>1, <5>1
      <4> QED BY <1>1, <3>1, <4>1
    <3>3. o.block \in Gone(fresh)
      BY <1>1, <3>1, <3>2
    <3> QED BY <1>a, <3>1, <3>3
  <2> QED BY <2>2, <2>3
<1> QED BY <1>12, <1>13, <1>14 DEF GossipInv

LEMMA StashStep ==
    ASSUME GossipInv, NEW n \in Nodes, NEW w \in net[n], Deliver(n, w), Stash(n, w)
    PROVE  GossipInv'
<1>1. /\ stashing' = [stashing EXCEPT ![n] = @ \cup {w}]
      /\ UNCHANGED <<tree, orphans, net, peers, lost>>
  BY DEF Stash, Deliver
<1>2. PICK mem \in Remembered(seen_block[n], WireId(w)) :
          seen_block' = [seen_block EXCEPT ![n] = mem]
  BY DEF Deliver
<1>3. /\ tree \in [Nodes -> SUBSET Paths] /\ peers \in [Nodes -> SUBSET Nodes]
      /\ net \in [Nodes -> SUBSET Wires] /\ DOMAIN seen_block = Nodes
      /\ orphans \in [Nodes -> SUBSET Wires] /\ stashing \in [Nodes -> SUBSET Wires]
      /\ lost \in [Nodes -> SUBSET Paths]
  BY DEF GossipInv, GossipTypeOK
<1>4. w \in Wires
  BY <1>3
<1>5. /\ stashing' \in [Nodes -> SUBSET Wires] /\ w \in stashing'[n]
      /\ \A k \in Nodes : stashing[k] \subseteq stashing'[k]
  BY <1>1, <1>3, <1>4
<1>6. GossipTypeOK' /\ AllSealed'
  <2>1. \A k \in Nodes : Around(k)' \subseteq Around(k) \cup {}
    BY <1>1, <1>3 DEF Around
  <2>2. DOMAIN seen_block' = Nodes
    BY <1>2, <1>3
  <2>3. {} \in SUBSET Paths /\ {} \in SUBSET Wires /\ IsFiniteSet({})
    BY FS_EmptySet
  <2>4. (\A b \in {} : Sealed(b)') /\ \A x \in {} : Sealed(x.block)'
    OBVIOUS
  <2>5. /\ tree' \in [Nodes -> SUBSET Paths] /\ orphans' \in [Nodes -> SUBSET Wires]
        /\ net' \in [Nodes -> SUBSET Wires]
        /\ peers' \in [Nodes -> SUBSET Nodes] /\ lost' \in [Nodes -> SUBSET Paths]
        /\ \A k \in Nodes : tree[k] \subseteq tree'[k] /\ tree'[k] \subseteq tree[k] \cup {}
    BY <1>1, <1>3
  <2> QED BY <1>5, <2>1, <2>2, <2>3, <2>4, <2>5, BlocksArrive
<1>7. RememberedIsKept'
  <2>1. SUFFICES ASSUME NEW k \in Nodes, NEW x \in Wires, x.genuine, WireId(x) \in seen_block'[k]
                 PROVE  Kept(k, x)'
    BY DEF RememberedIsKept, WireId
  <2>2. CASE WireId(x) \in seen_block[k]
    <3>1. Kept(k, x)
      BY <2>1, <2>2 DEF GossipInv, RememberedIsKept
    <3> QED BY <1>1, <1>5, <3>1 DEF Kept
  <2>3. CASE WireId(x) \notin seen_block[k]
    <3>1. k = n /\ WireId(x) = WireId(w)
      BY <1>2, <1>3, <2>1, <2>3, RememberedOne
    <3>2. x = w
      BY <1>4, <3>1, SameWire
    <3> QED BY <1>5, <3>1, <3>2 DEF Kept
  <2> QED BY <2>2, <2>3
<1>8. OrphansMissParent'
  BY <1>1 DEF GossipInv, OrphansMissParent
<1> QED BY <1>6, <1>7, <1>8 DEF GossipInv

\* A handler that was overtaken, or finds the buffer full, counts its block as lost.
LEMMA BufferStep ==
    ASSUME GossipInv, NEW n \in Nodes, NEW w \in stashing[n], Buffer(n, w) PROVE GossipInv'
<1> DEFINE Asked == {Offered(n, m) : m \in peers[n]}
<1>1. PICK W : W = UNION Asked
  OBVIOUS
<1>2. PICK room \in BOOLEAN :
          /\ stashing' = [stashing EXCEPT ![n] = @ \ {w}]
          /\ orphans' = [orphans EXCEPT ![n] = IF room THEN @ \cup {w} ELSE @]
          /\ lost' = [lost EXCEPT ![n] =
                IF Parent(w.block) \in tree[n] \/ ~room THEN @ \cup {w.block} ELSE @]
  <2> DEFINE full == Cardinality({Parent(o.block) : o \in orphans[n]}) < MAX_ORPHANS
  <2>1. full \in BOOLEAN
    OBVIOUS
  <2> QED BY <2>1 DEF Buffer
<1>3. /\ net' = [net EXCEPT ![n] = @ \cup W]
      /\ UNCHANGED <<tree, seen_block, peers>>
  BY <1>1 DEF Buffer
<1>4. /\ tree \in [Nodes -> SUBSET Paths] /\ peers \in [Nodes -> SUBSET Nodes]
      /\ net \in [Nodes -> SUBSET Wires] /\ DOMAIN seen_block = Nodes
      /\ orphans \in [Nodes -> SUBSET Wires] /\ stashing \in [Nodes -> SUBSET Wires]
      /\ lost \in [Nodes -> SUBSET Paths]
  BY DEF GossipInv, GossipTypeOK
<1>5. w \in Wires /\ w.block \in Paths
  BY <1>4 DEF Wires
<1>6. W \in SUBSET Wires /\ \A x \in W : Sealed(x.block)
  <2>1. \A m \in peers[n] : /\ Offered(n, m) \subseteq Wires
                            /\ \A x \in Offered(n, m) : Sealed(x.block)
    BY <1>4, OfferedOK
  <2> QED BY <1>1, <2>1
<1>7. IsFiniteSet(W)
  <2>1. IsFiniteSet(peers[n]) /\ \A m \in peers[n] : m \in Nodes
    BY <1>4, GossipAssumption, FS_Subset
  <2> DEFINE f == [m \in peers[n] |-> Offered(n, m)]
  <2>2. DOMAIN f = peers[n] /\ Asked = {f[m] : m \in peers[n]}
    OBVIOUS
  <2>3. \A m \in peers[n] : IsFiniteSet(Offered(n, m))
    BY <2>1, OfferedOK
  <2>4. \A T \in Asked : IsFiniteSet(T)
    BY <2>3
  <2> HIDE DEF f, Asked
  <2>5. IsFiniteSet(Asked)
    BY <2>1, <2>2, FiniteImage
  <2> QED BY <1>1, <2>4, <2>5, FS_UNION
<1>8. /\ orphans' \in [Nodes -> SUBSET Wires] /\ stashing' \in [Nodes -> SUBSET Wires]
      /\ lost' \in [Nodes -> SUBSET Paths] /\ net' \in [Nodes -> SUBSET Wires]
      /\ \A k \in Nodes : /\ net'[k] \subseteq net[k] \cup W
                          /\ stashing[k] \subseteq stashing'[k] \cup {w}
                          /\ stashing'[k] \subseteq stashing[k]
                          /\ orphans[k] \subseteq orphans'[k]
                          /\ orphans'[k] \subseteq orphans[k] \cup stashing[k]
                          /\ lost[k] \subseteq lost'[k]
      /\ \A k \in Nodes \ {n} : orphans'[k] = orphans[k] /\ stashing'[k] = stashing[k]
      /\ orphans'[n] \subseteq orphans[n] \cup {w}
      /\ w \in orphans'[n] \/ w.block \in lost'[n]
      /\ Parent(w.block) \in tree[n] => w.block \in lost'[n]
  BY <1>2, <1>3, <1>4, <1>5, <1>6
<1>9. GossipTypeOK' /\ AllSealed'
  <2>1. \A k \in Nodes : Around(k)' \subseteq Around(k) \cup W
    BY <1>8 DEF Around
  <2>2. DOMAIN seen_block' = Nodes
    BY <1>3, <1>4
  <2>3. {} \in SUBSET Paths /\ IsFiniteSet({})
    BY FS_EmptySet
  <2>4. (\A b \in {} : Sealed(b)') /\ \A x \in W : Sealed(x.block)'
    BY <1>3, <1>6, SealedStays
  <2>5. /\ tree' \in [Nodes -> SUBSET Paths] /\ peers' \in [Nodes -> SUBSET Nodes]
        /\ \A k \in Nodes : tree[k] \subseteq tree'[k] /\ tree'[k] \subseteq tree[k] \cup {}
    BY <1>3, <1>4
  <2> QED BY <1>6, <1>7, <1>8, <2>1, <2>2, <2>3, <2>4, <2>5, BlocksArrive
<1>10. RememberedIsKept'
  <2>1. SUFFICES ASSUME NEW k \in Nodes, NEW x \in Wires, x.genuine, WireId(x) \in seen_block[k]
                 PROVE  Kept(k, x)'
    BY <1>3 DEF RememberedIsKept, WireId
  <2>2. Kept(k, x)
    BY <2>1 DEF GossipInv, RememberedIsKept
  <2>3. CASE x = w /\ k = n
    BY <1>8, <2>3 DEF Kept
  <2>4. CASE ~(x = w /\ k = n)
    BY <1>3, <1>8, <2>2, <2>4 DEF Kept
  <2> QED BY <2>3, <2>4
<1>11. OrphansMissParent'
  <2>1. SUFFICES ASSUME NEW k \in Nodes, NEW o \in orphans'[k], Parent(o.block) \in tree[k]
                 PROVE  o.block \in lost'[k]
    BY <1>3 DEF OrphansMissParent
  <2>2. CASE o \in orphans[k]
    BY <1>8, <2>1, <2>2 DEF GossipInv, OrphansMissParent
  <2>3. CASE o \notin orphans[k]
    BY <1>8, <2>1, <2>3
  <2> QED BY <2>2, <2>3
<1> QED BY <1>9, <1>10, <1>11 DEF GossipInv

-----------------------------------------------------------------------------
(* Every behaviour *)

LEMMA InitGossipInv == GossipInit => GossipInv
<1> SUFFICES ASSUME GossipInit PROVE GossipInv
  OBVIOUS
<1>1. << >> \in Seq(Nat) /\ Len(<< >>) = 0
  OBVIOUS
<1>2. IsFiniteSet({Genesis}) /\ IsFiniteSet({})
  BY FS_EmptySet, FS_Singleton
<1>3. GossipTypeOK
  BY <1>1, <1>2, GossipAssumption DEF GossipInit, GossipTypeOK, Around, Paths, Genesis
<1>4. AllSealed
  BY <1>1 DEF GossipInit, AllSealed, Around, Sealed, Genesis
<1>5. RememberedIsKept /\ OrphansMissParent
  BY DEF GossipInit, RememberedIsKept, OrphansMissParent
<1> QED BY <1>3, <1>4, <1>5 DEF GossipInv

LEMMA GossipInvariant == GossipSpec => []GossipInv
<1>1. GossipInit => GossipInv
  BY InitGossipInv
<1>2. GossipInv /\ [GossipNext]_gossipVars => GossipInv'
  <2> SUFFICES ASSUME GossipInv, [GossipNext]_gossipVars PROVE GossipInv'
    OBVIOUS
  <2>1. ASSUME NEW n \in Nodes, NEW m \in Nodes, Announce(n, m) PROVE GossipInv'
    BY <2>1, AnnounceStep
  <2>2. ASSUME NEW n \in Nodes, NEW m \in Nodes, RequestSync(n, m) PROVE GossipInv'
    BY <2>2, RequestSyncStep
  <2>3. ASSUME NEW n \in Nodes, Tick(n) PROVE GossipInv'
    BY <2>3, TickStep
  <2>4. ASSUME NEW n \in Nodes, NEW w \in net[n], Deliver(n, w) PROVE GossipInv'
    <3>1. Receive(n, w) \/ Stash(n, w)
      BY <2>4 DEF Deliver
    <3> QED BY <2>4, <3>1, ReceiveStep, StashStep
  <2>5. ASSUME NEW n \in Nodes, NEW w \in stashing[n], Buffer(n, w) PROVE GossipInv'
    BY <2>5, BufferStep
  <2>6. ASSUME NEW n \in Nodes, NEW b \in Twins, SealTwin(b, n) PROVE GossipInv'
    BY <2>6, SealTwinStep
  <2>7. ASSUME NEW n \in Nodes, NEW b \in (tree[n] \ {Genesis}) \cup MadeUp,
               NEW m \in Nodes, Forge(b, m)
        PROVE  GossipInv'
    BY <2>7, ForgeStep
  <2>9. ASSUME NEW n \in Nodes, NEW w \in net[n], DeliverFails(n, w) PROVE GossipInv'
    BY <2>9, FailStep
  <2>8. CASE UNCHANGED gossipVars
    <3>1. /\ UNCHANGED <<tree, seen_block, orphans, stashing, lost>>
          /\ net' = net /\ peers' = peers
      BY <2>8 DEF gossipVars
    <3>2. /\ net' \in [Nodes -> SUBSET Wires] /\ peers' \in [Nodes -> SUBSET Nodes]
          /\ \A k \in Nodes : net'[k] \subseteq net[k] \cup {}
      BY <3>1 DEF GossipInv, GossipTypeOK
    <3> QED BY <3>1, <3>2, NoWires, NetGrows
  <2> QED BY <2>1, <2>2, <2>3, <2>4, <2>5, <2>6, <2>7, <2>8, <2>9 DEF GossipNext
<1> QED BY <1>1, <1>2, PTL DEF GossipSpec

-----------------------------------------------------------------------------
\* p2p._block_wire_id's "a forged twin a DIFFERENT id, so it can't" censor: for every
\* network, order, repetition and loss of messages, and however the memory forgets, a
\* genuine block that a node ignores is in its tree, waits there, or was lost with a full
\* buffer or a failed write.
THEOREM IgnoredTheorem == GossipSpec => []IgnoredIsKept
<1>1. GossipInv => IgnoredIsKept
  BY DEF GossipInv, GossipTypeOK, RememberedIsKept, Kept, IgnoredIsKept
<1> QED BY <1>1, GossipInvariant, PTL

\* _drain_orphans leaves no block behind its parent, whoever adds the parent; only a
\* handler that another one overtook, or an append that raises, does.
THEOREM OrphanTheorem == GossipSpec => []OrphansMissParent
<1>1. GossipInv => OrphansMissParent
  BY DEF GossipInv
<1> QED BY <1>1, GossipInvariant, PTL
=============================================================================
