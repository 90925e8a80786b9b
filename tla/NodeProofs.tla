----------------------------- MODULE NodeProofs -----------------------------
(***************************************************************************)
(* What a node keeps through crashes, torn lines, failed writes and        *)
(* requests that interleave, for every tree, every number of threads and   *)
(* any number of crashes; and, in the last part, what its auto-voter signs *)
(* for every validator set, election, epoch, tree and number of restarts.  *)
(***************************************************************************)
EXTENDS Node, AutoVote, ForkChoiceProofs

\* Blocks other than genesis: what a thread seals, accepts and appends.
NewBlocks == Hashes \ {Genesis}

\* What is in the file.
Stored == {lines[i] : i \in 1 .. Len(lines)}

\* A block weighs more than its parent: the proposer has stake.
Heavier == \A h \in known \ {Genesis} : weight[Parent(h)] < weight[h]

NodeTypeOK ==
    /\ mode \in {"up", "down", "booting", "refused"}
    /\ lines \in Seq(NewBlocks \cup {Garbage})
    /\ sealing \in [Threads -> NewBlocks \cup {NoWrite}]
    /\ writing \in [Threads -> NewBlocks \cup {NoWrite}]
    /\ replayed \in 0 .. Len(lines)
    /\ acked \subseteq NewBlocks
    /\ reported \in Hashes
    /\ mode # "up" => \A t \in Threads : sealing[t] = NoWrite /\ writing[t] = NoWrite
    /\ mode = "up" => \A t \in Threads : writing[t] # NoWrite => writing[t] \in known
    /\ mode = "down" => replayed = 0

\* A reported block is in the file, or the file has a line that keeps the node from
\* booting; while the node is up, the tree has what was reported and what is stored.
AckInv ==
    /\ Garbage \in Stored \/ acked \subseteq Stored
    /\ mode = "up" => acked \cup (Stored \cap Hashes) \subseteq known
    /\ mode \in {"down", "booting"} =>
          known = {Genesis} \cup {lines[i] : i \in 1 .. replayed}

-----------------------------------------------------------------------------
(* add_block as a function of tree and block *)

\* The tree as one value: canonical is the state of the head.
TreeNow == [known |-> known, weight |-> weight, state |-> state,
            head |-> head_hash, final |-> finalized_hash]

GenesisTree == [known |-> {Genesis}, weight |-> [h \in {Genesis} |-> 0],
                state |-> [h \in {Genesis} |-> GenesisState],
                head |-> Genesis, final |-> Genesis]

Top(h) == h[Len(h)]

\* add_block takes h under the weak-subjectivity checkpoint ws.
Takes(T, ws, h) ==
    /\ Parent(h) \in T.known
    /\ h \notin T.known
    /\ Ancestor(T.final, Parent(h))
    /\ Len(h) = Len(ws) => h = ws
    /\ Valid(T.state[Parent(h)], Parent(h), Top(h))

\* The tree it leaves.
Grown(T, h) ==
    LET p == Parent(h)
        next == Applied(T.state[p], p, Top(h))
        f == BranchFinal(h, next)
        K == T.known \cup {h}
        w == Put(T.weight, h, T.weight[p] + T.state[p].stakes[Top(h).validator])
        final == IF Len(f) > Len(T.final) THEN f ELSE T.final
    IN  [known |-> K, weight |-> w, state |-> Put(T.state, h, next),
         head |-> IF p = T.head THEN h ELSE BestHead(K, w, final), final |-> final]

Replayed(T, h) == IF h \in T.known THEN T ELSE Grown(T, h)
Replayable(T, ws, h) == h \in T.known \/ Takes(T, ws, h)

\* T[n] is the tree that the first n lines replay to, and each line replays on the
\* tree of the lines before it.
Trace(T, ls, ws) ==
    /\ ls \in Seq(NewBlocks)
    /\ T[0] = GenesisTree
    /\ \A n \in 1 .. Len(ls) :
          Replayable(T[n - 1], ws, ls[n]) /\ T[n] = Replayed(T[n - 1], ls[n])
    /\ \A n \in 0 .. Len(ls) : T[n].known = {Genesis} \cup {ls[i] : i \in 1 .. n}

\* The node's tree is where the trace says.
OnTrace(T) ==
    /\ Trace(T, lines, ws_checkpoint)
    /\ Ancestor(reported, T[Len(lines)].final)
    /\ mode = "up" => Ancestor(reported, finalized_hash)
    /\ mode = "up" /\ (\A t \in Threads : writing[t] = NoWrite) => TreeNow = T[Len(lines)]
    /\ \A t \in Threads : writing[t] # NoWrite =>
          /\ TreeNow = Replayed(T[Len(lines)], writing[t])
          /\ Replayable(T[Len(lines)], ws_checkpoint, writing[t])
    /\ mode \in {"down", "booting"} => TreeNow = T[replayed]

\* While requests come one at a time and writes are whole, the file replays.
StoreInv ==
    ~faulted =>
        /\ ~partial
        /\ mode # "refused"
        /\ \A t, u \in Threads : writing[t] # NoWrite /\ writing[u] # NoWrite => t = u
        /\ \E T : OnTrace(T)

-----------------------------------------------------------------------------
\* Without two produce_block calls at once and without a stop that loses a shown
\* block, no two shown blocks share a parent; the tree of a node that is up has them
\* all, and so has the file that it boots from; a block being sealed is the first one
\* on its parent.
TwinInv ==
    /\ shown \subseteq NewBlocks
    /\ ~raced /\ ~dropped =>
        /\ \A t, u \in Threads : sealing[t] # NoWrite /\ sealing[u] # NoWrite => t = u
        /\ \A x, y \in shown : Parent(x) = Parent(y) => x = y
        /\ mode = "up" => shown \subseteq known
        /\ mode \in {"down", "booting"} => shown \subseteq Stored
        /\ \A t \in Threads : sealing[t] # NoWrite =>
              \A y \in shown : Parent(y) # Parent(sealing[t])

NodeInv ==
    /\ IInv
    /\ Heavier
    /\ NodeTypeOK
    /\ AckInv
    /\ StoreInv
    /\ TwinInv

-----------------------------------------------------------------------------
(* The tree under the node's steps *)

LEMMA AppendParts ==
    ASSUME NEW p \in Seq(Blocks), NEW b \in Blocks
    PROVE  Parent(Append(p, b)) = p /\ Top(Append(p, b)) = b /\ Append(p, b) # Genesis
<1>1. /\ Len(Append(p, b)) = Len(p) + 1 /\ Append(p, b)[Len(p) + 1] = b
      /\ Append(p, b) \in Seq(Blocks) /\ Len(p) \in Nat
  BY AppendProperties
<1>2. Top(Append(p, b)) = b
  BY <1>1 DEF Top
<1>3. Append(p, b) # Genesis
  BY <1>1 DEF Genesis
<1>4. Parent(Append(p, b)) = p
  <2>1. Len(p) \in 0 .. Len(p) + 1 /\ Len(p) # Len(p) + 1 /\ Len(p) + 1 - 1 = Len(p)
    BY <1>1
  <2>2. SubSeq(Append(p, b), 1, Len(p)) = SubSeq(p, 1, Len(p))
    BY <2>1, PrefixesOfChild
  <2>3. SubSeq(p, 1, Len(p)) = p
    OBVIOUS
  <2>4. Parent(Append(p, b)) = SubSeq(Append(p, b), 1, Len(p) + 1 - 1)
    BY <1>1 DEF Parent
  <2> QED BY <2>1, <2>2, <2>3, <2>4
<1> QED BY <1>2, <1>3, <1>4

LEMMA HashParts ==
    ASSUME NEW h \in NewBlocks
    PROVE  /\ h \in Seq(Blocks) /\ Len(h) \in Nat \ {0}
           /\ Parent(h) \in Seq(Blocks) /\ Len(Parent(h)) = Len(h) - 1
           /\ Top(h) \in Blocks
           /\ Append(Parent(h), Top(h)) = h
<1>1. h \in Seq(Blocks) /\ h # << >> /\ Len(h) \in Nat
  BY HashesAreSeqs DEF NewBlocks, Genesis
<1>2. Len(h) # 0
  BY <1>1, EmptySeq
<1>3. Len(h) - 1 \in 0 .. Len(h)
  BY <1>1, <1>2
<1>4. Parent(h) \in Seq(Blocks) /\ Len(Parent(h)) = Len(h) - 1
  BY <1>1, <1>3, PrefixIsAncestor DEF Parent
<1>5. Top(h) \in Blocks
  BY <1>1, <1>2, ElementOfSeq DEF Top
<1>6. Append(Parent(h), Top(h)) = h
  BY <1>1, <1>2, <1>4, <1>5 DEF Parent, Top
<1> QED BY <1>1, <1>2, <1>4, <1>5, <1>6

\* add_block depends on the tree, the checkpoint and the block only.
LEMMA TreeStep ==
    ASSUME IInv, Heavier, NEW h \in NewBlocks, AddBlock(Parent(h), Top(h))
    PROVE  /\ IInv' /\ Heavier' /\ ~raised' /\ UNCHANGED ws_checkpoint
           /\ h \notin known /\ known' = known \cup {h}
           /\ TreeNow' = Grown(TreeNow, h)
           /\ Takes(TreeNow, ws_checkpoint, h)
           /\ Ancestor(finalized_hash, finalized_hash')
           /\ finalized_hash \in Seq(Blocks) /\ finalized_hash' \in Seq(Blocks)
<1> DEFINE p == Parent(h)
           b == Top(h)
<1>1. h \in Seq(Blocks) /\ p \in Seq(Blocks) /\ b \in Blocks /\ Append(p, b) = h
  BY HashParts
<1>2. p \in known
  BY DEF AddBlock, Accepts
<1>3. Took(p, b, h)
  <2> HIDE DEF p, b
  <2>1. AddBlock(p, b)
    BY DEF p, b
  <2> QED BY <1>1, <1>2, <2>1, AddBlockTakes
<1>4. IInv'
  BY <1>3, TookKeepsIInv
<1>5. ~raised'
  BY <1>4 DEF IInv, NeverRaised
<1>6. /\ Ancestor(finalized_hash, finalized_hash') /\ finalized_hash' \in Seq(Blocks)
      /\ finalized_hash \in Seq(Blocks)
  BY <1>3, FrontierMoves, HashesAreSeqs DEF IInv, TypeOK
<1>7. TreeNow' = Grown(TreeNow, h)
  <2>1. /\ TreeNow.known = known /\ TreeNow.weight = weight /\ TreeNow.state = state
        /\ TreeNow.head = head_hash /\ TreeNow.final = finalized_hash
    BY DEF TreeNow
  <2>2. /\ known' = known \cup {h}
        /\ weight' = Put(weight, h, weight[p] + state[p].stakes[b.validator])
        /\ state' = Put(state, h, Applied(state[p], p, b))
        /\ finalized_hash' = Frontier(BranchFinal(h, state'[h]))
        /\ head_hash' = IF p = head_hash THEN h ELSE BestHead(known', weight', finalized_hash')
    BY <1>3 DEF Took
  <2>3. state'[h] = Applied(state[p], p, b)
    BY <2>2 DEF Put
  <2> QED BY <2>1, <2>2, <2>3 DEF TreeNow, Grown, Frontier
<1>8. Takes(TreeNow, ws_checkpoint, h)
  BY <1>3 DEF Took, Takes, TreeNow
<1>9. h \notin known /\ known' = known \cup {h} /\ UNCHANGED ws_checkpoint
  BY <1>3 DEF Took
<1>10. Heavier'
  <2>1. weight \in [known -> Nat] /\ known \subseteq Hashes
    BY DEF IInv, TypeOK
  <2>2. state[p].stakes \in [Addr -> Nat]
    BY <1>2 DEF IInv, TypeOK, StateOK
  <2>3. b.validator \in Addr /\ state[p].stakes[b.validator] > 0
    BY <1>3, <2>2, ElectedHasStake DEF Took
  <2> DEFINE x == weight[p] + state[p].stakes[b.validator]
  <2>4. x > weight[p]
    BY <1>2, <2>1, <2>2, <2>3
  <2>5. weight' = Put(weight, h, x)
    BY <1>3 DEF Took
  <2> HIDE DEF x, p, b
  <2>6. weight'[h] = x /\ \A g \in known : weight'[g] = weight[g]
    BY <1>9, <2>1, <2>5 DEF Put
  <2>7. ASSUME NEW g \in known, g # Genesis PROVE weight'[Parent(g)] < weight'[g]
    <3>1. g \in NewBlocks
      BY <2>1, <2>7 DEF NewBlocks
    <3>2. Len(g) - 1 \in 0 .. Len(g)
      BY <3>1, HashParts
    <3>3. Parent(g) \in known
      BY <3>2 DEF IInv, Rooted, Parent
    <3> QED BY <2>6, <2>7, <3>3 DEF Heavier
  <2>8. weight'[Parent(h)] < weight'[h]
    BY <1>2, <2>4, <2>6 DEF p
  <2> QED BY <1>9, <2>7, <2>8 DEF Heavier
<1> QED BY <1>4, <1>5, <1>6, <1>7, <1>8, <1>9, <1>10

\* What a tree takes, add_block accepts.
LEMMA TakesAccepted ==
    ASSUME IInv, NEW h \in NewBlocks, Replayable(TreeNow, ws_checkpoint, h)
    PROVE  Replays(h)
<1>1. h # Garbage
  BY NodeAssumption DEF NewBlocks
<1>2. CASE h \in known
  BY <1>1, <1>2 DEF Replays
<1>3. CASE Takes(TreeNow, ws_checkpoint, h)
  <2>1. /\ Parent(h) \in known /\ h \notin known /\ Ancestor(finalized_hash, Parent(h))
        /\ Len(h) = Len(ws_checkpoint) => h = ws_checkpoint
        /\ Valid(state[Parent(h)], Parent(h), Top(h))
    BY <1>3 DEF Takes, TreeNow
  <2>2. Append(Parent(h), Top(h)) = h /\ Len(Parent(h)) = Len(h) - 1 /\ Len(h) \in Nat
    BY HashParts
  <2>3. Len(finalized_hash) \in Nat
    BY HashesAreSeqs DEF IInv, TypeOK
  <2>4. Admissible(Parent(h), h)
    <3>1. Len(finalized_hash) <= Len(Parent(h))
      BY <2>1 DEF Ancestor
    <3>2. Len(h) > Len(finalized_hash)
      BY <2>2, <2>3, <3>1
    <3> QED BY <2>1, <2>2, <2>3, <3>2 DEF Admissible
  <2>5. Base(Parent(h)) = state[Parent(h)]
    BY DEF Base, IInv, CanonicalIsReplay
  <2>6. Accepts(Parent(h), Top(h))
    BY <2>1, <2>2, <2>4, <2>5 DEF Accepts
  <2> QED BY <1>1, <2>6 DEF Replays, Top
<1> QED BY <1>2, <1>3 DEF Replayable, TreeNow

\* The tree a process starts from.
LEMMA StopTree ==
    ASSUME IInv, Stop
    PROVE  IInv' /\ Heavier' /\ TreeNow' = GenesisTree /\ known' = {Genesis}
           /\ UNCHANGED ws_checkpoint
<1>1. Init'
  BY DEF Stop, Init, IInv, TypeOK, NeverRaised
<1>2. IInv'
  BY <1>1, InitIInv, PTL
<1> QED BY <1>2 DEF Stop, Heavier, TreeNow, GenesisTree

LEMMA SameTree ==
    ASSUME IInv, Heavier, UNCHANGED vars
    PROVE  /\ IInv' /\ Heavier' /\ TreeNow' = TreeNow /\ known' = known
           /\ UNCHANGED <<ws_checkpoint, finalized_hash>>
<1>1. IInv'
  BY NextIInv
<1> QED BY <1>1 DEF vars, Heavier, TreeNow

\* A line more.
LEMMA LinesGrow ==
    ASSUME NEW L, NEW ls \in Seq(L), NEW l \in L
    PROVE  /\ Append(ls, l) \in Seq(L) /\ Len(Append(ls, l)) = Len(ls) + 1 /\ Len(ls) \in Nat
           /\ \A i \in 1 .. Len(ls) : Append(ls, l)[i] = ls[i]
           /\ Append(ls, l)[Len(ls) + 1] = l
           /\ {Append(ls, l)[i] : i \in 1 .. Len(Append(ls, l))}
                = {ls[i] : i \in 1 .. Len(ls)} \cup {l}
<1>1. /\ Append(ls, l) \in Seq(L) /\ Len(Append(ls, l)) = Len(ls) + 1 /\ Len(ls) \in Nat
      /\ \A i \in 1 .. Len(ls) : Append(ls, l)[i] = ls[i]
      /\ Append(ls, l)[Len(ls) + 1] = l
  BY AppendProperties
<1> DEFINE n == Len(ls)
           a == Append(ls, l)
<1>2. 1 .. n + 1 = 1 .. n \cup {n + 1}
  BY <1>1
<1> HIDE DEF n, a
<1>3. {a[i] : i \in 1 .. n \cup {n + 1}} = {a[i] : i \in 1 .. n} \cup {a[n + 1]}
  OBVIOUS
<1>4. {a[i] : i \in 1 .. n} = {ls[i] : i \in 1 .. n}
  BY <1>1 DEF a, n
<1>5. {a[i] : i \in 1 .. n + 1} = {ls[i] : i \in 1 .. n} \cup {l}
  BY <1>1, <1>2, <1>3, <1>4 DEF a, n
<1> QED BY <1>1, <1>5 DEF a, n

LEMMA TraceGrows ==
    ASSUME NEW ls, NEW h \in NewBlocks, NEW ws, NEW T, Trace(T, ls, ws),
           Replayable(T[Len(ls)], ws, h)
    PROVE  \E T2 : /\ Trace(T2, Append(ls, h), ws)
                   /\ T2[Len(Append(ls, h))] = Replayed(T[Len(ls)], h)
<1> DEFINE n == Len(ls)
           a == Append(ls, h)
           r == Replayed(T[n], h)
           T2 == [i \in 0 .. n + 1 |-> IF i = n + 1 THEN r ELSE T[i]]
<1>1. /\ a \in Seq(NewBlocks) /\ Len(a) = n + 1 /\ n \in Nat
      /\ \A i \in 1 .. n : a[i] = ls[i]
      /\ a[n + 1] = h
      /\ {a[i] : i \in 1 .. Len(a)} = {ls[i] : i \in 1 .. n} \cup {h}
  BY LinesGrow DEF Trace
<1>2. /\ T[0] = GenesisTree
      /\ \A i \in 1 .. n : Replayable(T[i - 1], ws, ls[i]) /\ T[i] = Replayed(T[i - 1], ls[i])
      /\ \A i \in 0 .. n : T[i].known = {Genesis} \cup {ls[j] : j \in 1 .. i}
  BY DEF Trace
<1>3. r.known = T[n].known \cup {h}
  BY DEF Replayed, Grown
<1> HIDE DEF a, r
<1>4. T2[n + 1] = r /\ \A i \in 0 .. n : T2[i] = T[i]
  BY <1>1
<1> HIDE DEF T2
<1>5. T2[0] = GenesisTree
  BY <1>1, <1>2, <1>4
<1>6. ASSUME NEW i \in 1 .. n + 1
      PROVE  Replayable(T2[i - 1], ws, a[i]) /\ T2[i] = Replayed(T2[i - 1], a[i])
  <2>1. CASE i = n + 1
    <3>1. T2[i - 1] = T[n] /\ T2[i] = r /\ a[i] = h
      BY <1>1, <1>4, <2>1
    <3> QED BY <3>1 DEF r
  <2>2. CASE i # n + 1
    <3>1. i \in 1 .. n /\ T2[i - 1] = T[i - 1] /\ T2[i] = T[i] /\ a[i] = ls[i]
      BY <1>1, <1>4, <2>2
    <3> HIDE DEF n
    <3> QED BY <1>2, <3>1
  <2> QED BY <2>1, <2>2
<1>7. ASSUME NEW i \in 0 .. n + 1
      PROVE  T2[i].known = {Genesis} \cup {a[j] : j \in 1 .. i}
  <2>1. CASE i = n + 1
    <3>1. T2[i].known = {Genesis} \cup {ls[j] : j \in 1 .. n} \cup {h}
      <4>1. T2[i].known = T[n].known \cup {h} /\ n \in 0 .. n
        BY <1>1, <1>3, <1>4, <2>1
      <4>2. T[n].known = {Genesis} \cup {ls[j] : j \in 1 .. n}
        BY <1>2, <4>1
      <4> QED BY <4>1, <4>2
    <3>2. {a[j] : j \in 1 .. i} = {ls[j] : j \in 1 .. n} \cup {h}
      BY <1>1, <2>1
    <3> QED BY <3>1, <3>2
  <2>2. CASE i # n + 1
    <3>1. i \in 0 .. n /\ \A j \in 1 .. i : j \in 1 .. n
      BY <1>1, <2>2
    <3>2. \A j \in 1 .. i : a[j] = ls[j]
      BY <1>1, <3>1
    <3>3. {a[j] : j \in 1 .. i} = {ls[j] : j \in 1 .. i}
      BY <3>2
    <3>4. T2[i].known = {Genesis} \cup {ls[j] : j \in 1 .. i}
      BY <1>2, <1>4, <3>1
    <3> QED BY <3>3, <3>4
  <2> QED BY <2>1, <2>2
<1> HIDE DEF n
<1>8. Trace(T2, a, ws)
  BY <1>1, <1>5, <1>6, <1>7 DEF Trace
<1>9. T2[Len(a)] = r
  BY <1>1, <1>4
<1> QED BY <1>8, <1>9 DEF a, r, n

-----------------------------------------------------------------------------
(* The invariant is inductive. *)

LEMMA InitNode == NodeInit => NodeInv
<1> SUFFICES ASSUME NodeInit PROVE NodeInv
  OBVIOUS
<1>1. IInv
  BY InitIInv DEF NodeInit
<1>2. Genesis \in Hashes /\ Genesis \in Seq(Blocks)
  BY <1>1, HashesAreSeqs DEF NodeInit, Init, IInv, TypeOK
<1>3. lines = << >> /\ Len(lines) = 0 /\ Stored = {}
  BY DEF NodeInit, Stored
<1>4. Heavier
  BY DEF NodeInit, Init, Heavier
<1>5. NodeTypeOK
  BY <1>2, <1>3 DEF NodeInit, NodeTypeOK
<1>6. AckInv
  BY <1>3 DEF NodeInit, AckInv
<1>7. TwinInv
  BY <1>3 DEF NodeInit, TwinInv
<1>8. StoreInv
  <2> DEFINE T == [i \in {0} |-> GenesisTree]
  <2>1. T[0] = GenesisTree
    OBVIOUS
  <2>2. GenesisTree.known = {Genesis} /\ GenesisTree.final = Genesis
    BY DEF GenesisTree
  <2> HIDE DEF T
  <2>3. Trace(T, lines, ws_checkpoint)
    <3>1. {lines[j] : j \in 1 .. 0} = {}
      OBVIOUS
    <3>2. lines \in Seq(NewBlocks)
      BY <1>3
    <3> QED BY <1>3, <2>1, <2>2, <3>1, <3>2 DEF Trace
  <2>4. TreeNow = GenesisTree
    BY DEF NodeInit, Init, TreeNow, GenesisTree
  <2>5. Ancestor(Genesis, Genesis)
    BY <1>2, AncestorRefl
  <2>6. OnTrace(T)
    <3>1. mode = "up" /\ reported = Genesis /\ finalized_hash = Genesis
      BY DEF NodeInit, Init
    <3>2. \A t \in Threads : writing[t] = NoWrite
      BY DEF NodeInit
    <3>3. T[Len(lines)] = GenesisTree
      BY <1>3, <2>1
    <3> QED BY <2>2, <2>3, <2>4, <2>5, <3>1, <3>2, <3>3 DEF OnTrace
  <2> QED BY <2>6 DEF StoreInv, NodeInit
<1> QED BY <1>1, <1>4, <1>5, <1>6, <1>7, <1>8 DEF NodeInv

\* produce_block seals on a head that has no child in the tree: a child would be
\* heavier.
LEMMA SealStep ==
    ASSUME NodeInv, NEW t \in Threads, NEW b \in Blocks, Seal(t, b)
    PROVE  NodeInv'
<1>1. UNCHANGED <<vars, mode, lines, partial, writing, replayed, acked, reported, faulted,
                  shown, dropped>>
  BY DEF Seal
<1>2. /\ IInv' /\ Heavier' /\ TreeNow' = TreeNow /\ known' = known
      /\ UNCHANGED <<ws_checkpoint, finalized_hash>>
  BY <1>1, SameTree DEF NodeInv
<1>3. /\ head_hash \in known /\ known \subseteq Hashes /\ known \subseteq Seq(Blocks)
      /\ finalized_hash \in known /\ weight \in [known -> Nat]
  BY HashesAreSeqs DEF NodeInv, IInv, TypeOK
<1> DEFINE h == Append(head_hash, b)
<1>4. h \in NewBlocks /\ Parent(h) = head_hash
  <2>1. Len(head_hash) + 1 <= MaxHeight
    BY <1>3, TreeAssumption DEF Seal
  <2> QED BY <1>3, <2>1, AppendIsHash, AppendParts DEF NewBlocks
<1>5. /\ mode = "up" /\ sealing' = [sealing EXCEPT ![t] = h]
      /\ raced' = (raced \/ \E u \in Threads : sealing[u] # NoWrite)
  BY DEF Seal, Idle
<1> HIDE DEF h
<1>6. NodeTypeOK'
  BY <1>1, <1>2, <1>4, <1>5 DEF NodeInv, NodeTypeOK
<1>7. AckInv'
  BY <1>1, <1>2 DEF NodeInv, AckInv, Stored
<1>8. StoreInv'
  BY <1>1, <1>2 DEF NodeInv, StoreInv, OnTrace
<1>9. TwinInv'
  <2> SUFFICES ASSUME ~raced', ~dropped' PROVE TwinInv'
    BY <1>1 DEF NodeInv, TwinInv
  <2>1. ~raced /\ ~dropped /\ \A u \in Threads : sealing[u] = NoWrite
    BY <1>1, <1>5
  <2>2. sealing \in [Threads -> NewBlocks \cup {NoWrite}]
    BY DEF NodeInv, NodeTypeOK
  <2>3. sealing'[t] = h /\ \A u \in Threads : u # t => sealing'[u] = NoWrite
    BY <1>5, <2>1, <2>2
  <2>4. ASSUME NEW y \in shown PROVE Parent(y) # head_hash
    <3> SUFFICES ASSUME Parent(y) = head_hash PROVE FALSE
      OBVIOUS
    <3>1. y \in known /\ y \in NewBlocks /\ y # Genesis /\ y \in Seq(Blocks)
      BY <1>3, <1>5, <2>1 DEF NodeInv, TwinInv, NewBlocks
    <3>2. Ancestor(head_hash, y)
      <4>1. Top(y) \in Blocks /\ Append(head_hash, Top(y)) = y /\ head_hash \in Seq(Blocks)
        BY <1>3, <3>1, HashParts
      <4>2. Ancestor(head_hash, Append(head_hash, Top(y)))
        BY <4>1, ParentIsAncestor
      <4> QED BY <4>1, <4>2
    <3>3. Ancestor(finalized_hash, y)
      BY <1>3, <3>1, <3>2, AncestorTrans DEF NodeInv, IInv, HeadDescendsFromFinal
    <3>4. weight[y] <= weight[head_hash]
      BY <1>3, <3>1, <3>3 DEF NodeInv, IInv, HeadIsHeaviest
    <3>5. weight[head_hash] < weight[y]
      BY <3>1 DEF NodeInv, Heavier
    <3>6. weight[y] \in Nat /\ weight[head_hash] \in Nat
      BY <1>3, <3>1
    <3> QED BY <3>4, <3>5, <3>6
  <2> QED BY <1>1, <1>2, <1>4, <1>5, <2>1, <2>3, <2>4 DEF NodeInv, TwinInv
<1> QED BY <1>2, <1>6, <1>7, <1>8, <1>9 DEF NodeInv

\* The tree has taken h, or had it, and thread t is to append it.
LEMMA TakeStep ==
    ASSUME NodeInv, mode = "up", NEW t \in Threads, NEW h \in NewBlocks,
           \/ AddBlock(Parent(h), Top(h))
           \/ h \in known /\ UNCHANGED vars,
           writing' = [writing EXCEPT ![t] = h], faulted' = Overlap,
           UNCHANGED <<mode, lines, partial, replayed, acked, reported, raced, crashes>>,
           sealing' \in [Threads -> NewBlocks \cup {NoWrite}]
    PROVE  /\ IInv' /\ Heavier' /\ NodeTypeOK' /\ AckInv' /\ StoreInv'
           /\ known' = known \cup {h}
<1>1. /\ IInv' /\ Heavier' /\ known' = known \cup {h} /\ UNCHANGED ws_checkpoint
      /\ TreeNow' = Replayed(TreeNow, h) /\ Replayable(TreeNow, ws_checkpoint, h)
      /\ Ancestor(finalized_hash, finalized_hash')
      /\ finalized_hash \in Seq(Blocks) /\ finalized_hash' \in Seq(Blocks)
  <2>0. TreeNow.known = known
    BY DEF TreeNow
  <2>1. CASE AddBlock(Parent(h), Top(h))
    BY <2>0, <2>1, TreeStep DEF NodeInv, Replayed, Replayable
  <2>2. CASE h \in known /\ UNCHANGED vars
    <3>1. finalized_hash \in Seq(Blocks)
      BY HashesAreSeqs DEF NodeInv, IInv, TypeOK
    <3>2. Ancestor(finalized_hash, finalized_hash)
      BY <3>1, AncestorRefl
    <3>3. /\ IInv' /\ Heavier' /\ TreeNow' = TreeNow /\ known' = known
          /\ UNCHANGED <<ws_checkpoint, finalized_hash>>
      BY <2>2, SameTree DEF NodeInv
    <3> QED BY <2>0, <2>2, <3>1, <3>2, <3>3 DEF Replayed, Replayable
  <2> QED BY <2>1, <2>2
<1>2. NodeTypeOK
  BY DEF NodeInv
<1>3. h # NoWrite
  BY NodeAssumption DEF NewBlocks
<1>4. writing'[t] = h /\ \A u \in Threads : u # t => writing'[u] = writing[u]
  BY <1>2 DEF NodeTypeOK
<1>5. NodeTypeOK'
  <2>1. writing' \in [Threads -> NewBlocks \cup {NoWrite}]
    BY <1>2 DEF NodeTypeOK
  <2>2. \A u \in Threads : writing'[u] # NoWrite => writing'[u] \in known'
    BY <1>1, <1>2, <1>4 DEF NodeTypeOK
  <2> QED BY <1>2, <2>1, <2>2 DEF NodeTypeOK
<1>6. Stored' = Stored
  BY DEF Stored
<1>7. AckInv'
  BY <1>1, <1>6 DEF NodeInv, AckInv
<1>8. StoreInv'
  <2> SUFFICES ASSUME ~faulted' PROVE StoreInv'
    BY DEF StoreInv
  <2>1. ~faulted /\ \A u \in Threads : writing[u] = NoWrite
    BY DEF Overlap
  <2>2. ~partial /\ mode # "refused"
    BY <2>1 DEF NodeInv, StoreInv
  <2>3. PICK T : OnTrace(T)
    BY <2>1 DEF NodeInv, StoreInv
  <2>4. TreeNow = T[Len(lines)] /\ Ancestor(reported, finalized_hash)
    BY <2>1, <2>3 DEF OnTrace
  <2>5. Ancestor(reported, finalized_hash')
    BY <1>1, <1>2, <2>4, AncestorTrans, HashesAreSeqs DEF NodeTypeOK
  <2>6. \A u \in Threads : writing'[u] # NoWrite => u = t
    BY <1>4, <2>1
  <2>7. OnTrace(T)'
    BY <1>1, <1>3, <1>4, <2>3, <2>4, <2>5, <2>6 DEF OnTrace
  <2> QED BY <2>2, <2>6, <2>7 DEF StoreInv
<1> QED BY <1>1, <1>5, <1>7, <1>8

LEMMA AcceptStep ==
    ASSUME NodeInv, NEW t \in Threads, NEW p \in known, NEW b \in Blocks, Accept(t, p, b)
    PROVE  NodeInv'
<1> DEFINE h == Append(p, b)
<1>1. p \in Seq(Blocks)
  BY HashesAreSeqs DEF NodeInv, IInv, TypeOK
<1>2. Parent(h) = p /\ Top(h) = b /\ h # Genesis /\ h[Len(h)] = b
  BY <1>1, AppendParts DEF Top
<1>3. AddBlock(p, b)
  BY <1>2 DEF Accept, Added
<1>4. h \in NewBlocks
  <2>1. Took(p, b, h)
    BY <1>3, AddBlockTakes DEF NodeInv
  <2> QED BY <1>2, <2>1 DEF Took, NewBlocks
<1> HIDE DEF h
<1>5. ~raised'
  BY <1>2, <1>3, <1>4, TreeStep DEF NodeInv
<1>6. /\ writing' = [writing EXCEPT ![t] = h] /\ faulted' = Overlap /\ mode = "up"
      /\ UNCHANGED <<mode, lines, partial, sealing, replayed, acked, reported, raced,
                     shown, dropped, crashes>>
  BY <1>5 DEF Accept, Added, Idle, h
<1>7. sealing' \in [Threads -> NewBlocks \cup {NoWrite}]
  BY <1>6 DEF NodeInv, NodeTypeOK
<1>8. /\ IInv' /\ Heavier' /\ NodeTypeOK' /\ AckInv' /\ StoreInv'
      /\ known' = known \cup {h}
  BY <1>2, <1>3, <1>4, <1>6, <1>7, TakeStep
<1>9. TwinInv'
  BY <1>6, <1>8 DEF NodeInv, TwinInv
<1> QED BY <1>8, <1>9 DEF NodeInv

LEMMA AddOwnStep ==
    ASSUME NodeInv, NEW t \in Threads, AddOwn(t)
    PROVE  NodeInv'
<1> DEFINE h == sealing[t]
<1>1. h \in NewBlocks /\ sealing \in [Threads -> NewBlocks \cup {NoWrite}]
  BY DEF NodeInv, NodeTypeOK, AddOwn
<1>2. /\ faulted' = Overlap /\ mode = "up" /\ sealing' = [sealing EXCEPT ![t] = NoWrite]
      /\ UNCHANGED <<mode, lines, partial, replayed, acked, reported, raced, dropped, crashes>>
      /\ h # NoWrite /\ shown' = shown \cup ({h} \cap known')
  BY DEF AddOwn
<1>3. sealing' \in [Threads -> NewBlocks \cup {NoWrite}]
  BY <1>1, <1>2
<1>4. sealing'[t] = NoWrite /\ \A u \in Threads : u # t => sealing'[u] = sealing[u]
  BY <1>1, <1>2
<1>5. Stored' = Stored
  BY <1>2 DEF Stored
<1>6. CASE \/ AddBlock(Parent(h), Top(h)) /\ writing' = [writing EXCEPT ![t] = h]
           \/ h \in known /\ writing' = [writing EXCEPT ![t] = h] /\ UNCHANGED vars
  <2>1. /\ IInv' /\ Heavier' /\ NodeTypeOK' /\ AckInv' /\ StoreInv'
        /\ known' = known \cup {h}
    <3> HIDE DEF h
    <3> QED BY <1>1, <1>2, <1>3, <1>6, TakeStep
  <2>2. TwinInv'
    <3>1. shown' = shown \cup {h} /\ shown' \subseteq NewBlocks
      BY <1>1, <1>2, <2>1 DEF NodeInv, TwinInv
    <3> SUFFICES ASSUME ~raced', ~dropped' PROVE TwinInv'
      BY <3>1 DEF TwinInv
    <3>2. /\ ~raced /\ ~dropped /\ shown \subseteq known
          /\ \A x, y \in shown : Parent(x) = Parent(y) => x = y
          /\ \A u, v \in Threads : sealing[u] # NoWrite /\ sealing[v] # NoWrite => u = v
          /\ \A y \in shown : Parent(y) # Parent(h)
      BY <1>2 DEF NodeInv, TwinInv
    <3>3. \A u \in Threads : sealing'[u] = NoWrite
      BY <1>2, <1>4, <3>2
    <3>4. \A x, y \in shown' : Parent(x) = Parent(y) => x = y
      BY <3>1, <3>2
    <3>5. shown' \subseteq known'
      BY <2>1, <3>1, <3>2
    <3> QED BY <1>2, <3>1, <3>3, <3>4, <3>5 DEF TwinInv
  <2> QED BY <2>1, <2>2 DEF NodeInv
<1>7. CASE h \notin known /\ UNCHANGED <<vars, writing>>
  <2>1. /\ IInv' /\ Heavier' /\ TreeNow' = TreeNow /\ known' = known
        /\ UNCHANGED <<ws_checkpoint, finalized_hash>>
    BY <1>7, SameTree DEF NodeInv
  <2>2. NodeTypeOK'
    BY <1>2, <1>3, <1>7, <2>1 DEF NodeInv, NodeTypeOK
  <2>3. AckInv'
    BY <1>2, <1>5, <2>1 DEF NodeInv, AckInv
  <2>4. StoreInv'
    BY <1>2, <1>7, <2>1 DEF NodeInv, StoreInv, OnTrace, Overlap
  <2>5. TwinInv'
    <3>1. shown' = shown
      BY <1>2, <1>7, <2>1
    <3> QED BY <1>2, <1>4, <2>1, <3>1 DEF NodeInv, TwinInv
  <2> QED BY <2>1, <2>2, <2>3, <2>4, <2>5 DEF NodeInv
<1>8. \/ AddBlock(Parent(h), Top(h)) /\ writing' = [writing EXCEPT ![t] = h]
      \/ h \in known /\ writing' = [writing EXCEPT ![t] = h] /\ UNCHANGED vars
      \/ h \notin known /\ UNCHANGED <<vars, writing>>
  <2>1. AddBlock(Parent(h), Top(h)) => ~raised'
    BY <1>1, TreeStep DEF NodeInv
  <2>2. \/ Added(t, h)
        \/ h \in known /\ writing' = [writing EXCEPT ![t] = h] /\ UNCHANGED vars
        \/ h \notin known /\ UNCHANGED <<vars, writing>>
    BY DEF AddOwn
  <2> QED BY <2>1, <2>2 DEF Added, Top
<1> QED BY <1>6, <1>7, <1>8

LEMMA PersistStep ==
    ASSUME NodeInv, NEW t \in Threads, Persist(t)
    PROVE  NodeInv'
<1> DEFINE h == writing[t]
           l == Line(h)
<1>1. /\ NodeTypeOK /\ mode = "up" /\ h \in NewBlocks /\ h \in known /\ h # NoWrite
      /\ lines \in Seq(NewBlocks \cup {Garbage})
  BY DEF NodeInv, NodeTypeOK, Persist
<1>2. l \in NewBlocks \cup {Garbage} /\ (l = h \/ l = Garbage) /\ (~partial => l = h)
  BY <1>1 DEF Line
<1>3. /\ lines' = Append(lines, l) /\ writing' = [writing EXCEPT ![t] = NoWrite]
      /\ acked' = acked \cup {h} /\ reported' = finalized_hash /\ partial' = FALSE
      /\ UNCHANGED <<vars, mode, sealing, replayed, faulted, raced, shown, dropped>>
  BY DEF Persist, Written
<1>4. /\ IInv' /\ Heavier' /\ TreeNow' = TreeNow /\ known' = known
      /\ UNCHANGED <<ws_checkpoint, finalized_hash>>
  BY <1>3, SameTree DEF NodeInv
<1> HIDE DEF l
<1>5. /\ lines' \in Seq(NewBlocks \cup {Garbage}) /\ Len(lines') = Len(lines) + 1
      /\ Len(lines) \in Nat /\ Stored' = Stored \cup {l}
  BY <1>1, <1>2, <1>3, LinesGrow DEF Stored
<1>6. writing'[t] = NoWrite /\ \A u \in Threads : u # t => writing'[u] = writing[u]
  BY <1>1, <1>3 DEF NodeTypeOK
<1>7. NodeTypeOK'
  <2>1. writing' \in [Threads -> NewBlocks \cup {NoWrite}]
    BY <1>1, <1>3 DEF NodeTypeOK
  <2>2. \A u \in Threads : writing'[u] # NoWrite => writing'[u] \in known'
    BY <1>1, <1>4, <1>6 DEF NodeTypeOK
  <2>3. replayed' \in 0 .. Len(lines')
    BY <1>1, <1>3, <1>5 DEF NodeTypeOK
  <2>4. acked' \subseteq NewBlocks /\ reported' \in Hashes
    BY <1>1, <1>3 DEF NodeTypeOK, NodeInv, IInv, TypeOK
  <2> QED BY <1>1, <1>3, <1>5, <2>1, <2>2, <2>3, <2>4 DEF NodeTypeOK
<1>8. AckInv'
  <2>1. Garbage \notin Hashes
    BY NodeAssumption
  <2> QED BY <1>1, <1>2, <1>3, <1>4, <1>5, <2>1 DEF NodeInv, AckInv
<1>9. StoreInv'
  <2> SUFFICES ASSUME ~faulted' PROVE StoreInv'
    BY DEF StoreInv
  <2>1. /\ ~faulted /\ ~partial /\ l = h
        /\ \A u, v \in Threads : writing[u] # NoWrite /\ writing[v] # NoWrite => u = v
    BY <1>2, <1>3 DEF NodeInv, StoreInv
  <2>2. PICK T : OnTrace(T)
    BY <2>1 DEF NodeInv, StoreInv
  <2>3. /\ Trace(T, lines, ws_checkpoint) /\ TreeNow = Replayed(T[Len(lines)], h)
        /\ Replayable(T[Len(lines)], ws_checkpoint, h)
    BY <1>1, <2>2 DEF OnTrace
  <2> HIDE DEF h
  <2>4. PICK T2 : /\ Trace(T2, Append(lines, h), ws_checkpoint)
                  /\ T2[Len(Append(lines, h))] = Replayed(T[Len(lines)], h)
    BY <1>1, <2>3, TraceGrows
  <2>5. T2[Len(lines')] = TreeNow /\ Trace(T2, lines', ws_checkpoint)
    BY <1>3, <2>1, <2>3, <2>4
  <2>6. \A u \in Threads : writing'[u] = NoWrite
    BY <1>1, <1>6, <2>1 DEF h
  <2>7. TreeNow.final = finalized_hash
    BY DEF TreeNow
  <2>8. Ancestor(finalized_hash, finalized_hash)
    BY HashesAreSeqs, AncestorRefl DEF NodeInv, IInv, TypeOK
  <2>9. OnTrace(T2)'
    BY <1>1, <1>3, <1>4, <2>5, <2>6, <2>7, <2>8 DEF OnTrace
  <2> QED BY <1>1, <1>3, <2>6, <2>9 DEF StoreInv
<1>10. TwinInv'
  BY <1>1, <1>3, <1>4 DEF NodeInv, TwinInv
<1> QED BY <1>4, <1>7, <1>8, <1>9, <1>10 DEF NodeInv

LEMMA PersistFailsStep ==
    ASSUME NodeInv, NEW t \in Threads, PersistFails(t)
    PROVE  NodeInv'
<1> DEFINE h == writing[t]
           l == Line(h)
<1>1. /\ NodeTypeOK /\ mode = "up" /\ h \in NewBlocks /\ h \in known
      /\ lines \in Seq(NewBlocks \cup {Garbage})
  BY DEF NodeInv, NodeTypeOK, PersistFails
<1>2. l \in NewBlocks \cup {Garbage} /\ (l = h \/ l = Garbage)
  BY <1>1 DEF Line
<1>3. /\ writing' = [writing EXCEPT ![t] = NoWrite] /\ faulted' = TRUE
      /\ lines' = lines \/ lines' = Append(lines, l)
      /\ UNCHANGED <<vars, mode, sealing, replayed, acked, reported, raced, shown, dropped>>
  BY DEF PersistFails, Written
<1>4. /\ IInv' /\ Heavier' /\ TreeNow' = TreeNow /\ known' = known
      /\ UNCHANGED <<ws_checkpoint, finalized_hash>>
  BY <1>3, SameTree DEF NodeInv
<1> HIDE DEF l
<1>5. /\ lines' \in Seq(NewBlocks \cup {Garbage}) /\ Len(lines') >= Len(lines)
      /\ Len(lines) \in Nat /\ Len(lines') \in Nat
      /\ Stored \subseteq Stored' /\ Stored' \subseteq Stored \cup {l}
  <2>1. CASE lines' = lines
    BY <1>1, <2>1, LenProperties DEF Stored
  <2>2. CASE lines' = Append(lines, l)
    BY <1>1, <1>2, <2>2, LinesGrow DEF Stored
  <2> QED BY <1>3, <2>1, <2>2
<1>6. \A u \in Threads : writing'[u] \in {writing[u], NoWrite}
  BY <1>1, <1>3 DEF NodeTypeOK
<1>7. NodeTypeOK'
  <2>1. writing' \in [Threads -> NewBlocks \cup {NoWrite}]
    BY <1>1, <1>3 DEF NodeTypeOK
  <2>2. \A u \in Threads : writing'[u] # NoWrite => writing'[u] \in known'
    BY <1>1, <1>4, <1>6 DEF NodeTypeOK
  <2>3. replayed' \in 0 .. Len(lines')
    BY <1>1, <1>3, <1>5 DEF NodeTypeOK
  <2> QED BY <1>1, <1>3, <1>5, <2>1, <2>2, <2>3 DEF NodeTypeOK
<1>8. AckInv'
  BY <1>1, <1>2, <1>3, <1>4, <1>5, NodeAssumption DEF NodeInv, AckInv
<1>9. TwinInv'
  BY <1>1, <1>3, <1>4 DEF NodeInv, TwinInv
<1>10. StoreInv'
  BY <1>3 DEF StoreInv
<1> QED BY <1>4, <1>7, <1>8, <1>9, <1>10 DEF NodeInv

\* A crash leaves the file and what was reported; T2 is the trace of the file then.
LEMMA StopStep ==
    ASSUME NodeInv, Stop, lines' \in Seq(NewBlocks \cup {Garbage}),
           Garbage \in Stored' \/ acked \subseteq Stored',
           ~faulted' => /\ ~partial'
                        /\ \E T : /\ Trace(T, lines', ws_checkpoint)
                                  /\ Ancestor(reported, T[Len(lines')].final)
    PROVE  NodeInv'
<1>1. /\ IInv' /\ Heavier' /\ TreeNow' = GenesisTree /\ known' = {Genesis}
      /\ UNCHANGED ws_checkpoint
  BY StopTree DEF NodeInv
<1>2. /\ mode' = "down" /\ replayed' = 0 /\ UNCHANGED <<acked, reported, raced, shown>>
      /\ \A t \in Threads : sealing'[t] = NoWrite /\ writing'[t] = NoWrite
      /\ sealing' \in [Threads -> NewBlocks \cup {NoWrite}]
      /\ writing' \in [Threads -> NewBlocks \cup {NoWrite}]
  BY DEF Stop
<1>3. NodeTypeOK'
  <2>1. 0 \in 0 .. Len(lines')
    BY LenProperties
  <2> QED BY <1>2, <2>1 DEF NodeInv, NodeTypeOK
<1>4. AckInv'
  <2>1. {lines'[i] : i \in 1 .. 0} = {}
    OBVIOUS
  <2> QED BY <1>1, <1>2, <2>1 DEF AckInv
<1>5. StoreInv'
  <2> SUFFICES ASSUME ~faulted' PROVE StoreInv'
    BY DEF StoreInv
  <2>1. PICK T : /\ Trace(T, lines', ws_checkpoint)
                 /\ Ancestor(reported, T[Len(lines')].final)
    OBVIOUS
  <2>2. T[0] = GenesisTree
    BY <2>1 DEF Trace
  <2>3. OnTrace(T)'
    BY <1>1, <1>2, <2>1, <2>2 DEF OnTrace
  <2> QED BY <1>2, <2>3 DEF StoreInv
<1>6. TwinInv'
  <2>1. dropped' = (dropped \/ ~(shown \subseteq Stored'))
    BY DEF Stop, Stored
  <2> QED BY <1>2, <2>1 DEF NodeInv, TwinInv
<1> QED BY <1>1, <1>3, <1>4, <1>5, <1>6 DEF NodeInv

LEMMA CrashStep ==
    ASSUME NodeInv, Crash
    PROVE  NodeInv'
<1>1. Stop /\ UNCHANGED <<lines, partial, faulted>> /\ Stored' = Stored
  BY DEF Crash, Stored
<1>2. lines' \in Seq(NewBlocks \cup {Garbage})
  BY <1>1 DEF NodeInv, NodeTypeOK
<1>3. ~faulted' => /\ ~partial'
                   /\ \E T : /\ Trace(T, lines', ws_checkpoint)
                             /\ Ancestor(reported, T[Len(lines')].final)
  BY <1>1 DEF NodeInv, StoreInv, OnTrace
<1>4. Garbage \in Stored' \/ acked \subseteq Stored'
  BY <1>1 DEF NodeInv, AckInv
<1> QED BY <1>1, <1>2, <1>3, <1>4, StopStep

LEMMA CrashInAppendStep ==
    ASSUME NodeInv, NEW t \in Threads, CrashInAppend(t)
    PROVE  NodeInv'
<1> DEFINE h == writing[t]
           l == Line(h)
<1>1. /\ NodeTypeOK /\ mode = "up" /\ h \in NewBlocks /\ h \in known /\ h # NoWrite
      /\ lines \in Seq(NewBlocks \cup {Garbage}) /\ Stop
  BY DEF NodeInv, NodeTypeOK, CrashInAppend
<1>2. l \in NewBlocks \cup {Garbage} /\ (l = h \/ l = Garbage) /\ (~partial => l = h)
  BY <1>1 DEF Line
<1>3. CASE lines' = Written(h) /\ partial' = FALSE /\ UNCHANGED faulted
  <2>1. lines' = Append(lines, l)
    BY <1>3 DEF Written
  <2> HIDE DEF l
  <2>2. lines' \in Seq(NewBlocks \cup {Garbage}) /\ Stored' = Stored \cup {l}
    BY <1>1, <1>2, <2>1, LinesGrow DEF Stored
  <2>3. Garbage \in Stored' \/ acked \subseteq Stored'
    BY <2>2 DEF NodeInv, AckInv
  <2>4. ~faulted' => /\ ~partial'
                     /\ \E T : /\ Trace(T, lines', ws_checkpoint)
                               /\ Ancestor(reported, T[Len(lines')].final)
    <3> SUFFICES ASSUME ~faulted'
                 PROVE  \E T : /\ Trace(T, lines', ws_checkpoint)
                               /\ Ancestor(reported, T[Len(lines')].final)
      BY <1>3
    <3>1. ~faulted /\ l = h
      BY <1>2, <1>3 DEF NodeInv, StoreInv
    <3>2. PICK T : OnTrace(T)
      BY <3>1 DEF NodeInv, StoreInv
    <3>3. /\ Trace(T, lines, ws_checkpoint) /\ TreeNow = Replayed(T[Len(lines)], h)
          /\ Replayable(T[Len(lines)], ws_checkpoint, h)
          /\ Ancestor(reported, finalized_hash)
      BY <1>1, <3>2 DEF OnTrace
    <3> HIDE DEF h
    <3>4. PICK T2 : /\ Trace(T2, Append(lines, h), ws_checkpoint)
                    /\ T2[Len(Append(lines, h))] = Replayed(T[Len(lines)], h)
      BY <1>1, <3>3, TraceGrows
    <3>5. T2[Len(lines')] = TreeNow /\ Trace(T2, lines', ws_checkpoint)
      BY <2>1, <3>1, <3>3, <3>4
    <3>6. TreeNow.final = finalized_hash
      BY DEF TreeNow
    <3> QED BY <3>3, <3>5, <3>6
  <2> QED BY <1>1, <2>2, <2>3, <2>4, StopStep
<1>4. CASE partial' = TRUE /\ faulted' = TRUE /\ UNCHANGED lines
  <2>1. Stored' = Stored /\ lines' \in Seq(NewBlocks \cup {Garbage}) /\ faulted'
    BY <1>1, <1>4 DEF Stored
  <2>2. Garbage \in Stored' \/ acked \subseteq Stored'
    BY <2>1 DEF NodeInv, AckInv
  <2> QED BY <1>1, <2>1, <2>2, StopStep
<1> QED BY <1>3, <1>4 DEF CrashInAppend

LEMMA BootStep ==
    ASSUME NodeInv, Boot
    PROVE  NodeInv'
<1>1. /\ mode = "down" /\ mode' = "booting"
      /\ UNCHANGED <<vars, lines, partial, sealing, writing, replayed, acked,
                     reported, faulted, raced, shown, dropped>>
  BY DEF Boot
<1>2. /\ IInv' /\ Heavier' /\ TreeNow' = TreeNow /\ known' = known
      /\ UNCHANGED <<ws_checkpoint, finalized_hash>>
  BY <1>1, SameTree DEF NodeInv
<1>3. NodeTypeOK'
  BY <1>1, <1>2 DEF NodeInv, NodeTypeOK
<1>4. AckInv' /\ TwinInv'
  BY <1>1, <1>2 DEF NodeInv, AckInv, TwinInv, Stored
<1>5. StoreInv'
  <2>1. \A T : OnTrace(T) => OnTrace(T)'
    BY <1>1, <1>2 DEF OnTrace
  <2> QED BY <1>1, <2>1 DEF NodeInv, StoreInv
<1> QED BY <1>2, <1>3, <1>4, <1>5 DEF NodeInv

LEMMA ReplayLineStep ==
    ASSUME NodeInv, ReplayLine
    PROVE  NodeInv'
<1> DEFINE n == replayed + 1
           h == lines[n]
<1>1. /\ mode = "booting" /\ replayed' = replayed + 1 /\ replayed < Len(lines)
      /\ UNCHANGED <<mode, lines, partial, sealing, writing, acked, reported, faulted, raced,
                     shown, dropped>>
      /\ Replays(h)
      /\ IF h \in known THEN UNCHANGED vars ELSE AddBlock(Parent(h), h[Len(h)])
  BY DEF ReplayLine
<1>2. /\ lines \in Seq(NewBlocks \cup {Garbage}) /\ replayed \in Nat /\ Len(lines) \in Nat
      /\ n \in 1 .. Len(lines)
  BY <1>1 DEF NodeInv, NodeTypeOK
<1>3. h \in NewBlocks
  <2>1. h \in NewBlocks \cup {Garbage}
    BY <1>2, ElementOfSeq
  <2> QED BY <1>1, <2>1 DEF Replays
<1> HIDE DEF h
<1>4. /\ IInv' /\ Heavier' /\ known' = known \cup {h} /\ UNCHANGED ws_checkpoint
      /\ TreeNow' = Replayed(TreeNow, h)
  <2>0. TreeNow.known = known
    BY DEF TreeNow
  <2>1. CASE h \in known
    BY <1>1, <2>0, <2>1, SameTree DEF NodeInv, Replayed
  <2>2. CASE h \notin known
    BY <1>1, <1>3, <2>0, <2>2, TreeStep DEF NodeInv, Replayed, Top
  <2> QED BY <2>1, <2>2
<1>5. NodeTypeOK'
  <2>1. replayed' \in 0 .. Len(lines')
    BY <1>1, <1>2
  <2> QED BY <1>1, <2>1 DEF NodeInv, NodeTypeOK
<1>6. AckInv'
  <2>1. 1 .. n = 1 .. replayed \cup {n}
    BY <1>2
  <2> HIDE DEF n
  <2>2. {lines[i] : i \in 1 .. n} = {lines[i] : i \in 1 .. replayed} \cup {h}
    BY <2>1 DEF h
  <2>3. known = {Genesis} \cup {lines[i] : i \in 1 .. replayed}
    BY <1>1 DEF NodeInv, AckInv
  <2>4. known' = {Genesis} \cup {lines'[i] : i \in 1 .. replayed'}
    <3>1. replayed' = n /\ lines' = lines
      BY <1>1 DEF n
    <3>2. {lines'[i] : i \in 1 .. replayed'} = {lines[i] : i \in 1 .. n}
      BY <3>1, Zenon
    <3>3. known' = {Genesis} \cup {lines[i] : i \in 1 .. replayed} \cup {h}
      BY <1>4, <2>3
    <3> DEFINE P == {lines[i] : i \in 1 .. replayed}
    <3> HIDE DEF P
    <3>4. {lines[i] : i \in 1 .. n} = P \cup {h} /\ known' = {Genesis} \cup P \cup {h}
      BY <2>2, <3>3 DEF P
    <3> QED BY <3>2, <3>4
  <2>5. Stored' = Stored
    BY <1>1 DEF Stored
  <2> QED BY <1>1, <2>4, <2>5 DEF NodeInv, AckInv
<1>7. StoreInv'
  <2> SUFFICES ASSUME ~faulted PROVE StoreInv'
    BY <1>1 DEF StoreInv
  <2>1. PICK T : OnTrace(T)
    BY DEF NodeInv, StoreInv
  <2>2. TreeNow = T[replayed] /\ Trace(T, lines, ws_checkpoint)
    BY <1>1, <2>1 DEF OnTrace
  <2>3. T[n] = Replayed(T[n - 1], lines[n]) /\ n - 1 = replayed
    BY <1>2, <2>2 DEF Trace
  <2>4. TreeNow' = T[replayed']
    BY <1>1, <1>4, <2>2, <2>3 DEF h
  <2>5. \A u \in Threads : writing[u] = NoWrite
    BY <1>1 DEF NodeInv, NodeTypeOK
  <2>6. OnTrace(T)'
    BY <1>1, <1>4, <2>1, <2>4, <2>5 DEF OnTrace
  <2> QED BY <1>1, <2>6 DEF NodeInv, StoreInv
<1>8. TwinInv'
  <2>1. \A u \in Threads : sealing[u] = NoWrite
    BY <1>1 DEF NodeInv, NodeTypeOK
  <2> QED BY <1>1, <2>1 DEF NodeInv, TwinInv, Stored
<1> QED BY <1>4, <1>5, <1>6, <1>7, <1>8 DEF NodeInv

LEMMA BadLineStep ==
    ASSUME NodeInv, BadLine
    PROVE  NodeInv'
<1> DEFINE n == replayed + 1
<1>1. /\ mode = "booting" /\ mode' = "refused" /\ replayed < Len(lines)
      /\ ~Replays(lines[n])
      /\ UNCHANGED <<vars, lines, partial, sealing, writing, replayed, acked, reported,
                     faulted, raced, shown, dropped>>
  BY DEF BadLine, Refuse
<1>2. /\ IInv' /\ Heavier' /\ TreeNow' = TreeNow /\ known' = known
      /\ UNCHANGED <<ws_checkpoint, finalized_hash>>
  BY <1>1, SameTree DEF NodeInv
<1>3. NodeTypeOK'
  BY <1>1, <1>2 DEF NodeInv, NodeTypeOK
<1>4. AckInv' /\ TwinInv'
  BY <1>1, <1>2 DEF NodeInv, AckInv, TwinInv, Stored
<1>5. faulted
  <2> SUFFICES ASSUME ~faulted PROVE FALSE
    OBVIOUS
  <2>1. PICK T : OnTrace(T)
    BY DEF NodeInv, StoreInv
  <2>2. TreeNow = T[replayed] /\ Trace(T, lines, ws_checkpoint)
    BY <1>1, <2>1 DEF OnTrace
  <2>3. n \in 1 .. Len(lines) /\ n - 1 = replayed
    BY <1>1 DEF NodeInv, NodeTypeOK
  <2>4. lines[n] \in NewBlocks /\ Replayable(T[n - 1], ws_checkpoint, lines[n])
    BY <2>2, <2>3, ElementOfSeq DEF Trace
  <2>5. Replayable(TreeNow, ws_checkpoint, lines[n])
    BY <2>2, <2>3, <2>4
  <2> HIDE DEF n
  <2> QED BY <1>1, <2>4, <2>5, TakesAccepted DEF NodeInv
<1>6. StoreInv'
  BY <1>1, <1>5 DEF StoreInv
<1> QED BY <1>2, <1>3, <1>4, <1>6 DEF NodeInv

LEMMA ReadyStep ==
    ASSUME NodeInv, Ready
    PROVE  NodeInv'
<1>1. /\ mode = "booting" /\ mode' = "up" /\ replayed = Len(lines) /\ replayed' = 0
      /\ UNCHANGED <<vars, lines, partial, sealing, writing, acked, reported, faulted, raced,
                     shown, dropped>>
  BY DEF Ready
<1>2. /\ IInv' /\ Heavier' /\ TreeNow' = TreeNow /\ known' = known
      /\ UNCHANGED <<ws_checkpoint, finalized_hash>>
  BY <1>1, SameTree DEF NodeInv
<1>3. \A u \in Threads : writing[u] = NoWrite /\ sealing[u] = NoWrite
  BY <1>1 DEF NodeInv, NodeTypeOK
<1>4. NodeTypeOK'
  <2>1. 0 \in 0 .. Len(lines)
    BY LenProperties DEF NodeInv, NodeTypeOK
  <2> QED BY <1>1, <1>2, <1>3, <2>1 DEF NodeInv, NodeTypeOK
<1>5. known = {Genesis} \cup Stored /\ Stored' = Stored
  BY <1>1 DEF NodeInv, AckInv, Stored
<1>6. Stored \subseteq Hashes
  BY <1>5 DEF NodeInv, IInv, TypeOK
<1>7. Garbage \notin Stored
  BY <1>6, NodeAssumption
<1>8. AckInv'
  BY <1>1, <1>2, <1>5, <1>7 DEF NodeInv, AckInv
<1>9. StoreInv'
  <2> SUFFICES ASSUME ~faulted PROVE StoreInv'
    BY <1>1 DEF StoreInv
  <2>1. PICK T : OnTrace(T)
    BY DEF NodeInv, StoreInv
  <2>2. TreeNow = T[Len(lines)] /\ Ancestor(reported, T[Len(lines)].final)
    BY <1>1, <2>1 DEF OnTrace
  <2>3. Ancestor(reported, finalized_hash)
    BY <2>2 DEF TreeNow
  <2>4. OnTrace(T)'
    BY <1>1, <1>2, <1>3, <2>1, <2>2, <2>3 DEF OnTrace
  <2> QED BY <1>1, <2>4 DEF NodeInv, StoreInv
<1>10. TwinInv'
  BY <1>1, <1>2, <1>3, <1>5 DEF NodeInv, TwinInv
<1> QED BY <1>2, <1>4, <1>8, <1>9, <1>10 DEF NodeInv

LEMMA NextNode == NodeInv /\ [NodeNext]_<<vars, nodeVars>> => NodeInv'
<1> SUFFICES ASSUME NodeInv, [NodeNext]_<<vars, nodeVars>> PROVE NodeInv'
  OBVIOUS
<1>1. CASE NodeNext
  BY <1>1, SealStep, AddOwnStep, AcceptStep, PersistStep, PersistFailsStep, CrashStep,
     CrashInAppendStep, BootStep, ReplayLineStep, BadLineStep, ReadyStep DEF NodeNext
<1>2. CASE UNCHANGED <<vars, nodeVars>>
  <2>1. /\ UNCHANGED vars
        /\ UNCHANGED <<mode, lines, partial, sealing, writing, replayed, acked, reported,
                       faulted, raced, shown, dropped>>
    BY <1>2 DEF nodeVars
  <2>2. /\ IInv' /\ Heavier' /\ TreeNow' = TreeNow /\ known' = known
        /\ UNCHANGED <<ws_checkpoint, finalized_hash>>
    BY <2>1, SameTree DEF NodeInv
  <2>3. NodeTypeOK' /\ AckInv' /\ TwinInv'
    BY <2>1, <2>2 DEF NodeInv, NodeTypeOK, AckInv, TwinInv, Stored
  <2>4. StoreInv'
    <3>1. \A T : OnTrace(T) => OnTrace(T)'
      BY <2>1, <2>2 DEF OnTrace
    <3> QED BY <2>1, <3>1 DEF NodeInv, StoreInv
  <2> QED BY <2>2, <2>3, <2>4 DEF NodeInv
<1> QED BY <1>1, <1>2

LEMMA NodeInductive == NodeSpec => []NodeInv
BY InitNode, NextNode, PTL DEF NodeSpec

-----------------------------------------------------------------------------
(* The theorems *)

\* storage.py: "fsync so an accepted block isn't lost on crash".  Whatever crashes,
\* torn lines, failed writes and interleaved requests came before, and however many: a
\* node that is up has every block that produce_block or receive_block reported.
THEOREM AckedTheorem == NodeSpec => []AckedSurvive
<1>1. NodeInv => AckedSurvive
  BY DEF NodeInv, AckInv, AckedSurvive
<1> QED BY <1>1, NodeInductive, PTL

\* The finality a reply reported is never taken back by a crash, while requests come
\* one at a time and writes are whole: add_block is a function of tree and block, and
\* the file has the blocks in the order the tree took them.
THEOREM ReportedFinalityTheorem == NodeSpec => []FinalitySurvivesRestart
<1>1. NodeInv => FinalitySurvivesRestart
  BY DEF NodeInv, StoreInv, OnTrace, FinalitySurvivesRestart
<1> QED BY <1>1, NodeInductive, PTL

\* Under the same conditions the constructor of NodeService never raises on the file
\* the node wrote, and the tree of a node that is up is what the file holds.
THEOREM StoreTheorem == NodeSpec => []StoreReplays
<1>1. NodeInv => StoreReplays
  <2> SUFFICES ASSUME NodeInv, ~faulted
               PROVE  /\ mode # "refused"
                      /\ mode = "up" /\ (\A t \in Threads : writing[t] = NoWrite) =>
                            known = {Genesis} \cup {lines[i] : i \in 1 .. Len(lines)}
    BY DEF StoreReplays
  <2>1. PICK T : OnTrace(T)
    BY DEF NodeInv, StoreInv
  <2>2. ASSUME mode = "up", \A t \in Threads : writing[t] = NoWrite
        PROVE  known = {Genesis} \cup {lines[i] : i \in 1 .. Len(lines)}
    <3>1. TreeNow = T[Len(lines)] /\ Trace(T, lines, ws_checkpoint)
      BY <2>1, <2>2 DEF OnTrace
    <3>2. Len(lines) \in 0 .. Len(lines)
      BY LenProperties DEF NodeInv, NodeTypeOK
    <3>3. T[Len(lines)].known = {Genesis} \cup {lines[i] : i \in 1 .. Len(lines)}
      BY <3>1, <3>2 DEF Trace
    <3> QED BY <3>1, <3>3 DEF TreeNow
  <2> QED BY <2>2 DEF NodeInv, StoreInv
<1> QED BY <1>1, NodeInductive, PTL

\* consensus.py:498, "honest software never seals two blocks on one parent", with its
\* two exceptions: a node that has had two different own blocks on one parent in its
\* tree has had two produce_block calls at once, or has stopped between add_block and
\* a successful append of one of its blocks.  Nothing else leads there, whatever
\* crashes, torn lines, failed writes and reorganisations it goes through.
THEOREM TwinTheorem == NodeSpec => []TwinsNeedRaceOrLoss
<1>1. NodeInv => TwinsNeedRaceOrLoss
  BY DEF NodeInv, TwinInv, TwinsNeedRaceOrLoss
<1> QED BY <1>1, NodeInductive, PTL

-----------------------------------------------------------------------------
(***************************************************************************)
(* The votes of AutoVote.  The tree keeps the invariant of                 *)
(* ForkChoiceProofs, and what a branch has justified its descendants have  *)
(* justified too; while the head stays on its branch, every new vote       *)
(* therefore has both its ends at or above those of all earlier ones.      *)
(***************************************************************************)

\* Justification is inherited by the descendants, and what is finalized is justified.
JustifiedAlong ==
    \A a \in known, b \in known : Ancestor(a, b) => state[a].justified \subseteq state[b].justified
FinalJustified == \A h \in known : state[h].finalized \in state[h].justified

\* A vote was signed for two checkpoints of a branch of the tree, the lower justified on it.
SignedOn(l, h) ==
    /\ l.th \in 1 .. Len(h) /\ l.sh \in Nat /\ l.sh < l.th
    /\ l.sh \in state[h].justified
    /\ l.s = SubSeq(h, 1, l.sh) /\ l.t = SubSeq(h, 1, l.th)
SignedOnBranch == \A l \in cast : \E h \in known : SignedOn(l, h)

\* As long as the head has not left a branch, all votes are for its chain.
SignedBelowHead ==
    ~reorged => \A l \in cast : /\ l.th \in CheckpointHeights(head_hash)
                                /\ l.sh \in state[head_hash].justified

VoterInv ==
    /\ restarts \in Nat /\ reorged \in BOOLEAN
    /\ JustifiedAlong /\ FinalJustified
    /\ SignedOnBranch /\ SignedBelowHead
    /\ SurroundNeedsReorg

-----------------------------------------------------------------------------
\* A bounded set of heights has a highest one.
LEMMA HighestOf ==
    ASSUME NEW S \in SUBSET Nat, S # {}, NEW B \in Nat, \A i \in S : i <= B
    PROVE  Highest(S) \in S /\ \A j \in S : j <= Highest(S)
<1> DEFINE D == {B - i : i \in S}
<1>1. D \subseteq Nat /\ D # {}
  <2>1. PICK i : i \in S
    OBVIOUS
  <2>2. B - i \in D
    BY <2>1
  <2>3. \A j \in S : B - j \in Nat
    OBVIOUS
  <2> QED BY <2>2, <2>3
<1>2. PICK n \in D : \A m \in D : n <= m
  <2> HIDE DEF D
  <2> QED BY <1>1, LeastNatural
<1>3. PICK i \in S : n = B - i
  BY <1>2
<1>4. \A j \in S : j <= i
  <2>1. SUFFICES ASSUME NEW j \in S PROVE j <= i
    OBVIOUS
  <2>2. B - j \in D
    OBVIOUS
  <2>3. n <= B - j
    BY <1>2, <2>2
  <2> QED BY <1>3, <2>3
<1> QED BY <1>3, <1>4 DEF Highest

\* The link a vote is cast for: from a justified checkpoint of the head's branch, no lower
\* than any that is justified below the target or finalized, to its newest checkpoint.
LEMMA VoteEnds ==
    ASSUME IInv, FinalJustified, CheckpointHeights(head_hash) # {},
           Source(canonical, Target(head_hash)) < Target(head_hash)
    PROVE  LET th == Target(head_hash)
               sh == Source(canonical, th)
           IN  /\ th \in CheckpointHeights(head_hash)
               /\ \A i \in CheckpointHeights(head_hash) : i <= th
               /\ sh \in Nat /\ sh \in state[head_hash].justified
               /\ \A i \in state[head_hash].justified : i < th => i <= sh
<1> DEFINE h == head_hash
           c == state[h]
           th == Target(h)
           low == {i \in c.justified : i < th /\ i >= c.finalized}
           S == low \cup {c.finalized}
           n == Len(h)
<1>1. /\ h \in known /\ h \in Seq(Blocks) /\ n \in Nat /\ canonical = c /\ StateOK(c, n)
  BY HashesAreSeqs DEF IInv, TypeOK, CanonicalIsReplay
<1>2. c.justified \subseteq Nat /\ c.finalized \in Nat /\ c.finalized \in c.justified
      /\ c.finalized <= n /\ \A i \in c.justified : i <= n
  BY <1>1 DEF StateOK, FinalJustified
<1>3. th \in CheckpointHeights(h) /\ \A i \in CheckpointHeights(h) : i <= th
  <2>1. CheckpointHeights(h) \subseteq Nat /\ \A i \in CheckpointHeights(h) : i <= n
    BY <1>1 DEF CheckpointHeights
  <2> QED BY <1>1, <2>1, HighestOf DEF Target
<1>4. th \in Nat
  BY <1>1, <1>3 DEF CheckpointHeights
<1>5. Source(canonical, th) = Highest(S)
  BY <1>1 DEF Source
<1>6. S \subseteq Nat /\ S # {} /\ (\A i \in S : i <= n) /\ S \subseteq c.justified
      /\ \A i \in S : i >= c.finalized
  BY <1>2
<1>7. Highest(S) \in S /\ \A j \in S : j <= Highest(S)
  <2> HIDE DEF S
  <2> QED BY <1>1, <1>6, HighestOf
<1>8. ASSUME NEW i \in c.justified, i < th PROVE i <= Highest(S)
  <2>1. CASE i >= c.finalized
    BY <1>7, <1>8, <2>1
  <2>2. CASE ~(i >= c.finalized)
    <3>1. Highest(S) >= c.finalized /\ Highest(S) \in Nat /\ i \in Nat
      BY <1>2, <1>6, <1>7
    <3> QED BY <1>2, <2>2, <3>1
  <2> QED BY <2>1, <2>2
<1> HIDE DEF S, th, c
<1> QED BY <1>3, <1>5, <1>6, <1>7, <1>8 DEF th, c

\* What a block justifies and finalizes adds to what its branch had.
LEMMA AppliedJustifies ==
    ASSUME NEW c, NEW p, NEW b, Valid(c, p, b), c.finalized \in c.justified
    PROVE  /\ c.justified \subseteq Applied(c, p, b).justified
           /\ Applied(c, p, b).finalized \in Applied(c, p, b).justified
<1> DEFINE op == b.op
           signed == IF op.kind = "votes"
                     THEN {[voter |-> v, s |-> op.s, t |-> op.t] : v \in op.who} ELSE {}
           votes == c.votes \cup signed
           reached == /\ signed # {}
                      /\ Quorum(c.snapshots[op.s], VotersFor(votes, op.s, op.t), c.slashed)
<1>1. /\ Applied(c, p, b).justified = IF reached THEN c.justified \cup {op.t} ELSE c.justified
      /\ Applied(c, p, b).finalized = IF reached /\ op.t = op.s + Epoch /\ op.s > c.finalized
                                      THEN op.s ELSE c.finalized
  BY DEF Applied
<1>2. reached => op.s \in c.justified
  BY DEF Valid, VotesValid
<1> HIDE DEF reached
<1> QED BY <1>1, <1>2

LEMMA TookJustifies ==
    ASSUME IInv, IInv', JustifiedAlong, FinalJustified, NEW p, NEW b, NEW h, Took(p, b, h)
    PROVE  JustifiedAlong' /\ FinalJustified' /\ \A g \in known : state'[g] = state[g]
<1>1. /\ p \in known /\ b \in Blocks /\ h = Append(p, b) /\ h \notin known
      /\ known' = known \cup {h} /\ Valid(state[p], p, b)
      /\ state' = Put(state, h, Applied(state[p], p, b))
  BY DEF Took
<1>2. DOMAIN state = known /\ \A g \in known' : g \in Seq(Blocks)
  BY HashesAreSeqs DEF IInv, TypeOK
<1>3. state'[h] = Applied(state[p], p, b) /\ \A g \in known : state'[g] = state[g]
  BY <1>1, <1>2 DEF Put
<1>4. /\ state[p].justified \subseteq state'[h].justified
      /\ state'[h].finalized \in state'[h].justified
  BY <1>1, <1>3, AppliedJustifies DEF FinalJustified
<1>5. h \in Seq(Blocks) /\ p \in Seq(Blocks) /\ Len(h) = Len(p) + 1 /\ Ancestor(p, h)
  BY <1>1, <1>2, ParentIsAncestor
<1>6. ASSUME NEW a \in known, Ancestor(a, h) PROVE state[a].justified \subseteq state'[h].justified
  <2>1. a \in Seq(Blocks) /\ a # h
    BY <1>1, <1>2
  <2>2. Len(a) # Len(h)
    BY <1>5, <1>6, <2>1, SeqEqual DEF Ancestor
  <2>3. Len(a) <= Len(p)
    BY <1>5, <1>6, <2>1, <2>2 DEF Ancestor
  <2>4. Ancestor(a, p)
    BY <1>5, <1>6, <2>1, <2>3, AncestorsCompare
  <2> QED BY <1>1, <1>4, <2>4 DEF JustifiedAlong
<1>7. ASSUME NEW g \in known, Ancestor(h, g) PROVE FALSE
  <2>1. g \in Seq(Blocks) /\ Len(h) \in 0 .. Len(g) /\ Len(h) \in Nat
    BY <1>1, <1>2, <1>5, <1>7 DEF Ancestor
  <2>2. SubSeq(g, 1, Len(h)) \in known
    BY <2>1 DEF IInv, Rooted
  <2>3. SubSeq(g, 1, Len(h)) = h
    <3>1. SubSeq(g, 1, Len(h)) \in Seq(Blocks) /\ Len(SubSeq(g, 1, Len(h))) = Len(h)
      BY <2>1, PrefixIsAncestor
    <3>2. \A i \in 1 .. Len(h) : SubSeq(g, 1, Len(h))[i] = h[i]
      BY <1>7, <2>1 DEF Ancestor
    <3> QED BY <1>5, <3>1, <3>2, SeqEqual
  <2> QED BY <1>1, <2>2, <2>3
<1>8. JustifiedAlong'
  <2>1. SUFFICES ASSUME NEW a \in known', NEW g \in known', Ancestor(a, g)
                 PROVE  state'[a].justified \subseteq state'[g].justified
    BY DEF JustifiedAlong, Ancestor
  <2>2. CASE a \in known /\ g \in known
    BY <1>3, <2>1, <2>2 DEF JustifiedAlong
  <2>3. CASE a \in known /\ g = h
    BY <1>3, <1>6, <2>1, <2>3
  <2>4. CASE a = h /\ g \in known
    BY <1>7, <2>1, <2>4
  <2> QED BY <1>1, <2>2, <2>3, <2>4
<1>9. FinalJustified'
  BY <1>1, <1>3, <1>4 DEF FinalJustified
<1> QED BY <1>3, <1>8, <1>9

-----------------------------------------------------------------------------
\* A vote for a link whose ends are nowhere below those of the earlier votes.
LEMMA CastVoteStep ==
    ASSUME IInv, VoterInv, CastVote
    PROVE  VoterInv'
<1> DEFINE h == head_hash
           th == Target(h)
           sh == Source(canonical, th)
           l == Link(h, sh, th)
<1>1. /\ cast' = cast \cup {l} /\ voted_targets' = voted_targets \cup {th}
      /\ th \notin voted_targets /\ sh < th /\ CheckpointHeights(h) # {}
      /\ UNCHANGED <<known, state, head_hash, reorged, restarts>>
  <2>1. UNCHANGED vars /\ UNCHANGED <<reorged, restarts>> /\ CheckpointHeights(h) # {}
    BY DEF CastVote
  <2>2. /\ cast' = cast \cup {l} /\ voted_targets' = voted_targets \cup {th}
        /\ MayVote(th) /\ sh < th
    BY DEF CastVote
  <2> HIDE DEF l, th, sh
  <2> QED BY <2>1, <2>2 DEF MayVote, vars
<1>2. /\ th \in CheckpointHeights(h) /\ (\A i \in CheckpointHeights(h) : i <= th)
      /\ sh \in Nat /\ sh \in state[h].justified
      /\ \A i \in state[h].justified : i < th => i <= sh
  BY <1>1, VoteEnds DEF VoterInv
<1>3. l.th = th /\ l.sh = sh /\ l.s = SubSeq(h, 1, sh) /\ l.t = SubSeq(h, 1, th)
  BY DEF Link
<1>4. h \in known /\ h \in Seq(Blocks) /\ Len(h) \in Nat /\ th \in 1 .. Len(h)
  BY <1>2, HashesAreSeqs DEF IInv, TypeOK, CheckpointHeights
<1> HIDE DEF l, th, sh
<1>5. JustifiedAlong' /\ FinalJustified'
  BY <1>1 DEF VoterInv, JustifiedAlong, FinalJustified
<1>6. SignedOnBranch'
  <2>1. SignedOn(l, h)
    BY <1>1, <1>2, <1>3, <1>4 DEF SignedOn
  <2>2. \A m \in cast' : \E g \in known : SignedOn(m, g)
    BY <1>1, <1>4, <2>1 DEF VoterInv, SignedOnBranch
  <2> QED BY <1>1, <2>2 DEF SignedOnBranch, SignedOn
<1>7. SignedBelowHead'
  BY <1>1, <1>2, <1>3 DEF VoterInv, SignedBelowHead, CheckpointHeights
<1>8. SurroundNeedsReorg'
  <2>1. SUFFICES ASSUME ~reorged, NEW a \in cast', NEW b \in cast' PROVE ~SurroundVote(a, b)
    BY <1>1 DEF SurroundNeedsReorg
  <2>2. \A m \in cast : m.th \in Nat /\ m.sh \in Nat /\ m.sh < m.th
    BY HashesAreSeqs DEF VoterInv, SignedOnBranch, SignedOn, IInv, TypeOK
  <2>3. \A m \in cast : m.th <= th /\ m.sh <= sh
    <3>1. SUFFICES ASSUME NEW m \in cast PROVE m.th <= th /\ m.sh <= sh
      OBVIOUS
    <3>2. m.th \in CheckpointHeights(h) /\ m.sh \in state[h].justified
      BY <2>1 DEF VoterInv, SignedBelowHead
    <3>3. m.th <= th
      BY <1>2, <3>2
    <3>4. m.sh < th
      BY <1>4, <2>2, <3>3
    <3> QED BY <1>2, <3>2, <3>3, <3>4
  <2>4. CASE a \in cast /\ b \in cast
    BY <2>1, <2>4 DEF VoterInv, SurroundNeedsReorg
  <2>5. CASE a = l /\ b \in cast
    BY <1>2, <1>3, <1>4, <2>2, <2>3, <2>5 DEF SurroundVote
  <2>6. CASE a \in cast /\ b = l
    BY <1>2, <1>3, <1>4, <2>2, <2>3, <2>6 DEF SurroundVote
  <2>7. CASE a = l /\ b = l
    BY <1>2, <1>3, <1>4, <2>7 DEF SurroundVote
  <2> QED BY <1>1, <2>4, <2>5, <2>6, <2>7
<1> QED BY <1>1, <1>5, <1>6, <1>7, <1>8 DEF VoterInv

\* A block keeps what the votes rest on while the head stays on its branch.
LEMMA TakeBlockStep ==
    ASSUME IInv, IInv', VoterInv, NEW p \in known, NEW b \in Blocks, TakeBlock(p, b)
    PROVE  VoterInv'
<1>1. Took(p, b, Append(p, b))
  BY AddBlockTakes DEF TakeBlock
<1>2. JustifiedAlong' /\ FinalJustified' /\ \A g \in known : state'[g] = state[g]
  BY <1>1, TookJustifies DEF VoterInv
<1>3. /\ reorged' = (reorged \/ ~Ancestor(head_hash, head_hash'))
      /\ UNCHANGED <<cast, voted_targets, restarts>>
  BY DEF TakeBlock
<1>4. known \subseteq known'
  BY <1>1 DEF Took
<1>5. reorged' \in BOOLEAN /\ (~reorged' => ~reorged /\ Ancestor(head_hash, head_hash'))
  BY <1>3 DEF VoterInv, Ancestor
<1>6. SignedOnBranch'
  <2>1. ASSUME NEW l \in cast PROVE \E h \in known' : SignedOn(l, h)'
    <3>1. PICK h \in known : SignedOn(l, h)
      BY DEF VoterInv, SignedOnBranch
    <3>2. SignedOn(l, h)'
      BY <1>2, <3>1 DEF SignedOn
    <3> QED BY <1>4, <3>1, <3>2
  <2> QED BY <1>3, <2>1 DEF SignedOnBranch
<1>7. SignedBelowHead'
  <2>1. SUFFICES ASSUME ~reorged', NEW l \in cast
                 PROVE  /\ l.th \in CheckpointHeights(head_hash')
                        /\ l.sh \in state'[head_hash'].justified
    BY <1>3 DEF SignedBelowHead, CheckpointHeights
  <2>2. l.th \in CheckpointHeights(head_hash) /\ l.sh \in state[head_hash].justified
    BY <1>5, <2>1 DEF VoterInv, SignedBelowHead
  <2>3. /\ head_hash \in known /\ head_hash' \in known'
        /\ Len(head_hash) \in Nat /\ Len(head_hash') \in Nat
    BY HashesAreSeqs DEF IInv, TypeOK
  <2>4. Len(head_hash) <= Len(head_hash') /\ Ancestor(head_hash, head_hash')
    BY <1>5, <2>1 DEF Ancestor
  <2>5. l.th \in CheckpointHeights(head_hash')
    BY <2>2, <2>3, <2>4 DEF CheckpointHeights
  <2>6. state'[head_hash].justified \subseteq state'[head_hash'].justified
    BY <1>2, <1>4, <2>3, <2>4 DEF JustifiedAlong
  <2> QED BY <1>2, <2>2, <2>3, <2>5, <2>6
<1>8. SurroundNeedsReorg'
  BY <1>3, <1>5 DEF VoterInv, SurroundNeedsReorg
<1> QED BY <1>2, <1>3, <1>5, <1>6, <1>7, <1>8 DEF VoterInv

LEMMA RestartStep == ASSUME VoterInv, Restart PROVE VoterInv'
<1>1. /\ restarts' = restarts + 1 /\ restarts \in Nat
      /\ UNCHANGED <<known, state, head_hash, cast, reorged>>
  BY DEF Restart, vars, VoterInv
<1>2. JustifiedAlong' /\ FinalJustified' /\ SignedOnBranch' /\ SignedBelowHead'
  BY <1>1 DEF VoterInv, JustifiedAlong, FinalJustified, SignedOnBranch, SignedOn,
              SignedBelowHead, CheckpointHeights
<1>3. SurroundNeedsReorg'
  BY <1>1 DEF VoterInv, SurroundNeedsReorg
<1> QED BY <1>1, <1>2, <1>3 DEF VoterInv

LEMMA VoterSame == ASSUME VoterInv, UNCHANGED autoVars PROVE VoterInv'
BY DEF autoVars, vars, voterVars, VoterInv, JustifiedAlong, FinalJustified, SignedOnBranch,
       SignedOn, SignedBelowHead, CheckpointHeights, SurroundNeedsReorg

LEMMA VoterInvariant == AutoSpec => [](IInv /\ VoterInv)
<1>1. AutoInit => IInv /\ VoterInv
  <2> SUFFICES ASSUME AutoInit PROVE IInv /\ VoterInv
    OBVIOUS
  <2>1. IInv
    BY InitIInv DEF AutoInit
  <2>2. JustifiedAlong /\ FinalJustified
    BY DEF AutoInit, Init, JustifiedAlong, FinalJustified, GenesisState
  <2>3. SignedOnBranch /\ SignedBelowHead /\ SurroundNeedsReorg
    BY DEF AutoInit, SignedOnBranch, SignedBelowHead, SurroundNeedsReorg
  <2> QED BY <2>1, <2>2, <2>3 DEF VoterInv, AutoInit
<1>2. IInv /\ VoterInv /\ [AutoNext]_autoVars => IInv' /\ VoterInv'
  <2> SUFFICES ASSUME IInv, VoterInv, [AutoNext]_autoVars PROVE IInv' /\ VoterInv'
    OBVIOUS
  <2>1. CASE CastVote
    <3>1. UNCHANGED vars
      BY <2>1 DEF CastVote
    <3> QED BY <2>1, <3>1, CastVoteStep, NextIInv
  <2>2. ASSUME NEW p \in known, NEW b \in Blocks, TakeBlock(p, b) PROVE IInv' /\ VoterInv'
    <3>1. Next
      BY <2>2 DEF TakeBlock, Next
    <3>2. IInv'
      BY <3>1, NextIInv
    <3> QED BY <2>2, <3>2, TakeBlockStep
  <2>3. CASE Restart
    <3>1. UNCHANGED vars
      BY <2>3 DEF Restart
    <3> QED BY <2>3, <3>1, RestartStep, NextIInv
  <2>4. CASE UNCHANGED autoVars
    <3>1. UNCHANGED vars
      BY <2>4 DEF autoVars
    <3> QED BY <2>4, <3>1, VoterSame, NextIInv
  <2> QED BY <2>1, <2>2, <2>3, <2>4 DEF AutoNext
<1> QED BY <1>1, <1>2, PTL DEF AutoSpec

-----------------------------------------------------------------------------
\* p2p.auto_vote's "highest justified checkpoint which only rises (no surround vote)" holds
\* through any number of restarts as long as the head does not leave a branch.
THEOREM SurroundTheorem == AutoSpec => []SurroundNeedsReorg
<1>1. IInv /\ VoterInv => SurroundNeedsReorg
  BY DEF VoterInv
<1> QED BY <1>1, VoterInvariant, PTL

\* The votes of auto_vote join two checkpoints of one branch of the tree, the source of
\* which that branch has justified, as _apply_vote demands.
THEOREM JoinTheorem == AutoSpec => []VotesJoinBranch
<1>1. IInv /\ VoterInv => VotesJoinBranch
  <2> SUFFICES ASSUME IInv, VoterInv, NEW l \in cast
               PROVE  /\ Ancestor(l.s, l.t)
                      /\ \E h \in known : Ancestor(l.t, h) /\ l.sh \in state[h].justified
    BY DEF VotesJoinBranch
  <2>1. PICK h \in known : SignedOn(l, h)
    BY DEF VoterInv, SignedOnBranch
  <2>2. h \in Seq(Blocks) /\ Len(h) \in Nat
    BY HashesAreSeqs DEF IInv, TypeOK
  <2>3. l.th \in 0 .. Len(h) /\ l.sh \in 0 .. Len(h) /\ l.sh <= l.th
    BY <2>1, <2>2 DEF SignedOn
  <2>4. /\ l.t \in Seq(Blocks) /\ Len(l.t) = l.th /\ Ancestor(l.t, h)
        /\ l.s \in Seq(Blocks) /\ Len(l.s) = l.sh /\ Ancestor(l.s, h)
    BY <2>1, <2>2, <2>3, PrefixIsAncestor DEF SignedOn
  <2>5. Ancestor(l.s, l.t)
    BY <2>2, <2>3, <2>4, AncestorsCompare
  <2> QED BY <2>1, <2>4, <2>5 DEF SignedOn
<1> QED BY <1>1, VoterInvariant, PTL
=============================================================================
