-------------------------- MODULE DeploymentProofs --------------------------
(***************************************************************************)
(* Proofs about the two ways to bring up a network, for every number of    *)
(* directories, runs, jobs and blocks, every epoch and every arguments.    *)
(*                                                                         *)
(* A chain advanced by workflow jobs is always paced by its checkpoints:   *)
(* the newest justified one is at most an epoch below the head, and the    *)
(* finalized one exactly an epoch below it.  The launchers keep the files  *)
(* in step with their own variables between the writes, and the genesis of *)
(* the first directory stands in the way of everything a later run would   *)
(* do to the others.                                                       *)
(***************************************************************************)
EXTENDS Deployment, SumTheorems, SequenceTheorems

-----------------------------------------------------------------------------
(* The chain in the repository *)

Votes == [s : Nat, t : Nat] \cup {NoVote}
Chains ==
    [validator : Secrets, blocks : Seq([job : Nat, vote : Votes]),
     justified : SUBSET Nat, seen : SUBSET Nat, finalized : Nat]

\* The k-th checkpoint is the newest one that is justified.
Paced(c, k) ==
    /\ k * EPOCH \in c.justified
    /\ \A h \in c.justified : h <= k * EPOCH
    /\ \A h \in c.seen : h <= k * EPOCH
    /\ k > 0 => k * EPOCH \in c.seen
    /\ k * EPOCH <= Len(c.blocks) /\ Len(c.blocks) <= k * EPOCH + EPOCH
    /\ k = 0 => c.finalized = 0
    /\ k > 0 => c.finalized + EPOCH = k * EPOCH

ChainOK(c) == c \in Chains /\ \E k \in Nat : Paced(c, k)

\* Chain d continues chain c.
Continues(c, d) ==
    /\ d.validator = c.validator
    /\ Len(d.blocks) >= Len(c.blocks)
    /\ SubSeq(d.blocks, 1, Len(c.blocks)) = c.blocks
    /\ d.finalized >= c.finalized

CronInv ==
    /\ jobs \in Nat
    /\ repo # NoChain => ChainOK(repo)
    /\ job # "none" => ChainOK(work) /\ (repo # NoChain => Continues(repo, work))

-----------------------------------------------------------------------------
\* Between two checkpoints, the lower one is the newest.
LEMMA NewestCheckpoint ==
    ASSUME NEW E \in Nat, E > 0, NEW k \in Nat, NEW n \in Nat, k * E <= n, n < k * E + E
    PROVE  n \div E = k
<1> DEFINE q == n \div E
<1>1. q \in Nat /\ q * E <= n /\ n < q * E + E
  BY Z3
<1> HIDE DEF q
<1>2. ASSUME q < k PROVE FALSE
  <2>1. (q + 1) * E <= k * E
    BY <1>1, <1>2, Z3
  <2>2. (q + 1) * E = q * E + E
    BY <1>1, Z3
  <2>3. q * E \in Nat /\ k * E \in Nat
    BY <1>1, Z3
  <2> QED BY <1>1, <2>1, <2>2, <2>3
<1>3. ASSUME q > k PROVE FALSE
  <2>1. (k + 1) * E <= q * E
    BY <1>1, <1>3, Z3
  <2>2. (k + 1) * E = k * E + E
    BY <1>1, Z3
  <2>3. q * E \in Nat /\ k * E \in Nat
    BY <1>1, Z3
  <2> QED BY <1>1, <2>1, <2>2, <2>3
<1>4. q = k
  BY <1>1, <1>2, <1>3
<1> QED BY <1>4 DEF q

LEMMA Epoch == EPOCH \in Nat /\ EPOCH > 0
BY GhChainAssumption

LEMMA EpochTimes == \A k \in Nat : k * EPOCH \in Nat /\ (k + 1) * EPOCH = k * EPOCH + EPOCH
BY Epoch, Z3

\* A continued chain is continued by what continues it.
LEMMA ContinuesTransitive ==
    ASSUME NEW c \in Chains, NEW d \in Chains, NEW e \in Chains, Continues(c, d), Continues(d, e)
    PROVE  Continues(c, e)
<1> DEFINE B == [job : Nat, vote : Votes]
<1>1. c.blocks \in Seq(B) /\ d.blocks \in Seq(B) /\ e.blocks \in Seq(B)
  BY DEF Chains
<1>2. /\ Len(c.blocks) \in Nat /\ Len(d.blocks) \in Nat /\ Len(e.blocks) \in Nat
      /\ c.finalized \in Nat /\ d.finalized \in Nat /\ e.finalized \in Nat
  BY <1>1 DEF Chains
<1>3. /\ Len(c.blocks) <= Len(d.blocks) /\ Len(d.blocks) <= Len(e.blocks)
      /\ SubSeq(d.blocks, 1, Len(c.blocks)) = c.blocks
      /\ SubSeq(e.blocks, 1, Len(d.blocks)) = d.blocks
  BY <1>2 DEF Continues
<1>4. SubSeq(e.blocks, 1, Len(c.blocks)) = c.blocks
  <2> DEFINE cb == c.blocks
             db == d.blocks
             eb == e.blocks
  <2> HIDE DEF B, cb, db, eb
  <2>1. \A i \in 1 .. Len(cb) : cb[i] = db[i]
    BY <1>1, <1>2, <1>3 DEF cb, db
  <2>2. \A i \in 1 .. Len(db) : db[i] = eb[i]
    BY <1>1, <1>2, <1>3 DEF db, eb
  <2>3. \A i \in 1 .. Len(cb) : cb[i] = eb[i]
    BY <1>2, <1>3, <2>1, <2>2 DEF cb, db
  <2> QED BY <1>1, <1>2, <1>3, <2>3 DEF cb, db, eb
<1> QED BY <1>2, <1>3, <1>4 DEF Continues

\* The vote that the next block of a paced chain carries: from the newest justified
\* checkpoint to the next one when the head has reached it, and none before.
LEMMA NextVote ==
    ASSUME NEW c \in Chains, NEW k \in Nat, Paced(c, k)
    PROVE  Queued(c) = IF Len(c.blocks) = k * EPOCH + EPOCH
                       THEN [s |-> k * EPOCH, t |-> k * EPOCH + EPOCH] ELSE NoVote
<1> DEFINE m == k * EPOCH
           n == Len(c.blocks)
<1>1. n \in Nat /\ m \in Nat /\ (k + 1) * EPOCH = m + EPOCH /\ k + 1 \in Nat
  BY EpochTimes DEF Chains
<1>2. m <= n /\ n <= m + EPOCH
  BY DEF Paced
<1>3. CASE n = m + EPOCH
  <2>1. n \div EPOCH = k + 1
    BY <1>1, <1>3, Epoch, NewestCheckpoint
  <2>2. Target(c) = m + EPOCH
    BY <1>1, <2>1 DEF Target
  <2> DEFINE below == {h \in c.justified : h < Target(c) /\ h >= c.finalized}
  <2>3. m \in below /\ \A h \in below : h <= m
    <3>1. m \in c.justified /\ m < m + EPOCH /\ c.finalized \in Nat
      BY <1>1, Epoch DEF Paced, Chains
    <3>2. m >= c.finalized
      BY <1>1, <3>1, Epoch DEF Paced
    <3> QED BY <2>2, <3>1, <3>2 DEF Paced
  <2>4. below \subseteq Nat
    BY DEF Chains
  <2>5. Source(c) = m
    <3>1. Source(c) = CHOOSE h \in below : \A g \in below : g <= h
      BY <2>3 DEF Source
    <3> HIDE DEF below, m
    <3>2. \A h \in below : (\A g \in below : g <= h) => h = m
      BY <2>3, <2>4, <1>1
    <3> QED BY <2>3, <3>1, <3>2
  <2>6. Target(c) \notin c.seen
    BY <1>1, <2>2, Epoch DEF Paced, Chains
  <2>7. Target(c) > 0 /\ Source(c) < Target(c)
    BY <1>1, <2>2, <2>5, Epoch
  <2> QED BY <1>3, <2>2, <2>5, <2>6, <2>7 DEF Queued
<1>4. CASE n # m + EPOCH
  <2>1. n \div EPOCH = k
    <3>1. n < m + EPOCH
      BY <1>1, <1>2, <1>4, Epoch
    <3> QED BY <1>1, <1>2, <3>1, Epoch, NewestCheckpoint
  <2>2. Target(c) = m
    BY <2>1 DEF Target
  <2>3. ~(Target(c) > 0 /\ Target(c) \notin c.seen)
    <3>1. k = 0 => m = 0
      BY Epoch
    <3>2. k > 0 => m \in c.seen
      BY DEF Paced
    <3> HIDE DEF m
    <3> QED BY <1>1, <2>2, <3>1, <3>2
  <2> QED BY <1>4, <2>3 DEF Queued
<1> QED BY <1>3, <1>4

\* A block on a paced chain leaves it paced, and continues it.
LEMMA ProducedPaced ==
    ASSUME NEW c, ChainOK(c), jobs \in Nat
    PROVE  ChainOK(Produced(c, Queued(c))) /\ Continues(c, Produced(c, Queued(c)))
<1> DEFINE v == Queued(c)
           d == Produced(c, v)
           b == [job |-> jobs, vote |-> v]
           B == [job : Nat, vote : Votes]
<1>1. c \in Chains
  BY DEF ChainOK
<1>2. PICK k \in Nat : Paced(c, k)
  BY DEF ChainOK
<1> DEFINE m == k * EPOCH
           n == Len(c.blocks)
<1>3. /\ n \in Nat /\ m \in Nat /\ (k + 1) * EPOCH = m + EPOCH /\ k + 1 \in Nat
      /\ c.finalized \in Nat /\ c.blocks \in Seq(B) /\ c.justified \in SUBSET Nat
      /\ c.seen \in SUBSET Nat /\ c.validator \in Secrets
  <2>1. c.blocks \in Seq(B)
    BY <1>1 DEF Chains
  <2>2. n \in Nat
    BY <2>1
  <2>3. m \in Nat /\ (k + 1) * EPOCH = m + EPOCH /\ k + 1 \in Nat
    BY EpochTimes
  <2> QED BY <1>1, <2>1, <2>2, <2>3 DEF Chains
<1>4. v = IF n = m + EPOCH THEN [s |-> m, t |-> m + EPOCH] ELSE NoVote
  BY <1>1, <1>2, NextVote
<1>5. v \in Votes
  BY <1>3, <1>4, Epoch DEF Votes
<1>6. b \in B
  BY <1>5
<1>7. /\ d.blocks = Append(c.blocks, b)
      /\ d.validator = c.validator
      /\ d.justified = IF v = NoVote THEN c.justified ELSE c.justified \cup {v.t}
      /\ d.seen = IF v = NoVote THEN c.seen ELSE c.seen \cup {v.t}
      /\ d.finalized = IF v # NoVote /\ v.t = v.s + EPOCH /\ v.s > c.finalized
                       THEN v.s ELSE c.finalized
  <2> HIDE DEF v
  <2> QED BY <1>1 DEF Produced, Chains
<1>8. d.blocks \in Seq(B) /\ Len(d.blocks) = n + 1
  <2> HIDE DEF B, b, v, d
  <2> QED BY <1>3, <1>6, <1>7
<1>9. SubSeq(d.blocks, 1, n) = c.blocks
  <2> HIDE DEF B, b, v, d
  <2> QED BY <1>3, <1>6, <1>7
<1>10. /\ v = NoVote => n # m + EPOCH
       /\ v # NoVote => n = m + EPOCH /\ v.s = m /\ v.t = m + EPOCH
  <2>1. [s |-> m, t |-> m + EPOCH] # NoVote
    BY <1>3, Epoch, GhChainAssumption
  <2> HIDE DEF v
  <2> QED BY <1>4, <2>1
<1>11. c.finalized <= m /\ (k > 0 => c.finalized < m) /\ (k = 0 => m = 0 /\ c.finalized = 0)
  <2>1. k = 0 => m = 0
    BY Epoch
  <2> HIDE DEF m
  <2> QED BY <1>2, <1>3, <2>1, Epoch DEF Paced, m
<1>12. m \in c.justified /\ (\A h \in c.justified : h <= m) /\ (\A h \in c.seen : h <= m)
        /\ (k > 0 => m \in c.seen) /\ m <= n /\ n <= m + EPOCH
        /\ (k > 0 => c.finalized + EPOCH = m)
  BY <1>2 DEF Paced
<1> HIDE DEF v, d, b, B
<1>13. \E j \in Nat : Paced(d, j)
  <2>1. CASE v = NoVote
    <3>1. Paced(d, k)
      <4>1. /\ d.justified = c.justified /\ d.seen = c.seen /\ d.finalized = c.finalized
            /\ Len(d.blocks) = n + 1 /\ n # m + EPOCH
        BY <2>1, <1>7, <1>8, <1>10
      <4>2. m <= Len(d.blocks) /\ Len(d.blocks) <= m + EPOCH
        <5> HIDE DEF m, n
        <5> QED BY <4>1, <1>3, <1>12, Epoch
      <4> QED BY <4>1, <4>2, <1>11, <1>12 DEF Paced
    <3> QED BY <3>1
  <2>2. CASE v # NoVote
    <3>1. /\ d.justified = c.justified \cup {m + EPOCH} /\ d.seen = c.seen \cup {m + EPOCH}
          /\ d.finalized = IF m > c.finalized THEN m ELSE c.finalized
      BY <2>2, <1>7, <1>10
    <3>2. d.finalized = m
      BY <3>1, <1>3, <1>11
    <3>3. Len(d.blocks) = m + EPOCH + 1
      BY <2>2, <1>8, <1>10
    <3>4. k + 1 > 0 /\ k + 1 # 0
      OBVIOUS
    <3>5. \A h \in d.justified : h <= m + EPOCH
      BY <3>1, <1>3, <1>12, Epoch
    <3>6. \A h \in d.seen : h <= m + EPOCH
      BY <3>1, <1>3, <1>12, Epoch
    <3>7. m + EPOCH <= Len(d.blocks) /\ Len(d.blocks) <= m + EPOCH + EPOCH
      BY <3>3, <1>3, Epoch
    <3>8. (k + 1) * EPOCH = m + EPOCH
      BY <1>3
    <3> HIDE DEF m
    <3>9. Paced(d, k + 1)
      BY <3>1, <3>2, <3>4, <3>5, <3>6, <3>7, <3>8 DEF Paced
    <3> QED BY <3>9, <1>3
  <2> QED BY <2>1, <2>2
<1>14. d.justified \in SUBSET Nat /\ d.seen \in SUBSET Nat /\ d.finalized \in Nat
  <2>1. v # NoVote => v.t \in Nat /\ v.s \in Nat
    BY <1>3, <1>10, Epoch
  <2> QED BY <1>3, <1>7, <2>1
<1>15. d \in Chains
  <2> DEFINE d1 == [c EXCEPT !.blocks = d.blocks]
             d2 == [d1 EXCEPT !.justified = d.justified]
             d3 == [d2 EXCEPT !.seen = d.seen]
             d4 == [d3 EXCEPT !.finalized = d.finalized]
  <2>1. d1 \in Chains
    BY <1>1, <1>8 DEF Chains, B
  <2>2. d2 \in Chains
    <3> HIDE DEF d1
    <3> QED BY <2>1, <1>14 DEF Chains
  <2>3. d3 \in Chains
    <3> HIDE DEF d2
    <3> QED BY <2>2, <1>14 DEF Chains
  <2>4. d4 \in Chains
    <3> HIDE DEF d3
    <3> QED BY <2>3, <1>14 DEF Chains
  <2>5. d = d4
    BY <1>1, <1>7 DEF d, Produced, Chains
  <2> QED BY <2>4, <2>5
<1>16. Continues(c, d)
  <2>1. d.finalized >= c.finalized
    BY <1>3, <1>7, <1>10
  <2> QED BY <1>3, <1>7, <1>8, <1>9, <2>1 DEF Continues
<1>17. ChainOK(d)
  BY <1>13, <1>15 DEF ChainOK
<1> QED BY <1>16, <1>17 DEF d, v

LEMMA GenesisPaced == \A v \in Secrets : ChainOK(GenesisOf(v))
<1> SUFFICES ASSUME NEW v \in Secrets PROVE ChainOK(GenesisOf(v))
  OBVIOUS
<1> DEFINE g == GenesisOf(v)
<1>1. << >> \in Seq([job : Nat, vote : Votes]) /\ Len(<< >>) = 0
  OBVIOUS
<1>2. g \in Chains
  BY <1>1 DEF GenesisOf, Chains
<1>3. 0 * EPOCH = 0
  BY Epoch
<1>4. Paced(g, 0)
  BY <1>1, <1>3, Epoch DEF GenesisOf, Paced
<1> QED BY <1>2, <1>4 DEF ChainOK

LEMMA ContinuesItself == \A c : ChainOK(c) => Continues(c, c)
<1> SUFFICES ASSUME NEW c, ChainOK(c) PROVE Continues(c, c)
  OBVIOUS
<1>1. c.blocks \in Seq([job : Nat, vote : Votes]) /\ c.finalized \in Nat
  BY DEF ChainOK, Chains
<1>2. Len(c.blocks) \in Nat /\ SubSeq(c.blocks, 1, Len(c.blocks)) = c.blocks
  BY <1>1
<1> QED BY <1>1, <1>2 DEF Continues

LEMMA CronStep == ASSUME CronInv, CronNext PROVE CronInv'
<1>1. CASE InitJob
  <2>1. PICK v \in Secrets : work' = Initialised(v)
    BY <1>1 DEF InitJob
  <2>2. jobs' \in Nat /\ repo' = repo
    BY <1>1 DEF InitJob, Checkout, CronInv
  <2>3. ChainOK(work')
    BY <2>1, GenesisPaced DEF Initialised, CronInv
  <2>4. repo # NoChain => Continues(repo, work')
    BY <2>1, ContinuesItself DEF Initialised, CronInv
  <2> QED BY <2>2, <2>3, <2>4 DEF CronInv, ChainOK
<1>2. ASSUME NEW n \in Blocks, TickJob(n) PROVE CronInv'
  <2>1. jobs' \in Nat /\ repo' = repo /\ work' = repo /\ repo # NoChain
    BY <1>2 DEF TickJob, Checkout, CronInv
  <2>2. ChainOK(repo) /\ Continues(repo, repo)
    BY <2>1, ContinuesItself DEF CronInv
  <2> QED BY <2>1, <2>2 DEF CronInv
<1>3. CASE Round
  <2>1. repo' = repo /\ jobs' = jobs /\ jobs \in Nat
    BY <1>3 DEF Round, CronInv
  <2>2. ChainOK(work) /\ (repo # NoChain => Continues(repo, work) /\ ChainOK(repo))
    BY <1>3 DEF Round, CronInv
  <2>3. CASE work' = work
    BY <1>3, <2>1, <2>2, <2>3 DEF CronInv
  <2>4. CASE work' = Produced(work, Queued(work))
    <3>1. ChainOK(work') /\ Continues(work, work')
      BY <2>1, <2>2, <2>4, ProducedPaced
    <3>2. repo # NoChain => Continues(repo, work')
      BY <2>2, <3>1, ContinuesTransitive DEF ChainOK
    <3> QED BY <2>1, <2>2, <3>1, <3>2 DEF CronInv
  <2> QED BY <1>3, <2>3, <2>4 DEF Round
<1>4. CASE TickDone
  BY <1>4 DEF TickDone, CronInv
<1>5. CASE Push
  BY <1>5 DEF Push, EndJob, CronInv
<1>6. CASE Lost
  BY <1>6 DEF Lost, EndJob, CronInv
<1> QED BY <1>1, <1>2, <1>3, <1>4, <1>5, <1>6 DEF CronNext

LEMMA CronSame == ASSUME CronInv, UNCHANGED cronVars PROVE CronInv'
BY DEF CronInv, cronVars

LEMMA CronInvariant == DeploySpec => []CronInv
<1>1. DeployInit => CronInv
  BY DEF DeployInit, CronInit, CronInv
<1>2. CronInv /\ [DeployNext]_deployVars => CronInv'
  <2> SUFFICES ASSUME CronInv, [DeployNext]_deployVars PROVE CronInv'
    OBVIOUS
  <2>1. CronNext \/ UNCHANGED cronVars
    BY DEF DeployNext, deployVars
  <2> QED BY <2>1, CronStep, CronSame
<1> QED BY <1>1, <1>2, PTL DEF DeploySpec

\* gh_chain.py's "small epoch -> finality advances within a few cron cycles": the
\* published head is at most two epochs above the finalized checkpoint, for every
\* epoch length, whatever jobs were lost, cancelled or run with another secret.
THEOREM KeepsUpTheorem == DeploySpec => []FinalityKeepsUp
<1>1. CronInv => FinalityKeepsUp
  <2> SUFFICES ASSUME CronInv, repo # NoChain PROVE Len(repo.blocks) <= repo.finalized + 2 * EPOCH
    BY DEF FinalityKeepsUp
  <2>1. repo \in Chains
    BY DEF CronInv, ChainOK
  <2>2. PICK k \in Nat : Paced(repo, k)
    BY DEF CronInv, ChainOK
  <2> DEFINE m == k * EPOCH
  <2>3. m \in Nat /\ (k = 0 => m = 0)
    BY Epoch
  <2>4. repo.finalized \in Nat /\ Len(repo.blocks) \in Nat
    BY <2>1 DEF Chains
  <2>5. Len(repo.blocks) <= m + EPOCH /\ (k > 0 => repo.finalized + EPOCH = m)
    BY <2>2 DEF Paced
  <2> HIDE DEF m
  <2> QED BY <2>3, <2>4, <2>5, Epoch
<1> QED BY <1>1, CronInvariant, PTL

\* A published chain is only ever continued (cmd_tick, cmd_init and git push): a new
\* version has the same validator, starts with the old blocks and finalizes no less.
THEOREM PublishedTheorem == DeploySpec => PublishedOnlyGrows
<1> DEFINE A == repo # NoChain =>
          /\ repo'.validator = repo.validator
          /\ Len(repo'.blocks) >= Len(repo.blocks)
          /\ SubSeq(repo'.blocks, 1, Len(repo.blocks)) = repo.blocks
          /\ repo'.finalized >= repo.finalized
<1>1. CronInv /\ [DeployNext]_deployVars => [A]_cronVars
  <2> SUFFICES ASSUME CronInv, [DeployNext]_deployVars, repo # NoChain PROVE [A]_cronVars
    BY DEF A
  <2>1. CronNext \/ UNCHANGED cronVars
    BY DEF DeployNext, deployVars
  <2>2. ASSUME CronNext PROVE Continues(repo, repo')
    <3>1. repo' = repo \/ (repo' = work /\ job # "none")
      BY <2>2 DEF CronNext, InitJob, TickJob, Round, TickDone, Push, Lost
    <3> QED BY <3>1, ContinuesItself DEF CronInv
  <2> QED BY <2>1, <2>2 DEF Continues, A
<1> QED BY <1>1, CronInvariant, PTL DEF DeploySpec, PublishedOnlyGrows

-----------------------------------------------------------------------------
(* The launchers *)

RoleNames == {"market", "treasury", "founder"}
Current == IF program = "mainnet" THEN MainnetGenesis ELSE TestnetGenesis

\* The launcher has written a genesis in this run or is about to.
Fresh == (step = "write" /\ at > 1) \/ step \in {"replace", "spawn", "watch", "report"}

\* It is the first to write one.
Writing == (step = "write" /\ at > 1) \/ step = "replace"

LaunchTypeOK ==
    /\ program \in {"mainnet", "testnet"}
    /\ step \in {"idle", "keys", "build", "write", "replace", "spawn", "watch", "report"}
    /\ step # "idle" => args \in Arguments /\ args.program = program
    /\ step = "keys" => program = "mainnet" /\ at \in 1 .. 3
    /\ step \in {"write", "replace", "spawn"} => at \in Dirs
    /\ step = "report" => program = "mainnet"
    /\ secrets \in Nat
    /\ addr \in [RoleNames -> Nat \cup {Absent}]
    /\ DOMAIN keyfile = RoleNames
    /\ overwrote \in BOOLEAN

\* The run has made the key of the i-th role.
Made(i) == (step = "keys" /\ at > i) \/ (program = "mainnet" /\ step \notin {"idle", "keys"})

KeysOK ==
    /\ \A i \in 1 .. 3 : Made(i) =>
          /\ addr[Roles[i]] \in 1 .. secrets
          /\ keyfile[Roles[i]].secret = addr[Roles[i]]
    /\ Made(3) => addr["market"] # addr["founder"]
    /\ program = "mainnet" /\ step \notin {"idle", "keys", "build"} => StakeInRange(args.stake)

\* The first directory has a genesis if any has, all have the same one, and it is that
\* of the run that is on its way.
FilesOK ==
    /\ DOMAIN genesis \subseteq Dirs
    /\ DOMAIN genesis # {} => 1 \in DOMAIN genesis
    /\ Fresh => \A d \in DOMAIN genesis : genesis[d] = Current
    /\ Writing => DOMAIN genesis = 1 .. (at - 1)
    /\ step \in {"spawn", "watch", "report"} => DOMAIN genesis = Dirs
    /\ step = "replace" => staged = Current

ProcsOK ==
    /\ \A p \in procs :
          /\ DOMAIN p = {"dir", "run", "up", "validates", "key", "passphrase"}
          /\ p.dir \in DOMAIN genesis
          /\ program = "testnet" /\ p.validates => p.dir \in DOMAIN genesis[p.dir].initial_stakes
    /\ Writing => procs = {}
    /\ step = "spawn" => \A p \in procs : p.dir < at

\* While no keystore was overwritten, the founder's key is that of the one validator.
FounderValidates ==
    ~overwrote /\ program = "mainnet" /\ Loads(1) =>
        \/ genesis[1].initial_stakes = << >>
        \/ keyfile["founder"].secret \in DOMAIN genesis[1].initial_stakes

LaunchInv ==
    /\ LaunchTypeOK /\ KeysOK /\ FilesOK /\ ProcsOK /\ FounderValidates
    /\ OneGenesis /\ GenesisBoots /\ KeystoresOpenGenesis /\ OneProcessPerStore

-----------------------------------------------------------------------------
(* What the launchers write *)

\* The constructors accept it, or an argument that nobody checks is out of range.
Fits(g) ==
    \/ Accepted(g)
    \/ g.epoch <= 0
    \/ \E a \in DOMAIN g.vesting : g.vesting[a][2] < 0
    \/ Get(g.allocations, 0) < 0

LEMMA MainnetArguments ==
    ASSUME args \in Arguments, args.program = "mainnet"
    PROVE  /\ args.stake \in Int /\ args.epoch \in Int
           /\ args.vest_cliff \in Int /\ args.vest_duration \in Int
BY LaunchAssumption

LEMMA TestnetArguments ==
    ASSUME args \in Arguments, args.program = "testnet"
    PROVE  args.validators \in Nat
BY LaunchAssumption

\* Two different addresses share the supply, the founder's stakes and vests its own.
LEMMA MainnetFits ==
    ASSUME args \in Arguments, args.program = "mainnet", StakeInRange(args.stake),
           addr["market"] # addr["founder"]
    PROVE  /\ Fits(MainnetGenesis)
           /\ DOMAIN MainnetGenesis.allocations = {addr["market"], addr["founder"]}
           /\ DOMAIN MainnetGenesis.initial_stakes \subseteq {addr["founder"]}
           /\ \/ MainnetGenesis.initial_stakes = << >>
              \/ addr["founder"] \in DOMAIN MainnetGenesis.initial_stakes
           /\ MainnetGenesis.treasury_address = addr["treasury"]
<1> DEFINE g == MainnetGenesis
           m == addr["market"]
           f == addr["founder"]
           first == Put(<< >>, m, MARKET_SUPPLY)
           A == Put(first, f, FOUNDER_SUPPLY)
           S == IF args.stake = 0 THEN << >> ELSE Put(<< >>, f, args.stake)
           V == IF args.vest_duration > 0
                THEN Put(<< >>, f, <<FOUNDER_SUPPLY, args.vest_cliff, args.vest_duration>>)
                ELSE << >>
<1>1. /\ g.allocations = A /\ g.initial_stakes = S /\ g.vesting = V
      /\ g.treasury_address = addr["treasury"] /\ g.epoch = args.epoch
  BY DEF MainnetGenesis
<1>2. DOMAIN first = {m} /\ first[m] = 750
  BY DEF Put, MARKET_SUPPLY
<1>3. DOMAIN A = {m, f} /\ A[m] = 750 /\ A[f] = 250
  <2> HIDE DEF first, m, f
  <2>1. /\ DOMAIN A = DOMAIN first \cup {f} /\ A[f] = FOUNDER_SUPPLY
        /\ \A b \in DOMAIN first : b # f => A[b] = first[b]
    BY DEF Put
  <2>2. m # f
    BY DEF m, f
  <2> QED BY <1>2, <2>1, <2>2 DEF FOUNDER_SUPPLY
<1>4. /\ DOMAIN S \subseteq {f} /\ (S = << >> \/ f \in DOMAIN S)
      /\ f \in DOMAIN S => S[f] = args.stake
      /\ (f \in DOMAIN S => args.stake # 0)
  <2>1. DOMAIN << >> = {}
    OBVIOUS
  <2> HIDE DEF f
  <2> QED BY <2>1 DEF Put
<1>5. DOMAIN V \subseteq {f} /\ (f \in DOMAIN V => args.vest_duration > 0
        /\ V[f] = <<FOUNDER_SUPPLY, args.vest_cliff, args.vest_duration>>)
  <2>1. DOMAIN << >> = {}
    OBVIOUS
  <2> HIDE DEF f
  <2> QED BY <2>1 DEF Put
<1>6. /\ args.stake \in Int /\ args.epoch \in Int
      /\ args.vest_cliff \in Int /\ args.vest_duration \in Int
      /\ 0 <= args.stake /\ args.stake <= 250
  BY MainnetArguments DEF StakeInRange, FOUNDER_SUPPLY
<1>7. SumFunction(A) = MAX_SUPPLY
  <2> HIDE DEF A, m, f
  <2>1. Summable(A, {m, f})
    <3>1. IsFiniteSet({m, f})
      <4>1. IsFiniteSet({m} \cup {f})
        BY FS_Singleton, FS_AddElement
      <4>2. {m} \cup {f} = {m, f}
        OBVIOUS
      <4> QED BY <4>1, <4>2
    <3> QED BY <1>3, <3>1 DEF Summable
  <2>2. SumFunctionOnSet(A, {m, f}) = A[m] + SumFunctionOnSet(A, {m, f} \ {m})
    BY <2>1, SumRemove
  <2>3. {m, f} \ {m} = {f} /\ {f} \ {f} = {}
    BY DEF m, f
  <2>4. SumFunctionOnSet(A, {f}) = A[f] + SumFunctionOnSet(A, {f} \ {f})
    <3>1. Summable(A, {f})
      BY <2>1, SummableSubset
    <3> QED BY <3>1, SumRemove
  <2>5. SumFunctionOnSet(A, {m, f}) = 1000
    BY <1>3, <2>2, <2>3, <2>4, SumEmpty
  <2> QED BY <1>3, <2>5 DEF SumFunction, MAX_SUPPLY
<1>8. Fits(g)
  <2> HIDE DEF A, S, V, m, f, g
  <2>1. CASE args.epoch <= 0
    BY <1>1, <2>1 DEF Fits
  <2>2. CASE f \in DOMAIN V /\ args.vest_cliff < 0
    <3>1. V[f][2] < 0
      BY <1>5, <1>6, <2>2
    <3> QED BY <1>1, <2>2, <3>1 DEF Fits
  <2>3. CASE args.epoch > 0 /\ (f \in DOMAIN V => args.vest_cliff >= 0)
    <3>1. \A a \in DOMAIN A : A[a] >= 0
      BY <1>3
    <3>2. Get(A, f) = 250
      BY <1>3 DEF Get
    <3>3. \A a \in DOMAIN S : 0 < S[a] /\ S[a] <= Get(A, a)
      BY <1>4, <1>6, <3>2
    <3>4. ASSUME NEW a \in DOMAIN V
          PROVE  (\A i \in 1 .. 3 : V[a][i] >= 0) /\ V[a][1] <= Get(A, a)
      <4>1. a = f /\ V[f] = <<250, args.vest_cliff, args.vest_duration>>
            /\ args.vest_cliff >= 0 /\ args.vest_duration > 0
        BY <1>5, <2>3 DEF FOUNDER_SUPPLY
      <4> QED BY <1>6, <3>2, <4>1
    <3> QED BY <1>1, <1>6, <1>7, <2>3, <3>1, <3>3, <3>4 DEF Fits, Accepted
  <2> QED BY <1>6, <2>1, <2>2, <2>3
<1> HIDE DEF A, S, V
<1> QED BY <1>1, <1>3, <1>4, <1>8

\* The stakes of n equal validators add up to n stakes.
LEMMA EqualStakes ==
    ASSUME NEW f, NEW N \in Nat, \A k \in 1 .. N : f[k] = TESTNET_STAKE
    PROVE  SumFunctionOnSet(f, 1 .. N) = N * TESTNET_STAKE
<1> DEFINE Sum(n) == SumFunctionOnSet(f, 1 .. n)
           T == {n \in Nat : n <= N => Sum(n) = n * 100}
<1>1. 0 \in T
  <2>1. 1 .. 0 = {}
    OBVIOUS
  <2> QED BY <2>1, SumEmpty
<1>2. ASSUME NEW n \in Nat, n \in T PROVE n + 1 \in T
  <2>1. SUFFICES ASSUME n + 1 <= N PROVE Sum(n + 1) = (n + 1) * 100
    OBVIOUS
  <2>2. Summable(f, 1 .. (n + 1))
    <3>1. IsFiniteSet(1 .. (n + 1))
      BY FS_Interval
    <3> QED BY <2>1, <3>1 DEF Summable, TESTNET_STAKE
  <2>3. n + 1 \in 1 .. (n + 1) /\ (1 .. (n + 1)) \ {n + 1} = 1 .. n
    OBVIOUS
  <2>4. Sum(n + 1) = f[n + 1] + Sum(n)
    <3>1. Sum(n + 1) = f[n + 1] + SumFunctionOnSet(f, (1 .. (n + 1)) \ {n + 1})
      BY <2>2, <2>3, SumRemove
    <3> QED BY <2>3, <3>1
  <2>5. Sum(n) = n * 100 /\ f[n + 1] = 100
    BY <1>2, <2>1 DEF TESTNET_STAKE
  <2> HIDE DEF Sum
  <2> QED BY <2>4, <2>5
<1>3. N \in T
  <2> HIDE DEF T
  <2> QED BY <1>1, <1>2, NaturalInduction
<1> QED BY <1>3 DEF TESTNET_STAKE

\* The treasury has what the validators leave of the supply, if that is not too little.
LEMMA TestnetFits ==
    ASSUME args \in Arguments, args.program = "testnet"
    PROVE  /\ Fits(TestnetGenesis)
           /\ DOMAIN TestnetGenesis.initial_stakes = 1 .. args.validators
<1> DEFINE g == TestnetGenesis
           N == args.validators
           S == [k \in 1 .. N |-> TESTNET_STAKE]
           rest == MAX_SUPPLY - N * TESTNET_STAKE
           A == Put(S, 0, rest)
<1>1. N \in Nat
  BY TestnetArguments
<1>2. g.allocations = A /\ g.initial_stakes = S /\ g.vesting = << >> /\ g.epoch = 8
  BY DEF TestnetGenesis
<1>3. rest = 1000 - N * 100 /\ rest \in Int
  BY <1>1 DEF MAX_SUPPLY, TESTNET_STAKE
<1>4. DOMAIN S = 1 .. N /\ \A k \in 1 .. N : S[k] = 100
  BY DEF TESTNET_STAKE
<1>5. DOMAIN A = (1 .. N) \cup {0} /\ A[0] = rest /\ \A k \in 1 .. N : A[k] = 100
  <2> HIDE DEF S, rest, N
  <2> QED BY <1>1, <1>4 DEF Put
<1> HIDE DEF A, S, rest, N, g
<1>6. SumFunction(A) = MAX_SUPPLY
  <2> DEFINE D == (1 .. N) \cup {0}
  <2>1. Summable(A, D)
    <3>1. IsFiniteSet(1 .. N)
      BY <1>1, FS_Interval
    <3>2. IsFiniteSet(D)
      BY <3>1, FS_AddElement
    <3> QED BY <1>3, <1>5, <3>2 DEF Summable
  <2>2. 0 \in D /\ D \ {0} = 1 .. N
    BY <1>1
  <2>3. SumFunctionOnSet(A, D) = A[0] + SumFunctionOnSet(A, D \ {0})
    BY <2>1, <2>2, SumRemove
  <2>4. SumFunctionOnSet(A, 1 .. N) = N * 100
    BY <1>1, <1>5, EqualStakes DEF TESTNET_STAKE
  <2>5. SumFunctionOnSet(A, D) = 1000
    <3> HIDE DEF D
    <3>1. SumFunctionOnSet(A, D) = rest + N * 100
      BY <1>5, <2>2, <2>3, <2>4
    <3>2. rest + N * 100 = 1000
      BY <1>1, <1>3
    <3> QED BY <3>1, <3>2
  <2> QED BY <1>5, <2>5 DEF SumFunction, MAX_SUPPLY
<1>7. Fits(g)
  <2>1. CASE rest < 0
    <3>1. Get(A, 0) < 0
      BY <1>5, <2>1 DEF Get
    <3> QED BY <1>2, <3>1 DEF Fits
  <2>2. CASE rest >= 0
    <3>1. \A a \in DOMAIN A : A[a] >= 0
      BY <1>3, <1>5, <2>2
    <3>2. \A a \in DOMAIN S : 0 < S[a] /\ S[a] <= Get(A, a)
      BY <1>4, <1>5 DEF Get
    <3>3. DOMAIN << >> = {}
      OBVIOUS
    <3>4. Accepted(g)
      <4>1. \A a \in DOMAIN g.vesting : FALSE
        BY <1>2, <3>3
      <4>2. g.epoch > 0
        BY <1>2
      <4>3. \A a \in DOMAIN g.initial_stakes :
                0 < g.initial_stakes[a] /\ g.initial_stakes[a] <= Get(g.allocations, a)
        BY <1>2, <3>2
      <4>4. /\ \A a \in DOMAIN g.allocations : g.allocations[a] >= 0
            /\ SumFunction(g.allocations) = MAX_SUPPLY
        BY <1>2, <1>6, <3>1
      <4> QED BY <4>1, <4>2, <4>3, <4>4 DEF Accepted
    <3> QED BY <3>4 DEF Fits
  <2> QED BY <1>3, <2>1, <2>2
<1> QED BY <1>2, <1>4, <1>7 DEF g, N

-----------------------------------------------------------------------------
(* The steps of a launcher *)

\* What a step that writes no file and starts no process leaves alone.
LEMMA FilesKept ==
    ASSUME LaunchInv, UNCHANGED <<program, genesis, keyfile, overwrote>>, procs' \subseteq procs
    PROVE  /\ FounderValidates' /\ GenesisBoots' /\ KeystoresOpenGenesis' /\ OneProcessPerStore'
           /\ bundle' = bundle => OneGenesis'
<1>1. \A d : Loads(d)' <=> Loads(d)
  BY DEF Loads
<1>2. FounderValidates'
  BY <1>1 DEF LaunchInv, FounderValidates
<1>3. GenesisBoots'
  BY <1>1 DEF LaunchInv, GenesisBoots
<1>4. KeystoresOpenGenesis'
  BY <1>1 DEF LaunchInv, KeystoresOpenGenesis
<1>5. OneProcessPerStore'
  BY DEF LaunchInv, OneProcessPerStore
<1>6. bundle' = bundle => OneGenesis'
  BY <1>1 DEF LaunchInv, OneGenesis
<1> QED BY <1>2, <1>3, <1>4, <1>5, <1>6

\* The launcher ends.
LEMMA EndStep ==
    ASSUME LaunchInv, step' = "idle", OneGenesis', procs' \subseteq procs,
           UNCHANGED <<program, addr, secrets, keyfile, genesis, overwrote>>
    PROVE  LaunchInv'
<1>1. LaunchTypeOK'
  BY DEF LaunchInv, LaunchTypeOK
<1>2. KeysOK'
  BY DEF KeysOK, Made
<1>3. FilesOK'
  BY DEF LaunchInv, FilesOK, Fresh, Writing
<1>4. ProcsOK'
  BY DEF LaunchInv, ProcsOK, Writing
<1> QED BY <1>1, <1>2, <1>3, <1>4, FilesKept DEF LaunchInv

LEMMA RunStep ==
    ASSUME LaunchInv, NEW a \in Arguments, Run(a)
    PROVE  LaunchInv'
<1>1. /\ args' = a /\ a.program = program /\ at' = 1
      /\ \/ program = "mainnet" /\ step' = "keys"
         \/ program = "testnet" /\ step' = "build"
      /\ UNCHANGED <<program, addr, secrets, keyfile, staged, genesis, procs, bundle, overwrote>>
  BY DEF Run, Goto, LaunchInv, LaunchTypeOK
<1>2. LaunchTypeOK'
  BY <1>1 DEF LaunchInv, LaunchTypeOK
<1>3. KeysOK'
  BY <1>1 DEF KeysOK, Made
<1>4. FilesOK'
  BY <1>1 DEF LaunchInv, FilesOK, Fresh, Writing
<1>5. ProcsOK'
  BY <1>1 DEF LaunchInv, ProcsOK, Writing
<1> QED BY <1>1, <1>2, <1>3, <1>4, <1>5, FilesKept DEF LaunchInv

\* A new key is no earlier one; when there is a genesis beside it, this is recorded, and
\* when there is none, there is no process either.
LEMMA GenKeystoreStep == ASSUME LaunchInv, GenKeystore PROVE LaunchInv'
<1> DEFINE s == secrets + 1
           r == Roles[at]
<1>1. /\ step = "keys" /\ program = "mainnet" /\ at \in 1 .. 3
      /\ args \in Arguments /\ args.program = program
      /\ secrets \in Nat /\ DOMAIN addr = RoleNames /\ DOMAIN keyfile = RoleNames
      /\ overwrote \in BOOLEAN
  BY DEF LaunchInv, LaunchTypeOK, GenKeystore
<1>2. /\ secrets' = s /\ addr' = [addr EXCEPT ![r] = s]
      /\ keyfile' = [keyfile EXCEPT ![r] = [secret |-> s, passphrase |-> args.passphrase]]
      /\ overwrote' = (overwrote \/ Loads(1))
      /\ UNCHANGED <<program, args, staged, genesis, procs, bundle, runs>>
  BY DEF GenKeystore, NewSecret, Saved, Encrypted
<1>3. \/ at < 3 /\ step' = "keys" /\ at' = at + 1
      \/ at = 3 /\ step' = "build" /\ at' = 1
  BY <1>1 DEF GenKeystore, Goto, Roles
<1>4. r \in RoleNames
  BY <1>1 DEF Roles, RoleNames
<1>5. LaunchTypeOK'
  <2>1. addr' \in [RoleNames -> Nat \cup {Absent}]
    BY <1>1, <1>2, <1>4 DEF LaunchInv, LaunchTypeOK
  <2>2. DOMAIN keyfile' = RoleNames /\ secrets' \in Nat
    BY <1>1, <1>2
  <2>3. overwrote' \in BOOLEAN
    BY <1>1, <1>2 DEF Loads
  <2> QED BY <1>1, <1>2, <1>3, <2>1, <2>2, <2>3 DEF LaunchTypeOK
<1>6. KeysOK'
  <2>1. ASSUME NEW i \in 1 .. 3, Made(i)'
        PROVE  addr'[Roles[i]] \in 1 .. secrets' /\ keyfile'[Roles[i]].secret = addr'[Roles[i]]
    <3>1. i <= at
      BY <1>1, <1>3, <2>1 DEF Made
    <3>2. CASE i = at
      BY <1>1, <1>2, <1>4, <3>2
    <3>3. CASE i < at
      <4>1. Made(i)
        BY <1>1, <3>3 DEF Made
      <4>2. addr[Roles[i]] \in 1 .. secrets /\ keyfile[Roles[i]].secret = addr[Roles[i]]
        BY <4>1 DEF LaunchInv, KeysOK
      <4>3. Roles[i] # r /\ Roles[i] \in RoleNames
        BY <1>1, <3>3 DEF Roles, RoleNames
      <4> QED BY <1>1, <1>2, <4>2, <4>3
    <3> QED BY <1>1, <3>1, <3>2, <3>3
  <2>2. Made(3)' => addr'["market"] # addr'["founder"]
    <3>1. SUFFICES ASSUME Made(3)' PROVE addr'["market"] # addr'["founder"]
      OBVIOUS
    <3>2. at = 3
      BY <1>1, <1>3, <3>1 DEF Made
    <3>3. Made(1)
      BY <1>1, <3>2 DEF Made
    <3>4. addr["market"] \in 1 .. secrets
      BY <3>3 DEF LaunchInv, KeysOK, Roles
    <3>5. r = "founder"
      BY <3>2 DEF Roles
    <3>6. addr'["market"] = addr["market"] /\ addr'["founder"] = s
      BY <1>1, <1>2, <3>5 DEF RoleNames
    <3> QED BY <1>1, <3>4, <3>6
  <2>3. step' \in {"keys", "build"}
    BY <1>3
  <2> QED BY <2>1, <2>2, <2>3 DEF KeysOK
<1>7. FilesOK'
  BY <1>2, <1>3 DEF LaunchInv, FilesOK, Fresh, Writing
<1>8. ProcsOK'
  BY <1>2, <1>3 DEF LaunchInv, ProcsOK, Writing
<1>9. \A d : Loads(d)' <=> Loads(d)
  BY <1>2 DEF Loads
<1>10. ~overwrote' => ~Loads(1)' /\ procs' = {}
  <2>1. ~overwrote' => ~Loads(1)
    BY <1>1, <1>2
  <2>2. ~Loads(1) => procs = {}
    BY DEF Loads, LaunchInv, FilesOK, ProcsOK
  <2> QED BY <1>2, <1>9, <2>1, <2>2
<1>11. FounderValidates' /\ KeystoresOpenGenesis'
  BY <1>10 DEF FounderValidates, KeystoresOpenGenesis
<1>12. GenesisBoots' /\ OneGenesis' /\ OneProcessPerStore'
  BY <1>2, <1>9 DEF LaunchInv, GenesisBoots, OneGenesis, OneProcessPerStore
<1> QED BY <1>5, <1>6, <1>7, <1>8, <1>11, <1>12 DEF LaunchInv

\* The keys of a mainnet run are made when it comes to the genesis.
LEMMA KeysMade ==
    ASSUME LaunchInv, program = "mainnet", step \notin {"idle", "keys"}
    PROVE  /\ addr["market"] # addr["founder"]
           /\ keyfile["market"].secret = addr["market"]
           /\ keyfile["treasury"].secret = addr["treasury"]
           /\ keyfile["founder"].secret = addr["founder"]
<1>1. \A i \in 1 .. 3 : Made(i)
  BY DEF Made
<1>2. \A i \in 1 .. 3 : keyfile[Roles[i]].secret = addr[Roles[i]]
  BY <1>1 DEF LaunchInv, KeysOK
<1>3. Roles[1] = "market" /\ Roles[2] = "treasury" /\ Roles[3] = "founder"
  BY DEF Roles
<1> QED BY <1>1, <1>2, <1>3 DEF LaunchInv, KeysOK

LEMMA BuildStep == ASSUME LaunchInv, BuildGenesis PROVE LaunchInv'
<1>1. /\ step = "build" /\ at' = 1
      /\ \/ step' = "idle"
         \/ step' = "write" /\ (program = "mainnet" => StakeInRange(args.stake))
      /\ UNCHANGED <<program, args, addr, secrets, keyfile, staged, genesis, procs, bundle,
                     overwrote>>
  BY DEF BuildGenesis, Goto
<1>2. /\ FounderValidates' /\ GenesisBoots' /\ KeystoresOpenGenesis' /\ OneProcessPerStore'
      /\ OneGenesis'
  BY <1>1, FilesKept
<1>3. CASE step' = "idle"
  BY <1>1, <1>2, <1>3, EndStep
<1>4. CASE step' = "write"
  <2>1. LaunchTypeOK'
    <3>1. 1 \in Dirs
      BY LaunchAssumption DEF Dirs
    <3> QED BY <1>1, <1>4, <3>1 DEF LaunchInv, LaunchTypeOK
  <2>2. KeysOK'
    <3>1. \A i \in 1 .. 3 : Made(i)' => Made(i)
      BY <1>1, <1>4 DEF Made
    <3> QED BY <1>1, <1>4, <3>1 DEF LaunchInv, KeysOK, StakeInRange
  <2>3. FilesOK'
    BY <1>1, <1>4 DEF LaunchInv, FilesOK, Fresh, Writing
  <2>4. ProcsOK'
    BY <1>1, <1>4 DEF LaunchInv, ProcsOK, Writing
  <2> QED BY <1>2, <2>1, <2>2, <2>3, <2>4 DEF LaunchInv
<1> QED BY <1>1, <1>3, <1>4

LEMMA RefuseStep == ASSUME LaunchInv, RefuseGenesis PROVE LaunchInv'
<1>1. /\ step' = "idle"
      /\ UNCHANGED <<program, addr, secrets, keyfile, genesis, procs, bundle, overwrote>>
  BY DEF RefuseGenesis, GenesisExists, Goto
<1> QED BY <1>1, FilesKept, EndStep

\* What KeysOK says between the genesis and the end of a run.
LEMMA KeysKept ==
    ASSUME LaunchInv, step \notin {"idle", "keys", "build"}, step' \notin {"idle", "keys", "build"},
           UNCHANGED <<program, args, addr, secrets, keyfile>>
    PROVE  KeysOK' /\ Current' = Current
<1>1. \A i \in 1 .. 3 : Made(i)' => Made(i)
  BY DEF Made
<1>2. Current' = Current
  BY DEF Current, MainnetGenesis, TestnetGenesis
<1>3. KeysOK'
  BY <1>1 DEF LaunchInv, KeysOK, StakeInRange
<1> QED BY <1>2, <1>3

\* Without a genesis in the first directory no directory has one, and no process runs.
LEMMA StageStep == ASSUME LaunchInv, StageGenesis PROVE LaunchInv'
<1>1. /\ step = "write" /\ step' = "replace" /\ at' = at /\ staged' = Current /\ ~Loads(at)
      /\ UNCHANGED <<program, args, addr, secrets, keyfile, genesis, procs, bundle, overwrote>>
  BY DEF StageGenesis, Goto, Current
<1>2. at \in 1 .. Nodes /\ Nodes \in Nat
  BY <1>1, LaunchAssumption DEF LaunchInv, LaunchTypeOK, Dirs
<1>3. KeysOK' /\ Current' = Current
  BY <1>1, KeysKept
<1>4. LaunchTypeOK'
  BY <1>1 DEF LaunchInv, LaunchTypeOK
<1>5. at = 1 => DOMAIN genesis = {} /\ procs = {}
  BY <1>1 DEF Loads, LaunchInv, FilesOK, ProcsOK
<1>6. at > 1 => Fresh /\ Writing
  BY <1>1 DEF Fresh, Writing
<1>7. DOMAIN genesis = 1 .. (at - 1) /\ procs = {} /\ \A d \in DOMAIN genesis : genesis[d] = Current
  <2>1. CASE at = 1
    BY <1>5, <2>1
  <2>2. CASE at > 1
    BY <1>6, <2>2 DEF LaunchInv, FilesOK, ProcsOK
  <2> QED BY <1>2, <2>1, <2>2
<1>8. FilesOK'
  BY <1>1, <1>3, <1>7 DEF LaunchInv, FilesOK, Fresh
<1>9. ProcsOK'
  BY <1>1, <1>7 DEF LaunchInv, ProcsOK
<1> QED BY <1>1, <1>3, <1>4, <1>8, <1>9, FilesKept DEF LaunchInv

\* The genesis a run writes, whichever launcher it is.
LEMMA CurrentFits ==
    ASSUME LaunchInv, step \notin {"idle", "keys", "build"}
    PROVE  Fits(Current)
<1>1. args \in Arguments /\ args.program = program /\ program \in {"mainnet", "testnet"}
  BY DEF LaunchInv, LaunchTypeOK
<1>2. CASE program = "mainnet"
  <2>1. StakeInRange(args.stake) /\ addr["market"] # addr["founder"]
    BY <1>2, KeysMade DEF LaunchInv, KeysOK
  <2> QED BY <1>1, <1>2, <2>1, MainnetFits DEF Current
<1>3. CASE program = "testnet"
  BY <1>1, <1>3, TestnetFits DEF Current
<1> QED BY <1>1, <1>2, <1>3

LEMMA ReplaceStep == ASSUME LaunchInv, ReplaceGenesis PROVE LaunchInv'
<1>1. /\ step = "replace" /\ genesis' = Put(genesis, at, staged)
      /\ UNCHANGED <<program, args, addr, secrets, keyfile, procs, bundle, overwrote>>
  BY DEF ReplaceGenesis
<1>2. \/ at < Nodes /\ step' = "write" /\ at' = at + 1
      \/ ~(at < Nodes) /\ step' = "spawn" /\ at' = 1
  BY DEF ReplaceGenesis, NextDirectory, Goto
<1>3. at \in 1 .. Nodes /\ Nodes \in Nat /\ Nodes > 0
  BY <1>1, LaunchAssumption DEF LaunchInv, LaunchTypeOK, Dirs
<1>4. /\ DOMAIN genesis = 1 .. (at - 1) /\ procs = {} /\ staged = Current
      /\ \A d \in DOMAIN genesis : genesis[d] = Current
  BY <1>1 DEF LaunchInv, FilesOK, ProcsOK, Writing, Fresh
<1>5. DOMAIN genesis' = 1 .. at /\ \A d \in 1 .. at : genesis'[d] = Current
  <2>1. DOMAIN genesis' = DOMAIN genesis \cup {at}
    BY <1>1 DEF Put
  <2>2. (1 .. (at - 1)) \cup {at} = 1 .. at
    BY <1>3
  <2>3. \A d \in DOMAIN genesis \cup {at} : genesis'[d] = IF d = at THEN staged ELSE genesis[d]
    BY <1>1 DEF Put
  <2>4. \A d \in DOMAIN genesis \cup {at} : genesis'[d] = Current
    BY <1>4, <2>3
  <2> QED BY <1>4, <2>1, <2>2, <2>4
<1>6. KeysOK' /\ Current' = Current
  BY <1>1, <1>2, KeysKept
<1>7. LaunchTypeOK'
  BY <1>1, <1>2, <1>3 DEF LaunchInv, LaunchTypeOK, Dirs
<1>8. FilesOK'
  <2>1. DOMAIN genesis' \subseteq Dirs /\ 1 \in DOMAIN genesis'
    BY <1>3, <1>5 DEF Dirs
  <2>2. step' = "write" => DOMAIN genesis' = 1 .. (at' - 1)
    BY <1>2, <1>3, <1>5
  <2>3. step' = "spawn" => DOMAIN genesis' = Dirs
    BY <1>2, <1>3, <1>5 DEF Dirs
  <2>4. step' \in {"write", "spawn"}
    BY <1>2
  <2> QED BY <1>5, <1>6, <2>1, <2>2, <2>3, <2>4 DEF FilesOK, Writing
<1>9. ProcsOK'
  BY <1>1, <1>4 DEF ProcsOK
<1>10. \A d : Loads(d)' <=> d \in 1 .. at
  BY <1>5 DEF Loads
<1>11. GenesisBoots'
  <2>1. Fits(Current)
    BY <1>1, CurrentFits
  <2> QED BY <1>5, <1>10, <2>1 DEF GenesisBoots, Fits
<1>12. OneGenesis'
  <2>1. at \in Dirs /\ ~Loads(at)
    BY <1>3, <1>4 DEF Loads, Dirs
  <2>2. bundle' \in {Absent, Partial}
    BY <1>1, <2>1 DEF LaunchInv, OneGenesis
  <2> QED BY <1>5, <1>10, <2>2 DEF OneGenesis
<1>13. FounderValidates' /\ KeystoresOpenGenesis'
  <2>1. ASSUME program = "mainnet"
        PROVE  /\ genesis'[1] = MainnetGenesis
               /\ DOMAIN MainnetGenesis.allocations =
                      {keyfile["market"].secret, keyfile["founder"].secret}
               /\ DOMAIN MainnetGenesis.initial_stakes \subseteq {keyfile["founder"].secret}
               /\ \/ MainnetGenesis.initial_stakes = << >>
                  \/ keyfile["founder"].secret \in DOMAIN MainnetGenesis.initial_stakes
               /\ MainnetGenesis.treasury_address = keyfile["treasury"].secret
    <3>1. args \in Arguments /\ args.program = "mainnet" /\ StakeInRange(args.stake)
      BY <1>1, <2>1 DEF LaunchInv, LaunchTypeOK, KeysOK
    <3>2. 1 \in 1 .. at
      BY <1>3
    <3> QED BY <1>1, <1>5, <2>1, <3>1, <3>2, KeysMade, MainnetFits DEF Current
  <2> HIDE DEF MainnetGenesis
  <2> QED BY <1>1, <1>4, <2>1 DEF FounderValidates, KeystoresOpenGenesis
<1>14. OneProcessPerStore'
  BY <1>1, <1>4 DEF OneProcessPerStore
<1> QED BY <1>6, <1>7, <1>8, <1>9, <1>11, <1>12, <1>13, <1>14 DEF LaunchInv

\* The directories before this one have a process of this run, the others have none.
LEMMA SpawnStep == ASSUME LaunchInv, Spawn PROVE LaunchInv'
<1> DEFINE n == Started(at)
<1>1. /\ step = "spawn" /\ procs' = procs \cup {n}
      /\ UNCHANGED <<program, args, addr, secrets, keyfile, staged, genesis, bundle, overwrote>>
  BY DEF Spawn
<1>2. \/ at < Nodes /\ step' = "spawn" /\ at' = at + 1
      \/ ~(at < Nodes) /\ step' = "watch" /\ at' = 1
  BY DEF Spawn, Goto
<1>3. at \in 1 .. Nodes /\ Nodes \in Nat /\ Nodes > 0
  BY <1>1, LaunchAssumption DEF LaunchInv, LaunchTypeOK, Dirs
<1>4. /\ DOMAIN genesis = 1 .. Nodes /\ \A d \in DOMAIN genesis : genesis[d] = Current
      /\ \A p \in procs : p.dir < at /\ p.dir \in 1 .. Nodes
  BY <1>1 DEF LaunchInv, FilesOK, ProcsOK, Fresh, Dirs
<1>5. /\ DOMAIN n = {"dir", "run", "up", "validates", "key", "passphrase"}
      /\ n.dir = at /\ n.key = Absent /\ n.validates = Validates(at)
  BY DEF Started
<1>6. KeysOK' /\ Current' = Current
  BY <1>1, <1>2, KeysKept
<1>7. LaunchTypeOK'
  BY <1>1, <1>2, <1>3 DEF LaunchInv, LaunchTypeOK, Dirs
<1>8. FilesOK'
  BY <1>1, <1>2, <1>4, <1>6 DEF LaunchInv, FilesOK, Writing, Dirs
<1> HIDE DEF n
<1>9. ProcsOK'
  <2>1. program = "testnet" /\ n.validates => n.dir \in DOMAIN genesis[n.dir].initial_stakes
    <3>1. SUFFICES ASSUME program = "testnet", n.validates
                   PROVE  at \in DOMAIN genesis[at].initial_stakes
      BY <1>5
    <3>2. at <= args.validators
      BY <1>5, <3>1 DEF Validates
    <3>3. args \in Arguments /\ args.program = "testnet"
      BY <1>1, <3>1 DEF LaunchInv, LaunchTypeOK
    <3>4. genesis[at] = TestnetGenesis
      BY <1>3, <1>4, <3>1 DEF Current
    <3> QED BY <1>3, <3>2, <3>3, <3>4, TestnetFits, TestnetArguments
  <2>2. \A p \in procs' :
          /\ DOMAIN p = {"dir", "run", "up", "validates", "key", "passphrase"}
          /\ p.dir \in DOMAIN genesis
          /\ program = "testnet" /\ p.validates => p.dir \in DOMAIN genesis[p.dir].initial_stakes
    BY <1>1, <1>3, <1>4, <1>5, <2>1 DEF LaunchInv, ProcsOK
  <2>3. step' = "spawn" => \A p \in procs' : p.dir < at'
    BY <1>1, <1>2, <1>3, <1>4, <1>5
  <2> QED BY <1>1, <1>2, <2>2, <2>3 DEF ProcsOK, Writing
<1>10. OneProcessPerStore'
  BY <1>1, <1>3, <1>4, <1>5 DEF LaunchInv, OneProcessPerStore
<1>11. KeystoresOpenGenesis'
  BY <1>1, <1>5 DEF LaunchInv, KeystoresOpenGenesis, Loads
<1>12. FounderValidates' /\ GenesisBoots' /\ OneGenesis'
  BY <1>1 DEF LaunchInv, FounderValidates, GenesisBoots, OneGenesis, Loads
<1> QED BY <1>6, <1>7, <1>8, <1>9, <1>10, <1>11, <1>12 DEF LaunchInv

\* The key of a process that seals is that of a validator of its genesis.
LEMMA ServeStep == ASSUME LaunchInv, NEW p \in procs, Serve(p) PROVE LaunchInv'
<1> DEFINE q == [p EXCEPT !.up = TRUE, !.key = KeyOf(p)]
<1>1. /\ procs' = (procs \ {p}) \cup (IF Unlocked(p) /\ Boots(p.dir) THEN {q} ELSE {})
      /\ UNCHANGED <<program, step, at, args, addr, secrets, keyfile, staged, genesis, bundle,
                     overwrote>>
  BY DEF Serve
<1>2. /\ DOMAIN p = {"dir", "run", "up", "validates", "key", "passphrase"}
      /\ p.dir \in DOMAIN genesis
      /\ program = "testnet" /\ p.validates => p.dir \in DOMAIN genesis[p.dir].initial_stakes
  BY DEF LaunchInv, ProcsOK
<1>3. DOMAIN q = DOMAIN p /\ q.dir = p.dir /\ q.validates = p.validates /\ q.key = KeyOf(p)
  BY <1>2
<1>4. \A x \in procs' : x = q \/ x \in procs
  BY <1>1
<1>5. Current' = Current
  BY <1>1 DEF Current, MainnetGenesis, TestnetGenesis
<1>6. program \in {"mainnet", "testnet"}
  BY DEF LaunchInv, LaunchTypeOK
<1>7. ~overwrote /\ KeyOf(p) # Absent =>
          \/ genesis[p.dir].initial_stakes = << >>
          \/ KeyOf(p) \in DOMAIN genesis[p.dir].initial_stakes
  <2>1. SUFFICES ASSUME ~overwrote, KeyOf(p) # Absent
                 PROVE  \/ genesis[p.dir].initial_stakes = << >>
                        \/ KeyOf(p) \in DOMAIN genesis[p.dir].initial_stakes
    OBVIOUS
  <2>2. p.validates
    BY <2>1 DEF KeyOf
  <2>3. CASE program = "testnet"
    <3>1. KeyOf(p) = p.dir
      BY <2>2, <2>3 DEF KeyOf
    <3> QED BY <1>2, <2>2, <2>3, <3>1
  <2>4. CASE program = "mainnet"
    <3>1. KeyOf(p) = keyfile["founder"].secret
      BY <2>2, <2>4 DEF KeyOf
    <3>2. Loads(1) /\ genesis[p.dir] = genesis[1]
      BY <1>2 DEF LaunchInv, FilesOK, OneGenesis, Loads
    <3> QED BY <2>1, <2>4, <3>1, <3>2 DEF LaunchInv, FounderValidates
  <2> QED BY <1>6, <2>3, <2>4
<1> HIDE DEF q
<1>8. LaunchTypeOK' /\ KeysOK'
  BY <1>1 DEF LaunchInv, LaunchTypeOK, KeysOK, Made, StakeInRange
<1>9. FilesOK'
  BY <1>1, <1>5 DEF LaunchInv, FilesOK, Fresh, Writing
<1>10. ProcsOK'
  <2>1. ~Writing
    BY DEF LaunchInv, ProcsOK
  <2>2. \A x \in procs' :
          /\ DOMAIN x = {"dir", "run", "up", "validates", "key", "passphrase"}
          /\ x.dir \in DOMAIN genesis
          /\ program = "testnet" /\ x.validates => x.dir \in DOMAIN genesis[x.dir].initial_stakes
    BY <1>2, <1>3, <1>4 DEF LaunchInv, ProcsOK
  <2>3. step = "spawn" => \A x \in procs' : x.dir < at
    BY <1>3, <1>4 DEF LaunchInv, ProcsOK
  <2> QED BY <1>1, <2>1, <2>2, <2>3 DEF ProcsOK, Writing
<1>11. KeystoresOpenGenesis'
  <2>1. ~overwrote => \A x \in procs' : x.key # Absent =>
            genesis[x.dir].initial_stakes = << >> \/ x.key \in DOMAIN genesis[x.dir].initial_stakes
    BY <1>3, <1>4, <1>7 DEF LaunchInv, KeystoresOpenGenesis
  <2> QED BY <1>1, <2>1 DEF LaunchInv, KeystoresOpenGenesis, Loads
<1>12. OneProcessPerStore'
  <2>1. ASSUME NEW x \in procs', NEW y \in procs', x.dir = y.dir PROVE x = y
    <3>1. x \in procs /\ y \in procs => x = y
      BY <2>1 DEF LaunchInv, OneProcessPerStore
    <3>2. \A z \in procs' : z # q => z \in procs /\ z # p
      BY <1>1
    <3>3. \A z \in procs : z.dir = p.dir => z = p
      BY DEF LaunchInv, OneProcessPerStore
    <3> QED BY <1>3, <2>1, <3>1, <3>2, <3>3
  <2> QED BY <2>1 DEF OneProcessPerStore
<1>13. FounderValidates' /\ GenesisBoots' /\ OneGenesis'
  BY <1>1 DEF LaunchInv, FounderValidates, GenesisBoots, OneGenesis, Loads
<1> QED BY <1>8, <1>9, <1>10, <1>11, <1>12, <1>13 DEF LaunchInv

LEMMA ExitStep == ASSUME LaunchInv, NEW p \in procs, Exit(p) PROVE LaunchInv'
<1>1. /\ procs' \subseteq procs
      /\ UNCHANGED <<program, step, at, args, addr, secrets, keyfile, staged, genesis, bundle,
                     overwrote>>
  BY DEF Exit
<1>2. Current' = Current
  BY <1>1 DEF Current, MainnetGenesis, TestnetGenesis
<1>3. LaunchTypeOK' /\ KeysOK'
  BY <1>1 DEF LaunchInv, LaunchTypeOK, KeysOK, Made, StakeInRange
<1>4. FilesOK'
  BY <1>1, <1>2 DEF LaunchInv, FilesOK, Fresh, Writing
<1>5. ProcsOK'
  BY <1>1 DEF LaunchInv, ProcsOK, Writing
<1> QED BY <1>1, <1>3, <1>4, <1>5, FilesKept DEF LaunchInv

LEMMA StopStep ==
    ASSUME LaunchInv, NEW next \in {"report", "idle"}, Stop(next)
    PROVE  LaunchInv'
<1>1. /\ step = "watch" /\ step' = next /\ (next = "report" => program = "mainnet")
      /\ procs' \subseteq procs
      /\ UNCHANGED <<program, args, addr, secrets, keyfile, staged, genesis, bundle, overwrote>>
  BY DEF Stop, Goto
<1>2. CASE next = "idle"
  BY <1>1, <1>2, FilesKept, EndStep
<1>3. CASE next = "report"
  <2>1. KeysOK' /\ Current' = Current
    BY <1>1, <1>3, KeysKept
  <2>2. LaunchTypeOK'
    BY <1>1, <1>3 DEF LaunchInv, LaunchTypeOK
  <2>3. FilesOK'
    BY <1>1, <1>3, <2>1 DEF LaunchInv, FilesOK, Fresh, Writing
  <2>4. ProcsOK'
    BY <1>1, <1>3 DEF LaunchInv, ProcsOK, Writing
  <2> QED BY <1>1, <2>1, <2>2, <2>3, <2>4, FilesKept DEF LaunchInv
<1> QED BY <1>2, <1>3

\* The bundle takes two of its fields from the launcher's variables, which still are
\* those that the genesis was made of.
LEMMA ReportStep == ASSUME LaunchInv, Report PROVE LaunchInv'
<1>1. /\ step = "report" /\ step' = "idle"
      /\ bundle' = [genesis |-> genesis[1], validator_address |-> addr["founder"],
                    treasury_address |-> addr["treasury"]]
      /\ UNCHANGED <<program, addr, secrets, keyfile, genesis, procs, overwrote>>
  BY DEF Report, Goto
<1>2. program = "mainnet" /\ args \in Arguments /\ args.program = "mainnet"
  BY <1>1 DEF LaunchInv, LaunchTypeOK
<1>3. DOMAIN genesis = Dirs /\ 1 \in Dirs /\ \A d \in Dirs : genesis[d] = MainnetGenesis
  BY <1>1, <1>2, LaunchAssumption DEF LaunchInv, FilesOK, Fresh, Current, Dirs
<1>4. StakeInRange(args.stake) /\ addr["market"] # addr["founder"]
  BY <1>1, <1>2, KeysMade DEF LaunchInv, KeysOK
<1>5. /\ DOMAIN MainnetGenesis.initial_stakes \subseteq {addr["founder"]}
      /\ MainnetGenesis.treasury_address = addr["treasury"]
  BY <1>2, <1>4, MainnetFits
<1>6. OneGenesis'
  <2> DEFINE g == MainnetGenesis
  <2> HIDE DEF g
  <2>1. /\ bundle'.genesis = g /\ bundle'.validator_address = addr["founder"]
        /\ bundle'.treasury_address = addr["treasury"]
    BY <1>1, <1>3 DEF g
  <2>2. DOMAIN g.initial_stakes \subseteq {addr["founder"]} /\ g.treasury_address = addr["treasury"]
    BY <1>5 DEF g
  <2>3. \A d \in Dirs : Loads(d)' /\ genesis'[d] = g
    BY <1>1, <1>3 DEF Loads, g
  <2> QED BY <2>1, <2>2, <2>3 DEF OneGenesis
<1> QED BY <1>1, <1>6, EndStep

LEMMA KillStep == ASSUME LaunchInv, Kill PROVE LaunchInv'
<1>1. /\ step' = "idle" /\ bundle' \in {bundle, Partial}
      /\ UNCHANGED <<program, addr, secrets, keyfile, genesis, procs, overwrote>>
  BY DEF Kill, Goto
<1>2. OneGenesis'
  BY <1>1 DEF LaunchInv, OneGenesis, Loads
<1> QED BY <1>1, <1>2, EndStep

LEMMA LaunchSame == ASSUME LaunchInv, UNCHANGED launchVars PROVE LaunchInv'
<1> USE DEF launchVars
<1>1. Current' = Current
  BY DEF Current, MainnetGenesis, TestnetGenesis
<1>2. LaunchTypeOK' /\ KeysOK'
  BY DEF LaunchInv, LaunchTypeOK, KeysOK, Made, StakeInRange
<1>3. FilesOK'
  BY <1>1 DEF LaunchInv, FilesOK, Fresh, Writing
<1>4. ProcsOK'
  BY DEF LaunchInv, ProcsOK, Writing
<1> QED BY <1>2, <1>3, <1>4, FilesKept DEF LaunchInv

LEMMA LaunchInvariant == DeploySpec => []LaunchInv
<1>1. DeployInit => LaunchInv
  <2> SUFFICES ASSUME LaunchInit PROVE LaunchInv
    BY DEF DeployInit
  <2> USE DEF LaunchInit
  <2>1. DOMAIN genesis = {}
    OBVIOUS
  <2>2. LaunchTypeOK
    BY DEF LaunchTypeOK, RoleNames
  <2>3. KeysOK
    BY DEF KeysOK, Made
  <2>4. FilesOK
    BY <2>1 DEF FilesOK, Fresh, Writing
  <2>5. ProcsOK
    BY DEF ProcsOK
  <2>6. \A d : ~Loads(d)
    BY <2>1 DEF Loads
  <2>7. FounderValidates /\ GenesisBoots /\ OneGenesis
    BY <2>6 DEF FounderValidates, GenesisBoots, OneGenesis
  <2>8. KeystoresOpenGenesis /\ OneProcessPerStore
    BY <2>6 DEF KeystoresOpenGenesis, OneProcessPerStore
  <2> QED BY <2>2, <2>3, <2>4, <2>5, <2>7, <2>8 DEF LaunchInv
<1>2. LaunchInv /\ [DeployNext]_deployVars => LaunchInv'
  <2> SUFFICES ASSUME LaunchInv, [DeployNext]_deployVars PROVE LaunchInv'
    OBVIOUS
  <2>1. LaunchNext \/ UNCHANGED launchVars
    BY DEF DeployNext, deployVars
  <2>2. ASSUME LaunchNext PROVE LaunchInv'
    <3>1. ASSUME NEW a \in Arguments, Run(a) PROVE LaunchInv'
      BY <3>1, RunStep
    <3>2. ASSUME NEW p \in procs, Serve(p) PROVE LaunchInv'
      BY <3>2, ServeStep
    <3>3. ASSUME NEW p \in procs, Exit(p) PROVE LaunchInv'
      BY <3>3, ExitStep
    <3>4. ASSUME NEW next \in {"report", "idle"}, Stop(next) PROVE LaunchInv'
      BY <3>4, StopStep
    <3>5. CASE GenKeystore \/ BuildGenesis \/ RefuseGenesis \/ StageGenesis \/ ReplaceGenesis
      BY <3>5, GenKeystoreStep, BuildStep, RefuseStep, StageStep, ReplaceStep
    <3>6. CASE Spawn \/ Report \/ Kill
      BY <3>6, SpawnStep, ReportStep, KillStep
    <3> QED BY <2>2, <3>1, <3>2, <3>3, <3>4, <3>5, <3>6 DEF LaunchNext
  <2> QED BY <2>1, <2>2, LaunchSame
<1> QED BY <1>1, <1>2, PTL DEF DeploySpec

\* MAINNET.md's "Every node on the network must use the byte-identical file" (write_genesis
\* and genesis_bundle.json): however many directories, kills and runs with other keys and
\* arguments, the genesis files agree, and a whole bundle describes them.
THEOREM OneGenesisTheorem == DeploySpec => []OneGenesis
<1>1. LaunchInv => OneGenesis
  BY DEF LaunchInv
<1> QED BY <1>1, LaunchInvariant, PTL

\* What tokenomics.build_genesis lets through and run_testnet.build_genesis makes, the
\* chain's constructor accepts, but for the arguments nobody checks.
THEOREM GenesisBootsTheorem == DeploySpec => []GenesisBoots
<1>1. LaunchInv => GenesisBoots
  BY DEF LaunchInv
<1> QED BY <1>1, LaunchInvariant, PTL

\* Unless the launcher was run again beside a genesis, the keystores it saved hold the
\* keys of that genesis, and a node that seals is one of its validators.
THEOREM KeystoreTheorem == DeploySpec => []KeystoresOpenGenesis
<1>1. LaunchInv => KeystoresOpenGenesis
  BY DEF LaunchInv
<1> QED BY <1>1, LaunchInvariant, PTL

\* No two node processes ever share a data directory, whose store has no lock.
THEOREM OneProcessTheorem == DeploySpec => []OneProcessPerStore
<1>1. LaunchInv => OneProcessPerStore
  BY DEF LaunchInv
<1> QED BY <1>1, LaunchInvariant, PTL
=============================================================================
