------------------------------ MODULE GhChain ------------------------------
(***************************************************************************)
(* gh_chain.py under the two workflows that run it: a job checks out the   *)
(* repository, makes the genesis or advances the chain on the runner, and  *)
(* pushes the result.  Jobs come one at a time (the workflows share a      *)
(* concurrency group), and the runner's disk is gone when a job ends.      *)
(*                                                                         *)
(* One validator holds all stake, so a vote of it justifies its target. A  *)
(* block is the job that sealed it and the vote it carries; a checkpoint   *)
(* is its height.                                                          *)
(***************************************************************************)
EXTENDS Integers, Sequences

CONSTANTS
    EPOCH,      \* blocks between two checkpoints
    Blocks,     \* values of --blocks
    Secrets,    \* values of MINDEES_VALIDATOR_SECRET
    MaxJobs,    \* bound: jobs
    MaxHeight,  \* bound: blocks of the published chain
    NoVote,     \* a block without a vote
    NoChain     \* no genesis

ASSUME GhChainAssumption ==
    /\ EPOCH \in Nat \ {0}
    /\ Blocks \subseteq Nat
    /\ MaxJobs \in Nat
    /\ MaxHeight \in Nat
    /\ NoVote \notin [s : Nat, t : Nat]

VARIABLES
    repo,     \* chain-state as pushed
    work,     \* chain-state on the runner
    job,      \* "none", "tick" or "push": what the job does next
    secret,   \* the validator secret the job has
    left,     \* blocks the tick has still to go through
    jobs      \* history: jobs so far

cronVars == <<repo, work, job, secret, left, jobs>>

CronInit ==
    /\ repo = NoChain
    /\ work = NoChain
    /\ job = "none"
    /\ secret \in Secrets
    /\ left = 0
    /\ jobs = 0

\* A job starts with a checkout, and the secret as it is then.
Checkout ==
    /\ job = "none"
    /\ jobs < MaxJobs
    /\ jobs' = jobs + 1
    /\ secret' \in Secrets

\* cmd_init: the genesis is written unless there is one.
GenesisOf(v) ==
    [validator |-> v, blocks |-> << >>, justified |-> {0}, seen |-> {}, finalized |-> 0]

InitialisedAgain(v) == GenesisOf(v)
Initialised(v) == IF repo = NoChain THEN GenesisOf(v) ELSE repo

InitJob ==
    /\ Checkout
    /\ \E v \in Secrets : v = secret' /\ work' = Initialised(v)
    /\ job' = "push"
    /\ left' = 0
    /\ UNCHANGED repo

\* cmd_tick boots a node on the chain, which raises when there is none.
TickJob(n) ==
    /\ Checkout
    /\ repo # NoChain
    /\ Len(repo.blocks) + n <= MaxHeight
    /\ work' = repo
    /\ job' = "tick"
    /\ left' = n
    /\ UNCHANGED repo

-----------------------------------------------------------------------------
(* One round of the loop of cmd_tick *)

\* The newest checkpoint, 0 when there is none but genesis.
Target(c) == (Len(c.blocks) \div EPOCH) * EPOCH

\* The newest justified checkpoint below the target, from the finalized one on.
SourceFinalized(c) == c.finalized
Source(c) ==
    LET below == {h \in c.justified : h < Target(c) /\ h >= c.finalized}
    IN  IF below = {} THEN c.finalized
        ELSE CHOOSE h \in below : \A g \in below : g <= h

\* _auto_vote: the vote it queues, which the next block includes.
Queued(c) ==
    IF Target(c) > 0 /\ Target(c) \notin c.seen /\ Source(c) < Target(c)
    THEN [s |-> Source(c), t |-> Target(c)] ELSE NoVote

\* produce_block with that vote, and _apply_vote when all stake votes.
Produced(c, v) ==
    [c EXCEPT !.blocks = Append(@, [job |-> jobs, vote |-> v]),
              !.justified = IF v = NoVote THEN @ ELSE @ \cup {v.t},
              !.seen = IF v = NoVote THEN @ ELSE @ \cup {v.t},
              !.finalized = IF v # NoVote /\ v.t = v.s + EPOCH /\ v.s > @ THEN v.s ELSE @]

\* Another secret has no stake: it does not vote and it is not its turn.
Round ==
    /\ job = "tick"
    /\ left > 0
    /\ left' = left - 1
    /\ work' = IF secret = work.validator THEN Produced(work, Queued(work)) ELSE work
    /\ UNCHANGED <<repo, job, secret, jobs>>

\* The loop is over and the status is written.
TickDone ==
    /\ job = "tick"
    /\ left = 0
    /\ job' = "push"
    /\ UNCHANGED <<repo, work, secret, left, jobs>>

-----------------------------------------------------------------------------
EndJob ==
    /\ job' = "none"
    /\ work' = NoChain
    /\ left' = 0
    /\ UNCHANGED <<secret, jobs>>

\* git push.
Push ==
    /\ job = "push"
    /\ repo' = work
    /\ EndJob

\* The job fails or is cancelled, or its push is refused because somebody else
\* pushed since the checkout: what it sealed is gone.
Lost ==
    /\ job # "none"
    /\ EndJob
    /\ UNCHANGED repo

CronNext ==
    \/ InitJob
    \/ \E n \in Blocks : TickJob(n)
    \/ Round
    \/ TickDone
    \/ Push
    \/ Lost

-----------------------------------------------------------------------------
\* JOIN.md: nodes replay "the canonical genesis and the chain so far" from the
\* repository, and status.json publishes its finalized checkpoint as a trusted one:
\* what was pushed is only ever continued, also after jobs whose blocks were lost
\* and were sealed again at the same heights, and with another secret.
PublishedOnlyGrows ==
    [][repo # NoChain =>
          /\ repo'.validator = repo.validator
          /\ Len(repo'.blocks) >= Len(repo.blocks)
          /\ SubSeq(repo'.blocks, 1, Len(repo.blocks)) = repo.blocks
          /\ repo'.finalized >= repo.finalized]_cronVars

\* "small epoch -> finality advances within a few cron cycles": wherever jobs begin
\* and end, the head is never more than two epochs above the finalized checkpoint.
FinalityKeepsUp ==
    repo # NoChain => Len(repo.blocks) <= repo.finalized + 2 * EPOCH
=============================================================================
