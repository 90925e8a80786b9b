-------------------------------- MODULE Node --------------------------------
(***************************************************************************)
(* node.NodeService over storage.BlockStore: a block is accepted into the  *)
(* block tree first and appended to blocks.jsonl afterwards, and a restart *)
(* rebuilds the tree by replaying the file line by line.                   *)
(*                                                                         *)
(* The RPC and gossip servers run every request in a thread of its own and *)
(* hold no lock, so several requests can be between the two steps at once. *)
(* The process can stop at any point; what it was writing then may reach   *)
(* the file whole, in part or not at all.                                  *)
(***************************************************************************)
EXTENDS ForkChoice

CONSTANTS
    Me,          \* the address of the node's validator key
    Threads,     \* request handlers that may run at the same time
    TornWrites,  \* whether a crash can leave part of a line in the file
    WritesFail,  \* whether store.append can raise (a full disk)
    MaxCrashes,  \* bound: crashes
    NoWrite,     \* a thread that has nothing to append
    Garbage      \* a line that does not decode to a block

ASSUME NodeAssumption ==
    /\ Me \in Addr
    /\ NoWrite \notin Hashes
    /\ Garbage \notin Hashes
    /\ TornWrites \in BOOLEAN
    /\ WritesFail \in BOOLEAN
    /\ MaxCrashes \in Nat

VARIABLES
    mode,      \* "up", "down", "booting", or "refused" when replay raised
    lines,     \* complete lines of blocks.jsonl: a block each, or garbage
    partial,   \* the file ends in a line without its newline
    sealing,   \* the own block each thread has sealed and not yet added
    writing,   \* the block each thread has accepted and not yet appended
    replayed,  \* lines replayed so far by the boot in progress
    acked,     \* history: blocks a request reported success for
    reported,  \* history: highest finalized checkpoint a reply reported
    faulted,   \* history: a torn line, a failed write or overlapping requests
    raced,     \* history: a block was sealed while another was waiting to be added
    shown,     \* history: own blocks the tree has held; get_block and _serve_blocks
               \*   hand out what is in the tree, appended or not
    dropped,   \* history: the process stopped with a shown block not in the file
    crashes    \* history: crashes so far

nodeVars == <<mode, lines, partial, sealing, writing, replayed, acked, reported,
              faulted, raced, shown, dropped, crashes>>

\* The line store.append leaves for a block: text written after an unterminated
\* line joins that line, and the result is not JSON.
Line(h) == IF partial THEN Garbage ELSE h

\* The complete lines after append(block).
WrittenIfHead(h) == IF h = head_hash THEN Append(lines, Line(h)) ELSE lines
WrittenLater(h) == lines
Written(h) == Append(lines, Line(h))

NodeInit ==
    /\ Init
    /\ mode = "up"
    /\ lines = << >>
    /\ partial = FALSE
    /\ sealing = [t \in Threads |-> NoWrite]
    /\ writing = [t \in Threads |-> NoWrite]
    /\ replayed = 0
    /\ acked = {}
    /\ reported = Genesis
    /\ faulted = FALSE
    /\ raced = FALSE
    /\ shown = {}
    /\ dropped = FALSE
    /\ crashes = 0

-----------------------------------------------------------------------------
(* produce_block and receive_block *)

Idle(t) == mode = "up" /\ sealing[t] = NoWrite /\ writing[t] = NoWrite

\* produce_block seals a block on the head it reads, if it is this node's turn.
Seal(t, b) ==
    /\ Idle(t)
    /\ Len(head_hash) < MaxHeight
    /\ b.validator = Me
    /\ Elected(canonical.stakes, Seed(head_hash), Me)
    /\ sealing' = [sealing EXCEPT ![t] = Append(head_hash, b)]
    /\ raced' = (raced \/ \E u \in Threads : sealing[u] # NoWrite)
    /\ UNCHANGED <<vars, mode, lines, partial, writing, replayed, acked, reported,
                   faulted, shown, dropped, crashes>>

\* The tree takes the block of thread t, which then has it to append.
Added(t, h) ==
    /\ AddBlock(Parent(h), h[Len(h)])
    /\ writing' = [writing EXCEPT ![t] = IF raised' THEN NoWrite ELSE h]

Overlap == faulted \/ \E u \in Threads : writing[u] # NoWrite

\* tree.add_block(block) in produce_block.  It may raise, or return False when
\* another thread added the same block; the block is appended all the same then.
\* From here on other nodes and clients can be served the block.
AddOwn(t) ==
    /\ mode = "up"
    /\ sealing[t] # NoWrite
    /\ LET h == sealing[t]
       IN  \/ Accepts(Parent(h), h[Len(h)]) /\ Added(t, h)
           \/ h \in known /\ writing' = [writing EXCEPT ![t] = h] /\ UNCHANGED vars
           \/ /\ h \notin known /\ ~Accepts(Parent(h), h[Len(h)])
              /\ UNCHANGED <<vars, writing>>
    /\ shown' = shown \cup ({sealing[t]} \cap known')
    /\ sealing' = [sealing EXCEPT ![t] = NoWrite]
    /\ faulted' = Overlap
    /\ UNCHANGED <<mode, lines, partial, replayed, acked, reported, raced, dropped,
                   crashes>>

\* tree.add_block(block) in receive_block: the block of another validator, or an
\* own one that somebody was served before a stop lost it.
Accept(t, p, b) ==
    /\ Idle(t)
    /\ b.validator = Me => Append(p, b) \in shown
    /\ Added(t, Append(p, b))
    /\ faulted' = Overlap
    /\ UNCHANGED <<mode, lines, partial, sealing, replayed, acked, reported, raced,
                   shown, dropped, crashes>>

\* store.append(block) succeeds and the reply tells block and finality.
Persist(t) ==
    /\ mode = "up"
    /\ writing[t] # NoWrite
    /\ lines' = Written(writing[t])
    /\ partial' = FALSE
    /\ writing' = [writing EXCEPT ![t] = NoWrite]
    /\ acked' = acked \cup {writing[t]}
    /\ reported' = finalized_hash
    /\ UNCHANGED <<vars, mode, sealing, replayed, faulted, raced, shown, dropped,
                   crashes>>

\* store.append(block) raises OSError: the request fails, the tree keeps the
\* block, and some of the line may be in the file, or all of it if fsync raised.
PersistFails(t) ==
    /\ WritesFail
    /\ mode = "up"
    /\ writing[t] # NoWrite
    /\ \/ partial' \in {partial, TRUE} /\ UNCHANGED lines
       \/ partial' = FALSE /\ lines' = Written(writing[t])
    /\ writing' = [writing EXCEPT ![t] = NoWrite]
    /\ faulted' = TRUE
    /\ UNCHANGED <<vars, mode, sealing, replayed, acked, reported, raced, shown, dropped,
                   crashes>>

-----------------------------------------------------------------------------
(* Crash and restart *)

\* The process stops; the tree and the requests in progress are gone.
Stop ==
    /\ mode \in {"up", "booting"}
    /\ crashes < MaxCrashes
    /\ crashes' = crashes + 1
    /\ mode' = "down"
    /\ sealing' = [t \in Threads |-> NoWrite]
    /\ writing' = [t \in Threads |-> NoWrite]
    /\ replayed' = 0
    /\ known' = {Genesis}
    /\ weight' = [h \in {Genesis} |-> 0]
    /\ state' = [h \in {Genesis} |-> GenesisState]
    /\ head_hash' = Genesis
    /\ canonical' = GenesisState
    /\ finalized_hash' = Genesis
    /\ dropped' = (dropped \/ ~(shown \subseteq {lines'[i] : i \in 1 .. Len(lines')}))
    /\ UNCHANGED <<ws_checkpoint, raised, acked, reported, raced, shown>>

Crash ==
    /\ UNCHANGED <<lines, partial, faulted>>
    /\ Stop

\* The crash comes while a line is being written: all of it is in the file and
\* no reply was sent, or a part of it.
CrashInAppend(t) ==
    /\ writing[t] # NoWrite
    /\ \/ /\ lines' = Written(writing[t])
          /\ partial' = FALSE
          /\ UNCHANGED faulted
       \/ /\ TornWrites
          /\ partial' = TRUE
          /\ faulted' = TRUE
          /\ UNCHANGED lines
    /\ Stop

\* NodeService.__init__ starts on an empty tree.
Boot ==
    /\ mode = "down"
    /\ mode' = "booting"
    /\ UNCHANGED <<vars, lines, partial, sealing, writing, replayed, acked,
                   reported, faulted, raced, shown, dropped, crashes>>

\* The next line replays: decode_block and tree.add_block do not raise.
Replays(line) ==
    /\ line # Garbage
    /\ line \in known \/ Accepts(Parent(line), line[Len(line)])

\* The next line of iter_blocks is replayed.
ReplayLine ==
    /\ mode = "booting"
    /\ replayed < Len(lines)
    /\ LET line == lines[replayed + 1]
       IN  /\ Replays(line)
           /\ IF line \in known THEN UNCHANGED vars
                                ELSE AddBlock(Parent(line), line[Len(line)])
    /\ replayed' = replayed + 1
    /\ UNCHANGED <<mode, lines, partial, sealing, writing, acked, reported,
                   faulted, raced, shown, dropped, crashes>>

\* A line that does not replay: the constructor raises and the node is not
\* started.
SkipBadLine ==
    /\ mode' = mode
    /\ replayed' = replayed + 1

Refuse ==
    /\ mode' = "refused"
    /\ UNCHANGED replayed

BadLine ==
    /\ mode = "booting"
    /\ replayed < Len(lines)
    /\ ~Replays(lines[replayed + 1])
    /\ Refuse
    /\ UNCHANGED <<vars, lines, partial, sealing, writing, acked, reported,
                   faulted, raced, shown, dropped, crashes>>

\* Every committed line is replayed; a last line without newline is ignored.
Ready ==
    /\ mode = "booting"
    /\ replayed = Len(lines)
    /\ mode' = "up"
    /\ replayed' = 0
    /\ UNCHANGED <<vars, lines, partial, sealing, writing, acked, reported,
                   faulted, raced, shown, dropped, crashes>>

NodeNext ==
    \/ \E t \in Threads, b \in Blocks : Seal(t, b)
    \/ \E t \in Threads : AddOwn(t)
    \/ \E t \in Threads, p \in known, b \in Blocks : Accept(t, p, b)
    \/ \E t \in Threads : Persist(t)
    \/ \E t \in Threads : PersistFails(t)
    \/ Crash
    \/ \E t \in Threads : CrashInAppend(t)
    \/ Boot
    \/ ReplayLine
    \/ BadLine
    \/ Ready

NodeSpec == NodeInit /\ [][NodeNext]_<<vars, nodeVars>>

-----------------------------------------------------------------------------
\* storage.py: "fsync so an accepted block isn't lost on crash".  A node that is
\* up has every block it ever reported success for, whatever crashes, torn
\* lines, failed writes and interleaved requests came before; rather than miss
\* one it refuses to boot.
AckedSurvive == mode = "up" => acked \subseteq known

\* node.py: "finalized state is reconstructed deterministically on boot".  While
\* requests come one at a time and writes are whole, the finality a reply
\* reported is never taken back by a crash at any point.
FinalitySurvivesRestart ==
    mode = "up" /\ ~faulted => Ancestor(reported, finalized_hash)

\* Under the same conditions the store the node wrote always replays, and the tree
\* is what the file holds: every block that was in memory and no other.
StoreReplays ==
    ~faulted =>
        /\ mode # "refused"
        /\ mode = "up" /\ (\A t \in Threads : writing[t] = NoWrite) =>
               known = {Genesis} \cup {lines[i] : i \in 1 .. Len(lines)}

\* A crash never costs more than the restart: "a trailing partial line (crash
\* before fsync) is dropped" (storage.py _committed_lines), so the node boots.
NeverRefused == mode # "refused"

\* consensus.py:498, "honest software never seals two blocks on one parent", with
\* the two ways in which this software does: two produce_block calls at once, and a
\* stop that loses a block which was in the tree but not yet in the file.  Two
\* different own blocks on one parent that others may have been served, which
\* verify_equivocation would convict, take one of the two: no other crash, torn
\* line, failed write, returning block or reorganisation makes the node seal again
\* on a parent it has used.
TwinsNeedRaceOrLoss ==
    (\E x, y \in shown : x # y /\ Parent(x) = Parent(y)) => raced \/ dropped
=============================================================================
