------------------------------ MODULE StatsScan ------------------------------
(***************************************************************************)
(* `btc-data-stats --resume`: restore the newest canonical checkpoint,     *)
(* roll the CSV back, scan to the finalized height, emit a row per block   *)
(* into a buffered writer and write a checkpoint every N blocks            *)
(* (stats/src/scan.rs, checkpoint.rs, sinks/csv.rs).  The process may      *)
(* crash between any two steps and is run again with the same arguments.   *)
(***************************************************************************)
EXTENDS StatsApply

CONSTANTS
    Chains,        \* active chains the node may have, height 0 first
    Txs,           \* transactions of each block
    FirstTxid,     \* number of the first transaction of each block
    StartHeight,   \* --start
    Blocks,        \* --blocks
    BatchSize,     \* --source-batch-size
    FinalityDepth, \* --finality-depth
    Every,         \* --checkpoint-every
    Keep,          \* --checkpoint-keep
    ReorgDepth,    \* deepest reorganisation of the environment
    MaxCrashes     \* bound on crashes

ASSUME ScanAssumption ==
    /\ StartHeight \in Nat /\ FinalityDepth \in Nat /\ MaxCrashes \in Nat
    /\ Blocks \in Nat \ {0} /\ BatchSize \in Nat \ {0} /\ Every \in Nat \ {0}
    /\ Keep \in Nat \ {0} /\ ReorgDepth \in Nat

ASSUME ChainsAssumption == \A c \in Chains : c \in Seq(ToSet(c))

VARIABLES
    node,         \* active chain of the node (environment)
    file,         \* rows of the CSV file
    checkpoints,  \* checkpoint files: height, hash, scanner_state
    crashes,
    pc,           \* where the process is
    buffer,       \* rows in the BufWriter
    state,        \* StatsScannerState
    next,         \* next height to commit
    max_end,      \* last height of this run
    got,          \* fetched blocks of the batch not committed yet
    since,        \* processed_since_checkpoint
    last          \* last committed height and hash

mem == <<buffer, state, next, max_end, got, since, last>>
vars == <<node, file, checkpoints, crashes, pc, mem>>

None == [height |-> -1, hash |-> << >>]

Lesser(m, n) == IF m <= n THEN m ELSE n
SafeHeight == LET best == Len(node) - 1 IN IF best >= FinalityDepth THEN best - FinalityDepth ELSE 0

Forget ==
    /\ pc' = "down" /\ buffer' = << >> /\ state' = NewState /\ next' = StartHeight
    /\ max_end' = 0 /\ got' = << >> /\ since' = 0 /\ last' = None

Init ==
    /\ node \in {c \in Chains : Len(c) = 1}
    /\ file = << >> /\ checkpoints = {} /\ crashes = 0
    /\ pc = "down" /\ buffer = << >> /\ state = NewState /\ next = StartHeight
    /\ max_end = 0 /\ got = << >> /\ since = 0 /\ last = None

NodeAdopts(c) ==
    /\ Len(c) > Len(node)
    /\ \E n \in 1..Len(node) : n >= Len(node) - ReorgDepth /\ \A i \in 1..n : c[i] = node[i]
    /\ node' = c
    /\ UNCHANGED <<file, checkpoints, crashes, pc, mem>>

\* get_best_height; with nothing finalized the process ends at once.
Start ==
    /\ pc = "down"
    /\ SafeHeight >= StartHeight
    /\ max_end' = Lesser(StartHeight + Blocks - 1, SafeHeight)
    /\ pc' = "restore"
    /\ UNCHANGED <<node, file, checkpoints, crashes, buffer, state, next, got, since, last>>

Canonical(c) == c.height < Len(node) /\ node[c.height + 1] = c.hash

\* The newest checkpoint whose block is still on the node's chain.
Restorable ==
    {c \in checkpoints : Canonical(c) /\ \A d \in checkpoints : Canonical(d) => d.height <= c.height}

\* Variant: the checkpointed block is scanned again.
ResumeHeightAgain(c) == c.height

\* checkpoint.next_height.
ResumeHeight(c) == c.height + 1

\* The rows rollback_csv_to_height keeps, line by line.
RowsThrough(h) ==
    LET kept[n \in 0..Len(file)] ==
            IF n = 0 THEN << >>
            ELSE IF file[n].height <= h THEN Append(kept[n - 1], file[n]) ELSE kept[n - 1]
    IN  kept[Len(file)]

\* restore_newest_valid_checkpoint, then rollback_to_height: the rows are
\* read, and fs::write truncates the file before it writes them.  A
\* checkpoint above the node's tip makes get_block_hash fail: that needs a
\* shorter chain.  Checkpoints of another version or window, or that cannot
\* be read, are skipped; a run with the same arguments writes none.
Restore ==
    /\ pc = "restore"
    /\ \E c \in Restorable :
           /\ state' = c.scanner_state
           /\ next' = ResumeHeight(c)
           /\ last' = [height |-> c.height, hash |-> c.hash]
           /\ buffer' = RowsThrough(c.height)
    /\ file' = << >>
    /\ pc' = "rewrite"
    /\ UNCHANGED <<node, checkpoints, crashes, max_end, got, since>>

\* Nothing to restore: a new state, and the CSV stays as it is.
StartOver ==
    /\ pc = "restore"
    /\ Restorable = {}
    /\ pc' = "fetch"
    /\ UNCHANGED <<node, file, checkpoints, crashes, mem>>

\* The kept rows are written; the scan goes on, unless it is complete.
Rewrite ==
    /\ pc = "rewrite"
    /\ file' = buffer
    /\ IF next > max_end THEN Forget
       ELSE /\ buffer' = << >> /\ last' = None
            /\ pc' = "fetch"
            /\ UNCHANGED <<state, next, max_end, got, since>>
    /\ UNCHANGED <<node, checkpoints, crashes>>

BatchEnd == Lesser(next + BatchSize - 1, max_end)

\* fetch_and_prepare_batch: each height at some moment, then in height order.
FetchBlock(h) ==
    /\ pc = "fetch"
    /\ h \in (next..BatchEnd) \ DOMAIN got
    /\ h < Len(node)
    /\ got' = [k \in DOMAIN got \cup {h} |-> IF k = h THEN node[h + 1] ELSE got[k]]
    /\ pc' = IF DOMAIN got' = next..BatchEnd THEN "commit" ELSE pc
    /\ UNCHANGED <<node, file, checkpoints, crashes, buffer, state, next, max_end, since, last>>

\* Variant: one block late.
DueLate == since >= Every

\* on_committed_block.
Due == since + 1 >= Every

\* The stateful stage and emit_block of one block.  A full BufWriter writes
\* its rows out before it takes the new one.
Commit ==
    /\ pc = "commit"
    /\ next \in DOMAIN got
    /\ LET b == got[next]
           after == ApplyBlock(state, FirstTxid[b], Txs[b])
           row == RowOf(next, b, state, after)
       IN  /\ state' = after.state
           /\ \/ buffer' = Append(buffer, row) /\ UNCHANGED file
              \/ file' = file \o buffer /\ buffer' = <<row>>
           /\ last' = [height |-> next, hash |-> b]
    /\ next' = next + 1
    /\ got' = [k \in DOMAIN got \ {next} |-> got[k]]
    /\ since' = IF Due THEN 0 ELSE since + 1
    /\ pc' = IF Due THEN "save" ELSE "commit"
    /\ UNCHANGED <<node, checkpoints, crashes, max_end>>

\* save_checkpoint: temporary file and rename.
Save ==
    /\ pc \in {"save", "finalSave"}
    /\ checkpoints' = checkpoints \cup
           {[height |-> last.height, hash |-> last.hash, scanner_state |-> state]}
    /\ pc' = IF pc = "save" THEN "prune" ELSE "finalPrune"
    /\ UNCHANGED <<node, file, crashes, mem>>

\* The files sort by name, height first.
KeptNewest(kept) == \A c \in kept : \A d \in checkpoints \ kept : c.height >= d.height

\* prune_checkpoints.
Prune ==
    /\ pc \in {"prune", "finalPrune"}
    /\ \E kept \in SUBSET checkpoints :
           /\ Cardinality(kept) = Lesser(Keep, Cardinality(checkpoints))
           /\ KeptNewest(kept)
           /\ checkpoints' = kept
    /\ pc' = IF pc = "prune" THEN "commit" ELSE "flush"
    /\ UNCHANGED <<node, file, crashes, mem>>

NextBatch ==
    /\ pc = "commit"
    /\ DOMAIN got = {} /\ next <= max_end
    /\ pc' = "fetch"
    /\ UNCHANGED <<node, file, checkpoints, crashes, mem>>

\* Variant: no final checkpoint.
NoFinalFlush == FALSE

\* needs_final_flush.
NeedsFinalFlush == since > 0

EndScan ==
    /\ pc = "commit"
    /\ DOMAIN got = {} /\ next > max_end
    /\ pc' = IF NeedsFinalFlush THEN "finalSave" ELSE "flush"
    /\ UNCHANGED <<node, file, checkpoints, crashes, mem>>

\* flush, and the process ends.
Flush ==
    /\ pc = "flush"
    /\ file' = file \o buffer
    /\ Forget
    /\ UNCHANGED <<node, checkpoints, crashes>>

\* A crash, or an error of the source or the disk: the buffer is dropped
\* without being flushed.
Crash ==
    /\ pc # "down"
    /\ crashes < MaxCrashes
    /\ crashes' = crashes + 1
    /\ Forget
    /\ UNCHANGED <<node, file, checkpoints>>

Scanner ==
    \/ Start \/ Restore \/ StartOver \/ Rewrite
    \/ \E h \in StartHeight..(StartHeight + Blocks) : FetchBlock(h)
    \/ Commit \/ Save \/ Prune \/ NextBatch \/ EndScan \/ Flush

Next == Scanner \/ Crash \/ \E c \in Chains : NodeAdopts(c)

Spec == Init /\ [][Next]_vars

\* A step of the scanner is possible: it is running, or can be started.
Runnable == pc # "down" \/ SafeHeight >= StartHeight

\* The node's chain grows, and the scan is run again until it is complete:
\* weak fairness of the node and of the scanner, whose ENABLED is Runnable.
FairSpec ==
    /\ Spec
    /\ WF_vars(\E c \in Chains : NodeAdopts(c))
    /\ []<>~Runnable \/ []<><<Scanner>>_vars
-----------------------------------------------------------------------------
(* Properties *)

\* The states of an uninterrupted scan of each chain, by the number of
\* blocks before them, and the state of the node's chain after height h.
Replayed ==
    [c \in Chains |->
        LET after[n \in 0..Len(c)] ==
                IF n <= StartHeight THEN NewState
                ELSE ApplyBlock(after[n - 1], FirstTxid[c[n]], Txs[c[n]]).state
        IN  after]
Replay(h) == Replayed[node][h + 1]

RowAt(h) ==
    LET b == node[h + 1]
    IN  RowOf(h, b, Replay(h - 1), ApplyBlock(Replay(h - 1), FirstTxid[b], Txs[b]))

\* However often the scan was interrupted, its state is that of one
\* uninterrupted scan, and so is the state of every checkpoint (restore,
\* make_checkpoint), as long as reorganisations stay within --finality-depth.
ResumesExactly ==
    /\ pc \in {"fetch", "commit", "save", "finalSave"} => state = Replay(next - 1)
    /\ \A c \in checkpoints : Canonical(c) /\ c.scanner_state = Replay(c.height)

\* Every row in the CSV file is the row of one uninterrupted scan of the
\* node's chain (emit_block after a resume, rollback_to_height).
RowsExact == \A i \in DOMAIN file : file[i] = RowAt(file[i].height)

Newest(S) == IF S = {} THEN StartHeight - 1 ELSE Max({c.height : c \in S})

\* A crash costs at most Every blocks: the newest checkpoint is never further
\* behind the scan (on_committed_block, prune_checkpoints).
LossBounded ==
    pc \in {"fetch", "commit"} => next - 1 - Newest(checkpoints) < Every

\* Run again and again, the scan gets its whole range checkpointed
\* (needs_final_flush).
Completes == <>[](Newest(checkpoints) = StartHeight + Blocks - 1)

\* "A checkpoint at height H means scanner state and sink output are
\* committed through H": with the process gone, the CSV has the rows.
CheckpointMeansCommitted ==
    pc = "down" => \A c \in checkpoints : \A h \in StartHeight..c.height :
                       \E i \in DOMAIN file : file[i].height = h
=============================================================================
