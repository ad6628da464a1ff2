---------------------------- MODULE LightIndexer ----------------------------
(***************************************************************************)
(* The commit protocol of `light-indexer run` (light_indexer.rs): poll the *)
(* node for finalized blocks, fetch and validate them in chunks, apply     *)
(* them to the in-memory UID state, and publish each flush window in four  *)
(* durable stages: block files, spent-height rewrites of older block       *)
(* files, one RocksDB batch, manifest.json.  A process that crashes or     *)
(* returns an error anywhere loses its memory and restarts from RocksDB.   *)
(*                                                                         *)
(* Blocks are abstracted to what the stages tell apart.  A block is its    *)
(* hash; Height, Parent, Inputs, Indexed and Slots say what decoding it    *)
(* yields (P2trIndexer derives the last two from transactions).            *)
(***************************************************************************)
EXTENDS Integers, Sequences, FiniteSets

CONSTANTS
    Block,         \* hashes of all blocks that may ever exist
    Outpoint,      \* (txid, vout) pairs
    NoBlock, NoRow, NoFile,
    Absent, Torn,  \* manifest.json missing, or truncated and not yet written
    Height,        \* [Block -> 0..MaxHeight]
    Parent,        \* [Block -> Block \cup {NoBlock}]
    Inputs,        \* outpoints the block's transactions spend
    Indexed,       \* its indexed outputs, in dense storage order
    Slots,         \* how many native P2TR outputs it has
    Chains,        \* active chains the node may have, genesis first
    MaxHeight,     \* bound on heights
    ReorgDepth,    \* deepest reorganisation of the environment
    EmitStart,     \* --emit-start-height
    FinalityDepth, \* --finality-depth
    FlushBlocks,   \* --flush-blocks
    FetchBatch,    \* --catchup-batch-size
    MaxCrashes     \* bound on crashes

Heights == 0..MaxHeight

\* STORAGE_SPENT_HEIGHT_UNSPENT (u32::MAX): above every height.
Unspent == MaxHeight + 1

ASSUME ConstantsAssumption ==
    /\ MaxHeight \in Nat /\ EmitStart \in Heights
    /\ FinalityDepth \in Nat /\ ReorgDepth \in Nat /\ MaxCrashes \in Nat
    /\ FlushBlocks \in Nat \ {0} /\ FetchBatch \in Nat \ {0}

ASSUME BlockAssumption ==
    /\ NoBlock \notin Block
    /\ {Absent, Torn} \cap (Block \cup {NoBlock}) = {}
    /\ Absent # Torn
    /\ Height \in [Block -> Heights]
    /\ Parent \in [Block -> Block \cup {NoBlock}]
    /\ Inputs \in [Block -> SUBSET Outpoint]
    /\ Indexed \in [Block -> Seq([outpoint : Outpoint, slot : Nat])]
    /\ Slots \in [Block -> Nat]

\* The node serves linked chains, and position h + 1 holds the block of
\* height h.
ASSUME ChainAssumption ==
    \A c \in Chains :
        /\ c \in Seq(Block) /\ c # << >>
        /\ \A i \in 1..Len(c) : Height[c[i]] = i - 1
        /\ \A i \in 1..Len(c) : i > 1 => Parent[c[i]] = c[i - 1]

\* Block b has o among its indexed outputs.
Creates(b, o) == \E i \in 1..Len(Indexed[b]) : Indexed[b][i].outpoint = o

\* The node validates its blocks: an indexed output has an outpoint of its
\* own, and in one chain it is created once, spent at most once, and not
\* before the block that creates it.  (The duplicate coinbases before BIP 34
\* have no P2TR output.)
ASSUME ConsensusAssumption ==
    /\ \A b \in Block : \A i, j \in 1..Len(Indexed[b]) :
           Indexed[b][i].outpoint = Indexed[b][j].outpoint => i = j
    /\ \A c \in Chains : \A i, j \in 1..Len(c) : \A o \in Outpoint :
           /\ Creates(c[i], o) /\ Creates(c[j], o) => i = j
           /\ o \in Inputs[c[i]] /\ o \in Inputs[c[j]] => i = j
           /\ Creates(c[i], o) /\ o \in Inputs[c[j]] => i <= j

\* A spend-lookup value: SpendLookup without its flag byte.
Lookup == [uid : Nat, height : Heights, index : Nat]

\* A stored light block: which block, its first UID, its spend entries, and
\* the spent height of each indexed output.
Stored == [block : Block, first_uid : Nat,
           spends : SUBSET [uid : Nat, creation_height : Heights],
           spent_height : Seq(0..Unspent)]

ASSUME NoValueAssumption == NoRow \notin Lookup /\ NoFile \notin Stored

VARIABLES
    node,       \* active chain of the Bitcoin node (environment)
    files,      \* blocks/<height>.capnp
    manifest,   \* tip recorded in manifest.json
    tip,        \* RocksDB m:tip_height / m:tip_hash
    last_uid,   \* RocksDB m:last_uid
    rows,       \* RocksDB outpoint lookup rows
    crashes,    \* crashes so far
    pc,         \* where the process is
    known,      \* best_hash of the last poll
    best,       \* best_height of the last poll
    next,       \* chain_next_height
    flush_end,  \* flush_end_height
    chunk,      \* next height to fetch or apply
    prev,       \* previous_tip_hash
    got,        \* decoded blocks of the chunk not applied yet
    cached,     \* historical spend candidates cached for the chunk
    next_uid,   \* P2trIndexerState.next_uid
    spend,      \* P2trIndexerState.outpoint_to_spend
    pending,    \* applied blocks of the flush window
    wr,         \* pending blocks already written to files
    marks       \* creation heights still to rewrite

disk == <<files, manifest, tip, last_uid, rows>>
mem == <<known, best, next, flush_end, chunk, prev, got, cached, next_uid,
         spend, pending, wr, marks>>
vars == <<node, disk, crashes, pc, mem>>
-----------------------------------------------------------------------------
(* Applying blocks *)

\* Variant: the storage index counts P2TR slots instead of indexed outputs.
SlotIndex(b, i) == Indexed[b][i].slot + 1

\* The dense storage index of the i-th indexed output.
OutputIndex(b, i) == i

\* The indexed outputs of b as lookup values, when the block's first P2TR
\* output gets UID f: every P2TR output consumes a slot, only indexed ones
\* have a dense storage index.
CreatedRows(b, f) ==
    [o \in Outpoint |->
        IF Creates(b, o)
        THEN LET i == CHOOSE i \in 1..Len(Indexed[b]) : Indexed[b][i].outpoint = o
             IN  [uid |-> f + Indexed[b][i].slot, height |-> Height[b],
                  index |-> OutputIndex(b, i)]
        ELSE NoRow]

\* The lookup that an input of b consumes: an output created by the block
\* itself, or one the spend map m holds.
Resolve(b, f, m, o) ==
    IF CreatedRows(b, f)[o] # NoRow THEN CreatedRows(b, f)[o] ELSE m[o]

\* The result of apply_block_with_stats: the inputs whose outpoint is known
\* become spends.
Applied(b, f, m) ==
    [block |-> b, first_uid |-> f,
     spent |-> {[outpoint |-> o, ref |-> Resolve(b, f, m, o)] :
                   o \in {p \in Inputs[b] : Resolve(b, f, m, p) # NoRow}}]

\* outpoint_to_spend after the block: spent outpoints gone, created ones in.
SpendAfter(b, f, m) ==
    [o \in Outpoint |-> IF o \in Inputs[b] THEN NoRow ELSE Resolve(b, f, m, o)]

\* The StoredLightBlock encoded for an applied block: nothing is spent yet.
FileOf(a) ==
    [block        |-> a.block,
     first_uid    |-> a.first_uid,
     spends       |-> {[uid |-> s.ref.uid, creation_height |-> s.ref.height] : s \in a.spent},
     spent_height |-> [i \in 1..Len(Indexed[a.block]) |-> Unspent]]

\* All spends of the flush window: which output of which file, spent where.
PendingSpends ==
    UNION {{[height |-> s.ref.height, index |-> s.ref.index,
             spent_height |-> Height[pending[k].block]] : s \in pending[k].spent} :
                k \in 1..Len(pending)}

\* One creation file with the spends of the window written into it.
Marked(file, h) ==
    [file EXCEPT !.spent_height =
        [i \in DOMAIN file.spent_height |->
            IF \E s \in PendingSpends : s.height = h /\ s.index = i
            THEN (CHOOSE s \in PendingSpends : s.height = h /\ s.index = i).spent_height
            ELSE file.spent_height[i]]]

\* validate_decoded_chunk: starts at the expected height, connects to the
\* previous tip (when there is one), contiguous and linked.
ValidChunk(S, start, parent) ==
    /\ \E b \in S : Height[b] = start
    /\ \A b \in S : Height[b] >= start
    /\ \A b, c \in S : Height[b] = Height[c] => b = c
    /\ \A b \in S : Height[b] = start /\ parent # NoBlock => Parent[b] = parent
    /\ \A b \in S : Height[b] > start =>
           \E c \in S : Height[c] = Height[b] - 1 /\ Parent[b] = c
-----------------------------------------------------------------------------
(* The environment: the node adopts a longer chain *)

CommonPrefix(c, d, n) == \A i \in 1..n : c[i] = d[i]

NodeAdopts(c) ==
    /\ Len(c) > Len(node)
    /\ \E n \in 1..Len(node) : n >= Len(node) - ReorgDepth /\ CommonPrefix(c, node, n)
    /\ node' = c
    /\ UNCHANGED <<disk, crashes, pc, mem>>
-----------------------------------------------------------------------------
(* The process *)

NoSpends == [o \in Outpoint |-> NoRow]

\* Everything in memory is lost: a crash, or any `?` returning an error from
\* run_command.
LoseMemory ==
    /\ pc' = "down"
    /\ known' = NoBlock /\ best' = 0 /\ next' = 0 /\ flush_end' = 0 /\ chunk' = 0
    /\ prev' = NoBlock /\ got' = {} /\ cached' = {} /\ next_uid' = 0
    /\ spend' = NoSpends /\ pending' = << >> /\ wr' = 0 /\ marks' = {}

Init ==
    /\ node \in {c \in Chains : Len(c) = 1}
    /\ files = [h \in Heights |-> NoFile]
    /\ manifest = Absent
    /\ tip = NoBlock /\ last_uid = 0
    /\ rows = NoSpends
    /\ crashes = 0
    /\ pc = "down" /\ known = NoBlock /\ best = 0
    /\ next = 0 /\ flush_end = 0 /\ chunk = 0 /\ prev = NoBlock
    /\ got = {} /\ cached = {} /\ next_uid = 0 /\ spend = NoSpends
    /\ pending = << >> /\ wr = 0 /\ marks = {}

\* run_command up to its loop: resume after the RocksDB tip, with the UID
\* counter restored and an empty spend map.
Start ==
    /\ pc = "down"
    /\ pc' = "poll"
    /\ next' = IF tip = NoBlock THEN EmitStart ELSE Height[tip] + 1
    /\ next_uid' = last_uid
    /\ spend' = NoSpends
    /\ UNCHANGED <<node, disk, crashes, known, best, flush_end, chunk, prev, got,
                   cached, pending, wr, marks>>

\* Variant: the number of blocks is taken for the height.
BlockCount == Len(node)

BestHeight == Len(node) - 1

\* get_best_height.
PollHeight ==
    /\ pc = "poll"
    /\ best' = BestHeight
    /\ pc' = "hash"
    /\ UNCHANGED <<node, disk, crashes, known, next, flush_end, chunk, prev, got,
                   cached, next_uid, spend, pending, wr, marks>>

\* Variant: one block too shallow.
FinalizedTipShallow(n) == IF n >= FinalityDepth THEN n - FinalityDepth + 1 ELSE 0

\* best_height.saturating_sub(finality_depth).
FinalizedTip(n) == IF n >= FinalityDepth THEN n - FinalityDepth ELSE 0

Minimum(m, n) == IF m <= n THEN m ELSE n

\* Variant: the hash of whatever block is best by now.
NewestHash == node[Len(node)]

\* get_block_hash(best_height).
BestHash == node[best + 1]

\* get_block_hash, then either a catch-up window is opened ...
OpenWindow ==
    /\ pc = "hash"
    /\ best + 1 <= Len(node)
    /\ next <= FinalizedTip(best)
    /\ known' = BestHash
    /\ flush_end' = next + Minimum(FinalizedTip(best) - next + 1, FlushBlocks) - 1
    /\ chunk' = next
    /\ prev' = tip
    /\ pending' = << >>
    /\ pc' = "fetch"
    /\ UNCHANGED <<node, disk, crashes, best, next, got, cached, next_uid, spend, wr, marks>>

\* ... or the process is caught up and blocks on the tip watcher.
CaughtUp ==
    /\ pc = "hash"
    /\ best + 1 <= Len(node)
    /\ next > FinalizedTip(best)
    /\ known' = BestHash
    /\ pc' = "wait"
    /\ UNCHANGED <<node, disk, crashes, best, next, flush_end, chunk, prev, got,
                   cached, next_uid, spend, pending, wr, marks>>

\* wait_for_tip_change returns once the best hash differs from the known one.
TipChanged ==
    /\ pc = "wait"
    /\ node[Len(node)] # known
    /\ pc' = "poll"
    /\ UNCHANGED <<node, disk, crashes, known, best, next, flush_end, chunk, prev,
                   got, cached, next_uid, spend, pending, wr, marks>>

ChunkHeights == chunk..Minimum(chunk + FetchBatch - 1, flush_end)

\* One block of the chunk arrives: the active chain's block at that height
\* at that moment.  Requests of a chunk run concurrently.
FetchBlock(h) ==
    /\ pc = "fetch"
    /\ h \in ChunkHeights
    /\ \A b \in got : Height[b] # h
    /\ h + 1 <= Len(node)
    /\ got' = got \cup {node[h + 1]}
    /\ UNCHANGED <<node, disk, crashes, pc, known, best, next, flush_end, chunk, prev,
                   cached, next_uid, spend, pending, wr, marks>>

ChunkFetched ==
    /\ pc = "fetch"
    /\ \A h \in ChunkHeights : \E b \in got : Height[b] = h

\* Variant: no lookup, only outputs this process created are known.
NoHistory(S) == {}

\* The inputs of the blocks S that only RocksDB knows.
Historical(S) == {o \in UNION {Inputs[b] : b \in S} : spend[o] = NoRow /\ rows[o] # NoRow}

\* The spend map with the rows of the outpoints S, and without what is left
\* of the cached ones.
CacheCandidates(S) == [o \in Outpoint |-> IF o \in S THEN rows[o] ELSE spend[o]]
EvictCandidates == [o \in Outpoint |-> IF o \in cached THEN NoRow ELSE spend[o]]

\* The chunk is valid: look its unknown inputs up in RocksDB and cache the
\* rows found (lookup_spend_uids_for_chunk).
ResolveChunk ==
    /\ ChunkFetched
    /\ ValidChunk(got, chunk, prev)
    /\ cached' = Historical(got)
    /\ spend' = CacheCandidates(cached')
    /\ pc' = "apply"
    /\ UNCHANGED <<node, disk, crashes, known, best, next, flush_end, chunk, prev, got,
                   next_uid, pending, wr, marks>>

\* The chunk does not connect: catch_up_ranges returns the error and the
\* process exits.
RejectChunk ==
    /\ ChunkFetched
    /\ ~ValidChunk(got, chunk, prev)
    /\ LoseMemory
    /\ UNCHANGED <<node, disk, crashes>>

\* Variant: only indexed outputs move the UID counter.
UidAfterIndexed(b) == next_uid + Len(Indexed[b])

\* next_uid after the block: every P2TR output took a slot.
UidAfter(b) == next_uid + Slots[b]

\* Apply the lowest decoded block.
ApplyBlock(b) ==
    /\ pc = "apply"
    /\ b \in got /\ Height[b] = chunk
    /\ pending' = Append(pending, Applied(b, next_uid + 1, spend))
    /\ spend' = SpendAfter(b, next_uid + 1, spend)
    /\ next_uid' = UidAfter(b)
    /\ chunk' = chunk + 1
    /\ prev' = b
    /\ got' = got \ {b}
    /\ UNCHANGED <<node, disk, crashes, pc, known, best, next, flush_end, cached, wr, marks>>

\* The chunk is applied: evict the unspent candidates, then fetch the next
\* chunk or start publishing.  The memory budget may end a window early.
EndChunk ==
    /\ pc = "apply"
    /\ got = {}
    /\ spend' = EvictCandidates
    /\ cached' = {}
    /\ \/ chunk <= flush_end /\ pc' = "fetch"
       \/ pc' = "write"
    /\ UNCHANGED <<node, disk, crashes, known, best, next, flush_end, chunk, prev, got,
                   next_uid, pending, wr, marks>>

\* Write one block file: temporary file and rename.
WriteFile ==
    /\ pc = "write"
    /\ wr < Len(pending)
    /\ files' = [files EXCEPT ![Height[pending[wr + 1].block]] = FileOf(pending[wr + 1])]
    /\ wr' = wr + 1
    /\ UNCHANGED <<node, manifest, tip, last_uid, rows, crashes, pc, known, best, next,
                   flush_end, chunk, prev, got, cached, next_uid, spend, pending, marks>>

\* Variant: the stage ends before its last file.
AlmostWritten == wr + 1 >= Len(pending)

AllWritten == wr = Len(pending)

\* Variant: files of the window itself are not rewritten.
OldFilesToMark == {s.height : s \in PendingSpends} \ {Height[pending[k].block] : k \in 1..Len(pending)}

FilesToMark == {s.height : s \in PendingSpends}

StartMarking ==
    /\ pc = "write"
    /\ AllWritten
    /\ marks' = FilesToMark
    /\ pc' = "mark"
    /\ UNCHANGED <<node, disk, crashes, known, best, next, flush_end, chunk, prev, got,
                   cached, next_uid, spend, pending, wr>>

\* mark_spent_outputs rewrites one creation file, lowest height first; a
\* missing file is skipped.
MarkFile(h) ==
    /\ pc = "mark"
    /\ h \in marks /\ \A k \in marks : h <= k
    /\ marks' = marks \ {h}
    /\ files' = IF files[h] = NoFile THEN files
                ELSE [files EXCEPT ![h] = Marked(files[h], h)]
    /\ UNCHANGED <<node, manifest, tip, last_uid, rows, crashes, pc, known, best, next,
                   flush_end, chunk, prev, got, cached, next_uid, spend, pending, wr>>

\* Variant: the puts of the batch come after its deletes.
RowsPutLast ==
    [o \in Outpoint |->
        IF \E k \in 1..Len(pending) :
               CreatedRows(pending[k].block, pending[k].first_uid)[o] # NoRow
        THEN LET k == CHOOSE k \in 1..Len(pending) :
                          CreatedRows(pending[k].block, pending[k].first_uid)[o] # NoRow
             IN  CreatedRows(pending[k].block, pending[k].first_uid)[o]
        ELSE IF \E k \in 1..Len(pending) : \E s \in pending[k].spent : s.outpoint = o
             THEN NoRow
             ELSE rows[o]]

\* The rows after commit_applied_blocks: one atomic RocksDB batch, puts and
\* deletes in block order.
RowsAfter ==
    [o \in Outpoint |->
        IF \E k \in 1..Len(pending) : \E s \in pending[k].spent : s.outpoint = o
        THEN NoRow
        ELSE IF \E k \in 1..Len(pending) :
                    CreatedRows(pending[k].block, pending[k].first_uid)[o] # NoRow
             THEN LET k == CHOOSE k \in 1..Len(pending) :
                               CreatedRows(pending[k].block, pending[k].first_uid)[o] # NoRow
                  IN  CreatedRows(pending[k].block, pending[k].first_uid)[o]
             ELSE rows[o]]

LastPending == pending[Len(pending)].block

\* The batch also holds the new tip and UID counter.
Commit ==
    /\ pc = "mark"
    /\ marks = {}
    /\ tip' = LastPending
    /\ last_uid' = next_uid
    /\ rows' = RowsAfter
    /\ pc' = "manifest"
    /\ UNCHANGED <<node, files, manifest, crashes, mem>>

\* write_manifest is fs::write: it truncates manifest.json ...
TruncateManifest ==
    /\ pc = "manifest"
    /\ manifest' = Torn
    /\ pc' = "manifest2"
    /\ UNCHANGED <<node, files, tip, last_uid, rows, crashes, mem>>

\* Variant: the manifest names the node's best block.
ManifestBest == known

\* The tip the manifest names.
ManifestTip == LastPending

\* ... then writes it, and the loop continues after the window.
WriteManifest ==
    /\ pc = "manifest2"
    /\ manifest' = ManifestTip
    /\ next' = Height[LastPending] + 1
    /\ pending' = << >> /\ wr' = 0 /\ prev' = NoBlock
    /\ chunk' = 0 /\ flush_end' = 0
    /\ pc' = "poll"
    /\ UNCHANGED <<node, files, tip, last_uid, rows, crashes, known, best, got, cached,
                   next_uid, spend, marks>>

\* A crash, or an error of any source, file or database call.
Crash ==
    /\ pc # "down"
    /\ crashes < MaxCrashes
    /\ crashes' = crashes + 1
    /\ LoseMemory
    /\ UNCHANGED <<node, disk>>

Indexer ==
    \/ Start \/ PollHeight \/ OpenWindow \/ CaughtUp \/ TipChanged
    \/ \E h \in Heights : FetchBlock(h)
    \/ ResolveChunk \/ RejectChunk
    \/ \E b \in Block : ApplyBlock(b)
    \/ EndChunk \/ WriteFile \/ StartMarking
    \/ \E h \in Heights : MarkFile(h)
    \/ Commit \/ TruncateManifest \/ WriteManifest

Next == Indexer \/ Crash \/ \E c \in Chains : NodeAdopts(c)

Spec == Init /\ [][Next]_vars

\* The process keeps running between crashes and is restarted after them.
FairSpec == Spec /\ WF_vars(Indexer)
-----------------------------------------------------------------------------
(* Properties *)

\* Types of disk and memory (light_indexer.rs, index_store.rs, files.rs).
TypeOK ==
    /\ node \in Chains
    /\ files \in [Heights -> Stored \cup {NoFile}]
    /\ manifest \in Block \cup {Absent, Torn}
    /\ tip \in Block \cup {NoBlock}
    /\ last_uid \in Nat
    /\ rows \in [Outpoint -> Lookup \cup {NoRow}]
    /\ crashes \in 0..MaxCrashes
    /\ pc \in {"down", "poll", "hash", "wait", "fetch", "apply", "write", "mark",
               "manifest", "manifest2"}
    /\ known \in Block \cup {NoBlock}
    /\ best \in Heights
    /\ next \in 0..(MaxHeight + 1)
    /\ flush_end \in Heights
    /\ chunk \in 0..(MaxHeight + 1)
    /\ prev \in Block \cup {NoBlock}
    /\ got \subseteq Block
    /\ cached \subseteq Outpoint
    /\ next_uid \in Nat
    /\ spend \in [Outpoint -> Lookup \cup {NoRow}]
    /\ pending \in Seq([block : Block, first_uid : Nat,
                        spent : SUBSET [outpoint : Outpoint, ref : Lookup]])
    /\ wr \in 0..Len(pending)
    /\ marks \subseteq Heights

\* Heights the archive has committed to.
Committed == IF tip = NoBlock THEN {} ELSE EmitStart..Height[tip]

\* "Never advance the RocksDB tip past a height whose .capnp block file is
\* missing", and more: the files up to the tip are the blocks of one chain
\* that ends in the tip hash (catch_up_ranges stages 1 to 3).
FilesCoverTip ==
    /\ tip # NoBlock => EmitStart <= Height[tip] /\ files[Height[tip]] # NoFile
                        /\ files[Height[tip]].block = tip
    /\ \A h \in Committed : files[h] # NoFile /\ Height[files[h].block] = h
    /\ \A h \in Committed : h > EmitStart => Parent[files[h].block] = files[h - 1].block

\* UIDs are never reused and never skipped, across windows, crashes and
\* restarts: every file starts where the P2TR outputs of the previous file
\* end, and m:last_uid is the last UID of the tip (restore_at_uid).
UidsDense ==
    /\ tip = NoBlock => last_uid = 0
    /\ tip # NoBlock => /\ files[EmitStart].first_uid = 1
                        /\ last_uid + 1 = files[Height[tip]].first_uid + Slots[tip]
    /\ \A h \in Committed : h > EmitStart =>
           files[h].first_uid = files[h - 1].first_uid + Slots[files[h - 1].block]

\* Committed heights at which o is created as an indexed output, and spent.
CreatedAt(o) == {h \in Committed : CreatedRows(files[h].block, files[h].first_uid)[o] # NoRow}
SpentAt(o) == {h \in Committed : o \in Inputs[files[h].block]}

\* The RocksDB lookup rows are exactly the indexed outputs of the committed
\* files that no committed block spends (commit_applied_blocks).
RowsExact ==
    \A o \in Outpoint :
        IF CreatedAt(o) # {} /\ SpentAt(o) = {}
        THEN \A h \in CreatedAt(o) :
                 rows[o] = CreatedRows(files[h].block, files[h].first_uid)[o]
        ELSE rows[o] = NoRow

\* Both halves of cut-through are right at every moment the tip is served:
\* an output of a committed file has the height of the committed block that
\* spends it, and otherwise a height above the tip, which no request may
\* name (mark_spent_outputs runs before the commit); and a file lists
\* exactly the spends of its block.
CutThroughExact ==
    \A h \in Committed :
        /\ \A i \in 1..Len(Indexed[files[h].block]) :
               LET o == Indexed[files[h].block][i].outpoint
               IN  IF SpentAt(o) = {}
                   THEN files[h].spent_height[i] > Height[tip]
                   ELSE files[h].spent_height[i] \in SpentAt(o)
        /\ files[h].spends =
               UNION {{[uid |-> CreatedRows(files[k].block, files[k].first_uid)[o].uid,
                        creation_height |-> k] : k \in CreatedAt(o)} :
                           o \in Inputs[files[h].block]}

\* Every pointer the rewrite stage follows leads to an output of an existing
\* file: neither the silent skip of a missing file nor the "maps outside
\* storage outputs" error of mark_spent_outputs happens.
PointersResolve ==
    pc = "mark" =>
        \A s \in PendingSpends : files[s.height] # NoFile
                                /\ s.index \in DOMAIN files[s.height].spent_height

\* manifest.json never names a block that is not committed: a server that
\* trusts it serves only committed heights (catch_up_ranges stage order).
ManifestBehindTip ==
    manifest \in Block => /\ Height[manifest] \in Committed
                          /\ files[Height[manifest]].block = manifest

\* With reorganisations no deeper than --finality-depth, everything committed
\* stays on the node's active chain, although height, hash and blocks are
\* read at different moments.
AgreesWithNode ==
    \A h \in Committed : h + 1 <= Len(node) /\ node[h + 1] = files[h].block

\* What a reader at the committed tip sees of the files: spent heights above
\* the tip count as unspent.
ServedView ==
    IF tip = NoBlock THEN << >>
    ELSE [i \in 1..(Height[tip] - EmitStart + 1) |->
            LET file == files[EmitStart + i - 1]
            IN  [file EXCEPT !.spent_height =
                    [j \in DOMAIN file.spent_height |->
                        IF file.spent_height[j] > Height[tip] THEN Unspent
                        ELSE file.spent_height[j]]]]

Archive == INSTANCE LightArchive WITH view <- ServedView

\* To a reader at the committed tip a flush window appears at once and
\* complete, although its files, the rewrites of older files and the RocksDB
\* batch are separate writes and the process may crash between them: the
\* archive implements LightArchive (catch_up_ranges).
PublishesAtomically == Archive!Spec

\* The indexer always gets to the finalized block of the node again,
\* whatever crashes and tip changes fall between its poll and its wait (no
\* lost wake-up between get_best_height and wait_for_tip_change).
FollowsNode ==
    []<>(\/ FinalizedTip(Len(node) - 1) < EmitStart
         \/ tip = node[FinalizedTip(Len(node) - 1) + 1])
=============================================================================
