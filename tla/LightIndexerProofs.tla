------------------------- MODULE LightIndexerProofs -------------------------
(***************************************************************************)
(* TLAPS proofs about LightIndexer, for every block tree, every parameter  *)
(* and any number of crashes: its types, the critical invariant of the     *)
(* README (FilesCoverTip), UID density and the manifest's place; then what *)
(* it knows of the outputs: the RocksDB rows, the spend map in memory, the *)
(* spends of a window and the spends a file lists are all functions of one *)
(* history of blocks.  None of the latter needs a bound on                 *)
(* reorganisations; what comes last does: with it the archive stays on the *)
(* node's chain and implements LightArchive.                               *)
(***************************************************************************)
EXTENDS LightIndexer, SequenceTheorems, WellFoundedInduction, TLAPS

\* A window has been opened and is not committed yet.
InWindow == pc \in {"fetch", "apply", "write", "mark"}

\* Where the process resumes: the height after the committed tip.
Resume == IF tip = NoBlock THEN EmitStart ELSE Height[tip] + 1

\* Outside a window nothing is pending in memory.
Idle ==
    /\ pc \in {"poll", "hash", "wait"} => next = Resume /\ next_uid = last_uid
    /\ pc \notin {"write", "mark", "manifest", "manifest2"} => wr = 0

\* The pending blocks continue the committed chain without a gap, and their
\* UIDs continue the committed UIDs.
PendingLinked ==
    InWindow =>
        /\ next = Resume
        /\ \A k \in 1..Len(pending) :
               /\ Height[pending[k].block] = next + k - 1
               /\ k > 1 => Parent[pending[k].block] = pending[k - 1].block
               /\ k > 1 => pending[k].first_uid
                               = pending[k - 1].first_uid + Slots[pending[k - 1].block]
        /\ Len(pending) > 0 =>
               /\ tip # NoBlock => Parent[pending[1].block] = tip
               /\ pending[1].first_uid = last_uid + 1
               /\ next_uid + 1 = pending[Len(pending)].first_uid + Slots[LastPending]
        /\ Len(pending) = 0 => next_uid = last_uid

\* The fetch position follows the pending blocks.
ChunkFollows ==
    pc \in {"fetch", "apply"} =>
        /\ chunk = next + Len(pending)
        /\ prev = IF Len(pending) = 0 THEN tip ELSE LastPending

\* The decoded blocks that are not applied yet form a chain on top of prev.
GotLinked ==
    pc = "apply" =>
        /\ \A b \in got : Height[b] >= chunk
        /\ \A b, c \in got : Height[b] = Height[c] => b = c
        /\ \A b \in got : Height[b] = chunk /\ prev # NoBlock => Parent[b] = prev
        /\ \A b \in got : Height[b] > chunk =>
               \E c \in got : Height[c] = Height[b] - 1 /\ Parent[b] = c
        /\ got = {} => Len(pending) > 0

\* The publication stages: which pending blocks have their file.
StagesInOrder ==
    /\ pc \in {"write", "mark"} =>
           /\ Len(pending) > 0
           /\ \A k \in 1..wr : /\ files[Height[pending[k].block]] # NoFile
                               /\ files[Height[pending[k].block]].block = pending[k].block
                               /\ files[Height[pending[k].block]].first_uid
                                      = pending[k].first_uid
    /\ pc = "mark" => wr = Len(pending)
    /\ pc \in {"manifest", "manifest2"} =>
           Len(pending) > 0 /\ LastPending = tip /\ next_uid = last_uid

\* The inductive invariant.
IInv ==
    /\ TypeOK
    /\ Idle /\ PendingLinked /\ ChunkFollows /\ GotLinked /\ StagesInOrder
    /\ FilesCoverTip /\ UidsDense /\ ManifestBehindTip
-----------------------------------------------------------------------------
(* Types of the operators *)

AppliedBlock ==
    [block : Block, first_uid : Nat, spent : SUBSET [outpoint : Outpoint, ref : Lookup]]

\* What a block creates are lookup values (apply_block_with_stats).
LEMMA CreatedRowsType ==
    ASSUME NEW b \in Block, NEW f \in Nat
    PROVE  CreatedRows(b, f) \in [Outpoint -> Lookup \cup {NoRow}]
<1>1. ASSUME NEW o \in Outpoint, Creates(b, o)
      PROVE  CreatedRows(b, f)[o] \in Lookup
    <2> DEFINE j == CHOOSE i \in 1..Len(Indexed[b]) : Indexed[b][i].outpoint = o
    <2>1. j \in 1..Len(Indexed[b])
        BY <1>1 DEF Creates
    <2>2. Indexed[b] \in Seq([outpoint : Outpoint, slot : Nat])
        BY BlockAssumption
    <2>3. Indexed[b][j].slot \in Nat /\ j \in Nat
        <3> HIDE DEF j
        <3>1. Len(Indexed[b]) \in Nat
            BY <2>2
        <3>2. Indexed[b][j] \in [outpoint : Outpoint, slot : Nat]
            BY <2>1, <2>2, ElementOfSeq
        <3> QED
            BY <2>1, <3>1, <3>2
    <2>4. Height[b] \in Heights
        BY BlockAssumption
    <2>5. CreatedRows(b, f)[o] = [uid |-> f + Indexed[b][j].slot, height |-> Height[b], index |-> j]
        BY <1>1 DEF CreatedRows, OutputIndex
    <2> QED
        BY <2>3, <2>4, <2>5 DEF Lookup
<1> QED
    BY <1>1 DEF CreatedRows

\* An input resolves to a lookup value or to nothing.
LEMMA ResolveType ==
    ASSUME NEW b \in Block, NEW f \in Nat, NEW o \in Outpoint,
           NEW m \in [Outpoint -> Lookup \cup {NoRow}]
    PROVE  Resolve(b, f, m, o) \in Lookup \cup {NoRow}
BY CreatedRowsType DEF Resolve

\* Applying a block yields a well-typed applied block and spend map.
LEMMA AppliedType ==
    ASSUME NEW b \in Block, NEW f \in Nat, NEW m \in [Outpoint -> Lookup \cup {NoRow}]
    PROVE  /\ Applied(b, f, m) \in AppliedBlock
           /\ Applied(b, f, m).block = b /\ Applied(b, f, m).first_uid = f
           /\ SpendAfter(b, f, m) \in [Outpoint -> Lookup \cup {NoRow}]
<1>1. Inputs[b] \subseteq Outpoint
    BY BlockAssumption
<1>2. \A o \in Outpoint : Resolve(b, f, m, o) \in Lookup \cup {NoRow}
    BY ResolveType
<1>3. {[outpoint |-> o, ref |-> Resolve(b, f, m, o)] :
          o \in {p \in Inputs[b] : Resolve(b, f, m, p) # NoRow}}
      \in SUBSET [outpoint : Outpoint, ref : Lookup]
    BY <1>1, <1>2
<1> QED
    BY <1>2, <1>3 DEF Applied, AppliedBlock, SpendAfter

\* The file of an applied block is a stored block for it.
LEMMA FileOfType ==
    ASSUME NEW a \in AppliedBlock
    PROVE  /\ FileOf(a) \in Stored
           /\ FileOf(a).block = a.block /\ FileOf(a).first_uid = a.first_uid
<1>1. {[uid |-> s.ref.uid, creation_height |-> s.ref.height] : s \in a.spent}
      \in SUBSET [uid : Nat, creation_height : Heights]
    BY DEF AppliedBlock, Lookup
<1>2. Len(Indexed[a.block]) \in Nat
    BY BlockAssumption DEF AppliedBlock
<1>3. Unspent \in 0..Unspent
    BY ConstantsAssumption DEF Unspent
<1>4. [i \in 1..Len(Indexed[a.block]) |-> Unspent] \in Seq(0..Unspent)
    BY <1>2, <1>3
<1> QED
    BY <1>1, <1>4 DEF FileOf, Stored, AppliedBlock

\* The spends of a window point at heights and carry heights.
LEMMA PendingSpendsType ==
    ASSUME TypeOK
    PROVE  \A s \in PendingSpends : s.height \in Heights /\ s.spent_height \in Heights
<1> SUFFICES ASSUME NEW s \in PendingSpends
             PROVE  s.height \in Heights /\ s.spent_height \in Heights
    OBVIOUS
<1>1. PICK k \in 1..Len(pending) :
          s \in {[height |-> t.ref.height, index |-> t.ref.index,
                 spent_height |-> Height[pending[k].block]] : t \in pending[k].spent}
    BY DEF PendingSpends
<1>2. pending[k] \in AppliedBlock
    BY ElementOfSeq DEF TypeOK, AppliedBlock
<1>3. PICK t \in pending[k].spent :
          s = [height |-> t.ref.height, index |-> t.ref.index,
               spent_height |-> Height[pending[k].block]]
    BY <1>1
<1>4. t.ref \in Lookup /\ pending[k].block \in Block
    BY <1>2, <1>3 DEF AppliedBlock
<1> QED
    BY <1>3, <1>4, BlockAssumption DEF Lookup

\* Rewriting a file leaves a stored block with the same block and UIDs.
LEMMA MarkedType ==
    ASSUME TypeOK, NEW h \in Heights, NEW file \in Stored
    PROVE  /\ Marked(file, h) \in Stored
           /\ Marked(file, h).block = file.block /\ Marked(file, h).first_uid = file.first_uid
<1> DEFINE mark(i) == CHOOSE s \in PendingSpends : s.height = h /\ s.index = i
<1> DEFINE sh == [i \in DOMAIN file.spent_height |->
                    IF \E s \in PendingSpends : s.height = h /\ s.index = i
                    THEN mark(i).spent_height ELSE file.spent_height[i]]
<1>1. \A s \in PendingSpends : s.spent_height \in 0..Unspent
    BY PendingSpendsType, ConstantsAssumption DEF Heights, Unspent
<1>2. file.spent_height \in Seq(0..Unspent)
    BY DEF Stored
<1>3. \A i \in DOMAIN file.spent_height : sh[i] \in 0..Unspent
    <2> SUFFICES ASSUME NEW i \in DOMAIN file.spent_height PROVE sh[i] \in 0..Unspent
        OBVIOUS
    <2>1. CASE \E s \in PendingSpends : s.height = h /\ s.index = i
        <3>1. mark(i) \in PendingSpends
            BY <2>1
        <3> QED
            BY <1>1, <2>1, <3>1
    <2>2. CASE ~ \E s \in PendingSpends : s.height = h /\ s.index = i
        <3>1. sh[i] = file.spent_height[i]
            BY <2>2
        <3> HIDE DEF sh
        <3> QED
            BY <1>2, <3>1, LenProperties
    <2> QED
        BY <2>1, <2>2
<1>4. sh \in Seq(0..Unspent)
    <2>1. DOMAIN sh = DOMAIN file.spent_height /\ sh = [i \in DOMAIN sh |-> sh[i]]
        OBVIOUS
    <2>2. PICK n \in Nat : DOMAIN file.spent_height = 1..n
        BY <1>2, LenProperties
    <2> HIDE DEF sh
    <2>3. sh \in [1..n -> 0..Unspent]
        BY <1>3, <2>1, <2>2
    <2> QED
        BY <2>3, SeqDef
<1>5. Marked(file, h) = [file EXCEPT !.spent_height = sh]
    BY DEF Marked
<1> HIDE DEF sh
<1> QED
    BY <1>4, <1>5 DEF Stored

\* The rows a commit leaves are lookup values.
LEMMA RowsAfterType ==
    ASSUME TypeOK
    PROVE  RowsAfter \in [Outpoint -> Lookup \cup {NoRow}]
<1>1. \A k \in 1..Len(pending) :
         CreatedRows(pending[k].block, pending[k].first_uid) \in [Outpoint -> Lookup \cup {NoRow}]
    <2> SUFFICES ASSUME NEW k \in 1..Len(pending)
                 PROVE  pending[k].block \in Block /\ pending[k].first_uid \in Nat
        BY CreatedRowsType
    <2>1. pending[k] \in AppliedBlock
        BY ElementOfSeq DEF TypeOK, AppliedBlock
    <2> QED
        BY <2>1 DEF AppliedBlock
<1> SUFFICES ASSUME NEW o \in Outpoint PROVE RowsAfter[o] \in Lookup \cup {NoRow}
    BY DEF RowsAfter
<1> DEFINE P(k) == CreatedRows(pending[k].block, pending[k].first_uid)[o] # NoRow
<1> DEFINE K == CHOOSE k \in 1..Len(pending) : P(k)
<1>2. CASE \E k \in 1..Len(pending) : P(k)
    <2>1. K \in 1..Len(pending)
        BY <1>2
    <2>2. CreatedRows(pending[K].block, pending[K].first_uid)[o] \in Lookup \cup {NoRow}
        BY <1>1, <2>1
    <2> QED
        BY <2>2 DEF RowsAfter, TypeOK
<1>3. CASE ~ \E k \in 1..Len(pending) : P(k)
    BY <1>3 DEF RowsAfter, TypeOK
<1> QED
    BY <1>2, <1>3

\* The last pending block is a block.
LEMMA LastPendingType ==
    ASSUME TypeOK, Len(pending) > 0
    PROVE  LastPending \in Block /\ Len(pending) \in Nat
<1>1. Len(pending) \in Nat
    BY LenProperties DEF TypeOK
<1>2. pending \in Seq(AppliedBlock) /\ Len(pending) \in 1..Len(pending)
    BY <1>1 DEF TypeOK, AppliedBlock
<1>3. pending[Len(pending)] \in AppliedBlock
    BY <1>2, ElementOfSeq
<1> QED
    BY <1>1, <1>3 DEF AppliedBlock, LastPending

\* The node's blocks are blocks at their heights.
LEMMA NodeType ==
    ASSUME TypeOK
    PROVE  /\ Len(node) \in Nat \ {0}
           /\ \A i \in 1..Len(node) : node[i] \in Block /\ Height[node[i]] = i - 1
           /\ Len(node) - 1 \in Heights
<1>1. node \in Seq(Block) /\ node # << >> /\ \A i \in 1..Len(node) : Height[node[i]] = i - 1
    BY ChainAssumption DEF TypeOK
<1>2. Len(node) \in Nat \ {0}
    BY <1>1, EmptySeq
<1>3. \A i \in 1..Len(node) : node[i] \in Block
    BY <1>1, ElementOfSeq
<1>4. Height[node[Len(node)]] = Len(node) - 1 /\ node[Len(node)] \in Block
    BY <1>1, <1>2, <1>3
<1> QED
    BY <1>1, <1>2, <1>3, <1>4, BlockAssumption

\* A step from a state of the invariant keeps the types.
LEMMA TypeStep ==
    ASSUME IInv, [Next]_vars
    PROVE  TypeOK'
<1> USE ConstantsAssumption
<1>0. TypeOK
    BY DEF IInv
<1>1. CASE UNCHANGED vars
    BY <1>0, <1>1 DEF TypeOK, vars, disk, mem
<1>2. ASSUME NEW c \in Chains, NodeAdopts(c) PROVE TypeOK'
    BY <1>0, <1>2 DEF NodeAdopts, TypeOK, disk, mem
<1>3. CASE Start
    <2>1. next' \in 0..(MaxHeight + 1)
        BY <1>0, <1>3, BlockAssumption DEF Start, TypeOK, Heights
    <2>2. spend' \in [Outpoint -> Lookup \cup {NoRow}]
        BY <1>3 DEF Start, NoSpends
    <2> QED
        BY <1>0, <1>3, <2>1, <2>2 DEF Start, TypeOK, disk
<1>4. CASE PollHeight
    BY <1>0, <1>4, NodeType DEF PollHeight, TypeOK, disk, BestHeight
<1>5. CASE OpenWindow
    <2>1. FinalizedTip(best) \in Heights
        BY <1>0 DEF TypeOK, FinalizedTip, Heights
    <2>2. flush_end' \in Heights /\ chunk' \in 0..(MaxHeight + 1)
        BY <1>0, <1>5, <2>1 DEF OpenWindow, TypeOK, Heights, Minimum
    <2>3. known' \in Block
        <3>1. best + 1 \in 1..Len(node)
            BY <1>0, <1>5, NodeType DEF OpenWindow, TypeOK, Heights
        <3> QED
            BY <1>0, <1>5, <3>1, NodeType DEF OpenWindow, BestHash
    <2>4. pending' \in Seq(AppliedBlock) /\ wr' \in 0..Len(pending')
        BY <1>5 DEF OpenWindow, IInv, Idle
    <2> QED
        BY <1>0, <1>5, <2>2, <2>3, <2>4 DEF OpenWindow, TypeOK, disk, AppliedBlock
<1>6. CASE CaughtUp
    <2>1. known' \in Block
        BY <1>0, <1>6, NodeType DEF CaughtUp, TypeOK, BestHash, Heights
    <2> QED
        BY <1>0, <1>6, <2>1 DEF CaughtUp, TypeOK, disk
<1>7. CASE TipChanged
    BY <1>0, <1>7 DEF TipChanged, TypeOK, disk
<1>8. ASSUME NEW h \in Heights, FetchBlock(h) PROVE TypeOK'
    <2>1. node[h + 1] \in Block
        BY <1>0, <1>8, NodeType DEF FetchBlock, Heights
    <2> QED
        BY <1>0, <1>8, <2>1 DEF FetchBlock, TypeOK, disk
<1>9. CASE ResolveChunk
    <2>1. cached' \subseteq Outpoint
        BY <1>0, <1>9, BlockAssumption DEF ResolveChunk, CacheCandidates, Historical, TypeOK
    <2>2. spend' \in [Outpoint -> Lookup \cup {NoRow}]
        BY <1>0, <1>9 DEF ResolveChunk, CacheCandidates, TypeOK
    <2> QED
        BY <1>0, <1>9, <2>1, <2>2 DEF ResolveChunk, TypeOK, disk
<1>10. ASSUME LoseMemory, UNCHANGED <<node, disk>>, crashes' \in 0..MaxCrashes PROVE TypeOK'
    <2>1. spend' \in [Outpoint -> Lookup \cup {NoRow}]
        BY <1>10 DEF LoseMemory, NoSpends
    <2>2. pending' \in Seq(AppliedBlock) /\ wr' \in 0..Len(pending')
        BY <1>10 DEF LoseMemory
    <2> QED
        BY <1>0, <1>10, <2>1, <2>2 DEF LoseMemory, TypeOK, disk, AppliedBlock, Heights
<1>11. CASE RejectChunk
    BY <1>0, <1>10, <1>11 DEF RejectChunk, TypeOK
<1>12. ASSUME NEW b \in Block, ApplyBlock(b) PROVE TypeOK'
    <2>0. next_uid \in Nat /\ Slots[b] \in Nat /\ Height[b] \in 0..MaxHeight
        BY <1>0, BlockAssumption DEF TypeOK, Heights
    <2>1. next_uid + 1 \in Nat /\ next_uid' \in Nat /\ chunk' \in 0..(MaxHeight + 1)
        BY <1>12, <2>0 DEF ApplyBlock, UidAfter
    <2>2. Applied(b, next_uid + 1, spend) \in AppliedBlock
          /\ spend' \in [Outpoint -> Lookup \cup {NoRow}]
        BY <1>0, <1>12, <2>1, AppliedType DEF ApplyBlock, TypeOK
    <2>3. pending \in Seq(AppliedBlock)
        BY <1>0 DEF TypeOK, AppliedBlock
    <2>4. pending' \in Seq(AppliedBlock) /\ Len(pending') = Len(pending) + 1
        BY <1>12, <2>2, <2>3 DEF ApplyBlock
    <2>5. wr' \in 0..Len(pending')
        BY <1>0, <1>12, <2>3, <2>4, LenProperties DEF ApplyBlock, TypeOK
    <2> QED
        BY <1>0, <1>12, <2>1, <2>2, <2>4, <2>5 DEF ApplyBlock, TypeOK, disk, AppliedBlock
<1>13. CASE EndChunk
    <2>1. spend' \in [Outpoint -> Lookup \cup {NoRow}]
        BY <1>0, <1>13 DEF EndChunk, EvictCandidates, TypeOK
    <2> QED
        BY <1>0, <1>13, <2>1 DEF EndChunk, TypeOK, disk
<1>14. CASE WriteFile
    <2>1. Len(pending) \in Nat /\ wr + 1 \in 1..Len(pending)
        BY <1>0, <1>14, LenProperties DEF WriteFile, TypeOK
    <2>2. pending[wr + 1] \in AppliedBlock
        BY <1>0, <2>1, ElementOfSeq DEF TypeOK, AppliedBlock
    <2>3. FileOf(pending[wr + 1]) \in Stored
        BY <2>2, FileOfType
    <2>4. files \in [Heights -> Stored \cup {NoFile}] /\ wr \in Nat
        BY <1>0, <2>1 DEF TypeOK
    <2>5. wr' \in 0..Len(pending)
        BY <1>14, <2>1, <2>4 DEF WriteFile
    <2>6. files' \in [Heights -> Stored \cup {NoFile}]
        <3> DEFINE hh == Height[pending[wr + 1].block]
                   ff == FileOf(pending[wr + 1])
        <3>1. files' = [files EXCEPT ![hh] = ff]
            BY <1>14 DEF WriteFile
        <3> HIDE DEF hh, ff
        <3>2. ff \in Stored
            BY <2>3 DEF ff
        <3> QED
            BY <2>4, <3>1, <3>2
    <2> QED
        BY <1>0, <1>14, <2>5, <2>6 DEF WriteFile, TypeOK
<1>15. CASE StartMarking
    <2>1. marks' \subseteq Heights
        BY <1>0, <1>15, PendingSpendsType DEF StartMarking, FilesToMark
    <2> QED
        BY <1>0, <1>15, <2>1 DEF StartMarking, TypeOK, disk
<1>16. ASSUME NEW h \in Heights, MarkFile(h) PROVE TypeOK'
    <2>1. files' \in [Heights -> Stored \cup {NoFile}]
        <3>1. CASE files[h] = NoFile
            BY <1>0, <1>16, <3>1 DEF MarkFile, TypeOK
        <3>2. CASE files[h] # NoFile
            <4>1. files[h] \in Stored
                BY <1>0, <3>2 DEF TypeOK
            <4>2. Marked(files[h], h) \in Stored
                BY <1>0, <4>1, MarkedType
            <4> QED
                BY <1>0, <1>16, <3>2, <4>2 DEF MarkFile, TypeOK
        <3> QED
            BY <3>1, <3>2
    <2> QED
        BY <1>0, <1>16, <2>1 DEF MarkFile, TypeOK
<1>17. CASE Commit
    <2>1. LastPending \in Block
        BY <1>0, <1>17, LastPendingType DEF Commit, IInv, StagesInOrder
    <2>2. rows' \in [Outpoint -> Lookup \cup {NoRow}]
        BY <1>0, <1>17, RowsAfterType DEF Commit
    <2> QED
        BY <1>0, <1>17, <2>1, <2>2 DEF Commit, TypeOK, mem
<1>18. CASE TruncateManifest
    BY <1>0, <1>18 DEF TruncateManifest, TypeOK, mem
<1>19. CASE WriteManifest
    <2>1. LastPending \in Block
        BY <1>0, <1>19, LastPendingType DEF WriteManifest, IInv, StagesInOrder
    <2>2. next' \in 0..(MaxHeight + 1) /\ manifest' \in Block
        BY <1>19, <2>1, BlockAssumption DEF WriteManifest, ManifestTip, Heights
    <2>3. pending' \in Seq(AppliedBlock) /\ wr' \in 0..Len(pending')
        BY <1>19 DEF WriteManifest
    <2>4. chunk' \in 0..(MaxHeight + 1) /\ flush_end' \in Heights
        BY <1>19 DEF WriteManifest, Heights
    <2> QED
        BY <1>0, <1>19, <2>2, <2>3, <2>4 DEF WriteManifest, TypeOK, AppliedBlock
<1>20. CASE Crash
    BY <1>0, <1>10, <1>20 DEF Crash, TypeOK
<1> QED
    BY <1>1, <1>2, <1>3, <1>4, <1>5, <1>6, <1>7, <1>8, <1>9, <1>11, <1>12, <1>13, <1>14,
       <1>15, <1>16, <1>17, <1>18, <1>19, <1>20 DEF Next, Indexer
-----------------------------------------------------------------------------
(* The committed archive *)

\* A step that keeps the tip, and the block and UIDs of every committed
\* file, keeps what is said about the archive.
LEMMA ArchiveFrame ==
    ASSUME IInv, tip' = tip, last_uid' = last_uid,
           manifest' = manifest \/ manifest' \notin Block,
           \A h \in Committed : /\ files'[h] # NoFile
                                /\ files'[h].block = files[h].block
                                /\ files'[h].first_uid = files[h].first_uid
    PROVE  FilesCoverTip' /\ UidsDense' /\ ManifestBehindTip'
<1>1. TypeOK /\ FilesCoverTip /\ UidsDense /\ ManifestBehindTip
    BY DEF IInv
<1>2. Committed' = Committed
    BY DEF Committed
<1>3. tip # NoBlock => tip \in Block /\ Height[tip] \in Nat /\ EmitStart \in Nat
    BY <1>1, BlockAssumption, ConstantsAssumption DEF TypeOK, Heights
<1>4. tip # NoBlock => Height[tip] \in Committed /\ EmitStart \in Committed
    BY <1>1, <1>3 DEF Committed, FilesCoverTip
<1>5. \A h \in Committed : h > EmitStart => h - 1 \in Committed
    BY <1>3 DEF Committed
<1>6. FilesCoverTip'
    BY <1>1, <1>2, <1>4, <1>5 DEF FilesCoverTip
<1>7. UidsDense'
    BY <1>1, <1>2, <1>4, <1>5 DEF UidsDense
<1>8. ManifestBehindTip'
    BY <1>1, <1>2 DEF ManifestBehindTip
<1> QED
    BY <1>6, <1>7, <1>8

\* In particular a step that does not touch the disk.
LEMMA DiskFrame ==
    ASSUME IInv, UNCHANGED <<files, tip, last_uid>>,
           manifest' = manifest \/ manifest' \notin Block
    PROVE  FilesCoverTip' /\ UidsDense' /\ ManifestBehindTip'
BY ArchiveFrame DEF IInv, FilesCoverTip

\* What is said about the process while it runs.
Running == Idle /\ PendingLinked /\ ChunkFollows /\ GotLinked /\ StagesInOrder

\* A pending block has a height of its own, above every committed height.
LEMMA PendingHeights ==
    ASSUME IInv, InWindow, NEW k \in 1..Len(pending)
    PROVE  /\ pending[k] \in AppliedBlock
           /\ Height[pending[k].block] \in Heights
           /\ Height[pending[k].block] = next + k - 1
           /\ Height[pending[k].block] \notin Committed
<1>1. TypeOK /\ PendingLinked
    BY DEF IInv
<1>2. pending \in Seq(AppliedBlock)
    BY <1>1 DEF TypeOK, AppliedBlock
<1>3. pending[k] \in AppliedBlock /\ Len(pending) \in Nat
    BY <1>2, ElementOfSeq, LenProperties
<1>4. Height[pending[k].block] \in Heights
    BY <1>3, BlockAssumption DEF AppliedBlock
<1>5. Height[pending[k].block] = next + k - 1 /\ next = Resume
    BY <1>1 DEF PendingLinked
<1>6. next \in Nat /\ (tip # NoBlock => Height[tip] \in Nat)
    BY <1>1, BlockAssumption DEF TypeOK, Heights
<1>7. k \in Nat /\ k >= 1
    BY <1>3
<1>8. Height[pending[k].block] \notin Committed
    BY <1>5, <1>6, <1>7, ConstantsAssumption DEF Committed, Resume, Heights
<1> QED
    BY <1>3, <1>4, <1>5, <1>8

\* A step that keeps the process and the committed state keeps Running.
LEMMA RunningFrame ==
    ASSUME Running, UNCHANGED <<pc, mem, tip, last_uid>>,
           pc \in {"write", "mark"} =>
               \A k \in 1..wr :
                   /\ files'[Height[pending[k].block]] # NoFile
                   /\ files'[Height[pending[k].block]].block
                          = files[Height[pending[k].block]].block
                   /\ files'[Height[pending[k].block]].first_uid
                          = files[Height[pending[k].block]].first_uid
    PROVE  Running'
BY DEF Running, mem, Idle, InWindow, Resume, PendingLinked, LastPending, ChunkFollows,
       GotLinked, StagesInOrder

\* Applying the next decoded block extends the pending chain.
LEMMA ApplyRunning ==
    ASSUME IInv, TypeOK', NEW b \in Block, ApplyBlock(b)
    PROVE  Running'
<1> DEFINE n == Len(pending)
           a == Applied(b, next_uid + 1, spend)
<1>0. TypeOK /\ Idle /\ PendingLinked /\ ChunkFollows /\ GotLinked
    BY DEF IInv
<1>1. pc = "apply" /\ pc' = "apply" /\ InWindow /\ InWindow'
    BY DEF ApplyBlock, InWindow
<1>2. /\ next' = next /\ tip' = tip /\ last_uid' = last_uid /\ chunk' = chunk + 1
      /\ prev' = b /\ got' = got \ {b} /\ next_uid' = next_uid + Slots[b] /\ wr' = wr
      /\ b \in got /\ Height[b] = chunk
    BY DEF ApplyBlock, disk, UidAfter
<1>3. next_uid \in Nat /\ Slots[b] \in Nat /\ next \in Nat /\ last_uid \in Nat
    BY <1>0, BlockAssumption DEF TypeOK
<1>4. a.block = b /\ a.first_uid = next_uid + 1 /\ a \in AppliedBlock
    BY <1>0, <1>3, AppliedType, SMTT(30) DEF TypeOK
<1>5. pending \in Seq(AppliedBlock) /\ n \in Nat
    BY <1>0, LenProperties DEF TypeOK, AppliedBlock
<1>6. pending' = Append(pending, a)
    BY DEF ApplyBlock
<1> HIDE DEF a
<1>7. /\ Len(pending') = n + 1 /\ pending'[n + 1] = a
      /\ \A k \in 1..n : pending'[k] = pending[k]
    BY <1>4, <1>5, <1>6
<1>8. /\ chunk = next + n
      /\ prev = IF n = 0 THEN tip ELSE pending[n].block
    BY <1>0, <1>1 DEF ChunkFollows, LastPending
<1>9. prev # NoBlock => Parent[b] = prev
    BY <1>0, <1>1, <1>2 DEF GotLinked
<1>10. n > 0 => pending[n].block \in Block /\ pending[n].first_uid \in Nat
    <2>1. n > 0 => n \in 1..Len(pending)
        BY <1>5
    <2>2. n > 0 => pending[n] \in AppliedBlock
        BY <1>5, <2>1, ElementOfSeq
    <2> QED
        BY <2>2 DEF AppliedBlock
<1>11. n > 0 => next_uid + 1 = pending[n].first_uid + Slots[pending[n].block]
    BY <1>0, <1>1, <1>5 DEF PendingLinked, LastPending
<1>12. Idle'
    BY <1>0, <1>1, <1>2 DEF Idle
<1>13. PendingLinked'
    <2>1. \A k \in 1..(n + 1) :
             /\ Height[pending'[k].block] = next + k - 1
             /\ k > 1 => Parent[pending'[k].block] = pending'[k - 1].block
             /\ k > 1 => pending'[k].first_uid
                            = pending'[k - 1].first_uid + Slots[pending'[k - 1].block]
        <3> SUFFICES ASSUME NEW k \in 1..(n + 1)
                     PROVE  /\ Height[pending'[k].block] = next + k - 1
                            /\ k > 1 => Parent[pending'[k].block] = pending'[k - 1].block
                            /\ k > 1 => pending'[k].first_uid
                                  = pending'[k - 1].first_uid + Slots[pending'[k - 1].block]
            OBVIOUS
        <3>1. CASE k \in 1..n
            <4>1. k > 1 => k - 1 \in 1..n
                BY <1>5, <3>1
            <4> QED
                BY <1>0, <1>1, <1>7, <3>1, <4>1 DEF PendingLinked
        <3>2. CASE k = n + 1
            <4>1. Height[pending'[k].block] = next + k - 1
                BY <1>2, <1>3, <1>4, <1>5, <1>7, <1>8, <3>2
            <4>2. k > 1 => n > 0 /\ k - 1 = n /\ n \in 1..n
                BY <1>5, <3>2
            <4>3. k > 1 => prev = pending[n].block /\ prev # NoBlock
                BY <1>8, <1>10, <4>2, BlockAssumption
            <4> QED
                BY <1>4, <1>7, <1>9, <1>11, <3>2, <4>1, <4>2, <4>3
        <3> QED
            BY <1>5, <3>1, <3>2
    <2>2. /\ tip # NoBlock => Parent[pending'[1].block] = tip
          /\ pending'[1].first_uid = last_uid + 1
        <3>1. CASE n = 0
            BY <1>0, <1>1, <1>4, <1>7, <1>8, <1>9, <3>1 DEF PendingLinked
        <3>2. CASE n # 0
            BY <1>0, <1>1, <1>5, <1>7, <3>2 DEF PendingLinked
        <3> QED
            BY <3>1, <3>2
    <2>3. next_uid' + 1 = pending'[n + 1].first_uid + Slots[pending'[n + 1].block]
        <3>1. a.first_uid + Slots[a.block] = next_uid + 1 + Slots[b]
            BY <1>4
        <3>2. next_uid' + 1 = next_uid + 1 + Slots[b]
            BY <1>2, <1>3
        <3> QED
            BY <1>7, <3>1, <3>2
    <2>4. Resume' = Resume /\ next = Resume
        BY <1>0, <1>1, <1>2 DEF Resume, PendingLinked
    <2> QED
        BY <1>2, <1>5, <1>7, <2>1, <2>2, <2>3, <2>4 DEF PendingLinked, LastPending
<1>14. ChunkFollows'
    BY <1>2, <1>3, <1>4, <1>5, <1>7, <1>8 DEF ChunkFollows, LastPending
<1>15. GotLinked'
    <2>1. /\ \A c \in got : Height[c] >= chunk
          /\ \A c, d \in got : Height[c] = Height[d] => c = d
          /\ \A c \in got : Height[c] > chunk =>
                 \E d \in got : Height[d] = Height[c] - 1 /\ Parent[c] = d
        BY <1>0, <1>1 DEF GotLinked
    <2>2. \A c \in got : Height[c] \in Nat
        BY <1>0, BlockAssumption DEF TypeOK, Heights
    <2>3. chunk \in Nat
        BY <1>0 DEF TypeOK
    <2>4. ASSUME NEW c \in got'
          PROVE  /\ Height[c] >= chunk + 1
                 /\ Height[c] = chunk + 1 => Parent[c] = b
                 /\ Height[c] > chunk + 1 =>
                        \E d \in got' : Height[d] = Height[c] - 1 /\ Parent[c] = d
        <3>1. c \in got /\ c # b
            BY <1>2
        <3>2. Height[c] # Height[b]
            BY <1>2, <2>1, <3>1
        <3>3. Height[c] >= chunk + 1
            BY <1>2, <2>1, <2>2, <2>3, <3>1, <3>2
        <3>4. PICK d \in got : Height[d] = Height[c] - 1 /\ Parent[c] = d
            BY <2>1, <2>2, <2>3, <3>1, <3>3
        <3>5. Height[c] = chunk + 1 => d = b
            BY <1>2, <2>1, <2>3, <3>4
        <3>6. Height[c] > chunk + 1 => d \in got'
            BY <1>2, <2>2, <2>3, <3>1, <3>4
        <3> QED
            BY <3>3, <3>4, <3>5, <3>6
    <2> QED
        BY <1>2, <1>5, <1>7, <2>1, <2>4 DEF GotLinked
<1>16. StagesInOrder'
    BY <1>1 DEF StagesInOrder
<1> QED
    BY <1>12, <1>13, <1>14, <1>15, <1>16 DEF Running

\* Rewriting spent heights keeps which files exist, their blocks and UIDs.
LEMMA MarkKeeps ==
    ASSUME IInv, NEW h \in Heights, MarkFile(h), NEW k \in Heights, files[k] # NoFile
    PROVE  /\ files'[k] # NoFile
           /\ files'[k].block = files[k].block
           /\ files'[k].first_uid = files[k].first_uid
<1>1. TypeOK /\ files \in [Heights -> Stored \cup {NoFile}]
    BY DEF IInv, TypeOK
<1>2. CASE files[h] = NoFile
    BY <1>2 DEF MarkFile
<1>3. CASE files[h] # NoFile
    <2>1. files' = [files EXCEPT ![h] = Marked(files[h], h)]
        BY <1>3 DEF MarkFile
    <2>2. /\ Marked(files[h], h) \in Stored
          /\ Marked(files[h], h).block = files[h].block
          /\ Marked(files[h], h).first_uid = files[h].first_uid
        BY <1>1, <1>3, MarkedType
    <2>3. files'[k] = IF k = h THEN Marked(files[h], h) ELSE files[k]
        BY <1>1, <2>1
    <2> QED
        BY <2>2, <2>3, NoValueAssumption
<1> QED
    BY <1>2, <1>3

\* Every step keeps Running.
LEMMA RunningStep ==
    ASSUME IInv, [Next]_vars
    PROVE  Running'
<1> USE DEF InWindow
<1>0. TypeOK /\ Running /\ TypeOK'
    BY TypeStep DEF IInv, Running
<1>0a. Len(pending) \in Nat
    BY <1>0, LenProperties DEF TypeOK
<1>1. CASE UNCHANGED vars
    BY <1>0, <1>1, RunningFrame DEF vars, disk, mem, Running, StagesInOrder
<1>2. ASSUME NEW c \in Chains, NodeAdopts(c) PROVE Running'
    BY <1>0, <1>2, RunningFrame DEF NodeAdopts, disk, mem, Running, StagesInOrder
<1>3. CASE Start
    BY <1>0, <1>3 DEF Start, disk, Running, Idle, PendingLinked, ChunkFollows, GotLinked,
                      StagesInOrder, Resume
<1>4. CASE PollHeight
    BY <1>0, <1>4 DEF PollHeight, disk, Running, Idle, PendingLinked, ChunkFollows, GotLinked,
                      StagesInOrder, Resume
<1>5. CASE OpenWindow
    <2>1. pending' = << >> /\ Len(pending') = 0
        BY <1>5 DEF OpenWindow
    <2>2. /\ pc = "hash" /\ pc' = "fetch" /\ next' = next /\ tip' = tip /\ last_uid' = last_uid
          /\ next_uid' = next_uid /\ chunk' = next /\ prev' = tip /\ wr' = wr
        BY <1>5 DEF OpenWindow, disk
    <2>3. next = Resume /\ next_uid = last_uid /\ wr = 0
        BY <1>0, <2>2 DEF Running, Idle
    <2>4. next \in Nat
        BY <1>0 DEF TypeOK
    <2> QED
        BY <2>1, <2>2, <2>3, <2>4 DEF Running, Idle, PendingLinked, ChunkFollows, GotLinked,
                                      StagesInOrder, Resume
<1>6. CASE CaughtUp
    BY <1>0, <1>6 DEF CaughtUp, disk, Running, Idle, PendingLinked, ChunkFollows, GotLinked,
                      StagesInOrder, Resume
<1>7. CASE TipChanged
    BY <1>0, <1>7 DEF TipChanged, disk, Running, Idle, PendingLinked, ChunkFollows, GotLinked,
                      StagesInOrder, Resume
<1>8. ASSUME NEW h \in Heights, FetchBlock(h) PROVE Running'
    BY <1>0, <1>8 DEF FetchBlock, disk, Running, Idle, PendingLinked, LastPending, ChunkFollows,
                      GotLinked, StagesInOrder, Resume
<1>9. CASE ResolveChunk
    <2>1. /\ pc = "fetch" /\ pc' = "apply" /\ got' = got /\ chunk' = chunk /\ prev' = prev
          /\ pending' = pending /\ next' = next /\ next_uid' = next_uid /\ wr' = wr
          /\ tip' = tip /\ last_uid' = last_uid
        BY <1>9 DEF ResolveChunk, ChunkFetched, disk
    <2>2. ValidChunk(got, chunk, prev)
        BY <1>9 DEF ResolveChunk
    <2>3. GotLinked'
        BY <2>1, <2>2 DEF GotLinked, ValidChunk
    <2> QED
        BY <1>0, <2>1, <2>3 DEF Running, Idle, PendingLinked, LastPending, ChunkFollows,
                                StagesInOrder, Resume
<1>10. ASSUME LoseMemory PROVE Running'
    BY <1>10 DEF LoseMemory, Running, Idle, PendingLinked, ChunkFollows, GotLinked, StagesInOrder
<1>11. CASE RejectChunk
    BY <1>10, <1>11 DEF RejectChunk
<1>12. ASSUME NEW b \in Block, ApplyBlock(b) PROVE Running'
    BY <1>0, <1>12, ApplyRunning
<1>13. CASE EndChunk
    <2>1. /\ pc = "apply" /\ pc' \in {"fetch", "write"} /\ got = {} /\ chunk' = chunk
          /\ prev' = prev /\ pending' = pending /\ next' = next /\ next_uid' = next_uid
          /\ wr' = wr /\ tip' = tip /\ last_uid' = last_uid
        BY <1>13 DEF EndChunk, disk
    <2>2. Len(pending) > 0 /\ wr = 0
        BY <1>0, <2>1 DEF Running, GotLinked, Idle
    <2> QED
        BY <1>0, <2>1, <2>2 DEF Running, Idle, PendingLinked, LastPending, ChunkFollows,
                                GotLinked, StagesInOrder, Resume
<1>14. CASE WriteFile
    <2>1. /\ pc = "write" /\ pc' = pc /\ wr' = wr + 1 /\ pending' = pending /\ next' = next
          /\ next_uid' = next_uid /\ tip' = tip /\ last_uid' = last_uid /\ wr + 1 \in 1..Len(pending)
        BY <1>0, <1>0a, <1>14 DEF WriteFile, TypeOK
    <2>2. files' = [files EXCEPT ![Height[pending[wr + 1].block]] = FileOf(pending[wr + 1])]
        BY <1>14 DEF WriteFile
    <2>3. /\ FileOf(pending[wr + 1]) \in Stored
          /\ FileOf(pending[wr + 1]).block = pending[wr + 1].block
          /\ FileOf(pending[wr + 1]).first_uid = pending[wr + 1].first_uid
        BY <2>1, FileOfType, PendingHeights
    <2>4. \A k \in 1..Len(pending) : Height[pending[k].block] = next + k - 1
                                     /\ Height[pending[k].block] \in Heights
        BY <2>1, PendingHeights
    <2>5. files \in [Heights -> Stored \cup {NoFile}] /\ next \in Nat /\ wr \in Nat
        BY <1>0, <2>1 DEF TypeOK
    <2>6. ASSUME NEW k \in 1..(wr + 1)
          PROVE  /\ files'[Height[pending[k].block]] # NoFile
                 /\ files'[Height[pending[k].block]].block = pending[k].block
                 /\ files'[Height[pending[k].block]].first_uid = pending[k].first_uid
        <3>1. CASE k = wr + 1
            <4>1. Height[pending[k].block] \in Heights
                BY <2>1, <2>4, <3>1
            <4>2. files'[Height[pending[k].block]] = FileOf(pending[k])
                BY <2>2, <2>5, <3>1, <4>1
            <4> QED
                BY <2>3, <3>1, <4>2, NoValueAssumption
        <3>2. CASE k # wr + 1
            <4>1. k \in 1..wr /\ k \in 1..Len(pending)
                BY <1>0a, <2>1, <2>5, <3>2
            <4>2. Height[pending[k].block] # Height[pending[wr + 1].block]
                  /\ Height[pending[k].block] \in Heights
                BY <2>1, <2>4, <2>5, <3>2, <4>1
            <4>3. files'[Height[pending[k].block]] = files[Height[pending[k].block]]
                BY <2>2, <2>5, <4>2
            <4> QED
                BY <1>0, <2>1, <4>1, <4>3 DEF Running, StagesInOrder
        <3> QED
            BY <3>1, <3>2
    <2> QED
        BY <1>0, <2>1, <2>6 DEF Running, Idle, PendingLinked, LastPending, ChunkFollows,
                                GotLinked, StagesInOrder, Resume
<1>15. CASE StartMarking
    BY <1>0, <1>15 DEF StartMarking, AllWritten, disk, Running, Idle, PendingLinked, LastPending,
                       ChunkFollows, GotLinked, StagesInOrder, Resume
<1>16. ASSUME NEW h \in Heights, MarkFile(h) PROVE Running'
    <2>1. /\ pc = "mark" /\ pc' = pc /\ wr' = wr /\ pending' = pending /\ next' = next
          /\ next_uid' = next_uid /\ tip' = tip /\ last_uid' = last_uid /\ wr = Len(pending)
        BY <1>0, <1>16 DEF MarkFile, Running, StagesInOrder
    <2>2. ASSUME NEW k \in 1..wr
          PROVE  /\ files'[Height[pending[k].block]] # NoFile
                 /\ files'[Height[pending[k].block]].block = pending[k].block
                 /\ files'[Height[pending[k].block]].first_uid = pending[k].first_uid
        <3>1. /\ files[Height[pending[k].block]] # NoFile
              /\ files[Height[pending[k].block]].block = pending[k].block
              /\ files[Height[pending[k].block]].first_uid = pending[k].first_uid
            BY <1>0, <2>1 DEF Running, StagesInOrder
        <3>2. Height[pending[k].block] \in Heights
            BY <2>1, PendingHeights
        <3> QED
            BY <1>16, <3>1, <3>2, MarkKeeps
    <2> QED
        BY <1>0, <2>1, <2>2 DEF Running, Idle, PendingLinked, LastPending, ChunkFollows,
                                GotLinked, StagesInOrder, Resume
<1>17. CASE Commit
    <2>1. /\ pc = "mark" /\ pc' = "manifest" /\ tip' = LastPending /\ last_uid' = next_uid
          /\ pending' = pending /\ next_uid' = next_uid /\ wr' = wr
        BY <1>17 DEF Commit, mem
    <2> QED
        BY <1>0, <2>1 DEF Running, Idle, PendingLinked, LastPending, ChunkFollows, GotLinked,
                          StagesInOrder
<1>18. CASE TruncateManifest
    BY <1>0, <1>18 DEF TruncateManifest, mem, Running, Idle, PendingLinked, LastPending,
                       ChunkFollows, GotLinked, StagesInOrder
<1>19. CASE WriteManifest
    <2>1. LastPending = tip /\ Len(pending) > 0 /\ next_uid = last_uid
        BY <1>0, <1>19 DEF WriteManifest, Running, StagesInOrder
    <2>2. tip # NoBlock
        BY <1>0, <2>1, LastPendingType, BlockAssumption
    <2> QED
        BY <1>19, <2>1, <2>2 DEF WriteManifest, Running, Idle, PendingLinked, ChunkFollows,
                                 GotLinked, StagesInOrder, Resume
<1>20. CASE Crash
    BY <1>10, <1>20 DEF Crash
<1> QED
    BY <1>1, <1>2, <1>3, <1>4, <1>5, <1>6, <1>7, <1>8, <1>9, <1>11, <1>12, <1>13, <1>14,
       <1>15, <1>16, <1>17, <1>18, <1>19, <1>20 DEF Next, Indexer

\* The commit moves the tip over files that are all there, linked to the old
\* tip and numbered from the old UID counter.
LEMMA CommitArchive ==
    ASSUME IInv, Commit
    PROVE  FilesCoverTip' /\ UidsDense' /\ ManifestBehindTip'
<1> DEFINE n == Len(pending)
           H(k) == Height[pending[k].block]
<1>0. TypeOK /\ PendingLinked /\ StagesInOrder /\ FilesCoverTip /\ UidsDense /\ ManifestBehindTip
    BY DEF IInv
<1>1. /\ pc = "mark" /\ tip' = LastPending /\ last_uid' = next_uid /\ files' = files
      /\ manifest' = manifest
    BY DEF Commit
<1>2. n > 0 /\ LastPending \in Block /\ n \in Nat /\ wr = n /\ n \in 1..n
    BY <1>0, <1>1, LastPendingType DEF StagesInOrder
<1>3. /\ EmitStart \in Nat /\ next \in Nat /\ next = Resume
      /\ tip # NoBlock => tip \in Block /\ Height[tip] \in Nat
    BY <1>0, <1>1, BlockAssumption, ConstantsAssumption DEF TypeOK, PendingLinked, InWindow, Heights
<1>4. \A k \in 1..n : /\ H(k) = next + k - 1
                       /\ files[H(k)] # NoFile /\ files[H(k)].block = pending[k].block
                       /\ files[H(k)].first_uid = pending[k].first_uid
    BY <1>0, <1>1, <1>2 DEF PendingLinked, StagesInOrder, InWindow
<1>5. tip' # NoBlock /\ Height[tip'] = next + n - 1 /\ LastPending = pending[n].block
    BY <1>1, <1>2, <1>4, BlockAssumption DEF LastPending
<1>6. Committed' = EmitStart..(next + n - 1)
    BY <1>5 DEF Committed
<1>7. tip # NoBlock => next = Height[tip] + 1 /\ EmitStart <= Height[tip]
    BY <1>0, <1>3 DEF Resume, FilesCoverTip
<1>8. tip = NoBlock => next = EmitStart
    BY <1>3 DEF Resume
<1>9. ASSUME NEW h \in Committed'
      PROVE  h \in Committed \/ \E k \in 1..n : h = next + k - 1
    <2>1. CASE h < next
        BY <1>3, <1>6, <1>7, <1>8, <1>9, <2>1 DEF Committed
    <2>2. CASE h >= next
        <3>1. h - next + 1 \in 1..n /\ h = next + (h - next + 1) - 1
            BY <1>2, <1>3, <1>6, <1>9, <2>2
        <3> QED
            BY <3>1
    <2> QED
        BY <1>3, <1>6, <1>9, <2>1, <2>2
<1>10. \A h \in Committed : h < next /\ h \in Committed'
    <2>1. \A h \in Committed : h \in EmitStart..(next - 1)
        BY <1>3, <1>7 DEF Committed
    <2> QED
        BY <1>2, <1>3, <1>6, <2>1
<1>11. ASSUME NEW h \in Committed', h > EmitStart
       PROVE  /\ Parent[files[h].block] = files[h - 1].block
              /\ files[h].first_uid = files[h - 1].first_uid + Slots[files[h - 1].block]
    <2>1. CASE h \in Committed
        BY <1>0, <1>11, <2>1 DEF FilesCoverTip, UidsDense
    <2>2. ASSUME NEW k \in 1..n, h = next + k - 1, k > 1
          PROVE  /\ Parent[files[h].block] = files[h - 1].block
                 /\ files[h].first_uid = files[h - 1].first_uid + Slots[files[h - 1].block]
        <3>1. k - 1 \in 1..n /\ h - 1 = next + (k - 1) - 1
            BY <1>2, <1>3, <2>2
        <3>2. H(k) = h /\ H(k - 1) = h - 1
            BY <1>4, <2>2, <3>1
        <3>3. /\ files[h].block = pending[k].block /\ files[h].first_uid = pending[k].first_uid
              /\ files[h - 1].block = pending[k - 1].block
              /\ files[h - 1].first_uid = pending[k - 1].first_uid
            BY <1>4, <3>1, <3>2
        <3> QED
            BY <1>0, <1>1, <2>2, <3>3 DEF PendingLinked, InWindow
    <2>3. CASE h = next
        <3>1. tip # NoBlock /\ h - 1 = Height[tip] /\ files[h - 1].block = tip
            BY <1>0, <1>3, <1>7, <1>8, <1>11, <2>3 DEF FilesCoverTip
        <3>2. 1 \in 1..n /\ H(1) = h
            BY <1>2, <1>3, <1>4, <2>3
        <3>3. files[h].block = pending[1].block /\ files[h].first_uid = pending[1].first_uid
            BY <1>4, <3>2
        <3>4. Parent[pending[1].block] = tip /\ pending[1].first_uid = last_uid + 1
            BY <1>0, <1>1, <1>2, <3>1 DEF PendingLinked, InWindow
        <3>5. last_uid + 1 = files[h - 1].first_uid + Slots[tip]
            BY <1>0, <3>1 DEF UidsDense
        <3> QED
            BY <3>1, <3>3, <3>4, <3>5
    <2> QED
        BY <1>2, <1>3, <1>9, <2>1, <2>2, <2>3
<1>12. ASSUME NEW h \in Committed' PROVE files[h] # NoFile /\ Height[files[h].block] = h
    <2>1. CASE h \in Committed
        BY <1>0, <2>1 DEF FilesCoverTip
    <2>2. ASSUME NEW k \in 1..n, h = next + k - 1
          PROVE  files[h] # NoFile /\ Height[files[h].block] = h
        BY <1>4, <2>2
    <2> QED
        BY <1>9, <2>1, <2>2
<1>13. EmitStart <= Height[tip'] /\ files[Height[tip']] # NoFile /\ files[Height[tip']].block = tip'
    BY <1>1, <1>2, <1>3, <1>4, <1>5, <1>7, <1>8
<1>14. FilesCoverTip'
    BY <1>1, <1>5, <1>11, <1>12, <1>13 DEF FilesCoverTip
<1>15. files[EmitStart].first_uid = 1
    <2>1. CASE tip = NoBlock
        <3>1. 1 \in 1..n /\ H(1) = EmitStart
            BY <1>2, <1>3, <1>4, <1>8, <2>1
        <3>2. files[EmitStart].first_uid = pending[1].first_uid
            BY <1>4, <3>1
        <3>3. pending[1].first_uid = last_uid + 1 /\ last_uid = 0
            BY <1>0, <1>1, <1>2, <2>1 DEF PendingLinked, InWindow, UidsDense
        <3> QED
            BY <3>2, <3>3
    <2>2. CASE tip # NoBlock
        BY <1>0, <2>2 DEF UidsDense
    <2> QED
        BY <2>1, <2>2
<1>16. last_uid' + 1 = files[Height[tip']].first_uid + Slots[tip']
    <2>1. next_uid + 1 = pending[n].first_uid + Slots[LastPending]
        BY <1>0, <1>1, <1>2 DEF PendingLinked, InWindow
    <2>2. files[Height[tip']].first_uid = pending[n].first_uid
        BY <1>2, <1>4, <1>5
    <2> QED
        BY <1>1, <2>1, <2>2
<1>17. UidsDense'
    BY <1>1, <1>5, <1>11, <1>15, <1>16 DEF UidsDense
<1>18. ManifestBehindTip'
    BY <1>0, <1>1, <1>10 DEF ManifestBehindTip
<1> QED
    BY <1>14, <1>17, <1>18

\* Every step keeps what is said about the committed archive.
LEMMA ArchiveStep ==
    ASSUME IInv, [Next]_vars
    PROVE  FilesCoverTip' /\ UidsDense' /\ ManifestBehindTip'
<1>0. TypeOK /\ FilesCoverTip /\ StagesInOrder
    BY DEF IInv
<1>1. CASE UNCHANGED vars
    BY <1>1, DiskFrame DEF vars, disk
<1>2. ASSUME NEW c \in Chains, NodeAdopts(c) PROVE UNCHANGED disk
    BY <1>2 DEF NodeAdopts
<1>3. CASE \/ Start \/ PollHeight \/ OpenWindow \/ CaughtUp \/ TipChanged
           \/ (\E h \in Heights : FetchBlock(h)) \/ ResolveChunk \/ RejectChunk
           \/ (\E b \in Block : ApplyBlock(b)) \/ EndChunk \/ StartMarking \/ Crash
    <2>1. UNCHANGED disk
        BY <1>3 DEF Start, PollHeight, OpenWindow, CaughtUp, TipChanged, FetchBlock,
                    ResolveChunk, RejectChunk, ApplyBlock, EndChunk, StartMarking, Crash
    <2> QED
        BY <2>1, DiskFrame DEF disk
<1>4. CASE WriteFile
    <2>1. /\ pc = "write" /\ wr + 1 \in 1..Len(pending) /\ tip' = tip /\ last_uid' = last_uid
          /\ manifest' = manifest
        <3>1. Len(pending) \in Nat
            BY <1>0, LenProperties DEF TypeOK
        <3> QED
            BY <1>0, <1>4, <3>1 DEF WriteFile, TypeOK
    <2>2. Height[pending[wr + 1].block] \notin Committed
        BY <2>1, PendingHeights DEF InWindow
    <2>3. \A h \in Committed : h \in Heights
        BY <1>0, BlockAssumption, ConstantsAssumption, SMTT(40) DEF Committed, TypeOK, Heights
    <2>4. \A h \in Committed : files'[h] = files[h]
        BY <1>0, <1>4, <2>2, <2>3 DEF WriteFile, TypeOK
    <2> QED
        BY <1>0, <2>1, <2>4, ArchiveFrame DEF FilesCoverTip
<1>5. ASSUME NEW h \in Heights, MarkFile(h)
      PROVE  FilesCoverTip' /\ UidsDense' /\ ManifestBehindTip'
    <2>1. tip' = tip /\ last_uid' = last_uid /\ manifest' = manifest
        BY <1>5 DEF MarkFile
    <2>2. \A k \in Committed : k \in Heights /\ files[k] # NoFile
        BY <1>0, BlockAssumption, ConstantsAssumption DEF Committed, TypeOK, Heights, FilesCoverTip
    <2>3. \A k \in Committed : /\ files'[k] # NoFile
                               /\ files'[k].block = files[k].block
                               /\ files'[k].first_uid = files[k].first_uid
        BY <1>5, <2>2, MarkKeeps
    <2> QED
        BY <2>1, <2>3, ArchiveFrame
<1>6. CASE Commit
    BY <1>6, CommitArchive
<1>7. CASE TruncateManifest
    BY <1>7, DiskFrame, BlockAssumption DEF TruncateManifest
<1>8. CASE WriteManifest
    <2>1. UNCHANGED <<files, tip, last_uid>> /\ manifest' = LastPending
        BY <1>8 DEF WriteManifest, ManifestTip
    <2>2. LastPending = tip /\ tip \in Block
        BY <1>0, <1>8, LastPendingType DEF WriteManifest, StagesInOrder
    <2>3. Height[tip] \in Committed /\ files[Height[tip]].block = tip
        BY <1>0, <2>2, BlockAssumption, ConstantsAssumption DEF FilesCoverTip, Committed, Heights
    <2>4. ManifestBehindTip'
        BY <2>1, <2>2, <2>3 DEF ManifestBehindTip, Committed
    <2>5. FilesCoverTip' /\ UidsDense'
        BY <2>1 DEF IInv, FilesCoverTip, UidsDense, Committed
    <2> QED
        BY <2>4, <2>5
<1> QED
    BY <1>1, <1>2, <1>3, <1>4, <1>5, <1>6, <1>7, <1>8, DiskFrame DEF Next, Indexer, disk
-----------------------------------------------------------------------------
(* Theorems *)

\* The invariant holds initially.
LEMMA InitInvariant ==
    ASSUME Init
    PROVE  IInv
<1>1. NoSpends \in [Outpoint -> Lookup \cup {NoRow}]
    BY DEF NoSpends
<1>2. files \in [Heights -> Stored \cup {NoFile}]
    BY DEF Init
<1>3. pending = << >> /\ pending \in Seq(AppliedBlock) /\ Len(pending) = 0
    BY DEF Init
<1>4. TypeOK
    BY <1>1, <1>2, <1>3, ConstantsAssumption DEF Init, TypeOK, AppliedBlock, Heights
<1>5. Running
    BY DEF Init, Running, Idle, PendingLinked, InWindow, ChunkFollows, GotLinked, StagesInOrder
<1>6. FilesCoverTip /\ UidsDense /\ ManifestBehindTip
    BY BlockAssumption DEF Init, FilesCoverTip, UidsDense, ManifestBehindTip, Committed
<1> QED
    BY <1>4, <1>5, <1>6 DEF IInv, Running

\* The inductive invariant holds throughout every run of the indexer.
THEOREM Invariant == Spec => []IInv
<1>1. Init => IInv
    BY InitInvariant
<1>2. IInv /\ [Next]_vars => IInv'
    BY TypeStep, RunningStep, ArchiveStep DEF IInv, Running
<1> QED
    BY <1>1, <1>2, PTL DEF Spec

\* Disk and memory keep their types in every run.
THEOREM TypeCorrect == Spec => []TypeOK
<1>1. IInv => TypeOK
    BY DEF IInv
<1> QED
    BY <1>1, Invariant, PTL

\* The README's critical invariant, for any chain and any number of crashes
\* at any point: the files up to the RocksDB tip exist and are one chain.
THEOREM TipNeverPastFiles == Spec => []FilesCoverTip
<1>1. IInv => FilesCoverTip
    BY DEF IInv
<1> QED
    BY <1>1, Invariant, PTL

\* UIDs stay dense across windows, crashes and restarts.
THEOREM UidsStayDense == Spec => []UidsDense
<1>1. IInv => UidsDense
    BY DEF IInv
<1> QED
    BY <1>1, Invariant, PTL

\* The manifest never names an uncommitted block.
THEOREM ManifestNeverAhead == Spec => []ManifestBehindTip
<1>1. IInv => ManifestBehindTip
    BY DEF IInv
<1> QED
    BY <1>1, Invariant, PTL
-----------------------------------------------------------------------------
(* Histories: what was indexed at each height *)

Entry(b, f) == [block |-> b, first_uid |-> f]

\* The committed blocks.
Archived == [h \in Committed |-> Entry(files[h].block, files[h].first_uid)]

\* The blocks the process has applied: the committed ones and the pending.
History ==
    IF InWindow
    THEN [h \in EmitStart..(next + Len(pending) - 1) |->
             IF h < next THEN Entry(files[h].block, files[h].first_uid)
             ELSE Entry(pending[h - next + 1].block, pending[h - next + 1].first_uid)]
    ELSE Archived

\* Block b is part of chain c.
OnChain(b, c) == Height[b] + 1 \in 1..Len(c) /\ c[Height[b] + 1] = b

\* The lookup value of o when it is created at height h.
Row(H, h, o) == CreatedRows(H[h].block, H[h].first_uid)[o]

SpentIn(H, o) == \E h \in DOMAIN H : o \in Inputs[H[h].block]

IsHistory(H) ==
    \A h \in DOMAIN H : /\ h \in Heights
                        /\ H[h].block \in Block /\ Height[H[h].block] = h
                        /\ H[h].first_uid \in Nat

Follows(H, c) == \A h \in DOMAIN H : OnChain(H[h].block, c)

\* What consensus says of a history.
Lawful(H) ==
    \A g, h \in DOMAIN H : \A o \in Outpoint :
        /\ Row(H, g, o) # NoRow /\ Row(H, h, o) # NoRow => g = h
        /\ o \in Inputs[H[g].block] /\ o \in Inputs[H[h].block] => g = h
        /\ Row(H, g, o) # NoRow /\ o \in Inputs[H[h].block] => g <= h

\* What the map m holds are unspent outputs of H ...
MapRight(H, m) ==
    \A o \in Outpoint : m[o] # NoRow =>
        ~SpentIn(H, o) /\ \E h \in DOMAIN H : m[o] = Row(H, h, o)

\* ... and it holds all of those created at the heights S.
MapHolds(H, S, m) ==
    \A h \in S : \A o \in Outpoint : Row(H, h, o) # NoRow /\ ~SpentIn(H, o) => m[o] # NoRow

\* S is what block b spends of the outputs of H.
SpendsOf(S, b, H) ==
    /\ \A s \in S : s.outpoint \in Inputs[b] /\ \E h \in DOMAIN H : s.ref = Row(H, h, s.outpoint)
    /\ \A o \in Inputs[b] : \A h \in DOMAIN H :
           Row(H, h, o) # NoRow => [outpoint |-> o, ref |-> Row(H, h, o)] \in S

\* The entries a file lists for them.
Lists(E, b, H) ==
    /\ \A e \in E : \E o \in Inputs[b] : \E h \in DOMAIN H :
           Row(H, h, o) # NoRow /\ e = [uid |-> Row(H, h, o).uid, creation_height |-> h]
    /\ \A o \in Inputs[b] : \A h \in DOMAIN H :
           Row(H, h, o) # NoRow => [uid |-> Row(H, h, o).uid, creation_height |-> h] \in E

\* The fields of an entry.
LEMMA EntryFields ==
    \A b, f : Entry(b, f).block = b /\ Entry(b, f).first_uid = f
BY DEF Entry
-----------------------------------------------------------------------------
(* The inductive invariant *)

\* Applied and decoded blocks are part of one chain.
OneChain ==
    \E c \in Chains : Follows(History, c) /\ (pc = "apply" => \A b \in got : OnChain(b, c))

\* Fetched blocks come from chains of the node.
GotFromNode ==
    /\ pc = "fetch" => \A b \in got : \E c \in Chains : OnChain(b, c)
    /\ pc \notin {"fetch", "apply"} => got = {}

\* The spend map in memory has no wrong entry, every output of the window,
\* and whatever the blocks still to apply need from RocksDB.
SpendMap ==
    /\ MapRight(History, spend)
    /\ InWindow => MapHolds(History, DOMAIN History \ Committed, spend)
    /\ pc = "apply" => /\ \A o \in cached : rows[o] # NoRow
                       /\ \A b \in got : \A o \in Inputs[b] : rows[o] # NoRow => spend[o] # NoRow

RowMap == MapRight(Archived, rows) /\ MapHolds(Archived, Committed, rows)

\* Each pending block knows its spends, and so does its file.
PendingSpent ==
    /\ InWindow => \A k \in 1..Len(pending) : SpendsOf(pending[k].spent, pending[k].block, History)
    /\ pc \in {"write", "mark"} =>
           \A k \in 1..wr : files[Height[pending[k].block]].spends = FileOf(pending[k]).spends

FilesListed ==
    /\ \A h \in Heights : files[h] # NoFile =>
           DOMAIN files[h].spent_height = 1..Len(Indexed[files[h].block])
    /\ \A h \in Committed : Lists(files[h].spends, files[h].block, Archived)

Ledger == OneChain /\ GotFromNode /\ SpendMap /\ RowMap /\ PendingSpent /\ FilesListed
-----------------------------------------------------------------------------
(* Induction by a least or greatest counterexample *)

\* A set of naturals that is not empty has a least element.
LEMMA LeastNatural ==
    ASSUME NEW S \in SUBSET Nat, S # {}
    PROVE  \E m \in S : \A n \in S : m <= n
<1> DEFINE R == {p \in Nat \X Nat : p[1] < p[2]}
<1>1. OpToRel(<, Nat) = R
    BY DEF OpToRel
<1>2. IsWellFoundedOn(R, Nat)
    BY <1>1, NatLessThanWellFounded
<1> HIDE DEF R
<1>3. PICK m \in S : \A n \in S : ~(<<n, m>> \in R)
    BY <1>2, WFMin
<1>4. \A n \in S : ~(n < m)
    BY <1>3 DEF R
<1> QED
    BY <1>3, <1>4

\* A bounded one has a greatest element.
LEMMA GreatestNatural ==
    ASSUME NEW S \in SUBSET Nat, S # {}, NEW k \in Nat, \A n \in S : n <= k
    PROVE  \E m \in S : \A n \in S : n <= m
<1> DEFINE T == {n \in Nat : k - n \in S}
<1>1. PICK n \in S : TRUE
    OBVIOUS
<1>2. k - n \in T
    BY <1>1
<1>3. PICK t \in T : \A u \in T : t <= u
    <2> HIDE DEF T
    <2>1. T \in SUBSET Nat /\ T # {}
        BY <1>2 DEF T
    <2> QED
        BY <2>1, LeastNatural
<1>4. k - t \in S
    BY <1>3
<1>5. ASSUME NEW m \in S PROVE m <= k - t
    <2>1. k - m \in T /\ k \in Nat /\ m \in Nat /\ t \in Nat
        BY <1>3, <1>5
    <2>2. t <= k - m
        BY <1>3, <2>1
    <2> HIDE DEF T
    <2> QED
        BY <2>1, <2>2
<1> QED
    BY <1>4, <1>5

\* Chains that share a block share everything below it.
LEMMA ChainsAgree ==
    ASSUME NEW c \in Chains, NEW d \in Chains, NEW n \in 1..Len(c), n <= Len(d), c[n] = d[n]
    PROVE  \A i \in 1..n : c[i] = d[i]
<1> SUFFICES ASSUME NEW k \in 1..n, c[k] # d[k]
             PROVE  FALSE
    OBVIOUS
<1> DEFINE S == {i \in 1..n : c[i] # d[i]}
<1>1. c \in Seq(Block) /\ d \in Seq(Block) /\ Len(c) \in Nat /\ Len(d) \in Nat
    BY ChainAssumption, LenProperties
<1>2. S \in SUBSET Nat /\ k \in S /\ n \in Nat /\ \A i \in S : i <= n
    BY <1>1
<1>3. PICK m \in S : \A i \in S : i <= m
    <2> HIDE DEF S
    <2> QED
        BY <1>2, GreatestNatural
<1>4. m < n /\ m + 1 \in 1..n
    BY <1>1, <1>3
<1>5. c[m + 1] = d[m + 1]
    BY <1>1, <1>3, <1>4
<1>6. m + 1 \in 1..Len(c) /\ m + 1 \in 1..Len(d) /\ m + 1 > 1 /\ m + 1 - 1 = m
    BY <1>1, <1>3, <1>4
<1>7. Parent[c[m + 1]] = c[m] /\ Parent[d[m + 1]] = d[m]
    BY <1>6, ChainAssumption
<1> QED
    BY <1>3, <1>5, <1>7
-----------------------------------------------------------------------------
(* Histories *)

\* A block creates o exactly when it has a lookup value for it, which then
\* points at the place of o in the block.
LEMMA RowOfCreated ==
    ASSUME NEW b \in Block, NEW f \in Nat, NEW o \in Outpoint
    PROVE  /\ CreatedRows(b, f)[o] # NoRow <=> Creates(b, o)
           /\ CreatedRows(b, f)[o] # NoRow =>
                 /\ CreatedRows(b, f)[o] \in Lookup
                 /\ \E i \in 1..Len(Indexed[b]) :
                       /\ Indexed[b][i].outpoint = o
                       /\ CreatedRows(b, f)[o] = [uid |-> f + Indexed[b][i].slot,
                                                  height |-> Height[b], index |-> i]
<1>1. CreatedRows(b, f)[o] \in Lookup \cup {NoRow}
    BY CreatedRowsType
<1>2. CASE Creates(b, o)
    <2> DEFINE j == CHOOSE i \in 1..Len(Indexed[b]) : Indexed[b][i].outpoint = o
    <2>1. j \in 1..Len(Indexed[b]) /\ Indexed[b][j].outpoint = o
        BY <1>2 DEF Creates
    <2>2. CreatedRows(b, f)[o] = [uid |-> f + Indexed[b][j].slot, height |-> Height[b], index |-> j]
        BY <1>2 DEF CreatedRows, OutputIndex
    <2>3. Indexed[b] \in Seq([outpoint : Outpoint, slot : Nat])
        BY BlockAssumption
    <2> HIDE DEF j
    <2>4. Indexed[b][j].slot \in Nat /\ j \in Nat
        <3>1. Len(Indexed[b]) \in Nat
            BY <2>3
        <3>2. Indexed[b][j] \in [outpoint : Outpoint, slot : Nat]
            BY <2>1, <2>3, ElementOfSeq
        <3> QED
            BY <2>1, <3>1, <3>2
    <2>5. Height[b] \in Heights
        BY BlockAssumption
    <2>6. CreatedRows(b, f)[o] \in Lookup
        BY <2>2, <2>4, <2>5 DEF Lookup
    <2> QED
        BY <1>2, <2>1, <2>2, <2>6, NoValueAssumption
<1>3. CASE ~Creates(b, o)
    BY <1>3 DEF CreatedRows
<1> QED
    BY <1>2, <1>3

\* A history that follows a chain obeys consensus.
LEMMA ChainLawful ==
    ASSUME NEW H, IsHistory(H), NEW c \in Chains, Follows(H, c)
    PROVE  Lawful(H)
<1> SUFFICES ASSUME NEW g \in DOMAIN H, NEW h \in DOMAIN H, NEW o \in Outpoint
             PROVE  /\ Row(H, g, o) # NoRow /\ Row(H, h, o) # NoRow => g = h
                    /\ o \in Inputs[H[g].block] /\ o \in Inputs[H[h].block] => g = h
                    /\ Row(H, g, o) # NoRow /\ o \in Inputs[H[h].block] => g <= h
    BY DEF Lawful
<1>1. /\ H[g].block \in Block /\ H[g].first_uid \in Nat /\ g \in Int
      /\ H[h].block \in Block /\ H[h].first_uid \in Nat /\ h \in Int
    BY ConstantsAssumption DEF IsHistory, Heights
<1>2. /\ Row(H, g, o) # NoRow <=> Creates(H[g].block, o)
      /\ Row(H, h, o) # NoRow <=> Creates(H[h].block, o)
    BY <1>1, RowOfCreated DEF Row
<1>3. /\ g + 1 \in 1..Len(c) /\ c[g + 1] = H[g].block
      /\ h + 1 \in 1..Len(c) /\ c[h + 1] = H[h].block
    BY DEF Follows, OnChain, IsHistory
<1>4. /\ Creates(c[g + 1], o) /\ Creates(c[h + 1], o) => g + 1 = h + 1
      /\ o \in Inputs[c[g + 1]] /\ o \in Inputs[c[h + 1]] => g + 1 = h + 1
      /\ Creates(c[g + 1], o) /\ o \in Inputs[c[h + 1]] => g + 1 <= h + 1
    BY <1>3, ConsensusAssumption
<1> QED
    BY <1>1, <1>2, <1>3, <1>4

\* The committed heights end where the process resumes.
LEMMA ResumeShape ==
    ASSUME IInv, next = Resume
    PROVE  /\ EmitStart \in Nat /\ next \in Nat /\ EmitStart <= next
           /\ Committed = EmitStart..(next - 1)
<1>1. TypeOK /\ FilesCoverTip
    BY DEF IInv
<1>2. EmitStart \in Nat /\ next \in Nat
    BY <1>1, ConstantsAssumption DEF TypeOK, Heights
<1>4. tip # NoBlock => Height[tip] \in Nat /\ EmitStart <= Height[tip]
    BY <1>1, BlockAssumption DEF TypeOK, FilesCoverTip, Heights
<1>5. Committed = EmitStart..(next - 1) /\ EmitStart <= next
    <2>1. CASE tip = NoBlock
        <3>1. next = EmitStart /\ Committed = {} /\ EmitStart..(next - 1) = {}
            BY <1>2, <2>1 DEF Resume, Committed
        <3> QED
            BY <1>2, <3>1
    <2>2. CASE tip # NoBlock
        <3>1. next = Height[tip] + 1 /\ Committed = EmitStart..Height[tip]
            BY <1>2, <2>2 DEF Resume, Committed
        <3>2. next - 1 = Height[tip]
            BY <1>4, <2>2, <3>1
        <3> QED
            BY <1>2, <1>4, <2>2, <3>1, <3>2
    <2> QED
        BY <2>1, <2>2
<1> QED
    BY <1>2, <1>5

\* In a window the history goes on with the pending blocks.
LEMMA WindowShape ==
    ASSUME IInv, InWindow
    PROVE  /\ EmitStart \in Nat /\ next \in Nat /\ EmitStart <= next /\ Len(pending) \in Nat
           /\ Committed = EmitStart..(next - 1)
           /\ DOMAIN History = EmitStart..(next + Len(pending) - 1)
<1>1. next = Resume
    BY DEF IInv, PendingLinked
<1>2. Len(pending) \in Nat
    BY LenProperties DEF IInv, TypeOK
<1> QED
    BY <1>1, <1>2, ResumeShape DEF History

\* Committed heights are heights, and their files are blocks.
LEMMA CommittedFiles ==
    ASSUME IInv, NEW h \in Committed
    PROVE  /\ h \in Heights /\ files[h] \in Stored /\ files[h] # NoFile
           /\ files[h].block \in Block /\ files[h].first_uid \in Nat
           /\ Height[files[h].block] = h
<1>1. TypeOK /\ FilesCoverTip
    BY DEF IInv
<1>2. h \in Heights
    BY <1>1, BlockAssumption, ConstantsAssumption DEF Committed, TypeOK, Heights
<1>3. files[h] \in Stored
    BY <1>1, <1>2 DEF TypeOK, FilesCoverTip
<1> QED
    BY <1>1, <1>2, <1>3 DEF FilesCoverTip, Stored

\* The archive and the history of a state of the invariant.
LEMMA Histories ==
    ASSUME IInv
    PROVE  /\ IsHistory(Archived) /\ IsHistory(History)
           /\ DOMAIN Archived = Committed
           /\ \A h \in Committed : h \in DOMAIN History /\ History[h] = Archived[h]
           /\ ~InWindow => History = Archived
           /\ InWindow => \A k \in 1..Len(pending) :
                 /\ next + k - 1 \in DOMAIN History \ Committed
                 /\ History[next + k - 1] = Entry(pending[k].block, pending[k].first_uid)
                 /\ Height[pending[k].block] = next + k - 1
           /\ \A h \in DOMAIN History \ Committed :
                 InWindow /\ h - next + 1 \in 1..Len(pending) /\ next + (h - next + 1) - 1 = h
<1>1. IsHistory(Archived) /\ DOMAIN Archived = Committed
    BY CommittedFiles DEF IsHistory, Archived, Entry
<1>2. CASE ~InWindow
    BY <1>1, <1>2 DEF History
<1>3. CASE InWindow
    <2>1. /\ EmitStart \in Nat /\ next \in Nat /\ EmitStart <= next /\ Len(pending) \in Nat
          /\ Committed = EmitStart..(next - 1)
          /\ DOMAIN History = EmitStart..(next + Len(pending) - 1)
        BY <1>3, WindowShape
    <2>2. ASSUME NEW h \in Committed
          PROVE  h \in DOMAIN History /\ h < next /\ History[h] = Archived[h]
        BY <1>3, <2>1 DEF History, Archived
    <2>3. ASSUME NEW k \in 1..Len(pending)
          PROVE  /\ next + k - 1 \in DOMAIN History \ Committed
                 /\ History[next + k - 1] = Entry(pending[k].block, pending[k].first_uid)
                 /\ Height[pending[k].block] = next + k - 1
                 /\ pending[k] \in AppliedBlock
        <3>1. /\ next + k - 1 \in EmitStart..(next + Len(pending) - 1)
              /\ ~(next + k - 1 < next) /\ (next + k - 1) - next + 1 = k
            BY <2>1
        <3>2. History[next + k - 1] = Entry(pending[k].block, pending[k].first_uid)
            BY <1>3, <3>1 DEF History
        <3> QED
            BY <1>3, <2>1, <3>1, <3>2, PendingHeights
    <2>4. ASSUME NEW h \in DOMAIN History \ Committed
          PROVE  h - next + 1 \in 1..Len(pending) /\ next + (h - next + 1) - 1 = h
        BY <2>1
    <2>5. IsHistory(History)
        <3> SUFFICES ASSUME NEW h \in DOMAIN History
                     PROVE  /\ h \in Heights
                            /\ History[h].block \in Block /\ Height[History[h].block] = h
                            /\ History[h].first_uid \in Nat
            BY DEF IsHistory
        <3>1. CASE h \in Committed
            BY <1>1, <2>2, <3>1 DEF IsHistory
        <3>2. CASE h \notin Committed
            <4> DEFINE k == h - next + 1
            <4>1. k \in 1..Len(pending) /\ next + k - 1 = h
                BY <2>4, <3>2
            <4> HIDE DEF k
            <4>2. History[h] = Entry(pending[k].block, pending[k].first_uid)
                  /\ Height[pending[k].block] = h /\ pending[k] \in AppliedBlock
                BY <2>3, <4>1
            <4> QED
                BY <4>2, BlockAssumption DEF Entry, AppliedBlock
        <3> QED
            BY <3>1, <3>2
    <2> QED
        BY <1>1, <1>3, <2>2, <2>3, <2>4, <2>5
<1> QED
    BY <1>2, <1>3

\* A step that keeps the tip and the blocks and UIDs of the committed files
\* keeps the archive ...
LEMMA ArchivedFrame ==
    ASSUME tip' = tip,
           \A h \in Committed : /\ files'[h].block = files[h].block
                                /\ files'[h].first_uid = files[h].first_uid
    PROVE  Committed' = Committed /\ Archived' = Archived
<1>1. Committed' = Committed
    BY DEF Committed
<1> QED
    BY <1>1 DEF Archived, Entry

\* ... and, if the window stays as it is, the history.
LEMMA HistoryFrame ==
    ASSUME IInv, InWindow' = InWindow, InWindow => next' = next /\ pending' = pending,
           tip' = tip,
           \A h \in Committed : /\ files'[h].block = files[h].block
                                /\ files'[h].first_uid = files[h].first_uid
    PROVE  Committed' = Committed /\ Archived' = Archived /\ History' = History
<1>1. Committed' = Committed /\ Archived' = Archived
    BY ArchivedFrame
<1>2. CASE ~InWindow
    BY <1>1, <1>2 DEF History
<1>3. CASE InWindow
    <2>1. /\ EmitStart \in Nat /\ next \in Nat /\ Len(pending) \in Nat
          /\ Committed = EmitStart..(next - 1)
        BY <1>3, WindowShape
    <2>2. \A h \in EmitStart..(next + Len(pending) - 1) : h < next => h \in Committed
        BY <2>1
    <2> QED
        BY <1>1, <1>3, <2>2 DEF History, Entry
<1> QED
    BY <1>1, <1>2, <1>3
-----------------------------------------------------------------------------
(* The steps *)

\* Nothing of the ledger changes.
LEMMA SameLedger ==
    ASSUME Ledger, UNCHANGED <<files, tip, rows, pc, next, pending, wr, got, cached, spend>>
    PROVE  Ledger'
BY DEF Ledger, OneChain, GotFromNode, SpendMap, RowMap, PendingSpent, FilesListed, History,
       Archived, Committed, InWindow, PendingSpends

\* Outside a window, or when memory is lost, only the archive counts.
LEMMA QuietHistory ==
    ASSUME ~InWindow', UNCHANGED <<files, tip>>
    PROVE  Archived' = Archived /\ Committed' = Committed /\ History' = Archived
<1>1. Archived' = Archived /\ Committed' = Committed
    BY ArchivedFrame
<1> QED
    BY <1>1 DEF History

\* A step that touches neither the history nor what is known of it.
LEMMA QuietLedger ==
    ASSUME IInv, Ledger, ~InWindow', UNCHANGED <<files, tip, rows>>, got' = {},
           spend' = NoSpends \/ (spend' = spend /\ ~InWindow)
    PROVE  Ledger'
<1>1. Archived' = Archived /\ Committed' = Committed
    BY QuietHistory
<1>2. History' = Archived
    BY QuietHistory
<1>3. pc' \notin {"fetch", "apply", "write", "mark"}
    BY DEF InWindow
<1>4. OneChain'
    <2>1. PICK c \in Chains : Follows(History, c)
        BY DEF Ledger, OneChain
    <2>2. Follows(Archived, c)
        BY <2>1, Histories DEF Follows
    <2> QED
        BY <1>2, <1>3, <2>2 DEF OneChain
<1>5. MapRight(Archived, spend')
    <2>1. CASE spend' = NoSpends
        BY <2>1 DEF MapRight, NoSpends
    <2>2. CASE spend' = spend /\ ~InWindow
        BY <2>2, Histories DEF Ledger, SpendMap
    <2> QED
        BY <2>1, <2>2
<1>6. SpendMap'
    BY <1>2, <1>3, <1>5 DEF SpendMap
<1> QED
    BY <1>1, <1>3, <1>4, <1>6 DEF Ledger, GotFromNode, RowMap, PendingSpent, FilesListed, InWindow

\* The window opens with nothing pending.
LEMMA OpenHistory ==
    ASSUME IInv, OpenWindow
    PROVE  /\ Archived' = Archived /\ Committed' = Committed
           /\ History = Archived /\ History' = Archived
<1>1. /\ pc = "hash" /\ pc' = "fetch" /\ ~InWindow /\ InWindow' /\ next' = next
      /\ pending' = << >> /\ UNCHANGED <<files, tip>>
    BY DEF OpenWindow, InWindow, disk
<1>2. Archived' = Archived /\ Committed' = Committed
    BY <1>1, ArchivedFrame
<1>3. History = Archived
    BY <1>1, Histories
<1>4. Len(pending') = 0
    BY <1>1
<1>5. next = Resume
    BY <1>1 DEF IInv, Idle
<1>6. EmitStart \in Nat /\ next \in Nat /\ Committed = EmitStart..(next - 1)
    BY <1>5, ResumeShape
<1>7. next' + Len(pending') - 1 = next - 1 /\ \A h \in Committed : h < next
    BY <1>1, <1>4, <1>6
<1>8. History' = [h \in EmitStart..(next - 1) |->
                    IF h < next THEN Entry(files[h].block, files[h].first_uid)
                    ELSE Entry(pending'[h - next + 1].block, pending'[h - next + 1].first_uid)]
    BY <1>1, <1>7 DEF History
<1>9. History' = Archived
    BY <1>6, <1>7, <1>8 DEF Archived
<1> QED
    BY <1>2, <1>3, <1>9

\* A window is opened: the history is still the archive.
LEMMA OpenLedger ==
    ASSUME IInv, Ledger, OpenWindow
    PROVE  Ledger'
<1>1. /\ pc = "hash" /\ pc' = "fetch" /\ ~InWindow /\ InWindow' /\ next' = next
      /\ pending' = << >> /\ UNCHANGED <<files, tip, rows, spend, got, wr>>
    BY DEF OpenWindow, InWindow, disk
<1>2. Archived' = Archived /\ Committed' = Committed
    BY OpenHistory
<1>3. History = Archived
    BY OpenHistory
<1>4. Len(pending') = 0
    BY <1>1
<1>5. History' = Archived /\ DOMAIN History' = Committed
    BY OpenHistory, Histories
<1>6. OneChain'
    BY <1>1, <1>3, <1>5 DEF Ledger, OneChain
<1>7. got = {}
    BY <1>1 DEF Ledger, GotFromNode
<1>8. SpendMap'
    BY <1>1, <1>2, <1>3, <1>4, <1>5 DEF Ledger, SpendMap, MapHolds
<1> QED
    BY <1>1, <1>2, <1>4, <1>6, <1>7, <1>8 DEF Ledger, GotFromNode, RowMap, PendingSpent, FilesListed

\* The history of a catch-up ends in the block the next one must connect to.
LEMMA HistoryTop ==
    ASSUME IInv, pc \in {"fetch", "apply"}
    PROVE  /\ chunk \in Nat /\ DOMAIN History = EmitStart..(chunk - 1) /\ EmitStart \in Nat
           /\ prev # NoBlock => chunk - 1 \in DOMAIN History /\ History[chunk - 1].block = prev
           /\ prev = NoBlock => DOMAIN History = {}
<1>1. /\ EmitStart \in Nat /\ next \in Nat /\ EmitStart <= next /\ Len(pending) \in Nat
      /\ Committed = EmitStart..(next - 1)
      /\ DOMAIN History = EmitStart..(next + Len(pending) - 1)
    BY WindowShape DEF InWindow
<1>2. chunk = next + Len(pending) /\ prev = IF Len(pending) = 0 THEN tip ELSE LastPending
    BY DEF IInv, ChunkFollows
<1>3. TypeOK /\ FilesCoverTip /\ PendingLinked /\ InWindow
    BY DEF IInv, InWindow
<1>4. CASE Len(pending) = 0
    <2>1. next = Resume /\ prev = tip
        BY <1>2, <1>3, <1>4 DEF PendingLinked
    <2>2. CASE tip = NoBlock
        BY <1>1, <1>2, <1>4, <2>1, <2>2 DEF Resume
    <2>3. CASE tip # NoBlock
        <3>1. Height[tip] \in Nat /\ chunk - 1 = Height[tip] /\ EmitStart <= Height[tip]
              /\ files[Height[tip]].block = tip
            BY <1>1, <1>2, <1>3, <1>4, <2>1, <2>3, BlockAssumption
               DEF Resume, TypeOK, Heights, FilesCoverTip
        <3>2. chunk - 1 \in Committed
            BY <1>1, <3>1, <2>3 DEF Committed
        <3>3. History[chunk - 1] = Archived[chunk - 1] /\ chunk - 1 \in DOMAIN History
            BY <3>2, Histories
        <3> QED
            BY <1>1, <1>2, <2>1, <2>3, <3>1, <3>2, <3>3 DEF Archived, Entry
    <2> QED
        BY <2>2, <2>3
<1>5. CASE Len(pending) # 0
    <2>1. Len(pending) \in 1..Len(pending) /\ next + Len(pending) - 1 = chunk - 1
        BY <1>1, <1>2, <1>5
    <2>2. /\ chunk - 1 \in DOMAIN History
          /\ History[chunk - 1] = Entry(pending[Len(pending)].block, pending[Len(pending)].first_uid)
        BY <1>3, <2>1, Histories
    <2>3. prev = pending[Len(pending)].block /\ prev \in Block
        BY <1>1, <1>2, <1>3, <1>5, LastPendingType DEF LastPending
    <2> QED
        BY <1>1, <1>2, <2>2, <2>3, BlockAssumption DEF Entry
<1> QED
    BY <1>4, <1>5

\* A chunk that connects is, with the history, part of one chain, although
\* its blocks were fetched at different moments.
LEMMA ChunkOnChain ==
    ASSUME IInv, Ledger, pc = "fetch", ValidChunk(got, chunk, prev)
    PROVE  \E d \in Chains : Follows(History, d) /\ \A b \in got : OnChain(b, d)
<1>1. /\ chunk \in Nat /\ DOMAIN History = EmitStart..(chunk - 1) /\ EmitStart \in Nat
      /\ prev # NoBlock => chunk - 1 \in DOMAIN History /\ History[chunk - 1].block = prev
      /\ prev = NoBlock => DOMAIN History = {}
    BY HistoryTop
<1>2. got \subseteq Block /\ \A b \in got : Height[b] \in Nat /\ Height[b] <= MaxHeight
    BY BlockAssumption, ConstantsAssumption DEF IInv, TypeOK, Heights
<1>3. PICK t \in got : \A b \in got : Height[b] <= Height[t]
    <2> DEFINE S == {Height[b] : b \in got}
    <2>1. S \in SUBSET Nat /\ S # {} /\ MaxHeight \in Nat /\ \A n \in S : n <= MaxHeight
        BY <1>2, ConstantsAssumption DEF ValidChunk
    <2>2. PICK m \in S : \A n \in S : n <= m
        <3> HIDE DEF S
        <3> QED
            BY <2>1, GreatestNatural
    <2> QED
        BY <2>2
<1>4. PICK d \in Chains : OnChain(t, d)
    BY <1>3 DEF Ledger, GotFromNode
<1>5. /\ Len(d) \in Nat /\ \A i \in 1..Len(d) : Height[d[i]] = i - 1
      /\ \A i \in 1..Len(d) : i > 1 => Parent[d[i]] = d[i - 1]
    BY ChainAssumption, LenProperties
<1>6. Height[t] \in Nat /\ Height[t] + 1 \in 1..Len(d) /\ d[Height[t] + 1] = t
    BY <1>2, <1>3, <1>4 DEF OnChain
<1>7. \A k \in chunk..Height[t] : d[k + 1] \in got
    <2> SUFFICES ASSUME NEW j \in chunk..Height[t], d[j + 1] \notin got
                 PROVE  FALSE
        OBVIOUS
    <2> DEFINE S == {k \in chunk..Height[t] : d[k + 1] \notin got}
    <2>1. S \in SUBSET Nat /\ S # {} /\ \A k \in S : k <= Height[t]
        BY <1>1, <1>6, SMTT(40)
    <2>2. PICK m \in S : \A k \in S : k <= m
        <3> HIDE DEF S
        <3> QED
            BY <1>6, <2>1, GreatestNatural
    <2>3. m # Height[t] /\ m \in Nat /\ chunk <= m /\ m <= Height[t] /\ d[m + 1] \notin got
        BY <1>1, <1>3, <1>6, <2>2
    <2>4. m + 1 \in chunk..Height[t] /\ ~(m + 1 <= m)
        BY <1>1, <1>6, <2>3
    <2>5. d[m + 1 + 1] \in got
        BY <2>2, <2>4
    <2>6. m + 1 + 1 \in 1..Len(d) /\ m + 1 + 1 > 1 /\ m + 1 + 1 - 1 = m + 1
        BY <1>5, <1>6, <2>3, <2>4
    <2>7. Height[d[m + 1 + 1]] = m + 1 /\ Parent[d[m + 1 + 1]] = d[m + 1]
        BY <1>5, <2>6
    <2>8. PICK p \in got : Parent[d[m + 1 + 1]] = p
        BY <1>1, <2>3, <2>5, <2>7 DEF ValidChunk
    <2> QED
        BY <2>3, <2>7, <2>8
<1>8. ASSUME NEW b \in got PROVE OnChain(b, d)
    <2>1. Height[b] \in chunk..Height[t] /\ Height[b] + 1 \in 1..Len(d)
        BY <1>1, <1>2, <1>3, <1>5, <1>6 DEF ValidChunk
    <2>2. d[Height[b] + 1] \in got /\ Height[d[Height[b] + 1]] = Height[b]
        BY <1>2, <1>5, <1>7, <2>1
    <2> QED
        BY <2>1, <2>2 DEF ValidChunk, OnChain
<1>9. Follows(History, d)
    <2>1. CASE prev = NoBlock
        BY <1>1, <2>1 DEF Follows
    <2>2. CASE prev # NoBlock
        <3>1. PICK c \in Chains : Follows(History, c)
            BY DEF Ledger, OneChain
        <3>2. IsHistory(History)
            BY Histories
        <3>3. /\ chunk - 1 \in Nat /\ Height[prev] = chunk - 1
              /\ chunk \in 1..Len(c) /\ c[chunk] = prev
            BY <1>1, <2>2, <3>1, <3>2 DEF Follows, OnChain, IsHistory, Heights
        <3>4. d[chunk + 1] \in got /\ Height[d[chunk + 1]] = chunk /\ chunk + 1 \in 1..Len(d)
            <4>1. chunk <= Height[t]
                BY <1>3 DEF ValidChunk
            <4> QED
                BY <1>1, <1>5, <1>6, <1>7, <4>1
        <3>5. Parent[d[chunk + 1]] = prev
            BY <2>2, <3>4 DEF ValidChunk
        <3>6. d[chunk] = prev
            BY <1>1, <1>5, <3>3, <3>4, <3>5
        <3>7. \A i \in 1..chunk : c[i] = d[i]
            BY <1>1, <1>5, <3>3, <3>4, <3>6, ChainsAgree
        <3> SUFFICES ASSUME NEW h \in DOMAIN History PROVE OnChain(History[h].block, d)
            BY DEF Follows
        <3>8. Height[History[h].block] = h /\ h + 1 \in 1..chunk /\ c[h + 1] = History[h].block
            BY <1>1, <3>1, <3>2 DEF Follows, OnChain, IsHistory
        <3> QED
            BY <1>1, <1>5, <3>4, <3>7, <3>8 DEF OnChain
    <2> QED
        BY <2>1, <2>2
<1> QED
    BY <1>8, <1>9

\* A fetched block is a block of the node's chain of that moment.
LEMMA FetchLedger ==
    ASSUME IInv, Ledger, NEW h \in Heights, FetchBlock(h)
    PROVE  Ledger'
<1>1. /\ pc = "fetch" /\ pc' = pc /\ h + 1 <= Len(node) /\ got' = got \cup {node[h + 1]}
      /\ UNCHANGED <<files, tip, rows, next, pending, wr, cached, spend>>
    BY DEF FetchBlock, disk
<1>2. InWindow /\ InWindow'
    BY <1>1 DEF InWindow
<1>3. Committed' = Committed /\ Archived' = Archived /\ History' = History
    BY <1>1, <1>2, HistoryFrame
<1>4. node \in Chains /\ OnChain(node[h + 1], node)
    <2>1. TypeOK /\ h \in Nat
        BY DEF IInv, Heights
    <2>2. Len(node) \in Nat /\ h + 1 \in 1..Len(node) /\ Height[node[h + 1]] = h
        BY <1>1, <2>1, NodeType
    <2> QED
        BY <2>1, <2>2 DEF TypeOK, OnChain
<1>5. OneChain' /\ GotFromNode'
    BY <1>1, <1>3, <1>4 DEF Ledger, OneChain, GotFromNode
<1> QED
    BY <1>1, <1>3, <1>5 DEF Ledger, SpendMap, RowMap, PendingSpent, FilesListed, InWindow

\* A history and blocks of one chain: what a later block spends is not spent
\* in the history.
LEMMA SpentLater ==
    ASSUME NEW H, IsHistory(H), NEW c \in Chains, Follows(H, c),
           NEW b \in Block, OnChain(b, c), \A h \in DOMAIN H : h < Height[b],
           NEW o \in Inputs[b]
    PROVE  ~SpentIn(H, o)
<1> SUFFICES ASSUME NEW h \in DOMAIN H, o \in Inputs[H[h].block] PROVE FALSE
    BY DEF SpentIn
<1>1. h + 1 \in 1..Len(c) /\ c[h + 1] = H[h].block /\ Height[b] + 1 \in 1..Len(c)
      /\ c[Height[b] + 1] = b /\ o \in Outpoint
    BY BlockAssumption DEF Follows, OnChain, IsHistory
<1>2. h + 1 = Height[b] + 1
    BY <1>1, ConsensusAssumption
<1>3. h < Height[b] /\ h \in Int /\ Height[b] \in Int
    BY BlockAssumption, ConstantsAssumption DEF IsHistory, Heights
<1> QED
    BY <1>2, <1>3

\* The rows of RocksDB that a chunk needs are cached.
LEMMA ResolveLedger ==
    ASSUME IInv, Ledger, ResolveChunk
    PROVE  Ledger'
<1>1. /\ pc = "fetch" /\ pc' = "apply" /\ ValidChunk(got, chunk, prev)
      /\ cached' = Historical(got) /\ spend' = CacheCandidates(cached')
      /\ UNCHANGED <<files, tip, rows, next, pending, wr, got>>
    BY DEF ResolveChunk, ChunkFetched, disk
<1>2. InWindow /\ InWindow'
    BY <1>1 DEF InWindow
<1>3. Committed' = Committed /\ Archived' = Archived /\ History' = History
    BY <1>1, <1>2, HistoryFrame
<1>4. PICK d \in Chains : Follows(History, d) /\ \A b \in got : OnChain(b, d)
    BY <1>1, ChunkOnChain
<1>5. OneChain' /\ GotFromNode'
    BY <1>1, <1>3, <1>4 DEF OneChain, GotFromNode
<1>6. \A o \in cached' : o \in Outpoint /\ spend'[o] = rows[o] /\ rows[o] # NoRow
    BY <1>1, BlockAssumption DEF Historical, CacheCandidates, IInv, TypeOK
<1>7. \A o \in Outpoint : o \notin cached' => spend'[o] = spend[o]
    BY <1>1 DEF CacheCandidates
<1>8. IsHistory(History) /\ IsHistory(Archived) /\ DOMAIN Archived = Committed
      /\ \A h \in Committed : h \in DOMAIN History /\ History[h] = Archived[h]
    BY Histories
<1>9. MapRight(History, spend')
    <2> SUFFICES ASSUME NEW o \in Outpoint, spend'[o] # NoRow
                 PROVE  ~SpentIn(History, o) /\ \E h \in DOMAIN History : spend'[o] = Row(History, h, o)
        BY DEF MapRight
    <2>1. CASE o \notin cached'
        BY <1>7, <2>1 DEF Ledger, SpendMap, MapRight
    <2>2. CASE o \in cached'
        <3>1. PICK h \in Committed : rows[o] = Row(Archived, h, o)
            BY <1>6, <1>8, <2>2 DEF Ledger, RowMap, MapRight
        <3>2. spend'[o] = Row(History, h, o) /\ h \in DOMAIN History
            BY <1>6, <1>8, <2>2, <3>1 DEF Row
        <3>3. PICK b \in got : o \in Inputs[b]
            BY <1>1, <2>2 DEF Historical
        <3>4. b \in Block /\ Height[b] \in Nat /\ chunk <= Height[b]
            BY <1>1, BlockAssumption, ConstantsAssumption DEF ValidChunk, IInv, TypeOK, Heights
        <3>5. \A k \in DOMAIN History : k < Height[b]
            BY <1>1, <3>4, HistoryTop
        <3>6. ~SpentIn(History, o)
            BY <1>4, <1>8, <3>3, <3>4, <3>5, SpentLater
        <3> QED
            BY <3>2, <3>6
    <2> QED
        BY <2>1, <2>2
<1>10. MapHolds(History, DOMAIN History \ Committed, spend')
    BY <1>2, <1>6, <1>7 DEF Ledger, SpendMap, MapHolds
<1>11. ASSUME NEW b \in got, NEW o \in Inputs[b], rows[o] # NoRow
       PROVE  spend'[o] # NoRow
    <2>1. b \in Block /\ o \in Outpoint
        BY BlockAssumption DEF IInv, TypeOK
    <2>2. CASE spend[o] = NoRow
        <3>1. o \in cached'
            BY <1>1, <1>11, <2>2 DEF Historical
        <3> QED
            BY <1>6, <3>1
    <2>3. CASE spend[o] # NoRow
        BY <1>6, <1>7, <2>1, <2>3
    <2> QED
        BY <2>2, <2>3
<1>12. SpendMap'
    BY <1>1, <1>3, <1>6, <1>9, <1>10, <1>11 DEF SpendMap
<1> QED
    BY <1>1, <1>3, <1>5, <1>12 DEF Ledger, RowMap, PendingSpent, FilesListed, InWindow

\* Candidates that were not spent leave memory again.
LEMMA EndLedger ==
    ASSUME IInv, Ledger, EndChunk
    PROVE  Ledger'
<1>1. /\ pc = "apply" /\ pc' \in {"fetch", "write"} /\ got = {} /\ spend' = EvictCandidates
      /\ UNCHANGED <<files, tip, rows, next, pending, wr, got>>
    BY DEF EndChunk, disk
<1>2. InWindow /\ InWindow'
    BY <1>1 DEF InWindow
<1>3. Committed' = Committed /\ Archived' = Archived /\ History' = History
    BY <1>1, <1>2, HistoryFrame
<1>4. OneChain' /\ GotFromNode'
    BY <1>1, <1>3 DEF Ledger, OneChain, GotFromNode
<1>5. \A o \in Outpoint : spend'[o] = IF o \in cached THEN NoRow ELSE spend[o]
    BY <1>1 DEF EvictCandidates
<1>6. MapRight(History, spend')
    BY <1>5 DEF Ledger, SpendMap, MapRight
<1>7. MapHolds(History, DOMAIN History \ Committed, spend')
    <2> SUFFICES ASSUME NEW h \in DOMAIN History \ Committed, NEW o \in Outpoint,
                        Row(History, h, o) # NoRow, ~SpentIn(History, o)
                 PROVE  spend'[o] # NoRow
        BY DEF MapHolds
    <2>1. spend[o] # NoRow
        BY <1>2 DEF Ledger, SpendMap, MapHolds
    <2>2. ASSUME o \in cached PROVE FALSE
        <3>1. rows[o] # NoRow
            BY <1>1, <2>2 DEF Ledger, SpendMap
        <3>2. PICK g \in Committed : rows[o] = Row(Archived, g, o)
            BY <3>1, Histories DEF Ledger, RowMap, MapRight
        <3>3. g \in DOMAIN History /\ Row(History, g, o) # NoRow
            BY <3>1, <3>2, Histories DEF Row
        <3>4. Lawful(History)
            BY Histories, ChainLawful DEF Ledger, OneChain
        <3> QED
            BY <3>2, <3>3, <3>4 DEF Lawful
    <2> QED
        BY <1>5, <2>1, <2>2
<1>8. SpendMap'
    BY <1>1, <1>3, <1>6, <1>7 DEF SpendMap
<1>9. PendingSpent'
    <2>1. wr = 0
        BY <1>1 DEF IInv, Idle
    <2> QED
        BY <1>1, <1>2, <1>3, <2>1 DEF Ledger, PendingSpent
<1> QED
    BY <1>1, <1>3, <1>4, <1>8, <1>9 DEF Ledger, RowMap, FilesListed

\* G is H with one more block, at height t.
Extends(G, H, t) ==
    /\ IsHistory(H) /\ IsHistory(G) /\ Lawful(G)
    /\ DOMAIN G = DOMAIN H \cup {t} /\ t \notin DOMAIN H
    /\ \A h \in DOMAIN H : G[h] = H[h] /\ h < t

\* apply_block_with_stats keeps the spend map right and complete.
LEMMA SpendAfterRight ==
    ASSUME NEW H, NEW G, NEW t, Extends(G, H, t), NEW S \in SUBSET DOMAIN H,
           NEW m \in [Outpoint -> Lookup \cup {NoRow}], MapRight(H, m), MapHolds(H, S, m)
    PROVE  /\ MapRight(G, SpendAfter(G[t].block, G[t].first_uid, m))
           /\ MapHolds(G, S \cup {t}, SpendAfter(G[t].block, G[t].first_uid, m))
<1> DEFINE b == G[t].block
           f == G[t].first_uid
           n == SpendAfter(b, f, m)
<1>1. \A o \in Outpoint : n[o] = IF o \in Inputs[b] THEN NoRow
                                 ELSE IF Row(G, t, o) # NoRow THEN Row(G, t, o) ELSE m[o]
    BY DEF SpendAfter, Resolve, Row
<1>2. t \in DOMAIN G /\ \A h \in DOMAIN H : h \in DOMAIN G /\ G[h] = H[h] /\ h < t /\ h \in Nat
                                            /\ \A o : Row(G, h, o) = Row(H, h, o)
    BY ConstantsAssumption DEF Extends, Row, IsHistory, Heights
<1>3. \A o : SpentIn(G, o) <=> SpentIn(H, o) \/ o \in Inputs[b]
    BY DEF SpentIn, Extends
<1>4. t \in Nat /\ Lawful(G)
    BY <1>2, ConstantsAssumption DEF Extends, IsHistory, Heights
<1> HIDE DEF b, f, n
<1>5. ASSUME NEW o \in Outpoint, n[o] # NoRow
      PROVE  ~SpentIn(G, o) /\ \E h \in DOMAIN G : n[o] = Row(G, h, o)
    <2>1. o \notin Inputs[b]
        BY <1>1, <1>5
    <2>2. CASE Row(G, t, o) # NoRow
        <3>1. ~SpentIn(H, o)
            <4> SUFFICES ASSUME NEW h \in DOMAIN H, o \in Inputs[H[h].block] PROVE FALSE
                BY DEF SpentIn
            <4>1. t <= h
                BY <1>2, <1>4, <2>2 DEF Lawful
            <4> QED
                BY <1>2, <1>4, <4>1
        <3> QED
            BY <1>1, <1>2, <1>3, <2>1, <2>2, <3>1
    <2>3. CASE Row(G, t, o) = NoRow
        <3>1. n[o] = m[o]
            BY <1>1, <2>1, <2>3
        <3> QED
            BY <1>2, <1>3, <1>5, <2>1, <3>1 DEF MapRight
    <2> QED
        BY <2>2, <2>3
<1>6. ASSUME NEW h \in S \cup {t}, NEW o \in Outpoint, Row(G, h, o) # NoRow, ~SpentIn(G, o)
      PROVE  n[o] # NoRow
    BY <1>1, <1>2, <1>3, <1>6 DEF MapHolds
<1>7. MapRight(G, n) /\ MapHolds(G, S \cup {t}, n)
    BY <1>5, <1>6 DEF MapRight, MapHolds
<1> QED
    BY <1>7 DEF n, b, f

\* The spends of the new block are those of the history, when the map has
\* what it needs; those of older blocks stay as they are.
LEMMA AppliedSpends ==
    ASSUME NEW H, NEW G, NEW t, Extends(G, H, t),
           NEW m \in [Outpoint -> Lookup \cup {NoRow}], MapRight(H, m),
           \A o \in Inputs[G[t].block] : \A h \in DOMAIN H : Row(H, h, o) # NoRow => m[o] # NoRow
    PROVE  /\ SpendsOf(Applied(G[t].block, G[t].first_uid, m).spent, G[t].block, G)
           /\ \A h \in DOMAIN H : \A S :
                 SpendsOf(S, H[h].block, H) => SpendsOf(S, H[h].block, G)
<1> DEFINE b == G[t].block
           f == G[t].first_uid
           A == Applied(b, f, m).spent
<1>1. \A o : Resolve(b, f, m, o) = IF Row(G, t, o) # NoRow THEN Row(G, t, o) ELSE m[o]
    BY DEF Resolve, Row
<1>2. A = {[outpoint |-> o, ref |-> Resolve(b, f, m, o)] :
              o \in {p \in Inputs[b] : Resolve(b, f, m, p) # NoRow}}
    BY DEF Applied
<1>3. t \in DOMAIN G /\ t \in Nat /\ b \in Block /\ Lawful(G)
      /\ \A h \in DOMAIN H : h \in DOMAIN G /\ G[h] = H[h] /\ h < t /\ h \in Nat
                              /\ \A o : Row(G, h, o) = Row(H, h, o)
    BY ConstantsAssumption DEF Extends, Row, IsHistory, Heights
<1>4. Inputs[b] \subseteq Outpoint
    BY <1>3, BlockAssumption
<1>5. \A h \in DOMAIN G : h = t \/ h \in DOMAIN H
    BY DEF Extends
<1> HIDE DEF b, f, A
<1>6. ASSUME NEW s \in A
      PROVE  s.outpoint \in Inputs[b] /\ \E h \in DOMAIN G : s.ref = Row(G, h, s.outpoint)
    <2>1. PICK o \in Inputs[b] : Resolve(b, f, m, o) # NoRow
                                 /\ s = [outpoint |-> o, ref |-> Resolve(b, f, m, o)]
        BY <1>2, <1>6
    <2>2. o \in Outpoint
        BY <1>4
    <2>3. CASE Row(G, t, o) # NoRow
        BY <1>1, <1>3, <2>1, <2>3
    <2>4. CASE Row(G, t, o) = NoRow
        <3>1. m[o] # NoRow /\ s.ref = m[o] /\ s.outpoint = o
            BY <1>1, <2>1, <2>4
        <3>2. PICK h \in DOMAIN H : m[o] = Row(H, h, o)
            BY <2>2, <3>1 DEF MapRight
        <3> QED
            BY <1>3, <3>1, <3>2
    <2> QED
        BY <2>3, <2>4
<1>7. ASSUME NEW o \in Inputs[b], NEW h \in DOMAIN G, Row(G, h, o) # NoRow
      PROVE  [outpoint |-> o, ref |-> Row(G, h, o)] \in A
    <2>1. o \in Outpoint
        BY <1>4
    <2>2. Resolve(b, f, m, o) = Row(G, h, o)
        <3>1. CASE Row(G, t, o) # NoRow
            <4>1. h = t
                BY <1>3, <1>7, <2>1, <3>1 DEF Lawful
            <4> QED
                BY <1>1, <3>1, <4>1
        <3>2. CASE Row(G, t, o) = NoRow
            <4>1. h \in DOMAIN H /\ Row(H, h, o) # NoRow
                BY <1>3, <1>5, <1>7, <3>2
            <4>2. m[o] # NoRow
                BY <4>1 DEF b
            <4>3. PICK g \in DOMAIN H : m[o] = Row(H, g, o)
                BY <2>1, <4>2 DEF MapRight
            <4>4. g = h
                BY <1>3, <1>7, <2>1, <4>2, <4>3 DEF Lawful
            <4> QED
                BY <1>1, <1>3, <3>2, <4>1, <4>3, <4>4
        <3> QED
            BY <3>1, <3>2
    <2> QED
        BY <1>2, <1>7, <2>2
<1>8. SpendsOf(A, b, G)
    BY <1>6, <1>7 DEF SpendsOf
<1>9. ASSUME NEW h \in DOMAIN H, NEW S, SpendsOf(S, H[h].block, H)
      PROVE  SpendsOf(S, H[h].block, G)
    <2>1. ASSUME NEW o \in Inputs[H[h].block], Row(G, t, o) # NoRow PROVE FALSE
        <3>1. o \in Outpoint
            BY BlockAssumption DEF Extends, IsHistory
        <3>2. t <= h
            BY <1>3, <2>1, <3>1 DEF Lawful
        <3> QED
            BY <1>3, <3>2
    <2> QED
        BY <1>3, <1>5, <1>9, <2>1 DEF SpendsOf
<1> QED
    BY <1>8, <1>9 DEF A, b, f

\* Applying a block adds it to the history.
LEMMA ApplyHistory ==
    ASSUME IInv, Ledger, NEW b \in Block, ApplyBlock(b)
    PROVE  /\ Committed' = Committed /\ Archived' = Archived
           /\ Extends(History', History, chunk)
           /\ History'[chunk] = Entry(b, next_uid + 1)
           /\ \E c \in Chains : /\ Follows(History', c)
                                /\ OnChain(b, c) /\ \A d \in got : OnChain(d, c)
           /\ chunk \notin Committed /\ \A h \in DOMAIN History : h < Height[b]
           /\ pending' = Append(pending, Applied(b, next_uid + 1, spend))
           /\ Len(pending) \in Nat /\ Len(pending') = Len(pending) + 1
           /\ pending'[Len(pending) + 1] = Applied(b, next_uid + 1, spend)
           /\ \A k \in 1..Len(pending) : pending'[k] = pending[k]
<1> DEFINE n == Len(pending)
           a == Applied(b, next_uid + 1, spend)
<1>1. /\ pc = "apply" /\ pc' = "apply" /\ InWindow /\ InWindow' /\ next' = next
      /\ b \in got /\ Height[b] = chunk /\ pending' = Append(pending, a)
      /\ UNCHANGED <<files, tip>>
    BY DEF ApplyBlock, InWindow, disk
<1>2. Committed' = Committed /\ Archived' = Archived
    BY <1>1, ArchivedFrame
<1>3. TypeOK /\ next_uid \in Nat /\ next_uid + 1 \in Nat
    BY DEF IInv, TypeOK
<1>4. a.block = b /\ a.first_uid = next_uid + 1 /\ a \in AppliedBlock
    BY <1>3, AppliedType DEF TypeOK
<1>5. pending \in Seq(AppliedBlock) /\ n \in Nat
    BY <1>3, LenProperties DEF TypeOK, AppliedBlock
<1> HIDE DEF a
<1>6. Len(pending') = n + 1 /\ pending'[n + 1] = a /\ \A k \in 1..n : pending'[k] = pending[k]
    BY <1>1, <1>4, <1>5
<1>7. /\ EmitStart \in Nat /\ next \in Nat /\ EmitStart <= next
      /\ Committed = EmitStart..(next - 1)
      /\ DOMAIN History = EmitStart..(next + n - 1)
    BY <1>1, WindowShape
<1>8. chunk = next + n
    BY <1>1 DEF IInv, ChunkFollows
<1>9. History' = [h \in EmitStart..(next + (n + 1) - 1) |->
                    IF h < next THEN Entry(files[h].block, files[h].first_uid)
                    ELSE Entry(pending'[h - next + 1].block, pending'[h - next + 1].first_uid)]
    BY <1>1, <1>6 DEF History
<1>10. History = [h \in EmitStart..(next + n - 1) |->
                    IF h < next THEN Entry(files[h].block, files[h].first_uid)
                    ELSE Entry(pending[h - next + 1].block, pending[h - next + 1].first_uid)]
    BY <1>1 DEF History
<1>11. /\ DOMAIN History' = DOMAIN History \cup {chunk} /\ chunk \notin DOMAIN History
       /\ chunk \notin Committed /\ chunk \in Nat
       /\ \A h \in DOMAIN History : h < chunk
    BY <1>5, <1>7, <1>8, <1>9
<1>12. History'[chunk] = Entry(b, next_uid + 1)
    <2>1. chunk \in EmitStart..(next + (n + 1) - 1) /\ ~(chunk < next) /\ chunk - next + 1 = n + 1
        BY <1>5, <1>7, <1>8
    <2> QED
        BY <1>4, <1>6, <1>9, <2>1
<1>13. ASSUME NEW h \in DOMAIN History PROVE History'[h] = History[h]
    <2>1. h \in EmitStart..(next + (n + 1) - 1) /\ h \in EmitStart..(next + n - 1)
        BY <1>5, <1>7
    <2>2. CASE h < next
        BY <1>9, <1>10, <2>1, <2>2
    <2>3. CASE ~(h < next)
        <3>1. h - next + 1 \in 1..n
            BY <1>5, <1>7, <2>1, <2>3
        <3> QED
            BY <1>6, <1>9, <1>10, <2>1, <2>3, <3>1
    <2> QED
        BY <2>2, <2>3
<1>14. IsHistory(History) /\ IsHistory(History')
    <2>1. IsHistory(History)
        BY Histories
    <2>2. Height[b] \in Heights
        BY BlockAssumption
    <2> QED
        BY <1>1, <1>3, <1>11, <1>12, <1>13, <2>1, <2>2 DEF IsHistory, Entry
<1>15. PICK c \in Chains : Follows(History, c) /\ \A d \in got : OnChain(d, c)
    BY <1>1 DEF Ledger, OneChain
<1>16. Follows(History', c)
    BY <1>1, <1>11, <1>12, <1>13, <1>15 DEF Follows, Entry
<1>17. Lawful(History')
    BY <1>14, <1>16, ChainLawful
<1>18. Extends(History', History, chunk)
    BY <1>11, <1>13, <1>14, <1>17 DEF Extends
<1> QED
    BY <1>1, <1>2, <1>5, <1>6, <1>11, <1>12, <1>15, <1>16, <1>18 DEF a

\* Applying a block keeps the ledger: its spends resolve, its outputs join.
LEMMA ApplyLedger ==
    ASSUME IInv, Ledger, NEW b \in Block, ApplyBlock(b)
    PROVE  Ledger'
<1> DEFINE H == History
           G == History'
           f == next_uid + 1
           n == Len(pending)
<1>1. /\ pc = "apply" /\ pc' = "apply" /\ InWindow /\ InWindow'
      /\ b \in got /\ Height[b] = chunk /\ got' = got \ {b} /\ spend' = SpendAfter(b, f, spend)
      /\ UNCHANGED <<files, tip, rows, cached, wr>>
    BY DEF ApplyBlock, InWindow, disk
<1>2. /\ Committed' = Committed /\ Archived' = Archived
      /\ Extends(G, H, chunk) /\ G[chunk] = Entry(b, f)
      /\ chunk \notin Committed /\ \A h \in DOMAIN H : h < Height[b]
      /\ n \in Nat /\ Len(pending') = n + 1
      /\ pending'[n + 1] = Applied(b, f, spend)
      /\ \A k \in 1..n : pending'[k] = pending[k]
    BY ApplyHistory
<1>3. PICK c \in Chains : Follows(G, c) /\ OnChain(b, c) /\ \A d \in got : OnChain(d, c)
    BY ApplyHistory
<1>4. G[chunk].block = b /\ G[chunk].first_uid = f /\ f \in Nat
      /\ spend \in [Outpoint -> Lookup \cup {NoRow}] /\ got \subseteq Block
    BY <1>2 DEF Entry, IInv, TypeOK
<1>5. /\ IsHistory(H) /\ IsHistory(Archived) /\ DOMAIN Archived = Committed
      /\ \A h \in Committed : h \in DOMAIN H /\ H[h] = Archived[h]
    BY Histories
<1>6. MapRight(H, spend) /\ MapHolds(H, DOMAIN H \ Committed, spend)
    BY <1>1 DEF Ledger, SpendMap
<1> HIDE DEF H, G
<1>7. MapRight(G, spend') /\ MapHolds(G, (DOMAIN H \ Committed) \cup {chunk}, spend')
    <2> DEFINE S == DOMAIN H \ Committed
    <2>1. S \in SUBSET DOMAIN H /\ MapHolds(H, S, spend)
        BY <1>6
    <2> HIDE DEF S
    <2>2. /\ MapRight(G, SpendAfter(G[chunk].block, G[chunk].first_uid, spend))
          /\ MapHolds(G, S \cup {chunk}, SpendAfter(G[chunk].block, G[chunk].first_uid, spend))
        BY <1>2, <1>4, <1>6, <2>1, SpendAfterRight
    <2> QED
        BY <1>1, <1>4, <2>2 DEF S
<1>8. MapHolds(G, DOMAIN G \ Committed, spend')
    <2>1. DOMAIN G \ Committed = (DOMAIN H \ Committed) \cup {chunk}
        BY <1>2 DEF Extends
    <2> QED
        BY <1>7, <2>1
<1>9. \A d \in got : \A o \in Inputs[d] : o \in Outpoint
    BY <1>4, BlockAssumption
<1>10. ASSUME NEW d \in got', NEW o \in Inputs[d], rows[o] # NoRow PROVE spend'[o] # NoRow
    <2>1. d \in got /\ d # b /\ o \in Outpoint
        BY <1>1, <1>9
    <2>2. spend[o] # NoRow
        BY <1>1, <1>10, <2>1 DEF Ledger, SpendMap
    <2>3. o \notin Inputs[b]
        <3> SUFFICES ASSUME o \in Inputs[b] PROVE FALSE
            OBVIOUS
        <3>1. /\ Height[d] + 1 \in 1..Len(c) /\ c[Height[d] + 1] = d
              /\ Height[b] + 1 \in 1..Len(c) /\ c[Height[b] + 1] = b
            BY <1>3, <2>1 DEF OnChain
        <3>2. Height[d] + 1 = Height[b] + 1
            BY <2>1, <3>1, ConsensusAssumption
        <3> QED
            BY <2>1, <3>1, <3>2
    <2>4. spend'[o] = Resolve(b, f, spend, o)
        BY <1>1, <2>1, <2>3 DEF SpendAfter
    <2> QED
        BY <2>2, <2>4 DEF Resolve
<1>11. SpendMap'
    <2>1. MapRight(History', spend') /\ MapHolds(History', DOMAIN History' \ Committed', spend')
        BY <1>2, <1>7, <1>8 DEF G
    <2>2. \A o \in cached' : rows'[o] # NoRow
        BY <1>1 DEF Ledger, SpendMap
    <2> QED
        BY <1>1, <1>10, <2>1, <2>2 DEF SpendMap
<1>12. OneChain' /\ GotFromNode'
    BY <1>1, <1>3 DEF OneChain, GotFromNode, G
<1>13. ASSUME NEW o \in Inputs[b], NEW h \in DOMAIN H, Row(H, h, o) # NoRow PROVE spend[o] # NoRow
    <2>1. o \in Outpoint
        BY <1>1, <1>9
    <2>2. Follows(H, c)
        BY <1>2, <1>3 DEF Follows, Extends
    <2>3. ~SpentIn(H, o)
        BY <1>2, <1>3, <1>5, <2>2, SpentLater
    <2>4. CASE h \in Committed
        <3>1. Row(Archived, h, o) # NoRow
            BY <1>5, <1>13, <2>4 DEF Row
        <3>2. ~SpentIn(Archived, o)
            BY <1>5, <2>3 DEF SpentIn
        <3>3. rows[o] # NoRow
            BY <2>1, <2>4, <3>1, <3>2 DEF Ledger, RowMap, MapHolds
        <3> QED
            BY <1>1, <3>3 DEF Ledger, SpendMap
    <2>5. CASE h \notin Committed
        BY <1>6, <1>13, <2>1, <2>3, <2>5 DEF MapHolds
    <2> QED
        BY <2>4, <2>5
<1>14. /\ SpendsOf(Applied(b, f, spend).spent, b, G)
       /\ \A h \in DOMAIN H : \A S : SpendsOf(S, H[h].block, H) => SpendsOf(S, H[h].block, G)
    BY <1>2, <1>4, <1>6, <1>13, AppliedSpends
<1>15. ASSUME NEW k \in 1..Len(pending')
       PROVE  SpendsOf(pending'[k].spent, pending'[k].block, G)
    <2>1. CASE k = n + 1
        <3>1. Applied(b, f, spend).block = b
            BY DEF Applied
        <3> QED
            BY <1>2, <1>14, <2>1, <3>1
    <2>2. CASE k # n + 1
        <3>1. k \in 1..n /\ pending'[k] = pending[k]
            BY <1>2, <2>2
        <3>2. next + k - 1 \in DOMAIN H /\ H[next + k - 1].block = pending[k].block
            <4>1. /\ next + k - 1 \in DOMAIN History
                  /\ History[next + k - 1] = Entry(pending[k].block, pending[k].first_uid)
                BY <1>1, <3>1, Histories
            <4> QED
                BY <4>1 DEF Entry, H
        <3>3. SpendsOf(pending[k].spent, pending[k].block, H)
            BY <1>1, <3>1 DEF Ledger, PendingSpent, H
        <3> QED
            BY <1>14, <3>1, <3>2, <3>3
    <2> QED
        BY <2>1, <2>2
<1>16. PendingSpent'
    BY <1>1, <1>15 DEF PendingSpent, G
<1> QED
    BY <1>1, <1>2, <1>11, <1>12, <1>16 DEF Ledger, RowMap, FilesListed

\* A written file lists the spends of its block.
LEMMA WriteLedger ==
    ASSUME IInv, Ledger, WriteFile
    PROVE  Ledger'
<1> DEFINE a == pending[wr + 1]
<1>1. /\ pc = "write" /\ pc' = "write" /\ InWindow /\ InWindow' /\ wr' = wr + 1
      /\ UNCHANGED <<tip, rows, next, pending, got, cached, spend>>
      /\ files' = [files EXCEPT ![Height[a.block]] = FileOf(a)]
    BY DEF WriteFile, InWindow
<1>2. TypeOK /\ files \in [Heights -> Stored \cup {NoFile}] /\ wr \in Nat
      /\ next \in Nat /\ wr + 1 \in 1..Len(pending) /\ Len(pending) \in Nat
    <2>1. TypeOK /\ Len(pending) \in Nat
        BY LenProperties DEF IInv, TypeOK
    <2> QED
        BY <2>1 DEF TypeOK, WriteFile
<1>3. \A k \in 1..Len(pending) : /\ Height[pending[k].block] \in Heights
                                 /\ Height[pending[k].block] = next + k - 1
                                 /\ Height[pending[k].block] \notin Committed
    BY <1>1, PendingHeights
<1>4. a \in AppliedBlock /\ Height[a.block] \in Heights \ Committed
    BY <1>1, <1>2, <1>3, PendingHeights
<1>5. /\ FileOf(a).block = a.block
      /\ DOMAIN FileOf(a).spent_height = 1..Len(Indexed[FileOf(a).block])
    BY DEF FileOf
<1> HIDE DEF a
<1>6. \A h \in Heights : files'[h] = IF h = Height[a.block] THEN FileOf(a) ELSE files[h]
    BY <1>1, <1>2
<1>7. \A h \in Committed : files'[h] = files[h] /\ h \in Heights
    BY <1>4, <1>6, CommittedFiles
<1>8. Committed' = Committed /\ Archived' = Archived /\ History' = History
    BY <1>1, <1>7, HistoryFrame
<1>9. ASSUME NEW k \in 1..(wr + 1)
      PROVE  files'[Height[pending[k].block]].spends = FileOf(pending[k]).spends
    <2>1. CASE k = wr + 1
        BY <1>4, <1>6, <2>1 DEF a
    <2>2. CASE k # wr + 1
        <3>1. k \in 1..wr /\ k \in 1..Len(pending) /\ wr + 1 \in 1..Len(pending)
            BY <1>2, <2>2
        <3>2. Height[pending[k].block] # Height[a.block] /\ Height[pending[k].block] \in Heights
            BY <1>2, <1>3, <2>2, <3>1 DEF a
        <3> QED
            BY <1>1, <1>6, <3>1, <3>2 DEF Ledger, PendingSpent
    <2> QED
        BY <2>1, <2>2
<1>10. PendingSpent'
    BY <1>1, <1>8, <1>9 DEF Ledger, PendingSpent
<1>11. FilesListed'
    BY <1>5, <1>6, <1>7, <1>8 DEF Ledger, FilesListed
<1> QED
    BY <1>1, <1>8, <1>10, <1>11 DEF Ledger, OneChain, GotFromNode, SpendMap, RowMap

\* Marking begins.
LEMMA StartMarkingLedger ==
    ASSUME IInv, Ledger, StartMarking
    PROVE  Ledger'
<1>1. /\ pc = "write" /\ pc' = "mark" /\ InWindow /\ InWindow'
      /\ UNCHANGED <<files, tip, rows, next, pending, got, cached, spend, wr>>
    BY DEF StartMarking, InWindow, disk
<1>2. Committed' = Committed /\ Archived' = Archived /\ History' = History
    BY <1>1, HistoryFrame
<1> QED
    BY <1>1, <1>2 DEF Ledger, OneChain, GotFromNode, SpendMap, RowMap, PendingSpent, FilesListed

\* A rewrite changes nothing of a file but its spent heights.
LEMMA MarkKeepsEntries ==
    ASSUME IInv, NEW h \in Heights, MarkFile(h), NEW k \in Heights
    PROVE  /\ files'[k] = NoFile <=> files[k] = NoFile
           /\ files[k] # NoFile => /\ files'[k].block = files[k].block
                                   /\ files'[k].first_uid = files[k].first_uid
                                   /\ files'[k].spends = files[k].spends
                                   /\ DOMAIN files'[k].spent_height = DOMAIN files[k].spent_height
           /\ k # h => files'[k] = files[k]
<1>1. TypeOK /\ files \in [Heights -> Stored \cup {NoFile}]
    BY DEF IInv, TypeOK
<1>2. CASE files[h] = NoFile
    BY <1>2 DEF MarkFile
<1>3. CASE files[h] # NoFile
    <2>1. files'[k] = IF k = h THEN Marked(files[h], h) ELSE files[k]
        BY <1>1, <1>3 DEF MarkFile
    <2>2. files[h] \in Stored /\ Marked(files[h], h) # NoFile
          /\ Marked(files[h], h).block = files[h].block
          /\ Marked(files[h], h).first_uid = files[h].first_uid
        BY <1>1, <1>3, MarkedType, NoValueAssumption
    <2>3. /\ Marked(files[h], h).spends = files[h].spends
          /\ DOMAIN Marked(files[h], h).spent_height = DOMAIN files[h].spent_height
        BY <2>2 DEF Marked, Stored
    <2> QED
        BY <1>3, <2>1, <2>2, <2>3
<1> QED
    BY <1>2, <1>3

\* A rewrite changes spent heights only.
LEMMA MarkLedger ==
    ASSUME IInv, Ledger, NEW h \in Heights, MarkFile(h)
    PROVE  Ledger'
<1>1. /\ pc = "mark" /\ pc' = "mark" /\ InWindow /\ InWindow' /\ wr' = wr
      /\ UNCHANGED <<tip, rows, next, pending, got, cached, spend>>
    BY DEF MarkFile, InWindow
<1>2. \A k \in Committed : k \in Heights /\ files[k] # NoFile
    BY CommittedFiles
<1>3. \A k \in Committed : /\ files'[k].block = files[k].block
                           /\ files'[k].first_uid = files[k].first_uid
                           /\ files'[k].spends = files[k].spends
    BY <1>2, MarkKeepsEntries
<1>4. Committed' = Committed /\ Archived' = Archived /\ History' = History
    BY <1>1, <1>3, HistoryFrame
<1>5. PendingSpent'
    <2>1. ASSUME NEW k \in 1..wr
          PROVE  files'[Height[pending[k].block]].spends = FileOf(pending[k]).spends
        <3>1. wr = Len(pending) /\ files[Height[pending[k].block]] # NoFile
            BY <1>1 DEF IInv, StagesInOrder
        <3>2. Height[pending[k].block] \in Heights
            BY <1>1, <3>1, PendingHeights
        <3> QED
            BY <1>1, <3>1, <3>2, MarkKeepsEntries DEF Ledger, PendingSpent
    <2> QED
        BY <1>1, <1>4, <2>1 DEF Ledger, PendingSpent
<1>6. FilesListed'
    <2>1. \A k \in Heights : files'[k] # NoFile =>
              DOMAIN files'[k].spent_height = 1..Len(Indexed[files'[k].block])
        BY MarkKeepsEntries DEF Ledger, FilesListed
    <2> QED
        BY <1>3, <1>4, <2>1 DEF Ledger, FilesListed
<1> QED
    BY <1>1, <1>4, <1>5, <1>6 DEF Ledger, OneChain, GotFromNode, SpendMap, RowMap

\* When the marks are written, the files of the window hold its history.
LEMMA WindowFiles ==
    ASSUME IInv, pc = "mark"
    PROVE  /\ DOMAIN History = EmitStart..Height[LastPending]
           /\ \A h \in DOMAIN History : files[h] # NoFile
                 /\ History[h] = Entry(files[h].block, files[h].first_uid)
           /\ LastPending \in Block
<1>1. InWindow
    BY DEF InWindow
<1>2. /\ wr = Len(pending) /\ Len(pending) > 0
      /\ \A k \in 1..Len(pending) : /\ files[Height[pending[k].block]] # NoFile
                                    /\ files[Height[pending[k].block]].block = pending[k].block
                                    /\ files[Height[pending[k].block]].first_uid = pending[k].first_uid
    BY DEF IInv, StagesInOrder
<1>3. LastPending \in Block /\ Len(pending) \in Nat
    BY <1>2, LastPendingType DEF IInv
<1>4. Height[LastPending] = next + Len(pending) - 1
    BY <1>1, <1>2, <1>3, PendingHeights DEF LastPending
<1>5. DOMAIN History = EmitStart..Height[LastPending]
    BY <1>1, <1>4, WindowShape
<1>6. ASSUME NEW h \in DOMAIN History
      PROVE  files[h] # NoFile /\ History[h] = Entry(files[h].block, files[h].first_uid)
    <2>1. CASE h \in Committed
        <3>1. History[h] = Archived[h]
            BY <2>1, Histories
        <3> QED
            BY <2>1, <3>1, CommittedFiles DEF Archived
    <2>2. CASE h \notin Committed
        <3> DEFINE k == h - next + 1
        <3>1. k \in 1..Len(pending) /\ next + k - 1 = h
            BY <2>2, Histories
        <3> HIDE DEF k
        <3>2. History[h] = Entry(pending[k].block, pending[k].first_uid)
              /\ Height[pending[k].block] = h
            BY <1>1, <3>1, Histories
        <3> QED
            BY <1>2, <3>1, <3>2
    <2> QED
        BY <2>1, <2>2
<1> QED
    BY <1>3, <1>5, <1>6

\* Committing turns the history into the archive.
LEMMA CommitHistory ==
    ASSUME IInv, Commit
    PROVE  /\ Committed' = DOMAIN History /\ Archived' = History /\ History' = History
           /\ \A h \in DOMAIN History : files[h].block = History[h].block
<1>1. pc = "mark" /\ pc' = "manifest" /\ tip' = LastPending /\ files' = files /\ ~InWindow'
    BY DEF Commit, InWindow
<1>2. /\ DOMAIN History = EmitStart..Height[LastPending]
      /\ \A h \in DOMAIN History : History[h] = Entry(files[h].block, files[h].first_uid)
      /\ LastPending \in Block
    BY <1>1, WindowFiles
<1>3. Committed' = DOMAIN History
    BY <1>1, <1>2, BlockAssumption DEF Committed
<1>4. Archived' = [h \in DOMAIN History |-> Entry(files[h].block, files[h].first_uid)]
    BY <1>1, <1>3 DEF Archived
<1>5. History = [h \in DOMAIN History |-> History[h]]
    BY <1>1 DEF History, InWindow
<1>6. Archived' = History
    BY <1>2, <1>4, <1>5
<1>7. History' = Archived'
    BY <1>1 DEF History
<1>8. \A h \in DOMAIN History : files[h].block = History[h].block
    BY <1>2, EntryFields
<1> QED
    BY <1>3, <1>6, <1>7, <1>8

\* The batch of commit_applied_blocks leaves exactly the unspent outputs.
LEMMA RowsAfterRight ==
    ASSUME IInv, Ledger, InWindow
    PROVE  MapRight(History, RowsAfter) /\ MapHolds(History, DOMAIN History, RowsAfter)
<1> DEFINE H == History
           n == Len(pending)
           Made(k, o) == CreatedRows(pending[k].block, pending[k].first_uid)[o] # NoRow
           Gone(o) == \E k \in 1..n : \E s \in pending[k].spent : s.outpoint = o
<1>1. /\ IsHistory(H) /\ \A h \in Committed : h \in DOMAIN H /\ H[h] = Archived[h]
      /\ DOMAIN Archived = Committed
      /\ \A k \in 1..n : /\ next + k - 1 \in DOMAIN H \ Committed
                         /\ H[next + k - 1] = Entry(pending[k].block, pending[k].first_uid)
      /\ \A h \in DOMAIN H \ Committed : h - next + 1 \in 1..n /\ next + (h - next + 1) - 1 = h
    BY Histories
<1>2. Lawful(H)
    BY Histories, ChainLawful DEF Ledger, OneChain
<1>3. \A k \in 1..n : SpendsOf(pending[k].spent, pending[k].block, H)
    BY DEF Ledger, PendingSpent
<1>4. MapRight(Archived, rows) /\ MapHolds(Archived, Committed, rows)
    BY DEF Ledger, RowMap
<1>5. \A h \in DOMAIN H : h \in Nat /\ H[h].block \in Block
    BY <1>1, ConstantsAssumption DEF IsHistory, Heights
<1>6. EmitStart \in Nat /\ next \in Nat /\ n \in Nat /\ Committed = EmitStart..(next - 1)
    BY WindowShape
<1>7. \A o \in Outpoint : \A k \in 1..n : Made(k, o) <=> Row(H, next + k - 1, o) # NoRow
    <2>1. \A k \in 1..n : /\ H[next + k - 1].block = pending[k].block
                          /\ H[next + k - 1].first_uid = pending[k].first_uid
        BY <1>1, EntryFields
    <2> QED
        BY <2>1 DEF Row
<1>8. ASSUME NEW o \in Outpoint
      PROVE  /\ Gone(o) => RowsAfter[o] = NoRow
             /\ ~Gone(o) /\ (\A k \in 1..n : ~Made(k, o)) => RowsAfter[o] = rows[o]
             /\ ~Gone(o) /\ (\E k \in 1..n : Made(k, o)) =>
                   \E k \in 1..n : Made(k, o) /\ RowsAfter[o] = Row(H, next + k - 1, o)
    <2>1. RowsAfter[o] = IF Gone(o) THEN NoRow
                         ELSE IF \E k \in 1..n : Made(k, o)
                              THEN LET k == CHOOSE k \in 1..n : Made(k, o)
                                   IN  CreatedRows(pending[k].block, pending[k].first_uid)[o]
                              ELSE rows[o]
        BY DEF RowsAfter
    <2>2. ASSUME ~Gone(o), \E k \in 1..n : Made(k, o)
          PROVE  \E k \in 1..n : Made(k, o) /\ RowsAfter[o] = Row(H, next + k - 1, o)
        <3> DEFINE j == CHOOSE k \in 1..n : Made(k, o)
        <3>1. j \in 1..n /\ Made(j, o)
            BY <2>2
        <3>2. RowsAfter[o] = CreatedRows(pending[j].block, pending[j].first_uid)[o]
            BY <2>1, <2>2
        <3> HIDE DEF j
        <3>3. RowsAfter[o] = Row(H, next + j - 1, o)
            <4>1. /\ H[next + j - 1].block = pending[j].block
                  /\ H[next + j - 1].first_uid = pending[j].first_uid
                BY <1>1, <3>1, EntryFields
            <4> QED
                BY <3>2, <4>1 DEF Row
        <3> QED
            BY <3>1, <3>3
    <2> QED
        BY <2>1, <2>2
<1> HIDE DEF H
<1>9. ASSUME NEW o \in Outpoint, NEW h \in DOMAIN H \ Committed, o \in Inputs[H[h].block],
             NEW g \in DOMAIN H, Row(H, g, o) # NoRow
      PROVE  Gone(o)
    <2> DEFINE k == h - next + 1
    <2>1. k \in 1..n /\ next + k - 1 = h
        BY <1>1
    <2> HIDE DEF k
    <2>2. H[h].block = pending[k].block
        BY <1>1, <2>1, EntryFields
    <2>3. [outpoint |-> o, ref |-> Row(H, g, o)] \in pending[k].spent
        BY <1>3, <1>9, <2>1, <2>2 DEF SpendsOf
    <2> QED
        BY <2>1, <2>3
<1>10. ASSUME NEW o \in Outpoint, Gone(o) PROVE SpentIn(H, o)
    <2>1. PICK k \in 1..n : \E s \in pending[k].spent : s.outpoint = o
        BY <1>10
    <2>2. o \in Inputs[pending[k].block]
        BY <1>3, <2>1 DEF SpendsOf
    <2>3. next + k - 1 \in DOMAIN H /\ H[next + k - 1].block = pending[k].block
        BY <1>1, EntryFields
    <2> QED
        BY <2>2, <2>3 DEF SpentIn
<1>11. ASSUME NEW o \in Outpoint, RowsAfter[o] # NoRow
       PROVE  ~SpentIn(H, o) /\ \E h \in DOMAIN H : RowsAfter[o] = Row(H, h, o)
    <2>1. ~Gone(o)
        BY <1>8, <1>11
    <2>2. CASE \E k \in 1..n : Made(k, o)
        <3>1. PICK k \in 1..n : Made(k, o) /\ RowsAfter[o] = Row(H, next + k - 1, o)
            BY <1>8, <2>1, <2>2
        <3>2. next + k - 1 \in DOMAIN H \ Committed /\ Row(H, next + k - 1, o) # NoRow
            BY <1>1, <1>11, <3>1
        <3>3. ASSUME NEW h \in DOMAIN H, o \in Inputs[H[h].block] PROVE FALSE
            <4>1. next + k - 1 <= h
                BY <1>2, <3>2, <3>3 DEF Lawful
            <4>2. h \notin Committed
                BY <1>5, <1>6, <4>1
            <4> QED
                BY <1>9, <2>1, <3>2, <3>3, <4>2
        <3> QED
            BY <3>1, <3>2, <3>3 DEF SpentIn
    <2>3. CASE \A k \in 1..n : ~Made(k, o)
        <3>1. RowsAfter[o] = rows[o]
            BY <1>8, <2>1, <2>3
        <3>2. PICK h \in Committed : rows[o] = Row(Archived, h, o)
            BY <1>1, <1>4, <1>11, <3>1 DEF MapRight
        <3>3. h \in DOMAIN H /\ Row(H, h, o) = rows[o]
            BY <1>1, <3>2 DEF Row
        <3>4. ASSUME NEW g \in DOMAIN H, o \in Inputs[H[g].block] PROVE FALSE
            <4>1. CASE g \in Committed
                BY <1>1, <1>4, <1>11, <3>1, <3>4, <4>1 DEF MapRight, SpentIn
            <4>2. CASE g \notin Committed
                BY <1>9, <1>11, <2>1, <3>1, <3>3, <3>4, <4>2
            <4> QED
                BY <4>1, <4>2
        <3> QED
            BY <3>1, <3>3, <3>4 DEF SpentIn
    <2> QED
        BY <2>2, <2>3
<1>12. ASSUME NEW h \in DOMAIN H, NEW o \in Outpoint, Row(H, h, o) # NoRow, ~SpentIn(H, o)
       PROVE  RowsAfter[o] # NoRow
    <2>1. ~Gone(o)
        BY <1>10, <1>12
    <2>2. CASE \E k \in 1..n : Made(k, o)
        BY <1>7, <1>8, <2>1, <2>2
    <2>3. CASE \A k \in 1..n : ~Made(k, o)
        <3>1. RowsAfter[o] = rows[o]
            BY <1>8, <2>1, <2>3
        <3>2. h \in Committed
            <4> SUFFICES ASSUME h \notin Committed PROVE FALSE
                OBVIOUS
            <4>1. h - next + 1 \in 1..n /\ next + (h - next + 1) - 1 = h
                BY <1>1
            <4> QED
                BY <1>7, <1>12, <2>3, <4>1
        <3>3. Row(Archived, h, o) # NoRow /\ ~SpentIn(Archived, o)
            BY <1>1, <1>12, <3>2 DEF Row, SpentIn
        <3> QED
            BY <1>4, <3>1, <3>2, <3>3 DEF MapHolds
    <2> QED
        BY <2>2, <2>3
<1> QED
    BY <1>11, <1>12 DEF MapRight, MapHolds, H

\* The files of the window list exactly the spends of their blocks, and so
\* do the older ones still: a later block creates nothing they spend.
LEMMA CommitLists ==
    ASSUME IInv, Ledger, pc = "mark", NEW h \in DOMAIN History
    PROVE  Lists(files[h].spends, files[h].block, History)
<1> DEFINE H == History
<1>1. /\ IsHistory(H) /\ \A g \in Committed : g \in DOMAIN H /\ H[g] = Archived[g]
      /\ DOMAIN Archived = Committed /\ InWindow
    BY Histories DEF InWindow
<1>2. Lawful(H)
    BY Histories, ChainLawful DEF Ledger, OneChain
<1>3. files[h].block = H[h].block
    BY WindowFiles DEF Entry
<1>4. \A g \in DOMAIN H : g \in Nat /\ g \in Heights /\ H[g].block \in Block
                          /\ H[g].first_uid \in Nat /\ Height[H[g].block] = g
    BY <1>1, ConstantsAssumption DEF IsHistory, Heights
<1>5. \A o \in Inputs[H[h].block] : o \in Outpoint
    BY <1>4, BlockAssumption
<1>6. CASE h \in Committed
    <2>1. Lists(files[h].spends, files[h].block, Archived)
        BY <1>6 DEF Ledger, FilesListed
    <2>2. \A g \in Committed : \A o : Row(Archived, g, o) = Row(H, g, o)
        BY <1>1 DEF Row
    <2>3. ASSUME NEW o \in Inputs[H[h].block], NEW g \in DOMAIN H, Row(H, g, o) # NoRow
          PROVE  g \in Committed
        <3>1. g <= h
            BY <1>2, <1>5, <2>3 DEF Lawful
        <3>2. EmitStart \in Nat /\ next \in Nat /\ Committed = EmitStart..(next - 1)
              /\ Len(pending) \in Nat /\ DOMAIN H = EmitStart..(next + Len(pending) - 1)
            BY <1>1, WindowShape
        <3> QED
            BY <1>4, <1>6, <3>1, <3>2
    <2> HIDE DEF H
    <2>4. Lists(files[h].spends, files[h].block, H)
        BY <1>1, <1>3, <2>1, <2>2, <2>3 DEF Lists
    <2> QED
        BY <2>4 DEF H
<1>7. CASE h \notin Committed
    <2> DEFINE k == h - next + 1
    <2>1. k \in 1..Len(pending) /\ next + k - 1 = h
        BY <1>7, Histories
    <2> HIDE DEF k
    <2>2. Height[pending[k].block] = h /\ pending[k] \in AppliedBlock
        BY <1>1, <2>1, PendingHeights
    <2>3. H[h] = Entry(pending[k].block, pending[k].first_uid)
        BY <1>1, <2>1, Histories
    <2>4. SpendsOf(pending[k].spent, pending[k].block, H)
        BY <1>1, <2>1 DEF Ledger, PendingSpent
    <2>5. files[h].spends = FileOf(pending[k]).spends
        BY <2>1, <2>2 DEF Ledger, PendingSpent, IInv, StagesInOrder
    <2>6. files[h].spends = {[uid |-> s.ref.uid, creation_height |-> s.ref.height] :
                                s \in pending[k].spent}
        BY <2>5 DEF FileOf
    <2>7. H[h].block = pending[k].block
        BY <2>3 DEF Entry
    <2> HIDE DEF H
    <2>8. ASSUME NEW o \in Outpoint, NEW g \in DOMAIN H, Row(H, g, o) # NoRow
          PROVE  Row(H, g, o).height = g
        <3>1. PICK i \in 1..Len(Indexed[H[g].block]) :
                  Row(H, g, o) = [uid |-> H[g].first_uid + Indexed[H[g].block][i].slot,
                                  height |-> Height[H[g].block], index |-> i]
            BY <1>4, <2>8, RowOfCreated DEF Row
        <3> QED
            BY <1>4, <3>1
    <2>9. ASSUME NEW e \in files[h].spends
          PROVE  \E o \in Inputs[H[h].block] : \E g \in DOMAIN H :
                     Row(H, g, o) # NoRow /\ e = [uid |-> Row(H, g, o).uid, creation_height |-> g]
        <3>1. PICK s \in pending[k].spent :
                  e = [uid |-> s.ref.uid, creation_height |-> s.ref.height]
            BY <2>6, <2>9
        <3>2. s.ref # NoRow
            BY <2>2, NoValueAssumption DEF AppliedBlock
        <3>3. s.outpoint \in Inputs[H[h].block]
            BY <2>4, <2>7 DEF SpendsOf
        <3>4. PICK g \in DOMAIN H : s.ref = Row(H, g, s.outpoint)
            BY <2>4 DEF SpendsOf
        <3>5. Row(H, g, s.outpoint).height = g
            BY <1>5, <2>8, <3>2, <3>3, <3>4
        <3> QED
            BY <3>1, <3>2, <3>3, <3>4, <3>5
    <2>10. ASSUME NEW o \in Inputs[H[h].block], NEW g \in DOMAIN H, Row(H, g, o) # NoRow
           PROVE  [uid |-> Row(H, g, o).uid, creation_height |-> g] \in files[h].spends
        <3> DEFINE s == [outpoint |-> o, ref |-> Row(H, g, o)]
        <3>1. s \in pending[k].spent
            BY <2>4, <2>7, <2>10 DEF SpendsOf
        <3>2. s.ref.uid = Row(H, g, o).uid /\ s.ref.height = g
            BY <1>5, <2>8, <2>10
        <3> HIDE DEF s
        <3> QED
            BY <2>6, <3>1, <3>2
    <2>11. Lists(files[h].spends, files[h].block, H)
        BY <1>3, <2>9, <2>10 DEF Lists
    <2> QED
        BY <2>11 DEF H
<1> QED
    BY <1>6, <1>7

\* The commit turns the ledger of the window into that of the archive.
LEMMA CommitLedger ==
    ASSUME IInv, Ledger, Commit
    PROVE  Ledger'
<1>1. /\ pc = "mark" /\ pc' = "manifest" /\ InWindow /\ ~InWindow' /\ rows' = RowsAfter
      /\ UNCHANGED <<files, got, cached, spend, pending, wr>>
    BY DEF Commit, InWindow, mem
<1>2. Committed' = DOMAIN History /\ Archived' = History /\ History' = History
    BY CommitHistory
<1>3. MapRight(History, RowsAfter) /\ MapHolds(History, DOMAIN History, RowsAfter)
    BY <1>1, RowsAfterRight
<1>4. OneChain' /\ GotFromNode'
    BY <1>1, <1>2 DEF Ledger, OneChain, GotFromNode
<1>5. SpendMap' /\ RowMap'
    BY <1>1, <1>2, <1>3 DEF Ledger, SpendMap, RowMap
<1>6. FilesListed'
    BY <1>1, <1>2, CommitLists DEF Ledger, FilesListed
<1> QED
    BY <1>1, <1>4, <1>5, <1>6 DEF Ledger, PendingSpent

\* Every step keeps the ledger.
LEMMA LedgerStep ==
    ASSUME IInv, Ledger, [Next]_vars
    PROVE  Ledger'
<1>0. pc \notin {"fetch", "apply"} => got = {}
    BY DEF Ledger, GotFromNode
<1>1. CASE UNCHANGED vars
    BY <1>1, SameLedger DEF vars, disk, mem
<1>2. ASSUME NEW c \in Chains, NodeAdopts(c) PROVE Ledger'
    BY <1>2, SameLedger DEF NodeAdopts, disk, mem
<1>3. CASE Start
    BY <1>0, <1>3, QuietLedger DEF Start, disk, InWindow
<1>4. CASE PollHeight
    BY <1>0, <1>4, QuietLedger DEF PollHeight, disk, InWindow
<1>5. CASE OpenWindow
    BY <1>5, OpenLedger
<1>6. CASE CaughtUp
    BY <1>0, <1>6, QuietLedger DEF CaughtUp, disk, InWindow
<1>7. CASE TipChanged
    BY <1>0, <1>7, QuietLedger DEF TipChanged, disk, InWindow
<1>8. ASSUME NEW h \in Heights, FetchBlock(h) PROVE Ledger'
    BY <1>8, FetchLedger
<1>9. CASE ResolveChunk
    BY <1>9, ResolveLedger
<1>10. CASE RejectChunk \/ Crash
    BY <1>10, QuietLedger DEF RejectChunk, Crash, LoseMemory, disk, InWindow
<1>11. ASSUME NEW b \in Block, ApplyBlock(b) PROVE Ledger'
    BY <1>11, ApplyLedger
<1>12. CASE EndChunk
    BY <1>12, EndLedger
<1>13. CASE WriteFile
    BY <1>13, WriteLedger
<1>14. CASE StartMarking
    BY <1>14, StartMarkingLedger
<1>15. ASSUME NEW h \in Heights, MarkFile(h) PROVE Ledger'
    BY <1>15, MarkLedger
<1>16. CASE Commit
    BY <1>16, CommitLedger
<1>17. CASE TruncateManifest
    BY <1>0, <1>17, QuietLedger DEF TruncateManifest, mem, InWindow
<1>18. CASE WriteManifest
    BY <1>0, <1>18, QuietLedger DEF WriteManifest, InWindow
<1> QED
    BY <1>1, <1>2, <1>3, <1>4, <1>5, <1>6, <1>7, <1>8, <1>9, <1>10, <1>11, <1>12, <1>13,
       <1>14, <1>15, <1>16, <1>17, <1>18 DEF Next, Indexer

\* An empty archive has nothing to say.
LEMMA InitLedger ==
    ASSUME Init
    PROVE  Ledger
<1>1. /\ Committed = {} /\ ~InWindow /\ pc = "down" /\ got = {} /\ spend = NoSpends
      /\ rows = NoSpends /\ \A h \in Heights : files[h] = NoFile
    BY DEF Init, Committed, InWindow
<1>2. DOMAIN Archived = {} /\ History = Archived
    BY <1>1 DEF Archived, History
<1>3. OneChain
    BY <1>1, <1>2 DEF Init, OneChain, Follows
<1>4. \A H : MapRight(H, NoSpends)
    BY DEF MapRight, NoSpends
<1>5. MapHolds(Archived, Committed, NoSpends)
    BY <1>1 DEF MapHolds
<1> QED
    BY <1>1, <1>3, <1>4, <1>5
       DEF Ledger, GotFromNode, SpendMap, RowMap, PendingSpent, FilesListed
-----------------------------------------------------------------------------
(* Rows and pointers *)

\* Rows, spend map, pending spends and listed spends agree with one history
\* of blocks in every run of the indexer, whatever the node reorganises.
THEOREM LedgerInvariant == Spec => []Ledger
<1>1. Init => Ledger
    BY InitLedger
<1>2. IInv /\ Ledger /\ [Next]_vars => Ledger'
    BY LedgerStep
<1> QED
    BY <1>1, <1>2, Invariant, PTL DEF Spec

\* The archive obeys consensus.
LEMMA ArchiveLawful ==
    ASSUME IInv, Ledger
    PROVE  Lawful(Archived) /\ IsHistory(Archived) /\ DOMAIN Archived = Committed
<1>1. PICK c \in Chains : Follows(History, c)
    BY DEF Ledger, OneChain
<1>2. Follows(Archived, c)
    BY <1>1, Histories DEF Follows
<1> QED
    BY <1>2, Histories, ChainLawful

\* The RocksDB rows are exactly the unspent outputs of the committed files
\* (commit_applied_blocks, lookup_spend_uids_for_chunk), after any crash and
\* any reorganisation.
THEOREM RowsStayExact == Spec => []RowsExact
<1>1. ASSUME IInv, Ledger PROVE RowsExact
    <2> SUFFICES ASSUME NEW o \in Outpoint
                 PROVE  IF CreatedAt(o) # {} /\ SpentAt(o) = {}
                        THEN \A h \in CreatedAt(o) :
                                 rows[o] = CreatedRows(files[h].block, files[h].first_uid)[o]
                        ELSE rows[o] = NoRow
        BY DEF RowsExact
    <2>1. Lawful(Archived) /\ DOMAIN Archived = Committed
        BY <1>1, ArchiveLawful
    <2>2. \A h \in Committed : /\ Archived[h].block = files[h].block
                               /\ Archived[h].first_uid = files[h].first_uid
        BY EntryFields DEF Archived
    <2>3. \A h \in Committed :
              Row(Archived, h, o) = CreatedRows(files[h].block, files[h].first_uid)[o]
        BY <2>2 DEF Row
    <2>4. CreatedAt(o) = {h \in Committed : Row(Archived, h, o) # NoRow}
        BY <2>3 DEF CreatedAt
    <2>5. SpentAt(o) = {} <=> ~SpentIn(Archived, o)
        BY <2>1, <2>2 DEF SpentAt, SpentIn
    <2>6. MapRight(Archived, rows) /\ MapHolds(Archived, Committed, rows)
        BY <1>1 DEF Ledger, RowMap
    <2>7. CASE rows[o] = NoRow
        BY <2>4, <2>5, <2>6, <2>7 DEF MapHolds
    <2>8. CASE rows[o] # NoRow
        <3>1. PICK h \in Committed : rows[o] = Row(Archived, h, o)
            BY <2>1, <2>6, <2>8 DEF MapRight
        <3>2. ~SpentIn(Archived, o) /\ h \in CreatedAt(o)
            BY <2>4, <2>6, <2>8, <3>1 DEF MapRight
        <3>3. \A g \in CreatedAt(o) : g = h
            BY <2>1, <2>4, <2>8, <3>1 DEF Lawful
        <3> QED
            BY <2>3, <2>5, <3>1, <3>2, <3>3
    <2> QED
        BY <2>7, <2>8
<1> QED
    BY <1>1, Invariant, LedgerInvariant, PTL

\* A spend of the window points at an output of the history, in a file that
\* is there (lookup values, mark_spent_outputs).
LEMMA SpendTarget ==
    ASSUME IInv, Ledger, InWindow, NEW s \in PendingSpends
    PROVE  \E k \in 1..Len(pending) : \E o \in Inputs[pending[k].block] :
             /\ s.spent_height = Height[pending[k].block]
             /\ s.height \in DOMAIN History
             /\ s.index \in 1..Len(Indexed[History[s.height].block])
             /\ Indexed[History[s.height].block][s.index].outpoint = o
<1>1. PICK k \in 1..Len(pending) :
          s \in {[height |-> t.ref.height, index |-> t.ref.index,
                 spent_height |-> Height[pending[k].block]] : t \in pending[k].spent}
    BY DEF PendingSpends
<1>2. PICK t \in pending[k].spent :
          s = [height |-> t.ref.height, index |-> t.ref.index,
               spent_height |-> Height[pending[k].block]]
    BY <1>1
<1>3. pending[k] \in AppliedBlock
    BY PendingHeights
<1>4. t.ref # NoRow /\ t.outpoint \in Outpoint
    BY <1>3, NoValueAssumption DEF AppliedBlock
<1>5. t.outpoint \in Inputs[pending[k].block]
      /\ \E h \in DOMAIN History : t.ref = Row(History, h, t.outpoint)
    BY DEF Ledger, PendingSpent, SpendsOf
<1>6. PICK h \in DOMAIN History : t.ref = Row(History, h, t.outpoint)
    BY <1>5
<1>7. History[h].block \in Block /\ History[h].first_uid \in Nat /\ Height[History[h].block] = h
    BY Histories DEF IsHistory
<1>8. PICK i \in 1..Len(Indexed[History[h].block]) :
          /\ Indexed[History[h].block][i].outpoint = t.outpoint
          /\ t.ref = [uid |-> History[h].first_uid + Indexed[History[h].block][i].slot,
                      height |-> Height[History[h].block], index |-> i]
    BY <1>4, <1>6, <1>7, RowOfCreated, SMTT(30) DEF Row
<1>9. s.height = h /\ s.index = i /\ s.spent_height = Height[pending[k].block]
    BY <1>2, <1>7, <1>8
<1> QED
    BY <1>5, <1>8, <1>9

\* In a state of the invariant every pointer resolves.
LEMMA LedgerResolves ==
    ASSUME IInv, Ledger
    PROVE  PointersResolve
<1> SUFFICES ASSUME pc = "mark", NEW s \in PendingSpends
             PROVE  files[s.height] # NoFile /\ s.index \in DOMAIN files[s.height].spent_height
    BY DEF PointersResolve
<1>1. InWindow
    BY DEF InWindow
<1>2. s.height \in DOMAIN History /\ s.index \in 1..Len(Indexed[History[s.height].block])
    BY <1>1, SpendTarget
<1>3. files[s.height] # NoFile /\ History[s.height].block = files[s.height].block
    BY <1>2, WindowFiles, EntryFields
<1>4. s.height \in Heights
    BY <1>2, Histories DEF IsHistory
<1> QED
    BY <1>2, <1>3, <1>4 DEF Ledger, FilesListed

\* No pointer that mark_spent_outputs follows is dangling: its file exists
\* and has the output, whatever crashes and reorganisations came before.
THEOREM PointersAlwaysResolve == Spec => []PointersResolve
BY LedgerResolves, Invariant, LedgerInvariant, PTL

-----------------------------------------------------------------------------
(* What is published when reorganisations are no deeper than               *)
(* --finality-depth: the archive stays on the node's chain, both halves of *)
(* cut-through are exact, and to a reader at the committed tip the archive *)
(* is LightArchive.                                                        *)

\* The height the node cannot reorganise any more.
Final == FinalizedTip(Len(node) - 1)

\* A window ends at a final height; every block applied or decoded is final
\* and on the node's chain.
OnNode ==
    /\ InWindow => flush_end <= Final
    /\ \A h \in DOMAIN History : h <= Final /\ OnChain(History[h].block, node)
    /\ \A b \in got : Height[b] <= Final /\ OnChain(b, node)

\* The outpoint of output i of the file of height h.
OutpointAt(h, i) == Indexed[files[h].block][i].outpoint

\* Heights whose file belongs to the history: the committed ones and those
\* written in this window.
Current ==
    IF pc \in {"write", "mark"} THEN {h \in DOMAIN History : h < next + wr} ELSE Committed

\* A spent height in a current file, left by this window or by one that a
\* crash cut short, is that of the final block that spends the output.
MarksTrue ==
    \A h \in Current : \A i \in 1..Len(Indexed[files[h].block]) :
        files[h].spent_height[i] # Unspent =>
            /\ files[h].spent_height[i] \in 0..Final
            /\ OutpointAt(h, i) \in Inputs[node[files[h].spent_height[i] + 1]]

\* Committed spends are marked, and those of the window as far as the
\* rewriting has come.
MarksMade ==
    /\ \A h \in Committed : \A i \in 1..Len(Indexed[files[h].block]) :
           SpentIn(Archived, OutpointAt(h, i)) => files[h].spent_height[i] # Unspent
    /\ pc = "mark" => \A s \in PendingSpends : s.height \notin marks =>
           files[s.height].spent_height[s.index] # Unspent

Published == OnNode /\ MarksTrue /\ MarksMade
-----------------------------------------------------------------------------
(* The node's chain *)

\* Finalized heights are heights of the chain, and a longer chain has more.
LEMMA FinalHeights ==
    ASSUME NEW n \in Nat, NEW m \in Nat, n <= m
    PROVE  /\ FinalizedTip(n) \in Nat /\ FinalizedTip(n) <= n
           /\ FinalizedTip(n) <= FinalizedTip(m)
BY ConstantsAssumption DEF FinalizedTip

\* The finalized height is a height of the chain.
LEMMA FinalType ==
    ASSUME TypeOK
    PROVE  /\ Len(node) - 1 \in Nat /\ Final \in Nat /\ Final <= Len(node) - 1
           /\ \A h \in 0..Final : h + 1 \in 1..Len(node)
<1>1. Len(node) \in Nat \ {0}
    BY NodeType
<1>2. Len(node) - 1 \in Nat
    BY <1>1
<1>3. Final \in Nat /\ Final <= Len(node) - 1
    BY <1>2, FinalHeights DEF Final
<1> QED
    BY <1>1, <1>2, <1>3

\* A reorganisation keeps the final blocks.
LEMMA FinalStays ==
    ASSUME ReorgDepth <= FinalityDepth, TypeOK, NEW c \in Chains, NodeAdopts(c)
    PROVE  /\ Final <= Final'
           /\ \A h \in 0..Final : h + 1 \in 1..Len(node') /\ node'[h + 1] = node[h + 1]
<1>1. Len(node) - 1 \in Nat /\ Len(c) > Len(node) /\ node' = c /\ Len(c) \in Nat /\ Len(node) \in Nat
    BY FinalType, NodeType, ChainAssumption, LenProperties DEF NodeAdopts
<1>2. PICK n \in 1..Len(node) : n >= Len(node) - ReorgDepth /\ CommonPrefix(c, node, n)
    BY DEF NodeAdopts
<1>3. Final <= Final'
    BY <1>1, FinalHeights DEF Final
<1>4. ASSUME NEW h \in 0..Final PROVE h + 1 \in 1..n
    <2>1. CASE Len(node) - 1 >= FinalityDepth
        BY <1>1, <1>2, <2>1, ConstantsAssumption DEF Final, FinalizedTip
    <2>2. CASE ~(Len(node) - 1 >= FinalityDepth)
        BY <1>1, <1>2, <2>2, ConstantsAssumption DEF Final, FinalizedTip
    <2> QED
        BY <2>1, <2>2
<1>5. \A i \in 1..n : c[i] = node[i]
    BY <1>2 DEF CommonPrefix
<1>6. \A h \in 0..Final : h + 1 \in 1..Len(c)
    BY <1>1, <1>4
<1> QED
    BY <1>1, <1>3, <1>4, <1>5, <1>6

\* Steps that add nothing to the history or to the decoded blocks.
LEMMA OnNodeFrame ==
    ASSUME OnNode, node' = node, InWindow' => flush_end' <= Final, got' \subseteq got,
           \A h \in DOMAIN History' : h \in DOMAIN History /\ History'[h] = History[h]
    PROVE  OnNode'
BY DEF OnNode, Final

\* A reorganisation within the finality depth leaves final blocks alone.
LEMMA AdoptOnNode ==
    ASSUME ReorgDepth <= FinalityDepth, IInv, OnNode, NEW c \in Chains, NodeAdopts(c)
    PROVE  OnNode'
<1>1. TypeOK /\ UNCHANGED <<files, tip, pc, next, pending, got, flush_end>>
    BY DEF IInv, NodeAdopts, disk, mem
<1>2. /\ Final <= Final' /\ Final \in Nat
      /\ \A h \in 0..Final : h + 1 \in 1..Len(node') /\ node'[h + 1] = node[h + 1]
    BY <1>1, FinalStays, FinalType
<1>3. History' = History /\ InWindow' = InWindow
    BY <1>1 DEF History, Archived, Committed, InWindow
<1>4. Final' \in Int /\ flush_end \in Int
    <2>1. node' \in Chains
        BY DEF NodeAdopts
    <2>2. Len(node') \in Nat
        BY <2>1, ChainAssumption, LenProperties
    <2> QED
        BY <1>1, <2>2, ConstantsAssumption DEF Final, FinalizedTip, TypeOK, Heights
<1>5. ASSUME NEW b \in Block, Height[b] <= Final, OnChain(b, node)
      PROVE  Height[b] <= Final' /\ OnChain(b, node')
    <2>1. Height[b] \in 0..Final
        BY <1>2, <1>5, BlockAssumption DEF Heights
    <2> QED
        BY <1>2, <1>4, <1>5, <2>1 DEF OnChain
<1>6. \A h \in DOMAIN History : History[h].block \in Block /\ Height[History[h].block] = h
    BY Histories DEF IsHistory
<1>7. \A h \in DOMAIN History : h <= Final' /\ OnChain(History[h].block, node')
    BY <1>5, <1>6 DEF OnNode
<1>8. \A b \in got : Height[b] <= Final' /\ OnChain(b, node')
    BY <1>1, <1>5 DEF OnNode, TypeOK
<1>9. InWindow => flush_end <= Final'
    BY <1>2, <1>4 DEF OnNode
<1> QED
    BY <1>1, <1>3, <1>7, <1>8, <1>9 DEF OnNode

\* A window ends at a final height, although height and hash are read at
\* different moments.
LEMMA OpenOnNode ==
    ASSUME IInv, OnNode, OpenWindow
    PROVE  OnNode'
<1>1. /\ best + 1 <= Len(node) /\ next <= FinalizedTip(best) /\ node' = node /\ got' = got
      /\ flush_end' = next + Minimum(FinalizedTip(best) - next + 1, FlushBlocks) - 1
    BY DEF OpenWindow
<1>2. TypeOK /\ best \in Nat /\ next \in Nat /\ Len(node) - 1 \in Nat
    BY FinalType DEF IInv, TypeOK, Heights
<1>3. FinalizedTip(best) <= Final /\ FinalizedTip(best) \in Nat /\ Final \in Nat
    <2>1. Len(node) \in Nat
        BY <1>2, NodeType
    <2>2. best <= Len(node) - 1
        BY <1>1, <1>2, <2>1
    <2>3. FinalizedTip(best) <= FinalizedTip(Len(node) - 1) /\ FinalizedTip(best) \in Nat
        BY <1>2, <2>2, FinalHeights
    <2> QED
        BY <1>2, <2>3, FinalType DEF Final
<1>4. flush_end' <= Final
    BY <1>1, <1>2, <1>3, ConstantsAssumption DEF Minimum
<1> QED
    BY <1>1, <1>4, OpenHistory, OnNodeFrame

\* A fetched block of the window is final.
LEMMA FetchOnNode ==
    ASSUME IInv, OnNode, NEW h \in Heights, FetchBlock(h)
    PROVE  OnNode'
<1>1. /\ pc = "fetch" /\ h \in ChunkHeights /\ h + 1 <= Len(node) /\ got' = got \cup {node[h + 1]}
      /\ UNCHANGED <<node, files, tip, pc, next, pending, flush_end>>
    BY DEF FetchBlock, disk
<1>2. TypeOK /\ h \in Nat /\ Len(node) \in Nat
    BY NodeType DEF IInv, Heights
<1>3. h <= Final /\ Final \in Nat
    <2>1. h <= flush_end
        BY <1>1, <1>2, ConstantsAssumption DEF ChunkHeights, Minimum, TypeOK, Heights
    <2>2. flush_end <= Final /\ Final \in Nat /\ flush_end \in Nat
        BY <1>1, <1>2, FinalType DEF OnNode, InWindow, TypeOK, Heights
    <2> QED
        BY <1>2, <2>1, <2>2
<1>4. h + 1 \in 1..Len(node)
    BY <1>1, <1>2
<1>5. Height[node[h + 1]] = h /\ OnChain(node[h + 1], node)
    BY <1>2, <1>4, NodeType DEF OnChain
<1>6. History' = History /\ InWindow' = InWindow
    BY <1>1, HistoryFrame DEF InWindow
<1> QED
    BY <1>1, <1>3, <1>5, <1>6 DEF OnNode, Final

\* Applying moves a decoded block into the history.
LEMMA ApplyOnNode ==
    ASSUME IInv, Ledger, OnNode, NEW b \in Block, ApplyBlock(b)
    PROVE  OnNode'
<1>1. /\ b \in got /\ got' = got \ {b} /\ node' = node /\ flush_end' = flush_end
      /\ InWindow /\ InWindow' /\ Height[b] = chunk
    BY DEF ApplyBlock, InWindow
<1>2. Extends(History', History, chunk) /\ History'[chunk] = Entry(b, next_uid + 1)
    BY ApplyHistory
<1>3. History'[chunk].block = b
    BY <1>2, EntryFields
<1>4. \A h \in DOMAIN History' : h = chunk \/ (h \in DOMAIN History /\ History'[h] = History[h])
    BY <1>2 DEF Extends
<1> QED
    BY <1>1, <1>3, <1>4 DEF OnNode, Final

\* Inside a window most steps leave the history alone.
LEMMA KeptHistory ==
    ASSUME IInv, ResolveChunk \/ EndChunk \/ WriteFile \/ StartMarking
                 \/ (\E h \in Heights : FetchBlock(h)) \/ (\E h \in Heights : MarkFile(h))
    PROVE  /\ InWindow /\ InWindow'
           /\ Committed' = Committed /\ Archived' = Archived /\ History' = History
           /\ UNCHANGED <<node, flush_end, next, pending, tip>>
<1>1. InWindow /\ InWindow' /\ UNCHANGED <<node, flush_end, next, pending, tip>>
    BY DEF ResolveChunk, ChunkFetched, EndChunk, WriteFile, StartMarking, FetchBlock, MarkFile,
           InWindow, disk
<1>2. \A h \in Committed : h \in Heights /\ files[h] # NoFile
    BY CommittedFiles
<1>3. \A h \in Committed : files'[h].block = files[h].block /\ files'[h].first_uid = files[h].first_uid
    <2>1. CASE ResolveChunk \/ EndChunk \/ StartMarking \/ (\E h \in Heights : FetchBlock(h))
        BY <2>1 DEF ResolveChunk, EndChunk, StartMarking, FetchBlock, disk
    <2>2. CASE \E h \in Heights : MarkFile(h)
        BY <1>2, <2>2, MarkKeepsEntries
    <2>3. CASE WriteFile
        <3>1. wr + 1 \in 1..Len(pending)
            <4>1. Len(pending) \in Nat /\ wr \in Nat
                BY LenProperties DEF IInv, TypeOK
            <4> QED
                BY <2>3, <4>1 DEF WriteFile
        <3>2. Height[pending[wr + 1].block] \notin Committed
            BY <1>1, <3>1, PendingHeights
        <3> QED
            BY <1>2, <2>3, <3>2 DEF WriteFile, IInv, TypeOK
    <2> QED
        BY <2>1, <2>2, <2>3
<1> QED
    BY <1>1, <1>3, HistoryFrame

\* Every step keeps what is indexed on the node's chain.
LEMMA OnNodeStep ==
    ASSUME ReorgDepth <= FinalityDepth, IInv, Ledger, OnNode, [Next]_vars
    PROVE  OnNode'
<1>1. CASE UNCHANGED vars
    BY <1>1 DEF vars, disk, mem, OnNode, InWindow, Final, History, Archived, Committed
<1>2. ASSUME NEW c \in Chains, NodeAdopts(c) PROVE OnNode'
    BY <1>2, AdoptOnNode
<1>3. CASE Start \/ PollHeight \/ CaughtUp \/ TipChanged \/ RejectChunk \/ TruncateManifest
           \/ WriteManifest \/ Crash
    <2>1. ~InWindow' /\ node' = node /\ UNCHANGED <<files, tip>> /\ got' \subseteq got
        BY <1>3 DEF Start, PollHeight, CaughtUp, TipChanged, RejectChunk, TruncateManifest,
                    WriteManifest, Crash, LoseMemory, InWindow, disk, mem
    <2>2. History' = Archived
        BY <2>1, QuietHistory
    <2>3. \A h \in DOMAIN History' : h \in DOMAIN History /\ History'[h] = History[h]
        BY <2>2, Histories
    <2> QED
        BY <2>1, <2>3, OnNodeFrame
<1>4. CASE OpenWindow
    BY <1>4, OpenOnNode
<1>5. ASSUME NEW h \in Heights, FetchBlock(h) PROVE OnNode'
    BY <1>5, FetchOnNode
<1>6. ASSUME NEW b \in Block, ApplyBlock(b) PROVE OnNode'
    BY <1>6, ApplyOnNode
<1>7. CASE ResolveChunk \/ EndChunk \/ WriteFile \/ StartMarking \/ (\E h \in Heights : MarkFile(h))
    <2>1. InWindow /\ InWindow' /\ History' = History /\ UNCHANGED <<node, flush_end>>
        BY <1>7, KeptHistory
    <2>2. got' = got
        BY <1>7 DEF ResolveChunk, EndChunk, WriteFile, StartMarking, MarkFile
    <2> QED
        BY <2>1, <2>2 DEF OnNode, Final
<1>8. CASE Commit
    <2>1. UNCHANGED <<node, got>> /\ ~InWindow'
        BY <1>8 DEF Commit, mem, InWindow
    <2> QED
        BY <1>8, <2>1, CommitHistory, OnNodeFrame
<1> QED
    BY <1>1, <1>2, <1>3, <1>4, <1>5, <1>6, <1>7, <1>8 DEF Next, Indexer
-----------------------------------------------------------------------------
(* The marks *)

\* The committed heights are current, and all heights once all is written.
LEMMA CurrentShape ==
    ASSUME IInv
    PROVE  /\ \A h \in Committed : h \in Current
           /\ pc \notin {"write", "mark"} => Current = Committed
           /\ pc \in {"write", "mark"} => Current = EmitStart..(next + wr - 1)
           /\ pc = "mark" => Current = DOMAIN History
           /\ \A h \in Current : h \in DOMAIN History /\ h \in Heights
<1>1. CASE pc \notin {"write", "mark"}
    BY <1>1, Histories DEF Current, IsHistory
<1>2. CASE pc \in {"write", "mark"}
    <2>1. /\ EmitStart \in Nat /\ next \in Nat /\ EmitStart <= next /\ Len(pending) \in Nat
          /\ Committed = EmitStart..(next - 1)
          /\ DOMAIN History = EmitStart..(next + Len(pending) - 1)
        BY <1>2, WindowShape DEF InWindow
    <2>2. wr \in 0..Len(pending)
        BY DEF IInv, TypeOK
    <2>3. Current = EmitStart..(next + wr - 1)
        BY <1>2, <2>1, <2>2 DEF Current
    <2>4. pc = "mark" => wr = Len(pending)
        BY DEF IInv, StagesInOrder
    <2>5. \A h \in DOMAIN History : h \in Heights
        BY Histories DEF IsHistory
    <2> QED
        BY <1>2, <2>1, <2>2, <2>3, <2>4, <2>5
<1> QED
    BY <1>1, <1>2

\* Steps that keep the archive and do not write to current files.
LEMMA MarksFrame ==
    ASSUME IInv, MarksTrue, MarksMade, node' = node, pc' # "mark",
           Committed' = Committed, Archived' = Archived, Current' \subseteq Current,
           \A h \in Current : files'[h] = files[h]
    PROVE  MarksTrue' /\ MarksMade'
<1>1. \A h \in Committed : h \in Current
    BY CurrentShape
<1>2. \A h \in Current : \A i : OutpointAt(h, i)' = Indexed[files[h].block][i].outpoint
    BY DEF OutpointAt
<1>3. MarksTrue'
    BY <1>2 DEF MarksTrue, OutpointAt, Final
<1>4. MarksMade'
    BY <1>1, <1>2 DEF MarksMade, OutpointAt
<1> QED
    BY <1>3, <1>4

\* So it leaves the heights at which they are spent.
LEMMA AdoptMarks ==
    ASSUME ReorgDepth <= FinalityDepth, IInv, MarksTrue, MarksMade, NEW c \in Chains, NodeAdopts(c)
    PROVE  MarksTrue' /\ MarksMade'
<1>1. TypeOK /\ UNCHANGED <<files, tip, pc, next, pending, wr, marks>>
    BY DEF IInv, NodeAdopts, disk, mem
<1>2. /\ Final <= Final' /\ Final \in Nat /\ Final' \in Int
      /\ \A h \in 0..Final : h + 1 \in 1..Len(node') /\ node'[h + 1] = node[h + 1]
    <2>1. Len(node') \in Nat
        BY ChainAssumption, LenProperties DEF NodeAdopts
    <2>2. Final' \in Int
        BY <2>1, ConstantsAssumption DEF Final, FinalizedTip
    <2> QED
        BY <1>1, <2>2, FinalStays, FinalType
<1>3. /\ History' = History /\ Committed' = Committed /\ Archived' = Archived
      /\ Current' = Current /\ PendingSpends' = PendingSpends
    BY <1>1 DEF History, Archived, Committed, InWindow, Current, PendingSpends
<1>4. \A h \in 0..Final : h \in 0..Final'
    BY <1>2
<1>5. MarksTrue'
    BY <1>1, <1>2, <1>3, <1>4 DEF MarksTrue, OutpointAt
<1>6. MarksMade'
    BY <1>1, <1>3 DEF MarksMade, OutpointAt
<1> QED
    BY <1>5, <1>6

\* A new file has no mark.
LEMMA WriteMarks ==
    ASSUME IInv, MarksTrue, MarksMade, WriteFile
    PROVE  MarksTrue' /\ MarksMade'
<1> DEFINE a == pending[wr + 1]
<1>1. /\ pc = "write" /\ pc' = "write" /\ wr' = wr + 1 /\ node' = node
      /\ files' = [files EXCEPT ![Height[a.block]] = FileOf(a)]
    BY DEF WriteFile
<1>2. /\ Committed' = Committed /\ Archived' = Archived /\ History' = History /\ next' = next
      /\ InWindow
    BY KeptHistory
<1>3. Len(pending) \in Nat /\ wr \in Nat /\ wr + 1 \in 1..Len(pending) /\ next \in Nat
      /\ files \in [Heights -> Stored \cup {NoFile}]
    <2>1. Len(pending) \in Nat /\ wr \in Nat
        BY LenProperties DEF IInv, TypeOK
    <2> QED
        BY <2>1 DEF WriteFile, IInv, TypeOK
<1>4. Height[a.block] = next + wr /\ Height[a.block] \in Heights /\ Height[a.block] \notin Committed
    <2>1. /\ Height[a.block] = next + (wr + 1) - 1 /\ Height[a.block] \in Heights
          /\ Height[a.block] \notin Committed
        BY <1>2, <1>3, PendingHeights
    <2> QED
        BY <1>3, <2>1
<1>5. /\ Current = EmitStart..(next + wr - 1)
      /\ \A h \in Committed : h \in Current
      /\ \A h \in Current : h \in Heights
    BY <1>1, CurrentShape
<1>6. \A h \in Current' : h \in Current \/ h = Height[a.block]
    <2>1. Current' = {h \in DOMAIN History : h < next + (wr + 1)}
        BY <1>1, <1>2 DEF Current
    <2>2. Current = {h \in DOMAIN History : h < next + wr}
        BY <1>1 DEF Current
    <2>3. \A h \in DOMAIN History : h \in Nat
        BY Histories, ConstantsAssumption DEF IsHistory, Heights
    <2> QED
        BY <1>3, <1>4, <2>1, <2>2, <2>3
<1>7. EmitStart \in Nat
    BY ConstantsAssumption DEF Heights
<1> HIDE DEF a
<1>8. \A h \in Current : files'[h] = files[h]
    BY <1>1, <1>3, <1>4, <1>5, <1>7
<1>9. files'[Height[a.block]] = FileOf(a)
    BY <1>1, <1>3, <1>4
<1>10. \A i \in 1..Len(Indexed[FileOf(a).block]) : FileOf(a).spent_height[i] = Unspent
    BY DEF FileOf
<1>11. MarksTrue'
    <2> SUFFICES ASSUME NEW h \in Current', NEW i \in 1..Len(Indexed[files'[h].block]),
                        files'[h].spent_height[i] # Unspent
                 PROVE  /\ files'[h].spent_height[i] \in 0..Final'
                        /\ OutpointAt(h, i)' \in Inputs[node'[files'[h].spent_height[i] + 1]]
        BY DEF MarksTrue
    <2>1. CASE h \in Current
        BY <1>1, <1>8, <2>1 DEF MarksTrue, OutpointAt, Final
    <2>2. CASE h = Height[a.block]
        BY <1>9, <1>10, <2>2
    <2> QED
        BY <1>6, <2>1, <2>2
<1>12. MarksMade'
    BY <1>1, <1>2, <1>5, <1>8 DEF MarksMade, OutpointAt
<1> QED
    BY <1>11, <1>12

\* All of the window is to be rewritten.
LEMMA StartMarkingMarks ==
    ASSUME IInv, MarksTrue, MarksMade, StartMarking
    PROVE  MarksTrue' /\ MarksMade'
<1>1. /\ pc = "write" /\ pc' = "mark" /\ marks' = FilesToMark
      /\ UNCHANGED <<node, files, wr, pending>>
    BY DEF StartMarking, disk
<1>2. Committed' = Committed /\ Archived' = Archived /\ History' = History /\ next' = next
    BY KeptHistory
<1>3. Current' = Current /\ PendingSpends' = PendingSpends
    BY <1>1, <1>2 DEF Current, PendingSpends
<1>4. MarksTrue'
    BY <1>1, <1>3 DEF MarksTrue, OutpointAt, Final
<1>5. \A s \in PendingSpends : s.height \in FilesToMark
    BY DEF FilesToMark
<1>6. MarksMade'
    BY <1>1, <1>2, <1>3, <1>5 DEF MarksMade, OutpointAt
<1> QED
    BY <1>4, <1>6

\* What a rewrite does to one spent height.
LEMMA MarkedHeight ==
    ASSUME NEW file \in Stored, NEW h, NEW i \in DOMAIN file.spent_height
    PROVE  \/ /\ ~ \E s \in PendingSpends : s.height = h /\ s.index = i
              /\ Marked(file, h).spent_height[i] = file.spent_height[i]
           \/ \E t \in PendingSpends : /\ t.height = h /\ t.index = i
                                       /\ Marked(file, h).spent_height[i] = t.spent_height
<1> DEFINE t == CHOOSE s \in PendingSpends : s.height = h /\ s.index = i
<1>1. Marked(file, h).spent_height[i] =
          IF \E s \in PendingSpends : s.height = h /\ s.index = i
          THEN t.spent_height ELSE file.spent_height[i]
    BY DEF Marked, Stored
<1>2. CASE \E s \in PendingSpends : s.height = h /\ s.index = i
    <2>1. t \in PendingSpends /\ t.height = h /\ t.index = i
        BY <1>2
    <2>2. Marked(file, h).spent_height[i] = t.spent_height
        BY <1>1, <1>2
    <2> HIDE DEF t
    <2> QED
        BY <2>1, <2>2
<1>3. CASE ~ \E s \in PendingSpends : s.height = h /\ s.index = i
    BY <1>1, <1>3
<1> QED
    BY <1>2, <1>3

\* A pending block is final and on the node's chain.
LEMMA PendingOnNode ==
    ASSUME IInv, OnNode, InWindow, NEW k \in 1..Len(pending)
    PROVE  /\ Height[pending[k].block] \in 0..Final
           /\ node[Height[pending[k].block] + 1] = pending[k].block
<1>1. /\ next + k - 1 \in DOMAIN History /\ Height[pending[k].block] = next + k - 1
      /\ History[next + k - 1] = Entry(pending[k].block, pending[k].first_uid)
    BY Histories
<1>2. History[next + k - 1].block = pending[k].block
    BY <1>1, EntryFields
<1>3. next + k - 1 <= Final /\ OnChain(pending[k].block, node)
    BY <1>1, <1>2 DEF OnNode
<1>4. Height[pending[k].block] \in Nat /\ Final \in Nat
    BY PendingHeights, FinalType DEF IInv, Heights
<1> QED
    BY <1>1, <1>3, <1>4 DEF OnChain

\* Each rewritten spent height is that of a spender; none is lost.
LEMMA MarkMarks ==
    ASSUME IInv, Ledger, OnNode, MarksTrue, MarksMade, NEW h \in Heights, MarkFile(h)
    PROVE  MarksTrue' /\ MarksMade'
<1>1. /\ pc = "mark" /\ pc' = "mark" /\ marks' = marks \ {h} /\ InWindow
      /\ UNCHANGED <<node, wr, pending>>
    BY DEF MarkFile, InWindow
<1>2. Committed' = Committed /\ Archived' = Archived /\ History' = History /\ next' = next
    BY KeptHistory
<1>3. Current' = Current /\ PendingSpends' = PendingSpends /\ Current = DOMAIN History
    BY <1>1, <1>2, CurrentShape DEF Current, PendingSpends
<1>4. \A k \in Current : k \in Heights /\ files[k] # NoFile /\ files[k] \in Stored
                         /\ files[k].block = History[k].block
                         /\ DOMAIN files[k].spent_height = 1..Len(Indexed[files[k].block])
    <2>1. \A k \in Current : k \in Heights
        BY CurrentShape
    <2>2. \A k \in Current : files[k] # NoFile /\ files[k].block = History[k].block
        BY <1>1, <1>3, WindowFiles, EntryFields
    <2> QED
        BY <2>1, <2>2 DEF Ledger, FilesListed, IInv, TypeOK
<1>5. \A k \in Current : files'[k].block = files[k].block /\ (k # h => files'[k] = files[k])
    BY <1>4, MarkKeepsEntries
<1>6. ASSUME NEW k \in Current, NEW i \in 1..Len(Indexed[files[k].block])
      PROVE  \/ /\ files'[k].spent_height[i] = files[k].spent_height[i]
                /\ k = h => ~ \E s \in PendingSpends : s.height = h /\ s.index = i
             \/ \E t \in PendingSpends : /\ t.height = k /\ t.index = i
                                         /\ files'[k].spent_height[i] = t.spent_height
    <2>1. CASE k # h
        BY <1>5, <2>1
    <2>2. CASE k = h
        <3>1. files'[h] = Marked(files[h], h)
            BY <1>4, <2>2 DEF MarkFile, IInv, TypeOK
        <3> QED
            BY <1>4, <2>2, <3>1, MarkedHeight
    <2> QED
        BY <2>1, <2>2
<1>7. \A t \in PendingSpends : t.spent_height # Unspent
    BY PendingSpendsType, ConstantsAssumption DEF IInv, Heights, Unspent
<1>8. MarksTrue'
    <2> SUFFICES ASSUME NEW k \in Current, NEW i \in 1..Len(Indexed[files[k].block]),
                        files'[k].spent_height[i] # Unspent
                 PROVE  /\ files'[k].spent_height[i] \in 0..Final
                        /\ OutpointAt(k, i) \in Inputs[node[files'[k].spent_height[i] + 1]]
        BY <1>1, <1>3, <1>5 DEF MarksTrue, OutpointAt, Final
    <2>1. CASE files'[k].spent_height[i] = files[k].spent_height[i]
        BY <2>1 DEF MarksTrue
    <2>2. ASSUME NEW t \in PendingSpends, t.height = k, t.index = i,
                 files'[k].spent_height[i] = t.spent_height
          PROVE  /\ t.spent_height \in 0..Final
                 /\ OutpointAt(k, i) \in Inputs[node[t.spent_height + 1]]
        <3>1. PICK p \in 1..Len(pending) : \E o \in Inputs[pending[p].block] :
                  /\ t.spent_height = Height[pending[p].block]
                  /\ Indexed[History[k].block][i].outpoint = o
            BY <1>1, <2>2, SpendTarget
        <3>2. /\ Height[pending[p].block] \in 0..Final
              /\ node[Height[pending[p].block] + 1] = pending[p].block
            BY <1>1, PendingOnNode
        <3> QED
            BY <1>4, <3>1, <3>2 DEF OutpointAt
    <2> QED
        BY <1>6, <2>1, <2>2
<1>9. \A k \in Committed : \A i \in 1..Len(Indexed[files[k].block]) :
          SpentIn(Archived, OutpointAt(k, i)) => files'[k].spent_height[i] # Unspent
    BY <1>6, <1>7, CurrentShape DEF MarksMade
<1>10. ASSUME NEW s \in PendingSpends, s.height \notin marks \ {h}
       PROVE  files'[s.height].spent_height[s.index] # Unspent
    <2>1. s.height \in Current /\ s.index \in 1..Len(Indexed[files[s.height].block])
        BY <1>1, <1>3, <1>4, SpendTarget
    <2>2. CASE s.height = h
        BY <1>6, <1>7, <2>1, <2>2
    <2>3. CASE s.height # h
        BY <1>1, <1>5, <1>10, <2>1, <2>3 DEF MarksMade
    <2> QED
        BY <2>2, <2>3
<1>11. MarksMade'
    <2>1. \A k \in Committed : \A i \in 1..Len(Indexed[files'[k].block]) :
              SpentIn(Archived, OutpointAt(k, i)') => files'[k].spent_height[i] # Unspent
        BY <1>5, <1>9, CurrentShape DEF OutpointAt
    <2> QED
        BY <1>1, <1>2, <1>3, <1>10, <2>1 DEF MarksMade
<1> QED
    BY <1>8, <1>11

\* A spend of a pending block is one of the spends to mark, at the place of
\* the output it spends.
LEMMA SpendListed ==
    ASSUME IInv, Ledger, InWindow, NEW k \in 1..Len(pending),
           NEW h \in DOMAIN History, NEW i \in 1..Len(Indexed[History[h].block]),
           Indexed[History[h].block][i].outpoint \in Inputs[pending[k].block]
    PROVE  \E s \in PendingSpends : s.height = h /\ s.index = i
<1> DEFINE b == History[h].block
           f == History[h].first_uid
           o == Indexed[b][i].outpoint
           r == CreatedRows(b, f)[o]
<1>1. b \in Block /\ f \in Nat /\ Height[b] = h
    BY Histories DEF IsHistory
<1>2. o \in Outpoint
    BY PendingHeights, BlockAssumption DEF AppliedBlock
<1>3. Creates(b, o)
    BY DEF Creates
<1>4. r = Row(History, h, o) /\ i \in 1..Len(Indexed[b]) /\ Indexed[b][i].outpoint = o
    BY DEF Row
<1> HIDE DEF b, f, o
<1>5. r # NoRow
    BY <1>1, <1>2, <1>3, RowOfCreated
<1>6. PICK j \in 1..Len(Indexed[b]) :
          /\ Indexed[b][j].outpoint = o
          /\ r = [uid |-> f + Indexed[b][j].slot, height |-> Height[b], index |-> j]
    BY <1>1, <1>2, <1>5, RowOfCreated
<1> HIDE DEF r
<1>6a. j = i
    BY <1>1, <1>4, <1>6, ConsensusAssumption
<1>7. r.height = h /\ r.index = i
    BY <1>1, <1>6, <1>6a
<1>8. [outpoint |-> o, ref |-> r] \in pending[k].spent
    BY <1>4, <1>5 DEF Ledger, PendingSpent, SpendsOf, o, b
<1>9. [height |-> r.height, index |-> r.index, spent_height |-> Height[pending[k].block]]
          \in {[height |-> t.ref.height, index |-> t.ref.index,
                spent_height |-> Height[pending[k].block]] : t \in pending[k].spent}
    <2> DEFINE t == [outpoint |-> o, ref |-> r]
    <2>1. t \in pending[k].spent /\ t.ref = r
        BY <1>8
    <2> HIDE DEF t
    <2> QED
        BY <2>1
<1>10. [height |-> r.height, index |-> r.index, spent_height |-> Height[pending[k].block]]
           \in PendingSpends
    BY <1>9 DEF PendingSpends
<1> QED
    BY <1>7, <1>10

\* Everything the window spends is marked before it is committed.
LEMMA CommitMarks ==
    ASSUME IInv, Ledger, MarksTrue, MarksMade, Commit
    PROVE  MarksTrue' /\ MarksMade'
<1>1. /\ pc = "mark" /\ pc' = "manifest" /\ marks = {} /\ InWindow /\ UNCHANGED <<node, files>>
    BY DEF Commit, InWindow
<1>2. Committed' = DOMAIN History /\ Archived' = History /\ Current = DOMAIN History
      /\ \A h \in DOMAIN History : files[h].block = History[h].block
    BY <1>1, CommitHistory, CurrentShape
<1>3. Current' = Current
    BY <1>1, <1>2 DEF Current
<1>4. MarksTrue'
    BY <1>1, <1>3 DEF MarksTrue, OutpointAt, Final
<1>5. ASSUME NEW h \in DOMAIN History, NEW i \in 1..Len(Indexed[files[h].block]),
             SpentIn(History, OutpointAt(h, i))
      PROVE  files[h].spent_height[i] # Unspent
    <2> DEFINE o == OutpointAt(h, i)
               b == History[h].block
    <2>1. PICK g \in DOMAIN History : o \in Inputs[History[g].block]
        BY <1>5 DEF SpentIn
    <2>2. b = files[h].block /\ b \in Block /\ History[h].first_uid \in Nat /\ h \in Nat
          /\ g \in Nat /\ History[g].block \in Block /\ o = Indexed[b][i].outpoint
        BY <1>2, Histories DEF IsHistory, Heights, OutpointAt
    <2>3. o \in Outpoint
        BY <2>1, <2>2, BlockAssumption
    <2>4. CASE g \in Committed
        <3>1. Creates(b, o)
            BY <2>2 DEF Creates
        <3>2. Row(History, h, o) # NoRow
            BY <2>2, <2>3, <3>1, RowOfCreated DEF Row
        <3>3. Lawful(History)
            BY Histories, ChainLawful DEF Ledger, OneChain
        <3>4. h <= g
            BY <2>1, <2>3, <3>2, <3>3 DEF Lawful
        <3>5. EmitStart \in Nat /\ next \in Nat /\ Committed = EmitStart..(next - 1)
              /\ Len(pending) \in Nat /\ DOMAIN History = EmitStart..(next + Len(pending) - 1)
            BY <1>1, WindowShape
        <3>6. h \in Committed
            BY <2>2, <2>4, <3>4, <3>5
        <3>7. SpentIn(Archived, o)
            BY <2>1, <2>4, Histories DEF SpentIn
        <3> QED
            BY <3>6, <3>7 DEF MarksMade
    <2>5. CASE g \notin Committed
        <3> DEFINE k == g - next + 1
        <3>1. k \in 1..Len(pending) /\ next + k - 1 = g
            BY <2>5, Histories
        <3> HIDE DEF k
        <3>2. History[g] = Entry(pending[k].block, pending[k].first_uid)
            BY <1>1, <3>1, Histories
        <3>3. o \in Inputs[pending[k].block]
            BY <2>1, <3>2, EntryFields
        <3>4. \E s \in PendingSpends : s.height = h /\ s.index = i
            BY <1>1, <2>2, <3>1, <3>3, SpendListed, SMTT(30)
        <3> QED
            BY <1>1, <3>4 DEF MarksMade
    <2> QED
        BY <2>4, <2>5
<1>6. MarksMade'
    BY <1>1, <1>2, <1>5 DEF MarksMade, OutpointAt
<1> QED
    BY <1>4, <1>6

\* Every step keeps the marks.
LEMMA MarksStep ==
    ASSUME ReorgDepth <= FinalityDepth, IInv, Ledger, OnNode, MarksTrue, MarksMade, [Next]_vars
    PROVE  MarksTrue' /\ MarksMade'
<1>0. \A h \in Committed : h \in Current
    BY CurrentShape
<1>1. CASE UNCHANGED vars
    <2>1. UNCHANGED <<node, files, tip, pc, next, pending, wr, marks>>
        BY <1>1 DEF vars, disk, mem
    <2>2. UNCHANGED <<History, Archived, Committed, PendingSpends, Final>>
        BY <2>1 DEF History, InWindow, Archived, Committed, PendingSpends, Final
    <2>3. UNCHANGED Current
        BY <2>1, <2>2 DEF Current
    <2> QED
        BY <2>1, <2>2, <2>3 DEF MarksTrue, MarksMade, OutpointAt
<1>2. ASSUME NEW c \in Chains, NodeAdopts(c) PROVE MarksTrue' /\ MarksMade'
    BY <1>2, AdoptMarks
<1>3. CASE Start \/ PollHeight \/ CaughtUp \/ TipChanged \/ RejectChunk \/ TruncateManifest
           \/ WriteManifest \/ Crash
    <2>1. ~InWindow' /\ node' = node /\ UNCHANGED <<files, tip>>
        BY <1>3 DEF Start, PollHeight, CaughtUp, TipChanged, RejectChunk, TruncateManifest,
                    WriteManifest, Crash, LoseMemory, InWindow, disk, mem
    <2>2. Committed' = Committed /\ Archived' = Archived
        BY <2>1, QuietHistory
    <2>3. pc' \notin {"write", "mark"} /\ Current' = Committed
        BY <2>1, <2>2 DEF InWindow, Current
    <2> QED
        BY <1>0, <2>1, <2>2, <2>3, MarksFrame
<1>4. CASE OpenWindow
    <2>1. pc' = "fetch" /\ node' = node /\ files' = files
        BY <1>4 DEF OpenWindow, disk
    <2>2. Committed' = Committed /\ Archived' = Archived /\ Current' = Committed
        BY <1>4, <2>1, OpenHistory DEF Current
    <2> QED
        BY <1>0, <2>1, <2>2, MarksFrame
<1>5. CASE (\E h \in Heights : FetchBlock(h)) \/ ResolveChunk
    <2>1. pc' \in {"fetch", "apply"} /\ node' = node /\ files' = files
        BY <1>5 DEF FetchBlock, ResolveChunk, disk
    <2>2. Committed' = Committed /\ Archived' = Archived
        BY <1>5, KeptHistory
    <2>3. Current' = Committed
        BY <2>1, <2>2 DEF Current
    <2> QED
        BY <1>0, <2>1, <2>2, <2>3, MarksFrame
<1>6. ASSUME NEW b \in Block, ApplyBlock(b) PROVE MarksTrue' /\ MarksMade'
    <2>1. pc' = "apply" /\ node' = node /\ files' = files
        BY <1>6 DEF ApplyBlock, disk
    <2>2. Committed' = Committed /\ Archived' = Archived /\ Current' = Committed
        BY <1>6, <2>1, ApplyHistory DEF Current
    <2> QED
        BY <1>0, <2>1, <2>2, MarksFrame
<1>7. CASE EndChunk
    <2>1. pc = "apply" /\ pc' \in {"fetch", "write"} /\ node' = node /\ files' = files /\ wr' = wr
        BY <1>7 DEF EndChunk, disk
    <2>2. /\ Committed' = Committed /\ Archived' = Archived /\ History' = History /\ next' = next
          /\ InWindow
        BY <1>7, KeptHistory
    <2>3. wr = 0
        BY <2>1 DEF IInv, Idle
    <2>4. EmitStart \in Nat /\ next \in Nat /\ Committed = EmitStart..(next - 1)
          /\ \A h \in DOMAIN History : h \in EmitStart..(next + Len(pending) - 1)
          /\ Len(pending) \in Nat
        BY <2>2, WindowShape
    <2>5. \A h \in DOMAIN History : h < next + 0 => h \in Committed
        BY <2>4
    <2>6. Current' \subseteq Committed
        BY <2>1, <2>2, <2>3, <2>5 DEF Current
    <2> QED
        BY <1>0, <2>1, <2>2, <2>6, MarksFrame
<1>8. CASE WriteFile
    BY <1>8, WriteMarks
<1>9. CASE StartMarking
    BY <1>9, StartMarkingMarks
<1>10. ASSUME NEW h \in Heights, MarkFile(h) PROVE MarksTrue' /\ MarksMade'
    BY <1>10, MarkMarks
<1>11. CASE Commit
    BY <1>11, CommitMarks
<1> QED
    BY <1>1, <1>2, <1>3, <1>4, <1>5, <1>6, <1>7, <1>8, <1>9, <1>10, <1>11 DEF Next, Indexer
-----------------------------------------------------------------------------
(* Published archives *)

\* Within the finality depth, what is indexed is on the node's chain and
\* marked as far as the window has come, in every run.
THEOREM PublishedInvariant ==
    ASSUME ReorgDepth <= FinalityDepth
    PROVE  Spec => []Published
<1>1. ASSUME Init PROVE Published
    <2>1. /\ Committed = {} /\ ~InWindow /\ pc = "down" /\ got = {}
        BY <1>1 DEF Init, Committed, InWindow
    <2>2. DOMAIN History = {} /\ Current = {}
        BY <2>1 DEF Archived, History, Current
    <2> QED
        BY <2>1, <2>2 DEF Published, OnNode, MarksTrue, MarksMade
<1>2. ASSUME IInv, Ledger, Published, [Next]_vars PROVE Published'
    BY <1>2, OnNodeStep, MarksStep DEF Published
<1> QED
    BY <1>1, <1>2, Invariant, LedgerInvariant, PTL DEF Spec

\* The files on the node's chain.
LEMMA PublishedAgrees ==
    ASSUME IInv, Published
    PROVE  /\ AgreesWithNode
           /\ \A h \in Committed : h \in Nat /\ h + 1 \in 1..Len(node)
<1>1. ASSUME NEW h \in Committed
      PROVE  /\ h + 1 <= Len(node) /\ node[h + 1] = files[h].block
             /\ h \in Nat /\ h + 1 \in 1..Len(node)
    <2>1. h \in DOMAIN History /\ History[h] = Archived[h]
        BY Histories
    <2>2. History[h].block = files[h].block /\ Height[files[h].block] = h /\ h \in Nat
        BY <2>1, CommittedFiles, EntryFields DEF Archived, Heights
    <2>3. h + 1 \in 1..Len(node) /\ node[h + 1] = files[h].block
        BY <2>1, <2>2 DEF Published, OnNode, OnChain
    <2>4. Len(node) \in Nat
        BY NodeType DEF IInv
    <2> QED
        BY <2>2, <2>3, <2>4
<1> QED
    BY <1>1 DEF AgreesWithNode

\* Everything committed stays on the node's active chain as long as
\* reorganisations are no deeper than --finality-depth (catch_up_ranges).
THEOREM StaysWithNode ==
    ASSUME ReorgDepth <= FinalityDepth
    PROVE  Spec => []AgreesWithNode
BY PublishedAgrees, Invariant, PublishedInvariant, PTL

\* A committed output is spent at most once, not before its own height, and
\* SpentAt says whether.
LEMMA SpentOnce ==
    ASSUME IInv, Published, NEW h \in Committed, NEW i \in 1..Len(Indexed[files[h].block])
    PROVE  /\ SpentIn(Archived, OutpointAt(h, i)) <=> SpentAt(OutpointAt(h, i)) # {}
           /\ \A g \in SpentAt(OutpointAt(h, i)) : \A k \in 0..Final :
                 OutpointAt(h, i) \in Inputs[node[k + 1]] => k = g
           /\ \A k \in 0..Final : OutpointAt(h, i) \in Inputs[node[k + 1]] => h <= k
           /\ Creates(files[h].block, OutpointAt(h, i)) /\ OutpointAt(h, i) \in Outpoint
<1> DEFINE o == OutpointAt(h, i)
<1>1. /\ \A g \in Committed : /\ g \in Nat /\ g + 1 \in 1..Len(node)
                              /\ node[g + 1] = files[g].block
      /\ files[h].block \in Block
    BY PublishedAgrees, CommittedFiles DEF AgreesWithNode
<1>2. Creates(files[h].block, o)
    BY DEF Creates, OutpointAt
<1>3. o \in Outpoint
    <2>1. Indexed[files[h].block] \in Seq([outpoint : Outpoint, slot : Nat])
        BY <1>1, BlockAssumption
    <2>2. Indexed[files[h].block][i] \in [outpoint : Outpoint, slot : Nat]
        BY <2>1, ElementOfSeq
    <2> QED
        BY <2>2 DEF OutpointAt
<1> HIDE DEF o
<1>4. TypeOK /\ node \in Chains /\ \A k \in 0..Final : k \in Int /\ k + 1 \in 1..Len(node)
    BY FinalType DEF IInv, TypeOK
<1>5. SpentIn(Archived, o) <=> SpentAt(o) # {}
    <2>1. DOMAIN Archived = Committed /\ \A g \in Committed : Archived[g].block = files[g].block
        BY EntryFields DEF Archived
    <2> QED
        BY <2>1 DEF SpentIn, SpentAt
<1>6. ASSUME NEW g \in SpentAt(o), NEW k \in 0..Final, o \in Inputs[node[k + 1]]
      PROVE  k = g
    <2>1. g \in Nat /\ g + 1 \in 1..Len(node) /\ o \in Inputs[node[g + 1]]
        BY <1>1 DEF SpentAt
    <2>2. k + 1 = g + 1
        BY <1>3, <1>4, <1>6, <2>1, ConsensusAssumption
    <2> QED
        BY <1>4, <2>1, <2>2
<1>7. ASSUME NEW k \in 0..Final, o \in Inputs[node[k + 1]] PROVE h <= k
    <2>1. h + 1 \in 1..Len(node) /\ Creates(node[h + 1], o) /\ h \in Nat
        BY <1>1, <1>2
    <2>2. h + 1 <= k + 1
        BY <1>3, <1>4, <1>7, <2>1, ConsensusAssumption
    <2> QED
        BY <1>4, <2>1, <2>2
<1> QED
    BY <1>2, <1>3, <1>5, <1>6, <1>7 DEF o

\* Cut-through: spent heights.
LEMMA SpentHeightsExact ==
    ASSUME IInv, Ledger, Published, NEW h \in Committed, NEW i \in 1..Len(Indexed[files[h].block])
    PROVE  IF SpentAt(OutpointAt(h, i)) = {}
           THEN files[h].spent_height[i] > Height[tip]
           ELSE files[h].spent_height[i] \in SpentAt(OutpointAt(h, i))
<1> DEFINE o == OutpointAt(h, i)
           v == files[h].spent_height[i]
<1>1. h \in Current
    BY CurrentShape
<1>2. v # Unspent => v \in 0..Final /\ o \in Inputs[node[v + 1]]
    BY <1>1 DEF Published, MarksTrue
<1>3. SpentAt(o) # {} => v # Unspent
    BY SpentOnce DEF Published, MarksMade
<1>4. /\ \A g \in SpentAt(o) : \A k \in 0..Final : o \in Inputs[node[k + 1]] => k = g
      /\ \A k \in 0..Final : o \in Inputs[node[k + 1]] => h <= k
    BY SpentOnce
<1>5. tip # NoBlock /\ Height[tip] \in Nat /\ Height[tip] <= MaxHeight
      /\ Committed = EmitStart..Height[tip] /\ EmitStart \in Nat /\ MaxHeight \in Nat
    BY BlockAssumption, ConstantsAssumption DEF Committed, IInv, TypeOK, Heights
<1> HIDE DEF o, v
<1>6. CASE SpentAt(o) = {}
    <2>1. CASE v = Unspent
        BY <1>5, <1>6, <2>1 DEF Unspent, o, v
    <2>2. CASE v # Unspent
        <3>1. v \in 0..Final /\ o \in Inputs[node[v + 1]] /\ h <= v /\ v \in Nat
            BY <1>2, <1>4, <2>2, FinalType DEF IInv
        <3>2. v \notin Committed
            <4> SUFFICES ASSUME v \in Committed PROVE FALSE
                OBVIOUS
            <4>1. node[v + 1] = files[v].block
                BY PublishedAgrees DEF AgreesWithNode
            <4> QED
                BY <1>6, <3>1, <4>1 DEF SpentAt
        <3>3. v > Height[tip]
            BY <1>5, <3>1, <3>2
        <3> QED
            BY <1>6, <3>3 DEF o, v
    <2> QED
        BY <2>1, <2>2
<1>7. CASE SpentAt(o) # {}
    BY <1>2, <1>3, <1>4, <1>7 DEF o, v
<1> QED
    BY <1>6, <1>7 DEF o

\* Cut-through: listed spends.
LEMMA ListedSpendsExact ==
    ASSUME IInv, Ledger, NEW h \in Committed
    PROVE  files[h].spends =
               UNION {{[uid |-> CreatedRows(files[k].block, files[k].first_uid)[o].uid,
                        creation_height |-> k] : k \in CreatedAt(o)} :
                           o \in Inputs[files[h].block]}
<1>1. \A k \in Committed : \A o :
          Row(Archived, k, o) = CreatedRows(files[k].block, files[k].first_uid)[o]
    BY EntryFields DEF Row, Archived
<1>2. \A o : CreatedAt(o) = {k \in Committed : Row(Archived, k, o) # NoRow}
    BY <1>1 DEF CreatedAt
<1>3. DOMAIN Archived = Committed /\ Lists(files[h].spends, files[h].block, Archived)
    BY DEF Ledger, FilesListed, Archived
<1>4. ASSUME NEW e \in files[h].spends
      PROVE  \E o \in Inputs[files[h].block] :
                e \in {[uid |-> CreatedRows(files[k].block, files[k].first_uid)[o].uid,
                        creation_height |-> k] : k \in CreatedAt(o)}
    <2>1. PICK o \in Inputs[files[h].block], k \in Committed :
              Row(Archived, k, o) # NoRow /\ e = [uid |-> Row(Archived, k, o).uid, creation_height |-> k]
        BY <1>3 DEF Lists
    <2> QED
        BY <1>1, <1>2, <2>1
<1>5. ASSUME NEW o \in Inputs[files[h].block], NEW k \in CreatedAt(o)
      PROVE  [uid |-> CreatedRows(files[k].block, files[k].first_uid)[o].uid,
              creation_height |-> k] \in files[h].spends
    BY <1>1, <1>2, <1>3 DEF Lists
<1> QED
    BY <1>4, <1>5

\* Both halves of cut-through are exact at every moment the tip is served,
\* whatever crashed windows left behind, within the finality depth
\* (mark_spent_outputs before commit_applied_blocks).
THEOREM CutThroughStaysExact ==
    ASSUME ReorgDepth <= FinalityDepth
    PROVE  Spec => []CutThroughExact
<1>1. ASSUME IInv, Ledger, Published PROVE CutThroughExact
    BY <1>1, SpentHeightsExact, ListedSpendsExact DEF CutThroughExact, OutpointAt
<1> QED
    BY <1>1, Invariant, LedgerInvariant, PublishedInvariant, PTL
-----------------------------------------------------------------------------
(* The refinement *)

\* UIDs that start at one and go on from block to block are the first UIDs.
LEMMA FirstUidsAre ==
    ASSUME NEW c, Len(c) \in Nat, NEW f,
           f = [i \in 1..Len(c) |-> IF i = 1 THEN 1 ELSE f[i - 1] + Slots[c[i - 1]]]
    PROVE  Archive!FirstUids(c) = f
<1> DEFINE Good(g) == g = [i \in 1..Len(c) |-> IF i = 1 THEN 1 ELSE g[i - 1] + Slots[c[i - 1]]]
           g == CHOOSE g : Good(g)
<1>1. Archive!FirstUids(c) = g
    BY DEF Archive!FirstUids
<1>2. Good(g)
    <2>1. Good(f)
        OBVIOUS
    <2> HIDE DEF Good
    <2> QED
        BY <2>1
<1> HIDE DEF g
<1>3. ASSUME NEW k \in 1..Len(c), g[k] # f[k] PROVE FALSE
    <2> DEFINE S == {i \in 1..Len(c) : g[i] # f[i]}
    <2>1. S \in SUBSET Nat /\ S # {}
        BY <1>3
    <2>2. PICK m \in S : \A i \in S : m <= i
        <3> HIDE DEF S
        <3> QED
            BY <2>1, LeastNatural
    <2>3. m \in 1..Len(c) /\ g[m] # f[m]
        BY <2>2
    <2>4. /\ g[m] = IF m = 1 THEN 1 ELSE g[m - 1] + Slots[c[m - 1]]
          /\ f[m] = IF m = 1 THEN 1 ELSE f[m - 1] + Slots[c[m - 1]]
        BY <1>2, <2>3
    <2>5. m - 1 \in 1..Len(c) /\ ~(m <= m - 1)
        BY <2>3, <2>4
    <2>6. g[m - 1] = f[m - 1]
        BY <2>2, <2>5
    <2> QED
        BY <2>3, <2>4, <2>6
<1>4. g = f
    <2>1. g = [i \in 1..Len(c) |-> g[i]] /\ f = [i \in 1..Len(c) |-> f[i]]
        BY <1>2
    <2> QED
        BY <1>3, <2>1
<1> QED
    BY <1>1, <1>4

\* The committed blocks up to height n as a sequence, and all of them.
Part(n) == [i \in 1..(n - EmitStart + 1) |-> files[EmitStart + i - 1].block]

Served == Part(Height[tip])

\* Committed heights and places in that sequence.
LEMMA PartShape ==
    ASSUME IInv, Ledger, Published, NEW n \in Committed
    PROVE  /\ EmitStart \in Nat /\ n \in Nat /\ EmitStart <= n
           /\ tip # NoBlock /\ Height[tip] \in Nat /\ n <= Height[tip]
           /\ Committed = EmitStart..Height[tip]
           /\ Len(Part(n)) = n - EmitStart + 1 /\ Len(Part(n)) \in Nat \ {0}
           /\ \A i \in 1..Len(Part(n)) : /\ EmitStart + i - 1 \in Committed
                                         /\ EmitStart + i - 1 <= n
                                         /\ Part(n)[i] = files[EmitStart + i - 1].block
                                         /\ Part(n)[i] \in Block
           /\ \A h \in Committed : h <= n => /\ h - EmitStart + 1 \in 1..Len(Part(n))
                                             /\ EmitStart + (h - EmitStart + 1) - 1 = h
           /\ Part(n) \in Archive!Histories
<1> DEFINE len == n - EmitStart + 1
           P == Part(n)
<1>1. tip # NoBlock /\ EmitStart \in Nat /\ Height[tip] \in Nat /\ Committed = EmitStart..Height[tip]
    BY BlockAssumption, ConstantsAssumption DEF Committed, IInv, TypeOK, Heights
<1>2. n \in Nat /\ EmitStart <= n /\ n <= Height[tip] /\ len \in Nat \ {0}
    BY <1>1
<1>3. \A i \in 1..len : EmitStart + i - 1 \in Committed /\ EmitStart + i - 1 <= n
    BY <1>1, <1>2
<1>4. \A h \in Committed : h <= n =>
          h - EmitStart + 1 \in 1..len /\ EmitStart + (h - EmitStart + 1) - 1 = h
    BY <1>1, <1>2
<1>5. \A h \in Committed : /\ files[h].block \in Block /\ h + 1 \in 1..Len(node)
                           /\ node[h + 1] = files[h].block
    BY CommittedFiles, PublishedAgrees DEF AgreesWithNode
<1>6. P \in [1..len -> Block] /\ \A i \in 1..len : P[i] = files[EmitStart + i - 1].block
    BY <1>3, <1>5 DEF Part
<1>7. P = [i \in 1..len |-> P[i]]
    BY DEF Part
<1> HIDE DEF P
<1>8. P \in Seq(Block) /\ Len(P) = len
    <2>1. len \in Nat /\ P \in [1..len -> Block]
        BY <1>2, <1>6
    <2> HIDE DEF len
    <2>2. P \in Seq(Block)
        BY <2>1, SeqDef
    <2>3. Len(P) \in Nat /\ DOMAIN P = 1..Len(P) /\ DOMAIN P = 1..len
        BY <2>1, <2>2, LenProperties
    <2>4. Len(P) = len
        BY <2>1, <2>3
    <2> QED
        BY <2>2, <2>4
<1>9. node \in Seq(Block) /\ node \in Chains /\ Len(node) \in Nat
    BY ChainAssumption, NodeType DEF IInv, TypeOK
<1>10. n + 1 \in (EmitStart + 1)..Len(node)
    BY <1>1, <1>2, <1>5, <1>9
<1>11. P = SubSeq(node, EmitStart + 1, n + 1)
    <2>1. SubSeq(node, EmitStart + 1, n + 1)
              = [i \in 1..(1 + (n + 1) - (EmitStart + 1)) |-> node[i + (EmitStart + 1) - 1]]
        BY <1>1, <1>2, <1>9, <1>10
    <2>2. 1 + (n + 1) - (EmitStart + 1) = len
        BY <1>1, <1>2
    <2>3. \A i \in 1..len : node[i + (EmitStart + 1) - 1] = P[i]
        <3> SUFFICES ASSUME NEW i \in 1..len PROVE node[i + (EmitStart + 1) - 1] = P[i]
            OBVIOUS
        <3>1. i + (EmitStart + 1) - 1 = (EmitStart + i - 1) + 1
            BY <1>1, <1>2
        <3> QED
            BY <1>3, <1>5, <1>6, <3>1
    <2> QED
        BY <1>7, <2>1, <2>2, <2>3
<1>12. P \in Archive!Histories
    <2> DEFINE Parts(c) == {SubSeq(c, EmitStart + 1, m) : m \in (EmitStart + 1)..Len(c)}
    <2>1. P \in Parts(node)
        BY <1>10, <1>11
    <2>2. Archive!Histories = UNION {Parts(c) : c \in Chains}
        BY DEF Archive!Histories
    <2> HIDE DEF Parts
    <2> QED
        BY <1>9, <2>1, <2>2
<1> QED
    BY <1>1, <1>2, <1>3, <1>4, <1>6, <1>8, <1>12 DEF P

\* The UIDs of the files are those of the sequence.
LEMMA PartUids ==
    ASSUME IInv, Ledger, Published, NEW n \in Committed, NEW i \in 1..Len(Part(n))
    PROVE  Archive!FirstUids(Part(n))[i] = files[EmitStart + i - 1].first_uid
<1> DEFINE P == Part(n)
           f == [j \in 1..Len(P) |-> files[EmitStart + j - 1].first_uid]
<1>1. /\ Len(P) \in Nat /\ EmitStart \in Nat /\ tip # NoBlock
      /\ \A j \in 1..Len(P) : /\ EmitStart + j - 1 \in Committed
                              /\ P[j] = files[EmitStart + j - 1].block
    BY PartShape
<1> HIDE DEF P
<1>2. ASSUME NEW j \in 1..Len(P)
      PROVE  f[j] = IF j = 1 THEN 1 ELSE f[j - 1] + Slots[P[j - 1]]
    <2>1. CASE j = 1
        <3>1. EmitStart + j - 1 = EmitStart
            BY <1>1, <2>1
        <3> QED
            BY <1>1, <2>1, <3>1 DEF IInv, UidsDense
    <2>2. CASE j # 1
        <3>1. /\ j - 1 \in 1..Len(P) /\ EmitStart + j - 1 > EmitStart
              /\ (EmitStart + j - 1) - 1 = EmitStart + (j - 1) - 1
            BY <1>1, <2>2
        <3>2. EmitStart + j - 1 \in Committed /\ P[j - 1] = files[EmitStart + (j - 1) - 1].block
            BY <1>1, <3>1
        <3>3. files[EmitStart + j - 1].first_uid =
                  files[(EmitStart + j - 1) - 1].first_uid + Slots[files[(EmitStart + j - 1) - 1].block]
            BY <3>1, <3>2 DEF IInv, UidsDense
        <3> QED
            BY <2>2, <3>1, <3>2, <3>3
    <2> QED
        BY <2>1, <2>2
<1>3. f = [j \in 1..Len(P) |-> f[j]]
    OBVIOUS
<1>4. f = [j \in 1..Len(P) |-> IF j = 1 THEN 1 ELSE f[j - 1] + Slots[P[j - 1]]]
    <2> HIDE DEF f
    <2> QED
        BY <1>2, <1>3
<1>5. f[i] = files[EmitStart + i - 1].first_uid
    BY DEF P
<1> HIDE DEF f
<1>6. Archive!FirstUids(P) = f
    BY <1>1, <1>4, FirstUidsAre, ZenonT(60)
<1> QED
    BY <1>5, <1>6 DEF P

\* What a committed block spends was created at its height or below.
LEMMA CreatedBelow ==
    ASSUME IInv, Ledger, Published, NEW h \in Committed, NEW o \in Outpoint,
           o \in Inputs[files[h].block], NEW k \in CreatedAt(o)
    PROVE  k \in Committed /\ k <= h
<1>1. k \in Committed /\ CreatedRows(files[k].block, files[k].first_uid)[o] # NoRow
    BY DEF CreatedAt
<1>2. \A g \in Committed : /\ g \in Nat /\ g + 1 \in 1..Len(node) /\ node[g + 1] = files[g].block
                           /\ files[g].block \in Block /\ files[g].first_uid \in Nat
    BY PublishedAgrees, CommittedFiles DEF AgreesWithNode
<1>3. Creates(files[k].block, o)
    BY <1>1, <1>2, RowOfCreated
<1>4. node \in Chains
    BY DEF IInv, TypeOK
<1>5. k + 1 <= h + 1
    BY <1>1, <1>2, <1>3, <1>4, ConsensusAssumption
<1> QED
    BY <1>1, <1>2, <1>5

\* The spends a file lists are those of the sequence.
LEMMA PartSpends ==
    ASSUME IInv, Ledger, Published, NEW n \in Committed, NEW i \in 1..Len(Part(n))
    PROVE  files[EmitStart + i - 1].spends =
               UNION {{[uid |-> Archive!FirstUids(Part(n))[p[1]] + Indexed[Part(n)[p[1]]][p[2]].slot,
                        creation_height |-> Archive!HeightAt(p[1])] :
                           p \in Archive!Creations(Part(n), o)} : o \in Inputs[Part(n)[i]]}
<1> DEFINE h == EmitStart + i - 1
           P == Part(n)
           A(o) == {[uid |-> CreatedRows(files[k].block, files[k].first_uid)[o].uid,
                     creation_height |-> k] : k \in CreatedAt(o)}
           B(o) == {[uid |-> Archive!FirstUids(P)[p[1]] + Indexed[P[p[1]]][p[2]].slot,
                     creation_height |-> Archive!HeightAt(p[1])] :
                        p \in Archive!Creations(P, o)}
<1>1. /\ Len(P) \in Nat /\ EmitStart \in Nat /\ n \in Nat
      /\ \A j \in 1..Len(P) : /\ EmitStart + j - 1 \in Committed /\ EmitStart + j - 1 <= n
                              /\ P[j] = files[EmitStart + j - 1].block
                              /\ P[j] \in Block
      /\ \A g \in Committed : g <= n => /\ g - EmitStart + 1 \in 1..Len(P)
                                        /\ EmitStart + (g - EmitStart + 1) - 1 = g
    BY PartShape
<1>2. \A j \in 1..Len(P) : Archive!FirstUids(P)[j] = files[EmitStart + j - 1].first_uid
    BY PartUids
<1>3. \A g \in Committed : files[g].block \in Block /\ files[g].first_uid \in Nat /\ g \in Nat
    BY CommittedFiles DEF Heights
<1>4. h \in Committed /\ h <= n /\ P[i] = files[h].block /\ Inputs[P[i]] \subseteq Outpoint
    BY <1>1, BlockAssumption
<1> HIDE DEF P
<1>5. ASSUME NEW o \in Inputs[P[i]], NEW e \in A(o) PROVE e \in B(o)
    <2>1. PICK k \in CreatedAt(o) :
              e = [uid |-> CreatedRows(files[k].block, files[k].first_uid)[o].uid,
                   creation_height |-> k]
        BY <1>5
    <2>2. k \in Committed /\ CreatedRows(files[k].block, files[k].first_uid)[o] # NoRow
        BY DEF CreatedAt
    <2>3. k <= n
        <3> HIDE DEF h
        <3>1. k <= h
            BY <1>4, <1>5, CreatedBelow
        <3> QED
            BY <1>1, <1>3, <1>4, <2>2, <3>1
    <2>4. PICK j \in 1..Len(Indexed[files[k].block]) :
              /\ Indexed[files[k].block][j].outpoint = o
              /\ CreatedRows(files[k].block, files[k].first_uid)[o] =
                     [uid |-> files[k].first_uid + Indexed[files[k].block][j].slot,
                      height |-> Height[files[k].block], index |-> j]
        <3>1. files[k].block \in Block /\ files[k].first_uid \in Nat
            BY <1>3, <2>2
        <3>2. o \in Outpoint
            BY <1>4, <1>5
        <3> QED
            BY <2>2, <3>1, <3>2, RowOfCreated, SMTT(40)
    <2> DEFINE q == k - EmitStart + 1
               p == <<q, j>>
    <2>5. q \in 1..Len(P) /\ EmitStart + q - 1 = k
        BY <1>1, <2>2, <2>3
    <2> HIDE DEF q
    <2>6. P[q] = files[k].block /\ Archive!FirstUids(P)[q] = files[k].first_uid
        BY <1>1, <1>2, <2>5
    <2>7. p[1] = q /\ p[2] = j
        OBVIOUS
    <2>8. p \in Archive!Creations(P, o)
        BY <2>4, <2>5, <2>6 DEF Archive!Creations
    <2>9. e = [uid |-> Archive!FirstUids(P)[p[1]] + Indexed[P[p[1]]][p[2]].slot,
               creation_height |-> Archive!HeightAt(p[1])]
        BY <2>1, <2>4, <2>5, <2>6, <2>7 DEF Archive!HeightAt
    <2> HIDE DEF p
    <2> QED
        BY <2>8, <2>9
<1>6. ASSUME NEW o \in Inputs[P[i]], NEW e \in B(o) PROVE e \in A(o)
    <2>1. PICK p \in Archive!Creations(P, o) :
              e = [uid |-> Archive!FirstUids(P)[p[1]] + Indexed[P[p[1]]][p[2]].slot,
                   creation_height |-> Archive!HeightAt(p[1])]
        BY <1>6
    <2>2. PICK q \in 1..Len(P) : /\ p \in {q} \X (1..Len(Indexed[P[q]]))
                                 /\ Indexed[P[p[1]]][p[2]].outpoint = o
        BY DEF Archive!Creations
    <2> DEFINE j == p[2]
               k == EmitStart + q - 1
    <2>3. p[1] = q /\ j \in 1..Len(Indexed[P[q]]) /\ Indexed[P[q]][j].outpoint = o
        BY <2>2
    <2>4. k \in Committed /\ P[q] = files[k].block /\ Archive!FirstUids(P)[q] = files[k].first_uid
        BY <1>1, <1>2
    <2> HIDE DEF j, k
    <2>5. Creates(files[k].block, o) /\ o \in Outpoint
        BY <1>4, <2>3, <2>4 DEF Creates
    <2>6. CreatedRows(files[k].block, files[k].first_uid)[o] # NoRow
        BY <1>3, <2>4, <2>5, RowOfCreated
    <2>7. PICK l \in 1..Len(Indexed[files[k].block]) :
              /\ Indexed[files[k].block][l].outpoint = o
              /\ CreatedRows(files[k].block, files[k].first_uid)[o] =
                     [uid |-> files[k].first_uid + Indexed[files[k].block][l].slot,
                      height |-> Height[files[k].block], index |-> l]
        BY <1>3, <2>4, <2>5, <2>6, RowOfCreated, SMTT(30)
    <2>8. l = j
        BY <1>3, <2>3, <2>4, <2>7, ConsensusAssumption, SMTT(30)
    <2>9. k \in CreatedAt(o)
        BY <2>4, <2>6 DEF CreatedAt
    <2>10. e = [uid |-> CreatedRows(files[k].block, files[k].first_uid)[o].uid,
                creation_height |-> k]
        BY <2>1, <2>3, <2>4, <2>7, <2>8, SMTT(30) DEF Archive!HeightAt, j, k
    <2> QED
        BY <2>9, <2>10
<1>7. \A o \in Inputs[P[i]] : A(o) = B(o)
    BY <1>5, <1>6
<1>8. files[h].spends = UNION {A(o) : o \in Inputs[files[h].block]}
    BY <1>4, ListedSpendsExact
<1> HIDE DEF A, B
<1>9. files[h].spends = UNION {B(o) : o \in Inputs[P[i]]}
    BY <1>4, <1>7, <1>8
<1> QED
    BY <1>9 DEF B, P

\* The spent height a reader at height n sees of output j of the i-th block.
LEMMA PartSpentHeight ==
    ASSUME IInv, Ledger, Published, NEW n \in Committed, NEW i \in 1..Len(Part(n)),
           NEW j \in 1..Len(Indexed[Part(n)[i]])
    PROVE  LET v == files[EmitStart + i - 1].spent_height[j]
               S == Archive!Spenders(Part(n), Indexed[Part(n)[i]][j].outpoint)
           IN  (IF v > n THEN Unspent ELSE v)
                   = (IF S = {} THEN Unspent ELSE Archive!HeightAt(CHOOSE k \in S : TRUE))
<1> DEFINE h == EmitStart + i - 1
           P == Part(n)
           v == files[h].spent_height[j]
           o == Indexed[P[i]][j].outpoint
           S == Archive!Spenders(P, o)
<1>1. /\ Len(P) \in Nat /\ EmitStart \in Nat /\ Height[tip] \in Nat /\ n \in Nat /\ n <= Height[tip]
      /\ Committed = EmitStart..Height[tip]
      /\ \A q \in 1..Len(P) : /\ EmitStart + q - 1 \in Committed /\ EmitStart + q - 1 <= n
                              /\ P[q] = files[EmitStart + q - 1].block
      /\ \A g \in Committed : g <= n => /\ g - EmitStart + 1 \in 1..Len(P)
                                        /\ EmitStart + (g - EmitStart + 1) - 1 = g
    BY PartShape
<1>2. h \in Committed /\ j \in 1..Len(Indexed[files[h].block]) /\ o = OutpointAt(h, j)
    BY <1>1 DEF OutpointAt
<1> HIDE DEF P
<1>3. IF SpentAt(o) = {} THEN v > Height[tip] ELSE v \in SpentAt(o)
    BY <1>2, SpentHeightsExact
<1>4. \A q \in S : EmitStart + q - 1 \in SpentAt(o) /\ EmitStart + q - 1 <= n
    BY <1>1 DEF Archive!Spenders, SpentAt
<1>5. \A g \in SpentAt(o) : g <= n => g - EmitStart + 1 \in S
    BY <1>1 DEF Archive!Spenders, SpentAt
<1>6. ASSUME NEW f \in SpentAt(o), NEW g \in SpentAt(o) PROVE f = g
    <2>1. f \in Committed /\ g \in Committed /\ o \in Inputs[files[f].block]
        BY DEF SpentAt
    <2>2. f \in DOMAIN History /\ f \in Nat /\ node[f + 1] = files[f].block
        BY <2>1, Histories, PublishedAgrees DEF AgreesWithNode
    <2>3. f \in 0..Final
        BY <2>2, FinalType DEF Published, OnNode, IInv
    <2> QED
        BY <1>2, <2>1, <2>2, <2>3, SpentOnce
<1>7. v \in Int
    <2>1. files[h] \in Stored /\ files[h].spent_height \in Seq(0..Unspent)
        BY <1>2, CommittedFiles DEF Stored
    <2>2. DOMAIN files[h].spent_height = 1..Len(Indexed[files[h].block])
        BY <1>2, CommittedFiles DEF Ledger, FilesListed
    <2>3. j \in DOMAIN files[h].spent_height
        BY <1>2, <2>2
    <2>4. v \in 0..Unspent
        <3> DEFINE sh == files[h].spent_height
        <3>1. sh \in Seq(0..Unspent) /\ j \in DOMAIN sh
            BY <2>1, <2>3
        <3> HIDE DEF sh
        <3>2. j \in 1..Len(sh)
            BY <3>1, LenProperties
        <3>3. sh[j] \in 0..Unspent
            BY <3>1, <3>2, ElementOfSeq
        <3> QED
            BY <3>3 DEF sh
    <2> QED
        BY <2>4, ConstantsAssumption DEF Unspent
<1> HIDE DEF h, v, o, S
<1>8. (IF v > n THEN Unspent ELSE v)
          = (IF S = {} THEN Unspent ELSE Archive!HeightAt(CHOOSE k \in S : TRUE))
    <2>1. CASE S = {}
        <3>1. v > n
            <4>1. CASE SpentAt(o) = {}
                BY <1>1, <1>3, <1>7, <4>1
            <4>2. CASE SpentAt(o) # {}
                <5>1. ~(v <= n)
                    BY <1>3, <1>5, <2>1, <4>2
                <5> QED
                    BY <1>1, <1>7, <5>1
            <4> QED
                BY <4>1, <4>2
        <3> QED
            BY <2>1, <3>1
    <2>2. CASE S # {}
        <3> DEFINE q == CHOOSE k \in S : TRUE
        <3>1. q \in S
            BY <2>2
        <3> HIDE DEF q
        <3>2. EmitStart + q - 1 \in SpentAt(o) /\ EmitStart + q - 1 <= n
            BY <1>4, <3>1
        <3>3. v = EmitStart + q - 1
            BY <1>3, <1>6, <3>2
        <3>4. ~(v > n)
            BY <1>1, <1>7, <3>2, <3>3
        <3>5. Archive!HeightAt(q) = v
            BY <3>3 DEF Archive!HeightAt
        <3> QED
            BY <2>2, <3>4, <3>5 DEF q
    <2> QED
        BY <2>1, <2>2
<1> QED
    BY <1>8 DEF v, h, S, o, P

\* A file as a reader at height n sees it.
SeenAt(file, n) ==
    [file EXCEPT !.spent_height =
        [j \in DOMAIN file.spent_height |->
            IF file.spent_height[j] > n THEN Unspent ELSE file.spent_height[j]]]

\* A reader at a committed height sees the archive of the blocks up to there.
LEMMA PartExact ==
    ASSUME IInv, Ledger, Published, NEW n \in Committed, NEW i \in 1..Len(Part(n))
    PROVE  Archive!ViewOf(Part(n))[i] = SeenAt(files[EmitStart + i - 1], n)
<1> DEFINE P == Part(n)
           file == files[EmitStart + i - 1]
           sh == [j \in DOMAIN file.spent_height |->
                     IF file.spent_height[j] > n THEN Unspent ELSE file.spent_height[j]]
           uid == Archive!FirstUids(P)[i]
           sp == UNION {{[uid |-> Archive!FirstUids(P)[p[1]] + Indexed[P[p[1]]][p[2]].slot,
                          creation_height |-> Archive!HeightAt(p[1])] :
                             p \in Archive!Creations(P, o)} : o \in Inputs[P[i]]}
           th == [j \in 1..Len(Indexed[P[i]]) |->
                    LET S == Archive!Spenders(P, Indexed[P[i]][j].outpoint)
                    IN  IF S = {} THEN Unspent ELSE Archive!HeightAt(CHOOSE k \in S : TRUE)]
<1>1. Archive!ViewOf(P)[i] = [block |-> P[i], first_uid |-> uid, spends |-> sp, spent_height |-> th]
    BY DEF Archive!ViewOf
<1>2. EmitStart + i - 1 \in Committed /\ file.block = P[i]
    BY PartShape
<1>3. file.first_uid = uid /\ file.spends = sp
    BY PartUids, PartSpends
<1>4. file \in Stored /\ file # NoFile /\ EmitStart + i - 1 \in Heights
    BY <1>2, CommittedFiles
<1>5. DOMAIN file.spent_height = 1..Len(Indexed[P[i]])
    BY <1>2, <1>4 DEF Ledger, FilesListed
<1>6. sh = th
    BY <1>5, PartSpentHeight
<1>7. SeenAt(file, n) = [file EXCEPT !.spent_height = sh]
    BY DEF SeenAt
<1> HIDE DEF P, file, sh, uid, sp, th
<1>8. [file EXCEPT !.spent_height = sh]
          = [block |-> file.block, first_uid |-> file.first_uid, spends |-> file.spends,
             spent_height |-> sh]
    BY <1>4 DEF Stored
<1> QED
    BY <1>1, <1>2, <1>3, <1>6, <1>7, <1>8 DEF P, file

\* The whole archive: the part up to the tip.
LEMMA ServedShape ==
    ASSUME IInv, Ledger, Published, tip # NoBlock
    PROVE  /\ EmitStart \in Nat /\ Height[tip] \in Nat /\ EmitStart <= Height[tip]
           /\ Height[tip] \in Committed /\ Committed = EmitStart..Height[tip]
           /\ Len(Served) = Height[tip] - EmitStart + 1 /\ Len(Served) \in Nat \ {0}
           /\ \A i \in 1..Len(Served) : /\ EmitStart + i - 1 \in Committed
                                        /\ Served[i] = files[EmitStart + i - 1].block
           /\ Served \in Archive!Histories
<1>1. Height[tip] \in Committed
    BY BlockAssumption, ConstantsAssumption DEF IInv, TypeOK, FilesCoverTip, Committed, Heights
<1> QED
    BY <1>1, PartShape DEF Served

\* A reader at the committed tip sees the archive of the committed blocks.
LEMMA ServedExact ==
    ASSUME IInv, Ledger, Published, tip # NoBlock
    PROVE  ServedView = Archive!ViewOf(Served)
<1> DEFINE len == Height[tip] - EmitStart + 1
           V == Archive!ViewOf(Served)
<1>1. len = Len(Served) /\ len \in Nat /\ Height[tip] \in Committed
    BY ServedShape
<1>2. ServedView = [i \in 1..len |-> ServedView[i]] /\ V = [i \in 1..len |-> V[i]]
    BY <1>1 DEF ServedView, Archive!ViewOf
<1>3. ASSUME NEW i \in 1..len PROVE ServedView[i] = V[i]
    <2>1. ServedView[i] = SeenAt(files[EmitStart + i - 1], Height[tip])
        BY DEF ServedView, SeenAt
    <2>2. i \in 1..Len(Served)
        BY <1>1
    <2>3. V[i] = SeenAt(files[EmitStart + i - 1], Height[tip])
        BY <1>1, <2>2, PartExact DEF Served
    <2> QED
        BY <2>1, <2>3
<1> HIDE DEF V, len
<1>4. ServedView = V
    BY <1>2, <1>3
<1> QED
    BY <1>4 DEF V

\* Only the commit changes which blocks are committed.
LEMMA ArchiveKept ==
    ASSUME IInv, Ledger, [Next]_vars, ~Commit
    PROVE  tip' = tip /\ Archived' = Archived /\ Committed' = Committed
<1>1. CASE \/ UNCHANGED vars \/ (\E c \in Chains : NodeAdopts(c))
           \/ Start \/ PollHeight \/ OpenWindow \/ CaughtUp \/ TipChanged \/ RejectChunk
           \/ TruncateManifest \/ WriteManifest \/ Crash
    <2>1. UNCHANGED <<files, tip>>
        BY <1>1 DEF vars, disk, NodeAdopts, Start, PollHeight, OpenWindow, CaughtUp, TipChanged,
                    RejectChunk, TruncateManifest, WriteManifest, Crash
    <2> QED
        BY <2>1, ArchivedFrame
<1>2. CASE ResolveChunk \/ EndChunk \/ WriteFile \/ StartMarking
           \/ (\E h \in Heights : FetchBlock(h)) \/ (\E h \in Heights : MarkFile(h))
    BY <1>2, KeptHistory
<1>3. ASSUME NEW b \in Block, ApplyBlock(b)
      PROVE  tip' = tip /\ Archived' = Archived /\ Committed' = Committed
    BY <1>3, ApplyHistory DEF ApplyBlock, disk
<1> QED
    BY <1>1, <1>2, <1>3 DEF Next, Indexer

\* What a reader sees is a function of the committed blocks.
ServedRight ==
    tip # NoBlock => /\ ServedView = Archive!ViewOf(Served)
                     /\ Served \in Archive!Histories
                     /\ Len(Served) = Height[tip] - EmitStart + 1

\* Without a commit a reader sees no change.
LEMMA ServedKept ==
    ASSUME IInv, Ledger, Published, ServedRight, ServedRight', [Next]_vars, ~Commit
    PROVE  ServedView' = ServedView
<1>1. tip' = tip /\ Archived' = Archived /\ Committed' = Committed
    BY ArchiveKept
<1>2. CASE tip = NoBlock
    BY <1>1, <1>2 DEF ServedView
<1>3. CASE tip # NoBlock
    <2>1. \A h \in Committed : files[h].block = Archived[h].block
        BY EntryFields DEF Archived
    <2>2. \A h \in Committed : files'[h].block = Archived[h].block
        <3>1. Archived' = [h \in Committed |-> Entry(files'[h].block, files'[h].first_uid)]
            BY <1>1 DEF Archived
        <3> QED
            BY <1>1, <3>1, EntryFields
    <2>3. \A i \in 1..(Height[tip] - EmitStart + 1) : EmitStart + i - 1 \in Committed
        BY <1>3, ServedShape
    <2>4. Served' = Served
        BY <1>1, <2>1, <2>2, <2>3 DEF Served, Part
    <2>5. ServedView' = Archive!ViewOf(Served')
        BY <1>1, <1>3 DEF ServedRight
    <2> QED
        BY <1>3, <2>4, <2>5 DEF ServedRight
<1> QED
    BY <1>2, <1>3

\* The commit publishes the window.
LEMMA CommitPublishes ==
    ASSUME IInv, Ledger, Published, ServedRight, ServedRight', Commit
    PROVE  Archive!Next
<1>1. pc = "mark" /\ tip' = LastPending /\ files' = files /\ InWindow
    BY DEF Commit, InWindow
<1>2. LastPending \in Block /\ LastPending # NoBlock /\ Len(pending) \in Nat \ {0}
    BY <1>1, LastPendingType, BlockAssumption DEF IInv, StagesInOrder
<1>3. Height[LastPending] = next + Len(pending) - 1 /\ next \in Nat /\ EmitStart \in Nat
      /\ EmitStart <= next /\ next = Resume
    BY <1>1, <1>2, PendingHeights, WindowShape DEF LastPending, IInv, PendingLinked
<1>4. /\ ServedView' = Archive!ViewOf(Served') /\ Served' \in Archive!Histories
      /\ Len(Served') = Height[LastPending] - EmitStart + 1
    BY <1>1, <1>2 DEF ServedRight
<1>5. /\ Len(Served') > Len(ServedView)
      /\ \A i \in 1..Len(ServedView) : ServedView[i].block = Served'[i]
    <2>1. CASE tip = NoBlock
        <3>1. Len(ServedView) = 0
            BY <2>1 DEF ServedView
        <3> QED
            BY <1>2, <1>3, <1>4, <3>1
    <2>2. CASE tip # NoBlock
        <3>1. /\ Height[tip] \in Nat /\ EmitStart <= Height[tip]
              /\ Len(Served) = Height[tip] - EmitStart + 1
              /\ \A i \in 1..Len(Served) : Served[i] = files[EmitStart + i - 1].block
            BY <2>2, ServedShape
        <3>2. /\ Len(ServedView) = Len(Served)
              /\ \A i \in 1..Len(Served) : ServedView[i].block = Served[i]
            <4>1. ServedView = Archive!ViewOf(Served) /\ Len(Served) \in Nat
                BY <2>2, ServedShape DEF ServedRight
            <4>2. \A i \in 1..Len(Served) : ServedView[i].block = Served[i]
                BY <4>1 DEF Archive!ViewOf
            <4>3. Len(Archive!ViewOf(Served)) = Len(Served)
                BY <4>1 DEF Archive!ViewOf
            <4> QED
                BY <4>1, <4>2, <4>3
        <3>3. Height[tip] + 1 = next
            BY <1>3, <2>2 DEF Resume
        <3>4. Len(Served') > Len(Served)
            BY <1>2, <1>3, <1>4, <3>1, <3>3
        <3>5. \A i \in 1..Len(Served) : i \in 1..(Height[LastPending] - EmitStart + 1)
            BY <1>2, <1>3, <3>1, <3>3, SMTT(40)
        <3>6. \A i \in 1..Len(Served) : Served'[i] = files[EmitStart + i - 1].block
            BY <1>1, <3>5 DEF Served, Part
        <3> QED
            BY <3>1, <3>2, <3>4, <3>6
    <2> QED
        BY <2>1, <2>2
<1> QED
    BY <1>4, <1>5 DEF Archive!Next, Archive!Publish

\* The commit protocol implements LightArchive: to a reader at the committed
\* tip whole windows appear at once, although files, rewrites and batch are
\* separate writes with crashes between them (catch_up_ranges).
THEOREM ImplementsArchive ==
    ASSUME ReorgDepth <= FinalityDepth
    PROVE  Spec => PublishesAtomically
<1>1. Init => Archive!Init
    BY DEF Init, Archive!Init, ServedView
<1>2. ASSUME IInv, Ledger, Published PROVE ServedRight
    BY <1>2, ServedExact, ServedShape DEF ServedRight
<1>3. ASSUME IInv, Ledger, Published, ServedRight, ServedRight', [Next]_vars
      PROVE  [Archive!Next]_ServedView
    BY <1>3, ServedKept, CommitPublishes
<1> QED
    BY <1>1, <1>2, <1>3, Invariant, LedgerInvariant, PublishedInvariant, PTL
       DEF Spec, PublishesAtomically, Archive!Spec
=============================================================================
