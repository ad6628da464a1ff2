-------------------------- MODULE LightServerProofs --------------------------
(***************************************************************************)
(* TLAPS proofs about LightServer when reorganisations are no deeper than  *)
(* --finality-depth: a response whose tip the manifest named is exact, and *)
(* one that an HTTP cache keeps as immutable stays what the server would   *)
(* send, for every request and every interleaving with the indexer.        *)
(***************************************************************************)
EXTENDS LightServer, LightIndexerProofs

Filters ==
    [cutthrough_start : Option(Heights), cutthrough_tip : Option(Heights), filter_reuse : {FALSE}]

Payloads == [block : Block, outputs : SUBSET Nat, spent : SUBSET Nat]

\* The filter drops nothing for a spend above height n.
Fits(f, n) ==
    f.cutthrough_start # None => /\ f.cutthrough_tip \in Heights /\ f.cutthrough_tip # None
                                 /\ f.cutthrough_tip <= n

\* Only heights from EmitStart have files.
NoneBelow == \A h \in Heights : h < EmitStart => files[h] = NoFile

\* A filtered file is what the committed blocks up to height n yield.
PayloadsRight ==
    \A n, h \in Committed : \A f \in Filters :
        h <= n /\ Fits(f, n) =>
            Payload(files[h], f) = Payload(Archive!ViewOf(Part(n))[h - EmitStart + 1], f)

\* The blocks o of a response to r are the committed files up to height n,
\* as they are now.
FromFiles(r, n, f, o) ==
    /\ o \in Seq(Payloads)
    /\ f \in Filters /\ Fits(f, n)
    /\ \A i \in 1..Len(o) : /\ r.start + i - 1 \in Committed /\ r.start + i - 1 <= n
                            /\ o[i] = Payload(files[r.start + i - 1], f)

\* A height that some manifest named: committed, and not above what the
\* manifest names now.
WasNamed(n) == n \in Committed /\ (manifest \in Block => n <= Height[manifest])

\* The handler, while its tip came from the manifest.
HandlerRight ==
    /\ req \in Requests /\ named \in BOOLEAN
    /\ at \in {"idle", "scan", "manifest", "read", "done"}
    /\ at \in {"idle", "scan"} => named = FALSE /\ filter = NoFilter
    /\ at \in {"idle", "scan", "manifest"} => out = << >>
    /\ named => /\ WasNamed(top)
                /\ FromFiles(req, top, filter, out)
                /\ at = "read" => filter = FilterOf(req, top) /\ Q!Acceptable(req, top)

\* The cached response was sent at some named height.
CacheRight ==
    \/ cache = None
    \/ cache.named = FALSE
    \/ /\ cache.req \in Requests
       /\ cache.req.cutthrough_start # None => cache.req.cutthrough_tip # None
       /\ \E n \in Committed : /\ WasNamed(n) /\ Q!Acceptable(cache.req, n)
                               /\ FromFiles(cache.req, n, FilterOf(cache.req, n), cache.out)

ServingInv == NoneBelow /\ HandlerRight /\ CacheRight
-----------------------------------------------------------------------------
(* The archive under the reader *)

\* A filter that fits sees no spend above n.
LEMMA PayloadSeen ==
    ASSUME NEW file \in Stored, NEW n \in Nat, n <= MaxHeight, NEW f \in Filters, Fits(f, n)
    PROVE  Payload(file, f) = Payload(SeenAt(file, n), f)
<1> DEFINE sh == file.spent_height
           seen == [j \in DOMAIN sh |-> IF sh[j] > n THEN Unspent ELSE sh[j]]
           h == Height[file.block]
           Kept(v) == ~R!OmitOutput(h, [reused |-> FALSE, spent_height |-> v], f)
           Listed == {s.uid : s \in {e \in file.spends : ~R!OmitSpend(h, e, f)}}
<1>1. /\ SeenAt(file, n).block = file.block /\ SeenAt(file, n).spends = file.spends
      /\ SeenAt(file, n).spent_height = seen
    BY DEF SeenAt, Stored
<1>2. \A j \in DOMAIN sh : sh[j] \in 0..Unspent
    <2>1. sh \in Seq(0..Unspent)
        BY DEF Stored
    <2> QED
        BY <2>1, LenProperties, ElementOfSeq
<1>3. Unspent \in Nat /\ n < Unspent /\ Heights \subseteq Nat
    BY ConstantsAssumption DEF Unspent, Heights
<1>4. ASSUME NEW v \in 0..Unspent
      PROVE  Kept(v) <=> Kept(IF v > n THEN Unspent ELSE v)
    <2>0. v \in Nat /\ n \in Nat
        BY <1>3
    <2>1. CASE v <= n
        <3>1. (IF v > n THEN Unspent ELSE v) = v
            BY <2>0, <2>1
        <3> HIDE DEF Kept
        <3> QED
            BY <3>1
    <2>2. CASE v > n
        <3>1. Kept(v)
            <4>1. f.filter_reuse = FALSE
                BY DEF Filters
            <4>2. ASSUME f.cutthrough_start # None
                  PROVE  f.cutthrough_tip # None /\ ~(v <= f.cutthrough_tip)
                <5> DEFINE c == f.cutthrough_tip
                <5>1. c \in Nat /\ c # None /\ c <= n
                    BY <1>3, <4>2 DEF Fits
                <5> HIDE DEF c
                <5>2. ~(v <= c)
                    BY <2>0, <2>2, <5>1
                <5> QED
                    BY <5>1, <5>2 DEF c
            <4> DEFINE output == [reused |-> FALSE, spent_height |-> v]
            <4>3. output.reused = FALSE /\ output.spent_height = v
                OBVIOUS
            <4> HIDE DEF output
            <4>4. ~R!OmitOutput(h, output, f)
                BY <4>1, <4>2, <4>3 DEF R!OmitOutput
            <4> QED
                BY <4>4 DEF output
        <3>2. Kept(Unspent)
            BY DEF R!OmitOutput
        <3> QED
            BY <2>2, <3>1, <3>2
    <2> QED
        BY <2>0, <2>1, <2>2
<1>5. Payload(file, f)
          = [block |-> file.block, outputs |-> {i \in DOMAIN sh : Kept(sh[i])}, spent |-> Listed]
    BY DEF Payload
<1>6. Payload(SeenAt(file, n), f)
          = [block |-> file.block, outputs |-> {i \in DOMAIN seen : Kept(seen[i])}, spent |-> Listed]
    BY <1>1 DEF Payload
<1> HIDE DEF Kept, Listed, sh
<1>7. {i \in DOMAIN sh : Kept(sh[i])} = {i \in DOMAIN seen : Kept(seen[i])}
    BY <1>2, <1>4
<1> QED
    BY <1>5, <1>6, <1>7

\* So a filtered file of a committed height is right at every moment.
LEMMA PayloadExact ==
    ASSUME IInv, Ledger, Published
    PROVE  PayloadsRight
<1> SUFFICES ASSUME NEW n \in Committed, NEW h \in Committed, NEW f \in Filters, h <= n, Fits(f, n)
             PROVE  Payload(files[h], f) = Payload(Archive!ViewOf(Part(n))[h - EmitStart + 1], f)
    BY DEF PayloadsRight
<1> DEFINE i == h - EmitStart + 1
<1>1. i \in 1..Len(Part(n)) /\ EmitStart + i - 1 = h
    BY PartShape
<1>2. files[h] \in Stored /\ n \in Nat /\ n <= MaxHeight
    BY CommittedFiles, ConstantsAssumption DEF Heights
<1> HIDE DEF i
<1>3. Archive!ViewOf(Part(n))[i] = SeenAt(files[h], n)
    BY <1>1, PartExact
<1> QED
    BY <1>2, <1>3, PayloadSeen DEF i

\* A committed height keeps its block.
LEMMA BlocksKept ==
    ASSUME IInv, Ledger, [Next]_vars, NEW h \in Committed
    PROVE  h \in Committed' /\ files'[h].block = files[h].block
<1>1. Archived[h].block = files[h].block
    BY EntryFields DEF Archived
<1>2. CASE Commit
    <2>1. files' = files /\ Committed' = DOMAIN History /\ h \in DOMAIN History
        BY <1>2, CommitHistory, Histories DEF Commit
    <2> QED
        BY <2>1
<1>3. CASE ~Commit
    <2>1. Archived' = Archived /\ Committed' = Committed
        BY <1>3, ArchiveKept
    <2>2. Archived'[h] = Entry(files'[h].block, files'[h].first_uid)
        BY <2>1 DEF Archived
    <2> QED
        BY <1>1, <2>1, <2>2, EntryFields
<1> QED
    BY <1>2, <1>3

\* And its filtered content, although mark_spent_outputs rewrites the file.
LEMMA PayloadKept ==
    ASSUME IInv, Ledger, Published, PayloadsRight, PayloadsRight', [Next]_vars,
           NEW n \in Committed, NEW h \in Committed, h <= n, NEW f \in Filters, Fits(f, n)
    PROVE  Payload(files'[h], f) = Payload(files[h], f)
<1>1. \A g \in Committed : g \in Committed' /\ files'[g].block = files[g].block
    BY BlocksKept
<1>2. /\ Len(Part(n)) = n - EmitStart + 1
      /\ \A i \in 1..Len(Part(n)) : EmitStart + i - 1 \in Committed
    BY PartShape
<1>3. Part(n)' = Part(n)
    BY <1>1, <1>2 DEF Part
<1>4. Payload(files'[h], f) = Payload(Archive!ViewOf(Part(n)')[h - EmitStart + 1], f)
    BY <1>1 DEF PayloadsRight
<1>5. Payload(files[h], f) = Payload(Archive!ViewOf(Part(n))[h - EmitStart + 1], f)
    BY DEF PayloadsRight
<1> QED
    BY <1>3, <1>4, <1>5

\* The manifest never goes back to a lower height.
LEMMA NamedKept ==
    ASSUME IInv, Ledger, [Next]_vars, NEW n \in Committed, WasNamed(n)
    PROVE  n \in Committed' /\ WasNamed(n)'
<1>1. n \in Committed'
    BY BlocksKept
<1>2. CASE manifest' = manifest \/ manifest' = Torn
    BY <1>1, <1>2, BlockAssumption DEF WasNamed
<1>3. CASE WriteManifest
    <2>1. manifest' = tip
        BY <1>3 DEF WriteManifest, ManifestTip, IInv, StagesInOrder
    <2>2. n <= Height[tip]
        BY BlockAssumption, ConstantsAssumption DEF Committed, IInv, TypeOK, Heights
    <2> QED
        BY <1>1, <2>1, <2>2 DEF WasNamed
<1>4. manifest' = manifest \/ manifest' = Torn \/ WriteManifest
    BY DEF Next, Indexer, vars, disk, NodeAdopts, Start, PollHeight, OpenWindow, CaughtUp,
           TipChanged, FetchBlock, ResolveChunk, RejectChunk, ApplyBlock, EndChunk, WriteFile,
           StartMarking, MarkFile, Commit, TruncateManifest, Crash
<1> QED
    BY <1>2, <1>3, <1>4

\* Blocks of a response stay the files of the archive.
LEMMA FromFilesKept ==
    ASSUME IInv, Ledger, Published, PayloadsRight, PayloadsRight', [Next]_vars,
           NEW r, NEW n \in Committed, NEW f, NEW o, FromFiles(r, n, f, o)
    PROVE  /\ o \in Seq(Payloads) /\ f \in Filters /\ Fits(f, n)
           /\ \A i \in 1..Len(o) : /\ r.start + i - 1 \in Committed' /\ r.start + i - 1 <= n
                                   /\ o[i] = Payload(files'[r.start + i - 1], f)
<1>1. ASSUME NEW i \in 1..Len(o)
      PROVE  /\ r.start + i - 1 \in Committed' /\ r.start + i - 1 <= n
             /\ o[i] = Payload(files'[r.start + i - 1], f)
    <2> DEFINE h == r.start + i - 1
    <2>1. /\ h \in Committed /\ h <= n /\ o[i] = Payload(files[h], f)
          /\ f \in Filters /\ Fits(f, n)
        BY DEF FromFiles
    <2> HIDE DEF h
    <2>2. h \in Committed' /\ Payload(files'[h], f) = Payload(files[h], f)
        BY <2>1, BlocksKept, PayloadKept
    <2> QED
        BY <2>1, <2>2 DEF h
<1> QED
    BY <1>1 DEF FromFiles

\* Files are written from EmitStart on.
LEMMA NoneBelowStep ==
    ASSUME IInv, NoneBelow, [Next]_vars
    PROVE  NoneBelow'
<1>1. CASE files' = files
    BY <1>1 DEF NoneBelow
<1>2. CASE WriteFile
    <2> DEFINE g == Height[pending[wr + 1].block]
    <2>1. InWindow /\ wr + 1 \in 1..Len(pending) /\ wr \in Nat
        <3>1. wr \in Nat /\ Len(pending) \in Nat
            BY LenProperties DEF IInv, TypeOK
        <3> QED
            BY <1>2, <3>1 DEF WriteFile, InWindow
    <2>2. g = next + (wr + 1) - 1 /\ EmitStart <= next /\ next \in Nat /\ EmitStart \in Nat
        BY <2>1, PendingHeights, WindowShape
    <2>3. files' = [files EXCEPT ![g] = FileOf(pending[wr + 1])]
        BY <1>2 DEF WriteFile
    <2>4. g >= EmitStart /\ files \in [Heights -> Stored \cup {NoFile}]
        BY <2>1, <2>2 DEF IInv, TypeOK
    <2> HIDE DEF g
    <2> QED
        BY <2>2, <2>3, <2>4, ConstantsAssumption DEF NoneBelow, Heights
<1>3. ASSUME NEW g \in Heights, MarkFile(g) PROVE NoneBelow'
    <2>1. files' = files \/ (files[g] # NoFile /\ files' = [files EXCEPT ![g] = Marked(files[g], g)])
        BY <1>3 DEF MarkFile
    <2>2. files \in [Heights -> Stored \cup {NoFile}]
        BY DEF IInv, TypeOK
    <2> QED
        BY <2>1, <2>2 DEF NoneBelow
<1>4. files' = files \/ WriteFile \/ \E g \in Heights : MarkFile(g)
    BY DEF Next, Indexer, vars, disk, NodeAdopts, Start, PollHeight, OpenWindow, CaughtUp,
           TipChanged, FetchBlock, ResolveChunk, RejectChunk, ApplyBlock, EndChunk,
           StartMarking, Commit, TruncateManifest, WriteManifest, Crash
<1> QED
    BY <1>1, <1>2, <1>3, <1>4
-----------------------------------------------------------------------------
(* The handler *)

\* What read_block_filtered returns.
LEMMA PayloadType ==
    ASSUME NEW file \in Stored, NEW f
    PROVE  Payload(file, f) \in Payloads
<1>1. /\ file.block \in Block /\ file.spent_height \in Seq(0..Unspent)
      /\ file.spends \in SUBSET [uid : Nat, creation_height : Heights]
    BY DEF Stored
<1>2. DOMAIN file.spent_height \subseteq Nat
    BY <1>1, LenProperties
<1>3. \A e \in file.spends : e.uid \in Nat
    BY <1>1
<1> QED
    BY <1>1, <1>2, <1>3 DEF Payload, Payloads

\* The fields of a request.
LEMMA RequestFields ==
    ASSUME NEW r \in Requests
    PROVE  /\ r.start \in Nat /\ r.count \in Nat \ {0}
           /\ r.cutthrough_start \in Option(Heights) /\ r.cutthrough_tip \in Option(Heights)
<1>1. r \in [kind : {"tip", "single", "range"}, start : Heights, count : Nat \ {0},
             cutthrough_start : Option(Heights), cutthrough_tip : Option(Heights)]
    BY RequestsAssumption
<1> QED
    BY <1>1, ConstantsAssumption DEF Heights

\* A committed height is a height.
LEMMA CommittedHeights ==
    ASSUME IInv
    PROVE  Committed \subseteq Heights /\ Heights \subseteq Nat
BY BlockAssumption, ConstantsAssumption, SMTT(40) DEF Committed, IInv, TypeOK, Heights

\* The filter of an acceptable request asks for nothing above the tip
\* (resolve_cutthrough_tip).
LEMMA AcceptableFits ==
    ASSUME IInv, NEW r \in Requests, NEW n \in Committed, Q!Acceptable(r, n)
    PROVE  FilterOf(r, n) \in Filters /\ Fits(FilterOf(r, n), n)
<1> DEFINE c == Q!ResolvedTip(r, n)
<1>1. n \in Heights /\ None \notin Heights
    BY CommittedHeights, RequestsAssumption
<1>2. r.cutthrough_start \in Option(Heights) /\ r.cutthrough_tip \in Option(Heights)
    BY RequestFields
<1>3. c \in Option(Heights)
    BY <1>1, <1>2 DEF Q!ResolvedTip, Option
<1>4. r.cutthrough_start # None => c \in Heights /\ c # None /\ c <= n
    BY <1>1, <1>2 DEF Q!ResolvedTip, Q!Acceptable, Option
<1>5. FilterOf(r, n)
          = [cutthrough_start |-> r.cutthrough_start, cutthrough_tip |-> c, filter_reuse |-> FALSE]
    BY DEF FilterOf
<1> HIDE DEF c
<1>6. FilterOf(r, n) \in Filters
    BY <1>2, <1>3, <1>5 DEF Filters
<1> QED
    BY <1>4, <1>5, <1>6 DEF Fits

\* An empty response without a filter.
LEMMA NothingSent ==
    /\ NoFilter \in Filters /\ \A n : Fits(NoFilter, n)
    /\ << >> \in Seq(Payloads) /\ \A i \in 1..Len(<< >>) : FALSE
<1>1. NoFilter \in Filters /\ NoFilter.cutthrough_start = None
    BY DEF NoFilter, Filters, Option
<1>2. << >> \in Seq(Payloads) /\ \A i \in 1..Len(<< >>) : FALSE
    OBVIOUS
<1> QED
    BY <1>1, <1>2 DEF Fits

\* A handler's step leaves the archive alone.
LEMMA ServerKeeps ==
    ASSUME Server
    PROVE  UNCHANGED vars
BY DEF Server, ReadTip, ScanTip, ReadManifest, ReadFile, Respond, Fail, Delivered

\* What is said of the archive then carries over.
LEMMA ServerFrame ==
    ASSUME UNCHANGED vars
    PROVE  /\ files' = files /\ manifest' = manifest /\ Committed' = Committed
           /\ (NoneBelow => NoneBelow')
BY DEF vars, disk, Committed, NoneBelow

\* One more block file (read_block_filtered).
LEMMA ReadFileRight ==
    ASSUME IInv, NoneBelow, HandlerRight, named, ReadFile
    PROVE  HandlerRight'
<1> DEFINE h == req.start + Len(out)
           new == Payload(files[h], filter)
<1>1. /\ at = "read" /\ h <= Q!RequestedEnd(req, top) /\ files[h] # NoFile
      /\ out' = Append(out, new) /\ UNCHANGED vars
      /\ UNCHANGED <<at, req, top, named, filter, cache>>
    BY DEF ReadFile
<1>2. /\ WasNamed(top) /\ top \in Committed /\ req \in Requests
      /\ out \in Seq(Payloads) /\ filter \in Filters /\ Fits(filter, top)
      /\ \A i \in 1..Len(out) : /\ req.start + i - 1 \in Committed /\ req.start + i - 1 <= top
                                /\ out[i] = Payload(files[req.start + i - 1], filter)
    BY DEF HandlerRight, WasNamed, FromFiles
<1>3. Len(out) \in Nat /\ req.start \in Nat /\ req.count \in Nat /\ top \in Nat /\ h \in Nat
    BY <1>2, RequestFields, CommittedHeights, LenProperties
<1>4. h <= top
    BY <1>1, <1>3 DEF Q!RequestedEnd, Q!Least
<1>5. h \in Heights
    BY <1>2, <1>3, <1>4, CommittedHeights, ConstantsAssumption DEF Heights
<1>6. files[h] \in Stored /\ h >= EmitStart
    <2>1. files[h] \in Stored
        BY <1>1, <1>5 DEF IInv, TypeOK
    <2>2. ~(h < EmitStart)
        BY <1>1, <1>5 DEF NoneBelow
    <2> QED
        BY <1>3, <2>1, <2>2, ConstantsAssumption DEF Heights
<1>7. h \in Committed
    BY <1>2, <1>3, <1>4, <1>6, BlockAssumption, ConstantsAssumption
       DEF Committed, IInv, TypeOK, Heights
<1>8. new \in Payloads
    BY <1>6, PayloadType
<1>9. /\ out' \in Seq(Payloads) /\ Len(out') = Len(out) + 1 /\ out'[Len(out) + 1] = new
      /\ \A i \in 1..Len(out) : out'[i] = out[i]
    <2> HIDE DEF new
    <2> QED
        BY <1>1, <1>2, <1>8
<1>10. ASSUME NEW i \in 1..Len(out')
       PROVE  /\ req.start + i - 1 \in Committed /\ req.start + i - 1 <= top
              /\ out'[i] = Payload(files[req.start + i - 1], filter)
    <2>1. CASE i \in 1..Len(out)
        BY <1>2, <1>9, <2>1
    <2>2. CASE i = Len(out) + 1
        <3>1. req.start + i - 1 = h
            BY <1>3, <2>2
        <3> QED
            BY <1>4, <1>7, <1>9, <2>2, <3>1
    <2> QED
        BY <1>3, <1>9, <2>1, <2>2
<1>11. files' = files /\ manifest' = manifest /\ Committed' = Committed
    BY <1>1, ServerFrame
<1>12. FromFiles(req, top, filter, out)'
    BY <1>1, <1>2, <1>9, <1>10, <1>11 DEF FromFiles
<1>13. WasNamed(top)'
    BY <1>1, <1>2, <1>11 DEF WasNamed
<1> QED
    BY <1>1, <1>12, <1>13 DEF HandlerRight

\* Every step of a handler keeps the handler right.
LEMMA HandlerStep ==
    ASSUME IInv, NoneBelow, HandlerRight, Server
    PROVE  HandlerRight'
<1>1. files' = files /\ manifest' = manifest /\ Committed' = Committed
    BY ServerKeeps, ServerFrame
<1>2. ASSUME NEW r \in Requests, ReadTip(r) PROVE HandlerRight'
    <2>1. /\ named = FALSE /\ filter = NoFilter /\ out = << >> /\ filter' = filter /\ out' = out
          /\ req' = r
        BY <1>2 DEF HandlerRight, ReadTip
    <2>2. CASE manifest \in Block
        <3>1. top' = Height[manifest] /\ at' \in {"done", "manifest"}
            BY <1>2, <2>2 DEF ReadTip
        <3>2. WasNamed(top)'
            <4>1. Height[manifest] \in Committed /\ Height[manifest] \in Nat
                BY <2>2, CommittedHeights DEF IInv, ManifestBehindTip
            <4> QED
                BY <1>1, <3>1, <4>1 DEF WasNamed
        <3>3. FromFiles(req, top, filter, out)'
            BY <2>1, NothingSent DEF FromFiles
        <3> QED
            BY <1>2, <2>1, <2>2, <3>1, <3>2, <3>3 DEF HandlerRight, ReadTip
    <2>3. CASE manifest \notin Block
        BY <1>2, <2>1, <2>3 DEF HandlerRight, ReadTip
    <2> QED
        BY <2>2, <2>3
<1>3. CASE ScanTip
    BY <1>3 DEF HandlerRight, ScanTip
<1>4. CASE ReadManifest
    <2>1. /\ at = "manifest" /\ Q!Acceptable(req, top) /\ filter' = FilterOf(req, top)
          /\ at' = "read" /\ UNCHANGED <<req, top, named, out>>
        BY <1>4 DEF ReadManifest
    <2>2. out = << >> /\ req \in Requests
        BY <2>1 DEF HandlerRight
    <2>3. ASSUME named PROVE WasNamed(top)' /\ FromFiles(req, top, filter, out)'
        <3>1. WasNamed(top) /\ top \in Committed
            BY <2>3 DEF HandlerRight, WasNamed
        <3>2. FilterOf(req, top) \in Filters /\ Fits(FilterOf(req, top), top)
            BY <2>1, <2>2, <3>1, AcceptableFits
        <3>3. FromFiles(req, top, filter, out)'
            BY <2>1, <2>2, <3>2, NothingSent DEF FromFiles
        <3> QED
            BY <1>1, <2>1, <3>1, <3>3 DEF WasNamed
    <2> QED
        BY <2>1, <2>2, <2>3 DEF HandlerRight
<1>5. CASE ReadFile
    <2>1. CASE named
        BY <1>5, <2>1, ReadFileRight
    <2>2. CASE ~named
        BY <1>5, <2>2 DEF HandlerRight, ReadFile
    <2> QED
        BY <2>1, <2>2
<1>6. CASE Respond
    <2>1. at' = "done" /\ UNCHANGED <<req, top, named, filter, out>>
        BY <1>6 DEF Respond
    <2>2. named => WasNamed(top)' /\ FromFiles(req, top, filter, out)'
        BY <1>1, <2>1 DEF HandlerRight, WasNamed, FromFiles
    <2> QED
        BY <2>1, <2>2 DEF HandlerRight
<1>7. CASE Fail \/ Delivered
    BY <1>7 DEF HandlerRight, Fail, Delivered, Rest
<1> QED
    BY <1>2, <1>3, <1>4, <1>5, <1>6, <1>7 DEF Server

\* Only the response changes what the cache holds.
LEMMA CacheStep ==
    ASSUME IInv, HandlerRight, CacheRight, Server
    PROVE  CacheRight'
<1>1. files' = files /\ manifest' = manifest /\ Committed' = Committed
    BY ServerKeeps, ServerFrame
<1>2. CASE cache' = cache
    BY <1>1, <1>2 DEF CacheRight, WasNamed, FromFiles
<1>3. CASE Respond /\ cache' # cache
    <2>1. /\ at = "read" /\ cache' = [req |-> req, out |-> out, named |-> named]
          /\ Q!Cacheable(req, top, req.start + Len(out) - 1, FinalityDepth)
        BY <1>3 DEF Respond
    <2>2. cache'.req = req /\ cache'.out = out /\ cache'.named = named
        BY <2>1
    <2>3. CASE named
        <3>1. /\ WasNamed(top) /\ top \in Committed /\ Q!Acceptable(req, top) /\ req \in Requests
              /\ FromFiles(req, top, FilterOf(req, top), out)
            BY <2>1, <2>3 DEF HandlerRight, WasNamed
        <3>2. req.cutthrough_start # None => req.cutthrough_tip # None
            BY <2>1 DEF Q!Cacheable
        <3>3. \E n \in Committed' : /\ n \in Committed' /\ (manifest' \in Block => n <= Height[manifest'])
                                    /\ Q!Acceptable(cache'.req, n)
                                    /\ FromFiles(req, n, FilterOf(req, n), out)
            BY <1>1, <2>2, <3>1 DEF WasNamed
        <3> QED
            BY <1>1, <2>2, <3>1, <3>2, <3>3 DEF CacheRight, WasNamed, FromFiles
    <2>4. CASE ~named
        <3>1. named = FALSE
            BY <2>4 DEF HandlerRight
        <3> QED
            BY <2>2, <3>1 DEF CacheRight
    <2> QED
        BY <2>3, <2>4
<1> QED
    BY <1>2, <1>3 DEF Server, ReadTip, ScanTip, ReadManifest, ReadFile, Respond, Fail, Delivered
-----------------------------------------------------------------------------
(* Theorems *)

\* The indexer's steps keep what handlers and caches hold right: the content
\* behind a filter that fits does not change.
LEMMA IndexerStep ==
    ASSUME IInv, Ledger, Published, PayloadsRight, PayloadsRight', ServingInv,
           [Next]_vars, UNCHANGED server
    PROVE  ServingInv'
<1>1. NoneBelow'
    BY NoneBelowStep DEF ServingInv
<1>2. UNCHANGED <<at, req, top, named, filter, out, cache>>
    BY DEF server
<1>3. HandlerRight'
    <2>1. ASSUME named PROVE WasNamed(top)' /\ FromFiles(req, top, filter, out)'
        <3>1. WasNamed(top) /\ top \in Committed /\ FromFiles(req, top, filter, out)
            BY <2>1 DEF ServingInv, HandlerRight, WasNamed
        <3>2. top \in Committed' /\ (manifest' \in Block => top <= Height[manifest'])
            BY <3>1, NamedKept DEF WasNamed
        <3>3. /\ out \in Seq(Payloads) /\ filter \in Filters /\ Fits(filter, top)
              /\ \A i \in 1..Len(out) : /\ req.start + i - 1 \in Committed'
                                        /\ req.start + i - 1 <= top
                                        /\ out[i] = Payload(files'[req.start + i - 1], filter)
            BY <3>1, FromFilesKept
        <3> QED
            BY <1>2, <3>2, <3>3 DEF WasNamed, FromFiles
    <2> QED
        BY <1>2, <2>1 DEF ServingInv, HandlerRight
<1>4. CacheRight'
    <2>1. CASE cache = None \/ cache.named = FALSE
        BY <1>2, <2>1 DEF CacheRight
    <2>2. CASE ~(cache = None \/ cache.named = FALSE)
        <3> DEFINE r == cache.req
        <3>1. r \in Requests /\ (r.cutthrough_start # None => r.cutthrough_tip # None)
            BY <2>2 DEF ServingInv, CacheRight
        <3>2. PICK n \in Committed : /\ WasNamed(n) /\ Q!Acceptable(r, n)
                                     /\ FromFiles(r, n, FilterOf(r, n), cache.out)
            BY <2>2 DEF ServingInv, CacheRight
        <3>3. n \in Committed' /\ WasNamed(n)'
            BY <3>2, NamedKept
        <3>4. FromFiles(r, n, FilterOf(r, n), cache.out)'
            <4>1. /\ cache.out \in Seq(Payloads) /\ FilterOf(r, n) \in Filters
                  /\ Fits(FilterOf(r, n), n)
                  /\ \A i \in 1..Len(cache.out) :
                        /\ r.start + i - 1 \in Committed' /\ r.start + i - 1 <= n
                        /\ cache.out[i] = Payload(files'[r.start + i - 1], FilterOf(r, n))
                <5>1. ASSUME NEW q, NEW f, NEW o, FromFiles(q, n, f, o)
                      PROVE  /\ o \in Seq(Payloads) /\ f \in Filters /\ Fits(f, n)
                             /\ \A i \in 1..Len(o) :
                                   /\ q.start + i - 1 \in Committed' /\ q.start + i - 1 <= n
                                   /\ o[i] = Payload(files'[q.start + i - 1], f)
                    BY <5>1, FromFilesKept
                <5> QED
                    BY <3>2, <5>1, SMTT(30)
            <4>2. cache'.req = cache.req /\ cache'.out = cache.out
                BY <1>2
            <4> QED
                BY <4>1, <4>2 DEF FromFiles
        <3> QED
            BY <1>2, <3>1, <3>2, <3>3, <3>4 DEF CacheRight
    <2> QED
        BY <2>1, <2>2
<1> QED
    BY <1>1, <1>3, <1>4 DEF ServingInv

\* Handlers only read: an archive that is served behaves as LightIndexer
\* (server.rs holds no writer).
THEOREM ServingIsIndexing == ServingSpec => Spec
<1>1. ServingInit => Init
    BY DEF ServingInit
<1>2. [ServingNext]_<<vars, server>> => [Next]_vars
    BY ServerKeeps DEF ServingNext
<1> QED
    BY <1>1, <1>2, PTL DEF ServingSpec, Spec

\* The invariant of the server and of the caches behind it, in every run
\* whose reorganisations stay within the finality depth.
THEOREM ServingInvariant ==
    ASSUME ReorgDepth <= FinalityDepth
    PROVE  ServingSpec => [](ServingInv /\ IInv /\ PayloadsRight)
<1>1. ASSUME ServingInit PROVE ServingInv
    <2>1. NoneBelow
        BY <1>1 DEF ServingInit, Init, NoneBelow
    <2>2. HandlerRight /\ CacheRight
        BY <1>1 DEF ServingInit, ServerInit, HandlerRight, CacheRight
    <2> QED
        BY <2>1, <2>2 DEF ServingInv
<1>2. ASSUME IInv, Ledger, Published, PayloadsRight, PayloadsRight', ServingInv,
             [ServingNext]_<<vars, server>>
      PROVE  ServingInv'
    <2>1. CASE Server
        BY <1>2, <2>1, ServerKeeps, ServerFrame, HandlerStep, CacheStep DEF ServingInv
    <2>2. CASE [Next]_vars /\ UNCHANGED server
        BY <1>2, <2>2, IndexerStep
    <2> QED
        BY <1>2, <2>1, <2>2 DEF ServingNext
<1>3. Spec => []IInv /\ []Ledger /\ []Published
    BY Invariant, LedgerInvariant, PublishedInvariant
<1>4. ASSUME IInv, Ledger, Published PROVE PayloadsRight
    BY <1>4, PayloadExact
<1> QED
    BY <1>1, <1>2, <1>3, <1>4, ServingIsIndexing, PTL DEF ServingSpec

\* A response whose tip the manifest named is exact, although its files were
\* read, and rewritten, at different moments (block_range).
THEOREM ResponsesStayExact ==
    ASSUME ReorgDepth <= FinalityDepth
    PROVE  ServingSpec => []ResponsesExact
<1>1. ASSUME ServingInv, IInv, PayloadsRight PROVE ResponsesExact
    <2> SUFFICES ASSUME named, NEW i \in 1..Len(out)
                 PROVE  out[i] = Payload(Recomputed(top)[req.start + i - EmitStart], filter)
        BY DEF ResponsesExact, ResponseExact
    <2> DEFINE h == req.start + i - 1
    <2>1. /\ top \in Committed /\ h \in Committed /\ h <= top /\ out[i] = Payload(files[h], filter)
          /\ filter \in Filters /\ Fits(filter, top) /\ req \in Requests /\ out \in Seq(Payloads)
        BY <1>1 DEF ServingInv, HandlerRight, WasNamed, FromFiles
    <2>2. Payload(files[h], filter) = Payload(Archive!ViewOf(Part(top))[h - EmitStart + 1], filter)
        BY <1>1, <2>1 DEF PayloadsRight
    <2>3. h - EmitStart + 1 = req.start + i - EmitStart
        <3>1. req.start \in Nat /\ EmitStart \in Nat /\ Len(out) \in Nat
            BY <2>1, RequestFields, ConstantsAssumption, LenProperties DEF Heights
        <3> QED
            BY <3>1
    <2>4. Archive!ViewOf(Part(top)) = Recomputed(top)
        BY DEF Recomputed, Part
    <2> HIDE DEF h
    <2> QED
        BY <2>1, <2>2, <2>3, <2>4
<1> QED
    BY <1>1, ServingInvariant, PTL

\* What an HTTP cache keeps as immutable stays what the server would send
\* (filtered_cache_control).
THEOREM ImmutableAlwaysFresh ==
    ASSUME ReorgDepth <= FinalityDepth
    PROVE  ServingSpec => []ImmutableStaysFresh
<1>1. ASSUME ServingInv, IInv PROVE ImmutableStaysFresh
    <2> DEFINE r == cache.req
               m == Height[manifest]
    <2> SUFFICES ASSUME manifest \in Block, cache # None, cache.named
                 PROVE  /\ Overreaches(r) \/ Q!Acceptable(r, m)
                        /\ \A i \in 1..Len(cache.out) :
                              cache.out[i] = Payload(files[r.start + i - 1], FilterOf(r, m))
        BY DEF ImmutableStaysFresh
    <2>1. r \in Requests /\ (r.cutthrough_start # None => r.cutthrough_tip # None)
        BY <1>1 DEF ServingInv, CacheRight
    <2>2. PICK n \in Committed : /\ n <= m /\ Q!Acceptable(r, n)
                                 /\ FromFiles(r, n, FilterOf(r, n), cache.out)
        BY <1>1 DEF ServingInv, CacheRight, WasNamed
    <2>3. n \in Nat /\ m \in Nat /\ Heights \subseteq Nat /\ None \notin Heights
        BY <1>1, CommittedHeights, RequestsAssumption, BlockAssumption
    <2>4. /\ r.start \in Nat /\ r.count \in Nat
          /\ r.cutthrough_start \in Option(Heights) /\ r.cutthrough_tip \in Option(Heights)
        BY <2>1, RequestFields
    <2> HIDE DEF r, m
    <2>5. Q!ResolvedTip(r, m) = Q!ResolvedTip(r, n)
        BY <2>1 DEF Q!ResolvedTip
    <2>6. FilterOf(r, m) = FilterOf(r, n)
        BY <2>5 DEF FilterOf
    <2>7. Overreaches(r) \/ Q!Acceptable(r, m)
        <3>1. CASE r.cutthrough_start = None
            BY <2>2, <2>3, <2>4, <3>1 DEF Q!Acceptable
        <3>2. CASE r.cutthrough_start # None /\ ~Overreaches(r)
            <4> DEFINE c == r.cutthrough_tip
            <4>1. c \in Nat /\ Q!ResolvedTip(r, m) = c /\ Q!ResolvedTip(r, n) = c
                BY <2>1, <2>3, <2>4, <3>2 DEF Q!ResolvedTip, Option
            <4>2. r.cutthrough_start \in Nat
                BY <2>3, <2>4, <3>2 DEF Option
            <4>3. r.start + r.count - 1 <= c
                BY <2>1, <2>4, <3>2, <4>1 DEF Overreaches
            <4> HIDE DEF c
            <4>4. Q!RequestedEnd(r, m) <= c
                BY <2>3, <2>4, <4>1, <4>3 DEF Q!RequestedEnd, Q!Least
            <4> QED
                BY <2>2, <2>3, <2>4, <3>2, <4>1, <4>2, <4>4 DEF Q!Acceptable
        <3> QED
            BY <3>1, <3>2
    <2> QED
        BY <2>2, <2>6, <2>7 DEF FromFiles, r
<1> QED
    BY <1>1, ServingInvariant, PTL
=============================================================================
