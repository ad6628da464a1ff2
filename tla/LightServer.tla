----------------------------- MODULE LightServer -----------------------------
(***************************************************************************)
(* The HTTP handlers of light-server (server.rs) over the file archive,    *)
(* reading while the indexer process publishes.  A handler is several      *)
(* reads: tip() (manifest.json or, failing that, the names of the block    *)
(* files), manifest(), then one block file after the other.  The indexer   *)
(* may take any number of steps between two of them.                       *)
(*                                                                         *)
(* One request is in flight at a time: handlers share no state but the     *)
(* archive.  The outputs and spends of a block stand for its payload.      *)
(***************************************************************************)
EXTENDS LightIndexer

CONSTANTS
    None,     \* Option::None
    Requests  \* the requests clients make (parameters after URL decoding)

Option(S) == S \cup {None}

\* kind "tip" has no parameters, "single" has count 1.
ASSUME RequestsAssumption ==
    /\ None \notin Heights
    /\ Requests \subseteq [kind : {"tip", "single", "range"}, start : Heights, count : Nat \ {0},
                           cutthrough_start : Option(Heights), cutthrough_tip : Option(Heights)]

VARIABLES
    at,       \* where the handler is
    req,      \* the request being handled
    top,      \* height of the tip the handler read
    named,    \* the tip came from manifest.json and not from file names
    filter,   \* cutthrough_start and the resolved cutthrough_tip
    out,      \* the blocks of the response so far
    cache     \* the last response sent as immutable, in some HTTP cache

server == <<at, req, top, named, filter, out, cache>>
-----------------------------------------------------------------------------
R == INSTANCE CutThrough WITH NeverSpent <- Unspent

Q == INSTANCE LightRequest

NoFilter == [cutthrough_start |-> None, cutthrough_tip |-> None, filter_reuse |-> FALSE]

\* The filter of request r at tip height n.
FilterOf(r, n) ==
    [cutthrough_start |-> r.cutthrough_start, cutthrough_tip |-> Q!ResolvedTip(r, n),
     filter_reuse |-> FALSE]

\* read_block_filtered of a stored file: the dense indexes of the outputs
\* kept, and the spent UIDs.
Payload(file, f) ==
    LET h == Height[file.block]
    IN  [block |-> file.block,
         outputs |-> {i \in DOMAIN file.spent_height :
                         ~R!OmitOutput(h, [reused |-> FALSE, spent_height |-> file.spent_height[i]], f)},
         spent |-> {s.uid : s \in {e \in file.spends : ~R!OmitSpend(h, e, f)}}]

FileHeights == {h \in Heights : files[h] # NoFile}

-----------------------------------------------------------------------------
\* No request: what the variables hold between two requests.
Rest ==
    /\ at' = "idle" /\ top' = 0 /\ named' = FALSE /\ filter' = NoFilter /\ out' = << >>

ServerInit ==
    /\ at = "idle" /\ req \in Requests /\ top = 0 /\ named = FALSE
    /\ filter = NoFilter /\ out = << >> /\ cache = None

\* FileArchive::tip, first half: a readable manifest names the tip.
ReadTip(r) ==
    /\ at = "idle"
    /\ req' = r
    /\ IF manifest \in Block
       THEN /\ top' = Height[manifest] /\ named' = TRUE
            /\ at' = IF r.kind = "tip" THEN "done" ELSE "manifest"
       ELSE /\ at' = "scan" /\ UNCHANGED <<top, named>>
    /\ UNCHANGED <<vars, filter, out, cache>>

\* tip_from_files: the highest block file, whoever wrote it; no file is
\* "archive has no served tip".
ScanTip ==
    /\ at = "scan"
    /\ FileHeights # {}
    /\ top' = CHOOSE h \in FileHeights : \A k \in FileHeights : k <= h
    /\ at' = IF req.kind = "tip" THEN "done" ELSE "manifest"
    /\ UNCHANGED <<vars, req, named, filter, out, cache>>

\* archive.manifest() and the request checks.
ReadManifest ==
    /\ at = "manifest"
    /\ manifest \in Block
    /\ Q!Acceptable(req, top)
    /\ filter' = FilterOf(req, top)
    /\ at' = "read"
    /\ UNCHANGED <<vars, req, top, named, out, cache>>

\* One block file; a missing file fails the request.
ReadFile ==
    /\ at = "read"
    /\ req.start + Len(out) <= Q!RequestedEnd(req, top)
    /\ files[req.start + Len(out)] # NoFile
    /\ out' = Append(out, Payload(files[req.start + Len(out)], filter))
    /\ UNCHANGED <<vars, at, req, top, named, filter, cache>>

\* The response is sent: at the requested end, or earlier at the byte cap,
\* but never empty.
Respond ==
    /\ at = "read"
    /\ out # << >>
    /\ at' = "done"
    /\ cache' = IF Q!Cacheable(req, top, req.start + Len(out) - 1, FinalityDepth)
                THEN [req |-> req, out |-> out, named |-> named] ELSE cache
    /\ UNCHANGED <<vars, req, top, named, filter, out>>

\* An error response: no tip, unreadable manifest, refused request, or a
\* missing file.
Fail ==
    /\ \/ at = "scan" /\ FileHeights = {}
       \/ at = "manifest" /\ ~(manifest \in Block /\ Q!Acceptable(req, top))
       \/ at = "read" /\ req.start + Len(out) <= Q!RequestedEnd(req, top)
          /\ files[req.start + Len(out)] = NoFile
    /\ Rest
    /\ UNCHANGED <<vars, req, cache>>

Delivered ==
    /\ at = "done"
    /\ Rest
    /\ UNCHANGED <<vars, req, cache>>

Server ==
    \/ \E r \in Requests : ReadTip(r)
    \/ ScanTip \/ ReadManifest \/ ReadFile \/ Respond \/ Fail \/ Delivered

ServingInit == Init /\ ServerInit

ServingNext == (Next /\ UNCHANGED server) \/ Server

ServingSpec == ServingInit /\ [][ServingNext]_<<vars, server>>
-----------------------------------------------------------------------------
(* Properties *)

\* What the blocks of the archive up to height n create and spend, recomputed
\* from the blocks themselves.
Recomputed(n) == Archive!ViewOf([i \in 1..(n - EmitStart + 1) |-> files[EmitStart + i - 1].block])

\* Every block of the response is what its chain yields at the response's
\* cut-through tip.
ResponseExact ==
    \A i \in 1..Len(out) : out[i] = Payload(Recomputed(top)[req.start + i - EmitStart], filter)

\* A response whose tip came from the manifest is exact, although its files
\* were read, and rewritten by mark_spent_outputs, at different moments
\* (block_range, read_block_filtered).
ResponsesExact == at \in {"read", "done"} /\ named => ResponseExact

\* The count of a cut-through range goes past its explicit cutthrough_tip.
Overreaches(r) ==
    /\ r.cutthrough_start # None /\ r.cutthrough_tip # None
    /\ r.start + r.count - 1 > r.cutthrough_tip

\* A response sent with "immutable", its tip from the manifest, is still what
\* the server would send for the same request now ("historical blocks older
\* than finality_depth can be cached immutable").  A range that overreaches
\* is refused once the tip no longer clips it, but its blocks are the same.
ImmutableStaysFresh ==
    manifest \in Block /\ cache # None /\ cache.named =>
        LET r == cache.req
        IN  /\ Overreaches(r) \/ Q!Acceptable(r, Height[manifest])
            /\ \A i \in 1..Len(cache.out) :
                   cache.out[i] = Payload(files[r.start + i - 1], FilterOf(r, Height[manifest]))

\* "Extra files above the committed tip are harmless after a crash; the
\* RocksDB tip remains the recovery boundary": a response is exact even when
\* manifest.json was unreadable at first and the tip came from file names
\* (light_indexer.rs, FileArchive::tip).
ExtraFilesHarmless == at \in {"read", "done"} => ResponseExact
=============================================================================
