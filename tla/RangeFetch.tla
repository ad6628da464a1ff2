----------------------------- MODULE RangeFetch -----------------------------
(***************************************************************************)
(* The batched block stream of core/src/pipeline.rs over the range fetches *)
(* of its sources.  A stream of Count heights is cut into batches; up to   *)
(* Buffer batches are in flight and are yielded in order.  Answers of a    *)
(* batch come in any order, are tagged, and are put back in order:         *)
(*   rest     all hashes concurrently, then the block and undo data of     *)
(*            each hash, sorted by position (sources/src/rest.rs);         *)
(*   rpc      one JSON-RPC batch for the hashes and one for the blocks,    *)
(*            matched by request id (sources/src/rpc_client.rs);           *)
(*   heights  each height on its own, its hash and then what hangs on it,  *)
(*            sorted by height (core/src/source.rs, stats/src/scan.rs);    *)
(*   ipc      the same with one call that answers hash and block together  *)
(*            (sources/src/ipc.rs);                                        *)
(*   indexer  ipc frames completed with undo data that another source has  *)
(*            for their hashes (light-server/src/bin/light_indexer.rs).    *)
(* The node may change its active chain between any two answers.           *)
(***************************************************************************)
EXTENDS Naturals, SequencesExt

CONSTANTS
    Chains,      \* active chains of the node; c[h] is the block at height h
    Start,       \* start_height
    Count,       \* heights of the stream
    BatchSize,   \* batch_size
    Buffer,      \* buffer
    NoUndo       \* spent_txouts: None

ASSUME StreamAssumption ==
    /\ Start \in Nat \ {0} /\ Count \in Nat \ {0}
    /\ BatchSize \in Nat \ {0} /\ Buffer \in Nat \ {0}

VARIABLES
    kind,        \* the kind of source
    node,        \* active chain
    fetching,    \* batch -> [stage, hashes, blocks, undo], answers in arrival order
    yielded,     \* batches yielded
    frames,      \* frames the consumer received
    failed       \* the consumer received an error and stopped

fetchVars == <<kind, node, fetching, yielded, frames, failed>>

\* count.div_ceil(batch_size).
Batches == (Count + BatchSize - 1) \div BatchSize
BatchStart(k) == Start + (k - 1) * BatchSize

\* remaining.min(batch_size).
ThisCount(k) == Min({Start + Count - BatchStart(k), BatchSize})

\* A batch without answers.
NoAnswers(stage) == [stage |-> stage, hashes |-> <<>>, blocks |-> <<>>, undo |-> <<>>]

\* What a batch must hold besides its hashes.
Bodies == IF kind \in {"rest", "indexer"} THEN {"blocks", "undo"} ELSE {"blocks"}
ByIpc == kind \in {"ipc", "indexer"}

FetchInit ==
    /\ kind \in {"rest", "rpc", "heights", "ipc", "indexer"}
    /\ node \in Chains
    /\ fetching = [k \in 1..Batches |-> NoAnswers("idle")]
    /\ yielded = 0
    /\ frames = <<>>
    /\ failed = FALSE

\* The node adopts another chain; blocks it left stay available by hash.
Reorganize ==
    /\ node' \in Chains \ {node}
    /\ UNCHANGED <<kind, fetching, yielded, frames, failed>>

\* buffered polls the next batch while fewer than Buffer are not yielded.
StartBatch(k) ==
    /\ ~failed
    /\ fetching[k].stage = "idle"
    /\ \A j \in 1..(k - 1) : fetching[j].stage # "idle"
    /\ k <= yielded + Buffer
    /\ fetching' = [fetching EXCEPT ![k].stage = "hashes"]
    /\ UNCHANGED <<kind, node, yielded, frames, failed>>

Answered(answers, i) == \E j \in DOMAIN answers : answers[j].at = i

HeightOf(k, i) == BatchStart(k) + i - 1

\* JSON-RPC names a hash in display order, which get_block_range_by_height
\* reverses for the frame and sends back as it is to ask for the block.
Display(b) == [display |-> b]
Internal(hash) == IF kind = "rpc" THEN hash.display ELSE hash

\* The hash of the i-th height of the batch arrives.
HashArrives(k, i) ==
    /\ ~failed /\ ~ByIpc
    /\ fetching[k].stage = "hashes"
    /\ i \in 1..ThisCount(k)
    /\ ~Answered(fetching[k].hashes, i)
    /\ HeightOf(k, i) \in DOMAIN node
    /\ LET hash == node[HeightOf(k, i)]
       IN  fetching' = [fetching EXCEPT ![k].hashes =
               Append(@, [at |-> i, value |-> IF kind = "rpc" THEN Display(hash) ELSE hash])]
    /\ UNCHANGED <<kind, node, yielded, frames, failed>>

\* Variant: answers are taken in the order they came.
Unsorted(answers) == [i \in DOMAIN answers |-> answers[i].value]

\* sort_by_key on the position or the height, or by_id.remove in the order of
\* the requests: the values in the order they were asked for.
Sorted(answers) ==
    [i \in DOMAIN answers |-> (CHOOSE a \in ToSet(answers) : a.at = i).value]

\* All hashes are there: the requests by hash begin.
HashesDone(k) ==
    /\ ~failed /\ kind \in {"rest", "rpc"}
    /\ fetching[k].stage = "hashes"
    /\ Len(fetching[k].hashes) = ThisCount(k)
    /\ fetching' = [fetching EXCEPT ![k].stage = "bodies"]
    /\ UNCHANGED <<kind, node, yielded, frames, failed>>

\* fetch_and_decode_chunk: frames without undo data ask the undo source for
\* it, by the hashes they have.
AttachUndo(k) ==
    /\ ~failed /\ kind = "indexer"
    /\ fetching[k].stage = "hashes"
    /\ Len(fetching[k].blocks) = ThisCount(k)
    /\ fetching' = [fetching EXCEPT ![k].stage = "bodies"]
    /\ UNCHANGED <<kind, node, yielded, frames, failed>>

\* get_block_raw and get_block_spent_txouts answer for the i-th hash.
BodyArrives(k, i, field) ==
    /\ ~failed
    /\ fetching[k].stage = "bodies"
    /\ i \in 1..ThisCount(k) /\ field \in Bodies
    /\ ~Answered(fetching[k][field], i)
    /\ fetching' = [fetching EXCEPT ![k][field] =
                      Append(@, [at |-> i, value |-> Internal(Sorted(fetching[k].hashes)[i])])]
    /\ UNCHANGED <<kind, node, yielded, frames, failed>>

\* get_block_by_height: the block of a height follows its own hash, whatever
\* the other heights wait for.
HeightBlockArrives(k, i) ==
    /\ ~failed /\ kind = "heights"
    /\ fetching[k].stage = "hashes"
    /\ ~Answered(fetching[k].blocks, i)
    /\ \E a \in ToSet(fetching[k].hashes) :
          a.at = i /\ fetching' = [fetching EXCEPT ![k].blocks = Append(@, a)]
    /\ UNCHANGED <<kind, node, yielded, frames, failed>>

\* findFirstBlockWithTimeAndHeight finds a block at the height or above it;
\* one at another height is an error.
Acceptable(height, found) == found = height

IpcBlockArrives(k, i) ==
    /\ ~failed /\ ByIpc
    /\ fetching[k].stage = "hashes"
    /\ i \in 1..ThisCount(k)
    /\ ~Answered(fetching[k].hashes, i)
    /\ \E found \in {h \in DOMAIN node : h >= HeightOf(k, i)} :
          /\ Acceptable(HeightOf(k, i), found)
          /\ LET a == [at |-> i, value |-> node[found]]
             IN  fetching' = [fetching EXCEPT ![k].hashes = Append(@, a), ![k].blocks = Append(@, a)]
    /\ UNCHANGED <<kind, node, yielded, frames, failed>>

\* Any request of the batch fails, and with it the batch.
RequestFails(k) ==
    /\ ~failed
    /\ fetching[k].stage \in {"hashes", "bodies"}
    /\ fetching' = [fetching EXCEPT ![k] = NoAnswers("error")]
    /\ UNCHANGED <<kind, node, yielded, frames, failed>>

\* The frames of a finished batch: hashes, blocks and undo data zipped.
FramesOf(k) ==
    [i \in 1..Len(fetching[k].hashes) |->
        [height |-> HeightOf(k, i),
         hash   |-> Internal(Sorted(fetching[k].hashes)[i]),
         block  |-> Sorted(fetching[k].blocks)[i],
         undo   |-> IF "undo" \in Bodies THEN Sorted(fetching[k].undo)[i] ELSE NoUndo]]

\* The next batch in order is complete: its frames reach the consumer.
Yield ==
    /\ ~failed /\ yielded < Batches
    /\ LET k == yielded + 1
       IN  /\ fetching[k].stage \in {"hashes", "bodies"}
           /\ \A field \in Bodies : Len(fetching[k][field]) = ThisCount(k)
           /\ frames' = frames \o FramesOf(k)
           /\ fetching' = [fetching EXCEPT ![k] = NoAnswers("done")]
    /\ yielded' = yielded + 1
    /\ UNCHANGED <<kind, node, failed>>

\* The next batch in order failed: the consumer stops at the error.
YieldError ==
    /\ ~failed /\ yielded < Batches
    /\ fetching[yielded + 1].stage = "error"
    /\ failed' = TRUE
    /\ UNCHANGED <<kind, node, fetching, yielded, frames>>

FetchNext ==
    \/ Reorganize \/ Yield \/ YieldError
    \/ \E k \in 1..Batches :
         \/ StartBatch(k) \/ HashesDone(k) \/ AttachUndo(k) \/ RequestFails(k)
         \/ \E i \in 1..BatchSize :
              HashArrives(k, i) \/ HeightBlockArrives(k, i) \/ IpcBlockArrives(k, i)
         \/ \E i \in 1..BatchSize, field \in {"blocks", "undo"} : BodyArrives(k, i, field)

FetchSpec == FetchInit /\ [][FetchNext]_fetchVars

----------------------------------------------------------------------------
\* The heights at which some chain of the node has block b.
HeightsOf(b) == {h \in UNION {DOMAIN c : c \in Chains} :
                    \E c \in Chains : h \in DOMAIN c /\ c[h] = b}

(* "Frames are yielded in strict height order": whatever order answers     *)
(* arrive in and wherever a batch fails, the consumer has seen the heights *)
(* from start_height on without a gap or a repetition, and each frame has  *)
(* the hash of a block of its height, that block and that block's undo     *)
(* data; a stream that ends without an error delivered exactly the heights *)
(* asked for (raw_block_stream_by_height_batched, RestSource, batch_call,  *)
(* fetch_and_prepare_batch).                                               *)
StreamInOrder ==
    /\ \A i \in DOMAIN frames :
          /\ frames[i].height = Start + i - 1
          /\ frames[i].height \in HeightsOf(frames[i].hash)
          /\ frames[i].block = frames[i].hash
          /\ frames[i].undo = IF kind \in {"rest", "indexer"} THEN frames[i].hash ELSE NoUndo
    /\ Len(frames) <= Count
    /\ yielded = Batches => Len(frames) = Count
=============================================================================
