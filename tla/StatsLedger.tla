----------------------------- MODULE StatsLedger -----------------------------
(***************************************************************************)
(* The scanner state of StatsApply fed with every small ledger, against    *)
(* reference definitions over the ledger itself.  The scan starts in the   *)
(* middle of the chain: some inputs spend outputs it has never seen.       *)
(***************************************************************************)
EXTENDS StatsApply

CONSTANTS
    Keys,            \* P2TR keys
    PreScanOutputs,  \* unspent outputs from before the scan
    MaxBlocks,       \* bound on scanned blocks
    MaxTxs,          \* bound on transactions, coinbases aside
    MaxInputs,       \* bound on inputs of a transaction
    MaxOutputs       \* bound on outputs of a transaction

ASSUME PreScanAssumption == PreScanOutputs \in Nat

VARIABLES
    state,    \* StatsScannerState
    ledger,   \* transactions in chain order, those of the next block last
    ends,     \* how many of them each scanned block ends with
    rows      \* the row of each scanned block

vars == <<state, ledger, ends, rows>>
-----------------------------------------------------------------------------
(* The ledger that produces blocks *)

Paths == {"Key", "ScriptNonNums", "ScriptNums"}

\* An output from before the scan has txid 0.
PreScan == {0} \X (1..PreScanOutputs)

\* Outpoints created and spent by a list of transactions.
Created(txs) == UNION {{t} \X DOMAIN txs[t].outputs : t \in DOMAIN txs}
Spent(txs) == UNION {{txs[t].inputs[i].prev : i \in DOMAIN txs[t].inputs} : t \in DOMAIN txs}

OutputLists == UNION {[1..n -> Keys \cup {Other}] : n \in 1..MaxOutputs}

\* A valid transaction spends unspent outputs, each once.
ValidTxs(txs) ==
    LET unspent == (PreScan \cup Created(txs)) \ Spent(txs)
        inputs == UNION {[1..n -> [prev : unspent, path : Paths]] : n \in 1..MaxInputs}
    IN  {tx \in [coinbase : {FALSE}, inputs : inputs, outputs : OutputLists] :
            \A i, j \in DOMAIN tx.inputs : tx.inputs[i].prev = tx.inputs[j].prev => i = j}

Coinbases == {[coinbase |-> TRUE, inputs |-> << >>, outputs |-> <<o>>] : o \in Keys \cup {Other}}

\* The last transaction of block h, and all of them.
End(h) == IF h = 0 THEN 0 ELSE ends[h]
TxsOf(h) == (End(h - 1) + 1)..End(h)

Init == state = NewState /\ ledger = << >> /\ ends = << >> /\ rows = << >>

\* The next block starts with its coinbase.
MineBlock ==
    /\ Len(ends) < MaxBlocks
    /\ Len(ledger) = End(Len(ends))
    /\ \E c \in Coinbases : ledger' = Append(ledger, c)
    /\ UNCHANGED <<state, ends, rows>>

\* It may hold more transactions, and a later one may spend an earlier one.
MineTx ==
    /\ Len(ledger) > End(Len(ends))
    /\ Len(ledger) - Len(ends) <= MaxTxs
    /\ \E tx \in ValidTxs(ledger) : ledger' = Append(ledger, tx)
    /\ UNCHANGED <<state, ends, rows>>

\* The scan of the block; its height stands for its hash.
ScanBlock ==
    /\ Len(ledger) > End(Len(ends))
    /\ LET first == End(Len(ends)) + 1
           height == Len(ends) + 1
           after == ApplyBlock(state, first, SubSeq(ledger, first, Len(ledger)))
       IN  /\ state' = after.state
           /\ rows' = Append(rows, RowOf(height, height, state, after))
    /\ ends' = Append(ends, Len(ledger))
    /\ UNCHANGED ledger

Next == MineBlock \/ MineTx \/ ScanBlock

Spec == Init /\ [][Next]_vars
-----------------------------------------------------------------------------
(* Reference definitions, over the ledger alone *)

Heights == 1..Len(ends)
Scanned == 1..End(Len(ends))

\* Outputs and inputs of the transactions T, each by its place; the outputs
\* from before the scan, which an input may spend too, are not places.
OutputsOf(T) == UNION {{t} \X DOMAIN ledger[t].outputs : t \in T}
InputsOf(T) == UNION {{t} \X DOMAIN ledger[t].inputs : t \in T}
KindAt(o) == ledger[o[1]].outputs[o[2]]
PrevAt(x) == ledger[x[1]].inputs[x[2]].prev
PathAt(x) == ledger[x[1]].inputs[x[2]].path

\* The spends of known outputs, and the outputs they spend.
SpendsOf(T) == {x \in InputsOf(T) : PrevAt(x) \notin PreScan}
SpentBy(T) == {PrevAt(x) : x \in SpendsOf(T)}

\* The global id of an output is its rank in chain order.
Before(p, q) == p[1] < q[1] \/ (p[1] = q[1] /\ p[2] < q[2])
GlobalId(o) == 1 + Cardinality({p \in OutputsOf(Scanned) : Before(p, o)})

\* The UTXO map holds exactly the unspent outputs the scan has created, each
\* with its chain-wide id, whatever part of its history a spend lies in; a
\* spend of an older output is counted as missing and changes nothing else.
UtxoExact ==
    /\ DOMAIN state.utxo = OutputsOf(Scanned) \ SpentBy(Scanned)
    /\ \A o \in DOMAIN state.utxo : state.utxo[o] = [id |-> GlobalId(o), kind |-> KindAt(o)]
    /\ state.last_id = Cardinality(OutputsOf(Scanned))
    /\ state.missing = Cardinality(InputsOf(Scanned) \ SpendsOf(Scanned))

\* The rolling hash of a row depends on the last Window blocks and on
\* nothing older: two servers that agree on those blocks agree on the hash.
HashCoversWindow ==
    \A h \in Heights :
        rows[h].utxo_hash =
            UNION {{<<"add", GlobalId(o)>> : o \in OutputsOf(TxsOf(k))}
                   \cup {<<"rem", GlobalId(o)>> : o \in SpentBy(TxsOf(k))} :
                       k \in {j \in 1..h : j > h - Window}}

\* The assertions of measure_sorted_uid_stream never fire: no UID is spent
\* twice in a block and none is above the block's last id; and the two lists
\* it measures are those of the outputs, and of the P2TR outputs, that the
\* block spends.
SpentUidsExact ==
    \A h \in Heights :
        LET spent == SpentBy(TxsOf(h))
            p2tr == {o \in spent : KindAt(o) # Other}
        IN  /\ ToSet(rows[h].spent_uids) = {GlobalId(o) : o \in spent}
            /\ Len(rows[h].spent_uids) = Cardinality(spent)
            /\ ToSet(rows[h].p2tr_spent_uids) = {GlobalId(o) : o \in p2tr}
            /\ Len(rows[h].p2tr_spent_uids) = Cardinality(p2tr)
            /\ \A i \in DOMAIN rows[h].spent_uids :
                  rows[h].spent_uids[i] <= rows[h].last_global_id

\* Spends of P2TR outputs by one of the given paths, and of outputs of the
\* same block.
Taking(T, paths) == {x \in SpendsOf(T) : KindAt(PrevAt(x)) # Other /\ PathAt(x) \in paths}
SameBlock(x) == \E h \in Heights : x[1] \in TxsOf(h) /\ PrevAt(x)[1] \in TxsOf(h)

\* Transactions that only spend P2TR outputs the scan has seen, all by a NUMS
\* script path.
NonSpTxs(T) ==
    {t \in T : /\ ledger[t].inputs # << >>
               /\ InputsOf({t}) \subseteq Taking(T, {"ScriptNums"})}

P2trOutputs(T) == {o \in OutputsOf(T) : KindAt(o) # Other}
Reused(o) == \E p \in OutputsOf(Scanned) : Before(p, o) /\ KindAt(p) = KindAt(o)

\* What a counter counts in the transactions T.
Counted(c, T) ==
    CASE c = "spends" -> SpendsOf(T)
      [] c = "same_block_spends" -> {x \in SpendsOf(T) : SameBlock(x)}
      [] c = "p2tr_spends" -> Taking(T, Paths)
      [] c = "p2tr_same_block_spends" -> {x \in Taking(T, Paths) : SameBlock(x)}
      [] c = "p2tr_keypath_spends" -> Taking(T, {"Key"})
      [] c = "p2tr_scriptpath_spends" -> Taking(T, {"ScriptNonNums", "ScriptNums"})
      [] c = "p2tr_nums_spends" -> Taking(T, {"ScriptNums"})
      [] c = "p2tr_sp_eligible_spends" -> Taking(T, {"Key", "ScriptNonNums"})
      [] c = "outputs" -> OutputsOf(T)
      [] c = "p2tr_outputs" -> P2trOutputs(T)
      [] c = "p2tr_reused" -> {o \in P2trOutputs(T) : Reused(o)}
      [] c = "nonsp_txs" -> NonSpTxs(T)
      [] c = "nonsp_tx_outputs" -> OutputsOf(NonSpTxs(T))
      [] c \in {"same_tx_spends", "p2tr_same_tx_spends"} -> {}

\* The counters of a row and the totals of the run, kept apart in the code,
\* both count the ledger: a transaction is filtered as non-silent-payment
\* exactly when it spends only known P2TR outputs by a NUMS path, a spend
\* belongs to its block even if a later transaction of the same block makes
\* it, and the "canary" of spends within one transaction stays at zero.
CountsExact ==
    /\ \A h \in Heights : \A c \in RowCounters :
          rows[h].counts[c] = Cardinality(Counted(c, TxsOf(h)))
    /\ \A c \in RunCounters : state.stats[c] = Cardinality(Counted(c, Scanned))
=============================================================================
