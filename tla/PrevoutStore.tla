---------------------------- MODULE PrevoutStore ----------------------------
(***************************************************************************)
(* PrevoutStore: compact prevout contexts in RocksDB under an overlay of   *)
(* pending writes, the source of scan points where a block source has no   *)
(* undo data.  Blocks are enriched in height order into the overlay and    *)
(* the overlay is committed, with the tip, in one batch; a restart drops   *)
(* the overlay and continues after the stored tip.  The chain is the one   *)
(* the blocks come from.                                                   *)
(*                                                                         *)
(* No crate declares prevout_store.rs as a module: it is not compiled, and *)
(* the store here is its text.  The undo path beside it is the one         *)
(* light-indexer takes.                                                    *)
(***************************************************************************)
EXTENDS SilentPayments, SequencesExt

CONSTANTS
    Fundings,      \* output lists the first transaction may have
    Outputs,       \* output lists a later transaction may create
    MaxStoreTxs,   \* transactions after the funding one, coinbases not counted
    MaxStoreBlocks \* blocks after the funding one

\* Outputs are classified scripts, none of them the absent value.
ASSUME ScriptsAssumption ==
    /\ Fundings \cup Outputs \subseteq Seq(Script)
    /\ Absent \notin Script \cup [kind : {"non_eligible"}, key : Int]
    /\ Absent \notin Seq(Script) \cup Seq(Seq(Script))

VARIABLES
    chain,     \* blocks; a block is a sequence of [id, inputs, outputs]
    start,     \* first block the store was fed: 1, or 2 when it was opened later
    db,        \* outpoint -> encoded entry
    tip,       \* height of the stored tip
    puts,      \* PendingPrevoutWrites.puts
    deletes,   \* PendingPrevoutWrites.deletes
    done,      \* last block enriched into the overlay
    tweaks     \* transaction id -> scan point the store computed

storeVars == <<chain, start, db, tip, puts, deletes, done, tweaks>>

Txs(from, to) == UNION {ToSet(chain[b]) : b \in from..to}
CreatedIn(from, to) == UNION {{<<tx.id, v>> : v \in DOMAIN tx.outputs} : tx \in Txs(from, to)}
SpentIn(from, to) ==
    UNION {{tx.inputs[i].prev : i \in DOMAIN tx.inputs} : tx \in Txs(from, to)}
ScriptOf(op) == (CHOOSE tx \in Txs(1, Len(chain)) : tx.id = op[1]).outputs[op[2]]

NextId == 1 + Cardinality(Txs(1, Len(chain)))

\* Outputs that consensus lets a transaction spend.
Burnt(s) == s.kind = "op_return" \/ (s.kind = "p2tr" /\ s.key = 0)
Spendable == {op \in CreatedIn(1, Len(chain)) \ SpentIn(1, Len(chain)) : ~Burnt(ScriptOf(op))}

\* The ways an input may spend a script: with or without a compressed key,
\* through a P2WPKH redeem script or another one, by key or by NUMS path.
InputsFor(op) ==
    LET s == ScriptOf(op)
        Spending(redeem, shown, nums) ==
            [prev |-> op, redeem |-> redeem, shown |-> shown, nums |-> nums]
        plain == Spending(Absent, Absent, FALSE)
    IN  CASE s.kind \in {"p2pkh", "p2wpkh"} -> {plain, Spending(Absent, s.key, FALSE)}
          [] s.kind = "p2sh" -> {plain, Spending(s.key, s.key, FALSE)}
          [] s.kind = "p2tr" -> {plain, Spending(Absent, Absent, TRUE)}
          [] OTHER -> {plain}

----------------------------------------------------------------------------
(* The overlay.                                                            *)

\* A map with the entries of new written over those of old.
Written(new, old) ==
    [x \in DOMAIN new \cup DOMAIN old |-> IF x \in DOMAIN new THEN new[x] ELSE old[x]]

\* lookup_prevout: the overlay first, a tombstone hides the database.
LookupPrevout(p, op) ==
    IF op \in DOMAIN p.puts THEN p.puts[op]
    ELSE IF op \in DOMAIN db \ p.deletes THEN DecodeEntry(db[op]) ELSE Absent

\* PendingPrevoutWrites::delete for every input of a transaction: an output
\* still pending is forgotten, any other gets a tombstone.
DeleteSpent(p, ops) ==
    [p EXCEPT !.puts = Restrict(p.puts, DOMAIN p.puts \ ops),
              !.deletes = p.deletes \cup (ops \ DOMAIN p.puts)]

\* apply_tx_spends.
ApplySpends(p, tx) == DeleteSpent(p, {tx.inputs[i].prev : i \in DOMAIN tx.inputs})

\* apply_tx_outputs, with PendingPrevoutWrites::put.
ApplyOutputs(p, tx) ==
    LET kept == {v \in DOMAIN tx.outputs : Compact(tx.outputs[v]) # Absent}
        new == [op \in {<<tx.id, v>> : v \in kept} |-> Compact(tx.outputs[op[2]])]
    IN  [p EXCEPT !.puts = Written(new, p.puts), !.deletes = p.deletes \ DOMAIN new]

\* enrich_tx_scan_point.
StoreTweak(p, tx) ==
    LET found == [i \in DOMAIN tx.inputs |-> LookupPrevout(p, tx.inputs[i].prev)]
    IN  IF CreatesP2tr(tx)
        THEN ScanPoint(tx.inputs, [i \in DOMAIN tx.inputs |->
                 IF found[i] = Absent THEN Absent ELSE PrevoutOfCompact(found[i])])
        ELSE Absent

\* One transaction of enrich_block_scan_points.
EnrichTx(p, tx) ==
    ApplyOutputs(ApplySpends(
        [p EXCEPT !.tweaks = Written([id \in {tx.id} |-> StoreTweak(p, tx)], p.tweaks)], tx), tx)

\* Its loop over the transactions.
EnrichBlock(p, block) ==
    LET after[n \in 0..Len(block)] ==
            IF n = 0 THEN p ELSE EnrichTx(after[n - 1], block[n])
    IN  after[Len(block)]

----------------------------------------------------------------------------
\* The store holds the funding block in today's layout or in the legacy one
\* (which had only the keyed kinds), or was opened after it.
StoreInit ==
    /\ \E funding \in Fundings :
         chain = <<<<[id |-> 1, inputs |-> <<>>, outputs |-> funding]>>>>
    /\ start \in {1, 2}
    /\ LET ops == {op \in CreatedIn(start, 1) : Compact(ScriptOf(op)) # Absent}
           keyed == {op \in ops : ScriptOf(op).kind \in Keyed \cup {"p2tr"}}
       IN  \E legacy \in {{}, keyed} :
             db = [op \in ops |-> IF op \in legacy THEN EncodeLegacy(Compact(ScriptOf(op)))
                                                   ELSE EncodeEntry(Compact(ScriptOf(op)))]
    /\ tip = 1 /\ done = 1
    /\ puts = <<>> /\ deletes = {}
    /\ tweaks = <<>>

\* The chain grows by a block with its coinbase.
NewBlock ==
    /\ Len(chain) <= MaxStoreBlocks
    /\ chain' = Append(chain, <<[id |-> NextId, inputs |-> <<>>,
                                   outputs |-> <<[kind |-> "p2tr", key |-> 1]>>]>>)
    /\ UNCHANGED <<start, db, tip, puts, deletes, done, tweaks>>

\* The newest block, not yet enriched, has one more transaction, with one or
\* two inputs; the smallest outpoint comes last.
NewTx ==
    /\ done < Len(chain)
    /\ NextId - Len(chain) < MaxStoreTxs + 1
    /\ \E ops \in {<<o>> : o \in Spendable}
              \cup {op \in Spendable \X Spendable : OutpointBefore(op[2], op[1])} :
         \E inputs \in [DOMAIN ops -> UNION {InputsFor(ops[i]) : i \in DOMAIN ops}],
            outputs \in Outputs :
            /\ \A i \in DOMAIN ops : inputs[i].prev = ops[i]
            /\ LET tx == [id |-> NextId, inputs |-> inputs, outputs |-> outputs]
               IN  chain' = [chain EXCEPT ![Len(chain)] = Append(@, tx)]
    /\ UNCHANGED <<start, db, tip, puts, deletes, done, tweaks>>

\* enrich_block_scan_points on the next block.
Enrich ==
    /\ done < Len(chain)
    /\ LET p == EnrichBlock([puts |-> puts, deletes |-> deletes, tweaks |-> tweaks],
                            chain[done + 1])
       IN  puts' = p.puts /\ deletes' = p.deletes /\ tweaks' = p.tweaks
    /\ done' = done + 1
    /\ UNCHANGED <<chain, start, db, tip>>

\* apply_pending: the deletes, then the puts, and the tip, in one batch.
ApplyPending ==
    /\ done > tip
    /\ db' = Written([op \in DOMAIN puts |-> EncodeEntry(puts[op])],
                     Restrict(db, DOMAIN db \ deletes))
    /\ tip' = done
    /\ puts' = <<>> /\ deletes' = {}
    /\ UNCHANGED <<chain, start, done, tweaks>>

\* The process stops, with an overlay or without, and opens the store again.
Reopen ==
    /\ done > tip
    /\ puts' = <<>> /\ deletes' = {}
    /\ done' = tip
    /\ UNCHANGED <<chain, start, db, tip, tweaks>>

StoreNext == NewBlock \/ NewTx \/ Enrich \/ ApplyPending \/ Reopen

StoreSpec == StoreInit /\ [][StoreNext]_storeVars

----------------------------------------------------------------------------
(* The store finds for every transaction the scan point that Core's undo   *)
(* data would give, across same-block spends, overlay and database hits,   *)
(* batch boundaries, both entry layouts and restarts                       *)
(* (enrich_tx_scan_point against compute_sp_tweak_from_undo).  A store     *)
(* opened after the chain's first blocks may have none for a transaction,  *)
(* but never a wrong one from some of its inputs (MissingPrevout).         *)
PathsAgree ==
    \A tx \in Txs(2, done) :
        LET undo == UndoTweak(tx, [i \in DOMAIN tx.inputs |-> ScriptOf(tx.inputs[i].prev)])
        IN  tweaks[tx.id] = undo \/ (start = 2 /\ tweaks[tx.id] = Absent)

(* After every commit the database holds exactly the unspent spendable     *)
(* outputs of the blocks up to its tip, each under its compact context,    *)
(* so the overlay neither resurrects nor loses an entry                    *)
(* (PendingPrevoutWrites put and delete, apply_pending).                   *)
StoreExact ==
    LET kept == {op \in CreatedIn(start, tip) \ SpentIn(start, tip) : ~Burnt(ScriptOf(op))}
    IN  /\ DOMAIN db = kept
        /\ \A op \in kept : DecodeEntry(db[op]) = Compact(ScriptOf(op))

\* What /rest/spenttxouts answers for block b, and what may come of it: no
\* answer, the end cut off, or the last prevout of one transaction missing.
BlockUndo(b) ==
    [n \in DOMAIN chain[b] |->
        [i \in DOMAIN chain[b][n].inputs |-> ScriptOf(chain[b][n].inputs[i].prev)]]
Damaged(data) ==
    {Absent} \cup {SubSeq(data, 1, n) : n \in 0..(Len(data) - 1)}
    \cup {[data EXCEPT ![n] = SubSeq(@, 1, Len(@) - 1)] : n \in {n \in DOMAIN data : data[n] # <<>>}}

(* The undo data of a block gives every transaction the scan point of all  *)
(* its inputs, and undo data that is missing, cut short or lacks a prevout *)
(* gives that point or fails the block, never a sum over some inputs or    *)
(* over those of another transaction (compute_sp_tweak_from_undo).         *)
UndoAligned ==
    \A b \in 2..Len(chain) : \A n \in DOMAIN chain[b] :
        LET tx == chain[b][n]
            prevouts == [i \in DOMAIN tx.inputs |-> PrevoutOfScript(ScriptOf(tx.inputs[i].prev))]
            right == IF CreatesP2tr(tx) THEN ScanPoint(tx.inputs, prevouts) ELSE Absent
        IN  /\ UndoTweak(tx, UndoEntry(BlockUndo(b), n)) = right
            /\ \A data \in Damaged(BlockUndo(b)) :
                  UndoTweak(tx, UndoEntry(data, n)) \in {right, UndoError}
=============================================================================
