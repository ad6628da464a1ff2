------------------------------ MODULE PowerLoss ------------------------------
(***************************************************************************)
(* The archive when the machine, and not only the process, stops.  The     *)
(* block files are written with fs::write and fs::rename and nothing syncs *)
(* them (files.rs), so the operating system writes them back when it       *)
(* likes; RocksDB is flushed after every batch (IndexStore::flush).  Over  *)
(* the block tree of MCLightIndexer.                                       *)
(***************************************************************************)
EXTENDS MCLightIndexer

VARIABLE stable   \* the block files as the disk has them

lossVars == <<vars, stable>>

LossInit == Init /\ stable = files

\* The operating system writes one file back.
WriteBack(h) ==
    /\ stable[h] # files[h]
    /\ stable' = [stable EXCEPT ![h] = files[h]]
    /\ UNCHANGED vars

\* Power fails: memory is lost, and every file is again what the disk has.
PowerFails ==
    /\ pc # "down"
    /\ crashes < MaxCrashes
    /\ crashes' = crashes + 1
    /\ LoseMemory
    /\ files' = stable
    /\ UNCHANGED <<node, manifest, tip, last_uid, rows, stable>>

LossNext ==
    \/ Next /\ UNCHANGED stable
    \/ \E h \in Heights : WriteBack(h)
    \/ PowerFails

LossSpec == LossInit /\ [][LossNext]_lossVars
=============================================================================
