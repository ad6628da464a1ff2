------------------------------- MODULE MCParts -------------------------------
(***************************************************************************)
(* The parts of the workspace that can be looked at one by one.  On the    *)
(* way in: the retries of one source (EsploraThrottle), the choice between *)
(* sources (MultiSource), the batched stream (RangeFetch), here of three   *)
(* heights in batches of two while the node switches between two chains    *)
(* that fork after height 1, and the actor behind an IPC source            *)
(* (IpcSource).  What the rows of the stats scanner rest on: ledgers       *)
(* (StatsLedger), witness stacks (TaprootPath), estimates for the spent    *)
(* UIDs of a block (UidEstimate).  On the way out: a wallet (ClientSync).  *)
(*                                                                         *)
(* They share no variable: a behaviour picks one of them and the others    *)
(* rest in one of their initial states, which visits every reachable state *)
(* of each.                                                                *)
(***************************************************************************)
EXTENDS EsploraThrottle, MultiSource, RangeFetch, IpcSource,
        StatsLedger, TaprootPath, UidEstimate, ClientSync

CONSTANTS b1, b2, b3, b4, c2, c3, c4

MCChains == {<<b1, b2, b3, b4>>, <<b1, c2, c3, c4>>}

VARIABLE part    \* the one that moves

StreamRests == node = <<b1, b2, b3, b4>> /\ kind = "rest"
IpcRests == active_tip = b4
WalletRests == served = Birthday

PartsInit ==
    /\ ThrottleInit /\ MultiInit /\ FetchInit /\ IpcInit
    /\ Init /\ WitnessInit /\ EstimateInit /\ SyncInit
    /\ part \in {"throttle", "multi", "stream", "ipc", "ledger", "witness", "estimate", "wallet"}
    /\ part # "stream" => StreamRests
    /\ part # "ipc" => IpcRests
    /\ part # "wallet" => WalletRests

sourceVars == <<throttleVars, multiVars, fetchVars, ipcVars>>
scanVars == <<vars, witness, estimateVars>>

SourcesNext ==
    \/ part = "throttle" /\ ThrottleNext /\ UNCHANGED <<multiVars, fetchVars, ipcVars>>
    \/ part = "multi" /\ MultiNext /\ UNCHANGED <<throttleVars, fetchVars, ipcVars>>
    \/ part = "stream" /\ FetchNext /\ UNCHANGED <<throttleVars, multiVars, ipcVars>>
    \/ part = "ipc" /\ IpcNext /\ UNCHANGED <<throttleVars, multiVars, fetchVars>>

ScanNext ==
    \/ part = "ledger" /\ Next /\ UNCHANGED <<witness, estimateVars>>
    \/ part = "witness" /\ Push /\ UNCHANGED <<vars, estimateVars>>
    \/ part = "estimate" /\ EstimateNext /\ UNCHANGED <<vars, witness>>

PartsNext ==
    /\ UNCHANGED part
    /\ \/ SourcesNext /\ UNCHANGED <<scanVars, syncVars>>
       \/ ScanNext /\ UNCHANGED <<sourceVars, syncVars>>
       \/ part = "wallet" /\ SyncNext /\ UNCHANGED <<sourceVars, scanVars>>

\* The indexer keeps publishing, and the wallet keeps asking.
WalletFairness ==
    /\ WF_syncVars(part = "wallet" /\ Advance)
    /\ WF_syncVars(part = "wallet" /\ Client)

\* The calls CallsReturn is about begin only where the actor moves, and the
\* wallet of CatchesUp only where it does.
PartsSpec ==
    /\ PartsInit
    /\ [][PartsNext]_<<part, sourceVars, scanVars, syncVars>>
    /\ IpcFairness /\ WalletFairness
=============================================================================
