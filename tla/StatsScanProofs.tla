--------------------------- MODULE StatsScanProofs ---------------------------
(***************************************************************************)
(* Theorems about StatsScan: as long as no reorganisation reaches deeper   *)
(* than --finality-depth, every state, checkpoint and CSV row is that of   *)
(* one uninterrupted scan, for all chains, batch sizes, checkpoint         *)
(* intervals and numbers of crashes, and a crash costs less than           *)
(* --checkpoint-every blocks.  What a block does to the scanner state      *)
(* (ApplyBlock, RowOf) is never looked at.                                 *)
(***************************************************************************)
EXTENDS StatsScan, WellFoundedInduction, FiniteSetTheorems, TLAPS

-----------------------------------------------------------------------------
(* The inductive invariant *)

\* A height of the scan that no reorganisation reaches.
Settled(h) == h \in StartHeight..SafeHeight

StageOK ==
    /\ node \in Chains /\ Len(node) >= 1
    /\ pc \in {"down", "restore", "rewrite", "fetch", "commit", "save", "prune", "finalSave",
               "finalPrune", "flush"}
    /\ next \in Nat /\ max_end \in Nat /\ since \in 0..(Every - 1)
    /\ pc # "down" => /\ Settled(max_end)
                      /\ next \in StartHeight..(SafeHeight + 1)
    /\ pc \in {"down", "restore"} => next = StartHeight /\ since = 0
    /\ pc \in {"rewrite", "save", "prune"} => since = 0
    /\ pc = "finalSave" => since > 0

\* The scanner's state is that of an uninterrupted scan, and what it has
\* fetched are the node's blocks.
StateIsReplay ==
    /\ pc # "down" => state = Replayed[node][next]
    /\ pc \in {"down", "restore"} => state = NewState
    /\ \A h \in DOMAIN got : h \in 0..max_end /\ got[h] = node[h + 1]
    /\ DOMAIN got # {} => pc # "down"

\* What the next checkpoint will say of the last block.
LastIsBefore ==
    pc \in {"rewrite", "save"} \/ since > 0 =>
        /\ next > StartHeight
        /\ last = [height |-> next - 1, hash |-> node[next]]

\* A checkpoint is settled and holds the state of an uninterrupted scan.
CheckpointGood(c) ==
    /\ Settled(c.height)
    /\ c = [height |-> c.height, hash |-> node[c.height + 1],
            scanner_state |-> Replayed[node][c.height + 1]]

CheckpointsGood == IsFiniteSet(checkpoints) /\ \A c \in checkpoints : CheckpointGood(c)

\* The settled rows of an uninterrupted scan; the file and the buffer hold
\* no others.
GoodRows == {RowAt(h) : h \in StartHeight..SafeHeight}

RowsGood == file \in Seq(GoodRows) /\ buffer \in Seq(GoodRows)

\* h is the newest checkpoint's height, StartHeight - 1 without one.
NewestIs(h) ==
    /\ \A c \in checkpoints : c.height <= h
    /\ IF checkpoints = {} THEN h = StartHeight - 1 ELSE \E c \in checkpoints : c.height = h

\* The counter since_checkpoint counts the blocks since the newest checkpoint.
SinceNewest ==
    /\ pc \in {"rewrite", "fetch", "commit"} => NewestIs(next - 1 - since)
    /\ pc = "save" => \A c \in checkpoints : c.height <= next - 1
    /\ pc = "prune" => NewestIs(next - 1) /\ checkpoints # {}

ScanInv ==
    StageOK /\ StateIsReplay /\ LastIsBefore /\ CheckpointsGood /\ RowsGood /\ SinceNewest
-----------------------------------------------------------------------------
(* Numbers and sequences *)

\* A nonempty set of natural numbers has a least element.
LEMMA LeastNatural ==
    ASSUME NEW S \in SUBSET Nat, S # {}
    PROVE  \E m \in S : \A n \in S : m <= n
<1> DEFINE R == {p \in Nat \X Nat : p[1] < p[2]}
<1>1. OpToRel(<, Nat) = R
    BY DEF OpToRel
<1>2. IsWellFoundedOn(R, Nat)
    BY <1>1, NatLessThanWellFounded
<1> HIDE DEF R
<1>3. PICK m \in S : \A n \in S : ~(<<n, m>> \in R)
    BY <1>2, WFMin
<1>4. \A n \in S : ~(n < m)
    BY <1>3 DEF R
<1> QED
    BY <1>3, <1>4

\* The rows kept of the file are rows of the file.
LEMMA KeptRows ==
    ASSUME NEW S, file \in Seq(S), NEW h
    PROVE  RowsThrough(h) \in Seq(S)
<1> DEFINE Def(g, n) == IF n = 0 THEN << >>
                        ELSE IF file[n].height <= h THEN Append(g[n - 1], file[n]) ELSE g[n - 1]
           Good(g, m) == g = [n \in 0..m |-> Def(g, n)]
           kept == CHOOSE g : Good(g, Len(file))
           Bad == {m \in 0..Len(file) : ~\E g : Good(g, m)}
<1>1. RowsThrough(h) = kept[Len(file)]
    BY DEF RowsThrough
<1>2. Len(file) \in Nat
    OBVIOUS
<1>3. Bad = {}
    <2> SUFFICES ASSUME Bad # {} PROVE FALSE
        OBVIOUS
    <2>1. PICK m \in Bad : \A n \in Bad : m <= n
        <3>1. Bad \in SUBSET Nat
            BY <1>2
        <3> HIDE DEF Bad
        <3> QED
            BY <3>1, LeastNatural
    <2>2. m # 0
        <3> DEFINE g == [n \in 0..0 |-> << >>]
        <3>1. Good(g, 0)
            OBVIOUS
        <3> HIDE DEF Good
        <3> QED
            BY <2>1, <3>1
    <2>3. m - 1 \in 0..Len(file) /\ ~(m <= m - 1) /\ m \in 1..Len(file)
        BY <1>2, <2>1, <2>2
    <2>4. PICK g : Good(g, m - 1)
        <3> HIDE DEF Good
        <3> QED
            BY <2>1, <2>3
    <2> DEFINE f == [n \in 0..m |-> IF n = m THEN Def(g, m) ELSE g[n]]
    <2>5. ASSUME NEW n \in 0..m PROVE f[n] = Def(f, n)
        <3>1. CASE n = m
            <4>1. f[n] = Def(g, n)
                BY <3>1, <2>5
            <4>2. f[n - 1] = g[n - 1]
                BY <2>3, <3>1
            <4> HIDE DEF f
            <4> QED
                BY <4>1, <4>2
        <3>2. CASE n # m
            <4>1. n \in 0..(m - 1) /\ f[n] = g[n]
                BY <2>3, <2>5, <3>2
            <4>2. g[n] = Def(g, n)
                BY <2>4, <4>1
            <4>3. n # 0 => f[n - 1] = g[n - 1]
                BY <2>3, <4>1
            <4> HIDE DEF f
            <4> QED
                BY <4>1, <4>2, <4>3
        <3> QED
            BY <3>1, <3>2
    <2>6. Good(f, m)
        BY <2>5
    <2> HIDE DEF Good
    <2> QED
        BY <2>1, <2>6
<1>4. Good(kept, Len(file))
    <2> HIDE DEF Good
    <2> QED
        BY <1>2, <1>3
<1> HIDE DEF kept
<1>5. ASSUME NEW k \in 0..Len(file), ~(kept[k] \in Seq(S)) PROVE FALSE
    <2> DEFINE T == {n \in 0..Len(file) : ~(kept[n] \in Seq(S))}
    <2>1. PICK m \in T : \A n \in T : m <= n
        <3>1. T \in SUBSET Nat /\ T # {}
            BY <1>2, <1>5
        <3> HIDE DEF T
        <3> QED
            BY <3>1, LeastNatural
    <2>2. m \in 0..Len(file) /\ ~(kept[m] \in Seq(S))
        BY <2>1
    <2>3. kept[m] = Def(kept, m)
        BY <1>4, <2>2
    <2>4. m # 0
        <3>1. << >> \in Seq(S)
            OBVIOUS
        <3> QED
            BY <2>2, <2>3, <3>1
    <2>5. m - 1 \in 0..Len(file) /\ ~(m <= m - 1) /\ m \in 1..Len(file)
        BY <1>2, <2>2, <2>4
    <2>6. kept[m - 1] \in Seq(S) /\ file[m] \in S
        BY <2>1, <2>5
    <2>7. Append(kept[m - 1], file[m]) \in Seq(S)
        <3> DEFINE q == kept[m - 1]
        <3> HIDE DEF q
        <3>1. q \in Seq(S) => Append(q, file[m]) \in Seq(S)
            BY <2>6
        <3> QED
            BY <2>6, <3>1 DEF q
    <2> QED
        BY <2>2, <2>3, <2>4, <2>6, <2>7
<1> QED
    BY <1>1, <1>2, <1>5

-----------------------------------------------------------------------------
(* The uninterrupted scan *)

\* One block of chain c after state s, the n-th from the genesis block.
Step(c, s, n) == ApplyBlock(s, FirstTxid[c[n]], Txs[c[n]])

\* A chain and its length.
LEMMA ChainType ==
    ASSUME NEW c \in Chains
    PROVE  Len(c) \in Nat /\ DOMAIN c = 1..Len(c)
BY ChainsAssumption

\* The recursion of Replayed: NewState up to the first scanned block, then
\* one block after the other.
LEMMA ReplayedBy ==
    ASSUME NEW c \in Chains, NEW n \in 0..Len(c)
    PROVE  Replayed[c][n] = IF n <= StartHeight THEN NewState
                            ELSE Step(c, Replayed[c][n - 1], n).state
<1> DEFINE Def(g, k) == IF k <= StartHeight THEN NewState
                        ELSE ApplyBlock(g[k - 1], FirstTxid[c[k]], Txs[c[k]]).state
           Good(g, m) == g = [k \in 0..m |-> Def(g, k)]
           after == CHOOSE g : Good(g, Len(c))
           Bad == {m \in 0..Len(c) : ~\E g : Good(g, m)}
<1>1. Replayed[c] = after
    BY DEF Replayed
<1>2. Len(c) \in Nat /\ StartHeight \in Nat
    BY ChainType, ScanAssumption
<1>3. Bad = {}
    <2> SUFFICES ASSUME Bad # {} PROVE FALSE
        OBVIOUS
    <2>1. PICK m \in Bad : \A k \in Bad : m <= k
        <3>1. Bad \in SUBSET Nat
            BY <1>2
        <3> HIDE DEF Bad
        <3> QED
            BY <3>1, LeastNatural
    <2>2. m # 0
        <3> DEFINE g == [k \in 0..0 |-> NewState]
        <3>1. Good(g, 0)
            BY <1>2
        <3> HIDE DEF Good
        <3> QED
            BY <2>1, <3>1
    <2>3. m - 1 \in 0..Len(c) /\ ~(m <= m - 1) /\ m \in 1..Len(c)
        BY <1>2, <2>1, <2>2
    <2>4. PICK g : Good(g, m - 1)
        <3> HIDE DEF Good
        <3> QED
            BY <2>1, <2>3
    <2> DEFINE f == [k \in 0..m |-> IF k = m THEN Def(g, m) ELSE g[k]]
    <2>5. ASSUME NEW k \in 0..m PROVE f[k] = Def(f, k)
        <3>1. CASE k = m
            <4>1. f[k] = Def(g, k)
                BY <3>1, <2>5
            <4>2. f[k - 1] = g[k - 1]
                BY <2>3, <3>1
            <4> HIDE DEF f
            <4> QED
                BY <4>1, <4>2
        <3>2. CASE k # m
            <4>1. k \in 0..(m - 1) /\ f[k] = g[k]
                BY <2>3, <2>5, <3>2
            <4>2. g[k] = Def(g, k)
                BY <2>4, <4>1
            <4>3. ~(k <= StartHeight) => f[k - 1] = g[k - 1]
                BY <1>2, <2>3, <4>1
            <4> HIDE DEF f
            <4> QED
                BY <4>1, <4>2, <4>3
        <3> QED
            BY <3>1, <3>2
    <2>6. Good(f, m)
        BY <2>5
    <2> HIDE DEF Good
    <2> QED
        BY <2>1, <2>6
<1>4. Good(after, Len(c))
    <2> HIDE DEF Good
    <2> QED
        BY <1>2, <1>3
<1> HIDE DEF after
<1>5. after[n] = Def(after, n)
    BY <1>4
<1> QED
    BY <1>1, <1>5 DEF Step

\* Chains with the same first k blocks have the same states up to there.
LEMMA ReplayedAgrees ==
    ASSUME NEW c \in Chains, NEW d \in Chains, NEW k \in Nat, k <= Len(c), k <= Len(d),
           \A i \in 1..k : c[i] = d[i], NEW n \in 0..k
    PROVE  Replayed[c][n] = Replayed[d][n]
<1> SUFFICES ASSUME Replayed[c][n] # Replayed[d][n] PROVE FALSE
    OBVIOUS
<1> DEFINE T == {i \in 0..k : Replayed[c][i] # Replayed[d][i]}
<1>1. PICK m \in T : \A i \in T : m <= i
    <2>1. T \in SUBSET Nat /\ T # {}
        OBVIOUS
    <2> HIDE DEF T
    <2> QED
        BY <2>1, LeastNatural
<1>2. m \in 0..k /\ Replayed[c][m] # Replayed[d][m]
    BY <1>1
<1>3. m \in 0..Len(c) /\ m \in 0..Len(d) /\ StartHeight \in Nat
    BY <1>2, ChainType, ScanAssumption
<1>4. /\ Replayed[c][m] = IF m <= StartHeight THEN NewState ELSE Step(c, Replayed[c][m - 1], m).state
      /\ Replayed[d][m] = IF m <= StartHeight THEN NewState ELSE Step(d, Replayed[d][m - 1], m).state
    BY <1>3, ReplayedBy
<1>5. ~(m <= StartHeight)
    BY <1>2, <1>4
<1>6. m - 1 \in 0..k /\ ~(m <= m - 1) /\ m \in 1..k
    BY <1>2, <1>3, <1>5
<1>7. Replayed[c][m - 1] = Replayed[d][m - 1]
    BY <1>1, <1>6
<1>8. c[m] = d[m]
    BY <1>6
<1>9. Step(c, Replayed[c][m - 1], m) = Step(d, Replayed[d][m - 1], m)
    BY <1>7, <1>8 DEF Step
<1> QED
    BY <1>2, <1>4, <1>9

\* The row of a height, in terms of Step.
LEMMA RowAtIs ==
    ASSUME NEW h \in Int
    PROVE  RowAt(h) = RowOf(h, node[h + 1], Replayed[node][h], Step(node, Replayed[node][h], h + 1))
<1>1. h - 1 + 1 = h
    OBVIOUS
<1> QED
    BY <1>1 DEF RowAt, Replay, Step

\* Settled heights are heights of the node's chain.
LEMMA SafeOnChain ==
    ASSUME StageOK
    PROVE  /\ SafeHeight \in Nat /\ SafeHeight < Len(node) /\ Len(node) \in Nat
           /\ StartHeight \in Nat /\ FinalityDepth \in Nat /\ Every \in Nat \ {0}
<1>1. Len(node) \in Nat /\ Len(node) >= 1
    BY ChainType DEF StageOK
<1> QED
    BY <1>1, ScanAssumption DEF SafeHeight

\* A reorganisation no deeper than --finality-depth leaves the settled blocks
\* and their states alone, and settles no fewer.
LEMMA NodeKeeps ==
    ASSUME StageOK, NEW c \in Chains, NodeAdopts(c), ReorgDepth <= FinalityDepth
    PROVE  /\ SafeHeight' \in Nat /\ SafeHeight <= SafeHeight' /\ Len(node') >= 1
           /\ \A h \in 0..SafeHeight : node'[h + 1] = node[h + 1]
           /\ \A n \in 0..(SafeHeight + 1) : Replayed[node'][n] = Replayed[node][n]
<1>1. /\ SafeHeight \in Nat /\ SafeHeight < Len(node) /\ Len(node) \in Nat
      /\ FinalityDepth \in Nat /\ ReorgDepth \in Nat
    BY SafeOnChain, ScanAssumption
<1>2. node' = c /\ Len(c) \in Nat /\ Len(c) > Len(node) /\ Len(node) >= 1 /\ node \in Chains
    BY ChainType DEF NodeAdopts, StageOK
<1>3. PICK k \in 1..Len(node) : k >= Len(node) - ReorgDepth /\ \A i \in 1..k : c[i] = node[i]
    BY DEF NodeAdopts
<1>4. SafeHeight + 1 <= k
    BY <1>1, <1>2, <1>3 DEF SafeHeight
<1>5. SafeHeight' \in Nat /\ SafeHeight <= SafeHeight'
    BY <1>1, <1>2 DEF SafeHeight
<1>6. \A h \in 0..SafeHeight : node'[h + 1] = node[h + 1]
    BY <1>1, <1>2, <1>3, <1>4
<1>7. ASSUME NEW n \in 0..(SafeHeight + 1) PROVE Replayed[node'][n] = Replayed[node][n]
    <2>1. k \in Nat /\ k <= Len(c) /\ k <= Len(node) /\ n \in 0..k
        BY <1>1, <1>2, <1>3, <1>4
    <2>2. Replayed[c][n] = Replayed[node][n]
        BY <1>2, <1>3, <2>1, ReplayedAgrees
    <2> QED
        BY <1>2, <2>2
<1> QED
    BY <1>1, <1>2, <1>5, <1>6, <1>7

-----------------------------------------------------------------------------
(* Every step keeps the invariant *)

\* The node adopts another chain.
LEMMA NodeAdoptsInv ==
    ASSUME ScanInv, NEW c \in Chains, NodeAdopts(c), ReorgDepth <= FinalityDepth
    PROVE  ScanInv'
<1>1. /\ SafeHeight' \in Nat /\ SafeHeight <= SafeHeight' /\ Len(node') >= 1
      /\ \A h \in 0..SafeHeight : node'[h + 1] = node[h + 1]
      /\ \A n \in 0..(SafeHeight + 1) : Replayed[node'][n] = Replayed[node][n]
    BY NodeKeeps DEF ScanInv
<1>2. SafeHeight \in Nat /\ StartHeight \in Nat
    BY SafeOnChain DEF ScanInv
<1>3. node' = c /\ UNCHANGED <<file, checkpoints, pc, buffer, state, next, max_end, got, since, last>>
    BY DEF NodeAdopts, mem
<1>4. \A h : Settled(h) => Settled(h)'
    BY <1>1, <1>2 DEF Settled
<1>5. StageOK'
    <2>1. pc # "down" => /\ max_end \in StartHeight..SafeHeight'
                         /\ next \in StartHeight..(SafeHeight' + 1)
        BY <1>1, <1>2 DEF ScanInv, StageOK, Settled
    <2> QED
        BY <1>1, <1>3, <2>1 DEF ScanInv, StageOK, Settled
<1>6. StateIsReplay'
    <2>1. pc # "down" => next \in 0..(SafeHeight + 1) /\ max_end \in 0..SafeHeight
        BY <1>2 DEF ScanInv, StageOK, Settled
    <2>2. \A h \in DOMAIN got : h \in 0..SafeHeight
        BY <1>2, <2>1 DEF ScanInv, StateIsReplay
    <2> QED
        BY <1>1, <1>3, <2>1, <2>2 DEF ScanInv, StateIsReplay
<1>7. LastIsBefore'
    <2>1. pc \in {"rewrite", "save"} \/ since > 0 => next - 1 \in 0..SafeHeight /\ next - 1 + 1 = next
        BY <1>2 DEF ScanInv, StageOK, LastIsBefore
    <2> QED
        BY <1>1, <1>3, <2>1 DEF ScanInv, LastIsBefore
<1>8. CheckpointsGood'
    <2>1. ASSUME NEW k \in checkpoints PROVE CheckpointGood(k)'
        <3>1. CheckpointGood(k)
            BY DEF ScanInv, CheckpointsGood
        <3>2. k.height \in 0..SafeHeight /\ k.height + 1 \in 0..(SafeHeight + 1)
            BY <1>2, <3>1 DEF CheckpointGood, Settled
        <3> QED
            BY <1>1, <1>4, <3>1, <3>2 DEF CheckpointGood
    <2> QED
        BY <1>3, <2>1 DEF ScanInv, CheckpointsGood
<1>9. RowsGood'
    <2>1. ASSUME NEW h \in StartHeight..SafeHeight
          PROVE  RowAt(h)' = RowAt(h) /\ h \in StartHeight..SafeHeight'
        <3>1. h \in Int /\ h \in 0..SafeHeight /\ h \in 0..(SafeHeight + 1) /\ h \in StartHeight..SafeHeight'
            BY <1>1, <1>2
        <3>2. RowAt(h) = RowOf(h, node[h + 1], Replayed[node][h], Step(node, Replayed[node][h], h + 1))
            BY <3>1, RowAtIs
        <3>3. RowAt(h)' = RowOf(h, node'[h + 1], Replayed[node'][h],
                                Step(node', Replayed[node'][h], h + 1))
            <4>1. h - 1 + 1 = h
                BY <3>1
            <4> QED
                BY <4>1 DEF RowAt, Replay, Step
        <3>4. node'[h + 1] = node[h + 1] /\ Replayed[node'][h] = Replayed[node][h]
            BY <1>1, <3>1
        <3>5. Step(node', Replayed[node'][h], h + 1) = Step(node, Replayed[node][h], h + 1)
            BY <3>4 DEF Step
        <3> QED
            BY <3>1, <3>2, <3>3, <3>4, <3>5
    <2>2. GoodRows \subseteq GoodRows'
        BY <2>1 DEF GoodRows
    <2> QED
        BY <1>3, <2>2 DEF ScanInv, RowsGood
<1>10. SinceNewest'
    BY <1>3 DEF ScanInv, SinceNewest, NewestIs
<1> QED
    BY <1>5, <1>6, <1>7, <1>8, <1>9, <1>10 DEF ScanInv

\* While the node stands still, so does what is settled; a step that also
\* leaves the checkpoints alone keeps them good.
LEMMA SameNode ==
    ASSUME UNCHANGED node
    PROVE  /\ SafeHeight' = SafeHeight /\ GoodRows' = GoodRows
           /\ CheckpointsGood /\ UNCHANGED checkpoints => CheckpointsGood'
<1>1. SafeHeight' = SafeHeight
    BY DEF SafeHeight
<1>2. GoodRows' = GoodRows
    BY <1>1 DEF GoodRows, RowAt, Replay
<1>3. CheckpointsGood /\ UNCHANGED checkpoints => CheckpointsGood'
    BY <1>1 DEF CheckpointsGood, CheckpointGood, Settled
<1> QED
    BY <1>1, <1>2, <1>3

\* The end of the process: nothing but the files is left.
LEMMA ForgetInv ==
    ASSUME ScanInv, Forget, UNCHANGED <<node, checkpoints>>, file' \in Seq(GoodRows)
    PROVE  ScanInv'
<1>1. SafeHeight' = SafeHeight /\ GoodRows' = GoodRows /\ CheckpointsGood'
    BY SameNode DEF ScanInv
<1>2. /\ pc' = "down" /\ next' = StartHeight /\ max_end' = 0 /\ since' = 0 /\ state' = NewState
      /\ buffer' = << >> /\ DOMAIN got' = {}
    BY DEF Forget
<1>3. StageOK'
    BY <1>2, SafeOnChain DEF ScanInv, StageOK
<1>4. StateIsReplay'
    BY <1>2 DEF StateIsReplay
<1>5. LastIsBefore'
    BY <1>2 DEF LastIsBefore
<1>6. RowsGood'
    BY <1>1, <1>2 DEF RowsGood
<1>7. SinceNewest'
    BY <1>2 DEF SinceNewest
<1> QED
    BY <1>1, <1>3, <1>4, <1>5, <1>6, <1>7 DEF ScanInv

\* The run's last height is read from the node.
LEMMA StartInv ==
    ASSUME ScanInv, Start
    PROVE  ScanInv'
<1>1. SafeHeight' = SafeHeight /\ GoodRows' = GoodRows /\ CheckpointsGood'
    BY SameNode DEF ScanInv, Start
<1>2. /\ SafeHeight \in Nat /\ StartHeight \in Nat /\ SafeHeight < Len(node) /\ Len(node) \in Nat
      /\ Blocks \in Nat \ {0}
    BY SafeOnChain, ScanAssumption DEF ScanInv
<1>3. /\ pc = "down" /\ pc' = "restore" /\ SafeHeight >= StartHeight
      /\ max_end' = Lesser(StartHeight + Blocks - 1, SafeHeight)
      /\ UNCHANGED <<node, file, buffer, state, next, got, since, last>>
    BY DEF Start
<1>4. max_end' \in StartHeight..SafeHeight
    BY <1>2, <1>3 DEF Lesser
<1>5. StageOK'
    BY <1>1, <1>2, <1>3, <1>4 DEF ScanInv, StageOK, Settled
<1>6. StateIsReplay'
    <2>1. StartHeight \in 0..Len(node) /\ node \in Chains
        BY <1>2, <1>3 DEF ScanInv, StageOK
    <2>2. Replayed[node][StartHeight] = NewState
        BY <1>2, <2>1, ReplayedBy
    <2> QED
        BY <1>3, <2>2 DEF ScanInv, StateIsReplay, StageOK
<1>7. LastIsBefore'
    BY <1>3 DEF ScanInv, LastIsBefore, StageOK
<1>8. RowsGood'
    BY <1>1, <1>3 DEF ScanInv, RowsGood
<1>9. SinceNewest'
    BY <1>3 DEF SinceNewest
<1> QED
    BY <1>1, <1>5, <1>6, <1>7, <1>8, <1>9 DEF ScanInv

\* The newest checkpoint is restored; all of them are canonical.
LEMMA RestoreInv ==
    ASSUME ScanInv, Restore
    PROVE  ScanInv'
<1>1. SafeHeight' = SafeHeight /\ GoodRows' = GoodRows /\ CheckpointsGood'
    BY SameNode DEF ScanInv, Restore
<1>2. SafeHeight \in Nat /\ StartHeight \in Nat /\ SafeHeight < Len(node) /\ Len(node) \in Nat
    BY SafeOnChain DEF ScanInv
<1>3. PICK c \in Restorable : /\ state' = c.scanner_state
                               /\ next' = ResumeHeight(c)
                               /\ last' = [height |-> c.height, hash |-> c.hash]
                               /\ buffer' = RowsThrough(c.height)
    BY DEF Restore
<1>4. /\ pc = "restore" /\ pc' = "rewrite" /\ file' = << >>
      /\ UNCHANGED <<node, checkpoints, max_end, got, since>>
    BY DEF Restore
<1>5. \A d \in checkpoints : /\ d.height \in StartHeight..SafeHeight
                              /\ d.hash = node[d.height + 1]
                              /\ d.scanner_state = Replayed[node][d.height + 1]
                              /\ Canonical(d)
    BY <1>2 DEF ScanInv, CheckpointsGood, CheckpointGood, Settled, Canonical
<1>6. c \in checkpoints /\ \A d \in checkpoints : d.height <= c.height
    BY <1>5 DEF Restorable
<1>7. next' = c.height + 1 /\ c.height \in StartHeight..SafeHeight /\ next' - 1 = c.height
    BY <1>3, <1>5, <1>6 DEF ResumeHeight
<1>8. StageOK'
    BY <1>1, <1>2, <1>4, <1>7 DEF ScanInv, StageOK, Settled
<1>9. StateIsReplay'
    BY <1>3, <1>4, <1>5, <1>6, <1>7 DEF ScanInv, StateIsReplay
<1>10. LastIsBefore'
    BY <1>2, <1>3, <1>4, <1>5, <1>6, <1>7 DEF LastIsBefore
<1>11. RowsGood'
    <2>1. buffer' \in Seq(GoodRows)
        BY <1>3, KeptRows DEF ScanInv, RowsGood
    <2> QED
        BY <1>1, <1>4, <2>1 DEF RowsGood
<1>12. SinceNewest'
    <2>1. next' - 1 - since' = c.height
        BY <1>4, <1>7 DEF ScanInv, StageOK
    <2> QED
        BY <1>4, <1>6, <2>1 DEF SinceNewest, NewestIs
<1> QED
    BY <1>1, <1>8, <1>9, <1>10, <1>11, <1>12 DEF ScanInv

\* Nothing to restore means that there is no checkpoint at all: of canonical
\* checkpoints one is the newest.
LEMMA StartOverInv ==
    ASSUME ScanInv, StartOver
    PROVE  ScanInv'
<1>1. SafeHeight' = SafeHeight /\ GoodRows' = GoodRows /\ CheckpointsGood'
    BY SameNode DEF ScanInv, StartOver
<1>2. SafeHeight \in Nat /\ StartHeight \in Nat /\ SafeHeight < Len(node) /\ Len(node) \in Nat
    BY SafeOnChain DEF ScanInv
<1>3. /\ pc = "restore" /\ pc' = "fetch" /\ Restorable = {}
      /\ UNCHANGED <<node, file, checkpoints, buffer, state, next, max_end, got, since, last>>
    BY DEF StartOver, mem
<1>4. checkpoints = {}
    <2> SUFFICES ASSUME checkpoints # {} PROVE FALSE
        OBVIOUS
    <2> DEFINE T == {n \in Nat : \E d \in checkpoints : n = SafeHeight - d.height}
    <2>1. \A d \in checkpoints : d.height \in StartHeight..SafeHeight /\ Canonical(d)
        BY <1>2 DEF ScanInv, CheckpointsGood, CheckpointGood, Settled, Canonical
    <2>2. \A d \in checkpoints : SafeHeight - d.height \in T
        BY <1>2, <2>1
    <2>3. PICK t \in T : \A n \in T : t <= n
        <3>1. T \in SUBSET Nat /\ T # {}
            BY <2>2
        <3> HIDE DEF T
        <3> QED
            BY <3>1, LeastNatural
    <2>4. PICK c \in checkpoints : t = SafeHeight - c.height
        BY <2>3
    <2>5. ASSUME NEW d \in checkpoints PROVE d.height <= c.height
        <3>1. SafeHeight - c.height <= SafeHeight - d.height
            BY <2>2, <2>3, <2>4
        <3> QED
            BY <1>2, <2>1, <3>1
    <2>6. c \in Restorable
        BY <2>1, <2>4, <2>5 DEF Restorable
    <2> QED
        BY <1>3, <2>6
<1>5. StageOK'
    BY <1>1, <1>3 DEF ScanInv, StageOK, Settled
<1>6. StateIsReplay'
    BY <1>3 DEF ScanInv, StateIsReplay
<1>7. LastIsBefore'
    BY <1>3 DEF ScanInv, StageOK, LastIsBefore
<1>8. RowsGood'
    BY <1>1, <1>3 DEF ScanInv, RowsGood
<1>9. SinceNewest'
    <2>1. next' - 1 - since' = StartHeight - 1
        BY <1>2, <1>3 DEF ScanInv, StageOK
    <2> QED
        BY <1>3, <1>4, <2>1 DEF SinceNewest, NewestIs
<1> QED
    BY <1>1, <1>5, <1>6, <1>7, <1>8, <1>9 DEF ScanInv

\* The kept rows are written.
LEMMA RewriteInv ==
    ASSUME ScanInv, Rewrite
    PROVE  ScanInv'
<1>1. SafeHeight' = SafeHeight /\ GoodRows' = GoodRows /\ CheckpointsGood'
    BY SameNode DEF ScanInv, Rewrite
<1>2. pc = "rewrite" /\ file' \in Seq(GoodRows) /\ UNCHANGED <<node, checkpoints>>
    BY DEF ScanInv, RowsGood, Rewrite
<1>3. CASE next > max_end
    <2>1. Forget
        BY <1>3 DEF Rewrite
    <2> QED
        BY <1>2, <2>1, ForgetInv
<1>4. CASE ~(next > max_end)
    <2>1. /\ pc' = "fetch" /\ buffer' = << >>
          /\ UNCHANGED <<node, checkpoints, state, next, max_end, got, since>>
        BY <1>4 DEF Rewrite
    <2>2. StageOK'
        BY <1>1, <1>2, <2>1 DEF ScanInv, StageOK, Settled
    <2>3. StateIsReplay'
        BY <1>2, <2>1 DEF ScanInv, StateIsReplay
    <2>4. LastIsBefore'
        BY <1>2, <2>1 DEF ScanInv, StageOK, LastIsBefore
    <2>5. RowsGood'
        BY <1>1, <1>2, <2>1 DEF RowsGood
    <2>6. SinceNewest'
        BY <1>2, <2>1 DEF ScanInv, SinceNewest, NewestIs
    <2> QED
        BY <1>1, <2>2, <2>3, <2>4, <2>5, <2>6 DEF ScanInv
<1> QED
    BY <1>3, <1>4

\* A block of the batch is fetched; a settled one, so that it stays the
\* node's.
LEMMA FetchBlockInv ==
    ASSUME ScanInv, NEW h, FetchBlock(h)
    PROVE  ScanInv'
<1>1. SafeHeight' = SafeHeight /\ GoodRows' = GoodRows /\ CheckpointsGood'
    BY SameNode DEF ScanInv, FetchBlock
<1>2. /\ pc = "fetch" /\ pc' \in {"fetch", "commit"}
      /\ UNCHANGED <<node, file, checkpoints, buffer, state, next, max_end, since, last>>
      /\ got' = [k \in DOMAIN got \cup {h} |-> IF k = h THEN node[h + 1] ELSE got[k]]
    BY DEF FetchBlock
<1>3. h \in 0..max_end
    <2>1. BatchSize \in Nat /\ next \in Nat /\ max_end \in Nat /\ h \in next..BatchEnd
        BY ScanAssumption DEF ScanInv, StageOK, FetchBlock
    <2> QED
        BY <2>1 DEF BatchEnd, Lesser
<1>4. StageOK'
    BY <1>1, <1>2 DEF ScanInv, StageOK, Settled
<1>5. StateIsReplay'
    BY <1>2, <1>3 DEF ScanInv, StateIsReplay
<1>6. LastIsBefore'
    BY <1>2 DEF ScanInv, LastIsBefore
<1>7. RowsGood'
    BY <1>1, <1>2 DEF ScanInv, RowsGood
<1>8. SinceNewest'
    BY <1>2 DEF ScanInv, SinceNewest, NewestIs
<1> QED
    BY <1>1, <1>4, <1>5, <1>6, <1>7, <1>8 DEF ScanInv

\* A block is committed: the state after it is that of the uninterrupted
\* scan, and so is its row.
LEMMA CommitInv ==
    ASSUME ScanInv, Commit
    PROVE  ScanInv'
<1> DEFINE b == got[next]
           after == ApplyBlock(state, FirstTxid[b], Txs[b])
           row == RowOf(next, b, state, after)
<1>1. SafeHeight' = SafeHeight /\ GoodRows' = GoodRows /\ CheckpointsGood'
    BY SameNode DEF ScanInv, Commit
<1>2. /\ SafeHeight \in Nat /\ StartHeight \in Nat /\ SafeHeight < Len(node) /\ Len(node) \in Nat
      /\ Every \in Nat \ {0} /\ node \in Chains
    BY SafeOnChain DEF ScanInv, StageOK
<1>3. /\ pc = "commit" /\ next \in DOMAIN got /\ next' = next + 1
      /\ got' = [k \in DOMAIN got \ {next} |-> got[k]]
      /\ since' = IF Due THEN 0 ELSE since + 1
      /\ pc' = IF Due THEN "save" ELSE "commit"
      /\ UNCHANGED <<node, checkpoints, max_end>>
    BY DEF Commit
<1>4. /\ state' = after.state /\ last' = [height |-> next, hash |-> b]
      /\ \/ buffer' = Append(buffer, row) /\ UNCHANGED file
         \/ file' = file \o buffer /\ buffer' = <<row>>
    BY DEF Commit
<1>5. b = node[next + 1] /\ next \in StartHeight..SafeHeight /\ next \in Nat
    BY <1>2, <1>3 DEF ScanInv, StageOK, StateIsReplay, Settled
<1>6. state = Replayed[node][next]
    BY <1>3 DEF ScanInv, StateIsReplay
<1>7. after = Step(node, Replayed[node][next], next + 1)
    BY <1>5, <1>6 DEF Step
<1>8. row \in GoodRows
    <2>1. row = RowAt(next)
        BY <1>5, <1>6, <1>7, RowAtIs
    <2> QED
        BY <1>5, <2>1 DEF GoodRows
<1>9. state' = Replayed[node][next + 1]
    <2> DEFINE n == next + 1
    <2>1. n \in 0..Len(node) /\ ~(n <= StartHeight) /\ n - 1 = next
        BY <1>2, <1>5
    <2> HIDE DEF n
    <2>2. Replayed[node][n] = Step(node, Replayed[node][next], n).state
        BY <1>2, <2>1, ReplayedBy
    <2> HIDE DEF after
    <2> QED
        BY <1>4, <1>7, <2>2 DEF n
<1> HIDE DEF b, after, row
<1>10. StageOK'
    BY <1>1, <1>2, <1>3, <1>5 DEF ScanInv, StageOK, Settled, Due
<1>11. StateIsReplay'
    BY <1>3, <1>9 DEF ScanInv, StateIsReplay
<1>12. LastIsBefore'
    <2>1. next' > StartHeight /\ next' - 1 = next
        BY <1>2, <1>3, <1>5
    <2> QED
        BY <1>3, <1>4, <1>5, <2>1 DEF LastIsBefore
<1>13. RowsGood'
    <2>1. file \in Seq(GoodRows) /\ buffer \in Seq(GoodRows)
        BY DEF ScanInv, RowsGood
    <2>2. file' \in Seq(GoodRows) /\ buffer' \in Seq(GoodRows)
        <3>1. Append(buffer, row) \in Seq(GoodRows) /\ <<row>> \in Seq(GoodRows)
            BY <1>8, <2>1
        <3>2. file \o buffer \in Seq(GoodRows)
            BY <2>1
        <3> QED
            BY <1>4, <2>1, <3>1, <3>2
    <2> QED
        BY <1>1, <2>2 DEF RowsGood
<1>14. SinceNewest'
    <2>1. NewestIs(next - 1 - since) /\ since \in Nat
        BY <1>2, <1>3 DEF ScanInv, SinceNewest, StageOK
    <2>2. CASE Due
        <3>1. \A c \in checkpoints : c.height \in Nat
            BY <1>2 DEF ScanInv, CheckpointsGood, CheckpointGood, Settled
        <3>2. \A c \in checkpoints : c.height <= next' - 1
            BY <1>3, <1>5, <2>1, <3>1 DEF NewestIs
        <3> QED
            BY <1>3, <2>2, <3>2 DEF SinceNewest
    <2>3. CASE ~Due
        <3>1. next' - 1 - since' = next - 1 - since
            BY <1>3, <1>5, <2>1, <2>3
        <3>2. NewestIs(next - 1 - since)'
            BY <1>3, <2>1, <3>1 DEF NewestIs
        <3> QED
            BY <1>3, <2>3, <3>2 DEF SinceNewest
    <2> QED
        BY <2>2, <2>3
<1> QED
    BY <1>1, <1>10, <1>11, <1>12, <1>13, <1>14 DEF ScanInv

\* A checkpoint of the last committed block is written.
LEMMA SaveInv ==
    ASSUME ScanInv, Save
    PROVE  ScanInv'
<1> DEFINE c == [height |-> last.height, hash |-> last.hash, scanner_state |-> state]
<1>1. SafeHeight' = SafeHeight /\ GoodRows' = GoodRows
    BY SameNode DEF Save
<1>2. SafeHeight \in Nat /\ StartHeight \in Nat /\ Every \in Nat
    BY SafeOnChain DEF ScanInv
<1>3. /\ pc \in {"save", "finalSave"} /\ pc' = IF pc = "save" THEN "prune" ELSE "finalPrune"
      /\ checkpoints' = checkpoints \cup {c}
      /\ UNCHANGED <<node, file, buffer, state, next, max_end, got, since, last>>
    BY DEF Save, mem
<1>4. /\ next > StartHeight /\ last = [height |-> next - 1, hash |-> node[next]]
      /\ next \in StartHeight..(SafeHeight + 1) /\ state = Replayed[node][next]
    BY <1>3 DEF ScanInv, StageOK, StateIsReplay, LastIsBefore
<1>5. c.height = next - 1 /\ next - 1 \in StartHeight..SafeHeight /\ next - 1 + 1 = next
    BY <1>2, <1>4
<1>6. CheckpointGood(c)
    BY <1>4, <1>5 DEF CheckpointGood, Settled
<1> HIDE DEF c
<1>7. CheckpointsGood'
    <2>1. \A d \in checkpoints' : CheckpointGood(d)'
        BY <1>1, <1>3, <1>6 DEF ScanInv, CheckpointsGood, CheckpointGood, Settled
    <2>2. IsFiniteSet(checkpoints')
        BY <1>3, FS_AddElement DEF ScanInv, CheckpointsGood
    <2> QED
        BY <2>1, <2>2 DEF CheckpointsGood
<1>8. StageOK'
    BY <1>1, <1>3 DEF ScanInv, StageOK, Settled
<1>9. StateIsReplay'
    BY <1>3 DEF ScanInv, StateIsReplay
<1>10. LastIsBefore'
    BY <1>3 DEF ScanInv, LastIsBefore
<1>11. RowsGood'
    BY <1>1, <1>3 DEF ScanInv, RowsGood
<1>12. SinceNewest'
    <2>1. CASE pc = "save"
        <3>1. \A d \in checkpoints' : d.height <= next - 1
            BY <1>3, <1>5, <2>1 DEF ScanInv, SinceNewest
        <3>2. c \in checkpoints'
            BY <1>3
        <3> QED
            BY <1>3, <1>5, <2>1, <3>1, <3>2 DEF SinceNewest, NewestIs
    <2>2. CASE pc = "finalSave"
        BY <1>3, <2>2 DEF SinceNewest
    <2> QED
        BY <1>3, <2>1, <2>2
<1> QED
    BY <1>7, <1>8, <1>9, <1>10, <1>11, <1>12 DEF ScanInv

\* Pruning keeps a newest checkpoint: it keeps at least one.
LEMMA PruneInv ==
    ASSUME ScanInv, Prune
    PROVE  ScanInv'
<1>1. SafeHeight' = SafeHeight /\ GoodRows' = GoodRows
    BY SameNode DEF Prune
<1>2. /\ pc \in {"prune", "finalPrune"} /\ pc' = IF pc = "prune" THEN "commit" ELSE "flush"
      /\ UNCHANGED <<node, file, buffer, state, next, max_end, got, since, last>>
    BY DEF Prune, mem
<1>3. PICK kept \in SUBSET checkpoints :
          /\ Cardinality(kept) = Lesser(Keep, Cardinality(checkpoints))
          /\ KeptNewest(kept)
          /\ checkpoints' = kept
    BY DEF Prune
<1>4. CheckpointsGood'
    <2>1. IsFiniteSet(kept)
        BY <1>3, FS_Subset DEF ScanInv, CheckpointsGood
    <2> QED
        BY <1>1, <1>2, <1>3, <2>1 DEF ScanInv, CheckpointsGood, CheckpointGood, Settled
<1>5. StageOK'
    BY <1>1, <1>2 DEF ScanInv, StageOK, Settled
<1>6. StateIsReplay'
    BY <1>2 DEF ScanInv, StateIsReplay
<1>7. LastIsBefore'
    BY <1>2 DEF ScanInv, LastIsBefore
<1>8. RowsGood'
    BY <1>1, <1>2 DEF ScanInv, RowsGood
<1>9. SinceNewest'
    <2>1. CASE pc = "prune"
        <3>1. NewestIs(next - 1) /\ checkpoints # {} /\ since = 0 /\ next \in Nat
            BY <2>1 DEF ScanInv, SinceNewest, StageOK
        <3>2. PICK m \in checkpoints : m.height = next - 1
            BY <3>1 DEF NewestIs
        <3>3. kept # {}
            <4>1. IsFiniteSet(checkpoints) /\ Keep \in Nat \ {0}
                BY ScanAssumption DEF ScanInv, CheckpointsGood
            <4>2. Cardinality(checkpoints) \in Nat /\ Cardinality(checkpoints) # 0
                BY <3>1, <4>1, FS_CardinalityType, FS_EmptySet
            <4>3. Cardinality(kept) # 0
                BY <1>3, <4>1, <4>2 DEF Lesser
            <4> QED
                BY <4>3, FS_EmptySet
        <3>4. \A d \in checkpoints : d.height \in Int /\ d.height <= next - 1
            BY <3>1, ScanAssumption DEF NewestIs, ScanInv, CheckpointsGood, CheckpointGood, Settled
        <3>5. \E d \in kept : d.height = next - 1
            <4>1. CASE m \in kept
                BY <3>2, <4>1
            <4>2. CASE ~(m \in kept)
                <5>1. PICK d \in kept : TRUE
                    BY <3>3
                <5>2. d.height >= m.height /\ d \in checkpoints
                    BY <1>3, <4>2 DEF KeptNewest
                <5> QED
                    BY <3>1, <3>2, <3>4, <5>2
            <4> QED
                BY <4>1, <4>2
        <3>6. next' - 1 - since' = next - 1
            BY <1>2, <3>1
        <3> QED
            BY <1>2, <1>3, <2>1, <3>3, <3>4, <3>5, <3>6 DEF SinceNewest, NewestIs
    <2>2. CASE pc = "finalPrune"
        BY <1>2, <2>2 DEF SinceNewest
    <2> QED
        BY <1>2, <2>1, <2>2
<1> QED
    BY <1>4, <1>5, <1>6, <1>7, <1>8, <1>9 DEF ScanInv

\* The steps between the batches and at the end of the scan.
LEMMA TurnInv ==
    ASSUME ScanInv, NextBatch \/ EndScan
    PROVE  ScanInv'
<1>1. SafeHeight' = SafeHeight /\ GoodRows' = GoodRows /\ CheckpointsGood'
    BY SameNode DEF ScanInv, NextBatch, EndScan
<1>2. /\ pc = "commit"
      /\ UNCHANGED <<node, file, checkpoints, buffer, state, next, max_end, got, since, last>>
      /\ \/ pc' \in {"fetch", "flush"}
         \/ pc' = "finalSave" /\ since > 0
    BY DEF NextBatch, EndScan, NeedsFinalFlush, mem
<1>3. StageOK'
    BY <1>1, <1>2 DEF ScanInv, StageOK, Settled
<1>4. StateIsReplay'
    BY <1>2 DEF ScanInv, StateIsReplay
<1>5. LastIsBefore'
    BY <1>2 DEF ScanInv, LastIsBefore
<1>6. RowsGood'
    BY <1>1, <1>2 DEF ScanInv, RowsGood
<1>7. SinceNewest'
    BY <1>2 DEF ScanInv, SinceNewest, NewestIs
<1> QED
    BY <1>1, <1>3, <1>4, <1>5, <1>6, <1>7 DEF ScanInv

\* The process ends, with or without its buffered rows.
LEMMA StopInv ==
    ASSUME ScanInv, Flush \/ Crash
    PROVE  ScanInv'
<1>1. Forget /\ UNCHANGED <<node, checkpoints>> /\ (file' = file \/ file' = file \o buffer)
    BY DEF Flush, Crash
<1>2. file' \in Seq(GoodRows)
    <2>1. file \in Seq(GoodRows) /\ buffer \in Seq(GoodRows)
        BY DEF ScanInv, RowsGood
    <2>2. file \o buffer \in Seq(GoodRows)
        BY <2>1
    <2> QED
        BY <1>1, <2>1, <2>2
<1> QED
    BY <1>1, <1>2, ForgetInv

-----------------------------------------------------------------------------
(* The theorems *)

\* The first start: no files, no process.
LEMMA ScanInit ==
    ASSUME Init
    PROVE  ScanInv
<1>1. node \in Chains /\ Len(node) = 1 /\ StartHeight \in Nat /\ Every \in Nat \ {0}
    BY ScanAssumption DEF Init
<1>2. StageOK
    BY <1>1 DEF Init, StageOK
<1>3. StateIsReplay
    BY DEF Init, StateIsReplay
<1>4. LastIsBefore
    BY DEF Init, LastIsBefore
<1>5. CheckpointsGood
    BY FS_EmptySet DEF Init, CheckpointsGood
<1>6. RowsGood
    BY DEF Init, RowsGood
<1>7. SinceNewest
    BY DEF Init, SinceNewest
<1> QED
    BY <1>2, <1>3, <1>4, <1>5, <1>6, <1>7 DEF ScanInv

\* A scan that is interrupted and resumed in any way keeps the inductive
\* invariant: its state, its checkpoints and its rows belong to one
\* uninterrupted scan of settled blocks, and the checkpoint counter is
\* right (scan, restore_newest_valid_checkpoint, CheckpointWriter).
THEOREM ScanInvariant ==
    ASSUME ReorgDepth <= FinalityDepth
    PROVE  Spec => []ScanInv
<1>1. Init => ScanInv
    BY ScanInit
<1>2. ScanInv /\ [Next]_vars => ScanInv'
    <2> SUFFICES ASSUME ScanInv, [Next]_vars PROVE ScanInv'
        OBVIOUS
    <2>1. CASE Start
        BY <2>1, StartInv
    <2>2. CASE Restore
        BY <2>2, RestoreInv
    <2>3. CASE StartOver
        BY <2>3, StartOverInv
    <2>4. CASE Rewrite
        BY <2>4, RewriteInv
    <2>5. ASSUME NEW h, FetchBlock(h) PROVE ScanInv'
        BY <2>5, FetchBlockInv
    <2>6. CASE Commit
        BY <2>6, CommitInv
    <2>7. CASE Save
        BY <2>7, SaveInv
    <2>8. CASE Prune
        BY <2>8, PruneInv
    <2>9. CASE NextBatch \/ EndScan
        BY <2>9, TurnInv
    <2>10. CASE Flush \/ Crash
        BY <2>10, StopInv
    <2>11. ASSUME NEW c \in Chains, NodeAdopts(c) PROVE ScanInv'
        BY <2>11, NodeAdoptsInv
    <2>12. CASE UNCHANGED vars
        <3>1. UNCHANGED <<node, file, checkpoints, pc, buffer, state, next, max_end, got, since, last>>
            BY <2>12 DEF vars, mem
        <3>2. SafeHeight' = SafeHeight /\ GoodRows' = GoodRows /\ CheckpointsGood'
            BY <3>1, SameNode DEF ScanInv
        <3>3. StageOK' /\ StateIsReplay' /\ LastIsBefore'
            BY <3>1, <3>2 DEF ScanInv, StageOK, Settled, StateIsReplay, LastIsBefore
        <3>4. RowsGood' /\ SinceNewest'
            BY <3>1, <3>2 DEF ScanInv, RowsGood, SinceNewest, NewestIs
        <3> QED
            BY <3>2, <3>3, <3>4 DEF ScanInv
    <2> QED
        BY <2>1, <2>2, <2>3, <2>4, <2>5, <2>6, <2>7, <2>8, <2>9, <2>10, <2>11, <2>12
        DEF Next, Scanner
<1> QED
    BY <1>1, <1>2, PTL DEF Spec

\* However often the scan was interrupted, its state and that of every
\* checkpoint is that of one uninterrupted scan, as long as reorganisations
\* stay within --finality-depth (restore, make_checkpoint).
THEOREM AlwaysResumesExactly ==
    ASSUME ReorgDepth <= FinalityDepth
    PROVE  Spec => []ResumesExactly
<1>1. ScanInv => ResumesExactly
    <2> SUFFICES ASSUME ScanInv PROVE ResumesExactly
        OBVIOUS
    <2>1. SafeHeight \in Nat /\ StartHeight \in Nat /\ SafeHeight < Len(node) /\ Len(node) \in Nat
        BY SafeOnChain DEF ScanInv
    <2>2. ASSUME pc # "down" PROVE state = Replay(next - 1)
        <3>1. next - 1 + 1 = next
            BY DEF ScanInv, StageOK
        <3> QED
            BY <2>2, <3>1 DEF ScanInv, StateIsReplay, Replay
    <2>3. ASSUME NEW c \in checkpoints PROVE Canonical(c) /\ c.scanner_state = Replay(c.height)
        BY <2>1 DEF ScanInv, CheckpointsGood, CheckpointGood, Settled, Canonical, Replay
    <2> QED
        BY <2>2, <2>3 DEF ResumesExactly
<1> QED
    BY <1>1, ScanInvariant, PTL

\* Every row in the CSV file is that of one uninterrupted scan of the node's
\* chain, after every crash, rollback and rewrite (emit_block,
\* rollback_csv_to_height).
THEOREM RowsStayExact ==
    ASSUME ReorgDepth <= FinalityDepth
    PROVE  Spec => []RowsExact
<1>1. ScanInv => RowsExact
    <2> SUFFICES ASSUME ScanInv, NEW i \in DOMAIN file PROVE file[i] = RowAt(file[i].height)
        BY DEF RowsExact
    <2>1. file[i] \in GoodRows
        BY DEF ScanInv, RowsGood
    <2>2. PICK h \in StartHeight..SafeHeight : file[i] = RowAt(h)
        BY <2>1 DEF GoodRows
    <2>3. h \in Int
        BY <2>2, SafeOnChain DEF ScanInv
    <2>4. RowAt(h).height = h
        BY <2>3, RowAtIs DEF RowOf
    <2> QED
        BY <2>2, <2>4
<1> QED
    BY <1>1, ScanInvariant, PTL

\* A crash costs less than --checkpoint-every blocks: the newest checkpoint
\* is never further behind, whatever was pruned (on_committed_block,
\* prune_checkpoints).
THEOREM LossStaysBounded ==
    ASSUME ReorgDepth <= FinalityDepth
    PROVE  Spec => []LossBounded
<1>1. ScanInv => LossBounded
    <2> SUFFICES ASSUME ScanInv, pc \in {"fetch", "commit"}
                 PROVE  next - 1 - Newest(checkpoints) < Every
        BY DEF LossBounded
    <2> DEFINE h == next - 1 - since
    <2>1. NewestIs(h) /\ next \in Nat /\ since \in Nat /\ since < Every /\ Every \in Nat
        BY ScanAssumption DEF ScanInv, SinceNewest, StageOK
    <2>2. h \in Int /\ next - 1 - h = since
        BY <2>1
    <2>3. \A c \in checkpoints : c.height \in Int
        BY SafeOnChain DEF ScanInv, CheckpointsGood, CheckpointGood, Settled
    <2> HIDE DEF h
    <2>4. Newest(checkpoints) = h
        <3>1. CASE checkpoints = {}
            BY <2>1, <3>1 DEF Newest, NewestIs
        <3>2. CASE checkpoints # {}
            <4> DEFINE H == {c.height : c \in checkpoints}
            <4>1. h \in H /\ \A x \in H : x \in Int /\ x <= h
                BY <2>1, <2>3, <3>2 DEF NewestIs
            <4> HIDE DEF H
            <4>2. Max(H) = h
                <5> DEFINE Top(x) == x \in H /\ \A y \in H : x >= y
                <5>1. Top(h) /\ \A x : Top(x) => x = h
                    <6>1. Top(h)
                        BY <2>2, <4>1
                    <6>2. ASSUME NEW x, Top(x) PROVE x = h
                        <7>1. x \in Int /\ x <= h /\ x >= h
                            BY <4>1, <6>2
                        <7> QED
                            BY <2>2, <7>1
                    <6> QED
                        BY <6>1, <6>2
                <5>2. Max(H) = CHOOSE x : Top(x)
                    BY DEF Max
                <5> HIDE DEF Top
                <5> QED
                    BY <5>1, <5>2
            <4> QED
                BY <3>2, <4>2 DEF Newest, H
        <3> QED
            BY <3>1, <3>2
    <2> QED
        BY <2>1, <2>2, <2>4
<1> QED
    BY <1>1, ScanInvariant, PTL
=============================================================================
