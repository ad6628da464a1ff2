-------------------------- MODULE StatsLedgerProofs --------------------------
(***************************************************************************)
(* UtxoExact, HashCoversWindow, SpentUidsExact and CountsExact of          *)
(* StatsLedger for ledgers of any length, any keys and any hash window.    *)
(*                                                                         *)
(* Inputs and outputs are cells <<t, v>> of the ledger, and the scan of a  *)
(* block moves a place through the inputs and one through the outputs.     *)
(* What the scanner has accumulated when it reaches two places is stated   *)
(* over the cells before them (AccOk); ApplyInput and ApplyOutput carry it *)
(* from cell to cell, and at the end of a block it is the invariant of the *)
(* scanner state and of the row.                                           *)
(***************************************************************************)
EXTENDS StatsLedger, FiniteSetTheorems, WellFoundedInduction, TLAPS

Kinds == Keys \cup {Other}
Input == [prev : Nat \X Nat, path : Paths]
Tx == [coinbase : BOOLEAN, inputs : Seq(Input), outputs : Seq(Kinds)]
EventSets == SUBSET ({"add", "rem"} \X Nat)
Row ==
    [height : Nat, hash : Nat, last_global_id : Nat, utxo_hash : EventSets,
     spent_uids : Seq(Nat), p2tr_spent_uids : Seq(Nat), counts : [RowCounters -> Int]]

\* The cells of rows of widths W, and those from row a on before a place.
Cells(W) == UNION {{t} \X (1..W[t]) : t \in DOMAIN W}
To(W, a, p) == {q \in Cells(W) : a <= q[1] /\ Before(q, p)}

\* The outputs and the inputs of a ledger.
Outs(L) == [t \in DOMAIN L |-> Len(L[t].outputs)]
Ins(L) == [t \in DOMAIN L |-> Len(L[t].inputs)]
Kind(L, o) == L[o[1]].outputs[o[2]]
Prev(L, x) == L[x[1]].inputs[x[2]].prev
Path(L, x) == L[x[1]].inputs[x[2]].path

\* How many outputs come before a place, and the global id of an output.
Rank(L, p) == Cardinality(To(Outs(L), 1, p))
Id(L, o) == 1 + Rank(L, o)

\* The spends of known outputs among the inputs X, the outputs they spend,
\* and those of them that are P2TR.
Known(L, X) == {x \in X : Prev(L, x) \notin PreScan}
Unknown(L, X) == {x \in X : Prev(L, x) \in PreScan}
Outpoints(L, X) == {Prev(L, x) : x \in Known(L, X)}
P2trOf(L, O) == {o \in O : Kind(L, o) # Other}

\* Blocks end at e; In(e, h, t) says that block h holds transaction t.
Fin(e, h) == IF h = 0 THEN 0 ELSE e[h]
In(e, h, t) == Fin(e, h - 1) < t /\ t <= Fin(e, h)
Same(L, e, x) == \E h \in 1..Len(e) : In(e, h, x[1]) /\ In(e, h, Prev(L, x)[1])

\* The counters an input, an output and a transaction should move.
InputCounters(L, e, x) ==
    LET ctx == IF Same(L, e, x) THEN "SameBlock" ELSE "Earlier"
        p2tr == IF Kind(L, Prev(L, x)) # Other THEN RunP2trSpend(Path(L, x), ctx) ELSE {}
    IN  IF Prev(L, x) \in PreScan THEN {} ELSE RunSpend(ctx) \cup p2tr

NumsOnly(L, t) ==
    /\ L[t].inputs # << >>
    /\ \A i \in DOMAIN L[t].inputs :
          /\ Prev(L, <<t, i>>) \notin PreScan
          /\ Kind(L, Prev(L, <<t, i>>)) # Other /\ Path(L, <<t, i>>) = "ScriptNums"

SeenBefore(L, o) == \E q \in To(Outs(L), 1, o) : Kind(L, q) = Kind(L, o)
CountersOf(L, o) == OutputCounters(Kind(L, o), SeenBefore(L, o), NumsOnly(L, o[1]))
TxCounters(L, t) == {c \in {"nonsp_txs"} : NumsOnly(L, t)}

\* What counter c should show after inputs X, outputs O and transactions Z.
Tally(L, e, c, X, O, Z) ==
    Cardinality({x \in X : c \in InputCounters(L, e, x)})
    + Cardinality({o \in O : c \in CountersOf(L, o)})
    + Cardinality({t \in Z : c \in TxCounters(L, t)})

\* The events of outputs O and of spent outputs S.
Events(L, O, S) == {<<"add", Id(L, o)>> : o \in O} \cup {<<"rem", Id(L, o)>> : o \in S}

\* The same for the transactions a to b.
OutsOf(L, a, b) == To(Outs(L), a, <<b + 1, 1>>)
InsOf(L, a, b) == To(Ins(L), a, <<b + 1, 1>>)
EventsOf(L, a, b) == Events(L, OutsOf(L, a, b), Outpoints(L, InsOf(L, a, b)))

\* Inputs spend outputs from before the scan or of earlier transactions, each
\* once.
LedgerOk(L) ==
    /\ L \in Seq(Tx)
    /\ \A t \in DOMAIN L : L[t].coinbase => L[t].inputs = << >>
    /\ \A x \in Cells(Ins(L)) : Prev(L, x) \notin PreScan =>
          Prev(L, x) \in Cells(Outs(L)) /\ Prev(L, x)[1] < x[1]
    /\ \A x, y \in Cells(Ins(L)) : Prev(L, x) = Prev(L, y) => x = y

\* Blocks follow one another and hold every transaction up to the last end.
EndsOk(L, e) ==
    /\ e \in Seq(Nat)
    /\ \A h \in 1..Len(e) : 1 <= e[h] /\ e[h] <= Len(L)
    /\ \A h, k \in 1..Len(e) : h < k => e[h] < e[k]
    /\ \A t \in 1..Fin(e, Len(e)) : \E h \in 1..Len(e) : In(e, h, t)

\* The UTXO map, the ids and the keys seen, after the inputs X and the outputs
\* before place p.
UtxoPart(L, s, X, p) ==
    LET O == To(Outs(L), 1, p) IN
    /\ DOMAIN s.utxo = O \ Outpoints(L, X)
    /\ \A o \in DOMAIN s.utxo : s.utxo[o] = [id |-> Id(L, o), kind |-> Kind(L, o)]
    /\ s.last_id = Rank(L, p)
    /\ s.missing = Cardinality(Unknown(L, X))
    /\ s.seen = {Kind(L, o) : o \in O} \ {Other}

\* A list of the ids of the outputs O.
UidsOk(L, O, xs) ==
    /\ xs \in Seq(Nat)
    /\ ToSet(xs) = {Id(L, o) : o \in O}
    /\ Len(xs) = Cardinality(O)

\* The hash window after n blocks: the events of the last blocks, and their
\* union as accumulator.
FirstKept(n) == IF n <= Window THEN 1 ELSE n - Window + 1
HashOf(L, e, n) == EventsOf(L, Fin(e, FirstKept(n) - 1) + 1, Fin(e, n))
WindowPart(L, e, s) ==
    LET n == Len(e) IN
    /\ s.acc = HashOf(L, e, n)
    /\ s.window \in Seq(EventSets)
    /\ Len(s.window) = n + 1 - FirstKept(n)
    /\ \A i \in 1..Len(s.window) :
          LET h == FirstKept(n) + i - 1 IN s.window[i] = EventsOf(L, Fin(e, h - 1) + 1, Fin(e, h))
    /\ s.events = {}

StateFields == {"last_id", "utxo", "seen", "missing", "stats", "window", "acc", "events"}
BlockFields == {"counts", "spent_uids", "p2tr_spent_uids"}

\* The state after the blocks e.
StateOk(L, e, s) ==
    LET last == Fin(e, Len(e)) IN
    /\ DOMAIN s = StateFields
    /\ UtxoPart(L, s, InsOf(L, 1, last), <<last + 1, 1>>)
    /\ WindowPart(L, e, s)
    /\ s.stats = [c \in RunCounters |-> Tally(L, e, c, InsOf(L, 1, last), OutsOf(L, 1, last), 1..last)]

\* The row of block h.
RowOk(L, e, h, row) ==
    LET first == Fin(e, h - 1) + 1
        last == Fin(e, h)
        spent == Outpoints(L, InsOf(L, first, last))
    IN  /\ row.last_global_id = Rank(L, <<last + 1, 1>>)
        /\ row.utxo_hash = HashOf(L, e, h)
        /\ UidsOk(L, spent, row.spent_uids)
        /\ UidsOk(L, P2trOf(L, spent), row.p2tr_spent_uids)
        /\ row.counts = [c \in RowCounters |->
                            Tally(L, e, c, InsOf(L, first, last), OutsOf(L, first, last), first..last)]

ScannerInv ==
    /\ LedgerOk(ledger)
    /\ EndsOk(ledger, ends)
    /\ StateOk(ledger, ends, state)
    /\ rows \in Seq(Row) /\ Len(rows) = Len(ends)
    /\ \A h \in 1..Len(ends) : RowOk(ledger, ends, h, rows[h])

-----------------------------------------------------------------------------
(* Cells.                                                                  *)

LEMMA CellTyped ==
  ASSUME NEW W \in Seq(Nat)
  PROVE  /\ \A q : q \in Cells(W) <=> \E t \in DOMAIN W : \E v \in 1..W[t] : q = <<t, v>>
         /\ \A q \in Cells(W) : /\ q[1] \in 1..Len(W) /\ q[1] \in DOMAIN W /\ q[1] \in Nat \ {0}
                                /\ q[2] \in 1..W[q[1]] /\ q[2] \in Nat \ {0}
                                /\ q = <<q[1], q[2]>> /\ q \in Nat \X Nat
<1>1. \A q : q \in Cells(W) <=> \E t \in DOMAIN W : \E v \in 1..W[t] : q = <<t, v>>
  BY DEF Cells
<1>2. ASSUME NEW q \in Cells(W)
      PROVE  /\ q[1] \in 1..Len(W) /\ q[1] \in DOMAIN W /\ q[1] \in Nat \ {0}
             /\ q[2] \in 1..W[q[1]] /\ q[2] \in Nat \ {0}
             /\ q = <<q[1], q[2]>> /\ q \in Nat \X Nat
  <2>1. PICK t \in DOMAIN W : \E v \in 1..W[t] : q = <<t, v>>
    BY <1>1
  <2>2. PICK v \in 1..W[t] : q = <<t, v>>
    BY <2>1
  <2>3. t \in 1..Len(W) /\ t \in Nat \ {0} /\ W[t] \in Nat
    OBVIOUS
  <2>4. v \in Nat \ {0}
    BY <2>3
  <2> QED BY <2>2, <2>3, <2>4
<1> QED BY <1>1, <1>2, Zenon

\* There are finitely many cells.
LEMMA CellsFinite ==
  ASSUME NEW W \in Seq(Nat)
  PROVE  /\ IsFiniteSet(Cells(W))
         /\ \A a, p : IsFiniteSet(To(W, a, p)) /\ Cardinality(To(W, a, p)) \in Nat
<1> DEFINE f == [t \in DOMAIN W |-> {t} \X (1..W[t])]
           R == {{t} \X (1..W[t]) : t \in DOMAIN W}
<1>1. IsFiniteSet(DOMAIN W)
  <2>1. DOMAIN W = 1..Len(W) /\ Len(W) \in Int /\ 1 \in Int
    OBVIOUS
  <2> QED BY <2>1, FS_Interval
<1>2. f \in Surjection(DOMAIN W, R)
  BY DEF Surjection
<1>3. IsFiniteSet(R)
  <2> HIDE DEF f, R
  <2> QED BY <1>1, <1>2, FS_Surjection
<1>4. ASSUME NEW T \in R PROVE IsFiniteSet(T)
  <2>1. PICK t \in DOMAIN W : T = {t} \X (1..W[t])
    OBVIOUS
  <2>2. W[t] \in Int /\ 1 \in Int
    OBVIOUS
  <2>3. IsFiniteSet({t})
    BY FS_Singleton
  <2>4. IsFiniteSet(1..W[t])
    BY <2>2, FS_Interval
  <2> QED BY <2>1, <2>3, <2>4, FS_Product
<1> HIDE DEF R
<1>5. IsFiniteSet(UNION R)
  BY <1>3, <1>4, FS_UNION
<1>6. Cells(W) = UNION R
  BY DEF Cells, R
<1>7. ASSUME NEW a, NEW p PROVE IsFiniteSet(To(W, a, p)) /\ Cardinality(To(W, a, p)) \in Nat
  <2>1. To(W, a, p) \in SUBSET Cells(W)
    BY DEF To
  <2>2. IsFiniteSet(To(W, a, p))
    BY <1>5, <1>6, <2>1, FS_Subset
  <2> QED BY <2>2, FS_CardinalityType
<1> QED BY <1>5, <1>6, <1>7

\* V is X with the further element x.
Adds(V, X, x) == x \notin X /\ V = X \cup {x}

\* Before the next place there is one cell more.
LEMMA NextCell ==
  ASSUME NEW W \in Seq(Nat), NEW t \in DOMAIN W, NEW v \in 1..W[t], NEW a \in Nat, a <= t
  PROVE  <<t, v>> \in Cells(W) /\ Adds(To(W, a, <<t, v + 1>>), To(W, a, <<t, v>>), <<t, v>>)
<1> DEFINE o == <<t, v>>
           n == <<t, v + 1>>
<1>1. o \in Cells(W) /\ t \in Nat /\ v \in Nat /\ o[1] = t /\ o[2] = v
  <2>1. o \in Cells(W) /\ t \in Nat /\ W[t] \in Nat
    BY CellTyped
  <2> QED BY <2>1
<1>2. ASSUME NEW q \in Cells(W) PROVE Before(q, n) <=> Before(q, o) \/ q = o
  <2>1. q[1] \in Nat /\ q[2] \in Nat /\ q = <<q[1], q[2]>>
    BY CellTyped
  <2> QED BY <1>1, <2>1 DEF Before
<1>3. ~Before(o, o)
  BY <1>1 DEF Before
<1> HIDE DEF o, n
<1>4. Adds(To(W, a, n), To(W, a, o), o)
  BY <1>1, <1>2, <1>3 DEF To, Adds
<1> QED BY <1>1, <1>4 DEF o, n

\* After the last cell of a row comes the next row.
LEMMA NextRow ==
  ASSUME NEW W \in Seq(Nat), NEW t \in DOMAIN W, NEW a
  PROVE  To(W, a, <<t, W[t] + 1>>) = To(W, a, <<t + 1, 1>>)
<1> DEFINE p == <<t, W[t] + 1>>
           n == <<t + 1, 1>>
<1>1. ASSUME NEW q \in Cells(W) PROVE Before(q, p) <=> Before(q, n)
  <2>1. q[1] \in Nat /\ q[2] \in Nat \ {0} /\ q[2] \in 1..W[q[1]]
    BY CellTyped
  <2>2. t \in Nat /\ W[t] \in Nat
    OBVIOUS
  <2>3. q[1] = t => q[2] <= W[t]
    BY <2>1
  <2> QED BY <2>1, <2>2, <2>3 DEF Before
<1> HIDE DEF p, n
<1>2. To(W, a, p) = To(W, a, n)
  BY <1>1 DEF To
<1> QED BY <1>2 DEF p, n

\* The cells of the rows a to b.
LEMMA RowCells ==
  ASSUME NEW W \in Seq(Nat), NEW a, NEW b \in Nat, NEW q
  PROVE  /\ q \in To(W, a, <<b + 1, 1>>) <=> q \in Cells(W) /\ a <= q[1] /\ q[1] <= b
         /\ q \in Cells(W) => (Before(q, <<b + 1, 1>>) <=> q[1] <= b)
<1>1. ASSUME q \in Cells(W) PROVE Before(q, <<b + 1, 1>>) <=> q[1] <= b
  <2>1. q[1] \in Nat /\ q[2] \in Nat \ {0}
    BY <1>1, CellTyped
  <2> QED BY <2>1 DEF Before
<1>2. q \in To(W, a, <<b + 1, 1>>) <=> q \in Cells(W) /\ a <= q[1] /\ Before(q, <<b + 1, 1>>)
  BY DEF To
<1> QED BY <1>1, <1>2

\* Counting one element more.
LEMMA OneMore ==
  ASSUME NEW S, IsFiniteSet(S), NEW x, x \notin S
  PROVE  /\ IsFiniteSet(S \cup {x}) /\ Cardinality(S) \in Nat
         /\ Cardinality(S \cup {x}) = Cardinality(S) + 1
BY FS_AddElement, FS_CardinalityType

LEMMA Smaller ==
  ASSUME NEW T, IsFiniteSet(T), NEW S, S \subseteq T
  PROVE  /\ IsFiniteSet(S) /\ Cardinality(S) \in Nat /\ Cardinality(T) \in Nat
         /\ Cardinality(S) <= Cardinality(T)
         /\ \A o : o \in T /\ o \notin S => Cardinality(S) < Cardinality(T)
<1>1. S \in SUBSET T
  OBVIOUS
<1>2. IsFiniteSet(S) /\ Cardinality(S) <= Cardinality(T) /\ (Cardinality(S) = Cardinality(T) => S = T)
  BY <1>1, FS_Subset
<1>3. Cardinality(S) \in Nat /\ Cardinality(T) \in Nat
  BY <1>2, FS_CardinalityType
<1>4. ASSUME NEW o, o \in T, o \notin S PROVE Cardinality(S) # Cardinality(T)
  BY <1>2, <1>4
<1> QED BY <1>2, <1>3, <1>4

-----------------------------------------------------------------------------
(* Inputs and outputs of a ledger.                                         *)

LEMMA LedgerTyped ==
  ASSUME NEW L \in Seq(Tx)
  PROVE  /\ Outs(L) \in Seq(Nat) /\ Ins(L) \in Seq(Nat) /\ Len(L) \in Nat /\ DOMAIN L = 1..Len(L)
         /\ DOMAIN Outs(L) = DOMAIN L /\ DOMAIN Ins(L) = DOMAIN L
         /\ Len(Outs(L)) = Len(L) /\ Len(Ins(L)) = Len(L)
         /\ \A t \in DOMAIN L : /\ L[t].outputs \in Seq(Kinds) /\ L[t].inputs \in Seq(Input)
                                /\ Outs(L)[t] = Len(L[t].outputs) /\ Ins(L)[t] = Len(L[t].inputs)
                                /\ DOMAIN L[t].outputs = 1..Outs(L)[t] /\ DOMAIN L[t].inputs = 1..Ins(L)[t]
                                /\ L[t].coinbase \in BOOLEAN
         /\ \A o \in Cells(Outs(L)) : Kind(L, o) \in Kinds
         /\ \A x \in Cells(Ins(L)) : Prev(L, x) \in Nat \X Nat /\ Path(L, x) \in Paths
<1>1. \A t \in DOMAIN L : L[t] \in Tx
  OBVIOUS
<1>2. \A t \in DOMAIN L : L[t].outputs \in Seq(Kinds) /\ L[t].inputs \in Seq(Input) /\ L[t].coinbase \in BOOLEAN
  BY <1>1 DEF Tx
<1>3. \A t \in DOMAIN L : /\ Len(L[t].outputs) \in Nat /\ Len(L[t].inputs) \in Nat
                          /\ DOMAIN L[t].outputs = 1..Len(L[t].outputs)
                          /\ DOMAIN L[t].inputs = 1..Len(L[t].inputs)
  BY <1>2
<1>4. DOMAIN L = 1..Len(L) /\ Len(L) \in Nat
  OBVIOUS
<1>5. /\ Outs(L) \in [1..Len(L) -> Nat] /\ Ins(L) \in [1..Len(L) -> Nat]
      /\ \A t \in DOMAIN L : Outs(L)[t] = Len(L[t].outputs) /\ Ins(L)[t] = Len(L[t].inputs)
  BY <1>3, <1>4 DEF Outs, Ins
<1>6. /\ Outs(L) \in Seq(Nat) /\ Ins(L) \in Seq(Nat)
      /\ DOMAIN Outs(L) = DOMAIN L /\ DOMAIN Ins(L) = DOMAIN L
      /\ Len(Outs(L)) = Len(L) /\ Len(Ins(L)) = Len(L)
  BY <1>4, <1>5
<1>7. ASSUME NEW o \in Cells(Outs(L)) PROVE Kind(L, o) \in Kinds
  <2>1. o[1] \in DOMAIN L /\ o[2] \in 1..Outs(L)[o[1]]
    BY <1>6, CellTyped
  <2>2. o[2] \in DOMAIN L[o[1]].outputs /\ L[o[1]].outputs \in Seq(Kinds)
    BY <1>2, <1>3, <1>5, <2>1
  <2> QED BY <2>2 DEF Kind
<1>8. ASSUME NEW x \in Cells(Ins(L)) PROVE Prev(L, x) \in Nat \X Nat /\ Path(L, x) \in Paths
  <2>1. x[1] \in DOMAIN L /\ x[2] \in 1..Ins(L)[x[1]]
    BY <1>6, CellTyped
  <2>2. x[2] \in DOMAIN L[x[1]].inputs /\ L[x[1]].inputs \in Seq(Input)
    BY <1>2, <1>3, <1>5, <2>1
  <2>3. L[x[1]].inputs[x[2]] \in Input
    BY <2>2
  <2> QED BY <2>3 DEF Prev, Path, Input
<1> QED BY <1>2, <1>3, <1>4, <1>5, <1>6, <1>7, <1>8, Zenon

\* Ranks grow from an output to a later place, and not to one it is not
\* before.
LEMMA RankGrows ==
  ASSUME NEW L \in Seq(Tx), NEW p \in Nat \X Nat, NEW o \in Cells(Outs(L))
  PROVE  /\ Rank(L, p) \in Nat /\ Id(L, o) \in Nat \ {0}
         /\ Before(o, p) => Id(L, o) <= Rank(L, p)
         /\ ~Before(o, p) => Rank(L, p) < Id(L, o)
<1> DEFINE W == Outs(L)
<1>1. W \in Seq(Nat)
  BY LedgerTyped
<1> HIDE DEF W
<1>2. \A q : q \in Cells(W) => q[1] \in Nat \ {0} /\ q[2] \in Nat
  BY <1>1, CellTyped
<1>3. o \in Cells(W) /\ o[1] \in Nat \ {0} /\ o[2] \in Nat /\ p[1] \in Nat /\ p[2] \in Nat
  BY <1>2 DEF W
<1>4. /\ IsFiniteSet(To(W, 1, o)) /\ IsFiniteSet(To(W, 1, p))
      /\ Cardinality(To(W, 1, o)) \in Nat /\ Cardinality(To(W, 1, p)) \in Nat
  BY <1>1, CellsFinite
<1>5. ASSUME Before(o, p) PROVE Cardinality(To(W, 1, o)) < Cardinality(To(W, 1, p))
  <2>1. \A q \in Cells(W) : Before(q, o) => Before(q, p) /\ q # o
    BY <1>2, <1>3, <1>5 DEF Before
  <2>2. To(W, 1, o) \subseteq To(W, 1, p) /\ o \notin To(W, 1, o) /\ o \in To(W, 1, p)
    BY <1>3, <1>5, <2>1 DEF To
  <2> QED BY <1>4, <2>2, Smaller
<1>6. ASSUME ~Before(o, p) PROVE Cardinality(To(W, 1, p)) <= Cardinality(To(W, 1, o))
  <2>1. \A q \in Cells(W) : Before(q, p) => Before(q, o)
    BY <1>2, <1>3, <1>6 DEF Before
  <2>2. To(W, 1, p) \subseteq To(W, 1, o)
    BY <2>1 DEF To
  <2> QED BY <1>4, <2>2, Smaller
<1> QED BY <1>4, <1>5, <1>6 DEF Rank, Id, W

\* Different outputs have different ids.
LEMMA IdUnique ==
  ASSUME NEW L \in Seq(Tx), NEW o \in Cells(Outs(L)), NEW q \in Cells(Outs(L)), Id(L, o) = Id(L, q)
  PROVE  o = q
<1>1. /\ o \in Nat \X Nat /\ q \in Nat \X Nat /\ o = <<o[1], o[2]>> /\ q = <<q[1], q[2]>>
      /\ o[1] \in Nat /\ o[2] \in Nat /\ q[1] \in Nat /\ q[2] \in Nat
  BY LedgerTyped, CellTyped
<1>2. o = q \/ Before(o, q) \/ Before(q, o)
  BY <1>1 DEF Before
<1>3. /\ Rank(L, q) \in Nat /\ Rank(L, o) \in Nat
      /\ Before(o, q) => Id(L, o) <= Rank(L, q)
      /\ Before(q, o) => Id(L, q) <= Rank(L, o)
  BY <1>1, RankGrows
<1> QED BY <1>2, <1>3 DEF Id

\* What is spent is a cell, or from before the scan.
LEMMA SpentCells ==
  ASSUME NEW L, LedgerOk(L), NEW X, X \subseteq Cells(Ins(L))
  PROVE  /\ Outpoints(L, X) \subseteq Cells(Outs(L))
         /\ \A o \in Outpoints(L, X) : \E x \in X : o = Prev(L, x) /\ x \in Known(L, X) /\ o[1] < x[1]
<1>1. ASSUME NEW o \in Outpoints(L, X)
      PROVE  o \in Cells(Outs(L)) /\ \E x \in X : o = Prev(L, x) /\ x \in Known(L, X) /\ o[1] < x[1]
  <2>1. PICK x \in Known(L, X) : o = Prev(L, x)
    BY DEF Outpoints
  <2>2. x \in X /\ x \in Cells(Ins(L)) /\ Prev(L, x) \notin PreScan
    BY <2>1 DEF Known
  <2>3. Prev(L, x) \in Cells(Outs(L)) /\ Prev(L, x)[1] < x[1]
    BY <2>2 DEF LedgerOk
  <2> QED BY <2>1, <2>2, <2>3
<1> QED BY <1>1

\* One input more.
LEMMA OneInput ==
  ASSUME NEW L, LedgerOk(L), NEW X, X \subseteq Cells(Ins(L)), NEW x \in Cells(Ins(L)), NEW V, Adds(V, X, x)
  PROVE  /\ Prev(L, x) \in PreScan =>
              /\ Outpoints(L, V) = Outpoints(L, X)
              /\ Unknown(L, V) = Unknown(L, X) \cup {x} /\ x \notin Unknown(L, X)
         /\ Prev(L, x) \notin PreScan =>
              /\ Outpoints(L, V) = Outpoints(L, X) \cup {Prev(L, x)} /\ Prev(L, x) \notin Outpoints(L, X)
              /\ Unknown(L, V) = Unknown(L, X)
<1> USE DEF Adds
<1>1. ASSUME Prev(L, x) \in PreScan
      PROVE  /\ Outpoints(L, V) = Outpoints(L, X)
             /\ Unknown(L, V) = Unknown(L, X) \cup {x} /\ x \notin Unknown(L, X)
  <2>1. Known(L, V) = Known(L, X)
    BY <1>1 DEF Known
  <2> QED BY <1>1, <2>1 DEF Outpoints, Unknown
<1>2. ASSUME Prev(L, x) \notin PreScan
      PROVE  /\ Outpoints(L, V) = Outpoints(L, X) \cup {Prev(L, x)} /\ Prev(L, x) \notin Outpoints(L, X)
             /\ Unknown(L, V) = Unknown(L, X)
  <2>1. Known(L, V) = Known(L, X) \cup {x}
    BY <1>2 DEF Known
  <2>2. Outpoints(L, V) = Outpoints(L, X) \cup {Prev(L, x)}
    BY <2>1 DEF Outpoints
  <2>3. ASSUME Prev(L, x) \in Outpoints(L, X) PROVE FALSE
    <3>1. PICK y \in X : Prev(L, x) = Prev(L, y)
      BY <2>3, SpentCells
    <3>2. y = x
      BY <3>1 DEF LedgerOk
    <3> QED BY <3>1, <3>2
  <2> QED BY <1>2, <2>2, <2>3 DEF Unknown
<1> QED BY <1>1, <1>2

-----------------------------------------------------------------------------
(* The loops.                                                              *)

LEMMA LeastNatural ==
  ASSUME NEW S \in SUBSET Nat, S # {}
  PROVE  \E m \in S : \A n \in S : m <= n
<1> DEFINE R == {p \in Nat \X Nat : p[1] < p[2]}
<1>1. OpToRel(<, Nat) = R
  BY DEF OpToRel
<1>2. IsWellFoundedOn(R, Nat)
  BY <1>1, NatLessThanWellFounded
<1> HIDE DEF R
<1>3. PICK m \in S : \A n \in S : ~(<<n, m>> \in R)
  BY <1>2, WFMin
<1>4. \A n \in S : ~(n < m)
  BY <1>3 DEF R
<1> QED BY <1>3, <1>4

\* The accumulators the loop over the inputs of a transaction passes through.
InputTrace(a, tx, bs, after) ==
    /\ ApplyTxInputs(a, tx, bs) = after[Len(tx.inputs)]
    /\ after[0] = a
    /\ \A n \in 1..Len(tx.inputs) : after[n] = ApplyInput(after[n - 1], tx.inputs[n], a.state.last_id, bs)

LEMMA InputSteps ==
  ASSUME NEW a, NEW tx, NEW bs, Len(tx.inputs) \in Nat
  PROVE  \E after : InputTrace(a, tx, bs, after)
<1> DEFINE last == Len(tx.inputs)
           Def(g, n) == IF n = 0 THEN a ELSE ApplyInput(g[n - 1], tx.inputs[n], a.state.last_id, bs)
           Good(g, m) == g = [n \in 0..m |-> Def(g, n)]
           after == CHOOSE g : Good(g, last)
           Bad == {m \in 0..last : ~\E g : Good(g, m)}
<1>1. ApplyTxInputs(a, tx, bs) = after[last]
  BY DEF ApplyTxInputs
<1> HIDE DEF last
<1>2. last \in Nat
  BY DEF last
<1>3. Bad = {}
  <2> SUFFICES ASSUME Bad # {} PROVE FALSE
    OBVIOUS
  <2>1. PICK m \in Bad : \A n \in Bad : m <= n
    <3>1. Bad \in SUBSET Nat
      BY <1>2
    <3> HIDE DEF Bad
    <3> QED BY <3>1, LeastNatural
  <2>2. m # 0
    <3> DEFINE g == [n \in 0..0 |-> a]
    <3>1. Good(g, 0)
      OBVIOUS
    <3> HIDE DEF Good
    <3> QED BY <2>1, <3>1
  <2>3. m - 1 \in 0..last /\ ~(m <= m - 1) /\ m \in 1..last
    BY <1>2, <2>1, <2>2
  <2>4. PICK g : Good(g, m - 1)
    <3> HIDE DEF Good
    <3> QED BY <2>1, <2>3
  <2> DEFINE f == [n \in 0..m |-> IF n = m THEN Def(g, m) ELSE g[n]]
  <2>5. ASSUME NEW n \in 0..m PROVE f[n] = Def(f, n)
    <3>1. CASE n = m
      <4>1. f[n] = Def(g, n)
        BY <2>5, <3>1
      <4>2. f[n - 1] = g[n - 1]
        BY <2>3, <3>1
      <4> HIDE DEF f
      <4> QED BY <4>1, <4>2
    <3>2. CASE n # m
      <4>1. n \in 0..(m - 1) /\ f[n] = g[n]
        BY <2>3, <2>5, <3>2
      <4>2. g[n] = Def(g, n)
        BY <2>4, <4>1
      <4>3. n # 0 => f[n - 1] = g[n - 1]
        BY <2>3, <4>1
      <4> HIDE DEF f
      <4> QED BY <4>1, <4>2, <4>3
    <3> QED BY <3>1, <3>2
  <2>6. Good(f, m)
    BY <2>5
  <2> HIDE DEF Good
  <2> QED BY <2>1, <2>6
<1>4. Good(after, last)
  <2>1. last \in 0..last
    BY <1>2
  <2> HIDE DEF Good
  <2>2. \E g : Good(g, last)
    BY <1>3, <2>1
  <2> QED BY <2>2, Zenon
<1> HIDE DEF after
<1>5. after[0] = a
  BY <1>2, <1>4
<1>6. \A n \in 1..last : after[n] = ApplyInput(after[n - 1], tx.inputs[n], a.state.last_id, bs)
  BY <1>2, <1>4
<1> QED BY <1>1, <1>5, <1>6 DEF InputTrace, last

\* The same for the loop over its outputs.
OutputTrace(a, txid, tx, nonsp, after) ==
    /\ ApplyTxOutputs(a, txid, tx, nonsp) = after[Len(tx.outputs)]
    /\ after[0] = a
    /\ \A n \in 1..Len(tx.outputs) : after[n] = ApplyOutput(after[n - 1], <<txid, n>>, tx.outputs[n], nonsp)

LEMMA OutputSteps ==
  ASSUME NEW a, NEW txid, NEW tx, NEW nonsp, Len(tx.outputs) \in Nat
  PROVE  \E after : OutputTrace(a, txid, tx, nonsp, after)
<1> DEFINE last == Len(tx.outputs)
           Def(g, n) == IF n = 0 THEN a ELSE ApplyOutput(g[n - 1], <<txid, n>>, tx.outputs[n], nonsp)
           Good(g, m) == g = [n \in 0..m |-> Def(g, n)]
           after == CHOOSE g : Good(g, last)
           Bad == {m \in 0..last : ~\E g : Good(g, m)}
<1>1. ApplyTxOutputs(a, txid, tx, nonsp) = after[last]
  BY DEF ApplyTxOutputs
<1> HIDE DEF last
<1>2. last \in Nat
  BY DEF last
<1>3. Bad = {}
  <2> SUFFICES ASSUME Bad # {} PROVE FALSE
    OBVIOUS
  <2>1. PICK m \in Bad : \A n \in Bad : m <= n
    <3>1. Bad \in SUBSET Nat
      BY <1>2
    <3> HIDE DEF Bad
    <3> QED BY <3>1, LeastNatural
  <2>2. m # 0
    <3> DEFINE g == [n \in 0..0 |-> a]
    <3>1. Good(g, 0)
      OBVIOUS
    <3> HIDE DEF Good
    <3> QED BY <2>1, <3>1
  <2>3. m - 1 \in 0..last /\ ~(m <= m - 1) /\ m \in 1..last
    BY <1>2, <2>1, <2>2
  <2>4. PICK g : Good(g, m - 1)
    <3> HIDE DEF Good
    <3> QED BY <2>1, <2>3
  <2> DEFINE f == [n \in 0..m |-> IF n = m THEN Def(g, m) ELSE g[n]]
  <2>5. ASSUME NEW n \in 0..m PROVE f[n] = Def(f, n)
    <3>1. CASE n = m
      <4>1. f[n] = Def(g, n)
        BY <2>5, <3>1
      <4>2. f[n - 1] = g[n - 1]
        BY <2>3, <3>1
      <4> HIDE DEF f
      <4> QED BY <4>1, <4>2
    <3>2. CASE n # m
      <4>1. n \in 0..(m - 1) /\ f[n] = g[n]
        BY <2>3, <2>5, <3>2
      <4>2. g[n] = Def(g, n)
        BY <2>4, <4>1
      <4>3. n # 0 => f[n - 1] = g[n - 1]
        BY <2>3, <4>1
      <4> HIDE DEF f
      <4> QED BY <4>1, <4>2, <4>3
    <3> QED BY <3>1, <3>2
  <2>6. Good(f, m)
    BY <2>5
  <2> HIDE DEF Good
  <2> QED BY <2>1, <2>6
<1>4. Good(after, last)
  <2>1. last \in 0..last
    BY <1>2
  <2> HIDE DEF Good
  <2>2. \E g : Good(g, last)
    BY <1>3, <2>1
  <2> QED BY <2>2, Zenon
<1> HIDE DEF after
<1>5. after[0] = a
  BY <1>2, <1>4
<1>6. \A n \in 1..last : after[n] = ApplyOutput(after[n - 1], <<txid, n>>, tx.outputs[n], nonsp)
  BY <1>2, <1>4
<1> QED BY <1>1, <1>5, <1>6 DEF OutputTrace, last

BlockStart(s) == [state |-> s, block |-> NewBlock]

\* The same for the loop over the transactions of a block.
TxTrace(s, first_txid, txs, after) ==
    /\ ApplyTxs(s, first_txid, txs) = after[Len(txs)]
    /\ after[0] = BlockStart(s)
    /\ \A n \in 1..Len(txs) : after[n] = ApplyTx(after[n - 1], first_txid + n - 1, txs[n], s.last_id)

LEMMA TxSteps ==
  ASSUME NEW s, NEW first_txid, NEW txs, Len(txs) \in Nat
  PROVE  \E after : TxTrace(s, first_txid, txs, after)
<1> DEFINE last == Len(txs)
           Def(g, n) == IF n = 0 THEN BlockStart(s) ELSE ApplyTx(g[n - 1], first_txid + n - 1, txs[n], s.last_id)
           Good(g, m) == g = [n \in 0..m |-> Def(g, n)]
           after == CHOOSE g : Good(g, last)
           Bad == {m \in 0..last : ~\E g : Good(g, m)}
<1>1. ApplyTxs(s, first_txid, txs) = after[last]
  BY DEF ApplyTxs, BlockStart
<1> HIDE DEF last
<1>2. last \in Nat
  BY DEF last
<1>3. Bad = {}
  <2> SUFFICES ASSUME Bad # {} PROVE FALSE
    OBVIOUS
  <2>1. PICK m \in Bad : \A n \in Bad : m <= n
    <3>1. Bad \in SUBSET Nat
      BY <1>2
    <3> HIDE DEF Bad
    <3> QED BY <3>1, LeastNatural
  <2>2. m # 0
    <3> DEFINE g == [n \in 0..0 |-> BlockStart(s)]
    <3>1. Good(g, 0)
      OBVIOUS
    <3> HIDE DEF Good
    <3> QED BY <2>1, <3>1
  <2>3. m - 1 \in 0..last /\ ~(m <= m - 1) /\ m \in 1..last
    BY <1>2, <2>1, <2>2
  <2>4. PICK g : Good(g, m - 1)
    <3> HIDE DEF Good
    <3> QED BY <2>1, <2>3
  <2> DEFINE f == [n \in 0..m |-> IF n = m THEN Def(g, m) ELSE g[n]]
  <2>5. ASSUME NEW n \in 0..m PROVE f[n] = Def(f, n)
    <3>1. CASE n = m
      <4>1. f[n] = Def(g, n)
        BY <2>5, <3>1
      <4>2. f[n - 1] = g[n - 1]
        BY <2>3, <3>1
      <4> HIDE DEF f
      <4> QED BY <4>1, <4>2
    <3>2. CASE n # m
      <4>1. n \in 0..(m - 1) /\ f[n] = g[n]
        BY <2>3, <2>5, <3>2
      <4>2. g[n] = Def(g, n)
        BY <2>4, <4>1
      <4>3. n # 0 => f[n - 1] = g[n - 1]
        BY <2>3, <4>1
      <4> HIDE DEF f
      <4> QED BY <4>1, <4>2, <4>3
    <3> QED BY <3>1, <3>2
  <2>6. Good(f, m)
    BY <2>5
  <2> HIDE DEF Good
  <2> QED BY <2>1, <2>6
<1>4. Good(after, last)
  <2>1. last \in 0..last
    BY <1>2
  <2> HIDE DEF Good
  <2>2. \E g : Good(g, last)
    BY <1>3, <2>1
  <2> QED BY <2>2, Zenon
<1> HIDE DEF after
<1>5. after[0] = BlockStart(s)
  BY <1>2, <1>4
<1>6. \A n \in 1..last : after[n] = ApplyTx(after[n - 1], first_txid + n - 1, txs[n], s.last_id)
  BY <1>2, <1>4
<1> QED BY <1>1, <1>5, <1>6 DEF TxTrace, last

-----------------------------------------------------------------------------
(* The accumulators at a place of the block.                               *)

\* What the block that starts with transaction first has accumulated from the
\* state s0, after the inputs X, those of them in Y being its own, the outputs
\* before place p, and the transactions up to z.
BlockPart(L, e, first, b, Y, O, z) ==
    /\ DOMAIN b = BlockFields
    /\ b.counts = [c \in RowCounters |-> Tally(L, e, c, Y, O, first..z)]
    /\ UidsOk(L, Outpoints(L, Y), b.spent_uids)
    /\ UidsOk(L, P2trOf(L, Outpoints(L, Y)), b.p2tr_spent_uids)

HashPart(L, s0, s, Y, O) ==
    /\ s.window = s0.window /\ s.acc = s0.acc
    /\ s.events = IF Window = 0 THEN {} ELSE Events(L, O, Outpoints(L, Y))

AccOk(L, e, first, s0, a, X, Y, p, z) ==
    LET O == To(Outs(L), first, p) IN
    /\ DOMAIN a = {"state", "block"} /\ DOMAIN a.state = StateFields
    /\ UtxoPart(L, a.state, X, p)
    /\ a.state.stats = [c \in RunCounters |-> Tally(L, e, c, X, To(Outs(L), 1, p), 1..z)]
    /\ HashPart(L, s0, a.state, Y, O)
    /\ BlockPart(L, e, first, a.block, Y, O, z)

\* A tally is a number and grows with its inputs, its outputs and its
\* transactions.
LEMMA TallyIs ==
  ASSUME NEW L, NEW e, NEW c, NEW X, NEW O, NEW Z, IsFiniteSet(X), IsFiniteSet(O), IsFiniteSet(Z)
  PROVE  /\ Tally(L, e, c, X, O, Z) \in Nat
         /\ Tally(L, e, c, X, O, Z) = Cardinality({y \in X : c \in InputCounters(L, e, y)})
                + Cardinality({y \in O : c \in CountersOf(L, y)}) + Cardinality({y \in Z : c \in TxCounters(L, y)})
         /\ Cardinality({y \in X : c \in InputCounters(L, e, y)}) \in Nat
         /\ Cardinality({y \in O : c \in CountersOf(L, y)}) \in Nat
         /\ Cardinality({y \in Z : c \in TxCounters(L, y)}) \in Nat
<1> DEFINE A == {y \in X : c \in InputCounters(L, e, y)}
           B == {y \in O : c \in CountersOf(L, y)}
           D == {y \in Z : c \in TxCounters(L, y)}
<1>1. Tally(L, e, c, X, O, Z) = Cardinality(A) + Cardinality(B) + Cardinality(D)
  BY DEF Tally
<1>2. A \subseteq X /\ B \subseteq O /\ D \subseteq Z
  OBVIOUS
<1> HIDE DEF A, B, D
<1>3. Cardinality(A) \in Nat /\ Cardinality(B) \in Nat /\ Cardinality(D) \in Nat
  BY <1>2, Smaller
<1>4. Tally(L, e, c, X, O, Z) \in Nat
  BY <1>1, <1>3
<1> QED BY <1>1, <1>3, <1>4 DEF A, B, D

LEMMA TallyInput ==
  ASSUME NEW L, NEW e, NEW c, NEW X, NEW O, NEW Z, IsFiniteSet(X), IsFiniteSet(O), IsFiniteSet(Z),
         NEW x, NEW V, Adds(V, X, x)
  PROVE  /\ Tally(L, e, c, X, O, Z) \in Nat
         /\ Tally(L, e, c, V, O, Z) = Tally(L, e, c, X, O, Z) + IF c \in InputCounters(L, e, x) THEN 1 ELSE 0
<1> USE DEF Adds
<1> DEFINE A(S) == {y \in S : c \in InputCounters(L, e, y)}
           B == {y \in O : c \in CountersOf(L, y)}
           D == {y \in Z : c \in TxCounters(L, y)}
<1>1. /\ Tally(L, e, c, X, O, Z) = Cardinality(A(X)) + Cardinality(B) + Cardinality(D)
      /\ Tally(L, e, c, V, O, Z) = Cardinality(A(V)) + Cardinality(B) + Cardinality(D)
      /\ Cardinality(A(X)) \in Nat /\ Cardinality(B) \in Nat /\ Cardinality(D) \in Nat
      /\ Tally(L, e, c, X, O, Z) \in Nat
  BY TallyIs DEF Tally
<1>2. x \notin A(X) /\ A(V) = (IF c \in InputCounters(L, e, x) THEN A(X) \cup {x} ELSE A(X)) /\ A(X) \subseteq X
  OBVIOUS
<1> HIDE DEF A, B, D
<1>3. IsFiniteSet(A(X))
  BY <1>2, Smaller
<1>4. Cardinality(A(X) \cup {x}) = Cardinality(A(X)) + 1
  BY <1>2, <1>3, OneMore
<1> QED BY <1>1, <1>2, <1>4

LEMMA TallyOutput ==
  ASSUME NEW L, NEW e, NEW c, NEW X, NEW O, NEW Z, IsFiniteSet(X), IsFiniteSet(O), IsFiniteSet(Z),
         NEW x, NEW V, Adds(V, O, x)
  PROVE  /\ Tally(L, e, c, X, O, Z) \in Nat
         /\ Tally(L, e, c, X, V, Z) = Tally(L, e, c, X, O, Z) + IF c \in CountersOf(L, x) THEN 1 ELSE 0
<1> USE DEF Adds
<1> DEFINE A == {y \in X : c \in InputCounters(L, e, y)}
           B(S) == {y \in S : c \in CountersOf(L, y)}
           D == {y \in Z : c \in TxCounters(L, y)}
<1>1. /\ Tally(L, e, c, X, O, Z) = Cardinality(A) + Cardinality(B(O)) + Cardinality(D)
      /\ Tally(L, e, c, X, V, Z) = Cardinality(A) + Cardinality(B(V)) + Cardinality(D)
      /\ Cardinality(A) \in Nat /\ Cardinality(B(O)) \in Nat /\ Cardinality(D) \in Nat
      /\ Tally(L, e, c, X, O, Z) \in Nat
  BY TallyIs DEF Tally
<1>2. x \notin B(O) /\ B(V) = (IF c \in CountersOf(L, x) THEN B(O) \cup {x} ELSE B(O)) /\ B(O) \subseteq O
  OBVIOUS
<1> HIDE DEF A, B, D
<1>3. IsFiniteSet(B(O))
  BY <1>2, Smaller
<1>4. Cardinality(B(O) \cup {x}) = Cardinality(B(O)) + 1
  BY <1>2, <1>3, OneMore
<1> QED BY <1>1, <1>2, <1>4

LEMMA TallyTx ==
  ASSUME NEW L, NEW e, NEW c, NEW X, NEW O, NEW Z, IsFiniteSet(X), IsFiniteSet(O), IsFiniteSet(Z),
         NEW x, NEW V, Adds(V, Z, x)
  PROVE  /\ Tally(L, e, c, X, O, Z) \in Nat
         /\ Tally(L, e, c, X, O, V) = Tally(L, e, c, X, O, Z) + IF c \in TxCounters(L, x) THEN 1 ELSE 0
<1> USE DEF Adds
<1> DEFINE A == {y \in X : c \in InputCounters(L, e, y)}
           B == {y \in O : c \in CountersOf(L, y)}
           D(S) == {y \in S : c \in TxCounters(L, y)}
<1>1. /\ Tally(L, e, c, X, O, Z) = Cardinality(A) + Cardinality(B) + Cardinality(D(Z))
      /\ Tally(L, e, c, X, O, V) = Cardinality(A) + Cardinality(B) + Cardinality(D(V))
      /\ Cardinality(A) \in Nat /\ Cardinality(B) \in Nat /\ Cardinality(D(Z)) \in Nat
      /\ Tally(L, e, c, X, O, Z) \in Nat
  BY TallyIs DEF Tally
<1>2. x \notin D(Z) /\ D(V) = (IF c \in TxCounters(L, x) THEN D(Z) \cup {x} ELSE D(Z)) /\ D(Z) \subseteq Z
  OBVIOUS
<1> HIDE DEF A, B, D
<1>3. IsFiniteSet(D(Z))
  BY <1>2, Smaller
<1>4. Cardinality(D(Z) \cup {x}) = Cardinality(D(Z)) + 1
  BY <1>2, <1>3, OneMore
<1> QED BY <1>1, <1>2, <1>4

\* One id more in a list of ids.
LEMMA MoreUids ==
  ASSUME NEW L \in Seq(Tx), NEW O, IsFiniteSet(O), NEW xs, UidsOk(L, O, xs), NEW o \in Cells(Outs(L)), o \notin O
  PROVE  UidsOk(L, O \cup {o}, Append(xs, Id(L, o)))
<1> DEFINE ys == Append(xs, Id(L, o))
<1>1. xs \in Seq(Nat) /\ ToSet(xs) = {Id(L, q) : q \in O} /\ Len(xs) = Cardinality(O)
  BY DEF UidsOk
<1>2. Id(L, o) \in Nat
  <2>1. <<0, 0>> \in Nat \X Nat
    OBVIOUS
  <2> QED BY <2>1, RankGrows
<1>3. /\ ys \in Seq(Nat) /\ Len(xs) \in Nat /\ Len(ys) = Len(xs) + 1 /\ ys[Len(xs) + 1] = Id(L, o)
      /\ DOMAIN ys = 1..(Len(xs) + 1) /\ DOMAIN xs = 1..Len(xs)
      /\ \A i \in 1..Len(xs) : ys[i] = xs[i]
  BY <1>1, <1>2
<1> HIDE DEF ys
<1>4. ToSet(ys) = ToSet(xs) \cup {Id(L, o)}
  <2>1. DOMAIN ys = DOMAIN xs \cup {Len(xs) + 1}
    BY <1>3
  <2> QED BY <1>3, <2>1 DEF ToSet
<1>5. ToSet(ys) = {Id(L, q) : q \in O \cup {o}}
  BY <1>1, <1>4
<1>6. Len(ys) = Cardinality(O \cup {o})
  BY <1>1, <1>3, OneMore
<1> QED BY <1>3, <1>5, <1>6 DEF UidsOk, ys

\* Finitely many outputs are spent.
LEMMA OutpointsFinite ==
  ASSUME NEW L, NEW X, IsFiniteSet(X)
  PROVE  /\ IsFiniteSet(Outpoints(L, X)) /\ IsFiniteSet(P2trOf(L, Outpoints(L, X)))
         /\ IsFiniteSet(Known(L, X)) /\ IsFiniteSet(Unknown(L, X))
<1> DEFINE f == [x \in Known(L, X) |-> Prev(L, x)]
<1>1. Known(L, X) \subseteq X /\ Unknown(L, X) \subseteq X
  BY DEF Known, Unknown
<1>2. IsFiniteSet(Known(L, X)) /\ IsFiniteSet(Unknown(L, X))
  BY <1>1, Smaller
<1>3. f \in Surjection(Known(L, X), Outpoints(L, X))
  BY DEF Surjection, Outpoints
<1> HIDE DEF f
<1>4. IsFiniteSet(Outpoints(L, X))
  BY <1>2, <1>3, FS_Surjection
<1>5. P2trOf(L, Outpoints(L, X)) \subseteq Outpoints(L, X)
  BY DEF P2trOf
<1>6. IsFiniteSet(P2trOf(L, Outpoints(L, X)))
  BY <1>4, <1>5, Smaller
<1> QED BY <1>2, <1>4, <1>6

\* Events are told apart by their ids.
LEMMA NewEvent ==
  ASSUME NEW L \in Seq(Tx), NEW O, O \subseteq Cells(Outs(L)), NEW S, S \subseteq Cells(Outs(L)),
         NEW o \in Cells(Outs(L)), NEW V, Adds(V, O, o)
  PROVE  Xor(Events(L, O, S), {<<"add", Id(L, o)>>}) = Events(L, V, S)
<1> USE DEF Adds
<1> DEFINE E == Events(L, O, S)
<1>1. <<"add", Id(L, o)>> \notin E
  <2>1. ASSUME NEW q \in O PROVE Id(L, q) # Id(L, o)
    BY IdUnique
  <2> QED BY <2>1 DEF Events
<1>2. Events(L, V, S) = E \cup {<<"add", Id(L, o)>>}
  BY DEF Events
<1> HIDE DEF E
<1>3. \A v : v \notin E => Xor(E, {v}) = E \cup {v}
  BY DEF Xor, SymDiff
<1> QED BY <1>1, <1>2, <1>3 DEF E

LEMMA NewRemoval ==
  ASSUME NEW L \in Seq(Tx), NEW O, O \subseteq Cells(Outs(L)), NEW S, S \subseteq Cells(Outs(L)),
         NEW o \in Cells(Outs(L)), NEW V, Adds(V, S, o)
  PROVE  Xor(Events(L, O, S), {<<"rem", Id(L, o)>>}) = Events(L, O, V)
<1> USE DEF Adds
<1> DEFINE E == Events(L, O, S)
<1>1. <<"rem", Id(L, o)>> \notin E
  <2>1. ASSUME NEW q \in S PROVE Id(L, q) # Id(L, o)
    BY IdUnique
  <2> QED BY <2>1 DEF Events
<1>2. Events(L, O, V) = E \cup {<<"rem", Id(L, o)>>}
  BY DEF Events
<1> HIDE DEF E
<1>3. \A v : v \notin E => Xor(E, {v}) = E \cup {v}
  BY DEF Xor, SymDiff
<1> QED BY <1>1, <1>2, <1>3 DEF E

\* What one input changes.
Without(m, o) == [q \in DOMAIN m \ {o} |-> m[q]]
Entry(a, prev) == a.state.utxo[prev]
InputChange(a, input, ts, bs, r) ==
    LET s == a.state
        n == r.state
        entry == Entry(a, input.prev)
        ctx == Context(entry.id, ts, bs)
        p2tr == entry.kind # Other
    IN  /\ DOMAIN r = {"state", "block"} /\ DOMAIN n = StateFields /\ DOMAIN r.block = BlockFields
        /\ n.last_id = s.last_id /\ n.seen = s.seen /\ n.window = s.window /\ n.acc = s.acc
        /\ input.prev \notin DOMAIN s.utxo =>
             /\ n.missing = s.missing + 1
             /\ n.utxo = s.utxo /\ n.stats = s.stats /\ n.events = s.events /\ r.block = a.block
        /\ input.prev \in DOMAIN s.utxo =>
             /\ n.missing = s.missing
             /\ n.utxo = Without(s.utxo, input.prev)
             /\ n.stats = Bump(s.stats, RunSpend(ctx) \cup IF p2tr THEN RunP2trSpend(input.path, ctx) ELSE {})
             /\ n.events = IF Window = 0 THEN s.events ELSE Xor(s.events, {<<"rem", entry.id>>})
             /\ r.block.counts = Bump(Bump(a.block.counts, {"spends"}),
                                      IF p2tr THEN PathSpend(input.path) ELSE {})
             /\ r.block.spent_uids = Append(a.block.spent_uids, entry.id)
             /\ r.block.p2tr_spent_uids = IF p2tr THEN Append(a.block.p2tr_spent_uids, entry.id)
                                          ELSE a.block.p2tr_spent_uids

LEMMA InputFields ==
  ASSUME NEW a, DOMAIN a = {"state", "block"}, DOMAIN a.state = StateFields, DOMAIN a.block = BlockFields,
         NEW input, NEW ts, NEW bs, NEW r, r = ApplyInput(a, input, ts, bs)
  PROVE  InputChange(a, input, ts, bs, r)
<1> DEFINE s == a.state
           prev == input.prev
           entry == Entry(a, prev)
           p2tr == entry.kind # Other
           ctx == Context(entry.id, ts, bs)
           utxo == Without(s.utxo, prev)
           events == IF Window = 0 THEN s.events ELSE Xor(s.events, {<<"rem", entry.id>>})
           moved == RunSpend(ctx) \cup IF p2tr THEN RunP2trSpend(input.path, ctx) ELSE {}
           rest == IF p2tr THEN PathSpend(input.path) ELSE {}
<1>1. CASE prev \notin DOMAIN s.utxo
  <2>1. r = [a EXCEPT !.state.missing = @ + 1]
    BY <1>1 DEF ApplyInput
  <2> DEFINE n == [s EXCEPT !.missing = @ + 1]
  <2>2. DOMAIN r = {"state", "block"} /\ r.state = n /\ r.block = a.block
    BY <2>1
  <2>3. /\ DOMAIN n = StateFields /\ n.missing = s.missing + 1
        /\ \A x \in StateFields \ {"missing"} : n[x] = s[x]
    BY DEF StateFields
  <2> HIDE DEF n
  <2>4. /\ n.last_id = s.last_id /\ n.seen = s.seen /\ n.window = s.window /\ n.acc = s.acc
        /\ n.utxo = s.utxo /\ n.stats = s.stats /\ n.events = s.events
    BY <2>3 DEF StateFields
  <2> QED BY <1>1, <2>2, <2>3, <2>4 DEF InputChange
<1>2. CASE prev \in DOMAIN s.utxo
  <2> DEFINE t1 == Take(s, prev)
             t2 == Event(t1, <<"rem", entry.id>>)
             b1 == RecordSpendUid(a.block, entry.id, p2tr)
             n == [t2 EXCEPT !.stats = Bump(@, moved)]
             b == [b1 EXCEPT !.counts = Bump(@, rest)]
  <2>1. r = [state |-> n, block |-> b]
    BY <1>2 DEF ApplyInput, Entry
  <2> HIDE DEF entry, p2tr, ctx, moved, rest
  <2>2. /\ DOMAIN t1 = StateFields /\ t1.utxo = utxo
        /\ \A x \in StateFields \ {"utxo"} : t1[x] = s[x]
    BY DEF Take, Without, StateFields
  <2> HIDE DEF t1, utxo
  <2>3. /\ DOMAIN t2 = StateFields /\ t2.events = events
        /\ \A x \in StateFields \ {"events"} : t2[x] = t1[x]
    <3>1. t1.events = s.events
      BY <2>2 DEF StateFields
    <3> QED BY <2>2, <3>1 DEF Event, StateFields
  <2> HIDE DEF t2, events
  <2>4. t2.stats = s.stats
    BY <2>2, <2>3 DEF StateFields
  <2>5. /\ DOMAIN n = StateFields /\ n.stats = Bump(s.stats, moved)
        /\ \A x \in StateFields \ {"stats"} : n[x] = t2[x]
    BY <2>3, <2>4 DEF StateFields
  <2> HIDE DEF n
  <2>6. /\ n.last_id = s.last_id /\ n.seen = s.seen /\ n.window = s.window /\ n.acc = s.acc
        /\ n.utxo = utxo /\ n.missing = s.missing /\ n.events = events
    BY <2>2, <2>3, <2>5 DEF StateFields
  <2>7. /\ DOMAIN b1 = BlockFields /\ b1.counts = Bump(a.block.counts, {"spends"})
        /\ b1.spent_uids = Append(a.block.spent_uids, entry.id)
        /\ b1.p2tr_spent_uids = IF p2tr THEN Append(a.block.p2tr_spent_uids, entry.id)
                                ELSE a.block.p2tr_spent_uids
    BY DEF RecordSpendUid, BlockFields
  <2> HIDE DEF b1
  <2>8. /\ DOMAIN b = BlockFields /\ b.counts = Bump(b1.counts, rest)
        /\ b.spent_uids = b1.spent_uids /\ b.p2tr_spent_uids = b1.p2tr_spent_uids
    BY <2>7 DEF BlockFields
  <2> HIDE DEF b
  <2>9. DOMAIN r = {"state", "block"} /\ r.state = n /\ r.block = b
    BY <2>1
  <2>10. /\ r.block.counts = Bump(Bump(a.block.counts, {"spends"}), rest)
         /\ r.block.spent_uids = Append(a.block.spent_uids, entry.id)
         /\ r.block.p2tr_spent_uids = IF p2tr THEN Append(a.block.p2tr_spent_uids, entry.id)
                                      ELSE a.block.p2tr_spent_uids
    BY <2>7, <2>8, <2>9, Zenon
  <2> QED BY <1>2, <2>5, <2>6, <2>8, <2>9, <2>10, Zenon
          DEF InputChange, entry, p2tr, ctx, moved, rest, utxo, events
<1> QED BY <1>1, <1>2

\* The UTXO map holds what an input spends, unless it is from before the scan.
LEMMA InUtxo ==
  ASSUME NEW L, LedgerOk(L), NEW X, X \subseteq Cells(Ins(L)), NEW x \in Cells(Ins(L)), x \notin X, NEW p,
         Prev(L, x) \notin PreScan => Before(Prev(L, x), p),
         NEW s, UtxoPart(L, s, X, p)
  PROVE  /\ Prev(L, x) \in DOMAIN s.utxo <=> Prev(L, x) \notin PreScan
         /\ Prev(L, x) \notin PreScan => s.utxo[Prev(L, x)].kind = Kind(L, Prev(L, x))
<1> DEFINE O == To(Outs(L), 1, p)
           o == Prev(L, x)
<1>1. /\ DOMAIN s.utxo = O \ Outpoints(L, X)
      /\ \A q \in DOMAIN s.utxo : s.utxo[q] = [id |-> Id(L, q), kind |-> Kind(L, q)]
  BY DEF UtxoPart
<1>2. \A q \in O : q[1] \in Nat \ {0}
  <2>1. Outs(L) \in Seq(Nat)
    BY LedgerTyped DEF LedgerOk
  <2> QED BY <2>1, CellTyped DEF To
<1>3. o \in PreScan => o \notin O
  <2>1. o \in PreScan => o[1] = 0
    BY DEF PreScan
  <2> QED BY <1>2, <2>1
<1>4. o \notin PreScan => o \in O /\ o \notin Outpoints(L, X)
  <2> SUFFICES ASSUME o \notin PreScan PROVE o \in O /\ o \notin Outpoints(L, X)
    OBVIOUS
  <2>1. o \in Cells(Outs(L)) /\ Before(o, p)
    BY DEF LedgerOk
  <2>2. o[1] \in Nat \ {0}
    <3>1. Outs(L) \in Seq(Nat)
      BY LedgerTyped DEF LedgerOk
    <3> QED BY <2>1, <3>1, CellTyped
  <2>3. o \notin Outpoints(L, X)
    <3> SUFFICES ASSUME o \in Outpoints(L, X) PROVE FALSE
      OBVIOUS
    <3>1. PICK y \in X : o = Prev(L, y)
      BY SpentCells
    <3> QED BY <3>1 DEF LedgerOk
  <2> QED BY <2>1, <2>2, <2>3 DEF To
<1>5. o \in DOMAIN s.utxo <=> o \notin PreScan
  BY <1>1, <1>3, <1>4
<1>6. o \notin PreScan => s.utxo[o].kind = Kind(L, o)
  <2> HIDE DEF o, O
  <2>1. o \notin PreScan => s.utxo[o] = [id |-> Id(L, o), kind |-> Kind(L, o)]
    BY <1>1, <1>5, Zenon
  <2> QED BY <2>1
<1> QED BY <1>5, <1>6

\* An input keeps the UTXO map exact.
LEMMA UtxoInput ==
  ASSUME NEW L, LedgerOk(L), NEW X, X \subseteq Cells(Ins(L)), IsFiniteSet(X),
         NEW x \in Cells(Ins(L)), NEW Y, Adds(Y, X, x), NEW p,
         Prev(L, x) \notin PreScan => Before(Prev(L, x), p),
         NEW s, UtxoPart(L, s, X, p), NEW n,
         n.last_id = s.last_id, n.seen = s.seen,
         Prev(L, x) \notin DOMAIN s.utxo => n.utxo = s.utxo /\ n.missing = s.missing + 1,
         Prev(L, x) \in DOMAIN s.utxo =>
             n.missing = s.missing /\ n.utxo = Without(s.utxo, Prev(L, x))
  PROVE  /\ Prev(L, x) \in DOMAIN s.utxo <=> Prev(L, x) \notin PreScan
         /\ UtxoPart(L, n, Y, p)
<1> DEFINE O == To(Outs(L), 1, p)
           o == Prev(L, x)
<1>1. /\ DOMAIN s.utxo = O \ Outpoints(L, X)
      /\ \A q \in DOMAIN s.utxo : s.utxo[q] = [id |-> Id(L, q), kind |-> Kind(L, q)]
      /\ s.last_id = Rank(L, p)
      /\ s.missing = Cardinality(Unknown(L, X))
      /\ s.seen = {Kind(L, q) : q \in O} \ {Other}
  BY DEF UtxoPart
<1>2. o \in DOMAIN s.utxo <=> o \notin PreScan
  <2>1. x \notin X
    BY DEF Adds
  <2> QED BY <2>1, InUtxo
<1>3. /\ o \in PreScan => /\ Outpoints(L, Y) = Outpoints(L, X)
                          /\ Unknown(L, Y) = Unknown(L, X) \cup {x} /\ x \notin Unknown(L, X)
      /\ o \notin PreScan => Outpoints(L, Y) = Outpoints(L, X) \cup {o} /\ Unknown(L, Y) = Unknown(L, X)
  <2>1. CASE o \in PreScan
    BY <2>1, OneInput
  <2>2. CASE o \notin PreScan
    BY <2>2, OneInput
  <2> QED BY <2>1, <2>2, Zenon
<1>4. IsFiniteSet(Unknown(L, X))
  BY OutpointsFinite
<1> HIDE DEF O, o
<1>5. n.missing = Cardinality(Unknown(L, Y))
  <2>1. o \in PreScan => Cardinality(Unknown(L, Y)) = Cardinality(Unknown(L, X)) + 1
    BY <1>3, <1>4, OneMore
  <2> QED BY <1>1, <1>2, <1>3, <2>1 DEF o
<1>6. DOMAIN n.utxo = O \ Outpoints(L, Y) /\ \A q \in DOMAIN n.utxo : n.utxo[q] = s.utxo[q] /\ q \in DOMAIN s.utxo
  <2>1. CASE o \in PreScan
    BY <1>1, <1>2, <1>3, <2>1 DEF o
  <2>2. CASE o \notin PreScan
    <3>1. n.utxo = [q \in DOMAIN s.utxo \ {o} |-> s.utxo[q]]
      BY <1>2, <2>2 DEF o, Without
    <3> QED BY <1>1, <1>3, <2>2, <3>1
  <2> QED BY <2>1, <2>2
<1>7. UtxoPart(L, n, Y, p)
  <2>1. \A q \in DOMAIN n.utxo : n.utxo[q] = [id |-> Id(L, q), kind |-> Kind(L, q)]
    BY <1>1, <1>6, Zenon
  <2>2. n.last_id = Rank(L, p) /\ n.seen = {Kind(L, q) : q \in O} \ {Other}
    BY <1>1
  <2> QED BY <1>5, <1>6, <2>1, <2>2, Zenon DEF UtxoPart, O
<1> QED BY <1>2, <1>7 DEF o

\* Adding to a counter what one more input, output or transaction adds to its
\* tally.
LEMMA BumpIs ==
  ASSUME NEW D, NEW f, f \in [D -> Int], NEW cs
  PROVE  /\ Bump(f, cs) \in [D -> Int]
         /\ \A c \in D : Bump(f, cs)[c] = f[c] + IF c \in cs THEN 1 ELSE 0
         /\ DOMAIN Bump(f, cs) = D
BY DEF Bump

\* Where a spent output was created, by its id.
LEMMA ContextOf ==
  ASSUME NEW L \in Seq(Tx), NEW o \in Cells(Outs(L)), NEW t \in Nat, NEW first \in Nat, o[1] < t
  PROVE  Context(Id(L, o), Rank(L, <<t, 1>>), Rank(L, <<first, 1>>)) =
           IF first <= o[1] THEN "SameBlock" ELSE "Earlier"
<1>1. o[1] \in Nat /\ o[2] \in Nat \ {0}
  BY LedgerTyped, CellTyped
<1>2. Before(o, <<t, 1>>) /\ (first <= o[1] <=> ~Before(o, <<first, 1>>))
  BY <1>1 DEF Before
<1>3. <<t, 1>> \in Nat \X Nat /\ <<first, 1>> \in Nat \X Nat
  OBVIOUS
<1>4. /\ Rank(L, <<t, 1>>) \in Nat /\ Rank(L, <<first, 1>>) \in Nat /\ Id(L, o) \in Nat
      /\ Id(L, o) <= Rank(L, <<t, 1>>)
      /\ first <= o[1] => Rank(L, <<first, 1>>) < Id(L, o)
      /\ ~(first <= o[1]) => Id(L, o) <= Rank(L, <<first, 1>>)
  BY <1>2, <1>3, RankGrows
<1> HIDE DEF Context
<1>5. CASE first <= o[1]
  <2>1. ~(Id(L, o) > Rank(L, <<t, 1>>)) /\ Id(L, o) > Rank(L, <<first, 1>>)
    BY <1>4, <1>5
  <2> QED BY <1>5, <2>1 DEF Context
<1>6. CASE ~(first <= o[1])
  <2>1. ~(Id(L, o) > Rank(L, <<t, 1>>)) /\ ~(Id(L, o) > Rank(L, <<first, 1>>))
    BY <1>4, <1>6
  <2> QED BY <1>6, <2>1 DEF Context
<1> QED BY <1>5, <1>6

\* The counters of a row that a spend moves.
LEMMA RowSpend ==
  ASSUME NEW L, NEW e, NEW x, Prev(L, x) \notin PreScan, Path(L, x) \in Paths, NEW c \in RowCounters
  PROVE  /\ c \in InputCounters(L, e, x) <=>
              c = "spends" \/ (Kind(L, Prev(L, x)) # Other /\ c \in PathSpend(Path(L, x)))
         /\ "spends" \notin PathSpend(Path(L, x))
<1> DEFINE ctx == IF Same(L, e, x) THEN "SameBlock" ELSE "Earlier"
           path == Path(L, x)
           p2tr == Kind(L, Prev(L, x)) # Other
<1>1. InputCounters(L, e, x) = RunSpend(ctx) \cup IF p2tr THEN RunP2trSpend(path, ctx) ELSE {}
  BY DEF InputCounters
<1>2. path \in Paths
  OBVIOUS
<1> HIDE DEF ctx, path, p2tr
<1>3. c \in RunSpend(ctx) <=> c = "spends"
  BY DEF RunSpend, RowCounters, PathCounters
<1>4. c \in RunP2trSpend(path, ctx) <=> c \in PathSpend(path)
  BY DEF RunP2trSpend, RowCounters, PathCounters
<1>5. "spends" \notin PathSpend(path)
  BY <1>2 DEF PathSpend, Paths
<1> QED BY <1>1, <1>3, <1>4, <1>5 DEF path, p2tr

\* An input keeps the counters and the ids of the block exact.
LEMMA BlockInput ==
  ASSUME NEW L, LedgerOk(L), NEW e, NEW first, NEW z, IsFiniteSet(first..z),
         NEW O, IsFiniteSet(O), NEW Y, Y \subseteq Cells(Ins(L)), IsFiniteSet(Y),
         NEW x \in Cells(Ins(L)), NEW V, Adds(V, Y, x), Prev(L, x) \notin PreScan,
         NEW b, BlockPart(L, e, first, b, Y, O, z), NEW n, DOMAIN n = BlockFields,
         NEW p2tr \in BOOLEAN, p2tr <=> Kind(L, Prev(L, x)) # Other,
         n.counts = Bump(Bump(b.counts, {"spends"}), IF p2tr THEN PathSpend(Path(L, x)) ELSE {}),
         n.spent_uids = Append(b.spent_uids, Id(L, Prev(L, x))),
         n.p2tr_spent_uids = IF p2tr THEN Append(b.p2tr_spent_uids, Id(L, Prev(L, x))) ELSE b.p2tr_spent_uids
  PROVE  BlockPart(L, e, first, n, V, O, z)
<1> DEFINE S == Outpoints(L, Y)
           o == Prev(L, x)
           Z == first..z
<1>1. /\ b.counts = [c \in RowCounters |-> Tally(L, e, c, Y, O, Z)]
      /\ UidsOk(L, S, b.spent_uids) /\ UidsOk(L, P2trOf(L, S), b.p2tr_spent_uids)
  BY DEF BlockPart
<1>2. L \in Seq(Tx) /\ o \in Cells(Outs(L)) /\ Path(L, x) \in Paths
  BY LedgerTyped DEF LedgerOk
<1>3. Outpoints(L, V) = S \cup {o} /\ o \notin S
  BY OneInput
<1>4. IsFiniteSet(S) /\ IsFiniteSet(P2trOf(L, S))
  BY OutpointsFinite
<1> HIDE DEF S, Z
<1>5. UidsOk(L, S \cup {o}, n.spent_uids)
  BY <1>1, <1>2, <1>3, <1>4, MoreUids
<1>6. UidsOk(L, P2trOf(L, S \cup {o}), n.p2tr_spent_uids)
  <2>1. CASE p2tr
    <3>1. P2trOf(L, S \cup {o}) = P2trOf(L, S) \cup {o} /\ o \notin P2trOf(L, S)
      BY <1>3, <2>1 DEF P2trOf
    <3>2. UidsOk(L, P2trOf(L, S) \cup {o}, Append(b.p2tr_spent_uids, Id(L, o)))
      BY <1>1, <1>2, <1>4, <3>1, MoreUids
    <3> QED BY <2>1, <3>1, <3>2
  <2>2. CASE ~p2tr
    <3>1. P2trOf(L, S \cup {o}) = P2trOf(L, S)
      BY <2>2 DEF P2trOf
    <3> QED BY <1>1, <2>2, <3>1
  <2> QED BY <2>1, <2>2
<1>7. n.counts = [c \in RowCounters |-> Tally(L, e, c, V, O, Z)]
  <2> DEFINE f == b.counts
             rest == IF p2tr THEN PathSpend(Path(L, x)) ELSE {}
             g == Bump(f, {"spends"})
  <2>1. \A c \in RowCounters : f[c] = Tally(L, e, c, Y, O, Z) /\ f[c] \in Int
    <3>1. \A c : Tally(L, e, c, Y, O, Z) \in Nat
      BY TallyIs DEF Z
    <3> QED BY <1>1, <3>1
  <2>2. f \in [RowCounters -> Int]
    BY <1>1, <2>1
  <2> HIDE DEF f
  <2>3. /\ g \in [RowCounters -> Int]
        /\ \A c \in RowCounters : g[c] = f[c] + IF c \in {"spends"} THEN 1 ELSE 0
    BY <2>2, BumpIs
  <2> HIDE DEF g
  <2>4. /\ Bump(g, rest) \in [RowCounters -> Int]
        /\ \A c \in RowCounters : Bump(g, rest)[c] = g[c] + IF c \in rest THEN 1 ELSE 0
    <3> HIDE DEF rest
    <3> QED BY <2>3, BumpIs
  <2>5. ASSUME NEW c \in RowCounters PROVE Bump(g, rest)[c] = Tally(L, e, c, V, O, Z)
    <3>1. Tally(L, e, c, V, O, Z) = Tally(L, e, c, Y, O, Z) + IF c \in InputCounters(L, e, x) THEN 1 ELSE 0
      BY TallyInput DEF Z
    <3>2. /\ c \in InputCounters(L, e, x) <=> c = "spends" \/ c \in rest
          /\ ~(c = "spends" /\ c \in rest)
      BY <1>2, RowSpend
    <3> HIDE DEF rest
    <3> QED BY <2>1, <2>3, <2>4, <3>1, <3>2
  <2>6. n.counts = Bump(g, rest)
    BY DEF g, f
  <2> HIDE DEF rest
  <2> QED BY <2>4, <2>5, <2>6
<1> QED BY <1>3, <1>5, <1>6, <1>7, Zenon DEF BlockPart, Z

\* A spend of an output from before the scan changes no counter.
LEMMA NoSpend ==
  ASSUME NEW L, LedgerOk(L), NEW e, NEW Y, Y \subseteq Cells(Ins(L)), IsFiniteSet(Y),
         NEW x \in Cells(Ins(L)), NEW V, Adds(V, Y, x), Prev(L, x) \in PreScan
  PROVE  /\ Outpoints(L, V) = Outpoints(L, Y)
         /\ \A c, O, Z : IsFiniteSet(O) /\ IsFiniteSet(Z) => Tally(L, e, c, V, O, Z) = Tally(L, e, c, Y, O, Z)
<1>1. \A c : c \notin InputCounters(L, e, x)
  BY DEF InputCounters
<1>2. ASSUME NEW c, NEW O, NEW Z, IsFiniteSet(O), IsFiniteSet(Z)
      PROVE  Tally(L, e, c, V, O, Z) = Tally(L, e, c, Y, O, Z)
  <2>1. /\ Tally(L, e, c, Y, O, Z) \in Nat
        /\ Tally(L, e, c, V, O, Z) = Tally(L, e, c, Y, O, Z) + IF c \in InputCounters(L, e, x) THEN 1 ELSE 0
    BY <1>2, TallyInput
  <2> QED BY <1>1, <2>1
<1>3. Outpoints(L, V) = Outpoints(L, Y)
  BY OneInput
<1> QED BY <1>2, <1>3

\* An input keeps the totals of the run exact.
LEMMA StatsInput ==
  ASSUME NEW L, NEW e, NEW X, IsFiniteSet(X), NEW O, IsFiniteSet(O), NEW Z, IsFiniteSet(Z),
         NEW x, NEW V, Adds(V, X, x),
         NEW f, f = [c \in RunCounters |-> Tally(L, e, c, X, O, Z)],
         NEW g, g = Bump(f, InputCounters(L, e, x))
  PROVE  g = [c \in RunCounters |-> Tally(L, e, c, V, O, Z)]
<1>1. ASSUME NEW c
      PROVE  /\ Tally(L, e, c, X, O, Z) \in Nat
             /\ Tally(L, e, c, V, O, Z) = Tally(L, e, c, X, O, Z) + IF c \in InputCounters(L, e, x) THEN 1 ELSE 0
  BY TallyInput
<1>2. f \in [RunCounters -> Int] /\ \A c \in RunCounters : f[c] = Tally(L, e, c, X, O, Z)
  BY <1>1
<1>3. /\ g \in [RunCounters -> Int]
      /\ \A c \in RunCounters : g[c] = f[c] + IF c \in InputCounters(L, e, x) THEN 1 ELSE 0
  BY <1>2, BumpIs
<1>4. \A c \in RunCounters : g[c] = Tally(L, e, c, V, O, Z)
  BY <1>1, <1>2, <1>3
<1> QED BY <1>3, <1>4

\* It enters the hash as an event.
LEMMA HashInput ==
  ASSUME NEW L, LedgerOk(L), NEW s0, NEW s, NEW n, NEW O, O \subseteq Cells(Outs(L)),
         NEW Y, Y \subseteq Cells(Ins(L)), NEW x \in Cells(Ins(L)), NEW V, Adds(V, Y, x),
         Prev(L, x) \notin PreScan, HashPart(L, s0, s, Y, O),
         n.window = s.window, n.acc = s.acc,
         n.events = IF Window = 0 THEN s.events ELSE Xor(s.events, {<<"rem", Id(L, Prev(L, x))>>})
  PROVE  HashPart(L, s0, n, V, O)
<1> DEFINE o == Prev(L, x)
           S == Outpoints(L, Y)
           T == Outpoints(L, V)
<1>1. /\ s.window = s0.window /\ s.acc = s0.acc
      /\ s.events = IF Window = 0 THEN {} ELSE Events(L, O, S)
  BY DEF HashPart
<1>2. Adds(T, S, o)
  BY OneInput DEF Adds
<1>3. S \subseteq Cells(Outs(L)) /\ o \in Cells(Outs(L)) /\ L \in Seq(Tx)
  <2>1. S \subseteq Cells(Outs(L))
    BY SpentCells
  <2> QED BY <2>1 DEF LedgerOk
<1> HIDE DEF S, T, o
<1>4. Xor(Events(L, O, S), {<<"rem", Id(L, o)>>}) = Events(L, O, T)
  BY <1>2, <1>3, NewRemoval
<1> QED BY <1>1, <1>4 DEF HashPart, S, T, o

\* ApplyInput keeps the accumulators right.
LEMMA InputStep ==
  ASSUME NEW L, LedgerOk(L), NEW e, NEW first \in Nat \ {0}, NEW s0, NEW a, NEW t \in DOMAIN L,
         NEW X, X \subseteq Cells(Ins(L)), IsFiniteSet(X), NEW Y, Y \subseteq X,
         NEW x \in Cells(Ins(L)), x[1] = t, NEW U, Adds(U, X, x), NEW V, Adds(V, Y, x),
         NEW z \in Int,
         Same(L, e, x) <=> first <= Prev(L, x)[1],
         AccOk(L, e, first, s0, a, X, Y, <<t, 1>>, z)
  PROVE  AccOk(L, e, first, s0, ApplyInput(a, L[t].inputs[x[2]], Rank(L, <<t, 1>>), Rank(L, <<first, 1>>)),
               U, V, <<t, 1>>, z)
<1> DEFINE p == <<t, 1>>
           ts == Rank(L, p)
           bs == Rank(L, <<first, 1>>)
           input == L[t].inputs[x[2]]
           r == ApplyInput(a, input, ts, bs)
           s == a.state
           n == r.state
           O == To(Outs(L), first, p)
           OO == To(Outs(L), 1, p)
           o == Prev(L, x)
           Z == 1..z
           ZB == first..z
<1>1. /\ L \in Seq(Tx) /\ input.prev = o /\ input.path = Path(L, x)
      /\ Path(L, x) \in Paths /\ t \in Nat /\ Outs(L) \in Seq(Nat)
  <2>1. L \in Seq(Tx)
    BY DEF LedgerOk
  <2>2. Path(L, x) \in Paths /\ t \in Nat /\ Outs(L) \in Seq(Nat)
    BY <2>1, LedgerTyped
  <2> QED BY <2>1, <2>2 DEF Prev, Path
<1>2. /\ DOMAIN a = {"state", "block"} /\ DOMAIN s = StateFields
      /\ UtxoPart(L, s, X, p)
      /\ s.stats = [c \in RunCounters |-> Tally(L, e, c, X, OO, Z)]
      /\ HashPart(L, s0, s, Y, O)
      /\ BlockPart(L, e, first, a.block, Y, O, z)
  BY DEF AccOk
<1>3. InputChange(a, input, ts, bs, r)
  <2>1. DOMAIN a.block = BlockFields
    BY <1>2 DEF BlockPart
  <2> QED BY <1>2, <2>1, InputFields
<1>4. IsFiniteSet(O) /\ IsFiniteSet(OO) /\ IsFiniteSet(Z) /\ IsFiniteSet(ZB) /\ IsFiniteSet(Y)
  <2>1. IsFiniteSet(O) /\ IsFiniteSet(OO)
    BY <1>1, CellsFinite
  <2>2. 1 \in Int /\ first \in Int
    OBVIOUS
  <2>3. IsFiniteSet(Z) /\ IsFiniteSet(ZB)
    BY <2>2, FS_Interval
  <2>4. IsFiniteSet(Y)
    BY Smaller
  <2> QED BY <2>1, <2>3, <2>4
<1>5. Y \subseteq Cells(Ins(L)) /\ O \subseteq Cells(Outs(L))
  BY DEF To
<1>6. o \notin PreScan => o \in Cells(Outs(L)) /\ o[1] < t /\ Before(o, p)
  <2> SUFFICES ASSUME o \notin PreScan PROVE o \in Cells(Outs(L)) /\ o[1] < t /\ Before(o, p)
    OBVIOUS
  <2>1. o \in Cells(Outs(L)) /\ o[1] < x[1]
    BY <1>1 DEF LedgerOk
  <2> QED BY <2>1 DEF Before
<1> HIDE DEF p, ts, bs, input, r, O, OO, Z, ZB
<1>7. /\ DOMAIN r = {"state", "block"} /\ DOMAIN n = StateFields /\ DOMAIN r.block = BlockFields
      /\ n.last_id = s.last_id /\ n.seen = s.seen /\ n.window = s.window /\ n.acc = s.acc
      /\ o \notin DOMAIN s.utxo => n.missing = s.missing + 1 /\ n.utxo = s.utxo
      /\ o \in DOMAIN s.utxo => n.missing = s.missing /\ n.utxo = Without(s.utxo, o)
  BY <1>1, <1>3, Zenon DEF InputChange
<1>8. (o \in DOMAIN s.utxo <=> o \notin PreScan) /\ UtxoPart(L, n, U, p)
  <2> HIDE DEF n, s
  <2>1. Prev(L, x) \notin PreScan => Before(Prev(L, x), p)
    BY <1>6
  <2>2. UtxoPart(L, s, X, p)
    BY <1>2
  <2>3. /\ n.last_id = s.last_id /\ n.seen = s.seen
        /\ Prev(L, x) \notin DOMAIN s.utxo => n.utxo = s.utxo /\ n.missing = s.missing + 1
        /\ Prev(L, x) \in DOMAIN s.utxo => n.missing = s.missing /\ n.utxo = Without(s.utxo, Prev(L, x))
    BY <1>7, Zenon
  <2> QED BY <2>1, <2>2, <2>3, UtxoInput
<1>9. CASE o \in PreScan
  <2>1. n.stats = s.stats /\ n.events = s.events /\ r.block = a.block
    BY <1>1, <1>3, <1>8, <1>9, Zenon DEF InputChange
  <2>2. /\ Outpoints(L, V) = Outpoints(L, Y)
        /\ \A c : Tally(L, e, c, V, O, ZB) = Tally(L, e, c, Y, O, ZB)
    BY <1>1, <1>4, <1>5, <1>9, NoSpend
  <2>3. \A c : Tally(L, e, c, U, OO, Z) = Tally(L, e, c, X, OO, Z)
    BY <1>1, <1>4, <1>9, NoSpend
  <2>4. n.stats = [c \in RunCounters |-> Tally(L, e, c, U, OO, Z)]
    BY <1>2, <2>1, <2>3
  <2>5. BlockPart(L, e, first, r.block, V, O, z)
    <3>1. /\ DOMAIN r.block = BlockFields
          /\ r.block.counts = [c \in RowCounters |-> Tally(L, e, c, Y, O, ZB)]
          /\ UidsOk(L, Outpoints(L, Y), r.block.spent_uids)
          /\ UidsOk(L, P2trOf(L, Outpoints(L, Y)), r.block.p2tr_spent_uids)
      BY <1>2, <2>1 DEF BlockPart, ZB
    <3>2. r.block.counts = [c \in RowCounters |-> Tally(L, e, c, V, O, ZB)]
      BY <2>2, <3>1
    <3> QED BY <2>2, <3>1, <3>2, Zenon DEF BlockPart, ZB
  <2>6. HashPart(L, s0, n, V, O)
    BY <1>2, <1>7, <2>1, <2>2, Zenon DEF HashPart
  <2> QED BY <1>7, <1>8, <2>4, <2>5, <2>6 DEF AccOk, r, input, ts, bs, p, O, OO, Z, ZB
<1>10. CASE o \notin PreScan
  <2> DEFINE entry == s.utxo[o]
             ctx == Context(Id(L, o), ts, bs)
             p2tr == Kind(L, o) # Other
  <2>1. entry.id = Id(L, o) /\ entry.kind = Kind(L, o)
    <3>1. entry = [id |-> Id(L, o), kind |-> Kind(L, o)]
      BY <1>2, <1>8, <1>10 DEF UtxoPart
    <3> QED BY <3>1
  <2>2. /\ n.stats = Bump(s.stats, RunSpend(ctx) \cup IF p2tr THEN RunP2trSpend(Path(L, x), ctx) ELSE {})
        /\ n.events = IF Window = 0 THEN s.events ELSE Xor(s.events, {<<"rem", Id(L, o)>>})
        /\ r.block.counts = Bump(Bump(a.block.counts, {"spends"}),
                                 IF p2tr THEN PathSpend(Path(L, x)) ELSE {})
        /\ r.block.spent_uids = Append(a.block.spent_uids, Id(L, o))
        /\ r.block.p2tr_spent_uids = IF p2tr THEN Append(a.block.p2tr_spent_uids, Id(L, o))
                                     ELSE a.block.p2tr_spent_uids
    <3>1. entry = Entry(a, input.prev)
      BY <1>1 DEF Entry
    <3> QED BY <1>1, <1>3, <1>8, <1>10, <2>1, <3>1, Zenon DEF InputChange
  <2>3. ctx = IF Same(L, e, x) THEN "SameBlock" ELSE "Earlier"
    BY <1>1, <1>6, <1>10, ContextOf DEF ts, bs, p
  <2>4. RunSpend(ctx) \cup (IF p2tr THEN RunP2trSpend(Path(L, x), ctx) ELSE {}) = InputCounters(L, e, x)
    BY <1>10, <2>3 DEF InputCounters
  <2>5. n.stats = [c \in RunCounters |-> Tally(L, e, c, U, OO, Z)]
    <3> DEFINE f == s.stats
               g == n.stats
    <3>1. f = [c \in RunCounters |-> Tally(L, e, c, X, OO, Z)] /\ g = Bump(f, InputCounters(L, e, x))
      BY <1>2, <2>2, <2>4
    <3> HIDE DEF f, g
    <3>2. g = [c \in RunCounters |-> Tally(L, e, c, U, OO, Z)]
      BY <1>4, <3>1, StatsInput
    <3> QED BY <3>2 DEF g
  <2>6. BlockPart(L, e, first, r.block, V, O, z)
    <3>1. p2tr \in BOOLEAN
      OBVIOUS
    <3> HIDE DEF p2tr, entry, ctx
    <3>2. p2tr <=> Kind(L, Prev(L, x)) # Other
      BY DEF p2tr
    <3> QED BY <1>1, <1>2, <1>4, <1>5, <1>7, <1>10, <2>2, <3>1, <3>2, BlockInput DEF ZB
  <2>7. HashPart(L, s0, n, V, O)
    <3> HIDE DEF n, s, entry, ctx, p2tr
    <3> QED BY <1>1, <1>2, <1>5, <1>7, <1>10, <2>2, HashInput
  <2> QED BY <1>7, <1>8, <2>5, <2>6, <2>7 DEF AccOk, r, input, ts, bs, p, O, OO, Z, ZB
<1> QED BY <1>9, <1>10

\* What one output changes.
With(m, o, v) == [q \in DOMAIN m \cup {o} |-> IF q = o THEN v ELSE m[q]]
OutputChange(a, op, kind, nonsp, r) ==
    LET s == a.state
        n == r.state
        moved == OutputCounters(kind, kind \in s.seen, nonsp)
    IN  /\ DOMAIN r = {"state", "block"} /\ DOMAIN n = StateFields /\ DOMAIN r.block = BlockFields
        /\ n.missing = s.missing /\ n.window = s.window /\ n.acc = s.acc
        /\ n.last_id = s.last_id + 1
        /\ n.seen = IF kind = Other THEN s.seen ELSE s.seen \cup {kind}
        /\ n.stats = Bump(s.stats, moved)
        /\ n.utxo = With(s.utxo, op, [id |-> s.last_id + 1, kind |-> kind])
        /\ n.events = IF Window = 0 THEN s.events ELSE Xor(s.events, {<<"add", s.last_id + 1>>})
        /\ r.block.counts = Bump(a.block.counts, moved)
        /\ r.block.spent_uids = a.block.spent_uids /\ r.block.p2tr_spent_uids = a.block.p2tr_spent_uids

LEMMA OutputFields ==
  ASSUME NEW a, DOMAIN a = {"state", "block"}, DOMAIN a.state = StateFields, DOMAIN a.block = BlockFields,
         NEW op, NEW kind, NEW nonsp, NEW r, r = ApplyOutput(a, op, kind, nonsp)
  PROVE  OutputChange(a, op, kind, nonsp, r)
<1> DEFINE s == a.state
           id == s.last_id + 1
           moved == OutputCounters(kind, kind \in s.seen, nonsp)
           seen == IF kind = Other THEN s.seen ELSE s.seen \cup {kind}
           stats == Bump(s.stats, moved)
           utxo == With(s.utxo, op, [id |-> id, kind |-> kind])
           events == IF Window = 0 THEN s.events ELSE Xor(s.events, {<<"add", id>>})
           m == [s EXCEPT !.last_id = id, !.seen = seen, !.stats = stats, !.utxo = utxo]
           n == Event(m, <<"add", id>>)
           b == [a.block EXCEPT !.counts = Bump(@, moved)]
<1>1. r = [state |-> n, block |-> b]
  BY DEF ApplyOutput, With
<1> HIDE DEF id, moved, seen, stats, utxo
<1>2. /\ DOMAIN m = StateFields /\ m.last_id = id /\ m.seen = seen /\ m.stats = stats /\ m.utxo = utxo
      /\ \A x \in {"missing", "window", "acc", "events"} : m[x] = s[x]
  BY DEF StateFields
<1> HIDE DEF m
<1>3. /\ DOMAIN n = StateFields /\ n.events = events
      /\ \A x \in StateFields \ {"events"} : n[x] = m[x]
  <2>1. m.events = s.events
    BY <1>2
  <2> QED BY <1>2, <2>1 DEF Event, StateFields
<1> HIDE DEF n, events
<1>4. /\ n.last_id = id /\ n.seen = seen /\ n.stats = stats /\ n.utxo = utxo
      /\ n.missing = s.missing /\ n.window = s.window /\ n.acc = s.acc
  BY <1>2, <1>3 DEF StateFields
<1>5. /\ DOMAIN b = BlockFields /\ b.counts = Bump(a.block.counts, moved)
      /\ b.spent_uids = a.block.spent_uids /\ b.p2tr_spent_uids = a.block.p2tr_spent_uids
  BY DEF BlockFields
<1> HIDE DEF b
<1>6. DOMAIN r = {"state", "block"} /\ r.state = n /\ r.block = b
  BY <1>1
<1> QED BY <1>3, <1>4, <1>5, <1>6, Zenon DEF OutputChange, id, moved, seen, stats, utxo, events

\* Counters move with one output more.
LEMMA CountOutput ==
  ASSUME NEW D, NEW L, NEW e, NEW X, IsFiniteSet(X), NEW O, IsFiniteSet(O), NEW Z, IsFiniteSet(Z),
         NEW x, NEW V, Adds(V, O, x),
         NEW f, f = [c \in D |-> Tally(L, e, c, X, O, Z)], NEW g, g = Bump(f, CountersOf(L, x))
  PROVE  g = [c \in D |-> Tally(L, e, c, X, V, Z)]
<1>1. ASSUME NEW c
      PROVE  /\ Tally(L, e, c, X, O, Z) \in Nat
             /\ Tally(L, e, c, X, V, Z) = Tally(L, e, c, X, O, Z) + IF c \in CountersOf(L, x) THEN 1 ELSE 0
  BY TallyOutput
<1>2. f \in [D -> Int] /\ \A c \in D : f[c] = Tally(L, e, c, X, O, Z)
  BY <1>1
<1>3. g \in [D -> Int] /\ \A c \in D : g[c] = f[c] + IF c \in CountersOf(L, x) THEN 1 ELSE 0
  BY <1>2, BumpIs
<1>4. \A c \in D : g[c] = Tally(L, e, c, X, V, Z)
  BY <1>1, <1>2, <1>3
<1> QED BY <1>3, <1>4

\* Counters move with one transaction more.
LEMMA CountOneTx ==
  ASSUME NEW D, NEW L, NEW e, NEW X, IsFiniteSet(X), NEW O, IsFiniteSet(O), NEW Z, IsFiniteSet(Z),
         NEW x, NEW V, Adds(V, Z, x),
         NEW f, f = [c \in D |-> Tally(L, e, c, X, O, Z)], NEW g, g = Bump(f, TxCounters(L, x))
  PROVE  g = [c \in D |-> Tally(L, e, c, X, O, V)]
<1>1. ASSUME NEW c
      PROVE  /\ Tally(L, e, c, X, O, Z) \in Nat
             /\ Tally(L, e, c, X, O, V) = Tally(L, e, c, X, O, Z) + IF c \in TxCounters(L, x) THEN 1 ELSE 0
  BY TallyTx
<1>2. f \in [D -> Int] /\ \A c \in D : f[c] = Tally(L, e, c, X, O, Z)
  BY <1>1
<1>3. g \in [D -> Int] /\ \A c \in D : g[c] = f[c] + IF c \in TxCounters(L, x) THEN 1 ELSE 0
  BY <1>2, BumpIs
<1>4. \A c \in D : g[c] = Tally(L, e, c, X, O, V)
  BY <1>1, <1>2, <1>3
<1> QED BY <1>3, <1>4

\* An output gets the next id and enters the UTXO map.
LEMMA UtxoOutput ==
  ASSUME NEW L \in Seq(Tx), NEW X, NEW o \in Cells(Outs(L)), NEW p, Adds(To(Outs(L), 1, p), To(Outs(L), 1, o), o),
         o \notin Outpoints(L, X), NEW s, UtxoPart(L, s, X, o), NEW n,
         n.missing = s.missing, n.last_id = s.last_id + 1,
         n.seen = IF Kind(L, o) = Other THEN s.seen ELSE s.seen \cup {Kind(L, o)},
         n.utxo = With(s.utxo, o, [id |-> s.last_id + 1, kind |-> Kind(L, o)])
  PROVE  /\ UtxoPart(L, n, X, p) /\ s.last_id + 1 = Id(L, o)
         /\ Kind(L, o) # Other => (Kind(L, o) \in s.seen <=> SeenBefore(L, o))
<1> DEFINE O == To(Outs(L), 1, o)
           P == To(Outs(L), 1, p)
           k == Kind(L, o)
           S == Outpoints(L, X)
           v == [id |-> Id(L, o), kind |-> k]
<1>1. /\ DOMAIN s.utxo = O \ S
      /\ \A q \in DOMAIN s.utxo : s.utxo[q] = [id |-> Id(L, q), kind |-> Kind(L, q)]
      /\ s.last_id = Cardinality(O)
      /\ s.missing = Cardinality(Unknown(L, X))
      /\ s.seen = {Kind(L, q) : q \in O} \ {Other}
  BY DEF UtxoPart, Rank
<1>2. o \notin O /\ P = O \cup {o} /\ o \notin S
  BY DEF Adds
<1>3. IsFiniteSet(O) /\ Cardinality(O) \in Nat
  BY LedgerTyped, CellsFinite
<1>4. s.last_id + 1 = Id(L, o)
  BY <1>1, <1>3 DEF Id, Rank
<1>5. k # Other => (k \in s.seen <=> SeenBefore(L, o))
  BY <1>1 DEF SeenBefore
<1> HIDE DEF O, P, k, S
<1>6. n.last_id = Rank(L, p)
  <2>1. Cardinality(P) = Cardinality(O) + 1
    BY <1>2, <1>3, OneMore
  <2> QED BY <1>1, <2>1 DEF Rank, P
<1>7. n.seen = {Kind(L, q) : q \in P} \ {Other}
  <2>1. {Kind(L, q) : q \in P} = {Kind(L, q) : q \in O} \cup {k}
    BY <1>2 DEF k
  <2> QED BY <1>1, <2>1 DEF k
<1>8. n.utxo = With(s.utxo, o, v)
  BY <1>4 DEF k
<1> HIDE DEF v
<1>9. /\ DOMAIN n.utxo = P \ S
      /\ \A q \in DOMAIN n.utxo : n.utxo[q] = IF q = o THEN v ELSE s.utxo[q]
      /\ \A q \in DOMAIN n.utxo : q # o => q \in DOMAIN s.utxo
  BY <1>1, <1>2, <1>8 DEF With
<1>10. \A q \in DOMAIN n.utxo : n.utxo[q] = [id |-> Id(L, q), kind |-> Kind(L, q)]
  BY <1>1, <1>9, Zenon DEF v, k
<1>11. UtxoPart(L, n, X, p)
  BY <1>1, <1>6, <1>7, <1>9, <1>10, Zenon DEF UtxoPart, P, S
<1> QED BY <1>4, <1>5, <1>11 DEF k

\* ApplyOutput keeps the accumulators right.
LEMMA OutputStep ==
  ASSUME NEW L, LedgerOk(L), NEW e, NEW first \in Nat \ {0}, NEW s0, NEW a, NEW z \in Int,
         NEW X, X \subseteq Cells(Ins(L)), IsFiniteSet(X), NEW Y, Y \subseteq X,
         NEW o \in Cells(Outs(L)), o \notin Outpoints(L, X), NEW p,
         Adds(To(Outs(L), 1, p), To(Outs(L), 1, o), o), Adds(To(Outs(L), first, p), To(Outs(L), first, o), o),
         NEW nonsp, nonsp <=> NumsOnly(L, o[1]),
         AccOk(L, e, first, s0, a, X, Y, o, z)
  PROVE  AccOk(L, e, first, s0, ApplyOutput(a, o, Kind(L, o), nonsp), X, Y, p, z)
<1> DEFINE k == Kind(L, o)
           r == ApplyOutput(a, o, k, nonsp)
           s == a.state
           n == r.state
           O == To(Outs(L), first, o)
           P == To(Outs(L), first, p)
           OO == To(Outs(L), 1, o)
           PP == To(Outs(L), 1, p)
           Z == 1..z
           ZB == first..z
           moved == OutputCounters(k, k \in s.seen, nonsp)
<1>1. L \in Seq(Tx) /\ Outs(L) \in Seq(Nat)
  BY LedgerTyped DEF LedgerOk
<1>2. /\ DOMAIN a = {"state", "block"} /\ DOMAIN s = StateFields
      /\ UtxoPart(L, s, X, o)
      /\ s.stats = [c \in RunCounters |-> Tally(L, e, c, X, OO, Z)]
      /\ HashPart(L, s0, s, Y, O)
      /\ BlockPart(L, e, first, a.block, Y, O, z)
  BY DEF AccOk
<1>3. OutputChange(a, o, k, nonsp, r)
  <2>1. DOMAIN a.block = BlockFields
    BY <1>2 DEF BlockPart
  <2> QED BY <1>2, <2>1, OutputFields
<1>4. IsFiniteSet(O) /\ IsFiniteSet(OO) /\ IsFiniteSet(Z) /\ IsFiniteSet(ZB) /\ IsFiniteSet(Y)
  <2>1. IsFiniteSet(O) /\ IsFiniteSet(OO)
    BY <1>1, CellsFinite
  <2>2. 1 \in Int /\ first \in Int
    OBVIOUS
  <2>3. IsFiniteSet(Z) /\ IsFiniteSet(ZB)
    BY <2>2, FS_Interval
  <2>4. IsFiniteSet(Y)
    BY Smaller
  <2> QED BY <2>1, <2>3, <2>4
<1>5. Y \subseteq Cells(Ins(L)) /\ O \subseteq Cells(Outs(L)) /\ Adds(P, O, o) /\ Adds(PP, OO, o)
  BY DEF To
<1> HIDE DEF r, Z, ZB, O, P, OO, PP, moved
<1>6. /\ DOMAIN r = {"state", "block"} /\ DOMAIN n = StateFields /\ DOMAIN r.block = BlockFields
      /\ n.missing = s.missing /\ n.window = s.window /\ n.acc = s.acc
      /\ n.last_id = s.last_id + 1
      /\ n.seen = IF k = Other THEN s.seen ELSE s.seen \cup {k}
      /\ n.stats = Bump(s.stats, moved)
      /\ n.utxo = With(s.utxo, o, [id |-> s.last_id + 1, kind |-> k])
      /\ n.events = IF Window = 0 THEN s.events ELSE Xor(s.events, {<<"add", s.last_id + 1>>})
      /\ r.block.counts = Bump(a.block.counts, moved)
      /\ r.block.spent_uids = a.block.spent_uids /\ r.block.p2tr_spent_uids = a.block.p2tr_spent_uids
  BY <1>3, Zenon DEF OutputChange, moved
<1>7. /\ UtxoPart(L, n, X, p) /\ s.last_id + 1 = Id(L, o)
      /\ k # Other => (k \in s.seen <=> SeenBefore(L, o))
  <2> HIDE DEF n, s
  <2>1. UtxoPart(L, s, X, o)
    BY <1>2
  <2> QED BY <1>1, <1>6, <2>1, UtxoOutput
<1>8. moved = CountersOf(L, o)
  BY <1>7 DEF moved, CountersOf, OutputCounters
<1>9. n.stats = [c \in RunCounters |-> Tally(L, e, c, X, PP, Z)]
  <2> DEFINE f == s.stats
             g == n.stats
  <2>1. f = [c \in RunCounters |-> Tally(L, e, c, X, OO, Z)] /\ g = Bump(f, CountersOf(L, o))
    BY <1>2, <1>6, <1>8
  <2> HIDE DEF f, g
  <2>2. g = [c \in RunCounters |-> Tally(L, e, c, X, PP, Z)]
    BY <1>4, <1>5, <2>1, CountOutput
  <2> QED BY <2>2 DEF g
<1>10. BlockPart(L, e, first, r.block, Y, P, z)
  <2> DEFINE f == a.block.counts
             g == r.block.counts
  <2>1. /\ f = [c \in RowCounters |-> Tally(L, e, c, Y, O, ZB)]
        /\ UidsOk(L, Outpoints(L, Y), r.block.spent_uids)
        /\ UidsOk(L, P2trOf(L, Outpoints(L, Y)), r.block.p2tr_spent_uids)
    BY <1>2, <1>6 DEF BlockPart, ZB
  <2>2. g = Bump(f, CountersOf(L, o))
    BY <1>6, <1>8
  <2> HIDE DEF f, g
  <2>3. g = [c \in RowCounters |-> Tally(L, e, c, Y, P, ZB)]
    BY <1>4, <1>5, <2>1, <2>2, CountOutput
  <2> QED BY <1>6, <2>1, <2>3, Zenon DEF BlockPart, ZB, g
<1>11. HashPart(L, s0, n, Y, P)
  <2> DEFINE S == Outpoints(L, Y)
  <2>1. /\ s.window = s0.window /\ s.acc = s0.acc
        /\ s.events = IF Window = 0 THEN {} ELSE Events(L, O, S)
    BY <1>2 DEF HashPart
  <2>2. S \subseteq Cells(Outs(L))
    BY <1>5, SpentCells
  <2> HIDE DEF S
  <2>3. Xor(Events(L, O, S), {<<"add", Id(L, o)>>}) = Events(L, P, S)
    BY <1>1, <1>5, <2>2, NewEvent
  <2> QED BY <1>6, <1>7, <2>1, <2>3 DEF HashPart, S
<1> QED BY <1>6, <1>7, <1>9, <1>10, <1>11 DEF AccOk, r, P, PP, Z

-----------------------------------------------------------------------------
(* A transaction.                                                          *)

\* The accumulators between transactions.
AtTx(L, e, first, s0, a, t) ==
    AccOk(L, e, first, s0, a, To(Ins(L), 1, <<t, 1>>), To(Ins(L), first, <<t, 1>>), <<t, 1>>, t - 1)

\* Whether the block that holds transaction t starts with first.
StartsWith(L, e, first, t) ==
    \A x \in Cells(Ins(L)) : x[1] = t => (Same(L, e, x) <=> first <= Prev(L, x)[1])

LEMMA InputLoop ==
  ASSUME NEW L, LedgerOk(L), NEW e, NEW first \in Nat \ {0}, NEW s0, NEW a, NEW t \in DOMAIN L, first <= t,
         StartsWith(L, e, first, t), AtTx(L, e, first, s0, a, t)
  PROVE  AccOk(L, e, first, s0, ApplyTxInputs(a, L[t], Rank(L, <<first, 1>>)),
               To(Ins(L), 1, <<t + 1, 1>>), To(Ins(L), first, <<t + 1, 1>>), <<t, 1>>, t - 1)
<1> DEFINE W == Ins(L)
           bs == Rank(L, <<first, 1>>)
           last == Len(L[t].inputs)
           z == t - 1
           Ok(b, m) == AccOk(L, e, first, s0, b, To(W, 1, <<t, m + 1>>), To(W, first, <<t, m + 1>>), <<t, 1>>, z)
<1>1. /\ L \in Seq(Tx) /\ W \in Seq(Nat) /\ t \in DOMAIN W /\ W[t] = last /\ last \in Nat /\ t \in Nat /\ z \in Int
      /\ 1 <= t
  <2>1. L \in Seq(Tx)
    BY DEF LedgerOk
  <2>2. W \in Seq(Nat) /\ t \in DOMAIN W /\ W[t] = last /\ t \in 1..Len(L) /\ Len(L) \in Nat
    BY <2>1, LedgerTyped
  <2> QED BY <2>1, <2>2
<1>2. a.state.last_id = Rank(L, <<t, 1>>)
  BY DEF AtTx, AccOk, UtxoPart
<1>3. PICK after : InputTrace(a, L[t], bs, after)
  BY <1>1, InputSteps
<1>4. Ok(after[0], 0)
  <2>1. after[0] = a /\ 0 + 1 = 1
    BY <1>3 DEF InputTrace
  <2> QED BY <2>1 DEF AtTx
<1> HIDE DEF W, last, z
<1>5. ASSUME NEW m \in 1..last, Ok(after[m - 1], m - 1) PROVE Ok(after[m], m)
  <2> DEFINE x == <<t, m>>
             X == To(W, 1, x)
             Y == To(W, first, x)
             U == To(W, 1, <<t, m + 1>>)
             V == To(W, first, <<t, m + 1>>)
  <2>1. m - 1 + 1 = m /\ m \in 1..W[t] /\ 1 \in Nat
    BY <1>1
  <2>2. AccOk(L, e, first, s0, after[m - 1], X, Y, <<t, 1>>, z)
    BY <1>5, <2>1
  <2>3. x \in Cells(W) /\ Adds(U, X, x) /\ Adds(V, Y, x)
    <3>1. first \in Nat
      OBVIOUS
    <3> QED BY <1>1, <2>1, <3>1, NextCell
  <2>4. X \subseteq Cells(Ins(L)) /\ IsFiniteSet(X) /\ Y \subseteq X
    <3>1. IsFiniteSet(X)
      BY <1>1, CellsFinite
    <3>2. \A q \in Cells(W) : q[1] \in Nat \ {0}
      BY <1>1, CellTyped
    <3> QED BY <3>1, <3>2 DEF To, W
  <2>5. x[1] = t /\ x[2] = m
    OBVIOUS
  <2>6. Same(L, e, x) <=> first <= Prev(L, x)[1]
    BY <2>3, <2>5 DEF StartsWith, W
  <2>7. after[m] = ApplyInput(after[m - 1], L[t].inputs[x[2]], Rank(L, <<t, 1>>), bs)
    BY <1>2, <1>3, <2>5 DEF InputTrace, last
  <2> HIDE DEF x, X, Y, U, V
  <2>8. AccOk(L, e, first, s0, after[m], U, V, <<t, 1>>, z)
    BY <1>1, <2>2, <2>3, <2>4, <2>5, <2>6, <2>7, InputStep DEF W
  <2> QED BY <2>8 DEF U, V
<1> DEFINE Bad == {m \in 0..last : ~Ok(after[m], m)}
<1> HIDE DEF Ok
<1>6. Bad = {}
  <2> SUFFICES ASSUME Bad # {} PROVE FALSE
    OBVIOUS
  <2>1. PICK m \in Bad : \A k \in Bad : m <= k
    <3>1. Bad \in SUBSET Nat
      BY <1>1
    <3> HIDE DEF Bad
    <3> QED BY <3>1, LeastNatural
  <2>2. m # 0
    BY <1>4, <2>1
  <2>3. m \in 1..last /\ m - 1 \in 0..last /\ ~(m <= m - 1)
    BY <1>1, <2>1, <2>2
  <2>4. Ok(after[m - 1], m - 1)
    BY <2>1, <2>3
  <2>5. Ok(after[m], m)
    BY <1>5, <2>3, <2>4
  <2> QED BY <2>1, <2>5
<1>7. Ok(after[last], last)
  BY <1>1, <1>6
<1>8. \A b : To(W, b, <<t, last + 1>>) = To(W, b, <<t + 1, 1>>)
  BY <1>1, NextRow
<1>9. ApplyTxInputs(a, L[t], bs) = after[last]
  BY <1>3 DEF InputTrace, last
<1> QED BY <1>7, <1>8, <1>9 DEF Ok, W, z

\* The accumulators depend on a place only through the outputs before it.
LEMMA SamePlace ==
  ASSUME NEW L, NEW e, NEW first, NEW s0, NEW a, NEW X, NEW Y, NEW p, NEW q, NEW z,
         To(Outs(L), 1, p) = To(Outs(L), 1, q), To(Outs(L), first, p) = To(Outs(L), first, q),
         AccOk(L, e, first, s0, a, X, Y, p, z)
  PROVE  AccOk(L, e, first, s0, a, X, Y, q, z)
<1>1. Rank(L, p) = Rank(L, q)
  BY Zenon DEF Rank
<1>2. UtxoPart(L, a.state, X, p) => UtxoPart(L, a.state, X, q)
  BY <1>1, Zenon DEF UtxoPart
<1> QED BY <1>2, Zenon DEF AccOk

LEMMA OutputLoop ==
  ASSUME NEW L, LedgerOk(L), NEW e, NEW first \in Nat \ {0}, NEW s0, NEW a, NEW t \in DOMAIN L, first <= t,
         NEW nonsp, nonsp <=> NumsOnly(L, t),
         NEW X, X = To(Ins(L), 1, <<t + 1, 1>>), NEW Y, Y = To(Ins(L), first, <<t + 1, 1>>),
         AccOk(L, e, first, s0, a, X, Y, <<t, 1>>, t)
  PROVE  AccOk(L, e, first, s0, ApplyTxOutputs(a, t, L[t], nonsp), X, Y, <<t + 1, 1>>, t)
<1> DEFINE W == Outs(L)
           last == Len(L[t].outputs)
           Ok(b, m) == AccOk(L, e, first, s0, b, X, Y, <<t, m + 1>>, t)
<1>1. /\ L \in Seq(Tx) /\ W \in Seq(Nat) /\ t \in DOMAIN W /\ W[t] = last /\ last \in Nat /\ t \in Nat /\ t \in Int
      /\ 1 <= t /\ Ins(L) \in Seq(Nat)
  <2>1. L \in Seq(Tx)
    BY DEF LedgerOk
  <2>2. /\ W \in Seq(Nat) /\ t \in DOMAIN W /\ W[t] = last /\ t \in 1..Len(L) /\ Len(L) \in Nat
        /\ Ins(L) \in Seq(Nat)
    BY <2>1, LedgerTyped
  <2> QED BY <2>1, <2>2
<1>2. X \subseteq Cells(Ins(L)) /\ IsFiniteSet(X) /\ Y \subseteq X
  <2>1. IsFiniteSet(X)
    BY <1>1, CellsFinite
  <2>2. \A q \in Cells(Ins(L)) : q[1] \in Nat \ {0}
    BY <1>1, CellTyped
  <2> QED BY <2>1, <2>2 DEF To
<1>3. PICK after : OutputTrace(a, t, L[t], nonsp, after)
  BY <1>1, OutputSteps
<1>4. Ok(after[0], 0)
  <2>1. after[0] = a /\ 0 + 1 = 1
    BY <1>3 DEF OutputTrace
  <2> QED BY <2>1
<1> HIDE DEF W, last
<1>5. ASSUME NEW m \in 1..last, Ok(after[m - 1], m - 1) PROVE Ok(after[m], m)
  <2> DEFINE o == <<t, m>>
             p == <<t, m + 1>>
  <2>1. m - 1 + 1 = m /\ m \in 1..W[t] /\ 1 \in Nat
    BY <1>1
  <2>2. AccOk(L, e, first, s0, after[m - 1], X, Y, o, t)
    BY <1>5, <2>1
  <2>3. o \in Cells(W) /\ Adds(To(W, 1, p), To(W, 1, o), o) /\ Adds(To(W, first, p), To(W, first, o), o)
    <3>1. first \in Nat
      OBVIOUS
    <3> QED BY <1>1, <2>1, <3>1, NextCell
  <2>4. o \notin Outpoints(L, X)
    <3> SUFFICES ASSUME o \in Outpoints(L, X) PROVE FALSE
      OBVIOUS
    <3>1. PICK x \in X : o[1] < x[1]
      BY <1>2, SpentCells
    <3>2. x \in Cells(Ins(L)) /\ x[1] <= t
      BY <1>1, RowCells
    <3>3. x[1] \in Nat
      BY <1>1, <3>2, CellTyped
    <3> QED BY <1>1, <3>1, <3>2, <3>3
  <2>5. nonsp <=> NumsOnly(L, o[1])
    OBVIOUS
  <2>6. after[m] = ApplyOutput(after[m - 1], o, Kind(L, o), nonsp)
    BY <1>3 DEF OutputTrace, last, Kind
  <2> HIDE DEF o, p
  <2>7. AccOk(L, e, first, s0, after[m], X, Y, p, t)
    BY <1>1, <1>2, <2>2, <2>3, <2>4, <2>5, <2>6, OutputStep DEF W
  <2> QED BY <2>7 DEF p
<1> DEFINE Bad == {m \in 0..last : ~Ok(after[m], m)}
<1> HIDE DEF Ok
<1>6. Bad = {}
  <2> SUFFICES ASSUME Bad # {} PROVE FALSE
    OBVIOUS
  <2>1. PICK m \in Bad : \A k \in Bad : m <= k
    <3>1. Bad \in SUBSET Nat
      BY <1>1
    <3> HIDE DEF Bad
    <3> QED BY <3>1, LeastNatural
  <2>2. m # 0
    BY <1>4, <2>1
  <2>3. m \in 1..last /\ m - 1 \in 0..last /\ ~(m <= m - 1)
    BY <1>1, <2>1, <2>2
  <2>4. Ok(after[m - 1], m - 1)
    BY <2>1, <2>3
  <2>5. Ok(after[m], m)
    BY <1>5, <2>3, <2>4
  <2> QED BY <2>1, <2>5
<1>7. AccOk(L, e, first, s0, after[last], X, Y, <<t, last + 1>>, t)
  <2>1. Ok(after[last], last)
    BY <1>1, <1>6
  <2> QED BY <2>1 DEF Ok
<1>8. \A b : To(W, b, <<t, last + 1>>) = To(W, b, <<t + 1, 1>>)
  BY <1>1, NextRow
<1>9. ApplyTxOutputs(a, t, L[t], nonsp) = after[last]
  BY <1>3 DEF OutputTrace, last
<1>10. AccOk(L, e, first, s0, after[last], X, Y, <<t + 1, 1>>, t)
  BY <1>7, <1>8, SamePlace DEF W
<1> QED BY <1>9, <1>10

\* tx_is_nonsp, decided from the UTXO map before the inputs of t leave it.
LEMMA NonSpIs ==
  ASSUME NEW L, LedgerOk(L), NEW t \in DOMAIN L, NEW s, UtxoPart(L, s, To(Ins(L), 1, <<t, 1>>), <<t, 1>>)
  PROVE  NonSp(s, L[t]) <=> NumsOnly(L, t)
<1> DEFINE D == DOMAIN L[t].inputs
           prev(i) == L[t].inputs[i].prev
           path(i) == L[t].inputs[i].path
           P == {i \in D : prev(i) \in DOMAIN s.utxo /\ s.utxo[prev(i)].kind # Other}
<1>1. /\ L \in Seq(Tx) /\ Ins(L) \in Seq(Nat) /\ D = 1..Ins(L)[t] /\ t \in DOMAIN Ins(L) /\ t \in Nat
      /\ L[t].inputs \in Seq(Input) /\ L[t].coinbase \in BOOLEAN
      /\ Outs(L) \in Seq(Nat) /\ Ins(L)[t] = Len(L[t].inputs) /\ Len(L[t].inputs) \in Nat
  BY LedgerTyped DEF LedgerOk
<1>2. ASSUME NEW i \in D
      PROVE  /\ prev(i) = Prev(L, <<t, i>>) /\ path(i) = Path(L, <<t, i>>)
             /\ prev(i) \in DOMAIN s.utxo <=> prev(i) \notin PreScan
             /\ prev(i) \notin PreScan => s.utxo[prev(i)].kind = Kind(L, prev(i))
  <2> DEFINE x == <<t, i>>
             X == To(Ins(L), 1, <<t, 1>>)
  <2>1. prev(i) = Prev(L, x) /\ path(i) = Path(L, x) /\ x[1] = t
    BY DEF Prev, Path
  <2>2. x \in Cells(Ins(L))
    BY <1>1, CellTyped
  <2>3. x \notin X /\ X \subseteq Cells(Ins(L))
    <3>1. i \in Nat \ {0}
      BY <1>1
    <3> QED BY <1>1, <3>1 DEF To, Before
  <2>4. Prev(L, x) \notin PreScan => Before(Prev(L, x), <<t, 1>>)
    BY <2>1, <2>2 DEF LedgerOk, Before
  <2> HIDE DEF x
  <2>5. /\ Prev(L, x) \in DOMAIN s.utxo <=> Prev(L, x) \notin PreScan
        /\ Prev(L, x) \notin PreScan => s.utxo[Prev(L, x)].kind = Kind(L, Prev(L, x))
    BY <2>2, <2>3, <2>4, InUtxo
  <2> QED BY <2>1, <2>5, Zenon DEF x
<1>3. L[t].inputs # << >> <=> D # {}
  <2>1. L[t].inputs # << >> <=> Len(L[t].inputs) # 0
    BY <1>1
  <2> DEFINE n == Len(L[t].inputs)
  <2>2. D = 1..n /\ n \in Nat
    BY <1>1
  <2> HIDE DEF D, n
  <2>3. D # {} <=> n # 0
    BY <2>2
  <2> QED BY <2>1, <2>3 DEF n
<1>4. L[t].coinbase => D = {}
  BY <1>3 DEF LedgerOk
<1>5. NonSp(s, L[t]) <=> ~L[t].coinbase /\ P # {} /\ P = D /\ \A i \in P : path(i) = "ScriptNums"
  BY DEF NonSp
<1>6. NumsOnly(L, t) <=> /\ D # {}
                         /\ \A i \in D : prev(i) \notin PreScan /\ Kind(L, prev(i)) # Other /\ path(i) = "ScriptNums"
  BY <1>2, <1>3, Zenon DEF NumsOnly
<1>7. \A i \in D : i \in P <=> prev(i) \notin PreScan /\ Kind(L, prev(i)) # Other
  BY <1>2
<1>8. P \subseteq D
  OBVIOUS
<1> HIDE DEF D, P, prev, path
<1> QED BY <1>4, <1>5, <1>6, <1>7, <1>8

\* CountTx counts the transaction.
LEMMA CountStep ==
  ASSUME NEW L, LedgerOk(L), NEW e, NEW first \in Nat \ {0}, NEW s0, NEW a, NEW t, NEW z \in Int,
         Adds(1..t, 1..z, t), Adds(first..t, first..z, t), NEW nonsp, nonsp <=> NumsOnly(L, t),
         NEW X, IsFiniteSet(X), NEW Y, Y \subseteq X, NEW p,
         AccOk(L, e, first, s0, a, X, Y, p, z)
  PROVE  AccOk(L, e, first, s0, CountTx(a, nonsp), X, Y, p, t)
<1> DEFINE r == CountTx(a, nonsp)
           s == a.state
           n == r.state
           moved == {c \in {"nonsp_txs"} : nonsp}
           O == To(Outs(L), first, p)
           OO == To(Outs(L), 1, p)
           Z == 1..z
           ZB == first..z
           Z1 == 1..t
           ZB1 == first..t
<1>1. L \in Seq(Tx) /\ Outs(L) \in Seq(Nat)
  BY LedgerTyped DEF LedgerOk
<1>2. /\ DOMAIN a = {"state", "block"} /\ DOMAIN s = StateFields
      /\ UtxoPart(L, s, X, p)
      /\ s.stats = [c \in RunCounters |-> Tally(L, e, c, X, OO, Z)]
      /\ HashPart(L, s0, s, Y, O)
      /\ BlockPart(L, e, first, a.block, Y, O, z)
  BY DEF AccOk
<1>3. DOMAIN a.block = BlockFields
  BY <1>2 DEF BlockPart
<1>4. moved = TxCounters(L, t)
  BY DEF TxCounters
<1>5. IsFiniteSet(O) /\ IsFiniteSet(OO) /\ IsFiniteSet(Z) /\ IsFiniteSet(ZB) /\ IsFiniteSet(Y)
  <2>1. IsFiniteSet(O) /\ IsFiniteSet(OO)
    BY <1>1, CellsFinite
  <2>2. 1 \in Int /\ first \in Int
    OBVIOUS
  <2>3. IsFiniteSet(Z) /\ IsFiniteSet(ZB)
    BY <2>2, FS_Interval
  <2>4. IsFiniteSet(Y)
    BY Smaller
  <2> QED BY <2>1, <2>3, <2>4
<1>6. Adds(Z1, Z, t) /\ Adds(ZB1, ZB, t)
  OBVIOUS
<1> HIDE DEF moved, O, OO, Z, ZB, Z1, ZB1
<1>7. /\ DOMAIN r = {"state", "block"} /\ DOMAIN n = StateFields /\ DOMAIN r.block = BlockFields
      /\ n.stats = Bump(s.stats, moved)
      /\ \A y \in StateFields \ {"stats"} : n[y] = s[y]
      /\ r.block.counts = Bump(a.block.counts, moved)
      /\ r.block.spent_uids = a.block.spent_uids /\ r.block.p2tr_spent_uids = a.block.p2tr_spent_uids
  <2> DEFINE m == [s EXCEPT !.stats = Bump(@, moved)]
             b == [a.block EXCEPT !.counts = Bump(@, moved)]
  <2>1. r = [state |-> m, block |-> b]
    BY DEF CountTx, moved
  <2>2. /\ DOMAIN m = StateFields /\ m.stats = Bump(s.stats, moved)
        /\ \A y \in StateFields \ {"stats"} : m[y] = s[y]
    BY <1>2 DEF StateFields
  <2>3. /\ DOMAIN b = BlockFields /\ b.counts = Bump(a.block.counts, moved)
        /\ b.spent_uids = a.block.spent_uids /\ b.p2tr_spent_uids = a.block.p2tr_spent_uids
    BY <1>3 DEF BlockFields
  <2> HIDE DEF m, b, r
  <2>4. DOMAIN r = {"state", "block"} /\ r.state = m /\ r.block = b
    BY <2>1
  <2> QED BY <2>2, <2>3, <2>4
<1> HIDE DEF r
<1>8. /\ n.last_id = s.last_id /\ n.seen = s.seen /\ n.utxo = s.utxo /\ n.missing = s.missing
      /\ n.window = s.window /\ n.acc = s.acc /\ n.events = s.events
  BY <1>7 DEF StateFields
<1>9. UtxoPart(L, n, X, p) /\ HashPart(L, s0, n, Y, O)
  BY <1>2, <1>8, Zenon DEF UtxoPart, HashPart
<1>10. n.stats = [c \in RunCounters |-> Tally(L, e, c, X, OO, Z1)]
  <2> DEFINE f == s.stats
             g == n.stats
  <2>1. f = [c \in RunCounters |-> Tally(L, e, c, X, OO, Z)] /\ g = Bump(f, TxCounters(L, t))
    BY <1>2, <1>4, <1>7
  <2> HIDE DEF f, g
  <2>2. g = [c \in RunCounters |-> Tally(L, e, c, X, OO, Z1)]
    BY <1>5, <1>6, <2>1, CountOneTx
  <2> QED BY <2>2 DEF g
<1>11. BlockPart(L, e, first, r.block, Y, O, t)
  <2> DEFINE f == a.block.counts
             g == r.block.counts
  <2>1. /\ f = [c \in RowCounters |-> Tally(L, e, c, Y, O, ZB)]
        /\ UidsOk(L, Outpoints(L, Y), r.block.spent_uids)
        /\ UidsOk(L, P2trOf(L, Outpoints(L, Y)), r.block.p2tr_spent_uids)
    BY <1>2, <1>7 DEF BlockPart, ZB
  <2>2. g = Bump(f, TxCounters(L, t))
    BY <1>4, <1>7
  <2> HIDE DEF f, g
  <2>3. g = [c \in RowCounters |-> Tally(L, e, c, Y, O, ZB1)]
    <3>1. IsFiniteSet(Y) /\ IsFiniteSet(O) /\ IsFiniteSet(ZB) /\ Adds(ZB1, ZB, t)
      BY <1>5, <1>6
    <3>2. f = [c \in RowCounters |-> Tally(L, e, c, Y, O, ZB)]
      BY <2>1
    <3> QED BY <2>2, <3>1, <3>2, CountOneTx
  <2> QED BY <1>7, <2>1, <2>3, Zenon DEF BlockPart, ZB1, g
<1> QED BY <1>7, <1>9, <1>10, <1>11 DEF AccOk, r, O, OO, Z1

\* ApplyTx keeps the accumulators right.
LEMMA TxStep ==
  ASSUME NEW L, LedgerOk(L), NEW e, NEW first \in Nat \ {0}, NEW s0, NEW a, NEW t \in DOMAIN L, first <= t,
         StartsWith(L, e, first, t), AtTx(L, e, first, s0, a, t)
  PROVE  AtTx(L, e, first, s0, ApplyTx(a, t, L[t], Rank(L, <<first, 1>>)), t + 1)
<1> DEFINE bs == Rank(L, <<first, 1>>)
           nonsp == NonSp(a.state, L[t])
           spent == IF L[t].coinbase THEN a ELSE ApplyTxInputs(a, L[t], bs)
           counted == CountTx(spent, nonsp)
           X == To(Ins(L), 1, <<t + 1, 1>>)
           Y == To(Ins(L), first, <<t + 1, 1>>)
<1>1. L \in Seq(Tx) /\ Ins(L) \in Seq(Nat) /\ t \in DOMAIN Ins(L) /\ t \in Nat \ {0} /\ Ins(L)[t] = Len(L[t].inputs)
  BY LedgerTyped DEF LedgerOk
<1>2. nonsp <=> NumsOnly(L, t)
  <2>1. UtxoPart(L, a.state, To(Ins(L), 1, <<t, 1>>), <<t, 1>>)
    BY DEF AtTx, AccOk
  <2> QED BY <2>1, NonSpIs
<1>3. AccOk(L, e, first, s0, spent, X, Y, <<t, 1>>, t - 1)
  <2>1. CASE L[t].coinbase
    <3>1. Ins(L)[t] = 0
      BY <1>1, <2>1 DEF LedgerOk
    <3>2. \A b : To(Ins(L), b, <<t, Ins(L)[t] + 1>>) = To(Ins(L), b, <<t + 1, 1>>)
      BY <1>1, NextRow
    <3>3. X = To(Ins(L), 1, <<t, 1>>) /\ Y = To(Ins(L), first, <<t, 1>>)
      BY <3>1, <3>2
    <3> QED BY <2>1, <3>3 DEF AtTx
  <2>2. CASE ~L[t].coinbase
    BY <2>2, InputLoop
  <2> QED BY <2>1, <2>2
<1>4. IsFiniteSet(X) /\ Y \subseteq X
  <2>1. IsFiniteSet(X)
    BY <1>1, CellsFinite
  <2>2. \A q \in Cells(Ins(L)) : q[1] \in Nat \ {0}
    BY <1>1, CellTyped
  <2> QED BY <2>1, <2>2 DEF To
<1>5. ApplyTx(a, t, L[t], bs) = ApplyTxOutputs(counted, t, L[t], nonsp)
  BY DEF ApplyTx
<1>6. X = To(Ins(L), 1, <<t + 1, 1>>) /\ Y = To(Ins(L), first, <<t + 1, 1>>)
  OBVIOUS
<1> HIDE DEF nonsp, spent, X, Y, counted, bs
<1>7. AccOk(L, e, first, s0, counted, X, Y, <<t, 1>>, t)
  <2> DEFINE z == t - 1
  <2>1. z \in Int /\ Adds(1..t, 1..z, t) /\ Adds(first..t, first..z, t)
    BY <1>1 DEF Adds
  <2>2. AccOk(L, e, first, s0, spent, X, Y, <<t, 1>>, z)
    BY <1>3
  <2> HIDE DEF z
  <2> QED BY <1>2, <1>4, <2>1, <2>2, CountStep DEF counted
<1>8. AccOk(L, e, first, s0, ApplyTxOutputs(counted, t, L[t], nonsp), X, Y, <<t + 1, 1>>, t)
  BY <1>2, <1>6, <1>7, OutputLoop
<1> DEFINE u == t + 1
           r == ApplyTx(a, t, L[t], bs)
<1>9. /\ u - 1 = t /\ X = To(Ins(L), 1, <<u, 1>>) /\ Y = To(Ins(L), first, <<u, 1>>)
      /\ AccOk(L, e, first, s0, r, X, Y, <<u, 1>>, t)
  BY <1>1, <1>5, <1>6, <1>8
<1> HIDE DEF u, r
<1>10. AtTx(L, e, first, s0, r, u)
  BY <1>9 DEF AtTx
<1> QED BY <1>10 DEF u, bs, r

-----------------------------------------------------------------------------
(* Blocks.                                                                 *)

LEMMA FinGrows ==
  ASSUME NEW L \in Seq(Tx), NEW e, EndsOk(L, e), NEW h \in 0..Len(e), NEW k \in 0..Len(e)
  PROVE  /\ Fin(e, h) \in Nat /\ Fin(e, h) <= Len(L)
         /\ h < k => Fin(e, h) < Fin(e, k)
         /\ h <= k => Fin(e, h) <= Fin(e, k)
<1>1. e \in Seq(Nat) /\ Len(e) \in Nat /\ Len(L) \in Nat
  BY DEF EndsOk
<1>2. /\ \A j \in 1..Len(e) : e[j] \in Nat /\ 1 <= e[j] /\ e[j] <= Len(L)
      /\ \A i, j \in 1..Len(e) : i < j => e[i] < e[j]
  BY <1>1 DEF EndsOk
<1>3. h \in Nat /\ k \in Nat /\ (h # 0 => h \in 1..Len(e)) /\ (k # 0 => k \in 1..Len(e))
  BY <1>1
<1> DEFINE f == Fin(e, h)
           g == Fin(e, k)
<1>4. (h = 0 => f = 0) /\ (h # 0 => f = e[h]) /\ (k = 0 => g = 0) /\ (k # 0 => g = e[k])
  BY DEF Fin
<1>5. (h = k => f = g)
  OBVIOUS
<1> HIDE DEF f, g
<1>6. f \in Nat /\ f <= Len(L) /\ g \in Nat
  BY <1>1, <1>2, <1>3, <1>4
<1>7. h < k => f < g
  BY <1>1, <1>2, <1>3, <1>4
<1>8. h <= k => f <= g
  BY <1>3, <1>5, <1>6, <1>7
<1> QED BY <1>6, <1>7, <1>8 DEF f, g

\* The blocks d, and another that holds the rest of the ledger.
EndsStep(L, d, e) ==
    /\ L \in Seq(Tx) /\ EndsOk(L, d) /\ EndsOk(L, e)
    /\ Len(e) = Len(d) + 1 /\ Len(d) \in Nat /\ Len(L) \in Nat
    /\ Fin(e, Len(e)) = Len(L) /\ Fin(d, Len(d)) \in Nat /\ Fin(d, Len(d)) < Len(L)
    /\ \A h \in 0..Len(d) : Fin(e, h) = Fin(d, h) /\ Fin(d, h) \in Nat /\ Fin(d, h) <= Fin(d, Len(d))
    /\ \A h \in 1..Len(d) : \A t : In(e, h, t) <=> In(d, h, t)

LEMMA EndsAppend ==
  ASSUME NEW L \in Seq(Tx), NEW d, EndsOk(L, d), Len(L) > Fin(d, Len(d)), NEW e, e = Append(d, Len(L))
  PROVE  EndsStep(L, d, e)
<1>1. /\ d \in Seq(Nat) /\ Len(d) \in Nat /\ Len(L) \in Nat
      /\ \A h \in 1..Len(d) : d[h] \in Nat /\ 1 <= d[h] /\ d[h] <= Len(L)
      /\ \A h, k \in 1..Len(d) : h < k => d[h] < d[k]
      /\ \A t \in 1..Fin(d, Len(d)) : \E h \in 1..Len(d) : In(d, h, t)
  <2>1. d \in Seq(Nat)
    BY DEF EndsOk
  <2>2. Len(d) \in Nat /\ \A h \in 1..Len(d) : d[h] \in Nat
    BY <2>1
  <2> QED BY <2>1, <2>2 DEF EndsOk
<1>2. /\ e \in Seq(Nat) /\ Len(e) = Len(d) + 1 /\ e[Len(d) + 1] = Len(L)
      /\ \A h \in 1..Len(d) : e[h] = d[h]
  BY <1>1
<1>3. \A h \in 0..Len(d) : Fin(e, h) = Fin(d, h) /\ Fin(d, h) \in Nat
  BY <1>1, <1>2 DEF Fin
<1>4. Fin(e, Len(e)) = Len(L)
  BY <1>1, <1>2 DEF Fin
<1>5. \A h \in 1..Len(d) : \A t : In(e, h, t) <=> In(d, h, t)
  <2> SUFFICES ASSUME NEW h \in 1..Len(d), NEW t PROVE In(e, h, t) <=> In(d, h, t)
    OBVIOUS
  <2>1. h \in 0..Len(d) /\ h - 1 \in 0..Len(d)
    BY <1>1
  <2>2. Fin(e, h) = Fin(d, h) /\ Fin(e, h - 1) = Fin(d, h - 1)
    BY <1>3, <2>1
  <2> QED BY <2>2, Zenon DEF In
<1>6. Len(d) \in 0..Len(d) /\ Fin(d, Len(d)) \in Nat
  BY <1>1, <1>3
<1>7. EndsOk(L, e)
  <2>1. \A h \in 1..Len(e) : h \in 1..Len(d) \/ h = Len(d) + 1
    BY <1>1, <1>2
  <2>2. ASSUME NEW h \in 1..Len(e) PROVE 1 <= e[h] /\ e[h] <= Len(L)
    BY <1>1, <1>2, <1>6, <2>1
  <2>3. ASSUME NEW h \in 1..Len(e), NEW k \in 1..Len(e), h < k PROVE e[h] < e[k]
    <3>1. h \in 1..Len(d)
      BY <1>1, <1>2, <2>3
    <3>2. CASE k \in 1..Len(d)
      BY <1>1, <1>2, <2>3, <3>1, <3>2
    <3>3. CASE k = Len(d) + 1
      <4>1. d[h] <= d[Len(d)] /\ d[Len(d)] \in Nat /\ Fin(d, Len(d)) = d[Len(d)]
        <5>1. h = Len(d) \/ (h < Len(d) /\ Len(d) \in 1..Len(d))
          BY <1>1, <3>1
        <5> QED BY <1>1, <3>1, <5>1 DEF Fin
      <4> QED BY <1>1, <1>2, <3>1, <3>3, <4>1
    <3> QED BY <2>1, <3>2, <3>3
  <2>4. ASSUME NEW t \in 1..Fin(e, Len(e)) PROVE \E h \in 1..Len(e) : In(e, h, t)
    <3>1. CASE t <= Fin(d, Len(d))
      <4>1. t \in 1..Fin(d, Len(d))
        BY <1>6, <3>1
      <4>2. PICK h \in 1..Len(d) : In(d, h, t)
        BY <1>1, <4>1
      <4>3. h \in 1..Len(e) /\ In(e, h, t)
        BY <1>1, <1>2, <1>5, <4>2
      <4> QED BY <4>3
    <3>2. CASE ~(t <= Fin(d, Len(d)))
      <4>1. Len(d) + 1 \in 1..Len(e) /\ Len(d) + 1 - 1 = Len(d)
        BY <1>1, <1>2
      <4>2. Fin(e, Len(d) + 1) = Len(L) /\ Fin(e, Len(d) + 1 - 1) = Fin(d, Len(d))
        BY <1>2, <1>3, <1>4, <1>6, <4>1
      <4>3. t <= Len(L) /\ Fin(d, Len(d)) < t
        BY <1>1, <1>4, <1>6, <3>2
      <4>4. In(e, Len(d) + 1, t)
        BY <4>2, <4>3 DEF In
      <4> QED BY <4>1, <4>4
    <3> QED BY <3>1, <3>2
  <2> QED BY <1>2, <2>2, <2>3, <2>4, Zenon DEF EndsOk
<1>8. \A h \in 0..Len(d) : Fin(d, h) <= Fin(d, Len(d))
  <2> SUFFICES ASSUME NEW h \in 0..Len(d) PROVE Fin(d, h) <= Fin(d, Len(d))
    OBVIOUS
  <2>1. h <= Len(d)
    BY <1>1
  <2> QED BY <1>6, <2>1, FinGrows
<1>9. Fin(d, Len(d)) < Len(L)
  BY <1>1, <1>6
<1> QED BY <1>1, <1>2, <1>3, <1>4, <1>5, <1>6, <1>7, <1>8, <1>9, Zenon DEF EndsStep

\* The last of the blocks e holds what the blocks d do not.
LEMMA LastBlock ==
  ASSUME NEW L, NEW d, NEW e, EndsStep(L, d, e), NEW t \in Nat, t <= Len(L), NEW h \in 1..Len(e)
  PROVE  /\ t <= Fin(d, Len(d)) => ~In(e, Len(e), t)
         /\ t > Fin(d, Len(d)) => (In(e, h, t) <=> h = Len(e))
<1>1. /\ Len(e) = Len(d) + 1 /\ Len(d) \in Nat /\ Len(L) \in Nat /\ h \in Nat
      /\ Fin(e, Len(e)) = Len(L) /\ Fin(d, Len(d)) \in Nat
      /\ \A k \in 0..Len(d) : Fin(e, k) = Fin(d, k) /\ Fin(d, k) \in Nat /\ Fin(d, k) <= Fin(d, Len(d))
  BY DEF EndsStep
<1>2. Fin(e, Len(e) - 1) = Fin(d, Len(d))
  <2>1. Len(e) - 1 = Len(d) /\ Len(d) \in 0..Len(d)
    BY <1>1
  <2> QED BY <1>1, <2>1
<1> DEFINE n == Len(e)
           g == Fin(d, Len(d))
<1>3. In(e, n, t) <=> g < t
  BY <1>1, <1>2 DEF In
<1>4. ASSUME h # n, In(e, h, t) PROVE t <= g
  <2>1. h \in 0..Len(d)
    BY <1>1, <1>4
  <2>2. Fin(e, h) \in Nat /\ Fin(e, h) <= g /\ t <= Fin(e, h)
    BY <1>1, <1>4, <2>1 DEF In
  <2> QED BY <1>1, <2>2
<1> HIDE DEF n, g
<1>5. g \in Nat
  BY <1>1 DEF g
<1>6. (t <= g => ~In(e, n, t)) /\ (t > g => (In(e, h, t) <=> h = n))
  BY <1>3, <1>4, <1>5
<1> QED BY <1>6 DEF n, g

\* What an input spends is in its block when the block has begun.
LEMMA BlockStartsWith ==
  ASSUME NEW L, LedgerOk(L), NEW d, NEW e, EndsStep(L, d, e), NEW first, first = Fin(d, Len(d)) + 1,
         NEW t \in first..Len(L)
  PROVE  StartsWith(L, e, first, t)
<1>1. /\ L \in Seq(Tx) /\ Len(L) \in Nat /\ Fin(d, Len(d)) \in Nat /\ first \in Nat /\ t \in Nat
      /\ Len(e) \in Nat /\ Len(e) \in 1..Len(e)
  BY DEF EndsStep
<1> SUFFICES ASSUME NEW x \in Cells(Ins(L)), x[1] = t
             PROVE  Same(L, e, x) <=> first <= Prev(L, x)[1]
  BY DEF StartsWith
<1> DEFINE u == Prev(L, x)[1]
<1>2. u \in Nat /\ u <= Len(L)
  <2>1. Prev(L, x) \in Nat \X Nat
    BY <1>1, LedgerTyped
  <2>2. CASE Prev(L, x) \in PreScan
    <3>1. u = 0
      BY <2>2 DEF PreScan
    <3> QED BY <1>1, <3>1
  <2>3. CASE Prev(L, x) \notin PreScan
    <3>1. u < t
      BY <2>3 DEF LedgerOk
    <3>2. u \in Nat
      BY <2>1
    <3> QED BY <1>1, <3>1, <3>2
  <2> QED BY <2>2, <2>3
<1>3. Same(L, e, x) <=> \E h \in 1..Len(e) : In(e, h, t) /\ In(e, h, u)
  BY DEF Same
<1> HIDE DEF u
<1>4. \A h \in 1..Len(e) : In(e, h, t) <=> h = Len(e)
  BY <1>1, LastBlock
<1>5. In(e, Len(e), u) <=> first <= u
  <2>1. /\ u <= Fin(d, Len(d)) => ~In(e, Len(e), u)
        /\ u > Fin(d, Len(d)) => In(e, Len(e), u)
    BY <1>1, <1>2, LastBlock
  <2> QED BY <1>1, <1>2, <2>1
<1>6. Same(L, e, x) <=> first <= u
  BY <1>1, <1>3, <1>4, <1>5
<1> QED BY <1>6 DEF u

\* Inputs of the blocks d are unaffected by another block.
LEMMA OldSame ==
  ASSUME NEW L, LedgerOk(L), NEW d, NEW e, EndsStep(L, d, e),
         NEW x \in Cells(Ins(L)), x[1] <= Fin(d, Len(d))
  PROVE  InputCounters(L, e, x) = InputCounters(L, d, x)
<1>1. /\ L \in Seq(Tx) /\ Len(L) \in Nat /\ Fin(d, Len(d)) \in Nat /\ Fin(d, Len(d)) < Len(L)
      /\ Len(e) = Len(d) + 1 /\ Len(d) \in Nat /\ Len(e) \in 1..Len(e)
      /\ \A h \in 1..Len(d) : \A t : In(e, h, t) <=> In(d, h, t)
  BY DEF EndsStep
<1>2. x[1] \in Nat
  BY <1>1, LedgerTyped, CellTyped
<1>3. ~In(e, Len(e), x[1])
  <2>1. x[1] <= Len(L)
    BY <1>1, <1>2
  <2> QED BY <1>1, <1>2, <2>1, LastBlock
<1>4. \A h \in 1..Len(e) : h \in 1..Len(d) \/ h = Len(e)
  BY <1>1
<1>5. \A h \in 1..Len(d) : h \in 1..Len(e)
  BY <1>1
<1>6. Same(L, e, x) <=> Same(L, d, x)
  BY <1>1, <1>3, <1>4, <1>5, Zenon DEF Same
<1> QED BY <1>6, Zenon DEF InputCounters

LEMMA OldTally ==
  ASSUME NEW L, LedgerOk(L), NEW d, NEW e, EndsStep(L, d, e),
         NEW X, \A x \in X : x \in Cells(Ins(L)) /\ x[1] <= Fin(d, Len(d)), NEW c, NEW O, NEW Z
  PROVE  Tally(L, e, c, X, O, Z) = Tally(L, d, c, X, O, Z)
<1>1. \A x \in X : InputCounters(L, e, x) = InputCounters(L, d, x)
  BY OldSame
<1>2. {x \in X : c \in InputCounters(L, e, x)} = {x \in X : c \in InputCounters(L, d, x)}
  BY <1>1
<1> QED BY <1>2, Zenon DEF Tally

\* There is nothing between a block's first place and its start.
LEMMA NoCells ==
  ASSUME NEW W \in Seq(Nat), NEW first \in Nat
  PROVE  To(W, first, <<first, 1>>) = {}
<1> SUFFICES ASSUME NEW q \in Cells(W), first <= q[1], Before(q, <<first, 1>>) PROVE FALSE
  BY DEF To
<1>1. q[1] \in Nat /\ q[2] \in Nat \ {0}
  BY CellTyped
<1> QED BY <1>1 DEF Before

LEMMA NothingYet ==
  ASSUME NEW L, NEW e, NEW c
  PROVE  /\ Tally(L, e, c, {}, {}, {}) = 0 /\ Outpoints(L, {}) = {} /\ P2trOf(L, {}) = {}
         /\ UidsOk(L, {}, << >>) /\ Events(L, {}, {}) = {}
<1>1. Cardinality({}) = 0
  BY FS_EmptySet
<1>2. Tally(L, e, c, {}, {}, {}) = Cardinality({}) + Cardinality({}) + Cardinality({})
  <2>1. {x \in {} : c \in InputCounters(L, e, x)} = {} /\ {x \in {} : c \in CountersOf(L, x)} = {}
    OBVIOUS
  <2>2. {x \in {} : c \in TxCounters(L, x)} = {}
    OBVIOUS
  <2> QED BY <2>1, <2>2, Zenon DEF Tally
<1>3. Outpoints(L, {}) = {} /\ P2trOf(L, {}) = {} /\ Events(L, {}, {}) = {}
  BY DEF Outpoints, Known, P2trOf, Events
<1>4. UidsOk(L, {}, << >>)
  BY <1>1 DEF UidsOk, ToSet
<1> QED BY <1>1, <1>2, <1>3, <1>4

\* A block starts with accumulators that fit its first transaction.
LEMMA BlockBegins ==
  ASSUME NEW L, LedgerOk(L), NEW d, NEW e, EndsStep(L, d, e), NEW s, StateOk(L, d, s),
         NEW first, first = Fin(d, Len(d)) + 1
  PROVE  AtTx(L, e, first, s, BlockStart(s), first) /\ s.last_id = Rank(L, <<first, 1>>)
<1> DEFINE p == <<first, 1>>
           last == Fin(d, Len(d))
           b == BlockStart(s)
           X == To(Ins(L), 1, p)
           O == To(Outs(L), 1, p)
<1>1. L \in Seq(Tx) /\ last \in Nat /\ first \in Nat /\ first - 1 = last /\ first = last + 1 /\ Outs(L) \in Seq(Nat) /\ Ins(L) \in Seq(Nat)
  <2>1. L \in Seq(Tx)
    BY DEF LedgerOk
  <2>2. last \in Nat /\ first = last + 1
    BY DEF EndsStep
  <2>3. Outs(L) \in Seq(Nat) /\ Ins(L) \in Seq(Nat)
    BY <2>1, LedgerTyped
  <2> HIDE DEF last
  <2> QED BY <2>1, <2>2, <2>3
<1>2. /\ DOMAIN s = StateFields /\ UtxoPart(L, s, X, p) /\ WindowPart(L, d, s)
      /\ s.stats = [c \in RunCounters |-> Tally(L, d, c, X, O, 1..last)]
  BY DEF StateOk, InsOf, OutsOf
<1>3. /\ DOMAIN b = {"state", "block"} /\ b.state = s /\ b.block = NewBlock
      /\ DOMAIN b.block = BlockFields /\ b.block.counts = [c \in RowCounters |-> 0]
      /\ b.block.spent_uids = << >> /\ b.block.p2tr_spent_uids = << >>
  BY DEF BlockStart, NewBlock, BlockFields
<1>4. \A x \in X : x \in Cells(Ins(L)) /\ x[1] <= last
  BY <1>1, RowCells
<1> HIDE DEF b, p, X, O
<1>5. s.stats = [c \in RunCounters |-> Tally(L, e, c, X, O, 1..last)]
  <2> DEFINE Z == 1..last
  <2> HIDE DEF Z
  <2>1. \A c : Tally(L, e, c, X, O, Z) = Tally(L, d, c, X, O, Z)
    BY <1>4, OldTally
  <2>2. s.stats = [c \in RunCounters |-> Tally(L, d, c, X, O, Z)]
    BY <1>2 DEF Z
  <2>3. s.stats = [c \in RunCounters |-> Tally(L, e, c, X, O, Z)]
    BY <2>1, <2>2
  <2> QED BY <2>3 DEF Z
<1>6. To(Outs(L), first, p) = {} /\ To(Ins(L), first, p) = {} /\ first..last = {}
  <2>1. To(Outs(L), first, p) = {} /\ To(Ins(L), first, p) = {}
    BY <1>1, NoCells DEF p
  <2>2. first..last = {}
    BY <1>1
  <2> QED BY <2>1, <2>2
<1>7. s.events = {}
  BY <1>2 DEF WindowPart
<1>8. HashPart(L, s, s, {}, {})
  BY <1>7, NothingYet DEF HashPart
<1>9. BlockPart(L, e, first, b.block, {}, {}, last)
  <2>1. \A c : Tally(L, e, c, {}, {}, {}) = 0
    BY NothingYet
  <2>2. b.block.counts = [c \in RowCounters |-> Tally(L, e, c, {}, {}, first..last)]
    BY <1>3, <1>6, <2>1
  <2>3. UidsOk(L, Outpoints(L, {}), b.block.spent_uids) /\ UidsOk(L, P2trOf(L, Outpoints(L, {})), b.block.p2tr_spent_uids)
    BY <1>3, NothingYet, Zenon
  <2> QED BY <1>3, <2>2, <2>3, Zenon DEF BlockPart
<1>10. AccOk(L, e, first, s, b, X, {}, p, last)
  BY <1>2, <1>3, <1>5, <1>6, <1>8, <1>9, Zenon DEF AccOk, O
<1>11. AtTx(L, e, first, s, b, first)
  BY <1>1, <1>6, <1>10, Zenon DEF AtTx, p, X
<1>12. s.last_id = Rank(L, p)
  BY <1>2 DEF UtxoPart
<1> QED BY <1>11, <1>12 DEF b, p

\* The loop over the transactions of the next block.
LEMMA BlockLoop ==
  ASSUME NEW L, LedgerOk(L), NEW d, NEW e, EndsStep(L, d, e), NEW s, StateOk(L, d, s),
         NEW first, first = Fin(d, Len(d)) + 1,
         NEW acc, acc = ApplyTxs(s, first, SubSeq(L, first, Len(L)))
  PROVE  AtTx(L, e, first, s, acc, Len(L) + 1)
<1> DEFINE txs == SubSeq(L, first, Len(L))
           Ok(a, n) == AtTx(L, e, first, s, a, first + n)
<1>1. L \in Seq(Tx) /\ Len(L) \in Nat /\ first \in Nat \ {0} /\ first <= Len(L)
  BY DEF EndsStep
<1>2. AtTx(L, e, first, s, BlockStart(s), first) /\ s.last_id = Rank(L, <<first, 1>>)
  BY BlockBegins
<1>3. /\ Len(txs) = Len(L) + 1 - first /\ Len(txs) \in Nat
      /\ \A n \in 1..Len(txs) : txs[n] = L[first + n - 1]
  BY <1>1
<1> HIDE DEF txs
<1>4. PICK after : /\ acc = after[Len(txs)]
                   /\ after[0] = BlockStart(s)
                   /\ \A n \in 1..Len(txs) : after[n] = ApplyTx(after[n - 1], first + n - 1, txs[n], s.last_id)
  <2>1. PICK after : TxTrace(s, first, txs, after)
    BY <1>3, TxSteps
  <2> QED BY <2>1, Zenon DEF TxTrace, txs
<1>5. ASSUME NEW n \in 1..Len(txs), Ok(after[n - 1], n - 1) PROVE Ok(after[n], n)
  <2> DEFINE t == first + n - 1
  <2>1. t \in Nat /\ first + (n - 1) = t /\ t + 1 = first + n /\ first <= t /\ t <= Len(L) /\ t \in first..Len(L)
    <3>1. Len(txs) = Len(L) + 1 - first /\ Len(L) \in Nat /\ first \in Nat /\ Len(txs) \in Nat
      BY <1>1, <1>3, Zenon
    <3>2. n \in Nat /\ 1 <= n /\ n <= Len(txs)
      BY <3>1
    <3> HIDE DEF Ok
    <3> QED BY <3>1, <3>2
  <2> HIDE DEF t
  <2>2. t \in DOMAIN L
    BY <1>1, <2>1
  <2>3. StartsWith(L, e, first, t)
    BY <2>1, BlockStartsWith
  <2>4. after[n] = ApplyTx(after[n - 1], t, L[t], Rank(L, <<first, 1>>))
    BY <1>2, <1>3, <1>4 DEF t
  <2>5. AtTx(L, e, first, s, after[n - 1], t)
    BY <1>5, <2>1, Zenon
  <2>6. AtTx(L, e, first, s, after[n], t + 1)
    BY <1>1, <2>1, <2>2, <2>3, <2>4, <2>5, TxStep
  <2> QED BY <2>1, <2>6, Zenon
<1>6. Ok(after[0], 0)
  <2>1. AtTx(L, e, first, s, after[0], first)
    BY <1>2, <1>4, Zenon
  <2>2. first + 0 = first
    BY <1>1
  <2> QED BY <2>1, <2>2, Zenon
<1> DEFINE Bad == {m \in 0..Len(txs) : ~Ok(after[m], m)}
<1>7. Bad = {}
  <2> SUFFICES ASSUME Bad # {} PROVE FALSE
    OBVIOUS
  <2> HIDE DEF Ok
  <2>1. PICK m \in Bad : \A n \in Bad : m <= n
    <3>1. Bad \in SUBSET Nat
      BY <1>3
    <3> HIDE DEF Bad
    <3> QED BY <3>1, LeastNatural
  <2>2. m # 0
    BY <1>6, <2>1
  <2>3. m \in 1..Len(txs) /\ m - 1 \in 0..Len(txs) /\ ~(m <= m - 1)
    BY <1>3, <2>1, <2>2
  <2>4. Ok(after[m - 1], m - 1)
    BY <2>1, <2>3
  <2> QED BY <1>5, <2>1, <2>3, <2>4
<1>8. Len(txs) \in 0..Len(txs) /\ first + Len(txs) = Len(L) + 1
  BY <1>1, <1>3
<1>9. Ok(after[Len(txs)], Len(txs))
  <2> HIDE DEF Ok
  <2> QED BY <1>7, <1>8
<1> QED BY <1>4, <1>8, <1>9, Zenon

-----------------------------------------------------------------------------
(* The rolling hash.                                                       *)

\* The transactions a to c are those from a to b and those after b.
LEMMA RowParts ==
  ASSUME NEW W \in Seq(Nat), NEW a \in Nat, NEW b \in Nat, NEW c \in Nat, a <= b + 1, b <= c
  PROVE  /\ To(W, a, <<c + 1, 1>>) = To(W, a, <<b + 1, 1>>) \cup To(W, b + 1, <<c + 1, 1>>)
         /\ To(W, a, <<b + 1, 1>>) \cap To(W, b + 1, <<c + 1, 1>>) = {}
<1> DEFINE A == To(W, a, <<b + 1, 1>>)
           B == To(W, b + 1, <<c + 1, 1>>)
           D == To(W, a, <<c + 1, 1>>)
<1>1. \A q : q \in A <=> q \in Cells(W) /\ a <= q[1] /\ q[1] <= b
  BY RowCells
<1>2. \A q : q \in B <=> q \in Cells(W) /\ b + 1 <= q[1] /\ q[1] <= c
  BY RowCells
<1>3. \A q : q \in D <=> q \in Cells(W) /\ a <= q[1] /\ q[1] <= c
  BY RowCells
<1> HIDE DEF A, B, D
<1>4. \A q \in Cells(W) : q[1] \in Nat
  BY CellTyped
<1>5. D = A \cup B
  BY <1>1, <1>2, <1>3, <1>4
<1>6. A \cap B = {}
  BY <1>1, <1>2, <1>4
<1> QED BY <1>5, <1>6 DEF A, B, D

\* S is split into A and B.
Splits(S, A, B) == S = A \cup B /\ A \cap B = {}

\* Distinct outputs have distinct events.
LEMMA EventsSplit ==
  ASSUME NEW L \in Seq(Tx), NEW O, O \subseteq Cells(Outs(L)), NEW S, S \subseteq Cells(Outs(L)),
         NEW A, NEW B, Splits(O, A, B), NEW F, NEW G, Splits(S, F, G)
  PROVE  Splits(Events(L, O, S), Events(L, A, F), Events(L, B, G))
<1> USE DEF Splits
<1>1. Events(L, O, S) = Events(L, A, F) \cup Events(L, B, G)
  BY DEF Events
<1>2. ASSUME NEW v \in Events(L, A, F), v \in Events(L, B, G) PROVE FALSE
  <2>1. CASE \E o \in A : v = <<"add", Id(L, o)>>
    <3>1. PICK o \in A : v = <<"add", Id(L, o)>>
      BY <2>1
    <3>2. PICK q \in B : v = <<"add", Id(L, q)>>
      BY <1>2, <3>1 DEF Events
    <3>3. Id(L, o) = Id(L, q) /\ o \in Cells(Outs(L)) /\ q \in Cells(Outs(L))
      BY <3>1, <3>2
    <3>4. o = q
      BY <3>3, IdUnique
    <3> QED BY <3>1, <3>2, <3>4
  <2>2. CASE \E o \in F : v = <<"rem", Id(L, o)>>
    <3>1. PICK o \in F : v = <<"rem", Id(L, o)>>
      BY <2>2
    <3>2. PICK q \in G : v = <<"rem", Id(L, q)>>
      BY <1>2, <3>1 DEF Events
    <3>3. Id(L, o) = Id(L, q) /\ o \in Cells(Outs(L)) /\ q \in Cells(Outs(L))
      BY <3>1, <3>2
    <3>4. o = q
      BY <3>3, IdUnique
    <3> QED BY <3>1, <3>2, <3>4
  <2> QED BY <1>2, <2>1, <2>2 DEF Events
<1> QED BY <1>1, <1>2

\* No output is spent in two of them.
LEMMA SpentSplit ==
  ASSUME NEW L, LedgerOk(L), NEW X, X \subseteq Cells(Ins(L)), NEW A, NEW B, Splits(X, A, B)
  PROVE  /\ Splits(Outpoints(L, X), Outpoints(L, A), Outpoints(L, B))
         /\ Outpoints(L, X) \subseteq Cells(Outs(L))
<1> USE DEF Splits
<1>1. Known(L, X) = Known(L, A) \cup Known(L, B)
  BY DEF Known
<1>2. Outpoints(L, X) = Outpoints(L, A) \cup Outpoints(L, B)
  BY <1>1 DEF Outpoints
<1>3. ASSUME NEW o \in Outpoints(L, A), o \in Outpoints(L, B) PROVE FALSE
  <2>1. PICK x \in Known(L, A) : o = Prev(L, x)
    BY DEF Outpoints
  <2>2. PICK y \in Known(L, B) : o = Prev(L, y)
    BY <1>3 DEF Outpoints
  <2>3. x \in A /\ y \in B
    BY <2>1, <2>2 DEF Known
  <2>4. x = y
    BY <2>1, <2>2, <2>3 DEF LedgerOk
  <2> QED BY <2>3, <2>4
<1>4. Outpoints(L, X) \subseteq Cells(Outs(L))
  BY SpentCells
<1> QED BY <1>2, <1>3, <1>4

\* Adding the events of later transactions, and removing those of earlier
\* ones.
LEMMA EventsJoin ==
  ASSUME NEW L, LedgerOk(L), NEW a \in Nat, NEW b \in Nat, NEW c \in Nat, a <= b + 1, b <= c
  PROVE  /\ Xor(EventsOf(L, a, b), EventsOf(L, b + 1, c)) = EventsOf(L, a, c)
         /\ Xor(EventsOf(L, a, c), EventsOf(L, a, b)) = EventsOf(L, b + 1, c)
<1> DEFINE O == OutsOf(L, a, c)
           A == OutsOf(L, a, b)
           B == OutsOf(L, b + 1, c)
           X == InsOf(L, a, c)
           Y == InsOf(L, a, b)
           Z == InsOf(L, b + 1, c)
           E == EventsOf(L, a, c)
           F == EventsOf(L, a, b)
           G == EventsOf(L, b + 1, c)
<1>1. L \in Seq(Tx) /\ Outs(L) \in Seq(Nat) /\ Ins(L) \in Seq(Nat)
  BY LedgerTyped DEF LedgerOk
<1>2. Splits(O, A, B) /\ Splits(X, Y, Z)
  <2>1. \A W \in Seq(Nat) : Splits(To(W, a, <<c + 1, 1>>), To(W, a, <<b + 1, 1>>), To(W, b + 1, <<c + 1, 1>>))
    BY RowParts DEF Splits
  <2> QED BY <1>1, <2>1, Zenon DEF OutsOf, InsOf
<1>3. O \subseteq Cells(Outs(L)) /\ X \subseteq Cells(Ins(L))
  BY DEF OutsOf, InsOf, To
<1>4. /\ E = Events(L, O, Outpoints(L, X)) /\ F = Events(L, A, Outpoints(L, Y))
      /\ G = Events(L, B, Outpoints(L, Z))
  BY DEF EventsOf
<1> HIDE DEF O, A, B, X, Y, Z, E, F, G
<1>5. Splits(Outpoints(L, X), Outpoints(L, Y), Outpoints(L, Z)) /\ Outpoints(L, X) \subseteq Cells(Outs(L))
  BY <1>2, <1>3, SpentSplit
<1>6. Splits(E, F, G)
  BY <1>1, <1>2, <1>3, <1>4, <1>5, EventsSplit
<1>7. Xor(F, G) = E /\ Xor(E, F) = G
  BY <1>6 DEF Splits, Xor, SymDiff
<1> QED BY <1>7 DEF E, F, G

LEMMA EventsTyped ==
  ASSUME NEW L, LedgerOk(L), NEW a, NEW b
  PROVE  EventsOf(L, a, b) \in EventSets
<1> DEFINE O == OutsOf(L, a, b)
           S == Outpoints(L, InsOf(L, a, b))
<1>1. L \in Seq(Tx)
  BY DEF LedgerOk
<1>2. O \subseteq Cells(Outs(L)) /\ InsOf(L, a, b) \subseteq Cells(Ins(L))
  BY DEF OutsOf, InsOf, To
<1>3. S \subseteq Cells(Outs(L))
  BY <1>2, SpentCells
<1>4. \A o \in Cells(Outs(L)) : Id(L, o) \in Nat
  <2>1. <<0, 0>> \in Nat \X Nat
    OBVIOUS
  <2> QED BY <1>1, <2>1, RankGrows
<1>5. EventsOf(L, a, b) = Events(L, O, S)
  BY DEF EventsOf
<1> HIDE DEF O, S
<1>6. ASSUME NEW v \in Events(L, O, S) PROVE v \in {"add", "rem"} \X Nat
  <2>1. (\E o \in O : v = <<"add", Id(L, o)>>) \/ (\E o \in S : v = <<"rem", Id(L, o)>>)
    BY DEF Events
  <2>2. \A o \in O \cup S : Id(L, o) \in Nat
    BY <1>2, <1>3, <1>4, Zenon
  <2>3. \A k \in Nat : <<"add", k>> \in {"add", "rem"} \X Nat /\ <<"rem", k>> \in {"add", "rem"} \X Nat
    OBVIOUS
  <2> QED BY <2>1, <2>2, <2>3, Zenon
<1> QED BY <1>5, <1>6 DEF EventSets

LEMMA NoEvents ==
  ASSUME NEW L \in Seq(Tx), NEW a \in Nat
  PROVE  EventsOf(L, a + 1, a) = {}
<1>1. Outs(L) \in Seq(Nat) /\ Ins(L) \in Seq(Nat)
  BY LedgerTyped
<1>2. OutsOf(L, a + 1, a) = {} /\ InsOf(L, a + 1, a) = {}
  BY <1>1, NoCells DEF OutsOf, InsOf
<1> QED BY <1>2, NothingYet, Zenon DEF EventsOf

LEMMA Kept ==
  ASSUME NEW k \in Nat
  PROVE  /\ FirstKept(k) \in 1..(k + 1)
         /\ Window = 0 => FirstKept(k) = k + 1
         /\ k < Window => FirstKept(k) = 1 /\ FirstKept(k + 1) = 1
         /\ Window > 0 /\ ~(k < Window) => FirstKept(k) = k - Window + 1 /\ FirstKept(k + 1) = FirstKept(k) + 1
BY WindowAssumption DEF FirstKept

\* The fields that finalize_block changes.
Finalized(s, r) ==
    /\ DOMAIN r = StateFields
    /\ r.last_id = s.last_id /\ r.utxo = s.utxo /\ r.seen = s.seen /\ r.missing = s.missing /\ r.stats = s.stats
    /\ Window = 0 => r.acc = s.acc /\ r.window = s.window /\ r.events = s.events
    /\ Window > 0 => r.events = {}
    /\ Window > 0 /\ Len(s.window) < Window => r.acc = Xor(s.acc, s.events) /\ r.window = Append(s.window, s.events)
    /\ Window > 0 /\ ~(Len(s.window) < Window) =>
          /\ r.acc = Xor(Xor(s.acc, s.events), Head(s.window))
          /\ r.window = Append(Tail(s.window), s.events)

LEMMA FinalizeFields ==
  ASSUME NEW s, DOMAIN s = StateFields, NEW r, r = FinalizeBlock(s)
  PROVE  Finalized(s, r)
<1>1. CASE Window = 0
  BY <1>1 DEF FinalizeBlock, Finalized, StateFields
<1>2. CASE Window # 0 /\ Len(s.window) < Window
  <2>1. r = [s EXCEPT !.events = {}, !.acc = Xor(s.acc, s.events), !.window = Append(@, s.events)]
    BY <1>2 DEF FinalizeBlock
  <2> QED BY <1>2, <2>1, WindowAssumption DEF Finalized, StateFields
<1>3. CASE Window # 0 /\ ~(Len(s.window) < Window)
  <2>1. r = [s EXCEPT !.events = {}, !.acc = Xor(Xor(s.acc, s.events), Head(s.window)),
                      !.window = Append(Tail(@), s.events)]
    BY <1>3 DEF FinalizeBlock
  <2> QED BY <1>3, <2>1, WindowAssumption DEF Finalized, StateFields
<1> QED BY <1>1, <1>2, <1>3

\* The window moves by one block.
LEMMA WindowStep ==
  ASSUME NEW L, LedgerOk(L), NEW d, NEW e, EndsStep(L, d, e), NEW s, WindowPart(L, d, s),
         NEW n, n.window = s.window, n.acc = s.acc,
         n.events = IF Window = 0 THEN {} ELSE EventsOf(L, Fin(d, Len(d)) + 1, Len(L)),
         NEW r, Finalized(n, r)
  PROVE  WindowPart(L, e, r)
<1> DEFINE k == Len(d)
           m == Len(e)
           w == s.window
           f == FirstKept(k)
           g == FirstKept(m)
           ev(h) == EventsOf(L, Fin(e, h - 1) + 1, Fin(e, h))
           dv(h) == EventsOf(L, Fin(d, h - 1) + 1, Fin(d, h))
<1>1. /\ L \in Seq(Tx) /\ k \in Nat /\ m = k + 1 /\ Len(L) \in Nat /\ Fin(e, m) = Len(L)
      /\ \A h \in 0..k : Fin(e, h) = Fin(d, h) /\ Fin(d, h) \in Nat /\ Fin(d, h) <= Fin(d, k)
      /\ Fin(d, k) \in Nat /\ Fin(d, k) < Len(L) /\ EndsOk(L, e) /\ EndsOk(L, d)
  BY DEF EndsStep
<1>2. /\ s.acc = EventsOf(L, Fin(d, f - 1) + 1, Fin(d, k)) /\ w \in Seq(EventSets) /\ Len(w) = k + 1 - f /\ s.events = {}
      /\ \A i \in 1..Len(w) : w[i] = dv(f + i - 1)
  BY DEF WindowPart, HashOf
<1>3. /\ WindowPart(L, e, r) <=>
           /\ r.acc = EventsOf(L, Fin(e, g - 1) + 1, Fin(e, m))
           /\ r.window \in Seq(EventSets) /\ Len(r.window) = m + 1 - g /\ r.events = {}
           /\ \A i \in 1..Len(r.window) : r.window[i] = ev(g + i - 1)
  BY DEF WindowPart, HashOf
<1>4. /\ f \in 1..(k + 1) /\ (Window = 0 => f = k + 1)
      /\ (k < Window => f = 1 /\ g = 1)
      /\ (Window > 0 /\ ~(k < Window) => f = k - Window + 1 /\ g = f + 1)
      /\ (Window = 0 => g = m + 1)
  <2>1. m \in Nat
    BY <1>1
  <2> QED BY <1>1, <2>1, Kept
<1> DEFINE b == Fin(d, f - 1)
           old == Fin(d, k)
           last == Len(L)
<1>5. m - 1 = k /\ k \in 0..k /\ Fin(e, k) = old
  BY <1>1
<1>6. ev(m) = EventsOf(L, old + 1, last)
  BY <1>1, <1>5
<1>7. ev(m) \in EventSets
  BY EventsTyped
<1>8. \A i \in 1..Len(w) : w[i] = ev(f + i - 1)
  <2> SUFFICES ASSUME NEW i \in 1..Len(w) PROVE w[i] = ev(f + i - 1)
    OBVIOUS
  <2> DEFINE h == f + i - 1
  <2>1. h \in 0..k /\ h - 1 \in 0..k
    <3> HIDE DEF f, w, k
    <3> QED BY <1>1, <1>2, <1>4
  <2>2. w[i] = dv(h)
    <3> HIDE DEF dv, w, f
    <3>1. \A j \in 1..Len(w) : w[j] = dv(f + j - 1)
      BY <1>2
    <3> QED BY <3>1, Zenon
  <2> HIDE DEF h
  <2>3. Fin(e, h) = Fin(d, h) /\ Fin(e, h - 1) = Fin(d, h - 1)
    BY <1>1, <2>1
  <2>4. w[i] = ev(h)
    BY <2>2, <2>3
  <2> QED BY <2>4 DEF h
<1>9. f - 1 \in 0..k /\ Fin(e, f - 1) = b /\ b \in Nat /\ b <= old
  <2>1. f - 1 \in 0..k
    <3> HIDE DEF f
    <3> QED BY <1>1, <1>4
  <2> QED BY <1>1, <2>1
<1>10. CASE Window = 0
  <2>1. r.acc = s.acc /\ r.window = w /\ r.events = {}
    BY <1>10 DEF Finalized
  <2>2. Len(w) = 0 /\ m + 1 - g = 0
    <3> HIDE DEF f, g, w, k, m
    <3> QED BY <1>1, <1>2, <1>4, <1>10
  <2>3. s.acc = {}
    <3>1. f - 1 = k
      <4> HIDE DEF f, k
      <4> QED BY <1>1, <1>4, <1>10
    <3> QED BY <1>1, <1>2, <3>1, NoEvents
  <2>4. EventsOf(L, Fin(e, g - 1) + 1, Fin(e, m)) = {}
    <3>1. g - 1 = m
      <4> HIDE DEF g, k, m
      <4> QED BY <1>1, <1>4, <1>10
    <3> QED BY <1>1, <3>1, NoEvents
  <2>5. \A i \in 1..Len(w) : FALSE
    <3> HIDE DEF w
    <3> QED BY <2>2
  <2> HIDE DEF ev
  <2> QED BY <1>2, <1>3, <2>1, <2>2, <2>3, <2>4, <2>5, Zenon
<1> HIDE DEF ev
<1>11. ASSUME Window > 0
       PROVE  /\ n.events = ev(m) /\ r.events = {}
              /\ Xor(s.acc, n.events) = EventsOf(L, b + 1, last)
  <2>1. Window # 0
    BY <1>11, WindowAssumption
  <2>2. n.events = EventsOf(L, old + 1, last) /\ r.events = {}
    BY <1>11, <2>1 DEF Finalized
  <2>3. b + 1 \in Nat /\ b + 1 <= old + 1 /\ old <= last /\ old \in Nat /\ last \in Nat
    <3> HIDE DEF b, old, last
    <3>1. old \in Nat /\ last \in Nat /\ old < last
      BY <1>1 DEF old, last
    <3> QED BY <1>9, <3>1
  <2>4. Xor(EventsOf(L, b + 1, old), EventsOf(L, old + 1, last)) = EventsOf(L, b + 1, last)
    <3> HIDE DEF b, old, last
    <3> QED BY <2>3, EventsJoin
  <2> QED BY <1>2, <1>6, <2>2, <2>4, Zenon
<1>12. CASE k < Window
  <2>1. Window > 0 /\ f = 1 /\ g = 1 /\ Len(w) = k
    <3> HIDE DEF f, g, w, k
    <3> QED BY <1>1, <1>2, <1>4, <1>12, WindowAssumption
  <2>2. r.acc = Xor(s.acc, n.events) /\ r.window = Append(w, n.events)
    <3>1. Len(n.window) < Window
      BY <1>12, <2>1
    <3> QED BY <2>1, <3>1 DEF Finalized
  <2>3. r.acc = EventsOf(L, Fin(e, g - 1) + 1, Fin(e, m))
    <3>1. Fin(e, g - 1) = b
      BY <1>9, <2>1
    <3> QED BY <1>1, <1>11, <2>1, <2>2, <3>1
  <2>4. r.window = Append(w, ev(m))
    BY <1>11, <2>1, <2>2, Zenon
  <2> HIDE DEF w, g
  <2>5. r.window \in Seq(EventSets) /\ Len(r.window) = k + 1
    BY <1>2, <1>7, <2>1, <2>4
  <2>6. \A i \in 1..Len(r.window) : r.window[i] = ev(g + i - 1)
    <3> SUFFICES ASSUME NEW i \in 1..Len(r.window) PROVE r.window[i] = ev(g + i - 1)
      OBVIOUS
    <3> HIDE DEF k, m, f
    <3>1. i \in Nat /\ 1 + i - 1 = i /\ (i = k + 1 \/ i \in 1..k)
      BY <1>1, <2>5
    <3>2. CASE i = k + 1
      <4>1. r.window[i] = ev(m)
        BY <1>2, <1>7, <2>1, <2>4, <3>2
      <4> QED BY <1>1, <2>1, <3>1, <3>2, <4>1
    <3>3. CASE i \in 1..k
      <4>1. r.window[i] = w[i]
        BY <1>2, <1>7, <2>1, <2>4, <3>3
      <4> QED BY <1>8, <2>1, <3>1, <3>3, <4>1
    <3> QED BY <3>1, <3>2, <3>3
  <2>7. Len(r.window) = m + 1 - g /\ r.events = {}
    <3>1. r.events = {}
      BY <1>11, <2>1
    <3> HIDE DEF m, k
    <3> QED BY <1>1, <2>1, <2>5, <3>1
  <2> QED BY <1>3, <2>3, <2>5, <2>6, <2>7, Zenon
<1>13. CASE Window > 0 /\ ~(k < Window)
  <2>1. f = k - Window + 1 /\ g = f + 1 /\ g - 1 = f /\ Len(w) = Window /\ f \in 1..k /\ f \in 0..k
    <3> HIDE DEF f, g, w, k
    <3> QED BY <1>1, <1>2, <1>4, <1>13, WindowAssumption
  <2>2. r.acc = Xor(Xor(s.acc, n.events), Head(w)) /\ r.window = Append(Tail(w), n.events)
    <3>1. ~(Len(n.window) < Window)
      BY <2>1, WindowAssumption
    <3> QED BY <1>13, <3>1 DEF Finalized
  <2>3. Head(w) = EventsOf(L, b + 1, Fin(d, f))
    <3>1. 1 \in 1..Len(w) /\ Head(w) = w[1]
      <4> HIDE DEF w
      <4> QED BY <1>2, <1>13, <2>1, WindowAssumption
    <3>2. f + 1 - 1 = f /\ f + 1 - 1 - 1 = f - 1
      <4> HIDE DEF f
      <4> QED BY <2>1
    <3> QED BY <1>2, <3>1, <3>2
  <2>4. r.acc = EventsOf(L, Fin(e, g - 1) + 1, Fin(e, m))
    <3> DEFINE c == Fin(d, f)
    <3>1. c \in Nat /\ c <= old /\ Fin(e, f) = c
      BY <1>1, <2>1
    <3>2. b <= c
      <4>1. f - 1 <= f
        <5> HIDE DEF f
        <5> QED BY <2>1
      <4> QED BY <1>1, <1>9, <2>1, <4>1, FinGrows
    <3>3. old \in Nat /\ last \in Nat /\ old < last
      BY <1>1
    <3> HIDE DEF b, c, old, last
    <3>4. b + 1 \in Nat /\ b + 1 <= c + 1 /\ c <= last
      BY <1>9, <3>1, <3>2, <3>3
    <3>5. Xor(EventsOf(L, b + 1, last), EventsOf(L, b + 1, c)) = EventsOf(L, c + 1, last)
      BY <3>1, <3>3, <3>4, EventsJoin
    <3>6. r.acc = EventsOf(L, c + 1, last)
      BY <1>11, <1>13, <2>2, <2>3, <3>5, Zenon DEF c
    <3> QED BY <1>1, <2>1, <3>1, <3>6 DEF last
  <2>5. r.window = Append(Tail(w), ev(m))
    BY <1>11, <1>13, <2>2, Zenon
  <2> HIDE DEF w, g
  <2>6. /\ Tail(w) \in Seq(EventSets) /\ Len(Tail(w)) = Window - 1 /\ Window - 1 \in Nat
        /\ \A i \in 1..(Window - 1) : Tail(w)[i] = w[i + 1]
    BY <1>2, <1>13, <2>1, WindowAssumption
  <2> DEFINE y == Tail(w)
  <2> HIDE DEF y
  <2>7. r.window \in Seq(EventSets) /\ Len(r.window) = Window
    <3>1. y \in Seq(EventSets) /\ Len(y) = Window - 1 /\ r.window = Append(y, ev(m))
      BY <2>5, <2>6 DEF y
    <3> QED BY <1>7, <3>1, WindowAssumption
  <2>8. \A i \in 1..Len(r.window) : r.window[i] = ev(g + i - 1)
    <3> SUFFICES ASSUME NEW i \in 1..Len(r.window) PROVE r.window[i] = ev(g + i - 1)
      OBVIOUS
    <3> HIDE DEF k, m, f
    <3>1. y \in Seq(EventSets) /\ Len(y) = Window - 1 /\ r.window = Append(y, ev(m))
      BY <2>5, <2>6 DEF y
    <3>2. i \in Nat /\ (i = Window \/ i \in 1..(Window - 1))
      BY <2>7, WindowAssumption
    <3>3. CASE i = Window
      <4>1. r.window[i] = ev(m)
        BY <1>7, <3>1, <3>3, WindowAssumption
      <4>2. g + i - 1 = m
        BY <1>1, <2>1, <3>3, WindowAssumption
      <4> QED BY <4>1, <4>2
    <3>4. CASE i \in 1..(Window - 1)
      <4>1. r.window[i] = y[i] /\ y[i] = w[i + 1]
        BY <1>7, <2>6, <3>1, <3>4, WindowAssumption DEF y
      <4>2. i + 1 \in 1..Len(w) /\ f + (i + 1) - 1 = g + i - 1
        BY <2>1, <3>4, WindowAssumption
      <4>3. w[i + 1] = ev(f + (i + 1) - 1)
        BY <1>8, <4>2
      <4> QED BY <4>1, <4>2, <4>3, Zenon
    <3> QED BY <3>2, <3>3, <3>4
  <2>9. Len(r.window) = m + 1 - g /\ r.events = {}
    <3>1. r.events = {}
      BY <1>11, <1>13
    <3> HIDE DEF m, k, f
    <3>2. m = k + 1 /\ k \in Nat /\ f = k - Window + 1 /\ g = f + 1
      BY <1>1, <2>1
    <3>3. Window = m + 1 - g
      BY <3>2, WindowAssumption
    <3> QED BY <2>7, <3>1, <3>3, Zenon
  <2> QED BY <1>3, <2>4, <2>7, <2>8, <2>9, Zenon
<1>14. Window = 0 \/ k < Window \/ (Window > 0 /\ ~(k < Window))
  BY <1>1, WindowAssumption
<1> QED BY <1>10, <1>12, <1>13, <1>14

-----------------------------------------------------------------------------
(* A block.                                                                *)

\* The accumulators after transaction last.
LEMMA AfterTx ==
  ASSUME NEW L, NEW e, NEW first, NEW s, NEW acc, NEW last \in Nat, AtTx(L, e, first, s, acc, last + 1)
  PROVE  AccOk(L, e, first, s, acc, InsOf(L, 1, last), InsOf(L, first, last), <<last + 1, 1>>, last)
<1> DEFINE u == last + 1
<1>1. u - 1 = last
  OBVIOUS
<1> HIDE DEF u
<1>2. AtTx(L, e, first, s, acc, u) => AccOk(L, e, first, s, acc, To(Ins(L), 1, <<u, 1>>), To(Ins(L), first, <<u, 1>>), <<u, 1>>, last)
  BY <1>1, Zenon DEF AtTx
<1> QED BY <1>2, Zenon DEF u, InsOf

\* The state after the next block.
LEMMA NextState ==
  ASSUME NEW L, LedgerOk(L), NEW d, NEW e, EndsStep(L, d, e), NEW s, StateOk(L, d, s),
         NEW first, first = Fin(d, Len(d)) + 1, NEW acc, AtTx(L, e, first, s, acc, Len(L) + 1),
         NEW r, r = FinalizeBlock(acc.state)
  PROVE  StateOk(L, e, r) /\ Finalized(acc.state, r)
<1> DEFINE last == Len(L)
           p == <<last + 1, 1>>
           X == InsOf(L, 1, last)
           Y == InsOf(L, first, last)
           n == acc.state
<1>1. last \in Nat /\ Fin(e, Len(e)) = last
  BY DEF EndsStep
<1>2. AccOk(L, e, first, s, acc, X, Y, p, last)
  BY <1>1, AfterTx
<1>3. /\ DOMAIN n = StateFields /\ UtxoPart(L, n, X, p)
      /\ n.stats = [c \in RunCounters |-> Tally(L, e, c, X, To(Outs(L), 1, p), 1..last)]
      /\ HashPart(L, s, n, Y, To(Outs(L), first, p))
  BY <1>2, Zenon DEF AccOk
<1>4. WindowPart(L, d, s)
  BY DEF StateOk
<1>5. Finalized(n, r)
  BY <1>3, FinalizeFields
<1>6. WindowPart(L, e, r)
  <2>1. /\ n.window = s.window /\ n.acc = s.acc
        /\ n.events = IF Window = 0 THEN {} ELSE EventsOf(L, Fin(d, Len(d)) + 1, Len(L))
    BY <1>3, Zenon DEF HashPart, EventsOf, OutsOf
  <2> HIDE DEF n
  <2> QED BY <1>4, <1>5, <2>1, WindowStep
<1>7. /\ DOMAIN r = StateFields /\ r.last_id = n.last_id /\ r.utxo = n.utxo /\ r.seen = n.seen
      /\ r.missing = n.missing /\ r.stats = n.stats
  BY <1>5 DEF Finalized
<1>8. UtxoPart(L, r, X, p)
  BY <1>3, <1>7, Zenon DEF UtxoPart
<1>9. r.stats = [c \in RunCounters |-> Tally(L, e, c, X, OutsOf(L, 1, last), 1..last)]
  BY <1>3, <1>7, Zenon DEF OutsOf
<1> QED BY <1>1, <1>5, <1>6, <1>7, <1>8, <1>9, Zenon DEF StateOk

\* The outputs of a block are as many as the ids it assigns.
LEMMA OutputTally ==
  ASSUME NEW L, LedgerOk(L), NEW e, NEW a \in Nat, NEW b \in Nat, a <= b
  PROVE  Tally(L, e, "outputs", InsOf(L, a + 1, b), OutsOf(L, a + 1, b), (a + 1)..b)
           = Rank(L, <<b + 1, 1>>) - Rank(L, <<a + 1, 1>>)
<1> DEFINE X == InsOf(L, a + 1, b)
           O == OutsOf(L, a + 1, b)
           A == OutsOf(L, 1, a)
           B == OutsOf(L, 1, b)
           Z == (a + 1)..b
<1>1. L \in Seq(Tx) /\ Outs(L) \in Seq(Nat) /\ Ins(L) \in Seq(Nat)
  BY LedgerTyped DEF LedgerOk
<1>2. Rank(L, <<b + 1, 1>>) = Cardinality(B) /\ Rank(L, <<a + 1, 1>>) = Cardinality(A)
  BY DEF Rank, OutsOf
<1>3. B = A \cup O /\ A \cap O = {}
  <2>1. 1 \in Nat /\ 1 <= a + 1
    OBVIOUS
  <2> QED BY <1>1, <2>1, RowParts, Zenon DEF OutsOf
<1>4. IsFiniteSet(A) /\ IsFiniteSet(O)
  BY <1>1, CellsFinite DEF OutsOf
<1>5. \A x \in X : "outputs" \notin InputCounters(L, e, x)
  <2> SUFFICES ASSUME NEW x \in X PROVE "outputs" \notin InputCounters(L, e, x)
    OBVIOUS
  <2>1. Path(L, x) \in Paths
    <3>1. x \in Cells(Ins(L))
      BY DEF InsOf, To
    <3> QED BY <1>1, <3>1, LedgerTyped
  <2>2. \A ctx : "outputs" \notin RunSpend(ctx) /\ "outputs" \notin RunP2trSpend(Path(L, x), ctx)
    BY <2>1 DEF RunSpend, RunP2trSpend, PathSpend, Paths
  <2> QED BY <2>2 DEF InputCounters
<1>6. \A o \in O : "outputs" \in CountersOf(L, o)
  BY DEF CountersOf, OutputCounters
<1>7. \A t \in Z : "outputs" \notin TxCounters(L, t)
  BY DEF TxCounters
<1> HIDE DEF X, O, A, B, Z
<1>8. /\ {x \in X : "outputs" \in InputCounters(L, e, x)} = {}
      /\ {o \in O : "outputs" \in CountersOf(L, o)} = O
      /\ {t \in Z : "outputs" \in TxCounters(L, t)} = {}
  BY <1>5, <1>6, <1>7
<1>9. Tally(L, e, "outputs", X, O, Z) = Cardinality({}) + Cardinality(O) + Cardinality({})
  BY <1>8, Zenon DEF Tally
<1>10. Cardinality({}) = 0
  BY FS_EmptySet
<1>11. Cardinality(B) = Cardinality(A) + Cardinality(O) - Cardinality(A \cap O)
  BY <1>3, <1>4, FS_Union
<1>12. Cardinality(A) \in Nat /\ Cardinality(O) \in Nat
  BY <1>4, FS_CardinalityType
<1>13. Tally(L, e, "outputs", X, O, Z) = Rank(L, <<b + 1, 1>>) - Rank(L, <<a + 1, 1>>)
  <2> DEFINE y == Rank(L, <<b + 1, 1>>)
             z == Rank(L, <<a + 1, 1>>)
             i == Cardinality(A)
             j == Cardinality(O)
             k == Tally(L, e, "outputs", X, O, Z)
  <2>1. y = i + j - 0 /\ z = i /\ k = 0 + j + 0 /\ i \in Nat /\ j \in Nat
    BY <1>2, <1>3, <1>9, <1>10, <1>11, <1>12, Zenon
  <2> HIDE DEF y, z, i, j, k
  <2>2. k = y - z
    BY <2>1
  <2> QED BY <2>2 DEF k, y, z
<1> QED BY <1>13 DEF X, O, Z

LEMMA RowTyped ==
  ASSUME NEW h \in Nat, NEW k \in Nat, NEW v \in EventSets, NEW xs \in Seq(Nat), NEW ys \in Seq(Nat),
         NEW counts \in [RowCounters -> Int]
  PROVE  [height |-> h, hash |-> h, last_global_id |-> k, utxo_hash |-> v, spent_uids |-> xs,
          p2tr_spent_uids |-> ys, counts |-> counts] \in Row
BY DEF Row

\* The row of the next block.
LEMMA NextRowOk ==
  ASSUME NEW L, LedgerOk(L), NEW d, NEW e, EndsStep(L, d, e), NEW s, StateOk(L, d, s),
         NEW first, first = Fin(d, Len(d)) + 1, NEW acc, AtTx(L, e, first, s, acc, Len(L) + 1),
         NEW r, StateOk(L, e, r), Finalized(acc.state, r),
         NEW after, after = [acc EXCEPT !.state = r],
         NEW row, row = RowOf(Len(e), Len(e), s, after)
  PROVE  RowOk(L, e, Len(e), row) /\ row \in Row
<1> DEFINE last == Len(L)
           old == Fin(d, Len(d))
           p == <<last + 1, 1>>
           X == InsOf(L, 1, last)
           Y == InsOf(L, first, last)
           O == OutsOf(L, first, last)
           b == acc.block
           h == Len(e)
<1>1. /\ last \in Nat /\ Fin(e, h) = last /\ old \in Nat /\ old < last /\ L \in Seq(Tx) /\ h \in Nat
      /\ first = old + 1
  BY DEF EndsStep
<1>2. Fin(e, h - 1) + 1 = first
  <2>1. h - 1 = Len(d) /\ Len(d) \in 0..Len(d)
    BY DEF EndsStep
  <2> QED BY <2>1 DEF EndsStep
<1>3. AccOk(L, e, first, s, acc, X, Y, p, last)
  BY <1>1, AfterTx
<1>4. DOMAIN acc = {"state", "block"} /\ BlockPart(L, e, first, b, Y, O, last)
  BY <1>3, Zenon DEF AccOk, OutsOf
<1>5. after.state = r /\ after.block = b
  BY <1>4
<1>6. r.last_id = Rank(L, p) /\ r.acc = HashOf(L, e, h)
  BY <1>1, Zenon DEF StateOk, UtxoPart, WindowPart
<1>7. s.last_id = Rank(L, <<first, 1>>)
  BY Zenon DEF StateOk, UtxoPart
<1>8. /\ b.counts = [c \in RowCounters |-> Tally(L, e, c, Y, O, first..last)]
      /\ UidsOk(L, Outpoints(L, Y), b.spent_uids) /\ UidsOk(L, P2trOf(L, Outpoints(L, Y)), b.p2tr_spent_uids)
  BY <1>4, Zenon DEF BlockPart
<1>9. Tally(L, e, "outputs", Y, O, first..last) = r.last_id - s.last_id
  <2>1. old <= last
    BY <1>1
  <2>2. Tally(L, e, "outputs", InsOf(L, old + 1, last), OutsOf(L, old + 1, last), (old + 1)..last)
           = Rank(L, <<last + 1, 1>>) - Rank(L, <<old + 1, 1>>)
    <3> HIDE DEF old, last
    <3> QED BY <1>1, <2>1, OutputTally
  <2> QED BY <1>1, <1>6, <1>7, <2>2, Zenon
<1> DEFINE counts == [b.counts EXCEPT !["outputs"] = r.last_id - s.last_id]
           Z == first..last
<1>10. row = [height |-> h, hash |-> h, last_global_id |-> r.last_id, utxo_hash |-> r.acc,
              spent_uids |-> b.spent_uids, p2tr_spent_uids |-> b.p2tr_spent_uids, counts |-> counts]
  BY <1>5, Zenon DEF RowOf
<1>11. counts = [c \in RowCounters |-> Tally(L, e, c, Y, O, Z)]
  <2> DEFINE f == b.counts
             v == r.last_id - s.last_id
  <2>1. f = [c \in RowCounters |-> Tally(L, e, c, Y, O, Z)] /\ Tally(L, e, "outputs", Y, O, Z) = v
    BY <1>8, <1>9
  <2> HIDE DEF f, v, Y, O, Z
  <2>2. [f EXCEPT !["outputs"] = v] = [c \in RowCounters |-> Tally(L, e, c, Y, O, Z)]
    BY <2>1
  <2> QED BY <2>2 DEF f, v
<1>12. counts \in [RowCounters -> Int]
  <2>1. Outs(L) \in Seq(Nat) /\ Ins(L) \in Seq(Nat)
    BY <1>1, LedgerTyped
  <2>2. IsFiniteSet(Y) /\ IsFiniteSet(O)
    BY <2>1, CellsFinite DEF InsOf, OutsOf
  <2>3. IsFiniteSet(Z)
    <3>1. first \in Int /\ last \in Int
      BY <1>1
    <3> QED BY <3>1, FS_Interval
  <2> HIDE DEF Y, O, Z, counts
  <2>4. \A c : Tally(L, e, c, Y, O, Z) \in Nat
    BY <2>2, <2>3, TallyIs
  <2>5. \A c : Tally(L, e, c, Y, O, Z) \in Int
    BY <2>4
  <2> QED BY <1>11, <2>5
<1>13. /\ b.spent_uids \in Seq(Nat) /\ b.p2tr_spent_uids \in Seq(Nat)
       /\ r.acc \in EventSets /\ r.last_id \in Nat
  <2>1. r.acc \in EventSets
    BY <1>6, EventsTyped DEF HashOf
  <2>2. Outs(L) \in Seq(Nat)
    BY <1>1, LedgerTyped
  <2>3. r.last_id \in Nat
    BY <1>6, <2>2, CellsFinite DEF Rank
  <2> QED BY <1>8, <2>1, <2>3 DEF UidsOk
<1> DEFINE xs == b.spent_uids
           ys == b.p2tr_spent_uids
           k == r.last_id
           v == r.acc
<1>14. row = [height |-> h, hash |-> h, last_global_id |-> k, utxo_hash |-> v, spent_uids |-> xs,
              p2tr_spent_uids |-> ys, counts |-> counts]
  BY <1>10
<1>15. xs \in Seq(Nat) /\ ys \in Seq(Nat) /\ v \in EventSets /\ k \in Nat
  BY <1>13
<1> HIDE DEF counts, xs, ys, k, v, h
<1>16. row \in Row
  <2>1. h \in Nat
    BY <1>1
  <2> QED BY <1>12, <1>14, <1>15, <2>1, RowTyped
<1>17. /\ row.last_global_id = k /\ row.utxo_hash = v /\ row.spent_uids = xs /\ row.p2tr_spent_uids = ys
       /\ row.counts = counts
  BY <1>14
<1>18. RowOk(L, e, h, row)
  <2>1. row.last_global_id = Rank(L, <<Fin(e, h) + 1, 1>>) /\ row.utxo_hash = HashOf(L, e, h)
    BY <1>1, <1>6, <1>17, Zenon DEF k, v
  <2>2. UidsOk(L, Outpoints(L, Y), row.spent_uids) /\ UidsOk(L, P2trOf(L, Outpoints(L, Y)), row.p2tr_spent_uids)
    BY <1>8, <1>17, Zenon DEF xs, ys
  <2>3. row.counts = [c \in RowCounters |-> Tally(L, e, c, Y, O, first..last)]
    BY <1>11, <1>17, Zenon
  <2>4. Y = InsOf(L, Fin(e, h - 1) + 1, Fin(e, h)) /\ O = OutsOf(L, Fin(e, h - 1) + 1, Fin(e, h))
    BY <1>1, <1>2, Zenon
  <2> HIDE DEF Y, O
  <2> QED BY <1>1, <1>2, <2>1, <2>2, <2>3, <2>4, Zenon DEF RowOk
<1> QED BY <1>16, <1>18 DEF h

\* A row stays right when another block follows.
LEMMA OldRow ==
  ASSUME NEW L, LedgerOk(L), NEW d, NEW e, EndsStep(L, d, e), NEW h \in 1..Len(d), NEW row, RowOk(L, d, h, row)
  PROVE  RowOk(L, e, h, row)
<1> DEFINE first == Fin(d, h - 1) + 1
           last == Fin(d, h)
           X == InsOf(L, first, last)
           O == OutsOf(L, first, last)
           Z == first..last
<1>1. L \in Seq(Tx) /\ Ins(L) \in Seq(Nat) /\ Len(d) \in Nat
  BY LedgerTyped DEF LedgerOk, EndsStep
<1>2. /\ Fin(e, h) = last /\ Fin(e, h - 1) = Fin(d, h - 1) /\ last \in Nat /\ last <= Fin(d, Len(d))
      /\ Fin(d, Len(d)) \in Nat
  <2>1. h - 1 \in 0..Len(d) /\ h \in 0..Len(d)
    BY <1>1
  <2> QED BY <2>1 DEF EndsStep
<1>3. HashOf(L, e, h) = HashOf(L, d, h)
  <2>1. FirstKept(h) - 1 \in 0..Len(d)
    <3>1. h \in Nat /\ h <= Len(d)
      BY <1>1
    <3>2. FirstKept(h) \in 1..(h + 1)
      BY <3>1, Kept
    <3> QED BY <1>1, <3>1, <3>2
  <2>2. Fin(e, FirstKept(h) - 1) = Fin(d, FirstKept(h) - 1)
    BY <2>1 DEF EndsStep
  <2> QED BY <1>2, <2>2, Zenon DEF HashOf
<1>4. \A x \in X : x \in Cells(Ins(L)) /\ x[1] <= Fin(d, Len(d))
  <2> SUFFICES ASSUME NEW x \in X PROVE x \in Cells(Ins(L)) /\ x[1] <= Fin(d, Len(d))
    OBVIOUS
  <2>1. x \in Cells(Ins(L)) /\ x[1] <= last
    <3> HIDE DEF first, last
    <3> QED BY <1>1, <1>2, RowCells DEF InsOf
  <2>2. x[1] \in Nat
    BY <1>1, <2>1, CellTyped
  <2> QED BY <1>2, <2>1, <2>2
<1>5. row.counts = [c \in RowCounters |-> Tally(L, d, c, X, O, Z)]
  BY Zenon DEF RowOk
<1>6. /\ row.last_global_id = Rank(L, <<last + 1, 1>>) /\ row.utxo_hash = HashOf(L, d, h)
      /\ UidsOk(L, Outpoints(L, X), row.spent_uids) /\ UidsOk(L, P2trOf(L, Outpoints(L, X)), row.p2tr_spent_uids)
  BY Zenon DEF RowOk
<1> HIDE DEF X, O, Z
<1>7. \A c : Tally(L, e, c, X, O, Z) = Tally(L, d, c, X, O, Z)
  BY <1>4, OldTally
<1>8. row.counts = [c \in RowCounters |-> Tally(L, e, c, X, O, Z)]
  BY <1>5, <1>7
<1> QED BY <1>2, <1>3, <1>6, <1>8, Zenon DEF RowOk, X, O, Z

\* ScanBlock keeps the invariant.
LEMMA ScanKeeps ==
  ASSUME ScannerInv, ScanBlock
  PROVE  ScannerInv'
<1> DEFINE first == Fin(ends, Len(ends)) + 1
           txs == SubSeq(ledger, first, Len(ledger))
           acc == ApplyTxs(state, first, txs)
           after == [acc EXCEPT !.state = FinalizeBlock(@)]
           h == Len(ends) + 1
           row == RowOf(h, h, state, after)
<1>1. /\ LedgerOk(ledger) /\ EndsOk(ledger, ends) /\ StateOk(ledger, ends, state)
      /\ rows \in Seq(Row) /\ Len(rows) = Len(ends)
      /\ \A k \in 1..Len(ends) : RowOk(ledger, ends, k, rows[k])
  BY DEF ScannerInv
<1>2. End(Len(ends)) = Fin(ends, Len(ends))
  BY DEF End, Fin
<1>3. /\ Len(ledger) > Fin(ends, Len(ends))
      /\ state' = after.state /\ rows' = Append(rows, row)
      /\ ends' = Append(ends, Len(ledger)) /\ ledger' = ledger
  BY <1>2, Zenon DEF ScanBlock, ApplyBlock
<1>4. ledger \in Seq(Tx)
  BY <1>1 DEF LedgerOk
<1>5. EndsStep(ledger, ends, ends')
  BY <1>1, <1>3, <1>4, EndsAppend
<1>6. AtTx(ledger, ends', first, state, acc, Len(ledger) + 1)
  <2> DEFINE e == ends'
  <2>1. EndsStep(ledger, ends, e)
    BY <1>5
  <2> HIDE DEF e
  <2>2. AtTx(ledger, e, first, state, acc, Len(ledger) + 1)
    BY <1>1, <2>1, BlockLoop
  <2> QED BY <2>2 DEF e
<1> HIDE DEF acc
<1>7. DOMAIN acc = {"state", "block"}
  BY <1>6 DEF AtTx, AccOk
<1>8. state' = FinalizeBlock(acc.state) /\ after = [acc EXCEPT !.state = state']
  BY <1>3, <1>7
<1> HIDE DEF after
<1>9. StateOk(ledger, ends', state') /\ Finalized(acc.state, state')
  BY <1>1, <1>5, <1>6, <1>8, NextState
<1>10. Len(ends') = Len(ends) + 1 /\ Len(ends) \in Nat /\ EndsOk(ledger, ends')
  BY <1>5 DEF EndsStep
<1>11. RowOk(ledger, ends', Len(ends'), row) /\ row \in Row
  <2>1. row = RowOf(Len(ends'), Len(ends'), state, after)
    BY <1>10
  <2> HIDE DEF row
  <2> QED BY <1>1, <1>5, <1>6, <1>8, <1>9, <2>1, NextRowOk
<1> HIDE DEF row
<1>12. /\ rows' \in Seq(Row) /\ Len(rows') = Len(ends')
       /\ rows'[Len(ends')] = row /\ \A k \in 1..Len(ends) : rows'[k] = rows[k]
  BY <1>1, <1>3, <1>10, <1>11
<1>13. ASSUME NEW k \in 1..Len(ends') PROVE RowOk(ledger, ends', k, rows'[k])
  <2>1. k \in 1..Len(ends) \/ k = Len(ends')
    BY <1>10
  <2>2. CASE k \in 1..Len(ends)
    <3>1. RowOk(ledger, ends, k, rows[k])
      BY <1>1, <2>2
    <3>2. RowOk(ledger, ends', k, rows[k])
      BY <1>1, <1>5, <2>2, <3>1, OldRow
    <3> QED BY <1>12, <2>2, <3>2
  <2>3. CASE k = Len(ends')
    BY <1>11, <1>12, <2>3, Zenon
  <2> QED BY <2>1, <2>2, <2>3
<1> QED BY <1>1, <1>3, <1>9, <1>10, <1>12, <1>13, Zenon DEF ScannerInv

-----------------------------------------------------------------------------
(* A longer ledger.                                                        *)

LedgerStep(L, M) ==
    /\ L \in Seq(Tx) /\ M \in Seq(Tx) /\ Len(M) = Len(L) + 1 /\ Len(L) \in Nat
    /\ \A t \in 1..Len(L) : M[t] = L[t]

\* The places of the first n rows.
Old(n, p) == p \in Nat \X Nat /\ (p[1] <= n \/ p = <<n + 1, 1>>)

\* One row more leaves the cells of the others alone.
LEMMA OldCells ==
  ASSUME NEW W \in Seq(Nat), NEW V \in Seq(Nat), Len(V) = Len(W) + 1, \A t \in 1..Len(W) : V[t] = W[t]
  PROVE  /\ \A q \in Cells(W) : q \in Cells(V) /\ Old(Len(W), q)
         /\ \A q \in Cells(V) : q[1] <= Len(W) => q \in Cells(W)
         /\ \A a, p : Old(Len(W), p) => To(V, a, p) = To(W, a, p)
<1> DEFINE n == Len(W)
<1>1. n \in Nat /\ DOMAIN W = 1..n /\ DOMAIN V = 1..(n + 1)
  OBVIOUS
<1> HIDE DEF n
<1>2. ASSUME NEW q \in Cells(W) PROVE q \in Cells(V) /\ Old(n, q)
  <2>1. q[1] \in 1..n /\ q[1] \in Nat /\ q[2] \in 1..W[q[1]] /\ q = <<q[1], q[2]>> /\ q \in Nat \X Nat
    BY CellTyped DEF n
  <2>2. q[1] \in DOMAIN V /\ q[2] \in 1..V[q[1]] /\ q[1] <= n
    BY <1>1, <2>1 DEF n
  <2>3. \E t \in DOMAIN V : \E v \in 1..V[t] : q = <<t, v>>
    BY <2>1, <2>2, Zenon
  <2>4. q \in Cells(V)
    BY <2>3, CellTyped
  <2> QED BY <2>1, <2>2, <2>4 DEF Old
<1>3. ASSUME NEW q \in Cells(V), q[1] <= n PROVE q \in Cells(W)
  <2>1. q[1] \in Nat \ {0} /\ q[2] \in 1..V[q[1]] /\ q = <<q[1], q[2]>>
    BY CellTyped
  <2>2. q[1] \in 1..n
    BY <1>1, <1>3, <2>1
  <2>3. q[1] \in DOMAIN W /\ q[2] \in 1..W[q[1]]
    BY <1>1, <2>1, <2>2 DEF n
  <2>4. \E t \in DOMAIN W : \E v \in 1..W[t] : q = <<t, v>>
    BY <2>1, <2>3, Zenon
  <2> QED BY <2>4, CellTyped
<1>4. ASSUME NEW a, NEW p, Old(n, p) PROVE To(V, a, p) = To(W, a, p)
  <2>1. \A q \in Cells(V) : q[1] \in Nat /\ q[2] \in Nat \ {0}
    BY CellTyped
  <2>2. \A q \in Cells(V) : Before(q, p) => q[1] <= n
    BY <1>1, <1>4, <2>1 DEF Before, Old
  <2> QED BY <1>2, <1>3, <2>2 DEF To
<1> QED BY <1>2, <1>3, <1>4 DEF n

\* L within a longer ledger M.
Extends(L, M) ==
    /\ LedgerOk(L) /\ L \in Seq(Tx) /\ M \in Seq(Tx) /\ Len(L) \in Nat /\ Len(M) = Len(L) + 1
    /\ \A t \in 1..Len(L) : M[t] = L[t]
    /\ \A q \in Cells(Outs(L)) : q \in Cells(Outs(M)) /\ Old(Len(L), q) /\ Kind(M, q) = Kind(L, q)
    /\ \A q \in Cells(Outs(M)) : q[1] <= Len(L) => q \in Cells(Outs(L))
    /\ \A x \in Cells(Ins(L)) : x \in Cells(Ins(M)) /\ Prev(M, x) = Prev(L, x) /\ Path(M, x) = Path(L, x)
    /\ \A x \in Cells(Ins(M)) : x[1] <= Len(L) => x \in Cells(Ins(L))
    /\ \A a, p : Old(Len(L), p) => To(Outs(M), a, p) = To(Outs(L), a, p) /\ To(Ins(M), a, p) = To(Ins(L), a, p)
    /\ \A p : Old(Len(L), p) => Rank(M, p) = Rank(L, p)
    /\ \A q \in Cells(Outs(L)) : Id(M, q) = Id(L, q)

LEMMA LedgerExtends ==
  ASSUME NEW L, LedgerOk(L), NEW M, LedgerStep(L, M)
  PROVE  Extends(L, M)
<1>1. /\ L \in Seq(Tx) /\ M \in Seq(Tx) /\ Len(M) = Len(L) + 1 /\ Len(L) \in Nat
      /\ \A t \in 1..Len(L) : M[t] = L[t]
  BY DEF LedgerStep
<1>2. /\ Outs(L) \in Seq(Nat) /\ Outs(M) \in Seq(Nat) /\ Len(Outs(L)) = Len(L) /\ Len(Outs(M)) = Len(M)
      /\ Ins(L) \in Seq(Nat) /\ Ins(M) \in Seq(Nat) /\ Len(Ins(L)) = Len(L) /\ Len(Ins(M)) = Len(M)
      /\ DOMAIN L = 1..Len(L) /\ DOMAIN M = 1..Len(M)
  BY <1>1, LedgerTyped
<1>3. \A t \in 1..Len(L) : t \in DOMAIN M /\ t \in DOMAIN L
  BY <1>1, <1>2
<1>4. \A t \in 1..Len(L) : Outs(M)[t] = Outs(L)[t] /\ Ins(M)[t] = Ins(L)[t]
  BY <1>1, <1>3 DEF Outs, Ins
<1>5. /\ \A q \in Cells(Outs(L)) : q \in Cells(Outs(M)) /\ Old(Len(L), q)
      /\ \A q \in Cells(Outs(M)) : q[1] <= Len(L) => q \in Cells(Outs(L))
      /\ \A a, p : Old(Len(L), p) => To(Outs(M), a, p) = To(Outs(L), a, p)
  <2> DEFINE W == Outs(L)
             V == Outs(M)
  <2>1. W \in Seq(Nat) /\ V \in Seq(Nat) /\ Len(V) = Len(W) + 1 /\ Len(W) = Len(L) /\ \A t \in 1..Len(W) : V[t] = W[t]
    BY <1>1, <1>2, <1>4
  <2> HIDE DEF W, V
  <2>2. /\ \A q \in Cells(W) : q \in Cells(V) /\ Old(Len(W), q)
        /\ \A q \in Cells(V) : q[1] <= Len(W) => q \in Cells(W)
        /\ \A a, p : Old(Len(W), p) => To(V, a, p) = To(W, a, p)
    BY <2>1, OldCells
  <2> QED BY <2>1, <2>2 DEF W, V
<1>6. /\ \A q \in Cells(Ins(L)) : q \in Cells(Ins(M))
      /\ \A q \in Cells(Ins(M)) : q[1] <= Len(L) => q \in Cells(Ins(L))
      /\ \A a, p : Old(Len(L), p) => To(Ins(M), a, p) = To(Ins(L), a, p)
  <2> DEFINE W == Ins(L)
             V == Ins(M)
  <2>1. W \in Seq(Nat) /\ V \in Seq(Nat) /\ Len(V) = Len(W) + 1 /\ Len(W) = Len(L) /\ \A t \in 1..Len(W) : V[t] = W[t]
    BY <1>1, <1>2, <1>4
  <2> HIDE DEF W, V
  <2>2. /\ \A q \in Cells(W) : q \in Cells(V) /\ Old(Len(W), q)
        /\ \A q \in Cells(V) : q[1] <= Len(W) => q \in Cells(W)
        /\ \A a, p : Old(Len(W), p) => To(V, a, p) = To(W, a, p)
    BY <2>1, OldCells
  <2> QED BY <2>1, <2>2 DEF W, V
<1>7. \A q \in Cells(Outs(L)) : M[q[1]] = L[q[1]]
  BY <1>1, <1>2, CellTyped
<1>8. \A q \in Cells(Ins(L)) : M[q[1]] = L[q[1]]
  BY <1>1, <1>2, CellTyped
<1>9. \A q \in Cells(Outs(L)) : Kind(M, q) = Kind(L, q)
  BY <1>7 DEF Kind
<1>10. \A x \in Cells(Ins(L)) : Prev(M, x) = Prev(L, x) /\ Path(M, x) = Path(L, x)
  BY <1>8 DEF Prev, Path
<1>11. \A p : Old(Len(L), p) => Rank(M, p) = Rank(L, p)
  BY <1>5, Zenon DEF Rank
<1>12. \A q \in Cells(Outs(L)) : Id(M, q) = Id(L, q)
  BY <1>5, <1>11, Zenon DEF Id
<1> QED BY <1>1, <1>5, <1>6, <1>9, <1>10, <1>11, <1>12, Zenon DEF Extends

\* What the counters and the lists are made of stays as it is.
LEMMA OldSpends ==
  ASSUME NEW L, NEW M, Extends(L, M), NEW X, X \subseteq Cells(Ins(L))
  PROVE  /\ Known(M, X) = Known(L, X) /\ Unknown(M, X) = Unknown(L, X) /\ Outpoints(M, X) = Outpoints(L, X)
         /\ Outpoints(L, X) \subseteq Cells(Outs(L))
<1>1. LedgerOk(L) /\ \A x \in X : Prev(M, x) = Prev(L, x)
  BY DEF Extends
<1>2. Known(M, X) = Known(L, X) /\ Unknown(M, X) = Unknown(L, X)
  BY <1>1 DEF Known, Unknown
<1>3. \A x \in Known(L, X) : Prev(M, x) = Prev(L, x)
  BY <1>1 DEF Known
<1>4. Outpoints(M, X) = Outpoints(L, X)
  BY <1>2, <1>3 DEF Outpoints
<1> QED BY <1>1, <1>2, <1>4, SpentCells

LEMMA OldIds ==
  ASSUME NEW L, NEW M, Extends(L, M), NEW O, O \subseteq Cells(Outs(L))
  PROVE  /\ {Id(M, o) : o \in O} = {Id(L, o) : o \in O}
         /\ {Kind(M, o) : o \in O} = {Kind(L, o) : o \in O}
         /\ P2trOf(M, O) = P2trOf(L, O)
         /\ \A xs : UidsOk(L, O, xs) => UidsOk(M, O, xs)
<1>1. \A o \in O : Id(M, o) = Id(L, o) /\ Kind(M, o) = Kind(L, o)
  BY DEF Extends
<1>2. {Id(M, o) : o \in O} = {Id(L, o) : o \in O} /\ {Kind(M, o) : o \in O} = {Kind(L, o) : o \in O}
  BY <1>1
<1>3. P2trOf(M, O) = P2trOf(L, O)
  BY <1>1 DEF P2trOf
<1>4. \A xs : UidsOk(L, O, xs) => UidsOk(M, O, xs)
  BY <1>2, Zenon DEF UidsOk
<1> QED BY <1>2, <1>3, <1>4

LEMMA OldEvents ==
  ASSUME NEW L, NEW M, Extends(L, M), NEW O, O \subseteq Cells(Outs(L)), NEW S, S \subseteq Cells(Outs(L))
  PROVE  Events(M, O, S) = Events(L, O, S)
<1>1. (\A o \in O : Id(M, o) = Id(L, o)) /\ (\A o \in S : Id(M, o) = Id(L, o))
  BY DEF Extends
<1>2. {<<"add", Id(M, o)>> : o \in O} = {<<"add", Id(L, o)>> : o \in O}
  BY <1>1
<1>3. {<<"rem", Id(M, o)>> : o \in S} = {<<"rem", Id(L, o)>> : o \in S}
  BY <1>1
<1> QED BY <1>2, <1>3, Zenon DEF Events

LEMMA OldCounters ==
  ASSUME NEW L, NEW M, Extends(L, M)
  PROVE  /\ \A e : \A x \in Cells(Ins(L)) : InputCounters(M, e, x) = InputCounters(L, e, x)
         /\ \A o \in Cells(Outs(L)) : CountersOf(M, o) = CountersOf(L, o)
         /\ \A t \in 1..Len(L) : TxCounters(M, t) = TxCounters(L, t)
<1>1. /\ LedgerOk(L) /\ L \in Seq(Tx) /\ Len(L) \in Nat
      /\ \A t \in 1..Len(L) : M[t] = L[t]
      /\ \A q \in Cells(Outs(L)) : Old(Len(L), q) /\ Kind(M, q) = Kind(L, q)
      /\ \A x \in Cells(Ins(L)) : Prev(M, x) = Prev(L, x) /\ Path(M, x) = Path(L, x)
      /\ \A a, p : Old(Len(L), p) => To(Outs(M), a, p) = To(Outs(L), a, p)
  BY DEF Extends
<1>2. \A x \in Cells(Ins(L)) : Prev(L, x) \notin PreScan => Kind(M, Prev(L, x)) = Kind(L, Prev(L, x))
  BY <1>1 DEF LedgerOk
<1>3. ASSUME NEW e, NEW x \in Cells(Ins(L)) PROVE InputCounters(M, e, x) = InputCounters(L, e, x)
  <2>1. Prev(M, x) = Prev(L, x) /\ Path(M, x) = Path(L, x)
    BY <1>1
  <2>2. Same(M, e, x) <=> Same(L, e, x)
    BY <2>1, Zenon DEF Same
  <2>3. CASE Prev(L, x) \in PreScan
    BY <2>1, <2>3, Zenon DEF InputCounters
  <2>4. CASE Prev(L, x) \notin PreScan
    <3>1. Kind(M, Prev(M, x)) = Kind(L, Prev(L, x))
      BY <1>2, <2>1, <2>4
    <3> QED BY <2>1, <2>2, <2>4, <3>1, Zenon DEF InputCounters
  <2> QED BY <2>3, <2>4
<1>4. ASSUME NEW t \in 1..Len(L) PROVE NumsOnly(M, t) <=> NumsOnly(L, t)
  <2>1. M[t] = L[t] /\ t \in DOMAIN L
    BY <1>1
  <2>2. ASSUME NEW i \in DOMAIN L[t].inputs PROVE <<t, i>> \in Cells(Ins(L))
    <3>1. Ins(L) \in Seq(Nat) /\ t \in DOMAIN Ins(L) /\ i \in 1..Ins(L)[t]
      BY <1>1, <2>1, LedgerTyped
    <3> QED BY <3>1, CellTyped
  <2>3. \A i \in DOMAIN L[t].inputs :
           /\ Prev(M, <<t, i>>) = Prev(L, <<t, i>>) /\ Path(M, <<t, i>>) = Path(L, <<t, i>>)
           /\ Prev(L, <<t, i>>) \notin PreScan => Kind(M, Prev(L, <<t, i>>)) = Kind(L, Prev(L, <<t, i>>))
    BY <1>1, <1>2, <2>2
  <2> QED BY <2>1, <2>3, Zenon DEF NumsOnly
<1>5. ASSUME NEW o \in Cells(Outs(L)) PROVE CountersOf(M, o) = CountersOf(L, o)
  <2>1. o[1] \in 1..Len(L)
    BY <1>1, LedgerTyped, CellTyped
  <2>2. To(Outs(M), 1, o) = To(Outs(L), 1, o) /\ Kind(M, o) = Kind(L, o)
    BY <1>1
  <2>3. \A q \in To(Outs(L), 1, o) : Kind(M, q) = Kind(L, q)
    BY <1>1 DEF To
  <2>4. SeenBefore(M, o) <=> SeenBefore(L, o)
    BY <2>2, <2>3, Zenon DEF SeenBefore
  <2>5. NumsOnly(M, o[1]) <=> NumsOnly(L, o[1])
    BY <1>4, <2>1
  <2> QED BY <2>2, <2>4, <2>5 DEF CountersOf, OutputCounters
<1>6. \A t \in 1..Len(L) : TxCounters(M, t) = TxCounters(L, t)
  BY <1>4 DEF TxCounters
<1> QED BY <1>3, <1>5, <1>6

LEMMA OldTallies ==
  ASSUME NEW L, NEW M, Extends(L, M), NEW X, X \subseteq Cells(Ins(L)), NEW O, O \subseteq Cells(Outs(L)),
         NEW Z, \A t \in Z : t \in 1..Len(L), NEW e, NEW c
  PROVE  Tally(M, e, c, X, O, Z) = Tally(L, e, c, X, O, Z)
<1>1. /\ \A x \in X : InputCounters(M, e, x) = InputCounters(L, e, x)
      /\ \A o \in O : CountersOf(M, o) = CountersOf(L, o)
      /\ \A t \in Z : TxCounters(M, t) = TxCounters(L, t)
  BY OldCounters
<1>2. /\ {x \in X : c \in InputCounters(M, e, x)} = {x \in X : c \in InputCounters(L, e, x)}
      /\ {o \in O : c \in CountersOf(M, o)} = {o \in O : c \in CountersOf(L, o)}
      /\ {t \in Z : c \in TxCounters(M, t)} = {t \in Z : c \in TxCounters(L, t)}
  BY <1>1
<1> QED BY <1>2, Zenon DEF Tally

\* The places after a transaction of L are old.
LEMMA OldRows ==
  ASSUME NEW L, NEW M, Extends(L, M), NEW b \in Nat, b <= Len(L)
  PROVE  /\ Old(Len(L), <<b + 1, 1>>) /\ Rank(M, <<b + 1, 1>>) = Rank(L, <<b + 1, 1>>)
         /\ \A a : /\ OutsOf(M, a, b) = OutsOf(L, a, b) /\ OutsOf(L, a, b) \subseteq Cells(Outs(L))
                   /\ InsOf(M, a, b) = InsOf(L, a, b) /\ InsOf(L, a, b) \subseteq Cells(Ins(L))
                   /\ EventsOf(M, a, b) = EventsOf(L, a, b)
<1> DEFINE p == <<b + 1, 1>>
<1>1. /\ Len(L) \in Nat
      /\ \A a, q : Old(Len(L), q) => To(Outs(M), a, q) = To(Outs(L), a, q) /\ To(Ins(M), a, q) = To(Ins(L), a, q)
      /\ \A q : Old(Len(L), q) => Rank(M, q) = Rank(L, q)
  BY DEF Extends
<1>2. Old(Len(L), p)
  <2>1. b + 1 <= Len(L) \/ b = Len(L)
    BY <1>1
  <2>2. p \in Nat \X Nat /\ p[1] = b + 1
    OBVIOUS
  <2> QED BY <2>1, <2>2 DEF Old
<1>3. Rank(M, p) = Rank(L, p)
  BY <1>1, <1>2
<1>4. ASSUME NEW a
      PROVE  /\ OutsOf(M, a, b) = OutsOf(L, a, b) /\ OutsOf(L, a, b) \subseteq Cells(Outs(L))
             /\ InsOf(M, a, b) = InsOf(L, a, b) /\ InsOf(L, a, b) \subseteq Cells(Ins(L))
             /\ EventsOf(M, a, b) = EventsOf(L, a, b)
  <2>1. OutsOf(M, a, b) = OutsOf(L, a, b) /\ InsOf(M, a, b) = InsOf(L, a, b)
    BY <1>1, <1>2, Zenon DEF OutsOf, InsOf
  <2>2. OutsOf(L, a, b) \subseteq Cells(Outs(L)) /\ InsOf(L, a, b) \subseteq Cells(Ins(L))
    BY DEF OutsOf, InsOf, To
  <2> DEFINE O == OutsOf(L, a, b)
             X == InsOf(L, a, b)
             S == Outpoints(L, X)
  <2>3. O \subseteq Cells(Outs(L)) /\ X \subseteq Cells(Ins(L))
    BY <2>2
  <2> HIDE DEF O, X
  <2>4. Outpoints(M, X) = S /\ S \subseteq Cells(Outs(L))
    BY <2>3, OldSpends
  <2> HIDE DEF S
  <2>5. Events(M, O, S) = Events(L, O, S)
    BY <2>3, <2>4, OldEvents
  <2>6. EventsOf(M, a, b) = EventsOf(L, a, b)
    BY <2>1, <2>4, <2>5, Zenon DEF EventsOf, O, X, S
  <2> QED BY <2>1, <2>2, <2>6
<1> QED BY <1>2, <1>3, <1>4

\* The state and the rows fit a longer ledger too.
LEMMA OldState ==
  ASSUME NEW L, NEW M, Extends(L, M), NEW e, EndsOk(L, e), NEW s, StateOk(L, e, s)
  PROVE  EndsOk(M, e) /\ StateOk(M, e, s)
<1> DEFINE last == Fin(e, Len(e))
           p == <<last + 1, 1>>
           X == InsOf(L, 1, last)
           O == OutsOf(L, 1, last)
           Z == 1..last
<1>1. L \in Seq(Tx) /\ M \in Seq(Tx) /\ Len(L) \in Nat /\ Len(M) = Len(L) + 1
  BY DEF Extends
<1>2. e \in Seq(Nat) /\ Len(e) \in Nat /\ \A h \in 1..Len(e) : 1 <= e[h] /\ e[h] <= Len(L)
  BY DEF EndsOk
<1>3. \A h \in 1..Len(e) : 1 <= e[h] /\ e[h] <= Len(M)
  <2>1. \A h \in 1..Len(e) : e[h] \in Nat
    BY <1>2
  <2> QED BY <1>1, <1>2, <2>1
<1>4. EndsOk(M, e)
  BY <1>3, Zenon DEF EndsOk
<1>5. \A h \in 0..Len(e) : Fin(e, h) \in Nat /\ Fin(e, h) <= Len(L)
  BY <1>1, FinGrows
<1>6. last \in Nat /\ last <= Len(L)
  <2>1. Len(e) \in 0..Len(e)
    BY <1>2
  <2> QED BY <1>5, <2>1
<1>7. \A h \in 0..Len(e) : \A a : EventsOf(M, a, Fin(e, h)) = EventsOf(L, a, Fin(e, h))
  <2> SUFFICES ASSUME NEW h \in 0..Len(e), NEW a PROVE EventsOf(M, a, Fin(e, h)) = EventsOf(L, a, Fin(e, h))
    OBVIOUS
  <2>1. Fin(e, h) \in Nat /\ Fin(e, h) <= Len(L)
    BY <1>5
  <2>2. \A b \in Nat : b <= Len(L) => EventsOf(M, a, b) = EventsOf(L, a, b)
    BY OldRows
  <2> QED BY <2>1, <2>2, Zenon
<1>8. WindowPart(M, e, s)
  <2> DEFINE n == Len(e)
             f == FirstKept(n)
  <2>1. WindowPart(L, e, s)
    BY DEF StateOk
  <2>2. HashOf(M, e, n) = HashOf(L, e, n)
    <3>1. n \in 0..n
      BY <1>2
    <3> QED BY <1>7, <3>1, Zenon DEF HashOf
  <2>3. Len(s.window) = n + 1 - f /\ f \in 1..(n + 1)
    <3>1. f \in 1..(n + 1)
      BY <1>2, Kept
    <3> QED BY <2>1, <3>1 DEF WindowPart
  <2>4. \A i \in 1..Len(s.window) : f + i - 1 \in 0..n
    <3> HIDE DEF n, f
    <3>1. n \in Nat
      BY <1>2 DEF n
    <3> QED BY <2>3, <3>1
  <2>5. \A i \in 1..Len(s.window) : \A a : EventsOf(M, a, Fin(e, f + i - 1)) = EventsOf(L, a, Fin(e, f + i - 1))
    BY <1>7, <2>4, Zenon
  <2> QED BY <2>1, <2>2, <2>5, Zenon DEF WindowPart
<1>9. /\ DOMAIN s = StateFields /\ UtxoPart(L, s, X, p)
      /\ s.stats = [c \in RunCounters |-> Tally(L, e, c, X, O, Z)]
  BY Zenon DEF StateOk
<1> HIDE DEF last
<1>10. /\ InsOf(M, 1, last) = X /\ OutsOf(M, 1, last) = O /\ X \subseteq Cells(Ins(L)) /\ O \subseteq Cells(Outs(L))
       /\ Rank(M, p) = Rank(L, p)
  BY <1>6, OldRows
<1>11. \A t \in Z : t \in 1..Len(L)
  BY <1>1, <1>6
<1> HIDE DEF X, Z
<1>12. \A c : Tally(M, e, c, X, O, Z) = Tally(L, e, c, X, O, Z)
  <2> HIDE DEF O
  <2>1. X \subseteq Cells(Ins(L)) /\ O \subseteq Cells(Outs(L))
    BY <1>10
  <2> QED BY <1>11, <2>1, OldTallies
<1>13. s.stats = [c \in RunCounters |-> Tally(M, e, c, X, O, Z)]
  <2> HIDE DEF O
  <2> QED BY <1>9, <1>12
<1>14. UtxoPart(M, s, X, p)
  <2>1. /\ DOMAIN s.utxo = O \ Outpoints(L, X)
        /\ \A o \in DOMAIN s.utxo : s.utxo[o] = [id |-> Id(L, o), kind |-> Kind(L, o)]
        /\ s.last_id = Rank(L, p) /\ s.missing = Cardinality(Unknown(L, X))
        /\ s.seen = {Kind(L, o) : o \in O} \ {Other}
    BY <1>9, Zenon DEF UtxoPart, OutsOf
  <2>2. To(Outs(M), 1, p) = O
    BY <1>10 DEF OutsOf
  <2> HIDE DEF O
  <2>3. Unknown(M, X) = Unknown(L, X) /\ Outpoints(M, X) = Outpoints(L, X)
    BY <1>10, OldSpends
  <2>4. {Kind(M, o) : o \in O} = {Kind(L, o) : o \in O}
    BY <1>10, OldIds
  <2>5. \A o \in O : Id(M, o) = Id(L, o) /\ Kind(M, o) = Kind(L, o)
    BY <1>10 DEF Extends
  <2>6. \A o \in DOMAIN s.utxo : s.utxo[o] = [id |-> Id(M, o), kind |-> Kind(M, o)]
    BY <2>1, <2>5
  <2> QED BY <1>10, <2>1, <2>2, <2>3, <2>4, <2>6, Zenon DEF UtxoPart
<1>15. StateOk(M, e, s)
  BY <1>8, <1>9, <1>10, <1>13, <1>14, Zenon DEF StateOk, last, X, Z
<1> QED BY <1>4, <1>15

LEMMA OldRowOk ==
  ASSUME NEW L, NEW M, Extends(L, M), NEW e, EndsOk(L, e), NEW h \in 1..Len(e), NEW row, RowOk(L, e, h, row)
  PROVE  RowOk(M, e, h, row)
<1> DEFINE first == Fin(e, h - 1) + 1
           last == Fin(e, h)
           p == <<last + 1, 1>>
           X == InsOf(L, first, last)
           O == OutsOf(L, first, last)
           S == Outpoints(L, X)
           Z == first..last
<1>1. L \in Seq(Tx) /\ Len(L) \in Nat /\ Len(e) \in Nat
  BY DEF Extends, EndsOk
<1>2. h \in 0..Len(e) /\ h - 1 \in 0..Len(e)
  BY <1>1
<1>3. last \in Nat /\ last <= Len(L) /\ first \in Nat /\ 1 <= first
  <2>1. Fin(e, h - 1) \in Nat /\ last \in Nat /\ last <= Len(L)
    BY <1>1, <1>2, FinGrows
  <2> QED BY <2>1
<1>4. /\ row.last_global_id = Rank(L, p) /\ row.utxo_hash = HashOf(L, e, h)
      /\ UidsOk(L, S, row.spent_uids) /\ UidsOk(L, P2trOf(L, S), row.p2tr_spent_uids)
      /\ row.counts = [c \in RowCounters |-> Tally(L, e, c, X, O, Z)]
  BY Zenon DEF RowOk
<1> HIDE DEF first, last
<1>5. /\ InsOf(M, first, last) = X /\ OutsOf(M, first, last) = O
      /\ X \subseteq Cells(Ins(L)) /\ O \subseteq Cells(Outs(L)) /\ Rank(M, p) = Rank(L, p)
      /\ \A a : EventsOf(M, a, last) = EventsOf(L, a, last)
  BY <1>3, OldRows
<1>6. HashOf(M, e, h) = HashOf(L, e, h)
  BY <1>5, Zenon DEF HashOf, last
<1>7. \A t \in Z : t \in 1..Len(L)
  BY <1>1, <1>3
<1> HIDE DEF X, O, Z
<1>8. Outpoints(M, X) = S /\ S \subseteq Cells(Outs(L))
  BY <1>5, OldSpends
<1> HIDE DEF S
<1>9. P2trOf(M, S) = P2trOf(L, S) /\ \A xs : UidsOk(L, S, xs) => UidsOk(M, S, xs)
  BY <1>8, OldIds
<1>10. \A xs : UidsOk(L, P2trOf(L, S), xs) => UidsOk(M, P2trOf(L, S), xs)
  <2> DEFINE P == P2trOf(L, S)
  <2>1. P \subseteq Cells(Outs(L))
    BY <1>8 DEF P2trOf
  <2> HIDE DEF P
  <2>2. \A xs : UidsOk(L, P, xs) => UidsOk(M, P, xs)
    BY <2>1, OldIds
  <2> QED BY <2>2 DEF P
<1>11. \A c : Tally(M, e, c, X, O, Z) = Tally(L, e, c, X, O, Z)
  <2>1. X \subseteq Cells(Ins(L)) /\ O \subseteq Cells(Outs(L))
    BY <1>5
  <2> QED BY <1>7, <2>1, OldTallies
<1>12. row.counts = [c \in RowCounters |-> Tally(M, e, c, X, O, Z)]
  BY <1>4, <1>11
<1>13. /\ UidsOk(M, Outpoints(M, InsOf(M, first, last)), row.spent_uids)
       /\ UidsOk(M, P2trOf(M, Outpoints(M, InsOf(M, first, last))), row.p2tr_spent_uids)
  BY <1>4, <1>5, <1>8, <1>9, <1>10, Zenon
<1> QED BY <1>4, <1>5, <1>6, <1>12, <1>13, Zenon DEF RowOk, first, last, Z

\* A transaction that spends unspent outputs, each once, keeps the ledger right.
LEMMA LedgerGrows ==
  ASSUME NEW L, LedgerOk(L), NEW x \in Tx, NEW M, M = Append(L, x), x.coinbase => x.inputs = << >>,
         \A i \in DOMAIN x.inputs : x.inputs[i].prev \in (PreScan \cup Created(L)) \ Spent(L),
         \A i, j \in DOMAIN x.inputs : x.inputs[i].prev = x.inputs[j].prev => i = j
  PROVE  LedgerOk(M) /\ LedgerStep(L, M)
<1>1. L \in Seq(Tx)
  BY DEF LedgerOk
<1> DEFINE n == Len(L) + 1
<1>2. /\ M \in Seq(Tx) /\ Len(M) = Len(L) + 1 /\ Len(L) \in Nat /\ M[n] = x
      /\ \A t \in 1..Len(L) : M[t] = L[t]
  BY <1>1
<1>3. LedgerStep(L, M)
  BY <1>1, <1>2, Zenon DEF LedgerStep
<1>4. Extends(L, M)
  BY <1>3, LedgerExtends
<1>5. /\ \A q \in Cells(Outs(L)) : q \in Cells(Outs(M))
      /\ \A y \in Cells(Ins(L)) : Prev(M, y) = Prev(L, y)
      /\ \A y \in Cells(Ins(M)) : y[1] <= Len(L) => y \in Cells(Ins(L))
  BY <1>4 DEF Extends
<1>6. n \in Nat /\ Len(L) \in Nat /\ DOMAIN L = 1..Len(L) /\ \A t \in DOMAIN M : t \in DOMAIN L \/ t = n
  BY <1>1, <1>2
<1>7. \A t \in DOMAIN M : M[t].coinbase => M[t].inputs = << >>
  <2> SUFFICES ASSUME NEW t \in DOMAIN M, M[t].coinbase PROVE M[t].inputs = << >>
    OBVIOUS
  <2>1. CASE t \in DOMAIN L
    <3>1. M[t] = L[t]
      BY <1>2, <1>6, <2>1
    <3> QED BY <2>1, <3>1 DEF LedgerOk
  <2>2. CASE t = n
    BY <1>2, <2>2
  <2> QED BY <1>6, <2>1, <2>2
<1>8. ASSUME NEW y \in Cells(Ins(M)), y \notin Cells(Ins(L))
      PROVE  y[1] = n /\ y[2] \in DOMAIN x.inputs /\ y = <<n, y[2]>> /\ Prev(M, y) = x.inputs[y[2]].prev
  <2>1. Ins(M) \in Seq(Nat) /\ Len(Ins(M)) = Len(M)
    BY <1>2, LedgerTyped
  <2>2. y[1] \in 1..Len(M) /\ y[1] \in DOMAIN M /\ y[2] \in 1..Ins(M)[y[1]] /\ y = <<y[1], y[2]>>
    <3>1. y[1] \in 1..Len(Ins(M)) /\ y[2] \in 1..Ins(M)[y[1]] /\ y = <<y[1], y[2]>>
      BY <2>1, CellTyped
    <3> QED BY <1>2, <2>1, <3>1
  <2>3. y[1] = n
    <3>1. ~(y[1] <= Len(L))
      BY <1>5, <1>8
    <3> QED BY <1>2, <2>2, <3>1
  <2>4. y[2] \in DOMAIN M[y[1]].inputs
    BY <1>2, <2>2, LedgerTyped
  <2> QED BY <1>2, <2>2, <2>3, <2>4, Zenon DEF Prev
<1>9. Created(L) = Cells(Outs(L))
  <2>1. /\ DOMAIN Outs(L) = DOMAIN L
        /\ \A t \in DOMAIN L : DOMAIN L[t].outputs = 1..Outs(L)[t]
    BY <1>1, LedgerTyped
  <2>2. \A q : q \in Cells(Outs(L)) <=> \E t \in DOMAIN L : q \in {t} \X (1..Outs(L)[t])
    BY <2>1, Zenon DEF Cells
  <2>3. \A q : q \in Created(L) <=> \E t \in DOMAIN L : q \in {t} \X DOMAIN L[t].outputs
    BY Zenon DEF Created
  <2>4. \A q : q \in Created(L) <=> q \in Cells(Outs(L))
    BY <2>1, <2>2, <2>3, Zenon
  <2> QED BY <2>4
<1>10. \A y \in Cells(Ins(L)) : Prev(L, y) \in Spent(L)
  <2> SUFFICES ASSUME NEW y \in Cells(Ins(L)) PROVE Prev(L, y) \in Spent(L)
    OBVIOUS
  <2>1. Ins(L) \in Seq(Nat) /\ DOMAIN Ins(L) = DOMAIN L
    BY <1>1, LedgerTyped
  <2>2. y[1] \in DOMAIN L /\ y[2] \in 1..Ins(L)[y[1]]
    BY <2>1, CellTyped
  <2>3. y[2] \in DOMAIN L[y[1]].inputs
    BY <1>1, <2>2, LedgerTyped
  <2> DEFINE S(t) == {L[t].inputs[i].prev : i \in DOMAIN L[t].inputs}
  <2>4. Prev(L, y) \in S(y[1])
    BY <2>3 DEF Prev
  <2>5. Spent(L) = UNION {S(t) : t \in DOMAIN L}
    BY DEF Spent
  <2> HIDE DEF S
  <2> QED BY <2>2, <2>4, <2>5
<1>11. ASSUME NEW y \in Cells(Ins(M)), Prev(M, y) \notin PreScan
       PROVE  Prev(M, y) \in Cells(Outs(M)) /\ Prev(M, y)[1] < y[1]
  <2>1. CASE y \in Cells(Ins(L))
    <3>1. Prev(M, y) = Prev(L, y)
      BY <1>5, <2>1
    <3>2. Prev(L, y) \in Cells(Outs(L)) /\ Prev(L, y)[1] < y[1]
      BY <1>11, <2>1, <3>1 DEF LedgerOk
    <3> QED BY <1>5, <3>1, <3>2
  <2>2. CASE y \notin Cells(Ins(L))
    <3>1. Prev(M, y) \in Cells(Outs(L)) /\ y[1] = n
      BY <1>8, <1>9, <1>11, <2>2
    <3>2. Outs(L) \in Seq(Nat) /\ Len(Outs(L)) = Len(L)
      BY <1>1, LedgerTyped
    <3> DEFINE q == Prev(M, y)
    <3> HIDE DEF q
    <3>3. q \in Cells(Outs(L))
      BY <3>1 DEF q
    <3>4. q[1] \in 1..Len(L)
      BY <3>2, <3>3, CellTyped
    <3>5. q[1] < y[1]
      BY <1>6, <3>1, <3>4
    <3> QED BY <1>5, <3>3, <3>5 DEF q
  <2> QED BY <2>1, <2>2
<1>12. ASSUME NEW y \in Cells(Ins(M)), NEW z \in Cells(Ins(M)), Prev(M, y) = Prev(M, z) PROVE y = z
  <2>1. CASE y \in Cells(Ins(L)) /\ z \in Cells(Ins(L))
    BY <1>5, <1>12, <2>1 DEF LedgerOk
  <2>2. CASE y \in Cells(Ins(L)) /\ z \notin Cells(Ins(L))
    <3>1. Prev(M, y) \in Spent(L)
      BY <1>5, <1>10, <2>2
    <3>2. Prev(M, z) \notin Spent(L)
      BY <1>8, <2>2
    <3> QED BY <1>12, <3>1, <3>2
  <2>3. CASE y \notin Cells(Ins(L)) /\ z \in Cells(Ins(L))
    <3>1. Prev(M, z) \in Spent(L)
      BY <1>5, <1>10, <2>3
    <3>2. Prev(M, y) \notin Spent(L)
      BY <1>8, <2>3
    <3> QED BY <1>12, <3>1, <3>2
  <2>4. CASE y \notin Cells(Ins(L)) /\ z \notin Cells(Ins(L))
    <3>1. y = <<n, y[2]>> /\ y[2] \in DOMAIN x.inputs /\ Prev(M, y) = x.inputs[y[2]].prev
      BY <1>8, <2>4
    <3>2. z = <<n, z[2]>> /\ z[2] \in DOMAIN x.inputs /\ Prev(M, z) = x.inputs[z[2]].prev
      BY <1>8, <2>4
    <3>3. y[2] = z[2]
      BY <1>12, <3>1, <3>2
    <3> QED BY <3>1, <3>2, <3>3, Zenon
  <2> QED BY <2>1, <2>2, <2>3, <2>4
<1>13. LedgerOk(M)
  BY <1>2, <1>7, <1>11, <1>12, Zenon DEF LedgerOk
<1> QED BY <1>3, <1>13

\* What MineBlock and MineTx append.
LEMMA MinedTx ==
  ASSUME NEW L, L \in Seq(Tx), NEW x, x \in Coinbases \/ x \in ValidTxs(L)
  PROVE  /\ x \in Tx /\ (x.coinbase => x.inputs = << >>)
         /\ \A i \in DOMAIN x.inputs : x.inputs[i].prev \in (PreScan \cup Created(L)) \ Spent(L)
         /\ \A i, j \in DOMAIN x.inputs : x.inputs[i].prev = x.inputs[j].prev => i = j
<1>1. CASE x \in Coinbases
  <2>1. PICK o \in Keys \cup {Other} : x = [coinbase |-> TRUE, inputs |-> << >>, outputs |-> <<o>>]
    BY <1>1 DEF Coinbases
  <2>2. o \in Kinds
    BY DEF Kinds
  <2>3. <<o>> \in Seq(Kinds) /\ << >> \in Seq(Input) /\ TRUE \in BOOLEAN
    BY <2>2
  <2>4. x \in Tx
    BY <2>1, <2>3 DEF Tx
  <2>5. x.inputs = << >> /\ DOMAIN x.inputs = {}
    BY <2>1
  <2> QED BY <2>4, <2>5
<1>2. CASE x \in ValidTxs(L)
  <2> DEFINE unspent == (PreScan \cup Created(L)) \ Spent(L)
             lists == UNION {[1..n -> [prev : unspent, path : Paths]] : n \in 1..MaxInputs}
  <2>1. /\ x \in [coinbase : {FALSE}, inputs : lists, outputs : OutputLists]
        /\ \A i, j \in DOMAIN x.inputs : x.inputs[i].prev = x.inputs[j].prev => i = j
    BY <1>2, Zenon DEF ValidTxs
  <2> HIDE DEF unspent
  <2>2. /\ x = [coinbase |-> x.coinbase, inputs |-> x.inputs, outputs |-> x.outputs] /\ x.coinbase = FALSE
        /\ x.inputs \in lists /\ x.outputs \in OutputLists
    <3> HIDE DEF lists
    <3> QED BY <2>1
  <2>3. PICK n \in 1..MaxInputs : x.inputs \in [1..n -> [prev : unspent, path : Paths]]
    BY <2>2, Zenon
  <2>4. \A i \in DOMAIN x.inputs : x.inputs[i] \in [prev : unspent, path : Paths]
    BY <2>3
  <2>5. \A i \in DOMAIN x.inputs : x.inputs[i].prev \in (PreScan \cup Created(L)) \ Spent(L)
    BY <2>4 DEF unspent
  <2>6. \A o \in unspent : o \in Nat \X Nat
    <3> SUFFICES ASSUME NEW o \in unspent PROVE o \in Nat \X Nat
      OBVIOUS
    <3>1. CASE o \in PreScan
      <4>1. 1..PreScanOutputs \subseteq Nat /\ {0} \subseteq Nat
        OBVIOUS
      <4> QED BY <3>1, <4>1 DEF PreScan
    <3>2. CASE o \in Created(L)
      <4>1. PICK t \in DOMAIN L : o \in {t} \X DOMAIN L[t].outputs
        BY <3>2 DEF Created
      <4>2. DOMAIN L[t].outputs = 1..Outs(L)[t] /\ t \in 1..Len(L)
        BY LedgerTyped
      <4>3. DOMAIN L[t].outputs \subseteq Nat /\ {t} \subseteq Nat
        BY <4>2
      <4> QED BY <4>1, <4>3
    <3> QED BY <3>1, <3>2 DEF unspent
  <2>7. n \in Nat
    BY <2>3
  <2>8. x.inputs \in Seq(Input)
    <3>1. [prev : unspent, path : Paths] \subseteq Input
      BY <2>6 DEF Input
    <3>2. x.inputs \in [1..n -> Input]
      <4> HIDE DEF Input
      <4> QED BY <2>3, <3>1
    <3> QED BY <2>7, <3>2
  <2>9. x.outputs \in Seq(Kinds)
    <3>1. PICK k \in 1..MaxOutputs : x.outputs \in [1..k -> Kinds]
      BY <2>2, Zenon DEF OutputLists, Kinds
    <3>2. k \in Nat
      BY <3>1
    <3> QED BY <3>1, <3>2
  <2>10. x \in Tx
    <3>1. x.coinbase \in BOOLEAN
      BY <2>2
    <3> QED BY <2>2, <2>8, <2>9, <3>1 DEF Tx
  <2> QED BY <2>1, <2>2, <2>5, <2>10
<1> QED BY <1>1, <1>2

\* MineBlock and MineTx keep the invariant.
LEMMA MineKeeps ==
  ASSUME ScannerInv, MineBlock \/ MineTx
  PROVE  ScannerInv'
<1>1. /\ LedgerOk(ledger) /\ EndsOk(ledger, ends) /\ StateOk(ledger, ends, state)
      /\ rows \in Seq(Row) /\ Len(rows) = Len(ends)
      /\ \A h \in 1..Len(ends) : RowOk(ledger, ends, h, rows[h])
  BY DEF ScannerInv
<1>2. state' = state /\ ends' = ends /\ rows' = rows
  BY DEF MineBlock, MineTx
<1>3. PICK x : (x \in Coinbases \/ x \in ValidTxs(ledger)) /\ ledger' = Append(ledger, x)
  BY Zenon DEF MineBlock, MineTx
<1>4. ledger \in Seq(Tx)
  BY <1>1 DEF LedgerOk
<1>5. /\ x \in Tx /\ (x.coinbase => x.inputs = << >>)
      /\ \A i \in DOMAIN x.inputs : x.inputs[i].prev \in (PreScan \cup Created(ledger)) \ Spent(ledger)
      /\ \A i, j \in DOMAIN x.inputs : x.inputs[i].prev = x.inputs[j].prev => i = j
  BY <1>3, <1>4, MinedTx
<1>6. LedgerOk(ledger') /\ LedgerStep(ledger, ledger')
  BY <1>1, <1>3, <1>5, LedgerGrows
<1>7. Extends(ledger, ledger')
  BY <1>1, <1>6, LedgerExtends
<1>8. EndsOk(ledger', ends) /\ StateOk(ledger', ends, state)
  BY <1>1, <1>7, OldState
<1>9. \A h \in 1..Len(ends) : RowOk(ledger', ends, h, rows[h])
  BY <1>1, <1>7, OldRowOk
<1> QED BY <1>1, <1>2, <1>6, <1>8, <1>9, Zenon DEF ScannerInv

\* The initial state satisfies the invariant.
LEMMA InitHolds ==
  ASSUME Init
  PROVE  ScannerInv
<1>1. state = NewState /\ ledger = << >> /\ ends = << >> /\ rows = << >>
  BY DEF Init
<1> DEFINE L == ledger
           p == <<0 + 1, 1>>
<1>2. L \in Seq(Tx) /\ DOMAIN L = {} /\ Len(ends) = 0 /\ Fin(ends, 0) = 0
  BY <1>1 DEF Fin
<1>3. Outs(L) = << >> /\ Ins(L) = << >>
  BY <1>1 DEF Outs, Ins
<1>4. Cells(Outs(L)) = {} /\ Cells(Ins(L)) = {}
  BY <1>2 DEF Cells, Outs, Ins
<1>5. LedgerOk(L)
  BY <1>2, <1>4 DEF LedgerOk
<1>6. EndsOk(L, ends)
  BY <1>1, <1>2 DEF EndsOk
<1>7. To(Outs(L), 1, p) = {} /\ To(Ins(L), 1, p) = {}
  BY <1>4 DEF To
<1>8. /\ DOMAIN state = StateFields /\ state.last_id = 0 /\ state.utxo = << >> /\ state.seen = {}
      /\ state.missing = 0 /\ state.stats = [c \in RunCounters |-> 0] /\ state.window = << >>
      /\ state.acc = {} /\ state.events = {}
  BY <1>1 DEF NewState, StateFields
<1>9. Cardinality({}) = 0
  BY FS_EmptySet
<1>10. InsOf(L, 1, 0) = {} /\ OutsOf(L, 1, 0) = {} /\ 1..0 = {}
  BY <1>7 DEF InsOf, OutsOf
<1>11. UtxoPart(L, state, {}, p)
  <2>1. DOMAIN state.utxo = {}
    BY <1>8
  <2>2. Unknown(L, {}) = {}
    BY DEF Unknown
  <2>3. Rank(L, p) = 0
    BY <1>7, <1>9 DEF Rank
  <2>4. {Kind(L, o) : o \in {}} = {}
    OBVIOUS
  <2> QED BY <1>7, <1>8, <1>9, <2>1, <2>2, <2>3, <2>4 DEF UtxoPart
<1>12. state.stats = [c \in RunCounters |-> Tally(L, ends, c, {}, {}, {})]
  <2>1. \A c : Tally(L, ends, c, {}, {}, {}) = 0
    BY NothingYet
  <2> QED BY <1>8, <2>1
<1>13. WindowPart(L, ends, state)
  <2>1. FirstKept(0) = 1
    BY WindowAssumption DEF FirstKept
  <2>2. HashOf(L, ends, 0) = {}
    <3>1. EventsOf(L, 0 + 1, 0) = {}
      <4>1. \A a \in Nat : EventsOf(L, a + 1, a) = {}
        BY <1>2, NoEvents
      <4> QED BY <4>1, Zenon
    <3>2. 1 - 1 = 0
      OBVIOUS
    <3> QED BY <1>2, <2>1, <3>1, <3>2, Zenon DEF HashOf
  <2>3. state.window \in Seq(EventSets) /\ Len(state.window) = 0
    BY <1>8
  <2>4. 0 = 0 + 1 - 1 /\ 1..0 = {}
    OBVIOUS
  <2>5. \A i \in 1..Len(state.window) : FALSE
    BY <2>3
  <2> QED BY <1>2, <1>8, <2>1, <2>2, <2>3, <2>4, <2>5, Zenon DEF WindowPart
<1>14. StateOk(L, ends, state)
  <2>1. DOMAIN state = StateFields
    BY <1>8
  <2>2. UtxoPart(L, state, InsOf(L, 1, 0), <<0 + 1, 1>>)
    BY <1>10, <1>11, Zenon
  <2>3. state.stats = [c \in RunCounters |-> Tally(L, ends, c, InsOf(L, 1, 0), OutsOf(L, 1, 0), 1..0)]
    BY <1>10, <1>12, Zenon
  <2>4. Fin(ends, Len(ends)) = 0
    BY <1>2, Zenon
  <2> QED BY <1>13, <2>1, <2>2, <2>3, <2>4, Zenon DEF StateOk
<1>15. rows \in Seq(Row) /\ Len(rows) = Len(ends) /\ 1..Len(ends) = {}
  BY <1>1
<1> QED BY <1>5, <1>6, <1>14, <1>15 DEF ScannerInv

\* What the scanner holds and the rows it has written are what the ledger and
\* its blocks determine.
THEOREM ScannerInvariant == Spec => []ScannerInv
<1>1. Init => ScannerInv
  BY InitHolds
<1>2. ScannerInv /\ [Next]_vars => ScannerInv'
  <2> SUFFICES ASSUME ScannerInv, [Next]_vars PROVE ScannerInv'
    OBVIOUS
  <2>1. CASE MineBlock \/ MineTx
    BY <2>1, MineKeeps
  <2>2. CASE ScanBlock
    BY <2>2, ScanKeeps
  <2>3. CASE UNCHANGED vars
    <3>1. state' = state /\ ledger' = ledger /\ ends' = ends /\ rows' = rows
      BY <2>3 DEF vars
    <3> QED BY <3>1, Zenon DEF ScannerInv
  <2> QED BY <2>1, <2>2, <2>3 DEF Next
<1> QED BY <1>1, <1>2, PTL DEF Spec

-----------------------------------------------------------------------------
(* The properties.                                                         *)

\* The cells of the rows a to b, row by row.
LEMMA RowsAre ==
  ASSUME NEW W \in Seq(Nat), NEW a \in Nat \ {0}, NEW b \in Nat, b <= Len(W)
  PROVE  UNION {{t} \X (1..W[t]) : t \in a..b} = To(W, a, <<b + 1, 1>>)
<1> DEFINE rows_ == UNION {{t} \X (1..W[t]) : t \in a..b}
           cells == To(W, a, <<b + 1, 1>>)
<1>1. ASSUME NEW q PROVE q \in rows_ <=> q \in cells
  <2>1. q \in cells <=> q \in Cells(W) /\ a <= q[1] /\ q[1] <= b
    BY RowCells
  <2>2. q \in Cells(W) <=> \E t \in DOMAIN W : \E v \in 1..W[t] : q = <<t, v>>
    BY CellTyped
  <2>3. q \in rows_ <=> \E t \in a..b : \E v \in 1..W[t] : q = <<t, v>>
    OBVIOUS
  <2>4. ASSUME q \in rows_ PROVE q \in cells
    <3>1. PICK t \in a..b : \E v \in 1..W[t] : q = <<t, v>>
      BY <2>3, <2>4
    <3>2. t \in DOMAIN W /\ q[1] = t /\ a <= t /\ t <= b
      BY <3>1
    <3> QED BY <2>1, <2>2, <3>1, <3>2
  <2>5. ASSUME q \in cells PROVE q \in rows_
    <3>1. PICK t \in DOMAIN W : \E v \in 1..W[t] : q = <<t, v>>
      BY <2>1, <2>2, <2>5
    <3>2. q[1] = t /\ t \in Nat
      BY <3>1
    <3>3. t \in a..b
      BY <2>1, <2>5, <3>2
    <3> QED BY <2>3, <3>1, <3>3
  <2> QED BY <2>4, <2>5
<1> QED
  <2> HIDE DEF rows_, cells
  <2>1. rows_ = cells
    BY <1>1
  <2> QED BY <2>1 DEF rows_, cells

\* The transactions a to b in the terms of the invariant.
Linked(a, b) ==
    /\ OutputsOf(a..b) = OutsOf(ledger, a, b)
    /\ InputsOf(a..b) = InsOf(ledger, a, b)
    /\ SpendsOf(a..b) = Known(ledger, InsOf(ledger, a, b))
    /\ SpentBy(a..b) = Outpoints(ledger, InsOf(ledger, a, b))

LEMMA TxsLinked ==
  ASSUME ledger \in Seq(Tx), NEW a \in Nat \ {0}, NEW b \in Nat, b <= Len(ledger)
  PROVE  Linked(a, b)
<1> DEFINE L == ledger
<1>1. /\ Outs(L) \in Seq(Nat) /\ Ins(L) \in Seq(Nat) /\ Len(Outs(L)) = Len(L) /\ Len(Ins(L)) = Len(L)
      /\ DOMAIN L = 1..Len(L) /\ Len(L) \in Nat
      /\ \A t \in DOMAIN L : DOMAIN L[t].outputs = 1..Outs(L)[t] /\ DOMAIN L[t].inputs = 1..Ins(L)[t]
  BY LedgerTyped
<1>2. \A t \in a..b : DOMAIN ledger[t].outputs = 1..Outs(L)[t] /\ DOMAIN ledger[t].inputs = 1..Ins(L)[t]
  <2>1. \A t \in a..b : t \in DOMAIN L
    BY <1>1
  <2> QED BY <1>1, <2>1
<1>3. OutputsOf(a..b) = OutsOf(L, a, b)
  <2>1. OutputsOf(a..b) = UNION {{t} \X (1..Outs(L)[t]) : t \in a..b}
    <3> HIDE DEF L
    <3> QED BY <1>2 DEF OutputsOf
  <2>2. UNION {{t} \X (1..Outs(L)[t]) : t \in a..b} = To(Outs(L), a, <<b + 1, 1>>)
    BY <1>1, RowsAre
  <2> QED BY <2>1, <2>2, Zenon DEF OutsOf
<1>4. InputsOf(a..b) = InsOf(L, a, b)
  <2>1. InputsOf(a..b) = UNION {{t} \X (1..Ins(L)[t]) : t \in a..b}
    <3> HIDE DEF L
    <3> QED BY <1>2 DEF InputsOf
  <2>2. UNION {{t} \X (1..Ins(L)[t]) : t \in a..b} = To(Ins(L), a, <<b + 1, 1>>)
    BY <1>1, RowsAre
  <2> QED BY <2>1, <2>2, Zenon DEF InsOf
<1>5. \A x : PrevAt(x) = Prev(L, x)
  BY DEF PrevAt, Prev
<1>6. SpendsOf(a..b) = Known(L, InsOf(L, a, b))
  <2> HIDE DEF L
  <2> QED BY <1>4, <1>5 DEF SpendsOf, Known
<1>7. SpentBy(a..b) = Outpoints(L, InsOf(L, a, b))
  <2> HIDE DEF L
  <2> QED BY <1>5, <1>6 DEF SpentBy, Outpoints
<1> QED BY <1>3, <1>4, <1>6, <1>7 DEF Linked

\* All transactions of the scanned blocks, and those of one block.
LEMMA ScannedLinked ==
  ASSUME ScannerInv
  PROVE  LET last == Fin(ends, Len(ends)) IN
         /\ ledger \in Seq(Tx) /\ last \in Nat /\ last <= Len(ledger)
         /\ Scanned = 1..last /\ Linked(1, last)
<1> DEFINE last == Fin(ends, Len(ends))
<1>1. LedgerOk(ledger) /\ EndsOk(ledger, ends) /\ ledger \in Seq(Tx) /\ ends \in Seq(Nat)
  BY DEF ScannerInv, LedgerOk, EndsOk
<1>2. Len(ends) \in 0..Len(ends)
  BY <1>1
<1>3. last \in Nat /\ last <= Len(ledger)
  BY <1>1, <1>2, FinGrows
<1>4. Scanned = 1..last
  BY DEF Scanned, End, Fin
<1> HIDE DEF last
<1>5. Linked(1, last)
  BY <1>1, <1>3, TxsLinked
<1> QED BY <1>1, <1>3, <1>4, <1>5, Zenon DEF last

LEMMA BlockLinked ==
  ASSUME ScannerInv, NEW h \in Heights
  PROVE  LET a == Fin(ends, h - 1) + 1
             b == Fin(ends, h)
         IN  /\ a \in Nat \ {0} /\ b \in Nat /\ a <= b /\ b <= Fin(ends, Len(ends)) /\ b <= Len(ledger)
             /\ TxsOf(h) = a..b /\ Linked(a, b)
<1> DEFINE f == Fin(ends, h - 1)
           a == f + 1
           b == Fin(ends, h)
<1>1. LedgerOk(ledger) /\ EndsOk(ledger, ends) /\ ledger \in Seq(Tx) /\ ends \in Seq(Nat) /\ h \in 1..Len(ends)
  BY DEF ScannerInv, LedgerOk, EndsOk, Heights
<1>2. h - 1 \in 0..Len(ends) /\ h \in 0..Len(ends) /\ Len(ends) \in 0..Len(ends) /\ h - 1 < h /\ h <= Len(ends)
  BY <1>1
<1>3. f \in Nat /\ b \in Nat /\ b <= Len(ledger) /\ f < b /\ b <= Fin(ends, Len(ends))
  BY <1>1, <1>2, FinGrows
<1>4. TxsOf(h) = a..b
  BY DEF TxsOf, End, Fin
<1> HIDE DEF f, b
<1>5. a \in Nat \ {0} /\ a <= b
  BY <1>3
<1>6. Linked(a, b)
  <2> HIDE DEF a
  <2> QED BY <1>1, <1>3, <1>5, TxsLinked
<1> QED BY <1>3, <1>4, <1>5, <1>6, Zenon DEF a, b, f

\* Ids, earlier outputs of the same key and spends within a block.
LEMMA PlacesLinked ==
  ASSUME ScannerInv
  PROVE  LET last == Fin(ends, Len(ends)) IN
         /\ \A o \in Cells(Outs(ledger)) : o[1] <= last =>
               GlobalId(o) = Id(ledger, o) /\ (Reused(o) <=> SeenBefore(ledger, o))
         /\ \A o : KindAt(o) = Kind(ledger, o)
         /\ \A x : PrevAt(x) = Prev(ledger, x) /\ PathAt(x) = Path(ledger, x)
         /\ \A x \in Cells(Ins(ledger)) : Prev(ledger, x) \notin PreScan => (SameBlock(x) <=> Same(ledger, ends, x))
<1> DEFINE last == Fin(ends, Len(ends))
           L == ledger
<1>1. L \in Seq(Tx) /\ last \in Nat /\ OutputsOf(Scanned) = OutsOf(L, 1, last)
  BY ScannedLinked DEF Linked
<1>2. Outs(L) \in Seq(Nat) /\ Ins(L) \in Seq(Nat)
  BY <1>1, LedgerTyped
<1>3. /\ \A o : KindAt(o) = Kind(L, o)
      /\ \A x : PrevAt(x) = Prev(L, x) /\ PathAt(x) = Path(L, x)
  BY DEF KindAt, Kind, PrevAt, Prev, PathAt, Path
<1> HIDE DEF last, L
<1>4. ASSUME NEW o \in Cells(Outs(L)), o[1] <= last
      PROVE  {p \in OutputsOf(Scanned) : Before(p, o)} = To(Outs(L), 1, o)
  <2>1. o[1] \in Nat
    BY <1>2, CellTyped
  <2>2. ASSUME NEW q PROVE q \in OutsOf(L, 1, last) /\ Before(q, o) <=> q \in To(Outs(L), 1, o)
    <3>1. q \in OutsOf(L, 1, last) <=> q \in Cells(Outs(L)) /\ 1 <= q[1] /\ q[1] <= last
      BY <1>1, <1>2, RowCells DEF OutsOf
    <3>2. q \in Cells(Outs(L)) => q[1] \in Nat
      BY <1>2, CellTyped
    <3>3. q \in Cells(Outs(L)) /\ Before(q, o) => q[1] <= last
      BY <1>1, <1>4, <2>1, <3>2 DEF Before
    <3> QED BY <3>1, <3>3 DEF To
  <2> QED BY <1>1, <2>2
<1>5. ASSUME NEW o \in Cells(Outs(L)), o[1] <= last
      PROVE  GlobalId(o) = Id(L, o) /\ (Reused(o) <=> SeenBefore(L, o))
  <2>1. {p \in OutputsOf(Scanned) : Before(p, o)} = To(Outs(L), 1, o)
    BY <1>4, <1>5
  <2>2. GlobalId(o) = Id(L, o)
    BY <2>1, Zenon DEF GlobalId, Id, Rank
  <2>3. \A p : p \in OutputsOf(Scanned) /\ Before(p, o) <=> p \in To(Outs(L), 1, o)
    BY <2>1
  <2>4. Reused(o) <=> SeenBefore(L, o)
    BY <1>3, <2>3, Zenon DEF Reused, SeenBefore
  <2> QED BY <2>2, <2>4
<1>6. ASSUME NEW x \in Cells(Ins(L)), Prev(L, x) \notin PreScan PROVE SameBlock(x) <=> Same(L, ends, x)
  <2>1. x[1] \in Nat /\ Prev(L, x)[1] \in Nat
    <3>1. Prev(L, x) \in Nat \X Nat
      BY <1>1, LedgerTyped
    <3> QED BY <1>2, <3>1, CellTyped
  <2>2. ASSUME NEW h \in Heights, NEW t \in Nat PROVE t \in TxsOf(h) <=> In(ends, h, t)
    <3> DEFINE f == Fin(ends, h - 1)
               g == Fin(ends, h)
    <3>1. g \in Nat /\ TxsOf(h) = (f + 1)..g /\ f + 1 \in Nat
      BY BlockLinked
    <3>2. f \in Int
      <4>1. EndsOk(ledger, ends) /\ ledger \in Seq(Tx) /\ ends \in Seq(Nat) /\ h \in 1..Len(ends)
        BY DEF ScannerInv, LedgerOk, EndsOk, Heights
      <4>2. h - 1 \in 0..Len(ends)
        BY <4>1
      <4>3. f \in Nat
        BY <4>1, <4>2, FinGrows
      <4> QED BY <4>3
    <3> HIDE DEF f, g
    <3>3. t \in TxsOf(h) <=> f < t /\ t <= g
      BY <3>1, <3>2
    <3> QED BY <3>3, Zenon DEF In, f, g
  <2> QED BY <1>3, <2>1, <2>2, Zenon DEF SameBlock, Same, Heights
<1> QED BY <1>3, <1>5, <1>6, Zenon DEF last, L

\* The UTXO map holds exactly the unspent outputs the scan has created, each
\* with its chain-wide id, and every spend of an older output is counted as
\* missing.
THEOREM UtxoAlwaysExact == Spec => []UtxoExact
<1>1. ScannerInv => UtxoExact
  <2> SUFFICES ASSUME ScannerInv PROVE UtxoExact
    OBVIOUS
  <2> DEFINE last == Fin(ends, Len(ends))
             L == ledger
             p == <<last + 1, 1>>
             X == InsOf(L, 1, last)
             O == OutsOf(L, 1, last)
  <2>1. /\ L \in Seq(Tx) /\ last \in Nat /\ OutputsOf(Scanned) = O /\ InputsOf(Scanned) = X
        /\ SpendsOf(Scanned) = Known(L, X) /\ SpentBy(Scanned) = Outpoints(L, X)
    BY ScannedLinked DEF Linked
  <2>2. UtxoPart(L, state, X, p)
    BY Zenon DEF ScannerInv, StateOk
  <2>3. To(Outs(L), 1, p) = O /\ Rank(L, p) = Cardinality(O)
    BY Zenon DEF OutsOf, Rank
  <2>4. /\ DOMAIN state.utxo = O \ Outpoints(L, X)
        /\ \A o \in DOMAIN state.utxo : state.utxo[o] = [id |-> Id(L, o), kind |-> Kind(L, o)]
        /\ state.last_id = Cardinality(O) /\ state.missing = Cardinality(Unknown(L, X))
    BY <2>2, <2>3, Zenon DEF UtxoPart
  <2>5. /\ \A o \in Cells(Outs(L)) : o[1] <= last => GlobalId(o) = Id(L, o)
        /\ \A o : KindAt(o) = Kind(L, o)
    BY PlacesLinked
  <2>6. Outs(L) \in Seq(Nat)
    BY <2>1, LedgerTyped
  <2> HIDE DEF last, L
  <2>7. \A o \in O : o \in Cells(Outs(L)) /\ o[1] <= last
    BY <2>1, <2>6, RowCells DEF OutsOf
  <2>8. X \ Known(L, X) = Unknown(L, X)
    <3> HIDE DEF X
    <3> QED BY DEF Known, Unknown
  <2> HIDE DEF X, O, p
  <2>9. \A o \in DOMAIN state.utxo : state.utxo[o] = [id |-> GlobalId(o), kind |-> KindAt(o)]
    BY <2>4, <2>5, <2>7
  <2> QED BY <2>1, <2>4, <2>8, <2>9, Zenon DEF UtxoExact
<1> QED BY <1>1, ScannerInvariant, PTL

\* What a block spends, as outputs of the ledger.
LEMMA SpentLinked ==
  ASSUME ScannerInv, NEW h \in Heights
  PROVE  /\ \A o \in SpentBy(TxsOf(h)) :
               o \in Cells(Outs(ledger)) /\ o[1] <= Fin(ends, h) /\ o[1] <= Fin(ends, Len(ends))
         /\ \A o \in OutputsOf(TxsOf(h)) : o \in Cells(Outs(ledger)) /\ o[1] <= Fin(ends, Len(ends))
<1> DEFINE a == Fin(ends, h - 1) + 1
           b == Fin(ends, h)
           last == Fin(ends, Len(ends))
           L == ledger
           X == InsOf(L, a, b)
<1>1. /\ a \in Nat \ {0} /\ b \in Nat /\ b <= last
      /\ SpentBy(TxsOf(h)) = Outpoints(L, X) /\ OutputsOf(TxsOf(h)) = OutsOf(L, a, b)
  BY BlockLinked DEF Linked
<1>2. LedgerOk(L) /\ L \in Seq(Tx) /\ last \in Nat
  <2>1. LedgerOk(L)
    BY DEF ScannerInv
  <2> QED BY <2>1, ScannedLinked
<1>3. Outs(L) \in Seq(Nat) /\ Ins(L) \in Seq(Nat)
  BY <1>2, LedgerTyped
<1> HIDE DEF a, b, last, L
<1>4. \A x \in X : x \in Cells(Ins(L)) /\ x[1] <= b
  BY <1>1, <1>3, RowCells DEF InsOf
<1>5. \A o \in OutsOf(L, a, b) : o \in Cells(Outs(L)) /\ o[1] <= b
  BY <1>1, <1>3, RowCells DEF OutsOf
<1>6. X \subseteq Cells(Ins(L))
  BY <1>4
<1> HIDE DEF X
<1>7. ASSUME NEW o \in Outpoints(L, X) PROVE o \in Cells(Outs(L)) /\ o[1] <= b /\ o[1] <= last
  <2>1. o \in Cells(Outs(L))
    BY <1>2, <1>6, SpentCells
  <2>2. PICK x \in X : o[1] < x[1]
    BY <1>2, <1>6, SpentCells
  <2>3. x[1] \in Nat /\ x[1] <= b
    BY <1>3, <1>4, CellTyped
  <2>4. o[1] \in Nat
    BY <1>3, <2>1, CellTyped
  <2> QED BY <1>1, <1>2, <2>1, <2>2, <2>3, <2>4
<1>8. ASSUME NEW o \in OutsOf(L, a, b) PROVE o \in Cells(Outs(L)) /\ o[1] <= last
  <2>1. o \in Cells(Outs(L)) /\ o[1] <= b
    BY <1>5
  <2>2. o[1] \in Nat
    BY <1>3, <2>1, CellTyped
  <2> QED BY <1>1, <1>2, <2>1, <2>2
<1> QED BY <1>1, <1>7, <1>8 DEF b, last, L

\* The lists a row measures hold the ids of the outputs, and of the P2TR
\* outputs, that the block spends, each once and none above its last id.
THEOREM SpentUidsAlwaysExact == Spec => []SpentUidsExact
<1>1. ScannerInv => SpentUidsExact
  <2> SUFFICES ASSUME ScannerInv, NEW h \in Heights
               PROVE  LET spent == SpentBy(TxsOf(h))
                          p2tr == {o \in spent : KindAt(o) # Other}
                      IN  /\ ToSet(rows[h].spent_uids) = {GlobalId(o) : o \in spent}
                          /\ Len(rows[h].spent_uids) = Cardinality(spent)
                          /\ ToSet(rows[h].p2tr_spent_uids) = {GlobalId(o) : o \in p2tr}
                          /\ Len(rows[h].p2tr_spent_uids) = Cardinality(p2tr)
                          /\ \A i \in DOMAIN rows[h].spent_uids :
                                rows[h].spent_uids[i] <= rows[h].last_global_id
    BY Zenon DEF SpentUidsExact
  <2> DEFINE a == Fin(ends, h - 1) + 1
             b == Fin(ends, h)
             L == ledger
             X == InsOf(L, a, b)
             spent == SpentBy(TxsOf(h))
             p2tr == {o \in spent : KindAt(o) # Other}
             row == rows[h]
             p == <<b + 1, 1>>
  <2>1. b \in Nat /\ spent = Outpoints(L, X)
    BY BlockLinked DEF Linked
  <2>2. RowOk(L, ends, h, row)
    BY DEF ScannerInv, Heights
  <2>3. /\ row.last_global_id = Rank(L, p) /\ UidsOk(L, Outpoints(L, X), row.spent_uids)
        /\ UidsOk(L, P2trOf(L, Outpoints(L, X)), row.p2tr_spent_uids)
    BY <2>2, Zenon DEF RowOk
  <2>4. /\ \A o \in Cells(Outs(L)) : o[1] <= Fin(ends, Len(ends)) => GlobalId(o) = Id(L, o)
        /\ \A o : KindAt(o) = Kind(L, o)
    BY PlacesLinked
  <2>5. \A o \in spent : o \in Cells(Outs(L)) /\ o[1] <= b /\ GlobalId(o) = Id(L, o)
    BY <2>4, SpentLinked
  <2>6. L \in Seq(Tx)
    BY ScannedLinked
  <2>7. Outs(L) \in Seq(Nat)
    BY <2>6, LedgerTyped
  <2> HIDE DEF a, b, L, X, spent, row
  <2>8. p2tr = P2trOf(L, Outpoints(L, X))
    BY <2>1, <2>4 DEF P2trOf
  <2>9. {GlobalId(o) : o \in spent} = {Id(L, o) : o \in Outpoints(L, X)}
    BY <2>1, <2>5
  <2>10. \A o \in p2tr : o \in spent
    OBVIOUS
  <2> HIDE DEF p2tr
  <2>11. {GlobalId(o) : o \in p2tr} = {Id(L, o) : o \in P2trOf(L, Outpoints(L, X))}
    BY <2>5, <2>8, <2>10
  <2>12. /\ ToSet(row.spent_uids) = {Id(L, o) : o \in Outpoints(L, X)}
         /\ Len(row.spent_uids) = Cardinality(Outpoints(L, X)) /\ row.spent_uids \in Seq(Nat)
         /\ ToSet(row.p2tr_spent_uids) = {Id(L, o) : o \in P2trOf(L, Outpoints(L, X))}
         /\ Len(row.p2tr_spent_uids) = Cardinality(P2trOf(L, Outpoints(L, X)))
    BY <2>3, Zenon DEF UidsOk
  <2>13. ASSUME NEW i \in DOMAIN row.spent_uids PROVE row.spent_uids[i] <= row.last_global_id
    <3>1. row.spent_uids[i] \in ToSet(row.spent_uids)
      BY DEF ToSet
    <3>2. PICK o \in spent : row.spent_uids[i] = Id(L, o)
      BY <2>1, <2>12, <3>1
    <3>3. o \in Cells(Outs(L)) /\ o[1] <= b
      BY <2>5
    <3>4. Before(o, p)
      BY <2>1, <2>7, <3>3, RowCells
    <3>5. p \in Nat \X Nat
      BY <2>1
    <3>6. Id(L, o) <= Rank(L, p)
      <4> HIDE DEF p
      <4> QED BY <2>6, <3>3, <3>4, <3>5, RankGrows
    <3> QED BY <2>3, <3>2, <3>6
  <2> QED BY <2>1, <2>8, <2>9, <2>11, <2>12, <2>13, Zenon DEF spent, p2tr, row
<1> QED BY <1>1, ScannerInvariant, PTL

\* The events of one block.
LEMMA EventsLinked ==
  ASSUME ScannerInv, NEW k \in Heights
  PROVE  {<<"add", GlobalId(o)>> : o \in OutputsOf(TxsOf(k))} \cup {<<"rem", GlobalId(o)>> : o \in SpentBy(TxsOf(k))}
           = EventsOf(ledger, Fin(ends, k - 1) + 1, Fin(ends, k))
<1> DEFINE a == Fin(ends, k - 1) + 1
           b == Fin(ends, k)
           L == ledger
<1>1. OutputsOf(TxsOf(k)) = OutsOf(L, a, b) /\ SpentBy(TxsOf(k)) = Outpoints(L, InsOf(L, a, b))
  BY BlockLinked DEF Linked
<1>2. \A o \in Cells(Outs(L)) : o[1] <= Fin(ends, Len(ends)) => GlobalId(o) = Id(L, o)
  BY PlacesLinked
<1>3. \A o \in OutputsOf(TxsOf(k)) : GlobalId(o) = Id(L, o)
  BY <1>2, SpentLinked
<1>4. \A o \in SpentBy(TxsOf(k)) : GlobalId(o) = Id(L, o)
  BY <1>2, SpentLinked
<1> HIDE DEF a, b, L
<1>5. {<<"add", GlobalId(o)>> : o \in OutputsOf(TxsOf(k))} = {<<"add", Id(L, o)>> : o \in OutputsOf(TxsOf(k))}
  BY <1>3
<1>6. {<<"rem", GlobalId(o)>> : o \in SpentBy(TxsOf(k))} = {<<"rem", Id(L, o)>> : o \in SpentBy(TxsOf(k))}
  BY <1>4
<1> QED BY <1>1, <1>5, <1>6, Zenon DEF EventsOf, Events, a, b, L

\* The blocks of the window hold its transactions.
LEMMA KeptBlocks ==
  ASSUME ScannerInv, NEW h \in Heights
  PROVE  /\ {j \in 1..h : j > h - Window} = FirstKept(h)..h
         /\ \A k \in FirstKept(h)..h : k \in Heights
         /\ FirstKept(h) \in 1..(h + 1) /\ h \in Nat
         /\ LET first == Fin(ends, FirstKept(h) - 1) + 1 IN
            /\ first \in Nat /\ Fin(ends, h) \in Nat
            /\ \A t \in Nat : first <= t /\ t <= Fin(ends, h) => \E k \in FirstKept(h)..h : In(ends, k, t)
            /\ \A k \in FirstKept(h)..h : first <= Fin(ends, k - 1) + 1 /\ Fin(ends, k) <= Fin(ends, h)
<1> DEFINE f == FirstKept(h)
           n == Len(ends)
<1>1. EndsOk(ledger, ends) /\ ledger \in Seq(Tx) /\ ends \in Seq(Nat) /\ h \in 1..n /\ n \in Nat /\ h \in Nat
  <2>1. EndsOk(ledger, ends) /\ ledger \in Seq(Tx) /\ ends \in Seq(Nat) /\ h \in 1..n
    BY DEF ScannerInv, LedgerOk, EndsOk, Heights
  <2> QED BY <2>1
<1>2. f \in 1..(h + 1)
  BY <1>1, Kept
<1>3. {j \in 1..h : j > h - Window} = f..h
  <2>1. CASE h <= Window
    <3>1. f = 1
      BY <2>1 DEF FirstKept
    <3> QED BY <1>1, <2>1, <3>1, WindowAssumption
  <2>2. CASE ~(h <= Window)
    <3>1. f = h - Window + 1
      BY <2>2 DEF FirstKept
    <3> QED BY <1>1, <2>2, <3>1, WindowAssumption
  <2> QED BY <2>1, <2>2
<1>4. \A k \in f..h : k \in 1..n /\ k \in Nat
  <2> HIDE DEF f, n
  <2> QED BY <1>1, <1>2
<1>5. \A j \in 0..n, k \in 0..n :
         /\ Fin(ends, j) \in Nat /\ (j < k => Fin(ends, j) < Fin(ends, k))
         /\ (j <= k => Fin(ends, j) <= Fin(ends, k))
  BY <1>1, FinGrows
<1> DEFINE g == Fin(ends, f - 1)
           last == Fin(ends, h)
<1>6. f - 1 \in 0..n /\ h \in 0..n
  <2> HIDE DEF f, n
  <2> QED BY <1>1, <1>2
<1>7. g \in Nat /\ last \in Nat
  <2> HIDE DEF f, n
  <2> QED BY <1>5, <1>6
<1>8. ASSUME NEW t \in Nat, g + 1 <= t, t <= last PROVE \E k \in f..h : In(ends, k, t)
  <2>1. last <= Fin(ends, n) /\ Fin(ends, n) \in Nat
    <3>1. n \in 0..n /\ h <= n
      <4> HIDE DEF n
      <4> QED BY <1>1
    <3> QED BY <1>5, <1>6, <3>1
  <2>2. t \in 1..Fin(ends, n)
    <3> HIDE DEF g, last, n
    <3> QED BY <1>7, <1>8, <2>1
  <2>3. PICK k \in 1..n : In(ends, k, t)
    BY <1>1, <2>2 DEF EndsOk
  <2>4. k \in 0..n /\ k - 1 \in 0..n /\ k \in Nat
    <3> HIDE DEF n
    <3> QED BY <1>1, <2>3
  <2>5. Fin(ends, k - 1) < t /\ t <= Fin(ends, k) /\ Fin(ends, k - 1) \in Nat /\ Fin(ends, k) \in Nat
    BY <1>5, <2>3, <2>4 DEF In
  <2>6. ~(k <= f - 1)
    <3>1. k <= f - 1 => Fin(ends, k) <= g
      BY <1>5, <1>6, <2>4
    <3> HIDE DEF g
    <3> QED BY <1>7, <1>8, <2>5, <3>1
  <2>7. ~(h <= k - 1)
    <3>1. h <= k - 1 => last <= Fin(ends, k - 1)
      BY <1>5, <1>6, <2>4
    <3> HIDE DEF last
    <3> QED BY <1>7, <1>8, <2>5, <3>1
  <2>8. k \in f..h
    <3> HIDE DEF f
    <3> QED BY <1>1, <1>2, <2>4, <2>6, <2>7
  <2> QED BY <2>3, <2>8
<1>9. ASSUME NEW k \in f..h PROVE g + 1 <= Fin(ends, k - 1) + 1 /\ Fin(ends, k) <= last
  <2>1. k \in 0..n /\ k - 1 \in 0..n /\ f - 1 <= k - 1 /\ k <= h
    <3> HIDE DEF f, n
    <3> QED BY <1>1, <1>2, <1>4
  <2>2. g <= Fin(ends, k - 1) /\ Fin(ends, k) <= last /\ Fin(ends, k - 1) \in Nat
    BY <1>5, <1>6, <2>1
  <2> HIDE DEF g
  <2> QED BY <1>7, <2>2
<1>10. g + 1 \in Nat
  BY <1>7
<1>11. \A k \in f..h : k \in Heights
  BY <1>4 DEF Heights
<1> QED BY <1>1, <1>2, <1>3, <1>7, <1>8, <1>9, <1>10, <1>11, Zenon DEF f, g, last

\* The rolling hash of a row is that of the events of the last Window blocks,
\* whatever came before them.
THEOREM HashAlwaysCoversWindow == Spec => []HashCoversWindow
<1>1. ScannerInv => HashCoversWindow
  <2> SUFFICES ASSUME ScannerInv, NEW h \in Heights
               PROVE  rows[h].utxo_hash =
                        UNION {{<<"add", GlobalId(o)>> : o \in OutputsOf(TxsOf(k))}
                               \cup {<<"rem", GlobalId(o)>> : o \in SpentBy(TxsOf(k))} :
                                   k \in {j \in 1..h : j > h - Window}}
    BY Zenon DEF HashCoversWindow
  <2> DEFINE f == FirstKept(h)
             a(k) == Fin(ends, k - 1) + 1
             b(k) == Fin(ends, k)
             L == ledger
             E(k) == {<<"add", GlobalId(o)>> : o \in OutputsOf(TxsOf(k))}
                     \cup {<<"rem", GlobalId(o)>> : o \in SpentBy(TxsOf(k))}
             K == {j \in 1..h : j > h - Window}
  <2>1. RowOk(L, ends, h, rows[h])
    BY DEF ScannerInv, Heights
  <2>2. rows[h].utxo_hash = EventsOf(L, a(f), b(h))
    BY <2>1, Zenon DEF RowOk, HashOf
  <2>3. /\ K = f..h /\ \A k \in f..h : k \in Heights
        /\ a(f) \in Nat /\ b(h) \in Nat
        /\ \A t \in Nat : a(f) <= t /\ t <= b(h) => \E k \in f..h : In(ends, k, t)
        /\ \A k \in f..h : a(f) <= a(k) /\ b(k) <= b(h)
    BY KeptBlocks, Zenon
  <2>4. \A k \in f..h : E(k) = EventsOf(L, a(k), b(k))
    BY <2>3, EventsLinked, Zenon
  <2>5. \A k \in f..h : a(k) \in Nat /\ b(k) \in Nat
    BY <2>3, BlockLinked
  <2>6. L \in Seq(Tx)
    BY ScannedLinked
  <2>7. Outs(L) \in Seq(Nat) /\ Ins(L) \in Seq(Nat)
    BY <2>6, LedgerTyped
  <2>8. ASSUME NEW k \in f..h, NEW t \in Nat PROVE In(ends, k, t) => a(k) <= t /\ t <= b(k)
    <3>1. Fin(ends, k - 1) \in Nat
      <4>1. EndsOk(ledger, ends) /\ ends \in Seq(Nat) /\ k \in 1..Len(ends) /\ ledger \in Seq(Tx)
        BY <2>3 DEF ScannerInv, EndsOk, LedgerOk, Heights
      <4>2. k - 1 \in 0..Len(ends)
        BY <4>1
      <4> QED BY <4>1, <4>2, FinGrows
    <3> QED BY <3>1 DEF In
  <2> HIDE DEF f, a, b, L, E, K
  <2>9. ASSUME NEW W \in Seq(Nat), NEW q
        PROVE  q \in To(W, a(f), <<b(h) + 1, 1>>) <=> \E k \in f..h : q \in To(W, a(k), <<b(k) + 1, 1>>)
    <3>1. q \in To(W, a(f), <<b(h) + 1, 1>>) <=> q \in Cells(W) /\ a(f) <= q[1] /\ q[1] <= b(h)
      BY <2>3, RowCells
    <3>2. \A k \in f..h : q \in To(W, a(k), <<b(k) + 1, 1>>) <=> q \in Cells(W) /\ a(k) <= q[1] /\ q[1] <= b(k)
      BY <2>5, RowCells
    <3>3. q \in Cells(W) => q[1] \in Nat
      BY CellTyped
    <3>4. ASSUME q \in Cells(W), a(f) <= q[1], q[1] <= b(h)
          PROVE  \E k \in f..h : a(k) <= q[1] /\ q[1] <= b(k)
      BY <2>3, <2>8, <3>3, <3>4
    <3>5. ASSUME NEW k \in f..h, q \in Cells(W), a(k) <= q[1], q[1] <= b(k)
          PROVE  a(f) <= q[1] /\ q[1] <= b(h)
      BY <2>3, <2>5, <3>3, <3>5
    <3> QED BY <3>1, <3>2, <3>4, <3>5
  <2> DEFINE O(k) == OutsOf(L, a(k), b(k))
             X(k) == InsOf(L, a(k), b(k))
  <2>10. \A q : q \in OutsOf(L, a(f), b(h)) <=> \E k \in f..h : q \in O(k)
    BY <2>7, <2>9 DEF OutsOf
  <2>11. \A q : q \in InsOf(L, a(f), b(h)) <=> \E k \in f..h : q \in X(k)
    BY <2>7, <2>9 DEF InsOf
  <2> DEFINE XX == InsOf(L, a(f), b(h))
             OO == OutsOf(L, a(f), b(h))
  <2>12. EventsOf(L, a(f), b(h)) = Events(L, OO, Outpoints(L, XX))
    BY Zenon DEF EventsOf
  <2>13. \A k \in f..h : E(k) = Events(L, O(k), Outpoints(L, X(k)))
    BY <2>4, Zenon DEF EventsOf
  <2> HIDE DEF XX, OO, O, X
  <2>14. \A q : q \in OO <=> \E k \in f..h : q \in O(k)
    BY <2>10 DEF OO, O
  <2>15. \A o : o \in Outpoints(L, XX) <=> \E k \in f..h : o \in Outpoints(L, X(k))
    <3>1. \A q : q \in XX <=> \E k \in f..h : q \in X(k)
      BY <2>11 DEF XX, X
    <3> QED BY <3>1 DEF Outpoints, Known
  <2>16. ASSUME NEW S, NEW T, NEW y
         PROVE  y \in Events(L, S, T) <=>
                  (\E o \in S : y = <<"add", Id(L, o)>>) \/ (\E o \in T : y = <<"rem", Id(L, o)>>)
    BY DEF Events
  <2>17. ASSUME NEW y PROVE y \in Events(L, OO, Outpoints(L, XX)) <=> \E k \in f..h : y \in E(k)
    <3>1. y \in Events(L, OO, Outpoints(L, XX)) <=>
            \/ \E o \in OO : y = <<"add", Id(L, o)>>
            \/ \E o \in Outpoints(L, XX) : y = <<"rem", Id(L, o)>>
      BY <2>16
    <3>2. \A k \in f..h : y \in E(k) <=>
            \/ \E o \in O(k) : y = <<"add", Id(L, o)>>
            \/ \E o \in Outpoints(L, X(k)) : y = <<"rem", Id(L, o)>>
      <4>1. \A k \in f..h : y \in E(k) <=> y \in Events(L, O(k), Outpoints(L, X(k)))
        BY <2>13, Zenon
      <4> QED BY <2>16, <4>1
    <3>3. (\E o \in OO : y = <<"add", Id(L, o)>>) <=> \E k \in f..h : \E o \in O(k) : y = <<"add", Id(L, o)>>
      BY <2>14, Zenon
    <3>4. (\E o \in Outpoints(L, XX) : y = <<"rem", Id(L, o)>>) <=>
            \E k \in f..h : \E o \in Outpoints(L, X(k)) : y = <<"rem", Id(L, o)>>
      BY <2>15, Zenon
    <3> QED BY <3>1, <3>2, <3>3, <3>4, Zenon
  <2>18. rows[h].utxo_hash = UNION {E(k) : k \in K}
    <3>1. \A y : y \in UNION {E(k) : k \in K} <=> \E k \in K : y \in E(k)
      OBVIOUS
    <3> DEFINE U == UNION {E(k) : k \in K}
               V == Events(L, OO, Outpoints(L, XX))
    <3>2. \A y : y \in U <=> y \in V
      BY <2>3, <2>17, <3>1
    <3> HIDE DEF U, V
    <3>3. U = V
      BY <3>2
    <3> QED BY <2>2, <2>12, <3>3, Zenon DEF U, V
  <2> QED BY <2>18, Zenon DEF E, K
<1> QED BY <1>1, ScannerInvariant, PTL

\* The counters an input moves.
LEMMA InputMoves ==
  ASSUME NEW L, NEW e, NEW x, Path(L, x) \in Paths
  PROVE  LET known == Prev(L, x) \notin PreScan
             p2tr == known /\ Kind(L, Prev(L, x)) # Other
             path == Path(L, x)
             C == InputCounters(L, e, x)
         IN  /\ "spends" \in C <=> known
             /\ "same_block_spends" \in C <=> known /\ Same(L, e, x)
             /\ "p2tr_spends" \in C <=> p2tr
             /\ "p2tr_same_block_spends" \in C <=> p2tr /\ Same(L, e, x)
             /\ "p2tr_keypath_spends" \in C <=> p2tr /\ path = "Key"
             /\ "p2tr_scriptpath_spends" \in C <=> p2tr /\ path \in {"ScriptNonNums", "ScriptNums"}
             /\ "p2tr_nums_spends" \in C <=> p2tr /\ path = "ScriptNums"
             /\ "p2tr_sp_eligible_spends" \in C <=> p2tr /\ path \in {"Key", "ScriptNonNums"}
             /\ "same_tx_spends" \notin C /\ "p2tr_same_tx_spends" \notin C
             /\ "outputs" \notin C /\ "p2tr_outputs" \notin C /\ "p2tr_reused" \notin C
             /\ "nonsp_txs" \notin C /\ "nonsp_tx_outputs" \notin C
<1> DEFINE known == Prev(L, x) \notin PreScan
           kind == Kind(L, Prev(L, x))
           path == Path(L, x)
           C == InputCounters(L, e, x)
           ctx == IF Same(L, e, x) THEN "SameBlock" ELSE "Earlier"
<1>1. ~known => C = {}
  BY Zenon DEF InputCounters
<1>2. known /\ kind = Other => C = RunSpend(ctx) \cup {}
  BY Zenon DEF InputCounters
<1>3. known /\ kind # Other => C = RunSpend(ctx) \cup RunP2trSpend(path, ctx)
  BY Zenon DEF InputCounters
<1>4. /\ Same(L, e, x) => ctx = "SameBlock" /\ ctx # "SameTx" /\ ctx # "Earlier"
      /\ ~Same(L, e, x) => ctx = "Earlier" /\ ctx # "SameTx" /\ ctx # "SameBlock"
  OBVIOUS
<1>5. path = "Key" \/ path = "ScriptNonNums" \/ path = "ScriptNums"
  BY DEF Paths
<1> HIDE DEF C, ctx, path, kind, known
<1>6. \A c : c \in RunSpend(ctx) <=> c = "spends" \/ (c = "same_block_spends" /\ Same(L, e, x))
  BY <1>4 DEF RunSpend
<1>7. \A c : c \in RunP2trSpend(path, ctx) <=>
          c \in PathSpend(path) \/ (c = "p2tr_same_block_spends" /\ Same(L, e, x))
  <2> HIDE DEF PathSpend
  <2> QED BY <1>4 DEF RunP2trSpend
<1>8. \A c : c \in PathSpend(path) <=>
          \/ c = "p2tr_spends"
          \/ c = "p2tr_keypath_spends" /\ path = "Key"
          \/ c = "p2tr_scriptpath_spends" /\ path \in {"ScriptNonNums", "ScriptNums"}
          \/ c = "p2tr_nums_spends" /\ path = "ScriptNums"
          \/ c = "p2tr_sp_eligible_spends" /\ path \in {"Key", "ScriptNonNums"}
  <2>1. CASE path = "Key"
    <3>1. PathSpend(path) = {"p2tr_spends"} \cup {"p2tr_keypath_spends", "p2tr_sp_eligible_spends"}
      BY <2>1 DEF PathSpend
    <3> QED BY <2>1, <3>1
  <2>2. CASE path = "ScriptNonNums"
    <3>1. PathSpend(path) = {"p2tr_spends"} \cup {"p2tr_scriptpath_spends", "p2tr_sp_eligible_spends"}
      BY <2>2 DEF PathSpend
    <3> QED BY <2>2, <3>1
  <2>3. CASE path = "ScriptNums"
    <3>1. PathSpend(path) = {"p2tr_spends"} \cup {"p2tr_scriptpath_spends", "p2tr_nums_spends"}
      BY <2>3 DEF PathSpend
    <3> QED BY <2>3, <3>1
  <2> QED BY <1>5, <2>1, <2>2, <2>3
<1>9. \A c : c \in C <=>
         /\ known
         /\ \/ c = "spends"
            \/ c = "same_block_spends" /\ Same(L, e, x)
            \/ kind # Other /\ c \in PathSpend(path)
            \/ kind # Other /\ c = "p2tr_same_block_spends" /\ Same(L, e, x)
  BY <1>1, <1>2, <1>3, <1>6, <1>7
<1>10. \A c : c \in C <=>
         /\ known
         /\ \/ c = "spends"
            \/ c = "same_block_spends" /\ Same(L, e, x)
            \/ kind # Other /\ c = "p2tr_same_block_spends" /\ Same(L, e, x)
            \/ kind # Other /\ c = "p2tr_spends"
            \/ kind # Other /\ c = "p2tr_keypath_spends" /\ path = "Key"
            \/ kind # Other /\ c = "p2tr_scriptpath_spends" /\ path \in {"ScriptNonNums", "ScriptNums"}
            \/ kind # Other /\ c = "p2tr_nums_spends" /\ path = "ScriptNums"
            \/ kind # Other /\ c = "p2tr_sp_eligible_spends" /\ path \in {"Key", "ScriptNonNums"}
  BY <1>8, <1>9
<1>11. /\ "spends" \in C <=> known
       /\ "same_block_spends" \in C <=> known /\ Same(L, e, x)
       /\ "p2tr_spends" \in C <=> known /\ kind # Other
       /\ "p2tr_same_block_spends" \in C <=> known /\ kind # Other /\ Same(L, e, x)
       /\ "p2tr_keypath_spends" \in C <=> known /\ kind # Other /\ path = "Key"
       /\ "p2tr_scriptpath_spends" \in C <=> known /\ kind # Other /\ path \in {"ScriptNonNums", "ScriptNums"}
       /\ "p2tr_nums_spends" \in C <=> known /\ kind # Other /\ path = "ScriptNums"
       /\ "p2tr_sp_eligible_spends" \in C <=> known /\ kind # Other /\ path \in {"Key", "ScriptNonNums"}
  BY <1>10
<1>12. /\ "same_tx_spends" \notin C /\ "p2tr_same_tx_spends" \notin C
       /\ "outputs" \notin C /\ "p2tr_outputs" \notin C /\ "p2tr_reused" \notin C
       /\ "nonsp_txs" \notin C /\ "nonsp_tx_outputs" \notin C
  BY <1>10
<1> QED BY <1>11, <1>12 DEF C, path, kind, known

\* The counters an output moves.
LEMMA OutputMoves ==
  ASSUME NEW L, NEW o, NEW c
  PROVE  c \in CountersOf(L, o) <=>
            \/ c = "outputs"
            \/ c = "p2tr_outputs" /\ Kind(L, o) # Other
            \/ c = "p2tr_reused" /\ Kind(L, o) # Other /\ SeenBefore(L, o)
            \/ c = "nonsp_tx_outputs" /\ NumsOnly(L, o[1])
BY DEF CountersOf, OutputCounters

\* The transactions filtered as non-silent-payment.
LEMMA NonSpLinked ==
  ASSUME ScannerInv, NEW a \in Nat \ {0}, NEW b \in Nat, b <= Fin(ends, Len(ends))
  PROVE  /\ NonSpTxs(a..b) = {t \in a..b : NumsOnly(ledger, t)}
         /\ OutputsOf(NonSpTxs(a..b)) = {o \in OutsOf(ledger, a, b) : NumsOnly(ledger, o[1])}
<1> DEFINE L == ledger
           T == a..b
           last == Fin(ends, Len(ends))
<1>1. L \in Seq(Tx) /\ last \in Nat /\ last <= Len(L) /\ Len(L) \in Nat
  <2>1. L \in Seq(Tx) /\ last \in Nat /\ last <= Len(L)
    BY ScannedLinked
  <2> QED BY <2>1
<1>2. b <= Len(L)
  <2> HIDE DEF last, L
  <2>1. b <= last
    BY DEF last
  <2> QED BY <1>1, <2>1
<1>3. Linked(a, b)
  BY <1>1, <1>2, TxsLinked
<1>4. /\ \A o : KindAt(o) = Kind(L, o)
      /\ \A x : PrevAt(x) = Prev(L, x) /\ PathAt(x) = Path(L, x)
  BY PlacesLinked
<1> HIDE DEF T
<1>5. ASSUME NEW t \in T
      PROVE  InputsOf({t}) \subseteq Taking(T, {"ScriptNums"}) <=>
               \A i \in DOMAIN L[t].inputs :
                 /\ Prev(L, <<t, i>>) \notin PreScan
                 /\ Kind(L, Prev(L, <<t, i>>)) # Other /\ Path(L, <<t, i>>) = "ScriptNums"
  <2>1. \A x : x \in InputsOf({t}) <=> \E i \in DOMAIN ledger[t].inputs : x = <<t, i>>
    BY DEF InputsOf
  <2>2. \A x : x \in InputsOf({t}) => x \in InputsOf(T)
    BY DEF InputsOf
  <2>3. \A x \in InputsOf(T) : x \in Taking(T, {"ScriptNums"}) <=>
           Prev(L, x) \notin PreScan /\ Kind(L, Prev(L, x)) # Other /\ Path(L, x) = "ScriptNums"
    BY <1>4 DEF Taking, SpendsOf
  <2>4. \A x : x \in Taking(T, {"ScriptNums"}) => x \in InputsOf(T)
    BY DEF Taking, SpendsOf
  <2>5. InputsOf({t}) \subseteq Taking(T, {"ScriptNums"}) <=>
           \A i \in DOMAIN ledger[t].inputs : <<t, i>> \in Taking(T, {"ScriptNums"})
    BY <2>1
  <2>6. \A i \in DOMAIN ledger[t].inputs : <<t, i>> \in InputsOf(T)
    BY <2>1, <2>2
  <2> QED BY <2>3, <2>5, <2>6, Zenon DEF L
<1>6. NonSpTxs(T) = {t \in T : NumsOnly(L, t)}
  <2>1. \A t \in T : NumsOnly(L, t) <=>
           ledger[t].inputs # << >> /\ InputsOf({t}) \subseteq Taking(T, {"ScriptNums"})
    BY <1>5, Zenon DEF NumsOnly, L
  <2> QED BY <2>1 DEF NonSpTxs
<1>7. OutputsOf(T) = OutsOf(L, a, b)
  BY <1>3, Zenon DEF Linked, T, L
<1>8. OutputsOf(NonSpTxs(T)) = {o \in OutputsOf(T) : NumsOnly(L, o[1])}
  <2> DEFINE N(t) == NumsOnly(L, t)
             D(t) == DOMAIN ledger[t].outputs
             S == {t \in T : N(t)}
  <2>1. \A U : \A o : o \in OutputsOf(U) <=> \E t \in U : \E v \in D(t) : o = <<t, v>>
    BY DEF OutputsOf
  <2> HIDE DEF N, D
  <2>2. ASSUME NEW o PROVE o \in OutputsOf(S) <=> o \in OutputsOf(T) /\ N(o[1])
    <3>1. ASSUME o \in OutputsOf(S) PROVE o \in OutputsOf(T) /\ N(o[1])
      <4>1. PICK t \in S : \E v \in D(t) : o = <<t, v>>
        BY <2>1, <3>1
      <4>2. t \in T /\ N(t) /\ o[1] = t
        BY <4>1
      <4> QED BY <2>1, <4>1, <4>2
    <3>2. ASSUME o \in OutputsOf(T), N(o[1]) PROVE o \in OutputsOf(S)
      <4>1. PICK t \in T : \E v \in D(t) : o = <<t, v>>
        BY <2>1, <3>2
      <4>2. o[1] = t
        BY <4>1
      <4>3. t \in S
        BY <3>2, <4>2
      <4> QED BY <2>1, <4>1, <4>3
    <3> QED BY <3>1, <3>2
  <2>3. NonSpTxs(T) = S
    BY <1>6 DEF N
  <2> HIDE DEF S
  <2>4. OutputsOf(S) = {o \in OutputsOf(T) : N(o[1])}
    <3> DEFINE A == OutputsOf(S)
               B == {o \in OutputsOf(T) : N(o[1])}
    <3>1. \A o : o \in A <=> o \in B
      BY <2>2
    <3> HIDE DEF A, B
    <3>2. A = B
      BY <3>1
    <3> QED BY <3>2 DEF A, B
  <2> QED BY <2>3, <2>4, Zenon DEF N
<1> QED BY <1>6, <1>7, <1>8, Zenon DEF T, L

\* A tally counts what the reference definition says.
LEMMA TallyLinked ==
  ASSUME ScannerInv, NEW a \in Nat \ {0}, NEW b \in Nat, b <= Fin(ends, Len(ends)), NEW c \in RunCounters
  PROVE  Tally(ledger, ends, c, InsOf(ledger, a, b), OutsOf(ledger, a, b), a..b) = Cardinality(Counted(c, a..b))
<1> DEFINE L == ledger
           last == Fin(ends, Len(ends))
           T == a..b
           X == InsOf(L, a, b)
           O == OutsOf(L, a, b)
           XI(k) == {x \in X : k \in InputCounters(L, ends, x)}
           OI(k) == {o \in O : k \in CountersOf(L, o)}
           TI(k) == {t \in T : k \in TxCounters(L, t)}
<1> SUFFICES Tally(L, ends, c, X, O, T) = Cardinality(Counted(c, T))
  OBVIOUS
<1>1. L \in Seq(Tx) /\ last \in Nat /\ last <= Len(L) /\ Len(L) \in Nat
  <2>1. L \in Seq(Tx) /\ last \in Nat /\ last <= Len(L)
    BY ScannedLinked
  <2> QED BY <2>1
<1>2. b <= last
  OBVIOUS
<1>3. b <= Len(L)
  <2> HIDE DEF last, L
  <2> QED BY <1>1, <1>2
<1>4. OutputsOf(T) = O /\ InputsOf(T) = X /\ SpendsOf(T) = Known(L, X)
  <2>1. Linked(a, b)
    BY <1>1, <1>3, TxsLinked
  <2> QED BY <2>1, Zenon DEF Linked
<1>5. /\ \A o \in Cells(Outs(L)) : o[1] <= last => (Reused(o) <=> SeenBefore(L, o))
      /\ \A o : KindAt(o) = Kind(L, o)
      /\ \A x : PrevAt(x) = Prev(L, x) /\ PathAt(x) = Path(L, x)
      /\ \A x \in Cells(Ins(L)) : Prev(L, x) \notin PreScan => (SameBlock(x) <=> Same(L, ends, x))
  BY PlacesLinked
<1>6. /\ Outs(L) \in Seq(Nat) /\ Ins(L) \in Seq(Nat)
      /\ \A x \in Cells(Ins(L)) : Path(L, x) \in Paths
  BY <1>1, LedgerTyped
<1>7. /\ NonSpTxs(T) = {t \in T : NumsOnly(L, t)}
      /\ OutputsOf(NonSpTxs(T)) = {o \in O : NumsOnly(L, o[1])}
  BY NonSpLinked
<1>8. IsFiniteSet(X) /\ IsFiniteSet(O) /\ IsFiniteSet(T)
  <2>1. IsFiniteSet(X) /\ IsFiniteSet(O)
    BY <1>6, CellsFinite, Zenon DEF InsOf, OutsOf
  <2>2. IsFiniteSet(T)
    BY FS_Interval
  <2> QED BY <2>1, <2>2
<1> HIDE DEF L, last
<1>9. \A x \in X : x \in Cells(Ins(L)) /\ Path(L, x) \in Paths
  BY <1>6, RowCells DEF InsOf
<1>10. \A o \in O : o \in Cells(Outs(L)) /\ o[1] <= last
  <2>1. \A o \in O : o \in Cells(Outs(L)) /\ o[1] <= b
    BY <1>6, RowCells DEF OutsOf
  <2>2. \A o \in Cells(Outs(L)) : o[1] \in Nat
    BY <1>6, CellTyped
  <2> HIDE DEF O
  <2> QED BY <1>1, <1>2, <2>1, <2>2
<1>11. \A o \in O : Reused(o) <=> SeenBefore(L, o)
  BY <1>5, <1>10
<1>12. \A x \in X : Prev(L, x) \notin PreScan => (SameBlock(x) <=> Same(L, ends, x))
  BY <1>5, <1>9
<1> HIDE DEF X, O, T
<1>13. /\ Tally(L, ends, c, X, O, T) = Cardinality(XI(c)) + Cardinality(OI(c)) + Cardinality(TI(c))
       /\ Cardinality(XI(c)) \in Nat /\ Cardinality(OI(c)) \in Nat /\ Cardinality(TI(c)) \in Nat
  <2>1. Tally(L, ends, c, X, O, T) = Cardinality(XI(c)) + Cardinality(OI(c)) + Cardinality(TI(c))
    BY Zenon DEF Tally
  <2>2. XI(c) \subseteq X /\ OI(c) \subseteq O /\ TI(c) \subseteq T
    OBVIOUS
  <2> HIDE DEF XI, OI, TI
  <2>3. IsFiniteSet(XI(c)) /\ IsFiniteSet(OI(c)) /\ IsFiniteSet(TI(c))
    BY <1>8, <2>2, FS_Subset
  <2>4. Cardinality(XI(c)) \in Nat /\ Cardinality(OI(c)) \in Nat /\ Cardinality(TI(c)) \in Nat
    BY <2>3, FS_CardinalityType
  <2> QED BY <2>1, <2>4
<1>14. Cardinality({}) = 0
  BY FS_EmptySet
<1>15. /\ OI(c) = {} /\ TI(c) = {} => Tally(L, ends, c, X, O, T) = Cardinality(XI(c))
       /\ XI(c) = {} /\ TI(c) = {} => Tally(L, ends, c, X, O, T) = Cardinality(OI(c))
       /\ XI(c) = {} /\ OI(c) = {} => Tally(L, ends, c, X, O, T) = Cardinality(TI(c))
  <2> HIDE DEF XI, OI, TI
  <2>1. \A p, q, r \in Nat : p + 0 + 0 = p /\ 0 + q + 0 = q /\ 0 + 0 + r = r
    OBVIOUS
  <2> QED BY <1>13, <1>14, <2>1
<1>16. \A k, t : k \in TxCounters(L, t) <=> k = "nonsp_txs" /\ NumsOnly(L, t)
  BY DEF TxCounters
<1>17. \A k : k # "nonsp_txs" => TI(k) = {}
  BY <1>16
<1>18. \A k : k \notin {"outputs", "p2tr_outputs", "p2tr_reused", "nonsp_tx_outputs"} => OI(k) = {}
  <2>1. \A k, o : k \in CountersOf(L, o) => k \in {"outputs", "p2tr_outputs", "p2tr_reused", "nonsp_tx_outputs"}
    BY OutputMoves
  <2> QED BY <2>1
<1>19. \A x \in X :
         LET known == Prev(L, x) \notin PreScan
             p2tr == known /\ Kind(L, Prev(L, x)) # Other
             path == Path(L, x)
             C == InputCounters(L, ends, x)
         IN  /\ "spends" \in C <=> known
             /\ "same_block_spends" \in C <=> known /\ Same(L, ends, x)
             /\ "p2tr_spends" \in C <=> p2tr
             /\ "p2tr_same_block_spends" \in C <=> p2tr /\ Same(L, ends, x)
             /\ "p2tr_keypath_spends" \in C <=> p2tr /\ path = "Key"
             /\ "p2tr_scriptpath_spends" \in C <=> p2tr /\ path \in {"ScriptNonNums", "ScriptNums"}
             /\ "p2tr_nums_spends" \in C <=> p2tr /\ path = "ScriptNums"
             /\ "p2tr_sp_eligible_spends" \in C <=> p2tr /\ path \in {"Key", "ScriptNonNums"}
             /\ "same_tx_spends" \notin C /\ "p2tr_same_tx_spends" \notin C
             /\ "outputs" \notin C /\ "p2tr_outputs" \notin C /\ "p2tr_reused" \notin C
             /\ "nonsp_txs" \notin C /\ "nonsp_tx_outputs" \notin C
  BY <1>9, InputMoves
<1>20. \A k \in {"outputs", "p2tr_outputs", "p2tr_reused", "nonsp_txs", "nonsp_tx_outputs",
                "same_tx_spends", "p2tr_same_tx_spends"} : XI(k) = {}
  BY <1>19
<1>21. ASSUME NEW paths
       PROVE  Taking(T, paths) = {x \in X : /\ Prev(L, x) \notin PreScan /\ Kind(L, Prev(L, x)) # Other
                                            /\ Path(L, x) \in paths}
  BY <1>4, <1>5 DEF Taking, Known
<1>22. \A x \in X : Path(L, x) \in Paths
  BY <1>9
<1> HIDE DEF XI, OI, TI
<1>23. CASE c = "spends"
  <2>1. Counted(c, T) = SpendsOf(T)
    BY <1>23 DEF Counted
  <2>2. XI(c) = SpendsOf(T)
    BY <1>4, <1>12, <1>19, <1>23 DEF XI, Known
  <2>3. OI(c) = {} /\ TI(c) = {}
    BY <1>17, <1>18, <1>23
  <2> QED BY <1>15, <2>1, <2>2, <2>3, Zenon
<1>24. CASE c = "same_block_spends"
  <2>1. Counted(c, T) = {x \in SpendsOf(T) : SameBlock(x)}
    BY <1>24 DEF Counted
  <2>2. XI(c) = {x \in SpendsOf(T) : SameBlock(x)}
    BY <1>4, <1>12, <1>19, <1>24 DEF XI, Known
  <2>3. OI(c) = {} /\ TI(c) = {}
    BY <1>17, <1>18, <1>24
  <2> QED BY <1>15, <2>1, <2>2, <2>3, Zenon
<1>25. CASE c = "p2tr_spends"
  <2>1. Counted(c, T) = Taking(T, Paths)
    BY <1>25 DEF Counted
  <2>2. XI(c) = Taking(T, Paths)
    BY <1>12, <1>19, <1>21, <1>22, <1>25 DEF XI
  <2>3. OI(c) = {} /\ TI(c) = {}
    BY <1>17, <1>18, <1>25
  <2> QED BY <1>15, <2>1, <2>2, <2>3, Zenon
<1>26. CASE c = "p2tr_same_block_spends"
  <2>1. Counted(c, T) = {x \in Taking(T, Paths) : SameBlock(x)}
    BY <1>26 DEF Counted
  <2>2. XI(c) = {x \in Taking(T, Paths) : SameBlock(x)}
    BY <1>12, <1>19, <1>21, <1>22, <1>26 DEF XI
  <2>3. OI(c) = {} /\ TI(c) = {}
    BY <1>17, <1>18, <1>26
  <2> QED BY <1>15, <2>1, <2>2, <2>3, Zenon
<1>27. CASE c = "p2tr_keypath_spends"
  <2>1. Counted(c, T) = Taking(T, {"Key"})
    BY <1>27 DEF Counted
  <2>2. XI(c) = Taking(T, {"Key"})
    BY <1>12, <1>19, <1>21, <1>22, <1>27 DEF XI
  <2>3. OI(c) = {} /\ TI(c) = {}
    BY <1>17, <1>18, <1>27
  <2> QED BY <1>15, <2>1, <2>2, <2>3, Zenon
<1>28. CASE c = "p2tr_scriptpath_spends"
  <2>1. Counted(c, T) = Taking(T, {"ScriptNonNums", "ScriptNums"})
    BY <1>28 DEF Counted
  <2>2. XI(c) = Taking(T, {"ScriptNonNums", "ScriptNums"})
    BY <1>12, <1>19, <1>21, <1>22, <1>28 DEF XI
  <2>3. OI(c) = {} /\ TI(c) = {}
    BY <1>17, <1>18, <1>28
  <2> QED BY <1>15, <2>1, <2>2, <2>3, Zenon
<1>29. CASE c = "p2tr_nums_spends"
  <2>1. Counted(c, T) = Taking(T, {"ScriptNums"})
    BY <1>29 DEF Counted
  <2>2. XI(c) = Taking(T, {"ScriptNums"})
    BY <1>12, <1>19, <1>21, <1>22, <1>29 DEF XI
  <2>3. OI(c) = {} /\ TI(c) = {}
    BY <1>17, <1>18, <1>29
  <2> QED BY <1>15, <2>1, <2>2, <2>3, Zenon
<1>30. CASE c = "p2tr_sp_eligible_spends"
  <2>1. Counted(c, T) = Taking(T, {"Key", "ScriptNonNums"})
    BY <1>30 DEF Counted
  <2>2. XI(c) = Taking(T, {"Key", "ScriptNonNums"})
    BY <1>12, <1>19, <1>21, <1>22, <1>30 DEF XI
  <2>3. OI(c) = {} /\ TI(c) = {}
    BY <1>17, <1>18, <1>30
  <2> QED BY <1>15, <2>1, <2>2, <2>3, Zenon
<1>31. CASE c = "outputs"
  <2>1. Counted(c, T) = OutputsOf(T)
    BY <1>31 DEF Counted
  <2>2. OI(c) = OutputsOf(T)
    BY <1>4, <1>31, OutputMoves DEF OI
  <2>3. XI(c) = {} /\ TI(c) = {}
    BY <1>17, <1>20, <1>31
  <2> QED BY <1>15, <2>1, <2>2, <2>3, Zenon
<1>32. CASE c = "p2tr_outputs"
  <2>1. Counted(c, T) = P2trOutputs(T)
    BY <1>32 DEF Counted
  <2>2. OI(c) = P2trOutputs(T)
    BY <1>4, <1>5, <1>32, OutputMoves DEF OI, P2trOutputs
  <2>3. XI(c) = {} /\ TI(c) = {}
    BY <1>17, <1>20, <1>32
  <2> QED BY <1>15, <2>1, <2>2, <2>3, Zenon
<1>33. CASE c = "p2tr_reused"
  <2>1. Counted(c, T) = {o \in P2trOutputs(T) : Reused(o)}
    BY <1>33 DEF Counted
  <2>2. OI(c) = {o \in P2trOutputs(T) : Reused(o)}
    BY <1>4, <1>5, <1>11, <1>33, OutputMoves DEF OI, P2trOutputs
  <2>3. XI(c) = {} /\ TI(c) = {}
    BY <1>17, <1>20, <1>33
  <2> QED BY <1>15, <2>1, <2>2, <2>3, Zenon
<1>34. CASE c = "nonsp_tx_outputs"
  <2>1. Counted(c, T) = OutputsOf(NonSpTxs(T))
    BY <1>34 DEF Counted
  <2>2. OI(c) = OutputsOf(NonSpTxs(T))
    BY <1>7, <1>34, OutputMoves DEF OI
  <2>3. XI(c) = {} /\ TI(c) = {}
    BY <1>17, <1>20, <1>34
  <2> QED BY <1>15, <2>1, <2>2, <2>3, Zenon
<1>35. CASE c = "nonsp_txs"
  <2>1. Counted(c, T) = NonSpTxs(T)
    BY <1>35 DEF Counted
  <2>2. TI(c) = NonSpTxs(T)
    BY <1>7, <1>16, <1>35 DEF TI
  <2>3. XI(c) = {} /\ OI(c) = {}
    BY <1>18, <1>20, <1>35
  <2> QED BY <1>15, <2>1, <2>2, <2>3, Zenon
<1>36. CASE c = "same_tx_spends" \/ c = "p2tr_same_tx_spends"
  <2>1. Counted(c, T) = {}
    BY <1>36 DEF Counted
  <2>2. XI(c) = {}
    BY <1>20, <1>36
  <2>3. OI(c) = {} /\ TI(c) = {}
    BY <1>17, <1>18, <1>36
  <2> QED BY <1>15, <2>1, <2>2, <2>3, Zenon
<1> HIDE DEF L, X, O, T
<1> QED BY <1>23, <1>24, <1>25, <1>26, <1>27, <1>28, <1>29, <1>30, <1>31, <1>32, <1>33, <1>34, <1>35, <1>36 DEF RunCounters, RowCounters, PathCounters

\* The counters of a row and the totals of the run count the ledger, whatever
\* order its spends come in.
THEOREM CountsAlwaysExact == Spec => []CountsExact
<1>1. ScannerInv => CountsExact
  <2> SUFFICES ASSUME ScannerInv PROVE CountsExact
    OBVIOUS
  <2>1. ASSUME NEW h \in Heights, NEW c \in RowCounters
        PROVE  rows[h].counts[c] = Cardinality(Counted(c, TxsOf(h)))
    <3> DEFINE a == Fin(ends, h - 1) + 1
               b == Fin(ends, h)
               f == [k \in RowCounters |-> Tally(ledger, ends, k, InsOf(ledger, a, b), OutsOf(ledger, a, b), a..b)]
    <3>1. a \in Nat \ {0} /\ b \in Nat /\ b <= Fin(ends, Len(ends)) /\ TxsOf(h) = a..b
      BY BlockLinked
    <3>2. RowOk(ledger, ends, h, rows[h])
      BY DEF ScannerInv, Heights
    <3>3. rows[h].counts = f
      BY <3>2, Zenon DEF RowOk
    <3>4. c \in RunCounters
      BY DEF RunCounters
    <3> HIDE DEF a, b
    <3>5. Tally(ledger, ends, c, InsOf(ledger, a, b), OutsOf(ledger, a, b), a..b) = Cardinality(Counted(c, a..b))
      BY <3>1, <3>4, TallyLinked
    <3>6. f[c] = Tally(ledger, ends, c, InsOf(ledger, a, b), OutsOf(ledger, a, b), a..b)
      OBVIOUS
    <3> QED BY <3>1, <3>3, <3>5, <3>6, Zenon
  <2>2. ASSUME NEW c \in RunCounters PROVE state.stats[c] = Cardinality(Counted(c, Scanned))
    <3> DEFINE b == Fin(ends, Len(ends))
               f == [k \in RunCounters |-> Tally(ledger, ends, k, InsOf(ledger, 1, b), OutsOf(ledger, 1, b), 1..b)]
    <3>1. b \in Nat /\ b <= Fin(ends, Len(ends)) /\ Scanned = 1..b
      BY ScannedLinked
    <3>2. StateOk(ledger, ends, state)
      BY DEF ScannerInv
    <3>3. state.stats = f
      BY <3>2, Zenon DEF StateOk
    <3> HIDE DEF b
    <3>4. Tally(ledger, ends, c, InsOf(ledger, 1, b), OutsOf(ledger, 1, b), 1..b) = Cardinality(Counted(c, 1..b))
      BY <3>1, TallyLinked
    <3>5. f[c] = Tally(ledger, ends, c, InsOf(ledger, 1, b), OutsOf(ledger, 1, b), 1..b)
      OBVIOUS
    <3> QED BY <3>1, <3>3, <3>4, <3>5, Zenon
  <2> QED BY <2>1, <2>2, Zenon DEF CountsExact
<1> QED BY <1>1, ScannerInvariant, PTL
=============================================================================
