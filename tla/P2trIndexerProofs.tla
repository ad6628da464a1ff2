-------------------------- MODULE P2trIndexerProofs --------------------------
(***************************************************************************)
(* SpendsExact, StoredWellFormed and ReuseFlagged of P2trIndexer for       *)
(* ledgers of any length, any keys and any number of blocks.               *)
(*                                                                         *)
(* A place <<t, v>> in the ledger stands for the outputs before it; what   *)
(* the loop of apply_block has accumulated when it reaches a place is      *)
(* stated over the ledger: UIDs and indexes count the P2TR and the indexed *)
(* outputs before a place, the spend map holds the indexed outputs before  *)
(* it that no input read so far spends.  AccOk says so for the             *)
(* accumulators; ApplyInput and ApplyOutput carry it from place to place,  *)
(* and at the end of a block it is the invariant of the state.             *)
(***************************************************************************)
EXTENDS P2trIndexer, FiniteSetTheorems, WellFoundedInduction, TLAPS

Kinds == Keys \cup {Other, Nums}
Tx == [inputs : Seq(Nat \X Nat), outputs : Seq(Kinds), tweak : BOOLEAN]
OutputRecord == [key : Kinds, reused : BOOLEAN]
SpendRecord == [uid : Nat, creation_height : Nat]
TweakRecord == [output_count : Nat, tweak : Nat]
Stored ==
    [first_uid : Nat, tx_count : Nat, tweaks : Seq(TweakRecord), skipped_txs : SUBSET Nat,
     skipped_outputs : Seq(Nat), outputs : Seq(OutputRecord), spends : Seq(SpendRecord),
     slots : Nat]

\* The P2TR and the indexed outputs of ledger L from transaction a on that
\* come before place p.
Kind(L, o) == L[o[1]].outputs[o[2]]
P2tr(L, a, p) == {q \in Created(L) : a <= q[1] /\ Before(q, p) /\ IsP2tr(Kind(L, q))}
Indexed(L, a, p) == {q \in P2tr(L, a, p) : Kind(L, q) # Nums /\ L[q[1]].tweak}

\* The UID of a P2TR output, and the index of an indexed output in a block
\* that starts with transaction a.
Uid(L, o) == 1 + Cardinality(P2tr(L, 1, o))
Index(L, a, o) == 1 + Cardinality(Indexed(L, a, o))

\* Blocks end at e; In(e, h, t) says that block h holds transaction t.
Fin(e, h) == IF h = 0 THEN 0 ELSE e[h]
In(e, h, t) == Fin(e, h - 1) < t /\ t <= Fin(e, h)
HeightOf(e, t) == CHOOSE h \in 1..Len(e) : In(e, h, t)

\* What the spend map holds for output o, and what its spending is listed as.
Value(L, e, o) ==
    [uid |-> Uid(L, o), height |-> HeightOf(e, o[1]),
     index |-> Index(L, Fin(e, HeightOf(e, o[1]) - 1) + 1, o)]
Entry(L, e, o) == [uid |-> Uid(L, o), creation_height |-> HeightOf(e, o[1])]

SpentIn(L, a, b) == UNION {ToSet(L[t].inputs) : t \in a..b}

\* The keys before place p, and whether that of output o is among those
\* before it, for a state that tracks them.
SeenTo(L, tr, p) == IF tr THEN {Kind(L, q) : q \in P2tr(L, 1, p)} ELSE {}
Reused(L, tr, o) == tr /\ \E q \in P2tr(L, 1, o) : Kind(L, q) = Kind(L, o)

\* Inputs spend earlier outputs, each once.
LedgerOk(L) ==
    /\ L \in Seq(Tx)
    /\ \A t \in DOMAIN L : \A i \in DOMAIN L[t].inputs :
          L[t].inputs[i] \in Created(L) /\ L[t].inputs[i][1] < t
    /\ \A t, u \in DOMAIN L : \A i \in DOMAIN L[t].inputs, j \in DOMAIN L[u].inputs :
          L[t].inputs[i] = L[u].inputs[j] => t = u /\ i = j

\* Blocks follow one another and hold every transaction up to the last end.
EndsOk(L, e) ==
    /\ e \in Seq(Nat)
    /\ \A h \in 1..Len(e) : 1 <= e[h] /\ e[h] <= Len(L)
    /\ \A h, k \in 1..Len(e) : h < k => e[h] < e[k]
    /\ \A t \in 1..Fin(e, Len(e)) : \E h \in 1..Len(e) : In(e, h, t)

\* The state after the blocks e.
StateOk(L, e, s) ==
    LET last == Fin(e, Len(e))
        p == <<last + 1, 1>>
    IN  /\ DOMAIN s = {"next_uid", "spend", "tracking", "seen"}
        /\ s.next_uid \in Nat /\ s.next_uid + 1 = Uid(L, p)
        /\ s.tracking \in BOOLEAN
        /\ s.seen = SeenTo(L, s.tracking, p)
        /\ DOMAIN s.spend = Indexed(L, 1, p) \ SpentIn(L, 1, last)
        /\ \A o \in DOMAIN s.spend : s.spend[o] = Value(L, e, o)

\* The spend entries xs of a block that holds transactions first to last.
SpendsOk(L, e, first, last, xs) ==
    /\ ToSet(xs) = {Entry(L, e, o) : o \in Indexed(L, 1, <<last + 1, 1>>) \cap SpentIn(L, first, last)}
    /\ IsInjective([i \in DOMAIN xs |-> xs[i].uid])

\* Its dense outputs.
OutputsOk(L, tr, first, p, xs) ==
    /\ Len(xs) = Cardinality(Indexed(L, first, p))
    /\ \A o \in Indexed(L, first, p) :
          xs[Index(L, first, o)] = [key |-> Kind(L, o), reused |-> Reused(L, tr, o)]

\* Its tweaks and its skipped transactions, the ones without an indexed output.
NoneIndexed(L, t) ==
    \A v \in DOMAIN L[t].outputs :
        ~(IsP2tr(Kind(L, <<t, v>>)) /\ Kind(L, <<t, v>>) # Nums /\ L[t].tweak)

TweaksOk(L, first, last, tweaks, skipped, outputs) ==
    /\ skipped = {t - first : t \in {t \in first..last : NoneIndexed(L, t)}}
    /\ IsFiniteSet(skipped)
    /\ Len(tweaks) + Cardinality(skipped) = last + 1 - first
    /\ \A i \in DOMAIN tweaks : tweaks[i].output_count > 0
    /\ OutputCount(tweaks) = Len(outputs)

\* Block h of those that end at e is stored as b.
BlockOk(L, e, tr, h, b) ==
    LET first == Fin(e, h - 1) + 1 IN
    /\ b.first_uid = Uid(L, <<first, 1>>)
    /\ b.first_uid + b.slots = Uid(L, <<e[h] + 1, 1>>)
    /\ b.tx_count = e[h] + 1 - first
    /\ b.slots = Len(b.outputs) + Len(b.skipped_outputs)
    /\ SpendsOk(L, e, first, e[h], b.spends)
    /\ OutputsOk(L, tr, first, <<e[h] + 1, 1>>, b.outputs)
    /\ TweaksOk(L, first, e[h], b.tweaks, b.skipped_txs, b.outputs)

IndexerInv ==
    /\ LedgerOk(ledger)
    /\ EndsOk(ledger, ends)
    /\ StateOk(ledger, ends, state)
    /\ stored \in Seq(Stored) /\ Len(stored) = Len(ends)
    /\ \A h \in 1..Len(ends) : BlockOk(ledger, ends, state.tracking, h, stored[h])

-----------------------------------------------------------------------------
(* Places in the ledger.                                                   *)

\* An output is a transaction of the ledger and a position in its outputs.
LEMMA OutputTyped ==
  ASSUME NEW L \in Seq(Tx)
  PROVE  /\ \A o : o \in Created(L) <=> \E t \in DOMAIN L : \E v \in DOMAIN L[t].outputs : o = <<t, v>>
         /\ \A t \in DOMAIN L : /\ L[t].outputs \in Seq(Kinds) /\ L[t].tweak \in BOOLEAN
                                /\ L[t].inputs \in Seq(Nat \X Nat)
         /\ \A o \in Created(L) : /\ o[1] \in 1..Len(L) /\ o[1] \in DOMAIN L /\ o[1] \in Nat
                                  /\ o[2] \in DOMAIN L[o[1]].outputs /\ o[2] \in Nat \ {0}
                                  /\ o = <<o[1], o[2]>> /\ Kind(L, o) \in Kinds
<1>1. \A o : o \in Created(L) <=> \E t \in DOMAIN L : \E v \in DOMAIN L[t].outputs : o = <<t, v>>
  BY DEF Created
<1>2. \A t \in DOMAIN L : /\ L[t].outputs \in Seq(Kinds) /\ L[t].tweak \in BOOLEAN
                          /\ L[t].inputs \in Seq(Nat \X Nat)
  <2>1. \A t \in DOMAIN L : L[t] \in Tx
    OBVIOUS
  <2> QED BY <2>1 DEF Tx
<1>3. ASSUME NEW o \in Created(L)
      PROVE  /\ o[1] \in 1..Len(L) /\ o[1] \in DOMAIN L /\ o[1] \in Nat
             /\ o[2] \in DOMAIN L[o[1]].outputs /\ o[2] \in Nat \ {0}
             /\ o = <<o[1], o[2]>> /\ Kind(L, o) \in Kinds
  <2>1. PICK t \in DOMAIN L : \E v \in DOMAIN L[t].outputs : o = <<t, v>>
    BY <1>1
  <2>2. PICK v \in DOMAIN L[t].outputs : o = <<t, v>>
    BY <2>1
  <2>3. L[t].outputs \in Seq(Kinds)
    BY <1>2
  <2>4. t \in 1..Len(L) /\ v \in Nat \ {0} /\ L[t].outputs[v] \in Kinds
    BY <2>3
  <2> QED BY <2>2, <2>4 DEF Kind
<1> QED BY <1>1, <1>2, <1>3, Zenon

\* There are finitely many outputs before a place.
LEMMA Counted ==
  ASSUME NEW L \in Seq(Tx), NEW a, NEW p
  PROVE  /\ IsFiniteSet(P2tr(L, a, p)) /\ Cardinality(P2tr(L, a, p)) \in Nat
         /\ IsFiniteSet(Indexed(L, a, p)) /\ Cardinality(Indexed(L, a, p)) \in Nat
<1> DEFINE f == [t \in DOMAIN L |-> {t} \X DOMAIN L[t].outputs]
           R == {{t} \X DOMAIN L[t].outputs : t \in DOMAIN L}
<1>1. IsFiniteSet(DOMAIN L)
  <2>1. DOMAIN L = 1..Len(L) /\ Len(L) \in Int /\ 1 \in Int
    OBVIOUS
  <2> QED BY <2>1, FS_Interval
<1>2. f \in Surjection(DOMAIN L, R)
  BY DEF Surjection
<1>3. IsFiniteSet(R)
  <2> HIDE DEF f, R
  <2> QED BY <1>1, <1>2, FS_Surjection
<1>4. ASSUME NEW T \in R PROVE IsFiniteSet(T)
  <2>1. PICK t \in DOMAIN L : T = {t} \X DOMAIN L[t].outputs
    OBVIOUS
  <2>2. DOMAIN L[t].outputs = 1..Len(L[t].outputs) /\ Len(L[t].outputs) \in Int /\ 1 \in Int
    <3>1. L[t].outputs \in Seq(Kinds)
      BY OutputTyped
    <3> QED BY <3>1
  <2>3. IsFiniteSet({t})
    BY FS_Singleton
  <2>4. IsFiniteSet(DOMAIN L[t].outputs)
    BY <2>2, FS_Interval
  <2> QED BY <2>1, <2>3, <2>4, FS_Product
<1> HIDE DEF R
<1>5. IsFiniteSet(UNION R)
  BY <1>3, <1>4, FS_UNION
<1>6. Created(L) = UNION R
  BY DEF Created, R
<1>7. P2tr(L, a, p) \in SUBSET UNION R /\ Indexed(L, a, p) \in SUBSET UNION R
  BY <1>6 DEF P2tr, Indexed
<1>8. IsFiniteSet(P2tr(L, a, p)) /\ IsFiniteSet(Indexed(L, a, p))
  BY <1>5, <1>7, FS_Subset
<1> QED BY <1>8, FS_CardinalityType

\* The outputs before the next place are those before this one, and perhaps
\* the output here.
PlaceStep(L, a, t, v) ==
    LET o == <<t, v>>
        n == <<t, v + 1>>
        p2tr == IsP2tr(Kind(L, o))
        indexed == p2tr /\ Kind(L, o) # Nums /\ L[t].tweak
    IN  /\ o \in Created(L) /\ o \notin P2tr(L, a, o) /\ o \notin Indexed(L, a, o)
        /\ P2tr(L, a, n) = IF p2tr THEN P2tr(L, a, o) \cup {o} ELSE P2tr(L, a, o)
        /\ Indexed(L, a, n) = IF indexed THEN Indexed(L, a, o) \cup {o} ELSE Indexed(L, a, o)
        /\ Cardinality(P2tr(L, a, n)) =
             IF p2tr THEN Cardinality(P2tr(L, a, o)) + 1 ELSE Cardinality(P2tr(L, a, o))
        /\ Cardinality(Indexed(L, a, n)) =
             IF indexed THEN Cardinality(Indexed(L, a, o)) + 1 ELSE Cardinality(Indexed(L, a, o))

LEMMA NextPlace ==
  ASSUME NEW L \in Seq(Tx), NEW t \in DOMAIN L, NEW v \in DOMAIN L[t].outputs, NEW a \in Nat, a <= t
  PROVE  PlaceStep(L, a, t, v)
<1> DEFINE o == <<t, v>>
           n == <<t, v + 1>>
           p2tr == IsP2tr(Kind(L, o))
           indexed == p2tr /\ Kind(L, o) # Nums /\ L[t].tweak
<1>1. o \in Created(L) /\ t \in Nat /\ v \in Nat /\ o[1] = t /\ o[2] = v
  BY OutputTyped
<1>2. ASSUME NEW q \in Created(L) PROVE Before(q, n) <=> Before(q, o) \/ q = o
  <2>1. q[1] \in Nat /\ q[2] \in Nat /\ q = <<q[1], q[2]>>
    BY OutputTyped
  <2> QED BY <1>1, <2>1 DEF Before
<1>3. ~Before(o, o)
  BY <1>1 DEF Before
<1> HIDE DEF o, n
<1>4. o \notin P2tr(L, a, o) /\ o \notin Indexed(L, a, o)
  BY <1>3 DEF P2tr, Indexed
<1>5. P2tr(L, a, n) = IF p2tr THEN P2tr(L, a, o) \cup {o} ELSE P2tr(L, a, o)
  BY <1>1, <1>2 DEF P2tr
<1>6. Indexed(L, a, n) = IF indexed THEN Indexed(L, a, o) \cup {o} ELSE Indexed(L, a, o)
  BY <1>1, <1>5 DEF Indexed
<1>7. /\ Cardinality(P2tr(L, a, o) \cup {o}) = Cardinality(P2tr(L, a, o)) + 1
      /\ Cardinality(Indexed(L, a, o) \cup {o}) = Cardinality(Indexed(L, a, o)) + 1
  BY <1>4, Counted, FS_AddElement
<1> HIDE DEF p2tr, indexed
<1>8. /\ o \in Created(L) /\ o \notin P2tr(L, a, o) /\ o \notin Indexed(L, a, o)
      /\ P2tr(L, a, n) = IF p2tr THEN P2tr(L, a, o) \cup {o} ELSE P2tr(L, a, o)
      /\ Indexed(L, a, n) = IF indexed THEN Indexed(L, a, o) \cup {o} ELSE Indexed(L, a, o)
      /\ Cardinality(P2tr(L, a, n)) =
           IF p2tr THEN Cardinality(P2tr(L, a, o)) + 1 ELSE Cardinality(P2tr(L, a, o))
      /\ Cardinality(Indexed(L, a, n)) =
           IF indexed THEN Cardinality(Indexed(L, a, o)) + 1 ELSE Cardinality(Indexed(L, a, o))
  BY <1>1, <1>4, <1>5, <1>6, <1>7
<1> QED BY <1>8 DEF PlaceStep, o, n, p2tr, indexed

\* After the last output of a transaction comes the next transaction.
LEMMA NextTx ==
  ASSUME NEW L \in Seq(Tx), NEW t \in DOMAIN L, NEW a
  PROVE  /\ P2tr(L, a, <<t, Len(L[t].outputs) + 1>>) = P2tr(L, a, <<t + 1, 1>>)
         /\ Indexed(L, a, <<t, Len(L[t].outputs) + 1>>) = Indexed(L, a, <<t + 1, 1>>)
<1> DEFINE p == <<t, Len(L[t].outputs) + 1>>
           n == <<t + 1, 1>>
<1>1. L[t].outputs \in Seq(Kinds) /\ t \in Nat
  BY OutputTyped
<1>2. ASSUME NEW q \in Created(L) PROVE Before(q, p) <=> Before(q, n)
  <2>1. q[1] \in Nat /\ q[2] \in Nat \ {0} /\ q[2] \in DOMAIN L[q[1]].outputs
    BY OutputTyped
  <2>2. q[1] = t => q[2] <= Len(L[t].outputs)
    BY <1>1, <2>1
  <2>3. Len(L[t].outputs) \in Nat
    BY <1>1
  <2> QED BY <1>1, <2>1, <2>2, <2>3 DEF Before
<1> HIDE DEF p, n
<1>3. P2tr(L, a, p) = P2tr(L, a, n)
  BY <1>2 DEF P2tr
<1>4. Indexed(L, a, p) = Indexed(L, a, n)
  BY <1>3 DEF Indexed
<1> QED BY <1>3, <1>4 DEF p, n

\* Counts grow from an output to a later place.
LEMMA CountsGrow ==
  ASSUME NEW L \in Seq(Tx), NEW a, NEW p \in Nat \X Nat, NEW o
  PROVE  /\ o \in P2tr(L, a, p) => Cardinality(P2tr(L, a, o)) < Cardinality(P2tr(L, a, p))
         /\ o \in Indexed(L, a, p) => Cardinality(Indexed(L, a, o)) < Cardinality(Indexed(L, a, p))
<1> SUFFICES ASSUME o \in P2tr(L, a, p)
             PROVE  /\ Cardinality(P2tr(L, a, o)) < Cardinality(P2tr(L, a, p))
                    /\ o \in Indexed(L, a, p) =>
                         Cardinality(Indexed(L, a, o)) < Cardinality(Indexed(L, a, p))
  BY DEF Indexed
<1>1. o \in Created(L) /\ Before(o, p) /\ o[1] \in Nat /\ o[2] \in Nat /\ p[1] \in Nat /\ p[2] \in Nat
  BY OutputTyped DEF P2tr
<1>2. ASSUME NEW q \in Created(L), Before(q, o) PROVE Before(q, p) /\ q # o
  <2>1. q[1] \in Nat /\ q[2] \in Nat
    BY OutputTyped
  <2> QED BY <1>1, <1>2, <2>1 DEF Before
<1>3. P2tr(L, a, o) \subseteq P2tr(L, a, p) /\ o \notin P2tr(L, a, o)
  BY <1>2 DEF P2tr
<1>4. Indexed(L, a, o) \subseteq Indexed(L, a, p) /\ o \notin Indexed(L, a, o)
  BY <1>3 DEF Indexed
<1>5. ASSUME NEW S, NEW T, IsFiniteSet(T), S \subseteq T, o \in T, o \notin S
      PROVE  Cardinality(S) < Cardinality(T)
  <2>1. S \in SUBSET T /\ S # T
    BY <1>5
  <2>2. IsFiniteSet(S) /\ Cardinality(S) <= Cardinality(T) /\ Cardinality(S) # Cardinality(T)
    BY <1>5, <2>1, FS_Subset
  <2>3. Cardinality(S) \in Nat /\ Cardinality(T) \in Nat
    BY <1>5, <2>2, FS_CardinalityType
  <2> QED BY <2>2, <2>3
<1> QED BY <1>3, <1>4, <1>5, Counted

\* Different P2TR outputs have different UIDs.
LEMMA UidUnique ==
  ASSUME NEW L \in Seq(Tx), NEW p, NEW o \in P2tr(L, 1, p), NEW q \in P2tr(L, 1, p), Uid(L, o) = Uid(L, q)
  PROVE  o = q
<1>1. /\ o \in Created(L) /\ q \in Created(L) /\ 1 <= o[1] /\ 1 <= q[1]
      /\ IsP2tr(Kind(L, o)) /\ IsP2tr(Kind(L, q))
      /\ o \in Nat \X Nat /\ q \in Nat \X Nat
      /\ o = <<o[1], o[2]>> /\ q = <<q[1], q[2]>>
      /\ o[1] \in Nat /\ o[2] \in Nat /\ q[1] \in Nat /\ q[2] \in Nat
  <2>1. o \in Created(L) /\ q \in Created(L) /\ 1 <= o[1] /\ 1 <= q[1] /\ IsP2tr(Kind(L, o)) /\ IsP2tr(Kind(L, q))
    BY DEF P2tr
  <2> QED BY <2>1, OutputTyped
<1>2. o = q \/ Before(o, q) \/ Before(q, o)
  BY <1>1 DEF Before
<1>3. Cardinality(P2tr(L, 1, o)) = Cardinality(P2tr(L, 1, q))
  <2>1. Cardinality(P2tr(L, 1, o)) \in Nat /\ Cardinality(P2tr(L, 1, q)) \in Nat
    BY Counted
  <2> QED BY <2>1 DEF Uid
<1>4. CASE Before(o, q)
  <2>1. o \in P2tr(L, 1, q)
    BY <1>1, <1>4 DEF P2tr
  <2>2. Cardinality(P2tr(L, 1, o)) < Cardinality(P2tr(L, 1, q)) /\ Cardinality(P2tr(L, 1, o)) \in Nat
    BY <1>1, <2>1, Counted, CountsGrow
  <2> QED BY <1>3, <2>2
<1>5. CASE Before(q, o)
  <2>1. q \in P2tr(L, 1, o)
    BY <1>1, <1>5 DEF P2tr
  <2>2. Cardinality(P2tr(L, 1, q)) < Cardinality(P2tr(L, 1, o)) /\ Cardinality(P2tr(L, 1, o)) \in Nat
    BY <1>1, <2>1, Counted, CountsGrow
  <2> QED BY <1>3, <2>2
<1> QED BY <1>2, <1>4, <1>5

\* The UID of an output counts from the UID its block starts with.
LEMMA UidFromBlock ==
  ASSUME NEW L \in Seq(Tx), NEW a \in Nat \ {0}, NEW p \in Nat \X Nat, a <= p[1], 1 <= p[2]
  PROVE  Uid(L, p) = Uid(L, <<a, 1>>) + Cardinality(P2tr(L, a, p))
<1> DEFINE S == P2tr(L, 1, <<a, 1>>)
           T == P2tr(L, a, p)
<1>1. \A q \in Created(L) :
        /\ Before(q, p) /\ 1 <= q[1] <=> Before(q, <<a, 1>>) \/ (a <= q[1] /\ Before(q, p))
        /\ 1 <= q[1]
        /\ ~(Before(q, <<a, 1>>) /\ a <= q[1])
  <2> SUFFICES ASSUME NEW q \in Created(L)
               PROVE  /\ Before(q, p) /\ 1 <= q[1] <=> Before(q, <<a, 1>>) \/ (a <= q[1] /\ Before(q, p))
                      /\ 1 <= q[1]
                      /\ ~(Before(q, <<a, 1>>) /\ a <= q[1])
    OBVIOUS
  <2>1. q[1] \in 1..Len(L) /\ q[2] \in Nat \ {0}
    BY OutputTyped
  <2> QED BY <2>1 DEF Before
<1>2. P2tr(L, 1, p) = S \cup T /\ S \cap T = {}
  BY <1>1 DEF P2tr
<1> HIDE DEF S, T
<1>3. IsFiniteSet(S) /\ IsFiniteSet(T) /\ Cardinality(S) \in Nat /\ Cardinality(T) \in Nat
  BY Counted DEF S, T
<1>4. Cardinality(P2tr(L, 1, p)) = Cardinality(S) + Cardinality(T) - Cardinality({})
  BY <1>2, <1>3, FS_Union
<1>5. Cardinality({}) = 0
  BY FS_EmptySet
<1> QED BY <1>3, <1>4, <1>5 DEF Uid, S, T

-----------------------------------------------------------------------------
(* The loops.                                                              *)

LEMMA LeastNatural ==
  ASSUME NEW S \in SUBSET Nat, S # {}
  PROVE  \E m \in S : \A n \in S : m <= n
<1> DEFINE R == {p \in Nat \X Nat : p[1] < p[2]}
<1>1. OpToRel(<, Nat) = R
  BY DEF OpToRel
<1>2. IsWellFoundedOn(R, Nat)
  BY <1>1, NatLessThanWellFounded
<1> HIDE DEF R
<1>3. PICK m \in S : \A n \in S : ~(<<n, m>> \in R)
  BY <1>2, WFMin
<1>4. \A n \in S : ~(n < m)
  BY <1>3 DEF R
<1> QED BY <1>3, <1>4

\* The accumulators the loop over the inputs of a transaction passes through.
InputTrace(acc, tx, after) ==
    /\ ApplyTxInputs(acc, tx) = after[Len(tx.inputs)]
    /\ after[0] = acc
    /\ \A n \in 1..Len(tx.inputs) : after[n] = ApplyInput(after[n - 1], tx.inputs[n])

LEMMA InputSteps ==
  ASSUME NEW acc, NEW tx, Len(tx.inputs) \in Nat
  PROVE  \E after : InputTrace(acc, tx, after)
<1> DEFINE last == Len(tx.inputs)
           Def(g, n) == IF n = 0 THEN acc ELSE ApplyInput(g[n - 1], tx.inputs[n])
           Good(g, m) == g = [n \in 0..m |-> Def(g, n)]
           after == CHOOSE g : Good(g, last)
           Bad == {m \in 0..last : ~\E g : Good(g, m)}
<1>1. ApplyTxInputs(acc, tx) = after[last]
  BY DEF ApplyTxInputs
<1> HIDE DEF last
<1>2. last \in Nat
  BY DEF last
<1>3. Bad = {}
  <2> SUFFICES ASSUME Bad # {} PROVE FALSE
    OBVIOUS
  <2>1. PICK m \in Bad : \A n \in Bad : m <= n
    <3>1. Bad \in SUBSET Nat
      BY <1>2
    <3> HIDE DEF Bad
    <3> QED BY <3>1, LeastNatural
  <2>2. m # 0
    <3> DEFINE g == [n \in 0..0 |-> acc]
    <3>1. Good(g, 0)
      OBVIOUS
    <3> HIDE DEF Good
    <3> QED BY <2>1, <3>1
  <2>3. m - 1 \in 0..last /\ ~(m <= m - 1) /\ m \in 1..last
    BY <1>2, <2>1, <2>2
  <2>4. PICK g : Good(g, m - 1)
    <3> HIDE DEF Good
    <3> QED BY <2>1, <2>3
  <2> DEFINE f == [n \in 0..m |-> IF n = m THEN Def(g, m) ELSE g[n]]
  <2>5. ASSUME NEW n \in 0..m PROVE f[n] = Def(f, n)
    <3>1. CASE n = m
      <4>1. f[n] = Def(g, n)
        BY <2>5, <3>1
      <4>2. f[n - 1] = g[n - 1]
        BY <2>3, <3>1
      <4> HIDE DEF f
      <4> QED BY <4>1, <4>2
    <3>2. CASE n # m
      <4>1. n \in 0..(m - 1) /\ f[n] = g[n]
        BY <2>3, <2>5, <3>2
      <4>2. g[n] = Def(g, n)
        BY <2>4, <4>1
      <4>3. n # 0 => f[n - 1] = g[n - 1]
        BY <2>3, <4>1
      <4> HIDE DEF f
      <4> QED BY <4>1, <4>2, <4>3
    <3> QED BY <3>1, <3>2
  <2>6. Good(f, m)
    BY <2>5
  <2> HIDE DEF Good
  <2> QED BY <2>1, <2>6
<1>4. Good(after, last)
  <2>1. last \in 0..last
    BY <1>2
  <2> HIDE DEF Good
  <2>2. \E g : Good(g, last)
    BY <1>3, <2>1
  <2> QED BY <2>2, Zenon
<1> HIDE DEF after
<1>5. after[0] = acc
  BY <1>2, <1>4
<1>6. \A n \in 1..last : after[n] = ApplyInput(after[n - 1], tx.inputs[n])
  BY <1>2, <1>4
<1> QED BY <1>1, <1>5, <1>6 DEF InputTrace, last

\* The same for the loop over its outputs.
OutputTrace(acc, height, txid, tx, after) ==
    /\ ApplyTxOutputs(acc, height, txid, tx) = after[Len(tx.outputs)]
    /\ after[0] = acc
    /\ \A n \in 1..Len(tx.outputs) : after[n] = ApplyOutput(after[n - 1], height, txid, tx.tweak, n, tx.outputs[n])

LEMMA OutputSteps ==
  ASSUME NEW acc, NEW height, NEW txid, NEW tx, Len(tx.outputs) \in Nat
  PROVE  \E after : OutputTrace(acc, height, txid, tx, after)
<1> DEFINE last == Len(tx.outputs)
           Def(g, n) == IF n = 0 THEN acc ELSE ApplyOutput(g[n - 1], height, txid, tx.tweak, n, tx.outputs[n])
           Good(g, m) == g = [n \in 0..m |-> Def(g, n)]
           after == CHOOSE g : Good(g, last)
           Bad == {m \in 0..last : ~\E g : Good(g, m)}
<1>1. ApplyTxOutputs(acc, height, txid, tx) = after[last]
  BY DEF ApplyTxOutputs
<1> HIDE DEF last
<1>2. last \in Nat
  BY DEF last
<1>3. Bad = {}
  <2> SUFFICES ASSUME Bad # {} PROVE FALSE
    OBVIOUS
  <2>1. PICK m \in Bad : \A n \in Bad : m <= n
    <3>1. Bad \in SUBSET Nat
      BY <1>2
    <3> HIDE DEF Bad
    <3> QED BY <3>1, LeastNatural
  <2>2. m # 0
    <3> DEFINE g == [n \in 0..0 |-> acc]
    <3>1. Good(g, 0)
      OBVIOUS
    <3> HIDE DEF Good
    <3> QED BY <2>1, <3>1
  <2>3. m - 1 \in 0..last /\ ~(m <= m - 1) /\ m \in 1..last
    BY <1>2, <2>1, <2>2
  <2>4. PICK g : Good(g, m - 1)
    <3> HIDE DEF Good
    <3> QED BY <2>1, <2>3
  <2> DEFINE f == [n \in 0..m |-> IF n = m THEN Def(g, m) ELSE g[n]]
  <2>5. ASSUME NEW n \in 0..m PROVE f[n] = Def(f, n)
    <3>1. CASE n = m
      <4>1. f[n] = Def(g, n)
        BY <2>5, <3>1
      <4>2. f[n - 1] = g[n - 1]
        BY <2>3, <3>1
      <4> HIDE DEF f
      <4> QED BY <4>1, <4>2
    <3>2. CASE n # m
      <4>1. n \in 0..(m - 1) /\ f[n] = g[n]
        BY <2>3, <2>5, <3>2
      <4>2. g[n] = Def(g, n)
        BY <2>4, <4>1
      <4>3. n # 0 => f[n - 1] = g[n - 1]
        BY <2>3, <4>1
      <4> HIDE DEF f
      <4> QED BY <4>1, <4>2, <4>3
    <3> QED BY <3>1, <3>2
  <2>6. Good(f, m)
    BY <2>5
  <2> HIDE DEF Good
  <2> QED BY <2>1, <2>6
<1>4. Good(after, last)
  <2>1. last \in 0..last
    BY <1>2
  <2> HIDE DEF Good
  <2>2. \E g : Good(g, last)
    BY <1>3, <2>1
  <2> QED BY <2>2, Zenon
<1> HIDE DEF after
<1>5. after[0] = acc
  BY <1>2, <1>4
<1>6. \A n \in 1..last : after[n] = ApplyOutput(after[n - 1], height, txid, tx.tweak, n, tx.outputs[n])
  BY <1>2, <1>4
<1> QED BY <1>1, <1>5, <1>6 DEF OutputTrace, last

\* The same for the loop over the transactions of a block.
TxTrace(s, height, first_txid, txs, after) ==
    /\ ApplyTxs(s, height, first_txid, txs) = after[Len(txs)]
    /\ after[0] = BlockStart(s)
    /\ \A n \in 1..Len(txs) : after[n] = ApplyTx(after[n - 1], height, first_txid + n - 1, n - 1, txs[n])

LEMMA TxSteps ==
  ASSUME NEW s, NEW height, NEW first_txid, NEW txs, Len(txs) \in Nat
  PROVE  \E after : TxTrace(s, height, first_txid, txs, after)
<1> DEFINE last == Len(txs)
           Def(g, n) == IF n = 0 THEN BlockStart(s) ELSE ApplyTx(g[n - 1], height, first_txid + n - 1, n - 1, txs[n])
           Good(g, m) == g = [n \in 0..m |-> Def(g, n)]
           after == CHOOSE g : Good(g, last)
           Bad == {m \in 0..last : ~\E g : Good(g, m)}
<1>1. ApplyTxs(s, height, first_txid, txs) = after[last]
  BY DEF ApplyTxs
<1> HIDE DEF last
<1>2. last \in Nat
  BY DEF last
<1>3. Bad = {}
  <2> SUFFICES ASSUME Bad # {} PROVE FALSE
    OBVIOUS
  <2>1. PICK m \in Bad : \A n \in Bad : m <= n
    <3>1. Bad \in SUBSET Nat
      BY <1>2
    <3> HIDE DEF Bad
    <3> QED BY <3>1, LeastNatural
  <2>2. m # 0
    <3> DEFINE g == [n \in 0..0 |-> BlockStart(s)]
    <3>1. Good(g, 0)
      OBVIOUS
    <3> HIDE DEF Good
    <3> QED BY <2>1, <3>1
  <2>3. m - 1 \in 0..last /\ ~(m <= m - 1) /\ m \in 1..last
    BY <1>2, <2>1, <2>2
  <2>4. PICK g : Good(g, m - 1)
    <3> HIDE DEF Good
    <3> QED BY <2>1, <2>3
  <2> DEFINE f == [n \in 0..m |-> IF n = m THEN Def(g, m) ELSE g[n]]
  <2>5. ASSUME NEW n \in 0..m PROVE f[n] = Def(f, n)
    <3>1. CASE n = m
      <4>1. f[n] = Def(g, n)
        BY <2>5, <3>1
      <4>2. f[n - 1] = g[n - 1]
        BY <2>3, <3>1
      <4> HIDE DEF f
      <4> QED BY <4>1, <4>2
    <3>2. CASE n # m
      <4>1. n \in 0..(m - 1) /\ f[n] = g[n]
        BY <2>3, <2>5, <3>2
      <4>2. g[n] = Def(g, n)
        BY <2>4, <4>1
      <4>3. n # 0 => f[n - 1] = g[n - 1]
        BY <2>3, <4>1
      <4> HIDE DEF f
      <4> QED BY <4>1, <4>2, <4>3
    <3> QED BY <3>1, <3>2
  <2>6. Good(f, m)
    BY <2>5
  <2> HIDE DEF Good
  <2> QED BY <2>1, <2>6
<1>4. Good(after, last)
  <2>1. last \in 0..last
    BY <1>2
  <2> HIDE DEF Good
  <2>2. \E g : Good(g, last)
    BY <1>3, <2>1
  <2> QED BY <2>2, Zenon
<1> HIDE DEF after
<1>5. after[0] = BlockStart(s)
  BY <1>2, <1>4
<1>6. \A n \in 1..last : after[n] = ApplyTx(after[n - 1], height, first_txid + n - 1, n - 1, txs[n])
  BY <1>2, <1>4
<1> QED BY <1>1, <1>5, <1>6 DEF TxTrace, last

\* The sums OutputCount passes through.
CountTrace(tweaks, after) ==
    /\ OutputCount(tweaks) = after[Len(tweaks)]
    /\ after[0] = 0
    /\ \A n \in 1..Len(tweaks) : after[n] = after[n - 1] + tweaks[n].output_count

LEMMA CountSteps ==
  ASSUME NEW tweaks, Len(tweaks) \in Nat
  PROVE  \E after : CountTrace(tweaks, after)
<1> DEFINE last == Len(tweaks)
           Def(g, n) == IF n = 0 THEN 0 ELSE g[n - 1] + tweaks[n].output_count
           Good(g, m) == g = [n \in 0..m |-> Def(g, n)]
           after == CHOOSE g : Good(g, last)
           Bad == {m \in 0..last : ~\E g : Good(g, m)}
<1>1. OutputCount(tweaks) = after[last]
  BY DEF OutputCount
<1> HIDE DEF last
<1>2. last \in Nat
  BY DEF last
<1>3. Bad = {}
  <2> SUFFICES ASSUME Bad # {} PROVE FALSE
    OBVIOUS
  <2>1. PICK m \in Bad : \A n \in Bad : m <= n
    <3>1. Bad \in SUBSET Nat
      BY <1>2
    <3> HIDE DEF Bad
    <3> QED BY <3>1, LeastNatural
  <2>2. m # 0
    <3> DEFINE g == [n \in 0..0 |-> 0]
    <3>1. Good(g, 0)
      OBVIOUS
    <3> HIDE DEF Good
    <3> QED BY <2>1, <3>1
  <2>3. m - 1 \in 0..last /\ ~(m <= m - 1) /\ m \in 1..last
    BY <1>2, <2>1, <2>2
  <2>4. PICK g : Good(g, m - 1)
    <3> HIDE DEF Good
    <3> QED BY <2>1, <2>3
  <2> DEFINE f == [n \in 0..m |-> IF n = m THEN Def(g, m) ELSE g[n]]
  <2>5. ASSUME NEW n \in 0..m PROVE f[n] = Def(f, n)
    <3>1. CASE n = m
      <4>1. f[n] = Def(g, n)
        BY <2>5, <3>1
      <4>2. f[n - 1] = g[n - 1]
        BY <2>3, <3>1
      <4> HIDE DEF f
      <4> QED BY <4>1, <4>2
    <3>2. CASE n # m
      <4>1. n \in 0..(m - 1) /\ f[n] = g[n]
        BY <2>3, <2>5, <3>2
      <4>2. g[n] = Def(g, n)
        BY <2>4, <4>1
      <4>3. n # 0 => f[n - 1] = g[n - 1]
        BY <2>3, <4>1
      <4> HIDE DEF f
      <4> QED BY <4>1, <4>2, <4>3
    <3> QED BY <3>1, <3>2
  <2>6. Good(f, m)
    BY <2>5
  <2> HIDE DEF Good
  <2> QED BY <2>1, <2>6
<1>4. Good(after, last)
  <2>1. last \in 0..last
    BY <1>2
  <2> HIDE DEF Good
  <2>2. \E g : Good(g, last)
    BY <1>3, <2>1
  <2> QED BY <2>2, Zenon
<1> HIDE DEF after
<1>5. after[0] = 0
  BY <1>2, <1>4
<1>6. \A n \in 1..last : after[n] = after[n - 1] + tweaks[n].output_count
  BY <1>2, <1>4
<1> QED BY <1>1, <1>5, <1>6 DEF CountTrace, last

\* A further tweak entry adds the outputs it announces.
LEMMA CountAppend ==
  ASSUME NEW T \in Seq(TweakRecord), NEW x \in TweakRecord
  PROVE  /\ OutputCount(Append(T, x)) = OutputCount(T) + x.output_count
         /\ OutputCount(<< >>) = 0
<1> DEFINE U == Append(T, x)
<1>1. /\ Len(T) \in Nat /\ Len(U) = Len(T) + 1 /\ U[Len(T) + 1] = x
      /\ \A n \in 1..Len(T) : U[n] = T[n]
  OBVIOUS
<1> HIDE DEF U
<1>2. PICK f : /\ OutputCount(T) = f[Len(T)] /\ f[0] = 0
               /\ \A n \in 1..Len(T) : f[n] = f[n - 1] + T[n].output_count
  BY <1>1, CountSteps DEF CountTrace
<1>3. PICK g : /\ OutputCount(U) = g[Len(U)] /\ g[0] = 0
               /\ \A n \in 1..Len(U) : g[n] = g[n - 1] + U[n].output_count
  BY <1>1, CountSteps DEF CountTrace
<1> DEFINE Bad == {m \in 0..Len(T) : f[m] # g[m]}
<1>4. Bad = {}
  <2> SUFFICES ASSUME Bad # {} PROVE FALSE
    OBVIOUS
  <2>1. PICK m \in Bad : \A n \in Bad : m <= n
    <3>1. Bad \in SUBSET Nat
      BY <1>1
    <3> HIDE DEF Bad
    <3> QED BY <3>1, LeastNatural
  <2>2. m # 0
    BY <1>2, <1>3, <2>1
  <2>3. m \in 1..Len(T) /\ m \in 1..Len(U) /\ m - 1 \in 0..Len(T) /\ ~(m <= m - 1)
    BY <1>1, <2>1, <2>2
  <2>4. f[m - 1] = g[m - 1]
    BY <2>1, <2>3
  <2>5. f[m] = f[m - 1] + T[m].output_count /\ g[m] = g[m - 1] + U[m].output_count
    BY <1>2, <1>3, <2>3
  <2> QED BY <1>1, <2>1, <2>3, <2>4, <2>5
<1>5. f[Len(T)] = g[Len(T)]
  BY <1>1, <1>4
<1>6. g[Len(T) + 1] = g[Len(T)] + x.output_count
  BY <1>1, <1>3
<1>7. OutputCount(<< >>) = 0
  <2>1. Len(<< >>) = 0 /\ 0 \in Nat
    OBVIOUS
  <2> QED BY <2>1, CountSteps DEF CountTrace
<1> QED BY <1>1, <1>2, <1>3, <1>5, <1>6, <1>7 DEF U

-----------------------------------------------------------------------------
(* The accumulators at a place of the block.                               *)

AccFields == {"first_uid", "spend", "tracking", "seen", "slots", "tx_outputs", "outputs",
              "spends", "created", "tweaks", "skipped_txs", "skipped_outputs"}

\* The spend map m and the entries xs when the block that starts with
\* transaction first has reached place p and its inputs Y were read.
SpendPart(L, e, first, p, Y, m, xs) ==
    /\ DOMAIN m = Indexed(L, 1, p) \ (SpentIn(L, 1, first - 1) \cup Y)
    /\ \A o \in DOMAIN m : m[o] = Value(L, e, o)
    /\ xs \in Seq(SpendRecord)
    /\ ToSet(xs) = {Entry(L, e, o) : o \in Indexed(L, 1, p) \cap Y}
    /\ IsInjective([i \in DOMAIN xs |-> xs[i].uid])

\* The slots, the keys seen and the dense outputs at place p.
OutputPart(L, tr, first, p, acc) ==
    /\ acc.first_uid \in Nat /\ acc.first_uid = Uid(L, <<first, 1>>)
    /\ acc.tracking = tr
    /\ acc.slots \in Nat /\ acc.first_uid + acc.slots = Uid(L, p)
    /\ acc.seen = SeenTo(L, tr, p)
    /\ acc.outputs \in Seq(OutputRecord)
    /\ OutputsOk(L, tr, first, p, acc.outputs)
    /\ acc.skipped_outputs \in Seq(Nat)
    /\ acc.slots = Len(acc.outputs) + Len(acc.skipped_outputs)

AccOk(L, e, tr, first, acc, p, Y) ==
    /\ DOMAIN acc = AccFields
    /\ SpendPart(L, e, first, p, Y, acc.spend, acc.spends)
    /\ OutputPart(L, tr, first, p, acc)

\* Within transaction t: the tweaks T and skipped transactions K of the ones
\* before it, and the outputs it has had indexed.
TxPart(L, t, acc, p, T, K) ==
    /\ acc.tweaks = T /\ acc.skipped_txs = K
    /\ acc.tx_outputs = Cardinality(Indexed(L, t, p))
    /\ Len(acc.outputs) = OutputCount(T) + acc.tx_outputs

\* A transaction of the blocks is in one of them.
LEMMA HeightFound ==
  ASSUME NEW L, NEW e, EndsOk(L, e), NEW t \in 1..Fin(e, Len(e))
  PROVE  /\ HeightOf(e, t) \in 1..Len(e) /\ In(e, HeightOf(e, t), t)
         /\ \A h \in 1..Len(e) : In(e, h, t) => h = HeightOf(e, t)
<1>1. \E h \in 1..Len(e) : In(e, h, t)
  BY DEF EndsOk
<1>2. HeightOf(e, t) \in 1..Len(e) /\ In(e, HeightOf(e, t), t)
  BY <1>1, Zenon DEF HeightOf
<1>3. /\ e \in Seq(Nat) /\ Len(e) \in Nat /\ \A h \in 1..Len(e) : e[h] \in Nat
      /\ \A h, k \in 1..Len(e) : h < k => e[h] < e[k]
  BY DEF EndsOk
<1>4. ASSUME NEW h \in 1..Len(e), NEW k \in 1..Len(e), h < k, In(e, h, t), In(e, k, t) PROVE FALSE
  <2>1. k - 1 \in 1..Len(e) /\ h <= k - 1 /\ k # 0 /\ h # 0 /\ k - 1 # 0
    BY <1>3, <1>4
  <2>2. t <= e[h] /\ e[k - 1] < t
    BY <1>4, <2>1 DEF In, Fin
  <2>3. e[h] \in Nat /\ e[k - 1] \in Nat /\ t \in Int
    BY <1>3, <2>1
  <2>4. e[h] <= e[k - 1]
    <3> DEFINE j == k - 1
    <3>1. (h = j \/ h < j) /\ j \in 1..Len(e)
      BY <1>3, <2>1
    <3>2. e[h] \in Nat /\ e[j] \in Nat
      BY <2>3
    <3> HIDE DEF j
    <3>3. h < j => e[h] < e[j]
      BY <1>3, <3>1, Zenon
    <3>4. e[h] <= e[j]
      BY <3>1, <3>2, <3>3
    <3> QED BY <3>4 DEF j
  <2> QED BY <2>2, <2>3, <2>4
<1>5. ASSUME NEW h \in 1..Len(e), In(e, h, t) PROVE h = HeightOf(e, t)
  <2>1. h < HeightOf(e, t) \/ h = HeightOf(e, t) \/ HeightOf(e, t) < h
    BY <1>2, <1>3
  <2> QED BY <1>2, <1>4, <1>5, <2>1
<1> QED BY <1>2, <1>5

\* What one input changes.
LEMMA InputFields ==
  ASSUME NEW acc, DOMAIN acc = AccFields, NEW o, NEW r, r = ApplyInput(acc, o)
  PROVE  /\ DOMAIN r = AccFields
         /\ \A x \in AccFields \ {"spend", "spends"} : r[x] = acc[x]
         /\ o \notin DOMAIN acc.spend => r.spend = acc.spend /\ r.spends = acc.spends
         /\ o \in DOMAIN acc.spend =>
              /\ r.spend = Drop(acc.spend, o)
              /\ r.spends = Append(acc.spends, [uid |-> acc.spend[o].uid,
                                                creation_height |-> acc.spend[o].height])
<1>1. CASE o \notin DOMAIN acc.spend
  BY <1>1 DEF ApplyInput
<1>2. CASE o \in DOMAIN acc.spend
  <2> DEFINE m == Drop(acc.spend, o)
             xs == Append(acc.spends, [uid |-> acc.spend[o].uid, creation_height |-> acc.spend[o].height])
  <2>1. r = [acc EXCEPT !.spend = m, !.spends = xs]
    BY <1>2 DEF ApplyInput
  <2> HIDE DEF m, xs
  <2>2. /\ DOMAIN r = AccFields /\ r.spend = m /\ r.spends = xs
        /\ \A x \in AccFields \ {"spend", "spends"} : r[x] = acc[x]
    BY <2>1 DEF AccFields
  <2> QED BY <1>2, <2>2 DEF m, xs
<1> QED BY <1>1, <1>2

\* An input keeps the spend map and the entries exact.
LEMMA SpendInput ==
  ASSUME NEW L \in Seq(Tx), NEW e, NEW first, NEW p, NEW Y, NEW m, NEW xs,
         SpendPart(L, e, first, p, Y, m, xs),
         \A q \in Indexed(L, 1, p) : HeightOf(e, q[1]) \in Nat,
         NEW o, o \notin SpentIn(L, 1, first - 1) \cup Y
  PROVE  /\ o \notin DOMAIN m => SpendPart(L, e, first, p, Y \cup {o}, m, xs)
         /\ o \in DOMAIN m =>
              SpendPart(L, e, first, p, Y \cup {o}, Drop(m, o),
                        Append(xs, [uid |-> m[o].uid, creation_height |-> m[o].height]))
<1> DEFINE I == Indexed(L, 1, p)
           X == SpentIn(L, 1, first - 1)
<1>1. /\ DOMAIN m = I \ (X \cup Y)
      /\ \A q \in DOMAIN m : m[q] = Value(L, e, q)
      /\ xs \in Seq(SpendRecord)
      /\ ToSet(xs) = {Entry(L, e, q) : q \in I \cap Y}
      /\ IsInjective([i \in DOMAIN xs |-> xs[i].uid])
  BY DEF SpendPart
<1> HIDE DEF I, X
<1>2. CASE o \notin DOMAIN m
  <2>1. o \notin I
    BY <1>1, <1>2 DEF X
  <2>2. I \cap (Y \cup {o}) = I \cap Y /\ I \ (X \cup (Y \cup {o})) = I \ (X \cup Y)
    BY <2>1
  <2> QED BY <1>1, <1>2, <2>2, Zenon DEF SpendPart, I, X
<1>3. CASE o \in DOMAIN m
  <2> DEFINE x == [uid |-> m[o].uid, creation_height |-> m[o].height]
             ys == Append(xs, x)
             d == Drop(m, o)
  <2>1. o \in I /\ o \notin Y
    BY <1>1, <1>3
  <2>2. x = Entry(L, e, o) /\ x.uid = Uid(L, o)
    <3>1. m[o] = Value(L, e, o)
      BY <1>1, <1>3
    <3>2. m[o].uid = Uid(L, o) /\ m[o].height = HeightOf(e, o[1])
      BY <3>1 DEF Value
    <3> QED BY <3>2 DEF Entry
  <2>3. Entry(L, e, o) \in SpendRecord
    <3>1. Uid(L, o) \in Nat
      <4>1. Cardinality(P2tr(L, 1, o)) \in Nat
        BY Counted
      <4> QED BY <4>1 DEF Uid
    <3>2. HeightOf(e, o[1]) \in Nat
      BY <2>1 DEF I
    <3> QED BY <3>1, <3>2 DEF Entry, SpendRecord
  <2> HIDE DEF x
  <2>4. /\ ys \in Seq(SpendRecord) /\ Len(xs) \in Nat /\ Len(ys) = Len(xs) + 1 /\ ys[Len(xs) + 1] = x
        /\ DOMAIN ys = 1..(Len(xs) + 1) /\ DOMAIN xs = 1..Len(xs)
        /\ \A i \in 1..Len(xs) : ys[i] = xs[i]
    BY <1>1, <2>2, <2>3
  <2> HIDE DEF ys
  <2>5. DOMAIN d = I \ (X \cup (Y \cup {o})) /\ \A q \in DOMAIN d : d[q] = Value(L, e, q)
    BY <1>1, <1>3 DEF Drop
  <2> HIDE DEF d
  <2>6. ToSet(ys) = ToSet(xs) \cup {x}
    <3>1. DOMAIN ys = DOMAIN xs \cup {Len(xs) + 1}
      BY <2>4
    <3> QED BY <2>4, <3>1 DEF ToSet
  <2>7. ToSet(ys) = {Entry(L, e, q) : q \in I \cap (Y \cup {o})}
    <3>1. I \cap (Y \cup {o}) = (I \cap Y) \cup {o}
      BY <2>1
    <3> QED BY <1>1, <2>2, <2>6, <3>1
  <2>8. ASSUME NEW i \in DOMAIN xs PROVE xs[i].uid # x.uid
    <3>1. xs[i] \in ToSet(xs)
      BY DEF ToSet
    <3>2. PICK q \in I \cap Y : xs[i] = Entry(L, e, q)
      BY <1>1, <3>1
    <3>3. xs[i].uid = Uid(L, q) /\ q # o /\ q \in I
      BY <2>1, <3>2 DEF Entry
    <3>4. q \in P2tr(L, 1, p) /\ o \in P2tr(L, 1, p)
      BY <2>1, <3>3 DEF I, Indexed
    <3> QED BY <2>2, <3>3, <3>4, UidUnique
  <2>9. IsInjective([i \in DOMAIN ys |-> ys[i].uid])
    <3>1. \A i, j \in DOMAIN xs : xs[i].uid = xs[j].uid => i = j
      BY <1>1 DEF IsInjective
    <3>2. ASSUME NEW i \in DOMAIN ys, NEW j \in DOMAIN ys, ys[i].uid = ys[j].uid PROVE i = j
      <4>1. /\ (i \in DOMAIN xs /\ ys[i] = xs[i]) \/ (i = Len(xs) + 1 /\ ys[i] = x)
            /\ (j \in DOMAIN xs /\ ys[j] = xs[j]) \/ (j = Len(xs) + 1 /\ ys[j] = x)
        BY <2>4
      <4> QED BY <2>8, <3>1, <3>2, <4>1, Zenon
    <3> QED BY <3>2 DEF IsInjective
  <2>10. SpendPart(L, e, first, p, Y \cup {o}, d, ys)
    BY <2>4, <2>5, <2>7, <2>9, Zenon DEF SpendPart, I, X
  <2> QED BY <1>3, <2>10 DEF d, ys, x
<1> QED BY <1>2, <1>3

\* ApplyInput keeps the accumulators right.
LEMMA InputStep ==
  ASSUME NEW L \in Seq(Tx), NEW e, NEW tr, NEW first, NEW acc, NEW p, NEW Y, AccOk(L, e, tr, first, acc, p, Y),
         \A q \in Indexed(L, 1, p) : HeightOf(e, q[1]) \in Nat,
         NEW o, o \notin SpentIn(L, 1, first - 1) \cup Y
  PROVE  /\ AccOk(L, e, tr, first, ApplyInput(acc, o), p, Y \cup {o})
         /\ \A t, T, K : TxPart(L, t, acc, p, T, K) => TxPart(L, t, ApplyInput(acc, o), p, T, K)
<1> DEFINE r == ApplyInput(acc, o)
<1>1. DOMAIN acc = AccFields /\ SpendPart(L, e, first, p, Y, acc.spend, acc.spends) /\ OutputPart(L, tr, first, p, acc)
  BY DEF AccOk
<1>2. r = ApplyInput(acc, o)
  OBVIOUS
<1> HIDE DEF r
<1>3. /\ DOMAIN r = AccFields
      /\ \A x \in AccFields \ {"spend", "spends"} : r[x] = acc[x]
      /\ o \notin DOMAIN acc.spend => r.spend = acc.spend /\ r.spends = acc.spends
      /\ o \in DOMAIN acc.spend =>
           /\ r.spend = Drop(acc.spend, o)
           /\ r.spends = Append(acc.spends, [uid |-> acc.spend[o].uid,
                                             creation_height |-> acc.spend[o].height])
  BY <1>1, <1>2, InputFields
<1>4. SpendPart(L, e, first, p, Y \cup {o}, r.spend, r.spends)
  <2>1. CASE o \in DOMAIN acc.spend
    <3>1. SpendPart(L, e, first, p, Y \cup {o}, Drop(acc.spend, o),
                    Append(acc.spends, [uid |-> acc.spend[o].uid,
                                        creation_height |-> acc.spend[o].height]))
      BY <1>1, <2>1, SpendInput, Zenon
    <3> QED BY <1>3, <2>1, <3>1, Zenon
  <2>2. CASE o \notin DOMAIN acc.spend
    <3>1. SpendPart(L, e, first, p, Y \cup {o}, acc.spend, acc.spends)
      BY <1>1, <2>2, SpendInput, Zenon
    <3> QED BY <1>3, <2>2, <3>1, Zenon
  <2> QED BY <2>1, <2>2
<1>5. /\ r.first_uid = acc.first_uid /\ r.tracking = acc.tracking /\ r.slots = acc.slots
      /\ r.seen = acc.seen /\ r.outputs = acc.outputs /\ r.skipped_outputs = acc.skipped_outputs
      /\ r.tweaks = acc.tweaks /\ r.skipped_txs = acc.skipped_txs /\ r.tx_outputs = acc.tx_outputs
  BY <1>3 DEF AccFields
<1>6. OutputPart(L, tr, first, p, r)
  BY <1>1, <1>5, Zenon DEF OutputPart
<1>7. \A t, T, K : TxPart(L, t, acc, p, T, K) => TxPart(L, t, r, p, T, K)
  BY <1>5, Zenon DEF TxPart
<1> QED BY <1>3, <1>4, <1>6, <1>7 DEF AccOk, r

\* The accumulators depend on a place only through the outputs before it.
LEMMA SamePlace ==
  ASSUME NEW L, NEW e, NEW tr, NEW first, NEW acc, NEW p, NEW n, NEW Y, NEW t,
         P2tr(L, 1, n) = P2tr(L, 1, p), Indexed(L, 1, n) = Indexed(L, 1, p),
         Indexed(L, first, n) = Indexed(L, first, p), Indexed(L, t, n) = Indexed(L, t, p)
  PROVE  /\ AccOk(L, e, tr, first, acc, p, Y) => AccOk(L, e, tr, first, acc, n, Y)
         /\ \A T, K : TxPart(L, t, acc, p, T, K) => TxPart(L, t, acc, n, T, K)
<1>1. Uid(L, n) = Uid(L, p) /\ SeenTo(L, tr, n) = SeenTo(L, tr, p)
  BY Zenon DEF Uid, SeenTo
<1>2. OutputsOk(L, tr, first, p, acc.outputs) => OutputsOk(L, tr, first, n, acc.outputs)
  BY Zenon DEF OutputsOk
<1>3. OutputPart(L, tr, first, p, acc) => OutputPart(L, tr, first, n, acc)
  BY <1>1, <1>2, Zenon DEF OutputPart
<1>4. SpendPart(L, e, first, p, Y, acc.spend, acc.spends) => SpendPart(L, e, first, n, Y, acc.spend, acc.spends)
  BY Zenon DEF SpendPart
<1> QED BY <1>3, <1>4, Zenon DEF AccOk, TxPart

\* What a P2TR output changes, indexed or not.
OutputChange(acc, height, txid, tweak, vout, kind, r) ==
    /\ DOMAIN r = AccFields
    /\ \A x \in {"first_uid", "tracking", "spends", "tweaks", "skipped_txs"} : r[x] = acc[x]
    /\ r.slots = acc.slots + 1
    /\ r.seen = SeenAfter(acc, kind, tweak)
    /\ kind = Nums \/ ~tweak =>
         /\ r.skipped_outputs = Append(acc.skipped_outputs, acc.slots)
         /\ r.outputs = acc.outputs /\ r.tx_outputs = acc.tx_outputs /\ r.spend = acc.spend
    /\ ~(kind = Nums \/ ~tweak) =>
         /\ r.skipped_outputs = acc.skipped_outputs
         /\ r.outputs = Append(acc.outputs, [key |-> kind, reused |-> acc.tracking /\ kind \in acc.seen])
         /\ r.tx_outputs = acc.tx_outputs + 1
         /\ r.spend = Put(acc.spend, <<txid, vout>>,
                          [uid |-> SlotUid(acc), height |-> height, index |-> Len(acc.outputs) + 1])

LEMMA OutputFields ==
  ASSUME NEW acc, DOMAIN acc = AccFields, NEW height, NEW txid, NEW tweak, NEW vout, NEW kind,
         NEW r, r = ApplyOutput(acc, height, txid, tweak, vout, kind), IsP2tr(kind)
  PROVE  OutputChange(acc, height, txid, tweak, vout, kind, r)
<1> DEFINE seen == SeenAfter(acc, kind, tweak)
           slotted == [acc EXCEPT !.slots = @ + 1, !.seen = seen]
           skipped == Append(acc.skipped_outputs, acc.slots)
           outputs == Append(acc.outputs, [key |-> kind, reused |-> acc.tracking /\ kind \in acc.seen])
           created == Append(acc.created, [outpoint |-> <<txid, vout>>, slot |-> acc.slots])
           spend == Put(acc.spend, <<txid, vout>>,
                        [uid |-> SlotUid(acc), height |-> height, index |-> Len(acc.outputs) + 1])
<1>1. CASE kind = Nums \/ ~tweak
  <2>1. r = [slotted EXCEPT !.skipped_outputs = Append(@, acc.slots)]
    BY <1>1 DEF ApplyOutput
  <2> HIDE DEF seen
  <2>2. DOMAIN slotted = AccFields /\ slotted.slots = acc.slots + 1 /\ slotted.seen = seen
        /\ \A x \in AccFields \ {"slots", "seen"} : slotted[x] = acc[x]
    BY DEF AccFields
  <2> HIDE DEF slotted
  <2>3. slotted.skipped_outputs = acc.skipped_outputs
    BY <2>2 DEF AccFields
  <2>4. r = [slotted EXCEPT !.skipped_outputs = skipped]
    BY <2>1, <2>3
  <2> HIDE DEF skipped
  <2>5. DOMAIN r = AccFields /\ r.skipped_outputs = skipped
        /\ \A x \in AccFields \ {"skipped_outputs"} : r[x] = slotted[x]
    BY <2>2, <2>4 DEF AccFields
  <2>6. /\ r.slots = acc.slots + 1 /\ r.seen = seen
        /\ \A x \in AccFields \ {"slots", "seen", "skipped_outputs"} : r[x] = acc[x]
    BY <2>2, <2>5 DEF AccFields
  <2> QED BY <1>1, <2>5, <2>6 DEF OutputChange, AccFields, skipped, seen
<1>2. CASE ~(kind = Nums \/ ~tweak)
  <2>1. r = [slotted EXCEPT
                !.outputs = Append(@, [key |-> kind, reused |-> acc.tracking /\ kind \in acc.seen]),
                !.tx_outputs = @ + 1,
                !.created = Append(@, [outpoint |-> <<txid, vout>>, slot |-> acc.slots]),
                !.spend = Put(@, <<txid, vout>>,
                              [uid |-> SlotUid(acc), height |-> height, index |-> Len(acc.outputs) + 1])]
    BY <1>2 DEF ApplyOutput
  <2> HIDE DEF seen
  <2>2. DOMAIN slotted = AccFields /\ slotted.slots = acc.slots + 1 /\ slotted.seen = seen
        /\ \A x \in AccFields \ {"slots", "seen"} : slotted[x] = acc[x]
    BY DEF AccFields
  <2> HIDE DEF slotted
  <2>3. /\ slotted.outputs = acc.outputs /\ slotted.tx_outputs = acc.tx_outputs
        /\ slotted.created = acc.created /\ slotted.spend = acc.spend
    BY <2>2 DEF AccFields
  <2>4. r = [slotted EXCEPT !.outputs = outputs, !.tx_outputs = acc.tx_outputs + 1,
                            !.created = created, !.spend = spend]
    BY <2>1, <2>3
  <2> HIDE DEF outputs, created, spend
  <2>5. DOMAIN r = AccFields /\ r.outputs = outputs /\ r.tx_outputs = acc.tx_outputs + 1 /\ r.spend = spend
        /\ \A x \in AccFields \ {"outputs", "tx_outputs", "created", "spend"} : r[x] = slotted[x]
    BY <2>2, <2>4 DEF AccFields
  <2>6. /\ r.slots = acc.slots + 1 /\ r.seen = seen
        /\ \A x \in {"first_uid", "tracking", "spends", "tweaks", "skipped_txs", "skipped_outputs"} : r[x] = acc[x]
    BY <2>2, <2>5 DEF AccFields
  <2> QED BY <1>2, <2>5, <2>6 DEF OutputChange, outputs, spend, seen
<1> QED BY <1>1, <1>2

\* The spend map gains an indexed output.
LEMMA SpendOutput ==
  ASSUME NEW L, NEW e, NEW first, NEW p, NEW n, NEW Y, NEW m, NEW xs, NEW o,
         SpendPart(L, e, first, p, Y, m, xs),
         Indexed(L, 1, n) = Indexed(L, 1, p) \cup {o},
         o \notin SpentIn(L, 1, first - 1) \cup Y
  PROVE  SpendPart(L, e, first, n, Y, Put(m, o, Value(L, e, o)), xs)
<1> DEFINE I == Indexed(L, 1, p)
           X == SpentIn(L, 1, first - 1)
           d == Put(m, o, Value(L, e, o))
<1>1. /\ DOMAIN m = I \ (X \cup Y)
      /\ \A q \in DOMAIN m : m[q] = Value(L, e, q)
      /\ xs \in Seq(SpendRecord)
      /\ ToSet(xs) = {Entry(L, e, q) : q \in I \cap Y}
      /\ IsInjective([i \in DOMAIN xs |-> xs[i].uid])
  BY DEF SpendPart
<1> HIDE DEF I, X
<1>2. DOMAIN d = (I \cup {o}) \ (X \cup Y) /\ \A q \in DOMAIN d : d[q] = Value(L, e, q)
  BY <1>1 DEF Put, X
<1>3. (I \cup {o}) \cap Y = I \cap Y
  BY DEF X
<1> HIDE DEF d
<1>4. SpendPart(L, e, first, n, Y, d, xs)
  BY <1>1, <1>2, <1>3, Zenon DEF SpendPart, I, X
<1> QED BY <1>4 DEF d

\* The dense list gains an indexed output.
LEMMA DenseOutput ==
  ASSUME NEW L \in Seq(Tx), NEW tr \in BOOLEAN, NEW first, NEW o \in Nat \X Nat, NEW n, NEW xs \in Seq(OutputRecord),
         Indexed(L, first, n) = Indexed(L, first, o) \cup {o},
         Cardinality(Indexed(L, first, n)) = Cardinality(Indexed(L, first, o)) + 1,
         o \notin Indexed(L, first, o),
         OutputsOk(L, tr, first, o, xs), NEW x \in OutputRecord,
         x = [key |-> Kind(L, o), reused |-> Reused(L, tr, o)]
  PROVE  OutputsOk(L, tr, first, n, Append(xs, x)) /\ Append(xs, x) \in Seq(OutputRecord)
<1> DEFINE ys == Append(xs, x)
           I == Indexed(L, first, o)
<1>1. /\ ys \in Seq(OutputRecord) /\ Len(xs) \in Nat /\ Len(ys) = Len(xs) + 1 /\ ys[Len(xs) + 1] = x
      /\ \A i \in 1..Len(xs) : ys[i] = xs[i]
  OBVIOUS
<1> HIDE DEF ys
<1>2. /\ Len(xs) = Cardinality(I)
      /\ \A q \in I : xs[Index(L, first, q)] = [key |-> Kind(L, q), reused |-> Reused(L, tr, q)]
  BY DEF OutputsOk
<1>3. Index(L, first, o) = Len(xs) + 1
  BY <1>1, <1>2 DEF Index
<1>4. ASSUME NEW q \in I PROVE Index(L, first, q) \in 1..Len(xs)
  <2>1. /\ Cardinality(Indexed(L, first, q)) \in Nat
        /\ Cardinality(Indexed(L, first, q)) < Cardinality(Indexed(L, first, o))
    BY Counted, CountsGrow
  <2> QED BY <1>1, <1>2, <2>1 DEF Index
<1> HIDE DEF I
<1>5. ASSUME NEW q \in I \cup {o}
      PROVE  ys[Index(L, first, q)] = [key |-> Kind(L, q), reused |-> Reused(L, tr, q)]
  <2>1. CASE q \in I
    <3>1. Index(L, first, q) \in 1..Len(xs)
      BY <1>4, <2>1
    <3>2. ys[Index(L, first, q)] = xs[Index(L, first, q)]
      BY <1>1, <3>1
    <3> QED BY <1>2, <2>1, <3>2, Zenon
  <2>2. CASE q = o
    BY <1>1, <1>3, <2>2, Zenon
  <2> QED BY <2>1, <2>2
<1>6. Len(ys) = Cardinality(Indexed(L, first, n))
  BY <1>1, <1>2 DEF I
<1>7. OutputsOk(L, tr, first, n, ys)
  BY <1>5, <1>6, Zenon DEF OutputsOk, I
<1> QED BY <1>1, <1>7 DEF ys

\* Appending to a sequence.
LEMMA AppendOne ==
  ASSUME NEW S, NEW s \in Seq(S), NEW x \in S
  PROVE  /\ Append(s, x) \in Seq(S) /\ Len(s) \in Nat /\ Len(Append(s, x)) = Len(s) + 1
         /\ Append(s, x)[Len(s) + 1] = x
         /\ \A i \in 1..Len(s) : Append(s, x)[i] = s[i]
  OBVIOUS

LEMMA PlusOne ==
  ASSUME NEW a \in Nat, NEW b \in Nat, NEW c, c = a + b
  PROVE  c + 1 = (a + 1) + b /\ c + 1 = a + (b + 1)
  OBVIOUS

\* Output v of transaction t in a block that starts with transaction first
\* at height h; none of its outputs is spent yet.
AtOutput(L, e, first, h, t, v, Y) ==
    /\ first \in Nat \ {0} /\ t \in DOMAIN L /\ first <= t
    /\ HeightOf(e, t) = h /\ Fin(e, h - 1) + 1 = first
    /\ v \in DOMAIN L[t].outputs
    /\ \A x \in SpentIn(L, 1, first - 1) \cup Y : x[1] < t

\* ApplyOutput keeps the accumulators right, and counts the outputs of its
\* transaction.
LEMMA OutputStep ==
  ASSUME NEW L \in Seq(Tx), NEW e, NEW tr \in BOOLEAN, NEW first, NEW h, NEW t, NEW v, NEW Y, NEW acc, NEW T, NEW K,
         AtOutput(L, e, first, h, t, v, Y),
         AccOk(L, e, tr, first, acc, <<t, v>>, Y), TxPart(L, t, acc, <<t, v>>, T, K), OutputCount(T) \in Nat,
         NEW r, r = ApplyOutput(acc, h, t, L[t].tweak, v, L[t].outputs[v])
  PROVE  AccOk(L, e, tr, first, r, <<t, v + 1>>, Y) /\ TxPart(L, t, r, <<t, v + 1>>, T, K)
<1> DEFINE o == <<t, v>>
           n == <<t, v + 1>>
           kind == L[t].outputs[v]
           indexed == IsP2tr(kind) /\ kind # Nums /\ L[t].tweak
<1> SUFFICES AccOk(L, e, tr, first, r, n, Y) /\ TxPart(L, t, r, n, T, K)
  BY Zenon
<1>1. /\ first \in Nat \ {0} /\ t \in DOMAIN L /\ t \in Nat /\ t \in 1..Len(L) /\ first <= t /\ 1 <= t
      /\ HeightOf(e, t) = h /\ Fin(e, h - 1) + 1 = first
      /\ v \in DOMAIN L[t].outputs /\ v \in Nat /\ kind \in Kinds
      /\ \A x \in SpentIn(L, 1, first - 1) \cup Y : x[1] < t
      /\ L[t].tweak \in BOOLEAN
  <2>1. /\ first \in Nat \ {0} /\ t \in DOMAIN L /\ first <= t
        /\ HeightOf(e, t) = h /\ Fin(e, h - 1) + 1 = first
        /\ v \in DOMAIN L[t].outputs
        /\ \A x \in SpentIn(L, 1, first - 1) \cup Y : x[1] < t
    BY DEF AtOutput
  <2>2. L[t].outputs \in Seq(Kinds) /\ L[t].tweak \in BOOLEAN
    BY <2>1, OutputTyped
  <2> QED BY <2>1, <2>2
<1>2. /\ DOMAIN acc = AccFields
      /\ SpendPart(L, e, first, o, Y, acc.spend, acc.spends)
      /\ OutputPart(L, tr, first, o, acc)
      /\ acc.tweaks = T /\ acc.skipped_txs = K
      /\ acc.tx_outputs = Cardinality(Indexed(L, t, o))
      /\ Len(acc.outputs) = OutputCount(T) + acc.tx_outputs
  BY DEF AccOk, TxPart
<1>3. /\ acc.first_uid \in Nat /\ acc.first_uid = Uid(L, <<first, 1>>)
      /\ acc.tracking = tr
      /\ acc.slots \in Nat /\ acc.first_uid + acc.slots = Uid(L, o)
      /\ acc.seen = SeenTo(L, tr, o)
      /\ acc.outputs \in Seq(OutputRecord)
      /\ OutputsOk(L, tr, first, o, acc.outputs)
      /\ acc.skipped_outputs \in Seq(Nat)
      /\ acc.slots = Len(acc.outputs) + Len(acc.skipped_outputs)
  BY <1>2 DEF OutputPart
<1>4. Kind(L, o) = kind
  BY DEF Kind
<1>5. \A a \in {1, first, t} :
        /\ o \in Created(L) /\ o \notin P2tr(L, a, o) /\ o \notin Indexed(L, a, o)
        /\ P2tr(L, a, n) = IF IsP2tr(kind) THEN P2tr(L, a, o) \cup {o} ELSE P2tr(L, a, o)
        /\ Indexed(L, a, n) = IF indexed THEN Indexed(L, a, o) \cup {o} ELSE Indexed(L, a, o)
        /\ Cardinality(P2tr(L, a, n)) =
             IF IsP2tr(kind) THEN Cardinality(P2tr(L, a, o)) + 1 ELSE Cardinality(P2tr(L, a, o))
        /\ Cardinality(Indexed(L, a, n)) =
             IF indexed THEN Cardinality(Indexed(L, a, o)) + 1 ELSE Cardinality(Indexed(L, a, o))
  <2> SUFFICES ASSUME NEW a \in {1, first, t} PROVE PlaceStep(L, a, t, v)
    BY <1>4, Zenon DEF PlaceStep
  <2>1. a \in Nat /\ a <= t
    BY <1>1
  <2> QED BY <1>1, <2>1, NextPlace
<1>6. o \in Nat \X Nat /\ o[1] = t /\ 1 \in {1, first, t} /\ first \in {1, first, t} /\ t \in {1, first, t}
  BY <1>1
<1>7. o \notin SpentIn(L, 1, first - 1) \cup Y
  <2>1. ~(t < t)
    BY <1>1
  <2> QED BY <1>1, <1>6, <2>1, Zenon
<1>8. /\ Cardinality(P2tr(L, 1, o)) \in Nat /\ Cardinality(Indexed(L, first, o)) \in Nat
      /\ Cardinality(Indexed(L, t, o)) \in Nat
  BY Counted
<1>9. Value(L, e, o) = [uid |-> Uid(L, o), height |-> h, index |-> Index(L, first, o)]
  BY <1>1, <1>6, Zenon DEF Value
<1> HIDE DEF o, n, kind
<1>10. CASE ~IsP2tr(kind)
  <2>1. r = acc
    BY <1>10 DEF ApplyOutput, kind
  <2>2. /\ P2tr(L, 1, n) = P2tr(L, 1, o) /\ Indexed(L, 1, n) = Indexed(L, 1, o)
        /\ Indexed(L, first, n) = Indexed(L, first, o) /\ Indexed(L, t, n) = Indexed(L, t, o)
    BY <1>5, <1>6, <1>10
  <2>3. AccOk(L, e, tr, first, acc, n, Y) /\ TxPart(L, t, acc, n, T, K)
    BY <2>2, SamePlace, Zenon DEF o
  <2> QED BY <2>1, <2>3
<1>11. IsP2tr(kind) => OutputChange(acc, h, t, L[t].tweak, v, kind, r)
  <2>1. r = ApplyOutput(acc, h, t, L[t].tweak, v, kind)
    BY DEF kind
  <2> QED BY <1>2, <2>1, OutputFields
<1>12. ASSUME IsP2tr(kind)
       PROVE  /\ r.first_uid = acc.first_uid /\ r.tracking = tr /\ r.spends = acc.spends
              /\ r.tweaks = T /\ r.skipped_txs = K
              /\ r.slots = acc.slots + 1 /\ r.slots \in Nat /\ r.first_uid + r.slots = Uid(L, n)
              /\ r.seen = SeenTo(L, tr, n)
  <2>1. /\ r.first_uid = acc.first_uid /\ r.tracking = tr /\ r.spends = acc.spends
        /\ r.tweaks = T /\ r.skipped_txs = K
        /\ r.slots = acc.slots + 1
    BY <1>2, <1>3, <1>11, <1>12 DEF OutputChange
  <2>2. Uid(L, n) = Uid(L, o) + 1
    BY <1>5, <1>6, <1>8, <1>12 DEF Uid
  <2>3. r.slots \in Nat /\ r.first_uid + r.slots = Uid(L, n)
    <3>1. Uid(L, o) \in Nat
      BY <1>8 DEF Uid
    <3>2. acc.first_uid \in Nat /\ acc.slots \in Nat /\ acc.first_uid + acc.slots = Uid(L, o)
      BY <1>3
    <3>3. r.first_uid = acc.first_uid /\ r.slots = acc.slots + 1
      BY <2>1
    <3> QED BY <2>2, <3>1, <3>2, <3>3
  <2>4. r.seen = SeenTo(L, tr, n)
    <3>1. P2tr(L, 1, n) = P2tr(L, 1, o) \cup {o}
      BY <1>5, <1>6, <1>12
    <3>2. r.seen = IF tr THEN acc.seen \cup {kind} ELSE acc.seen
      BY <1>3, <1>11, <1>12 DEF OutputChange, SeenAfter
    <3> QED BY <1>3, <1>4, <3>1, <3>2 DEF SeenTo
  <2> QED BY <2>1, <2>3, <2>4
<1>13. CASE IsP2tr(kind) /\ (kind = Nums \/ ~L[t].tweak)
  <2>1. /\ Indexed(L, 1, n) = Indexed(L, 1, o) /\ Indexed(L, first, n) = Indexed(L, first, o)
        /\ Indexed(L, t, n) = Indexed(L, t, o)
    BY <1>5, <1>6, <1>13
  <2>2. /\ r.skipped_outputs = Append(acc.skipped_outputs, acc.slots)
        /\ r.outputs = acc.outputs /\ r.tx_outputs = acc.tx_outputs /\ r.spend = acc.spend
    BY <1>11, <1>13 DEF OutputChange
  <2>3. SpendPart(L, e, first, n, Y, r.spend, r.spends)
    BY <1>2, <1>12, <1>13, <2>1, <2>2, Zenon DEF SpendPart
  <2>4. OutputsOk(L, tr, first, n, r.outputs)
    <3>1. OutputsOk(L, tr, first, o, acc.outputs)
      BY <1>3
    <3>2. OutputsOk(L, tr, first, n, acc.outputs)
      BY <2>1, <3>1, Zenon DEF OutputsOk
    <3> QED BY <2>2, <3>2
  <2>5. r.skipped_outputs \in Seq(Nat) /\ Len(r.skipped_outputs) = Len(acc.skipped_outputs) + 1
    <3>1. acc.skipped_outputs \in Seq(Nat) /\ acc.slots \in Nat
      BY <1>3
    <3>2. r.skipped_outputs = Append(acc.skipped_outputs, acc.slots)
      BY <2>2
    <3> QED BY <3>1, <3>2, AppendOne
  <2>6. r.slots = Len(r.outputs) + Len(r.skipped_outputs)
    <3>1. /\ Len(acc.outputs) \in Nat /\ Len(acc.skipped_outputs) \in Nat
          /\ acc.slots = Len(acc.outputs) + Len(acc.skipped_outputs)
      BY <1>3
    <3>2. r.slots = acc.slots + 1 /\ Len(r.outputs) = Len(acc.outputs)
      BY <1>12, <1>13, <2>2, Zenon
    <3>3. Len(r.skipped_outputs) = Len(acc.skipped_outputs) + 1
      BY <2>5
    <3>4. acc.slots + 1 = Len(acc.outputs) + (Len(acc.skipped_outputs) + 1)
      <4> DEFINE a == Len(acc.outputs)
                 b == Len(acc.skipped_outputs)
                 c == acc.slots
      <4>1. a \in Nat /\ b \in Nat /\ c = a + b
        BY <3>1, Zenon
      <4> HIDE DEF a, b, c
      <4>2. c + 1 = a + (b + 1)
        BY <4>1
      <4> QED BY <4>2, Zenon DEF a, b, c
    <3> QED BY <3>2, <3>3, <3>4, Zenon
  <2>7. OutputPart(L, tr, first, n, r)
    BY <1>3, <1>12, <1>13, <2>2, <2>4, <2>5, <2>6, Zenon DEF OutputPart
  <2>8. TxPart(L, t, r, n, T, K)
    BY <1>2, <1>12, <1>13, <2>1, <2>2, Zenon DEF TxPart
  <2> QED BY <1>11, <1>13, <2>3, <2>7, <2>8, Zenon DEF AccOk, OutputChange
<1>14. CASE indexed
  <2>1. \A a \in {1, first, t} :
          /\ Indexed(L, a, n) = Indexed(L, a, o) \cup {o}
          /\ Cardinality(Indexed(L, a, n)) = Cardinality(Indexed(L, a, o)) + 1
    BY <1>5, <1>14
  <2> DEFINE x == [key |-> kind, reused |-> acc.tracking /\ kind \in acc.seen]
  <2>2. /\ r.skipped_outputs = acc.skipped_outputs
        /\ r.outputs = Append(acc.outputs, x)
        /\ r.tx_outputs = acc.tx_outputs + 1
        /\ r.spend = Put(acc.spend, o, [uid |-> SlotUid(acc), height |-> h, index |-> Len(acc.outputs) + 1])
    BY <1>11, <1>14 DEF OutputChange, o
  <2>3. [uid |-> SlotUid(acc), height |-> h, index |-> Len(acc.outputs) + 1] = Value(L, e, o)
    <3>1. SlotUid(acc) = Uid(L, o)
      BY <1>3 DEF SlotUid
    <3>2. Len(acc.outputs) + 1 = Index(L, first, o)
      BY <1>3, <1>8 DEF OutputsOk, Index
    <3> QED BY <1>9, <3>1, <3>2, Zenon
  <2>4. SpendPart(L, e, first, n, Y, r.spend, r.spends)
    <3>1. SpendPart(L, e, first, n, Y, Put(acc.spend, o, Value(L, e, o)), acc.spends)
      BY <1>2, <1>6, <1>7, <2>1, SpendOutput, Zenon
    <3> QED BY <1>12, <1>14, <2>2, <2>3, <3>1, Zenon
  <2>5. (acc.tracking /\ kind \in acc.seen) = Reused(L, tr, o)
    <3>1. CASE tr
      <4>1. kind \in acc.seen <=> \E q \in P2tr(L, 1, o) : Kind(L, q) = kind
        BY <1>3, <3>1 DEF SeenTo
      <4> QED BY <1>3, <1>4, <3>1, <4>1, Zenon DEF Reused
    <3>2. CASE ~tr
      BY <1>3, <3>2, Zenon DEF Reused
    <3> QED BY <3>1, <3>2
  <2>6. x \in OutputRecord
    BY <1>1 DEF OutputRecord
  <2>7. x = [key |-> Kind(L, o), reused |-> Reused(L, tr, o)]
    BY <1>4, <2>5, Zenon
  <2> HIDE DEF x
  <2>8. OutputsOk(L, tr, first, n, r.outputs) /\ r.outputs \in Seq(OutputRecord)
    <3>1. /\ Indexed(L, first, n) = Indexed(L, first, o) \cup {o}
          /\ Cardinality(Indexed(L, first, n)) = Cardinality(Indexed(L, first, o)) + 1
          /\ o \notin Indexed(L, first, o) /\ o \in Nat \X Nat
      BY <1>5, <1>6, <2>1
    <3>2. acc.outputs \in Seq(OutputRecord) /\ OutputsOk(L, tr, first, o, acc.outputs)
      BY <1>3
    <3>3. OutputsOk(L, tr, first, n, Append(acc.outputs, x)) /\ Append(acc.outputs, x) \in Seq(OutputRecord)
      BY <2>6, <2>7, <3>1, <3>2, DenseOutput
    <3> QED BY <2>2, <3>3
  <2>9. Len(r.outputs) = Len(acc.outputs) + 1 /\ Len(acc.outputs) \in Nat /\ Len(acc.skipped_outputs) \in Nat
    <3>1. acc.outputs \in Seq(OutputRecord) /\ acc.skipped_outputs \in Seq(Nat)
      BY <1>3
    <3>2. r.outputs = Append(acc.outputs, x)
      BY <2>2
    <3>3. Len(Append(acc.outputs, x)) = Len(acc.outputs) + 1 /\ Len(acc.outputs) \in Nat
      BY <2>6, <3>1, AppendOne
    <3>4. Len(acc.skipped_outputs) \in Nat
      BY <3>1
    <3> QED BY <3>2, <3>3, <3>4, Zenon
  <2>10. r.slots = Len(r.outputs) + Len(r.skipped_outputs)
    <3>1. acc.slots = Len(acc.outputs) + Len(acc.skipped_outputs)
      BY <1>3
    <3>2. acc.slots + 1 = (Len(acc.outputs) + 1) + Len(acc.skipped_outputs)
      BY <2>9, <3>1, PlusOne
    <3>3. r.slots = acc.slots + 1
      BY <1>12, <1>14
    <3> QED BY <2>2, <2>9, <3>2, <3>3, Zenon
  <2>11. OutputPart(L, tr, first, n, r)
    BY <1>3, <1>12, <1>14, <2>2, <2>8, <2>10, Zenon DEF OutputPart
  <2>12. /\ r.tx_outputs = Cardinality(Indexed(L, t, n))
         /\ Len(r.outputs) = OutputCount(T) + r.tx_outputs
    BY <1>2, <1>6, <1>8, <2>1, <2>2, <2>9
  <2>13. TxPart(L, t, r, n, T, K)
    BY <1>12, <1>14, <2>12, Zenon DEF TxPart
  <2> QED BY <1>11, <1>14, <2>4, <2>11, <2>13, Zenon DEF AccOk, OutputChange
<1> QED BY <1>1, <1>10, <1>13, <1>14

-----------------------------------------------------------------------------
(* A transaction.                                                          *)

\* The accumulators when the block reaches transaction t.
AtTx(L, e, tr, first, acc, t) ==
    /\ AccOk(L, e, tr, first, acc, <<t, 1>>, SpentIn(L, first, t - 1))
    /\ acc.tweaks \in Seq(TweakRecord) /\ acc.skipped_txs \in SUBSET Nat
    /\ TweaksOk(L, first, t - 1, acc.tweaks, acc.skipped_txs, acc.outputs)

\* Transaction t of block h, which starts with transaction first.
TxOf(L, e, first, h, t) ==
    /\ LedgerOk(L) /\ EndsOk(L, e) /\ h \in 1..Len(e)
    /\ first = Fin(e, h - 1) + 1 /\ In(e, h, t) /\ t \in Nat

LEMMA SpentIs ==
  ASSUME NEW L, NEW a, NEW b, NEW o
  PROVE  o \in SpentIn(L, a, b) <=> \E u \in a..b : \E i \in DOMAIN L[u].inputs : o = L[u].inputs[i]
BY DEF SpentIn, ToSet

\* The place of a transaction in its block, what is spent before it, and the
\* heights of the outputs before it.
LEMMA TxPlace ==
  ASSUME NEW L, NEW e, NEW first, NEW h, NEW t, TxOf(L, e, first, h, t)
  PROVE  /\ L \in Seq(Tx) /\ first \in Nat \ {0} /\ t \in DOMAIN L /\ t \in Nat \ {0} /\ first <= t
         /\ HeightOf(e, t) = h /\ Fin(e, h - 1) + 1 = first
         /\ \A x \in SpentIn(L, 1, first - 1) \cup SpentIn(L, first, t) : x[1] < t
         /\ \A v : \A q \in Indexed(L, 1, <<t, v>>) : HeightOf(e, q[1]) \in Nat
<1>1. /\ L \in Seq(Tx) /\ e \in Seq(Nat) /\ Len(L) \in Nat /\ Len(e) \in Nat
      /\ \A u \in DOMAIN L : \A i \in DOMAIN L[u].inputs :
           L[u].inputs[i] \in Created(L) /\ L[u].inputs[i][1] < u
      /\ \A k \in 1..Len(e) : e[k] \in Nat /\ 1 <= e[k] /\ e[k] <= Len(L)
      /\ \A k, l \in 1..Len(e) : k < l => e[k] < e[l]
      /\ h \in 1..Len(e) /\ t \in Nat /\ first = Fin(e, h - 1) + 1 /\ In(e, h, t)
  <2>1. LedgerOk(L) /\ EndsOk(L, e) /\ h \in 1..Len(e) /\ t \in Nat /\ first = Fin(e, h - 1) + 1 /\ In(e, h, t)
    BY DEF TxOf
  <2>2. /\ L \in Seq(Tx)
        /\ \A u \in DOMAIN L : \A i \in DOMAIN L[u].inputs :
             L[u].inputs[i] \in Created(L) /\ L[u].inputs[i][1] < u
    BY <2>1, Zenon DEF LedgerOk
  <2>3. /\ e \in Seq(Nat)
        /\ \A k \in 1..Len(e) : 1 <= e[k] /\ e[k] <= Len(L)
        /\ \A k, l \in 1..Len(e) : k < l => e[k] < e[l]
    BY <2>1, Zenon DEF EndsOk
  <2>4. Len(e) \in Nat /\ \A k \in 1..Len(e) : e[k] \in Nat
    BY <2>3
  <2>5. Len(L) \in Nat
    BY <2>2
  <2> QED BY <2>1, <2>2, <2>3, <2>4, <2>5, Zenon
<1>2. Fin(e, h - 1) \in Nat /\ Fin(e, h) = e[h] /\ Fin(e, Len(e)) = e[Len(e)]
  BY <1>1 DEF Fin
<1>3. /\ first \in Nat \ {0} /\ t \in 1..Len(L) /\ first <= t /\ t <= e[h] /\ e[h] \in Nat
  BY <1>1, <1>2 DEF In
<1>4. e[h] <= e[Len(e)] /\ e[Len(e)] \in Nat
  <2>1. h = Len(e) \/ (h < Len(e) /\ Len(e) \in 1..Len(e))
    BY <1>1
  <2> QED BY <1>1, <2>1
<1>5. EndsOk(L, e)
  BY DEF TxOf
<1>6. \A u \in 1..t : u \in 1..Fin(e, Len(e))
  BY <1>2, <1>3, <1>4
<1>7. HeightOf(e, t) = h
  <2>1. t \in 1..Fin(e, Len(e))
    BY <1>3, <1>6
  <2> QED BY <1>1, <1>5, <2>1, HeightFound
<1>8. ASSUME NEW x \in SpentIn(L, 1, first - 1) \cup SpentIn(L, first, t) PROVE x[1] < t
  <2>1. \E u \in 1..t : \E i \in DOMAIN L[u].inputs : x = L[u].inputs[i]
    <3>1. CASE x \in SpentIn(L, 1, first - 1)
      <4>1. PICK u \in 1..(first - 1) : \E i \in DOMAIN L[u].inputs : x = L[u].inputs[i]
        BY <3>1, SpentIs
      <4>2. u \in 1..t
        BY <1>3, <4>1
      <4> QED BY <4>1, <4>2
    <3>2. CASE x \in SpentIn(L, first, t)
      <4>1. PICK u \in first..t : \E i \in DOMAIN L[u].inputs : x = L[u].inputs[i]
        BY <3>2, SpentIs
      <4>2. u \in 1..t
        BY <1>3, <4>1
      <4> QED BY <4>1, <4>2
    <3> QED BY <1>8, <3>1, <3>2
  <2>2. PICK u \in 1..t : \E i \in DOMAIN L[u].inputs : x = L[u].inputs[i]
    BY <2>1
  <2>3. u \in DOMAIN L /\ u <= t /\ u \in Nat
    BY <1>1, <1>3, <2>2
  <2>4. x \in Created(L) /\ x[1] < u
    BY <1>1, <2>2, <2>3
  <2>5. x[1] \in Nat
    BY <1>1, <2>4, OutputTyped
  <2> QED BY <1>1, <2>3, <2>4, <2>5
<1>9. ASSUME NEW v, NEW q \in Indexed(L, 1, <<t, v>>) PROVE HeightOf(e, q[1]) \in Nat
  <2>1. q \in Created(L) /\ Before(q, <<t, v>>)
    BY DEF Indexed, P2tr
  <2>2. q[1] \in 1..Len(L)
    BY <1>1, <2>1, OutputTyped
  <2>3. q[1] \in 1..t
    BY <1>3, <2>1, <2>2 DEF Before
  <2>4. HeightOf(e, q[1]) \in 1..Len(e)
    BY <1>5, <1>6, <2>3, HeightFound
  <2> QED BY <2>4
<1>10. t \in DOMAIN L /\ t \in Nat \ {0}
  BY <1>1, <1>3
<1> QED BY <1>1, <1>3, <1>7, <1>8, <1>9, <1>10

\* The loop over the inputs of transaction t.
LEMMA InputLoop ==
  ASSUME NEW L, NEW e, NEW tr, NEW first, NEW h, NEW t, TxOf(L, e, first, h, t), NEW acc, NEW T, NEW K,
         AccOk(L, e, tr, first, acc, <<t, 1>>, SpentIn(L, first, t - 1)), TxPart(L, t, acc, <<t, 1>>, T, K)
  PROVE  /\ AccOk(L, e, tr, first, ApplyTxInputs(acc, L[t]), <<t, 1>>, SpentIn(L, first, t))
         /\ TxPart(L, t, ApplyTxInputs(acc, L[t]), <<t, 1>>, T, K)
<1> DEFINE xs == L[t].inputs
           p == <<t, 1>>
           Y(k) == SpentIn(L, first, t - 1) \cup {xs[j] : j \in 1..k}
           Ok(a, k) == AccOk(L, e, tr, first, a, p, Y(k)) /\ TxPart(L, t, a, p, T, K)
<1>1. /\ L \in Seq(Tx) /\ first \in Nat \ {0} /\ t \in DOMAIN L /\ t \in Nat \ {0} /\ first <= t
      /\ \A q \in Indexed(L, 1, p) : HeightOf(e, q[1]) \in Nat
  BY TxPlace
<1>2. xs \in Seq(Nat \X Nat) /\ Len(xs) \in Nat /\ DOMAIN xs = 1..Len(xs)
  <2>1. xs \in Seq(Nat \X Nat)
    BY <1>1, OutputTyped
  <2> HIDE DEF xs
  <2> QED BY <2>1
<1>3. PICK after : /\ ApplyTxInputs(acc, L[t]) = after[Len(xs)]
                   /\ after[0] = acc
                   /\ \A n \in 1..Len(xs) : after[n] = ApplyInput(after[n - 1], xs[n])
  <2>1. Len(L[t].inputs) \in Nat
    BY <1>2
  <2>2. PICK after : InputTrace(acc, L[t], after)
    BY <2>1, InputSteps
  <2> QED BY <2>2, Zenon DEF InputTrace
<1>4. ASSUME NEW n \in 1..Len(xs) PROVE xs[n] \notin SpentIn(L, 1, first - 1) \cup Y(n - 1)
  <2> SUFFICES ASSUME xs[n] \in SpentIn(L, 1, first - 1) \cup Y(n - 1) PROVE FALSE
    OBVIOUS
  <2>1. \A u \in DOMAIN L : \A i \in DOMAIN L[t].inputs, j \in DOMAIN L[u].inputs :
          L[t].inputs[i] = L[u].inputs[j] => t = u /\ i = j
    BY <1>1 DEF TxOf, LedgerOk
  <2>2. ASSUME NEW u \in 1..(t - 1), NEW j \in DOMAIN L[u].inputs, xs[n] = L[u].inputs[j] PROVE FALSE
    <3>1. u \in DOMAIN L /\ u # t /\ n \in DOMAIN xs
      BY <1>1, <1>2
    <3> QED BY <2>1, <2>2, <3>1
  <2>3. xs[n] \notin SpentIn(L, 1, first - 1)
    <3> SUFFICES ASSUME xs[n] \in SpentIn(L, 1, first - 1) PROVE FALSE
      OBVIOUS
    <3>1. PICK u \in 1..(first - 1) : \E i \in DOMAIN L[u].inputs : xs[n] = L[u].inputs[i]
      BY SpentIs
    <3>2. u \in 1..(t - 1)
      BY <1>1, <3>1
    <3> QED BY <2>2, <3>1, <3>2
  <2>4. xs[n] \notin SpentIn(L, first, t - 1)
    <3> SUFFICES ASSUME xs[n] \in SpentIn(L, first, t - 1) PROVE FALSE
      OBVIOUS
    <3>1. PICK u \in first..(t - 1) : \E i \in DOMAIN L[u].inputs : xs[n] = L[u].inputs[i]
      BY SpentIs
    <3>2. u \in 1..(t - 1)
      BY <1>1, <3>1
    <3> QED BY <2>2, <3>1, <3>2
  <2>5. PICK j \in 1..(n - 1) : xs[n] = xs[j]
    BY <2>3, <2>4
  <2>6. j \in DOMAIN xs /\ n \in DOMAIN xs /\ j # n
    BY <1>2, <2>5
  <2> QED BY <1>1, <2>1, <2>5, <2>6
<1>5. \A n \in 1..Len(xs) : Y(n) = Y(n - 1) \cup {xs[n]}
  <2> SUFFICES ASSUME NEW n \in 1..Len(xs) PROVE Y(n) = Y(n - 1) \cup {xs[n]}
    OBVIOUS
  <2>1. 1..n = 1..(n - 1) \cup {n}
    BY <1>2
  <2> HIDE DEF xs
  <2> QED BY <2>1
<1>6. Y(0) = SpentIn(L, first, t - 1)
  OBVIOUS
<1>7. Y(Len(xs)) = SpentIn(L, first, t)
  <2>1. ASSUME NEW o PROVE o \in Y(Len(xs)) <=> o \in SpentIn(L, first, t)
    <3>1. first..t = first..(t - 1) \cup {t}
      BY <1>1
    <3>2. o \in SpentIn(L, first, t) <=> \E u \in first..t : \E i \in DOMAIN L[u].inputs : o = L[u].inputs[i]
      BY SpentIs
    <3>3. o \in SpentIn(L, first, t - 1) <=> \E u \in first..(t - 1) : \E i \in DOMAIN L[u].inputs : o = L[u].inputs[i]
      BY SpentIs
    <3>4. o \in {xs[j] : j \in 1..Len(xs)} <=> \E i \in DOMAIN L[t].inputs : o = L[t].inputs[i]
      BY <1>2
    <3> QED BY <3>1, <3>2, <3>3, <3>4
  <2> HIDE DEF Y
  <2> QED BY <2>1
<1> HIDE DEF xs, p, Y
<1>8. ASSUME NEW k \in 0..Len(xs), ~Ok(after[k], k) PROVE FALSE
  <2> DEFINE Bad == {m \in 0..Len(xs) : ~Ok(after[m], m)}
  <2>1. Bad \in SUBSET Nat /\ Bad # {}
    <3> HIDE DEF Ok
    <3> QED BY <1>2, <1>8
  <2>2. PICK m \in Bad : \A n \in Bad : m <= n
    <3> HIDE DEF Bad
    <3> QED BY <2>1, LeastNatural
  <2>3. m # 0
    <3> SUFFICES ASSUME m = 0 PROVE FALSE
      OBVIOUS
    <3>1. Ok(after[0], 0)
      BY <1>3, <1>6, Zenon DEF p
    <3> HIDE DEF Ok
    <3> QED BY <2>2, <3>1
  <2>4. m \in 1..Len(xs) /\ m - 1 \in 0..Len(xs) /\ ~(m <= m - 1)
    <3> HIDE DEF Ok
    <3> QED BY <1>2, <2>2, <2>3
  <2>5. Ok(after[m - 1], m - 1)
    <3> HIDE DEF Ok
    <3> QED BY <2>2, <2>4
  <2>6. after[m] = ApplyInput(after[m - 1], xs[m]) /\ Y(m) = Y(m - 1) \cup {xs[m]}
    BY <1>3, <1>5, <2>4
  <2>7. xs[m] \notin SpentIn(L, 1, first - 1) \cup Y(m - 1)
    BY <1>4, <2>4
  <2>8. Ok(after[m], m)
    <3> DEFINE a == after[m - 1]
               Z == Y(m - 1)
    <3>1. /\ AccOk(L, e, tr, first, a, p, Z) /\ TxPart(L, t, a, p, T, K)
          /\ xs[m] \notin SpentIn(L, 1, first - 1) \cup Z
      BY <2>5, <2>7
    <3> HIDE DEF a, Z
    <3>2. /\ AccOk(L, e, tr, first, ApplyInput(a, xs[m]), p, Z \cup {xs[m]})
          /\ TxPart(L, t, ApplyInput(a, xs[m]), p, T, K)
      BY <1>1, <3>1, InputStep
    <3> QED BY <2>6, <3>2, Zenon DEF a, Z
  <2> HIDE DEF Ok
  <2> QED BY <2>2, <2>8
<1>9. Ok(after[Len(xs)], Len(xs))
  <2>1. Len(xs) \in 0..Len(xs)
    BY <1>2
  <2> HIDE DEF Ok
  <2> QED BY <1>8, <2>1
<1> QED BY <1>3, <1>7, <1>9, Zenon DEF p

\* The loop over its outputs.
LEMMA OutputLoop ==
  ASSUME NEW L, NEW e, NEW tr \in BOOLEAN, NEW first, NEW h, NEW t, TxOf(L, e, first, h, t), NEW acc, NEW T, NEW K,
         OutputCount(T) \in Nat,
         AccOk(L, e, tr, first, acc, <<t, 1>>, SpentIn(L, first, t)), TxPart(L, t, acc, <<t, 1>>, T, K)
  PROVE  /\ AccOk(L, e, tr, first, ApplyTxOutputs(acc, h, t, L[t]), <<t + 1, 1>>, SpentIn(L, first, t))
         /\ TxPart(L, t, ApplyTxOutputs(acc, h, t, L[t]), <<t + 1, 1>>, T, K)
<1> DEFINE xs == L[t].outputs
           Y == SpentIn(L, first, t)
           Ok(a, k) == AccOk(L, e, tr, first, a, <<t, k + 1>>, Y) /\ TxPart(L, t, a, <<t, k + 1>>, T, K)
<1>1. /\ L \in Seq(Tx) /\ first \in Nat \ {0} /\ t \in DOMAIN L /\ t \in Nat \ {0} /\ first <= t
      /\ HeightOf(e, t) = h /\ Fin(e, h - 1) + 1 = first
      /\ \A x \in SpentIn(L, 1, first - 1) \cup Y : x[1] < t
  BY TxPlace
<1>2. xs \in Seq(Kinds) /\ Len(xs) \in Nat /\ DOMAIN xs = 1..Len(xs)
  <2>1. xs \in Seq(Kinds)
    BY <1>1, OutputTyped
  <2> HIDE DEF xs
  <2> QED BY <2>1
<1>3. PICK after : /\ ApplyTxOutputs(acc, h, t, L[t]) = after[Len(xs)]
                   /\ after[0] = acc
                   /\ \A n \in 1..Len(xs) : after[n] = ApplyOutput(after[n - 1], h, t, L[t].tweak, n, L[t].outputs[n])
  <2>1. Len(L[t].outputs) \in Nat
    BY <1>2
  <2>2. PICK after : OutputTrace(acc, h, t, L[t], after)
    BY <2>1, OutputSteps
  <2> QED BY <2>2, Zenon DEF OutputTrace
<1>4. \A v \in 1..Len(xs) : AtOutput(L, e, first, h, t, v, Y)
  <2> SUFFICES ASSUME NEW v \in 1..Len(xs) PROVE AtOutput(L, e, first, h, t, v, Y)
    OBVIOUS
  <2>1. v \in DOMAIN L[t].outputs
    BY <1>2
  <2> QED BY <1>1, <2>1, Zenon DEF AtOutput
<1> HIDE DEF xs, Y
<1>5. ASSUME NEW k \in 0..Len(xs), ~Ok(after[k], k) PROVE FALSE
  <2> DEFINE Bad == {m \in 0..Len(xs) : ~Ok(after[m], m)}
  <2>1. Bad \in SUBSET Nat /\ Bad # {}
    <3> HIDE DEF Ok
    <3> QED BY <1>2, <1>5
  <2>2. PICK m \in Bad : \A n \in Bad : m <= n
    <3> HIDE DEF Bad
    <3> QED BY <2>1, LeastNatural
  <2>3. m # 0
    <3> SUFFICES ASSUME m = 0 PROVE FALSE
      OBVIOUS
    <3>1. 0 + 1 = 1
      OBVIOUS
    <3>2. Ok(after[0], 0)
      BY <1>3, <3>1, Zenon DEF Y
    <3> HIDE DEF Ok
    <3> QED BY <2>2, <3>2
  <2>4. m \in 1..Len(xs) /\ m - 1 \in 0..Len(xs) /\ ~(m <= m - 1) /\ (m - 1) + 1 = m
    <3> HIDE DEF Ok
    <3> QED BY <1>2, <2>2, <2>3
  <2>5. Ok(after[m - 1], m - 1)
    <3> HIDE DEF Ok
    <3> QED BY <2>2, <2>4
  <2>6. after[m] = ApplyOutput(after[m - 1], h, t, L[t].tweak, m, L[t].outputs[m])
    BY <1>3, <2>4
  <2>7. AtOutput(L, e, first, h, t, m, Y)
    BY <1>4, <2>4
  <2>8. AccOk(L, e, tr, first, after[m - 1], <<t, m>>, Y) /\ TxPart(L, t, after[m - 1], <<t, m>>, T, K)
    BY <2>4, <2>5, Zenon
  <2>9. Ok(after[m], m)
    BY <1>1, <2>6, <2>7, <2>8, OutputStep, Zenon
  <2> HIDE DEF Ok
  <2> QED BY <2>2, <2>9
<1>6. Ok(after[Len(xs)], Len(xs))
  <2>1. Len(xs) \in 0..Len(xs)
    BY <1>2
  <2> HIDE DEF Ok
  <2> QED BY <1>5, <2>1
<1> DEFINE p == <<t, Len(L[t].outputs) + 1>>
           n == <<t + 1, 1>>
<1>7. \A a : P2tr(L, a, p) = P2tr(L, a, n) /\ Indexed(L, a, p) = Indexed(L, a, n)
  BY <1>1, NextTx
<1>8. /\ AccOk(L, e, tr, first, after[Len(xs)], p, Y)
      /\ TxPart(L, t, after[Len(xs)], p, T, K)
  BY <1>6, Zenon DEF xs
<1> HIDE DEF p, n
<1>9. /\ AccOk(L, e, tr, first, after[Len(xs)], n, Y)
      /\ TxPart(L, t, after[Len(xs)], n, T, K)
  <2>1. /\ P2tr(L, 1, n) = P2tr(L, 1, p) /\ Indexed(L, 1, n) = Indexed(L, 1, p)
        /\ Indexed(L, first, n) = Indexed(L, first, p) /\ Indexed(L, t, n) = Indexed(L, t, p)
    BY <1>7
  <2> QED BY <1>8, <2>1, SamePlace, Zenon
<1> QED BY <1>3, <1>9, Zenon DEF n, Y


\* Accumulators that differ in what a transaction adds at its end at most.
SameRest(r, acc) ==
    /\ DOMAIN r = AccFields
    /\ \A x \in AccFields \ {"tx_outputs", "tweaks", "skipped_txs"} : r[x] = acc[x]

LEMMA SameAcc ==
  ASSUME NEW L, NEW e, NEW tr, NEW first, NEW p, NEW Y, NEW acc, NEW r, SameRest(r, acc),
         AccOk(L, e, tr, first, acc, p, Y)
  PROVE  AccOk(L, e, tr, first, r, p, Y) /\ r.outputs = acc.outputs
<1>1. /\ r.first_uid = acc.first_uid /\ r.tracking = acc.tracking /\ r.slots = acc.slots
      /\ r.seen = acc.seen /\ r.outputs = acc.outputs /\ r.skipped_outputs = acc.skipped_outputs
      /\ r.spend = acc.spend /\ r.spends = acc.spends
  BY DEF AccFields, SameRest
<1>2. OutputPart(L, tr, first, p, acc) /\ SpendPart(L, e, first, p, Y, acc.spend, acc.spends)
  BY DEF AccOk
<1>3. OutputPart(L, tr, first, p, r)
  BY <1>1, <1>2, Zenon DEF OutputPart
<1>4. DOMAIN r = AccFields
  BY DEF SameRest
<1> QED BY <1>1, <1>2, <1>3, <1>4, Zenon DEF AccOk

\* The indexed outputs of transaction t.
LEMMA IndexedHere ==
  ASSUME NEW L \in Seq(Tx), NEW t \in DOMAIN L
  PROVE  /\ Indexed(L, t, <<t, 1>>) = {}
         /\ Indexed(L, t, <<t + 1, 1>>) = {} <=> NoneIndexed(L, t)
<1>1. t \in Nat
  OBVIOUS
<1>2. ASSUME NEW q \in Created(L)
      PROVE  /\ ~(t <= q[1] /\ Before(q, <<t, 1>>))
             /\ t <= q[1] /\ Before(q, <<t + 1, 1>>) <=> q[1] = t
  <2>1. q[1] \in Nat /\ q[2] \in Nat \ {0}
    BY OutputTyped
  <2> QED BY <1>1, <2>1 DEF Before
<1>3. Indexed(L, t, <<t, 1>>) = {}
  BY <1>2 DEF Indexed, P2tr
<1>4. ASSUME NEW q \in Indexed(L, t, <<t + 1, 1>>) PROVE ~NoneIndexed(L, t)
  <2>1. /\ q \in Created(L) /\ t <= q[1] /\ Before(q, <<t + 1, 1>>)
        /\ IsP2tr(Kind(L, q)) /\ Kind(L, q) # Nums /\ L[q[1]].tweak
    BY DEF Indexed, P2tr
  <2>2. q[1] = t /\ q[2] \in DOMAIN L[t].outputs /\ q = <<t, q[2]>>
    BY <1>2, <2>1, OutputTyped
  <2> QED BY <2>1, <2>2 DEF NoneIndexed
<1>5. ASSUME NEW v \in DOMAIN L[t].outputs,
             IsP2tr(Kind(L, <<t, v>>)), Kind(L, <<t, v>>) # Nums, L[t].tweak
      PROVE  <<t, v>> \in Indexed(L, t, <<t + 1, 1>>)
  <2> DEFINE o == <<t, v>>
  <2>1. o \in Created(L) /\ o[1] = t
    BY OutputTyped
  <2>2. t <= o[1] /\ Before(o, <<t + 1, 1>>)
    BY <1>2, <2>1
  <2> QED BY <1>5, <2>1, <2>2 DEF Indexed, P2tr
<1>6. Indexed(L, t, <<t + 1, 1>>) = {} <=> NoneIndexed(L, t)
  BY <1>4, <1>5, Zenon DEF NoneIndexed
<1> QED BY <1>3, <1>6

\* A transaction adds a tweak entry, or itself to the skipped ones.
LEMMA TweaksStep ==
  ASSUME NEW L, NEW first \in Nat, NEW t \in Nat, first <= t, NEW T \in Seq(TweakRecord), NEW K \in SUBSET Nat,
         NEW xs, NEW ys, TweaksOk(L, first, t - 1, T, K, xs), Len(xs) \in Nat, NEW n \in Nat, Len(ys) = OutputCount(T) + n,
         n = 0 <=> NoneIndexed(L, t)
  PROVE  /\ n > 0 => /\ Append(T, [output_count |-> n, tweak |-> t]) \in Seq(TweakRecord)
                     /\ TweaksOk(L, first, t, Append(T, [output_count |-> n, tweak |-> t]), K, ys)
         /\ n = 0 => K \cup {t - first} \in SUBSET Nat /\ TweaksOk(L, first, t, T, K \cup {t - first}, ys)
<1> DEFINE Skipped(last) == {u - first : u \in {u \in first..last : NoneIndexed(L, u)}}
<1>1. /\ K = Skipped(t - 1) /\ IsFiniteSet(K)
      /\ Len(T) + Cardinality(K) = (t - 1) + 1 - first
      /\ \A i \in DOMAIN T : T[i].output_count > 0
      /\ OutputCount(T) = Len(xs)
  BY DEF TweaksOk
<1>2. Skipped(t) = IF NoneIndexed(L, t) THEN K \cup {t - first} ELSE K
  <2>1. first..t = first..(t - 1) \cup {t}
    OBVIOUS
  <2> QED BY <1>1, <2>1
<1>3. t - first \notin K
  BY <1>1
<1>4. Len(T) \in Nat /\ Cardinality(K) \in Nat /\ Len(T) + Cardinality(K) = t - first
  BY <1>1, FS_CardinalityType
<1> HIDE DEF Skipped
<1>5. CASE n > 0
  <2> DEFINE x == [output_count |-> n, tweak |-> t]
             U == Append(T, x)
  <2>1. x \in TweakRecord /\ x.output_count = n
    BY DEF TweakRecord
  <2> HIDE DEF x
  <2>2. /\ U \in Seq(TweakRecord) /\ Len(U) = Len(T) + 1 /\ DOMAIN U = 1..(Len(T) + 1) /\ DOMAIN T = 1..Len(T)
        /\ U[Len(T) + 1] = x /\ \A i \in 1..Len(T) : U[i] = T[i]
    BY <2>1
  <2>3. OutputCount(U) = OutputCount(T) + x.output_count
    BY <2>1, CountAppend
  <2> HIDE DEF U
  <2>4. OutputCount(U) = Len(ys)
    BY <2>1, <2>3
  <2>5. \A i \in DOMAIN U : U[i].output_count > 0
    <3> SUFFICES ASSUME NEW i \in DOMAIN U PROVE U[i].output_count > 0
      OBVIOUS
    <3>1. i = Len(T) + 1 \/ i \in DOMAIN T
      BY <1>4, <2>2
    <3>2. CASE i = Len(T) + 1
      BY <1>5, <2>1, <2>2, <3>2
    <3>3. CASE i \in DOMAIN T
      BY <1>1, <2>2, <3>3
    <3> QED BY <3>1, <3>2, <3>3
  <2>6. Len(U) + Cardinality(K) = t + 1 - first
    <3>1. \A a, c \in Nat : a + c = t - first => (a + 1) + c = t + 1 - first
      OBVIOUS
    <3>2. (Len(T) + 1) + Cardinality(K) = t + 1 - first
      BY <1>4, <3>1, Zenon
    <3> QED BY <2>2, <3>2, Zenon
  <2>7. K = Skipped(t)
    BY <1>2, <1>5
  <2>8. TweaksOk(L, first, t, U, K, ys)
    BY <1>1, <2>4, <2>5, <2>6, <2>7, Zenon DEF TweaksOk, Skipped
  <2> QED BY <1>5, <2>2, <2>8 DEF U, x
<1>6. CASE n = 0
  <2> DEFINE M == K \cup {t - first}
  <2>1. M = Skipped(t)
    BY <1>2, <1>6
  <2>2. IsFiniteSet(M) /\ Cardinality(M) = Cardinality(K) + 1
    BY <1>1, <1>3, FS_AddElement
  <2>3. M \in SUBSET Nat
    OBVIOUS
  <2> HIDE DEF M
  <2>4. Len(T) + Cardinality(M) = t + 1 - first
    BY <1>4, <2>2
  <2>5. OutputCount(T) = Len(ys)
    BY <1>1, <1>6
  <2>6. TweaksOk(L, first, t, T, M, ys)
    BY <1>1, <2>1, <2>2, <2>4, <2>5, Zenon DEF TweaksOk, Skipped
  <2> QED BY <1>6, <2>3, <2>6 DEF M
<1> QED BY <1>5, <1>6

\* ApplyTx takes the accumulators to the next transaction.
LEMMA TxStep ==
  ASSUME NEW L, NEW e, NEW tr \in BOOLEAN, NEW first, NEW h, NEW t, TxOf(L, e, first, h, t), NEW acc,
         AtTx(L, e, tr, first, acc, t)
  PROVE  AtTx(L, e, tr, first, ApplyTx(acc, h, t, t - first, L[t]), t + 1)
<1> DEFINE a0 == [acc EXCEPT !.tx_outputs = 0]
           T == acc.tweaks
           K == acc.skipped_txs
           p == <<t, 1>>
           n == <<t + 1, 1>>
           a1 == ApplyTxInputs(a0, L[t])
           a2 == ApplyTxOutputs(a1, h, t, L[t])
           r == ApplyTx(acc, h, t, t - first, L[t])
<1>1. /\ L \in Seq(Tx) /\ first \in Nat \ {0} /\ t \in DOMAIN L /\ t \in Nat \ {0} /\ first <= t
  BY TxPlace
<1>2. /\ AccOk(L, e, tr, first, acc, p, SpentIn(L, first, t - 1))
      /\ T \in Seq(TweakRecord) /\ K \in SUBSET Nat
      /\ TweaksOk(L, first, t - 1, T, K, acc.outputs)
  BY DEF AtTx
<1>3. DOMAIN acc = AccFields /\ acc.outputs \in Seq(OutputRecord)
  BY <1>2 DEF AccOk, OutputPart
<1>4. a0.tx_outputs = 0 /\ a0.tweaks = T /\ a0.skipped_txs = K /\ SameRest(a0, acc)
  BY <1>3 DEF AccFields, SameRest
<1>5. r = IF a2.tx_outputs > 0
          THEN [a2 EXCEPT !.tweaks = Append(@, [output_count |-> a2.tx_outputs, tweak |-> t])]
          ELSE [a2 EXCEPT !.skipped_txs = @ \cup {t - first}]
  BY Zenon DEF ApplyTx, TweakEntry
<1> HIDE DEF a0, T, K, p, a1, a2, r
<1>6. AccOk(L, e, tr, first, a0, p, SpentIn(L, first, t - 1)) /\ a0.outputs = acc.outputs
  BY <1>2, <1>4, SameAcc
<1>7. OutputCount(T) = Len(acc.outputs) /\ Len(acc.outputs) \in Nat
  <2>1. OutputCount(T) = Len(acc.outputs)
    BY <1>2 DEF TweaksOk
  <2>2. Len(acc.outputs) \in Nat
    BY <1>3
  <2> QED BY <2>1, <2>2
<1>8. TxPart(L, t, a0, p, T, K)
  <2>1. Cardinality(Indexed(L, t, p)) = 0
    <3>1. Indexed(L, t, p) = {}
      BY <1>1, IndexedHere DEF p
    <3> QED BY <3>1, FS_EmptySet
  <2>2. Len(acc.outputs) = OutputCount(T) + 0
    BY <1>7
  <2> QED BY <1>4, <1>6, <2>1, <2>2, Zenon DEF TxPart
<1>9. AccOk(L, e, tr, first, a1, p, SpentIn(L, first, t)) /\ TxPart(L, t, a1, p, T, K)
  BY <1>6, <1>8, InputLoop DEF a1, p
<1>10. AccOk(L, e, tr, first, a2, n, SpentIn(L, first, t)) /\ TxPart(L, t, a2, n, T, K)
  BY <1>7, <1>9, OutputLoop DEF a2, p
<1> DEFINE c == a2.tx_outputs
<1>11. /\ DOMAIN a2 = AccFields /\ a2.tweaks = T /\ a2.skipped_txs = K
       /\ c = Cardinality(Indexed(L, t, n)) /\ Len(a2.outputs) = OutputCount(T) + c
  BY <1>10 DEF AccOk, TxPart
<1>12. c \in Nat /\ (c = 0 <=> NoneIndexed(L, t))
  <2>1. IsFiniteSet(Indexed(L, t, n)) /\ Cardinality(Indexed(L, t, n)) \in Nat
    BY <1>1, Counted
  <2>2. Cardinality(Indexed(L, t, n)) = 0 <=> Indexed(L, t, n) = {}
    BY <2>1, FS_EmptySet
  <2>3. Indexed(L, t, n) = {} <=> NoneIndexed(L, t)
    BY <1>1, IndexedHere
  <2> QED BY <1>11, <2>1, <2>2, <2>3
<1> HIDE DEF c, n
<1>13. /\ c > 0 => /\ Append(T, [output_count |-> c, tweak |-> t]) \in Seq(TweakRecord)
                   /\ TweaksOk(L, first, t, Append(T, [output_count |-> c, tweak |-> t]), K, a2.outputs)
       /\ c = 0 => /\ K \cup {t - first} \in SUBSET Nat
                   /\ TweaksOk(L, first, t, T, K \cup {t - first}, a2.outputs)
  <2>1. first \in Nat /\ t \in Nat
    BY <1>1
  <2> QED BY <1>1, <1>2, <1>7, <1>11, <1>12, <2>1, TweaksStep
<1>14. /\ AccOk(L, e, tr, first, r, n, SpentIn(L, first, t))
       /\ r.tweaks \in Seq(TweakRecord) /\ r.skipped_txs \in SUBSET Nat
       /\ TweaksOk(L, first, t, r.tweaks, r.skipped_txs, r.outputs)
  <2>1. CASE c > 0
    <3> DEFINE U == Append(T, [output_count |-> c, tweak |-> t])
    <3>1. r = [a2 EXCEPT !.tweaks = U]
      BY <1>5, <1>11, <2>1 DEF c
    <3> HIDE DEF U
    <3>2. r.tweaks = U /\ r.skipped_txs = K /\ SameRest(r, a2)
      BY <1>11, <3>1 DEF AccFields, SameRest
    <3>3. AccOk(L, e, tr, first, r, n, SpentIn(L, first, t)) /\ r.outputs = a2.outputs
      BY <1>10, <3>2, SameAcc
    <3>4. U \in Seq(TweakRecord) /\ TweaksOk(L, first, t, U, K, a2.outputs)
      BY <1>13, <2>1 DEF U
    <3> QED BY <1>2, <3>2, <3>3, <3>4, Zenon
  <2>2. CASE ~(c > 0)
    <3> DEFINE M == K \cup {t - first}
    <3>1. c = 0
      BY <1>12, <2>2
    <3>2. r = [a2 EXCEPT !.skipped_txs = M]
      BY <1>5, <1>11, <2>2 DEF c
    <3>3. M \in SUBSET Nat /\ TweaksOk(L, first, t, T, M, a2.outputs)
      BY <1>13, <3>1
    <3> HIDE DEF M
    <3>4. r.tweaks = T /\ r.skipped_txs = M /\ SameRest(r, a2)
      BY <1>11, <3>2 DEF AccFields, SameRest
    <3>5. AccOk(L, e, tr, first, r, n, SpentIn(L, first, t)) /\ r.outputs = a2.outputs
      BY <1>10, <3>4, SameAcc
    <3> QED BY <1>2, <3>3, <3>4, <3>5, Zenon
  <2> QED BY <2>1, <2>2
<1> DEFINE u == t + 1
<1>15. u - 1 = t
  BY <1>1
<1>16. AccOk(L, e, tr, first, r, <<u, 1>>, SpentIn(L, first, t))
  BY <1>14 DEF n
<1> HIDE DEF u
<1>17. AtTx(L, e, tr, first, r, u)
  <2>1. AccOk(L, e, tr, first, r, <<u, 1>>, SpentIn(L, first, u - 1))
    BY <1>15, <1>16, Zenon
  <2>2. TweaksOk(L, first, u - 1, r.tweaks, r.skipped_txs, r.outputs)
    BY <1>14, <1>15, Zenon
  <2> QED BY <1>14, <2>1, <2>2, Zenon DEF AtTx
<1> QED BY <1>17, Zenon DEF r, u

-----------------------------------------------------------------------------
(* A block.                                                                *)

\* The blocks d, and another that holds the rest of the ledger.
EndsStep(L, d, e) ==
    /\ EndsOk(L, e) /\ Len(e) = Len(d) + 1 /\ Len(d) \in Nat
    /\ e[Len(e)] = Len(L) /\ Fin(e, Len(e)) = Len(L) /\ Fin(d, Len(d)) \in Nat /\ Len(L) \in Nat
    /\ \A h \in 1..Len(d) : e[h] = d[h]
    /\ \A h \in 0..Len(d) : Fin(e, h) = Fin(d, h)
    /\ \A t \in 1..Fin(d, Len(d)) : HeightOf(d, t) \in 1..Len(d) /\ HeightOf(e, t) = HeightOf(d, t)

LEMMA EndsAppend ==
  ASSUME NEW L \in Seq(Tx), NEW d, EndsOk(L, d), Len(L) > Fin(d, Len(d)), NEW e, e = Append(d, Len(L))
  PROVE  EndsStep(L, d, e)
<1>1. /\ d \in Seq(Nat) /\ Len(d) \in Nat /\ Len(L) \in Nat
      /\ \A h \in 1..Len(d) : d[h] \in Nat /\ 1 <= d[h] /\ d[h] <= Len(L)
      /\ \A h, k \in 1..Len(d) : h < k => d[h] < d[k]
      /\ \A t \in 1..Fin(d, Len(d)) : \E h \in 1..Len(d) : In(d, h, t)
  <2>1. d \in Seq(Nat)
    BY DEF EndsOk
  <2>2. Len(d) \in Nat /\ \A h \in 1..Len(d) : d[h] \in Nat
    BY <2>1
  <2> QED BY <2>1, <2>2 DEF EndsOk
<1>2. /\ e \in Seq(Nat) /\ Len(e) = Len(d) + 1 /\ e[Len(d) + 1] = Len(L)
      /\ \A h \in 1..Len(d) : e[h] = d[h]
  BY <1>1
<1>3. \A h \in 0..Len(d) : Fin(e, h) = Fin(d, h) /\ Fin(d, h) \in Nat
  BY <1>1, <1>2 DEF Fin
<1>4. Fin(e, Len(e)) = Len(L)
  BY <1>1, <1>2 DEF Fin
<1>5. \A h \in 1..Len(d) : \A t : In(e, h, t) <=> In(d, h, t)
  <2> SUFFICES ASSUME NEW h \in 1..Len(d), NEW t PROVE In(e, h, t) <=> In(d, h, t)
    OBVIOUS
  <2>1. h \in 0..Len(d) /\ h - 1 \in 0..Len(d)
    BY <1>1
  <2>2. Fin(e, h) = Fin(d, h) /\ Fin(e, h - 1) = Fin(d, h - 1)
    BY <1>3, <2>1
  <2> QED BY <2>2, Zenon DEF In
<1>6. Len(d) \in 0..Len(d) /\ Fin(d, Len(d)) \in Nat
  BY <1>1, <1>3
<1>7. EndsOk(L, e)
  <2>1. \A h \in 1..Len(e) : h \in 1..Len(d) \/ h = Len(d) + 1
    BY <1>1, <1>2
  <2>2. ASSUME NEW h \in 1..Len(e) PROVE 1 <= e[h] /\ e[h] <= Len(L)
    BY <1>1, <1>2, <1>6, <2>1
  <2>3. ASSUME NEW h \in 1..Len(e), NEW k \in 1..Len(e), h < k PROVE e[h] < e[k]
    <3>1. h \in 1..Len(d)
      BY <1>1, <1>2, <2>3
    <3>2. CASE k \in 1..Len(d)
      BY <1>1, <1>2, <2>3, <3>1, <3>2
    <3>3. CASE k = Len(d) + 1
      <4>1. d[h] <= d[Len(d)] /\ d[Len(d)] \in Nat /\ Fin(d, Len(d)) = d[Len(d)]
        <5>1. h = Len(d) \/ (h < Len(d) /\ Len(d) \in 1..Len(d))
          BY <1>1, <3>1
        <5> QED BY <1>1, <3>1, <5>1 DEF Fin
      <4> QED BY <1>1, <1>2, <3>1, <3>3, <4>1
    <3> QED BY <2>1, <3>2, <3>3
  <2>4. ASSUME NEW t \in 1..Fin(e, Len(e)) PROVE \E h \in 1..Len(e) : In(e, h, t)
    <3>1. CASE t <= Fin(d, Len(d))
      <4>1. t \in 1..Fin(d, Len(d))
        BY <1>6, <3>1
      <4>2. PICK h \in 1..Len(d) : In(d, h, t)
        BY <1>1, <4>1
      <4>3. h \in 1..Len(e) /\ In(e, h, t)
        BY <1>1, <1>2, <1>5, <4>2
      <4> QED BY <4>3
    <3>2. CASE ~(t <= Fin(d, Len(d)))
      <4>1. Len(d) + 1 \in 1..Len(e) /\ Len(d) + 1 - 1 = Len(d)
        BY <1>1, <1>2
      <4>2. Fin(e, Len(d) + 1) = Len(L) /\ Fin(e, Len(d) + 1 - 1) = Fin(d, Len(d))
        BY <1>2, <1>3, <1>4, <1>6, <4>1
      <4>3. t <= Len(L) /\ Fin(d, Len(d)) < t
        BY <1>1, <1>4, <1>6, <3>2
      <4>4. In(e, Len(d) + 1, t)
        BY <4>2, <4>3 DEF In
      <4> QED BY <4>1, <4>4
    <3> QED BY <3>1, <3>2
  <2> QED BY <1>2, <2>2, <2>3, <2>4, Zenon DEF EndsOk
<1>8. ASSUME NEW t \in 1..Fin(d, Len(d)) PROVE HeightOf(d, t) \in 1..Len(d) /\ HeightOf(e, t) = HeightOf(d, t)
  <2>1. HeightOf(d, t) \in 1..Len(d) /\ In(d, HeightOf(d, t), t)
    BY HeightFound
  <2>2. t \in 1..Fin(e, Len(e))
    BY <1>1, <1>4, <1>6
  <2>3. HeightOf(d, t) \in 1..Len(e) /\ In(e, HeightOf(d, t), t)
    BY <1>1, <1>2, <1>5, <2>1
  <2> QED BY <1>7, <2>1, <2>2, <2>3, HeightFound
<1>9. e[Len(e)] = Len(L)
  BY <1>2
<1> QED BY <1>1, <1>2, <1>3, <1>4, <1>6, <1>7, <1>8, <1>9, Zenon DEF EndsStep

\* The outputs of the blocks d are unaffected by another.
LEMMA OldValues ==
  ASSUME NEW L \in Seq(Tx), NEW d, NEW e, EndsStep(L, d, e), NEW q \in Created(L), q[1] <= Fin(d, Len(d))
  PROVE  Value(L, e, q) = Value(L, d, q) /\ Entry(L, e, q) = Entry(L, d, q)
<1>1. q[1] \in 1..Fin(d, Len(d))
  <2>1. q[1] \in 1..Len(L)
    BY OutputTyped
  <2> QED BY <2>1 DEF EndsStep
<1>2. HeightOf(e, q[1]) = HeightOf(d, q[1]) /\ HeightOf(d, q[1]) \in 1..Len(d)
  BY <1>1 DEF EndsStep
<1>3. Len(d) \in Nat /\ HeightOf(d, q[1]) - 1 \in 0..Len(d)
  BY <1>2 DEF EndsStep
<1>4. Fin(e, HeightOf(d, q[1]) - 1) = Fin(d, HeightOf(d, q[1]) - 1)
  BY <1>3 DEF EndsStep
<1> QED BY <1>2, <1>4, Zenon DEF Value, Entry

\* A place is between the outputs of the transactions before it and the
\* other ones.
LEMMA BeforeTx ==
  ASSUME NEW L \in Seq(Tx), NEW a, NEW t \in Nat, NEW q
  PROVE  /\ q \in P2tr(L, a, <<t + 1, 1>>) => q \in Created(L) /\ a <= q[1] /\ q[1] <= t
         /\ q \in Created(L) => (Before(q, <<t + 1, 1>>) <=> q[1] <= t)
<1>1. ASSUME q \in Created(L) PROVE Before(q, <<t + 1, 1>>) <=> q[1] <= t
  <2>1. q[1] \in Nat /\ q[2] \in Nat \ {0}
    BY <1>1, OutputTyped
  <2> QED BY <2>1 DEF Before
<1>2. q \in P2tr(L, a, <<t + 1, 1>>) => q \in Created(L) /\ a <= q[1] /\ Before(q, <<t + 1, 1>>)
  BY DEF P2tr
<1> QED BY <1>1, <1>2

\* A block starts with accumulators that fit its first transaction.
LEMMA BlockBegins ==
  ASSUME NEW L, LedgerOk(L), NEW d, EndsOk(L, d), NEW e, EndsStep(L, d, e), NEW s, StateOk(L, d, s),
         NEW first, first = Fin(d, Len(d)) + 1
  PROVE  AtTx(L, e, s.tracking, first, BlockStart(s), first)
<1> DEFINE p == <<first, 1>>
           last == Fin(d, Len(d))
           b == BlockStart(s)
<1>1. L \in Seq(Tx) /\ last \in Nat /\ first \in Nat /\ first - 1 = last
  <2>1. L \in Seq(Tx)
    BY DEF LedgerOk
  <2>2. last \in Nat /\ first = last + 1
    BY DEF EndsStep
  <2> HIDE DEF last
  <2> QED BY <2>1, <2>2
<1>2. /\ s.next_uid \in Nat /\ s.next_uid + 1 = Uid(L, p)
      /\ s.tracking \in BOOLEAN
      /\ s.seen = SeenTo(L, s.tracking, p)
      /\ DOMAIN s.spend = Indexed(L, 1, p) \ SpentIn(L, 1, last)
      /\ \A o \in DOMAIN s.spend : s.spend[o] = Value(L, d, o)
  BY DEF StateOk
<1>3. /\ DOMAIN b = AccFields
      /\ b.first_uid = s.next_uid + 1 /\ b.spend = s.spend /\ b.tracking = s.tracking
      /\ b.seen = s.seen /\ b.slots = 0 /\ b.outputs = << >> /\ b.spends = << >>
      /\ b.tweaks = << >> /\ b.skipped_txs = {} /\ b.skipped_outputs = << >>
  BY DEF BlockStart, FirstUid, AccFields
<1> HIDE DEF b, last
<1>4. SpentIn(L, first, first - 1) = {}
  <2>1. first..(first - 1) = {}
    BY <1>1
  <2> QED BY <2>1 DEF SpentIn
<1>5. Indexed(L, first, p) = {}
  <2> SUFFICES ASSUME NEW q \in P2tr(L, first, p) PROVE FALSE
    BY DEF Indexed
  <2>1. first = last + 1
    BY DEF last
  <2>2. q \in Created(L) /\ first <= q[1] /\ q[1] <= last
    BY <1>1, <2>1, BeforeTx
  <2>3. q[1] \in Nat
    BY <1>1, <2>2, OutputTyped
  <2> QED BY <1>1, <2>1, <2>2, <2>3
<1>6. SpendPart(L, e, first, p, {}, b.spend, b.spends)
  <2>1. DOMAIN b.spend = Indexed(L, 1, p) \ (SpentIn(L, 1, first - 1) \cup {})
    BY <1>1, <1>2, <1>3
  <2>2. ASSUME NEW o \in DOMAIN b.spend PROVE b.spend[o] = Value(L, e, o)
    <3>1. o \in P2tr(L, 1, p)
      BY <2>1 DEF Indexed
    <3>2. first = last + 1
      BY DEF last
    <3>3. o \in Created(L) /\ o[1] <= last
      BY <1>1, <3>1, <3>2, BeforeTx
    <3>4. Value(L, e, o) = Value(L, d, o)
      BY <1>1, <3>3, OldValues DEF last
    <3> QED BY <1>2, <1>3, <2>2, <3>4
  <2>3. b.spends \in Seq(SpendRecord) /\ ToSet(b.spends) = {} /\ IsInjective([i \in DOMAIN b.spends |-> b.spends[i].uid])
    BY <1>3 DEF ToSet, IsInjective
  <2>4. {Entry(L, e, o) : o \in Indexed(L, 1, p) \cap {}} = {}
    OBVIOUS
  <2> QED BY <2>1, <2>2, <2>3, <2>4, Zenon DEF SpendPart
<1>7. OutputPart(L, s.tracking, first, p, b)
  <2>1. OutputsOk(L, s.tracking, first, p, b.outputs)
    <3>1. Len(b.outputs) = Cardinality(Indexed(L, first, p))
      BY <1>3, <1>5, FS_EmptySet
    <3> QED BY <1>5, <3>1 DEF OutputsOk
  <2>2. b.outputs \in Seq(OutputRecord) /\ b.skipped_outputs \in Seq(Nat)
    BY <1>3
  <2>3. b.slots \in Nat /\ b.slots = Len(b.outputs) + Len(b.skipped_outputs)
    BY <1>3
  <2>4. b.first_uid \in Nat /\ b.first_uid = Uid(L, p) /\ b.first_uid + b.slots = Uid(L, p)
    BY <1>2, <1>3
  <2> QED BY <1>2, <1>3, <2>1, <2>2, <2>3, <2>4, Zenon DEF OutputPart
<1>8. TweaksOk(L, first, first - 1, b.tweaks, b.skipped_txs, b.outputs)
  <2>1. first..(first - 1) = {}
    BY <1>1
  <2>2. b.skipped_txs = {t - first : t \in {t \in first..(first - 1) : NoneIndexed(L, t)}}
    BY <1>3, <2>1
  <2>3. IsFiniteSet(b.skipped_txs) /\ Cardinality(b.skipped_txs) = 0
    BY <1>3, FS_EmptySet
  <2>4. Len(b.tweaks) + Cardinality(b.skipped_txs) = first - 1 + 1 - first
    BY <1>1, <1>3, <2>3
  <2>5. OutputCount(b.tweaks) = Len(b.outputs)
    <3>1. \E x : x \in TweakRecord
      <4>1. [output_count |-> 0, tweak |-> 0] \in TweakRecord
        BY DEF TweakRecord
      <4> QED BY <4>1
    <3>2. << >> \in Seq(TweakRecord)
      OBVIOUS
    <3>3. OutputCount(<< >>) = 0
      BY <3>1, <3>2, CountAppend
    <3> QED BY <1>3, <3>3
  <2>6. \A i \in DOMAIN b.tweaks : b.tweaks[i].output_count > 0
    BY <1>3
  <2> QED BY <2>2, <2>3, <2>4, <2>5, <2>6, Zenon DEF TweaksOk
<1>9. b.tweaks \in Seq(TweakRecord) /\ b.skipped_txs \in SUBSET Nat
  BY <1>3
<1>10. AccOk(L, e, s.tracking, first, b, p, SpentIn(L, first, first - 1))
  BY <1>3, <1>4, <1>6, <1>7, Zenon DEF AccOk
<1> QED BY <1>8, <1>9, <1>10, Zenon DEF AtTx, b

\* The loop over the transactions of the next block.
LEMMA BlockLoop ==
  ASSUME NEW L, LedgerOk(L), NEW d, EndsOk(L, d), Len(L) > Fin(d, Len(d)), NEW e, EndsStep(L, d, e),
         NEW s, StateOk(L, d, s), NEW first, first = Fin(d, Len(d)) + 1,
         NEW acc, acc = ApplyTxs(s, Len(d) + 1, first, SubSeq(L, first, Len(L)))
  PROVE  AtTx(L, e, s.tracking, first, acc, Len(L) + 1)
<1> DEFINE txs == SubSeq(L, first, Len(L))
           h == Len(d) + 1
           Ok(a, n) == AtTx(L, e, s.tracking, first, a, first + n)
<1>1. L \in Seq(Tx) /\ Len(L) \in Nat /\ Len(d) \in Nat /\ first \in Nat \ {0} /\ first <= Len(L)
  BY DEF LedgerOk, EndsStep
<1>2. s.tracking \in BOOLEAN
  BY DEF StateOk
<1>3. /\ Len(txs) = Len(L) + 1 - first /\ Len(txs) \in Nat
      /\ \A n \in 1..Len(txs) : txs[n] = L[first + n - 1]
  BY <1>1
<1> HIDE DEF txs
<1>4. PICK after : /\ acc = after[Len(txs)]
                   /\ after[0] = BlockStart(s)
                   /\ \A n \in 1..Len(txs) : after[n] = ApplyTx(after[n - 1], h, first + n - 1, n - 1, txs[n])
  <2>1. PICK after : TxTrace(s, h, first, txs, after)
    BY <1>3, TxSteps
  <2> QED BY <2>1, Zenon DEF TxTrace, txs
<1>5. ASSUME NEW n \in 1..Len(txs), Ok(after[n - 1], n - 1) PROVE Ok(after[n], n)
  <2> DEFINE t == first + n - 1
  <2>1. t \in Nat /\ first + (n - 1) = t /\ t + 1 = first + n /\ t - first = n - 1 /\ first <= t /\ t <= Len(L)
    <3>1. Len(txs) = Len(L) + 1 - first /\ Len(L) \in Nat /\ first \in Nat /\ Len(txs) \in Nat
      BY <1>1, <1>3, Zenon
    <3>2. n \in Nat /\ 1 <= n /\ n <= Len(txs)
      BY <3>1
    <3> HIDE DEF Ok
    <3> QED BY <3>1, <3>2
  <2>2. EndsOk(L, e) /\ h = Len(e) /\ Fin(e, h) = Len(L) /\ h \in 1..Len(e)
    BY <1>1 DEF EndsStep
  <2>3. h - 1 = Len(d) /\ Fin(e, h - 1) = Fin(d, Len(d)) /\ Fin(d, Len(d)) \in Nat
    <3>1. h - 1 = Len(d) /\ Len(d) \in 0..Len(d)
      BY <1>1
    <3> QED BY <3>1 DEF EndsStep
  <2> HIDE DEF t, h
  <2>4. In(e, h, t)
    <3>1. Fin(e, h - 1) < t
      BY <2>1, <2>3
    <3>2. t <= Fin(e, h)
      BY <2>1, <2>2
    <3> QED BY <3>1, <3>2 DEF In
  <2>5. TxOf(L, e, first, h, t)
    BY <2>1, <2>2, <2>3, <2>4, Zenon DEF TxOf
  <2>6. after[n] = ApplyTx(after[n - 1], h, t, t - first, L[t])
    BY <1>3, <1>4, <2>1 DEF t
  <2>7. AtTx(L, e, s.tracking, first, after[n - 1], t)
    BY <1>5, <2>1, Zenon
  <2>8. AtTx(L, e, s.tracking, first, after[n], t + 1)
    BY <1>2, <2>5, <2>6, <2>7, TxStep
  <2> QED BY <2>1, <2>8, Zenon
<1>6. Ok(after[0], 0)
  <2>1. AtTx(L, e, s.tracking, first, after[0], first)
    BY <1>4, BlockBegins, Zenon
  <2>2. first + 0 = first
    BY <1>1
  <2> QED BY <2>1, <2>2, Zenon
<1> DEFINE Bad == {m \in 0..Len(txs) : ~Ok(after[m], m)}
<1>7. Bad = {}
  <2> SUFFICES ASSUME Bad # {} PROVE FALSE
    OBVIOUS
  <2> HIDE DEF Ok
  <2>1. PICK m \in Bad : \A n \in Bad : m <= n
    <3>1. Bad \in SUBSET Nat
      BY <1>3
    <3> HIDE DEF Bad
    <3> QED BY <3>1, LeastNatural
  <2>2. m # 0
    BY <1>6, <2>1
  <2>3. m \in 1..Len(txs) /\ m - 1 \in 0..Len(txs) /\ ~(m <= m - 1)
    BY <1>3, <2>1, <2>2
  <2>4. Ok(after[m - 1], m - 1)
    BY <2>1, <2>3
  <2> QED BY <1>5, <2>1, <2>3, <2>4
<1>8. Len(txs) \in 0..Len(txs) /\ first + Len(txs) = Len(L) + 1
  BY <1>1, <1>3
<1>9. Ok(after[Len(txs)], Len(txs))
  <2> HIDE DEF Ok
  <2> QED BY <1>7, <1>8
<1> QED BY <1>4, <1>8, <1>9, Zenon

\* The accumulators after transaction last.
LEMMA AfterTx ==
  ASSUME NEW L, NEW e, NEW tr, NEW first, NEW acc, NEW u, NEW last, u - 1 = last, AtTx(L, e, tr, first, acc, u)
  PROVE  /\ AccOk(L, e, tr, first, acc, <<u, 1>>, SpentIn(L, first, last))
         /\ acc.tweaks \in Seq(TweakRecord) /\ acc.skipped_txs \in SUBSET Nat
         /\ TweaksOk(L, first, last, acc.tweaks, acc.skipped_txs, acc.outputs)
BY Zenon DEF AtTx

\* Inputs of earlier blocks and of the next one are the inputs so far.
LEMMA SpentJoin ==
  ASSUME NEW L, NEW a \in Nat, NEW b \in Nat, a <= b
  PROVE  SpentIn(L, 1, a) \cup SpentIn(L, a + 1, b) = SpentIn(L, 1, b)
<1>1. 1..b = 1..a \cup (a + 1)..b
  OBVIOUS
<1> QED BY <1>1 DEF SpentIn

\* The state after the next block.
LEMMA NewState ==
  ASSUME NEW L, LedgerOk(L), NEW d, Len(L) > Fin(d, Len(d)), NEW e, EndsStep(L, d, e), NEW s, StateOk(L, d, s),
         NEW first, first = Fin(d, Len(d)) + 1, NEW acc, AtTx(L, e, s.tracking, first, acc, Len(L) + 1),
         NEW r, r = StateAfter(s, acc)
  PROVE  StateOk(L, e, r) /\ r.tracking = s.tracking
<1> DEFINE last == Len(L)
           p == <<last + 1, 1>>
           old == Fin(d, Len(d))
<1>1. /\ Fin(e, Len(e)) = last /\ last \in Nat /\ old \in Nat /\ old < last
      /\ first = old + 1 /\ last + 1 - 1 = last /\ first - 1 = old
  BY DEF EndsStep
<1>2. AccOk(L, e, s.tracking, first, acc, p, SpentIn(L, first, last))
  BY <1>1, AfterTx
<1>3. /\ DOMAIN s = {"next_uid", "spend", "tracking", "seen"} /\ s.tracking \in BOOLEAN
      /\ s.next_uid \in Nat /\ s.next_uid + 1 = Uid(L, <<first, 1>>)
  BY DEF StateOk
<1>4. /\ acc.first_uid \in Nat /\ acc.first_uid = Uid(L, <<first, 1>>)
      /\ acc.slots \in Nat /\ acc.first_uid + acc.slots = Uid(L, p)
      /\ acc.seen = SeenTo(L, s.tracking, p)
      /\ DOMAIN acc.spend = Indexed(L, 1, p) \ (SpentIn(L, 1, first - 1) \cup SpentIn(L, first, last))
      /\ \A o \in DOMAIN acc.spend : acc.spend[o] = Value(L, e, o)
  BY <1>2, Zenon DEF AccOk, OutputPart, SpendPart
<1>5. /\ DOMAIN r = {"next_uid", "spend", "tracking", "seen"} /\ r.tracking = s.tracking
      /\ r.spend = acc.spend /\ r.seen = acc.seen
      /\ r.next_uid = IF acc.slots > 0 THEN acc.first_uid + acc.slots - 1 ELSE s.next_uid
  BY <1>3 DEF StateAfter
<1>6. DOMAIN r.spend = Indexed(L, 1, p) \ SpentIn(L, 1, last)
  <2>1. SpentIn(L, 1, first - 1) \cup SpentIn(L, first, last) = SpentIn(L, 1, last)
    <3>1. SpentIn(L, 1, old) \cup SpentIn(L, old + 1, last) = SpentIn(L, 1, last)
      BY <1>1, SpentJoin
    <3> QED BY <1>1, <3>1
  <2> QED BY <1>4, <1>5, <2>1, Zenon
<1> HIDE DEF last, old
<1>7. r.next_uid \in Nat /\ r.next_uid + 1 = Uid(L, p)
  <2> DEFINE u == Uid(L, p)
             f == acc.first_uid
             k == acc.slots
             n == s.next_uid
  <2>1. f \in Nat /\ k \in Nat /\ n \in Nat /\ n + 1 = f /\ f + k = u
    BY <1>3, <1>4, Zenon
  <2>2. r.next_uid = IF k > 0 THEN f + k - 1 ELSE n
    BY <1>5, Zenon
  <2> HIDE DEF u, f, k, n
  <2>3. r.next_uid \in Nat /\ r.next_uid + 1 = u
    BY <2>1, <2>2
  <2> QED BY <2>3 DEF u
<1>8. \A o \in DOMAIN r.spend : r.spend[o] = Value(L, e, o)
  BY <1>4, <1>5
<1>9. r.seen = SeenTo(L, r.tracking, p) /\ r.tracking \in BOOLEAN
  BY <1>3, <1>4, <1>5
<1> QED BY <1>1, <1>5, <1>6, <1>7, <1>8, <1>9, Zenon DEF StateOk

\* The stored form of the next block.
LEMMA NewBlock ==
  ASSUME NEW L, LedgerOk(L), NEW d, Len(L) > Fin(d, Len(d)), NEW e, EndsStep(L, d, e), NEW tr \in BOOLEAN,
         NEW first, first = Fin(d, Len(d)) + 1, NEW acc, AtTx(L, e, tr, first, acc, Len(L) + 1),
         NEW b, b = StoredBlock(acc, SubSeq(L, first, Len(L)))
  PROVE  BlockOk(L, e, tr, Len(e), b) /\ b \in Stored
<1> DEFINE last == Len(L)
           p == <<last + 1, 1>>
           txs == SubSeq(L, first, Len(L))
<1>1. /\ e[Len(e)] = last /\ last \in Nat /\ first \in Nat /\ first <= last /\ last + 1 - 1 = last
      /\ Len(e) = Len(d) + 1 /\ Len(d) \in Nat /\ L \in Seq(Tx)
  BY DEF EndsStep, LedgerOk
<1>2. Fin(e, Len(e) - 1) + 1 = first
  <2>1. Len(e) - 1 = Len(d) /\ Len(d) \in 0..Len(d)
    BY <1>1
  <2> QED BY <2>1 DEF EndsStep
<1>3. /\ AccOk(L, e, tr, first, acc, p, SpentIn(L, first, last))
      /\ acc.tweaks \in Seq(TweakRecord) /\ acc.skipped_txs \in SUBSET Nat
      /\ TweaksOk(L, first, last, acc.tweaks, acc.skipped_txs, acc.outputs)
  BY <1>1, AfterTx
<1>4. /\ acc.first_uid \in Nat /\ acc.first_uid = Uid(L, <<first, 1>>)
      /\ acc.slots \in Nat /\ acc.first_uid + acc.slots = Uid(L, p)
      /\ acc.outputs \in Seq(OutputRecord) /\ OutputsOk(L, tr, first, p, acc.outputs)
      /\ acc.skipped_outputs \in Seq(Nat) /\ acc.slots = Len(acc.outputs) + Len(acc.skipped_outputs)
      /\ acc.spends \in Seq(SpendRecord)
      /\ ToSet(acc.spends) = {Entry(L, e, o) : o \in Indexed(L, 1, p) \cap SpentIn(L, first, last)}
      /\ IsInjective([i \in DOMAIN acc.spends |-> acc.spends[i].uid])
  BY <1>3, Zenon DEF AccOk, OutputPart, SpendPart
<1>5. Len(txs) = last + 1 - first /\ Len(txs) \in Nat
  BY <1>1
<1> HIDE DEF txs
<1>6. b = [first_uid |-> acc.first_uid, tx_count |-> Len(txs), tweaks |-> acc.tweaks,
           skipped_txs |-> acc.skipped_txs, skipped_outputs |-> acc.skipped_outputs,
           outputs |-> acc.outputs, spends |-> acc.spends, slots |-> acc.slots]
  BY Zenon DEF StoredBlock, txs
<1>7. b \in Stored
  <2>1. /\ acc.first_uid \in Nat /\ Len(txs) \in Nat /\ acc.tweaks \in Seq(TweakRecord)
        /\ acc.skipped_txs \in SUBSET Nat /\ acc.skipped_outputs \in Seq(Nat)
        /\ acc.outputs \in Seq(OutputRecord) /\ acc.spends \in Seq(SpendRecord) /\ acc.slots \in Nat
    BY <1>3, <1>4, <1>5, Zenon
  <2> DEFINE f == acc.first_uid
             c == Len(txs)
             tweaks == acc.tweaks
             skipped == acc.skipped_txs
             outs == acc.skipped_outputs
             xs == acc.outputs
             ys == acc.spends
             k == acc.slots
  <2>2. b = [first_uid |-> f, tx_count |-> c, tweaks |-> tweaks, skipped_txs |-> skipped, skipped_outputs |-> outs,
             outputs |-> xs, spends |-> ys, slots |-> k]
    BY <1>6, Zenon
  <2> HIDE DEF f, c, tweaks, skipped, outs, xs, ys, k
  <2>3. /\ f \in Nat /\ c \in Nat /\ tweaks \in Seq(TweakRecord) /\ skipped \in SUBSET Nat /\ outs \in Seq(Nat)
        /\ xs \in Seq(OutputRecord) /\ ys \in Seq(SpendRecord) /\ k \in Nat
    BY <2>1, Zenon DEF f, c, tweaks, skipped, outs, xs, ys, k
  <2> QED BY <2>2, <2>3 DEF Stored
<1>8. /\ b.first_uid = acc.first_uid /\ b.tx_count = Len(txs) /\ b.tweaks = acc.tweaks
      /\ b.skipped_txs = acc.skipped_txs /\ b.skipped_outputs = acc.skipped_outputs
      /\ b.outputs = acc.outputs /\ b.spends = acc.spends /\ b.slots = acc.slots
  BY <1>6
<1> HIDE DEF last, p
<1>9. SpendsOk(L, e, first, last, b.spends)
  BY <1>4, <1>8, Zenon DEF SpendsOk, p
<1> DEFINE h == Len(e)
<1>10. e[h] = last /\ Fin(e, h - 1) + 1 = first
  BY <1>1, <1>2
<1> HIDE DEF h
<1>11. BlockOk(L, e, tr, h, b)
  BY <1>3, <1>4, <1>5, <1>8, <1>9, <1>10, Zenon DEF BlockOk, p
<1> QED BY <1>7, <1>11, Zenon DEF h

\* A stored block stays right when another follows.
LEMMA OldBlock ==
  ASSUME NEW L, LedgerOk(L), NEW d, EndsOk(L, d), NEW e, EndsStep(L, d, e), NEW tr, NEW h \in 1..Len(d), NEW b,
         BlockOk(L, d, tr, h, b)
  PROVE  BlockOk(L, e, tr, h, b)
<1> DEFINE first == Fin(d, h - 1) + 1
           p == <<d[h] + 1, 1>>
           Y == SpentIn(L, first, d[h])
<1>1. L \in Seq(Tx) /\ d \in Seq(Nat) /\ Len(d) \in Nat
  BY DEF LedgerOk, EndsStep, EndsOk
<1>2. e[h] = d[h] /\ Fin(e, h - 1) = Fin(d, h - 1)
  <2>1. h - 1 \in 0..Len(d)
    BY <1>1
  <2> QED BY <2>1 DEF EndsStep
<1>3. d[h] \in Nat /\ Fin(d, Len(d)) \in Nat /\ d[h] <= Fin(d, Len(d))
  <2>1. d[h] \in Nat /\ d[Len(d)] \in Nat /\ Fin(d, Len(d)) = d[Len(d)]
    BY <1>1 DEF Fin
  <2>2. h = Len(d) \/ (h < Len(d) /\ Len(d) \in 1..Len(d))
    BY <1>1
  <2>3. \A j, k \in 1..Len(d) : j < k => d[j] < d[k]
    BY DEF EndsOk
  <2> QED BY <2>1, <2>2, <2>3
<1>4. ASSUME NEW o \in Indexed(L, 1, p) PROVE Entry(L, e, o) = Entry(L, d, o)
  <2>1. o \in P2tr(L, 1, p)
    BY DEF Indexed
  <2>2. o \in Created(L) /\ o[1] <= d[h]
    BY <1>1, <1>3, <2>1, BeforeTx
  <2>3. o[1] \in Nat
    BY <1>1, <2>2, OutputTyped
  <2>4. o[1] <= Fin(d, Len(d))
    BY <1>3, <2>2, <2>3
  <2> QED BY <1>1, <2>2, <2>4, OldValues
<1>5. {Entry(L, e, o) : o \in Indexed(L, 1, p) \cap Y} = {Entry(L, d, o) : o \in Indexed(L, 1, p) \cap Y}
  <2> HIDE DEF p, Y
  <2> QED BY <1>4
<1>6. SpendsOk(L, d, first, d[h], b.spends)
  BY DEF BlockOk
<1>7. SpendsOk(L, e, first, d[h], b.spends)
  BY <1>5, <1>6, Zenon DEF SpendsOk
<1> QED BY <1>2, <1>7, Zenon DEF BlockOk

\* ApplyBlock keeps the invariant.
LEMMA ApplyKeeps ==
  ASSUME IndexerInv, ApplyBlock
  PROVE  IndexerInv'
<1> DEFINE first == Fin(ends, Len(ends)) + 1
           txs == SubSeq(ledger, first, Len(ledger))
           acc == ApplyTxs(state, Len(ends) + 1, first, txs)
           b == StoredBlock(acc, txs)
<1>1. /\ LedgerOk(ledger) /\ EndsOk(ledger, ends) /\ StateOk(ledger, ends, state)
      /\ stored \in Seq(Stored) /\ Len(stored) = Len(ends)
      /\ \A h \in 1..Len(ends) : BlockOk(ledger, ends, state.tracking, h, stored[h])
  BY DEF IndexerInv
<1>2. End(Len(ends)) = Fin(ends, Len(ends))
  BY DEF End, Fin
<1>3. /\ Len(ledger) > Fin(ends, Len(ends))
      /\ state' = StateAfter(state, acc) /\ stored' = Append(stored, b)
      /\ ends' = Append(ends, Len(ledger)) /\ ledger' = ledger
  BY <1>2, Zenon DEF ApplyBlock
<1> HIDE DEF acc, b
<1>4. ledger \in Seq(Tx) /\ state.tracking \in BOOLEAN
  BY <1>1 DEF LedgerOk, StateOk
<1>5. EndsStep(ledger, ends, ends')
  BY <1>1, <1>3, <1>4, EndsAppend
<1>6. AtTx(ledger, ends', state.tracking, first, acc, Len(ledger) + 1)
  BY <1>1, <1>3, <1>5, BlockLoop DEF acc
<1>7. StateOk(ledger, ends', state') /\ state'.tracking = state.tracking
  BY <1>1, <1>3, <1>5, <1>6, NewState
<1>8. BlockOk(ledger, ends', state.tracking, Len(ends'), b) /\ b \in Stored
  BY <1>1, <1>3, <1>4, <1>5, <1>6, NewBlock DEF b
<1>9. /\ Len(ends') = Len(ends) + 1 /\ Len(ends) \in Nat /\ EndsOk(ledger, ends')
  BY <1>5 DEF EndsStep
<1>10. /\ stored' \in Seq(Stored) /\ Len(stored') = Len(ends')
       /\ stored'[Len(ends')] = b /\ \A h \in 1..Len(ends) : stored'[h] = stored[h]
  BY <1>1, <1>3, <1>8, <1>9
<1>11. ASSUME NEW h \in 1..Len(ends') PROVE BlockOk(ledger, ends', state'.tracking, h, stored'[h])
  <2>1. h \in 1..Len(ends) \/ h = Len(ends')
    BY <1>9
  <2>2. CASE h \in 1..Len(ends)
    <3>1. BlockOk(ledger, ends, state.tracking, h, stored[h])
      BY <1>1, <2>2
    <3>2. BlockOk(ledger, ends', state.tracking, h, stored[h])
      BY <1>1, <1>5, <2>2, <3>1, OldBlock
    <3> QED BY <1>7, <1>10, <2>2, <3>2
  <2>3. CASE h = Len(ends')
    BY <1>7, <1>8, <1>10, <2>3, Zenon
  <2> QED BY <2>1, <2>2, <2>3
<1> QED BY <1>1, <1>3, <1>7, <1>9, <1>10, <1>11, Zenon DEF IndexerInv

-----------------------------------------------------------------------------
(* A longer ledger.                                                        *)

LedgerStep(L, M) ==
    /\ L \in Seq(Tx) /\ M \in Seq(Tx) /\ Len(M) = Len(L) + 1 /\ Len(L) \in Nat
    /\ \A t \in 1..Len(L) : M[t] = L[t]

\* The places that L already has.
Old(L, p) == p \in Nat \X Nat /\ (p[1] <= Len(L) \/ p = <<Len(L) + 1, 1>>)

\* The outputs of a ledger stay as they are when it grows.
LEMMA OldOutputs ==
  ASSUME NEW L, NEW M, LedgerStep(L, M), NEW q
  PROVE  /\ q \in Created(L) => /\ q \in Created(M) /\ Kind(M, q) = Kind(L, q)
                                /\ M[q[1]] = L[q[1]] /\ Old(L, q)
         /\ q \in Created(M) /\ q[1] <= Len(L) => q \in Created(L)
<1>1. /\ L \in Seq(Tx) /\ M \in Seq(Tx) /\ Len(M) = Len(L) + 1 /\ Len(L) \in Nat
      /\ \A t \in 1..Len(L) : M[t] = L[t]
  BY DEF LedgerStep
<1>2. DOMAIN L = 1..Len(L) /\ DOMAIN M = 1..Len(M) /\ \A t \in DOMAIN L : t \in DOMAIN M
  BY <1>1
<1>3. ASSUME q \in Created(L) PROVE q \in Created(M) /\ Kind(M, q) = Kind(L, q) /\ M[q[1]] = L[q[1]] /\ Old(L, q)
  <2>1. /\ q[1] \in 1..Len(L) /\ q[1] \in DOMAIN L /\ q[1] \in Nat /\ q[2] \in DOMAIN L[q[1]].outputs
        /\ q[2] \in Nat /\ q = <<q[1], q[2]>>
    BY <1>1, <1>3, OutputTyped
  <2>2. M[q[1]] = L[q[1]] /\ q[1] \in DOMAIN M
    BY <1>1, <1>2, <2>1
  <2>3. q \in Created(M)
    <3>1. \E t \in DOMAIN M : \E v \in DOMAIN M[t].outputs : q = <<t, v>>
      BY <2>1, <2>2, Zenon
    <3> QED BY <1>1, <3>1, OutputTyped
  <2>4. q \in Nat \X Nat /\ q[1] <= Len(L)
    BY <1>1, <2>1
  <2> QED BY <2>2, <2>3, <2>4 DEF Kind, Old
<1>4. ASSUME q \in Created(M), q[1] <= Len(L) PROVE q \in Created(L)
  <2>1. /\ q[1] \in 1..Len(M) /\ q[1] \in Nat /\ q[2] \in DOMAIN M[q[1]].outputs /\ q = <<q[1], q[2]>>
    BY <1>1, <1>4, OutputTyped
  <2>2. q[1] \in 1..Len(L)
    BY <1>1, <1>4, <2>1
  <2>3. q[1] \in DOMAIN L /\ M[q[1]] = L[q[1]]
    BY <1>1, <1>2, <2>2
  <2>4. \E t \in DOMAIN L : \E v \in DOMAIN L[t].outputs : q = <<t, v>>
    BY <2>1, <2>3, Zenon
  <2> QED BY <1>1, <2>4, OutputTyped
<1> QED BY <1>3, <1>4

\* So do the outputs before its places, and what is counted from them.
LEMMA OldPlaces ==
  ASSUME NEW L, NEW M, LedgerStep(L, M), NEW p, Old(L, p)
  PROVE  /\ \A a : P2tr(M, a, p) = P2tr(L, a, p) /\ Indexed(M, a, p) = Indexed(L, a, p)
         /\ Uid(M, p) = Uid(L, p) /\ \A a : Index(M, a, p) = Index(L, a, p)
         /\ \A tr : SeenTo(M, tr, p) = SeenTo(L, tr, p)
<1>1. L \in Seq(Tx) /\ M \in Seq(Tx) /\ Len(L) \in Nat
  BY DEF LedgerStep
<1>2. ASSUME NEW q PROVE /\ q \in Created(M) /\ Before(q, p) <=> q \in Created(L) /\ Before(q, p)
                         /\ q \in Created(L) => Kind(M, q) = Kind(L, q) /\ M[q[1]] = L[q[1]]
  <2>1. ASSUME q \in Created(M), Before(q, p) PROVE q \in Created(L)
    <3>1. q[1] \in Nat /\ q[2] \in Nat
      BY <1>1, <2>1, OutputTyped
    <3>2. CASE p[1] <= Len(L)
      <4>1. p[1] \in Nat
        BY DEF Old
      <4>2. q[1] <= Len(L)
        BY <1>1, <2>1, <3>1, <3>2, <4>1 DEF Before
      <4> QED BY <2>1, <4>2, OldOutputs
    <3>3. CASE p = <<Len(L) + 1, 1>>
      <4>1. q[1] <= Len(L)
        BY <1>1, <2>1, <3>3, BeforeTx
      <4> QED BY <2>1, <4>1, OldOutputs
    <3> QED BY <3>2, <3>3 DEF Old
  <2>2. q \in Created(L) => q \in Created(M) /\ Kind(M, q) = Kind(L, q) /\ M[q[1]] = L[q[1]]
    BY OldOutputs
  <2> QED BY <2>1, <2>2
<1>3. ASSUME NEW a PROVE P2tr(M, a, p) = P2tr(L, a, p) /\ Indexed(M, a, p) = Indexed(L, a, p)
  <2>1. \A q : q \in P2tr(M, a, p) <=> q \in P2tr(L, a, p)
    BY <1>2 DEF P2tr
  <2>2. P2tr(M, a, p) = P2tr(L, a, p)
    BY <2>1
  <2>3. \A q \in P2tr(L, a, p) : Kind(M, q) = Kind(L, q) /\ M[q[1]] = L[q[1]]
    BY <1>2 DEF P2tr
  <2> QED BY <2>2, <2>3 DEF Indexed
<1>4. \A q \in P2tr(L, 1, p) : Kind(M, q) = Kind(L, q)
  BY <1>2 DEF P2tr
<1>5. \A tr : SeenTo(M, tr, p) = SeenTo(L, tr, p)
  <2>1. {Kind(M, q) : q \in P2tr(M, 1, p)} = {Kind(L, q) : q \in P2tr(L, 1, p)}
    BY <1>3, <1>4
  <2> QED BY <2>1, Zenon DEF SeenTo
<1>6. Uid(M, p) = Uid(L, p) /\ \A a : Index(M, a, p) = Index(L, a, p)
  BY <1>3, Zenon DEF Uid, Index
<1> QED BY <1>3, <1>5, <1>6

\* So do the facts about its outputs and transactions.
LEMMA OldFacts ==
  ASSUME NEW L, NEW M, LedgerStep(L, M)
  PROVE  /\ \A e : \A q \in Created(L) : Value(M, e, q) = Value(L, e, q) /\ Entry(M, e, q) = Entry(L, e, q)
         /\ \A tr : \A q \in Created(L) : Reused(M, tr, q) = Reused(L, tr, q)
         /\ \A a, b \in Nat : 1 <= a /\ b <= Len(L) => SpentIn(M, a, b) = SpentIn(L, a, b)
         /\ \A t \in 1..Len(L) : NoneIndexed(M, t) <=> NoneIndexed(L, t)
<1>1. L \in Seq(Tx) /\ M \in Seq(Tx) /\ Len(L) \in Nat /\ \A t \in 1..Len(L) : M[t] = L[t]
  BY DEF LedgerStep
<1>2. ASSUME NEW q \in Created(L) PROVE Old(L, q) /\ Kind(M, q) = Kind(L, q)
  BY OldOutputs
<1>3. ASSUME NEW q \in Created(L), NEW e PROVE Value(M, e, q) = Value(L, e, q) /\ Entry(M, e, q) = Entry(L, e, q)
  <2>1. Uid(M, q) = Uid(L, q) /\ \A a : Index(M, a, q) = Index(L, a, q)
    BY <1>2, OldPlaces
  <2> QED BY <2>1, Zenon DEF Value, Entry
<1>4. ASSUME NEW q \in Created(L), NEW tr PROVE Reused(M, tr, q) = Reused(L, tr, q)
  <2>1. P2tr(M, 1, q) = P2tr(L, 1, q)
    BY <1>2, OldPlaces
  <2>2. \A x \in P2tr(L, 1, q) : Kind(M, x) = Kind(L, x)
    BY <1>2 DEF P2tr
  <2>3. Kind(M, q) = Kind(L, q)
    BY <1>2
  <2>4. (\E x \in P2tr(M, 1, q) : Kind(M, x) = Kind(M, q)) <=> (\E x \in P2tr(L, 1, q) : Kind(L, x) = Kind(L, q))
    BY <2>1, <2>2, <2>3
  <2> QED BY <2>4, Zenon DEF Reused
<1>5. ASSUME NEW a \in Nat, NEW b \in Nat, 1 <= a, b <= Len(L) PROVE SpentIn(M, a, b) = SpentIn(L, a, b)
  <2>1. \A t \in a..b : M[t] = L[t]
    BY <1>1, <1>5
  <2> QED BY <2>1 DEF SpentIn
<1>6. ASSUME NEW t \in 1..Len(L) PROVE NoneIndexed(M, t) <=> NoneIndexed(L, t)
  BY <1>1 DEF NoneIndexed, Kind
<1> QED BY <1>3, <1>4, <1>5, <1>6

\* The state and the blocks fit a longer ledger too.
LEMMA OldState ==
  ASSUME NEW L, NEW M, LedgerStep(L, M), NEW e, EndsOk(L, e), NEW s, StateOk(L, e, s)
  PROVE  EndsOk(M, e) /\ StateOk(M, e, s)
<1> DEFINE last == Fin(e, Len(e))
           p == <<last + 1, 1>>
<1>1. L \in Seq(Tx) /\ M \in Seq(Tx) /\ Len(L) \in Nat /\ Len(M) = Len(L) + 1
  BY DEF LedgerStep
<1>2. e \in Seq(Nat) /\ \A h \in 1..Len(e) : 1 <= e[h] /\ e[h] <= Len(L)
  BY DEF EndsOk
<1>3. \A h \in 1..Len(e) : 1 <= e[h] /\ e[h] <= Len(M)
  <2>1. \A h \in 1..Len(e) : e[h] \in Nat
    BY <1>2
  <2> QED BY <1>1, <1>2, <2>1
<1>4. EndsOk(M, e)
  BY <1>3, Zenon DEF EndsOk
<1>5. last \in Nat /\ last <= Len(L)
  BY <1>1, <1>2 DEF Fin
<1> HIDE DEF last
<1>6. Old(L, p)
  <2>1. last + 1 <= Len(L) \/ last = Len(L)
    BY <1>1, <1>5
  <2>2. p \in Nat \X Nat /\ p[1] = last + 1
    BY <1>5
  <2> QED BY <2>1, <2>2 DEF Old
<1>7. /\ Indexed(M, 1, p) = Indexed(L, 1, p) /\ Uid(M, p) = Uid(L, p)
      /\ \A tr : SeenTo(M, tr, p) = SeenTo(L, tr, p)
  BY <1>6, OldPlaces
<1>8. SpentIn(M, 1, last) = SpentIn(L, 1, last)
  <2>1. 1 \in Nat /\ 1 <= 1
    OBVIOUS
  <2> QED BY <1>5, <2>1, OldFacts
<1>9. \A q \in Indexed(L, 1, p) : q \in Created(L)
  BY DEF Indexed, P2tr
<1>10. \A q \in Indexed(L, 1, p) : Value(M, e, q) = Value(L, e, q)
  BY <1>9, OldFacts
<1>11. /\ DOMAIN s = {"next_uid", "spend", "tracking", "seen"}
       /\ s.next_uid \in Nat /\ s.next_uid + 1 = Uid(L, p)
       /\ s.tracking \in BOOLEAN /\ s.seen = SeenTo(L, s.tracking, p)
       /\ DOMAIN s.spend = Indexed(L, 1, p) \ SpentIn(L, 1, last)
       /\ \A o \in DOMAIN s.spend : s.spend[o] = Value(L, e, o)
  BY Zenon DEF StateOk, last
<1>12. \A o \in DOMAIN s.spend : s.spend[o] = Value(M, e, o)
  BY <1>10, <1>11
<1>13. /\ s.next_uid + 1 = Uid(M, p) /\ s.seen = SeenTo(M, s.tracking, p)
       /\ DOMAIN s.spend = Indexed(M, 1, p) \ SpentIn(M, 1, last)
  BY <1>7, <1>8, <1>11, Zenon
<1>14. StateOk(M, e, s)
  BY <1>11, <1>12, <1>13, Zenon DEF StateOk, last
<1> QED BY <1>4, <1>14

LEMMA OldStored ==
  ASSUME NEW L, NEW M, LedgerStep(L, M), NEW e, EndsOk(L, e), NEW tr, NEW h \in 1..Len(e), NEW b, BlockOk(L, e, tr, h, b)
  PROVE  BlockOk(M, e, tr, h, b)
<1> DEFINE first == Fin(e, h - 1) + 1
           last == e[h]
           p == <<last + 1, 1>>
           f == <<first, 1>>
<1>1. L \in Seq(Tx) /\ M \in Seq(Tx) /\ Len(L) \in Nat
  BY DEF LedgerStep
<1>2. e \in Seq(Nat) /\ Len(e) \in Nat /\ \A k \in 1..Len(e) : e[k] \in Nat /\ e[k] <= Len(L)
  <2>1. e \in Seq(Nat)
    BY DEF EndsOk
  <2>2. Len(e) \in Nat /\ \A k \in 1..Len(e) : e[k] \in Nat
    BY <2>1
  <2> QED BY <2>1, <2>2 DEF EndsOk
<1>3. last \in Nat /\ last <= Len(L)
  BY <1>2
<1>4. first \in Nat /\ 1 <= first /\ first <= Len(L) + 1
  <2>1. h - 1 = 0 \/ h - 1 \in 1..Len(e)
    BY <1>2
  <2>2. Fin(e, h - 1) \in Nat /\ Fin(e, h - 1) <= Len(L)
    BY <1>1, <1>2, <2>1 DEF Fin
  <2> QED BY <1>1, <2>2
<1>5. /\ b.first_uid = Uid(L, f) /\ b.first_uid + b.slots = Uid(L, p)
      /\ b.tx_count = last + 1 - first
      /\ b.slots = Len(b.outputs) + Len(b.skipped_outputs)
      /\ SpendsOk(L, e, first, last, b.spends)
      /\ OutputsOk(L, tr, first, p, b.outputs)
      /\ TweaksOk(L, first, last, b.tweaks, b.skipped_txs, b.outputs)
  BY Zenon DEF BlockOk
<1> HIDE DEF first, last
<1>6. Old(L, p) /\ Old(L, f)
  <2>1. ASSUME NEW t \in Nat, t <= Len(L) + 1 PROVE Old(L, <<t, 1>>)
    <3>1. t <= Len(L) \/ t = Len(L) + 1
      BY <1>1, <2>1
    <3>2. <<t, 1>> \in Nat \X Nat /\ <<t, 1>>[1] = t
      OBVIOUS
    <3> QED BY <3>1, <3>2 DEF Old
  <2>2. last + 1 \in Nat /\ last + 1 <= Len(L) + 1
    BY <1>1, <1>3
  <2> QED BY <1>4, <2>1, <2>2
<1>7. /\ \A a : Indexed(M, a, p) = Indexed(L, a, p)
      /\ Uid(M, p) = Uid(L, p) /\ Uid(M, f) = Uid(L, f)
  BY <1>6, OldPlaces
<1>8. \A a : \A q \in Indexed(L, a, p) : q \in Created(L) /\ Old(L, q) /\ Kind(M, q) = Kind(L, q)
  <2> SUFFICES ASSUME NEW a, NEW q \in Indexed(L, a, p) PROVE q \in Created(L) /\ Old(L, q) /\ Kind(M, q) = Kind(L, q)
    OBVIOUS
  <2>1. q \in Created(L)
    BY DEF Indexed, P2tr
  <2> QED BY <2>1, OldOutputs
<1>9. SpendsOk(M, e, first, last, b.spends)
  <2>1. SpentIn(M, first, last) = SpentIn(L, first, last)
    BY <1>3, <1>4, OldFacts
  <2> DEFINE S == Indexed(L, 1, p) \cap SpentIn(L, first, last)
  <2>2. \A o \in S : Entry(M, e, o) = Entry(L, e, o)
    BY <1>8, OldFacts
  <2>3. Indexed(M, 1, p) \cap SpentIn(M, first, last) = S
    BY <1>7, <2>1, Zenon
  <2>4. ToSet(b.spends) = {Entry(L, e, o) : o \in S} /\ IsInjective([i \in DOMAIN b.spends |-> b.spends[i].uid])
    BY <1>5, Zenon DEF SpendsOk
  <2> HIDE DEF S
  <2>5. {Entry(M, e, o) : o \in S} = {Entry(L, e, o) : o \in S}
    BY <2>2
  <2> QED BY <2>3, <2>4, <2>5, Zenon DEF SpendsOk
<1>10. OutputsOk(M, tr, first, p, b.outputs)
  <2>1. /\ Len(b.outputs) = Cardinality(Indexed(L, first, p))
        /\ \A o \in Indexed(L, first, p) :
             b.outputs[Index(L, first, o)] = [key |-> Kind(L, o), reused |-> Reused(L, tr, o)]
    BY <1>5, Zenon DEF OutputsOk
  <2>2. ASSUME NEW o \in Indexed(M, first, p)
        PROVE  b.outputs[Index(M, first, o)] = [key |-> Kind(M, o), reused |-> Reused(M, tr, o)]
    <3>1. o \in Indexed(L, first, p)
      BY <1>7
    <3>2. o \in Created(L) /\ Old(L, o) /\ Kind(M, o) = Kind(L, o)
      BY <1>8, <3>1
    <3>3. Index(M, first, o) = Index(L, first, o)
      BY <3>2, OldPlaces
    <3>4. Reused(M, tr, o) = Reused(L, tr, o)
      BY <3>2, OldFacts
    <3>5. b.outputs[Index(L, first, o)] = [key |-> Kind(L, o), reused |-> Reused(L, tr, o)]
      BY <2>1, <3>1
    <3> QED BY <3>2, <3>3, <3>4, <3>5, Zenon
  <2>3. Len(b.outputs) = Cardinality(Indexed(M, first, p))
    BY <1>7, <2>1, Zenon
  <2> QED BY <2>2, <2>3, Zenon DEF OutputsOk
<1>11. TweaksOk(M, first, last, b.tweaks, b.skipped_txs, b.outputs)
  <2>1. \A t \in first..last : t \in 1..Len(L)
    BY <1>1, <1>3, <1>4
  <2>2. \A t \in first..last : NoneIndexed(M, t) <=> NoneIndexed(L, t)
    BY <2>1, OldFacts
  <2>3. {t \in first..last : NoneIndexed(M, t)} = {t \in first..last : NoneIndexed(L, t)}
    BY <2>2
  <2> QED BY <1>5, <2>3, Zenon DEF TweaksOk
<1> QED BY <1>5, <1>7, <1>9, <1>10, <1>11, Zenon DEF BlockOk, first, last

\* A transaction that spends unspent outputs, each once, keeps the ledger right.
LEMMA LedgerGrows ==
  ASSUME NEW L, LedgerOk(L), NEW x \in Tx, NEW M, M = Append(L, x),
         \A i \in DOMAIN x.inputs : x.inputs[i] \in Created(L) \ Spent(L), IsInjective(x.inputs)
  PROVE  LedgerOk(M) /\ LedgerStep(L, M)
<1>1. L \in Seq(Tx)
  BY DEF LedgerOk
<1>2. /\ M \in Seq(Tx) /\ Len(M) = Len(L) + 1 /\ Len(L) \in Nat /\ M[Len(L) + 1] = x
      /\ \A t \in 1..Len(L) : M[t] = L[t]
  BY <1>1, AppendOne
<1>3. LedgerStep(L, M)
  BY <1>1, <1>2, Zenon DEF LedgerStep
<1>4. DOMAIN L = 1..Len(L) /\ \A t \in DOMAIN M : t \in DOMAIN L \/ t = Len(L) + 1
  BY <1>1, <1>2
<1>5. \A t \in DOMAIN L : M[t] = L[t] /\ t \in Nat /\ t <= Len(L)
  BY <1>2, <1>4
<1>6. ASSUME NEW t \in DOMAIN M, NEW i \in DOMAIN M[t].inputs
      PROVE  M[t].inputs[i] \in Created(M) /\ M[t].inputs[i][1] < t
  <2>1. CASE t \in DOMAIN L
    <3>1. L[t].inputs[i] \in Created(L) /\ L[t].inputs[i][1] < t
      BY <1>5, <1>6, <2>1 DEF LedgerOk
    <3> QED BY <1>3, <1>5, <2>1, <3>1, OldOutputs
  <2>2. CASE t = Len(L) + 1
    <3>1. M[t] = x /\ x.inputs[i] \in Created(L)
      BY <1>2, <1>6, <2>2
    <3>2. x.inputs[i][1] \in 1..Len(L)
      BY <1>1, <3>1, OutputTyped
    <3>3. x.inputs[i][1] < t
      BY <1>2, <2>2, <3>2
    <3> QED BY <1>3, <3>1, <3>3, OldOutputs
  <2> QED BY <1>4, <2>1, <2>2
<1>7. \A t \in DOMAIN L : \A j \in DOMAIN L[t].inputs : L[t].inputs[j] \in Spent(L)
  BY DEF Spent, ToSet
<1>8. ASSUME NEW t \in DOMAIN M, NEW u \in DOMAIN M, NEW i \in DOMAIN M[t].inputs, NEW j \in DOMAIN M[u].inputs,
             M[t].inputs[i] = M[u].inputs[j]
      PROVE  t = u /\ i = j
  <2>1. CASE t \in DOMAIN L /\ u \in DOMAIN L
    <3>1. /\ i \in DOMAIN L[t].inputs /\ j \in DOMAIN L[u].inputs /\ L[t].inputs[i] = L[u].inputs[j]
      BY <1>5, <1>8, <2>1
    <3>2. \A a, b \in DOMAIN L : \A k \in DOMAIN L[a].inputs, l \in DOMAIN L[b].inputs :
            L[a].inputs[k] = L[b].inputs[l] => a = b /\ k = l
      BY DEF LedgerOk
    <3> QED BY <2>1, <3>1, <3>2
  <2>2. CASE t \in DOMAIN L /\ u = Len(L) + 1
    <3>1. M[t].inputs[i] \in Spent(L)
      BY <1>5, <1>7, <2>2
    <3>2. M[u].inputs[j] \notin Spent(L)
      BY <1>2, <2>2
    <3> QED BY <1>8, <3>1, <3>2
  <2>3. CASE t = Len(L) + 1 /\ u \in DOMAIN L
    <3>1. M[u].inputs[j] \in Spent(L)
      BY <1>5, <1>7, <2>3
    <3>2. M[t].inputs[i] \notin Spent(L)
      BY <1>2, <2>3
    <3> QED BY <1>8, <3>1, <3>2
  <2>4. CASE t = Len(L) + 1 /\ u = Len(L) + 1
    BY <1>2, <1>8, <2>4 DEF IsInjective
  <2> QED BY <1>4, <2>1, <2>2, <2>3, <2>4
<1>9. LedgerOk(M)
  BY <1>2, <1>6, <1>8, Zenon DEF LedgerOk
<1> QED BY <1>3, <1>9

\* What MineBlock and MineTx append.
LEMMA MinedTx ==
  ASSUME NEW L, L \in Seq(Tx), NEW x, x \in Coinbases \/ x \in ValidTxs(L)
  PROVE  /\ x \in Tx /\ IsInjective(x.inputs)
         /\ \A i \in DOMAIN x.inputs : x.inputs[i] \in Created(L) \ Spent(L)
<1>1. CASE x \in Coinbases
  <2>1. PICK o \in Keys \cup {Other} : x = [inputs |-> << >>, outputs |-> <<o>>, tweak |-> FALSE]
    BY <1>1 DEF Coinbases
  <2>2. o \in Kinds
    BY DEF Kinds
  <2>3. <<o>> \in Seq(Kinds)
    BY <2>2
  <2>4. x \in Tx
    BY <2>1, <2>3 DEF Tx
  <2>5. x.inputs = << >>
    BY <2>1
  <2> QED BY <2>4, <2>5 DEF IsInjective
<1>2. CASE x \in ValidTxs(L)
  <2> DEFINE unspent == Created(L) \ Spent(L)
  <2>1. /\ x \in [inputs : {i \in UNION {[1..n -> unspent] : n \in 0..MaxInputs} : IsInjective(i)},
                  outputs : OutputLists, tweak : BOOLEAN]
    BY <1>2, Zenon DEF ValidTxs
  <2> HIDE DEF unspent
  <2>2. x = [inputs |-> x.inputs, outputs |-> x.outputs, tweak |-> x.tweak] /\ x.tweak \in BOOLEAN
    BY <2>1
  <2>3. x.inputs \in {i \in UNION {[1..n -> unspent] : n \in 0..MaxInputs} : IsInjective(i)} /\ x.outputs \in OutputLists
    BY <2>1
  <2>4. IsInjective(x.inputs) /\ x.inputs \in UNION {[1..n -> unspent] : n \in 0..MaxInputs}
    BY <2>3, Zenon
  <2>5. PICK n \in 0..MaxInputs : x.inputs \in [1..n -> unspent]
    BY <2>4, Zenon
  <2>6. \A i \in DOMAIN x.inputs : x.inputs[i] \in Created(L) \ Spent(L)
    BY <2>5 DEF unspent
  <2>7. \A o \in unspent : o \in Nat \X Nat
    <3> SUFFICES ASSUME NEW o \in unspent PROVE o \in Nat \X Nat
      OBVIOUS
    <3>1. o[1] \in Nat /\ o[2] \in Nat /\ o = <<o[1], o[2]>>
      BY OutputTyped DEF unspent
    <3> QED BY <3>1
  <2>8. n \in Nat
    BY <2>5
  <2>9. x.inputs \in Seq(Nat \X Nat)
    <3>1. x.inputs \in [1..n -> Nat \X Nat]
      BY <2>5, <2>7
    <3> QED BY <2>8, <3>1
  <2>10. x.outputs \in Seq(Kinds)
    <3>1. PICK k \in 1..MaxOutputs : x.outputs \in [1..k -> Kinds]
      BY <2>3, Zenon DEF OutputLists, Kinds
    <3>2. k \in Nat
      BY <3>1
    <3> QED BY <3>1, <3>2
  <2>11. x \in Tx
    BY <2>2, <2>9, <2>10 DEF Tx
  <2> QED BY <2>4, <2>6, <2>11
<1> QED BY <1>1, <1>2

\* MineBlock and MineTx keep the invariant.
LEMMA MineKeeps ==
  ASSUME IndexerInv, MineBlock \/ MineTx
  PROVE  IndexerInv'
<1>1. /\ LedgerOk(ledger) /\ EndsOk(ledger, ends) /\ StateOk(ledger, ends, state)
      /\ stored \in Seq(Stored) /\ Len(stored) = Len(ends)
      /\ \A h \in 1..Len(ends) : BlockOk(ledger, ends, state.tracking, h, stored[h])
  BY DEF IndexerInv
<1>2. state' = state /\ ends' = ends /\ stored' = stored
  BY DEF MineBlock, MineTx
<1>3. PICK x : (x \in Coinbases \/ x \in ValidTxs(ledger)) /\ ledger' = Append(ledger, x)
  BY Zenon DEF MineBlock, MineTx
<1>4. ledger \in Seq(Tx)
  BY <1>1 DEF LedgerOk
<1>5. /\ x \in Tx /\ IsInjective(x.inputs)
      /\ \A i \in DOMAIN x.inputs : x.inputs[i] \in Created(ledger) \ Spent(ledger)
  BY <1>3, <1>4, MinedTx
<1>6. LedgerOk(ledger') /\ LedgerStep(ledger, ledger')
  BY <1>1, <1>3, <1>5, LedgerGrows
<1>7. EndsOk(ledger', ends) /\ StateOk(ledger', ends, state)
  BY <1>1, <1>6, OldState
<1>8. \A h \in 1..Len(ends) : BlockOk(ledger', ends, state.tracking, h, stored[h])
  BY <1>1, <1>6, OldStored
<1> QED BY <1>1, <1>2, <1>6, <1>7, <1>8, Zenon DEF IndexerInv

\* The initial states satisfy the invariant.
LEMMA InitHolds ==
  ASSUME Init
  PROVE  IndexerInv
<1>1. PICK tr \in BOOLEAN : state = [next_uid |-> 0, spend |-> << >>, tracking |-> tr, seen |-> {}]
  BY DEF Init, Restored
<1>2. ledger = << >> /\ ends = << >> /\ stored = << >>
  BY DEF Init
<1> DEFINE L == ledger
           p == <<1, 1>>
<1>3. L \in Seq(Tx) /\ DOMAIN L = {} /\ Created(L) = {} /\ Fin(ends, Len(ends)) = 0 /\ Len(ends) = 0
  BY <1>2 DEF Created, Fin
<1>4. LedgerOk(ledger)
  BY <1>3 DEF LedgerOk
<1>5. EndsOk(ledger, ends)
  BY <1>2, <1>3 DEF EndsOk
<1>6. P2tr(L, 1, p) = {} /\ Indexed(L, 1, p) = {}
  BY <1>3 DEF P2tr, Indexed
<1>7. Uid(L, p) = 1 /\ \A x : SeenTo(L, x, p) = {}
  <2>1. Cardinality(P2tr(L, 1, p)) = 0
    BY <1>6, FS_EmptySet
  <2>2. Uid(L, p) = 1
    BY <2>1 DEF Uid
  <2>3. \A x : SeenTo(L, x, p) = {}
    BY <1>6 DEF SeenTo
  <2> QED BY <2>2, <2>3
<1>8. /\ DOMAIN state = {"next_uid", "spend", "tracking", "seen"} /\ state.next_uid = 0 /\ state.spend = << >>
      /\ state.tracking \in BOOLEAN /\ state.seen = {}
  BY <1>1
<1>9. StateOk(ledger, ends, state)
  <2>1. 0 + 1 = 1 /\ 0 \in Nat /\ DOMAIN state.spend = {}
    BY <1>8
  <2>2. <<Fin(ends, Len(ends)) + 1, 1>> = p
    BY <1>3, <2>1
  <2>3. DOMAIN state.spend = Indexed(L, 1, p) \ SpentIn(L, 1, Fin(ends, Len(ends)))
    BY <1>6, <2>1
  <2>4. \A o \in DOMAIN state.spend : state.spend[o] = Value(L, ends, o)
    BY <2>1
  <2>5. state.next_uid \in Nat /\ state.next_uid + 1 = Uid(L, p) /\ state.seen = SeenTo(L, state.tracking, p)
    BY <1>7, <1>8
  <2> QED BY <1>8, <2>2, <2>3, <2>4, <2>5, Zenon DEF StateOk
<1>10. stored \in Seq(Stored) /\ Len(stored) = Len(ends) /\ 1..Len(ends) = {}
  BY <1>2
<1> QED BY <1>4, <1>5, <1>9, <1>10 DEF IndexerInv

\* What the indexer holds and stores is what the ledger determines.
THEOREM IndexerInvariant == Spec => []IndexerInv
<1>1. Init => IndexerInv
  BY InitHolds
<1>2. IndexerInv /\ [Next]_vars => IndexerInv'
  <2> SUFFICES ASSUME IndexerInv, [Next]_vars PROVE IndexerInv'
    OBVIOUS
  <2>1. CASE MineBlock \/ MineTx
    BY <2>1, MineKeeps
  <2>2. CASE ApplyBlock
    BY <2>2, ApplyKeeps
  <2>3. CASE UNCHANGED vars
    <3>1. state' = state /\ ledger' = ledger /\ ends' = ends /\ stored' = stored
      BY <2>3 DEF vars
    <3> QED BY <3>1, Zenon DEF IndexerInv
  <2> QED BY <2>1, <2>2, <2>3 DEF Next
<1> QED BY <1>1, <1>2, PTL DEF Spec

-----------------------------------------------------------------------------
(* The properties.                                                         *)

\* Block h in the terms of the invariant.
Linked(h) ==
    LET first == Fin(ends, h - 1) + 1
        p == <<ends[h] + 1, 1>>
    IN  /\ first \in Nat \ {0} /\ ends[h] \in Nat /\ first <= ends[h] /\ ends[h] <= Fin(ends, Len(ends))
        /\ TxsOf(h) = first..ends[h] /\ End(h - 1) = Fin(ends, h - 1) /\ End(h) = ends[h]
        /\ P2trAt(h) = P2tr(ledger, first, p)
        /\ IndexedAt(h) = Indexed(ledger, first, p)
        /\ SpentAt(h) = SpentIn(ledger, first, ends[h])

LEMMA BlockLinked ==
  ASSUME IndexerInv, NEW h \in Heights
  PROVE  Linked(h)
<1> DEFINE first == Fin(ends, h - 1) + 1
           last == ends[h]
           p == <<last + 1, 1>>
<1>1. /\ ledger \in Seq(Tx) /\ Len(ledger) \in Nat /\ ends \in Seq(Nat) /\ Len(ends) \in Nat /\ h \in 1..Len(ends)
      /\ \A k \in 1..Len(ends) : ends[k] \in Nat /\ 1 <= ends[k] /\ ends[k] <= Len(ledger)
      /\ \A j, k \in 1..Len(ends) : j < k => ends[j] < ends[k]
  <2>1. LedgerOk(ledger) /\ EndsOk(ledger, ends) /\ h \in 1..Len(ends)
    BY DEF IndexerInv, Heights
  <2>2. ledger \in Seq(Tx) /\ ends \in Seq(Nat)
    BY <2>1 DEF LedgerOk, EndsOk
  <2>3. Len(ledger) \in Nat /\ Len(ends) \in Nat /\ \A k \in 1..Len(ends) : ends[k] \in Nat
    BY <2>2
  <2> QED BY <2>1, <2>2, <2>3 DEF EndsOk
<1>2. End(h - 1) = Fin(ends, h - 1) /\ End(h) = last
  BY <1>1 DEF End, Fin
<1>3. first \in Nat \ {0} /\ last \in Nat /\ first <= last /\ last <= Len(ledger)
  <2>1. h - 1 = 0 \/ (h - 1 \in 1..Len(ends) /\ h - 1 < h)
    BY <1>1
  <2>2. Fin(ends, h - 1) \in Nat /\ Fin(ends, h - 1) < last
    BY <1>1, <2>1 DEF Fin
  <2> QED BY <1>1, <2>2
<1>4. last <= Fin(ends, Len(ends))
  <2>1. h = Len(ends) \/ (h < Len(ends) /\ Len(ends) \in 1..Len(ends))
    BY <1>1
  <2> QED BY <1>1, <2>1 DEF Fin
<1>5. TxsOf(h) = first..last
  BY <1>2 DEF TxsOf
<1> HIDE DEF first, last
<1>6. ASSUME NEW q PROVE q \in OutputsOf(h) <=> q \in Created(ledger) /\ first <= q[1] /\ Before(q, p)
  <2>1. q \in OutputsOf(h) <=> \E t \in first..last : \E v \in DOMAIN ledger[t].outputs : q = <<t, v>>
    BY <1>5 DEF OutputsOf
  <2>2. q \in Created(ledger) <=> \E t \in DOMAIN ledger : \E v \in DOMAIN ledger[t].outputs : q = <<t, v>>
    BY <1>1, OutputTyped
  <2>3. \A t \in first..last : t \in DOMAIN ledger
    BY <1>1, <1>3
  <2>4. q \in Created(ledger) => (Before(q, p) <=> q[1] <= last)
    BY <1>1, <1>3, BeforeTx
  <2>5. q \in Created(ledger) => /\ q[1] \in Nat /\ q[2] \in DOMAIN ledger[q[1]].outputs /\ q = <<q[1], q[2]>>
    BY <1>1, OutputTyped
  <2>6. ASSUME q \in OutputsOf(h) PROVE q \in Created(ledger) /\ first <= q[1] /\ Before(q, p)
    <3>1. PICK t \in first..last : \E v \in DOMAIN ledger[t].outputs : q = <<t, v>>
      BY <2>1, <2>6
    <3>2. q \in Created(ledger)
      BY <2>2, <2>3, <3>1
    <3>3. q[1] = t
      BY <3>1
    <3>4. first <= q[1] /\ q[1] <= last
      BY <1>3, <3>1, <3>3
    <3> QED BY <2>4, <3>2, <3>4
  <2>7. ASSUME q \in Created(ledger), first <= q[1], Before(q, p) PROVE q \in OutputsOf(h)
    <3>1. q[1] \in first..last
      BY <1>3, <2>4, <2>5, <2>7
    <3> QED BY <2>1, <2>5, <2>7, <3>1, Zenon
  <2> QED BY <2>6, <2>7
<1>7. P2trAt(h) = P2tr(ledger, first, p)
  <2>1. \A q : KindAt(q) = Kind(ledger, q)
    BY DEF KindAt, Kind
  <2> QED BY <1>6, <2>1 DEF P2trAt, P2tr
<1>8. IndexedAt(h) = Indexed(ledger, first, p)
  BY <1>7 DEF IndexedAt, Indexed, KindAt, Kind
<1>9. SpentAt(h) = SpentIn(ledger, first, last)
  BY <1>5 DEF SpentAt, SpentIn
<1> QED BY <1>2, <1>3, <1>4, <1>5, <1>7, <1>8, <1>9, Zenon DEF Linked, first, last

\* What a client counts in block h is what the invariant counts.
LEMMA CountsLinked ==
  ASSUME IndexerInv, NEW h \in Heights, NEW o \in P2trAt(h)
  PROVE  /\ ClientUid(h, o) = Uid(ledger, o)
         /\ DenseIndex(h, o) = Index(ledger, Fin(ends, h - 1) + 1, o)
         /\ HeightOf(ends, o[1]) = h
<1> DEFINE first == Fin(ends, h - 1) + 1
           last == ends[h]
           p == <<last + 1, 1>>
<1>1. Linked(h)
  BY BlockLinked
<1>2. /\ first \in Nat \ {0} /\ last \in Nat /\ first <= last /\ last <= Fin(ends, Len(ends))
      /\ P2trAt(h) = P2tr(ledger, first, p) /\ IndexedAt(h) = Indexed(ledger, first, p)
      /\ End(h) = last
  BY <1>1, Zenon DEF Linked
<1>3. /\ ledger \in Seq(Tx) /\ EndsOk(ledger, ends) /\ h \in 1..Len(ends)
      /\ stored[h].first_uid = Uid(ledger, <<first, 1>>)
  BY DEF IndexerInv, LedgerOk, Heights, BlockOk
<1>4. Fin(ends, h) = last
  BY <1>2 DEF End, Fin
<1>5. Fin(ends, Len(ends)) \in Nat
  <2>1. ends \in Seq(Nat)
    BY <1>3 DEF EndsOk
  <2>2. Len(ends) \in 1..Len(ends)
    BY <1>3, <2>1
  <2> QED BY <2>1, <2>2 DEF Fin
<1>6. Fin(ends, h - 1) < first /\ Fin(ends, h - 1) \in Nat
  <2>1. Fin(ends, h - 1) \in Nat
    <3>1. ends \in Seq(Nat)
      BY <1>3 DEF EndsOk
    <3> QED BY <1>3, <3>1 DEF Fin
  <2> QED BY <2>1
<1> HIDE DEF first, last
<1>7. /\ o \in Created(ledger) /\ first <= o[1] /\ o[1] <= last
      /\ o[1] \in Nat /\ o[2] \in Nat \ {0} /\ o \in Nat \X Nat
  <2>1. o \in Created(ledger) /\ first <= o[1] /\ o[1] <= last
    BY <1>2, <1>3, BeforeTx
  <2>2. o[1] \in Nat /\ o[2] \in Nat \ {0} /\ o = <<o[1], o[2]>>
    BY <1>3, <2>1, OutputTyped
  <2>3. o \in Nat \X Nat
    BY <2>2
  <2> QED BY <2>1, <2>2, <2>3
<1>8. \A q \in Created(ledger) : Before(q, o) => Before(q, p)
  <2> SUFFICES ASSUME NEW q \in Created(ledger), Before(q, o) PROVE Before(q, p)
    OBVIOUS
  <2>1. q[1] \in Nat
    BY <1>3, OutputTyped
  <2>2. q[1] <= last
    BY <1>2, <1>7, <2>1 DEF Before
  <2> QED BY <1>2, <1>3, <2>2, BeforeTx
<1>9. {q \in P2trAt(h) : Before(q, o)} = P2tr(ledger, first, o)
  BY <1>2, <1>8 DEF P2tr
<1>10. {q \in IndexedAt(h) : Before(q, o)} = Indexed(ledger, first, o)
  BY <1>2, <1>8 DEF P2tr, Indexed
<1>11. ClientUid(h, o) = Uid(ledger, o)
  <2>1. Uid(ledger, o) = Uid(ledger, <<first, 1>>) + Cardinality(P2tr(ledger, first, o))
    <3>1. 1 <= o[2]
      BY <1>7
    <3> QED BY <1>2, <1>3, <1>7, <3>1, UidFromBlock
  <2> QED BY <1>3, <1>9, <2>1, Zenon DEF ClientUid
<1>12. DenseIndex(h, o) = Index(ledger, first, o)
  BY <1>10, Zenon DEF DenseIndex, Index
<1>13. HeightOf(ends, o[1]) = h
  <2>1. o[1] \in 1..Fin(ends, Len(ends))
    BY <1>2, <1>5, <1>7
  <2>2. Fin(ends, h - 1) < o[1]
    BY <1>2, <1>6, <1>7
  <2>3. In(ends, h, o[1])
    BY <1>4, <1>7, <2>2 DEF In
  <2> QED BY <1>3, <2>1, <2>3, HeightFound
<1> QED BY <1>11, <1>12, <1>13 DEF first

\* A transaction of the blocks is in exactly one of them.
LEMMA TxInBlock ==
  ASSUME IndexerInv, NEW t \in 1..Fin(ends, Len(ends))
  PROVE  \E h \in Heights : t \in TxsOf(h)
<1>1. PICK h \in 1..Len(ends) : In(ends, h, t)
  BY DEF IndexerInv, EndsOk
<1>2. h \in Heights
  BY DEF Heights
<1>3. /\ TxsOf(h) = (Fin(ends, h - 1) + 1)..ends[h] /\ End(h) = ends[h] /\ ends[h] \in Nat
      /\ Fin(ends, h - 1) + 1 \in Nat
  BY <1>2, BlockLinked DEF Linked
<1>4. Fin(ends, h) = ends[h] /\ Fin(ends, h - 1) \in Nat
  <2>1. ends \in Seq(Nat)
    BY DEF IndexerInv, EndsOk
  <2> QED BY <1>1, <2>1 DEF Fin
<1>5. t \in TxsOf(h)
  BY <1>1, <1>3, <1>4 DEF In
<1> QED BY <1>2, <1>5

\* The P2TR and the indexed outputs of the ledger's blocks are theirs together.
LEMMA OutputInBlock ==
  ASSUME IndexerInv, NEW q \in Created(ledger), q[1] <= Fin(ends, Len(ends))
  PROVE  \E h \in Heights : /\ IsP2tr(Kind(ledger, q)) => q \in P2trAt(h)
                            /\ IsP2tr(Kind(ledger, q)) /\ Kind(ledger, q) # Nums /\ ledger[q[1]].tweak => q \in IndexedAt(h)
<1>1. ledger \in Seq(Tx)
  BY DEF IndexerInv, LedgerOk
<1>2. /\ q[1] \in 1..Len(ledger) /\ q[2] \in DOMAIN ledger[q[1]].outputs /\ q = <<q[1], q[2]>> /\ q[1] \in Nat
  BY <1>1, OutputTyped
<1>3. Fin(ends, Len(ends)) \in Nat
  <2>1. ends \in Seq(Nat)
    BY DEF IndexerInv, EndsOk
  <2> QED BY <2>1 DEF Fin
<1>4. q[1] \in 1..Fin(ends, Len(ends))
  BY <1>2, <1>3
<1>5. PICK h \in Heights : q[1] \in TxsOf(h)
  BY <1>4, TxInBlock
<1>6. q \in OutputsOf(h)
  BY <1>2, <1>5 DEF OutputsOf
<1>7. KindAt(q) = Kind(ledger, q)
  BY DEF KindAt, Kind
<1> QED BY <1>5, <1>6, <1>7 DEF P2trAt, IndexedAt

\* The inputs of the blocks are theirs together.
LEMMA SpentLinked ==
  ASSUME IndexerInv, NEW o
  PROVE  /\ o \in SpentIn(ledger, 1, Fin(ends, Len(ends))) <=> \E h \in Heights : o \in SpentAt(h)
         /\ \A h \in Heights : o \in SpentAt(h) => o \in Created(ledger) /\ o[1] <= ends[h]
<1>1. /\ LedgerOk(ledger) /\ ledger \in Seq(Tx) /\ Len(ledger) \in Nat /\ ends \in Seq(Nat)
  <2>1. LedgerOk(ledger) /\ ends \in Seq(Nat)
    BY DEF IndexerInv, EndsOk
  <2>2. ledger \in Seq(Tx)
    BY <2>1 DEF LedgerOk
  <2> QED BY <2>1, <2>2
<1>2. Fin(ends, Len(ends)) \in Nat /\ Fin(ends, Len(ends)) <= Len(ledger)
  <2>1. \A k \in 1..Len(ends) : ends[k] \in Nat /\ ends[k] <= Len(ledger)
    BY <1>1 DEF IndexerInv, EndsOk
  <2>2. Len(ends) = 0 \/ Len(ends) \in 1..Len(ends)
    BY <1>1
  <2> QED BY <1>1, <2>1, <2>2 DEF Fin
<1>3. ASSUME NEW h \in Heights
      PROVE  /\ \A t : t \in TxsOf(h) => t \in 1..Fin(ends, Len(ends)) /\ t <= ends[h] /\ ends[h] \in Nat
             /\ o \in SpentAt(h) <=> \E t \in TxsOf(h) : \E i \in DOMAIN ledger[t].inputs : o = ledger[t].inputs[i]
  <2>1. /\ Fin(ends, h - 1) + 1 \in Nat \ {0} /\ ends[h] \in Nat /\ ends[h] <= Fin(ends, Len(ends))
        /\ TxsOf(h) = (Fin(ends, h - 1) + 1)..ends[h]
    BY BlockLinked DEF Linked
  <2>2. \A t : t \in TxsOf(h) => t \in 1..Fin(ends, Len(ends)) /\ t <= ends[h]
    BY <1>2, <2>1
  <2> QED BY <2>1, <2>2 DEF SpentAt, ToSet
<1>4. ASSUME o \in SpentIn(ledger, 1, Fin(ends, Len(ends))) PROVE \E h \in Heights : o \in SpentAt(h)
  <2>1. PICK t \in 1..Fin(ends, Len(ends)) : \E i \in DOMAIN ledger[t].inputs : o = ledger[t].inputs[i]
    BY <1>4, SpentIs
  <2>2. PICK h \in Heights : t \in TxsOf(h)
    BY TxInBlock
  <2> QED BY <1>3, <2>1, <2>2
<1>5. ASSUME NEW h \in Heights, o \in SpentAt(h) PROVE o \in SpentIn(ledger, 1, Fin(ends, Len(ends)))
  <2>1. PICK t \in TxsOf(h) : \E i \in DOMAIN ledger[t].inputs : o = ledger[t].inputs[i]
    BY <1>3, <1>5
  <2>2. t \in 1..Fin(ends, Len(ends))
    BY <1>3
  <2> QED BY <2>1, <2>2, SpentIs
<1>6. ASSUME NEW h \in Heights, o \in SpentAt(h) PROVE o \in Created(ledger) /\ o[1] <= ends[h]
  <2>1. PICK t \in TxsOf(h) : \E i \in DOMAIN ledger[t].inputs : o = ledger[t].inputs[i]
    BY <1>3, <1>6
  <2>2. t \in 1..Fin(ends, Len(ends)) /\ t <= ends[h] /\ ends[h] \in Nat
    BY <1>3
  <2>3. t \in DOMAIN ledger /\ t \in Nat
    BY <1>1, <1>2, <2>2
  <2>4. o \in Created(ledger) /\ o[1] < t
    BY <1>1, <2>1, <2>3 DEF LedgerOk
  <2>5. o[1] \in Nat
    BY <1>1, <2>4, OutputTyped
  <2> QED BY <2>2, <2>3, <2>4, <2>5
<1> QED BY <1>4, <1>5, <1>6

\* The spend entries of block h.
LEMMA SpendsLinked ==
  ASSUME IndexerInv, NEW h \in Heights
  PROVE  ToSet(stored[h].spends) =
           UNION {{[uid |-> ClientUid(k, o), creation_height |-> k] :
                      o \in IndexedAt(k) \cap SpentAt(h)} : k \in Heights}
<1> DEFINE p == <<ends[h] + 1, 1>>
           E(k, o) == [uid |-> ClientUid(k, o), creation_height |-> k]
           S == Indexed(ledger, 1, p) \cap SpentAt(h)
           R == UNION {{E(k, o) : o \in IndexedAt(k) \cap SpentAt(h)} : k \in Heights}
<1>1. ledger \in Seq(Tx)
  BY DEF IndexerInv, LedgerOk
<1>2. /\ SpentAt(h) = SpentIn(ledger, Fin(ends, h - 1) + 1, ends[h]) /\ ends[h] \in Nat
      /\ ends[h] <= Fin(ends, Len(ends)) /\ Fin(ends, Len(ends)) \in Nat
  <2>1. Linked(h)
    BY BlockLinked
  <2>2. ends \in Seq(Nat)
    BY DEF IndexerInv, EndsOk
  <2>3. Fin(ends, Len(ends)) \in Nat
    BY <2>2 DEF Fin
  <2> QED BY <2>1, <2>3, Zenon DEF Linked
<1>3. ToSet(stored[h].spends) = {Entry(ledger, ends, o) : o \in S}
  <2>1. BlockOk(ledger, ends, state.tracking, h, stored[h])
    BY DEF IndexerInv, Heights
  <2>2. SpendsOk(ledger, ends, Fin(ends, h - 1) + 1, ends[h], stored[h].spends)
    BY <2>1, Zenon DEF BlockOk
  <2> QED BY <1>2, <2>2, Zenon DEF SpendsOk
<1>4. ASSUME NEW k \in Heights, NEW o \in IndexedAt(k) PROVE Entry(ledger, ends, o) = E(k, o)
  <2>1. o \in P2trAt(k)
    BY DEF IndexedAt
  <2>2. ClientUid(k, o) = Uid(ledger, o) /\ HeightOf(ends, o[1]) = k
    BY <2>1, CountsLinked
  <2> QED BY <2>2, Zenon DEF Entry
<1>5. ASSUME NEW o \in S PROVE \E k \in Heights : o \in IndexedAt(k) \cap SpentAt(h)
  <2>1. o \in P2tr(ledger, 1, p) /\ Kind(ledger, o) # Nums /\ ledger[o[1]].tweak
    BY DEF Indexed
  <2>2. o \in Created(ledger) /\ o[1] <= ends[h] /\ IsP2tr(Kind(ledger, o))
    BY <1>1, <1>2, <2>1, BeforeTx DEF P2tr
  <2>3. o[1] \in Nat
    BY <1>1, <2>2, OutputTyped
  <2>4. o[1] <= Fin(ends, Len(ends))
    BY <1>2, <2>2, <2>3
  <2> QED BY <2>1, <2>2, <2>4, OutputInBlock
<1>6. ASSUME NEW k \in Heights, NEW o \in IndexedAt(k) \cap SpentAt(h) PROVE o \in S
  <2>1. o \in Indexed(ledger, Fin(ends, k - 1) + 1, <<ends[k] + 1, 1>>)
    <3>1. Linked(k)
      BY BlockLinked
    <3> QED BY <3>1, Zenon DEF Linked
  <2>2. o \in Created(ledger) /\ IsP2tr(Kind(ledger, o)) /\ Kind(ledger, o) # Nums /\ ledger[o[1]].tweak
    BY <2>1 DEF Indexed, P2tr
  <2>3. o[1] <= ends[h]
    BY SpentLinked
  <2>4. 1 <= o[1]
    BY <1>1, <2>2, OutputTyped
  <2>5. Before(o, p)
    BY <1>1, <1>2, <2>2, <2>3, BeforeTx
  <2> QED BY <2>2, <2>4, <2>5 DEF Indexed, P2tr
<1> HIDE DEF E, S
<1>7. ASSUME NEW x PROVE x \in {Entry(ledger, ends, o) : o \in S} <=> x \in R
  <2>1. ASSUME x \in {Entry(ledger, ends, o) : o \in S} PROVE x \in R
    <3>1. PICK o \in S : x = Entry(ledger, ends, o)
      BY <2>1
    <3>2. PICK k \in Heights : o \in IndexedAt(k) \cap SpentAt(h)
      BY <1>5
    <3>3. x = E(k, o)
      BY <1>4, <3>1, <3>2
    <3> QED BY <3>2, <3>3
  <2>2. ASSUME x \in R PROVE x \in {Entry(ledger, ends, o) : o \in S}
    <3>1. PICK k \in Heights : \E o \in IndexedAt(k) \cap SpentAt(h) : x = E(k, o)
      BY <2>2
    <3>2. PICK o \in IndexedAt(k) \cap SpentAt(h) : x = E(k, o)
      BY <3>1
    <3>3. o \in S /\ x = Entry(ledger, ends, o)
      BY <1>4, <1>6, <3>2
    <3> QED BY <3>3
  <2> QED BY <2>1, <2>2
<1>8. {Entry(ledger, ends, o) : o \in S} = R
  <2> HIDE DEF R
  <2> QED BY <1>7
<1> QED BY <1>3, <1>8, Zenon DEF E

\* Spends resolve exactly, at any distance and inside one block: the entries
\* of a stored block are the UIDs, as every client computes them, of the
\* indexed outputs its inputs consume, each once, and the spend map keeps
\* exactly the unspent ones.
THEOREM SpendsAlwaysExact == Spec => []SpendsExact
<1>1. IndexerInv => SpendsExact
  <2> SUFFICES ASSUME IndexerInv PROVE SpendsExact
    OBVIOUS
  <2> DEFINE last == Fin(ends, Len(ends))
             p == <<last + 1, 1>>
             all == UNION {IndexedAt(h) : h \in Heights}
             spent == UNION {SpentAt(h) : h \in Heights}
  <2>1. ledger \in Seq(Tx) /\ last \in Nat
    <3>1. ends \in Seq(Nat) /\ ledger \in Seq(Tx)
      BY DEF IndexerInv, EndsOk, LedgerOk
    <3> QED BY <3>1 DEF Fin
  <2>2. /\ DOMAIN state.spend = Indexed(ledger, 1, p) \ SpentIn(ledger, 1, last)
        /\ \A o \in DOMAIN state.spend : state.spend[o] = Value(ledger, ends, o)
    BY DEF IndexerInv, StateOk
  <2>3. ASSUME NEW h \in Heights PROVE IsInjective([i \in DOMAIN stored[h].spends |-> stored[h].spends[i].uid])
    <3>1. BlockOk(ledger, ends, state.tracking, h, stored[h])
      BY DEF IndexerInv, Heights
    <3> QED BY <3>1, Zenon DEF BlockOk, SpendsOk
  <2> HIDE DEF last
  <2>4. ASSUME NEW o PROVE o \in Indexed(ledger, 1, p) <=> o \in all
    <3>1. ASSUME o \in Indexed(ledger, 1, p) PROVE o \in all
      <4>1. o \in P2tr(ledger, 1, p) /\ Kind(ledger, o) # Nums /\ ledger[o[1]].tweak
        BY <3>1 DEF Indexed
      <4>2. o \in Created(ledger) /\ o[1] <= last /\ IsP2tr(Kind(ledger, o))
        BY <2>1, <4>1, BeforeTx DEF P2tr
      <4>3. \E h \in Heights : o \in IndexedAt(h)
        BY <4>1, <4>2, OutputInBlock DEF last
      <4> QED BY <4>3
    <3>2. ASSUME NEW h \in Heights, o \in IndexedAt(h) PROVE o \in Indexed(ledger, 1, p)
      <4>1. /\ o \in Indexed(ledger, Fin(ends, h - 1) + 1, <<ends[h] + 1, 1>>)
            /\ ends[h] \in Nat /\ ends[h] <= last
        <5>1. Linked(h)
          BY BlockLinked
        <5> QED BY <3>2, <5>1, Zenon DEF Linked, last
      <4>2. /\ o \in P2tr(ledger, Fin(ends, h - 1) + 1, <<ends[h] + 1, 1>>)
            /\ IsP2tr(Kind(ledger, o)) /\ Kind(ledger, o) # Nums /\ ledger[o[1]].tweak
        BY <4>1 DEF Indexed, P2tr
      <4>3. o \in Created(ledger) /\ o[1] <= ends[h]
        BY <2>1, <4>1, <4>2, BeforeTx
      <4>4. o[1] \in Nat /\ 1 <= o[1]
        BY <2>1, <4>3, OutputTyped
      <4>5. o[1] <= last
        BY <2>1, <4>1, <4>3, <4>4
      <4>6. Before(o, p)
        BY <2>1, <4>3, <4>5, BeforeTx
      <4> QED BY <4>2, <4>3, <4>4, <4>6 DEF Indexed, P2tr
    <3> QED BY <3>1, <3>2
  <2>5. ASSUME NEW o PROVE o \in SpentIn(ledger, 1, last) <=> o \in spent
    BY SpentLinked DEF last
  <2>6. DOMAIN state.spend = all \ spent
    <3> HIDE DEF all, spent, p
    <3> QED BY <2>2, <2>4, <2>5
  <2>7. ASSUME NEW h \in Heights, NEW o \in IndexedAt(h) \cap DOMAIN state.spend
        PROVE  state.spend[o] = [uid |-> ClientUid(h, o), height |-> h, index |-> DenseIndex(h, o)]
    <3>1. o \in P2trAt(h)
      BY DEF IndexedAt
    <3>2. /\ ClientUid(h, o) = Uid(ledger, o) /\ HeightOf(ends, o[1]) = h
          /\ DenseIndex(h, o) = Index(ledger, Fin(ends, h - 1) + 1, o)
      BY <3>1, CountsLinked
    <3>3. state.spend[o] = Value(ledger, ends, o)
      BY <2>2
    <3> QED BY <3>2, <3>3, Zenon DEF Value
  <2> QED BY <2>3, <2>6, <2>7, SpendsLinked, Zenon DEF SpendsExact
<1> QED BY <1>1, IndexerInvariant, PTL

\* A stored block keeps the wire invariants: tweak entries for exactly the
\* transactions that are not skipped, counts that cover the dense outputs,
\* slots split between indexed and skipped, and UIDs that continue in the
\* next block.
THEOREM StoredAlwaysWellFormed == Spec => []StoredWellFormed
<1>1. IndexerInv => StoredWellFormed
  <2> SUFFICES ASSUME IndexerInv, NEW h \in Heights
               PROVE  LET s == stored[h] IN
                      /\ s.tx_count = Cardinality(TxsOf(h))
                      /\ Len(s.tweaks) = s.tx_count - Cardinality(s.skipped_txs)
                      /\ OutputCount(s.tweaks) = Len(s.outputs)
                      /\ \A i \in DOMAIN s.tweaks : s.tweaks[i].output_count > 0
                      /\ s.slots = Len(s.outputs) + Len(s.skipped_outputs)
                      /\ s.skipped_txs = {t - End(h - 1) - 1 : t \in {t \in TxsOf(h) :
                                              \A o \in IndexedAt(h) : o[1] # t}}
                      /\ h + 1 \in Heights => stored[h + 1].first_uid = s.first_uid + s.slots
    BY Zenon DEF StoredWellFormed
  <2> DEFINE s == stored[h]
             first == Fin(ends, h - 1) + 1
             last == ends[h]
             p == <<last + 1, 1>>
  <2>1. /\ first \in Nat \ {0} /\ last \in Nat /\ first <= last /\ last <= Fin(ends, Len(ends))
        /\ TxsOf(h) = first..last /\ End(h - 1) = Fin(ends, h - 1)
        /\ IndexedAt(h) = Indexed(ledger, first, p)
    <3>1. Linked(h)
      BY BlockLinked
    <3> QED BY <3>1, Zenon DEF Linked
  <2>2. \A k \in Heights : BlockOk(ledger, ends, state.tracking, k, stored[k])
    BY DEF IndexerInv, Heights
  <2>3. /\ s.first_uid + s.slots = Uid(ledger, p)
        /\ s.tx_count = last + 1 - first
        /\ s.slots = Len(s.outputs) + Len(s.skipped_outputs)
        /\ TweaksOk(ledger, first, last, s.tweaks, s.skipped_txs, s.outputs)
    BY <2>2, Zenon DEF BlockOk
  <2>4. s.tweaks \in Seq(TweakRecord)
    <3>1. stored \in Seq(Stored) /\ h \in DOMAIN stored
      BY DEF IndexerInv, Heights
    <3>2. s \in Stored
      BY <3>1
    <3> QED BY <3>2 DEF Stored
  <2>5. ledger \in Seq(Tx) /\ last <= Len(ledger) /\ Len(ledger) \in Nat
    BY DEF IndexerInv, LedgerOk, EndsOk, Heights
  <2>6. Fin(ends, h - 1) \in Nat /\ h \in Nat
    <3>1. ends \in Seq(Nat) /\ h \in 1..Len(ends)
      BY DEF IndexerInv, EndsOk, Heights
    <3> QED BY <3>1 DEF Fin
  <2>7. ASSUME NEW t \in first..last PROVE t - first = t - End(h - 1) - 1 /\ t \in DOMAIN ledger /\ t \in Nat
    <3>1. t \in Nat /\ t \in DOMAIN ledger
      <4> HIDE DEF first, last
      <4> QED BY <2>1, <2>5
    <3>2. \A f \in Nat : t - (f + 1) = t - f - 1
      BY <3>1
    <3> QED BY <2>1, <2>6, <3>1, <3>2
  <2> HIDE DEF s, first, last
  <2>8. s.tx_count = Cardinality(TxsOf(h))
    <3>1. Cardinality(first..last) = last - first + 1
      BY <2>1, FS_Interval
    <3> QED BY <2>1, <2>3, <3>1
  <2>9. /\ s.skipped_txs = {t - first : t \in {t \in first..last : NoneIndexed(ledger, t)}}
        /\ IsFiniteSet(s.skipped_txs) /\ Len(s.tweaks) + Cardinality(s.skipped_txs) = last + 1 - first
        /\ \A i \in DOMAIN s.tweaks : s.tweaks[i].output_count > 0
        /\ OutputCount(s.tweaks) = Len(s.outputs)
    BY <2>3, Zenon DEF TweaksOk
  <2>10. Len(s.tweaks) = s.tx_count - Cardinality(s.skipped_txs)
    <3>1. Cardinality(s.skipped_txs) \in Nat
      BY <2>9, FS_CardinalityType
    <3>2. Len(s.tweaks) \in Nat
      BY <2>4
    <3> QED BY <2>1, <2>3, <2>9, <3>1, <3>2
  <2>11. ASSUME NEW t \in first..last PROVE NoneIndexed(ledger, t) <=> \A o \in IndexedAt(h) : o[1] # t
    <3>1. ASSUME NEW o \in IndexedAt(h), o[1] = t PROVE ~NoneIndexed(ledger, t)
      <4>1. o \in Created(ledger) /\ IsP2tr(Kind(ledger, o)) /\ Kind(ledger, o) # Nums /\ ledger[o[1]].tweak
        BY <2>1 DEF Indexed, P2tr
      <4>2. o[2] \in DOMAIN ledger[t].outputs /\ o = <<t, o[2]>>
        BY <2>5, <3>1, <4>1, OutputTyped
      <4> QED BY <3>1, <4>1, <4>2 DEF NoneIndexed
    <3>2. ASSUME ~NoneIndexed(ledger, t) PROVE \E o \in IndexedAt(h) : o[1] = t
      <4>1. PICK v \in DOMAIN ledger[t].outputs :
              IsP2tr(Kind(ledger, <<t, v>>)) /\ Kind(ledger, <<t, v>>) # Nums /\ ledger[t].tweak
        BY <3>2 DEF NoneIndexed
      <4> DEFINE o == <<t, v>>
      <4>2. o[1] = t
        OBVIOUS
      <4>3. o \in Created(ledger)
        BY <2>5, <2>7, OutputTyped
      <4>4. first <= o[1] /\ o[1] <= last
        BY <2>1, <4>2
      <4>5. Before(o, p)
        BY <2>1, <2>5, <4>3, <4>4, BeforeTx
      <4>6. o \in Indexed(ledger, first, p)
        BY <4>1, <4>2, <4>3, <4>4, <4>5 DEF Indexed, P2tr
      <4> QED BY <2>1, <4>2, <4>6
    <3> QED BY <3>1, <3>2
  <2>12. s.skipped_txs = {t - End(h - 1) - 1 : t \in {t \in TxsOf(h) : \A o \in IndexedAt(h) : o[1] # t}}
    <3> DEFINE S == {t \in first..last : NoneIndexed(ledger, t)}
    <3>1. {t \in TxsOf(h) : \A o \in IndexedAt(h) : o[1] # t} = S
      BY <2>1, <2>11
    <3>2. \A t \in S : t - first = t - End(h - 1) - 1
      BY <2>7
    <3>3. s.skipped_txs = {t - first : t \in S}
      BY <2>9, Zenon
    <3> HIDE DEF S
    <3>4. {t - first : t \in S} = {t - End(h - 1) - 1 : t \in S}
      BY <3>2
    <3> QED BY <3>1, <3>3, <3>4, Zenon
  <2>13. ASSUME h + 1 \in Heights PROVE stored[h + 1].first_uid = s.first_uid + s.slots
    <3> DEFINE k == h + 1
    <3>1. k \in Heights /\ k - 1 = h /\ Fin(ends, h) = last
      BY <2>6, <2>13 DEF Fin, last, Heights
    <3> HIDE DEF k
    <3>2. BlockOk(ledger, ends, state.tracking, k, stored[k])
      BY <2>2, <3>1
    <3>3. stored[k].first_uid = Uid(ledger, <<Fin(ends, k - 1) + 1, 1>>)
      BY <3>2, Zenon DEF BlockOk
    <3> QED BY <2>3, <3>1, <3>3, Zenon DEF k
  <2> QED BY <2>3, <2>8, <2>9, <2>10, <2>12, <2>13, Zenon DEF s
<1> QED BY <1>1, IndexerInvariant, PTL

\* With a state that tracks keys, exactly the stored outputs whose key an
\* earlier P2TR output has carry the reuse flag.
THEOREM ReuseAlwaysFlagged == Spec => []ReuseFlagged
<1>1. IndexerInv => ReuseFlagged
  <2> SUFFICES ASSUME IndexerInv, state.tracking, NEW h \in Heights, NEW o \in IndexedAt(h)
               PROVE  stored[h].outputs[DenseIndex(h, o)].reused <=> SeenBefore(o)
    BY DEF ReuseFlagged, Flagged
  <2> DEFINE first == Fin(ends, h - 1) + 1
             p == <<ends[h] + 1, 1>>
  <2>1. o \in P2trAt(h)
    BY DEF IndexedAt
  <2>2. DenseIndex(h, o) = Index(ledger, first, o)
    BY <2>1, CountsLinked
  <2>3. IndexedAt(h) = Indexed(ledger, first, p) /\ ends[h] <= Fin(ends, Len(ends)) /\ ends[h] \in Nat
    <3>1. Linked(h)
      BY BlockLinked
    <3> QED BY <3>1, Zenon DEF Linked
  <2>4. stored[h].outputs[Index(ledger, first, o)] =
          [key |-> Kind(ledger, o), reused |-> Reused(ledger, state.tracking, o)]
    <3>1. BlockOk(ledger, ends, state.tracking, h, stored[h])
      BY DEF IndexerInv, Heights
    <3>2. OutputsOk(ledger, state.tracking, first, p, stored[h].outputs)
      BY <3>1, Zenon DEF BlockOk
    <3> QED BY <2>3, <3>2 DEF OutputsOk
  <2>5. ledger \in Seq(Tx) /\ state.tracking \in BOOLEAN /\ Fin(ends, Len(ends)) \in Nat
    <3>1. ends \in Seq(Nat)
      BY DEF IndexerInv, EndsOk
    <3>2. Fin(ends, Len(ends)) \in Nat
      BY <3>1 DEF Fin
    <3> QED BY <3>2 DEF IndexerInv, LedgerOk, StateOk
  <2>6. o \in Created(ledger) /\ o[1] <= ends[h]
    <3>1. o \in P2tr(ledger, first, p)
      BY <2>3 DEF Indexed
    <3> QED BY <2>3, <2>5, <3>1, BeforeTx
  <2>7. \A q : KindAt(q) = Kind(ledger, q)
    BY DEF KindAt, Kind
  <2>8. ASSUME NEW q \in P2tr(ledger, 1, o), Kind(ledger, q) = Kind(ledger, o) PROVE SeenBefore(o)
    <3>1. q \in Created(ledger) /\ Before(q, o) /\ IsP2tr(Kind(ledger, q))
      BY DEF P2tr
    <3>2. q[1] \in Nat /\ o[1] \in Nat
      BY <2>5, <2>6, <3>1, OutputTyped
    <3>3. q[1] <= Fin(ends, Len(ends))
      BY <2>3, <2>5, <2>6, <3>1, <3>2 DEF Before
    <3>4. \E k \in Heights : q \in P2trAt(k)
      BY <3>1, <3>3, OutputInBlock
    <3> QED BY <2>7, <2>8, <3>1, <3>4 DEF SeenBefore
  <2>9. ASSUME NEW k \in Heights, NEW q \in P2trAt(k), Before(q, o), KindAt(q) = KindAt(o)
        PROVE  \E x \in P2tr(ledger, 1, o) : Kind(ledger, x) = Kind(ledger, o)
    <3>1. P2trAt(k) = P2tr(ledger, Fin(ends, k - 1) + 1, <<ends[k] + 1, 1>>)
      <4>1. Linked(k)
        BY BlockLinked
      <4> QED BY <4>1, Zenon DEF Linked
    <3>2. q \in Created(ledger) /\ IsP2tr(Kind(ledger, q))
      BY <3>1 DEF P2tr
    <3>3. 1 <= q[1]
      BY <2>5, <3>2, OutputTyped
    <3>4. q \in P2tr(ledger, 1, o)
      BY <2>9, <3>2, <3>3 DEF P2tr
    <3> QED BY <2>7, <2>9, <3>4
  <2>10. Reused(ledger, state.tracking, o) <=> SeenBefore(o)
    BY <2>8, <2>9 DEF Reused, SeenBefore
  <2>11. stored[h].outputs[DenseIndex(h, o)].reused = Reused(ledger, state.tracking, o)
    BY <2>2, <2>4
  <2> QED BY <2>10, <2>11, Zenon
<1> QED BY <1>1, IndexerInvariant, PTL
=============================================================================
