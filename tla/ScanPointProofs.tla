--------------------------- MODULE ScanPointProofs ---------------------------
(***************************************************************************)
(* StoreExact, PathsAgree and UndoAligned of PrevoutStore for chains of    *)
(* any length and any output lists, and PathAsConsensus of TaprootPath for *)
(* witness stacks of any length.                                           *)
(*                                                                         *)
(* The store's invariant needs facts about the chain it is fed.  ChainOk   *)
(* states them: ids grow along the chain and are the numbers up to the     *)
(* count of transactions, an input spends an earlier output that consensus *)
(* lets it spend, and no output is spent twice.  Over what is then known,  *)
(* Overlay says that the overlay and the database together hold exactly    *)
(* the live outputs of the transactions seen so far; EnrichTx carries it   *)
(* from S to S and one more transaction, EnrichBlock along a block.        *)
(***************************************************************************)
EXTENDS PrevoutStore, TaprootPath, SequenceTheorems, FiniteSetTheorems,
        WellFoundedInduction, TLAPS

Input == [prev : Nat \X Nat, redeem : Int \cup {Absent}, shown : Int \cup {Absent},
          nums : BOOLEAN]
Tx == [id : Nat, inputs : Seq(Input), outputs : Seq(Script)]

\* The model's operators on the chain, for a chain c.
In(c, a, b) == UNION {ToSet(c[x]) : x \in a..b}
All(c) == In(c, 1, Len(c))
Source(c, op) == (CHOOSE tx \in All(c) : tx.id = op[1]).outputs[op[2]]

Creates(tx) == {<<tx.id, v>> : v \in DOMAIN tx.outputs}
Spends(tx) == {tx.inputs[i].prev : i \in DOMAIN tx.inputs}
Created(S) == UNION {Creates(tx) : tx \in S}
Spent(S) == UNION {Spends(tx) : tx \in S}
Live(c, S) == {op \in Created(S) \ Spent(S) : ~Burnt(Source(c, op))}

\* Ids grow along the chain.
Ordered(c) ==
    \A b1, b2 \in DOMAIN c : \A k1 \in DOMAIN c[b1], k2 \in DOMAIN c[b2] :
        b1 < b2 \/ (b1 = b2 /\ k1 < k2) => c[b1][k1].id < c[b2][k2].id

\* They are the numbers up to the count of transactions.
Numbered(c) ==
    /\ IsFiniteSet(All(c))
    /\ \A tx \in All(c) : 1 <= tx.id /\ tx.id <= Cardinality(All(c))

\* Every input spends an earlier output, and one that can be spent.
Funded(c) ==
    \A tx \in All(c) : \A op \in Spends(tx) :
        \E from \in All(c) : \E v \in DOMAIN from.outputs :
            from.id < tx.id /\ op = <<from.id, v>> /\ ~Burnt(from.outputs[v])

NoDoubleSpend(c) ==
    \A tx1, tx2 \in All(c) : tx1 # tx2 => Spends(tx1) \cap Spends(tx2) = {}

ChainOk(c) ==
    /\ c \in Seq(Seq(Tx)) /\ Len(c) >= 1
    /\ Ordered(c) /\ Numbered(c) /\ Funded(c) /\ NoDoubleSpend(c)

\* Pending puts P and tombstones D over database d hold the live outputs of S.
Overlay(P, D, d, c, S) ==
    /\ DOMAIN P \cup (DOMAIN d \ D) = Live(c, S)
    /\ DOMAIN P \cap DOMAIN d = {}
    /\ \A op \in DOMAIN P : P[op] = Compact(Source(c, op))

\* Database d is exact for the transactions S.
Exact(d, c, S) ==
    /\ DOMAIN d = Live(c, S)
    /\ \A op \in Live(c, S) : DecodeEntry(d[op]) = Compact(Source(c, op))

\* t is the scan point of tx, or none where the store was opened late.
Right(t, st, c, tx) ==
    LET undo == UndoTweak(tx, [i \in DOMAIN tx.inputs |-> Source(c, tx.inputs[i].prev)])
    IN  t = undo \/ (st = 2 /\ t = Absent)

AllRight(t, st, c, S) == \A tx \in S : tx.id \in DOMAIN t /\ Right(t[tx.id], st, c, tx)

StoreInv ==
    /\ ChainOk(chain)
    /\ start \in {1, 2} /\ tip \in Nat /\ done \in Nat
    /\ 1 <= tip /\ tip <= done /\ done <= Len(chain)
    /\ Exact(db, chain, In(chain, start, tip))
    /\ Overlay(puts, deletes, db, chain, In(chain, start, done))
    /\ AllRight(tweaks, start, chain, In(chain, 2, done))


-----------------------------------------------------------------------------
(* The operators of the model and their forms above.                       *)

\* Where the transactions of a stretch of blocks are.
LEMMA InAt ==
  ASSUME NEW c, NEW a, NEW b, NEW tx
  PROVE  tx \in In(c, a, b) <=> \E x \in a..b : \E k \in DOMAIN c[x] : tx = c[x][k]
BY DEF In, ToSet

\* The outputs created by, and the ones spent by, a set of transactions.
LEMMA CreatedAt ==
  ASSUME NEW S, NEW op
  PROVE  /\ op \in Created(S) <=> \E tx \in S : op \in Creates(tx)
         /\ op \in Spent(S) <=> \E tx \in S : op \in Spends(tx)
BY DEF Created, Spent

LEMMA SameOperators ==
  /\ \A a, b : Txs(a, b) = In(chain, a, b)
  /\ \A a, b : CreatedIn(a, b) = Created(In(chain, a, b))
  /\ \A a, b : SpentIn(a, b) = Spent(In(chain, a, b))
  /\ \A op : ScriptOf(op) = Source(chain, op)
<1>1. \A a, b : Txs(a, b) = In(chain, a, b)
  BY DEF Txs, In
<1> QED BY <1>1 DEF CreatedIn, SpentIn, ScriptOf, Created, Spent, Creates, Spends, Source, All

\* The two properties are parts of the invariant.
LEMMA InvImplies == StoreInv => StoreExact /\ PathsAgree
<1> SUFFICES ASSUME StoreInv PROVE StoreExact /\ PathsAgree
  OBVIOUS
<1>1. StoreExact
  BY SameOperators, Zenon DEF StoreInv, Exact, Live, StoreExact
<1>2. PathsAgree
  <2> SUFFICES ASSUME NEW tx \in In(chain, 2, done)
               PROVE  LET undo == UndoTweak(tx, [i \in DOMAIN tx.inputs |-> ScriptOf(tx.inputs[i].prev)])
                      IN  tweaks[tx.id] = undo \/ (start = 2 /\ tweaks[tx.id] = Absent)
    BY SameOperators, Zenon DEF PathsAgree
  <2>1. Right(tweaks[tx.id], start, chain, tx)
    BY DEF StoreInv, AllRight
  <2>2. [i \in DOMAIN tx.inputs |-> ScriptOf(tx.inputs[i].prev)]
          = [i \in DOMAIN tx.inputs |-> Source(chain, tx.inputs[i].prev)]
    BY SameOperators, Zenon
  <2> QED BY <2>1, <2>2, Zenon DEF Right
<1> QED BY <1>1, <1>2

-----------------------------------------------------------------------------
(* Compact contexts and their entries.                                     *)

Context == [kind : Keyed \cup {"p2tr", "v2", "non_eligible"}, key : Int]

\* compact_prevout_script keeps a context of exactly the outputs that can be
\* spent, and it says of them what the undo data says.
LEMMA CompactKeeps ==
  ASSUME NEW s \in Script
  PROVE  /\ Compact(s) = Absent <=> Burnt(s)
         /\ ~Burnt(s) => /\ Compact(s) \in Context
                         /\ PrevoutOfCompact(Compact(s)) = PrevoutOfScript(s)
                         /\ s.kind \in Keyed \cup {"p2tr"} => Compact(s).kind \in Keyed \cup {"p2tr"}
<1>1. s.kind \in Keyed \cup Keyless \cup {"p2tr", "v2", "op_return"} /\ s.key \in Int
  BY DEF Script
<1>2. Absent # s /\ Absent # [kind |-> "non_eligible", key |-> 0]
  BY ScriptsAssumption
<1>3. CASE Burnt(s)
  <2>1. s.kind = "op_return" \/ (s.kind = "p2tr" /\ s.key = 0)
    BY <1>3 DEF Burnt
  <2>2. s.kind \notin Keyless
    BY <2>1 DEF Keyless
  <2>3. Compact(s) = Absent
    BY <2>1, <2>2, Zenon DEF Compact
  <2> QED BY <1>3, <2>3
<1>4. CASE ~Burnt(s) /\ s.kind \in Keyless
  <2>1. Compact(s) = [kind |-> "non_eligible", key |-> 0]
    BY <1>4 DEF Compact, Burnt
  <2>2. PrevoutOfScript(s) = [kind |-> "other", key |-> 0]
    BY <1>4 DEF PrevoutOfScript, Keyed, Keyless
  <2> QED BY <1>2, <1>4, <2>1, <2>2 DEF PrevoutOfCompact, Context, Keyed, Keyless
<1>5. CASE ~Burnt(s) /\ s.kind \notin Keyless
  <2>1. s.kind \in Keyed \cup {"p2tr", "v2"}
    BY <1>1, <1>5 DEF Burnt
  <2>2. Compact(s) = s
    BY <1>5 DEF Compact, Burnt
  <2>3. PrevoutOfScript(s) = s
    BY <2>1 DEF PrevoutOfScript
  <2> QED BY <1>2, <1>5, <2>1, <2>2, <2>3 DEF PrevoutOfCompact, Context, Keyed, Script
<1> QED BY <1>3, <1>4, <1>5

\* decode_prevout_entry reads both layouts.
LEMMA DecodeEncoded ==
  ASSUME NEW x \in Context
  PROVE  /\ DecodeEntry(EncodeEntry(x)) = x
         /\ x.kind \in Keyed \cup {"p2tr"} => DecodeEntry(EncodeLegacy(x)) = x
<1>1. x.kind \in Keyed \cup {"p2tr", "v2", "non_eligible"} /\ x = [kind |-> x.kind, key |-> x.key]
  BY DEF Context
<1>2. PayloadLen(x.kind) = IF x.kind \in Keyed THEN 20 ELSE IF x.kind = "p2tr" THEN 32
                           ELSE IF x.kind = "v2" THEN 1 ELSE 0
  BY <1>1 DEF PayloadLen, Keyed
<1> DEFINE n == PayloadLen(x.kind)
<1> HIDE DEF n
<1>5. n \in {0, 1, 20, 32} /\ (x.kind \in Keyed \cup {"p2tr"} => n \in {20, 32})
  BY <1>2 DEF Keyed, n
<1>3. DecodeEntry(EncodeEntry(x)) = x
  <2> DEFINE e == EncodeEntry(x)
  <2>1. e.len = 1 + PayloadLen(x.kind) /\ e.kind = x.kind /\ e.payload = x.key
    BY DEF EncodeEntry
  <2>2. HeaderLen(e) = 1
    <3> HIDE DEF e
    <3>1. e.len \in {1, 2, 21, 33}
      BY <1>5, <2>1 DEF n
    <3> QED BY <3>1 DEF HeaderLen
  <2> HIDE DEF e
  <2>3. e.len - HeaderLen(e) = PayloadLen(e.kind)
    BY <1>5, <2>1, <2>2 DEF n
  <2>4. DecodeEntry(e) = [kind |-> e.kind, key |-> e.payload]
    BY <2>3, Zenon DEF DecodeEntry
  <2> QED BY <1>1, <2>1, <2>4 DEF e
<1>4. ASSUME x.kind \in Keyed \cup {"p2tr"} PROVE DecodeEntry(EncodeLegacy(x)) = x
  <2> DEFINE e == EncodeLegacy(x)
  <2>1. e.len = 9 + PayloadLen(x.kind) /\ e.kind = x.kind /\ e.payload = x.key
    BY DEF EncodeLegacy
  <2>2. HeaderLen(e) = 9
    <3> HIDE DEF e
    <3>1. e.len \in {9 + 20, 9 + 32} /\ e.len \notin {1, 2, 21, 33}
      BY <1>4, <1>5, <2>1 DEF n
    <3> QED BY <3>1 DEF HeaderLen
  <2> HIDE DEF e
  <2>3. e.len - HeaderLen(e) = PayloadLen(e.kind)
    BY <1>4, <1>5, <2>1, <2>2 DEF n
  <2>4. DecodeEntry(e) = [kind |-> e.kind, key |-> e.payload]
    BY <2>3, Zenon DEF DecodeEntry
  <2> QED BY <1>1, <2>1, <2>4 DEF e
<1> QED BY <1>3, <1>4

-----------------------------------------------------------------------------
(* What is known of a chain.                                               *)

LEMMA ChainTyped ==
  ASSUME NEW c, ChainOk(c)
  PROVE  /\ Len(c) \in Nat /\ Len(c) >= 1 /\ DOMAIN c = 1..Len(c)
         /\ \A b \in DOMAIN c : c[b] \in Seq(Tx)
         /\ \A tx \in All(c) :
              /\ tx \in Tx /\ tx.id \in Nat /\ tx.outputs \in Seq(Script)
              /\ \A v \in DOMAIN tx.outputs : tx.outputs[v] \in Script
<1>1. Len(c) \in Nat /\ Len(c) >= 1 /\ DOMAIN c = 1..Len(c) /\ \A b \in DOMAIN c : c[b] \in Seq(Tx)
  BY DEF ChainOk
<1>2. ASSUME NEW tx \in All(c) PROVE tx \in Tx
  <2>1. PICK x \in 1..Len(c) : \E k \in DOMAIN c[x] : tx = c[x][k]
    BY <1>2, InAt DEF All
  <2> QED BY <1>1, <2>1
<1>3. ASSUME NEW tx \in Tx PROVE tx.id \in Nat /\ tx.outputs \in Seq(Script)
  BY <1>3 DEF Tx
<1> QED BY <1>1, <1>2, <1>3

\* An id is one transaction's.
LEMMA UniqueId ==
  ASSUME NEW c, ChainOk(c), NEW t1 \in All(c), NEW t2 \in All(c), t1.id = t2.id
  PROVE  t1 = t2
<1>1. PICK b1 \in 1..Len(c) : \E k \in DOMAIN c[b1] : t1 = c[b1][k]
  BY InAt DEF All
<1>2. PICK k1 \in DOMAIN c[b1] : t1 = c[b1][k1]
  BY <1>1
<1>3. PICK b2 \in 1..Len(c) : \E k \in DOMAIN c[b2] : t2 = c[b2][k]
  BY InAt DEF All
<1>4. PICK k2 \in DOMAIN c[b2] : t2 = c[b2][k2]
  BY <1>3
<1>5. /\ b1 \in Nat /\ b2 \in Nat /\ k1 \in Nat /\ k2 \in Nat
      /\ b1 \in DOMAIN c /\ b2 \in DOMAIN c
      /\ t1.id \in Nat
  BY <1>1, <1>2, <1>3, <1>4, ChainTyped
<1>6. /\ b1 < b2 \/ (b1 = b2 /\ k1 < k2) => t1.id < t2.id
      /\ b2 < b1 \/ (b2 = b1 /\ k2 < k1) => t2.id < t1.id
  BY <1>2, <1>4, <1>5 DEF ChainOk, Ordered
<1>7. b1 = b2 /\ k1 = k2
  BY <1>5, <1>6
<1> QED BY <1>2, <1>4, <1>7

\* The script of an outpoint is its transaction's output.
LEMMA SourceOf ==
  ASSUME NEW c, ChainOk(c), NEW tx \in All(c), NEW v
  PROVE  Source(c, <<tx.id, v>>) = tx.outputs[v]
<1> DEFINE t == CHOOSE t \in All(c) : t.id = <<tx.id, v>>[1]
<1>1. t \in All(c) /\ t.id = tx.id
  OBVIOUS
<1>2. t = tx
  BY <1>1, UniqueId
<1> QED BY <1>2 DEF Source

\* An input spends an earlier output, and one that can be spent.
LEMMA InputSource ==
  ASSUME NEW c, ChainOk(c), NEW tx \in All(c), NEW op \in Spends(tx)
  PROVE  /\ \E from \in All(c) : from.id < tx.id /\ from.id = op[1] /\ op \in Creates(from)
         /\ Source(c, op) \in Script /\ ~Burnt(Source(c, op))
<1>1. PICK from \in All(c) : \E v \in DOMAIN from.outputs :
          from.id < tx.id /\ op = <<from.id, v>> /\ ~Burnt(from.outputs[v])
  BY DEF ChainOk, Funded
<1>2. PICK v \in DOMAIN from.outputs :
          from.id < tx.id /\ op = <<from.id, v>> /\ ~Burnt(from.outputs[v])
  BY <1>1
<1>3. Source(c, op) = from.outputs[v]
  BY <1>2, SourceOf
<1>4. from.outputs[v] \in Script
  BY <1>2, ChainTyped
<1>5. op \in Creates(from) /\ from.id = op[1]
  BY <1>2 DEF Creates
<1> QED BY <1>2, <1>3, <1>4, <1>5

LEMMA FunctionIsSeq ==
  ASSUME NEW S, NEW n \in Nat, NEW f \in [1..n -> S]
  PROVE  f \in Seq(S)
BY SeqDef, Zenon

\* The scripts a transaction spends are undo data nothing refuses.
LEMMA UndoWhole ==
  ASSUME NEW c, ChainOk(c), NEW tx \in All(c), NEW scripts,
         scripts = [i \in DOMAIN tx.inputs |-> Source(c, tx.inputs[i].prev)]
  PROVE  /\ tx.inputs \in Seq(Input) /\ scripts \in Seq(Script)
         /\ ~UndoRefused(tx.inputs, scripts)
<1>1. tx.inputs \in Seq(Input)
  <2>1. tx \in Tx
    BY ChainTyped
  <2> QED BY <2>1 DEF Tx
<1>2. Len(tx.inputs) \in Nat /\ DOMAIN tx.inputs = 1..Len(tx.inputs)
  BY <1>1
<1>3. DOMAIN scripts = DOMAIN tx.inputs
  OBVIOUS
<1>4. \A i \in DOMAIN scripts : scripts[i] \in Script /\ ~Burnt(scripts[i])
  <2> TAKE i \in DOMAIN scripts
  <2> DEFINE op == tx.inputs[i].prev
  <2>1. op \in Spends(tx)
    BY <1>3 DEF Spends
  <2>2. scripts[i] = Source(c, op)
    BY <1>3
  <2> HIDE DEF op
  <2> QED BY <2>1, <2>2, InputSource
<1>5. scripts \in Seq(Script)
  <2>1. scripts \in [1..Len(tx.inputs) -> Script]
    BY <1>2, <1>4
  <2> QED BY <1>2, <2>1, FunctionIsSeq
<1>6. scripts # Absent
  BY <1>5, ScriptsAssumption
<1> QED BY <1>1, <1>3, <1>4, <1>5, <1>6 DEF UndoRefused, Burnt

\* An outpoint names the transaction that created it.
LEMMA CreatorId ==
  ASSUME NEW S, NEW op \in Created(S)
  PROVE  \E tx \in S : op \in Creates(tx) /\ op[1] = tx.id
<1>1. PICK tx \in S : op \in Creates(tx)
  BY CreatedAt
<1> QED BY <1>1 DEF Creates

\* A live output has the context compact_prevout_script keeps of it.
LEMMA LiveContext ==
  ASSUME NEW c, ChainOk(c), NEW S \in SUBSET All(c), NEW op \in Created(S)
  PROVE  /\ Source(c, op) \in Script
         /\ ~Burnt(Source(c, op)) => Compact(Source(c, op)) \in Context /\ Compact(Source(c, op)) # Absent
<1>1. PICK tx \in S : op \in Creates(tx)
  BY CreatedAt
<1>2. PICK v \in DOMAIN tx.outputs : op = <<tx.id, v>>
  BY <1>1 DEF Creates
<1>3. Source(c, op) = tx.outputs[v] /\ tx.outputs[v] \in Script
  BY <1>2, SourceOf, ChainTyped
<1> QED BY <1>3, CompactKeeps

-----------------------------------------------------------------------------
(* One transaction.                                                        *)

Pending(P, D, T) == [puts |-> P, deletes |-> D, tweaks |-> T]
Tweaked(P, D, T, tx) == Written([id \in {tx.id} |-> StoreTweak(Pending(P, D, T), tx)], T)
KeptOutputs(tx) == {<<tx.id, v>> : v \in {v \in DOMAIN tx.outputs : Compact(tx.outputs[v]) # Absent}}

LEMMA WrittenAt ==
  ASSUME NEW f, NEW g
  PROVE  /\ DOMAIN Written(f, g) = DOMAIN f \cup DOMAIN g
         /\ \A x \in DOMAIN f \cup DOMAIN g : Written(f, g)[x] = IF x \in DOMAIN f THEN f[x] ELSE g[x]
BY DEF Written

LEMMA PendingFields ==
  ASSUME NEW P, NEW D, NEW T
  PROVE  Pending(P, D, T).puts = P /\ Pending(P, D, T).deletes = D /\ Pending(P, D, T).tweaks = T
BY DEF Pending

\* What enrich_tx_scan_point leaves in the overlay.
LEMMA EnrichedOverlay ==
  ASSUME NEW P, NEW D, NEW T, NEW tx
  PROVE  LET left == Restrict(P, DOMAIN P \ Spends(tx))
             new == [op \in KeptOutputs(tx) |-> Compact(tx.outputs[op[2]])]
         IN  EnrichTx(Pending(P, D, T), tx) =
               Pending(Written(new, left), (D \cup (Spends(tx) \ DOMAIN P)) \ KeptOutputs(tx),
                       Tweaked(P, D, T, tx))
<1> DEFINE left == Restrict(P, DOMAIN P \ Spends(tx))
           new == [op \in KeptOutputs(tx) |-> Compact(tx.outputs[op[2]])]
           twk == Tweaked(P, D, T, tx)
           dels == D \cup (Spends(tx) \ DOMAIN P)
<1>1. [Pending(P, D, T) EXCEPT !.tweaks = Written([id \in {tx.id} |-> StoreTweak(Pending(P, D, T), tx)], Pending(P, D, T).tweaks)]
        = Pending(P, D, twk)
  <2> HIDE DEF twk
  <2>1. Pending(P, D, T).tweaks = T
    BY PendingFields
  <2>2. [Pending(P, D, T) EXCEPT !.tweaks = twk] = Pending(P, D, twk)
    BY DEF Pending
  <2> QED BY <2>1, <2>2 DEF twk, Tweaked
<1>2. ApplySpends(Pending(P, D, twk), tx) = Pending(left, dels, twk)
  <2> HIDE DEF twk
  <2>1. ApplySpends(Pending(P, D, twk), tx) = DeleteSpent(Pending(P, D, twk), Spends(tx))
    BY DEF ApplySpends, Spends
  <2> DEFINE Z == Spends(tx)
  <2> HIDE DEF Z
  <2>2. DeleteSpent(Pending(P, D, twk), Z) = Pending(Restrict(P, DOMAIN P \ Z), D \cup (Z \ DOMAIN P), twk)
    <3> DEFINE q == Pending(P, D, twk)
               X == Restrict(q.puts, DOMAIN q.puts \ Z)
               Y == q.deletes \cup (Z \ DOMAIN q.puts)
    <3>1. DeleteSpent(q, Z) = [q EXCEPT !.puts = X, !.deletes = Y]
      BY DEF DeleteSpent
    <3>2. X = Restrict(P, DOMAIN P \ Z) /\ Y = D \cup (Z \ DOMAIN P)
      <4>1. q.puts = P /\ q.deletes = D
        BY PendingFields
      <4> HIDE DEF q
      <4> QED BY <4>1, Zenon
    <3> HIDE DEF X, Y
    <3>3. [q EXCEPT !.puts = X] = Pending(X, D, twk)
      BY DEF Pending
    <3>4. [Pending(X, D, twk) EXCEPT !.deletes = Y] = Pending(X, Y, twk)
      BY DEF Pending
    <3> QED BY <3>1, <3>2, <3>3, <3>4
  <2> QED BY <2>1, <2>2 DEF Z
<1>3. ASSUME NEW L, NEW E, NEW U
      PROVE  ApplyOutputs(Pending(L, E, U), tx) = Pending(Written(new, L), E \ KeptOutputs(tx), U)
  <2>1. KeptOutputs(tx) = {<<tx.id, v>> : v \in {v \in DOMAIN tx.outputs : Compact(tx.outputs[v]) # Absent}}
    BY DEF KeptOutputs
  <2> DEFINE q == Pending(L, E, U)
             X == Written(new, q.puts)
             Y == q.deletes \ DOMAIN new
  <2>2. ApplyOutputs(q, tx) = [q EXCEPT !.puts = X, !.deletes = Y]
    BY <2>1, Zenon DEF ApplyOutputs
  <2>3. DOMAIN new = KeptOutputs(tx)
    OBVIOUS
  <2> HIDE DEF new
  <2>4. X = Written(new, L) /\ Y = E \ KeptOutputs(tx)
    BY <2>3, PendingFields
  <2> HIDE DEF X, Y
  <2>5. [q EXCEPT !.puts = X] = Pending(X, E, U)
    BY DEF Pending
  <2>6. [Pending(X, E, U) EXCEPT !.deletes = Y] = Pending(X, Y, U)
    BY DEF Pending
  <2> QED BY <2>2, <2>4, <2>5, <2>6
<1> HIDE DEF left, new, twk, dels
<1>4. EnrichTx(Pending(P, D, T), tx) = ApplyOutputs(ApplySpends(Pending(P, D, twk), tx), tx)
  BY <1>1 DEF EnrichTx
<1> QED BY <1>2, <1>3, <1>4 DEF left, new, twk, dels

\* The sets of outpoints: what was live and is not spent, and the outputs
\* that can be spent, are live.
LEMMA LiveStep ==
  ASSUME NEW c, ChainOk(c), NEW S \in SUBSET All(c), NEW tx \in All(c),
         \A t \in S : t.id < tx.id
  PROVE  Live(c, S \cup {tx}) = (Live(c, S) \ Spends(tx)) \cup KeptOutputs(tx)
<1>1. \A op : /\ op \in Created(S \cup {tx}) <=> op \in Created(S) \/ op \in Creates(tx)
              /\ op \in Spent(S \cup {tx}) <=> op \in Spent(S) \/ op \in Spends(tx)
  BY CreatedAt
<1>2. ASSUME NEW op \in Creates(tx)
      PROVE  op \notin Spends(tx) /\ op \notin Spent(S)
  <2>1. op[1] = tx.id
    BY DEF Creates
  <2>2. ASSUME NEW t \in S \cup {tx}, op \in Spends(t) PROVE FALSE
    <3>1. t \in All(c) /\ t.id <= tx.id /\ t.id \in Nat /\ tx.id \in Nat
      BY ChainTyped
    <3>2. PICK from \in All(c) : from.id < t.id /\ from.id = op[1]
      BY <2>2, <3>1, InputSource
    <3> QED BY <2>1, <3>1, <3>2
  <2> QED BY <2>2, CreatedAt
<1>3. ASSUME NEW op \in Creates(tx)
      PROVE  op \in KeptOutputs(tx) <=> ~Burnt(Source(c, op))
  <2>1. PICK v \in DOMAIN tx.outputs : op = <<tx.id, v>>
    BY DEF Creates
  <2>2. Source(c, op) = tx.outputs[v] /\ tx.outputs[v] \in Script
    BY <2>1, SourceOf, ChainTyped
  <2>3. Compact(tx.outputs[v]) = Absent <=> Burnt(tx.outputs[v])
    BY <2>2, CompactKeeps
  <2>4. op \in KeptOutputs(tx) <=> Compact(tx.outputs[v]) # Absent
    BY <2>1 DEF KeptOutputs
  <2> QED BY <2>2, <2>3, <2>4
<1>4. KeptOutputs(tx) \subseteq Creates(tx)
  BY DEF KeptOutputs, Creates
<1>5. \A op \in Creates(tx) : op \notin Created(S)
  <2> SUFFICES ASSUME NEW op \in Creates(tx), op \in Created(S) PROVE FALSE
    OBVIOUS
  <2>1. PICK t \in S : op[1] = t.id
    BY CreatorId
  <2>2. op[1] = tx.id /\ t.id < tx.id /\ tx.id \in Nat
    BY ChainTyped DEF Creates
  <2> QED BY <2>1, <2>2
<1> QED BY <1>1, <1>2, <1>3, <1>4, <1>5 DEF Live

\* The overlay follows the live outputs: a spent output leaves the pending
\* ones or gets a tombstone, and a new one is neither stored nor hidden.
LEMMA OverlayStep ==
  ASSUME NEW c, ChainOk(c), NEW S \in SUBSET All(c), NEW tx \in All(c),
         \A t \in S : t.id < tx.id,
         NEW d, DOMAIN d \subseteq Created(S),
         NEW P, NEW D, NEW T, Overlay(P, D, d, c, S)
  PROVE  \E P2, D2 :
           /\ EnrichTx(Pending(P, D, T), tx)
                = Pending(P2, D2, Tweaked(P, D, T, tx))
           /\ Overlay(P2, D2, d, c, S \cup {tx})
<1> DEFINE left == Restrict(P, DOMAIN P \ Spends(tx))
           new == [op \in KeptOutputs(tx) |-> Compact(tx.outputs[op[2]])]
           P2 == Written(new, left)
           D2 == (D \cup (Spends(tx) \ DOMAIN P)) \ KeptOutputs(tx)
<1>1. EnrichTx(Pending(P, D, T), tx)
        = Pending(P2, D2, Tweaked(P, D, T, tx))
  BY EnrichedOverlay, Zenon
<1>2. /\ DOMAIN P \cup (DOMAIN d \ D) = Live(c, S)
      /\ DOMAIN P \cap DOMAIN d = {}
      /\ \A op \in DOMAIN P : P[op] = Compact(Source(c, op))
  BY DEF Overlay
<1>3. KeptOutputs(tx) \cap DOMAIN d = {}
  <2> SUFFICES ASSUME NEW op \in KeptOutputs(tx), op \in DOMAIN d PROVE FALSE
    OBVIOUS
  <2>1. PICK t \in S : op[1] = t.id
    BY CreatorId
  <2>2. op[1] = tx.id /\ t.id < tx.id /\ tx.id \in Nat
    BY ChainTyped DEF KeptOutputs
  <2> QED BY <2>1, <2>2
<1>4. /\ DOMAIN left = DOMAIN P \ Spends(tx)
      /\ \A op \in DOMAIN left : left[op] = P[op]
  BY DEF Restrict
<1>5. /\ DOMAIN new = KeptOutputs(tx)
      /\ \A op \in KeptOutputs(tx) : new[op] = Compact(tx.outputs[op[2]])
  OBVIOUS
<1> HIDE DEF left, new
<1>6. /\ DOMAIN P2 = KeptOutputs(tx) \cup (DOMAIN P \ Spends(tx))
      /\ \A op \in DOMAIN P2 :
           P2[op] = IF op \in KeptOutputs(tx) THEN Compact(tx.outputs[op[2]]) ELSE P[op]
  <2>1. /\ DOMAIN P2 = DOMAIN new \cup DOMAIN left
        /\ \A x \in DOMAIN new \cup DOMAIN left :
             P2[x] = IF x \in DOMAIN new THEN new[x] ELSE left[x]
    BY DEF Written
  <2> HIDE DEF P2
  <2> QED BY <1>4, <1>5, <2>1
<1> HIDE DEF P2
<1>7. DOMAIN P2 \cup (DOMAIN d \ D2) = Live(c, S \cup {tx})
  <2> DEFINE K == KeptOutputs(tx)
             Z == Spends(tx)
  <2> HIDE DEF K, Z
  <2>1. Live(c, S \cup {tx}) = (Live(c, S) \ Z) \cup K
    BY LiveStep DEF K, Z
  <2>2. DOMAIN P2 = K \cup (DOMAIN P \ Z) /\ D2 = (D \cup (Z \ DOMAIN P)) \ K /\ K \cap DOMAIN d = {}
    BY <1>3, <1>6 DEF K, Z
  <2> QED BY <1>2, <2>1, <2>2
<1>8. DOMAIN P2 \cap DOMAIN d = {}
  BY <1>2, <1>3, <1>6
<1>9. ASSUME NEW op \in DOMAIN P2 PROVE P2[op] = Compact(Source(c, op))
  <2>1. CASE op \in KeptOutputs(tx)
    <3>1. PICK v \in DOMAIN tx.outputs : op = <<tx.id, v>>
      BY <2>1 DEF KeptOutputs
    <3>2. Source(c, op) = tx.outputs[v] /\ op[2] = v
      BY <3>1, SourceOf
    <3> QED BY <1>6, <1>9, <2>1, <3>2
  <2>2. CASE op \notin KeptOutputs(tx)
    BY <1>2, <1>6, <1>9, <2>2
  <2> QED BY <2>1, <2>2
<1> HIDE DEF D2
<1>10. Overlay(P2, D2, d, c, S \cup {tx})
  BY <1>7, <1>8, <1>9 DEF Overlay
<1> QED BY <1>1, <1>10

\* A scan point with a prevout missing is not computed.
LEMMA MissingPrevout ==
  ASSUME NEW inputs, NEW prevout, inputs = <<>> \/ \E i \in DOMAIN inputs : prevout[i] = Absent
  PROVE  ScanPoint(inputs, prevout) = Absent
BY Zenon DEF ScanPoint

\* What lookup_prevout finds: the context of the output, or nothing when the
\* store was opened after it was created.
LEMMA Lookup ==
  ASSUME ChainOk(chain), NEW S \in SUBSET All(chain), NEW tx \in All(chain),
         \A t \in S : t.id < tx.id,
         \A t \in All(chain) : t.id < tx.id => t \in S \/ start = 2,
         NEW P, NEW D, NEW T, Overlay(P, D, db, chain, S),
         \A op \in DOMAIN db : DecodeEntry(db[op]) = Compact(Source(chain, op)),
         NEW op \in Spends(tx)
  PROVE  LET found == LookupPrevout(Pending(P, D, T), op)
         IN  \/ found # Absent /\ PrevoutOfCompact(found) = PrevoutOfScript(Source(chain, op))
             \/ found = Absent /\ start = 2
<1> DEFINE found == LookupPrevout(Pending(P, D, T), op)
<1>1. /\ DOMAIN P \cup (DOMAIN db \ D) = Live(chain, S)
      /\ \A o \in DOMAIN P : P[o] = Compact(Source(chain, o))
  BY DEF Overlay
<1>2. found = IF op \in DOMAIN P THEN P[op]
              ELSE IF op \in DOMAIN db \ D THEN DecodeEntry(db[op]) ELSE Absent
  <2> DEFINE p == Pending(P, D, T)
  <2>1. p.puts = P /\ p.deletes = D
    BY PendingFields
  <2> HIDE DEF p
  <2>2. LookupPrevout(p, op) = IF op \in DOMAIN P THEN P[op]
                               ELSE IF op \in DOMAIN db \ D THEN DecodeEntry(db[op]) ELSE Absent
    BY <2>1, Zenon DEF LookupPrevout
  <2> QED BY <2>2 DEF p
<1> HIDE DEF found
<1>3. PICK from \in All(chain) : from.id < tx.id /\ op \in Creates(from)
  BY InputSource
<1>4. Source(chain, op) \in Script /\ ~Burnt(Source(chain, op))
  BY InputSource
<1>5. op \notin Spent(S)
  <2> SUFFICES ASSUME NEW t \in S, op \in Spends(t) PROVE FALSE
    BY CreatedAt
  <2>1. t # tx
    <3>1. t.id < tx.id /\ tx.id \in Nat
      BY ChainTyped
    <3> QED BY <3>1
  <2> QED BY <2>1 DEF ChainOk, NoDoubleSpend
<1>6. CASE from \in S
  <2>1. op \in Live(chain, S)
    BY <1>3, <1>4, <1>5, <1>6, CreatedAt DEF Live
  <2>2. found = Compact(Source(chain, op))
    BY <1>1, <1>2, <2>1
  <2> QED BY <1>4, <2>2, CompactKeeps DEF found
<1>7. CASE from \notin S
  <2>1. op \in Live(chain, S) => found = Compact(Source(chain, op))
    BY <1>1, <1>2
  <2>2. op \notin Live(chain, S) => found = Absent
    BY <1>1, <1>2
  <2>3. start = 2
    BY <1>3, <1>7
  <2> QED BY <1>4, <2>1, <2>2, <2>3, CompactKeeps DEF found
<1> QED BY <1>6, <1>7

\* enrich_tx_scan_point computes what compute_sp_tweak_from_undo does.
LEMMA TweakRight ==
  ASSUME ChainOk(chain), NEW S \in SUBSET All(chain), NEW tx \in All(chain),
         \A t \in S : t.id < tx.id,
         \A t \in All(chain) : t.id < tx.id => t \in S \/ start = 2,
         NEW P, NEW D, NEW T, Overlay(P, D, db, chain, S),
         \A op \in DOMAIN db : DecodeEntry(db[op]) = Compact(Source(chain, op))
  PROVE  Right(StoreTweak(Pending(P, D, T), tx), start, chain, tx)
<1> DEFINE p == Pending(P, D, T)
           found == [i \in DOMAIN tx.inputs |-> LookupPrevout(p, tx.inputs[i].prev)]
           infos == [i \in DOMAIN tx.inputs |->
                       IF found[i] = Absent THEN Absent ELSE PrevoutOfCompact(found[i])]
           scripts == [i \in DOMAIN tx.inputs |-> Source(chain, tx.inputs[i].prev)]
           undos == [i \in DOMAIN tx.inputs |-> PrevoutOfScript(scripts[i])]
<1>1. \A i \in DOMAIN tx.inputs :
        \/ found[i] # Absent /\ infos[i] = PrevoutOfScript(Source(chain, tx.inputs[i].prev))
        \/ found[i] = Absent /\ infos[i] = Absent /\ start = 2
  <2> TAKE i \in DOMAIN tx.inputs
  <2> DEFINE op == tx.inputs[i].prev
  <2>1. op \in Spends(tx)
    BY DEF Spends
  <2> HIDE DEF op, p
  <2>2. found[i] = LookupPrevout(p, op)
    BY DEF op
  <2>3. infos[i] = IF found[i] = Absent THEN Absent ELSE PrevoutOfCompact(found[i])
    BY Zenon
  <2>4. \/ LookupPrevout(p, op) # Absent
             /\ PrevoutOfCompact(LookupPrevout(p, op)) = PrevoutOfScript(Source(chain, op))
        \/ LookupPrevout(p, op) = Absent /\ start = 2
    BY <2>1, Lookup DEF p
  <2> HIDE DEF found, infos
  <2> QED BY <2>2, <2>3, <2>4 DEF op
<1>2. StoreTweak(p, tx) = IF CreatesP2tr(tx) THEN ScanPoint(tx.inputs, infos) ELSE Absent
  BY Zenon DEF StoreTweak
<1>3. UndoTweak(tx, scripts) = IF CreatesP2tr(tx) /\ tx.inputs # <<>>
                               THEN ScanPoint(tx.inputs, undos) ELSE Absent
  <2>1. ~UndoRefused(tx.inputs, scripts)
    BY UndoWhole, Zenon
  <2> QED BY <2>1, Zenon DEF UndoTweak
<1>4. SUFFICES StoreTweak(p, tx) = UndoTweak(tx, scripts) \/ (start = 2 /\ StoreTweak(p, tx) = Absent)
  <2>1. Right(StoreTweak(p, tx), start, chain, tx)
          <=> StoreTweak(p, tx) = UndoTweak(tx, scripts) \/ (start = 2 /\ StoreTweak(p, tx) = Absent)
    BY Zenon DEF Right
  <2> QED BY <2>1, Zenon
<1> HIDE DEF p, scripts
<1>5. CASE ~CreatesP2tr(tx) \/ tx.inputs = <<>>
  <2> HIDE DEF infos
  <2>1. tx.inputs = <<>> => ScanPoint(tx.inputs, infos) = Absent
    BY MissingPrevout
  <2>2. StoreTweak(p, tx) = Absent
    BY <1>2, <1>5, <2>1, Zenon
  <2>3. UndoTweak(tx, scripts) = Absent
    BY <1>3, <1>5, Zenon
  <2> QED BY <2>2, <2>3, Zenon
<1>6. CASE CreatesP2tr(tx) /\ tx.inputs # <<>> /\ \A i \in DOMAIN tx.inputs : found[i] # Absent
  <2>1. \A i \in DOMAIN tx.inputs : infos[i] = undos[i]
    BY <1>1, <1>6, Zenon DEF scripts
  <2>2. infos = undos
    BY <2>1, Zenon
  <2> QED BY <1>2, <1>3, <1>6, <2>2, Zenon
<1>7. CASE CreatesP2tr(tx) /\ tx.inputs # <<>> /\ \E i \in DOMAIN tx.inputs : found[i] = Absent
  <2>1. \E i \in DOMAIN tx.inputs : infos[i] = Absent /\ start = 2
    BY <1>1, <1>7, Zenon
  <2>2. ScanPoint(tx.inputs, infos) = Absent
    BY <2>1, MissingPrevout, Zenon
  <2> QED BY <1>2, <1>7, <2>1, <2>2, Zenon
<1> QED BY <1>5, <1>6, <1>7

-----------------------------------------------------------------------------
(* A block.                                                                *)

\* Transactions before the n-th of block b, from block a on.
Before(c, a, b, n) == In(c, a, b - 1) \cup {c[b][k] : k \in 1..(n - 1)}

\* The transactions with smaller ids are the ones before.
LEMMA SmallerIds ==
  ASSUME NEW c, ChainOk(c), NEW b \in DOMAIN c, NEW n \in DOMAIN c[b]
  PROVE  /\ c[b][n] \in All(c)
         /\ \A a \in Nat \ {0} : Before(c, a, b, n) \subseteq All(c)
         /\ \A a \in Nat \ {0} : \A t \in Before(c, a, b, n) : t.id < c[b][n].id
         /\ \A t \in All(c) : t.id < c[b][n].id => t \in Before(c, 1, b, n)
<1>1. /\ Len(c) \in Nat /\ DOMAIN c = 1..Len(c) /\ b \in 1..Len(c) /\ b \in Nat
      /\ Len(c[b]) \in Nat /\ DOMAIN c[b] = 1..Len(c[b]) /\ n \in Nat
      /\ \A x \in DOMAIN c : \A k \in DOMAIN c[x] : k \in Nat
  BY ChainTyped
<1>2. \A x \in DOMAIN c : \A k \in DOMAIN c[x] : c[x][k] \in All(c)
  BY <1>1, InAt DEF All
<1>3. ASSUME NEW a \in Nat \ {0}, NEW t \in Before(c, a, b, n)
      PROVE  t \in All(c) /\ t.id < c[b][n].id
  <2>1. CASE t \in In(c, a, b - 1)
    <3>1. PICK x \in a..(b - 1) : \E k \in DOMAIN c[x] : t = c[x][k]
      BY <2>1, InAt
    <3>2. x \in DOMAIN c /\ x < b
      BY <1>1, <3>1
    <3> QED BY <1>2, <3>1, <3>2 DEF ChainOk, Ordered
  <2>2. CASE t \in {c[b][k] : k \in 1..(n - 1)}
    <3>1. PICK k \in 1..(n - 1) : t = c[b][k]
      BY <2>2
    <3>2. k \in DOMAIN c[b] /\ k < n
      BY <1>1, <3>1
    <3> QED BY <1>2, <3>1, <3>2 DEF ChainOk, Ordered
  <2> QED BY <1>3, <2>1, <2>2 DEF Before
<1>4. ASSUME NEW t \in All(c), t.id < c[b][n].id
      PROVE  t \in Before(c, 1, b, n)
  <2>1. PICK x \in 1..Len(c) : \E k \in DOMAIN c[x] : t = c[x][k]
    BY InAt DEF All
  <2>2. PICK k \in DOMAIN c[x] : t = c[x][k]
    BY <2>1
  <2>3. t.id \in Nat /\ c[b][n].id \in Nat
    BY <1>1, <1>2, ChainTyped
  <2>4. ~(b < x \/ (b = x /\ n < k))
    <3>1. b < x \/ (b = x /\ n < k) => c[b][n].id < t.id
      BY <1>1, <2>1, <2>2 DEF ChainOk, Ordered
    <3> QED BY <1>4, <2>3, <3>1
  <2>5. x \in Nat /\ k \in Nat /\ ~(x = b /\ k = n)
    BY <1>1, <1>4, <2>1, <2>2, <2>3
  <2>6. x \in 1..(b - 1) \/ (x = b /\ k \in 1..(n - 1))
    BY <1>1, <2>1, <2>2, <2>4, <2>5
  <2>7. x \in 1..(b - 1) => t \in In(c, 1, b - 1)
    BY <2>2, InAt
  <2> QED BY <2>2, <2>6, <2>7 DEF Before
<1> QED BY <1>1, <1>2, <1>3, <1>4

LEMMA BeforeNext ==
  ASSUME NEW c, ChainOk(c), NEW b \in DOMAIN c, NEW a \in Nat \ {0}
  PROVE  /\ Before(c, a, b, 1) = In(c, a, b - 1)
         /\ \A n \in Nat \ {0} : Before(c, a, b, n + 1) = Before(c, a, b, n) \cup {c[b][n]}
         /\ a <= b => Before(c, a, b, Len(c[b]) + 1) = In(c, a, b)
<1>1. /\ Len(c) \in Nat /\ b \in 1..Len(c) /\ b \in Nat
      /\ Len(c[b]) \in Nat /\ DOMAIN c[b] = 1..Len(c[b])
  BY ChainTyped
<1>2. Before(c, a, b, 1) = In(c, a, b - 1)
  <2>1. 1..(1 - 1) = {}
    OBVIOUS
  <2> QED BY <2>1 DEF Before
<1>3. ASSUME NEW n \in Nat \ {0} PROVE Before(c, a, b, n + 1) = Before(c, a, b, n) \cup {c[b][n]}
  <2>1. 1..((n + 1) - 1) = (1..(n - 1)) \cup {n}
    OBVIOUS
  <2> QED BY <2>1 DEF Before
<1>4. ASSUME a <= b PROVE Before(c, a, b, Len(c[b]) + 1) = In(c, a, b)
  <2>1. a..b = (a..(b - 1)) \cup {b}
    BY <1>1, <1>4
  <2>2. 1..((Len(c[b]) + 1) - 1) = DOMAIN c[b]
    BY <1>1
  <2>3. ASSUME NEW t PROVE t \in Before(c, a, b, Len(c[b]) + 1) <=> t \in In(c, a, b)
    <3>1. t \in In(c, a, b) <=> \E x \in a..b : \E k \in DOMAIN c[x] : t = c[x][k]
      BY InAt
    <3>2. t \in In(c, a, b - 1) <=> \E x \in a..(b - 1) : \E k \in DOMAIN c[x] : t = c[x][k]
      BY InAt
    <3> QED BY <2>1, <2>2, <3>1, <3>2, Zenon DEF Before
  <2> QED BY <2>3
<1> QED BY <1>2, <1>3, <1>4

LEMMA LeastNatural ==
  ASSUME NEW S \in SUBSET Nat, S # {}
  PROVE  \E m \in S : \A n \in S : m <= n
<1> DEFINE R == {p \in Nat \X Nat : p[1] < p[2]}
<1>1. OpToRel(<, Nat) = R
  BY DEF OpToRel
<1>2. IsWellFoundedOn(R, Nat)
  BY <1>1, NatLessThanWellFounded
<1> HIDE DEF R
<1>3. PICK m \in S : \A n \in S : ~(<<n, m>> \in R)
  BY <1>2, WFMin
<1>4. \A n \in S : ~(n < m)
  BY <1>3 DEF R
<1> QED BY <1>3, <1>4

\* The states enrich_block_scan_points passes through.
LEMMA EnrichSteps ==
  ASSUME NEW p, NEW block, Len(block) \in Nat
  PROVE  \E after :
           /\ EnrichBlock(p, block) = after[Len(block)]
           /\ after[0] = p
           /\ \A n \in 1..Len(block) : after[n] = EnrichTx(after[n - 1], block[n])
<1> DEFINE last == Len(block)
           Def(g, n) == IF n = 0 THEN p ELSE EnrichTx(g[n - 1], block[n])
           Good(g, m) == g = [n \in 0..m |-> Def(g, n)]
           after == CHOOSE g : Good(g, last)
           Bad == {m \in 0..last : ~\E g : Good(g, m)}
<1>1. EnrichBlock(p, block) = after[last]
  BY DEF EnrichBlock
<1> HIDE DEF last
<1>2. last \in Nat
  BY DEF last
<1>3. Bad = {}
  <2> SUFFICES ASSUME Bad # {} PROVE FALSE
    OBVIOUS
  <2>1. PICK m \in Bad : \A n \in Bad : m <= n
    <3>1. Bad \in SUBSET Nat
      BY <1>2
    <3> HIDE DEF Bad
    <3> QED BY <3>1, LeastNatural
  <2>2. m # 0
    <3> DEFINE g == [n \in 0..0 |-> p]
    <3>1. Good(g, 0)
      OBVIOUS
    <3> HIDE DEF Good
    <3> QED BY <2>1, <3>1
  <2>3. m - 1 \in 0..last /\ ~(m <= m - 1) /\ m \in 1..last
    BY <1>2, <2>1, <2>2
  <2>4. PICK g : Good(g, m - 1)
    <3> HIDE DEF Good
    <3> QED BY <2>1, <2>3
  <2> DEFINE f == [n \in 0..m |-> IF n = m THEN Def(g, m) ELSE g[n]]
  <2>5. ASSUME NEW n \in 0..m PROVE f[n] = Def(f, n)
    <3>1. CASE n = m
      <4>1. f[n] = Def(g, n)
        BY <2>5, <3>1
      <4>2. f[n - 1] = g[n - 1]
        BY <2>3, <3>1
      <4> HIDE DEF f
      <4> QED BY <4>1, <4>2
    <3>2. CASE n # m
      <4>1. n \in 0..(m - 1) /\ f[n] = g[n]
        BY <2>3, <2>5, <3>2
      <4>2. g[n] = Def(g, n)
        BY <2>4, <4>1
      <4>3. n # 0 => f[n - 1] = g[n - 1]
        BY <2>3, <4>1
      <4> HIDE DEF f
      <4> QED BY <4>1, <4>2, <4>3
    <3> QED BY <3>1, <3>2
  <2>6. Good(f, m)
    BY <2>5
  <2> HIDE DEF Good
  <2> QED BY <2>1, <2>6
<1>4. Good(after, last)
  <2>1. last \in 0..last
    BY <1>2
  <2> HIDE DEF Good
  <2>2. \E g : Good(g, last)
    BY <1>3, <2>1
  <2> QED BY <2>2, Zenon
<1> HIDE DEF after
<1>5. after[0] = p
  BY <1>2, <1>4
<1>6. \A n \in 1..last : after[n] = EnrichTx(after[n - 1], block[n])
  BY <1>2, <1>4
<1> QED BY <1>1, <1>5, <1>6 DEF last

\* p holds what the store should after the transactions before the n-th of
\* block b.
HoldsBefore(p, b, n) ==
    \E P, D, T : /\ p = Pending(P, D, T)
                 /\ Overlay(P, D, db, chain, Before(chain, start, b, n))
                 /\ AllRight(T, start, chain, Before(chain, 2, b, n))

\* The step of one transaction in the loop of enrich_block_scan_points.
LEMMA EnrichOne ==
  ASSUME StoreInv, NEW b \in DOMAIN chain, done < b, NEW n \in DOMAIN chain[b], NEW p, HoldsBefore(p, b, n)
  PROVE  HoldsBefore(EnrichTx(p, chain[b][n]), b, n + 1)
<1> DEFINE tx == chain[b][n]
           S == Before(chain, start, b, n)
<1>1. PICK P, D, T : /\ p = Pending(P, D, T)
                     /\ Overlay(P, D, db, chain, S)
                     /\ AllRight(T, start, chain, Before(chain, 2, b, n))
  BY DEF HoldsBefore
<1>2. /\ ChainOk(chain) /\ start \in Nat \ {0} /\ start \in {1, 2}
      /\ b \in Nat /\ n \in Nat \ {0} /\ tip \in Nat /\ done \in Nat /\ tip <= done
  <2>1. ChainOk(chain) /\ start \in {1, 2} /\ tip \in Nat /\ done \in Nat /\ tip <= done
    BY DEF StoreInv
  <2> QED BY <2>1, ChainTyped
<1>3. /\ tx \in All(chain) /\ S \in SUBSET All(chain)
      /\ \A t \in S : t.id < tx.id
      /\ \A t \in Before(chain, 2, b, n) : t.id < tx.id
      /\ \A t \in All(chain) : t.id < tx.id => t \in S \/ start = 2
  <2>1. /\ tx \in All(chain)
        /\ \A a \in Nat \ {0} : Before(chain, a, b, n) \subseteq All(chain)
        /\ \A a \in Nat \ {0} : \A t \in Before(chain, a, b, n) : t.id < tx.id
        /\ \A t \in All(chain) : t.id < tx.id => t \in Before(chain, 1, b, n)
    BY <1>2, SmallerIds
  <2>2. 2 \in Nat \ {0}
    OBVIOUS
  <2> HIDE DEF tx
  <2> QED BY <1>2, <2>1, <2>2, Zenon
<1>4. /\ DOMAIN db \subseteq Created(S)
      /\ \A op \in DOMAIN db : DecodeEntry(db[op]) = Compact(Source(chain, op))
  <2> DEFINE Z == In(chain, start, tip)
  <2>1. /\ DOMAIN db = Live(chain, Z)
        /\ \A op \in Live(chain, Z) : DecodeEntry(db[op]) = Compact(Source(chain, op))
    BY DEF StoreInv, Exact
  <2>2. Z \subseteq S
    <3> SUFFICES ASSUME NEW t \in Z PROVE t \in In(chain, start, b - 1)
      BY DEF Before
    <3>1. PICK x \in start..tip : \E k \in DOMAIN chain[x] : t = chain[x][k]
      BY InAt
    <3>2. x \in start..(b - 1)
      BY <1>2, <3>1
    <3> QED BY <3>1, <3>2, InAt
  <2> HIDE DEF Z, S
  <2>3. \A op \in Live(chain, Z) : op \in Created(S)
    BY <2>2, CreatedAt DEF Live
  <2> QED BY <2>1, <2>3
<1> HIDE DEF tx, S
<1>5. PICK P2, D2 :
        /\ EnrichTx(Pending(P, D, T), tx) = Pending(P2, D2, Tweaked(P, D, T, tx))
        /\ Overlay(P2, D2, db, chain, S \cup {tx})
  BY <1>1, <1>2, <1>3, <1>4, OverlayStep
<1>6. Right(StoreTweak(Pending(P, D, T), tx), start, chain, tx)
  BY <1>1, <1>2, <1>3, <1>4, TweakRight
<1>7. AllRight(Tweaked(P, D, T, tx), start, chain, Before(chain, 2, b, n) \cup {tx})
  <2> DEFINE new == [id \in {tx.id} |-> StoreTweak(Pending(P, D, T), tx)]
  <2>1. DOMAIN new = {tx.id} /\ new[tx.id] = StoreTweak(Pending(P, D, T), tx)
    OBVIOUS
  <2> HIDE DEF new
  <2>2. /\ DOMAIN Tweaked(P, D, T, tx) = {tx.id} \cup DOMAIN T
        /\ \A x \in {tx.id} \cup DOMAIN T :
             Tweaked(P, D, T, tx)[x] = IF x \in DOMAIN new THEN new[x] ELSE T[x]
    <3>1. Tweaked(P, D, T, tx) = Written(new, T)
      BY DEF Tweaked, new
    <3> QED BY <2>1, <3>1 DEF Written
  <2>3. \A t \in Before(chain, 2, b, n) : t.id # tx.id /\ t.id \in DOMAIN T /\ Right(T[t.id], start, chain, t)
    <3>1. \A t \in Before(chain, 2, b, n) : t.id # tx.id
      <4>1. tx.id \in Nat
        BY <1>2, <1>3, ChainTyped
      <4> QED BY <1>3, <4>1
    <3> QED BY <1>1, <3>1 DEF AllRight
  <2> QED BY <1>6, <2>1, <2>2, <2>3, Zenon DEF AllRight
<1>8. /\ Before(chain, start, b, n + 1) = S \cup {tx}
      /\ Before(chain, 2, b, n + 1) = Before(chain, 2, b, n) \cup {tx}
  <2>1. 2 \in Nat \ {0}
    OBVIOUS
  <2> QED BY <1>2, <2>1, BeforeNext DEF S, tx
<1>9. EnrichTx(p, tx) = Pending(P2, D2, Tweaked(P, D, T, tx))
  BY <1>1, <1>5
<1> DEFINE U == Tweaked(P, D, T, tx)
<1> HIDE DEF U
<1>10. /\ EnrichTx(p, tx) = Pending(P2, D2, U)
       /\ Overlay(P2, D2, db, chain, Before(chain, start, b, n + 1))
       /\ AllRight(U, start, chain, Before(chain, 2, b, n + 1))
  BY <1>5, <1>7, <1>8, <1>9 DEF U
<1>11. HoldsBefore(EnrichTx(p, tx), b, n + 1)
  BY <1>10, Zenon DEF HoldsBefore
<1> QED BY <1>11 DEF tx

\* enrich_block_scan_points leaves the overlay and the scan points right for
\* the blocks up to and with its own.
LEMMA EnrichKeeps ==
  ASSUME StoreInv, Enrich
  PROVE  StoreInv'
<1> DEFINE b == done + 1
           block == chain[b]
           p0 == Pending(puts, deletes, tweaks)
<1>1. /\ ChainOk(chain) /\ start \in {1, 2} /\ tip \in Nat /\ done \in Nat
      /\ 1 <= tip /\ tip <= done /\ done <= Len(chain) /\ Len(chain) \in Nat
      /\ DOMAIN chain = 1..Len(chain)
  BY ChainTyped DEF StoreInv
<1>2. /\ b \in DOMAIN chain /\ done < b /\ b \in Nat /\ start <= b /\ 2 <= b
      /\ Len(block) \in Nat /\ DOMAIN block = 1..Len(block)
  <2>1. b \in DOMAIN chain /\ done < b /\ b \in Nat /\ start <= b /\ 2 <= b
    BY <1>1 DEF Enrich
  <2> HIDE DEF b
  <2>2. block \in Seq(Tx)
    BY <1>1, <2>1, ChainTyped
  <2> QED BY <2>1, <2>2
<1>3. PICK after :
        /\ EnrichBlock(p0, block) = after[Len(block)]
        /\ after[0] = p0
        /\ \A n \in 1..Len(block) : after[n] = EnrichTx(after[n - 1], block[n])
  BY <1>2, EnrichSteps
<1>4. HoldsBefore(after[0], b, 1)
  <2>1. /\ Before(chain, start, b, 1) = In(chain, start, done)
        /\ Before(chain, 2, b, 1) = In(chain, 2, done)
    <3>1. b - 1 = done /\ start \in Nat \ {0} /\ 2 \in Nat \ {0}
      BY <1>1
    <3> QED BY <1>1, <1>2, <3>1, BeforeNext
  <2>2. /\ Overlay(puts, deletes, db, chain, In(chain, start, done))
        /\ AllRight(tweaks, start, chain, In(chain, 2, done))
    BY DEF StoreInv
  <2> HIDE DEF b
  <2> QED BY <1>3, <2>1, <2>2, Zenon DEF HoldsBefore
<1> HIDE DEF b
<1>5. ASSUME NEW k \in 0..Len(block), ~HoldsBefore(after[k], b, k + 1) PROVE FALSE
  <2> DEFINE Bad == {m \in 0..Len(block) : ~HoldsBefore(after[m], b, m + 1)}
  <2> HIDE DEF block
  <2>1. Bad \in SUBSET Nat /\ Bad # {}
    BY <1>2, <1>5
  <2>2. PICK m \in Bad : \A n \in Bad : m <= n
    <3> HIDE DEF Bad
    <3> QED BY <2>1, LeastNatural
  <2>3. m # 0
    <3> SUFFICES ASSUME m = 0 PROVE FALSE
      OBVIOUS
    <3>1. m + 1 = 1 /\ ~HoldsBefore(after[m], b, m + 1)
      BY <2>2
    <3> QED BY <1>4, <3>1
  <2>4. m \in 1..Len(block) /\ m - 1 \in 0..Len(block) /\ ~(m <= m - 1) /\ (m - 1) + 1 = m
    BY <1>2, <2>2, <2>3
  <2>5. HoldsBefore(after[m - 1], b, m)
    BY <2>2, <2>4
  <2>6. after[m] = EnrichTx(after[m - 1], block[m])
    BY <1>3, <2>4
  <2>7. HoldsBefore(EnrichTx(after[m - 1], chain[b][m]), b, m + 1)
    <3>1. m \in DOMAIN chain[b]
      BY <1>2, <2>4 DEF block
    <3> QED BY <1>2, <2>5, <3>1, EnrichOne
  <2> QED BY <2>2, <2>6, <2>7 DEF block
<1>6. HoldsBefore(EnrichBlock(p0, block), b, Len(block) + 1)
  <2>1. Len(block) \in 0..Len(block)
    BY <1>2
  <2> HIDE DEF block
  <2> QED BY <1>3, <1>5, <2>1
<1>7. PICK P, D, T :
        /\ EnrichBlock(p0, block) = Pending(P, D, T)
        /\ Overlay(P, D, db, chain, In(chain, start, b))
        /\ AllRight(T, start, chain, In(chain, 2, b))
  <2>1. /\ Before(chain, start, b, Len(block) + 1) = In(chain, start, b)
        /\ Before(chain, 2, b, Len(block) + 1) = In(chain, 2, b)
    <3>1. start \in Nat \ {0} /\ 2 \in Nat \ {0}
      BY <1>1
    <3> QED BY <1>1, <1>2, <3>1, BeforeNext
  <2> QED BY <1>6, <2>1, Zenon DEF HoldsBefore
<1>8. puts' = P /\ deletes' = D /\ tweaks' = T
  <2>1. /\ puts' = EnrichBlock(p0, block).puts
        /\ deletes' = EnrichBlock(p0, block).deletes
        /\ tweaks' = EnrichBlock(p0, block).tweaks
    BY Zenon DEF Enrich, Pending, b
  <2> HIDE DEF p0, block
  <2> QED BY <1>7, <2>1, PendingFields
<1>9. done' = b /\ UNCHANGED <<chain, start, db, tip>>
  BY DEF Enrich, b
<1>10. b \in Nat /\ tip <= b /\ b <= Len(chain)
  BY <1>1, <1>2 DEF b
<1>11. Exact(db, chain, In(chain, start, tip))
  BY DEF StoreInv
<1> QED BY <1>1, <1>7, <1>8, <1>9, <1>10, <1>11, Zenon DEF StoreInv

-----------------------------------------------------------------------------
(* The chain grows.                                                        *)

\* Chain e is c with t added at its end, the K-th transaction of block B.
Adds(c, e, t, B, K) ==
    /\ e \in Seq(Seq(Tx)) /\ Len(e) >= 1
    /\ B \in DOMAIN e /\ K \in DOMAIN e[B] /\ e[B][K] = t
    /\ \A b \in DOMAIN e : \A k \in DOMAIN e[b] :
          \/ b = B /\ k = K
          \/ /\ b \in DOMAIN c /\ k \in DOMAIN c[b] /\ e[b][k] = c[b][k]
             /\ b < B \/ (b = B /\ k < K)
    /\ \A b \in DOMAIN c :
          b \in DOMAIN e /\ \A k \in DOMAIN c[b] : k \in DOMAIN e[b] /\ e[b][k] = c[b][k]

\* An output a transaction may spend.
MaySpend(c, op) == op \in Created(All(c)) /\ op \notin Spent(All(c)) /\ ~Burnt(Source(c, op))

\* A chain stays one when a transaction that spends unspent outputs, with the
\* next id, is added at its end.
LEMMA Grown ==
  ASSUME NEW c, ChainOk(c), NEW t, t.id = Cardinality(All(c)) + 1,
         \A op \in Spends(t) : MaySpend(c, op),
         NEW e, NEW B, NEW K, Adds(c, e, t, B, K)
  PROVE  ChainOk(e) /\ All(e) = All(c) \cup {t}
<1> USE DEF Adds, MaySpend
<1>1. /\ Len(c) \in Nat /\ DOMAIN c = 1..Len(c) /\ Len(e) \in Nat /\ DOMAIN e = 1..Len(e)
      /\ B \in Nat /\ K \in Nat /\ \A b \in DOMAIN e : b \in Nat /\ \A k \in DOMAIN e[b] : k \in Nat
  BY ChainTyped
<1>2. \A x : x \in All(c) <=> \E b \in DOMAIN c : \E k \in DOMAIN c[b] : x = c[b][k]
  <2>1. DOMAIN c = 1..Len(c)
    BY <1>1
  <2> TAKE x
  <2> QED BY <2>1 DEF All, In, ToSet
<1>3. \A x : x \in All(e) <=> \E b \in DOMAIN e : \E k \in DOMAIN e[b] : x = e[b][k]
  <2>1. DOMAIN e = 1..Len(e)
    BY <1>1
  <2> TAKE x
  <2> QED BY <2>1 DEF All, In, ToSet
<1>4. All(e) = All(c) \cup {t}
  <2>1. ASSUME NEW x \in All(e) PROVE x \in All(c) \cup {t}
    <3>1. PICK b \in DOMAIN e : \E k \in DOMAIN e[b] : x = e[b][k]
      BY <1>3, <2>1
    <3>2. PICK k \in DOMAIN e[b] : x = e[b][k]
      BY <3>1
    <3>3. CASE b = B /\ k = K
      BY <3>2, <3>3
    <3>4. CASE b \in DOMAIN c /\ k \in DOMAIN c[b] /\ e[b][k] = c[b][k]
      BY <1>2, <3>2, <3>4
    <3> QED BY <3>3, <3>4
  <2>2. ASSUME NEW x \in All(c) PROVE x \in All(e)
    BY <1>2, <1>3, <2>2
  <2>3. t \in All(e)
    BY <1>3
  <2> QED BY <2>1, <2>2, <2>3
<1>5. /\ IsFiniteSet(All(c)) /\ Cardinality(All(c)) \in Nat
      /\ \A x \in All(c) : x.id \in Nat /\ 1 <= x.id /\ x.id <= Cardinality(All(c)) /\ x.id < t.id
  <2>1. IsFiniteSet(All(c)) /\ \A x \in All(c) : 1 <= x.id /\ x.id <= Cardinality(All(c))
    BY DEF ChainOk, Numbered
  <2>2. Cardinality(All(c)) \in Nat
    BY <2>1, FS_CardinalityType
  <2> QED BY <2>1, <2>2, ChainTyped
<1>6. t \notin All(c)
  <2> SUFFICES ASSUME t \in All(c) PROVE FALSE
    OBVIOUS
  <2>1. t.id \in Nat /\ t.id < t.id
    BY <1>5
  <2> QED BY <2>1
<1>7. IsFiniteSet(All(e)) /\ Cardinality(All(e)) = Cardinality(All(c)) + 1
  BY <1>4, <1>5, <1>6, FS_AddElement
<1>8. Numbered(e)
  <2> SUFFICES ASSUME NEW x \in All(e) PROVE 1 <= x.id /\ x.id <= Cardinality(All(e))
    BY <1>7 DEF Numbered
  <2> QED BY <1>4, <1>5, <1>7
<1>9. Ordered(e)
  <2> SUFFICES ASSUME NEW b1 \in DOMAIN e, NEW b2 \in DOMAIN e,
                      NEW k1 \in DOMAIN e[b1], NEW k2 \in DOMAIN e[b2],
                      b1 < b2 \/ (b1 = b2 /\ k1 < k2)
               PROVE  e[b1][k1].id < e[b2][k2].id
    BY DEF Ordered
  <2>1. b1 \in Nat /\ b2 \in Nat /\ k1 \in Nat /\ k2 \in Nat
    BY <1>1
  <2>2. b1 \in DOMAIN c /\ k1 \in DOMAIN c[b1] /\ e[b1][k1] = c[b1][k1]
    <3>1. ~(b1 = B /\ k1 = K)
      <4> SUFFICES ASSUME b1 = B, k1 = K PROVE FALSE
        OBVIOUS
      <4>1. (b2 = B /\ k2 = K) \/ b2 < B \/ (b2 = B /\ k2 < K)
        OBVIOUS
      <4> QED BY <1>1, <2>1, <4>1
    <3> QED BY <3>1
  <2>3. c[b1][k1] \in All(c)
    BY <1>2, <2>2
  <2>4. CASE b2 = B /\ k2 = K
    BY <1>5, <2>2, <2>3, <2>4
  <2>5. CASE b2 \in DOMAIN c /\ k2 \in DOMAIN c[b2] /\ e[b2][k2] = c[b2][k2]
    BY <2>2, <2>5 DEF ChainOk, Ordered
  <2> QED BY <2>4, <2>5
<1>10. Funded(e)
  <2> SUFFICES ASSUME NEW x \in All(e), NEW op \in Spends(x)
               PROVE  \E from \in All(e) : \E v \in DOMAIN from.outputs :
                         from.id < x.id /\ op = <<from.id, v>> /\ ~Burnt(from.outputs[v])
    BY DEF Funded
  <2>1. CASE x \in All(c)
    <3>1. PICK from \in All(c) : \E v \in DOMAIN from.outputs :
             from.id < x.id /\ op = <<from.id, v>> /\ ~Burnt(from.outputs[v])
      BY <2>1 DEF ChainOk, Funded
    <3> QED BY <1>4, <3>1
  <2>2. CASE x = t
    <3>1. op \in Created(All(c)) /\ ~Burnt(Source(c, op))
      BY <2>2
    <3>2. PICK from \in All(c) : op \in Creates(from)
      BY <3>1, CreatedAt
    <3>3. PICK v \in DOMAIN from.outputs : op = <<from.id, v>>
      BY <3>2 DEF Creates
    <3>4. ~Burnt(from.outputs[v])
      BY <3>1, <3>3, SourceOf
    <3>5. from.id < x.id
      BY <1>5, <2>2
    <3> QED BY <1>4, <3>3, <3>4, <3>5
  <2> QED BY <1>4, <2>1, <2>2
<1>11. NoDoubleSpend(e)
  <2> SUFFICES ASSUME NEW x \in All(e), NEW y \in All(e), x # y, NEW op \in Spends(x), op \in Spends(y)
               PROVE  FALSE
    BY DEF NoDoubleSpend
  <2>1. CASE x \in All(c) /\ y \in All(c)
    BY <2>1 DEF ChainOk, NoDoubleSpend
  <2>2. CASE x = t /\ y \in All(c)
    BY <2>2, CreatedAt
  <2>3. CASE y = t /\ x \in All(c)
    BY <2>3, CreatedAt
  <2> QED BY <1>4, <2>1, <2>2, <2>3
<1> QED BY <1>4, <1>8, <1>9, <1>10, <1>11 DEF ChainOk

\* Old outputs keep their scripts, so what holds of old transactions still does.
LEMMA Carried ==
  ASSUME NEW c, ChainOk(c), NEW e, ChainOk(e), All(c) \subseteq All(e), NEW S \in SUBSET All(c)
  PROVE  /\ \A d : Exact(d, c, S) => Exact(d, e, S)
         /\ \A P, D, d : Overlay(P, D, d, c, S) => Overlay(P, D, d, e, S)
         /\ \A T, st : AllRight(T, st, c, S) => AllRight(T, st, e, S)
<1>1. ASSUME NEW tx \in All(c), NEW op \in Creates(tx) PROVE Source(c, op) = Source(e, op)
  <2>1. PICK v \in DOMAIN tx.outputs : op = <<tx.id, v>>
    BY DEF Creates
  <2> QED BY <2>1, SourceOf
<1>2. \A op \in Created(S) : Source(c, op) = Source(e, op)
  BY <1>1, CreatedAt
<1>3. Live(c, S) = Live(e, S)
  BY <1>2 DEF Live
<1>4. \A op \in Live(c, S) : Source(c, op) = Source(e, op)
  BY <1>2 DEF Live
<1>5. ASSUME NEW d, Exact(d, c, S) PROVE Exact(d, e, S)
  BY <1>3, <1>4, <1>5 DEF Exact
<1>6. ASSUME NEW P, NEW D, NEW d, Overlay(P, D, d, c, S) PROVE Overlay(P, D, d, e, S)
  BY <1>3, <1>4, <1>6 DEF Overlay
<1>7. ASSUME NEW T, NEW st, AllRight(T, st, c, S) PROVE AllRight(T, st, e, S)
  <2> SUFFICES ASSUME NEW tx \in S PROVE tx.id \in DOMAIN T /\ Right(T[tx.id], st, e, tx)
    BY DEF AllRight
  <2>1. tx.id \in DOMAIN T /\ Right(T[tx.id], st, c, tx)
    BY <1>7 DEF AllRight
  <2>2. \A i \in DOMAIN tx.inputs : Source(c, tx.inputs[i].prev) = Source(e, tx.inputs[i].prev)
    <3> TAKE i \in DOMAIN tx.inputs
    <3>1. tx.inputs[i].prev \in Spends(tx)
      BY DEF Spends
    <3>2. \E from \in All(c) : tx.inputs[i].prev \in Creates(from)
      BY <3>1, InputSource
    <3> QED BY <1>1, <3>2
  <2>3. [i \in DOMAIN tx.inputs |-> Source(c, tx.inputs[i].prev)]
          = [i \in DOMAIN tx.inputs |-> Source(e, tx.inputs[i].prev)]
    BY <2>2, Zenon
  <2> QED BY <2>1, <2>3, Zenon DEF Right
<1> QED BY <1>5, <1>6, <1>7

\* A step that adds to blocks not yet enriched leaves the rest as it is.
LEMMA GrowthKeeps ==
  ASSUME StoreInv, ChainOk(chain'), All(chain) \subseteq All(chain'),
         Len(chain) <= Len(chain'), \A b \in 1..done : chain'[b] = chain[b],
         UNCHANGED <<start, db, tip, puts, deletes, done, tweaks>>
  PROVE  StoreInv'
<1>1. /\ ChainOk(chain) /\ start \in {1, 2} /\ tip \in Nat /\ done \in Nat
      /\ 1 <= tip /\ tip <= done /\ done <= Len(chain) /\ Len(chain) \in Nat /\ Len(chain') \in Nat
  BY ChainTyped DEF StoreInv
<1>2. ASSUME NEW a \in Nat \ {0}, NEW b \in Nat, b <= done
      PROVE  In(chain, a, b) = In(chain', a, b) /\ In(chain, a, b) \in SUBSET All(chain)
  <2>1. \A x \in a..b : x \in 1..done /\ x \in 1..Len(chain)
    BY <1>1, <1>2
  <2>2. \A x \in a..b : ToSet(chain[x]) = ToSet(chain'[x])
    BY <2>1 DEF ToSet
  <2>3. In(chain, a, b) = In(chain', a, b)
    BY <2>2 DEF In
  <2>4. In(chain, a, b) \subseteq All(chain)
    BY <2>1, InAt DEF All
  <2> QED BY <2>3, <2>4
<1>3. start \in Nat \ {0} /\ 2 \in Nat \ {0} /\ done <= done
  BY <1>1
<1>4. Exact(db, chain', In(chain', start, tip))
  <2>1. Exact(db, chain, In(chain, start, tip))
    BY DEF StoreInv
  <2>2. In(chain, start, tip) = In(chain', start, tip) /\ In(chain, start, tip) \in SUBSET All(chain)
    BY <1>1, <1>2, <1>3
  <2> QED BY <1>1, <2>1, <2>2, Carried
<1>5. Overlay(puts, deletes, db, chain', In(chain', start, done))
  <2>1. Overlay(puts, deletes, db, chain, In(chain, start, done))
    BY DEF StoreInv
  <2>2. In(chain, start, done) = In(chain', start, done) /\ In(chain, start, done) \in SUBSET All(chain)
    BY <1>1, <1>2, <1>3
  <2> QED BY <1>1, <2>1, <2>2, Carried
<1>6. AllRight(tweaks, start, chain', In(chain', 2, done))
  <2>1. AllRight(tweaks, start, chain, In(chain, 2, done))
    BY DEF StoreInv
  <2>2. In(chain, 2, done) = In(chain', 2, done) /\ In(chain, 2, done) \in SUBSET All(chain)
    BY <1>1, <1>2, <1>3
  <2> QED BY <1>1, <2>1, <2>2, Carried
<1>7. done <= Len(chain')
  BY <1>1
<1> QED BY <1>1, <1>4, <1>5, <1>6, <1>7, Zenon DEF StoreInv

LEMMA NextIdIs == NextId = Cardinality(All(chain)) + 1 \/ Cardinality(All(chain)) \notin Nat
BY SameOperators DEF NextId, All

\* A block with its coinbase.
LEMMA NewBlockKeeps ==
  ASSUME StoreInv, NewBlock
  PROVE  StoreInv'
<1> DEFINE t == [id |-> NextId, inputs |-> <<>>, outputs |-> <<[kind |-> "p2tr", key |-> 1]>>]
           B == Len(chain) + 1
<1>1. /\ ChainOk(chain) /\ chain \in Seq(Seq(Tx)) /\ Len(chain) \in Nat /\ done <= Len(chain)
      /\ done \in Nat /\ Len(chain) >= 1 /\ DOMAIN chain = 1..Len(chain)
  BY ChainTyped DEF StoreInv, ChainOk
<1>2. Cardinality(All(chain)) \in Nat
  BY <1>1, FS_CardinalityType DEF ChainOk, Numbered
<1>3. NextId = Cardinality(All(chain)) + 1 /\ NextId \in Nat
  BY <1>2, NextIdIs
<1>4. t \in Tx
  <2>1. [kind |-> "p2tr", key |-> 1] \in Script
    BY DEF Script
  <2>2. <<[kind |-> "p2tr", key |-> 1]>> \in Seq(Script)
    BY <2>1
  <2>3. <<>> \in Seq(Input)
    OBVIOUS
  <2> QED BY <1>3, <2>2, <2>3 DEF Tx
<1>5. t.id = Cardinality(All(chain)) + 1 /\ Spends(t) = {}
  BY <1>3 DEF Spends
<1>6. chain' = Append(chain, <<t>>) /\ UNCHANGED <<start, db, tip, puts, deletes, done, tweaks>>
  BY DEF NewBlock
<1> HIDE DEF t
<1>7. /\ chain' \in Seq(Seq(Tx)) /\ Len(chain') = B /\ DOMAIN chain' = 1..B
      /\ chain'[B] = <<t>> /\ \A b \in 1..Len(chain) : chain'[b] = chain[b]
  <2>1. <<t>> \in Seq(Tx)
    BY <1>4
  <2> QED BY <1>1, <1>6, <2>1
<1>8. Len(chain') >= 1 /\ Len(chain) <= Len(chain') /\ B \in DOMAIN chain' /\ B \notin DOMAIN chain
  BY <1>1, <1>7
<1>9. DOMAIN chain'[B] = {1} /\ chain'[B][1] = t
  BY <1>7
<1>10. \A b \in DOMAIN chain' : b = B \/ (b \in DOMAIN chain /\ chain'[b] = chain[b] /\ b < B)
  BY <1>1, <1>7
<1>11. \A b \in DOMAIN chain : b \in DOMAIN chain' /\ chain'[b] = chain[b]
  BY <1>1, <1>7
<1>12. \A b \in 1..done : chain'[b] = chain[b]
  BY <1>1, <1>7
<1> HIDE DEF B
<1>13. ChainOk(chain') /\ All(chain') = All(chain) \cup {t}
  <2> DEFINE e == chain'
  <2>1. e \in Seq(Seq(Tx)) /\ Len(e) >= 1 /\ B \in DOMAIN e /\ 1 \in DOMAIN e[B] /\ e[B][1] = t
    BY <1>7, <1>8, <1>9
  <2>2. \A b \in DOMAIN e : \A k \in DOMAIN e[b] :
            \/ b = B /\ k = 1
            \/ /\ b \in DOMAIN chain /\ k \in DOMAIN chain[b] /\ e[b][k] = chain[b][k]
               /\ b < B \/ (b = B /\ k < 1)
    BY <1>9, <1>10
  <2>3. \A b \in DOMAIN chain : b \in DOMAIN e /\ \A k \in DOMAIN chain[b] : k \in DOMAIN e[b] /\ e[b][k] = chain[b][k]
    BY <1>11
  <2> HIDE DEF e
  <2>4. Adds(chain, e, t, B, 1)
    BY <2>1, <2>2, <2>3, Zenon DEF Adds
  <2>5. \A op \in Spends(t) : MaySpend(chain, op)
    BY <1>5, Zenon
  <2>6. ChainOk(e) /\ All(e) = All(chain) \cup {t}
    BY <1>1, <1>5, <2>4, <2>5, Grown, Zenon
  <2> QED BY <2>6 DEF e
<1> QED BY <1>6, <1>8, <1>12, <1>13, GrowthKeeps

\* The inputs that spend an outpoint of the chain.
LEMMA InputsTyped ==
  ASSUME ChainOk(chain), NEW op \in Created(All(chain)), NEW input \in InputsFor(op)
  PROVE  input \in Input
<1>1. PICK tx \in All(chain) : op \in Creates(tx)
  BY CreatedAt
<1>2. PICK v \in DOMAIN tx.outputs : op = <<tx.id, v>>
  BY <1>1 DEF Creates
<1>3. tx.id \in Nat /\ tx.outputs \in Seq(Script)
  BY ChainTyped
<1>4. op \in Nat \X Nat
  BY <1>2, <1>3
<1>5. Source(chain, op) \in Script
  BY <1>2, <1>3, SourceOf
<1> DEFINE s == ScriptOf(op)
           Spending(redeem, shown, nums) ==
             [prev |-> op, redeem |-> redeem, shown |-> shown, nums |-> nums]
<1>6. s.key \in Int
  BY <1>5, SameOperators DEF Script
<1>7. input \in {Spending(Absent, Absent, FALSE), Spending(Absent, s.key, FALSE),
                 Spending(s.key, s.key, FALSE), Spending(Absent, Absent, TRUE)}
  BY Zenon DEF InputsFor
<1> HIDE DEF s
<1>8. \A r, k \in Int \cup {Absent}, n \in BOOLEAN : Spending(r, k, n) \in Input
  BY <1>4 DEF Input
<1> HIDE DEF Spending
<1> QED BY <1>6, <1>7, <1>8

\* One more transaction in the newest block, not yet enriched.
LEMMA NewTxKeeps ==
  ASSUME StoreInv, NewTx
  PROVE  StoreInv'
<1>1. /\ ChainOk(chain) /\ chain \in Seq(Seq(Tx)) /\ Len(chain) \in Nat /\ done < Len(chain)
      /\ done \in Nat /\ Len(chain) >= 1 /\ DOMAIN chain = 1..Len(chain)
  BY ChainTyped DEF StoreInv, ChainOk, NewTx
<1>2. Cardinality(All(chain)) \in Nat
  BY <1>1, FS_CardinalityType DEF ChainOk, Numbered
<1>3. NextId = Cardinality(All(chain)) + 1 /\ NextId \in Nat
  BY <1>2, NextIdIs
<1>4. \A op \in Spendable : MaySpend(chain, op)
  <2>1. Spendable = {op \in Created(All(chain)) \ Spent(All(chain)) : ~Burnt(Source(chain, op))}
    BY SameOperators, Zenon DEF Spendable, All
  <2> QED BY <2>1 DEF MaySpend
<1>5. PICK ops \in {<<o>> : o \in Spendable}
                   \cup {op \in Spendable \X Spendable : OutpointBefore(op[2], op[1])} :
        \E inputs \in [DOMAIN ops -> UNION {InputsFor(ops[i]) : i \in DOMAIN ops}],
           outputs \in Outputs :
          /\ \A i \in DOMAIN ops : inputs[i].prev = ops[i]
          /\ LET tx == [id |-> NextId, inputs |-> inputs, outputs |-> outputs]
             IN  chain' = [chain EXCEPT ![Len(chain)] = Append(@, tx)]
  BY Zenon DEF NewTx
<1>6. PICK inputs \in [DOMAIN ops -> UNION {InputsFor(ops[i]) : i \in DOMAIN ops}],
           outputs \in Outputs :
          /\ \A i \in DOMAIN ops : inputs[i].prev = ops[i]
          /\ LET tx == [id |-> NextId, inputs |-> inputs, outputs |-> outputs]
             IN  chain' = [chain EXCEPT ![Len(chain)] = Append(@, tx)]
  BY <1>5, Zenon
<1> DEFINE t == [id |-> NextId, inputs |-> inputs, outputs |-> outputs]
           B == Len(chain)
           K == Len(chain[B]) + 1
           block == Append(chain[B], t)
<1>7. chain' = [chain EXCEPT ![B] = block]
  BY <1>6, Zenon
<1>8. UNCHANGED <<start, db, tip, puts, deletes, done, tweaks>>
  BY DEF NewTx
<1>9. /\ DOMAIN ops = 1..1 \/ DOMAIN ops = 1..2
      /\ \A i \in DOMAIN ops : ops[i] \in Spendable
  <2>1. CASE \E o \in Spendable : ops = <<o>>
    <3>1. PICK o \in Spendable : ops = <<o>>
      BY <2>1
    <3> QED BY <3>1
  <2>2. CASE ops \in Spendable \X Spendable
    <3>1. PICK o1 \in Spendable, o2 \in Spendable : ops = <<o1, o2>>
      BY <2>2
    <3> QED BY <3>1
  <2> QED BY <1>5, <2>1, <2>2
<1>10. inputs \in Seq(Input)
  <2>1. ASSUME NEW i \in DOMAIN ops PROVE inputs[i] \in Input
    <3>1. inputs[i] \in UNION {InputsFor(ops[j]) : j \in DOMAIN ops}
      BY <1>6
    <3>2. PICK j \in DOMAIN ops : inputs[i] \in InputsFor(ops[j])
      BY <3>1
    <3>3. ops[j] \in Created(All(chain))
      BY <1>4, <1>9 DEF MaySpend
    <3> QED BY <1>1, <3>2, <3>3, InputsTyped
  <2>2. DOMAIN inputs = DOMAIN ops /\ inputs = [i \in DOMAIN inputs |-> inputs[i]]
    BY <1>6
  <2>3. CASE DOMAIN ops = 1..1
    <3>1. inputs \in [1..1 -> Input] /\ 1 \in Nat
      BY <2>1, <2>2, <2>3
    <3> QED BY <3>1, FunctionIsSeq
  <2>4. CASE DOMAIN ops = 1..2
    <3>1. inputs \in [1..2 -> Input] /\ 2 \in Nat
      BY <2>1, <2>2, <2>4
    <3> QED BY <3>1, FunctionIsSeq
  <2> QED BY <1>9, <2>3, <2>4
<1>11. t \in Tx
  <2>1. outputs \in Seq(Script)
    BY ScriptsAssumption
  <2> QED BY <1>3, <1>10, <2>1 DEF Tx
<1>12. t.id = Cardinality(All(chain)) + 1
  BY <1>3
<1>13. \A op \in Spends(t) : MaySpend(chain, op)
  <2> SUFFICES ASSUME NEW op \in Spends(t) PROVE MaySpend(chain, op)
    OBVIOUS
  <2>1. t.inputs = inputs /\ DOMAIN inputs = DOMAIN ops
    BY <1>6
  <2>2. PICK i \in DOMAIN inputs : op = inputs[i].prev
    <3> HIDE DEF t
    <3> QED BY <2>1 DEF Spends
  <2>3. op = ops[i] /\ i \in DOMAIN ops
    BY <1>6, <2>1, <2>2
  <2> QED BY <1>4, <1>9, <2>3
<1> HIDE DEF t
<1>14. B \in DOMAIN chain /\ chain[B] \in Seq(Tx)
  BY <1>1
<1>15. /\ block \in Seq(Tx) /\ K \in DOMAIN block /\ block[K] = t
       /\ \A k \in DOMAIN block : k = K \/ (k \in DOMAIN chain[B] /\ block[k] = chain[B][k] /\ k < K)
       /\ \A k \in DOMAIN chain[B] : k \in DOMAIN block /\ block[k] = chain[B][k]
  <2> DEFINE s == chain[B]
  <2>1. s \in Seq(Tx)
    BY <1>14
  <2> HIDE DEF s
  <2>2. /\ Append(s, t) \in Seq(Tx) /\ Len(Append(s, t)) = Len(s) + 1 /\ Append(s, t)[Len(s) + 1] = t
        /\ \A k \in 1..Len(s) : Append(s, t)[k] = s[k]
        /\ DOMAIN Append(s, t) = 1..(Len(s) + 1) /\ DOMAIN s = 1..Len(s) /\ Len(s) \in Nat
    BY <1>11, <2>1
  <2>3. /\ Len(s) + 1 \in DOMAIN Append(s, t)
        /\ \A k \in DOMAIN Append(s, t) : k = Len(s) + 1 \/ (k \in DOMAIN s /\ Append(s, t)[k] = s[k] /\ k < Len(s) + 1)
        /\ \A k \in DOMAIN s : k \in DOMAIN Append(s, t) /\ Append(s, t)[k] = s[k]
    BY <2>2
  <2> QED BY <2>2, <2>3 DEF s
<1> HIDE DEF block, K
<1>16. /\ chain' \in Seq(Seq(Tx)) /\ Len(chain') = Len(chain) /\ DOMAIN chain' = DOMAIN chain
       /\ chain'[B] = block /\ \A b \in DOMAIN chain : b # B => chain'[b] = chain[b]
  BY <1>1, <1>7, <1>14, <1>15
<1>17. \A b \in DOMAIN chain : b # B => b < B
  BY <1>1
<1>18. \A b \in 1..done : chain'[b] = chain[b]
  BY <1>1, <1>16
<1>19. Len(chain') >= 1 /\ Len(chain) <= Len(chain')
  BY <1>1, <1>16
<1> HIDE DEF B
<1>20. ChainOk(chain') /\ All(chain') = All(chain) \cup {t}
  <2> DEFINE e == chain'
  <2>1. e \in Seq(Seq(Tx)) /\ Len(e) >= 1 /\ B \in DOMAIN e /\ K \in DOMAIN e[B] /\ e[B][K] = t
    BY <1>14, <1>15, <1>16, <1>19
  <2>2. \A b \in DOMAIN e : \A k \in DOMAIN e[b] :
            \/ b = B /\ k = K
            \/ /\ b \in DOMAIN chain /\ k \in DOMAIN chain[b] /\ e[b][k] = chain[b][k]
               /\ b < B \/ (b = B /\ k < K)
    BY <1>15, <1>16, <1>17, Zenon
  <2>3. \A b \in DOMAIN chain : b \in DOMAIN e /\ \A k \in DOMAIN chain[b] : k \in DOMAIN e[b] /\ e[b][k] = chain[b][k]
    BY <1>15, <1>16, Zenon
  <2> HIDE DEF e
  <2>4. Adds(chain, e, t, B, K)
    BY <2>1, <2>2, <2>3, Zenon DEF Adds
  <2>5. ChainOk(e) /\ All(e) = All(chain) \cup {t}
    BY <1>1, <1>12, <1>13, <2>4, Grown, Zenon
  <2> QED BY <2>5 DEF e
<1> QED BY <1>8, <1>18, <1>19, <1>20, GrowthKeeps

-----------------------------------------------------------------------------
(* Committing and restarting.                                              *)

\* The batch makes the database exact for what was enriched.
LEMMA ApplyPendingKeeps ==
  ASSUME StoreInv, ApplyPending
  PROVE  StoreInv'
<1> DEFINE S == In(chain, start, done)
           new == [op \in DOMAIN puts |-> EncodeEntry(puts[op])]
           left == Restrict(db, DOMAIN db \ deletes)
<1>1. /\ ChainOk(chain) /\ start \in {1, 2} /\ tip \in Nat /\ done \in Nat
      /\ 1 <= tip /\ tip <= done /\ done <= Len(chain) /\ Len(chain) \in Nat
  BY ChainTyped DEF StoreInv
<1>2. /\ DOMAIN db = Live(chain, In(chain, start, tip))
      /\ \A op \in DOMAIN db : DecodeEntry(db[op]) = Compact(Source(chain, op))
  BY DEF StoreInv, Exact
<1>3. /\ DOMAIN puts \cup (DOMAIN db \ deletes) = Live(chain, S)
      /\ DOMAIN puts \cap DOMAIN db = {}
      /\ \A op \in DOMAIN puts : puts[op] = Compact(Source(chain, op))
  BY DEF StoreInv, Overlay
<1>4. AllRight(tweaks, start, chain, In(chain, 2, done))
  BY DEF StoreInv
<1>5. /\ DOMAIN left = DOMAIN db \ deletes /\ \A op \in DOMAIN left : left[op] = db[op]
      /\ DOMAIN new = DOMAIN puts /\ \A op \in DOMAIN puts : new[op] = EncodeEntry(puts[op])
  BY DEF Restrict
<1>6. db' = Written(new, left) /\ tip' = done /\ puts' = <<>> /\ deletes' = {} /\ UNCHANGED <<chain, start, done, tweaks>>
  BY Zenon DEF ApplyPending
<1> HIDE DEF new, left
<1>7. /\ DOMAIN db' = Live(chain, S)
      /\ \A op \in Live(chain, S) : db'[op] = IF op \in DOMAIN puts THEN EncodeEntry(puts[op]) ELSE db[op]
  <2>1. /\ DOMAIN Written(new, left) = DOMAIN new \cup DOMAIN left
        /\ \A x \in DOMAIN new \cup DOMAIN left :
             Written(new, left)[x] = IF x \in DOMAIN new THEN new[x] ELSE left[x]
    BY DEF Written
  <2> QED BY <1>3, <1>5, <1>6, <2>1
<1>8. S \in SUBSET All(chain)
  <2> SUFFICES ASSUME NEW t \in S PROVE t \in All(chain)
    OBVIOUS
  <2>1. PICK x \in start..done : \E k \in DOMAIN chain[x] : t = chain[x][k]
    BY InAt
  <2>2. x \in 1..Len(chain)
    BY <1>1, <2>1
  <2> QED BY <2>1, <2>2, InAt DEF All
<1> HIDE DEF S
<1>9. ASSUME NEW op \in Live(chain, S) PROVE DecodeEntry(db'[op]) = Compact(Source(chain, op))
  <2>1. op \in Created(S) /\ ~Burnt(Source(chain, op))
    BY DEF Live
  <2>2. Compact(Source(chain, op)) \in Context
    BY <1>1, <1>8, <2>1, LiveContext
  <2>3. CASE op \in DOMAIN puts
    <3>1. db'[op] = EncodeEntry(Compact(Source(chain, op)))
      BY <1>3, <1>7, <2>3
    <3> QED BY <2>2, <3>1, DecodeEncoded
  <2>4. CASE op \notin DOMAIN puts
    <3>1. op \in DOMAIN db
      BY <1>3, <2>4
    <3> QED BY <1>2, <1>7, <2>4, <3>1
  <2> QED BY <2>3, <2>4
<1>10. Exact(db', chain', In(chain', start', tip'))
  BY <1>6, <1>7, <1>9 DEF Exact, S
<1>11. Overlay(puts', deletes', db', chain', In(chain', start', done'))
  <2>1. DOMAIN puts' = {} /\ deletes' = {}
    BY <1>6
  <2>2. DOMAIN db' = Live(chain', In(chain', start', done'))
    BY <1>6, <1>7 DEF S
  <2> QED BY <2>1, <2>2 DEF Overlay
<1>12. /\ tip' \in Nat /\ 1 <= tip' /\ tip' <= done'
  BY <1>1, <1>6
<1> QED BY <1>1, <1>4, <1>6, <1>10, <1>11, <1>12, Zenon DEF StoreInv

\* Without the overlay the store is as exact as its database.
LEMMA ReopenKeeps ==
  ASSUME StoreInv, Reopen
  PROVE  StoreInv'
<1>1. /\ ChainOk(chain) /\ start \in {1, 2} /\ tip \in Nat /\ done \in Nat
      /\ 1 <= tip /\ tip <= done /\ done <= Len(chain) /\ Len(chain) \in Nat
  BY ChainTyped DEF StoreInv
<1>2. puts' = <<>> /\ deletes' = {} /\ done' = tip /\ UNCHANGED <<chain, start, db, tip, tweaks>>
  BY DEF Reopen
<1>3. Exact(db, chain, In(chain, start, tip))
  BY DEF StoreInv
<1>4. Overlay(puts', deletes', db', chain', In(chain', start', done'))
  <2>1. DOMAIN puts' = {} /\ deletes' = {}
    BY <1>2
  <2>2. DOMAIN db' = Live(chain', In(chain', start', done'))
    BY <1>2, <1>3 DEF Exact
  <2> QED BY <2>1, <2>2 DEF Overlay
<1>5. AllRight(tweaks, start, chain, In(chain, 2, tip))
  <2>1. AllRight(tweaks, start, chain, In(chain, 2, done))
    BY DEF StoreInv
  <2>2. In(chain, 2, tip) \subseteq In(chain, 2, done)
    <3> SUFFICES ASSUME NEW t \in In(chain, 2, tip) PROVE t \in In(chain, 2, done)
      OBVIOUS
    <3>1. PICK x \in 2..tip : \E k \in DOMAIN chain[x] : t = chain[x][k]
      BY InAt
    <3>2. x \in 2..done
      BY <1>1, <3>1
    <3> QED BY <3>1, <3>2, InAt
  <2> QED BY <2>1, <2>2 DEF AllRight
<1>6. tip <= Len(chain) /\ tip <= tip
  BY <1>1
<1> QED BY <1>1, <1>2, <1>3, <1>4, <1>5, <1>6, Zenon DEF StoreInv

\* The funding block, stored in either layout or not at all.
LEMMA InitHolds == StoreInit => StoreInv
<1> SUFFICES ASSUME StoreInit PROVE StoreInv
  OBVIOUS
<1>1. PICK funding \in Fundings : chain = <<<<[id |-> 1, inputs |-> <<>>, outputs |-> funding]>>>>
  BY DEF StoreInit
<1> DEFINE t == [id |-> 1, inputs |-> <<>>, outputs |-> funding]
<1>2. t.id = 1 /\ Spends(t) = {}
  BY DEF Spends
<1>3. t \in Tx
  <2>1. funding \in Seq(Script)
    BY ScriptsAssumption
  <2>2. <<>> \in Seq(Input)
    OBVIOUS
  <2> QED BY <2>1, <2>2 DEF Tx
<1>4. chain = <<<<t>>>>
  BY <1>1
<1> HIDE DEF t
<1>5. /\ chain \in Seq(Seq(Tx)) /\ Len(chain) = 1 /\ DOMAIN chain = {1}
      /\ DOMAIN chain[1] = {1} /\ chain[1][1] = t
  <2>1. <<t>> \in Seq(Tx)
    BY <1>3
  <2>2. chain \in Seq(Seq(Tx))
    BY <1>4, <2>1
  <2> QED BY <1>4, <2>2
<1>6. All(chain) = {t} /\ In(chain, 1, 1) = {t} /\ In(chain, 2, 1) = {}
  <2>1. 1..1 = {1} /\ 2..1 = {}
    OBVIOUS
  <2>2. In(chain, 1, 1) = {t}
    BY <1>5, <2>1 DEF In, ToSet
  <2>3. In(chain, 2, 1) = {}
    BY <2>1 DEF In
  <2> QED BY <1>5, <2>2, <2>3 DEF All
<1>7. ChainOk(chain)
  <2>1. Ordered(chain)
    BY <1>5 DEF Ordered
  <2>2. Numbered(chain)
    <3>1. IsFiniteSet({t}) /\ Cardinality({t}) = 1
      BY FS_Singleton
    <3> QED BY <1>2, <1>6, <3>1 DEF Numbered
  <2>3. Funded(chain) /\ NoDoubleSpend(chain)
    BY <1>2, <1>6, Zenon DEF Funded, NoDoubleSpend
  <2> QED BY <1>5, <2>1, <2>2, <2>3 DEF ChainOk
<1>8. start \in {1, 2} /\ tip = 1 /\ done = 1 /\ puts = <<>> /\ deletes = {} /\ tweaks = <<>>
  BY DEF StoreInit
<1> DEFINE S == In(chain, start, 1)
<1>9. S \in SUBSET All(chain) /\ Spent(S) = {}
  <2>1. S = {t} \/ S = {}
    BY <1>6, <1>8
  <2> HIDE DEF S
  <2> QED BY <1>2, <1>6, <2>1 DEF Spent
<1> DEFINE ops == {op \in Created(S) : Compact(Source(chain, op)) # Absent}
           keyed == {op \in ops : Source(chain, op).kind \in Keyed \cup {"p2tr"}}
<1>10. PICK legacy \in {{}, keyed} :
         db = [op \in ops |-> IF op \in legacy THEN EncodeLegacy(Compact(Source(chain, op)))
                                               ELSE EncodeEntry(Compact(Source(chain, op)))]
  <2>1. /\ ops = {op \in CreatedIn(start, 1) : Compact(ScriptOf(op)) # Absent}
        /\ keyed = {op \in ops : ScriptOf(op).kind \in Keyed \cup {"p2tr"}}
    BY SameOperators, Zenon
  <2> HIDE DEF ops, keyed
  <2>2. PICK legacy \in {{}, keyed} :
          db = [op \in ops |-> IF op \in legacy THEN EncodeLegacy(Compact(ScriptOf(op)))
                                                ELSE EncodeEntry(Compact(ScriptOf(op)))]
    BY <2>1, Zenon DEF StoreInit
  <2> QED BY <2>2, SameOperators, Zenon
<1> HIDE DEF S
<1>11. \A op \in Created(S) : /\ Source(chain, op) \in Script
                              /\ Compact(Source(chain, op)) # Absent <=> ~Burnt(Source(chain, op))
  BY <1>7, <1>9, LiveContext, CompactKeeps
<1>12. ops = Live(chain, S)
  BY <1>9, <1>11 DEF Live
<1>13. ASSUME NEW op \in ops PROVE DecodeEntry(db[op]) = Compact(Source(chain, op))
  <2> DEFINE s == Source(chain, op)
  <2>1. s \in Script /\ ~Burnt(s)
    BY <1>11
  <2>2. op \in legacy => s.kind \in Keyed \cup {"p2tr"}
    BY <1>10
  <2>3. db[op] = IF op \in legacy THEN EncodeLegacy(Compact(s)) ELSE EncodeEntry(Compact(s))
    BY <1>10, Zenon
  <2> HIDE DEF s
  <2> QED BY <2>1, <2>2, <2>3, CompactKeeps, DecodeEncoded DEF s
<1>14. DOMAIN db = ops
  BY <1>10
<1> HIDE DEF ops
<1>15. Exact(db, chain, S)
  BY <1>12, <1>13, <1>14 DEF Exact
<1>16. Overlay(puts, deletes, db, chain, S)
  <2>1. DOMAIN puts = {} /\ deletes = {}
    BY <1>8
  <2> QED BY <1>12, <1>14, <2>1 DEF Overlay
<1>17. AllRight(tweaks, start, chain, In(chain, 2, 1))
  BY <1>6 DEF AllRight
<1> QED BY <1>5, <1>7, <1>8, <1>15, <1>16, <1>17 DEF StoreInv, S

\* The invariant of the store: the chain is one consensus allows, and the
\* database, the overlay and the scan points are exact for it.
THEOREM StoreInvariant == StoreSpec => []StoreInv
<1>1. StoreInv /\ UNCHANGED storeVars => StoreInv'
  BY Zenon DEF StoreInv, storeVars
<1>2. StoreInv /\ [StoreNext]_storeVars => StoreInv'
  BY <1>1, EnrichKeeps, NewBlockKeeps, NewTxKeeps, ApplyPendingKeeps, ReopenKeeps DEF StoreNext
<1> QED BY <1>2, InitHolds, PTL DEF StoreSpec

(* For every chain and every set of output lists: after every commit the   *)
(* database holds exactly the unspent spendable outputs up to its tip,     *)
(* under their compact contexts (PendingPrevoutWrites, apply_pending).     *)
THEOREM StoreStaysExact == StoreSpec => []StoreExact
<1>1. StoreInv => StoreExact
  BY InvImplies
<1> QED BY <1>1, StoreInvariant, PTL

(* For every chain: enrich_tx_scan_point computes the scan point that      *)
(* compute_sp_tweak_from_undo does, or none where the store was opened     *)
(* after the output was created.                                           *)
THEOREM PathsAlwaysAgree == StoreSpec => []PathsAgree
<1>1. StoreInv => PathsAgree
  BY InvImplies
<1> QED BY <1>1, StoreInvariant, PTL

\* Damaged undo data holds the entry of a transaction, or none, or one with
\* fewer prevouts than the transaction has inputs.
LEMMA DamagedEntry ==
  ASSUME NEW data \in Seq(Seq(Script)), NEW n \in DOMAIN data, NEW d \in Damaged(data)
  PROVE  \/ UndoEntry(d, n) = data[n]
         \/ UndoEntry(d, n) = Absent
         \/ DOMAIN UndoEntry(d, n) # DOMAIN data[n]
<1>1. CASE d = Absent
  BY <1>1 DEF UndoEntry
<1>2. ASSUME NEW k \in 0..(Len(data) - 1), d = SubSeq(data, 1, k)
      PROVE  UndoEntry(d, n) = data[n] \/ UndoEntry(d, n) = Absent
  <2>1. n \in DOMAIN d => d[n] = data[n]
    BY <1>2
  <2> QED BY <2>1 DEF UndoEntry
<1>3. ASSUME NEW k \in DOMAIN data, data[k] # <<>>,
             d = [data EXCEPT ![k] = SubSeq(@, 1, Len(@) - 1)]
      PROVE  UndoEntry(d, n) = data[n] \/ DOMAIN UndoEntry(d, n) # DOMAIN data[n]
  <2>1. d \in Seq(Seq(Script)) /\ DOMAIN d = DOMAIN data
    <3>1. data[k] \in Seq(Script)
      OBVIOUS
    <3>2. Len(data[k]) - 1 \in Nat
      BY <1>3, <3>1, EmptySeq
    <3>3. SubSeq(data[k], 1, Len(data[k]) - 1) \in Seq(Script)
      BY <3>1, <3>2
    <3> QED BY <1>3, <3>3
  <2>2. d # Absent
    BY <2>1, ScriptsAssumption
  <2>3. UndoEntry(d, n) = d[n]
    BY <2>1, <2>2 DEF UndoEntry
  <2>4. n # k => d[n] = data[n]
    BY <1>3
  <2>5. n = k => DOMAIN d[n] # DOMAIN data[n]
    <3> SUFFICES ASSUME n = k PROVE DOMAIN d[k] # DOMAIN data[k]
      OBVIOUS
    <3> DEFINE e == data[k]
    <3>1. e \in Seq(Script) /\ Len(e) \in Nat \ {0} /\ DOMAIN e = 1..Len(e)
      BY <1>3, EmptySeq
    <3>2. d[k] = SubSeq(e, 1, Len(e) - 1)
      BY <1>3
    <3> HIDE DEF e
    <3>3. DOMAIN d[k] = 1..(Len(e) - 1)
      BY <3>1, <3>2
    <3>4. Len(e) \in DOMAIN e /\ Len(e) \notin DOMAIN d[k]
      BY <3>1, <3>3
    <3> QED BY <3>4 DEF e
  <2> QED BY <2>3, <2>4, <2>5
<1> QED BY <1>1, <1>2, <1>3 DEF Damaged

(* For every chain: undo data gives each transaction the scan point of all *)
(* its inputs, and undo data that is missing, cut short or lacks a prevout *)
(* gives that point or an error (compute_sp_tweak_from_undo).              *)
THEOREM UndoAlwaysAligned == StoreSpec => []UndoAligned
<1>1. StoreInv => UndoAligned
  <2> SUFFICES ASSUME ChainOk(chain), NEW b \in 2..Len(chain), NEW n \in DOMAIN chain[b]
               PROVE  LET tx == chain[b][n]
                          prevouts == [i \in DOMAIN tx.inputs |->
                                         PrevoutOfScript(ScriptOf(tx.inputs[i].prev))]
                          right == IF CreatesP2tr(tx) THEN ScanPoint(tx.inputs, prevouts) ELSE Absent
                      IN  /\ UndoTweak(tx, UndoEntry(BlockUndo(b), n)) = right
                          /\ \A data \in Damaged(BlockUndo(b)) :
                                UndoTweak(tx, UndoEntry(data, n)) \in {right, UndoError}
    BY Zenon DEF StoreInv, UndoAligned
  <2> DEFINE tx == chain[b][n]
             prevouts == [i \in DOMAIN tx.inputs |-> PrevoutOfScript(ScriptOf(tx.inputs[i].prev))]
             right == IF CreatesP2tr(tx) THEN ScanPoint(tx.inputs, prevouts) ELSE Absent
             Full(k) == [i \in DOMAIN chain[b][k].inputs |-> ScriptOf(chain[b][k].inputs[i].prev)]
             undo == BlockUndo(b)
  <2>1. b \in DOMAIN chain /\ Len(chain[b]) \in Nat /\ DOMAIN chain[b] = 1..Len(chain[b])
    BY ChainTyped
  <2>2. \A k \in DOMAIN chain[b] :
          /\ chain[b][k].inputs \in Seq(Input) /\ Full(k) \in Seq(Script)
          /\ ~UndoRefused(chain[b][k].inputs, Full(k))
    <3> TAKE k \in DOMAIN chain[b]
    <3>1. chain[b][k] \in All(chain)
      BY <2>1, InAt DEF All
    <3>2. Full(k) = [i \in DOMAIN chain[b][k].inputs |-> Source(chain, chain[b][k].inputs[i].prev)]
      BY SameOperators, Zenon
    <3> HIDE DEF Full
    <3> QED BY <3>1, <3>2, UndoWhole
  <2>3. undo = [k \in DOMAIN chain[b] |-> Full(k)]
    BY Zenon DEF BlockUndo
  <2>4. prevouts = [i \in DOMAIN tx.inputs |-> PrevoutOfScript(Full(n)[i])]
    BY Zenon
  <2>5. DOMAIN Full(n) = DOMAIN tx.inputs
    OBVIOUS
  <2> HIDE DEF Full, undo, prevouts
  <2>6. undo \in Seq(Seq(Script)) /\ DOMAIN undo = DOMAIN chain[b] /\ undo[n] = Full(n)
    <3>1. undo \in [1..Len(chain[b]) -> Seq(Script)]
      BY <2>1, <2>2, <2>3
    <3>2. undo \in Seq(Seq(Script))
      BY <2>1, <3>1, FunctionIsSeq
    <3> QED BY <2>3, <3>2
  <2>7. tx.inputs = <<>> => ScanPoint(tx.inputs, prevouts) = Absent
    BY MissingPrevout
  <2>8. UndoTweak(tx, Full(n)) = right
    <3>1. ~UndoRefused(tx.inputs, Full(n))
      BY <2>2
    <3> QED BY <2>4, <2>7, <3>1, Zenon DEF UndoTweak
  <2>9. UndoEntry(undo, n) = Full(n)
    <3>1. undo # Absent
      BY <2>6, ScriptsAssumption
    <3> QED BY <2>6, <3>1 DEF UndoEntry
  <2>10. ASSUME NEW data \in Damaged(undo) PROVE UndoTweak(tx, UndoEntry(data, n)) \in {right, UndoError}
    <3> DEFINE entry == UndoEntry(data, n)
    <3>1. entry = Full(n) \/ entry = Absent \/ DOMAIN entry # DOMAIN tx.inputs
      <4>1. entry = undo[n] \/ entry = Absent \/ DOMAIN entry # DOMAIN undo[n]
        BY <2>6, DamagedEntry, Zenon
      <4> QED BY <2>5, <2>6, <4>1, Zenon
    <3> HIDE DEF entry
    <3>2. CASE entry = Full(n)
      BY <2>8, <3>2, Zenon DEF entry
    <3>3. CASE entry = Absent \/ DOMAIN entry # DOMAIN tx.inputs
      <4>1. UndoRefused(tx.inputs, entry)
        BY <3>3, Zenon DEF UndoRefused
      <4>2. UndoTweak(tx, entry) = IF ~CreatesP2tr(tx) \/ tx.inputs = <<>> THEN Absent ELSE UndoError
        BY <4>1, Zenon DEF UndoTweak
      <4> HIDE DEF tx
      <4> QED BY <2>7, <4>2, Zenon DEF entry
    <3> QED BY <3>1, <3>2, <3>3
  <2>11. UndoTweak(tx, UndoEntry(undo, n)) = right
    BY <2>8, <2>9, Zenon
  <2> QED BY <2>10, <2>11, Zenon DEF undo, prevouts
<1> QED BY <1>1, StoreInvariant, PTL

-----------------------------------------------------------------------------
(* TaprootPath.  A stack has at most one annex, its last item; everything  *)
(* is decided by the last item of what is left, which OfAnnexed and        *)
(* OfPlain name.                                                           *)

\* The stack holds witness items.
WitnessTyped == witness \in Seq(Item)

\* A stack grows item by item, so it is always a sequence of items (Push).
LEMMA StackTyped == WitnessSpec => []WitnessTyped
<1>1. WitnessInit => WitnessTyped
  BY DEF WitnessInit, WitnessTyped
<1>2. WitnessTyped /\ [Push]_witness => WitnessTyped'
  BY DEF WitnessTyped, Push
<1> QED BY <1>1, <1>2, PTL DEF WitnessSpec

\* Without its annex a stack is one item shorter and otherwise the same
\* (classify_p2tr_spend).
LEMMA OfAnnexed ==
  ASSUME NEW w \in Seq(Item), Annexed(w)
  PROVE  /\ Stripped(w) \in Seq(Item)
         /\ Len(Stripped(w)) = Len(w) - 1
         /\ Stripped(w)[Len(w) - 1] = w[Len(w) - 1]
<1>1. Len(w) \in Nat /\ Len(w) >= 2 /\ w # <<>>
  BY DEF Annexed
<1>2. Stripped(w) = SubSeq(w, 1, Len(w) - 1)
  BY <1>1 DEF Stripped, Annexed
<1> QED BY <1>1, <1>2

\* A stack without an annex is stripped of nothing, except that a lone item
\* that starts with 0x50 is taken for one (classify_p2tr_spend).
LEMMA OfPlain ==
  ASSUME NEW w \in Seq(Item), ~Annexed(w)
  PROVE  IF Len(w) >= 2 THEN Stripped(w) = w ELSE Len(Stripped(w)) < 2
<1>1. Len(w) \in Nat
  OBVIOUS
<1>2. CASE Len(w) >= 2
  BY <1>2 DEF Stripped, Annexed
<1>3. CASE Len(w) < 2 /\ w # <<>> /\ w[Len(w)].annex
  <2>1. Len(w) = 1
    <3>1. Len(w) \in Nat \ {0}
      BY <1>3, EmptySeq, Zenon
    <3>2. Len(w) < 2
      BY <1>3, Zenon
    <3>3. \A n \in Nat \ {0} : n < 2 => n = 1
      OBVIOUS
    <3> QED BY <3>1, <3>2, <3>3, Zenon
  <2>2. Stripped(w) = SubSeq(w, 1, 0)
    BY <1>3, <2>1 DEF Stripped
  <2> QED BY <2>1, <2>2
<1>4. CASE Len(w) < 2 /\ ~(w # <<>> /\ w[Len(w)].annex)
  BY <1>1, <1>4 DEF Stripped
<1> QED BY <1>1, <1>2, <1>3, <1>4

(* For stacks of every length: classify_p2tr_spend reads every valid       *)
(* taproot spend as BIP341 does, and taproot_script_path_internal_key      *)
(* leaves the key out for the same spends when there is no annex.          *)
THEOREM PathAlwaysAsConsensus == WitnessSpec => []PathAsConsensus
<1>1. WitnessTyped => PathAsConsensus
  <2> SUFFICES ASSUME WitnessTyped PROVE PathAsConsensus
    OBVIOUS
  <2> DEFINE w == witness
             s == Stripped(w)
  <2>1. w \in Seq(Item) /\ Len(w) \in Nat
    BY DEF WitnessTyped
  <2>2. CASE Annexed(w)
    <3>1. Len(w) >= 2 /\ Len(s) = Len(w) - 1 /\ s[Len(w) - 1] = w[Len(w) - 1]
      BY <2>1, <2>2, OfAnnexed DEF Annexed
    <3>2. KeySpend(w) => SpendPath(w) = "Key"
      BY <2>1, <2>2, <3>1 DEF KeySpend, SpendPath
    <3>3. ScriptSpend(w) =>
             SpendPath(w) = IF w[Len(w) - 1].nums THEN "ScriptNums" ELSE "ScriptNonNums"
      BY <2>1, <2>2, <3>1 DEF ScriptSpend, SpendPath
    <3> QED BY <2>2, <3>2, <3>3 DEF PathAsConsensus
  <2>3. CASE ~Annexed(w)
    <3>1. Len(w) >= 2 => s = w
      BY <2>1, <2>3, OfPlain
    <3>2. Len(w) < 2 => Len(s) < 2
      BY <2>1, <2>3, OfPlain
    <3>3. KeySpend(w) => SpendPath(w) = "Key" /\ ~LeavesKeyOut(w)
      BY <2>1, <2>3, <3>2 DEF KeySpend, SpendPath, LeavesKeyOut
    <3>4. ScriptSpend(w) =>
            /\ SpendPath(w) = IF w[Len(w)].nums THEN "ScriptNums" ELSE "ScriptNonNums"
            /\ LeavesKeyOut(w) <=> w[Len(w)].nums
      BY <2>1, <2>3, <3>1 DEF ScriptSpend, SpendPath, LeavesKeyOut
    <3> QED BY <2>3, <3>3, <3>4 DEF PathAsConsensus
  <2> QED BY <2>2, <2>3
<1> QED BY <1>1, StackTyped, PTL
=============================================================================
