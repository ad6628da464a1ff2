--------------------------- MODULE ClientSyncProofs ---------------------------
(***************************************************************************)
(* A wallet that pins its cut-through tip and continues where its range    *)
(* ended never keeps a spent coin and never misses an unspent one, for     *)
(* every birthday, page size, byte cap, tip movement and restart.          *)
(***************************************************************************)
EXTENDS ClientSync, TLAPS

\* A page is either cut at the pinned tip, and then lies below it, or not
\* cut, and then lies above it.
PageFits ==
    \/ page = NoPage
    \/ /\ page.filter = [cutthrough_start |-> Birthday, cutthrough_tip |-> pinned,
                         filter_reuse |-> FALSE]
       /\ \A h \in page.heights : h <= pinned
    \/ /\ page.filter = [cutthrough_start |-> None, cutthrough_tip |-> None,
                         filter_reuse |-> FALSE]
       /\ \A h \in page.heights : h > pinned

\* The wallet's coins, exactly: created below next, spent neither below next
\* nor by the pinned tip.
CoinsExact ==
    coins = {c \in Coins : c.born < next /\ c.spent >= next /\ c.spent > pinned}

\* The inductive invariant.
IInv ==
    /\ TypeOK
    /\ next <= served + 1 /\ pinned <= served
    /\ phase = "start" => next = Birthday /\ page = NoPage
    /\ phase \in {"start", "catchup"}
    /\ PageFits
    /\ CoinsExact

\* Coins have integer heights.
LEMMA CoinHeights ==
    \A c \in Coins : c.born \in Nat /\ c.spent \in Nat /\ c.born >= Birthday
                     /\ c.born <= c.spent /\ c.born <= MaxTip /\ c.spent <= MaxTip + 1
BY SyncAssumption DEF Coins, SyncHeights

\* A wallet that has processed nothing satisfies the invariant.
LEMMA InitInvariant == SyncInit => IInv
<1> SUFFICES ASSUME SyncInit PROVE IInv
  OBVIOUS
<1>1. TypeOK
  BY SyncAssumption DEF SyncInit, TypeOK, SyncHeights, NoPage
<1>2. CoinsExact
  BY CoinHeights, SyncAssumption DEF SyncInit, CoinsExact
<1> QED
  BY <1>1, <1>2, SyncAssumption DEF SyncInit, IInv, PageFits, SyncHeights

\* A fetched page fits: the request is cut exactly below the pinned tip.
LEMMA FetchFits ==
    ASSUME PinTip, IInv, NEW end \in SyncHeights, Fetch(end)
    PROVE  IInv'
<1>0. /\ served' = served /\ phase' = phase /\ next' = next /\ coins' = coins
      /\ pinned' = pinned /\ restarts' = restarts /\ phase = "catchup"
  BY DEF Fetch, wallet, IInv
<1>1. /\ page'.heights = next..end
      /\ page'.complete = Q!Complete(NextRequest, served, end)
      /\ page'.filter = [cutthrough_start |-> NextRequest.cutthrough_start,
                         cutthrough_tip |-> Q!ResolvedTip(NextRequest, served), filter_reuse |-> FALSE]
      /\ end \in next..Q!RequestedEnd(NextRequest, served)
  BY DEF Fetch
<1>2. served \in Nat /\ next \in Nat /\ pinned \in Nat /\ next >= Birthday /\ Birthday \in Nat
  BY SyncAssumption DEF IInv, TypeOK, SyncHeights
<1>3. NextRequest.start = next /\ NextRequest.count \in Int
  BY <1>2, SyncAssumption, <1>0 DEF NextRequest, Cutting, Q!Least
<1>4. end <= served /\ end \in Nat
  BY <1>1, <1>2, <1>3, SyncAssumption DEF Q!RequestedEnd, Q!Least, SyncHeights
<1>5. TypeOK'
  <2>1. page'.complete \in BOOLEAN
    BY <1>1 DEF Q!Complete
  <2> QED
    BY <1>0, <1>1, <1>2, <1>4, <2>1 DEF IInv, TypeOK
<1>6. PageFits'
  <2>1. CASE Cutting
    <3>1. next <= pinned
      BY <2>1 DEF Cutting
    <3>2. /\ NextRequest.cutthrough_start = Birthday /\ NextRequest.cutthrough_tip = pinned
          /\ NextRequest.count = Q!Least(MaxCount, pinned - next + 1)
      BY <2>1 DEF NextRequest
    <3>3. end <= pinned
      BY <3>1, <3>2, <1>1, <1>2, <1>3, <1>4, SyncAssumption DEF Q!RequestedEnd, Q!Least
    <3>4. Q!ResolvedTip(NextRequest, served) = pinned
      BY <3>2, <1>2, SyncAssumption DEF Q!ResolvedTip
    <3>5. \A h \in page'.heights : h <= pinned'
      BY <3>3, <1>0, <1>1, <1>2, <1>4
    <3> QED
      BY <3>2, <3>4, <3>5, <1>0, <1>1 DEF PageFits
  <2>2. CASE ~Cutting
    <3>1. next > pinned
      BY <2>2, <1>0, <1>2 DEF Cutting
    <3>2. NextRequest.cutthrough_start = None /\ Q!ResolvedTip(NextRequest, served) = None
      BY <2>2 DEF NextRequest, Q!ResolvedTip
    <3>3. \A h \in page'.heights : h > pinned'
      BY <3>1, <1>0, <1>1, <1>2, <1>4
    <3> QED
      BY <3>2, <3>3, <1>0, <1>1 DEF PageFits
  <2> QED
    BY <2>1, <2>2
<1> QED
  BY <1>0, <1>5, <1>6 DEF IInv, CoinsExact

\* Processing a block keeps the coins exact: a cut block drops coins and
\* spends in pairs, an uncut block shows both.
LEMMA ProcessExact ==
    ASSUME PinTip, IInv, Process
    PROVE  IInv'
<1>0. /\ served' = served /\ phase' = phase /\ pinned' = pinned /\ page' = page
      /\ restarts' = restarts /\ next' = next + 1 /\ next \in page.heights
      /\ coins' = (coins \cup Shown(next)) \ Gone(next)
  BY DEF Process
<1>1. /\ served \in Nat /\ next \in Nat /\ pinned \in Nat /\ Birthday \in Nat /\ MaxTip \in Nat
      /\ next <= served /\ next >= Birthday /\ served <= MaxTip
  BY <1>0, SyncAssumption DEF IInv, TypeOK, SyncHeights
<1>2. page # NoPage
  BY <1>0 DEF NoPage
<1>3. TypeOK'
  <2>1. Shown(next) \subseteq Coins
    BY DEF Shown
  <2> QED
    BY <1>0, <1>1, <2>1 DEF IInv, TypeOK, SyncHeights
<1>4. CoinsExact'
  <2>1. ASSUME NEW c \in Coins
        PROVE  c \in coins' <=> c.born < next + 1 /\ c.spent >= next + 1 /\ c.spent > pinned
    <3>0. /\ c.born \in Nat /\ c.spent \in Nat /\ c.born >= Birthday
          /\ c.born <= c.spent /\ c.spent <= MaxTip + 1
      BY CoinHeights
    <3>1. c \in coins <=> c.born < next /\ c.spent >= next /\ c.spent > pinned
      BY DEF IInv, CoinsExact
    <3>2. CASE /\ page.filter = [cutthrough_start |-> Birthday, cutthrough_tip |-> pinned,
                                 filter_reuse |-> FALSE]
               /\ \A h \in page.heights : h <= pinned
      <4>1. next <= pinned
        BY <3>2, <1>0
      <4>2. c \in Shown(next) <=> c.born = next /\ c.spent > pinned
        BY <3>2, <3>0, <1>1, SyncAssumption DEF Shown, R!OmitOutput, IInv
      <4>3. c \notin Gone(next)
        BY <3>2, <4>1, <3>0, <1>1, SyncAssumption DEF Gone, R!OmitSpend
      <4> QED
        BY <4>1, <4>2, <4>3, <3>0, <3>1, <1>0, <1>1
    <3>3. CASE /\ page.filter = [cutthrough_start |-> None, cutthrough_tip |-> None,
                                 filter_reuse |-> FALSE]
               /\ \A h \in page.heights : h > pinned
      <4>1. next > pinned
        BY <3>3, <1>0
      <4>2. c \in Shown(next) <=> c.born = next
        BY <3>3 DEF Shown, R!OmitOutput
      <4>3. c \in Gone(next) <=> c.spent = next
        BY <3>3 DEF Gone, R!OmitSpend
      <4> QED
        BY <4>1, <4>2, <4>3, <3>0, <3>1, <1>0, <1>1
    <3> QED
      BY <1>2, <3>2, <3>3 DEF IInv, PageFits
  <2>2. coins' \subseteq Coins
    BY <1>3 DEF TypeOK
  <2> QED
    BY <2>1, <2>2, <1>0 DEF CoinsExact
<1>5. phase # "start"
  BY <1>2 DEF IInv
<1> QED
  BY <1>0, <1>1, <1>3, <1>4, <1>5 DEF IInv, PageFits

\* Every step of the archive, the wallet and its restarts keeps the
\* invariant.
LEMMA StepInvariant == PinTip /\ IInv /\ [SyncNext]_syncVars => IInv'
<1> SUFFICES ASSUME PinTip, IInv, [SyncNext]_syncVars PROVE IInv'
  OBVIOUS
<1>0. /\ served \in Nat /\ next \in Nat /\ pinned \in Nat /\ Birthday \in Nat /\ MaxTip \in Nat
      /\ restarts \in Nat /\ MaxRestarts \in Nat
  BY SyncAssumption DEF IInv, TypeOK, SyncHeights
<1>1. CASE Advance
  <2>1. served' \in Nat /\ served' > served /\ served' <= MaxTip
    BY <1>1, <1>0 DEF Advance
  <2>2. /\ phase' = phase /\ next' = next /\ coins' = coins /\ pinned' = pinned
        /\ page' = page /\ restarts' = restarts
    BY <1>1 DEF Advance, wallet
  <2>3. TypeOK'
    <3>1. served' \in SyncHeights /\ page'.heights \subseteq Birthday..served'
      BY <2>1, <2>2, <1>0 DEF IInv, TypeOK, SyncHeights
    <3>2. page'.complete \in BOOLEAN
      BY <2>2, Zenon DEF IInv, TypeOK
    <3> QED
      BY <2>2, <3>1, <3>2 DEF IInv, TypeOK
  <2> QED
    <3>1. \A n, p, s, t \in Nat : n <= s + 1 /\ p <= s /\ t > s => n <= t + 1 /\ p <= t
      OBVIOUS
    <3>2. next <= served + 1 /\ pinned <= served
      BY DEF IInv
    <3>3. next <= served' + 1 /\ pinned <= served'
      BY <2>1, <3>1, <3>2, <1>0, Zenon
    <3>4. next' <= served' + 1 /\ pinned' <= served'
      BY <2>2, <3>3, Zenon
    <3>5. PageFits' /\ CoinsExact'
      BY <2>2 DEF IInv, PageFits, CoinsExact
    <3> QED
      BY <2>2, <2>3, <3>4, <3>5 DEF IInv
<1>2. CASE ReadTip
  <2>1. coins = {} /\ next = Birthday /\ page = NoPage
    BY <1>2, CoinHeights, <1>0 DEF ReadTip, IInv, CoinsExact
  <2>2. CoinsExact'
    BY <2>1, <1>2, CoinHeights, <1>0 DEF ReadTip, CoinsExact
  <2> QED
    BY <1>2, <2>1, <2>2, <1>0 DEF ReadTip, IInv, TypeOK, PageFits, SyncHeights
<1>3. CASE \E end \in SyncHeights : Fetch(end)
  BY <1>3, FetchFits
<1>4. CASE Process
  BY <1>4, ProcessExact
<1>5. CASE Continue
  <2>1. next' = next
    BY <1>5, <1>0 DEF Continue, Q!NextStart
  <2>2. /\ served' = served /\ pinned' = pinned /\ coins' = coins /\ restarts' = restarts
        /\ page' = NoPage /\ phase' = phase
    BY <1>5 DEF Continue
  <2> QED
    BY <2>1, <2>2, <1>0 DEF IInv, TypeOK, PageFits, CoinsExact, NoPage
<1>6. CASE Restart
  BY <1>6, <1>0 DEF Restart, wallet, IInv, TypeOK, PageFits, CoinsExact, NoPage
<1>7. CASE UNCHANGED syncVars
  BY <1>7 DEF syncVars, IInv, TypeOK, PageFits, CoinsExact
<1> QED
  BY <1>1, <1>2, <1>3, <1>4, <1>5, <1>6, <1>7 DEF SyncNext, Client

\* With a pinned tip, cut-through never drops a spend whose output the
\* wallet was shown (should_omit_stored_spend, should_omit_stored_output).
THEOREM NoGhosts ==
    ASSUME PinTip
    PROVE  SyncSpec => []NoGhostCoins
<1>1. IInv => NoGhostCoins
  BY DEF IInv, CoinsExact, NoGhostCoins
<1>2. IInv /\ [SyncNext]_syncVars => IInv'
  BY StepInvariant
<1> QED
  BY <1>1, <1>2, InitInvariant, PTL DEF SyncSpec

\* With a pinned tip and continuation at next-start, no unspent coin is ever
\* passed over (block_range).
THEOREM NothingMissed ==
    ASSUME PinTip
    PROVE  SyncSpec => []NoMissedCoins
<1>1. IInv => NoMissedCoins
  BY SyncAssumption, CoinHeights DEF IInv, TypeOK, SyncHeights, CoinsExact, NoMissedCoins
<1>2. IInv /\ [SyncNext]_syncVars => IInv'
  BY StepInvariant
<1> QED
  BY <1>1, <1>2, InitInvariant, PTL DEF SyncSpec
=============================================================================
