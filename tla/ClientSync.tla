------------------------------ MODULE ClientSync ------------------------------
(***************************************************************************)
(* A wallet that pages through /blocks/light with birthday cut-through     *)
(* (README, "Client sync model") while the archive tip advances and the    *)
(* wallet restarts.  The server side is the code's: LightRequest resolves  *)
(* the request and CutThrough decides which outputs and spends a block     *)
(* shows.  That a response is exact for its tip is ResponsesExact of       *)
(* LightServer.  The wallet is external: its policy is a constant.         *)
(*                                                                         *)
(* A coin is its (born, spent) heights, and there is one coin for every    *)
(* pair: coins do not influence each other.                                *)
(***************************************************************************)
EXTENDS Integers

CONSTANTS
    None,       \* Option::None
    Birthday,   \* the wallet's first height and cut-through boundary
    MaxTip,     \* bound on the archive tip
    MaxCount,   \* count of a page, at most the server's max_range_count
    MaxRestarts,\* bound on wallet restarts
    PinTip      \* the wallet sends the cutthrough_tip it started with

ASSUME SyncAssumption ==
    /\ None \notin Nat
    /\ Birthday \in Nat /\ MaxTip \in Nat /\ Birthday < MaxTip
    /\ MaxCount \in Nat \ {0} /\ MaxRestarts \in Nat
    /\ PinTip \in BOOLEAN

SyncHeights == Birthday..MaxTip

R == INSTANCE CutThrough WITH NeverSpent <- MaxTip + 1
Q == INSTANCE LightRequest

\* MaxTip + 1 is the spent height of a coin that stays unspent.
Coins == {c \in [born : SyncHeights, spent : SyncHeights \cup {MaxTip + 1}] : c.born <= c.spent}

NoPage == [heights |-> 1..0, tip |-> 0, complete |-> FALSE, filter |-> None]

VARIABLES
    served,    \* tip of the archive, as the manifest names it
    phase,     \* "start", "catchup" with cut-through, or "follow" without
    pinned,    \* the tip read at the start, sent when PinTip
    next,      \* last fully processed height plus one
    coins,     \* coins the wallet believes it can spend
    page,      \* the response being processed
    restarts

wallet == <<phase, next, coins>>
syncVars == <<served, phase, pinned, next, coins, page, restarts>>

SyncInit ==
    /\ served \in SyncHeights
    /\ phase = "start" /\ pinned = 0 /\ next = Birthday
    /\ coins = {} /\ page = NoPage /\ restarts = 0

\* The indexer publishes blocks.
Advance ==
    /\ served < MaxTip
    /\ served' \in (served + 1)..MaxTip
    /\ UNCHANGED <<wallet, pinned, page, restarts>>

\* GET /tip before the catch-up.
ReadTip ==
    /\ phase = "start"
    /\ phase' = "catchup"
    /\ pinned' = served
    /\ UNCHANGED <<served, next, coins, page, restarts>>

\* The wallet still asks for cut-through: until a range is complete or, with
\* a pinned tip, up to that tip.
Cutting == phase = "catchup" /\ (PinTip => next <= pinned)

\* The next request.
NextRequest ==
    [start |-> next,
     count |-> IF PinTip /\ Cutting THEN Q!Least(MaxCount, pinned - next + 1) ELSE MaxCount,
     cutthrough_start |-> IF Cutting THEN Birthday ELSE None,
     cutthrough_tip |-> IF PinTip /\ Cutting THEN pinned ELSE None]

\* block_range: from one block (byte cap) up to the requested end.
Fetch(end) ==
    /\ phase \in {"catchup", "follow"}
    /\ page = NoPage
    /\ Q!Acceptable(NextRequest, served)
    /\ end \in next..Q!RequestedEnd(NextRequest, served)
    /\ page' = [heights |-> next..end, tip |-> served, complete |-> Q!Complete(NextRequest, served, end),
                filter |-> [cutthrough_start |-> NextRequest.cutthrough_start,
                            cutthrough_tip |-> Q!ResolvedTip(NextRequest, served), filter_reuse |-> FALSE]]
    /\ UNCHANGED <<served, wallet, pinned, restarts>>

\* What the block of height h shows under the page's filter.
Shown(h) ==
    {c \in Coins : c.born = h /\ ~R!OmitOutput(h, [reused |-> FALSE, spent_height |-> c.spent], page.filter)}
Gone(h) ==
    {c \in Coins : c.spent = h /\ ~R!OmitSpend(h, [creation_height |-> c.born], page.filter)}

\* The wallet processes one block of the page and records it.
Process ==
    /\ next \in page.heights
    /\ coins' = (coins \cup Shown(next)) \ Gone(next)
    /\ next' = next + 1
    /\ UNCHANGED <<served, phase, pinned, page, restarts>>

\* The page is done.  An incomplete range continues at its next-start; after
\* a complete one the wallet goes on above the range, and without
\* cut-through unless its pinned tip is still ahead.
Continue ==
    /\ page # NoPage /\ next \notin page.heights
    /\ phase' = IF page.complete /\ ~PinTip THEN "follow" ELSE phase
    /\ next' = Q!NextStart(next - 1)
    /\ page' = NoPage
    /\ UNCHANGED <<served, pinned, coins, restarts>>

\* A restart, or a response lost on the way: the page is gone, what was
\* fully processed stays.
Restart ==
    /\ restarts < MaxRestarts
    /\ page # NoPage
    /\ page' = NoPage
    /\ restarts' = restarts + 1
    /\ UNCHANGED <<served, wallet, pinned>>

Client == ReadTip \/ (\E end \in SyncHeights : Fetch(end)) \/ Process \/ Continue

SyncNext == Advance \/ Client \/ Restart

SyncSpec == SyncInit /\ [][SyncNext]_syncVars

-----------------------------------------------------------------------------
\* Types of the wallet and its page (block_range).
TypeOK ==
    /\ served \in SyncHeights /\ phase \in {"start", "catchup", "follow"}
    /\ pinned \in {0} \cup SyncHeights /\ next \in Birthday..(MaxTip + 1)
    /\ coins \subseteq Coins /\ restarts \in 0..MaxRestarts
    /\ page.heights \subseteq Birthday..served /\ page.complete \in BOOLEAN

\* The wallet holds no coin that a block it has processed spends: no spend
\* is cut without its output (README: keeping cutthrough_start "prevents a
\* restart from changing which already-spent outputs were removed").
NoGhostCoins == \A c \in coins : c.spent >= next

\* The wallet has every coin created in the heights it has passed that the
\* served chain has not spent (should_omit_stored_output, next-start).
NoMissedCoins == \A c \in Coins : c.born < next /\ c.spent > served => c \in coins

\* A wallet that has begun arrives at the archive's last tip with exactly
\* its unspent coins, and keeps to them (next-start, range-complete).
CatchesUp ==
    phase # "start" ~> [](next = MaxTip + 1 /\ coins = {c \in Coins : c.spent = MaxTip + 1})
=============================================================================
