---------------------------- MODULE LightRequest ----------------------------
(***************************************************************************)
(* The pure parts of the block handlers of server.rs: which requests are   *)
(* accepted, the range and the cut-through tip they resolve to, and what   *)
(* the response says about its own completeness and cacheability.          *)
(*                                                                         *)
(* A request r has start, count, cutthrough_start and cutthrough_tip; the  *)
(* boolean cutthrough=true is cutthrough_start = start.                    *)
(***************************************************************************)
EXTENDS Integers

CONSTANT None   \* Option::None

Least(m, n) == IF m <= n THEN m ELSE n

\* resolve_cutthrough_tip.
ResolvedTip(r, tip_height) ==
    IF r.cutthrough_start = None THEN None
    ELSE IF r.cutthrough_tip = None THEN tip_height ELSE r.cutthrough_tip

\* requested_end: the requested count, clipped at the served tip.
RequestedEnd(r, tip_height) == Least(r.start + r.count - 1, tip_height)

\* The checks of single_block and block_range that refuse a request.
Acceptable(r, tip_height) ==
    /\ r.start <= tip_height
    /\ r.cutthrough_start # None =>
          /\ r.cutthrough_start <= tip_height
          /\ ResolvedTip(r, tip_height) >= r.cutthrough_start
          /\ ResolvedTip(r, tip_height) <= tip_height
          /\ RequestedEnd(r, tip_height) <= ResolvedTip(r, tip_height)

\* x-bitcoindata-range-complete, when the last block sent has height end.
Complete(r, tip_height, end) == end >= RequestedEnd(r, tip_height)

\* Variant: the block after the next one.
NextStartSkips(end) == end + 2

\* x-bitcoindata-next-start of an incomplete range.
NextStart(end) == end + 1

\* Variant: a cut-through response is cached like any other.
CacheableAlways(r, tip_height, height, finality_depth) ==
    tip_height - height >= finality_depth

\* filtered_cache_control: "immutable" needs depth below the served tip and,
\* with cut-through, an explicit tip.
Cacheable(r, tip_height, height, finality_depth) ==
    /\ r.cutthrough_start # None => r.cutthrough_tip # None
    /\ tip_height - height >= finality_depth
=============================================================================
