----------------------------- MODULE CutThrough -----------------------------
(***************************************************************************)
(* The two cut-through decisions of index.rs.  A filter f has              *)
(* cutthrough_start, cutthrough_tip and filter_reuse.  With cut-through    *)
(* from height S at tip T a response omits the outputs created at or after *)
(* S that are spent by T, and the spends of outputs created at or after S. *)
(***************************************************************************)
EXTENDS Integers

CONSTANTS
    None,        \* Option::None
    NeverSpent   \* STORAGE_SPENT_HEIGHT_UNSPENT

\* Variant: the cut-through tip is ignored.
OmitOutputAnyTip(height, output, f) ==
    \/ f.filter_reuse /\ output.reused
    \/ f.cutthrough_start # None /\ height >= f.cutthrough_start
       /\ output.spent_height # NeverSpent

\* Variant: an output spent at the cut-through tip itself is kept.
OmitOutputBelowTip(height, output, f) ==
    \/ f.filter_reuse /\ output.reused
    \/ /\ f.cutthrough_start # None
       /\ height >= f.cutthrough_start
       /\ output.spent_height # NeverSpent
       /\ f.cutthrough_tip # None => output.spent_height < f.cutthrough_tip

\* should_omit_stored_output: reuse-filtered, or created at or after the
\* boundary and spent by the cut-through tip.
OmitOutput(height, output, f) ==
    \/ f.filter_reuse /\ output.reused
    \/ /\ f.cutthrough_start # None
       /\ height >= f.cutthrough_start
       /\ output.spent_height # NeverSpent
       /\ f.cutthrough_tip # None => output.spent_height <= f.cutthrough_tip

\* Variant: the boundary itself is excluded.
OmitSpendAfter(height, spend, f) ==
    /\ f.cutthrough_start # None
    /\ f.cutthrough_tip # None => height <= f.cutthrough_tip
    /\ spend.creation_height > f.cutthrough_start

\* should_omit_stored_spend: the spent output was created at or after the
\* boundary.
OmitSpend(height, spend, f) ==
    /\ f.cutthrough_start # None
    /\ f.cutthrough_tip # None => height <= f.cutthrough_tip
    /\ spend.creation_height >= f.cutthrough_start
=============================================================================
