--------------------------- MODULE MC_SlidingFilter ---------------------------
(* Values of the constants of SlidingFilter.                               *)
EXTENDS SlidingFilter

OneDirty == {4}
=============================================================================
