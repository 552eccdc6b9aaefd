--------------------------- MODULE MC_VMController ---------------------------
(* Model-checking instance of VMController.                                *)
EXTENDS VMController

\* A reconcile with at most one lost status write, and room for the
\* re-execution that loss allows (and one more, to see a second rerun).
MCMaxLost == 1
MCMaxRuns == 3

=============================================================================
