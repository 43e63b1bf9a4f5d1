----------------------------- MODULE MCDraftSync -----------------------------
(* Instances of DraftSync for TLC.  Windows are alike. *)
EXTENDS DraftSync, TLC

WindowSymmetry == Permutations(Windows)

=============================================================================
