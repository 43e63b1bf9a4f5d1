------------------------- MODULE MCReplayCheckpoint -------------------------
(* Instances of ReplayCheckpoint for TLC. *)
EXTENDS ReplayCheckpoint

=============================================================================
