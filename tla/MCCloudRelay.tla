----------------------------- MODULE MCCloudRelay -----------------------------
(* Instances of CloudRelay for TLC. *)
EXTENDS CloudRelay

=============================================================================
