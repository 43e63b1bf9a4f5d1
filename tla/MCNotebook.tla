------------------------------ MODULE MCNotebook ------------------------------
(* Instances of Notebook for TLC. *)
EXTENDS Notebook

=============================================================================
