-------------------------- MODULE MCTerminalWindows --------------------------
(* Instances of TerminalWindows for TLC. *)
EXTENDS TerminalWindows

=============================================================================
