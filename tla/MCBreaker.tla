----------------------------- MODULE MCBreaker -----------------------------
(* Instance of TerminalBreaker for TLC. *)
EXTENDS TerminalBreaker
=============================================================================
