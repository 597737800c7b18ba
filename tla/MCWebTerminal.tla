---------------------------- MODULE MCWebTerminal ----------------------------
(* One connection of one connector, and two clients that send commands. *)
EXTENDS WebTerminal
=============================================================================
