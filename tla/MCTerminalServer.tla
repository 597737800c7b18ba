-------------------------- MODULE MCTerminalServer --------------------------
EXTENDS TerminalServer, TLC

Symmetry == Permutations(Channels) \cup Permutations(Requests)
=============================================================================
